----------------------------- MODULE WebServers -----------------------------
(***************************************************************************)
(* The servers of the web client and their credentials: the list with its  *)
(* editor, and what the connection page remembers of passwords and keys.   *)
(* The two parts are modelled apart.                                       *)
(***************************************************************************)
EXTENDS Naturals, SequencesExt, Sequences, FiniteSets

-----------------------------------------------------------------------------
(***************************************************************************)
(* The server list of the web client: the list in memory and the one       *)
(* stored in IndexedDB (serverStore.ts), and the page that removes, copies,*)
(* drags and saves servers (ConnectView.vue, ServerSettingsView.vue).      *)
(* IndexedDB commits the writes of one store in the order they were issued;*)
(* an operation goes on when its write has committed, and the browser may  *)
(* kill the tab in between.                                                *)
(* A server is its id, ids are in the order the store's keys are read in.  *)
(***************************************************************************)
CONSTANTS Servers,   \* server ids
          None,      \* no server: the empty string
          Used,      \* the operations the user performs
          Overlaps,  \* those that may run while another one waits
          MaxWrites  \* bound: writes issued and not committed

VARIABLES mem,       \* servers.value, in order
          loaded,    \* the bootstrap has finished
          selected,  \* selectedServerId
          checked,   \* selectedServerIds of the page
          drag,      \* the server being dragged and the one it is over
          remove,    \* the loop of the page over the servers to delete
          save,      \* a save or a copy that waits
          queue,     \* writes issued and not committed, oldest first
          disk,      \* what is stored: id -> sortOrder
          shown      \* history: the lists shown that are or may still be stored

serversVars == <<mem, loaded, selected, checked, drag, remove, save, queue, disk, shown>>

NoDrag == [src |-> None, over |-> None]
NoRemove == [pc |-> "idle", left |-> {}, now |-> None, next |-> <<>>]
NoSave == [pc |-> "idle", id |-> None]

IndexOf(s, id) == SelectInSeq(s, LAMBDA x : x = id)
Without(s, id) == SelectSeq(s, LAMBDA x : x # id)
Listed(id) == id \in ToSet(mem)
FirstOf(s) == IF s = <<>> THEN None ELSE s[1]

\* sortServersByStoredOrder over what toArray returns
Before(d, a, b) == d[a] < d[b] \/ (d[a] = d[b] /\ a < b)
Stored(d) == SetToSortSeq(DOMAIN d, LAMBDA a, b : Before(d, a, b))

\* ids the next server may take: those of servers long gone
Fresh == {id \in Servers : /\ ~Listed(id) /\ id \notin DOMAIN disk \cup {save.id, remove.now}
                           /\ \A i \in 1..Len(queue) : id \notin queue[i].ids}

Write(kind, by, order, ids) == [kind |-> kind, by |-> by, order |-> order, ids |-> ids]

\* a write carried out on what is stored
ApplyDelete(d, w) == [id \in DOMAIN d \ w.ids |-> d[id]]
ApplyBulk(d, w) == [id \in DOMAIN d \cup w.ids |-> IF id \in w.ids THEN IndexOf(w.order, id) ELSE d[id]]
Apply(d, w) == IF w.kind = "delete" THEN ApplyDelete(d, w) ELSE ApplyBulk(d, w)

InFlight == {queue[i].by : i \in 1..Len(queue)}
              \cup (IF remove.pc = "idle" THEN {} ELSE {"remove"})
              \cup (IF save.pc = "idle" THEN {} ELSE {"save"})
ServersQuiet == loaded /\ InFlight = {}
MayStart(op) ==
  /\ op \in Used /\ Len(queue) < MaxWrites
  /\ InFlight # {} => {op} \cup InFlight \subseteq Overlaps

PersistBehind(list, by) ==
  /\ mem' = list
  /\ checked' = checked \cap ToSet(list)
  /\ queue' = IF mem = <<>> THEN queue ELSE Append(queue, Write("put", by, mem, ToSet(mem)))
\* persistServerOrder: the list changes at once, its write is issued; the watch of the page
\* drops the checked servers that are gone
Persist(list, by) ==
  /\ mem' = list
  /\ checked' = checked \cap ToSet(list)
  /\ queue' = IF list = <<>> THEN queue ELSE Append(queue, Write("put", by, list, ToSet(list)))

ServersInit ==
  /\ mem = <<>> /\ loaded = FALSE /\ selected = None /\ checked = {}
  /\ drag = NoDrag /\ remove = NoRemove /\ save = NoSave
  /\ queue = <<>> /\ disk = <<>> /\ shown = {<<>>}

\* the first part of ensureBootstrapped: the list is read, or the sample server made
Bootstrap ==
  /\ mem = <<>> /\ ~loaded /\ queue = <<>>
  /\ \E id \in Servers :
       LET list == IF DOMAIN disk = {} THEN <<id>> ELSE Stored(disk)
       IN IF \A i \in 1..Len(list) : list[i] \in DOMAIN disk /\ disk[list[i]] = i
            THEN /\ mem' = list /\ loaded' = TRUE
                 /\ selected' = FirstOf(list) /\ UNCHANGED <<checked, queue>>
            ELSE Persist(list, "boot") /\ UNCHANGED <<loaded, selected>>
  /\ UNCHANGED <<drag, remove, save, disk>>
\* and its end
Bootstrapped ==
  /\ ~loaded /\ mem # <<>> /\ "boot" \notin InFlight
  /\ loaded' = TRUE /\ selected' = FirstOf(mem)
  /\ UNCHANGED <<mem, checked, drag, remove, save, queue, disk>>

Check(id) ==
  /\ "remove" \in Used /\ Listed(id)
  /\ checked' = IF id \in checked THEN checked \ {id} ELSE checked \cup {id}
  /\ UNCHANGED <<mem, loaded, selected, drag, remove, save, queue, disk>>
CheckAll ==
  /\ "remove" \in Used
  /\ checked' = IF mem # <<>> /\ checked = ToSet(mem) THEN {} ELSE ToSet(mem)
  /\ UNCHANGED <<mem, loaded, selected, drag, remove, save, queue, disk>>

\* deleteServer up to its first await
DeleteStarts(id, left) ==
  /\ remove' = [pc |-> "deleting", left |-> left \ {id}, now |-> id, next |-> Without(mem, id)]
  /\ queue' = Append(queue, Write("delete", "remove", <<>>, {id}))
\* remove of the page, confirmed by the user
RemoveChecked ==
  /\ loaded /\ MayStart("remove") /\ remove.pc = "idle" /\ checked # {}
  /\ \E id \in checked : DeleteStarts(id, checked)
  /\ UNCHANGED <<mem, loaded, selected, checked, drag, save, disk>>
\* the deletion has committed: the rest of deleteServer, up to its second await
Deleted ==
  /\ remove.pc = "deleting" /\ "remove" \notin {queue[i].by : i \in 1..Len(queue)}
  /\ Persist(remove.next, "remove")
  /\ remove' = [remove EXCEPT !.pc = "ordering"]
  /\ UNCHANGED <<loaded, selected, drag, save, disk>>
\* its end, and the next turn of the loop
RemovedOne ==
  /\ remove.pc = "ordering" /\ "remove" \notin {queue[i].by : i \in 1..Len(queue)}
  /\ selected' = IF selected = remove.now THEN FirstOf(mem) ELSE selected
  /\ IF remove.left = {}
       THEN checked' = {} /\ remove' = NoRemove /\ UNCHANGED queue
       ELSE (\E id \in remove.left : DeleteStarts(id, remove.left)) /\ UNCHANGED checked
  /\ UNCHANGED <<mem, loaded, drag, save, disk>>

\* saveServer: of a server in the list, of a draft, or of a copy
SaveServer(id) == IF Listed(id) THEN mem ELSE <<id>> \o mem
ServersSave(id, copied) ==
  /\ loaded /\ MayStart("save") /\ save.pc = "idle"
  /\ Persist(SaveServer(id), "save")
  /\ save' = [pc |-> IF copied THEN "copy" ELSE "form", id |-> id]
  /\ UNCHANGED <<loaded, selected, drag, remove, disk>>
\* the form is selected as soon as the list is stored, its credentials follow
FormSaved ==
  /\ save.pc = "form" /\ "save" \notin {queue[i].by : i \in 1..Len(queue)}
  /\ selected' = save.id /\ save' = NoSave
  /\ UNCHANGED <<mem, loaded, checked, drag, remove, queue, disk>>
\* the copy reads and stores credentials first
CopyStored ==
  /\ save.pc = "copy" /\ "save" \notin {queue[i].by : i \in 1..Len(queue)}
  /\ save' = [save EXCEPT !.pc = "credentials"]
  /\ UNCHANGED <<mem, loaded, selected, checked, drag, remove, queue, disk>>
CopyDone ==
  /\ save.pc = "credentials"
  /\ selected' = save.id /\ save' = NoSave
  /\ UNCHANGED <<mem, loaded, checked, drag, remove, queue, disk>>

DragStart(id) ==
  /\ "drag" \in Used /\ Listed(id) /\ drag = NoDrag
  /\ drag' = [src |-> id, over |-> None]
  /\ UNCHANGED <<mem, loaded, selected, checked, remove, save, queue, disk>>
DragMove(id) ==
  /\ drag.src # None /\ id # drag.over
  /\ drag' = [drag EXCEPT !.over = IF id = drag.src THEN None ELSE id]
  /\ UNCHANGED <<mem, loaded, selected, checked, remove, save, queue, disk>>

\* applyReorderByIds: dragged down it goes behind the target, dragged up before it
Reordered(src, over) ==
  LET rest == Without(mem, src)
      at == IndexOf(rest, over)
      down == IndexOf(mem, src) < IndexOf(mem, over)
  IN IF Listed(src) /\ Listed(over) THEN InsertAt(rest, IF down THEN at + 1 ELSE at, src) ELSE mem
\* applyServerOrder: nothing is written for an order that is already there
ApplyServerOrder(list) ==
  IF list = mem THEN UNCHANGED <<mem, checked, queue>> ELSE Persist(list, "drag")
DragUp ==
  /\ drag.src # None /\ MayStart("drag")
  /\ ApplyServerOrder(Reordered(drag.src, drag.over))
  /\ drag' = NoDrag
  /\ UNCHANGED <<loaded, selected, remove, save, disk>>
DragCancel ==
  /\ drag.src # None /\ drag' = NoDrag
  /\ UNCHANGED <<mem, loaded, selected, checked, remove, save, queue, disk>>

\* markConnected: the session of a server has come up
MarkConnected(id) ==
  /\ Listed(id) /\ MayStart("mark")
  /\ queue' = Append(queue, Write("put", "mark", mem, {id}))
  /\ UNCHANGED <<mem, loaded, selected, checked, drag, remove, save, disk>>

\* the oldest write commits
Commit ==
  /\ queue # <<>>
  /\ disk' = Apply(disk, Head(queue)) /\ queue' = Tail(queue)
  /\ UNCHANGED <<mem, loaded, selected, checked, drag, remove, save>>

\* the browser kills the tab, with the writes that have not committed
Crash ==
  /\ mem # <<>> \/ loaded
  /\ mem' = <<>> /\ loaded' = FALSE /\ selected' = None /\ checked' = {}
  /\ drag' = NoDrag /\ remove' = NoRemove /\ save' = NoSave /\ queue' = <<>>
  /\ UNCHANGED disk

Step ==
  \/ Bootstrap \/ Bootstrapped
  \/ \E id \in Servers : Check(id) \/ DragStart(id) \/ DragMove(id) \/ MarkConnected(id)
  \/ CheckAll
  \/ RemoveChecked \/ Deleted \/ RemovedOne
  \/ \E id \in ToSet(mem) : ServersSave(id, FALSE)
  \/ \E id \in Fresh, copied \in BOOLEAN : ServersSave(id, copied)
  \/ FormSaved \/ CopyStored \/ CopyDone
  \/ DragUp \/ DragCancel
  \/ Commit \/ Crash

\* the history: of the lists shown, those that are stored, about to be, or on the screen;
\* before the first list the one that is stored
Show ==
  shown' = IF mem' = <<>> /\ ~loaded' THEN {Stored(disk')}
           ELSE {mem'} \cup (shown \cap ({Stored(disk')} \cup {queue'[i].order : i \in 1..Len(queue')}))

ServersNext == Step /\ Show

ServersSpec == ServersInit /\ [][ServersNext]_serversVars

-----------------------------------------------------------------------------
\* Once nothing is in flight, reading the stored list gives the list on the screen: the same
\* servers in the same order, whatever was dragged, saved, deleted or connected meanwhile.
ReloadKeepsOrder == ServersQuiet => Stored(disk) = mem

\* Whenever the tab dies, what is stored is a list the user was shown, or the one a deletion
\* under way was about to show: never a mixture of two.
StoredWasShown ==
  Stored(disk) \in shown \cup (IF remove.pc = "deleting" THEN {remove.next} ELSE {})

\* Once nothing is in flight the active server is in the list, and there is one unless the
\* list is empty; what is checked for deletion is always in the list.
PointersAreListed ==
  /\ ServersQuiet => IF mem = <<>> THEN selected = None ELSE Listed(selected)
  /\ checked \subseteq ToSet(mem)

-----------------------------------------------------------------------------
(***************************************************************************)
(* The credentials of the web client: the reference and the encrypted row  *)
(* of a server in IndexedDB (serverStore.ts), the key in sessionStorage and*)
(* localStorage (credentialVault.ts), the settings page of a server that   *)
(* shows a mask in place of a stored secret (ServerSettingsView.vue) and   *)
(* the copy of a server (ConnectView.vue).                                 *)
(* Every step below runs up to the next await of the code; a tab may be    *)
(* closed or killed between any two.  The auth type is a private key.      *)
(***************************************************************************)
CONSTANTS Refs,      \* servers, which name their credentials too
          Secrets,   \* what a user may type
          Keys,      \* vault keys
          Policies,  \* credential memory policies the user may start with
          Hasty,     \* what the user does while something waits:
                     \*   "save" again, "reuse" the page for another server, "copy", "switch"
          MaxTasks   \* bound: loads and saves that wait

VARIABLES stored,    \* credentialRefs in IndexedDB
          refs,      \* credentialRefs in memory
          rows,      \* credentials: [ref, val, key]
          sess,      \* the key in the sessionStorage of the tab
          pers,      \* the key in localStorage
          policy,    \* credentialMemoryPolicy
          form,      \* the settings page
          tasks,     \* loads, saves and copies that wait
          last,      \* history: the secret the user means each server to have
          hurt       \* history: the servers a killed tab was saving

credVars == <<stored, refs, rows, sess, pers, policy, form, tasks, last, hurt>>

NoForm == [id |-> None, field |-> "empty", persisted |-> None, ready |-> FALSE]
Task(pc, ref, val, row, to) == [pc |-> pc, ref |-> ref, val |-> val, row |-> row, to |-> to]

RowsOf(ref) == {row \in rows : row.ref = ref}
CredQuiet == tasks = {}
\* a thing the user does only while nothing waits, unless hasty
Calm(what) == (CredQuiet \/ what \in Hasty) /\ Cardinality(tasks) < MaxTasks
InUse == {sess, pers} \cup {row.key : row \in rows}

Moved(t, u) == tasks' = (tasks \ {t}) \cup {u}
Ends(t) == tasks' = tasks \ {t}

\* getOrCreateSessionKey: the key in use afterwards, kept in both stores as the policy asks
Found == IF sess # None THEN sess ELSE pers
UseKey(key) ==
  /\ IF Found # None THEN key = Found ELSE key \in Keys \ InUse
  /\ sess' = key
  /\ pers' = IF policy = "remember" THEN key ELSE IF Found # None THEN None ELSE pers

CredInit ==
  /\ stored = {} /\ refs = {} /\ rows = {} /\ sess = None /\ pers = None
  /\ policy \in Policies
  /\ form = NoForm /\ tasks = {} /\ last = [r \in Refs |-> None] /\ hurt = {}

-----------------------------------------------------------------------------
\* the settings page

\* loadServer, up to the read of the row; the page of another server is a new one unless
\* the route changes under it
Open(ref) ==
  /\ IF form.id \notin {None, ref} THEN Calm("reuse") ELSE Calm("open")
  /\ form' = [form EXCEPT !.id = ref, !.ready = FALSE]
  /\ tasks' = tasks \cup {Task("load", ref, None, None, None)}
  /\ UNCHANGED <<stored, refs, rows, sess, pers, policy, last, hurt>>
LoadReads(t) ==
  /\ t.pc = "load"
  /\ \E row \in IF RowsOf(t.ref) = {} THEN {None} ELSE RowsOf(t.ref) :
       Moved(t, [t EXCEPT !.pc = "show", !.row = row])
  /\ UNCHANGED <<stored, refs, rows, sess, pers, policy, form, last, hurt>>
\* the rest of loadServer: the secret is kept aside and a mask is shown; a row that cannot be
\* decrypted leaves the form empty
Shows(secret) ==
  form' = [form EXCEPT !.persisted = secret, !.ready = TRUE,
                       !.field = IF secret = None THEN "empty" ELSE "mask"]
LoadShows(t) ==
  /\ t.pc = "show"
  /\ IF t.row = None
       THEN Shows(None) /\ UNCHANGED <<sess, pers>>
       ELSE \E key \in Keys :
              UseKey(key) /\ Shows(IF t.row.key = key THEN t.row.val ELSE None)
  /\ Ends(t)
  /\ UNCHANGED <<stored, refs, rows, policy, last, hurt>>

Type ==
  /\ form.ready
  /\ \E text \in Secrets \cup {"empty"} : text # form.field /\ form' = [form EXCEPT !.field = text]
  /\ UNCHANGED <<stored, refs, rows, sess, pers, policy, tasks, last, hurt>>

\* buildCredentialPayloadForSave: a field left alone stands for the secret kept aside
Payload == IF form.field \in Secrets THEN form.field ELSE form.persisted
\* validateCredential
Valid == form.field \in Secrets \/ form.persisted # None
\* save of the page; the list of servers is stored before saveCredential
CredSave ==
  /\ form.ready /\ Valid /\ Calm("save")
  /\ tasks' = tasks \cup {Task("put ref", form.id, Payload, None, form.id)}
  /\ last' = IF form.field \in Secrets \/ form.id \in hurt THEN [last EXCEPT ![form.id] = Payload] ELSE last
  /\ UNCHANGED <<stored, refs, rows, sess, pers, policy, form, hurt>>
\* back to the list; what still waits writes to a page that is gone
Leave ==
  /\ form.id # None /\ (CredQuiet \/ "copy" \in Hasty) /\ \A t \in tasks : t.pc \notin {"load", "show"}
  /\ form' = NoForm
  /\ tasks' = {[t EXCEPT !.to = IF t.pc = "copy" THEN @ ELSE None] : t \in tasks}
  /\ UNCHANGED <<stored, refs, rows, sess, pers, policy, last, hurt>>

-----------------------------------------------------------------------------
\* saveCredential of the store

PutRef(t) ==
  /\ t.pc = "put ref"
  /\ stored' = stored \cup {t.ref} /\ Moved(t, [t EXCEPT !.pc = "delete"])
  /\ UNCHANGED <<refs, rows, sess, pers, policy, form, last, hurt>>
DeleteRows(t) ==
  /\ t.pc = "delete"
  /\ rows' = rows \ RowsOf(t.ref) /\ Moved(t, [t EXCEPT !.pc = "encrypt"])
  /\ UNCHANGED <<stored, refs, sess, pers, policy, form, last, hurt>>
Encrypt(t) ==
  /\ t.pc = "encrypt"
  /\ \E key \in Keys :
       /\ UseKey(key)
       /\ Moved(t, [t EXCEPT !.pc = "put", !.row = [ref |-> t.ref, val |-> t.val, key |-> key]])
  /\ UNCHANGED <<stored, refs, rows, policy, form, last, hurt>>
\* the row is stored and the reference is in memory; the page that saved keeps the secret aside
PutRow(t) ==
  /\ t.pc = "put"
  /\ rows' = rows \cup {t.row} /\ refs' = refs \cup {t.ref} /\ Ends(t)
  /\ hurt' = hurt \ {t.ref}
  /\ form' = IF t.to # None /\ form.id # None THEN [form EXCEPT !.persisted = t.val] ELSE form
  /\ UNCHANGED <<stored, sess, pers, policy, last>>

-----------------------------------------------------------------------------
\* copyServer: the row of the source is read, decrypted, and saved for the copy

Copy(ref, to) ==
  /\ ref \in refs /\ Calm("copy") /\ form = NoForm
  /\ to \notin stored /\ last[to] = None /\ \A t \in tasks : t.ref # to
  /\ tasks' = tasks \cup {Task("copy", ref, None, None, to)}
  /\ last' = [last EXCEPT ![to] = IF ref \in hurt THEN None ELSE last[ref]]
  /\ UNCHANGED <<stored, refs, rows, sess, pers, policy, form, hurt>>
\* without a row there is nothing to copy; the user is told of a row that cannot be read
CopyReads(t) ==
  /\ t.pc = "copy"
  /\ IF RowsOf(t.ref) = {} THEN Ends(t) /\ UNCHANGED <<sess, pers, last>>
     ELSE \E row \in RowsOf(t.ref), key \in Keys :
            /\ UseKey(key)
            /\ IF row.key = key
                 THEN Moved(t, Task("put ref", t.to, row.val, None, None)) /\ UNCHANGED last
                 ELSE Ends(t) /\ last' = [last EXCEPT ![t.to] = None]
  /\ UNCHANGED <<stored, refs, rows, policy, form, hurt>>

-----------------------------------------------------------------------------
\* the settings store
Switch ==
  /\ "switch" \in Hasty
  /\ policy' \in {"remember", "forget"} \ {policy}
  /\ UNCHANGED <<stored, refs, rows, sess, pers, form, tasks, last, hurt>>

\* the tab ends: closed it loses its sessionStorage, reloaded it keeps it
TabEnds(closed) ==
  /\ sess' = IF closed THEN None ELSE sess
  /\ refs' = stored /\ form' = NoForm /\ tasks' = {}
  /\ hurt' = hurt \cup {IF t.pc = "copy" THEN t.to ELSE t.ref : t \in {u \in tasks : u.pc \notin {"load", "show"}}}
  /\ UNCHANGED <<stored, rows, pers, policy, last>>

CredNext ==
  \/ \E ref \in Refs : Open(ref)
  \/ Type \/ CredSave \/ Leave
  \/ \E t \in tasks : \/ LoadReads(t) \/ LoadShows(t)
                      \/ PutRef(t) \/ DeleteRows(t) \/ Encrypt(t) \/ PutRow(t)
                      \/ CopyReads(t)
  \/ \E ref, to \in Refs : ref # to /\ Copy(ref, to)
  \/ Switch
  \/ \E closed \in BOOLEAN : TabEnds(closed)

CredSpec == CredInit /\ [][CredNext]_credVars

-----------------------------------------------------------------------------
\* Once nothing waits, the only secret stored for a server is the one the user last typed for
\* it, or that of the server it is a copy of - never an older one, another server's or none -
\* unless a tab was killed in the middle of saving it, and then its old secret or none.
SavedIsIntended ==
  CredQuiet => \A ref \in Refs :
    last[ref] # None /\ ref \notin hurt => {row.val : row \in RowsOf(ref)} = {last[ref]}

\* However many saves overlap, the last of them leaves a secret of the server.
SavedIsThere ==
  CredQuiet => \A ref \in Refs : last[ref] # None /\ ref \notin hurt => RowsOf(ref) # {}

\* Under the policy that remembers, what is stored can be decrypted in any later tab.
Remembered ==
  CredQuiet /\ policy = "remember" => \A row \in rows : row.key = pers

\* A row nobody can read is found out: what the page keeps aside to stand for an untouched
\* field is a secret some row of that very server holds.
AsideIsStored ==
  CredQuiet /\ form.ready /\ form.persisted # None =>
    \E row \in RowsOf(form.id) : row.val = form.persisted
=============================================================================
