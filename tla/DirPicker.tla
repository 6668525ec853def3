----------------------------- MODULE DirPicker ------------------------------
(***************************************************************************)
(* The choice of a remote directory in the mini-program: the picker of the *)
(* server form, and the reading of one directory over SSH that it waits    *)
(* for. The two parts are modelled apart.                                  *)
(***************************************************************************)
EXTENDS Naturals, FiniteSets, FiniteSetsExt, Sequences, SequencesExt

-----------------------------------------------------------------------------
(***************************************************************************)
(* The server page of the mini-program (pages/server-settings): its form   *)
(* with the autosave timer, and the directory picker with its tree, the    *)
(* readings under way, and the cache of root directories read ahead, which *)
(* outlives the page.                                                      *)
(* A remote has one chain of directories, "~" (0), "~/1" (1) and so on, of *)
(* the depth Depth gives; a reading ends with names or fails.              *)
(* What a promise resumes runs before the next event of the user.          *)
(***************************************************************************)
CONSTANTS Hosts, None,
          NoHost,      \* the host field left empty: the form does not validate
          Deep,        \* the deepest directory of any host
          Depth,       \* the depth of a host's chain: [Hosts -> 0 .. Deep]
          MaxEntries,  \* ROOT_DIR_PREFETCH_CACHE_MAX_ENTRIES
          MaxSeq,      \* bound: openings, closings and pages
          MaxPrefetch, \* bound: readings ahead at a time
          EditsOpen,   \* the host is edited while the picker is open
          Looses,      \* whether fields are left with a blank at their end: subset of BOOLEAN
          Paths        \* directories typed into the form

VARIABLES page,      \* "shown", "hidden" under another page, "gone"
          draft,     \* formDraft: [host, loose, path]; loose: typed with a blank at its end
          pickerTyped,     \* the host field as the user left it
          stored,    \* the server in storage
          autosave,  \* the form the timer holds
          cache,     \* rootDirPrefetchCache by the form's server: None or
                     \* [from: whose names, fresh, at: order of writing, flight]
          prefetch,  \* readings ahead under way: [id, host]
          seq,       \* directoryPickerSeq
          visible, loading, error, selected,
          tree,      \* directoryRoot: [opened: by which opening, host: its form's, node: [0 .. Deep -> Node]]
          tasks      \* asynchronous handlers: [by, seq, host, target, at, dir, asked]

form == <<page, draft, pickerTyped, stored, autosave>>
ahead == <<cache, prefetch>>
picker == <<seq, visible, loading, error, selected, tree>>
pickerVars == <<form, ahead, picker, tasks>>

Dirs == 0 .. Deep
Absent == [here |-> FALSE, from |-> None, loading |-> FALSE, expanded |-> FALSE]
Node == [here : BOOLEAN, from : Hosts \cup {None}, loading : BOOLEAN, expanded : BOOLEAN]
Forms == [host : Hosts \cup {NoHost}, loose : BOOLEAN, path : Dirs]
NoEntry == [from |-> None, fresh |-> FALSE, at |-> 0, flight |-> 0]

\* normalizeServerForm: fields are trimmed
Normal(f) == [f EXCEPT !.loose = FALSE]
Valid(f) == f.host # NoHost

(* reading the root directory ahead *)

Known == {h \in Hosts : cache[h] # None}
\* the oldest entries go, one that has never had a result first
Pruned(c) ==
  LET keys == {h \in Hosts : c[h] # None}
      Oldest(k) == CHOOSE h \in k : \A g \in k : c[h].at <= c[g].at
  IN IF Cardinality(keys) <= MaxEntries THEN c
     ELSE [c EXCEPT ![Oldest(keys)] = None]
\* updatedAt in order: one more than any
Latest == IF Known = {} THEN 1 ELSE 1 + Max({cache[h].at : h \in Known})
Ranked(c) ==
  [h \in Hosts |-> IF c[h] = None \/ c[h].at = 0 THEN c[h]
                   ELSE [c[h] EXCEPT !.at = Cardinality({g \in Hosts : c[g] # None /\ c[g].at \in 1 .. c[h].at})]]
WithFlight(c, h, id) == [c EXCEPT ![h] = [(IF @ = None THEN NoEntry ELSE @) EXCEPT !.flight = id]]

\* writeRootPrefetchResult under the form of the reading, then the finally of the reading
Result(h) ==
  WithFlight(Pruned([cache EXCEPT ![h] = [from |-> h, fresh |-> TRUE, at |-> Latest, flight |-> 0]]), h, 0)

LookupIds == 1 .. MaxPrefetch
FreeIds == LookupIds \ {p.id : p \in prefetch}
Fresh(h) == cache[h] # None /\ cache[h].fresh
FlightAny(h) == Max({0} \cup {cache[g].flight : g \in Known})
Flight(h) == IF cache[h] = None THEN 0 ELSE cache[h].flight

\* prefetchRootDirectory for a form
Prefetches(f) ==
  IF ~Valid(f) \/ Fresh(f.host) \/ Flight(f.host) # 0 \/ FreeIds = {} THEN UNCHANGED ahead
  ELSE LET id == CHOOSE i \in FreeIds : TRUE IN
       prefetch' = prefetch \cup {[id |-> id, host |-> f.host]} /\ cache' = WithFlight(cache, f.host, id)

\* it ends; an opening that awaits it resumes
PrefetchEnds(p, ok) ==
  /\ p \in prefetch /\ prefetch' = prefetch \ {p}
  /\ cache' = Ranked(IF ok THEN Result(p.host) ELSE WithFlight(cache, p.host, 0))
  /\ tasks' = {IF t.at = "flight" /\ t.dir = p.id
                 THEN [t EXCEPT !.at = "root", !.dir = 0, !.asked = IF ok THEN p.host ELSE None]
                 ELSE t : t \in tasks}
  /\ UNCHANGED <<form, picker>>

\* 45 seconds pass
Ages(h) ==
  /\ Fresh(h) /\ cache' = [cache EXCEPT ![h].fresh = FALSE]
  /\ UNCHANGED <<form, prefetch, picker, tasks>>

PickerInit ==
  /\ page = "shown"
  /\ draft \in {f \in Forms : ~f.loose /\ f.host # NoHost /\ f.path \in Paths} /\ pickerTyped = <<draft.host, FALSE>>
  /\ stored = draft /\ autosave = None
  /\ prefetch = {[id |-> 1, host |-> draft.host]}
  /\ cache = [h \in Hosts |-> IF h = draft.host THEN [NoEntry EXCEPT !.flight = 1] ELSE None]
  /\ seq = 0 /\ visible = FALSE /\ loading = FALSE /\ error = FALSE /\ selected = 0
  /\ tree = None /\ tasks = {}

(* the form *)

Quiet == \A t \in tasks : t.at \in {"flight", "list"}
Schedules(f) == autosave' = f

EditHost(h, loose) ==
  /\ Quiet /\ page = "shown" /\ (visible => EditsOpen) /\ (loose => h # NoHost)
  /\ draft' = [draft EXCEPT !.host = h, !.loose = loose] /\ draft' # draft
  /\ pickerTyped' = <<h, loose>> /\ Schedules(draft')
  /\ UNCHANGED <<page, stored, ahead, picker, tasks>>

EditPath(d) ==
  /\ Quiet /\ page = "shown" /\ draft.path # d
  /\ draft' = [draft EXCEPT !.path = d] /\ Schedules(draft')
  /\ UNCHANGED <<page, pickerTyped, stored, ahead, picker, tasks>>

\* persistForm: stored normalised, and the form with it
Persists(f) == stored' = Normal(f) /\ draft' = Normal(f) /\ autosave' = None

AutoSave ==
  /\ Quiet /\ autosave # None /\ Persists(autosave)
  /\ UNCHANGED <<page, pickerTyped, ahead, picker, tasks>>

\* the save button, and the connect button, which goes on to the terminal if the form validates
Save ==
  /\ Quiet /\ page = "shown" /\ Persists(draft)
  /\ page' \in (IF Valid(draft) THEN {"shown", "hidden"} ELSE {"shown"})
  /\ UNCHANGED <<pickerTyped, ahead, picker, tasks>>

\* another page on top, and back: onShow
Leave == /\ Quiet /\ page = "shown" /\ page' = "hidden"
         /\ UNCHANGED <<draft, pickerTyped, stored, autosave, ahead, picker, tasks>>
Show ==
  /\ Quiet /\ page = "hidden" /\ page' = "shown" /\ Prefetches(Normal(draft))
  /\ UNCHANGED <<draft, pickerTyped, stored, autosave, picker, tasks>>

\* onUnload: the timer is dropped, the readings find another number
Unload ==
  /\ Quiet /\ page = "shown" /\ seq < MaxSeq
  /\ page' = "gone" /\ autosave' = None /\ seq' = seq + 1
  /\ UNCHANGED <<draft, pickerTyped, stored, ahead, visible, loading, error, selected, tree, tasks>>

\* the page again (onLoad, onShow): a new one, whose handlers are not those of the old
Load ==
  /\ Quiet /\ page = "gone" /\ page' = "shown"
  /\ draft' = stored /\ pickerTyped' = <<stored.host, FALSE>> /\ autosave' = None
  /\ visible' = FALSE /\ loading' = FALSE /\ error' = FALSE /\ selected' = 0 /\ tree' = None /\ tasks' = {}
  /\ Prefetches(stored)
  /\ UNCHANGED <<stored, seq>>

(* the picker *)

Active(n) == page # "gone" /\ n = seq /\ visible
Closes ==
  /\ seq' = seq + 1 /\ visible' = FALSE /\ loading' = FALSE /\ error' = FALSE /\ tree' = None

\* onOpenDirectoryPicker, its first part: a second tap closes
Open ==
  /\ Quiet /\ page = "shown" /\ ~visible /\ seq < MaxSeq
  /\ draft' = Normal(draft)
  /\ IF ~Valid(draft) THEN UNCHANGED <<picker, tasks>>
     ELSE /\ seq' = seq + 1 /\ visible' = TRUE /\ loading' = TRUE /\ error' = FALSE
          /\ selected' = draft.path
          /\ tree' = [opened |-> seq + 1, host |-> draft.host,
                      node |-> [d \in Dirs |-> IF d = 0 THEN [Absent EXCEPT !.here = TRUE, !.expanded = TRUE]
                                                        ELSE Absent]]
          /\ LET task == [by |-> "open", seq |-> seq + 1, host |-> draft.host, target |-> draft.path,
                          at |-> "root", dir |-> 0, asked |-> None] IN
             tasks' = tasks \cup
               {CASE Fresh(draft.host) -> [task EXCEPT !.asked = cache[draft.host].from]
                  [] ~Fresh(draft.host) /\ Flight(draft.host) # 0 ->
                       [task EXCEPT !.at = "flight", !.dir = Flight(draft.host)]
                  [] OTHER -> task}
  /\ UNCHANGED <<page, pickerTyped, stored, autosave, ahead>>

\* onDirectoryPickerCancel
Cancel ==
  /\ Quiet /\ page = "shown" /\ visible /\ seq < MaxSeq /\ Closes
  /\ UNCHANGED <<form, ahead, selected, tasks>>

\* onDirectoryPickerConfirm: the button is off while loading
Confirm ==
  /\ Quiet /\ page = "shown" /\ visible /\ ~loading /\ seq < MaxSeq /\ Closes
  /\ draft' = [draft EXCEPT !.path = selected] /\ Schedules(draft')
  /\ UNCHANGED <<page, pickerTyped, stored, ahead, selected, tasks>>

\* rows: the root and what hangs on expanded directories
Shown(d) == tree # None /\ tree.node[d].here /\ \A e \in 0 .. d : e < d => tree.node[e].expanded

Select(d) ==
  /\ Quiet /\ page = "shown" /\ visible /\ Shown(d) /\ selected # d /\ selected' = d
  /\ UNCHANGED <<form, ahead, seq, visible, loading, error, tree, tasks>>

\* ensureDirectoryNodeChildren begins a reading unless the node has its children or awaits them;
\* it asks the server the form names now
Asks(t, d) ==
  [t EXCEPT !.at = "list", !.dir = d, !.asked = draft.host]
Wants(d) == tree.node[d].here /\ ~tree.node[d].loading /\ tree.node[d].from = None

\* onDirectoryExpandTap
Tap(d) ==
  /\ Quiet /\ page = "shown" /\ visible /\ Shown(d)
  /\ LET open == ~tree.node[d].expanded
         task == [by |-> "tap", seq |-> seq, host |-> draft.host, target |-> d, at |-> "list", dir |-> d,
                  asked |-> draft.host]
     IN IF open /\ Wants(d)
          THEN /\ tree' = [tree EXCEPT !.node[d].expanded = TRUE, !.node[d].loading = TRUE]
               /\ tasks' = tasks \cup {task}
          ELSE tree' = [tree EXCEPT !.node[d].expanded = open] /\ UNCHANGED tasks
  /\ UNCHANGED <<form, ahead, seq, visible, loading, error, selected>>

\* children that came from host h
WithChildren(t, d, h) ==
  [t EXCEPT !.node = [e \in Dirs |->
     CASE e = d -> [t.node[d] EXCEPT !.from = h, !.loading = FALSE]
       [] e > d -> [Absent EXCEPT !.here = (e = d + 1 /\ d < Depth[h])]
       [] OTHER -> t.node[e]]]

\* the node a handler holds belongs to the tree it was taken from
Mine(t) == tree # None /\ tree.opened = t.seq

\* an opening goes on, the root being there or asked for
Root(t) ==
  /\ t \in tasks /\ t.at = "root"
  /\ IF ~Active(t.seq) THEN tasks' = tasks \ {t} /\ UNCHANGED <<error, tree>>
     ELSE IF t.asked # None
       THEN /\ tree' = (IF Mine(t) THEN WithChildren(tree, 0, t.asked) ELSE tree) /\ error' = FALSE
            /\ tasks' = (tasks \ {t}) \cup {[t EXCEPT !.at = "expand", !.dir = 0]}
       ELSE IF Wants(0)
         THEN /\ tree' = [tree EXCEPT !.node[0].loading = TRUE]
              /\ tasks' = (tasks \ {t}) \cup {Asks(t, 0)} /\ UNCHANGED error
         ELSE tasks' = (tasks \ {t}) \cup {[t EXCEPT !.at = "expand", !.dir = 0]} /\ UNCHANGED <<error, tree>>
  /\ UNCHANGED <<form, ahead, seq, visible, loading, selected>>

\* expandToDirectoryPath, one directory: at "expand" its children are looked at, then the next is asked for
Ends(t) == tasks' = tasks \ {t} /\ loading' = FALSE
Expand(t) ==
  /\ t \in tasks /\ t.at = "expand"
  /\ IF ~Active(t.seq) THEN tasks' = tasks \ {t} /\ UNCHANGED <<loading, tree>>
     ELSE IF t.dir >= t.target THEN Ends(t) /\ UNCHANGED tree
     ELSE IF ~tree.node[t.dir + 1].here
       THEN tree' = [tree EXCEPT !.node[t.dir].expanded = TRUE] /\ Ends(t)
       ELSE LET next == t.dir + 1
                opened == [tree EXCEPT !.node[t.dir].expanded = TRUE, !.node[next].expanded = TRUE]
            IN IF next < t.target /\ Wants(next)
                 THEN /\ tree' = [opened EXCEPT !.node[next].loading = TRUE]
                      /\ tasks' = (tasks \ {t}) \cup {Asks(t, next)} /\ UNCHANGED loading
                 ELSE /\ tree' = opened /\ UNCHANGED loading
                      /\ tasks' = (tasks \ {t}) \cup {[t EXCEPT !.dir = next]}
  /\ UNCHANGED <<form, ahead, seq, visible, error, selected>>

\* a reading ends: listRemoteDirectories settles
Listed(t) ==
  /\ t \in tasks /\ t.at = "list" /\ t.asked # NoHost
  /\ IF ~Active(t.seq) THEN tasks' = tasks \ {t} /\ UNCHANGED <<error, tree>>
     ELSE /\ tree' = (IF Mine(t) THEN WithChildren(tree, t.dir, t.asked) ELSE tree) /\ error' = FALSE
          /\ tasks' = IF t.by = "open" THEN (tasks \ {t}) \cup {[t EXCEPT !.at = "expand"]} ELSE tasks \ {t}
  /\ UNCHANGED <<form, ahead, seq, visible, loading, selected>>

\* it fails: the node may be asked for again, the picker says so
NotListed(t) ==
  /\ t \in tasks /\ t.at = "list" /\ tasks' = tasks \ {t}
  /\ IF ~Active(t.seq) THEN UNCHANGED <<loading, error, tree>>
     ELSE /\ tree' = (IF Mine(t) THEN [tree EXCEPT !.node[t.dir].loading = FALSE] ELSE tree)
          /\ error' = TRUE /\ loading' = FALSE
  /\ UNCHANGED <<form, ahead, seq, visible, selected>>

User ==
  \/ \E h \in Hosts \cup {NoHost}, l \in Looses : EditHost(h, l)
  \/ \E d \in Paths : EditPath(d)
  \/ \E d \in Dirs : Select(d) \/ Tap(d)
  \/ AutoSave \/ Save \/ Leave \/ Show \/ Unload \/ Load \/ Open \/ Cancel \/ Confirm
Remote ==
  \/ Quiet /\ \E p \in prefetch, ok \in BOOLEAN : PrefetchEnds(p, ok)
  \/ Quiet /\ \E h \in Hosts : Ages(h)
  \/ Quiet /\ \E t \in tasks : Listed(t) \/ NotListed(t)
Resumes == \E t \in tasks : Root(t) \/ Expand(t)
PickerNext == User \/ Remote \/ Resumes

\* every reading ends, and promises resume
ReadingAheadEnds == Quiet /\ \E p \in prefetch, ok \in BOOLEAN : PrefetchEnds(p, ok)
ReadingEnds == Quiet /\ \E t \in tasks : Listed(t) \/ NotListed(t)
PickerFairness ==
  WF_pickerVars(Resumes) /\ WF_pickerVars(ReadingAheadEnds) /\ WF_pickerVars(ReadingEnds)

PickerSpec == PickerInit /\ [][PickerNext]_pickerVars

-----------------------------------------------------------------------------
\* Every variable has a value its code can hold: the form, the picker and its tree, the cache and the readings.
PickerTypeOK ==
  /\ draft \in Forms /\ stored \in Forms /\ autosave \in Forms \cup {None}
  /\ \A h \in Hosts : cache[h] = None \/ cache[h].flight \in {0} \cup LookupIds
  /\ tree = None \/ tree.node \in [Dirs -> Node]

\* What was read ahead for one server is never shown for another (the key of rootDirPrefetchCache),
\* whatever the form says when the answer comes.
CacheOfItsServer == \A h \in Known : cache[h].from \in {None, h}

\* While the form is left alone every directory in the tree comes from the server the picker was
\* opened for.
TreeOfItsServer == visible => \A d \in Dirs : tree.node[d].from \in {None, tree.host}

\* A server's root directory is read ahead once at a time (readRootPrefetchInFlight).
OnePrefetchPerServer == \A p, q \in prefetch : p.host = q.host => p = q

\* The cache keeps no more results than it may.
ResultsBounded == Cardinality({h \in Known : cache[h].from # None}) <= MaxEntries

\* The timer saves what the form holds: no edit, of the picker's or of a field's, is put back by an
\* older one.
TimerHoldsForm == autosave # None => Normal(autosave) = Normal(draft)

\* An opening is over, and its directory may be taken, when it has gone its way or a reading of the
\* same opening failed: never because an earlier one, cancelled meanwhile, ends
\* (isDirectoryPickerActive).
OverByItself ==
  [][(visible /\ loading /\ visible' /\ ~loading' /\ seq' = seq)
       => \E t \in tasks \ tasks' : t.seq = seq]_pickerVars

\* The picker stops loading, and so does every row of it.
PickerSettles ==
  /\ []<>~(visible /\ loading)
  /\ \A d \in Dirs : []<>(visible => ~tree.node[d].loading)

-----------------------------------------------------------------------------
(***************************************************************************)
(* One reading of a remote directory (remoteDirectory.js of the            *)
(* mini-program): a short connection through the gateway, one command, and *)
(* its answer picked out of everything the shell prints between two        *)
(* markers.  The remote prints tokens; a chunk of them arrives with each   *)
(* stdout frame, cut anywhere.  A token stands for a piece of a line, "nl" *)
(* for its end; "echo" is the command as the tty shows it, markers         *)
(* included.                                                               *)
(***************************************************************************)
CONSTANTS Listings,  \* what the directory may hold, as the remote prints it
          Hidden,    \* names that are dropped: marker-like, error-like, dotted
          Readline   \* the shell shows the line it reads although the tty has echoed it

Unread == <<"unread">>

VARIABLES hop,        \* "dialing", "hostkey", "shell", "ended": the gateway's progress
          connected, attempts,
          timer,      \* the overall timeout is set
          buffer, collecting, done, lines, \* the collector
          outcome,    \* "none", "names", "failed": how the promise is settled
          names,      \* what it is resolved with
          socket,     \* the client's connection is not closed by this side
          listing,    \* what the directory holds, <<"cderr">> if it cannot be entered
          shell,      \* "starting", "prompt", "ran"
          hangs,      \* the remote never gets to its prompt
          listingTyped,      \* the commands that reached the remote
          early,      \* one reached it before there was a shell
          out         \* printed and not delivered

collector == <<buffer, collecting, done, lines>>
remote == <<listing, shell, hangs, listingTyped, early>>
listingVars == <<hop, connected, attempts, timer, collector, outcome, names, socket, remote, out>>

ListingInit ==
  /\ hop = "dialing" /\ connected = FALSE /\ attempts = 0 /\ timer = TRUE
  /\ buffer = <<>> /\ collecting = FALSE /\ done = FALSE /\ lines = <<>>
  /\ outcome = "none" /\ names = Unread /\ socket = TRUE
  /\ listing \in Listings /\ shell = "starting" /\ hangs \in BOOLEAN /\ listingTyped = 0 /\ early = FALSE
  /\ out = <<>>

(* settling *)

\* cleanup: the timer is off and the connection closed
Cleanup == timer' = FALSE /\ socket' = FALSE
Resolve(list) == outcome = "none" /\ outcome' = "names" /\ names' = list /\ Cleanup
Reject == outcome = "none" /\ outcome' = "failed" /\ Cleanup /\ UNCHANGED names

(* the answer *)

\* the collector takes one line without its end: only a line that is a marker and nothing else
\* counts, an echo that shows one in the middle does not
TakesLine(c, line) ==
  IF ~c.collecting
    THEN [c EXCEPT !.collecting = (line = <<"begin">>)]
    ELSE IF line = <<"end">> THEN [c EXCEPT !.done = TRUE] ELSE [c EXCEPT !.lines = Append(@, line)]
\* consume: what does not end its line stays in the buffer
Consume(c, chunk) ==
  FoldLeft(LAMBDA k, t :
             IF k.done THEN k
             ELSE IF t = "nl" THEN [TakesLine(k, k.buffer) EXCEPT !.buffer = <<>>]
             ELSE [k EXCEPT !.buffer = Append(@, t)], c, chunk)

\* the names among the lines: each once, in the order the remote gave
Names(ls) ==
  LET flat == FoldLeft(LAMBDA all, l : all \o l, <<>>, ls) IN
  FoldLeft(LAMBDA all, n : IF n \in Hidden \/ Contains(all, n) THEN all ELSE Append(all, n), <<>>, flat)
CannotEnter(ls) == <<"cderr">> \in ToSet(ls)

\* a stdout frame with the first n tokens of what is due
Stdout(n) ==
  /\ hop = "shell" /\ socket /\ n <= Len(out)
  /\ out' = SubSeq(out, n + 1, Len(out))
  /\ LET c == Consume([buffer |-> buffer, collecting |-> collecting, done |-> done, lines |-> lines],
                      SubSeq(out, 1, n))
     IN /\ buffer' = c.buffer /\ collecting' = c.collecting /\ done' = c.done /\ lines' = c.lines
        /\ \/ ~c.done /\ UNCHANGED <<outcome, names, timer, socket>>
           \/ c.done /\ CannotEnter(c.lines) /\ Reject
           \/ c.done /\ ~CannotEnter(c.lines) /\ Resolve(Names(c.lines))
  /\ UNCHANGED <<hop, connected, attempts, remote>>

(* the gateway's other frames *)

\* connected with a fingerprint: a host key of some hop, not yet a shell
HostKey ==
  /\ hop = "dialing" /\ socket /\ hop' = "hostkey"
  /\ UNCHANGED <<connected, attempts, timer, collector, outcome, names, socket, remote, out>>

\* sendCommandAttempt: once, and only when connected; the tty echoes it at once
SendsCommand ==
  /\ attempts = 0 /\ attempts' = 1
  /\ listingTyped' = listingTyped + 1 /\ early' = (early \/ hop = "dialing")
  /\ out' = out \o <<"echo", "nl">>

OnConnected ==
  /\ hop = "hostkey" /\ socket /\ hop' = "shell"
  /\ connected' = TRUE /\ SendsCommand
  /\ UNCHANGED <<timer, collector, outcome, names, socket, listing, shell, hangs>>

\* an error frame, a disconnect frame before the answer is complete, the socket's close or error,
\* a connect that fails: each rejects
Breaks ==
  /\ socket /\ hop' = "ended" /\ Reject
  /\ UNCHANGED <<connected, attempts, collector, remote, out>>

\* the timeout
Expires ==
  /\ timer /\ Reject
  /\ UNCHANGED <<hop, connected, attempts, collector, remote, out>>

(* the remote *)

Greets ==
  /\ hop \in {"shell"} /\ shell = "starting" /\ ~hangs /\ shell' = "prompt"
  /\ out' = out \o <<"motd", "nl", "prompt">>
                \o (IF listingTyped > 0 /\ Readline THEN <<"echo", "nl">> ELSE <<>>)
  /\ UNCHANGED <<hop, connected, attempts, timer, collector, outcome, names, socket, listing, hangs, listingTyped, early>>

\* the list command (buildListCommand) between its markers
Printed == FoldLeft(LAMBDA all, n : all \o <<n, "nl">>, <<>>, listing)
Runs ==
  /\ shell = "prompt" /\ listingTyped > 0 /\ shell' = "ran"
  /\ out' = out \o <<"begin", "nl">> \o Printed \o <<"end", "nl", "prompt">>
  /\ UNCHANGED <<hop, connected, attempts, timer, collector, outcome, names, socket, listing, hangs, listingTyped, early>>

ListingNext ==
  \/ \E n \in 1 .. Len(out) : Stdout(n)
  \/ HostKey \/ OnConnected \/ Breaks \/ Expires \/ Greets \/ Runs

\* a timeout set does fire
ListingFairness == WF_listingVars(Expires)

ListingSpec == ListingInit /\ [][ListingNext]_listingVars
\* with a network that delivers and a remote that works, unless it hangs; nothing breaks it and the
\* answer is there in time
Prompt == /\ ListingInit /\ [][ListingNext /\ ~Breaks /\ ~Expires]_listingVars
          /\ WF_listingVars(HostKey) /\ WF_listingVars(OnConnected) /\ WF_listingVars(Greets) /\ WF_listingVars(Runs)
          /\ WF_listingVars(\E n \in 1 .. Len(out) : Stdout(n))

-----------------------------------------------------------------------------
\* Every variable has a value its code can hold: the collector, the promise and the remote.
ListingTypeOK ==
  /\ hop \in {"dialing", "hostkey", "shell", "ended"} /\ attempts \in 0 .. 1
  /\ outcome \in {"none", "names", "failed"} /\ shell \in {"starting", "prompt", "ran"}
  /\ {connected, timer, collecting, done, socket, hangs, early} \subseteq BOOLEAN

Visible == SelectSeq(listing, LAMBDA n : n \notin Hidden)

\* What a reading gives is what the remote has listed, however its output is cut into frames and
\* however often the command is echoed (createStdoutCollector).
NamesAreTheListing == outcome = "names" => names = Visible /\ listing # <<"cderr">>

\* The command is typed to a shell, once: never into the exchange of a hop's host key (onFrame).
TypedToAShell == ~early /\ listingTyped <= 1

\* A reading that is settled holds neither a timer nor a connection (finishResolve, finishReject).
Released == outcome # "none" => ~timer /\ ~socket

\* Every reading ends, whatever the remote does: the page waits for it.
Settled == outcome # "none"

\* A remote that works is read: a directory that is there gives its names.
Answered == ~hangs /\ listing # <<"cderr">> => outcome = "names"
=============================================================================
