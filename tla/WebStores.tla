----------------------------- MODULE WebStores ------------------------------
(***************************************************************************)
(* What the web client keeps in the browser besides its servers: memos,    *)
(* session logs and settings. Each part is a store with the page that      *)
(* works on it; they share no state.                                       *)
(***************************************************************************)
EXTENDS Naturals, FiniteSetsExt, SequencesExt, FiniteSets, Sequences

-----------------------------------------------------------------------------
(***************************************************************************)
(* The flash memos of the web client: the records in memory and in         *)
(* IndexedDB (voiceRecordStore.ts), the page that edits them with autosave,*)
(* categorises and deletes them (RecordsView.vue), and the voice panel that*)
(* adds one (TerminalVoiceInput.vue). The memory changes at once, the write*)
(* is issued behind it, writes commit in order, and what waits for a write *)
(* goes on when it has committed; the browser may kill the tab in between. *)
(***************************************************************************)
CONSTANTS Ids,       \* record ids
          None,      \* no record, no filter, no text: the empty string
          Texts,     \* contents
          Categories,\* categories a record may carry
          Offered,   \* those of the settings
          RecordsFallback,  \* the one that is always offered
          Default,   \* the one a new draft starts with
          PageSize,  \* records of a page
          Hasty,     \* the user goes on while a closing dialog waits for its write
          RecordsMaxWrites  \* bound: writes issued and not committed

VARIABLES mem,    \* records: id -> [text, category]
          recordsDisk,   \* what is stored
          queue,  \* writes issued and not committed, with what goes on behind them
          recordsLoaded, \* the bootstrap has finished
          at,     \* the page of the application: "records" or another one
          recordsPage, filter,
          edit,   \* the edit dialog and its draft
          recordsTimer,  \* editAutoSaveTimer
          quick,  \* quickCategoryRecordId
          swiped, \* swipedRecordId
          recordsWanted  \* history: the last content and category given to each record

recordsVars == <<mem, recordsDisk, queue, recordsLoaded, at, recordsPage, filter, edit, recordsTimer, quick, swiped, recordsWanted>>

Nothing == [k \in {} |-> None]
NoEdit == [id |-> None, text |-> None, category |-> Default]
Record(text, category) == [text |-> text, category |-> category]
RecordsWith(f, id, r) == [k \in DOMAIN f \cup {id} |-> IF k = id THEN r ELSE f[k]]
RecordsWithout(f, id) == [k \in DOMAIN f \ {id} |-> f[k]]

\* resolveDisplayCategory
Display(category) == IF category \in Offered THEN category ELSE RecordsFallback

\* search and paging; ids stand for the order of creation
Filtered(f, by) == {id \in DOMAIN f : by = None \/ f[id].category = by}
TotalPages(f, by) == LET n == Cardinality(Filtered(f, by)) IN IF n = 0 THEN 1 ELSE (n + PageSize - 1) \div PageSize
Shown(id) == at = "records" /\ id \in Filtered(mem, filter)
\* the watch on the number of pages
ToPage(p, f, by) == recordsPage' = (IF p > TotalPages(f, by) THEN TotalPages(f, by) ELSE p)

RecordsPut(id, r, by) == [kind |-> "put", id |-> id, rec |-> r, by |-> by]
Del(id) == [kind |-> "delete", id |-> id, rec |-> Record(None, None), by |-> "delete"]
Issue(w) == queue' = Append(queue, w)
Waiting(by) == \E i \in 1..Len(queue) : queue[i].by = by
Room == Len(queue) < RecordsMaxWrites
\* with a hasty user anything may happen while a dialog closes
Acts == Room /\ (Hasty \/ ~Waiting("close"))

\* computed editingRecord and quickCategoryRecord: a dialog of a record that is gone is not drawn
Editing == edit.id # None /\ edit.id \in DOMAIN mem
Choosing == quick # None /\ quick \in DOMAIN mem
Listing == at = "records" /\ ~Editing /\ ~Choosing

RecordsInit ==
  /\ \E category \in Categories :
       recordsDisk \in {Nothing, [id \in Ids |-> Record(CHOOSE t \in Texts : TRUE, category)]}
  /\ mem = Nothing /\ queue = <<>> /\ recordsLoaded = FALSE /\ at = "elsewhere" /\ recordsPage = 1 /\ filter = None
  /\ edit = NoEdit /\ recordsTimer = FALSE /\ quick = None /\ swiped = None /\ recordsWanted = recordsDisk

\* ensureBootstrapped, of whichever page comes first
Bootstrap ==
  /\ ~recordsLoaded /\ recordsLoaded' = TRUE /\ mem' = recordsDisk
  /\ UNCHANGED <<recordsDisk, queue, at, recordsPage, filter, edit, recordsTimer, quick, swiped, recordsWanted>>

\* addRecord: the voice panel has awaited the bootstrap
Add(id, text, category) ==
  /\ recordsLoaded /\ Room /\ at = "elsewhere" /\ id \notin DOMAIN mem \cup DOMAIN recordsDisk
  /\ \A i \in 1..Len(queue) : queue[i].id # id
  /\ mem' = RecordsWith(mem, id, Record(text, category))
  /\ Issue(RecordsPut(id, Record(text, category), "add"))
  /\ recordsWanted' = RecordsWith(recordsWanted, id, Record(text, category))
  /\ UNCHANGED <<recordsDisk, recordsLoaded, at, recordsPage, filter, edit, recordsTimer, quick, swiped>>

(* persistEditingRecord *)

\* it writes only a content that is there, when the draft differs from what is displayed
Dirty ==
  /\ Editing /\ edit.text # None
  /\ Record(edit.text, edit.category) # Record(mem[edit.id].text, Display(mem[edit.id].category))
SaveDraft(by) ==
  /\ mem' = RecordsWith(mem, edit.id, Record(edit.text, edit.category))
  /\ Issue(RecordsPut(edit.id, Record(edit.text, edit.category), by))

(* the list *)

TurnPage(by) ==
  /\ Listing /\ recordsPage + by \in 1..TotalPages(mem, filter) /\ recordsPage' = recordsPage + by
  /\ UNCHANGED <<mem, recordsDisk, queue, recordsLoaded, at, filter, edit, recordsTimer, quick, swiped, recordsWanted>>
ApplyFilter(category) ==
  /\ Listing /\ category # filter /\ filter' = category /\ recordsPage' = 1
  /\ UNCHANGED <<mem, recordsDisk, queue, recordsLoaded, at, edit, recordsTimer, quick, swiped, recordsWanted>>
\* a row slid open shows its button to delete
Swipe(id) ==
  /\ Listing /\ Shown(id) /\ swiped' = (IF swiped = id THEN None ELSE id)
  /\ UNCHANGED <<mem, recordsDisk, queue, recordsLoaded, at, recordsPage, filter, edit, recordsTimer, quick, recordsWanted>>

\* removeRecord: from the memory at once, then from the store
RemoveRecord(id) ==
  /\ Listing /\ Acts /\ Shown(id) /\ swiped = id /\ ~Waiting("delete")
  /\ mem' = RecordsWithout(mem, id)
  /\ ToPage(recordsPage, RecordsWithout(mem, id), filter)
  /\ Issue(Del(id)) /\ recordsWanted' = RecordsWithout(recordsWanted, id)
  /\ UNCHANGED <<recordsDisk, recordsLoaded, at, filter, edit, recordsTimer, quick, swiped>>

(* the category dialog *)

OpenQuick(id) ==
  /\ Listing /\ Acts /\ Shown(id) /\ quick' = id
  /\ UNCHANGED <<mem, recordsDisk, queue, recordsLoaded, at, recordsPage, filter, edit, recordsTimer, swiped, recordsWanted>>
CloseQuick ==
  /\ Choosing /\ at = "records" /\ quick' = None
  /\ UNCHANGED <<mem, recordsDisk, queue, recordsLoaded, at, recordsPage, filter, edit, recordsTimer, swiped, recordsWanted>>
ApplyQuick(category) ==
  /\ Choosing /\ at = "records" /\ Acts /\ category \in Offered
  /\ LET r == Record(mem[quick].text, category)
     IN /\ mem' = RecordsWith(mem, quick, r) /\ ToPage(recordsPage, RecordsWith(mem, quick, r), filter)
        /\ Issue(RecordsPut(quick, r, "quick")) /\ recordsWanted' = RecordsWith(recordsWanted, quick, r)
  /\ UNCHANGED <<recordsDisk, recordsLoaded, at, filter, edit, recordsTimer, quick, swiped>>

(* the edit dialog *)

OpenEdit(id) ==
  /\ Listing /\ Acts /\ Shown(id)
  /\ edit' = [id |-> id, text |-> mem[id].text, category |-> Display(mem[id].category)]
  /\ recordsTimer' = TRUE
  /\ UNCHANGED <<mem, recordsDisk, queue, recordsLoaded, at, recordsPage, filter, quick, swiped, recordsWanted>>
\* the watch on the draft schedules the autosave; an emptied draft stands for what is stored
Input(d) ==
  /\ Editing /\ at = "records" /\ Acts /\ d # edit
  /\ edit' = d /\ recordsTimer' = TRUE
  /\ recordsWanted' = RecordsWith(recordsWanted, d.id, IF d.text = None THEN mem[d.id] ELSE Record(d.text, d.category))
  /\ UNCHANGED <<mem, recordsDisk, queue, recordsLoaded, at, recordsPage, filter, quick, swiped>>

AutoSave ==
  /\ recordsTimer /\ Room /\ recordsTimer' = FALSE
  /\ IF Dirty THEN SaveDraft("save") /\ ToPage(recordsPage, mem', filter) ELSE UNCHANGED <<mem, queue, recordsPage>>
  /\ UNCHANGED <<recordsDisk, recordsLoaded, at, filter, edit, quick, swiped, recordsWanted>>

\* closeEditDialog: it waits for the flush if there is something to write
CloseAtOnce ==
  /\ Editing /\ at = "records" /\ Acts
  /\ recordsTimer' = FALSE /\ edit' = NoEdit
  /\ UNCHANGED <<mem, queue, recordsPage, recordsDisk, recordsLoaded, at, filter, quick, swiped, recordsWanted>>
CloseEdit ==
  /\ Editing /\ at = "records" /\ Acts
  /\ recordsTimer' = FALSE
  /\ IF Dirty THEN SaveDraft("close") /\ ToPage(recordsPage, mem', filter) /\ UNCHANGED edit
     ELSE edit' = NoEdit /\ UNCHANGED <<mem, queue, recordsPage>>
  /\ UNCHANGED <<recordsDisk, recordsLoaded, at, filter, quick, swiped, recordsWanted>>

\* pagehide and visibilitychange: the flush, the dialog stays
Hidden ==
  /\ at = "records" /\ Room /\ recordsTimer' = FALSE
  /\ IF Dirty THEN SaveDraft("save") /\ ToPage(recordsPage, mem', filter) ELSE UNCHANGED <<mem, queue, recordsPage>>
  /\ UNCHANGED <<recordsDisk, recordsLoaded, at, filter, edit, quick, swiped, recordsWanted>>

\* the page goes away with the flush, and is new when it comes back
Leave ==
  /\ at = "records" /\ Room /\ at' = "elsewhere"
  /\ recordsTimer' = FALSE /\ edit' = NoEdit /\ quick' = None /\ swiped' = None /\ recordsPage' = 1 /\ filter' = None
  /\ IF Dirty THEN SaveDraft("left") ELSE UNCHANGED <<mem, queue>>
  /\ UNCHANGED <<recordsDisk, recordsLoaded, recordsWanted>>
Enter ==
  /\ at = "elsewhere" /\ at' = "records"
  /\ UNCHANGED <<mem, recordsDisk, queue, recordsLoaded, recordsPage, filter, edit, recordsTimer, quick, swiped, recordsWanted>>

(* IndexedDB *)

Apply(d, w) == IF w.kind = "put" THEN RecordsWith(d, w.id, w.rec) ELSE RecordsWithout(d, w.id)

\* the oldest write commits, and what waited for it goes on; a page that has left is deaf to it
Commit ==
  /\ queue # <<>> /\ queue' = Tail(queue) /\ recordsDisk' = Apply(recordsDisk, Head(queue))
  /\ LET w == Head(queue)
         ends == at = "records" /\ (w.by = "close" \/ (w.by = "delete" /\ edit.id = w.id))
     IN /\ edit' = IF ends THEN NoEdit ELSE edit
        /\ recordsTimer' = IF ends THEN FALSE ELSE recordsTimer
        /\ quick' = IF w.by = "quick" \/ (w.by = "delete" /\ quick = w.id) THEN None ELSE quick
        /\ swiped' = IF w.by = "delete" THEN None ELSE swiped
  /\ UNCHANGED <<mem, recordsLoaded, at, recordsPage, filter, recordsWanted>>

\* the tab is killed with the writes that have not committed
Kill ==
  /\ recordsLoaded /\ mem' = Nothing /\ queue' = <<>> /\ recordsLoaded' = FALSE /\ at' = "elsewhere"
  /\ recordsPage' = 1 /\ filter' = None /\ edit' = NoEdit /\ recordsTimer' = FALSE /\ quick' = None /\ swiped' = None
  /\ recordsWanted' = recordsDisk /\ UNCHANGED recordsDisk

RecordsNext ==
  \/ Bootstrap \/ Enter \/ Leave \/ Hidden \/ AutoSave \/ CloseEdit \/ CloseQuick \/ Commit \/ Kill
  \/ \E by \in {0 - 1, 1} : TurnPage(by)
  \/ \E category \in Categories \cup {None} : ApplyFilter(category)
  \/ \E category \in Categories : ApplyQuick(category) \/ Input([edit EXCEPT !.category = Display(category)])
  \/ \E text \in Texts \cup {None} : Input([edit EXCEPT !.text = text])
  \/ \E id \in Ids :
       \/ Swipe(id) \/ RemoveRecord(id) \/ OpenQuick(id) \/ OpenEdit(id)
       \/ \E text \in Texts, category \in Offered : Add(id, text, category)

RecordsSpec == RecordsInit /\ [][RecordsNext]_recordsVars

-----------------------------------------------------------------------------
\* With no write on its way what is stored is what the page shows: a deleted memo is not put
\* back by a save that was behind it, and none is stored that the memory has lost.
StoreMatches == (recordsLoaded /\ queue = <<>>) => recordsDisk = mem

Displayed(f) == [id \in DOMAIN f |-> Record(f[id].text, Display(f[id].category))]

\* With no dialog open and no write on its way every memo is stored with the last content and
\* category it was given, whether the dialog was closed, hidden or left.
LastInputKept == (recordsLoaded /\ queue = <<>> /\ ~Editing) => Displayed(recordsDisk) = Displayed(recordsWanted)

\* The list never stands on a page beyond the last one, whatever was deleted or moved to
\* another category while the page was filtered.
PageExists == recordsLoaded => recordsPage <= TotalPages(mem, filter)

-----------------------------------------------------------------------------
(***************************************************************************)
(* The session logs of the web client: the list in memory and the one in   *)
(* IndexedDB (logStore.ts), read when the log page is first opened, and    *)
(* written by the connections of the session store (sessionStore.ts).      *)
(***************************************************************************)
CONSTANTS Logs,      \* session ids
          Ends,      \* how sessions end: "lost" (the socket closes), "told" (a disconnect frame),
                     \* "error", "refused", "manual", "switch", "killed"
          Reading,   \* whether sockets report while the log page reads
          MaxMarks   \* bound: commands marked in a log

VARIABLES logs,      \* logs.value: id -> [status, marks]
          logsDisk,      \* what is stored
          boot,      \* ensureBootstrapped: "no", "reading", "done"
          read,      \* what the read has seen
          current,   \* the session whose transport the store listens to
          used       \* ids of this and former tabs

logsVars == <<logs, logsDisk, boot, read, current, used>>

\* state is the store's, sock that of the transport: "none" before it is there,
\* "closing" if it went before the first frame; marked is markedConnected
Session(id) == [id |-> id, state |-> "connecting", sock |-> "none", marked |-> FALSE]
NoSession == [Session(None) EXCEPT !.state = "idle"]
Fresh(status) == [status |-> status, marks |-> 0]
Known(id) == id \in DOMAIN logs
LogsWith(f, id, log) == [k \in DOMAIN f \cup {id} |-> IF k = id THEN log ELSE f[k]]
Open == {"connecting", "connected"}

\* a log changed in memory and stored; a log that is not in memory is let go
LogsPut(id, log) ==
  IF Known(id) THEN logs' = LogsWith(logs, id, log) /\ logsDisk' = LogsWith(logsDisk, id, log)
  ELSE UNCHANGED <<logs, logsDisk>>
MarkStatus(id, status) == LogsPut(id, IF Known(id) THEN [logs[id] EXCEPT !.status = status] ELSE Fresh(status))
AddMarker(id) == LogsPut(id, IF Known(id) THEN [logs[id] EXCEPT !.marks = @ + 1] ELSE Fresh("connected"))

LogsInit ==
  /\ logs = <<>> /\ logsDisk = <<>> /\ boot = "no" /\ read = <<>>
  /\ current = NoSession /\ used = {}

\* the log page is opened; its read is behind the writes issued before it
OpenPage ==
  /\ boot = "no" /\ boot' = "reading" /\ read' = logsDisk
  /\ UNCHANGED <<logs, logsDisk, current, used>>
PageRead ==
  /\ boot = "reading" /\ boot' = "done" /\ logs' = read /\ read' = <<>>
  /\ UNCHANGED <<logsDisk, current, used>>

Heard == Reading \/ boot # "reading"

\* connect: the session before it is left without a word, the new one gets a log
Connect ==
  /\ Heard /\ (current.state \notin Open \/ "switch" \in Ends)
  /\ \E id \in Logs \ used :
       /\ logs' = LogsWith(logs, id, Fresh("connecting")) /\ logsDisk' = LogsWith(logsDisk, id, Fresh("connecting"))
       /\ current' = Session(id)
       /\ used' = used \cup {id}
  /\ UNCHANGED <<boot, read>>
\* transport.connect: the socket is open, the init frame is sent
Opened ==
  /\ current.state = "connecting" /\ current.sock = "none"
  /\ current' = [current EXCEPT !.sock = "open"]
  /\ UNCHANGED <<logs, logsDisk, boot, read, used>>
\* connect fails: no credentials, the transport does not come up, or is gone again
Refused ==
  /\ Heard /\ current.state = "connecting" /\ current.sock = "none" /\ "refused" \in Ends
  /\ MarkStatus(current.id, "error")
  /\ \E sock \in {"closed", "closing"} : current' = [current EXCEPT !.state = "error", !.sock = sock]
  /\ UNCHANGED <<boot, read, used>>
\* markConnectedState, once, at the first sign of the shell, also after an error
Connected ==
  /\ Heard /\ current.sock = "open" /\ ~current.marked
  /\ MarkStatus(current.id, "connected")
  /\ current' = [current EXCEPT !.state = "connected", !.marked = TRUE]
  /\ UNCHANGED <<boot, read, used>>
\* the transport reports that the socket has closed, or while it is open an error
\* or that the gateway disconnects; the listener stays, and more may follow
Lost(end) ==
  /\ Heard /\ current.sock \in {"open", "closing"} /\ end \in Ends
  /\ current.sock = "closing" => end = "lost"
  /\ LET status == IF end = "error" THEN "error" ELSE "disconnected"
     IN /\ MarkStatus(current.id, status)
        /\ current' = [current EXCEPT !.state = status, !.sock = IF end = "lost" THEN "closed" ELSE @]
  /\ UNCHANGED <<boot, read, used>>
\* disconnect: the listener is taken off before the socket reports its end
Disconnect ==
  /\ current # NoSession /\ (current.state \notin Open \/ "manual" \in Ends)
  /\ current' = NoSession
  /\ UNCHANGED <<logs, logsDisk, boot, read, used>>
\* sendCommand
SendCommand ==
  /\ Heard /\ current.state = "connected" /\ (Known(current.id) => logs[current.id].marks < MaxMarks)
  /\ AddMarker(current.id)
  /\ UNCHANGED <<boot, read, current, used>>

\* the tab ends while no session is open, or at any time
TabEnds ==
  /\ current.state \notin Open \/ "killed" \in Ends
  /\ logs' = <<>> /\ boot' = "no" /\ read' = <<>> /\ current' = NoSession
  /\ UNCHANGED <<logsDisk, used>>

LogsNext ==
  \/ OpenPage \/ PageRead
  \/ Connect \/ Opened \/ Connected \/ Refused \/ Disconnect \/ SendCommand \/ TabEnds
  \/ \E end \in {"lost", "told", "error"} : Lost(end)

LogsSpec == LogsInit /\ [][LogsNext]_logsVars

-----------------------------------------------------------------------------
\* Once the log page has read, it shows exactly what is stored; before that a session's own log
\* is in memory as it is stored.
PageShowsStored ==
  /\ boot = "done" => logs = logsDisk
  /\ \A id \in DOMAIN logs : id \in DOMAIN logsDisk /\ (boot # "reading" => logsDisk[id] = logs[id])

\* A stored log says a session is under way only while it is: whatever ended the session has
\* left its mark.
EndIsLogged ==
  \A id \in DOMAIN logsDisk :
    logsDisk[id].status \in Open => current.id = id /\ current.state \in Open

\* A log once stored is never lost, and only a session that is up is sent commands. One that
\* ended changes only as long as its socket is there, and comes back to life at most once:
\* when the shell is ready after all, for the first time.
LogsOnlyGrow ==
  [][\A id \in DOMAIN logsDisk :
       /\ id \in DOMAIN logsDisk'
       /\ LET was == logsDisk[id]
              is == logsDisk'[id]
          IN /\ was.marks <= is.marks
             /\ was.marks < is.marks => was.status = "connected"
             /\ was.status \notin Open /\ is.status # was.status =>
                  /\ id = current.id /\ current.sock \in {"open", "closing"}
                  /\ is.status \in Open => is.status = "connected" /\ ~current.marked]_logsVars

-----------------------------------------------------------------------------
(***************************************************************************)
(* The settings page of the web client (SettingsView.vue): a draft whose   *)
(* changes are saved by themselves 400 ms later, at once with a button,    *)
(* when the browser hides the page, and when it is left; over the settings *)
(* in memory and in IndexedDB (settingsStore.ts), which are read when the  *)
(* application starts, maybe after the page was opened.  IndexedDB commits *)
(* writes in the order they were issued, and one may fail.                 *)
(***************************************************************************)
CONSTANTS Names,     \* categories of memos
          SettingsFallback,  \* the one that is always there
          Usual,     \* the default while it is in the list
          Start,     \* the categories at first
          MaxCats,   \* MAX_VOICE_RECORD_CATEGORIES
          MaxEdits,  \* bound: edits
          MaxFails,  \* bound: writes that fail
          SettingsMaxWrites, \* bound: writes under way
          Also       \* what may happen besides: "early", "leave"

VARIABLES settingsDisk, writes,      \* IndexedDB, and the writes it has not committed
          settings, settingsLoaded,  \* the store
          settingsPage,              \* closed; waiting, before the settings are read; open
          draft, selected, settingsTimer, saveStatus,
          left,              \* a page that was left while it waited is still to go on
          stale,             \* the draft of one that went on: its listeners stay
          settingsWanted,            \* ghost: the settings as the user left them
          failed,            \* ghost: the last write to end failed
          edits, fails

store == <<settingsDisk, writes, settings, settingsLoaded, failed, fails>>
gone == <<left, stale>>
settingsVars == <<store, gone, settingsPage, draft, selected, settingsTimer, saveStatus, settingsWanted, edits>>

Presets == {"tide", "ember"}
Colours == Presets \cup {"own"}  \* those of a preset, or picked by hand
Numbers == {"low", "high"}
Typed == Numbers \cup {"odd"}    \* a field in the middle of being typed

DefaultOf(name, cats) ==
  IF name \in ToSet(cats) THEN name
  ELSE IF Usual \in ToSet(cats) THEN Usual ELSE cats[1]

\* normalizeGlobalSettings, and ensureVoiceRecordDefaultCategory of the draft
Normal(s) == [s EXCEPT !.number = IF @ \in Numbers THEN @ ELSE "low", !.def = DefaultOf(@, s.cats)]
Chosen(s, name) == IF name \in ToSet(s.cats) THEN name ELSE s.def

DefaultSettings ==
  [number |-> "low", preset |-> "tide", colour |-> "tide", cats |-> Start, def |-> DefaultOf(Usual, Start)]
Stored == {DefaultSettings, [DefaultSettings EXCEPT !.number = "high", !.preset = "ember", !.colour = "own"]}

SettingsInit ==
  /\ settingsDisk \in Stored /\ writes = <<>> /\ settings = DefaultSettings /\ settingsLoaded = FALSE
  /\ settingsPage = "closed" /\ draft = DefaultSettings /\ selected = DefaultSettings.def
  /\ settingsTimer = FALSE /\ saveStatus = "idle" /\ left = FALSE /\ stale = None
  /\ settingsWanted = settingsDisk /\ failed = FALSE /\ edits = 0 /\ fails = 0

(* saving *)

Write(s, mine, manual) == [val |-> Normal(s), mine |-> mine, manual |-> manual]
ManualSaving == \E i \in DOMAIN writes : writes[i].mine /\ writes[i].manual

\* save() for each of the writes, in order; the store has the last one
Saves(new) ==
  /\ Len(writes) + Len(new) <= SettingsMaxWrites
  /\ writes' = writes \o new
  /\ settings' = IF new = <<>> THEN settings ELSE Last(new).val
  /\ UNCHANGED <<settingsDisk, settingsLoaded, failed, fails>>

Fires ==
  /\ settingsTimer /\ settingsTimer' = FALSE
  /\ Saves(<<Write(draft, TRUE, FALSE)>>)
  /\ UNCHANGED <<gone, settingsPage, draft, selected, saveStatus, settingsWanted, edits>>

SaveNow ==
  /\ settingsPage = "open" /\ ~ManualSaving /\ settingsTimer' = FALSE
  /\ Saves(<<Write(draft, TRUE, TRUE)>>)
  /\ UNCHANGED <<gone, settingsPage, draft, selected, saveStatus, settingsWanted, edits>>

\* visibilitychange or pagehide: the listeners in the order they were added
Hides ==
  /\ (settingsPage = "open" \/ stale # None) /\ settingsTimer' = FALSE
  /\ Saves((IF stale = None THEN <<>> ELSE <<Write(stale, FALSE, FALSE)>>)
           \o (IF settingsPage = "open" THEN <<Write(draft, TRUE, FALSE)>> ELSE <<>>))
  /\ UNCHANGED <<gone, settingsPage, draft, selected, saveStatus, settingsWanted, edits>>

\* What persistDraftNow says of its end.
Told(failing) == IF failing THEN "error" ELSE "saved"

\* A write is committed or fails, and the page it is from is told.
WriteEnds(failing) ==
  /\ writes # <<>> /\ writes' = Tail(writes)
  /\ (failing => fails < MaxFails) /\ fails' = fails + (IF failing THEN 1 ELSE 0)
  /\ settingsDisk' = (IF failing THEN settingsDisk ELSE Head(writes).val) /\ failed' = failing
  /\ saveStatus' = (IF Head(writes).mine THEN Told(failing) ELSE saveStatus)
  /\ UNCHANGED <<settings, settingsLoaded, gone, settingsPage, draft, selected, settingsTimer, settingsWanted, edits>>

(* the life of the page *)

\* What onMounted makes of the settings.  The watchers of what it assigns run
\* before the page counts as initialized, and put no colours in.
Begun(s) == Normal(s)

Opens ==
  /\ settingsPage = "closed" /\ saveStatus' = "idle"
  /\ draft' = (IF settingsLoaded THEN Begun(settings) ELSE settings) /\ selected' = draft'.def
  /\ settingsPage' = (IF settingsLoaded THEN "open" ELSE "waiting")
  /\ UNCHANGED <<store, gone, settingsTimer, settingsWanted, edits>>

Bootstrapped ==
  /\ ~settingsLoaded /\ settingsLoaded' = TRUE /\ settings' = Normal(settingsDisk)
  /\ left' = FALSE /\ stale' = IF left THEN Begun(settings') ELSE stale
  /\ IF settingsPage = "waiting"
     THEN settingsPage' = "open" /\ draft' = Begun(settings') /\ selected' = draft'.def
     ELSE UNCHANGED <<settingsPage, draft, selected>>
  /\ UNCHANGED <<settingsDisk, writes, failed, fails, settingsTimer, saveStatus, settingsWanted, edits>>

\* Writes of a page that is gone tell it what became of them, not the next.
Orphaned(ws) == [i \in DOMAIN ws |-> [ws[i] EXCEPT !.mine = FALSE]]

\* onBeforeUnmount
Leaves ==
  /\ settingsPage = "open" /\ settingsPage' = "closed" /\ settingsTimer' = FALSE
  /\ Len(writes) < SettingsMaxWrites
  /\ writes' = Append(Orphaned(writes), Write(draft, FALSE, FALSE)) /\ settings' = Normal(draft)
  /\ UNCHANGED <<settingsDisk, settingsLoaded, failed, fails, gone, draft, selected, saveStatus, settingsWanted, edits>>

LeavesWaiting ==
  /\ "leave" \in Also /\ settingsPage = "waiting" /\ settingsPage' = "closed" /\ left' = TRUE
  /\ UNCHANGED <<store, stale, draft, selected, settingsTimer, saveStatus, settingsWanted, edits>>

\* The browser ends the page: some of the writes are committed, the rest is gone.
Killed ==
  /\ \E n \in 0..Len(writes) : settingsDisk' = IF n = 0 THEN settingsDisk ELSE writes[n].val
  /\ writes' = <<>> /\ settings' = DefaultSettings /\ settingsLoaded' = FALSE /\ settingsPage' = "closed"
  /\ draft' = DefaultSettings /\ selected' = DefaultSettings.def /\ settingsTimer' = FALSE
  /\ saveStatus' = "idle" /\ left' = FALSE /\ stale' = None
  /\ settingsWanted' = settingsDisk' /\ failed' = FALSE
  /\ UNCHANGED <<edits, fails>>

(* editing: the watcher of the draft starts the timer once initialized *)

Editable == (settingsPage = "open" \/ (settingsPage = "waiting" /\ "early" \in Also)) /\ edits < MaxEdits

Edit(new, chosen) ==
  /\ Editable /\ draft' = new /\ selected' = chosen
  /\ IF new = draft THEN UNCHANGED <<settingsTimer, settingsWanted, edits>>
     ELSE /\ settingsTimer' = (settingsTimer \/ settingsPage = "open")
          /\ settingsWanted' = Normal(new) /\ edits' = edits + 1
  /\ UNCHANGED <<store, gone, settingsPage, saveStatus>>

EnterNumber(v) == Edit([draft EXCEPT !.number = v], selected)
PickColour == Edit([draft EXCEPT !.colour = "own"], selected)
\* the watcher of the preset puts its colours in, once initialized
PickPreset(p) ==
  Edit([draft EXCEPT !.preset = p,
                     !.colour = IF settingsPage = "open" /\ p # draft.preset THEN p ELSE @], selected)

Select(c) == c \in ToSet(draft.cats) /\ Edit(draft, c)
SetDefault == selected # draft.def /\ Edit([draft EXCEPT !.def = selected], selected)
AddCategory(c) ==
  /\ c \notin ToSet(draft.cats) /\ Len(draft.cats) < MaxCats
  /\ Edit([draft EXCEPT !.cats = Append(@, c)], c)
SettingsWithout(c) == LET cats == SelectSeq(draft.cats, LAMBDA x : x # c)
                      IN [draft EXCEPT !.cats = cats, !.def = DefaultOf(@, cats)]
RemoveSelected ==
  /\ selected # SettingsFallback
  /\ LET new == SettingsWithout(selected) IN Edit(new, new.def)
\* a card is dragged to the place of another
DropAt(from, to) ==
  Edit([draft EXCEPT !.cats = InsertAt(RemoveAt(@, from), to, @[from])], draft.cats[from])

SettingsNext ==
  \/ Fires \/ SaveNow \/ Hides \/ Opens \/ Bootstrapped \/ Leaves \/ LeavesWaiting \/ Killed
  \/ \E b \in BOOLEAN : WriteEnds(b)
  \/ \E v \in Typed : EnterNumber(v)
  \/ PickColour \/ SetDefault \/ RemoveSelected
  \/ \E p \in Presets : PickPreset(p)
  \/ \E c \in Names : Select(c) \/ AddCategory(c)
  \/ \E i, j \in DOMAIN draft.cats : DropAt(i, j)

SettingsSpec == SettingsInit /\ [][SettingsNext]_settingsVars
-----------------------------------------------------------------------------
Sound(s) ==
  /\ IsInjective(s.cats) /\ Len(s.cats) <= MaxCats /\ {SettingsFallback, s.def} \subseteq ToSet(s.cats)
  /\ s.number \in Typed /\ s.preset \in Presets /\ s.colour \in Colours

\* Types.  The categories, in the draft and stored, are listed once each, with
\* the fallback; the default is one of them, and so is the one selected while
\* the page is open.
SettingsTypeOK ==
  /\ Sound(draft) /\ Sound(settings) /\ Sound(settingsDisk) /\ settingsDisk.number \in Numbers
  /\ (settingsPage # "closed" => selected \in ToSet(draft.cats))
  /\ settingsPage \in {"closed", "waiting", "open"} /\ saveStatus \in {"idle", "saved", "error"}
  /\ (settingsTimer => settingsPage = "open")

\* SettingsView.vue: each change of the draft is saved by itself, and what was
\* read is not taken for a change.  So once no timer and no write is left, what
\* is stored, and what the application goes by, is what the user last left,
\* colours of his own included, unless the last write failed.
EditsAreStored ==
  (settingsLoaded /\ ~settingsTimer /\ writes = <<>> /\ ~failed) => settingsDisk = settingsWanted /\ settings = settingsWanted

\* The page says that the settings are saved only when its last write was
\* committed: a write that failed earlier or ends later does not hide that.
SavedIsStored ==
  (settingsPage = "open" /\ saveStatus = "saved" /\ ~settingsTimer /\ writes = <<>>) => settingsDisk = Normal(draft)
=============================================================================
