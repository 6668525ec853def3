---------------------------- MODULE MiniSettings ----------------------------
(***************************************************************************)
(* The settings of the mini-program: the page that edits them, and the     *)
(* renaming of storage keys by a new release. The two parts are modelled   *)
(* apart.                                                                  *)
(***************************************************************************)
EXTENDS Naturals, Sequences, SequencesExt, FiniteSets

-----------------------------------------------------------------------------
(***************************************************************************)
(* The settings page of the mini-program (pages/settings): a form whose    *)
(* edits are saved by themselves 280 ms later, at once for most choices    *)
(* and for the memo categories, and again when the page is left; over a    *)
(* storage into which a download merges what the cloud has, and which is   *)
(* uploaded after each save.  The upload queue of the settings is one flag *)
(* here; MiniSync has the   queues and requests in detail.                 *)
(***************************************************************************)
CONSTANTS Names,     \* memo categories
          Fallback,  \* the one that is always there
          Usual,     \* the default category while it is in the list
          Start,     \* the categories at first
          MaxCats,   \* MAX_VOICE_RECORD_CATEGORIES
          None,
          MaxSaves,  \* bound: saves, here and on another phone
          Downloads, \* a download is on its way when the page opens
          Patient    \* a finger that begins a drag stays until the rectangles are there

VARIABLES form, visible, selected,
          status,        \* saveStatusText: synced, saving, saved
          pending,       \* pendingAutoSaveForm, None
          timer,         \* autoSaveTimer
          finger,        \* a finger is on the categories
          asked,         \* a drag waits for rectangles: None or [name, ids]
          drag,          \* dragRuntime with dragActive: None or [name, from, to, ids]
          locked,        \* dragTapLockUntil is not over
          stored,        \* the saved settings and their updatedAt
          cloud,         \* the same on the gateway
          pull,          \* the download under way: none, start, resume
          upload,        \* an upload is queued
          now,
          away           \* ghost: another phone saved while sync is off here

page == <<form, visible, selected, status, pending, timer>>
touch == <<finger, asked, drag, locked>>
sync == <<stored, cloud, pull, upload, now, away>>
settingsVars == <<page, touch, sync>>

(* the form *)

Numbers == {"low", "high"}
Typed == Numbers \cup {"odd"}  \* a field in the middle of being typed

DefaultOf(name, cats) ==
  IF name \in ToSet(cats) THEN name
  ELSE IF Usual \in ToSet(cats) THEN Usual ELSE cats[1]
\* normalizeForm and normalizeSettings; the lists below have no duplicates
Normal(f) == [f EXCEPT !.number = IF @ \in Numbers THEN @ ELSE "low",
                       !.def = DefaultOf(@, f.cats)]
Chosen(f, name) == IF name \in ToSet(f.cats) THEN name ELSE DefaultOf(f.def, f.cats)

Data(s) == [number |-> s.number, on |-> s.on, cats |-> s.cats, def |-> s.def]
Stamped(f, ts) == [number |-> f.number, on |-> f.on, cats |-> f.cats, def |-> f.def, ts |-> ts]

First == [number |-> "low", on |-> TRUE, cats |-> Start, def |-> DefaultOf(Usual, Start)]

SettingsInit ==
  /\ form = First /\ visible = TRUE /\ selected = First.def /\ status = "synced"
  /\ pending = None /\ timer = FALSE
  /\ finger = FALSE /\ asked = None /\ drag = None /\ locked = FALSE
  /\ stored = Stamped(First, 0) /\ cloud = Stamped(First, 0)
  /\ pull = (IF Downloads THEN "start" ELSE "none") /\ upload = FALSE /\ now = 0 /\ away = FALSE

(* saving *)

\* saveSettings: stamped with the time of the save; switched on again, a
\* download comes before the next upload
Saves(f) ==
  /\ now < MaxSaves /\ now' = now + 1
  /\ stored' = Stamped(Normal(f), now + 1)
  /\ IF ~stored.on /\ f.on THEN pull' = "resume" /\ upload' = FALSE
     ELSE upload' = f.on /\ UNCHANGED pull
  /\ UNCHANGED <<cloud, away>>
\* flushAutoSave
Flushes(f, silent) ==
  /\ Saves(f)
  /\ pending' = None /\ timer' = FALSE
  /\ status' = IF silent THEN status ELSE "saved"
\* scheduleAutoSave
Schedules(f) ==
  /\ pending' = Normal(f) /\ timer' = TRUE /\ status' = "saving"
  /\ UNCHANGED sync
InHand == IF pending # None THEN pending ELSE form

\* No other control is used by a finger that drags.
Free == visible /\ (Patient => ~finger)

Show ==
  /\ ~visible /\ visible' = TRUE
  /\ form' = Data(stored) /\ selected' = Chosen(form', None)
  /\ pending' = None /\ timer' = FALSE
  /\ finger' = FALSE /\ drag' = None /\ locked' = FALSE
  /\ UNCHANGED <<status, asked, sync>>

\* onHide; onUnload, after which a new page is opened
Leave(gone) ==
  /\ Free /\ ~finger
  /\ visible' = FALSE
  /\ Saves(InHand) /\ pending' = None /\ timer' = FALSE
  /\ status' = IF gone THEN "synced" ELSE status
  /\ UNCHANGED <<form, selected, touch>>

TabTap ==
  /\ Free /\ Flushes(InHand, TRUE)
  /\ UNCHANGED <<form, visible, selected, touch>>

TimerFires ==
  /\ timer /\ Flushes(InHand, FALSE)
  /\ UNCHANGED <<form, visible, selected, touch>>

\* onInput, onSwitch, onPickPaletteColor, a colour chosen from a list
Edit(f) ==
  /\ Free /\ f # form
  /\ form' = f /\ Schedules(f)
  /\ UNCHANGED <<visible, selected, touch>>
Input(v) == Edit([form EXCEPT !.number = v])
Switch == Edit([form EXCEPT !.on = ~@])

\* applySelectOption of another field
Pick(v) ==
  /\ Free
  /\ form' = [form EXCEPT !.number = v] /\ Flushes(form', FALSE)
  /\ UNCHANGED <<visible, selected, touch>>

(* memo categories *)

\* commitVoiceRecordForm
Commits(f, name) ==
  /\ form' = Normal(f) /\ selected' = name /\ Flushes(Normal(f), FALSE)
  /\ UNCHANGED visible

Select(name) ==
  /\ visible /\ drag = None /\ ~locked /\ name \in ToSet(form.cats)
  /\ selected' = name
  /\ UNCHANGED <<form, visible, status, pending, timer, touch, sync>>

SettingsAdd(name) ==
  /\ Free
  /\ IF name \in ToSet(form.cats)
     THEN selected' = name /\ UNCHANGED <<form, visible, status, pending, timer, sync>>
     ELSE /\ Len(form.cats) < MaxCats
          /\ Commits([form EXCEPT !.cats = Append(@, name)], name)
  /\ UNCHANGED touch

MakeDefault ==
  /\ Free /\ selected # form.def
  /\ Commits([form EXCEPT !.def = selected], selected)
  /\ UNCHANGED touch

\* the form without a category; its default moves to the first one left
Without(f, name) ==
  LET left == SelectSeq(f.cats, LAMBDA c : c # name) IN
  [f EXCEPT !.cats = left, !.def = IF @ = name THEN left[1] ELSE @]
RemoveSelected ==
  /\ Free /\ selected # Fallback /\ Len(form.cats) > 1
  /\ LET f == Without(form, selected) IN Commits(f, Chosen(f, None))
  /\ UNCHANGED touch

(* dragging a category *)

FingerDown ==
  /\ visible /\ ~finger /\ finger' = TRUE
  /\ UNCHANGED <<page, asked, drag, locked, sync>>

LongPress(name) ==
  /\ visible /\ finger /\ drag = None /\ asked = None
  /\ Len(form.cats) > 1 /\ name \in ToSet(form.cats)
  /\ asked' = [name |-> name, ids |-> form.cats]
  /\ UNCHANGED <<page, finger, drag, locked, sync>>

\* The rectangles are those of the cards there are now.
Rectangles ==
  /\ asked # None /\ asked' = None
  /\ IF Len(form.cats) # Len(asked.ids) THEN UNCHANGED <<drag, selected>>
     ELSE LET i == CHOOSE j \in 1..Len(asked.ids) : asked.ids[j] = asked.name IN
          /\ drag' = [name |-> asked.name, from |-> i, to |-> i, ids |-> asked.ids]
          /\ selected' = asked.name
  /\ UNCHANGED <<form, visible, status, pending, timer, finger, locked, sync>>

\* onVoiceRecordCategoryDragMove: the card whose middle is nearest
DragMove(i) ==
  /\ finger /\ drag # None /\ i \in 1..Len(drag.ids)
  /\ drag' = [drag EXCEPT !.to = i]
  /\ UNCHANGED <<page, finger, asked, locked, sync>>

\* buildVoiceCategoryDragOffsetMap: the order the cards are drawn in
Drawn(d) == InsertAt(RemoveAt(d.ids, d.from), d.to, d.name)

\* splice: past the end it appends
SpliceIn(s, i, x) == InsertAt(s, IF i > Len(s) THEN Len(s) + 1 ELSE i, x)
Placed(cats, d) == SpliceIn(SelectSeq(cats, LAMBDA c : c # d.name), d.to, d.name)

\* the finger is lifted: onVoiceRecordCategoryDragEnd
FingerUp ==
  /\ finger /\ (Patient => asked = None) /\ finger' = FALSE
  /\ drag' = None /\ locked' = (locked \/ drag # None)
  /\ IF /\ drag # None
        /\ drag.to # drag.from /\ drag.name \in ToSet(form.cats)
     THEN Commits([form EXCEPT !.cats = Placed(@, drag)], drag.name)
     ELSE UNCHANGED <<page, sync>>
  /\ UNCHANGED asked

Unlock ==
  /\ locked /\ locked' = FALSE
  /\ UNCHANGED <<page, finger, asked, drag, sync>>

(* the cloud *)

\* The answer of a download: mergeSettings, and for a resume the upload.
Downloaded ==
  /\ pull # "none" /\ pull' = "none"
  /\ stored' = IF stored.ts > cloud.ts THEN stored ELSE cloud
  /\ away' = IF stored.ts > cloud.ts THEN away ELSE FALSE
  /\ upload' = (stored'.on /\ (upload \/ pull = "resume"))
  /\ UNCHANGED <<page, touch, cloud, now>>

Uploaded ==
  /\ upload /\ upload' = FALSE
  /\ cloud' = IF stored.ts >= cloud.ts THEN stored ELSE cloud
  /\ UNCHANGED <<page, touch, stored, pull, now, away>>

OtherPhone(v) ==
  /\ Downloads /\ now < MaxSaves /\ now' = now + 1
  /\ cloud' = [cloud EXCEPT !.number = v, !.on = TRUE, !.ts = now + 1]
  /\ away' = (away \/ ~stored.on)
  /\ UNCHANGED <<page, touch, stored, pull, upload>>

SettingsNext ==
  \/ Show \/ TabTap \/ TimerFires \/ Switch
  \/ \E gone \in BOOLEAN : Leave(gone)
  \/ \E v \in Typed : Input(v)
  \/ \E v \in Numbers : Pick(v) \/ OtherPhone(v)
  \/ \E c \in Names : Select(c) \/ SettingsAdd(c) \/ LongPress(c)
  \/ MakeDefault \/ RemoveSelected
  \/ FingerDown \/ Rectangles \/ FingerUp \/ Unlock
  \/ \E i \in 1..MaxCats : DragMove(i)
  \/ Downloaded \/ Uploaded

SettingsSpec == SettingsInit /\ [][SettingsNext]_settingsVars
-----------------------------------------------------------------------------
Sound(s) ==
  /\ IsInjective(s.cats) /\ Len(s.cats) <= MaxCats
  /\ {Fallback, s.def} \subseteq ToSet(s.cats)

\* Types.  The list of categories, in the form and saved, has each category
\* once, always the fallback, and the default is in it; so is the
\* chosen one, unless a drag whose finger has left chooses it late.
SettingsTypeOK ==
  /\ form.number \in Typed /\ stored.number \in Numbers /\ cloud.number \in Numbers
  /\ Sound(form) /\ Sound(stored)
  /\ (Patient => selected \in ToSet(form.cats))
  /\ timer = (pending # None)
  /\ status \in {"synced", "saving", "saved"} /\ pull \in {"none", "start", "resume"}

\* What the form shows is what is saved, whenever no save is outstanding or the
\* page says it is saved, and after the page is left: with every way an edit
\* can be overtaken by another edit, a tab, a choice or the page's end.
ShownIsStored == ~timer \/ status = "saved" => Data(stored) = Normal(form)

\* When the finger is lifted the categories are in the order they were drawn in.
DropsWhereDrawn == [][drag # None /\ drag' = None => form'.cats = Drawn(drag)]_settingsVars
-----------------------------------------------------------------------------

-----------------------------------------------------------------------------
(***************************************************************************)
(* The local storage of the mini-program (utils/storage.js), for one of    *)
(* its lists: a key whose name carries a version, a backup under a name    *)
(* that stays, and keys of former versions.  The first use in a process    *)
(* restores a key that is missing.  The storage may be full when a value   *)
(* is written, and WeChat may end the process between two writes; a new    *)
(* release may give the key a new name.  Reads do not fail.                *)
(***************************************************************************)
CONSTANTS Rows,        \* rows of the list
          Starts,      \* the storage at first: "new", "current", "former"
          Faults,      \* "kill": between two writes; "full": a write fails
          MaxUpgrades  \* bound: releases that rename the key

VARIABLES primary, backup, legacy,  \* the three keys: None or a set of rows
          up,        \* storageBootstrapDone, of a running process
          last,      \* ghost: the rows as the user was last shown them
          shown,     \* ghost: all lists shown so far
          ran,       \* ghost: this release has bootstrapped once
          upgrades

keys == <<primary, backup, legacy>>
ghosts == <<last, shown>>
storageVars == <<keys, up, ghosts, ran, upgrades>>

Kept == {{}, Rows}

StorageInit ==
  \E start \in Starts, rows \in Kept :
    /\ primary = (IF start = "current" THEN rows ELSE None)
    /\ legacy = (IF start = "former" THEN rows ELSE None)
    /\ backup = None  \* former releases made none
    /\ last = (IF start = "new" THEN {} ELSE rows)
    /\ shown = {last} /\ up = FALSE /\ ran = FALSE /\ upgrades = 0

\* readRaw, read: an empty list is there, a missing key is not
Read == IF primary = None THEN {} ELSE primary

\* The outcomes of writing a value to the key and then to its backup: which of
\* the two were written, and whether the process still runs.
Outcomes ==
  {[key |-> TRUE, copy |-> TRUE, runs |-> TRUE]}
  \cup (IF "full" \in Faults THEN {[key |-> k, copy |-> c, runs |-> TRUE] : k, c \in BOOLEAN} ELSE {})
  \cup (IF "kill" \in Faults THEN {[key |-> TRUE, copy |-> FALSE, runs |-> FALSE]} ELSE {})

\* What write() leaves of rows, if the outcome is o.
Writes(rows, o) ==
  /\ primary' = (IF o.key THEN rows ELSE primary)
  /\ backup' = (IF o.copy THEN rows ELSE backup)
  /\ up' = o.runs

\* hydrateStorageKey
Hydrate ==
  \E o \in Outcomes :
    IF primary # None
    THEN /\ backup' = (IF backup = None /\ o.copy THEN primary ELSE backup)
         /\ up' = o.runs /\ UNCHANGED primary
    ELSE IF backup # None
    THEN primary' = (IF o.key THEN backup ELSE None) /\ up' = o.runs /\ UNCHANGED backup
    ELSE IF legacy # None THEN Writes(legacy, o)
    ELSE UNCHANGED <<primary, backup>> /\ up' = TRUE

\* The first use of the storage in a process.
Bootstrap == ~up /\ Hydrate /\ ran' = (ran \/ up') /\ UNCHANGED <<legacy, ghosts, upgrades>>

\* What an operation writes it computed from what it read; the page then lists
\* what is stored.
Changes(rows) ==
  /\ up /\ \E o \in Outcomes : Writes(rows, o)
  /\ last' = (IF primary' = None THEN {} ELSE primary') /\ shown' = shown \cup {last'}
  /\ UNCHANGED <<legacy, ran, upgrades>>

StorageAdd(r) == r \notin Read /\ Changes(Read \cup {r})
RemoveRow(r) == r \in Read /\ Changes(Read \ {r})

\* WeChat ends the process, and the next release may read another key: with the
\* one of this release among the former ones, or, if this one had time to make
\* its backup, without.
Ends == up /\ up' = FALSE /\ UNCHANGED <<keys, ghosts, ran, upgrades>>
Upgrade ==
  /\ ~up /\ upgrades < MaxUpgrades /\ upgrades' = upgrades + 1
  /\ primary' = None
  /\ legacy' \in {IF primary # None THEN primary ELSE legacy} \cup (IF ran THEN {legacy} ELSE {})
  /\ ran' = FALSE
  /\ UNCHANGED <<backup, up, ghosts>>

StorageNext ==
  \/ Bootstrap \/ Ends \/ Upgrade
  \/ \E r \in Rows : StorageAdd(r) \/ RemoveRow(r)

StorageSpec == StorageInit /\ [][StorageNext]_storageVars
-----------------------------------------------------------------------------
\* storage.js: the backup does not change its name, so that a key with a new
\* name is restored from it; a former key is used only when there is neither.
\* So a process lists what the last one did: nothing is lost, and nothing that
\* was removed comes back from the backup or a former key.
ListIsKept == up => Read = last

\* The same when the process may be ended between the two writes: what is
\* listed may be older, but is a list the user had.
ListWasShown == up => Read \in shown
=============================================================================
