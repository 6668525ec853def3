------------------------------ MODULE MiniRecords ------------------------------
(***************************************************************************)
(* The flash memos of the mini program (pages/records/index.js, the records*)
(* of utils/storage.js): the page shows a snapshot of the stored records,  *)
(* writes a memo while it is typed, marks, categorises and deletes rows by *)
(* what the snapshot says, and slides rows open. Storage is synchronous;   *)
(* the synchronisation changes it behind the page.                         *)
(***************************************************************************)
EXTENDS Naturals, SequencesExt

CONSTANTS Ids,        \* record ids
          None,       \* no record, no category, no text: the empty string
          Texts,      \* contents
          Categories, \* categories a record may carry
          Fallback,   \* the one that is always offered
          PageSize,   \* rows of a page
          Used,       \* what the user does
          SyncWhen    \* when the synchronisation delivers: "away", "listed", "editing"

VARIABLES store,    \* the stored records, newest first
          offered,  \* the categories of the settings
          list,     \* the page: its number, the filter, the rows shown
          offsets,  \* how far each row has been slid
          touch,    \* swipeRuntime
          edit,     \* the edit popup and its draft
          timer,    \* editAutoSaveTimer is pending
          quick,    \* the record of the category popup
          away,     \* the page is hidden
          wanted    \* history: the last text and category given to each record, and to
                    \* the draft of a record that is not there yet

vars == <<store, offered, list, offsets, touch, edit, timer, quick, away, wanted>>

Closed == [open |-> FALSE, id |-> None, text |-> None, category |-> None]
NoTouch == [id |-> None, from |-> "shut", dragging |-> FALSE, blocked |-> FALSE]
Marks == {"open", "processed", "discarded"}

Find(records, id) == SelectInSeq(records, LAMBDA r : r.id = id)
Has(records, id) == Find(records, id) # 0
Record(records, id) == records[Find(records, id)]
Shown(id) == Has(list.rows, id)
Row(id) == Record(list.rows, id)
Draft(text, category) == [text |-> text, category |-> category]
Given(r) == Draft(r.text, r.category)

\* resolveVisibleCategory
Visible(category) == IF category \in offered THEN category ELSE Fallback

\* pageOf, after the filter
Filtered(records, filter) == SelectSeq(records, LAMBDA r : filter = None \/ Visible(r.category) = filter)
TotalPages(rows) == IF rows = <<>> THEN 1 ELSE (Len(rows) + PageSize - 1) \div PageSize
Clamped(page, total) == IF page < 1 THEN 1 ELSE IF page > total THEN total ELSE page
RowsOf(rows, page) ==
  SubSeq(rows, (page - 1) * PageSize + 1, IF page * PageSize > Len(rows) THEN Len(rows) ELSE page * PageSize)

\* reload: the snapshot is taken anew, slid rows stay slid, a gesture is given up
ReloadedFrom(slid, records, page, filter) ==
  LET kept == IF filter \in offered THEN filter ELSE None
      rows == Filtered(records, kept)
      at == Clamped(page, TotalPages(rows))
      shown == RowsOf(rows, at)
  IN /\ list' = [page |-> at, filter |-> kept, rows |-> shown]
     /\ offsets' = [id \in {shown[i].id : i \in 1..Len(shown)} |-> IF id \in DOMAIN slid THEN slid[id] ELSE "shut"]
     /\ touch' = NoTouch
Reloaded(records, page, filter) == ReloadedFrom(offsets, records, page, filter)
Keep == UNCHANGED <<list, offsets, touch>>
AllShut == offsets' = [id \in DOMAIN offsets |-> "shut"]
OthersShut(id) == offsets' = [o \in DOMAIN offsets |-> IF o = id THEN offsets[o] ELSE "shut"]

\* addRecord and updateRecord
Added(id, text, category) == <<[id |-> id, text |-> text, category |-> category, mark |-> "open"]>> \o store
Updated(id, text, category, mark) ==
  [store EXCEPT ![Find(store, id)] = [id |-> id, text |-> text, category |-> category, mark |-> mark]]
Without(records, id) == SelectSeq(records, LAMBDA r : r.id # id)
Fresh == {id \in Ids : ~Has(store, id) /\ ~Shown(id) /\ id # edit.id}

\* the list is in front and no finger is on it: the user taps with the one that slides
InFront == ~away /\ ~edit.open /\ quick = None
Listing == InFront /\ touch = NoTouch
Forget(id) == [k \in DOMAIN wanted \ {id} |-> wanted[k]]
Want(id, d) == [k \in DOMAIN wanted \cup {id} |-> IF k = id THEN d ELSE wanted[k]]

Init ==
  /\ \E id \in Ids, text \in Texts, category \in Categories :
       /\ store = <<[id |-> id, text |-> text, category |-> category, mark |-> "open"]>>
       /\ wanted = id :> Draft(text, category)
       /\ list = [page |-> 1, filter |-> None, rows |-> store]
       /\ offsets = id :> "shut"
  /\ offered = Categories /\ touch = NoTouch /\ edit = Closed /\ timer = FALSE /\ quick = None /\ away = FALSE

(* the list *)

Turn(by) ==
  /\ Listing /\ "filter" \in Used
  /\ list.page + by \in 1..TotalPages(Filtered(store, list.filter))
  /\ Reloaded(store, list.page + by, list.filter)
  /\ UNCHANGED <<store, offered, edit, timer, quick, away, wanted>>
SelectFilter(category) ==
  /\ Listing /\ "filter" \in Used
  /\ Reloaded(store, 1, category)
  /\ UNCHANGED <<store, offered, edit, timer, quick, away, wanted>>

\* onDelete of a row slid open
Delete(id) ==
  /\ Listing /\ "delete" \in Used /\ Shown(id) /\ offsets[id] # "shut"
  /\ store' = Without(store, id) /\ wanted' = Forget(id)
  /\ Reloaded(Without(store, id), list.page, list.filter)
  /\ UNCHANGED <<offered, edit, timer, quick, away>>

\* onMarkProcessed, onMarkDiscarded: of what the row shows; a record that is gone is left alone
Mark(id, mark) ==
  /\ Listing /\ "mark" \in Used /\ mark # "open" /\ Shown(id) /\ offsets[id] # "shut"
  /\ IF Row(id).mark = mark THEN AllShut /\ UNCHANGED <<store, list, touch>>
     ELSE IF ~Has(store, id) THEN UNCHANGED store /\ Keep
     ELSE /\ store' = Updated(id, Row(id).text, Row(id).category, mark)
          /\ ReloadedFrom(<<>>, store', list.page, list.filter)
  /\ UNCHANGED <<offered, edit, timer, quick, away, wanted>>

(* the category popup *)

OpenQuick(id) ==
  /\ Listing /\ "quick" \in Used /\ Shown(id)
  /\ quick' = id /\ AllShut
  /\ UNCHANGED <<store, offered, list, touch, edit, timer, away, wanted>>
CloseQuick ==
  /\ quick # None /\ ~away /\ quick' = None
  /\ UNCHANGED <<store, offered, list, offsets, touch, edit, timer, away, wanted>>
\* onApplyQuickCategory: a record that is gone leaves the popup open
ApplyQuick(category) ==
  /\ quick # None /\ ~away /\ category \in offered
  /\ IF ~Shown(quick) \/ category = Visible(Row(quick).category)
       THEN quick' = None /\ UNCHANGED <<store, wanted>> /\ Keep
     ELSE IF ~Has(store, quick) THEN UNCHANGED <<store, wanted, quick>> /\ Keep
     ELSE /\ store' = Updated(quick, Row(quick).text, category, Record(store, quick).mark)
          /\ wanted' = Want(quick, Draft(wanted[quick].text, category))
          /\ quick' = None
          /\ Reloaded(store', list.page, list.filter)
  /\ UNCHANGED <<offered, edit, timer, away>>

(* the edit popup *)

OpenCreate ==
  /\ Listing /\ "create" \in Used /\ Fresh # {}
  /\ AllShut /\ timer' = FALSE
  /\ edit' = [open |-> TRUE, id |-> None, text |-> None, category |-> Fallback]
  /\ UNCHANGED <<store, offered, list, touch, quick, away, wanted>>
\* onOpenEdit: a slid row is shut first
OpenEdit(id) ==
  /\ Listing /\ "edit" \in Used /\ Shown(id)
  /\ IF offsets[id] # "shut"
       THEN offsets' = [offsets EXCEPT ![id] = "shut"] /\ UNCHANGED <<edit, timer>>
       ELSE /\ edit' = [open |-> TRUE, id |-> id, text |-> Row(id).text, category |-> Visible(Row(id).category)]
            /\ timer' = FALSE /\ UNCHANGED offsets
  /\ UNCHANGED <<store, offered, list, touch, quick, away, wanted>>

\* the user changes the draft; emptied, it stands for what is stored
TypedInto(d) ==
  LET gone == edit.id # None /\ ~Has(store, edit.id)
      kept == IF edit.id = None THEN Forget(None) ELSE Want(edit.id, Given(Record(store, edit.id)))
  IN wanted' = IF gone THEN wanted ELSE IF d.text = None THEN kept ELSE Want(edit.id, Given(d))
Input(d) ==
  /\ edit.open /\ ~away /\ d # edit
  /\ edit' = d /\ timer' = TRUE
  /\ TypedInto(d)
  /\ UNCHANGED <<store, offered, list, offsets, touch, quick, away>>
TypeText(text) == Input([edit EXCEPT !.text = text])
TapCategory(category) == category \in offered /\ Input([edit EXCEPT !.category = category])

\* the first save of a new memo gives its popup the record
StillOpen(id) == [edit EXCEPT !.id = id]

\* persistEditDraft, of a popup that stays or closes
Persist(closes) ==
  LET After(id) == IF closes THEN Closed ELSE StillOpen(id)
      Create(id) ==
        /\ store' = Added(id, edit.text, edit.category)
        /\ Reloaded(store', list.page, list.filter)
        /\ edit' = After(id)
        /\ wanted' = [k \in (DOMAIN wanted \ {None}) \cup {id} |-> wanted[IF k = id THEN None ELSE k]]
      Write ==
        /\ store' = Updated(edit.id, edit.text, edit.category, Record(store, edit.id).mark)
        /\ Reloaded(store', list.page, list.filter)
        /\ edit' = After(edit.id) /\ UNCHANGED wanted
      Same == Has(store, edit.id) /\ Given(Record(store, edit.id)) = Given(edit)
  IN IF edit.text = None \/ (edit.id # None /\ (~Has(store, edit.id) \/ Same))
       THEN edit' = After(edit.id) /\ UNCHANGED <<store, wanted>> /\ Keep
     ELSE IF edit.id = None THEN \E id \in Fresh : Create(id)
     ELSE Write

AutoSave ==
  /\ timer /\ timer' = FALSE /\ Persist(FALSE)
  /\ UNCHANGED <<offered, quick, away>>
CloseEdit ==
  /\ edit.open /\ ~away
  /\ timer' = FALSE /\ Persist(TRUE)
  /\ UNCHANGED <<offered, quick, away>>

(* the page comes and goes; a touch under way is cancelled before *)

HideUnsaved ==
  /\ ~away /\ touch = NoTouch /\ away' = TRUE
  /\ timer' = FALSE /\ Keep
  /\ UNCHANGED <<store, offered, edit, quick, wanted>>
Hide ==
  /\ ~away /\ touch = NoTouch /\ away' = TRUE
  /\ timer' = FALSE /\ Persist(FALSE)
  /\ UNCHANGED <<offered, quick>>
Show ==
  /\ away /\ away' = FALSE
  /\ Reloaded(store, list.page, list.filter)
  /\ UNCHANGED <<store, offered, edit, timer, quick, wanted>>
\* the settings page removes or adds a category meanwhile
Settings(category) ==
  /\ "settings" \in Used /\ away /\ category # Fallback
  /\ offered' = IF category \in offered THEN offered \ {category} ELSE offered \cup {category}
  /\ UNCHANGED <<store, list, offsets, touch, edit, timer, quick, away, wanted>>

\* mergeRecords: a newer version of a record, or its deletion, from another phone
SyncNow ==
  /\ "sync" \in Used
  /\ \/ "away" \in SyncWhen /\ away /\ ~edit.open /\ quick = None
     \/ "listed" \in SyncWhen /\ Listing
     \/ "editing" \in SyncWhen /\ edit.open
SyncChange(id, text, category) ==
  /\ SyncNow /\ Has(store, id) /\ Draft(text, category) # Given(Record(store, id))
  /\ store' = Updated(id, text, category, Record(store, id).mark)
  /\ wanted' = Want(id, Draft(text, category))
  /\ Keep /\ UNCHANGED <<offered, edit, timer, quick, away>>
SyncDelete(id) ==
  /\ SyncNow /\ Has(store, id)
  /\ store' = Without(store, id) /\ wanted' = Forget(id)
  /\ Keep /\ UNCHANGED <<offered, edit, timer, quick, away>>

(* sliding a row open: one finger *)

TouchStart(id) ==
  /\ Listing /\ "swipe" \in Used /\ Shown(id)
  /\ OthersShut(id)
  /\ touch' = [NoTouch EXCEPT !.id = id, !.from = offsets[id]]
  /\ UNCHANGED <<store, offered, list, edit, timer, quick, away, wanted>>
\* a first move up or down blocks the gesture, one to the side drags the row
TouchMove(sideways, to) ==
  /\ InFront /\ touch.id # None /\ ~touch.blocked
  /\ IF touch.dragging \/ sideways
       THEN touch' = [touch EXCEPT !.dragging = TRUE] /\ offsets' = [offsets EXCEPT ![touch.id] = to]
       ELSE touch' = [touch EXCEPT !.blocked = TRUE] /\ UNCHANGED offsets
  /\ UNCHANGED <<store, offered, list, edit, timer, quick, away, wanted>>
\* onRecordTouchEnd: past 45 % the row opens
TouchEnd ==
  /\ touch.id # None /\ touch' = NoTouch
  /\ IF touch.blocked THEN UNCHANGED offsets
     ELSE offsets' = [offsets EXCEPT ![touch.id] = IF @ \in {"most", "open"} THEN "open" ELSE "shut"]
  /\ UNCHANGED <<store, offered, list, edit, timer, quick, away, wanted>>
ListTap ==
  /\ Listing /\ "swipe" \in Used /\ AllShut
  /\ UNCHANGED <<store, offered, list, touch, edit, timer, quick, away, wanted>>

Next ==
  \/ \E by \in {0 - 1, 1} : Turn(by)
  \/ \E category \in Categories \cup {None} : SelectFilter(category)
  \/ \E id \in Ids :
       \/ Delete(id) \/ OpenQuick(id) \/ OpenEdit(id) \/ SyncDelete(id) \/ TouchStart(id)
       \/ \E mark \in Marks : Mark(id, mark)
       \/ \E text \in Texts, category \in Categories : SyncChange(id, text, category)
  \/ \E category \in Categories : ApplyQuick(category) \/ TapCategory(category) \/ Settings(category)
  \/ CloseQuick \/ OpenCreate
  \/ \E text \in Texts \cup {None} : TypeText(text)
  \/ AutoSave \/ CloseEdit \/ Hide \/ Show
  \/ \E sideways \in BOOLEAN, to \in {"shut", "some", "most", "open"} : TouchMove(sideways, to)
  \/ TouchEnd \/ ListTap

Spec == Init /\ [][Next]_vars

-----------------------------------------------------------------------------
\* With the popup closed or the page hidden, every record holds the last text and category it
\* was given, here or on another phone, and no typed memo is without its record.
LastInputStored ==
  (~edit.open \/ away) =>
    /\ None \notin DOMAIN wanted
    /\ \A i \in 1..Len(store) : Given(store[i]) = wanted[store[i].id]

\* One draft makes one record: a record that appears while the popup is open is the first of
\* its draft, and the popup goes on with it, however often the draft is saved on its way.
OneRecordPerDraft ==
  [][ (edit.open /\ Len(store') > Len(store)) => (edit.id = None /\ (edit'.open => Has(store', edit'.id))) ]_vars

\* The page never stands beyond the last one, and what it shows is what is stored: the row
\* that is marked, categorised or deleted is the record the user sees.
RowsAreStored ==
  ~away => /\ list.page <= TotalPages(Filtered(store, list.filter))
           /\ list.rows = RowsOf(Filtered(store, list.filter), list.page)

\* No two rows are slid open, and none is left half open once the finger is up.
OneRowOpen ==
  /\ \A a, b \in DOMAIN offsets : (offsets[a] # "shut" /\ offsets[b] # "shut") => a = b
  /\ touch = NoTouch => \A id \in DOMAIN offsets : offsets[id] \in {"shut", "open"}
=============================================================================
