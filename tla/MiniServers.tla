------------------------------ MODULE MiniServers ------------------------------
(***************************************************************************)
(* The server list of the mini-program (pages/connect): rows that are      *)
(* searched, chosen, removed after a question, copied, swept open and      *)
(* dragged into another order, over a storage that a merge of the cloud's  *)
(* rows changes meanwhile.                                                 *)
(* setData and its callback are one step.  The rectangles a drag needs are *)
(* asked for and come later.                                               *)
(***************************************************************************)
EXTENDS Naturals, Sequences, SequencesExt, FiniteSets

CONSTANTS Ids, None,
          Start,     \* the rows at first
          Matching,  \* rows the search text finds
          MaxMerges, \* bound: merges of the cloud
          Uploads,   \* answers to uploads bring rows of other phones
          Patient    \* a finger that begins a drag stays until the rectangles are there

VARIABLES store,    \* the stored rows in their order
          shown,    \* the page is the one on top
          servers,  \* data.servers
          query,    \* a text is searched for
          rows,     \* data.filteredServers: their ids
          selected, all,
          offset,   \* swipeOffsets: [Ids -> {"shut", "part", "open"}]
          drawn,    \* swipeOffsetX of the rows as drawn
          swipe,    \* swipeRuntime: None or [id, begun]
          finger,   \* the row a finger is on, None
          asked,    \* a drag waits for rectangles: None or [id, from, ids]
          drag,     \* dragRuntime with dragActive: None or [id, from, to, ids]
          dialog,   \* a question is open: None or the rows it asks about
          merges

page == <<servers, query, rows, selected, all, offset, drawn>>
touch == <<swipe, finger, asked, drag>>
vars == <<store, shown, page, touch, dialog, merges>>

Shut == [i \in Ids |-> "shut"]

Init ==
  /\ store = Start /\ shown = TRUE
  /\ servers = Start /\ query = FALSE /\ rows = Start /\ selected = {} /\ all = FALSE
  /\ offset = Shut /\ drawn = Shut
  /\ swipe = None /\ finger = None /\ asked = None /\ drag = None /\ dialog = None /\ merges = 0

(* drawing *)

Filtered(list, q) == SelectSeq(list, LAMBDA i : q => i \in Matching)
\* reconcileServerSwipeState: rows that are gone keep nothing
Reconciled(list, off) == [i \in Ids |-> IF i \in ToSet(list) THEN off[i] ELSE "shut"]

\* applyFilter and syncSelectState over a list, with a query, choice and offsets
Draws(list, q, sel, off) ==
  /\ servers' = list /\ query' = q /\ rows' = Filtered(list, q)
  /\ selected' = sel \cap ToSet(list)
  /\ all' = (list # <<>> /\ Cardinality(selected') = Len(list))
  /\ offset' = Reconciled(list, off) /\ drawn' = offset'

\* reloadServers, with what the storage holds by then
Reloads(list) == Draws(list, query, selected, offset)
SwipeOf(list) == IF swipe # None /\ swipe.id \notin ToSet(list) THEN None ELSE swipe

\* closeAllServerRows, closeOtherServerRows: the rows drawn with an offset
Closed(except) == [i \in Ids |-> IF i \in ToSet(rows) /\ i # except /\ drawn[i] # "shut" THEN "shut" ELSE offset[i]]
ClosedDrawn(except) == [i \in Ids |-> IF i \in ToSet(rows) /\ i # except THEN "shut" ELSE drawn[i]]
Closes(except) == offset' = Closed(except) /\ drawn' = ClosedDrawn(except)

Free == shown /\ dialog = None /\ finger = None
Idle == Free /\ drag = None

(* the list *)

Query(q) ==
  /\ Idle /\ query # q /\ Draws(servers, q, selected, Closed(None))
  /\ UNCHANGED <<store, shown, touch, dialog, merges>>

\* onToggleServerSelect, onToggleSelectAll
Toggle(i) ==
  /\ Idle /\ i \in ToSet(rows)
  /\ Draws(servers, query, (selected \ {i}) \cup ({i} \ selected), Closed(None))
  /\ UNCHANGED <<store, shown, touch, dialog, merges>>
ToggleAll ==
  /\ Idle /\ servers # <<>>
  /\ Draws(servers, query, IF all THEN {} ELSE ToSet(servers), Closed(None))
  /\ UNCHANGED <<store, shown, touch, dialog, merges>>

\* onRemoveSelected, onSwipeDeleteServer: the question, then removal of the rows it named
AskRemove(ids) ==
  /\ Idle /\ ids # {}
  /\ \/ ids = selected /\ Closes(None)
     \/ (\E i \in ToSet(rows) : ids = {i} /\ drawn[i] = "open") /\ UNCHANGED <<offset, drawn>>
  /\ dialog' = ids
  /\ UNCHANGED <<store, shown, servers, query, rows, selected, all, touch, merges>>
Answer(yes) ==
  /\ shown /\ dialog # None /\ dialog' = None
  /\ IF ~yes THEN UNCHANGED <<store, page, swipe>>
     ELSE /\ store' = SelectSeq(store, LAMBDA i : i \notin dialog)
          /\ Draws(store', query, selected \ dialog, offset) /\ swipe' = SwipeOf(store')
  /\ UNCHANGED <<shown, finger, asked, drag, merges>>

\* onCreateServer and onCopyServer: a row of its own, last; creating goes on to its page
New == {i \in Ids : i \notin ToSet(store)}
Adds(goes) ==
  /\ Idle /\ New # {} /\ (~goes => rows # <<>>)
  /\ store' = Append(store, CHOOSE i \in New : TRUE)
  /\ Draws(store', query, selected, Closed(None)) /\ shown' = ~goes
  /\ UNCHANGED <<touch, dialog, merges>>

\* a row's page or a terminal on top (onHide), and back (onShow)
Hide ==
  /\ shown /\ dialog = None /\ shown' = FALSE /\ (Patient => asked = None)
  /\ swipe' = None /\ drag' = None /\ finger' = None /\ Closes(None)
  /\ UNCHANGED <<store, servers, query, rows, selected, all, asked, dialog, merges>>
Show ==
  /\ ~shown /\ shown' = TRUE /\ Reloads(store) /\ swipe' = SwipeOf(store)
  /\ UNCHANGED <<store, finger, asked, drag, dialog, merges>>

\* the answer to an upload is merged into the storage: no page is told
MergeReply(list) ==
  /\ Uploads /\ merges < MaxMerges /\ list # store /\ merges' = merges + 1
  /\ store' = list /\ UNCHANGED <<page, swipe, shown, finger, asked, drag, dialog>>

\* the answer to a start, or to sync switched on again, is: the page is told in the same step
Merge(list) ==
  /\ merges < MaxMerges /\ list # store /\ merges' = merges + 1
  /\ store' = list /\ Reloads(list) /\ swipe' = SwipeOf(list)
  /\ UNCHANGED <<shown, finger, asked, drag, dialog>>

(* sweeping *)

TouchStart(i) ==
  /\ Idle /\ i \in ToSet(rows) /\ finger' = i
  /\ Closes(i) /\ swipe' = [id |-> i, begun |-> FALSE]
  /\ UNCHANGED <<store, shown, servers, query, rows, selected, all, asked, drag, dialog, merges>>

\* a sweep to the left or back; blocked ones, up or down, end it
Sweep(o) ==
  /\ finger # None /\ drag = None /\ swipe # None /\ swipe.id = finger
  /\ o \in {"shut", "part", "open"}
  /\ swipe' = [swipe EXCEPT !.begun = TRUE]
  /\ IF finger \in ToSet(rows)
       THEN offset' = [offset EXCEPT ![finger] = o] /\ drawn' = [drawn EXCEPT ![finger] = o]
       ELSE UNCHANGED <<offset, drawn>>
  /\ UNCHANGED <<store, shown, servers, query, rows, selected, all, finger, asked, drag, dialog, merges>>

\* the finger leaves: a row swept less than half way closes, a drag drops its row
Settled(i) ==
  IF i \in ToSet(rows)
    THEN \E o \in (IF offset[i] = "part" THEN {"shut", "open"} ELSE {offset[i]}) :
           offset' = [offset EXCEPT ![i] = o] /\ drawn' = [drawn EXCEPT ![i] = o]
    ELSE UNCHANGED <<offset, drawn>>
TouchEnd ==
  /\ finger # None /\ drag = None /\ (Patient => asked = None)
  /\ finger' = None /\ swipe' = None
  /\ IF swipe # None THEN Settled(finger) ELSE UNCHANGED <<offset, drawn>>
  /\ UNCHANGED <<store, shown, servers, query, rows, selected, all, asked, drag, dialog, merges>>

(* dragging *)

\* onStartDrag: not while searching, and the rows' rectangles are asked for
StartDrag ==
  /\ finger # None /\ drag = None /\ asked = None /\ ~query /\ Len(rows) > 1
  /\ finger \in ToSet(rows) /\ (swipe # None => ~swipe.begun)
  /\ Closes(None) /\ swipe' = None
  /\ asked' = [id |-> finger, from |-> CHOOSE k \in DOMAIN rows : rows[k] = finger]
  /\ UNCHANGED <<store, shown, servers, query, rows, selected, all, finger, drag, dialog, merges>>

\* they come: as many as there are rows now, or nothing is begun
Rectangles ==
  /\ asked # None /\ asked' = None
  /\ \/ Len(rows) >= asked.from
        /\ drag' = [id |-> asked.id, from |-> asked.from, to |-> asked.from, ids |-> rows]
     \/ drag' = None
  /\ UNCHANGED <<store, shown, page, swipe, finger, dialog, merges>>

Move(k) ==
  /\ drag # None /\ finger # None /\ k \in DOMAIN drag.ids /\ drag' = [drag EXCEPT !.to = k]
  /\ UNCHANGED <<store, shown, page, swipe, finger, asked, dialog, merges>>

\* onDragTouchEnd: the row is taken out of the list and put back at its place, persistServerOrder
\* writes the whole list
Capped(k, list) == IF k > Len(list) + 1 THEN Len(list) + 1 ELSE k
Dropped(list) ==
  LET others == Remove(list, drag.id) IN
  IF drag.to = drag.from \/ drag.id \notin ToSet(list) THEN list
  ELSE InsertAt(others, Capped(drag.to, others), drag.id)
PersistsOrder(list) == store' = list /\ Draws(list, query, selected, offset)
Drop ==
  /\ drag # None /\ finger' = None /\ drag' = None
  /\ IF Dropped(servers) = servers /\ (drag.to = drag.from \/ drag.id \notin ToSet(servers))
       THEN UNCHANGED <<store, page>>
       ELSE PersistsOrder(Dropped(servers))
  /\ UNCHANGED <<shown, swipe, asked, dialog, merges>>

Merged == {<<>>} \cup {Append(store, i) : i \in New}
          \cup {Remove(store, i) : i \in ToSet(store)} \cup {Reverse(store)}

Next ==
  \/ \E q \in BOOLEAN : Query(q) \/ Answer(q) \/ Adds(q)
  \/ \E i \in Ids : Toggle(i) \/ TouchStart(i)
  \/ \E ids \in SUBSET Ids : AskRemove(ids)
  \/ \E o \in {"shut", "part", "open"} : Sweep(o)
  \/ \E k \in 1 .. Cardinality(Ids) : Move(k)
  \/ \E list \in Merged : Merge(list) \/ MergeReply(list)
  \/ ToggleAll \/ Hide \/ Show \/ TouchEnd \/ StartDrag \/ Rectangles \/ Drop

Spec == Init /\ [][Next]_vars

-----------------------------------------------------------------------------
\* Every variable has a value its code can hold: the list, its gestures and the storage.
TypeOK ==
  /\ ToSet(store) \subseteq Ids /\ ToSet(rows) \subseteq ToSet(servers)
  /\ selected \subseteq Ids /\ offset \in [Ids -> {"shut", "part", "open"}]
  /\ dialog = None \/ dialog \subseteq Ids

\* The page shows what is stored whenever it may be touched: an order dropped from a list older
\* than the storage would bring removed servers back and lose merged ones (persistServerOrder
\* writes all rows).
PageIsCurrent == shown => servers = store

\* A drop moves its row and nothing else: no row is lost or comes back, and the others keep their
\* order.
MovesOneRow ==
  drag # None /\ drag' = None /\ shown' =>
    /\ ToSet(store') = ToSet(store)
    /\ Remove(store', drag.id) = Remove(store, drag.id)

\* What is chosen can be removed, "all" means every row, also after a merge took rows away.
ChosenIsThere == selected \subseteq ToSet(servers) /\ (all <=> servers # <<>> /\ selected = ToSet(servers))

\* One row at most is swept open, through searches, merges and drags, and a row is drawn where its
\* offset says.
OneRowOpen ==
  /\ Cardinality({i \in ToSet(rows) : drawn[i] # "shut"}) <= 1
  /\ \A i \in ToSet(rows) : drawn[i] = offset[i]

\* The list is held in drag mode, without scrolling and deaf to taps, by a finger only.
DragHasFinger == drag # None => finger # None
=============================================================================
