------------------------------ MODULE MiniSync ------------------------------
(***************************************************************************)
(* Synchronisation of the mini-program with the gateway: one row on its    *)
(* way between phones and database, and the switch and queues that decide  *)
(* when rows travel. The two parts are modelled apart.                     *)
(***************************************************************************)
EXTENDS Naturals, FiniteSets, TLAPS

-----------------------------------------------------------------------------
(***************************************************************************)
(* One row (a server or a memo) kept by several phones and the gateway's   *)
(* database.  A phone edits its copy, uploads it 200 ms later and merges   *)
(* the answer; at its start it downloads and merges.  Deletions travel as  *)
(* tombstones.  Requests are answered in any order, or fail; phones are    *)
(* closed and opened.  Time stamps are those of one clock, two phones may  *)
(* have the same one.                                                      *)
(***************************************************************************)
CONSTANTS Phones,
          Memo,      \* TRUE: a memo (closed states are sticky), FALSE: a server
          RowsMaxEdits,  \* bound: edits and deletions
          RowsMaxFails,  \* bound: requests that fail
          MaxStarts, \* bound: restarts of phones
          MaxFlight  \* bound: requests of a phone at the same time

ASSUME KindAssumption == Memo \in BOOLEAN

VARIABLES
  row,     \* [Phones -> its copy, NoRow when it has none]
  grave,   \* [Phones -> time of its tombstone, 0 when it has none]
  due,     \* [Phones -> an upload is due in 200 ms]
  rowsFlight,  \* requests between phones and gateway
  db,      \* the row in the gateway's database
  rowsNow, rowsEdits, rowsFails, starts,
  unsent,  \* ghost: phones a request of which failed since their last upload
  buried   \* ghost: [Phones -> when their user last deleted the row]

rowsVars == <<row, grave, due, rowsFlight, db, rowsNow, rowsEdits, rowsFails, starts, unsent,
              buried>>
bounds == <<rowsFails, starts>>

\* ts: updatedAt; edit: which edit wrote it; closed: processed or discarded.
NoRow == [ts |-> 0, edit |-> 0, closed |-> FALSE, deleted |-> FALSE]
Tombstone(t) == [ts |-> t, edit |-> 0, closed |-> FALSE, deleted |-> TRUE]

RowsInit ==
  /\ row = [p \in Phones |-> NoRow]
  /\ grave = [p \in Phones |-> 0]
  /\ due = [p \in Phones |-> FALSE]
  /\ rowsFlight = {}
  /\ db = NoRow
  /\ rowsNow = 1 /\ rowsEdits = 0 /\ rowsFails = 0 /\ starts = 0
  /\ unsent = {}
  /\ buried = [p \in Phones |-> 0]

\* --- merging ---------------------------------------------------------------
PickLatest(current, candidate) ==
  IF candidate # NoRow /\ (current = NoRow \/ candidate.ts >= current.ts)
  THEN candidate ELSE current

\* A closed memo is not reopened by an open one, whatever their times.
PickLatestRecord(current, candidate) ==
  IF current # NoRow /\ candidate # NoRow /\ ~current.deleted /\ ~candidate.deleted
     /\ current.closed # candidate.closed
  THEN IF current.closed THEN current ELSE candidate
  ELSE PickLatest(current, candidate)

\* mergeServers, mergeRecords: the tombstone against the remote row, the result
\* against the local one; the winner replaces the copy and the tombstone of
\* every row looked at is cleared.
Merged(p, remote) ==
  LET there == IF grave[p] = 0 THEN remote
               ELSE PickLatest(remote, Tombstone(grave[p]))
  IN IF Memo THEN PickLatestRecord(row[p], there) ELSE PickLatest(row[p], there)

MergeInto(p, remote) ==
  LET winner == Merged(p, remote) IN
  /\ row' = [row EXCEPT ![p] = IF winner.deleted THEN NoRow ELSE winner]
  /\ grave' = [grave EXCEPT ![p] = IF winner = NoRow THEN @ ELSE 0]

\* --- the phone ----------------------------------------------------------------
\* upsertServer, addRecord, updateRecord: a new time stamp, an upload scheduled.
Stamp == {rowsNow, rowsNow + 1}
Edit(p, t, closed) ==
  /\ rowsEdits < RowsMaxEdits /\ t \in Stamp
  /\ row[p] # NoRow \/ rowsEdits = 0   \* the id is made once, by one phone
  /\ closed => Memo
  /\ row[p].closed => closed       \* no page reopens a memo
  /\ t > row[p].ts /\ t > buried[p]
  /\ row' = [row EXCEPT ![p] = [ts |-> t, edit |-> rowsEdits + 1, closed |-> closed,
                                deleted |-> FALSE]]
  /\ due' = [due EXCEPT ![p] = TRUE]
  /\ rowsNow' = t /\ rowsEdits' = rowsEdits + 1
  /\ UNCHANGED <<grave, rowsFlight, db, bounds, unsent, buried>>

\* removeServer, removeRecord, then markServerDeleted, markRecordDeleted.
DeleteRow(p, t) ==
  /\ rowsEdits < RowsMaxEdits /\ t \in Stamp
  /\ row[p] # NoRow /\ t > row[p].ts
  /\ row' = [row EXCEPT ![p] = NoRow]
  /\ grave' = [grave EXCEPT ![p] = t]
  /\ due' = [due EXCEPT ![p] = TRUE]
  /\ rowsNow' = t /\ rowsEdits' = rowsEdits + 1
  /\ buried' = [buried EXCEPT ![p] = t]
  /\ UNCHANGED <<rowsFlight, db, bounds, unsent>>

Request(p, kind, rows) ==
  [phone |-> p, kind |-> kind, at |-> "up", rows |-> rows, reply |-> NoRow]
InFlight(p) == {r \in rowsFlight : r.phone = p}

\* pushServersNow, pushRecordsNow: the payload is what the phone has now.
Push(p) ==
  /\ due[p] /\ Cardinality(InFlight(p)) < MaxFlight
  /\ due' = [due EXCEPT ![p] = FALSE]
  /\ rowsFlight' = rowsFlight \cup
       {Request(p, "push", (IF row[p] = NoRow THEN {} ELSE {row[p]}) \cup
                           (IF grave[p] = 0 THEN {} ELSE {Tombstone(grave[p])}))}
  /\ unsent' = unsent \ {p}
  /\ UNCHANGED <<row, grave, db, rowsNow, rowsEdits, bounds, buried>>

\* The answer of the gateway is merged; so is that of a start.
RowsReply(r) ==
  /\ r \in rowsFlight /\ r.at = "down"
  /\ MergeInto(r.phone, r.reply)
  /\ rowsFlight' = rowsFlight \ {r}
  /\ UNCHANGED <<due, db, rowsNow, rowsEdits, bounds, unsent, buried>>

\* A request fails on its way, or its answer does: it is logged.
Fails(r) ==
  /\ rowsFails < RowsMaxFails /\ r \in rowsFlight
  /\ rowsFails' = rowsFails + 1
  /\ rowsFlight' = rowsFlight \ {r}
  /\ unsent' = unsent \cup {r.phone}
  /\ UNCHANGED <<row, grave, due, db, rowsNow, rowsEdits, starts, buried>>

\* The phone is closed and opened: what was due or on its way is gone, storage
\* is kept, and the start asks for the gateway's state.
Restart(p) ==
  /\ starts < MaxStarts
  /\ starts' = starts + 1
  /\ due' = [due EXCEPT ![p] = FALSE]
  /\ unsent' = IF due[p] \/ InFlight(p) # {} THEN unsent \cup {p} ELSE unsent
  /\ rowsFlight' = (rowsFlight \ InFlight(p)) \cup {Request(p, "bootstrap", {})}
  /\ UNCHANGED <<row, grave, db, rowsNow, rowsEdits, rowsFails, buried>>

\* --- the gateway ---------------------------------------------------------------
\* One row of upsertServers, upsertRecords: the newer time stamp, or the later
\* arrival of two equal ones.
UpsertAll(current, r) == r
Upsert(current, r) == IF current # NoRow /\ current.ts > r.ts THEN current ELSE r

\* The rows of a payload are written in one transaction, the copies before the
\* tombstones; the answer lists the database.
Written(rows) ==
  LET live == {r \in rows : ~r.deleted}
      dead == rows \ live
      first == IF live = {} THEN db ELSE Upsert(db, CHOOSE r \in live : TRUE)
  IN IF dead = {} THEN first ELSE Upsert(first, CHOOSE r \in dead : TRUE)

RowsHandle(r) ==
  /\ r \in rowsFlight /\ r.at = "up"
  /\ db' = Written(r.rows)
  /\ rowsFlight' = (rowsFlight \ {r}) \cup {[r EXCEPT !.at = "down", !.rows = {},
                                                      !.reply = Written(r.rows)]}
  /\ UNCHANGED <<row, grave, due, rowsNow, rowsEdits, bounds, unsent, buried>>

RowsNext ==
  \/ \E p \in Phones :
       \/ \E t \in Stamp : DeleteRow(p, t) \/ \E c \in BOOLEAN : Edit(p, t, c)
       \/ Push(p) \/ Restart(p)
  \/ \E r \in rowsFlight : RowsReply(r) \/ Fails(r) \/ RowsHandle(r)

RowsSpec == RowsInit /\ [][RowsNext]_rowsVars
-----------------------------------------------------------------------------
Quiet == rowsFlight = {} /\ \A p \in Phones : ~due[p]

\* When all is quiet the gateway has what each phone shows, or something
\* newer: an edit made while an older upload was on its way is not lost to it.
UploadedWhenQuiet ==
  Quiet => \A p \in Phones : p \notin unsent => db.ts >= row[p].ts

\* A merge never puts an older row in the place of a newer one; only a closed
\* memo may hold its own against a later open one.
MergeKeepsNewer ==
  [][\A p \in Phones :
       row'[p] # row[p] /\ rowsEdits' = rowsEdits /\ row[p] # NoRow /\ row'[p] # NoRow
         => row'[p].ts >= row[p].ts \/ row'[p].closed]_rowsVars

\* A memo closed on a phone is open there again only when its user edits it.
ClosedStaysOnPhone ==
  [][\A p \in Phones :
       row[p].closed /\ rowsEdits' = rowsEdits /\ row'[p] # NoRow => row'[p].closed]_rowsVars

\* Time in the database does not run backwards, however the uploads of two
\* phones overtake each other.
DatabaseAdvances == [][db'.ts >= db.ts]_rowsVars

\* However edits, uploads, answers, failures and restarts of the phones cross:
\* time moves forward, and the newest edit gets through (mergeServers,
\* mergeRecords, upsertServers, upsertRecords).
RowsMoveForward ==
  /\ []UploadedWhenQuiet
  /\ MergeKeepsNewer /\ ClosedStaysOnPhone /\ DatabaseAdvances
-----------------------------------------------------------------------------
(***************************************************************************)
(* RowsMoveForward, for every number of phones, edits, failures, restarts  *)
(* and requests.  The invariant says where an edit is as long as the       *)
(* gateway does not have it: a phone that shows something newer has an     *)
(* upload due, or one on its way with a row at least as new.  An answer on *)
(* its way is never newer than the database, so that a merge cannot bring  *)
(* in what the gateway has not got; an upload holds a copy and a tombstone *)
(* at the most, so that its writing does not depend on a choice.           *)
(***************************************************************************)
Versions == [ts : Nat, edit : Nat, closed : BOOLEAN, deleted : BOOLEAN]

\* Rows as the code makes them: only a memo is closed.
Kept(x) == x \in Versions /\ (x.closed => Memo)

Requests == [phone : Phones, kind : {"push", "bootstrap"}, at : {"up", "down"},
             rows : SUBSET Versions, reply : Versions]

RowsTypeOK ==
  /\ row \in [Phones -> Versions] /\ grave \in [Phones -> Nat] /\ due \in [Phones -> BOOLEAN]
  /\ rowsFlight \subseteq Requests /\ db \in Versions
  /\ rowsNow \in Nat /\ rowsEdits \in Nat

OnlyMemosClose ==
  /\ \A p \in Phones : Kept(row[p]) /\ ~row[p].deleted
  /\ Kept(db)
  /\ \A r \in rowsFlight : Kept(r.reply) /\ \A x \in r.rows : Kept(x)

OnePerKind == \A r \in rowsFlight : \A x, y \in r.rows : x.deleted = y.deleted => x = y

RepliesAreOld == \A r \in rowsFlight : r.reply.ts <= db.ts

\* An upload of p with a row that is at least as new as time t.
Carried(p, t) ==
  \E r \in rowsFlight : r.phone = p /\ r.at = "up" /\ \E x \in r.rows : x.ts >= t

Delivered ==
  \A p \in Phones : p \in unsent \/ due[p] \/ db.ts >= row[p].ts \/ Carried(p, row[p].ts)

RowsInv ==
  RowsTypeOK /\ OnlyMemosClose /\ OnePerKind /\ RepliesAreOld /\ Delivered

\* A merge takes the copy or what the gateway sent, never anything else (a
\* tombstone leaves no copy); what it takes is as new, or it is a closed memo.
LEMMA MergeTakes ==
  ASSUME NEW p \in Phones, NEW remote \in Versions, RowsTypeOK, OnlyMemosClose, Kept(remote)
  PROVE  LET winner == Merged(p, remote) IN
         /\ winner \in Versions /\ Kept(winner)
         /\ winner \in {row[p], remote} \/ winner.deleted
         /\ row[p] # NoRow /\ winner # NoRow /\ ~winner.deleted
              => winner.ts >= row[p].ts \/ winner.closed
         /\ row[p].closed => winner.closed \/ winner.deleted
<1> DEFINE winner == Merged(p, remote)
           there == IF grave[p] = 0 THEN remote ELSE PickLatest(remote, Tombstone(grave[p]))
<1>1. row[p] \in Versions /\ grave[p] \in Nat /\ Kept(row[p])
  BY DEF RowsTypeOK, OnlyMemosClose
<1>2. Tombstone(grave[p]) \in Versions /\ Kept(Tombstone(grave[p])) /\ Tombstone(grave[p]).deleted
  BY <1>1 DEF Tombstone, Versions, Kept
<1>3. there \in {remote, Tombstone(grave[p])}
  BY DEF PickLatest
<1>4. there \in Versions /\ Kept(there) /\ (there = remote \/ there.deleted)
  BY <1>2, <1>3
<1>5. NoRow.closed = FALSE /\ NoRow.ts = 0
  BY DEF NoRow
<1> HIDE DEF there
<1>6. winner = IF Memo THEN PickLatestRecord(row[p], there) ELSE PickLatest(row[p], there)
  BY DEF Merged, there
<1>7. PickLatest(row[p], there) \in {row[p], there}
  BY DEF PickLatest
<1>8. winner \in {row[p], there}
  BY <1>6, <1>7 DEF PickLatestRecord
<1>9. winner \in Versions /\ Kept(winner) /\ (winner \in {row[p], remote} \/ winner.deleted)
  BY <1>1, <1>4, <1>8
<1>10. row[p].ts \in Nat /\ there.ts \in Nat
  BY <1>1, <1>4 DEF Versions
<1>11. row[p] # NoRow /\ winner # NoRow /\ ~winner.deleted
         => winner.ts >= row[p].ts \/ winner.closed
  <2> SUFFICES ASSUME row[p] # NoRow, winner # NoRow, ~winner.deleted, winner = there
               PROVE  winner.ts >= row[p].ts \/ winner.closed
    BY <1>8, <1>10
  <2>1. CASE row[p] = there
    BY <2>1, <1>10
  <2>2. CASE row[p] # there /\ winner = PickLatest(row[p], there)
    BY <2>2, <1>10 DEF PickLatest
  <2>3. CASE row[p] # there /\ winner # PickLatest(row[p], there)
    <3>1. winner = PickLatestRecord(row[p], there)
      BY <2>3, <1>6
    <3>2. row[p].closed # there.closed /\ ~row[p].closed
      BY <3>1, <2>3 DEF PickLatestRecord
    <3>3. row[p].closed \in BOOLEAN /\ there.closed \in BOOLEAN
      BY <1>1, <1>4 DEF Versions
    <3> QED BY <3>2, <3>3
  <2> QED BY <2>1, <2>2, <2>3
<1>12. row[p].closed => winner.closed \/ winner.deleted
  <2> SUFFICES ASSUME row[p].closed, winner # row[p], ~winner.deleted
               PROVE  winner.closed
    OBVIOUS
  <2>1. Memo /\ row[p] # NoRow
    BY <1>1, <1>5 DEF Kept
  <2>2. winner = there /\ winner = PickLatestRecord(row[p], there)
    BY <2>1, <1>6, <1>8
  <2>3. there # NoRow
    <3>1. PickLatest(row[p], NoRow) = row[p]
      BY <2>1 DEF PickLatest
    <3>2. PickLatestRecord(row[p], NoRow) = PickLatest(row[p], NoRow)
      BY DEF PickLatestRecord
    <3> QED BY <2>2, <3>1, <3>2
  <2>4. ~row[p].deleted /\ ~there.deleted
    BY <2>2 DEF OnlyMemosClose
  <2>5. row[p].closed = there.closed
    BY <2>1, <2>2, <2>3, <2>4 DEF PickLatestRecord
  <2> QED BY <2>2, <2>5
<1> QED BY <1>9, <1>11, <1>12

\* What an answer leaves on the phone it is merged on.
LEMMA MergedRow ==
  ASSUME NEW p \in Phones, NEW remote \in Versions, RowsTypeOK, OnlyMemosClose, Kept(remote),
         MergeInto(p, remote)
  PROVE  /\ row' \in [Phones -> Versions] /\ grave' \in [Phones -> Nat]
         /\ \A q \in Phones : q # p => row'[q] = row[q]
         /\ row'[p] \in {row[p], remote, NoRow}
         /\ Kept(row'[p]) /\ ~row'[p].deleted
         /\ row[p] # NoRow /\ row'[p] # NoRow => row'[p].ts >= row[p].ts \/ row'[p].closed
         /\ row[p].closed /\ row'[p] # NoRow => row'[p].closed
<1> DEFINE winner == Merged(p, remote)
           copy == IF winner.deleted THEN NoRow ELSE winner
<1>1. /\ winner \in Versions /\ Kept(winner)
      /\ winner \in {row[p], remote} \/ winner.deleted
      /\ row[p] # NoRow /\ winner # NoRow /\ ~winner.deleted
           => winner.ts >= row[p].ts \/ winner.closed
      /\ row[p].closed => winner.closed \/ winner.deleted
  BY MergeTakes
<1>2. row \in [Phones -> Versions] /\ grave \in [Phones -> Nat]
  BY DEF RowsTypeOK
<1>3. row' = [row EXCEPT ![p] = copy]
  BY DEF MergeInto
<1>4. grave' \in [Phones -> Nat]
  BY <1>2 DEF MergeInto
<1>5. NoRow \in Versions /\ Kept(NoRow) /\ ~NoRow.deleted
  BY DEF NoRow, Versions, Kept
<1> HIDE DEF winner
<1>6. copy \in Versions /\ Kept(copy) /\ ~copy.deleted /\ copy \in {row[p], remote, NoRow}
  BY <1>1, <1>5
<1>7. row[p] # NoRow /\ copy # NoRow => copy.ts >= row[p].ts \/ copy.closed
  BY <1>1
<1>8. row[p].closed /\ copy # NoRow => copy.closed
  BY <1>1
<1> HIDE DEF copy
<1>9. row'[p] = copy /\ row' \in [Phones -> Versions] /\ \A q \in Phones : q # p => row'[q] = row[q]
  BY <1>2, <1>3, <1>6
<1> QED BY <1>4, <1>6, <1>7, <1>8, <1>9

\* One row is written over another: one of the two stays, no older than either.
LEMMA UpsertKeepsNewer ==
  ASSUME NEW current \in Versions, NEW r \in Versions, Kept(current), Kept(r)
  PROVE  /\ Upsert(current, r) \in Versions /\ Kept(Upsert(current, r))
         /\ Upsert(current, r).ts >= current.ts /\ Upsert(current, r).ts >= r.ts
<1>1. current.ts \in Nat /\ r.ts \in Nat /\ NoRow.ts = 0
  BY DEF Versions, NoRow
<1> QED BY <1>1 DEF Upsert

\* A payload is written: the database is no older than before, nor than any of
\* the rows.
LEMMA WrittenKeepsNewer ==
  ASSUME NEW rows \in SUBSET Versions, \A x \in rows : Kept(x), db \in Versions, Kept(db),
         \A x, y \in rows : x.deleted = y.deleted => x = y
  PROVE  /\ Written(rows) \in Versions /\ Kept(Written(rows))
         /\ Written(rows).ts >= db.ts
         /\ \A x \in rows : Written(rows).ts >= x.ts
<1> DEFINE live == {r \in rows : ~r.deleted}
           dead == rows \ live
           l == CHOOSE r \in live : TRUE
           d == CHOOSE r \in dead : TRUE
           first == IF live = {} THEN db ELSE Upsert(db, l)
           last == IF dead = {} THEN first ELSE Upsert(first, d)
<1>1. Written(rows) = last
  BY DEF Written
<1>2. live # {} => l \in live
  OBVIOUS
<1>3. dead # {} => d \in dead
  OBVIOUS
<1>4. \A x \in live : x = l
  BY <1>2
<1>5. \A x \in dead : x = d
  <2> TAKE x \in dead
  <2>1. d \in dead
    BY <1>3
  <2>2. x.deleted /\ d.deleted /\ x \in rows /\ d \in rows
    BY <2>1
  <2>3. x.deleted = d.deleted
    BY <2>2 DEF Versions
  <2> QED BY <2>2, <2>3
<1>6. \A x \in rows : x \in live \/ x \in dead
  OBVIOUS
<1>7. live \subseteq Versions /\ dead \subseteq Versions /\ \A x \in live \cup dead : Kept(x)
  OBVIOUS
<1> HIDE DEF live, dead, l, d
<1>8. first \in Versions /\ Kept(first) /\ first.ts >= db.ts /\ \A x \in live : first.ts >= x.ts
  <2>1. CASE live = {}
    <3>1. db.ts \in Nat
      BY DEF Versions
    <3> QED BY <2>1, <3>1
  <2>2. CASE live # {}
    <3>1. l \in Versions /\ Kept(l) /\ first = Upsert(db, l)
      BY <2>2, <1>2, <1>7
    <3> HIDE DEF first
    <3>2. first \in Versions /\ Kept(first) /\ first.ts >= db.ts /\ first.ts >= l.ts
      BY <3>1, UpsertKeepsNewer
    <3> QED BY <3>2, <1>4
  <2> QED BY <2>1, <2>2
<1> HIDE DEF first
<1>9. last \in Versions /\ Kept(last) /\ last.ts >= first.ts /\ \A x \in dead : last.ts >= x.ts
  <2>1. CASE dead = {}
    <3>1. first.ts \in Nat
      BY <1>8 DEF Versions
    <3> QED BY <2>1, <1>8, <3>1
  <2>2. CASE dead # {}
    <3>1. d \in Versions /\ Kept(d) /\ last = Upsert(first, d)
      BY <2>2, <1>3, <1>7
    <3> HIDE DEF last
    <3>2. last \in Versions /\ Kept(last) /\ last.ts >= first.ts /\ last.ts >= d.ts
      BY <3>1, <1>8, UpsertKeepsNewer
    <3> QED BY <3>2, <1>5
  <2> QED BY <2>1, <2>2
<1> HIDE DEF last
<1>10. last.ts \in Nat /\ first.ts \in Nat /\ db.ts \in Nat /\ \A x \in rows : x.ts \in Nat
  BY <1>8, <1>9 DEF Versions
<1>11. last.ts >= db.ts
  BY <1>8, <1>9, <1>10
<1>12. \A x \in rows : last.ts >= x.ts
  BY <1>6, <1>8, <1>9, <1>10
<1> QED BY <1>1, <1>9, <1>11, <1>12

LEMMA RowsStart == ASSUME RowsInit PROVE RowsInv
<1>1. NoRow \in Versions /\ Kept(NoRow) /\ ~NoRow.deleted /\ NoRow.ts = 0
  BY DEF NoRow, Versions, Kept
<1>2. RowsTypeOK
  BY <1>1 DEF RowsInit, RowsTypeOK
<1>3. OnlyMemosClose /\ OnePerKind /\ RepliesAreOld
  BY <1>1 DEF RowsInit, OnlyMemosClose, OnePerKind, RepliesAreOld
<1>4. Delivered
  BY <1>1 DEF RowsInit, Delivered
<1> QED BY <1>2, <1>3, <1>4 DEF RowsInv

\* A step of a user: the copy is newer, and an upload is due.
LEMMA EditKeepsInv ==
  ASSUME RowsInv, NEW p \in Phones, NEW t \in Stamp, NEW c \in BOOLEAN,
         Edit(p, t, c) \/ DeleteRow(p, t)
  PROVE  RowsInv' /\ rowsEdits' # rowsEdits /\ db' = db
<1> DEFINE copy == IF Edit(p, t, c) THEN [ts |-> t, edit |-> rowsEdits + 1, closed |-> c,
                                          deleted |-> FALSE] ELSE NoRow
<1>1. /\ row \in [Phones -> Versions] /\ grave \in [Phones -> Nat] /\ due \in [Phones -> BOOLEAN]
      /\ rowsFlight \subseteq Requests /\ db \in Versions
      /\ rowsNow \in Nat /\ rowsEdits \in Nat
  BY DEF RowsInv, RowsTypeOK
<1>2. t \in Nat
  BY <1>1 DEF Stamp
<1>3. NoRow \in Versions /\ Kept(NoRow) /\ ~NoRow.deleted
  BY DEF NoRow, Versions, Kept
<1>4. copy \in Versions /\ Kept(copy) /\ ~copy.deleted
  BY <1>1, <1>2, <1>3 DEF Edit, Versions, Kept
<1>5. row' = [row EXCEPT ![p] = copy]
  BY DEF Edit, DeleteRow
<1> HIDE DEF copy
<1>6. /\ due' = [due EXCEPT ![p] = TRUE] /\ rowsNow' = t /\ rowsEdits' = rowsEdits + 1
      /\ rowsFlight' = rowsFlight /\ db' = db /\ unsent' = unsent
  BY DEF Edit, DeleteRow, bounds
<1>7. grave' \in [Phones -> Nat]
  BY <1>1, <1>2 DEF Edit, DeleteRow
<1>8. RowsTypeOK'
  <2>1. row' \in [Phones -> Versions] /\ due' \in [Phones -> BOOLEAN]
    BY <1>1, <1>4, <1>5, <1>6
  <2>2. rowsNow' \in Nat /\ rowsEdits' \in Nat
    BY <1>1, <1>2, <1>6
  <2> QED BY <2>1, <2>2, <1>1, <1>6, <1>7 DEF RowsTypeOK
<1>9. OnlyMemosClose'
  BY <1>1, <1>4, <1>5, <1>6 DEF RowsInv, OnlyMemosClose
<1>10. OnePerKind' /\ RepliesAreOld'
  BY <1>6 DEF RowsInv, OnePerKind, RepliesAreOld
<1>11. Delivered'
  BY <1>1, <1>5, <1>6 DEF RowsInv, Delivered, Carried
<1>12. rowsEdits' # rowsEdits
  BY <1>1, <1>6
<1> QED BY <1>6, <1>8, <1>9, <1>10, <1>11, <1>12 DEF RowsInv

LEMMA PushKeepsInv == ASSUME RowsInv, NEW p \in Phones, Push(p) PROVE RowsInv'
<1> DEFINE copies == IF row[p] = NoRow THEN {} ELSE {row[p]}
           graves == IF grave[p] = 0 THEN {} ELSE {Tombstone(grave[p])}
           r == Request(p, "push", copies \cup graves)
<1>1. /\ row \in [Phones -> Versions] /\ grave \in [Phones -> Nat] /\ due \in [Phones -> BOOLEAN]
      /\ rowsFlight \subseteq Requests /\ db \in Versions
      /\ rowsNow \in Nat /\ rowsEdits \in Nat
  BY DEF RowsInv, RowsTypeOK
<1>2. /\ due' = [due EXCEPT ![p] = FALSE] /\ unsent' = unsent \ {p}
      /\ row' = row /\ grave' = grave /\ db' = db /\ rowsNow' = rowsNow /\ rowsEdits' = rowsEdits
      /\ rowsFlight' = rowsFlight \cup {r}
  BY DEF Push, bounds
<1>3. copies \subseteq Versions /\ graves \subseteq Versions
  <2>1. row[p] \in Versions /\ grave[p] \in Nat
    BY <1>1
  <2>2. Tombstone(grave[p]) \in Versions
    BY <2>1 DEF Tombstone, Versions
  <2> QED BY <2>1, <2>2
<1>4. /\ \A x \in copies : Kept(x) /\ x.deleted = FALSE /\ x = row[p]
      /\ \A x \in graves : Kept(x) /\ x.deleted = TRUE /\ x = Tombstone(grave[p])
  <2>1. Kept(row[p]) /\ row[p].deleted \in BOOLEAN /\ ~row[p].deleted
    BY <1>1 DEF RowsInv, OnlyMemosClose, Versions
  <2>2. Tombstone(grave[p]).deleted = TRUE /\ ~Tombstone(grave[p]).closed
    BY DEF Tombstone
  <2>3. \A x \in graves : Kept(x)
    BY <2>2, <1>3 DEF Kept
  <2> QED BY <2>1, <2>2, <2>3
<1>5. NoRow \in Versions /\ Kept(NoRow) /\ NoRow.ts = 0
  BY DEF NoRow, Versions, Kept
<1>6. row[p] = NoRow \/ row[p] \in copies
  OBVIOUS
<1> HIDE DEF copies, graves
<1>7. r.phone = p /\ r.at = "up" /\ r.rows = copies \cup graves /\ r.reply = NoRow
  BY DEF Request
<1>8. r \in Requests
  BY <1>3, <1>5 DEF Request, Requests
<1> HIDE DEF r
<1>9. RowsTypeOK'
  BY <1>1, <1>2, <1>8 DEF RowsTypeOK
<1>10. OnlyMemosClose'
  BY <1>1, <1>2, <1>4, <1>5, <1>7 DEF RowsInv, OnlyMemosClose
<1>11. OnePerKind'
  BY <1>2, <1>4, <1>7 DEF RowsInv, OnePerKind
<1>12. RepliesAreOld'
  <2>1. db.ts \in Nat /\ r.reply.ts = 0
    BY <1>1, <1>5, <1>7 DEF Versions
  <2> QED BY <2>1, <1>2 DEF RowsInv, RepliesAreOld
<1>13. Delivered'
  <2> SUFFICES ASSUME NEW q \in Phones
               PROVE  q \in unsent' \/ due'[q] \/ db'.ts >= row'[q].ts \/ Carried(q, row[q].ts)'
    BY <1>2 DEF Delivered
  <2>1. CASE q # p
    BY <2>1, <1>1, <1>2 DEF RowsInv, Delivered, Carried
  <2>2. CASE q = p /\ row[p] = NoRow
    BY <2>2, <1>1, <1>2, <1>5 DEF Versions
  <2>3. CASE q = p /\ row[p] \in copies
    <3>1. row[p].ts >= row[p].ts
      BY <1>1 DEF Versions
    <3>2. r \in rowsFlight' /\ row[p] \in r.rows
      BY <2>3, <1>2, <1>7
    <3>3. Carried(q, row[q].ts)'
      BY <2>3, <3>1, <3>2, <1>2, <1>7 DEF Carried
    <3> QED BY <3>3
  <2> QED BY <2>1, <2>2, <2>3, <1>6
<1> QED BY <1>9, <1>10, <1>11, <1>12, <1>13 DEF RowsInv

\* An answer brings the phone nothing that the database has not got.
LEMMA ReplyKeepsInv ==
  ASSUME RowsInv, NEW r \in rowsFlight, RowsReply(r)
  PROVE  /\ RowsInv' /\ db' = db
         /\ \A p \in Phones :
              /\ row'[p] # row[p] /\ row[p] # NoRow /\ row'[p] # NoRow
                   => row'[p].ts >= row[p].ts \/ row'[p].closed
              /\ row[p].closed /\ row'[p] # NoRow => row'[p].closed
<1>1. /\ row \in [Phones -> Versions] /\ grave \in [Phones -> Nat] /\ due \in [Phones -> BOOLEAN]
      /\ rowsFlight \subseteq Requests /\ db \in Versions
      /\ rowsNow \in Nat /\ rowsEdits \in Nat
  BY DEF RowsInv, RowsTypeOK
<1> DEFINE s == r.phone
           remote == r.reply
<1>2. s \in Phones /\ remote \in Versions /\ Kept(remote)
  BY <1>1 DEF RowsInv, Requests, OnlyMemosClose
<1>3. /\ due' = due /\ db' = db /\ unsent' = unsent /\ rowsNow' = rowsNow
      /\ rowsEdits' = rowsEdits /\ rowsFlight' = rowsFlight \ {r} /\ r.at = "down"
      /\ MergeInto(s, remote)
  BY DEF RowsReply, bounds
<1>4. remote.ts <= db.ts
  BY DEF RowsInv, RepliesAreOld
<1> HIDE DEF s, remote
<1>5. /\ row' \in [Phones -> Versions] /\ grave' \in [Phones -> Nat]
      /\ \A q \in Phones : q # s => row'[q] = row[q]
      /\ row'[s] \in {row[s], remote, NoRow}
      /\ Kept(row'[s]) /\ ~row'[s].deleted
      /\ row[s] # NoRow /\ row'[s] # NoRow => row'[s].ts >= row[s].ts \/ row'[s].closed
      /\ row[s].closed /\ row'[s] # NoRow => row'[s].closed
  BY <1>2, <1>3, MergedRow DEF RowsInv
<1>6. RowsTypeOK'
  BY <1>1, <1>3, <1>5 DEF RowsTypeOK
<1>7. OnlyMemosClose'
  <2>1. \A q \in Phones : Kept(row'[q]) /\ ~row'[q].deleted
    BY <1>5 DEF RowsInv, OnlyMemosClose
  <2> QED BY <2>1, <1>3 DEF RowsInv, OnlyMemosClose, Kept
<1>8. OnePerKind' /\ RepliesAreOld'
  BY <1>3 DEF RowsInv, OnePerKind, RepliesAreOld
<1>9. Delivered'
  <2> SUFFICES ASSUME NEW q \in Phones
               PROVE  (q \in unsent \/ due[q] \/ db.ts >= row[q].ts \/ Carried(q, row[q].ts))'
    BY DEF Delivered
  <2>1. CASE row'[q] = row[q]
    <3>1. q \in unsent \/ due[q] \/ db.ts >= row[q].ts \/ Carried(q, row[q].ts)
      BY DEF RowsInv, Delivered
    <3>2. Carried(q, row[q].ts) => Carried(q, row[q].ts)'
      BY <2>1, <1>3 DEF Carried
    <3> QED BY <2>1, <3>1, <3>2, <1>3
  <2>2. CASE q = s /\ row'[s] = remote
    BY <2>2, <1>3, <1>4
  <2>3. CASE q = s /\ row'[s] = NoRow
    <3>1. NoRow.ts = 0 /\ db.ts \in Nat
      BY <1>1 DEF NoRow, Versions
    <3> QED BY <2>3, <3>1, <1>3
  <2> QED BY <2>1, <2>2, <2>3, <1>5
<1>10. \A p \in Phones :
         /\ row'[p] # row[p] /\ row[p] # NoRow /\ row'[p] # NoRow
              => row'[p].ts >= row[p].ts \/ row'[p].closed
         /\ row[p].closed /\ row'[p] # NoRow => row'[p].closed
  BY <1>5
<1> QED BY <1>3, <1>6, <1>7, <1>8, <1>9, <1>10 DEF RowsInv

\* What does not arrive is known to be missing.
LEMMA FailKeepsInv == ASSUME RowsInv, NEW r \in rowsFlight, Fails(r) PROVE RowsInv'
<1>1. /\ row' = row /\ grave' = grave /\ due' = due /\ db' = db /\ rowsNow' = rowsNow
      /\ rowsEdits' = rowsEdits /\ rowsFlight' = rowsFlight \ {r}
      /\ unsent' = unsent \cup {r.phone}
  BY DEF Fails
<1>2. RowsTypeOK'
  BY <1>1 DEF RowsInv, RowsTypeOK
<1>3. OnlyMemosClose' /\ OnePerKind' /\ RepliesAreOld'
  BY <1>1 DEF RowsInv, OnlyMemosClose, OnePerKind, RepliesAreOld, Kept
<1>4. Delivered'
  BY <1>1 DEF RowsInv, Delivered, Carried
<1> QED BY <1>2, <1>3, <1>4 DEF RowsInv

LEMMA StartKeepsInv == ASSUME RowsInv, NEW p \in Phones, Restart(p) PROVE RowsInv'
<1> DEFINE r == Request(p, "bootstrap", {})
<1>1. /\ row \in [Phones -> Versions] /\ grave \in [Phones -> Nat] /\ due \in [Phones -> BOOLEAN]
      /\ rowsFlight \subseteq Requests /\ db \in Versions
      /\ rowsNow \in Nat /\ rowsEdits \in Nat
  BY DEF RowsInv, RowsTypeOK
<1>2. /\ row' = row /\ grave' = grave /\ db' = db /\ rowsNow' = rowsNow
      /\ rowsEdits' = rowsEdits /\ due' = [due EXCEPT ![p] = FALSE]
      /\ unsent' = IF due[p] \/ InFlight(p) # {} THEN unsent \cup {p} ELSE unsent
      /\ rowsFlight' = (rowsFlight \ InFlight(p)) \cup {r}
  BY DEF Restart
<1>3. NoRow \in Versions /\ Kept(NoRow) /\ NoRow.ts = 0
  BY DEF NoRow, Versions, Kept
<1>4. r \in Requests /\ r.rows = {} /\ r.reply = NoRow
  BY <1>3 DEF Request, Requests
<1> HIDE DEF r
<1>5. RowsTypeOK'
  BY <1>1, <1>2, <1>4 DEF RowsTypeOK
<1>6. OnlyMemosClose' /\ OnePerKind'
  BY <1>2, <1>3, <1>4 DEF RowsInv, OnlyMemosClose, OnePerKind, Kept
<1>7. RepliesAreOld'
  <2>1. db.ts \in Nat
    BY <1>1 DEF Versions
  <2> QED BY <2>1, <1>2, <1>3, <1>4 DEF RowsInv, RepliesAreOld
<1>8. Delivered'
  <2> SUFFICES ASSUME NEW q \in Phones
               PROVE  (q \in unsent \/ due[q] \/ db.ts >= row[q].ts \/ Carried(q, row[q].ts))'
    BY DEF Delivered
  <2>1. q \in unsent \/ due[q] \/ db.ts >= row[q].ts \/ Carried(q, row[q].ts)
    BY DEF RowsInv, Delivered
  <2>2. CASE q = p
    <3>1. Carried(p, row[p].ts) => InFlight(p) # {}
      BY DEF Carried, InFlight
    <3> QED BY <2>1, <2>2, <3>1, <1>2
  <2>3. CASE q # p
    <3>1. Carried(q, row[q].ts) => Carried(q, row[q].ts)'
      BY <2>3, <1>2 DEF Carried, InFlight
    <3> QED BY <2>1, <2>3, <3>1, <1>1, <1>2
  <2> QED BY <2>2, <2>3
<1> QED BY <1>5, <1>6, <1>7, <1>8 DEF RowsInv

\* What an upload brings is in the database before its answer leaves.
LEMMA HandleKeepsInv ==
  ASSUME RowsInv, NEW r \in rowsFlight, RowsHandle(r)
  PROVE  RowsInv' /\ row' = row /\ db'.ts >= db.ts
<1> DEFINE rows == r.rows
           done == Written(rows)
           answer == [r EXCEPT !.at = "down", !.rows = {}, !.reply = done]
<1>1. /\ row \in [Phones -> Versions] /\ grave \in [Phones -> Nat] /\ due \in [Phones -> BOOLEAN]
      /\ rowsFlight \subseteq Requests /\ db \in Versions
      /\ rowsNow \in Nat /\ rowsEdits \in Nat
  BY DEF RowsInv, RowsTypeOK
<1>2. /\ row' = row /\ grave' = grave /\ due' = due /\ rowsNow' = rowsNow
      /\ rowsEdits' = rowsEdits /\ unsent' = unsent /\ db' = done
      /\ rowsFlight' = (rowsFlight \ {r}) \cup {answer}
  BY DEF RowsHandle, bounds
<1>3. r \in Requests /\ rows \in SUBSET Versions /\ \A x \in rows : Kept(x)
  BY <1>1 DEF RowsInv, Requests, OnlyMemosClose
<1>4. /\ done \in Versions /\ Kept(done) /\ done.ts >= db.ts /\ \A x \in rows : done.ts >= x.ts
  BY <1>1, <1>3, WrittenKeepsNewer DEF RowsInv, OnlyMemosClose, OnePerKind
<1> HIDE DEF done
<1>5. answer \in Requests /\ answer.rows = {} /\ answer.reply = done
  BY <1>3, <1>4 DEF Requests
<1> HIDE DEF answer
<1>6. RowsTypeOK'
  BY <1>1, <1>2, <1>4, <1>5 DEF RowsTypeOK
<1>7. OnlyMemosClose' /\ OnePerKind'
  BY <1>2, <1>4, <1>5 DEF RowsInv, OnlyMemosClose, OnePerKind, Kept
<1>8. done.ts \in Nat /\ db.ts \in Nat /\ \A q \in Phones : row[q].ts \in Nat
  BY <1>1, <1>4 DEF Versions
<1>9. RepliesAreOld'
  <2> SUFFICES ASSUME NEW s \in rowsFlight' PROVE s.reply.ts <= db'.ts
    BY DEF RepliesAreOld
  <2>1. CASE s = answer
    BY <2>1, <1>2, <1>5, <1>8
  <2>2. CASE s \in rowsFlight
    <3>1. s.reply.ts <= db.ts /\ s.reply.ts \in Nat
      BY <2>2, <1>1 DEF RowsInv, RepliesAreOld, Requests, Versions
    <3> QED BY <3>1, <1>2, <1>4, <1>8
  <2> QED BY <2>1, <2>2, <1>2
<1>10. Delivered'
  <2> SUFFICES ASSUME NEW q \in Phones
               PROVE  (q \in unsent \/ due[q] \/ db.ts >= row[q].ts \/ Carried(q, row[q].ts))'
    BY DEF Delivered
  <2>1. q \in unsent \/ due[q] \/ db.ts >= row[q].ts \/ Carried(q, row[q].ts)
    BY DEF RowsInv, Delivered
  <2>2. CASE db.ts >= row[q].ts
    BY <2>2, <1>2, <1>4, <1>8
  <2>3. CASE Carried(q, row[q].ts)
    <3>1. PICK s \in rowsFlight : s.phone = q /\ s.at = "up" /\ \E x \in s.rows : x.ts >= row[q].ts
      BY <2>3 DEF Carried
    <3>2. CASE s = r
      <4>1. PICK x \in rows : x.ts >= row[q].ts
        BY <3>1, <3>2
      <4>2. x.ts \in Nat /\ done.ts >= x.ts
        BY <4>1, <1>3, <1>4 DEF Versions
      <4> QED BY <4>1, <4>2, <1>2, <1>8
    <3>3. CASE s # r
      <4>1. s \in rowsFlight'
        BY <3>3, <1>2
      <4>2. Carried(q, row[q].ts)'
        BY <3>1, <4>1, <1>2 DEF Carried
      <4> QED BY <4>2
    <3> QED BY <3>2, <3>3
  <2> QED BY <2>1, <2>2, <2>3, <1>2
<1> QED BY <1>2, <1>4, <1>6, <1>7, <1>9, <1>10 DEF RowsInv

\* One step: what is kept, what a merge does to the copies, and the database.
LEMMA RowsStep ==
  ASSUME RowsInv, [RowsNext]_rowsVars
  PROVE  /\ RowsInv' /\ db'.ts >= db.ts
         /\ rowsEdits' = rowsEdits => \A p \in Phones :
              /\ row'[p] # row[p] /\ row[p] # NoRow /\ row'[p] # NoRow
                   => row'[p].ts >= row[p].ts \/ row'[p].closed
              /\ row[p].closed /\ row'[p] # NoRow => row'[p].closed
<1>1. db.ts \in Nat
  BY DEF RowsInv, RowsTypeOK, Versions
<1>2. CASE \E p \in Phones : \E t \in Stamp : DeleteRow(p, t) \/ \E c \in BOOLEAN : Edit(p, t, c)
  <2>1. PICK p \in Phones, t \in Stamp :
          DeleteRow(p, t) \/ \E c \in BOOLEAN : Edit(p, t, c)
    BY <1>2
  <2>2. PICK c \in BOOLEAN : Edit(p, t, c) \/ DeleteRow(p, t)
    BY <2>1
  <2>3. RowsInv' /\ rowsEdits' # rowsEdits /\ db' = db
    BY <2>2, EditKeepsInv
  <2> QED BY <2>3, <1>1
<1>3. CASE \E p \in Phones : Push(p)
  <2>1. row' = row /\ db' = db
    BY <1>3 DEF Push
  <2> QED BY <1>1, <1>3, <2>1, PushKeepsInv
<1>4. CASE \E p \in Phones : Restart(p)
  <2>1. row' = row /\ db' = db
    BY <1>4 DEF Restart
  <2> QED BY <1>1, <1>4, <2>1, StartKeepsInv
<1>5. CASE \E r \in rowsFlight : RowsReply(r)
  BY <1>1, <1>5, ReplyKeepsInv
<1>6. CASE \E r \in rowsFlight : Fails(r)
  <2>1. row' = row /\ db' = db
    BY <1>6 DEF Fails
  <2> QED BY <1>1, <1>6, <2>1, FailKeepsInv
<1>7. CASE \E r \in rowsFlight : RowsHandle(r)
  BY <1>7, HandleKeepsInv
<1>8. CASE UNCHANGED rowsVars
  <2>1. /\ row' = row /\ grave' = grave /\ due' = due /\ rowsFlight' = rowsFlight /\ db' = db
        /\ rowsNow' = rowsNow /\ rowsEdits' = rowsEdits /\ unsent' = unsent
    BY <1>8 DEF rowsVars
  <2>2. RowsTypeOK'
    BY <2>1 DEF RowsInv, RowsTypeOK
  <2>3. (OnlyMemosClose /\ OnePerKind /\ RepliesAreOld)'
    BY <2>1 DEF RowsInv, OnlyMemosClose, OnePerKind, RepliesAreOld, Kept
  <2>4. Delivered'
    BY <2>1 DEF RowsInv, Delivered, Carried
  <2> QED BY <1>1, <2>1, <2>2, <2>3, <2>4 DEF RowsInv
<1> QED BY <1>2, <1>3, <1>4, <1>5, <1>6, <1>7, <1>8 DEF RowsNext

\* Of a row that several phones edit, delete, upload and merge at the same time:
\* when all is quiet the gateway is not behind any of them, no merge puts an older
\* row in the place of a newer one or reopens a memo, and the database advances
\* (syncService.js, mergeServers, mergeRecords; repository.ts).
THEOREM RowsOnlyMoveForward == RowsSpec => RowsMoveForward
<1>1. RowsInit => RowsInv
  BY RowsStart
<1>2. RowsInv /\ [RowsNext]_rowsVars => RowsInv'
  BY RowsStep
<1>3. RowsInv => UploadedWhenQuiet
  BY DEF RowsInv, Delivered, Carried, UploadedWhenQuiet, Quiet
<1>4. RowsInv /\ [RowsNext]_rowsVars =>
        [\A p \in Phones :
           row'[p] # row[p] /\ rowsEdits' = rowsEdits /\ row[p] # NoRow /\ row'[p] # NoRow
             => row'[p].ts >= row[p].ts \/ row'[p].closed]_rowsVars
  BY RowsStep
<1>5. RowsInv /\ [RowsNext]_rowsVars =>
        [\A p \in Phones :
           row[p].closed /\ rowsEdits' = rowsEdits /\ row'[p] # NoRow => row'[p].closed]_rowsVars
  BY RowsStep
<1>6. RowsInv /\ [RowsNext]_rowsVars => [db'.ts >= db.ts]_rowsVars
  BY RowsStep
<1>7. RowsSpec => []RowsInv
  BY <1>1, <1>2, PTL DEF RowsSpec
<1>8. RowsSpec => []UploadedWhenQuiet
  BY <1>3, <1>7, PTL
<1>9. RowsSpec => MergeKeepsNewer
  BY <1>4, <1>7, PTL DEF RowsSpec, MergeKeepsNewer
<1>10. RowsSpec => ClosedStaysOnPhone
  BY <1>5, <1>7, PTL DEF RowsSpec, ClosedStaysOnPhone
<1>11. RowsSpec => DatabaseAdvances
  BY <1>6, <1>7, PTL DEF RowsSpec, DatabaseAdvances
<1> QED BY <1>8, <1>9, <1>10, <1>11 DEF RowsMoveForward

-----------------------------------------------------------------------------
(***************************************************************************)
(* The cloud sync switch of a phone: it is a setting like the others, so   *)
(* it stops uploads and is itself uploaded, downloaded and merged.  Its    *)
(* phone has two upload queues (settings; servers and memos), requests     *)
(* that wait for a token before they leave, and the download that a        *)
(* switch-on forces before it uploads.  Other phones of the user save      *)
(* settings too; theirs are uploaded with the switch on.                   *)
(***************************************************************************)
CONSTANTS MaxSaves,  \* bound: settings saved, here or on another phone
          SwitchMaxEdits,  \* bound: edits of servers and memos
          SwitchMaxFails   \* bound: requests that fail

VARIABLES
  on, savedAt,   \* local settings: syncConfigEnabled and updatedAt
  cloud,         \* the settings the gateway has: [on, ts]
  timers,        \* the queues whose 200 ms timer runs
  loose,         \* those of them whose variable a finished upload has set to
                 \* null: no clearTimeout reaches them
  switchFlight,        \* requests in progress
  switchNow, switchEdits, switchFails,
  dirty,         \* ghost: edits of servers and memos no upload has taken along
  oldTimers,     \* ghost: timers set before the user last switched off
  pulled         \* ghost: the download of the last switch-on has ended

switchVars == <<on, savedAt, cloud, timers, loose, switchFlight, switchNow, switchEdits, switchFails,
                dirty, oldTimers, pulled>>
local == <<on, savedAt>>
ghosts == <<dirty, oldTimers, pulled>>
counts == <<switchNow, switchEdits, switchFails>>

\* A request first waits for its token; an answer is merged when it is back.
Pull(force) == [kind |-> "pull", at |-> "token", saved |-> 0, forced |-> force,
                id |-> IF force THEN switchNow + 1 ELSE 0,
                reply |-> [on |-> TRUE, ts |-> 0]]

\* The download of the start (app.js) is on its way.
SwitchInit ==
  /\ switchNow = 0 /\ switchEdits = 0 /\ switchFails = 0
  /\ on = TRUE /\ savedAt = 0
  /\ cloud = [on |-> TRUE, ts |-> 0]
  /\ timers = {} /\ loose = {} /\ switchFlight = {Pull(FALSE)}
  /\ dirty = FALSE /\ oldTimers = {} /\ pulled = TRUE

Queues == {"settings", "rows"}

\* scheduleTask: off, a new task is refused and the timer of its queue cleared.
Schedule(qs) ==
  /\ timers' = IF on' THEN timers \cup qs ELSE timers \ (qs \ loose)
  /\ oldTimers' = oldTimers \ (qs \ loose)

Upload(q) == [kind |-> q, at |-> "token", saved |-> savedAt, forced |-> FALSE,
              id |-> 0, reply |-> [on |-> TRUE, ts |-> 0]]

\* saveSettings, and what it asks of the sync service: back from off to on,
\* every timer is cleared and a download is forced (resumeSyncConfig).
Save(v) ==
  /\ switchNow < MaxSaves
  /\ switchNow' = switchNow + 1
  /\ on' = v /\ savedAt' = switchNow + 1
  /\ IF ~on /\ v
     THEN /\ timers' = timers \cap loose
          /\ oldTimers' = oldTimers \cap loose
          /\ switchFlight' = switchFlight \cup {Pull(TRUE)}
          /\ pulled' = FALSE
     ELSE /\ timers' = IF v THEN timers \cup {"settings"}
                       ELSE timers \ ({"settings"} \ loose)
          /\ oldTimers' = IF v THEN oldTimers \ ({"settings"} \ loose) ELSE timers'
          /\ UNCHANGED <<switchFlight, pulled>>
  /\ UNCHANGED <<cloud, loose, switchEdits, switchFails, dirty>>

\* A server or a memo is saved.
EditRow ==
  /\ switchEdits < SwitchMaxEdits
  /\ switchEdits' = switchEdits + 1
  /\ UNCHANGED local
  /\ Schedule({"rows"})
  /\ dirty' = TRUE
  /\ UNCHANGED <<cloud, loose, switchFlight, switchNow, switchFails, pulled>>

\* The timer fires: the switch is looked at once more, the payload is built,
\* the request waits for its token.
Fire(q) ==
  /\ q \in timers
  /\ timers' = timers \ {q}
  /\ oldTimers' = oldTimers \ {q}
  /\ loose' = loose \ {q}
  /\ switchFlight' = IF on THEN switchFlight \cup {Upload(q)} ELSE switchFlight
  /\ dirty' = IF on /\ q = "rows" THEN FALSE ELSE dirty
  /\ UNCHANGED <<local, cloud, counts, pulled>>

Send(r) ==
  /\ r \in switchFlight /\ r.at = "token"
  /\ switchFlight' = (switchFlight \ {r}) \cup {[r EXCEPT !.at = "up"]}
  /\ UNCHANGED <<local, cloud, timers, loose, counts, ghosts>>

\* The gateway: upsertSettings for an upload, what it has for a download.
SwitchHandle(r) ==
  /\ r \in switchFlight /\ r.at = "up"
  /\ cloud' = IF r.kind = "settings" /\ r.saved >= cloud.ts
              THEN [on |-> TRUE, ts |-> r.saved] ELSE cloud
  /\ switchFlight' = (switchFlight \ {r}) \cup {[r EXCEPT !.at = "down", !.reply = cloud']}
  /\ UNCHANGED <<local, timers, loose, counts, ghosts>>

\* Another phone of the user saves its settings.
OtherPhone ==
  /\ switchNow < MaxSaves
  /\ switchNow' = switchNow + 1
  /\ cloud' = [on |-> TRUE, ts |-> switchNow + 1]
  /\ UNCHANGED <<local, timers, loose, switchFlight, switchEdits, switchFails, ghosts>>

\* mergeSettings: the newer settings win, the switch among them.
MergeSettings(remote) ==
  IF savedAt > remote.ts THEN UNCHANGED local
  ELSE on' = remote.on /\ savedAt' = remote.ts

\* The end of the forced download: everything is scheduled again.
Resume == Schedule(Queues) /\ pulled' = TRUE

\* The finally of an upload sets the variable of its queue to null, though a new
\* timer may have been started since.
Loosened(r) == loose \cup ({r.kind} \cap timers)

SwitchReply(r) ==
  /\ r \in switchFlight /\ r.at = "down"
  /\ switchFlight' = switchFlight \ {r}
  /\ IF r.kind = "pull" THEN MergeSettings(r.reply) ELSE UNCHANGED local
  /\ IF r.forced THEN Resume
     ELSE UNCHANGED <<timers, oldTimers, pulled>>
  /\ loose' = Loosened(r)
  /\ UNCHANGED <<cloud, counts, dirty>>

\* A request fails; a forced download that fails is followed by the uploads
\* all the same.
Fail(r) ==
  /\ switchFails < SwitchMaxFails /\ r \in switchFlight
  /\ switchFails' = switchFails + 1
  /\ switchFlight' = switchFlight \ {r}
  /\ UNCHANGED local
  /\ IF r.forced THEN Resume
     ELSE UNCHANGED <<timers, oldTimers, pulled>>
  /\ loose' = Loosened(r)
  /\ UNCHANGED <<cloud, switchNow, switchEdits, dirty>>

SwitchNext ==
  \/ \E v \in BOOLEAN : Save(v)
  \/ EditRow \/ OtherPhone
  \/ \E q \in Queues : Fire(q)
  \/ \E r \in switchFlight : Send(r) \/ SwitchHandle(r) \/ SwitchReply(r) \/ Fail(r)

SwitchFairness == /\ \A q \in Queues : WF_switchVars(Fire(q))
                  /\ WF_switchVars(\E r \in switchFlight : Send(r) \/ SwitchHandle(r) \/ SwitchReply(r))

SwitchSpec == SwitchInit /\ [][SwitchNext]_switchVars
-----------------------------------------------------------------------------

Resuming == \E r \in switchFlight : r.forced

\* Switched on again, the edits made while it was off are taken along by an
\* upload, also when the forced download fails, unless it is switched off.
ResumeUploads == Resuming /\ dirty ~> ~dirty \/ ~on
=============================================================================
