------------------------------ MODULE MiniRender ------------------------------
(* From a frame of output to the screen in the mini-program's terminal page:    *)
(* the scheduler that merges samples into one run at a time, the task that      *)
(* applies a run's text slice by slice, and the layout that shows the rows      *)
(* (pages/terminal/terminalRenderScheduler.js, index.js from                    *)
(* persistTerminalBufferSnapshot to performTerminalRenderRequest).  Text is a   *)
(* sequence of pieces; a piece in Heads is the first half of a control sequence *)
(* that the next piece completes.  Geometry is the number of columns.           *)
EXTENDS Naturals, Sequences, SequencesExt

CONSTANTS MaxOut,     \* pieces received
          Heads,      \* pieces that end inside a control sequence
          Geometries, \* widths the view may have
          MaxLeaves,  \* times the user leaves the page
          MaxClears   \* times the user clears the screen

VARIABLES s,      \* the scheduler: pending request, batch timer, stage of the run in flight
          k,      \* the stdout task of the run in flight and the carried text
          b,      \* rows, replay text and geometry of the page, and what the view shows
          env     \* page visibility, connection, view width and history

vars == <<s, k, b, env>>

Now == [s |-> s, k |-> k, b |-> b, env |-> env]
Become(n) == s' = n.s /\ k' = n.k /\ b' = n.b /\ env' = n.env

NoTask == [rest |-> <<>>, st |-> <<>>, wait |-> <<>>, cols |-> 0, rect |-> 0]

Init ==
  \E g \in Geometries :
    /\ s = [has |-> FALSE, pend |-> <<>>, ask |-> FALSE, timer |-> FALSE,
            stage |-> "idle", text |-> FALSE, asked |-> FALSE]
    /\ k = [task |-> NoTask, carry |-> <<>>]
    /\ b = [cells |-> <<>>, cellCols |-> g, replay |-> <<>>, cols |-> g, built |-> <<>>,
            shown |-> <<>>, snap |-> <<>>]
    /\ env = [page |-> "shown", link |-> "up", rect |-> g, pty |-> g, got |-> 0,
              gone |-> {}, leaves |-> 0, clears |-> 0]

-----------------------------------------------------------------------------
(* Slices of a task.                                                            *)
Cuts(text) == {i \in 1..Len(text) : text[i] \notin Heads}

(* What one slice may do with the text: take a part up to a cut, or, when no    *)
(* cut is left in what remains, take all cuts and carry the tail.               *)
Slices(text) ==
  {[n |-> i, carry |-> FALSE] : i \in Cuts(text)}
  \cup {[n |-> i, carry |-> TRUE] :
          i \in {j \in {0} \cup Cuts(text) : j < Len(text) /\ \A c \in Cuts(text) : c <= j}}

NewTask(n) ==
  [n EXCEPT !.k.task = [rest |-> n.k.carry \o n.s.pend, st |-> n.b.cells, wait |-> <<>>,
                        cols |-> n.b.cols, rect |-> 0],
            !.k.carry = <<>>]

(* A visible commit: replay text and rows move together, then a layout.         *)
Commit(n) ==
  [n EXCEPT !.b.replay = @ \o n.k.task.wait, !.b.cells = n.k.task.st,
            !.b.cellCols = n.k.task.cols, !.k.task.wait = <<>>, !.s.stage = "query"]

(* One pass over the task: c is the slice, defer the render decision, which is  *)
(* never to wait once the text is used up.                                      *)
Slice(n, c, defer) ==
  LET t == n.k.task
      piece == SubSeq(t.rest, 1, c.n)
      tail == SubSeq(t.rest, c.n + 1, Len(t.rest))
      m == [n EXCEPT !.k.task = [t EXCEPT !.rest = IF c.carry THEN <<>> ELSE tail,
                                          !.st = @ \o piece, !.wait = @ \o piece],
                     !.k.carry = IF c.carry THEN tail ELSE @]
  IN IF m.k.task.wait = <<>> THEN [m EXCEPT !.s.stage = "done"]
     ELSE IF defer /\ m.k.task.rest # <<>> THEN [m EXCEPT !.s.stage = "slice"]
     ELSE Commit(m)

(* The end of a run: its callbacks, one of which connects a page that came back.*)
Idle(n) ==
  LET m == [n EXCEPT !.s.stage = "idle", !.s.text = FALSE, !.s.asked = FALSE, !.k.task = NoTask]
  IN IF n.s.asked /\ n.env.link = "parked"
     THEN [m EXCEPT !.env.link = "opening", !.k.carry = <<>>,
                    !.env.gone = @ \cup ToSet(n.k.carry)]
     ELSE m

(* startNextRun: the pending request becomes the run in flight.  With text, the *)
(* first slice is part of the start; without, the layout is.                    *)
StartRun(n, c, defer) ==
  LET m == [n EXCEPT !.s = [@ EXCEPT !.has = FALSE, !.pend = <<>>, !.ask = FALSE,
                                     !.timer = FALSE, !.stage = "query",
                                     !.text = n.s.pend # <<>>, !.asked = n.s.ask]]
  IN IF n.s.pend = <<>> THEN m
     ELSE [Slice([m EXCEPT !.k = NewTask(n).k], c, defer) EXCEPT !.s.text = TRUE]

Settle(n) == IF n.s.stage = "done" THEN Idle(n) ELSE n

NextText(n) == IF n.s.pend = <<>> THEN <<1>> ELSE NewTask(n).k.task.rest

StartStates(n) == {Settle(StartRun(n, c, d)) : c \in Slices(NextText(n)), d \in BOOLEAN}

FinishStates(n) == IF n.s.has THEN StartStates(Idle(n)) ELSE {Idle(n)}

(* requestImmediate: merged into a run that waits, started when none is under   *)
(* way; ask stands for sendResize and for the callback.                         *)
RequestStates(n, ask) ==
  LET m == [n EXCEPT !.s.has = TRUE, !.s.ask = @ \/ ask, !.s.timer = FALSE]
  IN IF n.s.stage = "idle" THEN StartStates(m) ELSE {m}

-----------------------------------------------------------------------------
(* Actions.                                                                     *)
AppendOutput ==
  /\ env.link = "up" /\ env.got < MaxOut
  /\ s' = [s EXCEPT !.has = TRUE, !.pend = Append(@, env.got + 1),
                    !.timer = @ \/ s.stage = "idle"]
  /\ env' = [env EXCEPT !.got = @ + 1]
  /\ UNCHANGED <<k, b>>

BatchTimer ==
  /\ s.timer
  /\ \E n \in StartStates(Now) : Become(n)

NextSlice ==
  /\ s.stage = "slice"
  /\ \E c \in Slices(k.task.rest), d \in BOOLEAN :
       LET m == Slice(Now, c, d)
       IN IF m.s.stage = "done" THEN \E n \in FinishStates(m) : Become(n) ELSE Become(m)

(* syncTerminalGeometryFromRect: a new width rebuilds the rows from the replay  *)
(* text and, if the request says so, tells the server.                          *)
SyncGeometry(n, rect, send) ==
  IF rect = n.b.cols THEN n
  ELSE LET rebuilt == n.b.replay # <<>>
       IN [n EXCEPT !.b.cols = rect,
                    !.b.cells = IF rebuilt THEN n.b.replay ELSE @,
                    !.b.cellCols = IF rebuilt \/ @ = 0 \/ n.b.cells = <<>> THEN rect ELSE @,
                    !.env.pty = IF send /\ n.env.link = "up" THEN rect ELSE @]

(* refreshOutputLayout once the rectangle is known: a later slice of a task     *)
(* uses the rectangle of its first layout.                                      *)
BuildLayout ==
  /\ s.stage = "query"
  /\ LET reuse == s.text /\ ~s.asked /\ k.task.rest # <<>> /\ k.task.rect # 0
         n == SyncGeometry(Now, IF reuse THEN k.task.rect ELSE env.rect, s.asked)
     IN Become([n EXCEPT !.b.built = n.b.cells, !.s.stage = "commit"])

(* setData, the overlay and finalizeAfterRender.                                *)
LayoutDone ==
  /\ s.stage = "commit"
  /\ LET n == [Now EXCEPT !.b.shown = b.built, !.k.task.rect = IF s.text THEN b.cols ELSE @]
     IN IF k.task.rest # <<>> THEN Become([n EXCEPT !.s.stage = "slice"])
        ELSE \E m \in FinishStates(n) : Become(m)

ClearScreen ==
  /\ env.page = "shown" /\ env.clears < MaxClears
  /\ \E n \in RequestStates([Now EXCEPT !.b.cells = <<>>, !.b.replay = <<>>,
                                        !.b.cellCols = b.cols, !.env.clears = @ + 1,
                                        !.env.gone = @ \cup ToSet(b.cells)], FALSE) :
       Become(n)

(* onHide: what waits is dropped, then the rows are saved and the link closed.  *)
Hide ==
  /\ env.page = "shown" /\ env.leaves < MaxLeaves
  /\ s' = [s EXCEPT !.has = FALSE, !.pend = <<>>, !.ask = FALSE, !.timer = FALSE]
  /\ env' = [env EXCEPT !.page = "hidden", !.leaves = @ + 1,
                        !.link = IF @ = "down" THEN "down" ELSE "parked",
                        !.gone = @ \cup ToSet(s.pend)]
  /\ b' = [b EXCEPT !.snap = IF env.link \in {"up", "opening"} THEN b.cells ELSE @]
  /\ UNCHANGED k

(* onShow, with a width that may differ (font size, settings).                  *)
Show ==
  /\ env.page = "hidden"
  /\ \E g \in Geometries :
       \E n \in RequestStates([Now EXCEPT !.env.page = "shown", !.env.rect = g], TRUE) : Become(n)

(* control.connected of a resumed session.                                      *)
Resumed ==
  /\ env.link = "opening"
  /\ \E n \in RequestStates([Now EXCEPT !.env.link = "up"], TRUE) : Become(n)

Disconnect ==
  /\ env.link = "up"
  /\ env' = [env EXCEPT !.link = "down", !.gone = @ \cup ToSet(k.carry)]
  /\ k' = [k EXCEPT !.carry = <<>>]
  /\ UNCHANGED <<s, b>>

(* The user connects again.                                                     *)
Reconnect ==
  /\ env.page = "shown" /\ env.link = "down"
  /\ env' = [env EXCEPT !.link = "opening", !.pty = b.cols]
  /\ UNCHANGED <<s, k, b>>

Render == NextSlice \/ BuildLayout \/ LayoutDone

Next ==
  \/ AppendOutput \/ BatchTimer \/ Render \/ ClearScreen
  \/ Hide \/ Show \/ Resumed \/ Disconnect \/ Reconnect

(* Timers fire and layout callbacks arrive; the user, the server and the output *)
(* are free.                                                                    *)
Fairness == WF_vars(BatchTimer) /\ WF_vars(Render)

Spec == Init /\ [][Next]_vars

-----------------------------------------------------------------------------
Kept == SelectSeq([i \in 1..env.got |-> i], LAMBDA i : i \notin env.gone)

(* Output passes the scheduler, the carry and the slices in order, each piece   *)
(* once: what is on the page and on its way is what was received, less what a   *)
(* hidden page or a dropped connection discarded.                               *)
OutputInOrder ==
  b.cells \o k.task.wait \o k.task.rest \o k.carry \o s.pend = Kept

(* The replay text is the text of the rows, deferred slices included in neither,*)
(* so that a change of width can rebuild one from the other.                    *)
ReplayIsRows == b.replay = b.cells

(* A request that waits has a run in flight or a timer to start it.             *)
PendingIsScheduled == s.has => s.timer \/ s.stage # "idle"

(* Every piece is shown, discarded, or held as an unfinished control sequence.  *)
OutputShown ==
  \A i \in 1..MaxOut :
    []<>(i <= env.got => i \in env.gone \/ i \in ToSet(b.shown) \/ i \in ToSet(k.carry))

=============================================================================
