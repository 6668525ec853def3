----------------------------- MODULE MiniLayout -----------------------------
(***************************************************************************)
(* What the terminal page of the mini-program places on its view: the      *)
(* window of rows, the caret over the cursor, and the floating voice       *)
(* panel. The three parts are modelled apart.                              *)
(***************************************************************************)
EXTENDS Integers, Sequences, FiniteSets, SequencesExt

-----------------------------------------------------------------------------
(* The scrolled output of the mini-program's terminal page: the window of rows  *)
(* handed to the view, the timers that replace it while the user scrolls, the   *)
(* caret drawn over it, and the scrolling that keeps the caret above the soft   *)
(* keyboard (pages/terminal/terminalViewportModel.js, and index.js from         *)
(* queryOutputRect to refreshOutputViewportWindowForScroll).                    *)
(* Heights and scroll positions are counted in rows; rows outside the window    *)
(* are spacers and show blank.  Answers of the view come back later, one by one.*)
CONSTANTS MaxRows,    \* rows of the buffer
          Visible,    \* rows the view shows
          Budget,     \* rows of a window built while scrolling
          Plain,      \* rows of a window built for output
          Edge,       \* rows kept behind the scroll direction
          Margin,     \* rows left before the window is replaced
          Heights,    \* rows a keyboard covers
          MaxChains,  \* answers of the view under way
          MaxEvents   \* scroll events under way

ScrollNone == -1

VARIABLES scroll
\* The page and its view: rows and cur (cursor row) of the buffer, pos (where the
\* view is), top (where the page thinks it is), ev (scroll events under way), dir, win,
\* the timers (over, ahead, settle), busy (a window is being replaced), draw (scroll
\* position the caret was drawn for), chains (callbacks under way), the keyboard (kb,
\* typing, back, inset), here (page shown), home (the position to come back to).
\* History: late (something overtook an answer for the keyboard, or the user scrolled
\* while typing, and no output was laid out since), missed (the request of the settle
\* timer for rows outside the window was dropped, and no window was built since).
scrollVars == <<scroll>>

Least(a, b) == IF a < b THEN a ELSE b
Most(a, b) == IF a > b THEN a ELSE b

-----------------------------------------------------------------------------
(* terminalViewportModel.js: which rows are handed to the view.                 *)
MaxTop(rows, shown) == Most(0, rows - shown)

Behind(extra, dir) ==
  IF dir = 0 THEN extra \div 2
  ELSE LET trail == Least(extra, Most(Edge, (extra * 3) \div 10))
       IN IF dir > 0 THEN trail ELSE extra - trail

Filled(s, e, rows, size) ==
  LET back == Least(s, Most(0, size - (e - s)))
      fore == Least(rows - e, Most(0, size - (e - s) - back))
  IN [s |-> s - back, e |-> e + fore]

WindowAt(rows, at, dir, budget) ==
  LET first == Least(at, MaxTop(rows, Visible))
      last  == Least(rows, first + Visible)
      size  == Least(rows, budget)
      extra == Most(0, size - Visible)
      back  == Behind(extra, dir)
  IN Filled(Most(0, first - back), Least(rows, last + extra - back), rows, size)

(* The one that forgets the rows in front of the visible ones.                  *)
Window(rows, at, dir, budget) == WindowAt(rows, at, dir, budget)

-----------------------------------------------------------------------------
(* The view moves and says so later; events not delivered yet are merged.       *)
Moved(n, to) ==
  LET p == Least(to, MaxTop(n.rows + n.inset, Visible))
  IN IF p = n.pos THEN n
     ELSE [n EXCEPT !.pos = p,
                    !.ev = IF Len(@) = MaxEvents THEN Append(Front(@), p) ELSE Append(@, p)]

Told(n, to) == Moved([n EXCEPT !.top = to], to)

Queried(n) == [n EXCEPT !.top = n.pos]

Overlap(n) == n.kb

(* resolveKeyboardLayoutAdjustment: the least scrolling that shows the caret.   *)
AboveKeyboard(n, from) == Most(from, n.cur + 1 - (Visible - Overlap(n)))

ScrollDrawn(n) == [n EXCEPT !.draw = Least(n.top, MaxTop(n.rows, Visible - n.inset))]

Typing(n) == n.typing /\ n.kb > 0

Call(n, c) == [n EXCEPT !.chains = @ \cup {c}]
Chain(at, next) == [at |-> at, next |-> next]

(* refreshOutputLayout with a cached rectangle.                                 *)
Layout(n, keep, budget) ==
  LET at    == IF keep THEN Least(n.top, MaxTop(n.rows, Visible)) ELSE MaxTop(n.rows, Visible)
      next  == IF Typing(n) THEN AboveKeyboard(n, at) ELSE at
      inset == IF Typing(n) THEN Overlap(n) ELSE n.inset
      m     == [n EXCEPT !.win = Window(n.rows, next, IF keep THEN n.dir ELSE 1, budget),
                         !.inset = inset, !.missed = FALSE]
  IN IF keep THEN [m EXCEPT !.top = next] ELSE Told(m, next)

(* shouldRefreshOutputViewportWindow.                                           *)
Stale(n) ==
  LET first == Least(MaxTop(n.rows, Visible), n.top)
      back  == Most(0, first - n.win.s)
      fore  == Most(0, n.win.e - Least(n.rows, first + Visible))
  IN /\ n.win.e - n.win.s < n.rows
     /\ back <= Margin \/ fore <= Margin

Uncovered(n) == n.top < n.win.s \/ n.top + Visible > n.win.e

(* refreshOutputViewportWindowForScroll: nothing to do while one is under way.  *)
Replace(n) == Call(Layout([n EXCEPT !.busy = TRUE], TRUE, Budget), Chain("shown", ScrollNone))
Refreshed(n) == IF n.busy \/ ~Stale(n) THEN n ELSE Replace(n)

Prefetch(n) ==
  IF n.ahead \/ n.busy \/ ~Stale(n) THEN n
  ELSE IF Uncovered(n) THEN Replace(n) ELSE [n EXCEPT !.ahead = TRUE]

NoTimers(n) == [n EXCEPT !.over = FALSE, !.ahead = FALSE, !.settle = FALSE, !.dir = 0]

EnterKeyboard(n) ==
  IF n.typing THEN n ELSE [n EXCEPT !.typing = TRUE, !.back = n.top, !.home = n.top]

Adjust(n) == IF Typing(n) THEN Call(n, Chain("ask", ScrollNone)) ELSE n

(* restoreOutputScrollAfterKeyboard.                                            *)
Restore(n) ==
  LET m == [n EXCEPT !.kb = 0, !.back = ScrollNone, !.typing = FALSE]
  IN IF n.typing \/ n.back # ScrollNone
     THEN Call(Told([m EXCEPT !.inset = 0], Most(0, n.back)), Chain("end", ScrollNone))
     ELSE m

(* The second half of adjustOutputScrollForKeyboard.                            *)
ApplyScroll(n, next) == IF next = n.top THEN ScrollDrawn(Queried(n))
                        ELSE Call(Told(n, next), Chain("end", ScrollNone))

-----------------------------------------------------------------------------
Become(n) == scroll' = n /\ Cardinality(n.chains) <= MaxChains

Adjusting == \E c \in scroll.chains : c.at \in {"ask", "inset"}
Overtakes(n) == [n EXCEPT !.late = @ \/ Adjusting]

ScrollInit ==
  scroll = [rows |-> Visible, cur |-> Visible - 1, pos |-> 0, top |-> 0, ev |-> <<>>, dir |-> 0,
            win |-> [s |-> 0, e |-> Visible], over |-> FALSE, ahead |-> FALSE, settle |-> FALSE,
            busy |-> FALSE, draw |-> 0, chains |-> {}, kb |-> 0, typing |-> FALSE, back |-> ScrollNone,
            inset |-> 0, here |-> TRUE, home |-> ScrollNone, late |-> FALSE, missed |-> FALSE]

(* Output: the buffer grows, or is cleared down to the prompt, and the page     *)
(* follows its tail.                                                            *)
Output ==
  \E k \in {1, 3}, up \in {0, 2} :
    /\ scroll.here /\ scroll.rows < MaxRows
    /\ LET rows == Least(MaxRows, scroll.rows + k)
           n    == [scroll EXCEPT !.rows = rows, !.cur = rows - 1 - up,
                                  !.home = IF scroll.typing THEN @ ELSE ScrollNone,
                                  !.late = Adjusting]
       IN Become(Call(Layout(n, FALSE, Plain), Chain("draw", ScrollNone)))

ScrollOnClearScreen ==
  /\ scroll.here
  /\ scroll.rows > Visible /\ scroll.chains = {}
  /\ LET n == [scroll EXCEPT !.rows = 1, !.cur = 0, !.top = 0, !.home = IF scroll.typing THEN @ ELSE ScrollNone]
     IN Become(Call(Layout(n, FALSE, Plain), Chain("draw", ScrollNone)))

(* The user's finger, and the event the view sends for it.  (Bound: once the    *)
(* view is late, the finger rests until the next output.)                       *)
UserScrolls ==
  \E to \in 0..MaxTop(scroll.rows + scroll.inset, Visible) :
    /\ scroll.here /\ to # scroll.pos /\ ~scroll.late
    /\ Become(Moved([scroll EXCEPT !.home = IF scroll.typing THEN @ ELSE ScrollNone,
                                   !.late = @ \/ scroll.typing], to))

OnOutputScroll ==
  /\ scroll.ev # <<>>
  /\ LET to == Head(scroll.ev)
         n  == [scroll EXCEPT !.ev = Tail(@), !.top = to, !.over = TRUE,
                              !.dir = IF to > scroll.top THEN 1 ELSE IF to < scroll.top THEN -1 ELSE @]
     IN Become([Prefetch(n) EXCEPT !.settle = TRUE])

OverlayTimer == scroll.over /\ Become(ScrollDrawn([scroll EXCEPT !.over = FALSE]))
PrefetchTimer == scroll.ahead /\ Become(Refreshed([scroll EXCEPT !.ahead = FALSE]))

SettleTimerNoCaret ==
  scroll.settle /\ Become(Refreshed([scroll EXCEPT !.settle = FALSE, !.over = FALSE]))

(* finishTerminalScrollSync: while a window is being replaced its request is    *)
(* dropped, and the caret is left to the replacement.                           *)
SettleTimer ==
  /\ scroll.settle
  /\ LET n == [scroll EXCEPT !.settle = FALSE, !.over = FALSE,
                              !.missed = @ \/ (scroll.busy /\ Uncovered(scroll))]
     IN Become(IF n.busy \/ Stale(n) THEN Refreshed(n) ELSE ScrollDrawn(n))

(* The keyboard.                                                                *)
OnFocus ==
  \E h \in {0} \cup Heights :
    /\ scroll.here
    /\ LET n == EnterKeyboard(scroll)
       IN Become(IF h > 0 THEN Adjust([n EXCEPT !.kb = h]) ELSE ScrollDrawn(Queried(n)))

OnKeyboardHeight ==
  \E h \in Heights : scroll.here /\ Become(Adjust(EnterKeyboard([scroll EXCEPT !.kb = h])))

OnConfirm == scroll.here /\ Typing(scroll) /\ Become(Adjust(scroll))

OnKeyboardClosed ==
  /\ scroll.here /\ scroll.typing
  /\ Become(Restore(Overtakes(scroll)))

(* Callbacks: of a query for the keyboard, of its inset, of a layout.           *)
Asked(n) ==
  LET next == AboveKeyboard(Queried(n), n.pos)
  IN IF n.inset # Overlap(n)
     THEN Call(Moved([Queried(n) EXCEPT !.inset = Overlap(n)], n.pos), Chain("inset", next))
     ELSE ApplyScroll(Queried(n), next)

ScrollAnswer ==
  \E c \in scroll.chains :
    LET n == [scroll EXCEPT !.chains = @ \ {c}]
    IN Become(CASE c.at = "ask"   -> Asked(n)
                [] c.at = "inset" -> ApplyScroll(Queried(n), c.next)
                [] c.at = "end"   -> ScrollDrawn(Queried(n))
                [] c.at = "draw"  -> ScrollDrawn(n)
                [] c.at = "shown" -> ScrollDrawn([n EXCEPT !.busy = FALSE]))

(* Leaving the page stops the timers; coming back renders it again.             *)
Hide == scroll.here /\ ~scroll.typing /\ Become(NoTimers([scroll EXCEPT !.here = FALSE]))
Reappear == /\ ~scroll.here
        /\ Become(Call(Layout([scroll EXCEPT !.here = TRUE, !.home = ScrollNone], FALSE, Plain),
                       Chain("draw", ScrollNone)))

ScrollNext == \/ Output \/ ScrollOnClearScreen \/ UserScrolls \/ OnOutputScroll \/ OverlayTimer
              \/ PrefetchTimer \/ SettleTimer \/ OnFocus \/ OnKeyboardHeight \/ OnConfirm
              \/ OnKeyboardClosed \/ ScrollAnswer \/ Hide \/ Reappear

ScrollSpec == ScrollInit /\ [][ScrollNext]_scrollVars

-----------------------------------------------------------------------------
ScrollAtRest == scroll.here /\ scroll.chains = {} /\ scroll.ev = <<>> /\ ~scroll.over /\ ~scroll.ahead /\ ~scroll.settle

(* At rest no visible row is a blank spacer: the rows on screen are in the      *)
(* window the view was given (shouldRefreshOutputViewportWindowImmediately,     *)
(* finishTerminalScrollSync).  The one exception is a settle timer that came    *)
(* while a window was being replaced that does not reach as far: its request is *)
(* dropped, and the blank stays until the next scroll event or output.          *)
NoBlankRows ==
  ScrollAtRest /\ ~scroll.late /\ ~scroll.missed =>
                  /\ scroll.win.s <= scroll.pos
                  /\ Least(scroll.rows, scroll.pos + Visible) <= scroll.win.e

(* At rest the caret is drawn for the position the rows are at.                 *)
CaretOnItsRow == ScrollAtRest /\ ~scroll.late => scroll.draw = scroll.pos

(* At rest with the keyboard open, the caret's row is above the keyboard.       *)
CaretAboveKeyboard ==
  ScrollAtRest /\ Typing(scroll) /\ ~scroll.late => scroll.cur < scroll.pos + Visible - scroll.kb

(* The keyboard closed, and neither output nor the user moved the view since:   *)
(* it is back where it was when the keyboard opened.                            *)
PlaceRestored ==
  ScrollAtRest /\ ~scroll.typing /\ ~scroll.late /\ scroll.home # ScrollNone => scroll.pos = Least(scroll.home, MaxTop(scroll.rows, Visible))

(* Keeping the caret above the keyboard only ever scrolls down.                 *)
OnlyPushedDown == scroll'.pos < scroll.pos => scroll.late \/ ~ScrollAnswer

-----------------------------------------------------------------------------
(* The caret drawn over the mini-program's terminal, and the band around it     *)
(* that shows where a tap opens the keyboard (pages/terminal/index.js: the      *)
(* stabilised caret, syncTerminalOverlay, and performTerminalRenderRequest seen *)
(* from the caret).  While output is being applied slice by slice the cursor    *)
(* jumps to places it does not stay at; the caret is frozen until it has been   *)
(* at one place for a while, or a frame is forced.  Text is counted in slices.  *)
CONSTANTS Places,    \* where the cursor can be; 0 is the first row
          MaxSlices, \* slices of text in a task
          MaxAsks,   \* overlay queries under way
          Torn       \* a task's text may end inside a control sequence

CaretNone == [at |-> 0, vis |-> FALSE, none |-> TRUE]
Caret(at, vis) == [at |-> at, vis |-> vis, none |-> FALSE]

VARIABLES caret
\* The page: cur and hid (the cursor and its mode, as the output leaves them), up
\* (connected), here (page shown), hint (the user typed), queue (what the next run draws),
\* stage, left, torn and mine (the task's text and cursor), wait (slices applied and not
\* drawn), force,
\* built (the cursor the layout was built with), first (no overlay in this run yet),
\* stable and pend (the caret's snapshots), shown, band and debug (what the page shows),
\* asks (overlays that wait for the view's answer).
caretVars == <<caret>>

CaretInit ==
  caret = [cur |-> 0, hid |-> FALSE, up |-> TRUE, here |-> TRUE, hint |-> FALSE, queue |-> "none",
           stage |-> "idle", left |-> 0, torn |-> FALSE, wait |-> FALSE, force |-> FALSE,
           built |-> 0, mine |-> 0, first |-> TRUE, stable |-> CaretNone, pend |-> CaretNone,
           shown |-> Caret(0, TRUE), band |-> 0, debug |-> TRUE, asks |-> 0]

-----------------------------------------------------------------------------
(* resolveTerminalCaretRect, of the cursor a layout was built with or of the    *)
(* cursor now; the row is taken to be inside the view.                          *)
CaretAt(n, at) == Caret(at, n.up /\ ~n.hid)

(* hasActiveTerminalStdoutWork.                                                 *)
Working(n) == n.left > 0 \/ n.torn \/ n.wait

Forget(n) == [n EXCEPT !.stable = CaretNone, !.pend = CaretNone]

(* resolveStableTerminalCaret: the snapshot that is drawn.  aged says that the  *)
(* pending place was first seen TERMINAL_CARET_STABILITY_MS ago.                *)
CaretDrawn(n, c, aged) ==
  IF n.pend = c /\ aged THEN c
  ELSE IF n.stable.vis THEN n.stable ELSE c

Stabilised(n, c, freeze, aged) ==
  LET held == IF freeze /\ c.vis THEN CaretDrawn(n, c, aged) ELSE c
  IN [n EXCEPT !.pend = c, !.stable = held, !.shown = held]

(* resolveActivationBandFromCaretSnapshot; the other one reads the cursor.      *)
Band(n) == n.shown.at

(* applyOverlay with a rectangle.                                               *)
Overlay(n, at, freeze, aged) ==
  LET m == Stabilised(n, CaretAt(n, at), freeze, aged)
  IN [m EXCEPT !.band = IF n.debug THEN Band(m) ELSE @]

OverlayNow(n) == Overlay(n, n.cur, FALSE, FALSE)

(* applyOverlay when the view has no rectangle: a hidden page.                  *)
NoOverlay(n) == [Forget(n) EXCEPT !.shown.vis = FALSE]

AskView(n) == [n EXCEPT !.asks = @ + 1]

-----------------------------------------------------------------------------
(* The end of a run; the next one starts if anything was queued.                *)
CaretEnded(n) == [n EXCEPT !.stage = IF n.queue = "none" THEN "idle" ELSE "start",
                      !.left = 0, !.torn = FALSE, !.wait = FALSE, !.first = TRUE]

(* applyQueuedTerminalOutputBatch: k slices are applied and leave the cursor    *)
(* somewhere; all says that the budget let the pass read to the end, and carry  *)
(* an unfinished control sequence over to the next run.  A pass that applies    *)
(* none commits what waits, with the cursor of the task's own state.            *)
Applied(n, k, all, at, hid) ==
  [n EXCEPT !.left = @ - k, !.torn = IF all THEN FALSE ELSE @, !.hint = FALSE,
            !.cur = at, !.mine = at, !.hid = hid, !.wait = @ \/ k > 0]

(* The last frame and the frame after the user's input are forced.              *)
Forced(done, typed) == done \/ typed

(* The rest of performTerminalRenderRequest: with nothing to draw and nothing   *)
(* left the run is over; deferred, it goes on; otherwise a layout is built.     *)
Passed(n, typed, defer) ==
  LET done == n.left = 0 /\ ~n.torn
  IN IF ~n.wait THEN (IF done THEN CaretEnded(n) ELSE [n EXCEPT !.stage = "slice"])
     ELSE IF defer /\ ~typed /\ ~done THEN [n EXCEPT !.stage = "slice"]
     ELSE [n EXCEPT !.stage = "layout", !.wait = FALSE, !.built = n.cur,
                    !.force = Forced(done, typed)]

Passes(n) ==
  {Passed(Applied(n, x[1], x[2], x[3], x[4]), n.hint, x[5]) :
     x \in
       {p \in (0..n.left) \X BOOLEAN \X Places \X BOOLEAN \X BOOLEAN :
          /\ p[1] = 0 => /\ p[2] /\ n.left = 0 /\ p[4] = n.hid
                         /\ p[3] = IF n.wait THEN n.mine ELSE n.cur
          /\ p[2] => p[1] = n.left}}

-----------------------------------------------------------------------------
Queue(n, what) == [n EXCEPT !.queue = IF @ = "text" THEN "text" ELSE what,
                            !.stage = IF @ = "idle" THEN "start" ELSE @]

(* A frame of output; the user's keys; a cursor mode is part of the output.     *)
AppendOutput == caret.up /\ caret' = Queue(caret, "text")
MarkTerminalUserInput == caret' = [caret EXCEPT !.hint = TRUE]

(* The scheduler starts a run, of text or of the layout alone.                  *)
StartRun ==
  /\ caret.stage = "start"
  /\ \/ /\ caret.queue = "text"
        /\ \E k \in 0..MaxSlices, torn \in {FALSE, Torn} :
             /\ k > 0 \/ torn
             /\ \E n \in Passes([caret EXCEPT !.queue = "none", !.left = k, !.torn = torn]) : caret' = n
     \/ /\ caret.queue = "layout"
        /\ caret' = [caret EXCEPT !.queue = "none", !.stage = "layout", !.built = caret.cur, !.force = TRUE]

NextSlice == caret.stage = "slice" /\ \E n \in Passes(caret) : caret' = n

(* setData of the rows is done: the overlay, unless the last one is recent, and *)
(* finalizeAfterRender.  A layout without a rectangle asks the view for it.     *)
LayoutDone ==
  /\ caret.stage = "layout"
  /\ \E aged, late, rect \in BOOLEAN :
       LET sync == caret.force \/ caret.first \/ late
           n == IF ~sync THEN caret
                ELSE IF rect THEN Overlay(caret, caret.built, ~caret.force /\ Working(caret), aged)
                ELSE NoOverlay(caret)
           m == [n EXCEPT !.first = @ /\ ~sync]
       IN /\ rect \/ ~caret.here
          /\ caret' = IF Working(caret) THEN [m EXCEPT !.stage = "slice"] ELSE CaretEnded(m)

(* Overlays of a scroll timer, the keyboard or the focus are drawn at once.     *)
OtherOverlay == caret.here /\ caret' = OverlayNow(caret)

(* setStatus: the overlay follows when the view has answered.                   *)
SetStatus == caret.asks < MaxAsks /\ caret' = AskView([caret EXCEPT !.up = ~@])

CaretAnswer ==
  /\ caret.asks > 0
  /\ \E rect \in BOOLEAN :
       LET n == [caret EXCEPT !.asks = @ - 1]
       IN /\ rect \/ ~caret.here
          /\ caret' = IF rect THEN OverlayNow(n) ELSE NoOverlay(n)

CaretOnClearScreen == caret.here /\ caret' = Queue([caret EXCEPT !.cur = 0], "layout")

(* onHide drops what is queued; onShow reads the settings and renders again.    *)
OnHide ==
  /\ caret.here
  /\ caret' = Forget([caret EXCEPT !.here = FALSE, !.queue = "none",
                                   !.stage = IF @ = "start" THEN "idle" ELSE @])
OnShow == /\ ~caret.here
          /\ \E debug \in BOOLEAN :
               caret' = Queue([caret EXCEPT !.here = TRUE, !.debug = debug], "layout")

Run == StartRun \/ NextSlice \/ LayoutDone

CaretNext == \/ AppendOutput \/ MarkTerminalUserInput \/ Run \/ OtherOverlay
             \/ SetStatus \/ CaretAnswer \/ CaretOnClearScreen \/ OnHide \/ OnShow

CaretSpec == CaretInit /\ [][CaretNext]_caretVars

-----------------------------------------------------------------------------
CaretAtRest == caret.here /\ caret.stage = "idle" /\ caret.asks = 0

(* Once the output has been drawn and no answer of the view is awaited, the     *)
(* caret is where the cursor is, and hidden when the cursor is or the           *)
(* connection is gone: nothing stays frozen (resolveStableTerminalCaret).       *)
CaretIsCursor ==
  CaretAtRest => /\ caret.shown.vis <=> (caret.up /\ ~caret.hid)
                 /\ caret.shown.vis => caret.shown.at = caret.cur

(* The band moves in the frame in which the caret moves, and never on its own   *)
(* (resolveActivationBandFromCaretSnapshot).                                    *)
BandMovesWithCaret ==
  caret'.debug /\ caret.debug /\ (caret'.band # caret.band \/ caret'.shown.at # caret.shown.at)
    => caret'.band = caret'.shown.at

-----------------------------------------------------------------------------
(***************************************************************************)
(* The floating voice button of the mini-program's terminal page           *)
(* (pages/terminal/index.js) and the panel it unfolds into.  One pair      *)
(* voiceFloatLeft, voiceFloatBottom places both: folded it is the corner   *)
(* of the button, unfolded the corner of the panel, in which the row of    *)
(* actions, the button with it, is shifted by voiceActionsOffsetX.         *)
(* Pixels of one window; fractions of a pixel are left out.  The rounds    *)
(* that the button starts are in MiniSpeech.                               *)
(***************************************************************************)
CONSTANTS
    Width, WindowHeight, \* windowWidth, windowHeight
    InsetLeft, InsetBottom, \* resolveVoiceMainButtonAnchorInset
    FallbackHeight,   \* VOICE_PANEL_FALLBACK_HEIGHT_PX
    PanelHeights,     \* what the panel is measured to be
    FallbackOffset,   \* the actions' range as computed from the constants
    MaxOffsets,       \* what it is measured to be
    Ways,             \* ways a finger goes, on either axis
    Toggles           \* the voice button may be switched off with its panel open

VARIABLES
    left, bottom, offset, \* voiceFloatLeft, voiceFloatBottom, voiceActionsOffsetX
    panelShown,   \* voicePanelVisible
    enabled,      \* showVoiceInputButton
    height,       \* voicePanelHeightPx
    maxOffset,    \* voiceActionsMaxOffsetPx, 0 before it is measured
    touching,     \* what the finger came down on, or "none"
    armed,        \* voiceHoldTimer is set
    drag,         \* voiceGesture: dragCandidate, dragActive, origin
    slide,        \* voiceActionsDrag: the offset it started from, or -1
    measures,     \* a query of the panel's size is out
    syncs,        \* the callback of a setData is to call syncVoiceFloatWithinBounds
    panelFrom     \* history: the folded position since which nothing was moved

panelVars == <<left, bottom, offset, panelShown, enabled, height, maxOffset, touching, armed,
               drag, slide, measures, syncs, panelFrom>>
place == <<left, bottom, offset>>
sizes == <<height, maxOffset>>

Gap == 16
ThresholdPx == 10
Larger(a, b)  == IF a > b THEN a ELSE b
Smaller(a, b) == IF a < b THEN a ELSE b
Between(v, lo, hi) == Smaller(hi, Larger(lo, v))

\* clampVoiceExpandedOrigin: the panel is as wide as the window allows.
PanelWidth == Width - 2 * Gap
LastLeft   == Larger(Gap, Width - PanelWidth - Gap)
LastBottom(h) == Larger(Gap, WindowHeight - h - Gap)
ExpandedOrigin(l, b, h) == [l |-> Between(l, Gap, LastLeft), b |-> Between(b, Gap, LastBottom(h))]

\* resolveVoiceActionsMaxOffsetPx
MaxOffset == IF maxOffset > 0 THEN maxOffset ELSE FallbackOffset

\* getCollapsedVoiceButtonBounds
Bounds(h) == [minLeft |-> Gap + InsetLeft, maxLeft |-> Gap + InsetLeft + MaxOffset,
              minBottom |-> Gap + InsetBottom, maxBottom |-> LastBottom(h) + InsetBottom]

\* clampCollapsedVoiceButtonPosition
CollapsedPosition(l, b, h) ==
    [l |-> Between(l, Bounds(h).minLeft, Bounds(h).maxLeft),
     b |-> Between(b, Bounds(h).minBottom, Bounds(h).maxBottom)]

\* resolveVoiceActionsOffsetFromCollapsedLeft
OffsetOf(l) == Between(l - Bounds(height).minLeft, 0, MaxOffset)

\* clampVoiceFloatPosition
Within(l, b, panel, h) ==
    IF panel THEN ExpandedOrigin(l, b, h) ELSE CollapsedPosition(l, b, h)

\* A window that is wide and high enough for the folded button and its panel.
ASSUME PanelAssumption ==
    /\ Width \in Nat /\ WindowHeight \in Nat /\ InsetLeft \in Nat /\ InsetBottom \in Nat
    /\ FallbackHeight \in Nat /\ PanelHeights \subseteq Nat
    /\ FallbackOffset \in Nat /\ MaxOffsets \subseteq Nat /\ Ways \subseteq Int
    /\ \A m \in MaxOffsets \cup {FallbackOffset} : Gap + InsetLeft + m <= Width
    /\ Gap + InsetBottom <= WindowHeight
    /\ \A h \in PanelHeights \cup {FallbackHeight} : InsetBottom <= h

NoDrag == [candidate |-> FALSE, active |-> FALSE, l |-> 0, b |-> 0]

\* initVoiceFloatMetrics
PanelInit ==
         /\ left = Gap + InsetLeft /\ bottom = Gap + InsetBottom /\ offset = 0
         /\ panelShown = FALSE /\ enabled = TRUE
         /\ height = FallbackHeight /\ maxOffset = 0
         /\ touching = "none" /\ armed = FALSE /\ drag = NoDrag /\ slide = -1
         /\ measures = FALSE /\ syncs = FALSE
         /\ panelFrom = <<Gap + InsetLeft, Gap + InsetBottom>>

-----------------------------------------------------------------------------
(* The finger comes down.  A touch bubbles from the button to the row of   *)
(* actions and to the layer, whose handler runs last; it takes the touch   *)
(* for a drag when the node touched has data-drag-handle, which the icon   *)
(* on the button has not.                                                  *)

LayerTouchStart(on, handle) ==
    /\ touching = "none" /\ enabled
    /\ touching' = on
    /\ drag' = [candidate |-> handle, active |-> FALSE, l |-> left, b |-> bottom]

\* onVoicePressStart on the folded button
PressFolded(handle) ==
    /\ ~panelShown
    /\ LayerTouchStart("button", handle)
    /\ armed' = TRUE
    /\ UNCHANGED <<place, panelShown, enabled, sizes, slide, measures, syncs, panelFrom>>

\* onVoiceActionsTouchStart, under the main button or beside it
PressActions(main) ==
    /\ panelShown
    /\ LayerTouchStart("actions", main)
    /\ armed' = (armed \/ main)
    /\ slide' = offset
    /\ measures' = TRUE
    /\ UNCHANGED <<place, panelShown, enabled, sizes, syncs, panelFrom>>

TouchInput(handle) ==
    /\ panelShown
    /\ LayerTouchStart("input", handle)
    /\ UNCHANGED <<place, panelShown, enabled, sizes, armed, slide, measures, syncs, panelFrom>>

\* onVoiceLayerTouchMove
DragBy(dx, dy) ==
    LET next == Within(drag.l + dx, drag.b - dy, panelShown, height) IN
    /\ touching \in {"button", "input"}
    /\ drag.candidate
    /\ drag.active \/ dx * dx + dy * dy >= ThresholdPx * ThresholdPx
    /\ drag' = [drag EXCEPT !.active = TRUE]
    /\ armed' = FALSE
    /\ left' = next.l /\ bottom' = next.b
    /\ offset' = IF panelShown THEN offset ELSE OffsetOf(next.l)
    /\ panelFrom' = IF panelShown THEN <<>> ELSE <<next.l, next.b>>
    /\ UNCHANGED <<panelShown, enabled, sizes, touching, slide, measures, syncs>>

\* onVoiceActionsTouchMove, which no layer sees: the measured range alone counts
SlideBy(dx) ==
    /\ touching = "actions" /\ slide # -1
    /\ offset' = Between(slide + dx, 0, maxOffset)
    /\ panelFrom' = <<>>
    /\ UNCHANGED <<left, bottom, panelShown, enabled, sizes, touching, armed, drag, slide, measures, syncs>>

\* onVoicePressEnd, onVoiceLayerTouchEnd, onVoiceActionsTouchEnd
LiftFinger ==
    /\ touching # "none"
    /\ touching' = "none" /\ armed' = FALSE /\ slide' = -1
    /\ drag' = NoDrag
    /\ UNCHANGED <<place, panelShown, enabled, sizes, measures, syncs, panelFrom>>

-----------------------------------------------------------------------------
(* The panel.                                                              *)

\* resolveExpandedVoiceOriginFromCollapsedButton
Unfolded ==
    LET o == OffsetOf(left)
    IN  [origin |-> ExpandedOrigin(left - InsetLeft - o, bottom - InsetBottom, height), o |-> o]

\* The finger rests: the folded button unfolds under it.
UnfoldTimer ==
    /\ armed /\ ~drag.active
    /\ armed' = FALSE
    /\ IF panelShown THEN UNCHANGED <<place, panelShown, measures>>
       ELSE /\ panelShown' = TRUE /\ measures' = TRUE
            /\ left' = Unfolded.origin.l /\ bottom' = Unfolded.origin.b
            /\ offset' = Unfolded.o
    /\ UNCHANGED <<enabled, sizes, touching, drag, slide, syncs, panelFrom>>

\* measureVoicePanelHeight with syncVoiceFloatWithinBounds, and then
\* measureVoiceActionsBounds; nothing is found once the panel has gone.
Measured(h, m) ==
    LET next == Within(left, bottom, TRUE, h) IN
    /\ measures /\ measures' = FALSE
    /\ IF panelShown THEN /\ height' = h /\ maxOffset' = m
                          /\ left' = next.l /\ bottom' = next.b
                          /\ offset' = Between(offset, 0, m)
                          /\ panelFrom' = IF h = height /\ offset' = offset THEN panelFrom ELSE <<>>
       ELSE UNCHANGED <<place, sizes, panelFrom>>
    /\ UNCHANGED <<panelShown, enabled, touching, armed, drag, slide, syncs>>

\* resolveCollapsedVoiceButtonPositionFromExpandedOrigin
FoldedLeft   == left + InsetLeft + Between(offset, 0, MaxOffset)
FoldedBottom == bottom + InsetBottom

\* Mutant of Fold: the panel goes, the numbers stay.
FoldWhereItIs ==
    /\ panelShown /\ touching = "none"
    /\ panelShown' = FALSE
    /\ syncs' = TRUE
    /\ UNCHANGED <<place, enabled, sizes, touching, armed, drag, slide, measures, panelFrom>>

\* onRecordDraft, onSendDraft, onCancelDraft
Fold ==
    /\ panelShown /\ touching = "none"
    /\ panelShown' = FALSE
    /\ left' = FoldedLeft /\ bottom' = FoldedBottom
    /\ syncs' = TRUE
    /\ UNCHANGED <<offset, enabled, sizes, touching, armed, drag, slide, measures, panelFrom>>

\* syncVoiceFloatWithinBounds in the callback
Sync ==
    LET next == Within(left, bottom, panelShown, height) IN
    /\ syncs /\ syncs' = FALSE
    /\ left' = next.l /\ bottom' = next.b
    /\ offset' = IF panelShown THEN offset ELSE OffsetOf(next.l)
    /\ UNCHANGED <<panelShown, enabled, sizes, touching, armed, drag, slide, measures, panelFrom>>

\* The page comes back from the settings: onShow.
BackFromSettings(on) ==
    /\ Toggles \/ ~panelShown
    /\ touching = "none" /\ ~syncs
    /\ enabled' = on
    /\ panelShown' = (on /\ panelShown)
    /\ UNCHANGED <<place, sizes, touching, armed, drag, slide, measures, syncs, panelFrom>>

PanelNext ==
         \/ \E handle \in BOOLEAN : PressFolded(handle) \/ PressActions(handle) \/ TouchInput(handle)
         \/ \E dx, dy \in Ways : DragBy(dx, dy)
         \/ \E dx \in Ways : SlideBy(dx)
         \/ LiftFinger \/ UnfoldTimer \/ Fold \/ Sync
         \/ \E h \in PanelHeights, m \in MaxOffsets : Measured(h, m)
         \/ \E on \in BOOLEAN : BackFromSettings(on)

PanelSpec == PanelInit /\ [][PanelNext]_panelVars

-----------------------------------------------------------------------------
\* Every variable has a value its code can hold: places, measurements and the gesture.
PanelTypeOK ==
    /\ left \in 0..Width /\ bottom \in 0..WindowHeight /\ offset \in 0..Width
    /\ {panelShown, enabled, armed, measures, syncs} \subseteq BOOLEAN
    /\ height \in PanelHeights \cup {FallbackHeight} /\ maxOffset \in MaxOffsets \cup {0}
    /\ touching \in {"none", "button", "actions", "input"}
    /\ slide \in Int /\ drag.candidate \in BOOLEAN

\* The folded button stays where the panel would fit around it, and the
\* unfolded panel inside the window, whatever was dragged, slid and measured
\* ("收起态按钮只能停留在展开面板可完全容纳的区域内", index.js 6315-6319).
FoldedFits ==
    enabled /\ ~panelShown /\ ~syncs =>
        CollapsedPosition(left, bottom, height) = [l |-> left, b |-> bottom]

\* The unfolded panel stays inside the window, however it was opened, dragged and measured.
PanelFits ==
    panelShown => ExpandedOrigin(left, bottom, height) = [l |-> left, b |-> bottom]

\* A panel that was neither dragged nor slid folds back to the place of the
\* button it came from ("长按展开时，主语音按钮才能稳定落在按压位置附近").
FoldsBack ==
    [][panelShown /\ ~panelShown' /\ enabled' /\ panelFrom # <<>> => left' = panelFrom[1] /\ bottom' = panelFrom[2]]_panelVars

(* The voice button and the panel it unfolds into fit the window, and folding   *)
(* the panel brings the button back to where it was.                            *)
ButtonStaysInReach == [](PanelTypeOK /\ FoldedFits /\ PanelFits) /\ FoldsBack
=============================================================================
