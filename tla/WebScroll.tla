------------------------------- MODULE WebScroll -------------------------------
(***************************************************************************)
(* Scrolling of the web terminal (TerminalPanel.vue): a wheel and a flick  *)
(* each leave a frame loop behind that goes on scrolling and dies away,    *)
(* and what is typed stops both and shows the bottom again, now and in the *)
(* next frame.  Positions are lines from the top; a speed is lost by one   *)
(* line per frame.  That the view follows new output while it is at the    *)
(* bottom, and that one finger drags it, is xterm's.                       *)
(***************************************************************************)
EXTENDS Integers, TLAPS

CONSTANTS MaxLines,  \* bound: lines of history
          MaxSpeed   \* WHEEL_INERTIA_MAX_SPEED, TOUCH_SCROLL_MAX_SPEED

ASSUME ScrollAssumption == MaxLines \in Nat \ {0} /\ MaxSpeed \in Nat \ {0}

VARIABLES
  mounted,
  pos, bottom,   \* scrollTop, and the scrollTop that shows the bottom
  wheel, touch,  \* the loops: their speed, the variable that holds the frame asked
                 \* for (raf), and the frames the browser will call
  fingers,       \* fingers on the terminal
  selection,     \* text is selected in it
  reveals,       \* the frame of revealCursorAtBottom is asked for
  typed          \* ghost: the last thing the user did was to type

scrollVars == <<mounted, pos, bottom, wheel, touch, fingers, selection, reveals, typed>>

Loop(v, raf, frames) == [v |-> v, raf |-> raf, frames |-> frames]
Still == Loop(0, FALSE, 0)

ScrollInit ==
  /\ mounted = TRUE /\ pos = 1 /\ bottom = 1
  /\ wheel = Still /\ touch = Still /\ fingers = 0 /\ selection = FALSE
  /\ reveals = FALSE /\ typed = FALSE

Between(lo, x, hi) == IF x < lo THEN lo ELSE IF x > hi THEN hi ELSE x
Scrolled(d) == Between(0, pos + d, bottom)
Capped(v) == Between(-MaxSpeed, v, MaxSpeed)
Damped(v) == IF v > 0 THEN v - 1 ELSE IF v < 0 THEN v + 1 ELSE 0

\* clearWheelInertia, clearTouchScrollMomentum
Cleared(l) == Loop(0, FALSE, IF l.raf THEN l.frames - 1 ELSE l.frames)

\* runWheelInertia, runTouchScrollMomentum
Runs(l) == IF l.raf THEN l ELSE Loop(l.v, TRUE, l.frames + 1)

\* step: the frame of a loop; it stops when it is slow or at an edge
Stepped(l) ==
  LET v == Damped(l.v) IN
  IF v = 0 \/ Scrolled(v) = pos THEN Loop(0, FALSE, l.frames - 1) ELSE Loop(v, TRUE, l.frames)

WheelFrame ==
  /\ mounted /\ wheel.frames > 0
  /\ pos' = Scrolled(Damped(wheel.v)) /\ wheel' = Stepped(wheel)
  /\ UNCHANGED <<mounted, bottom, touch, fingers, selection, reveals, typed>>

TouchFrame ==
  /\ mounted /\ touch.frames > 0
  /\ pos' = Scrolled(Damped(touch.v)) /\ touch' = Stepped(touch)
  /\ UNCHANGED <<mounted, bottom, wheel, fingers, selection, reveals, typed>>

\* onViewportWheel: a turn the other way, or a late one, starts a speed anew
Wheel(d) ==
  /\ mounted /\ pos' = Scrolled(d) /\ typed' = FALSE
  /\ \E v \in IF wheel.v * d < 0 THEN {d} ELSE {d, wheel.v + d} :
       wheel' = Runs(Loop(Capped(v), wheel.raf, wheel.frames))
  /\ UNCHANGED <<mounted, bottom, touch, fingers, selection, reveals>>

TouchStartGliding ==
  /\ mounted /\ fingers < 2 /\ fingers' = fingers + 1
  /\ UNCHANGED <<mounted, pos, bottom, wheel, touch, selection, reveals, typed>>
TouchStart ==
  /\ mounted /\ fingers < 2 /\ fingers' = fingers + 1
  /\ touch' = Cleared(touch)
  /\ UNCHANGED <<mounted, pos, bottom, wheel, selection, reveals, typed>>

\* onTouchKeyboardTouchMove: the speed of one finger is followed, unless its
\* last position is too old; with a selection xterm is not told.
TouchMove(d) ==
  /\ mounted /\ fingers > 0
  /\ \E timely \in BOOLEAN :
       touch' = IF fingers = 1 /\ timely THEN Loop(Capped(d), touch.raf, touch.frames) ELSE touch
  /\ pos' = IF selection THEN pos ELSE Scrolled(d)
  /\ typed' = FALSE
  /\ UNCHANGED <<mounted, bottom, wheel, fingers, selection, reveals>>

TouchEnd ==
  /\ mounted /\ fingers > 0 /\ fingers' = fingers - 1
  /\ touch' = IF selection \/ touch.v = 0 THEN Cleared(touch) ELSE Runs(touch)
  /\ UNCHANGED <<mounted, pos, bottom, wheel, selection, reveals, typed>>

\* A long press selects; the system takes the selection away again.
LongPress ==
  /\ mounted /\ fingers = 1 /\ selection' = TRUE
  /\ UNCHANGED <<mounted, pos, bottom, wheel, touch, fingers, reveals, typed>>
Deselect ==
  /\ selection /\ selection' = FALSE
  /\ UNCHANGED <<mounted, pos, bottom, wheel, touch, fingers, reveals, typed>>

\* sendTerminalInput: a key, a key of the touch tools, pasted or spoken text
Input ==
  /\ mounted
  /\ wheel' = Cleared(wheel) /\ touch' = Cleared(touch)
  /\ pos' = bottom /\ reveals' = TRUE /\ typed' = TRUE
  /\ UNCHANGED <<mounted, bottom, fingers, selection>>

RevealFrame ==
  /\ reveals /\ reveals' = FALSE
  /\ pos' = IF mounted THEN bottom ELSE pos
  /\ UNCHANGED <<mounted, bottom, wheel, touch, fingers, selection, typed>>

Output ==
  /\ mounted /\ bottom < MaxLines /\ bottom' = bottom + 1
  /\ pos' = IF pos = bottom THEN bottom' ELSE pos
  /\ UNCHANGED <<mounted, wheel, touch, fingers, selection, reveals, typed>>

\* onBeforeUnmount
Unmount ==
  /\ mounted /\ mounted' = FALSE
  /\ wheel' = Cleared(wheel) /\ touch' = Cleared(touch)
  /\ fingers' = 0 /\ selection' = FALSE
  /\ UNCHANGED <<pos, bottom, reveals, typed>>

Steps == (-MaxSpeed .. MaxSpeed) \ {0}

ScrollNext ==
  \/ WheelFrame \/ TouchFrame \/ RevealFrame
  \/ \E d \in Steps : Wheel(d) \/ TouchMove(d)
  \/ TouchStart \/ TouchEnd \/ LongPress \/ Deselect
  \/ Input \/ Output \/ Unmount

ScrollSpec == ScrollInit /\ [][ScrollNext]_scrollVars
-----------------------------------------------------------------------------
\* Each loop has one frame while its variable holds it and none otherwise: none
\* is left that no clear reaches, none goes on after the page is gone.
OneLoop ==
  \A l \in {wheel, touch} : /\ l.frames = (IF l.raf THEN 1 ELSE 0)
                            /\ mounted \/ l.frames = 0

\* After typing, the view stays at the bottom until a wheel or a finger moves
\* again: no flick and no wheel of before takes it away, also not when a finger
\* that moved before the typing is lifted after it.
StaysAtBottom == mounted /\ typed => pos = bottom

\* A finger on the terminal holds it: no flick scrolls under it.
FingerHolds == fingers > 0 => touch.frames = 0

\* While text is selected no flick scrolls.
SelectionRests == selection => touch.frames = 0

\* What the user's hand does wins over a wheel or a flick that is dying away:
\* the four properties above together (TerminalPanel.vue, runWheelInertia,
\* runTouchScrollMomentum, sendTerminalInput).
HandWins == OneLoop /\ StaysAtBottom /\ FingerHolds /\ SelectionRests

-----------------------------------------------------------------------------
(***************************************************************************)
(* Proofs about WebScroll, for every length of history and every speed.    *)
(***************************************************************************)

Loops == [v : Int, raf : BOOLEAN, frames : Nat]

\* The types of the variables.
ScrollTypes ==
  /\ mounted \in BOOLEAN /\ selection \in BOOLEAN /\ reveals \in BOOLEAN /\ typed \in BOOLEAN
  /\ pos \in Int /\ bottom \in Int /\ 0 <= pos /\ pos <= bottom
  /\ wheel \in Loops /\ touch \in Loops
  /\ fingers \in 0..2

\* Each loop has the frame its variable holds and no other.
WheelHeld == wheel.frames = (IF wheel.raf THEN 1 ELSE 0)
TouchHeld == touch.frames = (IF touch.raf THEN 1 ELSE 0)

\* A second finger takes away the speed of the first, and none is followed
\* while there are two.
TwoFingersRest == fingers = 2 => touch.v = 0

\* After typing no loop is running and no finger has left a speed.
TypedRests == typed => wheel.frames = 0 /\ touch.frames = 0 /\ touch.v = 0

\* The inductive invariant.
ScrollIInv ==
  /\ ScrollTypes /\ WheelHeld /\ TouchHeld
  /\ (mounted \/ (wheel.frames = 0 /\ touch.frames = 0))
  /\ TwoFingersRest /\ TypedRests
  /\ StaysAtBottom /\ FingerHolds /\ SelectionRests
-----------------------------------------------------------------------------
\* A cleared loop has neither speed nor frame.
LEMMA ClearedLoop ==
  ASSUME NEW l \in Loops, l.frames = (IF l.raf THEN 1 ELSE 0)
  PROVE  /\ Cleared(l) \in Loops
         /\ Cleared(l).v = 0 /\ Cleared(l).raf = FALSE /\ Cleared(l).frames = 0
BY DEF Cleared, Loop, Loops

\* A loop that is set running has one frame and keeps its speed.
LEMMA RunningLoop ==
  ASSUME NEW l \in Loops, l.frames = (IF l.raf THEN 1 ELSE 0)
  PROVE  /\ Runs(l) \in Loops
         /\ Runs(l).v = l.v /\ Runs(l).raf = TRUE /\ Runs(l).frames = 1
<1>1. CASE l.raf
  BY <1>1 DEF Runs, Loops
<1>2. CASE ~l.raf
  BY <1>2 DEF Runs, Loop, Loops
<1> QED  BY <1>1, <1>2

\* A step of a loop leaves one frame or none, as its variable says.
LEMMA SteppedLoop ==
  ASSUME NEW l \in Loops, l.frames = 1, l.raf = TRUE
  PROVE  /\ Stepped(l) \in Loops
         /\ Stepped(l).frames = (IF Stepped(l).raf THEN 1 ELSE 0)
<1>1. Damped(l.v) \in Int
  BY DEF Damped, Loops
<1>2. Stepped(l) \in {Loop(0, FALSE, 0), Loop(Damped(l.v), TRUE, 1)}
  BY DEF Stepped
<1>3. CASE Stepped(l) = Loop(0, FALSE, 0)
  BY <1>3 DEF Loop, Loops
<1>4. CASE Stepped(l) = Loop(Damped(l.v), TRUE, 1)
  BY <1>1, <1>4 DEF Loop, Loops
<1> QED  BY <1>2, <1>3, <1>4

\* Scrolling stays within the history.
LEMMA ScrolledWithin ==
  ASSUME NEW d \in Int, pos \in Int, bottom \in Int, 0 <= bottom
  PROVE  Scrolled(d) \in Int /\ 0 <= Scrolled(d) /\ Scrolled(d) <= bottom
BY DEF Scrolled, Between

LEMMA CappedInt == ASSUME NEW d \in Int PROVE Capped(d) \in Int
BY ScrollAssumption DEF Capped, Between

LEMMA DampedInt == ASSUME NEW d \in Int PROVE Damped(d) \in Int
BY DEF Damped
-----------------------------------------------------------------------------
LEMMA InitScrollIInv == ScrollInit => ScrollIInv
<1>1. Still \in Loops /\ Still.v = 0 /\ Still.raf = FALSE /\ Still.frames = 0
  BY DEF Still, Loop, Loops
<1>2. ScrollInit => ScrollTypes
  <2>1. ScrollInit => /\ mounted \in BOOLEAN /\ selection \in BOOLEAN
                /\ reveals \in BOOLEAN /\ typed \in BOOLEAN
    BY DEF ScrollInit
  <2>2. ScrollInit => pos \in Int /\ bottom \in Int /\ 0 <= pos /\ pos <= bottom /\ fingers \in 0..2
    BY DEF ScrollInit
  <2>3. ScrollInit => wheel \in Loops /\ touch \in Loops
    BY <1>1 DEF ScrollInit
  <2> QED  BY <2>1, <2>2, <2>3 DEF ScrollTypes
<1>3. ScrollInit => WheelHeld /\ TouchHeld /\ TwoFingersRest /\ FingerHolds
  BY <1>1 DEF ScrollInit, WheelHeld, TouchHeld, TwoFingersRest, FingerHolds
<1>4. ScrollInit => mounted /\ TypedRests /\ StaysAtBottom /\ SelectionRests
  BY <1>1 DEF ScrollInit, TypedRests, StaysAtBottom, SelectionRests
<1> QED  BY <1>2, <1>3, <1>4 DEF ScrollIInv

LEMMA StepScrollIInv == ScrollIInv /\ [ScrollNext]_scrollVars => ScrollIInv'
<1> SUFFICES ASSUME ScrollIInv, [ScrollNext]_scrollVars PROVE ScrollIInv'
  OBVIOUS
<1> USE DEF ScrollIInv, ScrollTypes, WheelHeld, TouchHeld, TwoFingersRest, TypedRests, StaysAtBottom,
            FingerHolds, SelectionRests
<1>1. CASE WheelFrame
  <2>1. wheel.v \in Int /\ wheel.frames = 1 /\ wheel.raf = TRUE
    BY <1>1 DEF WheelFrame, Loops
  <2>2. wheel' \in Loops /\ wheel'.frames = (IF wheel'.raf THEN 1 ELSE 0)
    BY <1>1, <2>1, SteppedLoop DEF WheelFrame
  <2>3. pos' \in Int /\ 0 <= pos' /\ pos' <= bottom
    BY <1>1, <2>1, DampedInt, ScrolledWithin DEF WheelFrame
  <2> QED  BY <1>1, <2>1, <2>2, <2>3 DEF WheelFrame
<1>2. CASE TouchFrame
  <2>1. touch.v \in Int /\ touch.frames = 1 /\ touch.raf = TRUE
    BY <1>2 DEF TouchFrame, Loops
  <2>2. touch' \in Loops /\ touch'.frames = (IF touch'.raf THEN 1 ELSE 0)
    BY <1>2, <2>1, SteppedLoop DEF TouchFrame
  <2>3. pos' \in Int /\ 0 <= pos' /\ pos' <= bottom
    BY <1>2, <2>1, DampedInt, ScrolledWithin DEF TouchFrame
  <2>4. fingers = 0 /\ selection = FALSE /\ typed = FALSE
    BY <2>1
  <2> QED  BY <1>2, <2>1, <2>2, <2>3, <2>4 DEF TouchFrame
<1>3. CASE RevealFrame
  <2>1. reveals' \in BOOLEAN
    BY <1>3 DEF RevealFrame
  <2>2. pos' \in {pos, bottom} /\ (mounted /\ pos = bottom => pos' = bottom)
    BY <1>3 DEF RevealFrame
  <2> QED  BY <1>3, <2>1, <2>2 DEF RevealFrame
<1>4. ASSUME NEW d \in Steps, Wheel(d) PROVE ScrollIInv'
  <2>1. d \in Int
    BY ScrollAssumption DEF Steps
  <2>2. PICK v \in {d, wheel.v + d} : wheel' = Runs(Loop(Capped(v), wheel.raf, wheel.frames))
    BY <1>4 DEF Wheel
  <2>3. wheel.v + d \in Int
    BY <2>1 DEF Loops
  <2>4. v \in Int
    BY <2>1, <2>2, <2>3
  <2> DEFINE l == Loop(Capped(v), wheel.raf, wheel.frames)
  <2>5. l \in Loops /\ l.frames = (IF l.raf THEN 1 ELSE 0)
    BY <2>4, CappedInt DEF Loop, Loops
  <2> HIDE DEF l
  <2>6. wheel' \in Loops /\ wheel'.raf = TRUE /\ wheel'.frames = 1
    BY <2>2, <2>5, RunningLoop DEF l
  <2>7. pos' \in Int /\ 0 <= pos' /\ pos' <= bottom
    BY <1>4, <2>1, ScrolledWithin DEF Wheel
  <2> QED  BY <1>4, <2>6, <2>7 DEF Wheel
<1>5. ASSUME NEW d \in Steps, TouchMove(d) PROVE ScrollIInv'
  <2>1. d \in Int
    BY ScrollAssumption DEF Steps
  <2>2. \/ touch' = touch
        \/ fingers = 1 /\ touch' = Loop(Capped(d), touch.raf, touch.frames)
    BY <1>5 DEF TouchMove
  <2>3. /\ touch' \in Loops /\ touch'.raf = touch.raf /\ touch'.frames = touch.frames
        /\ fingers = 2 => touch'.v = touch.v
    BY <2>1, <2>2, CappedInt DEF Loop, Loops
  <2>4. pos' \in Int /\ 0 <= pos' /\ pos' <= bottom
    BY <1>5, <2>1, ScrolledWithin DEF TouchMove
  <2> QED  BY <1>5, <2>3, <2>4 DEF TouchMove
<1>6. CASE TouchStart
  <2>1. touch' \in Loops /\ touch'.v = 0 /\ touch'.raf = FALSE /\ touch'.frames = 0
    BY <1>6, ClearedLoop DEF TouchStart
  <2> QED  BY <1>6, <2>1 DEF TouchStart
<1>7. CASE TouchEnd
  <2>1. CASE selection \/ touch.v = 0
    <3>1. touch' \in Loops /\ touch'.v = 0 /\ touch'.raf = FALSE /\ touch'.frames = 0
      BY <1>7, <2>1, ClearedLoop DEF TouchEnd
    <3> QED  BY <1>7, <3>1 DEF TouchEnd
  <2>2. CASE ~(selection \/ touch.v = 0)
    <3>1. touch' \in Loops /\ touch'.raf = TRUE /\ touch'.frames = 1
      BY <1>7, <2>2, RunningLoop DEF TouchEnd
    <3>2. fingers' = 0 /\ typed' = FALSE /\ selection' = FALSE
      BY <1>7, <2>2 DEF TouchEnd
    <3> QED  BY <1>7, <3>1, <3>2 DEF TouchEnd
  <2> QED  BY <2>1, <2>2
<1>8. CASE LongPress
  BY <1>8 DEF LongPress
<1>9. CASE Deselect
  BY <1>9 DEF Deselect
<1>10. CASE Input
  <2>1. /\ wheel' \in Loops /\ wheel'.raf = FALSE /\ wheel'.frames = 0
        /\ touch' \in Loops /\ touch'.raf = FALSE /\ touch'.frames = 0 /\ touch'.v = 0
    BY <1>10, ClearedLoop DEF Input
  <2> QED  BY <1>10, <2>1 DEF Input
<1>11. CASE Output
  BY <1>11 DEF Output
<1>12. CASE Unmount
  <2>1. /\ wheel' \in Loops /\ wheel'.raf = FALSE /\ wheel'.frames = 0
        /\ touch' \in Loops /\ touch'.raf = FALSE /\ touch'.frames = 0 /\ touch'.v = 0
    BY <1>12, ClearedLoop DEF Unmount
  <2>2. mounted' \in BOOLEAN /\ selection' \in BOOLEAN
    BY <1>12 DEF Unmount
  <2>3. fingers' = 0 /\ mounted' = FALSE /\ selection' = FALSE
    BY <1>12 DEF Unmount
  <2>4. UNCHANGED <<pos, bottom, reveals, typed>>
    BY <1>12 DEF Unmount
  <2> QED  BY <2>1, <2>2, <2>3, <2>4
<1>13. CASE UNCHANGED scrollVars
  BY <1>13 DEF scrollVars
<1> QED
  BY <1>1, <1>2, <1>3, <1>4, <1>5, <1>6, <1>7, <1>8, <1>9, <1>10, <1>11, <1>12, <1>13 DEF ScrollNext

LEMMA ScrollInvariance == ScrollSpec => []ScrollIInv
BY InitScrollIInv, StepScrollIInv, PTL DEF ScrollSpec
-----------------------------------------------------------------------------
\* Each loop is driven by at most one frame, and by none once the page is gone:
\* the guards of the two run functions, the two clears and the unmounting.
THEOREM LoopsAreSingle == ScrollSpec => []OneLoop
<1>1. ScrollIInv => OneLoop
  BY DEF ScrollIInv, WheelHeld, TouchHeld, OneLoop
<1> QED  BY <1>1, ScrollInvariance, PTL

\* After typing, the view stays at the bottom until the user scrolls:
\* revealCursorAtBottom stops both loops and forgets the finger's speed.
THEOREM TypingStaysVisible == ScrollSpec => []StaysAtBottom
<1>1. ScrollIInv => StaysAtBottom
  BY DEF ScrollIInv
<1> QED  BY <1>1, ScrollInvariance, PTL

\* No flick scrolls under a finger, and none while text is selected.
THEOREM GesturesWin == ScrollSpec => [](FingerHolds /\ SelectionRests)
<1>1. ScrollIInv => FingerHolds /\ SelectionRests
  BY DEF ScrollIInv
<1> QED  BY <1>1, ScrollInvariance, PTL

\* The user's hand wins over whatever is still dying away.
THEOREM TheHandWins == ScrollSpec => []HandWins
<1>1. OneLoop /\ StaysAtBottom /\ FingerHolds /\ SelectionRests => HandWins
  BY DEF HandWins
<1> QED  BY <1>1, LoopsAreSingle, TypingStaysVisible, GesturesWin, PTL
=============================================================================
