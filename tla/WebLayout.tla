----------------------------- MODULE WebLayout ------------------------------
(***************************************************************************)
(* What the soft keyboard does to the layout of the web client: the        *)
(* application makes room for it, and the voice panel floats above it. The *)
(* two parts are modelled apart.                                           *)
(***************************************************************************)
EXTENDS Integers

-----------------------------------------------------------------------------
(***************************************************************************)
(* The web client's frame around its pages (App.vue): it follows the       *)
(* visual viewport, guesses from its height whether the soft keyboard is   *)
(* up, keeps a session for the form field in focus, hides the bottom bar   *)
(* for it and scrolls the field into sight, merged by animation frames and *)
(* repeated once by a timer.                                               *)
(* Heights are in units of 60 px.                                          *)
(***************************************************************************)
CONSTANTS Fields,    \* form fields of the pages
          None,
          Terminal,  \* the input of the terminal, which takes care of itself
          Touch,     \* touchLikeDevice
          Kernels,   \* whether the keyboard shrinks innerHeight as well: subset of BOOLEAN
          Rotates,   \* the device may be turned
          Silent     \* a focused field taken out of the page may go without focusout

VARIABLES active,   \* document.activeElement
          present,  \* the fields in the page
          focused,  \* formFieldFocused
          session,  \* focusViewportSession: its target
          sessionActive, \* inputFocusSessionActive
          syncs,    \* a microtask of focusout is queued
          frame,    \* ensureVisibleRafId is set
          retry,    \* ensureVisibleRetryTimer is set
          kernel,   \* this browser shrinks innerHeight with the keyboard
          tall,     \* portrait
          bar,      \* the browser shows its address bar
          keyboard, \* the soft keyboard is really up
          resized,  \* a resize has happened and not been delivered
          baseline, \* baselineViewportHeight
          open,     \* keyboardOpen
          sight     \* the active field is in sight

viewportPage == <<active, present, focused, session, sessionActive, syncs>>
screen == <<kernel, tall, bar, keyboard>>
viewportVars == <<viewportPage, frame, retry, screen, resized, baseline, open, sight>>

KeyboardHeight == 4
Threshold == 2
Whole == (IF tall THEN 14 ELSE 7) - (IF bar THEN 1 ELSE 0)
ViewportHeight == Whole - (IF keyboard THEN KeyboardHeight ELSE 0)
InnerHeight == IF kernel THEN ViewportHeight ELSE Whole
ViewportLarger(a, b) == IF a > b THEN a ELSE b
Shrunk(a, b) == IF a > b THEN a - b ELSE 0

Editable(e) == e \in Fields

ViewportInit ==
  /\ active = None /\ present = Fields /\ focused = FALSE /\ session = None /\ sessionActive = FALSE
  /\ syncs = FALSE /\ frame = FALSE /\ retry = FALSE
  /\ kernel \in Kernels /\ tall = TRUE /\ bar \in BOOLEAN /\ keyboard = FALSE
  /\ resized = FALSE /\ baseline = ViewportLarger(InnerHeight, ViewportHeight) /\ open = FALSE /\ sight = TRUE

(* the page *)

\* focusin: the state is read from the document, a session begun, the field looked for now
\* and once more
FocusIn(e) ==
  /\ active # e /\ e \in present \cup {Terminal} /\ active = None
  /\ active' = e /\ focused' = Editable(e)
  /\ IF Editable(e)
       THEN /\ session' = e /\ sessionActive' = TRUE /\ frame' = TRUE /\ retry' = TRUE
            /\ sight' = FALSE
       ELSE UNCHANGED <<session, sessionActive, frame, retry, sight>>
  /\ UNCHANGED <<present, syncs, screen, resized, baseline, open>>

\* focusout: the state is read later, when the focus has settled
FocusOut ==
  /\ active # None /\ active' = None /\ syncs' = TRUE /\ sight' = TRUE
  /\ UNCHANGED <<present, focused, session, sessionActive, frame, retry, screen, resized, baseline, open>>
ViewportSynced ==
  /\ syncs /\ syncs' = FALSE /\ focused' = Editable(active)
  /\ IF Editable(active) THEN UNCHANGED <<session, sessionActive>>
     ELSE session' = None /\ sessionActive' = FALSE
  /\ UNCHANGED <<active, present, frame, retry, screen, resized, baseline, open, sight>>

\* a field leaves the page, with a dialog
Gone(fields) ==
  /\ present' = present \ fields
  /\ IF active \in fields
       THEN /\ active' = None /\ sight' = TRUE
            /\ IF Silent THEN syncs' \in {syncs, TRUE} ELSE syncs' = TRUE
       ELSE UNCHANGED <<active, sight, syncs>>
Unmount(e) ==
  /\ e \in present /\ Gone({e})
  /\ UNCHANGED <<focused, session, sessionActive, frame, retry, screen, resized, baseline, open>>
Mount(e) ==
  /\ e \in Fields \ present /\ present' = present \cup {e}
  /\ UNCHANGED <<active, focused, session, sessionActive, syncs, frame, retry, screen, resized, baseline, open, sight>>
\* another route: the session ends with the page
Route ==
  /\ Gone(present) /\ session' = None /\ sessionActive' = FALSE
  /\ UNCHANGED <<focused, frame, retry, screen, resized, baseline, open>>

(* the screen *)

Changed == resized' = TRUE /\ sight' = (active = None \/ active = Terminal)
           /\ UNCHANGED <<viewportPage, frame, retry, baseline, open, kernel>>
KeyboardUp == active # None /\ Touch /\ ~keyboard /\ keyboard' = TRUE /\ Changed /\ UNCHANGED <<tall, bar>>
KeyboardDown == keyboard /\ keyboard' = FALSE /\ Changed /\ UNCHANGED <<tall, bar>>
AddressBar == bar' = ~bar /\ Changed /\ UNCHANGED <<tall, keyboard>>
Rotate == Rotates /\ tall' = ~tall /\ Changed /\ UNCHANGED <<bar, keyboard>>

\* the greatest height seen with no form field in focus
Base ==
  LET base == ViewportLarger(InnerHeight, ViewportHeight)
  IN baseline' = IF focused THEN baseline ELSE ViewportLarger(baseline, base)
\* the watch on keyboardOpen
WatchOpen ==
  /\ sessionActive' = IF open' /\ ~open /\ focused THEN TRUE
                      ELSE IF open /\ ~open' /\ ~focused THEN FALSE ELSE sessionActive
  /\ session' = IF open /\ ~open' /\ ~focused THEN None ELSE session
  /\ retry' = (retry \/ (open' /\ ~open))
ResizedQuietly ==
  /\ resized /\ resized' = FALSE
  /\ Base
  /\ open' = (Shrunk(baseline', ViewportHeight) > Threshold \/ Shrunk(InnerHeight, ViewportHeight) > Threshold)
  /\ WatchOpen
  /\ UNCHANGED <<frame, active, present, focused, syncs, screen, sight>>
\* updateViewportLayout
Resized ==
  /\ resized /\ resized' = FALSE
  /\ Base
  /\ open' = (Shrunk(baseline', ViewportHeight) > Threshold \/ Shrunk(InnerHeight, ViewportHeight) > Threshold)
  /\ WatchOpen
  /\ frame' = (frame \/ focused)
  /\ UNCHANGED <<active, present, focused, syncs, screen, sight>>

(* looking for the field *)

\* ensureFocusViewportSession and ensureFocusedFieldVisible, in an animation frame
Look ==
  /\ frame /\ frame' = FALSE
  /\ LET target == IF Editable(active) THEN active ELSE session
     IN IF Editable(active) /\ session # active
          THEN session' = active /\ sessionActive' = TRUE /\ sight' = TRUE
        ELSE IF target # None /\ target \notin present
          THEN session' = None /\ sessionActive' = FALSE /\ UNCHANGED sight
        ELSE sight' = (sight \/ target = active) /\ UNCHANGED <<session, sessionActive>>
  /\ UNCHANGED <<active, present, focused, syncs, retry, screen, resized, baseline, open>>
LookAgain ==
  /\ retry /\ retry' = FALSE /\ frame' = (frame \/ focused)
  /\ UNCHANGED <<viewportPage, screen, resized, baseline, open, sight>>

ViewportNext ==
  \/ \E e \in Fields \cup {Terminal} : FocusIn(e) \/ Unmount(e) \/ Mount(e)
  \/ FocusOut \/ ViewportSynced \/ Route
  \/ KeyboardUp \/ KeyboardDown \/ AddressBar \/ Rotate \/ Resized
  \/ Look \/ LookAgain

ViewportSpec == ViewportInit /\ [][ViewportNext]_viewportVars

-----------------------------------------------------------------------------
ViewportSettled == ~syncs /\ ~frame /\ ~retry /\ ~resized
\* hideBottomBarForKeyboard
Hides == sessionActive /\ (Touch \/ open \/ focused)

\* Once things have settled the bottom bar is hidden exactly while a form field has the focus:
\* it does not stay away when the field is left, taken off the page or left by a route.
BarFollowsField == ViewportSettled => (Hides <=> Editable(active))

\* Once things have settled the field in focus is in sight, whatever resizes, frames and
\* changes of focus came in between.
FieldInSight == (ViewportSettled /\ Editable(active)) => sight

\* Once things have settled keyboardOpen says whether the keyboard is up: the address bar is
\* no keyboard, and a browser that shrinks innerHeight with it does not hide it.
KeyboardSeen == ViewportSettled => (open <=> keyboard)

-----------------------------------------------------------------------------
(***************************************************************************)
(* Where the floating voice button of the web terminal is                  *)
(* (components/TerminalVoiceInput.vue): the user drags it, the wrapper is  *)
(* resized under it, above all by the soft keyboard, and its panel, which  *)
(* hangs at the button, grows with the draft.                              *)
(*                                                                         *)
(* The vertical axis alone is modelled, in pixels: x is clamped between    *)
(* bounds that depend on the wrapper's width only.  Microphone, socket and *)
(* rounds are in WebVoice; a round is here the state "recording" of the    *)
(* gesture.                                                                *)
(***************************************************************************)
CONSTANTS
    Full,         \* height of the wrapper with no keyboard
    Heights,      \* the heights it takes
    WindowHeight, \* window.innerHeight, taken while there is no wrapper
    KeyboardMin,  \* App.vue sees a keyboard when more than this is missing
    DragTargets,  \* where the finger takes the button
    TextHeights \* scrollHeight of the draft

VARIABLES
    wrapper,   \* is the prop wrapperEl set
    height,    \* clientHeight of the wrapper
    observed,  \* the height the ResizeObserver last reported
    y,         \* buttonPosition.y
    shown,     \* panelVisible
    inputHeight,  \* autoInputHeight
    text,      \* scrollHeight of the draft
    queued,    \* a nextTick(syncAutoInputHeight) is queued
    gesture,   \* gestureState
    applied,   \* initialDefaultApplied
    moved,     \* hasUserMovedVoiceInSession
    placed,    \* lastUserPlacedButtonPosition
    wanted     \* history: where the user last dragged the button

floatVars == <<wrapper, height, observed, y, shown, inputHeight, text, queued, gesture,
               applied, moved, placed, wanted>>
floatPage  == <<wrapper, height>>
draft == <<shown, inputHeight, text>>

ButtonHeight == 36
EdgeGap == 32
PanelBase == 264
PanelMin == 198
InputMin == 90
Reserved == 24 + 8 + 32 + 10
Arrow == 20
ArrowVoiceGap == 8

FloatLarger(a, b)  == IF a > b THEN a ELSE b
Smaller(a, b) == IF a < b THEN a ELSE b
\* clampNumber
Clamp(v, lo, hi) == FloatLarger(lo, Smaller(hi, v))

\* resolveWrapperSize
SizeOf(h) == FloatLarger(h, ButtonHeight + 2 * EdgeGap)
Size == SizeOf(IF wrapper THEN height ELSE WindowHeight)
\* isKeyboardOpenLayout: App.vue compares the viewport with its greatest height
KeyboardOpen == Full - height > KeyboardMin

\* resolvePanelSize
PanelHeight == FloatLarger(PanelMin, Smaller(PanelBase, FloatLarger(PanelMin, Size - 2 * EdgeGap)))

\* resolveVoiceOffsetFromPanelTop for an input of height ih: the arrow is
\* centred on the input's lower edge, the button under the arrow.
Input(ih)  == Clamp(ih, InputMin, FloatLarger(InputMin, PanelHeight - Reserved))
Offset(ih) == Clamp(Input(ih) - Arrow \div 2, 0, FloatLarger(0, PanelHeight - Arrow)) + Arrow + ArrowVoiceGap

\* resolveVerticalVoiceBounds
PanelTops == [min |-> EdgeGap, max |-> FloatLarger(EdgeGap, Size - PanelHeight - EdgeGap)]

LowestIn(size) == FloatLarger(EdgeGap, size - ButtonHeight - EdgeGap)
Bottom == LowestIn(Size)

\* clampButtonPosition, for an input of height ih.
Within(v, panel, ih) ==
    IF panel THEN Clamp(v, PanelTops.min + Offset(ih), PanelTops.max + Offset(ih))
    ELSE Clamp(v, EdgeGap, Bottom)

\* What syncAutoInputHeight measures.
Measured == IF shown THEN FloatLarger(InputMin, text) ELSE InputMin

FloatInit ==
         /\ wrapper = FALSE /\ height = Full /\ observed = None
         /\ shown = FALSE /\ inputHeight = InputMin /\ text = 0
         /\ y = LowestIn(SizeOf(WindowHeight))
         /\ queued = TRUE
         /\ gesture = "idle" /\ applied = TRUE /\ moved = FALSE
         /\ placed = None /\ wanted = None

-----------------------------------------------------------------------------
\* The watch on wrapperEl, as soon as the page has its wrapper.
WrapperComes ==
    /\ ~wrapper
    /\ wrapper' = TRUE
    /\ observed' = None /\ applied' = FALSE
    /\ y' = Clamp(y, EdgeGap, LowestIn(SizeOf(height)))
    /\ queued' = TRUE
    /\ UNCHANGED <<height, draft, gesture, moved, placed, wanted>>

\* The keyboard comes or goes, the window changes.  The observer reports once
\* a frame: a change that is taken back within the frame is none.
Resize(h) ==
    /\ wrapper /\ h # height /\ observed = height
    /\ height' = h
    /\ UNCHANGED <<wrapper, observed, y, draft, queued, gesture, applied, moved, placed, wanted>>

\* Is it the resize of a keyboard, under a button the user has placed?
KeepsUserPlace == applied /\ ~shown /\ moved /\ gesture = "idle" /\ KeyboardOpen

\* Where the callback of the ResizeObserver puts the button, before it
\* measures: the default at first, the bottom as long as the user has not moved
\* it, where the user put it while the keyboard is up, else inside the wrapper.
StandsAt ==
    CASE ~applied -> Within(Size - ButtonHeight - EdgeGap, shown, inputHeight)
      [] applied /\ ~shown /\ ~moved /\ gesture = "idle" -> FloatLarger(y, Bottom)
      [] KeepsUserPlace -> IF placed = None THEN y ELSE placed
      [] OTHER -> Within(IF placed = None THEN y ELSE placed, shown, inputHeight)

\* The stable place is written back in the last case only.
NewPlace ==
    IF applied /\ ~shown /\ moved /\ gesture = "idle" /\ ~KeepsUserPlace
    THEN StandsAt ELSE placed

\* syncAutoInputHeight, with the button at v.
FloatSynced(v) == Within(v, shown, Measured)

\* The callback of the ResizeObserver.
Observe ==
    /\ wrapper /\ observed # height
    /\ observed' = height
    /\ applied' = TRUE
    /\ placed' = NewPlace
    /\ y' = FloatSynced(StandsAt)
    /\ inputHeight' = Measured
    /\ UNCHANGED <<floatPage, shown, text, queued, gesture, moved, wanted>>

SyncTick ==
    /\ queued /\ queued' = FALSE
    /\ inputHeight' = Measured
    /\ y' = FloatSynced(y)
    /\ UNCHANGED <<floatPage, observed, shown, text, gesture, applied, moved, placed, wanted>>

-----------------------------------------------------------------------------
(* The finger on the button.                                               *)

PointerDown ==
    /\ wrapper /\ applied /\ gesture = "idle"
    /\ gesture' = "pending"
    /\ UNCHANGED <<floatPage, observed, y, draft, queued, applied, moved, placed, wanted>>

\* It rests: a round begins and the panel opens.
HoldFires ==
    /\ gesture = "pending"
    /\ gesture' = "recording"
    /\ shown' = TRUE
    /\ queued' = (queued \/ ~shown)
    /\ UNCHANGED <<floatPage, observed, y, inputHeight, text, applied, moved, placed, wanted>>

\* It moves on, further than the threshold.
PointerMove(v) ==
    /\ gesture \in {"pending", "dragging"}
    /\ gesture' = "dragging"
    /\ y' = Within(v, shown, inputHeight)
    /\ placed' = y' /\ wanted' = y'
    /\ UNCHANGED <<floatPage, observed, draft, queued, applied, moved>>

\* It is lifted, or the gesture is given up: endPointerGesture, forceEndGesture.
PointerUp ==
    /\ gesture # "idle"
    /\ gesture' = "idle"
    /\ IF gesture = "dragging" THEN moved' = TRUE /\ placed' = y ELSE UNCHANGED <<moved, placed>>
    /\ wanted' = IF gesture = "dragging" THEN y ELSE wanted
    /\ UNCHANGED <<floatPage, observed, y, draft, queued, applied>>

\* A result of the round, or the user's typing.
DraftChanges(t) ==
    /\ shown /\ t # text
    /\ text' = t
    /\ queued' = TRUE
    /\ UNCHANGED <<floatPage, observed, y, shown, inputHeight, gesture, applied, moved, placed, wanted>>

\* Sent, recorded or cancelled: the draft is emptied and the panel goes.
PanelCloses ==
    /\ shown /\ gesture = "idle"
    /\ shown' = FALSE
    /\ inputHeight' = InputMin /\ text' = 0
    /\ queued' = (queued \/ text # 0)
    /\ UNCHANGED <<floatPage, observed, y, gesture, applied, moved, placed, wanted>>

FloatNext ==
         \/ WrapperComes \/ Observe \/ SyncTick
         \/ \E h \in Heights : Resize(h)
         \/ PointerDown \/ HoldFires \/ PointerUp
         \/ \E v \in DragTargets : PointerMove(v)
         \/ \E t \in TextHeights : DraftChanges(t)
         \/ PanelCloses

FloatSpec == FloatInit /\ [][FloatNext]_floatVars

-----------------------------------------------------------------------------
FloatSettled == wrapper /\ observed = height /\ ~queued

\* Every variable has a value its code can hold: places, sizes and the gesture.
FloatTypeOK ==
    /\ wrapper \in BOOLEAN /\ height \in Heights /\ observed \in Heights \cup {None}
    /\ y \in Nat /\ shown \in BOOLEAN /\ inputHeight \in Nat
    /\ text \in TextHeights \cup {0} /\ queued \in BOOLEAN
    /\ gesture \in {"idle", "pending", "dragging", "recording"}
    /\ applied \in BOOLEAN /\ moved \in BOOLEAN
    /\ placed \in Nat \cup {None} /\ wanted \in Nat \cup {None}
    /\ moved => placed # None

\* Once resizes and measurements are through, the button is inside the wrapper,
\* and the panel, if it is open, is inside as well (or as far up as it goes),
\* whatever was dragged, typed and resized in between (329-345, 504-515).
InReach ==
    FloatSettled =>
        /\ y >= EdgeGap
        /\ ~shown => y + ButtonHeight + EdgeGap <= Size
        /\ shown => LET top == y - Offset(inputHeight) IN
             top >= EdgeGap /\ (top = EdgeGap \/ top + PanelHeight + EdgeGap <= Size)

\* When the keyboard has gone the button is back where the user put it, or at
\* the bottom if nobody has moved it (question-solved.md 596-608; 1290).
PlaceRestored ==
    [][Observe /\ height = Full /\ ~shown /\ gesture = "idle" =>
        y' = IF moved THEN wanted ELSE Bottom]_floatVars

\* While the keyboard is up a folded button the user has placed is not pushed up
\* with the wrapper's lower edge (1300-1301).
NotPushed ==
    FloatSettled /\ KeyboardOpen /\ moved /\ ~shown /\ gesture = "idle" => y = placed

=============================================================================
