----------------------------- MODULE WebTyping ------------------------------
(***************************************************************************)
(* Typing into the terminal of the web client on a touch device: which     *)
(* touch brings up the keyboard, and what becomes of the words it          *)
(* composes. The two parts are modelled apart.                             *)
(***************************************************************************)
EXTENDS Integers, Sequences, SequencesExt

-----------------------------------------------------------------------------
(* How a touch on the web terminal decides about the soft keyboard              *)
(* (components/TerminalPanel.vue): the gesture, the hidden text area that is    *)
(* read-only unless the keyboard is wanted, the window in which a passing blur  *)
(* is undone, and the native selection that must not be disturbed.              *)
CONSTANTS MaxBlurs, \* blurs of the system after one tap
          Gestures  \* what a finger does besides tapping

RecoverMax == 2 \* TOUCH_KEYBOARD_BLUR_RECOVER_MAX

VARIABLE h \* the page, the text area and the phone

NoGesture == [down |-> FALSE, band |-> FALSE, moved |-> FALSE, scrolls |-> FALSE, had |-> FALSE]

TouchInit == h = [readOnly |-> TRUE, focused |-> FALSE, keyboard |-> FALSE,
                  guard |-> FALSE, inProgress |-> FALSE, \* focusKeyboardTimerId, -InProgress
                  recover |-> FALSE, count |-> 0,        \* its timer and its tries
                  event |-> FALSE,                       \* a blur event on its way
                  zero |-> FALSE,                        \* the second blur of BLUR_ONLY
                  gate |-> NoGesture, last |-> "none", click |-> FALSE,
                  selection |-> FALSE, connected |-> TRUE,
                  asked |-> FALSE, wanted |-> FALSE, blurs |-> 0]

Become(n) == h' = n

-----------------------------------------------------------------------------
NoRecover(n) == [n EXCEPT !.recover = FALSE, !.count = 0]
NoGuard(n) == IF n.guard THEN [NoRecover(n) EXCEPT !.guard = FALSE, !.inProgress = FALSE] ELSE n

ScheduleRecoverAlways(n) == [n EXCEPT !.count = @ + 1, !.recover = TRUE]

(* scheduleFocusKeyboardBlurRecover, within the window.                         *)
ScheduleRecover(n) ==
  IF n.count >= RecoverMax THEN n ELSE [n EXCEPT !.count = @ + 1, !.recover = TRUE]

OnTextareaBlur(n) == IF n.inProgress THEN ScheduleRecover(n) ELSE [n EXCEPT !.readOnly = TRUE]

(* blur(): its event comes at once or, on some phones, later.                   *)
Blurred(n, late) ==
  LET b == [n EXCEPT !.focused = FALSE, !.keyboard = FALSE]
  IN IF ~n.focused THEN n ELSE IF late THEN [b EXCEPT !.event = TRUE] ELSE OnTextareaBlur(b)

(* focus(): the keyboard comes up for a text area that can be edited.           *)
Focused(n) == [n EXCEPT !.focused = TRUE, !.keyboard = @ \/ ~n.readOnly]

BlurOnly(n, late) ==
  LET m == [NoRecover(n) EXCEPT !.guard = FALSE, !.inProgress = FALSE, !.readOnly = TRUE,
                                !.zero = TRUE, !.asked = FALSE]
  IN Blurred(m, late)

FocusKeyboard(n, late) ==
  LET m == Blurred([NoRecover(n) EXCEPT !.inProgress = TRUE], late)
      f == Focused([m EXCEPT !.readOnly = FALSE])
  IN [f EXCEPT !.guard = TRUE, !.asked = TRUE, !.wanted = TRUE,
               !.blurs = IF n.focused THEN 1 ELSE 0]

(* resolveTouchAction                                                           *)
Action(n) ==
  CASE n.gate.had \/ n.selection -> "PASS_NATIVE"
    [] n.gate.scrolls -> "PASS_SCROLL"
    [] n.gate.moved -> "PASS_NATIVE"
    [] n.gate.band -> "FOCUS_KEYBOARD"
    [] OTHER -> "BLUR_ONLY"

-----------------------------------------------------------------------------
(* touchstart and pointerdown: no decision yet, but no editable text area.      *)
Press ==
  \E band \in BOOLEAN :
    /\ ~h.gate.down /\ ~h.event /\ ~h.zero /\ ~h.click
    /\ Become([NoGuard(h) EXCEPT !.readOnly = TRUE, !.wanted = FALSE,
                                 !.gate = [NoGesture EXCEPT !.down = TRUE, !.band = band,
                                                            !.had = h.selection]])

Move ==
  \E scrolls \in BOOLEAN :
    /\ h.gate.down /\ ~h.gate.moved
    /\ (IF scrolls THEN "scroll" ELSE "drag") \in Gestures
    /\ Become([h EXCEPT !.gate.moved = TRUE, !.gate.scrolls = scrolls])

(* A long press selects text, if nothing that can be edited has the focus.      *)
LongPress ==
  /\ "select" \in Gestures /\ h.gate.down /\ ~h.gate.moved
  /\ ~(h.focused /\ ~h.readOnly)
  /\ Become([h EXCEPT !.selection = TRUE])

(* pointerup. A blur event of before the finger came down has long arrived.     *)
Release ==
  \E late \in BOOLEAN :
    /\ h.gate.down /\ ~h.event
    /\ LET action == Action(h)
           n == [h EXCEPT !.last = action, !.gate = NoGesture, !.click = ~h.gate.moved]
       IN Become(CASE ~h.connected \/ action = "BLUR_ONLY" -> BlurOnly(n, late)
                   [] action = "FOCUS_KEYBOARD" -> FocusKeyboard(n, late)
                   [] OTHER -> n)

(* pointercancel: the system takes the gesture over.                            *)
Cancel ==
  /\ h.gate.down /\ Gestures # {}
  /\ Become([h EXCEPT !.gate = NoGesture, !.last = IF h.selection THEN "PASS_NATIVE" ELSE @])

(* The mouse events made from a tap: those that are let through reach xterm,    *)
(* which focuses its text area and drops the selection.                         *)
Click ==
  /\ h.click
  /\ LET n == [h EXCEPT !.click = FALSE, !.last = "none"]
     IN Become(IF h.last \in {"BLUR_ONLY", "FOCUS_KEYBOARD", "PASS_NATIVE"} THEN n
               ELSE [Focused(n) EXCEPT !.selection = FALSE])

Deselect == h.selection /\ ~h.gate.down /\ ~h.click /\ Become([h EXCEPT !.selection = FALSE])

-----------------------------------------------------------------------------
(* Timers and events.                                                           *)
GuardEnds ==
  /\ h.guard /\ ~h.event
  /\ Become([NoRecover(h) EXCEPT !.guard = FALSE, !.inProgress = FALSE])

RecoverFires ==
  /\ h.recover
  /\ LET n == [h EXCEPT !.recover = FALSE]
     IN Become(IF h.inProgress /\ ~h.readOnly /\ ~h.focused THEN Focused(n) ELSE n)

SecondBlur == \E late \in BOOLEAN : h.zero /\ Become(Blurred([h EXCEPT !.zero = FALSE], late))

BlurEvent == h.event /\ Become(OnTextareaBlur([h EXCEPT !.event = FALSE]))

(* The system takes the focus away, as its keyboard comes up or for good.       *)
SystemBlur ==
  /\ h.focused /\ ~h.event /\ ~h.recover /\ h.blurs < MaxBlurs
  /\ Become([Blurred(h, FALSE) EXCEPT !.blurs = @ + 1])

ConnectionLost ==
  \E late \in BOOLEAN :
    /\ h.connected
    /\ Become(Blurred([h EXCEPT !.connected = FALSE, !.readOnly = TRUE, !.asked = FALSE,
                                !.wanted = FALSE], late))

ConnectionBack == ~h.connected /\ Become([h EXCEPT !.connected = TRUE])

TouchNext == \/ Press \/ Move \/ LongPress \/ Release \/ Cancel \/ Click \/ Deselect
             \/ GuardEnds \/ RecoverFires \/ SecondBlur \/ BlurEvent \/ SystemBlur
             \/ ConnectionLost \/ ConnectionBack

TouchSpec == TouchInit /\ [][TouchNext]_h

-----------------------------------------------------------------------------
(* A tap near the cursor brings the keyboard up, and up to two blurs while it   *)
(* comes up are undone: the system's own and the one the page makes.            *)
KeyboardComesUp ==
  h.wanted /\ h.inProgress /\ ~h.recover /\ h.blurs <= RecoverMax
    => h.keyboard /\ ~h.readOnly

(* Beyond these tries the page does not fight for the focus.                    *)
GivesUp == h.count <= RecoverMax

(* Without a tap near the cursor, after a tap elsewhere and without a           *)
(* connection, nothing focuses the text area.                                   *)
NoSurprise == h.focused => h.asked

(* While text is selected nothing can be edited: no keyboard comes up under it. *)
SelectionSafe == h.selection => h.readOnly

(* Text stays selected until the user deselects it: no step of a gesture and no *)
(* click made from a tap drops the selection.                                   *)
SelectionKept == [][h.selection /\ ~h'.selection => h.gate = h'.gate /\ h.click = h'.click]_h

(* The text area under a keyboard that is up takes what is typed.               *)
KeyboardTypes == h.keyboard /\ ~h.gate.down => ~h.readOnly

-----------------------------------------------------------------------------
(* What the input methods of phones make of the command line                    *)
(* (components/TerminalPanel.vue): one text reaches the page as input events of *)
(* a hidden text area that holds all of it, as data of xterm, or as both, and   *)
(* dictation revises what it gave before. The shell is to have it once.         *)
CONSTANTS MaxLen,  \* characters on the line
          Phones,  \* how composed words come: see Word
          Options  \* what the user and the phone do besides: see the guards

Letters == {"a", "b"}
Han     == {"B", "W", "X"}
Words   == {<<"B">>, <<"W">>, <<"B", "W">>}
Del     == "DEL"

VARIABLES p, \* the page: see Init
          u, \* the user's side: the phone, the text wanted, what dictation may revise
          stutter \* history: the text area began with one word given twice

ImeInit ==
  /\ p = [line |-> <<>>,                        \* at the shell
          area |-> <<>>,                        \* helperTextarea.value
          ascii |-> <<>>,                       \* asciiFallbackText, its timer
          pending |-> <<>>, dictated |-> FALSE, \* assistPendingText, its delay
          shot |-> <<>>, active |-> FALSE,      \* assistRewriteSession
          bridge |-> <<>>,                      \* keyboardAssistBridgeText
          lastAssist |-> <<>>, lastKeys |-> <<>>] \* within their windows
  /\ \E phone \in Phones : u = [phone |-> phone, want |-> <<>>, spoken |-> 0, late |-> <<>>]
  /\ stutter = FALSE

-----------------------------------------------------------------------------
(* Text.                                                                        *)
NonAscii(s) == \E i \in DOMAIN s : s[i] \in Han
Twice(s, n) == SubSeq(s, n + 1, 2 * n) = SubSeq(s, 1, n) /\ NonAscii(SubSeq(s, 1, n))
DupPrefix(full, base) == Len(full) = Len(base) + 1 /\ IsSuffix(base, full) /\ Head(full) = Head(base)

ResolveLonger(direct, text) == IF Len(text) >= Len(direct) THEN text ELSE direct

(* resolveImePayload                                                            *)
Resolve(direct, text) ==
  CASE direct = <<>> -> text
    [] text = <<>> -> direct
    [] direct # <<>> /\ text # <<>> /\ DupPrefix(text, direct) -> direct
    [] direct # <<>> /\ text # <<>> /\ ~DupPrefix(text, direct) /\ DupPrefix(direct, text) -> text
    [] OTHER -> IF NonAscii(direct \o text) THEN ResolveLonger(direct, text)
                ELSE IF IsPrefix(direct, text) THEN text ELSE direct

Common(s, t) == Max({n \in 0 .. Min({Len(s), Len(t)}) : SubSeq(s, 1, n) = SubSeq(t, 1, n)})

(* buildAssistDiffPayload                                                       *)
DiffAppends(old, new) == SubSeq(new, Common(old, new) + 1, Len(new))
Diff(old, new) == [i \in 1 .. Len(old) - Common(old, new) |-> Del] \o DiffAppends(old, new)

(* collapseLeadingAssistDup: a start of two characters or more, given twice     *)
(* before something else.                                                       *)
Collapsed(s) ==
  LET sizes == {n \in 2 .. Len(s) \div 2 : Twice(s, n)}
      n == Min(sizes)
  IN IF sizes = {} \/ Len(s) = 2 * n THEN s ELSE SubSeq(s, n + 1, Len(s))

(* What a line editor makes of a payload.                                       *)
Typed(line, payload) ==
  FoldLeft(LAMBDA l, c : IF c # Del THEN Append(l, c) ELSE IF l = <<>> THEN l ELSE Front(l),
           line, payload)

-----------------------------------------------------------------------------
(* The fallbacks: timers that the data of xterm cancels.                        *)
ScheduleAscii(n, s) == [n EXCEPT !.ascii = s]
ScheduleAssist(n, s, byDictation) == [n EXCEPT !.pending = s, !.dictated = byDictation]

(* beforeinput and input, and compositionend before them.                       *)
InputEvent(n, direct, byDictation) ==
  LET payload == Resolve(direct, n.area)
  IN CASE payload = <<>> -> n
       [] payload # <<>> /\ ~byDictation /\ ~NonAscii(payload) -> ScheduleAscii(n, payload)
       [] OTHER -> ScheduleAssist(n, payload, byDictation)

Inserted(n, s, byDictation) ==
  InputEvent([InputEvent(n, s, byDictation) EXCEPT !.area = @ \o s], s, byDictation)

(* updateKeyboardAssistBridge                                                   *)
Bridged(n, s) ==
  CASE s = <<Del>> -> [n EXCEPT !.bridge = IF @ = <<>> THEN @ ELSE Front(@)]
    [] NonAscii(s) -> [n EXCEPT !.bridge = @ \o s]
    [] OTHER -> [n EXCEPT !.bridge = <<>>]

(* syncAssistSessionOnKeyboardEcho; enter ends the session.                     *)
Synced(n, s) == IF n.active THEN [n EXCEPT !.shot = Typed(@, s)] ELSE n

Sent(n, s) == [n EXCEPT !.line = Typed(@, s)]

(* terminal.onData                                                              *)
OnData(n, s) ==
  LET m == IF NonAscii(s) THEN [n EXCEPT !.pending = <<>>] ELSE [n EXCEPT !.ascii = <<>>]
  IN IF NonAscii(s) /\ s \in {m.lastAssist, m.lastKeys} THEN m
     ELSE Sent(Synced(Bridged([m EXCEPT !.lastKeys = IF NonAscii(s) THEN s ELSE @], s), s), s)

(* applyKeyboardAssistBridge: what is sent of a first snapshot, what is kept.   *)
First(n, s) ==
  LET gone(payload) == [sent |-> payload, bridge |-> <<>>]
      within == \E i \in DOMAIN s : IsPrefix(n.bridge, SubSeq(s, i, Len(s)))
  IN CASE IsPrefix(n.bridge, s) -> gone(SubSeq(s, Len(n.bridge) + 1, Len(s)))
       [] IsStrictPrefix(s, n.bridge) -> [sent |-> <<>>, bridge |-> n.bridge]
       [] OTHER -> IF Len(n.bridge) <= 2 /\ within
                   THEN gone([i \in DOMAIN n.bridge |-> Del] \o s)
                   ELSE [sent |-> s, bridge |-> n.bridge]

(* emitAssistPayload                                                            *)
Emitted(n, payload) ==
  IF payload = <<>> \/ (payload = n.lastAssist /\ ~n.dictated) THEN n
  ELSE Sent([n EXCEPT !.lastAssist = payload], payload)

(* applyAssistSnapshot                                                          *)
Snapshot(n, text) ==
  LET s == Collapsed(text)
      m == [n EXCEPT !.shot = s, !.active = TRUE]
  IN IF n.shot = <<>> /\ ~n.active
     THEN Emitted([m EXCEPT !.bridge = First(n, s).bridge], First(n, s).sent)
     ELSE Emitted(m, Diff(n.shot, s))

-----------------------------------------------------------------------------
(* The user. Nobody types as fast as an input method repeats itself, and a      *)
(* dictation is waited for before something else is typed.                      *)
Unhurried == u.late = <<>> /\ p.lastKeys = <<>> /\ p.ascii = <<>>
              /\ (p.lastAssist = <<>> \/ p.pending # <<>>)
Ready == "fast" \in Options \/ Unhurried
Typable == "fast" \in Options \/ (Unhurried /\ (u.phone = "events" \/ p.pending = <<>>))
Settled == p.ascii = <<>> /\ p.pending = <<>> /\ u.late = <<>>

Room(s) == Len(u.want) + Len(s) <= MaxLen

(* Where xterm has data, dictation meets no letters on its line; nor do composed *)
(* words, unless they are "mixed".                                              *)
Pure(s) == u.phone = "events" \/ ToSet(u.want \o s) \cap Letters = {} \/ ~NonAscii(u.want \o s)
Apart(s) == "mixed" \in Options \/ Pure(s)

(* A letter: a key to xterm, or an event of the text area and its data.         *)
Letter ==
  \E c \in Letters :
    /\ Typable /\ Room(<<c>>) /\ Apart(<<c>>)
    /\ u' = [u EXCEPT !.want = Append(@, c), !.spoken = 0]
    /\ p' = CASE u.phone = "events" -> Inserted(p, <<c>>, FALSE)
              [] u.phone = "both" -> OnData(Inserted(p, <<c>>, FALSE), <<c>>)
              [] OTHER -> OnData(p, <<c>>)

(* A composed word: xterm has no data of it, has it at once, or late.           *)
Word ==
  \E w \in Words :
    /\ Typable /\ Room(w) /\ Apart(w)
    /\ LET n == InputEvent([p EXCEPT !.area = @ \o w], w, FALSE) \* compositionend
       IN /\ p' = IF u.phone \in {"both", "keys"} THEN OnData(n, w) ELSE n
          /\ u' = [u EXCEPT !.want = @ \o w, !.spoken = 0,
                            !.late = IF u.phone = "late" THEN w ELSE @]

(* Dictation adds words, and revises those it added last.                       *)
Speak ==
  \E w \in Words, revises \in BOOLEAN :
    /\ Ready /\ (revises => u.spoken > 0)
    /\ Pure(w)
    /\ LET cut(s) == IF revises THEN SubSeq(s, 1, Len(s) - u.spoken) ELSE s
       IN /\ Len(cut(u.want)) + Len(w) <= MaxLen
          /\ p' = InputEvent(InputEvent([p EXCEPT !.area = cut(@) \o w], w, TRUE), w, TRUE)
          /\ u' = [u EXCEPT !.want = cut(@) \o w, !.spoken = Len(w)]

InSession == p.active \/ p.shot = <<>> \/ "later" \in Options

(* Backspace as an edit of the text area.                                       *)
Delete ==
  /\ "delete" \in Options /\ Ready /\ u.want # <<>> /\ p.area # <<>> /\ Settled
  /\ InSession /\ ("last" \in Options \/ Len(p.area) > 1)
  /\ LET n == InputEvent([InputEvent(p, <<>>, FALSE) EXCEPT !.area = Front(@)], <<>>, FALSE)
     IN p' = OnData(n, <<Del>>)
  /\ u' = [u EXCEPT !.want = Front(@), !.spoken = 0]

(* Enter: xterm empties its text area.                                          *)
Enter ==
  /\ Settled /\ u.want # <<>>
  /\ InSession
  /\ p' = [p EXCEPT !.line = <<>>, !.area = <<>>, !.ascii = <<>>, !.bridge = <<>>,
                    !.shot = IF p.active THEN <<>> ELSE @, !.active = FALSE]
  /\ u' = [u EXCEPT !.want = <<>>, !.spoken = 0]

-----------------------------------------------------------------------------
(* Timers, windows, late data.                                                  *)
AsciiFires ==
  /\ p.ascii # <<>>
  /\ p' = [Sent(p, p.ascii) EXCEPT !.ascii = <<>>, !.area = <<>>]
  /\ UNCHANGED u

AssistFires ==
  /\ p.pending # <<>>
  /\ p' = [Snapshot(p, p.pending) EXCEPT !.pending = <<>>, !.dictated = FALSE]
  /\ UNCHANGED u

LateData ==
  /\ u.late # <<>>
  /\ p' = OnData(p, u.late) /\ u' = [u EXCEPT !.late = <<>>]

DataAgain == p.lastKeys # <<>> /\ p' = OnData(p, p.lastKeys) /\ UNCHANGED u

WindowsEnd ==
  /\ p.lastAssist # <<>> \/ p.lastKeys # <<>>
  /\ u.late = <<>>
  /\ p' = [p EXCEPT !.lastAssist = <<>>, !.lastKeys = <<>>] /\ UNCHANGED u

Pause ==
  /\ Settled /\ "pause" \in Options
  /\ p' = [p EXCEPT !.bridge = <<>>, !.active = FALSE] /\ UNCHANGED u

ImeNext ==
  /\ \/ Letter \/ Word \/ Speak \/ Delete \/ Enter \/ AsciiFires \/ AssistFires
     \/ LateData \/ DataAgain \/ WindowsEnd \/ Pause
  /\ stutter' = (p'.area # <<>> /\ (stutter \/ \E n \in 1 .. Len(p'.area) \div 2 : Twice(p'.area, n)))

ImeSpec == ImeInit /\ [][ImeNext]_<<p, u, stutter>>

-----------------------------------------------------------------------------
(* Once every timer has fired, the shell has what the user typed, composed and  *)
(* dictated, once and in its last revision; unless the text area began with one *)
(* word twice, which the page takes for a fault of the input method.            *)
TypedOnce == Settled /\ ~stutter => p.line = u.want

(* The snapshot a revision is compared with is what the line ends with: a       *)
(* revision rewrites nothing that was there before.                             *)
RewritesOwn == p.active => IsSuffix(p.shot, p.line)
=============================================================================
