------------------------------ MODULE MiniInput -------------------------------
(* Typing in the mini-program's terminal: a native text field whose content is  *)
(* mirrored, change by change, into the command line of the remote shell, the   *)
(* one-shot and locking shift key, and the reports of focus a full-screen       *)
(* program may ask for (pages/terminal/touchShiftState.js,                      *)
(* terminalKeyEncoder.js, and the shell-input handlers of index.js).            *)
(* Events of the field reach the page later, in order; what the page sets shows *)
(* in the field later.  A character is [id, up]: which key press, which case.   *)
EXTENDS Integers, Sequences, SequencesExt, FiniteSets

CONSTANTS Keys,      \* key presses
          Wide,      \* those whose character takes two UTF-16 units
          MaxLine,   \* characters of the field
          MaxEvents, \* events under way
          Also       \* what may happen besides

Options == {"slow", "touchKeys", "resume", "tapAway"}
NoWrite == [none |-> TRUE]

VARIABLES v
\* native: the field; set: what the page has written to it but does not show yet;
\* value, focus, shift, recent (a tap less than 320 ms ago), kb (keyboard height known),
\* passive: of the page; q: events under way; line, told: the shell's command line and
\* what the program believes of the focus; ran: the line just entered; mean: presses the
\* user made with shift on; up: connected; shown: the
\* keyboard is on screen.
vars == <<v>>

Init ==
  v = [native |-> <<>>, set |-> NoWrite, value |-> <<>>, focus |-> FALSE, shift |-> "off",
       recent |-> FALSE, kb |-> FALSE, passive |-> FALSE, q |-> <<>>, line |-> <<>>,
       told |-> FALSE, ran |-> <<>>, mean |-> {}, up |-> TRUE, shown |-> FALSE]

Ev(type, text) == [type |-> type, text |-> text]
Quiet == v.q = <<>> /\ v.set = NoWrite
Prompt == "slow" \in Also \/ Quiet
Ids(text) == {text[i].id : i \in 1..Len(text)}
Used(n) == Ids(n.native) \cup Ids(n.value) \cup Ids(n.line) \cup Ids(n.ran)
           \cup UNION {Ids(n.q[i].text) : i \in 1..Len(n.q)}

Become(n) == /\ v' = [n EXCEPT !.mean = @ \cap Used(n)]
             /\ Len(n.q) <= MaxEvents /\ Len(n.line) <= 2 * MaxLine

-----------------------------------------------------------------------------
(* applyTouchShiftToValue: what was inserted between the common prefix and the  *)
(* common suffix becomes upper case.                                            *)
CommonPrefix(a, b) ==
  LET agree == {i \in 0..Len(a) : i <= Len(b) /\ \A j \in 1..i : a[j] = b[j]}
  IN CHOOSE i \in agree : \A j \in agree : j <= i

CommonSuffix(a, b, skip) ==
  LET agree == {i \in 0..Len(a) : /\ i <= Len(a) - skip /\ i <= Len(b) - skip
                                  /\ \A j \in 0..(i - 1) : a[Len(a) - j] = b[Len(b) - j]}
  IN CHOOSE i \in agree : \A j \in agree : j <= i

Upper(ch) == [ch EXCEPT !.up = ch.id \notin Wide]

Shifted(old, new, mode) ==
  LET from == CommonPrefix(old, new)
      to   == Len(new) - CommonSuffix(old, new, from)
  IN IF mode = "off" THEN new
     ELSE [i \in 1..Len(new) |-> IF from < i /\ i <= to THEN Upper(new[i]) ELSE new[i]]

UsedUp(old, new) ==
  LET from == CommonPrefix(old, new)
      to   == Len(new) - CommonSuffix(old, new, from)
  IN \E i \in (from + 1)..to : new[i].id \notin Wide

NextShift(mode, recent) ==
  CASE mode = "lock"            -> "off"
    [] mode = "once" /\ recent  -> "lock"
    [] OTHER                    -> "once"

(* forwardShellInputDelta: what is sent so that the shell's line follows; a     *)
(* shell deletes a character for each DEL it gets.                              *)
Units(text) == Len(text) + Cardinality({i \in 1..Len(text) : text[i].id \in Wide})

Erased(line, n) == SubSeq(line, 1, Len(line) - IF n < Len(line) THEN n ELSE Len(line))

Forward(line, old, new) ==
  IF IsPrefix(old, new) THEN line \o SubSeq(new, Len(old) + 1, Len(new))
  ELSE IF IsPrefix(new, old) THEN Erased(line, Units(old) - Units(new))
  ELSE Erased(line, Units(old)) \o new

Sent(n, old, new) == IF n.up THEN [n EXCEPT !.line = Forward(@, old, new)] ELSE n

Report(n, focused) == IF n.up THEN [n EXCEPT !.told = focused] ELSE n

Write(n, text) == [n EXCEPT !.value = text, !.set = [none |-> FALSE, text |-> text]]

ClearShift(n) == [n EXCEPT !.shift = "off", !.recent = FALSE]

-----------------------------------------------------------------------------
(* The field: the user types at either end or deletes at the end, and enters.   *)
Typed(text) == Become([v EXCEPT !.native = text, !.q = Append(@, Ev("input", text)), !.ran = <<>>])

UserTypes ==
  \E k \in Keys, front \in BOOLEAN :
    /\ v.shown /\ Prompt /\ Len(v.native) < MaxLine
    /\ k \notin Ids(v.native) \cup Ids(v.value) \cup Ids(v.line)
    /\ LET ch == [id |-> k, up |-> FALSE]
           n  == IF front THEN <<ch>> \o v.native ELSE Append(v.native, ch)
       IN Become([v EXCEPT !.native = n, !.q = Append(@, Ev("input", n)), !.ran = <<>>,
                           !.mean = IF v.shift # "off" /\ k \notin Wide THEN @ \cup {k}
                                    ELSE @ \ {k}])

UserDeletes == v.shown /\ Prompt /\ v.native # <<>> /\ Typed(Front(v.native))

UserEnters ==
  /\ v.shown /\ Prompt
  /\ Become([v EXCEPT !.q = Append(@, Ev("confirm", v.native)), !.ran = <<>>])

(* The keyboard comes up, goes away, or makes place for the input method's own  *)
(* voice input, which takes the focus for a while and leaves the keyboard up.   *)
KeyboardUp(n) == [n EXCEPT !.shown = TRUE,
                           !.q = @ \o <<Ev("focus", <<>>), Ev("up", <<>>)>>]

KeyboardDown(n, blurFirst) ==
  IF ~n.shown THEN n
  ELSE [n EXCEPT !.shown = FALSE,
                 !.q = @ \o IF blurFirst THEN <<Ev("blur", <<>>), Ev("down", <<>>)>>
                            ELSE <<Ev("down", <<>>), Ev("blur", <<>>)>>]

FocusShellInput == v.up /\ Prompt /\ ~v.shown /\ Become(KeyboardUp([v EXCEPT !.focus = TRUE]))

UserHides == \E b \in BOOLEAN : v.shown /\ Prompt /\ Become(KeyboardDown(v, b))

VoiceInput ==
  v.shown /\ Prompt /\ Become([v EXCEPT !.q = @ \o <<Ev("blur", <<>>), Ev("focus", <<>>)>>])

(* A tap on the panel: the page lets the field go and restores the scroll       *)
(* position, which forgets the keyboard's height.                               *)
OnPanelTap ==
  \E b \in BOOLEAN :
    /\ "tapAway" \in Also /\ v.focus /\ Prompt
    /\ Become(KeyboardDown([v EXCEPT !.focus = FALSE, !.kb = FALSE], b))

(* The touch tools.                                                             *)
OnShiftTap == Prompt /\ v.shown
              /\ LET next == NextShift(v.shift, v.recent)
                 IN Become([v EXCEPT !.shift = next, !.recent = next = "once"])

ShiftTapAges == v.recent /\ Become([v EXCEPT !.recent = FALSE])

OnTouchKeyTap ==
  /\ "touchKeys" \in Also /\ v.up /\ Prompt
  /\ \/ Become([v EXCEPT !.line = Erased(@, 1)])
     \/ Become([v EXCEPT !.ran = v.line, !.line = <<>>])

-----------------------------------------------------------------------------
(* The handlers of the page.                                                    *)
OnShellInputChange(n, text) ==
  LET new == Shifted(n.value, text, n.shift)
      m   == Write(Sent(n, n.value, new), new)
  IN IF n.shift = "once" /\ UsedUp(n.value, text) THEN ClearShift(m) ELSE m

OnShellInputConfirm(n, text) ==
  IF ~n.up THEN n
  ELSE LET m == Sent(n, n.value, text)
       IN Write([m EXCEPT !.line = <<>>, !.ran = m.line], <<>>)

OnShellInputFocus(n) ==
  IF ~n.up THEN Write([n EXCEPT !.focus = FALSE, !.kb = FALSE], <<>>)
  ELSE Report([n EXCEPT !.passive = FALSE, !.kb = TRUE], TRUE)

FinalizeBlur(n) ==
  IF ~n.focus /\ n.value = <<>> THEN n
  ELSE [Report(ClearShift([n EXCEPT !.passive = FALSE]), FALSE)
          EXCEPT !.focus = FALSE, !.kb = FALSE]

OnShellInputBlur(n) ==
  IF ~n.focus /\ n.value = <<>> THEN n
  ELSE IF n.up /\ n.kb THEN [n EXCEPT !.passive = TRUE]
  ELSE FinalizeBlur(n)

KeyboardGoneKeepsShift(n) == IF n.passive THEN FinalizeBlur(n) ELSE [n EXCEPT !.kb = FALSE]

KeyboardGone(n) ==
  LET m == ClearShift(n) IN IF n.passive THEN FinalizeBlur(m) ELSE [m EXCEPT !.kb = FALSE]

Deliver ==
  /\ v.q # <<>>
  /\ "slow" \in Also \/ v.set = NoWrite
  /\ LET e == Head(v.q)
         n == [v EXCEPT !.q = Tail(@)]
     IN Become(CASE e.type = "input"   -> OnShellInputChange(n, e.text)
                 [] e.type = "confirm" -> OnShellInputConfirm(n, e.text)
                 [] e.type = "focus"   -> OnShellInputFocus(n)
                 [] e.type = "blur"    -> OnShellInputBlur(n)
                 [] e.type = "up"      -> [n EXCEPT !.passive = FALSE, !.kb = TRUE]
                 [] e.type = "down"    -> KeyboardGone(n))

SetShows ==
  /\ v.set # NoWrite
  /\ Become([v EXCEPT !.native = v.set.text, !.set = NoWrite, !.ran = <<>>])

(* setStatus leaves "connected": the draft goes, the field loses the focus.     *)
Dropped(n) ==
  IF n.focus \/ n.value # <<>> \/ n.kb
  THEN Write([n EXCEPT !.focus = FALSE, !.kb = FALSE], <<>>) ELSE n

Disconnect ==
  \E b \in BOOLEAN : v.up /\ Become(KeyboardDown(Dropped([v EXCEPT !.up = FALSE, !.ran = <<>>]), b))

(* A new connection has a new shell, unless the gateway kept the old one.  It   *)
(* takes longer than the events of the field.                                   *)
Connect ==
  /\ ~v.up /\ v.q = <<>>
  /\ LET n == Dropped([v EXCEPT !.up = TRUE])
     IN \/ Become([n EXCEPT !.line = <<>>, !.told = FALSE])
        \/ "resume" \in Also /\ Become(n)

Next == \/ UserTypes \/ UserDeletes \/ UserEnters \/ FocusShellInput \/ UserHides
        \/ VoiceInput \/ OnPanelTap \/ OnShiftTap \/ ShiftTapAges \/ OnTouchKeyTap
        \/ Deliver \/ SetShows \/ Disconnect \/ Connect

Spec == Init /\ [][Next]_vars

-----------------------------------------------------------------------------
(* Nothing under way and connected: the shell's command line is the draft the   *)
(* page holds (forwardShellInputDelta, and why onPanelTap keeps the draft).     *)
DraftIsLine == v.up /\ v.q = <<>> => v.line = v.value

(* Nothing under way: the field shows the draft.                                *)
FieldShowsDraft == Quiet => v.native = v.value

(* A letter typed with shift on is upper case in the shell's line, also in the  *)
(* line that was entered.                                                       *)
ShiftKept ==
  \A text \in {v.line, v.ran} : \A i \in 1..Len(text) : text[i].id \in v.mean => text[i].up

(* The keyboard is gone and the page knows: no shift is left on.                *)
NoHiddenShift == Quiet /\ ~v.shown => v.shift = "off"

(* Nothing under way and connected: a program that asked for focus reports      *)
(* believes the field focused exactly when it is.                               *)
FocusTold == v.up /\ Quiet => v.told = v.shown
=============================================================================
