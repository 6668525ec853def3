------------------------------ MODULE MCVoice -------------------------------
(***************************************************************************)
(* What a user says or types: the gateway's proxy to the speech service,   *)
(* the recording rounds of the web client and of the mini program, and the *)
(* voice button and the input field of the mini program's terminal page.   *)
(* They share no state that is modelled, and one run explores each of      *)
(* them.                                                                   *)
(***************************************************************************)
EXTENDS AsrProxy, WebVoice, MiniSpeech, MiniLayout

VARIABLES
    part,  \* the component this behaviour is of
    \* MiniInput
    fieldV

\* How far a finger drags the voice button, to both sides.
Drags == {-150, 400}

Field == INSTANCE MiniInput WITH
    Keys <- {1, 2, 3, 4}, Wide <- {}, MaxLine <- 3, MaxEvents <- 3, Also <- {},
    v <- fieldV
Laggy == INSTANCE MiniInput WITH
    Keys <- {1, 2}, Wide <- {}, MaxLine <- 1, MaxEvents <- 2, Also <- {"slow"},
    v <- fieldV
Taps == INSTANCE MiniInput WITH
    Keys <- {1, 2}, Wide <- {2}, MaxLine <- 2, MaxEvents <- 3,
    Also <- {"touchKeys", "resume", "tapAway"}, v <- fieldV

\* One component runs, the others stay as they start.
Parts == {"proxy", "web", "dictation", "button", "field", "slow", "taps"}
all == <<part, proxyVars, voiceVars, dictationVars, readingVars, panelVars, scrollVars,
         caretVars, fieldV>>

InputInit ==
  /\ part \in Parts
  /\ ProxyInit
  /\ part # "proxy" => service = "serving"
  /\ VoiceInit
  /\ DictationInit
  /\ part # "dictation" => habits = {}
  /\ ReadingInit
  /\ PanelInit
  /\ ScrollInit
  /\ CaretInit
  /\ Field!Init

InputNext ==
  /\ UNCHANGED part
  /\ IF part = "proxy" THEN ProxyNext ELSE UNCHANGED proxyVars
  /\ IF part = "web" THEN VoiceNext ELSE UNCHANGED voiceVars
  /\ IF part = "dictation" THEN DictationNext ELSE UNCHANGED dictationVars
  /\ UNCHANGED <<readingVars, scrollVars, caretVars>>
  /\ IF part = "button" THEN PanelNext ELSE UNCHANGED panelVars
  /\ IF part = "field" THEN Field!Next
     ELSE IF part = "slow" THEN Laggy!Next
     ELSE IF part = "taps" THEN Taps!Next
     ELSE UNCHANGED fieldV

InputSpec == InputInit /\ [][InputNext]_all

-----------------------------------------------------------------------------
\* The field shows the page's draft, which is the shell's line, and Shift is
\* what the user made it, visibly; with a page that answers late ("slow") or
\* that is tapped elsewhere ("taps"), as far as the code goes for these
\* (pages/terminal/index.js, the shell input).
DraftIsEntered ==
    /\ Field!FieldShowsDraft /\ Field!NoHiddenShift
    /\ part # "taps" => Field!DraftIsLine
    /\ part # "slow" => Field!ShiftKept
    /\ part = "field" => Field!FocusTold
=============================================================================
