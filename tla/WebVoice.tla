------------------------------- MODULE WebVoice -------------------------------
(***************************************************************************)
(* Press-to-talk of the web terminal (TerminalVoiceInput.vue).  A press of *)
(* 150 ms starts a round: the last one is cleaned up, the microphone and a *)
(* socket are asked for, the audio context is resumed.  Each of these is   *)
(* an await, during which the finger is lifted, pressed again, the panel   *)
(* cancelled, or a step fails.  Leaving a round awaits the end of its      *)
(* audio context.                                                          *)
(***************************************************************************)
EXTENDS Naturals

CONSTANT MaxRounds   \* bound: rounds started

ASSUME RoundLimit == MaxRounds \in Nat

VARIABLES
  v,      \* the component's variables, see VoiceInit
  start,  \* [round -> where its startRecordingRound waits]
  stops,  \* stopRecordingRound calls that wait for their audio context's end
  finger, \* the pointer is down
  gone    \* the component is unmounted

voiceVars == <<v, start, stops, finger, gone>>

Rounds == 1 .. MaxRounds

\* round: currentRoundToken and roundStartAttemptSeq, which advance together;
\* active, session, timer: the round of activeSocket, of currentRoundSession and
\* of the socket roundSocketCloseTimer closes (0: null); sock: opening until
\* `ready', then open, ended after round_end; draft, base: the rounds whose text
\* draftText and roundBaseText hold; asked: stopRequestedBeforeReady;
\* lost: a live microphone stream that is no longer in the cache.
VoiceInit ==
  /\ v = [gesture |-> "idle", held |-> FALSE, hold |-> FALSE, panel |-> FALSE,
          recording |-> FALSE, asked |-> FALSE, mic |-> FALSE, lost |-> FALSE,
          round |-> 0, active |-> 0, session |-> 0, timer |-> 0,
          sock |-> [r \in Rounds |-> "none"], draft |-> {}, base |-> {}]
  /\ start = [r \in Rounds |-> "none"]
  /\ stops = {}
  /\ finger = FALSE /\ gone = FALSE

\* --- parts of the handlers: from the component's variables to the new ones -------
CloseSocket(w, r) ==
  [w EXCEPT !.sock[r] = IF @ \in {"opening", "open", "ended"} THEN "closing" ELSE @]

CloseActive(w) ==
  IF w.active = 0 THEN [w EXCEPT !.timer = 0]
  ELSE CloseSocket([w EXCEPT !.timer = 0, !.active = 0], w.active)

ResetRecording(w) ==
  [w EXCEPT !.recording = FALSE, !.gesture = IF @ = "recording" THEN "idle" ELSE @]

\* The panel's watcher releases the cached microphone.
HidePanel(w) ==
  [w EXCEPT !.panel = FALSE, !.draft = {}, !.mic = @ /\ ~w.panel]

\* stopRecordingRound until its await, and after it: the socket of the round is
\* given 2.6 s for the last result; a cancelled one is closed at once.
StopHead(w, cancel) ==
  [ResetRecording(w) EXCEPT !.asked = @ \/ (~cancel /\ w.active = 0), !.session = 0]
StopTail(w, r, cancel) ==
  IF r = 0 \/ cancel THEN CloseActive([w EXCEPT !.asked = @ /\ ~cancel])
                     ELSE [w EXCEPT !.timer = r]

\* What the caller of stopRecordingRound does when it is back.
After(w, by) ==
  CASE by = "auto" -> w
    [] by \in {"release", "blur"} -> [w EXCEPT !.gesture = "idle", !.held = FALSE]
    [] by = "hidden" -> [w EXCEPT !.gesture = "idle", !.held = FALSE,
                                  !.mic = FALSE, !.asked = FALSE]
    [] by \in {"record", "cancel"} -> HidePanel(w)

\* Without a session there is nothing to wait for.
StopRound(w, by) ==
  LET cancel == by = "cancel"
      head == StopHead(w, cancel)
  IN IF w.session = 0
     THEN v' = After(StopTail(head, w.active, cancel), by) /\ UNCHANGED stops
     ELSE v' = head /\ stops' = stops \cup {[by |-> by, round |-> w.active]}

StopEnds(s) ==
  /\ s \in stops
  /\ stops' = stops \ {s}
  /\ \E w \in {After(StopTail(v, s.round, s.by = "cancel"), s.by)} :
       v' = w \/ (s.by = "release" /\ v' = [w EXCEPT !.held = v.held])
  /\ UNCHANGED <<start, finger, gone>>

\* --- the gesture ----------------------------------------------------------------
PointerDown ==
  /\ ~finger /\ ~gone
  /\ finger' = TRUE
  /\ v' = IF v.held THEN v
          ELSE [v EXCEPT !.held = TRUE, !.gesture = "pending", !.hold = TRUE]
  /\ UNCHANGED <<start, stops, gone>>

PointerMove ==
  /\ finger /\ v.held /\ v.gesture = "pending"
  /\ v' = [v EXCEPT !.hold = FALSE, !.gesture = "dragging"]
  /\ UNCHANGED <<start, stops, finger, gone>>

\* endPointerGesture is called by the button, by the window and by the loss of
\* the capture: the first call stops the round, the others free the pointer.
PointerUp ==
  /\ finger
  /\ finger' = FALSE
  /\ LET w == [v EXCEPT !.hold = FALSE, !.held = FALSE] IN
     IF ~v.held THEN UNCHANGED <<v, stops>>
     ELSE IF v.gesture = "recording" THEN StopRound(w, "release")
     ELSE v' = [w EXCEPT !.gesture = "idle"] /\ UNCHANGED stops
  /\ UNCHANGED <<start, gone>>

\* forceEndGesture: blur, a touch that ends outside, a hidden page.
ForceEnd(by) ==
  /\ ~gone
  /\ v.held \/ v.gesture # "idle" \/ v.recording
  /\ LET w == [v EXCEPT !.hold = FALSE] IN
     IF v.gesture = "recording" \/ v.recording THEN StopRound(w, by)
     ELSE v' = After(w, by) /\ UNCHANGED stops
  /\ UNCHANGED <<start, finger, gone>>

\* --- startRecordingRound ----------------------------------------------------------
Aborted(w, r) == r # w.round

AfterMic(w, r) ==
  IF Aborted(w, r) \/ w.gesture # "recording"
  THEN v' = w /\ start' = [start EXCEPT ![r] = "done"]
  ELSE v' = [w EXCEPT !.sock[r] = "opening"] /\ start' = [start EXCEPT ![r] = "opening"]

AfterCleanup(w, r) ==
  IF w.mic THEN AfterMic(w, r)
           ELSE v' = w /\ start' = [start EXCEPT ![r] = "mic"]

NewRound(w) ==
  CloseActive([w EXCEPT !.gesture = "recording", !.panel = TRUE, !.asked = FALSE,
                        !.base = w.draft, !.round = @ + 1, !.session = 0])

HoldFires ==
  /\ v.hold
  /\ IF v.gesture # "pending"
     THEN v' = [v EXCEPT !.hold = FALSE] /\ UNCHANGED start
     ELSE LET w == NewRound([v EXCEPT !.hold = FALSE]) IN
          /\ v.round < MaxRounds
          /\ IF v.session = 0 THEN AfterCleanup(w, w.round)
             ELSE v' = w /\ start' = [start EXCEPT ![w.round] = "cleanup"]
  /\ UNCHANGED <<stops, finger, gone>>

CleanupEnds(r) ==
  /\ start[r] = "cleanup"
  /\ AfterCleanup(v, r)
  /\ UNCHANGED <<stops, finger, gone>>

\* acquireMicStream keeps the last stream it was given.
MicGranted(r) ==
  /\ start[r] = "mic"
  /\ AfterMic([v EXCEPT !.mic = TRUE, !.lost = @ \/ v.mic], r)
  /\ UNCHANGED <<stops, finger, gone>>

SocketReadyUnchecked(r) ==
  /\ start[r] = "opening"
  /\ v' = [v EXCEPT !.sock[r] = "open", !.active = r]
  /\ start' = [start EXCEPT ![r] = IF v.gesture = "recording" THEN "resuming"
                                   ELSE "autostop"]
  /\ UNCHANGED <<stops, finger, gone>>
\* The gateway is ready: a newer round has this socket closed, otherwise it is
\* the active one and `start' is sent.
SocketReady(r) ==
  /\ start[r] = "opening"
  /\ IF Aborted(v, r)
     THEN v' = CloseSocket(v, r) /\ start' = [start EXCEPT ![r] = "done"]
     ELSE /\ v' = [v EXCEPT !.sock[r] = "open", !.active = r]
          /\ start' = [start EXCEPT ![r] = IF v.gesture = "recording"
                                           THEN "resuming" ELSE "autostop"]
  /\ UNCHANGED <<stops, finger, gone>>

\* The audio context runs: the recording begins; a round whose finger was lifted
\* before `ready' is stopped at once.
ContextResumes(r) ==
  /\ start[r] \in {"resuming", "autostop"}
  /\ start' = [start EXCEPT ![r] = "done"]
  /\ LET w == [v EXCEPT !.session = r, !.recording = TRUE] IN
     IF start[r] = "autostop" \/ v.asked
     THEN StopRound([w EXCEPT !.asked = FALSE], "auto")
     ELSE v' = w /\ UNCHANGED stops
  /\ UNCHANGED <<finger, gone>>

\* No microphone, no socket in time, no audio: the catch of startRecordingRound,
\* which waits for the end of the current session before it closes the socket.
StartFails(r) ==
  /\ start[r] \in {"mic", "opening", "resuming", "autostop"}
  /\ LET w == [ResetRecording([v EXCEPT !.sock[r] = IF start[r] = "opening" THEN "closed" ELSE @]) EXCEPT !.session = 0] IN
     IF v.session = 0
     THEN v' = CloseActive(w) /\ start' = [start EXCEPT ![r] = "done"]
     ELSE v' = w /\ start' = [start EXCEPT ![r] = "failing"]
  /\ UNCHANGED <<stops, finger, gone>>

FailureEnds(r) ==
  /\ start[r] = "failing"
  /\ v' = CloseActive(v) /\ start' = [start EXCEPT ![r] = "done"]
  /\ UNCHANGED <<stops, finger, gone>>

\* --- the socket ----------------------------------------------------------------
Result(r) ==
  /\ v.sock[r] = "open" /\ r = v.round
  /\ v' = [v EXCEPT !.draft = v.base \cup {r}]
  /\ UNCHANGED <<start, stops, finger, gone>>

RoundEnd(r) ==
  /\ v.sock[r] = "open"
  /\ v' = [v EXCEPT !.sock[r] = "ended", !.timer = IF v.active = r THEN 0 ELSE @]
  /\ UNCHANGED <<start, stops, finger, gone>>

SocketCloses(r) ==
  /\ v.sock[r] \in {"open", "ended", "closing"}
  /\ v' = [v EXCEPT !.sock[r] = "closed", !.active = IF @ = r THEN 0 ELSE @]
  /\ UNCHANGED <<start, stops, finger, gone>>

CloseTimerFires ==
  /\ v.timer # 0
  /\ v' = CloseSocket([v EXCEPT !.timer = 0], v.timer)
  /\ UNCHANGED <<start, stops, finger, gone>>

\* --- the panel -----------------------------------------------------------------
\* onSend needs a text and no recording; onRecord stops a round that is running.
Send ==
  /\ v.panel /\ v.draft # {} /\ ~v.recording /\ ~gone
  /\ v' = HidePanel(v)
  /\ UNCHANGED <<start, stops, finger, gone>>

Record ==
  /\ v.panel /\ v.draft # {} /\ ~gone
  /\ IF v.gesture = "recording" \/ v.recording THEN StopRound(v, "record")
     ELSE v' = HidePanel(v) /\ UNCHANGED stops
  /\ UNCHANGED <<start, finger, gone>>

CancelPanel ==
  /\ v.panel /\ ~gone
  /\ StopRound(v, "cancel")
  /\ UNCHANGED <<start, finger, gone>>

Unmount ==
  /\ ~gone /\ gone' = TRUE
  /\ v' = [CloseActive(v) EXCEPT !.hold = FALSE, !.session = 0, !.mic = FALSE,
                                 !.held = FALSE, !.gesture = "idle"]
  /\ UNCHANGED <<start, stops, finger>>

VoiceNext ==
  \/ PointerDown \/ PointerMove \/ PointerUp \/ HoldFires \/ CloseTimerFires
  \/ Send \/ Record \/ CancelPanel \/ Unmount
  \/ \E by \in {"blur", "hidden"} : ForceEnd(by)
  \/ \E s \in stops : StopEnds(s)
  \/ \E r \in Rounds :
       \/ CleanupEnds(r) \/ MicGranted(r) \/ SocketReady(r) \/ ContextResumes(r)
       \/ StartFails(r) \/ FailureEnds(r) \/ Result(r) \/ RoundEnd(r) \/ SocketCloses(r)

VoiceSpec == VoiceInit /\ [][VoiceNext]_voiceVars
-----------------------------------------------------------------------------
\* The active socket is that of the newest round: an older one that is ready late
\* does not take its place.
ActiveIsNewest == v.active # 0 => v.active = v.round

\* Every socket that may still open or carry audio can be reached: it is the
\* active one, or the start that waits for it will decide on it.
NoSocketForgotten ==
  \A r \in Rounds :
    v.sock[r] \in {"opening", "open", "ended"} => r = v.active \/ start[r] = "opening"

\* Rounds add up: a result, also a late one, takes no earlier text out of the
\* box; only the user empties it.
RoundsAddUp == [][v.draft \subseteq v'.draft \/ v'.draft = {}]_voiceVars

\* The web client's rounds stay apart: the socket in use is the newest round's,
\* none is left open that nobody will close, and a result never takes earlier
\* text out of the box (TerminalVoiceInput.vue).
RoundsStayApart == [](ActiveIsNewest /\ NoSocketForgotten) /\ RoundsAddUp
===============================================================================
