----------------------------- MODULE MiniSpeech -----------------------------
(***************************************************************************)
(* Speech in the mini-program: what the user dictates, and what is read    *)
(* aloud to him. The two parts are modelled apart.                         *)
(***************************************************************************)
EXTENDS Naturals, FiniteSets

-----------------------------------------------------------------------------
(* Hold-to-talk of the mini-program's terminal page: the voice round of        *)
(* pages/terminal/index.js (startVoiceRound, stopVoiceRound and the handlers of *)
(* recorder and recogniser), each call of startVoiceRound with the client it    *)
(* creates (utils/asrGateway.js), and the recorder of WeChat, of which there is *)
(* one.  A call is suspended twice, for the permission and for the connection;  *)
(* what happens in one callback, promise continuations included, is one step.   *)
CONSTANTS Calls,     \* calls of startVoiceRound alive at once, and their clients
          None,      \* no client
          Habits     \* what may happen in a behaviour, a set of sets of
                     \*   "overlays": the user taps Cancel or Send while the permission is asked for
                     \*   "restarts": the user presses again before the last round has ended
                     \*   "defers":   the callback of setData comes after the release
                     \*   "hides":    the page is hidden
                     \*   "breaks":   the recorder fails while it records

ASSUME NoneIsNoCall == None \notin Calls

VARIABLES voice,      \* the page: voiceRound, the recorder flags and the gesture
          voiceCall,  \* startVoiceRound: free, waiting for the permission, or connecting
          sock,       \* the socket of each client: none, opening, ready, ended, closing
          rec,        \* the recorder: off, starting, on, stopping
          held,       \* the finger is on the button
          dropped,    \* ghost: rounds the user cancelled or sent
          late,       \* ghost: a result of such a round reached the draft
          habits      \* what may happen in this behaviour

dictationVars == <<voice, voiceCall, sock, rec, held, dropped, late, habits>>

(* The part of the state the handlers of the page change. *)
VoiceNow == [v |-> voice, call |-> voiceCall, sock |-> sock, rec |-> rec]
VoiceBecome(n) == /\ voice' = n.v /\ voiceCall' = n.call /\ sock' = n.sock /\ rec' = n.rec
                  /\ UNCHANGED habits

DictationInit ==
  /\ voice = [phase |-> "idle", cur |-> None, discard |-> FALSE, stopReq |-> FALSE,
          timer |-> FALSE, isStarting |-> FALSE, isRunning |-> FALSE, stopAfter |-> FALSE,
          hold |-> "no", panel |-> FALSE]
  /\ voiceCall = [c \in Calls |-> "free"]
  /\ sock = [c \in Calls |-> "none"]
  /\ rec = "off" /\ held = FALSE /\ dropped = {} /\ late = FALSE
  /\ habits \in Habits

-----------------------------------------------------------------------------
(* The recogniser's client and the recorder, as the page calls them. *)

\* close(): the socket's close event comes later
Close(n, c) == IF c # None /\ n.sock[c] \in {"opening", "ready", "ended"}
               THEN [n EXCEPT !.sock[c] = "closing"] ELSE n

\* recorderManager.stop()
StopCall(n) == IF n.rec \in {"starting", "on"} THEN [n EXCEPT !.rec = "stopping"] ELSE n

Teardown(n) == [Close(n, n.v.cur) EXCEPT !.v.cur = None]

StopRecorder(n) ==
  CASE n.v.isStarting /\ ~n.v.isRunning -> [n EXCEPT !.v.stopAfter = TRUE]
    [] n.v.isRunning -> [StopCall(n) EXCEPT !.v.isRunning = FALSE, !.v.isStarting = FALSE]
    [] OTHER -> n

Flags(n) == [n EXCEPT !.v.isRunning = FALSE, !.v.isStarting = FALSE, !.v.stopAfter = FALSE]

ToIdle(n) == [n EXCEPT !.v.phase = "idle"]

ForceReset(n) ==
  Flags(StopRecorder(Teardown(ToIdle(
    [n EXCEPT !.v.timer = FALSE, !.v.stopReq = FALSE, !.v.discard = TRUE]))))

-----------------------------------------------------------------------------
(* stopVoiceRound.  stopRound of a client that is ready arms its own timer, of a *)
(* client that is not it does nothing; cancelRound closes it.                   *)
EndClient(n, cancel) ==
  IF n.v.cur = None THEN n
  ELSE IF cancel THEN Close(n, n.v.cur)
  ELSE [n EXCEPT !.sock[n.v.cur] = IF @ = "ready" THEN "ended" ELSE @]

StopVoiceRound(n, cancel) ==
  CASE n.v.phase = "idle" -> StopRecorder(n)
    [] n.v.phase = "connecting" /\ cancel -> Teardown(ToIdle([n EXCEPT !.v.stopReq = FALSE]))
    [] n.v.phase = "connecting" /\ ~cancel -> [n EXCEPT !.v.stopReq = TRUE]
    [] OTHER -> [EndClient(StopRecorder(n), cancel)
                   EXCEPT !.v.phase = "stopping", !.v.timer = TRUE]

(* The catch of startVoiceRound: whichever call failed, it resets the round of  *)
(* the page.                                                                    *)
Catch(n, c) ==
  [StopRecorder(ToIdle(Teardown([n EXCEPT !.call[c] = "free"])))
     EXCEPT !.v.isStarting = FALSE, !.v.stopAfter = FALSE]

(* connect() resolved: the rest of startVoiceRound, with recorderManager.start  *)
(* accepted, or refused because the recorder is busy.                           *)
Refused(n) == Flags(ToIdle(Teardown(n)))

Begin(n) ==
  LET m == [n EXCEPT !.rec = "starting", !.v.isStarting = TRUE, !.v.isRunning = FALSE,
                     !.v.stopAfter = FALSE, !.v.phase = "recording"]
  IN IF m.v.stopReq THEN StopVoiceRound([m EXCEPT !.v.stopReq = FALSE], FALSE) ELSE m

Connected(n, c) ==
  LET m == [n EXCEPT !.call[c] = "free"]
  IN IF n.v.phase # "connecting" \/ n.v.cur # c THEN Close(m, c)
     ELSE IF n.rec # "off" THEN Refused(m) ELSE Begin(m)

-----------------------------------------------------------------------------
(* The user. *)

\* startVoiceRound, up to the permission
StartVoiceRound(n) ==
  IF n.v.phase # "idle" \/ n.v.isRunning THEN VoiceBecome(n)
  ELSE \E c \in Calls :
         /\ voiceCall[c] = "free" /\ sock[c] = "none" /\ n.v.cur # c
         /\ VoiceBecome([n EXCEPT !.v.phase = "connecting", !.v.discard = FALSE,
                                  !.v.stopReq = FALSE, !.call[c] = "perm"])

Press ==
  LET again == voice.phase = "stopping" \/ (voice.phase = "connecting" /\ voice.stopReq)
      n == IF again THEN ForceReset(VoiceNow) ELSE VoiceNow
      free == n.v.phase = "idle" /\ ~n.v.isRunning /\ ~n.v.isStarting
  IN /\ ~held /\ voice.hold = "no"
     /\ \/ "restarts" \in habits
        \/ voice.phase = "idle" /\ rec = "off" /\ \A c \in Calls : voiceCall[c] = "free"
     /\ held' = TRUE
     /\ VoiceBecome(IF free THEN [n EXCEPT !.v.hold = "armed"] ELSE n)
     /\ UNCHANGED <<dropped, late>>

(* The hold timer: a panel that is not there yet is shown first, and the round  *)
(* begins in the callback of setData.                                           *)
HoldTimer ==
  /\ voice.hold = "armed"
  /\ IF voice.phase # "idle" \/ voice.isRunning \/ voice.isStarting
     THEN VoiceBecome([VoiceNow EXCEPT !.v.hold = "no"])
     ELSE IF voice.panel THEN StartVoiceRound([VoiceNow EXCEPT !.v.hold = "started"])
          ELSE VoiceBecome([VoiceNow EXCEPT !.v.hold = "shows"])
  /\ UNCHANGED <<held, dropped, late>>

PanelShown ==
  /\ voice.hold \in {"shows", "released"}
  /\ StartVoiceRound([VoiceNow EXCEPT !.v.panel = TRUE,
                                      !.v.hold = IF @ = "shows" THEN "started" ELSE "no"])
  /\ UNCHANGED <<held, dropped, late>>

VoiceRelease ==
  LET n == [VoiceNow EXCEPT !.v.hold = IF @ = "shows" THEN "released" ELSE "no"]
  IN /\ held /\ ("defers" \in habits \/ voice.hold # "shows")
     /\ held' = FALSE
     /\ VoiceBecome(IF voice.hold \in {"started", "shows"} THEN StopVoiceRound(n, FALSE) ELSE n)
     /\ UNCHANGED <<dropped, late>>

(* onCancelDraft and onRecordDraft; onSendDraft leaves an idle round alone and   *)
(* the panel open when nothing was sent.                                        *)
Draft(n, send) ==
  LET m == [n EXCEPT !.v.discard = TRUE]
  IN IF send /\ m.v.phase = "idle" THEN m ELSE StopVoiceRound(m, TRUE)

LeaveDraft ==
  \E send, sent \in BOOLEAN :
    /\ voice.panel /\ ~held
    /\ "overlays" \in habits \/ \A c \in Calls : voiceCall[c] # "perm"
    /\ VoiceBecome([Draft(VoiceNow, send) EXCEPT !.v.panel = send /\ ~sent])
    /\ dropped' = {c \in Calls : voiceCall[c] # "free" \/ sock[c] # "none"}
    /\ UNCHANGED <<held, late>>

\* onHide: the recorder is stopped only if it is known to run
VoiceHide ==
  LET n == Teardown(StopVoiceRound([VoiceNow EXCEPT !.v.hold = "no"], TRUE))
      m == IF n.v.isRunning THEN StopCall(n) ELSE n
  IN /\ "hides" \in habits
     /\ VoiceBecome(Flags([m EXCEPT !.v.timer = FALSE]))
     /\ held' = FALSE /\ UNCHANGED <<dropped, late>>

-----------------------------------------------------------------------------
(* Permission, socket and timers. *)

Permission(c) ==
  /\ voiceCall[c] = "perm"
  /\ \/ VoiceBecome([Teardown(VoiceNow) EXCEPT !.v.cur = c, !.call[c] = "connect",
                                               !.sock[c] = "opening"])
     \/ VoiceBecome(ToIdle([VoiceNow EXCEPT !.call[c] = "free"]))          \* refused
  /\ UNCHANGED <<held, dropped, late>>

SockReady(c) ==
  /\ voiceCall[c] = "connect" /\ sock[c] \in {"opening", "closing"}
  /\ VoiceBecome(Connected([VoiceNow EXCEPT !.sock[c] = IF @ = "opening" THEN "ready" ELSE @], c))
  /\ UNCHANGED <<held, dropped, late>>

\* an error before ready, or the ready timer: the promise of connect() is rejected
SockFails(c) ==
  /\ voiceCall[c] = "connect" /\ sock[c] \in {"opening", "closing"}
  /\ VoiceBecome(Catch(Close(VoiceNow, c), c))
  /\ UNCHANGED <<held, dropped, late>>

SockClosed(c) ==
  LET n == [VoiceNow EXCEPT !.sock[c] = "none"]
      m == IF voice.cur # c THEN n
           ELSE ToIdle([StopRecorder(n) EXCEPT !.v.timer = FALSE, !.v.cur = None])
  IN /\ sock[c] # "none"
     /\ VoiceBecome(IF voiceCall[c] = "connect" THEN Catch(m, c) ELSE m)
     /\ dropped' = dropped \ {c}
     /\ UNCHANGED <<held, late>>

\* handleAsrResult; frames of a socket that is closing still arrive
AsrResult(c) ==
  /\ voiceCall[c] = "free" /\ sock[c] \in {"ready", "ended", "closing"}
  /\ late' = (late \/ (voice.cur = c /\ ~voice.discard /\ c \in dropped))
  /\ UNCHANGED <<voice, voiceCall, sock, rec, held, dropped, habits>>

AsrRoundEnd(c) ==
  /\ voiceCall[c] = "free" /\ sock[c] \in {"ready", "ended"} /\ voice.cur = c
  /\ VoiceBecome(Teardown(ToIdle([StopRecorder(VoiceNow) EXCEPT !.v.timer = FALSE])))
  /\ UNCHANGED <<held, dropped, late>>

\* the timer of stopRound
StopTimer(c) ==
  /\ sock[c] = "ended"
  /\ VoiceBecome(Close(VoiceNow, c))
  /\ UNCHANGED <<held, dropped, late>>

CloseTimer ==
  /\ voice.timer
  /\ VoiceBecome(ToIdle(Teardown([VoiceNow EXCEPT !.v.timer = FALSE])))
  /\ UNCHANGED <<held, dropped, late>>

-----------------------------------------------------------------------------
(* The recorder's events. *)

RecStartedRunsOn ==
  /\ rec = "starting"
  /\ VoiceBecome([VoiceNow EXCEPT !.rec = "on", !.v.isStarting = FALSE, !.v.isRunning = TRUE])
  /\ UNCHANGED <<held, dropped, late>>

RecStarted ==
  LET n == [VoiceNow EXCEPT !.rec = "on", !.v.isStarting = FALSE, !.v.isRunning = TRUE]
  IN /\ rec = "starting"
     /\ VoiceBecome(IF voice.stopAfter THEN StopRecorder([n EXCEPT !.v.stopAfter = FALSE]) ELSE n)
     /\ UNCHANGED <<held, dropped, late>>

RecStopped ==
  /\ rec = "stopping"
  /\ VoiceBecome(Flags([VoiceNow EXCEPT !.rec = "off"]))
  /\ UNCHANGED <<held, dropped, late>>

RecError ==
  /\ "breaks" \in habits /\ rec \in {"starting", "on"}
  /\ VoiceBecome(ToIdle(Teardown(Flags([VoiceNow EXCEPT !.rec = "off"]))))
  /\ UNCHANGED <<held, dropped, late>>

DictationNext ==
  \/ Press \/ HoldTimer \/ PanelShown \/ VoiceRelease \/ LeaveDraft \/ VoiceHide
  \/ \E c \in Calls : Permission(c) \/ SockReady(c) \/ SockFails(c) \/ SockClosed(c)
                       \/ AsrResult(c) \/ AsrRoundEnd(c) \/ StopTimer(c)
  \/ CloseTimer \/ RecStarted \/ RecStopped \/ RecError

(* Timers fire, the user answers the prompt, the platform answers the recorder, *)
(* the ready timer or the socket settles connect(), a closed socket says so.    *)
DictationFairness ==
  /\ WF_dictationVars(HoldTimer) /\ WF_dictationVars(PanelShown) /\ WF_dictationVars(CloseTimer)
  /\ WF_dictationVars(RecStarted) /\ WF_dictationVars(RecStopped)
  /\ \A c \in Calls : WF_dictationVars(Permission(c)) /\ WF_dictationVars(SockReady(c) \/ SockFails(c))
                       /\ WF_dictationVars(sock[c] = "closing" /\ SockClosed(c))

DictationSpec == DictationInit /\ [][DictationNext]_dictationVars /\ DictationFairness

-----------------------------------------------------------------------------
(* A result of a round the user has cancelled, recorded or sent is never        *)
(* written into the draft (discardResults against frames still on their way).   *)
NoTextAfterCancel == ~late

(* A recording round is one the finger holds: the release that came while the   *)
(* client connected ends the round as soon as it has begun.                     *)
RecordingIsHeld == voice.phase = "recording" => held

(* A microphone that runs belongs to a recording round, or will be stopped as   *)
(* soon as it has started.                                                      *)
MicIsWanted ==
  rec \in {"starting", "on"} => voice.phase = "recording" \/ (voice.isStarting /\ voice.stopAfter)

(* While a round records, the page has a client to send the audio to.           *)
RecordingHasClient == voice.phase = "recording" => voice.cur # None

(* The timer of a round's end never outlives the round.                         *)
TimerIsOfRound == voice.timer => voice.phase = "stopping"

(* The mini program records under the finger only, gives the microphone back,   *)
(* and writes nothing of a round that was cancelled, with a user who waits for  *)
(* a round to end; with any user, what is recorded has a client to go to.       *)
DictationIsHeld ==
  /\ habits = {} => NoTextAfterCancel /\ RecordingIsHeld /\ MicIsWanted /\ TimerIsOfRound
  /\ RecordingHasClient

(* After the release every round ends.                                          *)
RoundEnds == []<>(voice.phase = "idle" \/ held)

-----------------------------------------------------------------------------
(* Speech playback of the mini-program's terminal page: a round of output is    *)
(* captured until it is stable, cut into segments, and each segment is          *)
(* synthesised and played by an audio instance of its own (initTtsRuntime to    *)
(* requestTtsPlayback of pages/terminal/index.js, utils/ttsGateway.js).  Every   *)
(* event of an old instance, timer or request meets the state of a newer one.   *)
(* A round's timers are cleared whenever its id or its change counter moves, so *)
(* the two are not kept: the timers are part of the round's state.              *)
CONSTANTS Playbacks,  \* playback jobs with something still under way
          Insts,      \* audio instances alive at once
          LastSeg,    \* segments of a job
          Slow        \* a request of an old job may fail, not only be late

NoJob == "no job"

ASSUME ReadingAssumption == NoJob \notin Playbacks /\ None \notin Insts /\ LastSeg \in Nat \ {0}

Segs == 1..LastSeg
Fresh == [k \in Segs |-> "new"]

VARIABLES t,        \* ttsRuntime and the page data about it
          aud,      \* each audio instance: free, idle, loading, playing, or a stop on its way
          asked,    \* syntheses under way, <<job, segment>>
          readingCall  \* the segment each job's playTtsQueueSegment waits for, or 0

readingVars == <<t, aud, asked, readingCall>>

ReadingNow == [t |-> t, aud |-> aud, asked |-> asked, call |-> readingCall]
ReadingBecome(n) == t' = n.t /\ aud' = n.aud /\ asked' = n.asked /\ readingCall' = n.call

ReadingInit ==
  /\ t = [enabled |-> FALSE, codex |-> FALSE, round |-> "none", job |-> NoJob, q |-> Fresh,
          idx |-> 0, phase |-> "idle", pending |-> FALSE, load |-> FALSE, inst |-> None,
          state |-> "idle"]
  /\ aud = [i \in Insts |-> "free"]
  /\ asked = {} /\ readingCall = [j \in Playbacks |-> 0]

-----------------------------------------------------------------------------
Show(n, s) == [n EXCEPT !.t.state = s]

ClearQueue(n) ==
  [n EXCEPT !.t.load = FALSE, !.t.job = NoJob, !.t.q = Fresh, !.t.idx = 0,
            !.t.pending = FALSE, !.t.phase = "idle"]

(* stop() of an instance: its event comes later.  An instance that is released  *)
(* is stopped and destroyed.                                                    *)
StopAudio(n) ==
  IF n.t.inst # None /\ n.aud[n.t.inst] \in {"loading", "playing"}
  THEN [n EXCEPT !.aud[n.t.inst] = "stopping"] ELSE n

ReadingRelease(n) ==
  IF n.t.inst = None THEN n
  ELSE LET m == StopAudio(n)
       IN [m EXCEPT !.aud[n.t.inst] = IF @ = "idle" THEN "free" ELSE @, !.t.inst = None]

StopPlaybackQueueOnly(n) == ClearQueue(n)

StopPlayback(n) ==
  IF n.t.inst = None THEN ClearQueue(n)
  ELSE StopAudio([ClearQueue(n) EXCEPT !.t.phase = "stopping"])

Destroy(n) == IF n.t.inst = None THEN n
              ELSE ReadingRelease([ClearQueue(n) EXCEPT !.t.phase = "stopping"])

Reset(n) == Show(StopPlayback([n EXCEPT !.t.round = "none"]), "idle")

FailPlayback(n) == Show(ClearQueue(StopAudio(n)), "error")

-----------------------------------------------------------------------------
(* A new instance loads the segment; its guards are armed with it.              *)
Load(n, i, k) ==
  [ReadingRelease(n) EXCEPT !.t.inst = i, !.aud[i] = "loading", !.t.idx = k, !.t.pending = TRUE,
                            !.t.phase = "loading", !.t.load = TRUE, !.t.state = "preparing"]

Ask(n, j, k) == [n EXCEPT !.asked = @ \cup {<<j, k>>}]

(* playTtsQueueSegment: a segment that is not ready is waited for.              *)
PlaySegment(n, k) ==
  IF n.t.q[k] = "new"
  THEN ReadingBecome([Ask(n, n.t.job, k) EXCEPT !.call[n.t.job] = k])
  ELSE \E i \in Insts : ReadingRelease(n).aud[i] = "free" /\ ReadingBecome(Load(n, i, k))

Continue(n) ==
  IF n.t.idx = LastSeg THEN ReadingBecome(Show(ClearQueue(n), "idle"))
  ELSE PlaySegment(n, n.t.idx + 1)

(* The file in the local cache failed: once, from the remote address.           *)
RetryOrFail(n) ==
  IF n.t.idx # 0 /\ n.t.q[n.t.idx] = "local"
  THEN \E i \in Insts : /\ ReadingRelease(n).aud[i] = "free"
                        /\ ReadingBecome(Load([n EXCEPT !.t.q[n.t.idx] = "remote"], i, n.t.idx))
  ELSE ReadingBecome(FailPlayback(n))

-----------------------------------------------------------------------------
(* The round of output. *)

StartRound ==                                   \* maybeStartTtsRound, at Enter
  /\ t.enabled /\ t.codex
  /\ ReadingBecome(Show(StopPlayback([ReadingNow EXCEPT !.t.round = "quiet"]), "idle"))

OutputAppended ==
  /\ t.enabled /\ t.round # "none"
  /\ ReadingBecome([ReadingNow EXCEPT !.t.round = "changed",
                                      !.t.state = IF @ = "preparing" THEN "idle" ELSE @])

StableTimer ==
  /\ t.round = "changed"
  /\ ReadingBecome([ReadingNow EXCEPT !.t.round = IF t.enabled THEN "confirm" ELSE "quiet"])

(* requestTtsPlayback, up to its first wait. *)
RequestPlayback(n) ==
  \E j \in Playbacks :
    /\ readingCall[j] = 0 /\ \A k \in Segs : <<j, k>> \notin asked
    /\ LET m == Show(StopPlayback([n EXCEPT !.t.round = "none"]), "preparing")
       IN PlaySegment([m EXCEPT !.t.job = j, !.t.phase = "idle"], 1)

ConfirmTimer ==
  /\ t.round = "confirm"
  /\ \/ RequestPlayback(ReadingNow)
     \/ ReadingBecome(Show([ReadingNow EXCEPT !.t.round = "quiet"], "idle"))      \* nothing to speak

-----------------------------------------------------------------------------
(* Synthesis (synthesizeTerminalSpeech): the address of a local copy, or the    *)
(* remote one when the download failed; else an error.                          *)
Waits(j, k) == readingCall[j] = k

CatchFirst(n) ==
  IF n.t.enabled /\ n.t.round = "none" THEN Show(ClearQueue(n), "error") ELSE n

Synthesised(j, k) ==
  LET n == [ReadingNow EXCEPT !.asked = @ \ {<<j, k>>}]
  IN /\ <<j, k>> \in asked
     /\ \E where \in {"local", "remote"} :
          LET m == IF t.job = j THEN [n EXCEPT !.t.q[k] = where] ELSE n
              r == [m EXCEPT !.call[j] = 0]
          IN IF ~Waits(j, k) THEN ReadingBecome(m)
             ELSE IF t.job = j THEN PlaySegment(r, k) ELSE ReadingBecome(r)

SegmentFails(j, k) ==
  LET n == [ReadingNow EXCEPT !.asked = @ \ {<<j, k>>}]
      m == [n EXCEPT !.call[j] = 0]
  IN /\ <<j, k>> \in asked /\ (Slow \/ t.job = j)
     /\ ReadingBecome(IF ~Waits(j, k) THEN n
                      ELSE IF k = 1 THEN CatchFirst(m)
                      ELSE IF t.job = j THEN Show(ClearQueue(m), "error") ELSE m)

-----------------------------------------------------------------------------
(* Events of an audio instance and the load timer. *)

Plays(i) ==                                     \* canplay or the kick, then play
  LET n == [ReadingNow EXCEPT !.aud[i] = "playing", !.t.load = FALSE, !.t.phase = "playing",
                              !.t.pending = FALSE, !.t.state = "playing"]
  IN /\ aud[i] = "loading" /\ t.inst = i
     /\ t.enabled /\ t.job # NoJob /\ t.phase = "loading" /\ t.pending
     /\ ReadingBecome(IF t.idx < LastSeg /\ t.q[t.idx + 1] = "new" THEN Ask(n, t.job, t.idx + 1) ELSE n)

Ended(i) ==
  LET n == [ReadingNow EXCEPT !.aud[i] = IF t.inst = i THEN "idle" ELSE "free"]
      m == [n EXCEPT !.t.load = FALSE, !.t.pending = FALSE, !.t.phase = "advancing"]
  IN /\ aud[i] = "playing"
     /\ IF ~t.enabled \/ t.inst # i \/ t.phase # "playing" THEN ReadingBecome(n)
        ELSE IF t.job = NoJob THEN ReadingBecome(Show(m, "idle"))
        ELSE Continue(Show(m, "preparing"))

Stopped(i) ==
  LET n == [ReadingNow EXCEPT !.aud[i] = IF t.inst = i THEN "idle" ELSE "free"]
      m == [n EXCEPT !.t.load = FALSE, !.t.pending = FALSE, !.t.phase = "idle"]
      stale == ~t.enabled \/ t.inst # i \/ (t.phase = "loading" /\ t.pending)
  IN /\ aud[i] = "stopping"
     /\ ReadingBecome(IF stale THEN n ELSE IF t.state = "error" THEN m ELSE Show(m, "idle"))

ReadingBreaks(i) ==
  LET n == [ReadingNow EXCEPT !.aud[i] = IF t.inst = i THEN "idle" ELSE "free"]
  IN /\ aud[i] \in {"loading", "playing"}
     /\ IF ~t.enabled \/ t.inst # i \/ t.job = NoJob \/ t.phase \in {"idle", "stopping"}
        THEN ReadingBecome(n) ELSE RetryOrFail(n)

LoadTimer ==
  /\ t.load
  /\ RetryOrFail([ReadingNow EXCEPT !.t.load = FALSE])

-----------------------------------------------------------------------------
(* The page around it. *)

Toggle ==
  IF t.enabled THEN ReadingBecome([Reset(ReadingNow) EXCEPT !.t.enabled = FALSE])
  ELSE ReadingBecome(Show([ReadingNow EXCEPT !.t.enabled = TRUE], "idle"))

Codex == ReadingBecome([ReadingNow EXCEPT !.t.codex = ~@])
Disconnects == ReadingBecome(Reset(ReadingNow))
ReadingHide == ReadingBecome(Destroy(Reset(ReadingNow)))

ReadingNext ==
  \/ StartRound \/ OutputAppended \/ StableTimer \/ ConfirmTimer \/ LoadTimer
  \/ \E j \in Playbacks, k \in Segs : Synthesised(j, k) \/ SegmentFails(j, k)
  \/ \E i \in Insts : Plays(i) \/ Ended(i) \/ Stopped(i) \/ ReadingBreaks(i)
  \/ Toggle \/ Codex \/ Disconnects \/ ReadingHide

(* Timers fire, a synthesis is answered or times out, what plays ends, and a    *)
(* stop is reported.  That an instance ever plays is not assumed.               *)
ReadingFairness ==
  /\ WF_readingVars(StableTimer) /\ WF_readingVars(ConfirmTimer) /\ WF_readingVars(LoadTimer)
  /\ \A j \in Playbacks, k \in Segs : WF_readingVars(Synthesised(j, k) \/ SegmentFails(j, k))
  /\ \A i \in Insts : WF_readingVars(Ended(i)) /\ WF_readingVars(Stopped(i))

ReadingSpec == ReadingInit /\ [][ReadingNext]_readingVars /\ ReadingFairness

-----------------------------------------------------------------------------
(* What is heard belongs to the job of the page: once a round is superseded,    *)
(* switched off, disconnected or hidden, its voice stops with its queue.        *)
SoundHasJob ==
  \A i \in Insts : aud[i] = "playing" => t.inst = i /\ t.job # NoJob /\ t.phase = "playing"

(* The page says "preparing" or "playing" only while a job will change that.    *)
BusyHasJob == t.state \in {"preparing", "playing"} => t.job # NoJob

(* A loading segment is under the guard of its timer and of nothing else.       *)
LoadIsGuarded == t.load <=> t.phase = "loading"

(* What is heard is meant to be: the page plays the sound of its own job only,  *)
(* and shows that it does.                                                      *)
HeardIsMeant == SoundHasJob /\ BusyHasJob /\ LoadIsGuarded

(* Every job ends: played, failed, or replaced.                                 *)
PlaybackEnds == \A j \in Playbacks : []<>(t.job # j)
=============================================================================
