------------------------------- MODULE AsrProxy -------------------------------
(***************************************************************************)
(* One voice connection of the gateway (server.ts, /ws/asr): the client's  *)
(* socket, the socket to the recognition service, and the proxy's flags    *)
(* between them.  The service may refuse the connection, fail, be silent,  *)
(* or put several results into one message; the client may start again,    *)
(* stop twice, cancel, break off or go away at any moment.                 *)
(***************************************************************************)
EXTENDS Naturals, Sequences, SequencesExt

CONSTANTS MaxFrames,  \* bound: frames of the client
          MaxAnswers  \* bound: messages of the service

ASSUME ProxyLimits == MaxFrames \in Nat /\ MaxAnswers \in Nat

VARIABLES
  client,     \* the client's socket: open, closing (close was called or the
              \* socket failed), closed
  up,         \* the service's socket: connecting, refused (an HTTP answer that
              \* is no upgrade), open, closing, closed
  linked,     \* the variable `upstream' is not null
  startSent, stopSent, readySent,
  notified,   \* handshakeFailureNotified
  reading,    \* the body of a refusal is being read
  grace,      \* pendingFinalizeTimer runs
  sent,       \* frames sent to the service
  service,    \* the service: serving, silent (no final result ever), done
  frames, answers

proxyVars == <<client, up, linked, startSent, stopSent, readySent, notified, reading,
          grace, sent, service, frames, answers>>
flags == <<startSent, readySent, notified, reading>>

ProxyInit ==
  /\ client = "open" /\ up = "connecting" /\ linked = TRUE
  /\ startSent = FALSE /\ stopSent = FALSE /\ readySent = FALSE
  /\ notified = FALSE /\ reading = FALSE /\ grace = FALSE
  /\ service \in {"serving", "silent"}
  /\ sent = <<>> /\ frames = 0 /\ answers = 0

\* closeUpstream: a close in CONNECTING aborts the handshake.
CloseUpstream ==
  /\ grace' = FALSE
  /\ linked' = FALSE
  /\ up' = IF linked /\ up \in {"connecting", "refused", "open"}
           THEN "closing" ELSE up

SendUp(frame) == sent' = Append(sent, frame)

FinalStopAgain ==
  IF ~linked \/ up # "open" \/ ~startSent
  THEN CloseUpstream /\ UNCHANGED <<stopSent, sent>>
  ELSE /\ SendUp("last") /\ stopSent' = TRUE /\ grace' = TRUE
       /\ UNCHANGED <<linked, up>>
FinalStopUntimed ==
  IF ~linked \/ up # "open" \/ ~startSent \/ stopSent
  THEN CloseUpstream /\ UNCHANGED <<stopSent, sent>>
  ELSE /\ SendUp("last") /\ stopSent' = TRUE
       /\ UNCHANGED <<grace, linked, up>>
\* sendFinalStopBeforeClose: a round that is under way is ended for the service,
\* which then has the grace time to finish.  The send may fail.
FinalStop ==
  \/ /\ ~linked \/ up # "open" \/ ~startSent \/ stopSent
     /\ CloseUpstream /\ UNCHANGED <<stopSent, sent>>
  \/ /\ linked /\ up = "open" /\ startSent /\ ~stopSent
     /\ \/ /\ SendUp("last") /\ stopSent' = TRUE /\ grace' = TRUE
           /\ UNCHANGED <<linked, up>>
        \/ CloseUpstream /\ UNCHANGED <<stopSent, sent>>

\* --- the client --------------------------------------------------------------
\* A frame is handled while the socket is open or closing; without an open
\* service it is answered with an error.
Frame ==
  /\ client \in {"open", "closing"} /\ frames < MaxFrames
  /\ frames' = frames + 1
Served == linked /\ up = "open"
Ignored == UNCHANGED <<client, up, linked, startSent, stopSent, grace, sent>>

Start ==
  /\ Frame
  /\ IF Served /\ ~startSent
     THEN /\ SendUp("start") /\ startSent' = TRUE /\ stopSent' = FALSE
          /\ UNCHANGED <<client, up, linked, grace>>
     ELSE Ignored
  /\ UNCHANGED <<readySent, notified, reading, answers, service>>

Audio ==
  /\ Frame
  /\ IF Served /\ startSent /\ ~stopSent
     THEN SendUp("audio") /\ UNCHANGED <<client, up, linked, stopSent, grace>>
     ELSE UNCHANGED <<client, up, linked, stopSent, grace, sent>>
  /\ UNCHANGED <<flags, answers, service>>

Stop ==
  /\ Frame
  /\ IF Served /\ startSent /\ ~stopSent
     THEN /\ SendUp("last") /\ stopSent' = TRUE
          /\ UNCHANGED <<client, up, linked, grace>>
     ELSE UNCHANGED <<client, up, linked, stopSent, grace, sent>>
  /\ UNCHANGED <<flags, answers, service>>

Cancel ==
  /\ Frame
  /\ IF Served THEN CloseUpstream /\ client' = "closing"
               ELSE UNCHANGED <<client, up, linked, grace>>
  /\ UNCHANGED <<flags, stopSent, sent, answers, service>>

\* The error event of the client's socket; its close event follows.
ClientFails ==
  /\ client = "open"
  /\ client' = "closing"
  /\ FinalStop
  /\ UNCHANGED <<flags, frames, answers, service>>

ClientCloses ==
  /\ client \in {"open", "closing"}
  /\ client' = "closed"
  /\ FinalStop
  /\ UNCHANGED <<flags, frames, answers, service>>

GraceEnds ==
  /\ grace
  /\ CloseUpstream
  /\ UNCHANGED <<client, flags, stopSent, sent, frames, answers, service>>

\* --- the service ---------------------------------------------------------------
\* upgrade and open: `ready' is sent once.
UpOpens ==
  /\ up = "connecting"
  /\ up' = "open" /\ readySent' = TRUE
  /\ UNCHANGED <<client, linked, startSent, stopSent, notified, reading, grace,
                 sent, frames, answers, service>>

\* unexpected-response: with a listener, the library leaves the socket as it is.
UpRefuses ==
  /\ up = "connecting"
  /\ up' = "refused" /\ notified' = TRUE /\ reading' = TRUE
  /\ UNCHANGED <<client, linked, startSent, stopSent, readySent, grace, sent,
                 frames, answers, service>>

\* The body is read; the client is told of the refusal, if it is still there.
BodyRead ==
  /\ reading
  /\ reading' = FALSE
  /\ UNCHANGED <<client, up, linked, startSent, stopSent, readySent, notified,
                 grace, sent, frames, answers, service>>

\* forwardAsrPayload for each result of a message; the last of a round closes
\* the service's socket.
Forward(results) ==
  IF "final" \in ToSet(results) THEN CloseUpstream
                                ELSE UNCHANGED <<up, linked, grace>>

UpAnswers(results) ==
  /\ up \in {"open", "closing"} /\ "start" \in ToSet(sent)
  /\ IF "final" \in ToSet(results)
     THEN service = "serving" /\ service' = "done" /\ UNCHANGED answers
     ELSE answers < MaxAnswers /\ answers' = answers + 1 /\ UNCHANGED service
  /\ Forward(results)
  /\ UNCHANGED <<client, flags, stopSent, sent, frames>>

\* The close event, after an error event or a close frame: the client is closed.
UpCloses ==
  /\ up \in {"connecting", "open", "closing"}
  /\ up' = "closed" /\ linked' = FALSE
  /\ client' = IF client = "open" THEN "closing" ELSE client
  /\ UNCHANGED <<flags, stopSent, grace, sent, frames, answers, service>>

Results == {<<"partial">>, <<"final">>, <<"final", "partial">>}

ProxyNext ==
  \/ Start \/ Audio \/ Stop \/ Cancel \/ ClientFails \/ ClientCloses \/ GraceEnds
  \/ UpOpens \/ UpRefuses \/ BodyRead \/ UpCloses
  \/ \E results \in Results : UpAnswers(results)

\* A socket that is closing is closed in the end (the library destroys it after
\* 30 s); timers fire; a service that is not
\* silent answers the last packet of a round.
ProxyFairness ==
  /\ WF_proxyVars(client = "closing" /\ ClientCloses)
  /\ WF_proxyVars(up = "closing" /\ UpCloses)
  /\ WF_proxyVars(GraceEnds)
  /\ WF_proxyVars(stopSent /\ UpAnswers(<<"final">>))

ProxySpec == ProxyInit /\ [][ProxyNext]_proxyVars
-----------------------------------------------------------------------------
\* Whatever the client sends, and whoever ends the round, the service sees one
\* round: a start, audio, and one last packet after which nothing comes.
ServiceSeesOneRound ==
  \A i \in 1 .. Len(sent) :
    /\ sent[i] = "start" <=> i = 1
    /\ sent[i] = "last" => i = Len(sent)

\* A client that is gone leaves no socket to the service behind.
NoOrphanUpstream == []<>(client = "closed" => up = "closed")

\* The end of the service's socket ends the client's: a second round never waits
\* on a connection that can serve none.
ServiceEndsClient == []<>(up = "closed" => client = "closed")

\* A round that was stopped ends the connection, though startSent is never reset
\* and a start after the stop is dropped.
StoppedRoundEnds == []<>(stopSent /\ service # "silent" => client = "closed")
=============================================================================
