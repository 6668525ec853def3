----------------------------- MODULE WebSession -----------------------------
(***************************************************************************)
(* The session store of the web client (apps/web/src/stores/sessionStore)  *)
(* over the gateway transport (services/transport/gatewayTransport.ts).    *)
(*                                                                         *)
(* connect() is asynchronous: it tears the previous transport down, waits  *)
(* for the log and the credentials, creates a transport and dials.  Calls  *)
(* of connect() are numbered 1 .. MaxConnects; each creates at most one    *)
(* transport, known by the same number.  While one waits, the user, the    *)
(* reconnect timer and events of any transport still listened to go on.    *)
(***************************************************************************)
EXTENDS Integers, FiniteSets, Sequences, TLAPS

CONSTANTS
    Servers,
    MaxConnects,     \* bound: calls of connect()
    ReconnectLimit   \* settings.reconnectLimit

ASSUME Limits == MaxConnects \in Nat \ {0} /\ ReconnectLimit \in Nat /\ 0 \notin Servers

VARIABLES
    state,          \* SessionState
    server,         \* currentServerId, 0 for none
    cur,            \* transport and offTransport: the current one, 0 for none
    listening,      \* transports the store still listens to
    attempts,       \* reconnectAttempts
    suppressed,     \* autoReconnectSuppressed
    timers,         \* servers of the reconnect timers that are running
    handle,         \* reconnectTimer holds the last of them
    resumable,      \* resumableServerId, 0 for none
    calls,          \* number of connect() calls
    pc,             \* per call: where it is
    srv,            \* per call: its server
    sock,           \* per transport: its WebSocket
    beating,        \* transports whose heartbeat interval runs
    marked,         \* per call: markedConnected
    ending,         \* disconnect handlers awaiting logStore.markStatus
    intent,         \* history: the server the user asked for last, 0 if ended
    crossed,        \* history: a call was made while a connect() was waiting
    rejected        \* history: a host key was rejected

vars == <<state, server, cur, listening, attempts, suppressed, timers, handle, resumable,
          calls, pc, srv, sock, beating, marked, ending, intent, crossed, rejected>>
perCall == <<calls, pc, srv>>
history == <<intent, crossed, rejected>>
retry == <<attempts, suppressed, timers, handle>>

Calls == 1 .. MaxConnects
Waiting == {"connecting", "auth_pending", "reconnecting"}
IgnoredReasons == {"host_key_rejected", "ws_peer_normal_close"}
Reasons == {"ws_peer_normal_close", "shell_closed", "ws_closed"}

Init ==
    /\ state = "idle" /\ server = 0 /\ cur = 0 /\ listening = {}
    /\ attempts = 0 /\ suppressed = FALSE /\ timers = <<>> /\ handle = FALSE /\ resumable = 0
    /\ calls = 0 /\ pc = [c \in Calls |-> "none"] /\ srv = [c \in Calls |-> 0]
    /\ sock = [c \in Calls |-> "none"] /\ beating = {} /\ marked = {} /\ ending = {}
    /\ intent = 0 /\ crossed = FALSE /\ rejected = FALSE

Pending == {c \in Calls : pc[c] \in {"credentials", "dialing"}}

-----------------------------------------------------------------------------
\* Mutant of DropTransport: the listener goes, the socket stays.
DropListenerOnly ==
    /\ UNCHANGED <<sock, beating>>
    /\ listening' = listening \ {cur} /\ cur' = 0

\* The teardown in disconnect(): transport.disconnect stops the heartbeat and
\* closes the socket if it is OPEN, so a dial under way goes on.
DropTransport ==
    /\ sock' = [c \in Calls |-> IF c = cur /\ sock[c] = "open" THEN "closed" ELSE sock[c]]
    /\ beating' = beating \ {cur}
    /\ listening' = listening \ {cur} /\ cur' = 0

\* Only the newest timer can be cancelled; an earlier one runs on.
TimersLeft == IF handle THEN SubSeq(timers, 1, Len(timers) - 1) ELSE timers

\* The synchronous part of connect(): disconnect("switch", false), then the
\* state of the new attempt.  Only an explicit call resets the retry budget
\* and lifts the suppression that disconnect() has just set.
Connect(s, auto) ==
    /\ calls < MaxConnects /\ calls' = calls + 1
    /\ DropTransport /\ handle' = FALSE /\ resumable' = 0
    /\ state' = "connecting" /\ server' = s
    /\ suppressed' = auto
    /\ attempts' = IF auto THEN attempts ELSE 0
    /\ pc' = [pc EXCEPT ![calls + 1] = "credentials"]
    /\ srv' = [srv EXCEPT ![calls + 1] = s]
    /\ crossed' = (crossed \/ Pending # {} \/ ending # {})
    /\ UNCHANGED <<marked, ending, rejected>>

\* The user connects: the terminal page offers it when no connection is under
\* way, the connect page unless this server is connected already.
UserConnect(s) ==
    /\ state \notin Waiting /\ ~(state = "connected" /\ server = s)
    /\ Connect(s, FALSE)
    /\ timers' = TimersLeft /\ intent' = s

\* A reconnect timer fires: connect(server, true).  The newest is the last.
TimerFires(i) ==
    /\ i \in 1 .. Len(timers)
    /\ Connect(timers[i], TRUE)
    /\ timers' = LET rest == SubSeq(timers, 1, i - 1) \o SubSeq(timers, i + 1, Len(timers))
                 IN IF handle /\ i # Len(timers) THEN SubSeq(rest, 1, Len(rest) - 1) ELSE rest
    /\ UNCHANGED intent

\* The user disconnects ("manual"), at any time.
UserDisconnect ==
    /\ state \in Waiting \cup {"connected"}
    /\ DropTransport /\ handle' = FALSE /\ timers' = TimersLeft /\ resumable' = 0
    /\ suppressed' = TRUE /\ state' = "disconnected" /\ server' = 0
    /\ intent' = 0 /\ crossed' = (crossed \/ Pending # {})
    /\ UNCHANGED <<attempts, perCall, marked, ending, rejected>>

\* Leaving the terminal page: no more retries; an attempt under way goes on.
CancelReconnect ==
    /\ suppressed' = TRUE /\ handle' = FALSE /\ timers' = TimersLeft
    /\ state' = IF state \in Waiting THEN "disconnected" ELSE state
    /\ intent' = IF state \in Waiting THEN 0 ELSE intent
    /\ crossed' = (crossed \/ Pending # {})
    /\ UNCHANGED <<server, cur, listening, attempts, resumable, perCall, sock, beating, marked, ending, rejected>>

\* The log is started and the credentials are read, or cannot be: the store
\* takes the new transport for its own, listens, and dials.
Resolve(c) ==
    /\ pc[c] = "credentials"
    /\ pc' = [pc EXCEPT ![c] = "dialing"]
    /\ cur' = c /\ listening' = listening \cup {c}
    /\ sock' = [sock EXCEPT ![c] = "dialing"]
    /\ state' = "auth_pending"
    /\ UNCHANGED <<server, retry, resumable, calls, srv, beating, marked, ending, history>>
CredentialsFail(c) ==
    /\ pc[c] = "credentials"
    /\ pc' = [pc EXCEPT ![c] = "done"] /\ state' = "error"
    /\ UNCHANGED <<server, cur, listening, retry, resumable, calls, srv, sock, beating, marked, ending, history>>

\* A candidate endpoint opens: init is sent and the heartbeat starts, whether
\* or not disconnect() was called in between; or the last candidate fails.
Opened(c) ==
    /\ pc[c] = "dialing"
    /\ pc' = [pc EXCEPT ![c] = "done"]
    /\ sock' = [sock EXCEPT ![c] = "open"] /\ beating' = beating \cup {c}
    /\ UNCHANGED <<state, server, cur, listening, retry, resumable, calls, srv, marked, ending, history>>
DialFails(c) ==
    /\ pc[c] = "dialing"
    /\ pc' = [pc EXCEPT ![c] = "done"]
    /\ sock' = [sock EXCEPT ![c] = "closed"] /\ state' = "error"
    /\ UNCHANGED <<server, cur, listening, retry, resumable, calls, srv, beating, marked, ending, history>>

-----------------------------------------------------------------------------
\* Events of a transport, while its socket is open.  The store's handler runs
\* for the transports it listens to.
Heard(c) == sock[c] = "open" /\ c \in listening

\* markConnectedState, once per call: output, or connected without fingerprint.
Ready(c) ==
    /\ Heard(c) /\ c \notin marked
    /\ marked' = marked \cup {c}
    /\ state' = "connected" /\ attempts' = 0 /\ resumable' = 0
    /\ UNCHANGED <<server, cur, listening, suppressed, timers, handle, perCall, sock, beating, ending, history>>

\* connected with a fingerprint the policy or the user does not accept:
\* disconnect("host_key_rejected", false), of the transport that is current.
KeyRejected(c) ==
    /\ Heard(c) /\ c \notin marked
    /\ DropTransport /\ handle' = FALSE /\ timers' = TimersLeft
    /\ suppressed' = TRUE /\ resumable' = 0
    /\ intent' = 0 /\ rejected' = TRUE
    /\ UNCHANGED <<state, server, attempts, perCall, marked, ending, crossed>>

\* An error frame or a WebSocket error.
Failed(c) ==
    /\ Heard(c) /\ state # "error"
    /\ state' = "error" /\ resumable' = 0
    /\ \/ UNCHANGED beating                 \* error frame
       \/ beating' = beating \ {c}          \* onerror
    /\ UNCHANGED <<server, cur, listening, retry, perCall, sock, marked, ending, history>>

\* Mutant of Lost: the state is set after the await.
LostSilently(c, reason) ==
    /\ UNCHANGED state
    /\ resumable' = IF reason = "ws_closed" THEN server ELSE 0
    /\ ending' = ending \cup {[srv |-> srv[c], reason |-> reason]}

\* The first half of the disconnect handler, up to its await.
Lost(c, reason) ==
    /\ state' = "disconnected"
    /\ resumable' = IF reason = "ws_closed" THEN server ELSE 0
    /\ ending' = ending \cup {[srv |-> srv[c], reason |-> reason]}

\* A disconnect frame: the SSH session ended.  The socket stays open.
SshEnded(c, reason) ==
    /\ sock[c] = "open" /\ c \in beating
    /\ beating' = beating \ {c}
    /\ IF c \in listening THEN Lost(c, reason) ELSE UNCHANGED <<state, resumable, ending>>
    /\ UNCHANGED <<server, cur, listening, retry, perCall, sock, marked, history>>

\* The socket closes.
SocketClosed(c) ==
    /\ sock[c] = "open"
    /\ sock' = [sock EXCEPT ![c] = "closed"] /\ beating' = beating \ {c}
    /\ IF c \in listening THEN Lost(c, "ws_closed") ELSE UNCHANGED <<state, resumable, ending>>
    /\ UNCHANGED <<server, cur, listening, retry, perCall, marked, history>>

\* Mutant of MayRetry: only an end the user asked for stops it.
RetryUnlessIgnored(e) == e.reason \notin IgnoredReasons /\ attempts < ReconnectLimit

MayRetry(e) == ~suppressed /\ e.reason \notin IgnoredReasons /\ attempts < ReconnectLimit

\* The second half, with the values of then: scheduleReconnect overwrites the
\* handle of a timer that is already running.
EndHandled(e) ==
    /\ e \in ending /\ ending' = ending \ {e}
    /\ \/ ~MayRetry(e) /\ UNCHANGED <<state, attempts, timers, handle>>
       \/ /\ MayRetry(e)
          /\ attempts' = attempts + 1 /\ state' = "reconnecting"
          /\ timers' = Append(timers, e.srv) /\ handle' = TRUE
    /\ UNCHANGED <<server, cur, listening, suppressed, resumable, perCall, sock, beating, marked, history>>

\* The resume window closes (RESUME_HIGHLIGHT_WINDOW_MS).
WindowEnds ==
    /\ resumable # 0 /\ resumable' = 0
    /\ UNCHANGED <<state, server, cur, listening, retry, perCall, sock, beating, marked, ending, history>>

Next ==
    \/ \E s \in Servers : UserConnect(s)
    \/ UserDisconnect \/ CancelReconnect \/ WindowEnds
    \/ \E i \in 1 .. 2 : TimerFires(i)
    \/ \E c \in Calls :
          \/ Resolve(c) \/ CredentialsFail(c) \/ Opened(c) \/ DialFails(c)
          \/ Ready(c) \/ KeyRejected(c) \/ Failed(c) \/ SocketClosed(c)
          \/ \E reason \in Reasons \ {"ws_closed"} : SshEnded(c, reason)
    \/ \E e \in ending : EndHandled(e)

Spec == Init /\ [][Next]_vars

(* Timers fire and awaited calls return. *)
Fairness ==
    /\ WF_vars(\E i \in 1 .. 2 : TimerFires(i))
    /\ WF_vars(\E e \in ending : EndHandled(e))

-----------------------------------------------------------------------------
\* The retry budget holds over all orders of losses, timers and calls.
AttemptsBounded == attempts <= ReconnectLimit

\* Once the user, a switch or a rejected key has ended a connection, no event
\* of any transport schedules a retry, until the user connects again.
LocalEndStopsRetries == [][attempts' > attempts => intent # 0]_vars

\* Unless a call crossed one that was waiting, there is one connection: the
\* current transport is the only one with a socket or a listener, and it
\* belongs to the current server.
OneConnection ==
    ~crossed => \A c \in Calls :
        (sock[c] \in {"dialing", "open"} \/ c \in listening) => c = cur /\ srv[c] = server

\* A heartbeat never outlives the socket it pings.
HeartbeatHasSocket == \A c \in beating : sock[c] = "open"

\* The connection as a whole: a bounded number of retries, no heartbeat
\* without a socket, and one connection.
ConnectionIsBounded == AttemptsBounded /\ HeartbeatHasSocket /\ OneConnection

\* The resume window is only offered for a connection that was lost without
\* word from the SSH side, and not while another is being made.
WindowAfterLoss ==
    ~crossed /\ resumable # 0 =>
        state \in {"disconnected", "reconnecting"} /\ cur # 0 /\ sock[cur] = "closed"

\* While the store says it is connecting or connected, there is something that
\* can still bring news: a call that waits or a transport that is listened to.
\* A rejected host key is the exception: the store keeps the state it had.
StateIsBacked ==
    ~crossed /\ ~rejected /\ state \in {"connecting", "auth_pending", "connected"} =>
        Pending # {} \/ (cur \in listening /\ sock[cur] = "open")

\* What the store shows of its connection is so: the state has a call or a
\* transport behind it, and the window to resume a loss.
StoreKnowsConnection == WindowAfterLoss /\ StateIsBacked

\* "Reconnecting" does not last: a timer runs and brings the next attempt.
ReconnectingEnds == []<>(state = "reconnecting" => calls = MaxConnects \/ rejected)
-----------------------------------------------------------------------------
(* Proofs, for any servers, any number of calls of connect() and any retry *)
(* limit.                                                                  *)

\* The types the proofs rely on.
Types ==
  /\ calls \in 0..MaxConnects /\ attempts \in Nat
  /\ pc \in [Calls -> {"none", "credentials", "dialing", "done"}]
  /\ sock \in [Calls -> {"none", "dialing", "open", "closed"}]
  /\ srv = [c \in Calls |-> srv[c]]
  /\ beating \subseteq Calls

\* Where a call is, and what its socket is.
Phases ==
  /\ \A c \in Calls : c > calls => pc[c] = "none"
  /\ \A c \in Calls : pc[c] \in {"none", "credentials"} => sock[c] = "none" /\ c \notin listening
  /\ \A c \in Calls : pc[c] = "dialing" <=> sock[c] = "dialing"

\* Once there was a call, retries are suppressed unless the user wants a
\* connection; before that there is nothing to retry.
IntentInv ==
  /\ calls # 0 => suppressed \/ intent # 0
  /\ calls = 0 => ending = {}

Live(c) == sock[c] \in {"dialing", "open"} \/ c \in listening

\* Without crossing calls one call is pending at a time, and while it waits
\* for the credentials no transport is left.
SingleInv ==
  ~crossed =>
    /\ \A c, d \in Pending : c = d
    /\ \A c \in Calls : Live(c) => c = cur /\ srv[c] = server
    /\ \A c \in Calls : pc[c] = "credentials" => srv[c] = server /\ \A d \in Calls : ~Live(d)

IInv == Types /\ Phases /\ AttemptsBounded /\ HeartbeatHasSocket /\ IntentInv /\ SingleInv
-----------------------------------------------------------------------------
LEMMA InitIInv == Init => IInv
<1> SUFFICES ASSUME Init PROVE IInv
  OBVIOUS
<1>1. Types /\ Phases /\ AttemptsBounded /\ HeartbeatHasSocket
  BY Limits DEF Init, Types, Phases, AttemptsBounded, HeartbeatHasSocket, Calls
<1>2. IntentInv
  BY DEF Init, IntentInv
<1>3. SingleInv
  BY DEF Init, SingleInv, Live, Pending
<1> QED  BY <1>1, <1>2, <1>3 DEF IInv

\* The teardown closes an open socket, leaves a dial alone, and stops the
\* heartbeat with the socket.
LEMMA Dropped ==
  ASSUME IInv, DropTransport
  PROVE  /\ sock' \in [Calls -> {"none", "dialing", "open", "closed"}]
         /\ \A c \in Calls : sock'[c] = IF c = cur /\ sock[c] = "open" THEN "closed" ELSE sock[c]
         /\ beating' \subseteq Calls /\ HeartbeatHasSocket'
         /\ cur' = 0 /\ \A c \in Calls : c \in listening' <=> c \in listening /\ c # cur
<1>1. sock' \in [Calls -> {"none", "dialing", "open", "closed"}]
  BY DEF DropTransport, IInv, Types
<1>2. \A c \in Calls : sock'[c] = IF c = cur /\ sock[c] = "open" THEN "closed" ELSE sock[c]
  BY DEF DropTransport
<1>3. beating' = beating \ {cur} /\ cur' = 0 /\ listening' = listening \ {cur}
  BY DEF DropTransport
<1>4. HeartbeatHasSocket'
  BY <1>2, <1>3 DEF IInv, Types, HeartbeatHasSocket
<1> QED  BY <1>1, <1>2, <1>3, <1>4 DEF IInv, Types

\* connect() itself: the call that is added waits for the credentials.
LEMMA Connects ==
  ASSUME IInv, NEW s, NEW auto \in BOOLEAN, Connect(s, auto), auto = FALSE => intent' # 0,
         auto = TRUE => intent' = intent
  PROVE  IInv'
<1> DEFINE n == calls + 1
<1>1. n \in Calls /\ calls' = n /\ calls' \in 0..MaxConnects /\ n # 0
  BY Limits DEF Connect, IInv, Types, Calls
<1>2. /\ pc' \in [Calls -> {"none", "credentials", "dialing", "done"}]
      /\ \A c \in Calls : pc'[c] = IF c = n THEN "credentials" ELSE pc[c]
  BY <1>1 DEF Connect, IInv, Types
<1>3. /\ srv' = [c \in Calls |-> srv'[c]]
      /\ \A c \in Calls : srv'[c] = IF c = n THEN s ELSE srv[c]
  BY <1>1 DEF Connect, IInv, Types
<1>4. /\ sock' \in [Calls -> {"none", "dialing", "open", "closed"}]
      /\ \A c \in Calls : sock'[c] = IF c = cur /\ sock[c] = "open" THEN "closed" ELSE sock[c]
      /\ beating' \subseteq Calls /\ HeartbeatHasSocket'
      /\ \A c \in Calls : c \in listening' <=> c \in listening /\ c # cur
  BY Dropped DEF Connect
<1>5. attempts' \in Nat /\ AttemptsBounded'
  BY Limits DEF Connect, IInv, Types, AttemptsBounded
<1>6. Types'
  BY <1>1, <1>2, <1>3, <1>4, <1>5 DEF Types
<1>7. pc[n] = "none" /\ sock[n] = "none" /\ n \notin listening
  BY <1>1 DEF IInv, Phases, Types
<1> HIDE DEF n
<1>8. Phases'
  <2>1. \A c \in Calls : c > n => pc'[c] = "none"
    BY <1>1, <1>2 DEF IInv, Phases, Types, Calls, n
  <2>2. \A c \in Calls : pc'[c] \in {"none", "credentials"} => sock'[c] = "none" /\ c \notin listening'
    BY <1>2, <1>4, <1>7 DEF IInv, Phases
  <2>3. \A c \in Calls : pc'[c] = "dialing" <=> sock'[c] = "dialing"
    BY <1>2, <1>4, <1>7 DEF IInv, Phases
  <2> QED  BY <1>1, <2>1, <2>2, <2>3 DEF Phases
<1>9. IntentInv'
  <2>1. auto = TRUE => calls # 0 \/ suppressed'
    BY DEF Connect
  <2>2. auto = TRUE \/ auto = FALSE
    OBVIOUS
  <2> QED  BY <1>1, <2>1, <2>2 DEF Connect, IntentInv
<1>10. SingleInv'
  <2> SUFFICES ASSUME ~crossed'
               PROVE  /\ \A c, d \in Pending' : c = d
                      /\ \A c \in Calls : ~Live(c)'
                      /\ \A c \in Calls : pc'[c] = "credentials" => srv'[c] = server'
    BY DEF SingleInv
  <2>1. ~crossed /\ Pending = {} /\ server' = s
    BY DEF Connect
  <2>2. \A c \in Calls : pc[c] \notin {"credentials", "dialing"}
    BY <2>1 DEF Pending
  <2>3. \A c \in Calls : Live(c) => c = cur
    BY <2>1 DEF IInv, SingleInv
  <2>4. \A c \in Calls : ~Live(c)'
    BY <1>4, <2>2, <2>3 DEF Live, IInv, Phases
  <2>5. Pending' = {n}
    BY <1>1, <1>2, <2>2 DEF Pending
  <2> QED  BY <1>2, <1>3, <2>1, <2>2, <2>4, <2>5
<1> QED  BY <1>4, <1>5, <1>6, <1>8, <1>9, <1>10 DEF IInv

\* A teardown between calls: the user disconnects, or a key is rejected.
LEMMA Ends ==
  ASSUME IInv, DropTransport, UNCHANGED <<pc, srv, calls, attempts>>, suppressed' = TRUE,
         UNCHANGED ending, ~crossed' => ~crossed /\ Pending = {}
  PROVE  IInv'
<1>1. /\ sock' \in [Calls -> {"none", "dialing", "open", "closed"}]
      /\ \A c \in Calls : sock'[c] = IF c = cur /\ sock[c] = "open" THEN "closed" ELSE sock[c]
      /\ beating' \subseteq Calls /\ HeartbeatHasSocket'
      /\ \A c \in Calls : c \in listening' <=> c \in listening /\ c # cur
  BY Dropped
<1>2. Types' /\ AttemptsBounded'
  BY <1>1 DEF IInv, Types, AttemptsBounded
<1>3. Phases'
  BY <1>1 DEF IInv, Phases
<1>4. IntentInv'
  BY DEF IInv, IntentInv
<1>5. SingleInv'
  <2> SUFFICES ASSUME ~crossed'
               PROVE  /\ \A c, d \in Pending' : c = d
                      /\ \A c \in Calls : ~Live(c)'
                      /\ \A c \in Calls : pc'[c] # "credentials"
    BY DEF SingleInv
  <2>1. \A c \in Calls : pc[c] \notin {"credentials", "dialing"}
    BY DEF Pending
  <2>2. \A c \in Calls : Live(c) => c = cur
    BY DEF IInv, SingleInv
  <2>3. \A c \in Calls : ~Live(c)'
    BY <1>1, <2>1, <2>2 DEF Live, IInv, Phases
  <2> QED  BY <2>1, <2>3 DEF Pending
<1> QED  BY <1>1, <1>2, <1>3, <1>4, <1>5 DEF IInv

\* Steps that touch neither calls nor sockets, and schedule no retry.
LEMMA Elsewhere ==
  ASSUME IInv, UNCHANGED <<server, cur, listening, attempts, perCall, sock, intent>>,
         beating' \subseteq beating, crossed' = crossed,
         suppressed' = suppressed, calls = 0 => ending' = {}
  PROVE  IInv'
<1> USE DEF IInv, perCall
<1>1. Types' /\ AttemptsBounded' /\ HeartbeatHasSocket'
  BY DEF Types, AttemptsBounded, HeartbeatHasSocket
<1>2. Phases' /\ IntentInv'
  BY DEF Phases, IntentInv
<1>3. SingleInv'
  BY DEF SingleInv, Live, Pending
<1> QED  BY <1>1, <1>2, <1>3
-----------------------------------------------------------------------------
LEMMA StepIInv == IInv /\ [Next]_vars => IInv'
<1> SUFFICES ASSUME IInv, [Next]_vars PROVE IInv'
  OBVIOUS
<1>1. ASSUME NEW s \in Servers, UserConnect(s) PROVE IInv'
  <2>1. intent' # 0
    BY <1>1, Limits DEF UserConnect
  <2> QED  BY <1>1, <2>1, Connects DEF UserConnect
<1>2. ASSUME NEW i \in 1..2, TimerFires(i) PROVE IInv'
  BY <1>2, Connects DEF TimerFires
<1>3. CASE UserDisconnect
  BY <1>3, Ends DEF UserDisconnect, perCall
<1>4. CASE CancelReconnect
  <2>1. UNCHANGED <<server, cur, listening, attempts, perCall, sock, beating, ending>>
        /\ suppressed' = TRUE /\ (~crossed' => ~crossed)
    BY <1>4 DEF CancelReconnect
  <2>2. Types' /\ AttemptsBounded' /\ HeartbeatHasSocket' /\ Phases'
    BY <2>1 DEF IInv, Types, AttemptsBounded, HeartbeatHasSocket, Phases, perCall
  <2>3. IntentInv'
    BY <2>1 DEF IInv, IntentInv, perCall
  <2>4. SingleInv'
    BY <2>1 DEF IInv, SingleInv, Live, Pending, perCall
  <2> QED  BY <2>2, <2>3, <2>4 DEF IInv
<1>5. CASE WindowEnds
  BY <1>5, Elsewhere DEF WindowEnds, retry, history, IInv, IntentInv
<1>6. ASSUME NEW c \in Calls, Resolve(c) PROVE IInv'
  <2>1. /\ pc' \in [Calls -> {"none", "credentials", "dialing", "done"}]
        /\ sock' \in [Calls -> {"none", "dialing", "open", "closed"}]
        /\ \A d \in Calls : /\ pc'[d] = IF d = c THEN "dialing" ELSE pc[d]
                            /\ sock'[d] = IF d = c THEN "dialing" ELSE sock[d]
                            /\ d \in listening' <=> d \in listening \/ d = c
    BY <1>6 DEF Resolve, IInv, Types
  <2>2. UNCHANGED <<calls, srv, server, attempts, suppressed, intent, crossed, ending, beating>>
        /\ cur' = c /\ pc[c] = "credentials"
    BY <1>6 DEF Resolve, retry, history
  <2>3. Types' /\ AttemptsBounded'
    BY <2>1, <2>2 DEF IInv, Types, AttemptsBounded
  <2>4. HeartbeatHasSocket'
    BY <2>1, <2>2 DEF IInv, Types, HeartbeatHasSocket, Phases
  <2>5. Phases'
    BY <2>1, <2>2 DEF IInv, Phases, Types
  <2>6. IntentInv'
    BY <2>2 DEF IInv, IntentInv
  <2>7. SingleInv'
    BY <2>1, <2>2 DEF IInv, SingleInv, Live, Pending
  <2> QED  BY <2>3, <2>4, <2>5, <2>6, <2>7 DEF IInv
<1>7. ASSUME NEW c \in Calls, CredentialsFail(c) PROVE IInv'
  <2>1. /\ pc' \in [Calls -> {"none", "credentials", "dialing", "done"}]
        /\ \A d \in Calls : pc'[d] = IF d = c THEN "done" ELSE pc[d]
    BY <1>7 DEF CredentialsFail, IInv, Types
  <2>2. UNCHANGED <<calls, srv, server, cur, listening, sock, beating, attempts, suppressed,
                    intent, crossed, ending>> /\ pc[c] = "credentials"
    BY <1>7 DEF CredentialsFail, retry, history
  <2>3. Types' /\ AttemptsBounded' /\ HeartbeatHasSocket'
    BY <2>1, <2>2 DEF IInv, Types, AttemptsBounded, HeartbeatHasSocket
  <2>4. Phases'
    BY <2>1, <2>2 DEF IInv, Phases, Types
  <2>5. IntentInv'
    BY <2>2 DEF IInv, IntentInv
  <2>6. SingleInv'
    BY <2>1, <2>2 DEF IInv, SingleInv, Live, Pending
  <2> QED  BY <2>3, <2>4, <2>5, <2>6 DEF IInv
<1>8. ASSUME NEW c \in Calls, Opened(c) \/ DialFails(c) PROVE IInv'
  <2> DEFINE to == sock'[c]
  <2>1. /\ pc' \in [Calls -> {"none", "credentials", "dialing", "done"}]
        /\ sock' \in [Calls -> {"none", "dialing", "open", "closed"}]
        /\ to \in {"open", "closed"}
        /\ \A d \in Calls : /\ pc'[d] = IF d = c THEN "done" ELSE pc[d]
                            /\ d # c => sock'[d] = sock[d]
        /\ beating' \subseteq Calls
        /\ \A d \in beating' : d \in beating \/ (d = c /\ to = "open")
    BY <1>8 DEF Opened, DialFails, IInv, Types
  <2>2. UNCHANGED <<calls, srv, server, cur, listening, attempts, suppressed,
                    intent, crossed, ending>> /\ pc[c] = "dialing"
    BY <1>8 DEF Opened, DialFails, retry, history
  <2>3. sock[c] = "dialing" /\ c \notin beating
    BY <2>2 DEF IInv, Phases, HeartbeatHasSocket
  <2>4. Types' /\ AttemptsBounded'
    BY <2>1, <2>2 DEF IInv, Types, AttemptsBounded
  <2>5. HeartbeatHasSocket'
    BY <2>1, <2>3 DEF IInv, Types, HeartbeatHasSocket
  <2>6. Phases'
    BY <2>1, <2>2 DEF IInv, Phases, Types
  <2>7. IntentInv'
    BY <2>2 DEF IInv, IntentInv
  <2>8. SingleInv'
    BY <2>1, <2>2, <2>3 DEF IInv, SingleInv, Live, Pending
  <2> QED  BY <2>4, <2>5, <2>6, <2>7, <2>8 DEF IInv
<1>9. ASSUME NEW c \in Calls, Ready(c) PROVE IInv'
  <2>1. attempts' = 0 /\ UNCHANGED <<server, cur, listening, perCall, sock, beating, suppressed,
                                     intent, crossed, ending>>
    BY <1>9 DEF Ready, history
  <2>2. Types' /\ AttemptsBounded' /\ HeartbeatHasSocket' /\ Phases'
    BY <2>1, Limits DEF IInv, Types, AttemptsBounded, HeartbeatHasSocket, Phases, perCall
  <2>3. IntentInv'
    BY <2>1 DEF IInv, IntentInv, perCall
  <2>4. SingleInv'
    BY <2>1 DEF IInv, SingleInv, Live, Pending, perCall
  <2> QED  BY <2>2, <2>3, <2>4 DEF IInv
<1>10. ASSUME NEW c \in Calls, KeyRejected(c) PROVE IInv'
  <2>1. ~crossed => Pending = {}
    <3> SUFFICES ASSUME ~crossed, NEW d \in Pending PROVE FALSE
      OBVIOUS
    <3>1. Live(c) /\ sock[c] = "open" /\ c = cur
      BY <1>10 DEF KeyRejected, Heard, Live, IInv, SingleInv
    <3>2. CASE pc[d] = "credentials"
      BY <3>1, <3>2 DEF Pending, IInv, SingleInv
    <3>3. CASE pc[d] = "dialing"
      <4>1. sock[d] = "dialing" /\ d = cur
        BY <3>3 DEF Pending, IInv, Phases, SingleInv, Live
      <4> QED  BY <3>1, <4>1
    <3> QED  BY <3>2, <3>3 DEF Pending
  <2> QED  BY <1>10, <2>1, Ends DEF KeyRejected, perCall
<1>11. ASSUME NEW c \in Calls, Failed(c) PROVE IInv'
  BY <1>11, Elsewhere DEF Failed, retry, history, IInv, IntentInv
<1>12. ASSUME NEW c \in Calls, sock[c] = "open" PROVE calls # 0
  BY <1>12 DEF IInv, Phases, Types, Calls
<1>13. ASSUME NEW c \in Calls, SocketClosed(c) PROVE IInv'
  <2>1. /\ sock' \in [Calls -> {"none", "dialing", "open", "closed"}]
        /\ \A d \in Calls : sock'[d] = IF d = c THEN "closed" ELSE sock[d]
        /\ beating' = beating \ {c} /\ sock[c] = "open"
    BY <1>13 DEF SocketClosed, IInv, Types
  <2>2. UNCHANGED <<calls, pc, srv, server, cur, listening, attempts, suppressed, intent, crossed>>
    BY <1>13 DEF SocketClosed, retry, history, perCall
  <2>3. Types' /\ AttemptsBounded' /\ HeartbeatHasSocket'
    BY <2>1, <2>2 DEF IInv, Types, AttemptsBounded, HeartbeatHasSocket
  <2>4. Phases'
    BY <2>1, <2>2 DEF IInv, Phases, Types
  <2>5. IntentInv'
    BY <1>12, <2>1, <2>2 DEF IInv, IntentInv
  <2>6. SingleInv'
    BY <2>1, <2>2 DEF IInv, SingleInv, Live, Pending
  <2> QED  BY <2>3, <2>4, <2>5, <2>6 DEF IInv
<1>14. ASSUME NEW c \in Calls, NEW reason \in Reasons, SshEnded(c, reason) PROVE IInv'
  BY <1>12, <1>14, Elsewhere DEF SshEnded, retry, history
<1>15. ASSUME NEW e \in ending, EndHandled(e) PROVE IInv'
  <2>1. UNCHANGED <<server, cur, listening, suppressed, perCall, sock, beating, intent, crossed>>
        /\ ending' \subseteq ending
        /\ (attempts' = attempts \/ (attempts < ReconnectLimit /\ attempts' = attempts + 1))
    BY <1>15 DEF EndHandled, MayRetry, history
  <2>2. Types' /\ AttemptsBounded' /\ HeartbeatHasSocket' /\ Phases'
    BY <2>1, Limits DEF IInv, Types, AttemptsBounded, HeartbeatHasSocket, Phases, perCall
  <2>3. IntentInv'
    BY <2>1 DEF IInv, IntentInv, perCall
  <2>4. SingleInv'
    BY <2>1 DEF IInv, SingleInv, Live, Pending, perCall
  <2> QED  BY <2>2, <2>3, <2>4 DEF IInv
<1>16. CASE UNCHANGED vars
  BY <1>16, Elsewhere DEF vars, perCall, IInv, IntentInv
<1> QED
  BY <1>1, <1>2, <1>3, <1>4, <1>5, <1>6, <1>7, <1>8, <1>9, <1>10, <1>11, <1>13, <1>14, <1>15,
     <1>16 DEF Next

LEMMA Invariance == Spec => []IInv
BY InitIInv, StepIInv, PTL DEF Spec
-----------------------------------------------------------------------------
\* The retry budget is kept over all orders of losses, timers and calls.
THEOREM BudgetIsKept == Spec => []AttemptsBounded
<1>1. IInv => AttemptsBounded
  BY DEF IInv
<1> QED  BY <1>1, Invariance, PTL

\* A heartbeat never outlives its socket (gatewayTransport.ts).
THEOREM HeartbeatsStop == Spec => []HeartbeatHasSocket
<1>1. IInv => HeartbeatHasSocket
  BY DEF IInv
<1> QED  BY <1>1, Invariance, PTL

\* While no call of connect() crosses one that waits, the store has one
\* transport, and it is that of the server it shows.
THEOREM ConnectionIsSingle == Spec => []OneConnection
<1>1. IInv => OneConnection
  BY DEF IInv, SingleInv, OneConnection, Live
<1> QED  BY <1>1, Invariance, PTL

\* The connection keeps its bounds over every order of calls, losses, timers
\* and handlers of an end.
THEOREM ConnectionStaysBounded == Spec => []ConnectionIsBounded
<1>1. AttemptsBounded /\ HeartbeatHasSocket /\ OneConnection => ConnectionIsBounded
  BY DEF ConnectionIsBounded
<1> QED  BY <1>1, BudgetIsKept, HeartbeatsStop, ConnectionIsSingle, PTL

\* After the user, a switch or a rejected key ended the connection, no event of
\* any transport schedules a retry: autoReconnectSuppressed.
THEOREM EndedStaysEnded == Spec => LocalEndStopsRetries
<1>1. IInv /\ [Next]_vars => [attempts' > attempts => intent # 0]_vars
  <2> SUFFICES ASSUME IInv, Next, attempts' > attempts PROVE intent # 0
    OBVIOUS
  <2>1. CASE \E e \in ending : EndHandled(e)
    <3>1. ending # {} /\ ~suppressed
      BY <2>1 DEF EndHandled, MayRetry, IInv, Types
    <3> QED  BY <3>1 DEF IInv, IntentInv
  <2>2. CASE ~\E e \in ending : EndHandled(e)
    <3>1. attempts' = attempts \/ attempts' = 0
      BY <2>2 DEF Next, UserConnect, TimerFires, Connect, UserDisconnect, CancelReconnect,
                  WindowEnds, Resolve, CredentialsFail, Opened, DialFails, Ready, KeyRejected,
                  Failed, SocketClosed, SshEnded, retry
    <3> QED  BY <3>1 DEF IInv, Types
  <2> QED  BY <2>1, <2>2
<1> QED  BY <1>1, Invariance, PTL DEF Spec, LocalEndStopsRetries
-----------------------------------------------------------------------------
\* The window to resume is open only while the current socket is closed and no
\* call is pending.
WindowInv ==
  ~crossed /\ resumable # 0 =>
    /\ state \in {"disconnected", "reconnecting"}
    /\ cur \in Calls /\ sock[cur] = "closed"
    /\ Pending = {}

\* A call that dials is listened to, and what the state says is backed.
BackedInv ==
  /\ ~crossed => \A c \in Calls : pc[c] = "dialing" => c \in listening
  /\ StateIsBacked

\* A transport with an open socket is the current one, and the only news due.
LEMMA OpenIsCurrent ==
  ASSUME IInv, ~crossed, NEW c \in Calls, sock[c] = "open"
  PROVE  c = cur /\ Pending = {}
<1>1. c = cur
  BY DEF IInv, SingleInv, Live
<1>2. SUFFICES ASSUME NEW d \in Pending PROVE FALSE
  BY <1>1
<1>3. d \in Calls /\ pc[d] # "credentials"
  BY DEF Pending, IInv, SingleInv, Live
<1>4. sock[d] = "dialing"
  BY <1>3 DEF Pending, IInv, Phases
<1> QED  BY <1>1, <1>3, <1>4 DEF IInv, SingleInv, Live

LEMMA InitConnectionInv == Init => WindowInv /\ BackedInv
BY DEF Init, WindowInv, BackedInv, StateIsBacked, Calls

\* Every step keeps both; most close the window, or leave it and the socket
\* that was lost as they are.
LEMMA StepConnectionInv == IInv /\ WindowInv /\ BackedInv /\ [Next]_vars => (WindowInv /\ BackedInv)'
<1> SUFFICES ASSUME IInv, WindowInv, BackedInv, [Next]_vars PROVE (WindowInv /\ BackedInv)'
  OBVIOUS
<1>1. ASSUME NEW s, NEW auto, Connect(s, auto) PROVE (WindowInv /\ BackedInv)'
  <2>1. resumable' = 0
    BY <1>1 DEF Connect
  <2>2. calls + 1 \in Calls /\ pc'[calls + 1] = "credentials"
    BY <1>1, Limits DEF Connect, IInv, Types, Calls
  <2>3. Pending' # {}
    BY <2>2 DEF Pending
  <2>4. ASSUME ~crossed', NEW c \in Calls PROVE pc'[c] # "dialing"
    BY <1>1, <2>2, <2>4 DEF Connect, Pending, IInv, Types
  <2> QED  BY <2>1, <2>3, <2>4 DEF WindowInv, BackedInv, StateIsBacked
<1>2. ASSUME NEW s \in Servers, UserConnect(s) PROVE (WindowInv /\ BackedInv)'
  BY <1>1, <1>2 DEF UserConnect
<1>3. ASSUME NEW i \in 1..2, TimerFires(i) PROVE (WindowInv /\ BackedInv)'
  BY <1>1, <1>3 DEF TimerFires
<1>4. CASE UserDisconnect
  <2>1. /\ resumable' = 0 /\ state' = "disconnected" /\ pc' = pc
        /\ ~crossed' => \A c \in Calls : pc[c] # "dialing"
    BY <1>4 DEF UserDisconnect, perCall, Pending
  <2> QED  BY <2>1 DEF WindowInv, BackedInv, StateIsBacked
<1>5. CASE CancelReconnect
  <2>1. UNCHANGED <<resumable, cur, listening, pc, sock, rejected>> /\ (~crossed' => ~crossed)
        /\ state' = IF state \in Waiting THEN "disconnected" ELSE state
    BY <1>5 DEF CancelReconnect, perCall
  <2> QED  BY <2>1 DEF WindowInv, BackedInv, StateIsBacked, Pending, Waiting
<1>6. CASE WindowEnds
  BY <1>6 DEF WindowEnds, WindowInv, BackedInv, StateIsBacked, Pending, perCall, history
<1>7. ASSUME NEW c \in Calls, Resolve(c) PROVE (WindowInv /\ BackedInv)'
  <2>1. /\ \A d \in Calls : pc'[d] = IF d = c THEN "dialing" ELSE pc[d]
        /\ listening' = listening \cup {c} /\ resumable' = resumable /\ crossed' = crossed
        /\ pc[c] = "credentials"
    BY <1>7 DEF Resolve, IInv, Types, history
  <2>2. c \in Pending /\ c \in Pending'
    BY <2>1 DEF Pending
  <2> QED  BY <2>1, <2>2 DEF WindowInv, BackedInv, StateIsBacked
<1>8. ASSUME NEW c \in Calls, CredentialsFail(c) PROVE (WindowInv /\ BackedInv)'
  <2>1. /\ \A d \in Calls : pc'[d] = IF d = c THEN "done" ELSE pc[d]
        /\ listening' = listening /\ resumable' = resumable /\ crossed' = crossed
        /\ pc[c] = "credentials" /\ state' = "error"
    BY <1>8 DEF CredentialsFail, IInv, Types, history
  <2>2. c \in Pending
    BY <2>1 DEF Pending
  <2> QED  BY <2>1, <2>2 DEF WindowInv, BackedInv, StateIsBacked
<1>9. ASSUME NEW c \in Calls, Opened(c) PROVE (WindowInv /\ BackedInv)'
  <2>1. /\ \A d \in Calls : pc'[d] = IF d = c THEN "done" ELSE pc[d]
        /\ sock'[c] = "open" /\ pc[c] = "dialing"
        /\ UNCHANGED <<listening, resumable, crossed, cur>>
    BY <1>9 DEF Opened, IInv, Types, history
  <2>2. c \in Pending
    BY <2>1 DEF Pending
  <2>3. ~crossed => c \in listening /\ c = cur
    BY <2>1 DEF BackedInv, IInv, SingleInv, Live
  <2> QED  BY <2>1, <2>2, <2>3 DEF WindowInv, BackedInv, StateIsBacked
<1>10. ASSUME NEW c \in Calls, DialFails(c) PROVE (WindowInv /\ BackedInv)'
  <2>1. /\ \A d \in Calls : pc'[d] = IF d = c THEN "done" ELSE pc[d]
        /\ pc[c] = "dialing" /\ state' = "error"
        /\ UNCHANGED <<listening, resumable, crossed>>
    BY <1>10 DEF DialFails, IInv, Types, history
  <2>2. c \in Pending
    BY <2>1 DEF Pending
  <2> QED  BY <2>1, <2>2 DEF WindowInv, BackedInv, StateIsBacked
<1>11. ASSUME NEW c \in Calls, Ready(c) PROVE (WindowInv /\ BackedInv)'
  <2>1. /\ sock[c] = "open" /\ c \in listening /\ resumable' = 0
        /\ UNCHANGED <<listening, pc, sock, cur, crossed, rejected>>
    BY <1>11 DEF Ready, Heard, perCall, history
  <2>2. ~crossed => c = cur
    BY <2>1, OpenIsCurrent
  <2> QED  BY <2>1, <2>2 DEF WindowInv, BackedInv, StateIsBacked, Pending
<1>12. ASSUME NEW c \in Calls, KeyRejected(c) PROVE (WindowInv /\ BackedInv)'
  <2>1. /\ sock[c] = "open" /\ resumable' = 0 /\ rejected' = TRUE
        /\ UNCHANGED <<pc, crossed>>
    BY <1>12 DEF KeyRejected, Heard, perCall
  <2>2. ~crossed => \A d \in Calls : pc[d] # "dialing"
    BY <2>1, OpenIsCurrent DEF Pending
  <2> QED  BY <2>1, <2>2 DEF WindowInv, BackedInv, StateIsBacked
<1>13. ASSUME NEW c \in Calls, Failed(c) PROVE (WindowInv /\ BackedInv)'
  <2>1. resumable' = 0 /\ state' = "error" /\ UNCHANGED <<listening, pc, crossed>>
    BY <1>13 DEF Failed, perCall, history
  <2> QED  BY <2>1 DEF WindowInv, BackedInv, StateIsBacked
<1>14. ASSUME NEW c \in Calls, SocketClosed(c) PROVE (WindowInv /\ BackedInv)'
  <2>1. /\ sock[c] = "open" /\ UNCHANGED <<listening, pc, cur, crossed, rejected>>
        /\ \A d \in Calls : sock'[d] = IF d = c THEN "closed" ELSE sock[d]
        /\ c \in listening => state' = "disconnected"
        /\ c \notin listening => UNCHANGED <<state, resumable>>
    BY <1>14 DEF SocketClosed, Lost, IInv, Types, perCall, history
  <2>2. ~crossed => c = cur /\ Pending = {}
    BY <2>1, OpenIsCurrent
  <2>3. Pending' = Pending
    BY <2>1 DEF Pending
  <2>4. WindowInv'
    BY <2>1, <2>2, <2>3 DEF WindowInv
  <2>5. BackedInv'
    BY <2>1, <2>2, <2>3 DEF BackedInv, StateIsBacked
  <2> QED  BY <2>4, <2>5
<1>15. ASSUME NEW c \in Calls, NEW reason \in Reasons \ {"ws_closed"}, SshEnded(c, reason)
       PROVE  (WindowInv /\ BackedInv)'
  <2>1. /\ UNCHANGED <<listening, pc, sock, cur, crossed, rejected>>
        /\ c \in listening => state' = "disconnected" /\ resumable' = 0
        /\ c \notin listening => UNCHANGED <<state, resumable>>
    BY <1>15 DEF SshEnded, Lost, perCall, history
  <2>2. Pending' = Pending
    BY <2>1 DEF Pending
  <2> QED  BY <2>1, <2>2 DEF WindowInv, BackedInv, StateIsBacked
<1>16. ASSUME NEW e \in ending, EndHandled(e) PROVE (WindowInv /\ BackedInv)'
  <2>1. /\ UNCHANGED <<listening, pc, sock, cur, crossed, rejected, resumable>>
        /\ state' \in {state, "reconnecting"}
    BY <1>16 DEF EndHandled, perCall, history
  <2>2. Pending' = Pending
    BY <2>1 DEF Pending
  <2> QED  BY <2>1, <2>2 DEF WindowInv, BackedInv, StateIsBacked
<1>17. CASE UNCHANGED vars
  BY <1>17 DEF vars, WindowInv, BackedInv, StateIsBacked, Pending
<1> QED
  BY <1>2, <1>3, <1>4, <1>5, <1>6, <1>7, <1>8, <1>9, <1>10, <1>11, <1>12, <1>13, <1>14, <1>15,
     <1>16, <1>17 DEF Next

LEMMA ConnectionInvariance == Spec => [](WindowInv /\ BackedInv)
BY InitConnectionInv, StepConnectionInv, Invariance, PTL DEF Spec

\* The window to resume is offered only for a connection that was lost without
\* word from the SSH side, and never while another is being made.
THEOREM WindowNeedsLoss == Spec => []WindowAfterLoss
<1>1. WindowInv => WindowAfterLoss
  BY DEF WindowInv, WindowAfterLoss, Calls
<1> QED  BY <1>1, ConnectionInvariance, PTL

\* A store that says it connects or is connected still hears of it: a call is
\* pending, or the current transport is open and listened to.
THEOREM StateHasBacking == Spec => []StateIsBacked
<1>1. BackedInv => StateIsBacked
  BY DEF BackedInv
<1> QED  BY <1>1, ConnectionInvariance, PTL

\* What the store shows of its connection is so, over every order of calls,
\* losses, timers and awaited handlers.
THEOREM StoreStaysInformed == Spec => []StoreKnowsConnection
<1>1. WindowAfterLoss /\ StateIsBacked => StoreKnowsConnection
  BY DEF StoreKnowsConnection
<1> QED  BY <1>1, WindowNeedsLoss, StateHasBacking, PTL
===============================================================================
