--------------------------- MODULE GatewayTerminal ---------------------------
(***************************************************************************)
(* The terminal relay of the gateway: the `connection' handler that        *)
(* createGatewayServer() installs on the /ws/terminal WebSocket server     *)
(* (apps/gateway/src/server.ts) together with the life cycle of the SSH    *)
(* sessions it creates (apps/gateway/src/ssh/sshSession.ts).               *)
(*                                                                         *)
(* The gateway is one JavaScript thread.  An action below is one           *)
(* event-loop callback run to completion, or the part of an `async'        *)
(* handler between two awaits; everything else interleaves.  The one await *)
(* that matters, `session = await createSshSession(...)', splits the init  *)
(* handler into ReceiveInit and SshReady.                                  *)
(*                                                                         *)
(* Each connection's handler has closure variables of its own (session,    *)
(* resumeEntry, disconnectDetail, heartbeat), functions of the connection  *)
(* here.  The callbacks given to an SSH session run in the closure of the  *)
(* connection that created it, owner[s], for as long as the session lives, *)
(* also after another connection has resumed it.  A ResumeSessionEntry is  *)
(* created at most once per SSH session, so an entry is named by its       *)
(* session.                                                                *)
(***************************************************************************)
EXTENDS Integers, Sequences, FiniteSets, SequencesExt

CONSTANTS
    Conns,        \* WebSocket connections
    Sessions,     \* SSH sessions, one per call of createSshSession
    Keys,         \* values of clientSessionKey
    Targets,      \* (ip, host, port, username) of an init frame
    None,         \* null, undefined, the empty clientSessionKey
    FrameSizes,   \* sizes in bytes of an output frame
    PendingMax,   \* RESUME_PENDING_MAX_BYTES
    MaxInits,     \* bound: init frames a client sends on one connection
    MaxOutput     \* bound: output frames of one SSH session

ASSUME DistinctNone == None \notin Conns \cup Sessions \cup Keys \cup Targets
ASSUME BoundsAreNat == /\ PendingMax \in Nat /\ MaxInits \in Nat
                       /\ MaxOutput \in Nat /\ FrameSizes \subseteq Nat

VARIABLES
    wsState,         \* readyState of the connection
    detail,          \* disconnectDetail, abstracted to what its readers tell apart
    session,         \* closure variable `session'
    resumeEntry,     \* closure variable `resumeEntry'
    heartbeat,       \* is closure variable `heartbeat' set
    inits,           \* number of init frames received
    told,            \* last control frame (connected / disconnect) written
    ssh,             \* state of the SSH session
    owner,           \* the connection whose closure its callbacks run in
    request,         \* clientSessionKey and target it was created for
    entry,           \* its ResumeSessionEntry, without the fields in request
    resumeSessions,  \* the registry
    out,             \* number of output frames the SSH session has produced
    pending,         \* pendingFrames of its entry
    delivered        \* history: its frames written to an open WebSocket

connVars == <<wsState, detail, session, resumeEntry, heartbeat, inits, told>>
sshVars  == <<ssh, owner, request, entry, resumeSessions>>
outVars  == <<out, pending, delivered>>
vars     == <<connVars, sshVars, outVars>>

WsStates == {"none", "open", "closing", "closed", "rejected"}
Details  == {"none", "client", "server", "resumable", "broken"}
CloseCodes == {"resumable", "broken"}   \* 1000, 1001, 1005, 1006; all others
Told     == {"nothing", "connected", "resumed", "disconnect"}
SshStates == {"idle", "connecting", "rejected", "live", "closed"}
Requests == [key : Keys \cup {None}, target : Targets \cup {None}]
Entries  == [made : BOOLEAN, ws : Conns \cup {None}, timer : BOOLEAN, closed : BOOLEAN]
Frames   == [from : Sessions, n : Nat, size : FrameSizes]

\* Every variable has a value its code can hold: sockets, sessions, entries and the registry.
TypeOK ==
    /\ wsState \in [Conns -> WsStates]
    /\ detail \in [Conns -> Details]
    /\ session \in [Conns -> Sessions \cup {None}]
    /\ resumeEntry \in [Conns -> Sessions \cup {None}]
    /\ heartbeat \in [Conns -> BOOLEAN]
    /\ inits \in [Conns -> Nat]
    /\ told \in [Conns -> Told]
    /\ ssh \in [Sessions -> SshStates]
    /\ owner \in [Sessions -> Conns \cup {None}]
    /\ request \in [Sessions -> Requests]
    /\ entry \in [Sessions -> Entries]
    /\ resumeSessions \in [Keys -> Sessions \cup {None}]
    /\ out \in [Sessions -> Nat]
    /\ pending \in [Sessions -> Seq(Frames)]
    /\ delivered \in [Sessions -> SUBSET Nat]

NoEntry == [made |-> FALSE, ws |-> None, timer |-> FALSE, closed |-> FALSE]

Init ==
    /\ wsState = [c \in Conns |-> "none"]
    /\ detail = [c \in Conns |-> "none"]
    /\ session = [c \in Conns |-> None]
    /\ resumeEntry = [c \in Conns |-> None]
    /\ heartbeat = [c \in Conns |-> FALSE]
    /\ inits = [c \in Conns |-> 0]
    /\ told = [c \in Conns |-> "nothing"]
    /\ ssh = [s \in Sessions |-> "idle"]
    /\ owner = [s \in Sessions |-> None]
    /\ request = [s \in Sessions |-> [key |-> None, target |-> None]]
    /\ entry = [s \in Sessions |-> NoEntry]
    /\ resumeSessions = [k \in Keys |-> None]
    /\ out = [s \in Sessions |-> 0]
    /\ pending = [s \in Sessions |-> <<>>]
    /\ delivered = [s \in Sessions |-> {}]

-----------------------------------------------------------------------------
(* Helpers of the handlers.                                                *)

\* rememberDisconnect: the first reason stays.  (A weak one gives way to a
\* strong one, but only the close event sets weak ones and only it reads.)
Remember(old, new) == IF old = "none" THEN new ELSE old

\* cleanupResumeEntry(entry of e) on the entries, and on the registry.
Cleanup(entries, e) ==
    [s \in Sessions |-> IF s = e THEN [entries[s] EXCEPT !.timer = FALSE, !.ws = None]
                        ELSE entries[s]]
Unregister(registry, e) ==
    [k \in Keys |-> IF e # None /\ registry[k] = e /\ request[e].key = k THEN None
                    ELSE registry[k]]

MarkClosed(entries, e) ==
    [s \in Sessions |-> IF s = e THEN [entries[s] EXCEPT !.closed = TRUE] ELSE entries[s]]

\* The entry that the callbacks of session s see: resumeEntry of its creator.
CallbackEntry(s) == IF s = None THEN None ELSE resumeEntry[owner[s]]

\* What session?.close() reports on: reportCloseOnce fires once per session.
Reportable(s) == IF s # None /\ ssh[s] = "live" THEN s ELSE None

(***************************************************************************)
(* reportCloseOnce(reason) of session s and, synchronously, the onClose    *)
(* callback, run by a handler that has already turned the gateway's state  *)
(* into the arguments (s = None: nothing is reported).  The disconnect     *)
(* frame goes to resumeEntry?.ws ?? ws of the creator's closure, and       *)
(* cleanupResumeEntry has just set that entry's ws to null: it is always   *)
(* the creator's own WebSocket.                                            *)
(***************************************************************************)
ReportClose(s, sshes, entries, registry, details) ==
    LET e == CallbackEntry(s) IN
    /\ ssh' = [x \in Sessions |-> IF x = s THEN "closed" ELSE sshes[x]]
    /\ entry' = Cleanup(MarkClosed(entries, e), e)
    /\ resumeSessions' = Unregister(registry, e)
    /\ detail' = [c \in Conns |-> IF s # None /\ c = owner[s]
                                  THEN Remember(details[c], "server") ELSE details[c]]
    /\ told' = [c \in Conns |-> IF s # None /\ c = owner[s] /\ wsState[c] = "open"
                                THEN "disconnect" ELSE told[c]]

\* safeSendIfOpen of a control frame to connection c.
Tell(c, what) == [told EXCEPT ![c] = IF wsState[c] = "open" THEN what ELSE @]

\* The frames that pushPendingFrame keeps: it shifts the oldest out while the
\* rest is over the limit and something is left.
Bytes(frames) == FoldLeft(LAMBDA sum, f : sum + f.size, 0, frames)
Dropped(frames) ==
    CHOOSE d \in 0..Len(frames) :
        LET Fits(i) == i = Len(frames) \/ Bytes(SubSeq(frames, i + 1, Len(frames))) <= PendingMax
        IN  Fits(d) /\ \A i \in 0..Len(frames) : i < d => ~Fits(i)
\* Mutant of PushPending: the newest frames are dropped.
PushPendingOldest(frames, f) ==
    LET all == Append(frames, f) IN SubSeq(all, 1, Len(all) - Dropped(all))

PushPending(frames, f) ==
    LET all == Append(frames, f) IN SubSeq(all, Dropped(all) + 1, Len(all))

-----------------------------------------------------------------------------
(* The connection.                                                         *)

\* A client connects and passes the token and the rate check.
Accept(c) ==
    /\ wsState[c] = "none"
    /\ wsState' = [wsState EXCEPT ![c] = "open"]
    /\ UNCHANGED <<detail, session, resumeEntry, heartbeat, inits, told, sshVars, outVars>>

\* auth_failed or rate_limit: the socket is closed and gets no handler.
Reject(c) ==
    /\ wsState[c] = "none"
    /\ wsState' = [wsState EXCEPT ![c] = "rejected"]
    /\ detail' = [detail EXCEPT ![c] = "server"]
    /\ UNCHANGED <<session, resumeEntry, heartbeat, inits, told, sshVars, outVars>>

\* Both clients send init as the first frame of a connection.
GetInit(c) ==
    /\ wsState[c] = "open"
    /\ inits[c] < MaxInits
    /\ inits' = [inits EXCEPT ![c] = @ + 1]

\* ALREADY_INITIALIZED: an error frame and nothing else.
InitAgain(c) ==
    /\ GetInit(c)
    /\ session[c] # None
    /\ UNCHANGED <<wsState, detail, session, resumeEntry, heartbeat, told, sshVars, outVars>>

\* Mutant of Attachable: an attached entry can be taken over.
AttachableWhileAttached(e, t) ==
    /\ e # None
    /\ ~entry[e].closed
    /\ request[e].target = t

\* Whether init resumes the entry it has found.
Attachable(e, t) ==
    /\ e # None
    /\ ~entry[e].closed
    /\ entry[e].ws = None
    /\ request[e].target = t

\* The frames of s in the buffer of entry e.
Buffered(e, s) ==
    {pending[e][i].n : i \in {j \in DOMAIN pending[e] : pending[e][j].from = s}}

\* flushPendingFrames of entry e, to an open socket.  Mutant: only a full
\* buffer is flushed.
FlushFullBuffer(e) ==
    IF Bytes(pending[e]) < PendingMax THEN UNCHANGED <<pending, delivered>>
    ELSE /\ delivered' = [s \in Sessions |-> delivered[s] \cup Buffered(e, s)]
         /\ pending' = [pending EXCEPT ![e] = <<>>]
Flush(e) ==
    /\ delivered' = [s \in Sessions |-> delivered[s] \cup Buffered(e, s)]
    /\ pending' = [pending EXCEPT ![e] = <<>>]

\* attachResumeEntry, with the flush of the buffered output.
InitResume(c, k, t) ==
    LET e == resumeSessions[k] IN
    /\ GetInit(c)
    /\ session[c] = None
    /\ Attachable(e, t)
    /\ entry' = [entry EXCEPT ![e] = [@ EXCEPT !.timer = FALSE, !.ws = c]]
    /\ session' = [session EXCEPT ![c] = e]
    /\ resumeEntry' = [resumeEntry EXCEPT ![c] = e]
    /\ heartbeat' = [heartbeat EXCEPT ![c] = TRUE]
    /\ told' = Tell(c, "resumed")
    /\ Flush(e)
    /\ UNCHANGED <<wsState, detail, ssh, owner, request, resumeSessions, out>>

\* A fresh session: an entry in the way is replaced (its SSH session is closed
\* with resume_replaced), then createSshSession is called and awaited.
InitConnect(c, k, t, s) ==
    LET e   == IF k = None THEN None ELSE resumeSessions[k]
        old == IF e # None /\ ~entry[e].closed THEN e ELSE None
    IN
    /\ GetInit(c)
    /\ session[c] = None
    /\ ~Attachable(e, t)
    /\ ssh[s] = "idle"
    /\ ReportClose(Reportable(old), [ssh EXCEPT ![s] = "connecting"],
                   Cleanup(MarkClosed(entry, old), old), Unregister(resumeSessions, old), detail)
    /\ owner' = [owner EXCEPT ![s] = c]
    /\ request' = [request EXCEPT ![s] = [key |-> k, target |-> t]]
    /\ UNCHANGED <<wsState, session, resumeEntry, heartbeat, outVars>>

ReceiveInit(c) ==
    \/ InitAgain(c)
    \/ \E k \in Keys, t \in Targets : InitResume(c, k, t)
    \/ \E k \in Keys \cup {None}, t \in Targets, s \in Sessions : InitConnect(c, k, t, s)

\* control / disconnect, the last frame a client sends.
ReceiveDisconnect(c) ==
    /\ wsState[c] = "open"
    /\ wsState' = [wsState EXCEPT ![c] = "closing"]
    /\ ReportClose(Reportable(session[c]), ssh, Cleanup(entry, resumeEntry[c]),
                   Unregister(resumeSessions, resumeEntry[c]),
                   [detail EXCEPT ![c] = Remember(@, "client")])
    /\ UNCHANGED <<session, resumeEntry, heartbeat, inits, owner, request, outVars>>

\* The peer sends a close frame or the TCP connection ends: readyState is no
\* longer OPEN, and the `close' event is still to come.
PeerCloses(c) ==
    /\ wsState[c] = "open"
    /\ wsState' = [wsState EXCEPT ![c] = "closing"]
    /\ UNCHANGED <<detail, session, resumeEntry, heartbeat, inits, told, sshVars, outVars>>

\* The `close' event: the SSH session is parked or closed.
WsClose(c, code) ==
    LET d == Remember(detail[c], code)
        e == resumeEntry[c]
        canPark == /\ e # None
                   /\ session[c] # None
                   /\ ~entry[e].closed
                   /\ d = "resumable"
    IN
    /\ wsState[c] = "closing"
    /\ wsState' = [wsState EXCEPT ![c] = "closed"]
    /\ heartbeat' = [heartbeat EXCEPT ![c] = FALSE]
    /\ session' = [session EXCEPT ![c] = None]
    /\ \/ /\ canPark
          /\ entry' = [entry EXCEPT ![e] = [@ EXCEPT !.ws = None, !.timer = TRUE]]
          /\ detail' = [detail EXCEPT ![c] = d]
          /\ UNCHANGED <<told, ssh, resumeSessions>>
       \/ /\ ~canPark
          /\ ReportClose(Reportable(session[c]), ssh, Cleanup(entry, e),
                         Unregister(resumeSessions, e), [detail EXCEPT ![c] = d])
    /\ UNCHANGED <<resumeEntry, inits, owner, request, outVars>>

\* The `error' event; ws has already left OPEN when it is emitted.
WsError(c) ==
    /\ wsState[c] = "closing"
    /\ heartbeat' = [heartbeat EXCEPT ![c] = FALSE]
    /\ session' = [session EXCEPT ![c] = None]
    /\ ReportClose(Reportable(session[c]), ssh, Cleanup(entry, resumeEntry[c]),
                   Unregister(resumeSessions, resumeEntry[c]),
                   [detail EXCEPT ![c] = Remember(@, "server")])
    /\ UNCHANGED <<wsState, resumeEntry, inits, owner, request, outVars>>

-----------------------------------------------------------------------------
(* The SSH session.                                                        *)

\* createSshSession rejects: an error frame; the connection stays as it is.
SshReject(s) ==
    /\ ssh[s] = "connecting"
    /\ ssh' = [ssh EXCEPT ![s] = "rejected"]
    /\ UNCHANGED <<connVars, owner, request, entry, resumeSessions, outVars>>

\* The rest of the init handler once the await is over: it looks neither at
\* the WebSocket, nor at the registry, nor at the session it has waited for.
Register(s) ==
    LET c == owner[s]
        k == request[s].key
    IN
    /\ session' = [session EXCEPT ![c] = s]
    /\ heartbeat' = [heartbeat EXCEPT ![c] = TRUE]
    /\ told' = Tell(c, "connected")
    /\ resumeEntry' = IF k = None THEN resumeEntry ELSE [resumeEntry EXCEPT ![c] = s]
    /\ UNCHANGED <<wsState, inits, owner, request, outVars>>

\* resumeEntry = {...}; resumeSessions.set(resumeKey, resumeEntry)
NewEntry(entries, s) ==
    IF request[s].key = None THEN entries
    ELSE [entries EXCEPT ![s] = [made |-> TRUE, ws |-> owner[s], timer |-> FALSE, closed |-> FALSE]]
NewRegistration(registry, s) ==
    IF request[s].key = None THEN registry ELSE [registry EXCEPT ![request[s].key] = s]

SshReady(s) ==
    /\ ssh[s] = "connecting"
    /\ ssh' = [ssh EXCEPT ![s] = "live"]
    /\ entry' = NewEntry(entry, s)
    /\ resumeSessions' = NewRegistration(resumeSessions, s)
    /\ Register(s)
    /\ UNCHANGED detail

\* The shell opens and closes in one burst of SSH packets: the channel's close
\* event runs on the next-tick queue, before the promise's continuation.
SshReadyTooLate(s) ==
    LET e == CallbackEntry(s) IN
    /\ ssh[s] = "connecting"
    /\ ssh' = [ssh EXCEPT ![s] = "closed"]
    /\ entry' = NewEntry(Cleanup(MarkClosed(entry, e), e), s)
    /\ resumeSessions' = NewRegistration(Unregister(resumeSessions, e), s)
    /\ detail' = [detail EXCEPT ![owner[s]] = Remember(@, "server")]
    /\ Register(s)

\* The shell, the connection or the jump connection closes.
SshEnd(s) ==
    /\ ssh[s] \in {"connecting", "rejected", "live"}
    /\ ReportClose(s, ssh, entry, resumeSessions, detail)
    /\ UNCHANGED <<wsState, session, resumeEntry, heartbeat, inits, owner, request, outVars>>

\* onStdout / onStderr: to the attached WebSocket, dropped if that is not open,
\* or to the buffer of a detached entry.
SshOutput(s, size) ==
    LET c == owner[s]
        e == resumeEntry[c]
        n == out[s] + 1
        sink == IF e = None THEN c ELSE entry[e].ws
    IN
    /\ ssh[s] = "live"
    /\ out[s] < MaxOutput
    /\ out' = [out EXCEPT ![s] = n]
    /\ \/ /\ sink # None
          /\ delivered' = [delivered EXCEPT ![s] = IF wsState[sink] = "open" THEN @ \cup {n} ELSE @]
          /\ UNCHANGED pending
       \/ /\ sink = None
          /\ pending' = [pending EXCEPT ![e] = PushPending(@, [from |-> s, n |-> n, size |-> size])]
          /\ UNCHANGED delivered
    /\ UNCHANGED <<connVars, sshVars>>

\* Mutant of ResumeTimeout: the entry goes, its SSH session stays.
ResumeTimeoutKeepingSession(s) ==
    /\ entry[s].timer
    /\ ReportClose(None, ssh, Cleanup(MarkClosed(entry, s), s), Unregister(resumeSessions, s), detail)
    /\ UNCHANGED <<wsState, session, resumeEntry, heartbeat, inits, owner, request, outVars>>

\* detachedTimer fires: resume_timeout.
ResumeTimeout(s) ==
    LET dying == IF entry[s].closed THEN None ELSE s IN
    /\ entry[s].timer
    /\ ReportClose(Reportable(dying), ssh, Cleanup(MarkClosed(entry, s), s),
                   Unregister(resumeSessions, s), detail)
    /\ UNCHANGED <<wsState, session, resumeEntry, heartbeat, inits, owner, request, outVars>>

-----------------------------------------------------------------------------
ConnStep(c) ==
    \/ Accept(c) \/ Reject(c)
    \/ ReceiveInit(c) \/ ReceiveDisconnect(c)
    \/ PeerCloses(c) \/ WsError(c)
    \/ \E code \in CloseCodes : WsClose(c, code)

SshStep(s) ==
    \/ SshReject(s) \/ SshReady(s) \/ SshReadyTooLate(s) \/ SshEnd(s)
    \/ \E size \in FrameSizes : SshOutput(s, size)
    \/ ResumeTimeout(s)

Next == (\E c \in Conns : ConnStep(c)) \/ (\E s \in Sessions : SshStep(s))

Spec == Init /\ [][Next]_vars

(***************************************************************************)
(* Fairness.  A closing socket is eventually closed (ws destroys it after  *)
(* its close timeout), an armed timer fires, and a connecting SSH session  *)
(* becomes ready or fails (readyTimeout and the keep-alive count given to  *)
(* ssh2).  Nothing obliges a client to act or a live session to end.       *)
(***************************************************************************)
SshSettles(s) == ssh[s] = "connecting" /\ (SshReady(s) \/ SshReject(s) \/ SshEnd(s))

Fairness ==
    /\ \A c \in Conns : WF_vars(\E code \in CloseCodes : WsClose(c, code))
    /\ \A s \in Sessions : WF_vars(SshSettles(s)) /\ WF_vars(ResumeTimeout(s))

-----------------------------------------------------------------------------
(* Properties.                                                             *)

Holds(c, s) == session[c] = s /\ wsState[c] \in {"open", "closing"}
Parked(s)   == entry[s].timer

\* The init handler went on after its WebSocket had closed: the session sits
\* in the closure of a connection whose close event is over.
BornOrphan(s) == owner[s] # None /\ session[owner[s]] = s /\ wsState[owner[s]] = "closed"

\* Every registered entry is the one of that key and still usable: the close of
\* one session, the replacement of another and late registrations never leave
\* a closed entry behind for the next init to find (server.ts 679, 783-786).
RegistryCoherent ==
    \A k \in Keys : LET s == resumeSessions[k] IN
        s # None => entry[s].made /\ request[s].key = k /\ ~entry[s].closed

\* Two connections never drive the same SSH session, however inits, parks,
\* replacements and resumes interleave: resuming takes a session only from the
\* registry, and only one that no connection holds (server.ts 680-694).
ExclusiveHolder ==
    \A c, d \in Conns : session[c] # None /\ session[c] = session[d] => c = d

\* An init frame finds only a usable entry of its key, and what it then resumes
\* or opens is driven by nobody else.
HoldersCoherent == RegistryCoherent /\ ExclusiveHolder

\* A registered entry that no socket is attached to has its timer armed, so it
\* expires if nobody resumes it; and an armed timer never belongs to a session
\* that is in use or already closed (server.ts 872-886, 616-617).
DetachedIffTimer ==
    /\ \A k \in Keys : LET s == resumeSessions[k] IN
           s # None /\ entry[s].ws = None => entry[s].timer
    /\ \A s \in Sessions : entry[s].timer =>
           /\ entry[s].made /\ entry[s].ws = None /\ ~entry[s].closed
           /\ \A c \in Conns : session[c] # s

\* Whoever holds a live session with a key is also where its output goes: the
\* closure variable and entry.ws, set in different handlers, agree.
OutputGoesToHolder ==
    \A c \in Conns, s \in Sessions :
        Holds(c, s) /\ ssh[s] = "live" /\ entry[s].made => entry[s].ws = c

\* No SSH session leaks: a live one is held by a connection, or parked with a
\* timer, or was born an orphan (see ShortBreakParks for that case).
LiveIsHeldOrParked ==
    \A s \in Sessions : ssh[s] = "live" =>
        (\E c \in Conns : Holds(c, s)) \/ Parked(s) \/ BornOrphan(s)

\* A client that sends a second init while its first session is still connecting
\* leaves that session behind, held by nobody.
OneInit == \A c \in Conns : inits[c] <= 1

\* No SSH session leaks while no client has sent two inits: whatever closes, times
\* out or is replaced, a live one is held, and its output goes to its holder, or it
\* is parked with its timer armed; and no timer is left on a session that is in
\* use or over (server.ts 604-627, 855-936).
NoneLeaks == OneInit => DetachedIffTimer /\ OutputGoesToHolder /\ LiveIsHeldOrParked

\* A registration is removed only when its own session ends, or overwritten by
\* a later one under the same key: the cleanup of a connection, a timeout or a
\* close callback never takes away somebody else's (server.ts 604-613).
OnlyOwnRegistrationEnds ==
    [][\A k \in Keys : LET s == resumeSessions[k] IN
           s # None /\ resumeSessions'[k] = None => ssh'[s] = "closed"]_vars

\* Output is buffered only while no socket is attached; what is buffered is the
\* most recent output without a gap, within the byte limit, and all of it is
\* newer than anything a client has been sent (server.ts 747-757, 400-424).
BufferIsRecentOutput ==
    \A s \in Sessions :
        LET p == pending[s] IN
        p # <<>> => /\ entry[s].ws = None
                    /\ Bytes(p) <= PendingMax
                    /\ \A i \in DOMAIN p : p[i].from = s /\ p[i].n = out[s] - Len(p) + i
                    /\ \A m \in delivered[s] : m < p[1].n

\* A session's output reaches clients in the order it was produced, across any
\* number of resumes: a step never delivers a frame older than a delivered one.
DeliveredInOrder ==
    [][\A s \in Sessions : \A n \in delivered'[s] \ delivered[s], m \in delivered[s] : m < n]_vars

(* The lease of a session: it is held by the connection whose closure      *)
(* variable `session' refers to it, and parked while its timer is armed.   *)

HeldBy(s) == {c \in Conns : session[c] = s}

LeasePhase(s) ==
    IF HeldBy(s) # {} THEN "held"
    ELSE IF entry[s].timer THEN "parked"
    ELSE IF ssh[s] \in {"idle", "connecting", "rejected"} THEN "free"
    ELSE "over"

LeaseHolder(s) == IF HeldBy(s) # {} THEN CHOOSE c \in HeldBy(s) : TRUE ELSE None

Lease == INSTANCE SessionLease WITH
            phase  <- [s \in Sessions |-> LeasePhase(s)],
            holder <- [s \in Sessions |-> LeaseHolder(s)]

\* Whatever closes, reconnects, times out or collides, the SSH session of a
\* client that sends one init changes hands only through a parked entry and is
\* never handed out again once it was given up (server.ts 604-627, 664-703,
\* 855-936).
ImplementsLease == Lease!Spec

\* A session that loses its connection is eventually closed or resumed: the
\* grace period ends (server.ts 877-886).
Forsaken(s) == ssh[s] = "live" /\ ~BornOrphan(s) /\ \A c \in Conns : ~Holds(c, s)
GraceEnds == \A s \in Sessions : []<>~Forsaken(s)

=============================================================================
