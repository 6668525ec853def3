------------------------------ MODULE SshBridge ------------------------------
(***************************************************************************)
(* createSshSession (apps/gateway/src/ssh/sshSession.ts): one SSH session  *)
(* to a target, directly or through a jump host.  Two ssh2 clients and a   *)
(* shell channel report readiness, errors and closes as events; a promise  *)
(* is settled, and the end of the session is reported to onClose.          *)
(*                                                                         *)
(* External: when ssh2 emits its events.  A client that has been ended     *)
(* closes; an error is followed by the close; a connection through a jump  *)
(* host does not outlive it, nor a shell its connection.                   *)
(***************************************************************************)
EXTENDS Integers

VARIABLES
    viaJump,        \* options.jumpHost is given
    trusted,        \* per hop: no knownHostFingerprint, or it is the host's
    conn,           \* state of jumpConn and targetConn
    forwarding,     \* forwardOut is under way
    shell,          \* the shell channel
    promise,        \* what createSshSession has returned
    closeReported,  \* closeReported
    reports,        \* history: calls of onClose
    shownKeys       \* history: hops whose fingerprint was reported

loginVars == <<viaJump, trusted, conn, forwarding, shell, promise, closeReported, reports, shownKeys>>

Hops == {"jump", "target"}
ConnStates == {"idle", "connecting", "auth", "ready", "ending", "closed"}

LoginInit ==
    /\ viaJump \in BOOLEAN /\ trusted \in [Hops -> BOOLEAN]
    /\ conn = [h \in Hops |-> IF (h = "jump") = viaJump THEN "connecting" ELSE "idle"]
    /\ forwarding = FALSE /\ shell = "none" /\ promise = "pending"
    /\ closeReported = FALSE /\ reports = 0 /\ shownKeys = {}

-----------------------------------------------------------------------------
Alive(h) == conn[h] \in {"connecting", "auth", "ready"}
AfterEnd(h) == IF Alive(h) THEN "ending" ELSE conn[h]

\* Mutant of EndBoth: the jump connection is forgotten.
EndTargetOnly == conn' = [conn EXCEPT !["target"] = AfterEnd("target")]

ReportCloseOnce ==
    /\ closeReported' = TRUE
    /\ reports' = IF closeReported THEN reports ELSE reports + 1

\* targetConn.end(); jumpConn?.end()
EndBoth == conn' = [h \in Hops |-> AfterEnd(h)]

\* Mutant of OnError: an error after the session was handed out un-settles it.
OnErrorResettling == promise' = "rejected" /\ EndBoth

\* onError
OnError ==
    /\ promise' = IF promise = "pending" THEN "rejected" ELSE promise
    /\ EndBoth

\* Mutant of VerifyHost: the target's key is only checked without a jump host.
VerifyHostLate(h) ==
    /\ conn[h] = "connecting" /\ h \notin shownKeys
    /\ shownKeys' = shownKeys \cup {h}
    /\ \/ /\ trusted[h] \/ viaJump
          /\ conn' = [conn EXCEPT ![h] = "auth"]
          /\ UNCHANGED promise
       \/ ~trusted[h] /\ ~viaJump /\ OnError
    /\ UNCHANGED <<viaJump, trusted, forwarding, shell, closeReported, reports>>

\* hostVerifier, for each hop on its own: the fingerprint is reported, then
\* compared with the known one; a mismatch is an error of the connection.
VerifyHost(h) ==
    /\ conn[h] = "connecting" /\ h \notin shownKeys
    /\ shownKeys' = shownKeys \cup {h}
    /\ \/ /\ trusted[h]
          /\ conn' = [conn EXCEPT ![h] = "auth"]
          /\ UNCHANGED promise
       \/ ~trusted[h] /\ OnError
    /\ UNCHANGED <<viaJump, trusted, forwarding, shell, closeReported, reports>>

\* jumpConn is ready: a stream to the target is requested.
JumpReady ==
    /\ conn["jump"] = "auth"
    /\ conn' = [conn EXCEPT !["jump"] = "ready"]
    /\ forwarding' = TRUE
    /\ UNCHANGED <<viaJump, trusted, shell, promise, closeReported, reports, shownKeys>>

\* The callback of forwardOut.
Forwarded ==
    /\ forwarding /\ forwarding' = FALSE
    /\ \/ /\ conn["jump"] = "ready"
          /\ conn' = [conn EXCEPT !["target"] = "connecting"]
          /\ UNCHANGED promise
       \/ OnError
    /\ UNCHANGED <<viaJump, trusted, shell, closeReported, reports, shownKeys>>

\* targetConn is ready: openShell.
TargetReady ==
    /\ conn["target"] = "auth"
    /\ conn' = [conn EXCEPT !["target"] = "ready"]
    /\ shell' = "opening"
    /\ UNCHANGED <<viaJump, trusted, forwarding, promise, closeReported, reports, shownKeys>>

\* The callback of targetConn.shell: the session is handed out, or an error.
ShellOpens ==
    /\ shell = "opening" /\ conn["target"] = "ready"
    /\ shell' = "open"
    /\ promise' = IF promise = "pending" THEN "resolved" ELSE promise
    /\ UNCHANGED <<viaJump, trusted, conn, forwarding, closeReported, reports, shownKeys>>
ShellFails ==
    /\ shell = "opening"
    /\ shell' = "none"
    /\ OnError
    /\ UNCHANGED <<viaJump, trusted, forwarding, closeReported, reports, shownKeys>>

\* The shell's close event; it also comes when the connection is lost.
ShellClosed ==
    /\ shell = "open"
    /\ shell' = "closed"
    /\ ReportCloseOnce /\ EndBoth
    /\ UNCHANGED <<viaJump, trusted, forwarding, promise, shownKeys>>

\* An error event of a connection, at any time until it is closed: handshake
\* and authentication failures, readyTimeout, keep-alive, the network.
ConnError(h) ==
    /\ conn[h] \in {"connecting", "auth", "ready"}
    /\ OnError
    /\ UNCHANGED <<viaJump, trusted, forwarding, shell, closeReported, reports, shownKeys>>

\* The close event of a connection: after end(), or because the peer closed.
ConnClosed(h) ==
    /\ conn[h] \in {"ready", "ending"}
    /\ conn' = [conn EXCEPT ![h] = "closed"]
    /\ ReportCloseOnce
    /\ UNCHANGED <<viaJump, trusted, forwarding, shell, promise, shownKeys>>

\* The owner calls close(), as often as it likes.
CloseCalled ==
    /\ promise = "resolved"
    /\ ReportCloseOnce
    /\ shell' = "closed"
    /\ EndBoth
    /\ UNCHANGED <<viaJump, trusted, forwarding, promise, shownKeys>>

LoginNext ==
    \/ \E h \in Hops : VerifyHost(h) \/ ConnError(h) \/ ConnClosed(h)
    \/ JumpReady \/ Forwarded \/ TargetReady
    \/ ShellOpens \/ ShellFails \/ ShellClosed \/ CloseCalled

LoginSpec == LoginInit /\ [][LoginNext]_loginVars

(* LoginFairness, all of it ssh2's: an ended connection closes, callbacks come   *)
(* (with an error when the connection is gone), a target reached through a  *)
(* lost jump host fails, a shell on a lost connection closes.               *)
LoseTarget == conn["jump"] = "closed" /\ (ConnError("target") \/ ConnClosed("target"))
LoseShell == conn["target"] = "closed" /\ ShellClosed
LoginFairness ==
    /\ \A h \in Hops : WF_loginVars(conn[h] = "ending" /\ ConnClosed(h))
    /\ WF_loginVars(Forwarded) /\ WF_loginVars(ShellOpens \/ ShellFails)
    /\ WF_loginVars(LoseTarget) /\ WF_loginVars(LoseShell)

-----------------------------------------------------------------------------
Life == INSTANCE SshLife WITH
    ssh <- IF reports > 0 THEN "closed"
           ELSE IF promise = "resolved" THEN "live"
           ELSE IF promise = "rejected" THEN "rejected" ELSE "connecting"

\* The events of two connections, a channel and the owner amount to the life
\* cycle the relay is written for.
ImplementsLife == Life!Spec

\* The end of a session is reported once, however many of its parts close.
ReportedOnce == reports <= 1

\* A credential is only offered to a host whose key was reported to the user
\* and accepted, and to the target only through a verified jump host.
VerifiedBeforeAuth ==
    \A h \in Hops : conn[h] \in {"auth", "ready"} =>
        h \in shownKeys /\ trusted[h] /\ (h = "target" /\ viaJump => trusted["jump"])

\* Both, of a login: what it reports and what it offers to whom.
LoginIsSafe == ReportedOnce /\ VerifiedBeforeAuth

\* Whatever fails first, no connection is left behind: once the target of a
\* session that was handed out is gone, or the attempt was rejected, the jump
\* connection goes as well.
NothingLeftOpen ==
    []<>((promise = "rejected" \/ (promise = "resolved" /\ conn["target"] = "closed"))
             => \A h \in Hops : conn[h] \in {"idle", "closed"})

SomePartGone == shell = "closed" \/ \E h \in Hops : conn[h] \in {"ending", "closed"}

\* The owner of a session that has lost any of its parts hears of it.
EndIsReported ==
    []<>(promise = "resolved" /\ SomePartGone => reports > 0)

=============================================================================
