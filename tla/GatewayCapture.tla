--------------------------- MODULE GatewayCapture ---------------------------
(***************************************************************************)
(* Frame capture on top of the terminal relay: the rules that              *)
(* POST /debug/terminal-captures/arm stores                                *)
(* (apps/gateway/src/debug/terminalCaptureArm.ts), the recorder of a       *)
(* session (debug/terminalFrameCapture.ts) and the places of server.ts     *)
(* that take a rule, hand the recorder on and write to it.                 *)
(*                                                                         *)
(* The module composes GatewayTerminal with the capture: each of its       *)
(* actions happens together with what the same handler does to rules and   *)
(* recordings, and nothing here constrains the relay.  A recorder belongs  *)
(* to one call of createSshSession, so a recording is named by its SSH     *)
(* session.                                                                *)
(***************************************************************************)
EXTENDS GatewayTerminal

CONSTANTS
    EnvDir,      \* is RC_TERMINAL_CAPTURE_DIR set
    Ttls,        \* values of ttlMs in an arm request
    MinTtl,      \* 1_000 ms, in ticks
    MaxTtl,      \* MAX_TTL_MS
    DefaultTtl,  \* DEFAULT_TTL_MS
    MaxArms,     \* bound: arm requests
    MaxTime      \* bound: ticks of the clock

ASSUME TtlAssumption ==
    /\ {MinTtl, MaxTtl, DefaultTtl} \subseteq Nat
    /\ MinTtl <= MaxTtl /\ DefaultTtl <= MaxTtl
    /\ Ttls \subseteq Int
ASSUME CaptureBounds == MaxArms \in Nat /\ MaxTime \in Nat

VARIABLES
    now,           \* Date.now()
    arms,          \* rules armed so far
    rules,         \* the store's Map; a rule's id is its place in insertion order
    frameCapture,  \* closure variable `frameCapture' of a connection
    entryCapture,  \* field frameCapture of a session's ResumeSessionEntry
    file,          \* the recording of a session: none, open, closed
    by,            \* history: the rule that opened it, 0 when there is none
    lines,         \* history: its stdout frames, by session and number
    typed          \* history: sessions whose stdin it holds

recVars  == <<frameCapture, entryCapture, file, by, lines, typed>>
capVars  == <<now, arms, rules, recVars>>
allVars  == <<vars, capVars>>

\* What a rule asks for: a clientSessionKey, a target, or both.
Wants == [key : Keys \cup {None}, target : Targets \cup {None}]

\* The capture's variables have values its code can hold: rules, recorders and recordings.
CapTypeOK ==
    /\ TypeOK
    /\ now \in 0..MaxTime /\ arms \in 0..MaxArms
    /\ rules \subseteq [id : 1..MaxArms, want : Wants, until : Nat]
    /\ frameCapture \in [Conns -> Sessions \cup {None}]
    /\ entryCapture \in [Sessions -> Sessions \cup {None}]
    /\ file \in [Sessions -> {"none", "open", "closed"}]
    /\ by \in [Sessions -> 0..MaxArms]
    /\ lines \in [Sessions -> SUBSET (Sessions \X Nat)]
    /\ typed \in [Sessions -> SUBSET Sessions]

CapInit ==
    /\ Init
    /\ now = 0 /\ arms = 0 /\ rules = {}
    /\ frameCapture = [c \in Conns |-> None]
    /\ entryCapture = [s \in Sessions |-> None]
    /\ file = [s \in Sessions |-> "none"]
    /\ by = [s \in Sessions |-> 0]
    /\ lines = [s \in Sessions |-> {}]
    /\ typed = [s \in Sessions |-> {}]

-----------------------------------------------------------------------------
(* The store of rules.                                                     *)

\* normalizeTtlMs
Ttl(ms) ==
    CASE ms <= 0      -> DefaultTtl
      [] ms < MinTtl  -> MinTtl
      [] ms > MaxTtl  -> MaxTtl
      [] OTHER        -> ms

\* cleanupExpired
Unexpired == {r \in rules : now < r.until}

\* hasMatchConstraint and matchesRule
Constrains(want) == want.key # None \/ want.target # None
Fits(want, k, t) == want.key \in {None, k} /\ want.target \in {None, t}

\* The arm request: a rule that constrains nothing is refused, after the
\* expired ones have been removed.
Arm(want, ms) ==
    /\ arms < MaxArms
    /\ arms' = arms + 1
    /\ rules' = Unexpired \cup
                (IF Constrains(want)
                 THEN {[id |-> arms + 1, want |-> want, until |-> now + Ttl(ms)]} ELSE {})
    /\ UNCHANGED <<vars, now, recVars>>

Tick ==
    /\ now < MaxTime
    /\ now' = now + 1
    /\ UNCHANGED <<vars, arms, rules, recVars>>

\* The rule take() returns for a session with key k to target t: the first one
\* armed of those that fit, 0 for none.
TakenRule(k, t) ==
    LET fitting == {r.id : r \in {x \in Unexpired : Fits(x.want, k, t)}}
    IN  IF fitting = {} THEN 0 ELSE CHOOSE id \in fitting : \A x \in fitting : id <= x

\* The store after take() has returned rule id.
Left(id) == {r \in Unexpired : r.id # id}

-----------------------------------------------------------------------------
(* Recording.                                                              *)

\* (resumeEntry?.frameCapture ?? frameCapture) in the closure of c.
Recorder(c) ==
    IF resumeEntry[c] # None /\ entryCapture[resumeEntry[c]] # None
    THEN entryCapture[resumeEntry[c]] ELSE frameCapture[c]

\* onClose closes the recorder of the closure it runs in.
Close(ended) ==
    [f \in Sessions |->
        IF file[f] = "open" /\ \E s \in ended : Recorder(owner[s]) = f
        THEN "closed" ELSE file[f]]

\* Mutant of Ended: an end that nobody is attached to goes unnoticed.
EndedHeld == {s \in Sessions : ssh[s] # "closed" /\ ssh'[s] = "closed" /\ ~entry[s].timer}

\* The sessions whose end the present step reports.
Ended == {s \in Sessions : ssh[s] # "closed" /\ ssh'[s] = "closed"}

\* A handler that may end sessions and does nothing else to a recording.
OnlyCloses ==
    /\ file' = Close(Ended)
    /\ UNCHANGED <<now, arms, rules, frameCapture, entryCapture, by, lines, typed>>

\* createTerminalFrameCaptureRecorder: none without a directory.
Records(id) == id # 0 \/ EnvDir

CapConnect(c, k, t, s) ==
    LET id == TakenRule(k, t) IN
    /\ InitConnect(c, k, t, s)
    /\ rules' = Left(id)
    /\ frameCapture' = [frameCapture EXCEPT ![c] = IF Records(id) THEN s ELSE None]
    /\ file' = [Close(Ended) EXCEPT ![s] = IF Records(id) THEN "open" ELSE "none"]
    /\ by' = [by EXCEPT ![s] = id]
    /\ UNCHANGED <<now, arms, entryCapture, lines, typed>>

\* frameCapture = entry.frameCapture
Attached(c, e) == [frameCapture EXCEPT ![c] = entryCapture[e]]

CapResume(c, k, t) ==
    /\ InitResume(c, k, t)
    /\ frameCapture' = Attached(c, resumeSessions[k])
    /\ UNCHANGED <<now, arms, rules, entryCapture, file, by, lines, typed>>

\* The entry made after the await gets the closure's present recorder.
NewEntryCapture(s) ==
    IF request[s].key = None THEN entryCapture
    ELSE [entryCapture EXCEPT ![s] = frameCapture[owner[s]]]

CapReady(s) ==
    /\ SshReady(s) \/ SshReadyTooLate(s)
    /\ entryCapture' = NewEntryCapture(s)
    /\ file' = Close(Ended)
    /\ UNCHANGED <<now, arms, rules, frameCapture, by, lines, typed>>

\* record("stdout", data) of frame n of session s
Written(f, s, n) ==
    IF f # None /\ file[f] = "open" THEN [lines EXCEPT ![f] = @ \cup {<<s, n>>}] ELSE lines

CapOutput(s, size) ==
    /\ SshOutput(s, size)
    /\ lines' = Written(Recorder(owner[s]), s, out[s] + 1)
    /\ UNCHANGED <<now, arms, rules, frameCapture, entryCapture, file, by, typed>>

\* A stdin frame, which both clients send only after `connected'.
Stdin(c) ==
    LET f == Recorder(c) IN
    /\ wsState[c] = "open"
    /\ told[c] \in {"connected", "resumed"}
    /\ typed' = IF f # None /\ file[f] = "open"
                THEN [typed EXCEPT ![f] = @ \cup ({session[c]} \ {None})] ELSE typed
    /\ UNCHANGED <<vars, now, arms, rules, frameCapture, entryCapture, file, by, lines>>

CapConnStep(c) ==
    \/ (Accept(c) \/ Reject(c) \/ InitAgain(c) \/ PeerCloses(c)) /\ UNCHANGED capVars
    \/ \E k \in Keys, t \in Targets : CapResume(c, k, t)
    \/ \E k \in Keys \cup {None}, t \in Targets, s \in Sessions : CapConnect(c, k, t, s)
    \/ Stdin(c)
    \/ (ReceiveDisconnect(c) \/ WsError(c)) /\ OnlyCloses
    \/ \E code \in CloseCodes : WsClose(c, code) /\ OnlyCloses

CapSshStep(s) ==
    \/ CapReady(s)
    \/ (SshReject(s) \/ SshEnd(s) \/ ResumeTimeout(s)) /\ OnlyCloses
    \/ \E size \in FrameSizes : CapOutput(s, size)

CapNext ==
    \/ \E c \in Conns : CapConnStep(c)
    \/ \E s \in Sessions : CapSshStep(s)
    \/ \E want \in Wants, ms \in Ttls : Arm(want, ms)
    \/ Tick

CapSpec == CapInit /\ [][CapNext]_allVars

-----------------------------------------------------------------------------
(* Properties.                                                             *)

\* A rule serves one session, the session it was armed for, and not after its
\* time: however many clients connect, fail and come back, no second recording
\* is made from it (terminalCaptureArm.ts 126-140).
RuleServesOnce ==
    [][\A s \in Sessions : by[s] = 0 /\ by'[s] # 0 =>
          /\ \A x \in Sessions : by[x] # by'[s]
          /\ \E r \in rules :
                /\ r.id = by'[s]
                /\ now < r.until /\ r.until <= now + MaxTtl
                /\ Fits(r.want, request'[s].key, request'[s].target)]_allVars

\* A recording holds every frame its session printed, while it was attached,
\* parked and resumed by other connections, and no frame of another session
\* (server.ts 748, 760: the recorder is looked up in the creator's closure).
RecordingIsTheSession ==
    \A f \in Sessions : file[f] # "none" =>
        lines[f] = {<<f, n>> : n \in 1..out[f]}

\* What a connection types is recorded with the session it is attached to,
\* also after it has resumed a session another connection made (835).
TypedWhereItGoes ==
    \A c \in Conns : session[c] # None /\ file[session[c]] # "none" =>
        Recorder(c) = session[c]

\* A recording is open exactly as long as its SSH session may still print, so
\* every way to end a session writes the recording's last line (772).
OpenWhileAlive ==
    \A s \in Sessions : file[s] # "none" =>
        (file[s] = "open") = (ssh[s] \in {"connecting", "rejected", "live"})

\* A recording is that of one session, whoever holds it, open while it lives,
\* and a rule makes one recording, of the session it was armed for.
RecordingsAreApart ==
    /\ [](CapTypeOK /\ RecordingIsTheSession /\ TypedWhereItGoes /\ OpenWhileAlive)
    /\ RuleServesOnce
=============================================================================
