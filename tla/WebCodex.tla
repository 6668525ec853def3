------------------------------ MODULE WebCodex ------------------------------
(***************************************************************************)
(* Launching Codex from the web client and knowing whether it still runs   *)
(* (apps/web/src/stores/sessionStore.ts): the bootstrap guard that hides   *)
(* the launch script's output and reads its tokens, the exit marker, and   *)
(* the resume command after a reconnect.                                   *)
(*                                                                         *)
(* The remote side is external: a shell that runs the launch script typed  *)
(* into it and whose output travels over the wire.  Output is a sequence   *)
(* of items: the echo of the script (which contains the tokens, but not on *)
(* a line of their own), the token lines, the two parts of the exit        *)
(* marker, and other text.  A chunk is any number of items.                *)
(***************************************************************************)
EXTENDS Integers, Sequences, SequencesExt

CONSTANTS
    MaxWire,     \* bound: items under way
    MaxRuns      \* bound: launches, and losses of the connection

VARIABLES
    conn,        \* "up" or "down"
    fg,          \* external: foreground of the remote shell
    wire,        \* output under way to the client
    provider,    \* activeAiProvider
    carry,       \* aiRuntimeExitCarry
    guard,       \* codexBootstrapGuard: none, active, or failed (to be released)
    run,         \* runCodex: idle, waiting, or the result it has yet to act on
    pending,     \* pendingCodexResumeAfterReconnect
    shown,       \* history: items shown in the terminal
    typed,       \* history: a command was typed into a running Codex by the store
    untold,      \* history: why the store may not know what runs
    runs, losses

vars == <<conn, fg, wire, provider, carry, guard, run, pending, shown, typed, untold, runs, losses>>

Tokens == {"dir", "bin", "ready"}
Marker == {"exitA", "exitB"}

Init ==
    /\ conn = "up" /\ fg = "prompt" /\ wire = <<>> /\ provider = "" /\ carry = FALSE
    /\ guard = "none" /\ run = "idle" /\ pending = FALSE /\ shown = {} /\ typed = FALSE
    /\ untold = {} /\ runs = 0 /\ losses = 0

-----------------------------------------------------------------------------
\* hasCodexBootstrapTokenLine: the token as a line of its own.
HasLine(chunk, token) == token \in Range(chunk)

\* extractAfterFirstCodexBootstrapTokenLine
AfterReady(chunk) ==
    LET at == CHOOSE i \in 1 .. Len(chunk) : chunk[i] = "ready"
    IN SubSeq(chunk, at + 1, Len(chunk))

\* consumeCodexBootstrapOutput: what is left of a chunk, and what becomes of
\* the guard and of the promise of runCodex.
BootstrapOutput(chunk) ==
    IF guard = "none" THEN [out |-> chunk, guard |-> guard, result |-> "none"]
    ELSE IF HasLine(chunk, "ready") THEN [out |-> AfterReady(chunk), guard |-> "none", result |-> "true"]
    ELSE IF guard = "failed" \/ HasLine(chunk, "dir") \/ HasLine(chunk, "bin")
         THEN [out |-> <<>>, guard |-> "failed", result |-> "false"]
    ELSE [out |-> <<>>, guard |-> guard, result |-> "none"]

\* consumeAiRuntimeOutput: complete markers are taken out; the beginning of
\* one at the end of the chunk is kept for the next.
RuntimeOutput(chunk) ==
    LET working == IF carry THEN <<"exitA">> \o chunk ELSE chunk
        exited == "exitB" \in Range(working)
    IN [out |-> SelectSeq(working, LAMBDA x : x \notin Marker), exited |-> exited,
        carry |-> working # <<>> /\ Last(working) = "exitA"]

\* syncActiveAiProvider("")
ForgetProvider == provider' = "" /\ pending' = FALSE

-----------------------------------------------------------------------------
\* A chunk of output arrives.
Deliver(n) ==
    /\ conn = "up" /\ n \in 1 .. Len(wire)
    /\ wire' = SubSeq(wire, n + 1, Len(wire))
    /\ LET boot == BootstrapOutput(SubSeq(wire, 1, n))
           ai == RuntimeOutput(boot.out)
       IN /\ guard' = boot.guard
          /\ shown' = shown \cup Range(ai.out)
          /\ run' = IF run = "waiting" /\ boot.result # "none" THEN boot.result ELSE run
          /\ carry' = (ai.carry /\ ~ai.exited)
          /\ IF ai.exited THEN ForgetProvider ELSE UNCHANGED <<provider, pending>>
          /\ untold' = IF ai.exited /\ run' = "true" THEN untold \cup {"early exit"} ELSE untold
    /\ UNCHANGED <<conn, fg, typed, runs, losses>>

\* runCodex: guard, command, and the wait for its result.  A launch while the
\* guard is up is refused.
RunCodex ==
    /\ conn = "up" /\ runs < MaxRuns /\ runs' = runs + 1
    /\ guard = "none" /\ run = "idle"
    /\ guard' = "active" /\ run' = "waiting"
    /\ IF fg = "prompt" THEN fg' = "boot" /\ wire' = Append(wire, "echo")
       ELSE UNCHANGED <<fg, wire>>
    /\ UNCHANGED <<conn, provider, carry, pending, shown, typed, untold, losses>>

\* runCodex goes on: the command has been logged and the result is there.
RunResumes ==
    /\ run \in {"true", "false"} /\ run' = "idle"
    /\ IF run = "true" THEN provider' = "codex" /\ pending' = FALSE /\ UNCHANGED carry
       ELSE ForgetProvider /\ carry' = FALSE
    /\ untold' = IF run = "false" /\ provider = "codex" THEN untold \cup {"lost"} ELSE untold
    /\ UNCHANGED <<conn, fg, wire, guard, shown, typed, runs, losses>>

\* CODEX_BOOTSTRAP_WAIT_TIMEOUT_MS: the guard goes; runCodex throws, unless
\* the result was there before.
BootstrapTimeout ==
    /\ guard # "none" /\ guard' = "none"
    /\ run' = IF run = "waiting" THEN "idle" ELSE run
    /\ untold' = IF run = "waiting" \/ Range(wire) \cap Tokens # {} THEN untold \cup {"timeout"} ELSE untold
    /\ UNCHANGED <<conn, fg, wire, provider, carry, pending, shown, typed, runs, losses>>

\* CODEX_BOOTSTRAP_RELEASE_DELAY_MS after a failure.
ReleaseGuard ==
    /\ guard = "failed" /\ guard' = "none"
    /\ untold' = IF Range(wire) \cap Tokens # {} THEN untold \cup {"timeout"} ELSE untold
    /\ UNCHANGED <<conn, fg, wire, provider, carry, run, pending, shown, typed, runs, losses>>

\* The disconnect event "ws_closed": a launch under way has failed.  Output on
\* its way may be lost.
ConnectionLost ==
    /\ conn = "up" /\ losses < MaxRuns /\ losses' = losses + 1
    /\ conn' = "down" /\ guard' = "none"
    /\ run' = IF run = "waiting" THEN "false" ELSE run
    /\ pending' = (provider = "codex")
    /\ \E n \in 0 .. Len(wire) :
          /\ wire' = SubSeq(wire, n + 1, Len(wire))
          /\ untold' = IF guard # "none" \/ carry \/ Range(SubSeq(wire, 1, n)) \cap (Marker \cup Tokens) # {}
                       THEN untold \cup {"lost"} ELSE untold
    /\ UNCHANGED <<fg, provider, carry, shown, typed, runs>>

\* The user disconnects, or the session ends for good.
SessionEnds ==
    /\ conn = "up" /\ losses < MaxRuns /\ losses' = losses + 1
    /\ conn' = "down" /\ guard' = "none" /\ carry' = FALSE
    /\ run' = IF run = "waiting" THEN "false" ELSE run
    /\ ForgetProvider /\ fg' = "gone" /\ wire' = <<>>
    /\ UNCHANGED <<shown, typed, untold, runs>>

\* connect() to the same server carries the provider over; when the gateway
\* reports the shell ready, the resume command is typed into a new shell, and
\* only there.
Reconnected(resumed) ==
    /\ conn = "down" /\ conn' = "up" /\ carry' = FALSE /\ pending' = FALSE
    /\ run = "idle"
    /\ IF resumed THEN fg # "gone" /\ UNCHANGED <<wire, shown, untold>>
                  ELSE wire' = <<>> /\ shown' = {} /\ untold' = {}
    /\ LET resume == ~resumed /\ provider = "codex" /\ (pending \/ provider = "codex")
       IN /\ fg' = IF resumed THEN fg ELSE IF resume THEN "codex" ELSE "prompt"
          /\ typed' = (typed \/ (resumed /\ resume))
    /\ UNCHANGED <<provider, guard, run, runs, losses>>

-----------------------------------------------------------------------------
\* External: the launch script checks the directory and the program, prints
\* its token lines, and runs Codex; when Codex ends, the exit marker is printed.
Emit(items) == Len(wire) + Len(items) <= MaxWire /\ wire' = wire \o items
RemoteOnly == UNCHANGED <<conn, provider, carry, guard, run, pending, shown, typed, untold, runs, losses>>
ScriptFails ==
    /\ fg = "boot" /\ fg' = "prompt" /\ RemoteOnly
    /\ \E missing \in {<<"dir">>, <<"bin">>, <<"dir", "bin">>} : Emit(missing)
ScriptReady == fg = "boot" /\ fg' = "codex" /\ Emit(<<"ready">>) /\ RemoteOnly
CodexWrites == fg = "codex" /\ Emit(<<"text">>) /\ UNCHANGED fg /\ RemoteOnly
CodexExits == fg = "codex" /\ fg' = "prompt" /\ Emit(<<"exitA", "exitB">>) /\ RemoteOnly

Next ==
    \/ \E n \in 1 .. MaxWire : Deliver(n)
    \/ RunCodex \/ RunResumes \/ BootstrapTimeout \/ ReleaseGuard
    \/ ConnectionLost \/ SessionEnds
    \/ \E resumed \in BOOLEAN : Reconnected(resumed)
    \/ ScriptFails \/ ScriptReady \/ CodexWrites \/ CodexExits

Spec == Init /\ [][Next]_vars

(* The timers of the guard fire, and awaited calls return. *)
Fairness == WF_vars(BootstrapTimeout) /\ WF_vars(RunResumes)

-----------------------------------------------------------------------------
Quiet == conn = "up" /\ wire = <<>> /\ run = "idle"

\* What the store believes is what runs, once the output has arrived, unless
\* a token or a marker was lost with a connection, a timer cut the launch short, or
\* the exit marker came before runCodex had acted on READY.
LockMatchesShell == Quiet /\ untold = {} => (provider = "codex") = (fg = "codex")

\* Neither the launch script's tokens nor any part of the marker is shown,
\* however the output is cut into chunks, unless a timer of the guard or a
\* lost connection cut it short.
NoiseIsHidden == untold = {} => shown \cap (Tokens \cup Marker \cup {"echo"}) = {}

\* The resume command is never typed into a Codex that is still running.
ResumeOnlyIntoShell == ~typed

\* A launch comes to an end, and the output is no longer held back.
LaunchEnds == []<>(guard = "none" /\ run = "idle")

=============================================================================
