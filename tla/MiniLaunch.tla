----------------------------- MODULE MiniLaunch --------------------------------
(***************************************************************************)
(* Starting an AI from the terminal page of the mini-program.  A launch    *)
(* waits for the shell, types a command and, for Codex, holds the output   *)
(* back until a token says how the start went.  The page remembers which   *)
(* AI is in the foreground and refuses another launch; a marker printed at *)
(* its exit, an interrupt or an error releases that lock.                  *)
(***************************************************************************)
EXTENDS Naturals, Sequences, SequencesExt

CONSTANTS
  MaxOut,   \* bound: tokens of remote output under way
  MaxChunk, \* bound: tokens that arrive in one chunk
  Leaves,   \* the page may be hidden and the connection lost
  Quick     \* a launch may come before earlier output, or before a failed guard's release

VARIABLE w
vars == <<w>>

\* busy: aiLaunchBusy; launch: where the launch waits (lost: a promise nobody will
\* settle); kind: what it starts; guard: codexBootstrapGuard (failed: settled, kept
\* until its release); active: activeAiProvider; resume:
\* pendingCodexResumeAfterReconnect; fg, out: the foreground of the remote shell and
\* its output under way; ahead: a command typed before the start was decided; typed: a
\* command was typed into a running program.
Init ==
  w = [busy |-> FALSE, launch |-> "none", kind |-> "none", guard |-> "none",
       active |-> "none", resume |-> FALSE, conn |-> "connecting", shown |-> TRUE,
       fg |-> "shell", out |-> <<>>, ahead |-> "none", typed |-> FALSE]

Ai == {"codex", "copilot"}
Provider(kind) == IF kind = "copilot" THEN "copilot" ELSE "codex"

Sync(n, a) == [n EXCEPT !.active = a, !.resume = @ /\ a # "none"]

Settle(n, ok) ==
  LET e == [n EXCEPT !.busy = FALSE, !.launch = "none", !.kind = "none"]
  IN  IF ok THEN Sync([e EXCEPT !.resume = @ /\ Provider(n.kind) # "codex"], Provider(n.kind)) ELSE e

Foreground(kind) == CASE kind = "codex" -> "boot" [] kind = "resume" -> "codex" [] OTHER -> "copilot"
Typed(n) ==
  CASE n.fg = "shell" -> [n EXCEPT !.fg = Foreground(n.kind)]
    [] n.fg = "boot" -> [n EXCEPT !.ahead = n.kind]
    [] OTHER -> [n EXCEPT !.typed = TRUE]

Go(n) ==
  IF n.kind = "codex"
  THEN IF n.guard # "none" THEN Settle(n, FALSE)
       ELSE Typed([n EXCEPT !.launch = "boot", !.guard = "armed"])
  ELSE Settle(Typed(n), TRUE)

Launch(n, kind) ==
  LET b == [n EXCEPT !.busy = TRUE, !.kind = kind]
  IN  CASE n.busy -> n
        [] ~n.busy /\ n.conn = "ready" -> Go(b)
        [] OTHER -> [b EXCEPT !.launch = "waiting", !.conn = "connecting"]

\* The guard is dropped with its timers; the promise of its launch stays.
ClearGuard(n) ==
  [n EXCEPT !.guard = "none", !.launch = IF @ = "boot" THEN "lost" ELSE @]

ExitToken == [p \in Ai |-> <<"exit", p>>]
Exits(n, chunk) ==
  LET seen == SelectSeq(chunk, LAMBDA t : t[1] = "exit")
  IN  IF seen # <<>> /\ n.active \in {"none", Last(seen)[2]} THEN Sync(n, "none") ELSE n

Has(chunk, k) == \E i \in DOMAIN chunk : chunk[i][1] = k
After(chunk, k) ==
  SubSeq(chunk, 1 + CHOOSE i \in DOMAIN chunk : chunk[i][1] = k, Len(chunk))

\* stdout: the guard first, then the exit markers; the launch goes on after both.
Stdout(n, chunk) ==
  CASE n.guard = "none" -> Exits(n, chunk)
    [] n.guard # "none" /\ Has(chunk, "ready") ->
         LET e == Exits([n EXCEPT !.guard = "none"], After(chunk, "ready"))
         IN  IF n.guard = "armed" THEN Settle(e, TRUE) ELSE e
    [] n.guard = "armed" /\ Has(chunk, "missing") /\ ~Has(chunk, "ready") ->
         Settle([n EXCEPT !.guard = "failed"], FALSE)
    [] OTHER -> n

\* --- the user -----------------------------------------------------------------
Tap(kind) ==
  /\ w.shown /\ w.active = "none" /\ (Quick \/ (w.guard # "failed" /\ w.out = <<>>))
  /\ w' = Launch(w, kind)

\* Ctrl+C: the program ends, with or without its marker, or goes on.
Interrupt ==
  /\ w.shown /\ w.conn # "down" /\ w.active # "none"
  /\ LET n == Sync(w, "none") IN
     \/ w' = n
     \/ w.conn = "ready" /\ w.fg \in Ai /\ w' = [n EXCEPT !.fg = "shell"]
     \/ /\ w.conn = "ready" /\ w.fg \in Ai /\ Len(w.out) < MaxOut
        /\ w' = [n EXCEPT !.fg = "shell", !.out = Append(@, ExitToken[w.fg])]

Hide ==
  /\ Leaves /\ w.shown
  /\ w' = LET c == ClearGuard(w)
          IN  [c EXCEPT !.shown = FALSE, !.conn = "down",
                        !.launch = IF @ = "waiting" THEN "lost" ELSE @]

Show == ~w.shown /\ w' = [w EXCEPT !.shown = TRUE, !.conn = "connecting"]

\* --- timers ---------------------------------------------------------------------
PollReady == w.launch = "waiting" /\ w.conn = "ready" /\ w' = Go(w)
PollGivesUp == w.launch = "waiting" /\ w.conn # "ready" /\ w' = Settle(w, FALSE)
GuardTimeoutSilent == w.guard = "armed" /\ w' = [w EXCEPT !.guard = "none"]
GuardTimeout == w.guard = "armed" /\ w' = Settle([w EXCEPT !.guard = "none"], FALSE)
GuardRelease == w.guard = "failed" /\ w' = ClearGuard(w)

\* --- the connection ---------------------------------------------------------------
Reached(resumed) ==
  /\ w.conn = "connecting" /\ w.shown
  /\ LET n == [w EXCEPT !.conn = "ready", !.resume = FALSE] IN
     w' = IF resumed THEN n
          ELSE LET cold == [n EXCEPT !.fg = "shell", !.out = <<>>, !.ahead = "none"]
               IN  IF w.resume THEN Launch(cold, "resume") ELSE cold

Lost ==
  /\ Leaves /\ w.shown /\ w.conn # "down"
  /\ w' = [ClearGuard(w) EXCEPT !.conn = "connecting", !.resume = w.active = "codex"]

Failed ==
  /\ w.shown /\ w.conn # "down" /\ (Leaves \/ w.launch # "boot")
  /\ w' = Sync([ClearGuard(w) EXCEPT !.conn = "down"], "none")

\* --- the remote shell ----------------------------------------------------------
RemoteStarts(ok) ==
  /\ w.fg = "boot" /\ Len(w.out) < MaxOut
  /\ w' = [w EXCEPT !.fg = CASE ok -> "codex"
                             [] ~ok /\ w.ahead = "none" -> "shell"
                             [] OTHER -> Foreground(w.ahead),
                    !.ahead = "none", !.typed = @ \/ (ok /\ w.ahead # "none"),
                    !.out = Append(@, <<IF ok THEN "ready" ELSE "missing", "codex">>)]

RemoteExits ==
  /\ w.fg \in Ai /\ Len(w.out) < MaxOut
  /\ w' = [w EXCEPT !.fg = "shell", !.out = Append(@, ExitToken[w.fg])]

Deliver(k) ==
  /\ w.conn = "ready" /\ k <= Len(w.out)
  /\ w' = Stdout([w EXCEPT !.out = SubSeq(@, k + 1, Len(@))], SubSeq(w.out, 1, k))

Next ==
  \/ \E kind \in Ai : Tap(kind)
  \/ Interrupt \/ Hide \/ Show \/ PollReady \/ PollGivesUp \/ GuardTimeout \/ GuardRelease
  \/ Lost \/ Failed \/ RemoteExits
  \/ \E b \in BOOLEAN : Reached(b) \/ RemoteStarts(b)
  \/ \E k \in 1 .. MaxChunk : Deliver(k)

Spec == Init /\ [][Next]_vars
\* Timers fire.
Fairness ==
  WF_vars(PollReady \/ PollGivesUp) /\ WF_vars(GuardTimeout) /\ WF_vars(GuardRelease)

\* --- properties ---------------------------------------------------------------
\* Output is held back on behalf of a launch that still waits for it, and a launch
\* that waits for output has a guard whose timer ends it.
GuardHasLaunch == w.guard = "armed" <=> w.launch = "boot"

\* A resume is owed only for a Codex that was in the foreground.
ResumeIsForCodex == w.resume => w.active = "codex"

\* A launch ends, and with it the lock on further launches.
BusyEnds == []<>~w.busy

\* When everything the shell printed has arrived and no program runs, none is
\* remembered as the foreground, unless a launch was typed into a running one.
LockFollowsExit == ~w.typed /\ w.conn = "ready" /\ w.fg = "shell" /\ w.out = <<>> => w.active = "none"

=============================================================================
