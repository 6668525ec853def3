------------------------------ MODULE MCShell -------------------------------
(***************************************************************************)
(* Around the shell of an SSH session in the gateway: the connections it   *)
(* runs over, the script that prepares it, the input of the assist path,   *)
(* and the recording of its frames. One run explores each of them; the     *)
(* recording is explored together with the relay it is part of.            *)
(***************************************************************************)
EXTENDS SshBridge, ShellInput, GatewayCapture, TLC

CONSTANTS c1, c2, s1, s2, k1, t1, t2, t3

VARIABLE part  \* the component this behaviour is of

\* What shells print around the script: banner, prompt, echo and noise or none
\* of them, and both ends of a line.
MCTranscripts ==
    [banner : {<<>>, <<"x", "n">>}, prompt : {<<>>, <<"x">>}, echo : BOOLEAN,
     noise : {<<>>, <<"x", "r", "n">>}, echoDone : BOOLEAN, rest : {<<"x">>, <<"n", "x">>},
     eol : {<<"n">>, <<"r", "n">>}]

\* The recorder under the bounds of its parts: one that records every session,
\* two rules that compete, and one that expires.
Capture == INSTANCE GatewayCapture WITH EnvDir <- TRUE, MaxArms <- 0, MaxTime <- 0
Rules == INSTANCE GatewayCapture WITH MaxOutput <- 0, MaxTime <- 0
Expiry == INSTANCE GatewayCapture WITH MaxOutput <- 0, MaxArms <- 1

\* One component runs, the others stay as they start.  Nothing is typed in the
\* parts about rules: it only makes more states.
Parts == {"ssh", "script", "assist", "capture", "rules", "expiry"}
all == <<part, loginVars, shellVars, assistVars, allVars>>

SshInit ==
  /\ part \in Parts
  /\ LoginInit
  /\ part # "ssh" => viaJump /\ trusted = [h \in Hops |-> TRUE]
  /\ ShellInit
  /\ part # "script" => transcript = (CHOOSE t \in Transcripts : TRUE) /\ initState = "done"
  /\ AssistInit
  /\ CapInit

SshNext ==
  /\ UNCHANGED part
  /\ IF part = "ssh" THEN LoginNext ELSE UNCHANGED loginVars
  /\ IF part = "script" THEN ShellNext ELSE UNCHANGED shellVars
  /\ IF part = "assist" THEN AssistNext ELSE UNCHANGED assistVars
  /\ IF part = "capture" THEN Capture!CapNext
     ELSE IF part = "rules" THEN Rules!CapNext /\ UNCHANGED typed
     ELSE IF part = "expiry" THEN Expiry!CapNext /\ UNCHANGED typed
     ELSE UNCHANGED allVars

SshSpec == SshInit /\ [][SshNext]_all

-----------------------------------------------------------------------------
Symmetry == Permutations(Conns) \cup Permutations(Sessions)

\* The user sees the shell's own output, whole and once, however it is cut into
\* chunks, and none of the script that prepares the shell; and also when the
\* script never ends, the banner is not lost (sshSession.ts, initState).
ShellOutputIsShown == ShellTypeOK /\ FilteredExactly /\ BannerKept
=============================================================================
