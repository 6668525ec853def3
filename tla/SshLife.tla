------------------------------- MODULE SshLife -------------------------------
(***************************************************************************)
(* What the relay (GatewayTerminal) relies on of one SSH session: it is    *)
(* created or rejected, and its end is reported once, whichever of its     *)
(* connections notices first.                                              *)
(***************************************************************************)
VARIABLE ssh

Init == ssh = "connecting"
Settle == ssh = "connecting" /\ ssh' \in {"live", "rejected"}
End == ssh # "closed" /\ ssh' = "closed"
Next == Settle \/ End
Spec == Init /\ [][Next]_ssh
=============================================================================
