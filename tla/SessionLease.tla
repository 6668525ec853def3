---------------------------- MODULE SessionLease ----------------------------
(***************************************************************************)
(* What the gateway promises about an SSH session, without sockets, timers *)
(* or a registry: it is leased to one connection at a time, a connection   *)
(* has at most one lease, a lease passes from one connection to another    *)
(* only by being parked in between, and once it is over it stays over.     *)
(* GatewayTerminal implements it (ImplementsLease).                        *)
(***************************************************************************)
CONSTANTS Conns, Sessions, None

VARIABLES
    phase,   \* of each session: free (not granted yet), held, parked, over
    holder   \* the connection that holds it, or None

leaseVars == <<phase, holder>>

LeaseTypeOK ==
    /\ phase \in [Sessions -> {"free", "held", "parked", "over"}]
    /\ holder \in [Sessions -> Conns \cup {None}]

Init ==
    /\ phase = [s \in Sessions |-> "free"]
    /\ holder = [s \in Sessions |-> None]

Idle(c) == \A s \in Sessions : holder[s] # c

Move(s, to, c) ==
    /\ phase' = [phase EXCEPT ![s] = to]
    /\ holder' = [holder EXCEPT ![s] = c]

Grant(c, s)  == phase[s] = "free" /\ Idle(c) /\ Move(s, "held", c)
Park(s)      == phase[s] = "held" /\ Move(s, "parked", None)
Resume(c, s) == phase[s] = "parked" /\ Idle(c) /\ Move(s, "held", c)
End(s)       == phase[s] # "over" /\ Move(s, "over", None)

Next ==
    \E s \in Sessions :
        \/ \E c \in Conns : Grant(c, s) \/ Resume(c, s)
        \/ Park(s)
        \/ End(s)

Spec == Init /\ [][Next]_leaseVars
=============================================================================
