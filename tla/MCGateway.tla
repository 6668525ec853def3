------------------------------ MODULE MCGateway ------------------------------
(***************************************************************************)
(* The terminal relay of the gateway.  One run explores several corners of *)
(* its state space, each bounded in other directions; the corner is chosen *)
(* at the beginning.                                                       *)
(***************************************************************************)
EXTENDS GatewayTerminal, TLC

CONSTANTS
    c1, c2, c3, s1, s2, s3, k1, t1, t2,
    Explored   \* the corners a run explores

VARIABLE part  \* the corner this behaviour stays in

Corner(conns, sessions, targets, twice, frames) ==
    [conns |-> conns, sessions |-> sessions, targets |-> targets, inits |-> twice,
     frames |-> frames]

\* What is bounded where: connections, SSH sessions, targets, init frames of a
\* connection, output frames of a session.
Corners ==
    [targets |-> Corner(3, 2, {t1, t2}, 1, 0),
     twice   |-> Corner(2, 3, {t1}, 2, 0),
     output  |-> Corner(3, 1, {t1}, 1, MaxOutput)]

Within(b) ==
    /\ Cardinality({c \in Conns : wsState[c] # "none"}) <= b.conns
    /\ Cardinality({s \in Sessions : ssh[s] # "idle"}) <= b.sessions
    /\ \A s \in Sessions : request[s].target \in b.targets \cup {None} /\ out[s] <= b.frames
    /\ \A c \in Conns : inits[c] <= b.inits

RelayInit == part \in Explored \cap DOMAIN Corners /\ Init
RelayNext == UNCHANGED part /\ Next /\ Within(Corners[part])'
RelaySpec == RelayInit /\ [][RelayNext]_<<part, vars>>

ConnAndSessionSymmetry == Permutations(Conns) \cup Permutations(Sessions)

-----------------------------------------------------------------------------
(* Properties.                                                             *)

\* release.md 243: after a short break of the WebSocket, such as a page reload,
\* the gateway keeps the SSH session waiting to be resumed.  So a live session
\* with a key whose creator's socket closed with a resumable code, and that no
\* connection holds, is parked.
ShortBreakParks ==
    \A s \in Sessions :
        /\ ssh[s] = "live" /\ request[s].key # None
        /\ wsState[owner[s]] = "closed" /\ detail[owner[s]] = "resumable"
        /\ \A c \in Conns : ~Holds(c, s)
        => Parked(s)
=============================================================================
