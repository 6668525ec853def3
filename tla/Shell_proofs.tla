---------------------------- MODULE Shell_proofs ----------------------------
(***************************************************************************)
(* Proofs about the SSH session of the gateway.  Of SshBridge: its events   *)
(* amount to the life cycle the relay is written for (SshLife), and no     *)
(* credential is offered to a host that was not verified, for both values  *)
(* of viaJump and trusted.  Of ShellInput: the input of the assist path    *)
(* reaches the shell once, for every time to live and every size of the    *)
(* table.                                                                  *)
(***************************************************************************)
EXTENDS SshBridge, ShellInput, FiniteSetTheorems, WellFoundedInduction, TLAPS

-----------------------------------------------------------------------------
(* SshBridge.                                                              *)

\* The end is reported when the flag is set, and then once.
ReportInv ==
  /\ reports \in {0, 1}
  /\ closeReported <=> (reports = 1)

PromiseInv == promise \in {"pending", "resolved", "rejected"}

LInv == ReportInv /\ PromiseInv

\* A hop that is to offer a credential was verified; through a jump host the
\* target is only reached after the jump host was.
Verified(h) == h \in shownKeys /\ trusted[h]
VInv ==
  /\ conn \in [Hops -> ConnStates]
  /\ \A h \in Hops : conn[h] \in {"auth", "ready"} => Verified(h)
  /\ viaJump /\ (forwarding \/ conn["target"] # "idle") => Verified("jump")
  /\ forwarding => viaJump
  /\ conn["jump"] # "idle" => viaJump
-----------------------------------------------------------------------------
LEMMA InitLInv == LoginInit => LInv
BY DEF LoginInit, LInv, ReportInv, PromiseInv

\* What each event does to the settlement and to the reports: nothing, a first
\* settlement, or a report.
Settles == /\ promise' \in {promise} \cup (IF promise = "pending" THEN {"resolved", "rejected"} ELSE {})
           /\ UNCHANGED <<reports, closeReported>>
Reports == ReportCloseOnce /\ UNCHANGED promise

LEMMA StepKinds == [LoginNext]_loginVars => Settles \/ Reports
<1> SUFFICES ASSUME [LoginNext]_loginVars PROVE Settles \/ Reports
  OBVIOUS
<1>1. ASSUME NEW h \in Hops, VerifyHost(h) PROVE Settles
  BY <1>1 DEF VerifyHost, OnError, Settles
<1>2. ASSUME NEW h \in Hops, ConnError(h) PROVE Settles
  BY <1>2 DEF ConnError, OnError, Settles
<1>3. ASSUME NEW h \in Hops, ConnClosed(h) PROVE Reports
  BY <1>3 DEF ConnClosed, Reports
<1>4. CASE JumpReady
  BY <1>4 DEF JumpReady, Settles
<1>5. CASE Forwarded
  BY <1>5 DEF Forwarded, OnError, Settles
<1>6. CASE TargetReady
  BY <1>6 DEF TargetReady, Settles
<1>7. CASE ShellOpens
  BY <1>7 DEF ShellOpens, Settles
<1>8. CASE ShellFails
  BY <1>8 DEF ShellFails, OnError, Settles
<1>9. CASE ShellClosed
  BY <1>9 DEF ShellClosed, Reports
<1>10. CASE CloseCalled
  BY <1>10 DEF CloseCalled, Reports
<1>11. CASE UNCHANGED loginVars
  BY <1>11 DEF loginVars, Settles
<1> QED
  BY <1>1, <1>2, <1>3, <1>4, <1>5, <1>6, <1>7, <1>8, <1>9, <1>10, <1>11 DEF LoginNext

LEMMA StepLInv == LInv /\ [LoginNext]_loginVars => LInv'
<1> SUFFICES ASSUME LInv, [LoginNext]_loginVars PROVE LInv'
  OBVIOUS
<1>1. CASE Settles
  BY <1>1 DEF Settles, LInv, ReportInv, PromiseInv
<1>2. CASE Reports
  <2>1. reports' = 1 /\ closeReported' = TRUE
    BY <1>2 DEF Reports, ReportCloseOnce, LInv, ReportInv
  <2> QED  BY <1>2, <2>1 DEF Reports, LInv, ReportInv, PromiseInv
<1> QED  BY <1>1, <1>2, StepKinds

LEMMA LInvariance == LoginSpec => []LInv
BY InitLInv, StepLInv, PTL DEF LoginSpec
-----------------------------------------------------------------------------
\* The life cycle's only variable, as the refinement of SshBridge has it.
Phase == IF reports > 0 THEN "closed"
         ELSE IF promise = "resolved" THEN "live"
         ELSE IF promise = "rejected" THEN "rejected" ELSE "connecting"

LEMMA InitLife == LoginInit => Life!Init
BY DEF LoginInit, Life!Init

LEMMA StepLife == LInv /\ [LoginNext]_loginVars => [Life!Next]_Phase
<1> SUFFICES ASSUME LInv, [LoginNext]_loginVars PROVE [Life!Next]_Phase
  OBVIOUS
<1> USE DEF Phase, Life!Next, Life!Settle, Life!End
<1>1. CASE Settles
  <2>1. CASE promise' = promise
    BY <1>1, <2>1 DEF Settles
  <2>2. CASE promise = "pending" /\ promise' \in {"resolved", "rejected"}
    BY <1>1, <2>2 DEF Settles, LInv, ReportInv
  <2> QED  BY <1>1, <2>1, <2>2 DEF Settles
<1>2. CASE Reports
  <2>1. reports' = 1
    BY <1>2 DEF Reports, ReportCloseOnce, LInv, ReportInv
  <2>2. CASE reports = 1
    BY <2>1, <2>2
  <2>3. CASE reports = 0
    BY <2>1, <2>3, <1>2 DEF Reports, LInv, PromiseInv
  <2> QED  BY <2>2, <2>3 DEF LInv, ReportInv
<1> QED  BY <1>1, <1>2, StepKinds

\* The events of two connections, a channel and the owner, in any order, amount
\* to the life cycle of SshLife: settled at most once, closed at most once, and
\* never alive again after that.
THEOREM Implementation == LoginSpec => ImplementsLife
<1>1. LInv /\ [LoginNext]_loginVars => [Life!Next]_Phase
  BY StepLife
<1> QED  BY <1>1, InitLife, LInvariance, PTL DEF LoginSpec, ImplementsLife, Life!Spec, Phase

\* onClose is called once, however many parts of the session close: closeReported.
THEOREM EndReportedOnce == LoginSpec => []ReportedOnce
<1>1. LInv => ReportedOnce
  BY DEF LInv, ReportInv, ReportedOnce
<1> QED  BY <1>1, LInvariance, PTL
-----------------------------------------------------------------------------
LEMMA EndedStates == \A h \in Hops : AfterEnd(h) \in {conn[h], "ending"}
BY DEF AfterEnd

\* Ending both connections offers no credential and opens no connection.
LEMMA StepEnd == VInv /\ EndBoth /\ UNCHANGED <<viaJump, trusted>> /\ shownKeys \subseteq shownKeys'
                   /\ (forwarding' => forwarding) => VInv'
<1> SUFFICES ASSUME VInv, EndBoth, UNCHANGED <<viaJump, trusted>>, shownKeys \subseteq shownKeys',
                    forwarding' => forwarding
             PROVE  VInv'
  OBVIOUS
<1>1. \A h \in Hops : conn'[h] \in {conn[h], "ending"}
  BY EndedStates DEF EndBoth
<1>2. conn' \in [Hops -> ConnStates]
  BY EndedStates DEF EndBoth, VInv, ConnStates
<1>3. \A h \in Hops : conn'[h] = "idle" <=> conn[h] = "idle"
  BY DEF EndBoth, AfterEnd, Alive
<1> QED  BY <1>1, <1>2, <1>3 DEF VInv, Verified, Hops

LEMMA InitVInv == LoginInit => VInv
<1> SUFFICES ASSUME LoginInit PROVE VInv
  OBVIOUS
<1>1. conn \in [Hops -> ConnStates] /\ \A h \in Hops : conn[h] \in {"idle", "connecting"}
  BY DEF LoginInit, ConnStates
<1>2. (viaJump => conn["target"] = "idle") /\ (conn["jump"] # "idle" => viaJump)
  BY DEF LoginInit, Hops
<1> QED  BY <1>1, <1>2 DEF LoginInit, VInv

LEMMA StepVInv == VInv /\ [LoginNext]_loginVars => VInv'
<1> SUFFICES ASSUME VInv, [LoginNext]_loginVars PROVE VInv'
  OBVIOUS
<1>1. ASSUME NEW h \in Hops, VerifyHost(h) PROVE VInv'
  <2>1. CASE trusted[h] /\ conn' = [conn EXCEPT ![h] = "auth"]
    BY <1>1, <2>1 DEF VerifyHost, VInv, Verified, ConnStates, Hops
  <2>2. CASE OnError
    BY <1>1, <2>2, StepEnd DEF VerifyHost, OnError
  <2> QED  BY <1>1, <2>1, <2>2 DEF VerifyHost
<1>2. ASSUME NEW h \in Hops, ConnError(h) PROVE VInv'
  BY <1>2, StepEnd DEF ConnError, OnError
<1>3. ASSUME NEW h \in Hops, ConnClosed(h) PROVE VInv'
  BY <1>3 DEF ConnClosed, VInv, Verified, ConnStates, Hops
<1>4. CASE JumpReady
  BY <1>4 DEF JumpReady, VInv, Verified, ConnStates, Hops
<1>5. CASE Forwarded
  <2>1. CASE conn' = [conn EXCEPT !["target"] = "connecting"]
    BY <1>5, <2>1 DEF Forwarded, VInv, Verified, ConnStates, Hops
  <2>2. CASE OnError
    BY <1>5, <2>2, StepEnd DEF Forwarded, OnError
  <2> QED  BY <1>5, <2>1, <2>2 DEF Forwarded
<1>6. CASE TargetReady
  BY <1>6 DEF TargetReady, VInv, Verified, ConnStates, Hops
<1>7. CASE ShellOpens
  BY <1>7 DEF ShellOpens, VInv, Verified
<1>8. CASE ShellFails
  BY <1>8, StepEnd DEF ShellFails, OnError
<1>9. CASE ShellClosed
  BY <1>9, StepEnd DEF ShellClosed
<1>10. CASE CloseCalled
  BY <1>10, StepEnd DEF CloseCalled
<1>11. CASE UNCHANGED loginVars
  BY <1>11 DEF loginVars, VInv, Verified
<1> QED
  BY <1>1, <1>2, <1>3, <1>4, <1>5, <1>6, <1>7, <1>8, <1>9, <1>10, <1>11 DEF LoginNext

\* A credential is only offered to a host whose key was reported and accepted,
\* and to a target behind a jump host only through a verified one: hostVerifier.
THEOREM HostsAreVerified == LoginSpec => []VerifiedBeforeAuth
<1>1. VInv => VerifiedBeforeAuth
  BY DEF VInv, VerifiedBeforeAuth, Verified, Hops
<1> QED  BY <1>1, InitVInv, StepVInv, PTL DEF LoginSpec

\* A login reports its end once and offers a credential to nobody who was not
\* verified, for both values of viaJump and trusted.
THEOREM LoginStaysSafe == LoginSpec => []LoginIsSafe
<1>1. ReportedOnce /\ VerifiedBeforeAuth => LoginIsSafe
  BY DEF LoginIsSafe
<1> QED  BY <1>1, EndReportedOnce, HostsAreVerified, PTL

-----------------------------------------------------------------------------
(* ShellInput: the assist path.  What a later frame meets in the table has  *)
(* to be tied to what the log says was written: each entry is the last      *)
(* written frame of its transaction, and a written frame without its entry  *)
(* is too old or was crowded out.                                           *)

Frames == [id : Txns, written : BOOLEAN, at : Nat, conn : Nat]
AssistTypeInv ==
    /\ clock \in Nat /\ connNo \in Nat
    /\ log \in Seq(Frames)
    /\ \A i \in DOMAIN log : log[i].at <= clock /\ log[i].conn <= connNo

\* An entry e of the table after the frames of lg, on the connection c.
IsLast(e, lg, c) ==
    /\ e = [id |-> e.id, at |-> e.at, nr |-> e.nr]
    /\ e.nr \in DOMAIN lg
    /\ lg[e.nr].written /\ lg[e.nr].id = e.id /\ lg[e.nr].at = e.at /\ lg[e.nr].conn = c
    /\ \A m \in DOMAIN lg : m > e.nr /\ lg[m].written => lg[m].id # e.id

\* Why frame i has no entry: it is older than the time to live, or enough were
\* written after it.
Forgotten(i, lg) ==
    \/ clock - lg[i].at > TtlMs
    \/ Cardinality({k \in (i + 1)..Len(lg) : lg[k].written}) >= CacheLimit

\* A written frame of connection c that no later one repeats is in the table
\* or forgotten.
Accounted(i, table, lg, c) ==
    (/\ lg[i].written /\ lg[i].conn = c
     /\ \A m \in DOMAIN lg : m > i /\ lg[m].written => lg[m].id # lg[i].id)
      => Forgotten(i, lg) \/ \E e \in table : e.nr = i

TableInv ==
    /\ IsFiniteSet(seenAt) /\ Cardinality(seenAt) <= CacheLimit
    /\ \A e \in seenAt : IsLast(e, log, connNo)
    /\ \A i \in DOMAIN log : Accounted(i, seenAt, log, connNo)

AssistInv == AssistTypeInv /\ TableInv /\ WrittenOnce /\ DroppedOnlyIfRecent

-----------------------------------------------------------------------------
\* A nonempty set of natural numbers has a least element: with an element n,
\* the intervals 1..i of its elements i up to n are finite sets, well-founded
\* by strict inclusion.
LEMMA LeastNatural ==
    ASSUME NEW T \in SUBSET Nat, T # {}
    PROVE  \E d \in T : \A i \in T : d <= i
<1>1. PICK n \in T : TRUE
  OBVIOUS
<1> DEFINE S == 1..n
           Intervals == {1..i : i \in {j \in T : j <= n}}
<1>2. IsWellFoundedOn(StrictSubsetOrdering(S), SUBSET S)
  <2>1. IsFiniteSet(S)
    BY <1>1, FS_Interval
  <2> HIDE DEF S
  <2> QED BY <2>1, FS_FiniteSubsetsOfFinite, FS_StrictSubsetOrderingWellFounded
<1>3. Intervals \subseteq SUBSET S /\ Intervals # {}
  <2>1. n \in {j \in T : j <= n} /\ \A i \in {j \in T : j <= n} : 1..i \subseteq S
    BY <1>1
  <2> QED BY <2>1, Zenon
<1>4. PICK X \in Intervals : \A Y \in Intervals : ~(<<Y, X>> \in StrictSubsetOrdering(S))
  <2> HIDE DEF Intervals, S
  <2> QED BY <1>2, <1>3, WFMin
<1>5. PICK d \in {j \in T : j <= n} : X = 1..d
  OBVIOUS
<1>6. ASSUME NEW i \in T, i < d PROVE FALSE
  <2>1. 1..i \subseteq 1..d /\ d \in 1..d /\ d \notin 1..i
    BY <1>6
  <2>2. i <= n
    BY <1>1, <1>5, <1>6
  <2>3. <<1..i, X>> \in StrictSubsetOrdering(S)
    BY <2>1, <1>5, <1>3, <2>2 DEF StrictSubsetOrdering
  <2> QED BY <2>3, <2>2, <1>4
<1> QED BY <1>6

\* The oldest entry of a table is one of its entries, and older than the others.
LEMMA OldestIsLeast ==
    ASSUME NEW S, S # {}, \A e \in S : e.nr \in Nat
    PROVE  Oldest(S) \in S /\ \A e \in S : Oldest(S).nr <= e.nr
<1> DEFINE T == {e.nr : e \in S}
<1>1. T \in SUBSET Nat /\ T # {}
  OBVIOUS
<1>2. PICK d \in T : \A i \in T : d <= i
  BY <1>1, LeastNatural
<1>3. \E e \in S : \A x \in S : e.nr <= x.nr
  BY <1>2
<1> QED BY <1>3 DEF Oldest

\* Entries with numbers of their own are no more than the numbers they have.
LEMMA EntriesAreFrames ==
    ASSUME NEW S, NEW K, IsFiniteSet(K),
           \A e \in S : e.nr \in K,
           \A e, x \in S : e.nr = x.nr => e = x
    PROVE  IsFiniteSet(S) /\ Cardinality(S) <= Cardinality(K)
<1> DEFINE f == [e \in S |-> e.nr]
<1>1. f \in [S -> K] /\ \A e, x \in S : f[e] = f[x] => e = x
  OBVIOUS
<1>2. f \in Injection(S, K)
  BY <1>1 DEF Injection, IsInjective
<1> QED BY <1>2, FS_Injection

-----------------------------------------------------------------------------
LEMMA AssistInitially == AssistInit => AssistInv
<1> SUFFICES ASSUME AssistInit PROVE AssistInv
  OBVIOUS
<1>1. DOMAIN log = {} /\ log \in Seq(Frames)
  BY DEF AssistInit
<1>2. IsFiniteSet(seenAt) /\ Cardinality(seenAt) = 0
  BY FS_EmptySet DEF AssistInit
<1> QED BY <1>1, <1>2, AssistAssumption
        DEF AssistInit, AssistInv, AssistTypeInv, TableInv, WrittenOnce, DroppedOnlyIfRecent

LEMMA FramesTyped ==
    ASSUME AssistTypeInv, NEW i \in DOMAIN log
    PROVE  log[i].at \in Nat /\ log[i].conn \in Nat
<1>1. log[i] \in Frames
  BY DEF AssistTypeInv
<1> QED BY <1>1 DEF Frames

\* What a frame appends to the log, and what it leaves of it.
LEMMA LogGrows ==
    ASSUME AssistTypeInv, NEW n \in Nat, n = Len(log) + 1,
           NEW id \in Txns, NEW w \in BOOLEAN,
           log' = Append(log, [id |-> id, written |-> w, at |-> clock, conn |-> connNo])
    PROVE  /\ n \notin DOMAIN log /\ DOMAIN log' = DOMAIN log \cup {n}
           /\ Len(log') = n /\ DOMAIN log = 1..Len(log)
           /\ \A i \in DOMAIN log : log'[i] = log[i] /\ i < n /\ i \in Nat
           /\ log'[n] = [id |-> id, written |-> w, at |-> clock, conn |-> connNo]
           /\ log' \in Seq(Frames)
<1>1. [id |-> id, written |-> w, at |-> clock, conn |-> connNo] \in Frames
  BY DEF AssistTypeInv, Frames
<1> QED BY <1>1 DEF AssistTypeInv

\* The frames written between two of the log stay those.
LEMMA BetweenStays ==
    ASSUME AssistTypeInv, NEW n \in Nat, n = Len(log) + 1,
           NEW id \in Txns, NEW w \in BOOLEAN,
           log' = Append(log, [id |-> id, written |-> w, at |-> clock, conn |-> connNo]),
           NEW i \in DOMAIN log, NEW j \in DOMAIN log'
    PROVE  /\ WrittenBetween(i, j)' = WrittenBetween(i, j)
           /\ WrittenBetween(i, j) \subseteq DOMAIN log
<1>1. \A k \in (i + 1)..(j - 1) : k \in DOMAIN log /\ log'[k] = log[k]
  BY LogGrows
<1> QED BY <1>1 DEF WrittenBetween

\* The log's own properties carry over to the frames it had.
LEMMA OldFramesStay ==
    ASSUME AssistTypeInv, WrittenOnce, DroppedOnlyIfRecent, NEW n \in Nat, n = Len(log) + 1,
           NEW id \in Txns, NEW w \in BOOLEAN,
           log' = Append(log, [id |-> id, written |-> w, at |-> clock, conn |-> connNo]),
           \A i \in DOMAIN log : Repeats(i, n)' /\ w =>
               clock - log[i].at > TtlMs \/ Cardinality(WrittenBetween(i, n)) >= CacheLimit,
           ~w => \E i \in DOMAIN log : Repeats(i, n)' /\ clock - log[i].at <= TtlMs
    PROVE  WrittenOnce' /\ DroppedOnlyIfRecent'
<1>1. \A i, j \in DOMAIN log : Repeats(i, j)' <=> Repeats(i, j)
  <2> SUFFICES ASSUME NEW i \in DOMAIN log, NEW j \in DOMAIN log
               PROVE  Repeats(i, j)' <=> Repeats(i, j)
    OBVIOUS
  <2>1. WrittenBetween(i, j)' = WrittenBetween(i, j) /\ WrittenBetween(i, j) \subseteq DOMAIN log
    BY BetweenStays, LogGrows
  <2>2. \A k \in DOMAIN log : log'[k] = log[k]
    BY LogGrows
  <2> QED BY <2>1, <2>2 DEF Repeats
<1>2. ASSUME NEW i \in DOMAIN log', NEW j \in DOMAIN log', Repeats(i, j)', log'[j].written
      PROVE  log'[j].at - log'[i].at > TtlMs \/ Cardinality(WrittenBetween(i, j))' >= CacheLimit
  <2>1. i \in DOMAIN log /\ (j \in DOMAIN log \/ j = n)
    BY <1>2, LogGrows DEF Repeats
  <2>2. WrittenBetween(i, j)' = WrittenBetween(i, j)
    BY <2>1, BetweenStays
  <2>3. CASE j \in DOMAIN log
    BY <2>1, <2>2, <2>3, <1>1, <1>2, LogGrows DEF WrittenOnce
  <2>4. CASE j = n
    <3>1. w /\ log'[j].at = clock /\ log'[i].at = log[i].at
      BY <1>2, <2>1, <2>4, LogGrows
    <3> QED BY <3>1, <2>1, <2>2, <2>4, <1>2
  <2> QED BY <2>1, <2>3, <2>4
<1>3. ASSUME NEW j \in DOMAIN log', ~log'[j].written
      PROVE  \E i \in DOMAIN log' : Repeats(i, j)' /\ log'[j].at - log'[i].at <= TtlMs
  <2>1. CASE j \in DOMAIN log
    <3>1. PICK i \in DOMAIN log : Repeats(i, j) /\ log[j].at - log[i].at <= TtlMs
      BY <1>3, <2>1, LogGrows DEF DroppedOnlyIfRecent
    <3> QED BY <3>1, <1>1, <2>1, LogGrows
  <2>2. CASE j = n
    <3>1. ~w /\ log'[j].at = clock
      BY <1>3, <2>2, LogGrows
    <3>2. PICK i \in DOMAIN log : Repeats(i, n)' /\ clock - log[i].at <= TtlMs
      BY <3>1
    <3>3. i \in DOMAIN log' /\ log'[i] = log[i]
      BY <3>2, LogGrows
    <3> QED BY <3>1, <3>2, <3>3, <2>2
  <2> QED BY <2>1, <2>2, LogGrows
<1>4. WrittenOnce'
  BY <1>2 DEF WrittenOnce
<1>5. DroppedOnlyIfRecent'
  BY <1>3 DEF DroppedOnlyIfRecent
<1> QED BY <1>4, <1>5

-----------------------------------------------------------------------------
\* More frames make no forgotten frame known again.
LEMMA ForgottenStays ==
    ASSUME AssistTypeInv, NEW n \in Nat, n = Len(log) + 1,
           NEW id \in Txns, NEW w \in BOOLEAN,
           log' = Append(log, [id |-> id, written |-> w, at |-> clock, conn |-> connNo]),
           clock' = clock, NEW i \in DOMAIN log, Forgotten(i, log)
    PROVE  Forgotten(i, log)'
<1> DEFINE K == {k \in (i + 1)..Len(log) : log[k].written}
           L == {k \in (i + 1)..Len(log') : log'[k].written}
<1>1. log'[i] = log[i]
  BY LogGrows
<1>2. CASE clock - log[i].at > TtlMs
  BY <1>1, <1>2 DEF Forgotten
<1>3. CASE Cardinality(K) >= CacheLimit
  <2>1. (i + 1)..Len(log') \subseteq 1..n /\ IsFiniteSet(1..n)
    <3>1. i \in Nat /\ Len(log') = n
      BY LogGrows
    <3>2. IsFiniteSet(1..n)
      BY FS_Interval
    <3> QED BY <3>1, <3>2
  <2>2. K \subseteq L
    BY LogGrows
  <2>3. L \in SUBSET (1..n)
    BY <2>1
  <2>4. IsFiniteSet(L)
    BY <2>1, <2>3, FS_Subset
  <2>5. IsFiniteSet(K) /\ Cardinality(K) <= Cardinality(L)
    <3> HIDE DEF K, L
    <3> QED BY <2>2, <2>4, FS_Subset
  <2>6. Cardinality(K) \in Nat /\ Cardinality(L) \in Nat
    BY <2>4, <2>5, FS_CardinalityType
  <2>7. Cardinality(L) >= CacheLimit
    <3> HIDE DEF K, L
    <3> QED BY <1>3, <2>5, <2>6, AssistAssumption
  <2> QED BY <2>7 DEF Forgotten
<1> QED BY <1>2, <1>3 DEF Forgotten

\* A frame that no later one repeats, before and after the next frame: it is
\* forgotten or still remembered.
LEMMA AccountedNext ==
    ASSUME AssistTypeInv, TableInv, NEW n \in Nat, n = Len(log) + 1,
           NEW id \in Txns, NEW w \in BOOLEAN,
           log' = Append(log, [id |-> id, written |-> w, at |-> clock, conn |-> connNo]),
           clock' = clock, NEW i \in DOMAIN log,
           log[i].written, log[i].conn = connNo,
           \A m \in DOMAIN log : m > i /\ log[m].written => log[m].id # log[i].id
    PROVE  Forgotten(i, log)' \/ \E e \in Remembered : e.nr = i
<1>1. CASE Forgotten(i, log)
  BY <1>1, ForgottenStays
<1>2. ASSUME NEW e \in seenAt, e.nr = i PROVE Forgotten(i, log)' \/ e \in Remembered
  <2>1. e.at = log[i].at /\ log'[i] = log[i]
    BY <1>2, LogGrows DEF TableInv, IsLast
  <2> QED BY <2>1 DEF Remembered, Forgotten
<1>3. Accounted(i, seenAt, log, connNo)
  BY DEF TableInv
<1> QED BY <1>1, <1>2, <1>3 DEF Accounted

\* An entry stays the last frame of its transaction when that is not written
\* again.
LEMMA LastStays ==
    ASSUME AssistTypeInv, NEW n \in Nat, n = Len(log) + 1,
           NEW id \in Txns, NEW w \in BOOLEAN,
           log' = Append(log, [id |-> id, written |-> w, at |-> clock, conn |-> connNo]),
           NEW e, IsLast(e, log, connNo), w => e.id # id
    PROVE  IsLast(e, log', connNo)
BY LogGrows DEF IsLast

LEMMA RememberedIsTable ==
    ASSUME TableInv
    PROVE  /\ Remembered \subseteq seenAt
           /\ IsFiniteSet(Remembered) /\ Cardinality(Remembered) <= CacheLimit
<1>1. Remembered \subseteq seenAt
  BY DEF Remembered
<1>2. IsFiniteSet(Remembered) /\ Cardinality(Remembered) <= Cardinality(seenAt)
  BY <1>1, FS_Subset DEF TableInv
<1>3. Cardinality(Remembered) \in Nat /\ Cardinality(seenAt) \in Nat
  BY <1>2, FS_CardinalityType DEF TableInv
<1> QED BY <1>1, <1>2, <1>3, AssistAssumption DEF TableInv

\* A frame whose transaction is remembered: dropped, and rightly.
LEMMA DuplicateStep ==
    ASSUME AssistInv, NEW id \in Txns, NEW d \in Remembered, d.id = id,
           seenAt' = Remembered, UNCHANGED <<clock, connNo>>,
           log' = Append(log, [id |-> id, written |-> FALSE, at |-> clock, conn |-> connNo])
    PROVE  TableInv' /\ WrittenOnce' /\ DroppedOnlyIfRecent'
<1> USE DEF AssistInv
<1>1. PICK n \in Nat : n = Len(log) + 1
  BY DEF AssistTypeInv
<1>2. d \in seenAt /\ IsLast(d, log, connNo)
  BY RememberedIsTable DEF TableInv
<1>3. Repeats(d.nr, n)' /\ clock - log[d.nr].at <= TtlMs /\ d.nr \in DOMAIN log
  <2>1. d.nr \in DOMAIN log /\ log[d.nr].at = d.at /\ d.at \in Nat
    <3>1. d.nr \in DOMAIN log /\ log[d.nr].at = d.at
      BY <1>2 DEF IsLast
    <3>2. log[d.nr] \in Frames
      BY <3>1 DEF AssistTypeInv
    <3> QED BY <3>1, <3>2 DEF Frames
  <2>2. clock - d.at <= TtlMs
    BY <2>1, AssistAssumption DEF Remembered, AssistTypeInv
  <2>3. Repeats(d.nr, n)'
    BY <1>1, <1>2, LogGrows DEF Repeats, WrittenBetween, IsLast
  <2> QED BY <2>1, <2>2, <2>3
<1>4. WrittenOnce' /\ DroppedOnlyIfRecent'
  BY <1>1, <1>3, OldFramesStay
<1>5. \A e \in seenAt' : IsLast(e, log, connNo)'
  BY <1>1, LastStays, RememberedIsTable DEF TableInv
<1>6. ASSUME NEW i \in DOMAIN log', log'[i].written, log'[i].conn = connNo,
             \A m \in DOMAIN log' : m > i /\ log'[m].written => log'[m].id # log'[i].id
      PROVE  Forgotten(i, log)' \/ \E e \in seenAt' : e.nr = i
  <2>1. i \in DOMAIN log
    BY <1>1, <1>6, LogGrows
  <2>2. \A m \in DOMAIN log : m \in DOMAIN log' /\ log'[m] = log[m]
    BY <1>1, LogGrows
  <2>3. log[i].written /\ log[i].conn = connNo
        /\ \A m \in DOMAIN log : m > i /\ log[m].written => log[m].id # log[i].id
    BY <1>6, <2>1, <2>2
  <2> QED BY <1>1, <2>1, <2>3, AccountedNext
<1>7. \A i \in DOMAIN log' : Accounted(i, seenAt, log, connNo)'
  BY <1>6 DEF Accounted
<1> QED BY <1>4, <1>5, <1>7, RememberedIsTable DEF TableInv

\* A frame whose transaction is not remembered: written, entered, and the
\* oldest entry makes room.
LEMMA NewStep ==
    ASSUME AssistInv, NEW id \in Txns, \A e \in Remembered : e.id # id,
           seenAt' = RememberTxn(Remembered, id), UNCHANGED <<clock, connNo>>,
           log' = Append(log, [id |-> id, written |-> TRUE, at |-> clock, conn |-> connNo])
    PROVE  TableInv' /\ WrittenOnce' /\ DroppedOnlyIfRecent'
<1> USE DEF AssistInv
<1>1. PICK n \in Nat : n = Len(log) + 1
  BY DEF AssistTypeInv
<1> DEFINE new == [id |-> id, at |-> clock, nr |-> n]
           grown == Remembered \cup {new}
<1>3. \A e \in grown : IsLast(e, log, connNo)'
  <2>1. \A e \in Remembered : IsLast(e, log', connNo)
    BY <1>1, LastStays, RememberedIsTable DEF TableInv
  <2>2. IsLast(new, log', connNo)
    BY <1>1, LogGrows DEF IsLast
  <2> QED BY <2>1, <2>2 DEF IsLast
<1>4. \A e, x \in grown : e.nr = x.nr => e = x
  BY <1>3 DEF IsLast
<1>5. \A e \in grown : e.nr \in 1..n
  BY <1>1, <1>3, LogGrows DEF IsLast
<1>6. IsFiniteSet(grown) /\ Cardinality(grown) \in Nat /\ Cardinality(grown) <= CacheLimit + 1
  <2>1. IsFiniteSet(Remembered) /\ Cardinality(Remembered) \in Nat /\ Cardinality(Remembered) <= CacheLimit
    BY RememberedIsTable, FS_CardinalityType
  <2>2. IsFiniteSet(grown) /\ Cardinality(grown) \in {Cardinality(Remembered), Cardinality(Remembered) + 1}
    <3> HIDE DEF new
    <3> QED BY <2>1, FS_AddElement
  <2> HIDE DEF grown
  <2> QED BY <2>1, <2>2, AssistAssumption
<1>7. PICK old \in grown : old = Oldest(grown) /\ \A e \in grown : old.nr <= e.nr
  <2>1. \A e \in grown : e.nr \in Nat
    BY <1>5
  <2>2. grown # {}
    OBVIOUS
  <2> HIDE DEF grown
  <2> QED BY <2>1, <2>2, OldestIsLeast
<1>2. seenAt' = IF Cardinality(grown) > CacheLimit THEN grown \ {old} ELSE grown
  BY <1>1, <1>7 DEF RememberTxn, Entry
<1> DEFINE rest == grown \ {old}
<1>8. IsFiniteSet(rest) /\ Cardinality(rest) = Cardinality(grown) - 1
  <2> HIDE DEF grown
  <2> QED BY <1>6, <1>7, FS_RemoveElement
<1>9. IsFiniteSet(seenAt') /\ Cardinality(seenAt') <= CacheLimit /\ seenAt' \subseteq grown
  <2> HIDE DEF grown
  <2>1. CASE Cardinality(grown) > CacheLimit
    BY <1>2, <1>6, <1>8, <2>1, AssistAssumption
  <2>2. CASE ~(Cardinality(grown) > CacheLimit)
    BY <1>2, <1>6, <2>2, AssistAssumption
  <2> QED BY <2>1, <2>2
<1>10. ASSUME Cardinality(grown) > CacheLimit PROVE Forgotten(old.nr, log)'
  <2> DEFINE K == {k \in (old.nr + 1)..Len(log') : log'[k].written}
  <2>1. Len(log') = n /\ old.nr \in 1..n
    BY <1>1, <1>5, <1>7, LogGrows
  <2>2. \A e \in rest : e.nr \in K
    <3> SUFFICES ASSUME NEW e \in grown, e # old PROVE e.nr \in K
      OBVIOUS
    <3>1. e.nr # old.nr /\ old.nr <= e.nr
      BY <1>4, <1>7
    <3>2. e.nr \in 1..n /\ log'[e.nr].written
      BY <1>3, <1>5 DEF IsLast
    <3> QED BY <2>1, <3>1, <3>2
  <2>3. IsFiniteSet(K)
    <3>1. IsFiniteSet(1..n)
      BY FS_Interval
    <3>2. K \subseteq 1..n
      BY <2>1
    <3> HIDE DEF K
    <3> QED BY <3>1, <3>2, FS_Subset
  <2>4. Cardinality(rest) <= Cardinality(K)
    <3>1. \A e, x \in rest : e.nr = x.nr => e = x
      BY <1>4
    <3> HIDE DEF K, rest
    <3> QED BY <2>2, <2>3, <3>1, EntriesAreFrames
  <2>5. Cardinality(K) >= CacheLimit
    <3>1. Cardinality(K) \in Nat
      BY <2>3, FS_CardinalityType
    <3> HIDE DEF K, rest, grown
    <3> QED BY <3>1, <2>4, <1>6, <1>8, <1>10, AssistAssumption
  <2> QED BY <2>5 DEF Forgotten
<1>11. ASSUME NEW i \in DOMAIN log', log'[i].written, log'[i].conn = connNo,
              \A m \in DOMAIN log' : m > i /\ log'[m].written => log'[m].id # log'[i].id
       PROVE  Forgotten(i, log)' \/ \E e \in seenAt' : e.nr = i
  <2>1. Forgotten(i, log)' \/ \E e \in grown : e.nr = i
    <3>1. CASE i = n
      <4>1. new \in grown /\ new.nr = i
        BY <3>1
      <4> QED BY <4>1
    <3>2. CASE i \in DOMAIN log
      <4>1. log[i].written /\ log[i].conn = connNo
            /\ \A m \in DOMAIN log : m > i /\ log[m].written => log[m].id # log[i].id
        BY <1>1, <1>11, <3>2, LogGrows
      <4> QED BY <1>1, <3>2, <4>1, AccountedNext
    <3> QED BY <1>1, <3>1, <3>2, LogGrows
  <2>2. ASSUME NEW e \in grown, e.nr = i PROVE Forgotten(i, log)' \/ e \in seenAt'
    <3> HIDE DEF grown
    <3> QED BY <1>2, <1>10, <2>2
  <2> QED BY <2>1, <2>2
<1>12. \A i \in DOMAIN log' : Accounted(i, seenAt, log, connNo)'
  BY <1>11 DEF Accounted
<1>13. TableInv'
  BY <1>3, <1>9, <1>12 DEF TableInv
<1>14. ASSUME NEW i \in DOMAIN log, Repeats(i, n)'
       PROVE  clock - log[i].at > TtlMs \/ Cardinality(WrittenBetween(i, n)) >= CacheLimit
  <2>1. log[i].written /\ log[i].conn = connNo /\ log[i].id = id
    BY <1>1, <1>14, LogGrows DEF Repeats
  <2>2. \A m \in DOMAIN log : m > i /\ log[m].written => m \in WrittenBetween(i, n)'
    BY <1>1, LogGrows DEF WrittenBetween
  <2>3. \A m \in DOMAIN log : m > i /\ log[m].written => log[m].id # log[i].id
    BY <1>1, <1>14, <2>1, <2>2, LogGrows DEF Repeats
  <2>4. Accounted(i, seenAt, log, connNo)
    BY DEF TableInv
  <2>5. CASE Forgotten(i, log)
    <3>1. (i + 1)..(n - 1) = (i + 1)..Len(log)
      BY <1>1 DEF AssistTypeInv
    <3> QED BY <2>5, <3>1 DEF Forgotten, WrittenBetween
  <2>6. ASSUME NEW e \in seenAt, e.nr = i PROVE clock - log[i].at > TtlMs
    <3>1. e.id = id /\ e.at = log[i].at
      BY <2>1, <2>6 DEF TableInv, IsLast
    <3> QED BY <3>1 DEF Remembered
  <2> QED BY <2>1, <2>3, <2>4, <2>5, <2>6 DEF Accounted
<1>15. WrittenOnce' /\ DroppedOnlyIfRecent'
  BY <1>1, <1>14, OldFramesStay
<1> QED BY <1>13, <1>15

LEMMA LogTypeStep ==
    ASSUME AssistTypeInv, NEW id \in Txns, NEW w \in BOOLEAN, UNCHANGED <<clock, connNo>>,
           log' = Append(log, [id |-> id, written |-> w, at |-> clock, conn |-> connNo])
    PROVE  AssistTypeInv'
<1>1. PICK n \in Nat : n = Len(log) + 1
  BY DEF AssistTypeInv
<1>2. ASSUME NEW i \in DOMAIN log' PROVE log'[i].at <= clock /\ log'[i].conn <= connNo
  <2>1. CASE i \in DOMAIN log
    BY <1>1, <2>1, LogGrows DEF AssistTypeInv
  <2>2. CASE i = n
    <3>1. log'[n].at = clock /\ log'[n].conn = connNo
      BY <1>1, LogGrows
    <3> QED BY <2>2, <3>1 DEF AssistTypeInv
  <2> QED BY <1>1, <2>1, <2>2, LogGrows
<1>3. log' \in Seq(Frames)
  BY <1>1, LogGrows
<1> QED BY <1>2, <1>3 DEF AssistTypeInv

LEMMA FrameStep ==
    ASSUME AssistInv, NEW id \in Txns, Frame(id)
    PROVE  AssistInv'
<1> USE DEF AssistInv
<1>1. UNCHANGED <<clock, connNo>>
  BY DEF Frame
<1>2. CASE \E e \in Remembered : e.id = id
  <2>1. PICK d \in Remembered : d.id = id
    BY <1>2
  <2>2. (~\E e \in Remembered : e.id = id) = FALSE
    BY <1>2
  <2>3. seenAt' = Remembered
        /\ log' = Append(log, [id |-> id, written |-> FALSE, at |-> clock, conn |-> connNo])
    BY <1>2, <2>2 DEF Frame
  <2>4. TableInv' /\ WrittenOnce' /\ DroppedOnlyIfRecent'
    BY <1>1, <2>1, <2>3, DuplicateStep
  <2>5. AssistTypeInv'
    BY <1>1, <2>3, LogTypeStep
  <2> QED BY <2>4, <2>5
<1>3. CASE ~\E e \in Remembered : e.id = id
  <2>1. (~\E e \in Remembered : e.id = id) = TRUE
    BY <1>3
  <2>2. seenAt' = RememberTxn(Remembered, id)
        /\ log' = Append(log, [id |-> id, written |-> TRUE, at |-> clock, conn |-> connNo])
    BY <1>3, <2>1 DEF Frame
  <2>3. TableInv' /\ WrittenOnce' /\ DroppedOnlyIfRecent'
    BY <1>1, <1>3, <2>2, NewStep
  <2>4. AssistTypeInv'
    BY <1>1, <2>2, LogTypeStep
  <2> QED BY <2>3, <2>4
<1> QED BY <1>2, <1>3

LEMMA AssistStep == AssistInv /\ [AssistNext]_assistVars => AssistInv'
<1> SUFFICES ASSUME AssistInv, [AssistNext]_assistVars PROVE AssistInv'
  OBVIOUS
<1>1. ASSUME NEW id \in Txns, Frame(id) PROVE AssistInv'
  BY <1>1, FrameStep
<1>2. CASE ClockTicks \/ UNCHANGED assistVars
  <2>1. clock' \in {clock, clock + 1} /\ UNCHANGED <<connNo, seenAt, log>>
    BY <1>2 DEF ClockTicks, assistVars
  <2>2. AssistTypeInv'
    <3>1. \A i \in DOMAIN log : log[i].at \in Nat
      BY FramesTyped DEF AssistInv
    <3> QED BY <2>1, <3>1 DEF AssistInv, AssistTypeInv
  <2>3. WrittenOnce' /\ DroppedOnlyIfRecent'
    BY <2>1 DEF AssistInv, WrittenOnce, DroppedOnlyIfRecent, Repeats, WrittenBetween
  <2>4. \A i \in DOMAIN log : Forgotten(i, log) => Forgotten(i, log)'
    <3>1. \A i \in DOMAIN log : log[i].at \in Nat
      BY FramesTyped DEF AssistInv
    <3>2. \A i \in DOMAIN log : clock - log[i].at > TtlMs => clock' - log[i].at > TtlMs
      BY <2>1, <3>1, AssistAssumption DEF AssistInv, AssistTypeInv
    <3> QED BY <2>1, <3>2 DEF Forgotten
  <2>5. TableInv'
    BY <2>1, <2>4 DEF AssistInv, TableInv, Accounted, IsLast
  <2> QED BY <2>2, <2>3, <2>5 DEF AssistInv
<1>3. CASE Reconnect
  <2>1. connNo' = connNo + 1 /\ seenAt' = {} /\ UNCHANGED <<clock, log>>
    BY <1>3 DEF Reconnect
  <2>2. \A i \in DOMAIN log : log[i].conn \in Nat
    BY FramesTyped DEF AssistInv
  <2>3. AssistTypeInv'
    BY <2>1, <2>2 DEF AssistInv, AssistTypeInv
  <2>4. WrittenOnce' /\ DroppedOnlyIfRecent'
    BY <2>1 DEF AssistInv, WrittenOnce, DroppedOnlyIfRecent, Repeats, WrittenBetween
  <2>5. \A i \in DOMAIN log : log[i].conn # connNo'
    BY <2>1, <2>2 DEF AssistInv, AssistTypeInv
  <2>6. TableInv'
    <3>1. IsFiniteSet(seenAt') /\ Cardinality(seenAt') <= CacheLimit
      BY <2>1, FS_EmptySet, AssistAssumption
    <3> QED BY <2>1, <2>5, <3>1 DEF TableInv, Accounted
  <2> QED BY <2>3, <2>4, <2>6 DEF AssistInv
<1> QED BY <1>1, <1>2, <1>3 DEF AssistNext

\* Assisted input reaches the shell once, however often it is sent, unless the
\* table has had to forget it; none is dropped but as a recent repetition; and
\* the table keeps to its limit: createAssistTxnDeduper, for every time to live,
\* every limit, and any frames, connections and delays.
THEOREM AssistedInputOnce == AssistSpec => []AssistedOnce
<1>1. AssistInv => AssistedOnce
  <2> SUFFICES ASSUME AssistInv PROVE TableIsBounded
    BY DEF AssistInv, AssistedOnce
  <2>1. \A e, x \in seenAt : e.id = x.id => e.nr = x.nr
    <3> SUFFICES ASSUME NEW e \in seenAt, NEW x \in seenAt, e.id = x.id, e.nr < x.nr
                 PROVE  FALSE
      BY DEF AssistInv, AssistTypeInv, TableInv, IsLast
    <3> QED BY DEF AssistInv, TableInv, IsLast
  <2> QED BY <2>1 DEF AssistInv, TableInv, IsLast, TableIsBounded
<1> QED BY <1>1, AssistInitially, AssistStep, PTL DEF AssistSpec
=============================================================================
