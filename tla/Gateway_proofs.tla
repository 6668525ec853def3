--------------------------- MODULE Gateway_proofs ---------------------------
(***************************************************************************)
(* Proofs about GatewayTerminal and GatewayCapture.  Of the relay, for     *)
(* every value of its constants: type correctness, the coherence of the    *)
(* registry, and that no two connections ever drive the same SSH session;  *)
(* for clients that send one init: that no session leaks, that the relay   *)
(* implements SessionLease, and that the output is buffered and delivered  *)
(* in order.  Of the capture: that it implements the relay, so that all of *)
(* this holds of it, that a recording is of one session and whole, and     *)
(* that a rule makes one recording, of a session it was armed for.         *)
(***************************************************************************)
EXTENDS GatewayCapture, SequenceTheorems, FiniteSetTheorems, WellFoundedInduction, TLAPS

-----------------------------------------------------------------------------
(* Type correctness.  TypeOK is not inductive: the callbacks of a session   *)
(* run in its owner's closure, so one has to know that there is an owner.   *)

OwnerKnown == \A s \in Sessions : ssh[s] # "idle" => owner[s] \in Conns
TypeInv == TypeOK /\ OwnerKnown

\* A nonempty set of numbers up to n has a least element: the intervals 1..i
\* of its elements i are finite sets, well-founded by strict inclusion.
LEMMA LeastElement ==
    ASSUME NEW n \in Nat, NEW T \in SUBSET (0..n), T # {}
    PROVE  \E d \in T : \A i \in T : d <= i
<1> DEFINE S == 1..n
           Intervals == {1..i : i \in T}
<1>1. IsWellFoundedOn(StrictSubsetOrdering(S), SUBSET S)
  <2>1. IsFiniteSet(S)
    BY FS_Interval
  <2> HIDE DEF S
  <2>2. FiniteSubsetsOf(S) = SUBSET S
    BY <2>1, FS_FiniteSubsetsOfFinite
  <2> QED BY <2>2, FS_StrictSubsetOrderingWellFounded
<1>2. Intervals \subseteq SUBSET S /\ Intervals # {}
  <2>1. \A i \in T : 1..i \subseteq S
    OBVIOUS
  <2> QED BY <2>1, Zenon
<1>3. PICK X \in Intervals : \A Y \in Intervals : ~(<<Y, X>> \in StrictSubsetOrdering(S))
  <2> HIDE DEF Intervals, S
  <2> QED BY <1>1, <1>2, WFMin
<1>4. PICK d \in T : X = 1..d
  OBVIOUS
<1>5. ASSUME NEW i \in T, i < d PROVE FALSE
  <2>1. 1..i \subseteq 1..d /\ d \in 1..d /\ d \notin 1..i
    BY <1>5
  <2>2. <<1..i, X>> \in StrictSubsetOrdering(S)
    BY <2>1, <1>4, <1>2 DEF StrictSubsetOrdering
  <2> QED BY <2>2, <1>3
<1> QED BY <1>5

\* Dropped, defined as the least number of frames that makes the rest fit,
\* exists: dropping all of them will do.
LEMMA DroppedFits ==
    ASSUME NEW frames \in Seq(Frames)
    PROVE  LET d == Dropped(frames) IN
           /\ d \in 0..Len(frames)
           /\ d = Len(frames) \/ Bytes(SubSeq(frames, d + 1, Len(frames))) <= PendingMax
<1> DEFINE Enough(i) == i = Len(frames) \/ Bytes(SubSeq(frames, i + 1, Len(frames))) <= PendingMax
           T == {i \in 0..Len(frames) : Enough(i)}
<1>1. T \in SUBSET (0..Len(frames)) /\ T # {} /\ Len(frames) \in Nat
  OBVIOUS
<1>2. \E d \in T : \A i \in T : d <= i
  <2> HIDE DEF T
  <2> QED BY <1>1, LeastElement
<1>3. \E d \in 0..Len(frames) : Enough(d) /\ \A i \in 0..Len(frames) : i < d => ~Enough(i)
  <2> HIDE DEF Enough
  <2> QED BY <1>2
<1>4. Dropped(frames) \in 0..Len(frames) /\ Enough(Dropped(frames))
  BY <1>3, Zenon DEF Dropped
<1> QED BY <1>4

\* pushPendingFrame keeps a sequence of frames.
LEMMA PushPendingType ==
    ASSUME NEW frames \in Seq(Frames), NEW f \in Frames
    PROVE  PushPending(frames, f) \in Seq(Frames)
<1> DEFINE all == Append(frames, f)
<1>1. all \in Seq(Frames)
  OBVIOUS
<1>2. Dropped(all) \in 0..Len(all)
  BY <1>1, DroppedFits
<1>3. \A i \in (Dropped(all) + 1)..Len(all) : all[i] \in Frames
  <2> HIDE DEF all
  <2> QED BY <1>1, <1>2
<1>4. SubSeq(all, Dropped(all) + 1, Len(all)) \in Seq(Frames)
  <2> HIDE DEF all
  <2> QED BY <1>1, <1>2, <1>3, SubSeqProperties
<1> QED BY <1>4 DEF PushPending

\* Types of what the close of a session computes (s = None: of no session).
LEMMA CleanupType ==
    ASSUME NEW entries \in [Sessions -> Entries], NEW e
    PROVE  /\ Cleanup(entries, e) \in [Sessions -> Entries]
           /\ MarkClosed(entries, e) \in [Sessions -> Entries]
  BY DEF Cleanup, MarkClosed, Entries

LEMMA UnregisterType ==
    ASSUME NEW registry \in [Keys -> Sessions \cup {None}], NEW e
    PROVE  Unregister(registry, e) \in [Keys -> Sessions \cup {None}]
  BY DEF Unregister

LEMMA ReportCloseType ==
    ASSUME TypeOK, NEW s,
           NEW sshes \in [Sessions -> SshStates], NEW entries \in [Sessions -> Entries],
           NEW registry \in [Keys -> Sessions \cup {None}], NEW details \in [Conns -> Details],
           ReportClose(s, sshes, entries, registry, details)
    PROVE  /\ ssh' \in [Sessions -> SshStates]
           /\ entry' \in [Sessions -> Entries]
           /\ resumeSessions' \in [Keys -> Sessions \cup {None}]
           /\ detail' \in [Conns -> Details]
           /\ told' \in [Conns -> Told]
<1> DEFINE e == CallbackEntry(s)
<1>1. ssh' \in [Sessions -> SshStates]
  BY DEF ReportClose, SshStates
<1>2. entry' \in [Sessions -> Entries]
  <2>1. entry' = Cleanup(MarkClosed(entries, e), e)
    BY DEF ReportClose
  <2> HIDE DEF e
  <2> QED BY <2>1, CleanupType
<1>3. resumeSessions' \in [Keys -> Sessions \cup {None}]
  <2>1. resumeSessions' = Unregister(registry, e)
    BY DEF ReportClose
  <2> HIDE DEF e
  <2> QED BY <2>1, UnregisterType
<1>4. detail' \in [Conns -> Details]
  BY DEF ReportClose, Remember, Details
<1>5. told' \in [Conns -> Told]
  BY DEF ReportClose, TypeOK, Told
<1> QED BY <1>1, <1>2, <1>3, <1>4, <1>5

\* A handler that cleans up an entry and closes a session, one that is live or
\* whose owner is known: the handlers for the end of a connection, of a session
\* and of the grace period.
ReportCloseOutcome ==
    /\ ssh' \in [Sessions -> SshStates]
    /\ entry' \in [Sessions -> Entries]
    /\ resumeSessions' \in [Keys -> Sessions \cup {None}]
    /\ detail' \in [Conns -> Details]
    /\ told' \in [Conns -> Told]
    /\ \A x \in Sessions : ssh'[x] # "idle" => ssh[x] # "idle"

LEMMA ReleaseType ==
    ASSUME TypeOK, NEW s, NEW details \in [Conns -> Details],
           NEW entries \in [Sessions -> Entries],
           NEW registry \in [Keys -> Sessions \cup {None}],
           s \in Sessions => ssh[s] # "idle",
           ReportClose(s, ssh, entries, registry, details)
    PROVE  ReportCloseOutcome
<1>1. ssh \in [Sessions -> SshStates]
  BY DEF TypeOK
<1>2. \A x \in Sessions : ssh'[x] # "idle" => ssh[x] # "idle"
  BY DEF ReportClose
<1> QED BY <1>1, <1>2, ReportCloseType DEF ReportCloseOutcome

LEMMA ReportableIsLive ==
    ASSUME NEW s
    PROVE  Reportable(s) \in Sessions => ssh[Reportable(s)] = "live"
  BY DistinctNone DEF Reportable

LEMMA TellType ==
    ASSUME TypeOK, NEW c \in Conns, NEW what \in Told
    PROVE  Tell(c, what) \in [Conns -> Told]
  BY DEF Tell, TypeOK

LEMMA TypeInit == Init => TypeInv
  BY DEF Init, TypeInv, TypeOK, OwnerKnown, WsStates, Details, Told, SshStates, Requests,
         Entries, NoEntry, Frames

LEMMA ConnTypeStep ==
    ASSUME TypeInv, NEW c \in Conns, ConnStep(c)
    PROVE  TypeInv'
<1> USE DEF TypeInv, OwnerKnown
<1>1. CASE Accept(c)
  BY <1>1 DEF Accept, TypeOK, WsStates, sshVars, outVars
<1>2. CASE Reject(c)
  BY <1>2 DEF Reject, TypeOK, WsStates, Details, sshVars, outVars
<1>3. CASE InitAgain(c)
  BY <1>3 DEF InitAgain, GetInit, TypeOK, sshVars, outVars
<1>4. ASSUME NEW k \in Keys, NEW t \in Targets, InitResume(c, k, t) PROVE TypeInv'
  <2> DEFINE e == resumeSessions[k]
  <2>1. e \in Sessions
    BY <1>4 DEF InitResume, Attachable, TypeOK
  <2>2. told' \in [Conns -> Told]
    BY <1>4, TellType DEF InitResume, Told
  <2>3. entry' \in [Sessions -> Entries]
    <3>1. [entry[e] EXCEPT !.timer = FALSE, !.ws = c] \in Entries
      <4>1. entry[e] \in Entries
        BY <2>1 DEF TypeOK
      <4> HIDE DEF e
      <4> QED BY <4>1 DEF Entries
    <3> QED BY <1>4, <3>1 DEF InitResume, TypeOK
  <2>4. delivered' \in [Sessions -> SUBSET Nat] /\ pending' \in [Sessions -> Seq(Frames)]
    <3>1. \A i \in DOMAIN pending[e] : pending[e][i].n \in Nat
      <4>1. pending[e] \in Seq(Frames)
        BY <2>1 DEF TypeOK
      <4>2. \A f \in Frames : f.n \in Nat
        BY DEF Frames
      <4> HIDE DEF e
      <4> QED BY <4>1, <4>2
    <3>2. \A s \in Sessions : Buffered(e, s) \subseteq Nat
      BY <3>1 DEF Buffered
    <3> QED BY <1>4, <2>1, <3>2 DEF InitResume, Flush, TypeOK
  <2> QED BY <1>4, <2>1, <2>2, <2>3, <2>4 DEF InitResume, GetInit, TypeOK
<1>5. ASSUME NEW k \in Keys \cup {None}, NEW t \in Targets, NEW s \in Sessions,
             InitConnect(c, k, t, s)
      PROVE  TypeInv'
  <2> DEFINE e   == IF k = None THEN None ELSE resumeSessions[k]
             old == IF e # None /\ ~entry[e].closed THEN e ELSE None
             sshes == [ssh EXCEPT ![s] = "connecting"]
             entries == Cleanup(MarkClosed(entry, old), old)
             registry == Unregister(resumeSessions, old)
  <2>1. ReportClose(Reportable(old), sshes, entries, registry, detail)
    BY <1>5 DEF InitConnect
  <2>2. sshes \in [Sessions -> SshStates]
    BY DEF TypeOK, SshStates
  <2>3. entries \in [Sessions -> Entries] /\ registry \in [Keys -> Sessions \cup {None}]
    <3> HIDE DEF old
    <3> QED BY CleanupType, UnregisterType DEF TypeOK
  <2>4. ssh' = [x \in Sessions |-> IF x = Reportable(old) THEN "closed" ELSE sshes[x]]
    BY <2>1 DEF ReportClose
  <2> HIDE DEF e, old, sshes, entries, registry
  <2>5. /\ ssh' \in [Sessions -> SshStates]
        /\ entry' \in [Sessions -> Entries]
        /\ resumeSessions' \in [Keys -> Sessions \cup {None}]
        /\ detail' \in [Conns -> Details]
        /\ told' \in [Conns -> Told]
    BY <2>1, <2>2, <2>3, ReportCloseType DEF TypeOK
  <2>6. request' \in [Sessions -> Requests]
    BY <1>5 DEF InitConnect, Requests, TypeOK
  <2>7. OwnerKnown'
    <3>1. ASSUME NEW x \in Sessions, ssh'[x] # "idle" PROVE x = s \/ owner[x] \in Conns
      BY <3>1, <2>4, DistinctNone DEF Reportable, TypeOK, sshes
    <3> QED BY <3>1, <1>5 DEF InitConnect, TypeOK
  <2>8. TypeOK'
    <3>1. owner' \in [Sessions -> Conns \cup {None}] /\ inits' \in [Conns -> Nat]
      BY <1>5 DEF InitConnect, GetInit, TypeOK
    <3> QED BY <1>5, <2>5, <2>6, <3>1 DEF InitConnect, TypeOK, outVars
  <2> QED BY <2>7, <2>8
<1>6. CASE ReceiveDisconnect(c)
  <2>1. /\ Cleanup(entry, resumeEntry[c]) \in [Sessions -> Entries]
        /\ Unregister(resumeSessions, resumeEntry[c]) \in [Keys -> Sessions \cup {None}]
    BY CleanupType, UnregisterType DEF TypeOK
  <2>2. [detail EXCEPT ![c] = Remember(@, "client")] \in [Conns -> Details]
    BY DEF TypeOK, Remember, Details
  <2>3. ReportCloseOutcome
    BY <1>6, <2>1, <2>2, ReleaseType, ReportableIsLive DEF ReceiveDisconnect
  <2> QED BY <1>6, <2>3 DEF ReceiveDisconnect, ReportCloseOutcome, TypeOK, WsStates, outVars
<1>7. CASE PeerCloses(c)
  BY <1>7 DEF PeerCloses, TypeOK, WsStates, sshVars, outVars
<1>8. ASSUME NEW code \in CloseCodes, WsClose(c, code) PROVE TypeInv'
  <2> DEFINE e == resumeEntry[c]
             d == Remember(detail[c], code)
             details == [detail EXCEPT ![c] = d]
  <2>1. details \in [Conns -> Details]
    BY DEF TypeOK, Remember, Details, CloseCodes
  <2>2. CASE /\ e # None
             /\ entry' = [entry EXCEPT ![e] = [@ EXCEPT !.ws = None, !.timer = TRUE]]
             /\ detail' = details
             /\ UNCHANGED <<told, ssh, resumeSessions>>
    <3>1. entry' \in [Sessions -> Entries]
      <4>1. ASSUME e \in Sessions PROVE [entry[e] EXCEPT !.ws = None, !.timer = TRUE] \in Entries
        <5>1. entry[e] \in Entries
          BY <4>1 DEF TypeOK
        <5> HIDE DEF e
        <5> QED BY <5>1 DEF Entries
      <4> HIDE DEF e
      <4> QED BY <2>2, <4>1 DEF TypeOK
    <3> QED BY <1>8, <2>1, <2>2, <3>1 DEF WsClose, TypeOK, WsStates, outVars
  <2>3. CASE ReportClose(Reportable(session[c]), ssh, Cleanup(entry, e),
                         Unregister(resumeSessions, e), details)
    <3>1. /\ Cleanup(entry, e) \in [Sessions -> Entries]
          /\ Unregister(resumeSessions, e) \in [Keys -> Sessions \cup {None}]
      BY CleanupType, UnregisterType DEF TypeOK
    <3>2. ReportCloseOutcome
      BY <2>1, <2>3, <3>1, ReleaseType, ReportableIsLive
    <3> QED BY <1>8, <3>2 DEF WsClose, ReportCloseOutcome, TypeOK, WsStates, outVars
  <2> QED BY <1>8, <2>2, <2>3 DEF WsClose
<1>9. CASE WsError(c)
  <2>1. /\ Cleanup(entry, resumeEntry[c]) \in [Sessions -> Entries]
        /\ Unregister(resumeSessions, resumeEntry[c]) \in [Keys -> Sessions \cup {None}]
    BY CleanupType, UnregisterType DEF TypeOK
  <2>2. [detail EXCEPT ![c] = Remember(@, "server")] \in [Conns -> Details]
    BY DEF TypeOK, Remember, Details
  <2>3. ReportCloseOutcome
    BY <1>9, <2>1, <2>2, ReleaseType, ReportableIsLive DEF WsError
  <2> QED BY <1>9, <2>3 DEF WsError, ReportCloseOutcome, TypeOK, outVars
<1> QED BY <1>1, <1>2, <1>3, <1>4, <1>5, <1>6, <1>7, <1>8, <1>9 DEF ConnStep, ReceiveInit

LEMMA SshTypeStep ==
    ASSUME TypeInv, NEW s \in Sessions, SshStep(s)
    PROVE  TypeInv'
<1> USE DEF TypeInv, OwnerKnown
<1>1. ASSUME ssh[s] = "connecting", NEW entries \in [Sessions -> Entries],
             NEW registry \in [Keys -> Sessions \cup {None}],
             entry' = NewEntry(entries, s),
             resumeSessions' = NewRegistration(registry, s),
             Register(s)
      PROVE  /\ entry' \in [Sessions -> Entries]
             /\ resumeSessions' \in [Keys -> Sessions \cup {None}]
             /\ session' \in [Conns -> Sessions \cup {None}]
             /\ resumeEntry' \in [Conns -> Sessions \cup {None}]
             /\ heartbeat' \in [Conns -> BOOLEAN]
             /\ told' \in [Conns -> Told]
  <2>1. owner[s] \in Conns /\ request[s].key \in Keys \cup {None}
    BY <1>1 DEF TypeOK, Requests
  <2>2. told' \in [Conns -> Told]
    BY <1>1, <2>1, TellType DEF Register, Told
  <2>3. entry' \in [Sessions -> Entries]
    BY <1>1, <2>1 DEF NewEntry, Entries
  <2>4. resumeSessions' \in [Keys -> Sessions \cup {None}]
    BY <1>1, <2>1 DEF NewRegistration
  <2> QED BY <1>1, <2>1, <2>2, <2>3, <2>4 DEF Register, TypeOK
<1>2. CASE SshReject(s)
  BY <1>2 DEF SshReject, TypeOK, SshStates, connVars, outVars
<1>3. CASE SshReady(s)
  <2>1. TypeOK'
    BY <1>1, <1>3 DEF SshReady, Register, TypeOK, SshStates, outVars
  <2>2. OwnerKnown'
    BY <1>3 DEF SshReady, Register, TypeOK
  <2> QED BY <2>1, <2>2
<1>4. CASE SshReadyTooLate(s)
  <2> DEFINE e == CallbackEntry(s)
             entries == Cleanup(MarkClosed(entry, e), e)
             registry == Unregister(resumeSessions, e)
  <2>1. entries \in [Sessions -> Entries] /\ registry \in [Keys -> Sessions \cup {None}]
    <3> HIDE DEF e
    <3> QED BY CleanupType, UnregisterType DEF TypeOK
  <2>2. entry' = NewEntry(entries, s) /\ resumeSessions' = NewRegistration(registry, s)
    BY <1>4 DEF SshReadyTooLate
  <2>3. detail' \in [Conns -> Details]
    BY <1>4 DEF SshReadyTooLate, TypeOK, Remember, Details
  <2> HIDE DEF entries, registry
  <2>4. TypeOK'
    BY <1>1, <1>4, <2>1, <2>2, <2>3 DEF SshReadyTooLate, Register, TypeOK, SshStates, outVars
  <2>5. OwnerKnown'
    BY <1>4 DEF SshReadyTooLate, Register, TypeOK
  <2> QED BY <2>4, <2>5
<1>5. CASE SshEnd(s)
  <2>1. ReportCloseOutcome
    BY <1>5, ReleaseType DEF SshEnd, TypeOK
  <2> QED BY <1>5, <2>1 DEF SshEnd, ReportCloseOutcome, TypeOK, outVars
<1>6. ASSUME NEW size \in FrameSizes, SshOutput(s, size) PROVE TypeInv'
  <2> DEFINE c == owner[s]
             e == resumeEntry[c]
             n == out[s] + 1
             sink == IF e = None THEN c ELSE entry[e].ws
             f == [from |-> s, n |-> n, size |-> size]
  <2>1. c \in Conns /\ n \in Nat /\ f \in Frames
    BY <1>6 DEF SshOutput, TypeOK, Frames
  <2>2. out' \in [Sessions -> Nat]
    BY <1>6, <2>1 DEF SshOutput, TypeOK
  <2>3. delivered' \in [Sessions -> SUBSET Nat] /\ pending' \in [Sessions -> Seq(Frames)]
    <3>1. CASE sink # None
      <4>1. PICK new \in SUBSET Nat : delivered' = [delivered EXCEPT ![s] = new]
        <5>1. delivered[s] \in SUBSET Nat /\ delivered[s] \cup {n} \in SUBSET Nat
          BY <2>1 DEF TypeOK
        <5>2. delivered' = [delivered EXCEPT ![s] =
                  IF wsState[sink] = "open" THEN delivered[s] \cup {n} ELSE delivered[s]]
          BY <1>6, <3>1 DEF SshOutput, TypeOK
        <5> HIDE DEF sink, n
        <5> QED BY <5>1, <5>2
      <4>2. UNCHANGED pending
        BY <1>6, <3>1 DEF SshOutput
      <4> QED BY <4>1, <4>2 DEF TypeOK
    <3>2. CASE sink = None
      <4>1. e \in Sessions
        BY <2>1, <3>2, DistinctNone DEF TypeOK
      <4>2. PushPending(pending[e], f) \in Seq(Frames)
        <5>1. pending[e] \in Seq(Frames)
          BY <4>1 DEF TypeOK
        <5> HIDE DEF e, f
        <5> QED BY <5>1, <2>1, PushPendingType
      <4>3. pending' = [pending EXCEPT ![e] = PushPending(@, f)] /\ UNCHANGED delivered
        BY <1>6, <3>2 DEF SshOutput
      <4> HIDE DEF e, f
      <4> QED BY <4>1, <4>2, <4>3 DEF TypeOK
    <3> QED BY <3>1, <3>2
  <2> QED BY <1>6, <2>2, <2>3 DEF SshOutput, TypeOK, connVars, sshVars
<1>7. CASE ResumeTimeout(s)
  <2> DEFINE dying == IF entry[s].closed THEN None ELSE s
             entries == Cleanup(MarkClosed(entry, s), s)
             registry == Unregister(resumeSessions, s)
  <2>1. entries \in [Sessions -> Entries] /\ registry \in [Keys -> Sessions \cup {None}]
    BY CleanupType, UnregisterType DEF TypeOK
  <2>2. ReportClose(Reportable(dying), ssh, entries, registry, detail)
    BY <1>7 DEF ResumeTimeout
  <2> HIDE DEF dying, entries, registry
  <2>3. ReportCloseOutcome
    BY <2>1, <2>2, ReleaseType, ReportableIsLive DEF TypeOK
  <2> QED BY <1>7, <2>3 DEF ResumeTimeout, ReportCloseOutcome, TypeOK, outVars
<1> QED BY <1>2, <1>3, <1>4, <1>5, <1>6, <1>7 DEF SshStep

LEMMA TypeStep == TypeInv /\ [Next]_vars => TypeInv'
<1> SUFFICES ASSUME TypeInv, [Next]_vars PROVE TypeInv'
  OBVIOUS
<1>1. CASE UNCHANGED vars
  BY <1>1 DEF TypeInv, TypeOK, OwnerKnown, vars, connVars, sshVars, outVars
<1>2. CASE \E c \in Conns : ConnStep(c)
  BY <1>2, ConnTypeStep
<1>3. CASE \E s \in Sessions : SshStep(s)
  BY <1>3, SshTypeStep
<1> QED BY <1>1, <1>2, <1>3 DEF Next

LEMMA TypeInvariant == Spec => []TypeInv
  BY TypeInit, TypeStep, PTL DEF Spec

\* Every variable of the relay stays within its type: no frame, timer or
\* registration is ever attached to something that is not one.
THEOREM TypeCorrect == Spec => []TypeOK
<1>1. TypeInv => TypeOK
  BY DEF TypeInv
<1> QED BY <1>1, TypeInvariant, PTL

-----------------------------------------------------------------------------
(* The registry and the holders.  ExclusiveHolder rests on how a session    *)
(* can be found by init: only in the registry, with no socket attached.  So *)
(* the inductive invariant says that while an entry is registered its ws    *)
(* field tells the truth about who holds the session and about whose close  *)
(* event may still park it.                                                 *)

Registered(s) == \E k \in Keys : resumeSessions[k] = s
Ready(s) == ssh[s] \in {"live", "closed"}

HeldIsReady == \A c \in Conns : session[c] # None => Ready(session[c])
MadeIsReady == \A s \in Sessions : entry[s].made => Ready(s)
LinkIsMade  == \A c \in Conns : resumeEntry[c] # None => entry[resumeEntry[c]].made

HolderIsAttached ==
    \A c \in Conns, s \in Sessions : Registered(s) /\ session[c] = s => entry[s].ws = c

LinkIsAttached ==
    \A c \in Conns, s \in Sessions :
        Registered(s) /\ resumeEntry[c] = s /\ wsState[c] # "closed" => entry[s].ws = c

\* What the registry says of a session agrees with the closures of the
\* connections: whoever holds a registered session is the socket of its entry,
\* and only that one's close event may still detach it (server.ts 604-627,
\* 794-812, 867-875).  With it, a resume never takes a session from a holder.
HolderInv ==
    /\ RegistryCoherent
    /\ HeldIsReady
    /\ MadeIsReady
    /\ LinkIsMade
    /\ HolderIsAttached
    /\ LinkIsAttached
    /\ ExclusiveHolder

\* entries and registry come from the current ones by cleaning up and closing:
\* nothing is registered anew, and what stays registered stays as it was.
Shrinks(entries, registry) ==
    /\ \A k \in Keys : registry[k] # None =>
           /\ registry[k] = resumeSessions[k]
           /\ entries[registry[k]] = entry[registry[k]]
    /\ \A s \in Sessions : entries[s].made = entry[s].made

\* cleanupResumeEntry disturbs its own entry and its own registration only.
LEMMA CleanupShrinks ==
    ASSUME TypeOK, RegistryCoherent,
           NEW entries \in [Sessions -> Entries],
           NEW registry \in [Keys -> Sessions \cup {None}],
           Shrinks(entries, registry), NEW e
    PROVE  /\ Shrinks(Cleanup(entries, e), Unregister(registry, e))
           /\ Shrinks(Cleanup(MarkClosed(entries, e), e), Unregister(registry, e))
<1>1. ASSUME NEW k \in Keys, Unregister(registry, e)[k] # None
      PROVE  /\ Unregister(registry, e)[k] = resumeSessions[k]
             /\ resumeSessions[k] \in Sessions
             /\ entries[resumeSessions[k]] = entry[resumeSessions[k]]
             /\ resumeSessions[k] # e
  <2>1. registry[k] # None /\ Unregister(registry, e)[k] = registry[k]
    BY <1>1 DEF Unregister
  <2>2. /\ registry[k] = resumeSessions[k] /\ resumeSessions[k] \in Sessions
        /\ entries[resumeSessions[k]] = entry[resumeSessions[k]]
    BY <2>1 DEF Shrinks, TypeOK
  <2>3. request[resumeSessions[k]].key = k
    BY <2>1, <2>2 DEF RegistryCoherent
  <2>4. resumeSessions[k] # e
    BY <1>1, <2>1, <2>2, <2>3 DEF Unregister
  <2> QED BY <2>1, <2>2, <2>4
<1>2. ASSUME NEW s \in Sessions
      PROVE  /\ Cleanup(entries, e)[s].made = entry[s].made
             /\ Cleanup(MarkClosed(entries, e), e)[s].made = entry[s].made
  BY DEF Cleanup, MarkClosed, Entries, Shrinks
<1>3. ASSUME NEW s \in Sessions, s # e
      PROVE  /\ Cleanup(entries, e)[s] = entries[s]
             /\ Cleanup(MarkClosed(entries, e), e)[s] = entries[s]
  BY <1>3 DEF Cleanup, MarkClosed
<1> QED BY <1>1, <1>2, <1>3 DEF Shrinks

LEMMA NothingShrinks ==
    ASSUME TypeOK
    PROVE  Shrinks(entry, resumeSessions)
  BY DEF Shrinks

LEMMA ReportCloseShrinks ==
    ASSUME TypeOK, RegistryCoherent, NEW s, NEW sshes, NEW details,
           NEW entries \in [Sessions -> Entries],
           NEW registry \in [Keys -> Sessions \cup {None}],
           Shrinks(entries, registry),
           ReportClose(s, sshes, entries, registry, details)
    PROVE  Shrinks(entry', resumeSessions')
<1> DEFINE e == CallbackEntry(s)
<1>1. /\ entry' = Cleanup(MarkClosed(entries, e), e)
      /\ resumeSessions' = Unregister(registry, e)
  BY DEF ReportClose
<1> HIDE DEF e
<1>2. Shrinks(Cleanup(MarkClosed(entries, e), e), Unregister(registry, e))
  BY CleanupShrinks
<1> QED BY <1>1, <1>2

\* A step that only gives up: it keeps HolderInv whatever it gives up.
LEMMA ReleaseStep ==
    ASSUME TypeInv, HolderInv, TypeInv',
           Shrinks(entry', resumeSessions'),
           UNCHANGED resumeEntry,
           \A c \in Conns : session'[c] \in {session[c], None},
           \A c \in Conns : wsState[c] = "closed" => wsState'[c] = "closed",
           \A s \in Sessions : Ready(s) => Ready(s)',
           \A s \in Sessions : Ready(s) => request'[s] = request[s]
    PROVE  HolderInv'
<1>1. \A k \in Keys : resumeSessions'[k] # None =>
          /\ resumeSessions'[k] = resumeSessions[k]
          /\ resumeSessions[k] \in Sessions
          /\ entry'[resumeSessions[k]] = entry[resumeSessions[k]]
  BY DEF Shrinks, TypeInv, TypeOK
<1>2. \A s \in Sessions : entry'[s].made = entry[s].made
  BY DEF Shrinks
<1>3. \A s \in Sessions : Registered(s)' => Registered(s) /\ entry'[s] = entry[s]
  BY <1>1, DistinctNone DEF Registered
<1>4. RegistryCoherent'
  <2>1. ASSUME NEW k \in Keys, resumeSessions'[k] # None
        PROVE  LET s == resumeSessions'[k] IN
               entry'[s].made /\ request'[s].key = k /\ ~entry'[s].closed
    <3>1. LET s == resumeSessions[k] IN
              s # None /\ s \in Sessions /\ entry[s].made /\ request[s].key = k /\ ~entry[s].closed
      BY <1>1, <2>1 DEF HolderInv, RegistryCoherent
    <3>2. Ready(resumeSessions[k])
      BY <3>1 DEF HolderInv, MadeIsReady
    <3> QED BY <1>1, <2>1, <3>1, <3>2
  <2> QED BY <2>1 DEF RegistryCoherent
<1>5. HeldIsReady'
  BY DEF HolderInv, HeldIsReady, TypeInv, TypeOK, Ready
<1>6. MadeIsReady'
  BY <1>2 DEF HolderInv, MadeIsReady, Ready
<1>7. LinkIsMade'
  <2>1. \A c \in Conns : resumeEntry[c] # None =>
            resumeEntry[c] \in Sessions /\ entry[resumeEntry[c]].made
    BY DEF HolderInv, LinkIsMade, TypeInv, TypeOK
  <2> QED BY <1>2, <2>1 DEF LinkIsMade
<1>8. HolderIsAttached'
  BY <1>3, DistinctNone DEF HolderInv, HolderIsAttached
<1>9. LinkIsAttached'
  BY <1>3 DEF HolderInv, LinkIsAttached
<1>10. ExclusiveHolder'
  BY DEF HolderInv, ExclusiveHolder
<1> QED BY <1>4, <1>5, <1>6, <1>7, <1>8, <1>9, <1>10 DEF HolderInv

\* The rest of the init handler, after the await.
LEMMA RegisterStep ==
    ASSUME TypeInv, HolderInv, TypeInv', NEW s \in Sessions,
           ssh[s] = "connecting", Ready(s)',
           \A x \in Sessions : x # s => ssh'[x] = ssh[x],
           NEW entries \in [Sessions -> Entries],
           NEW registry \in [Keys -> Sessions \cup {None}],
           Shrinks(entries, registry),
           entry' = NewEntry(entries, s),
           resumeSessions' = NewRegistration(registry, s),
           Register(s)
    PROVE  HolderInv'
<1> DEFINE k == request[s].key
           o == owner[s]
<1>1. /\ o \in Conns /\ k \in Keys \cup {None} /\ s # None
      /\ session' = [session EXCEPT ![o] = s]
      /\ resumeEntry' = IF k = None THEN resumeEntry ELSE [resumeEntry EXCEPT ![o] = s]
      /\ UNCHANGED <<wsState, request>>
  BY DistinctNone DEF Register, TypeInv, OwnerKnown, TypeOK, Requests
<1>2. ~Ready(s) /\ ~entry[s].made /\ \A x \in Sessions : Ready(x) => Ready(x)'
  BY DEF Ready, HolderInv, MadeIsReady
<1>3. /\ \A c \in Conns : session[c] # s /\ resumeEntry[c] # s
      /\ \A j \in Keys : resumeSessions[j] # s
  BY <1>1, <1>2 DEF HolderInv, HeldIsReady, LinkIsMade, RegistryCoherent
<1>4. \A x \in Sessions : x # s => entry'[x] = entries[x]
  BY DEF NewEntry
<1>5. k # None => entry'[s] = [made |-> TRUE, ws |-> o, timer |-> FALSE, closed |-> FALSE]
  BY DEF NewEntry
<1>6. \A j \in Keys : resumeSessions'[j] = IF j = k THEN s ELSE registry[j]
  BY <1>1, DistinctNone DEF NewRegistration
<1>7. ASSUME NEW j \in Keys, resumeSessions'[j] # None
      PROVE  \/ j = k /\ resumeSessions'[j] = s
             \/ /\ resumeSessions'[j] = resumeSessions[j]
                /\ resumeSessions[j] \in Sessions /\ resumeSessions[j] # s
                /\ entry'[resumeSessions[j]] = entry[resumeSessions[j]]
  <2>1. CASE j = k
    BY <1>6, <2>1
  <2>2. CASE j # k
    <3>1. resumeSessions'[j] = registry[j] /\ registry[j] # None
      BY <1>6, <1>7, <2>2
    <3>2. registry[j] = resumeSessions[j] /\ entries[registry[j]] = entry[registry[j]]
      BY <3>1 DEF Shrinks
    <3> QED BY <1>3, <1>4, <3>1, <3>2 DEF TypeInv, TypeOK
  <2> QED BY <2>1, <2>2
<1>8. \A x \in Sessions : entry'[x].made => (x = s \/ entry[x].made)
  BY <1>4 DEF Shrinks
<1>9. \A x \in Sessions : entry[x].made => entry'[x].made
  BY <1>2, <1>4 DEF Shrinks
<1>10. \A x \in Sessions : Registered(x)' =>
           \/ x = s /\ k # None
           \/ x # s /\ Registered(x) /\ entry'[x] = entry[x]
  BY <1>1, <1>7, DistinctNone DEF Registered
<1> HIDE DEF k, o
<1>11. RegistryCoherent'
  <2>1. ASSUME NEW j \in Keys, resumeSessions'[j] # None
        PROVE  LET x == resumeSessions'[j] IN
               entry'[x].made /\ request'[x].key = j /\ ~entry'[x].closed
    <3>1. CASE j = k /\ resumeSessions'[j] = s
      BY <1>1, <1>5, <2>1, <3>1, DistinctNone DEF k
    <3>2. CASE /\ resumeSessions'[j] = resumeSessions[j]
               /\ resumeSessions[j] \in Sessions
               /\ entry'[resumeSessions[j]] = entry[resumeSessions[j]]
      BY <1>1, <2>1, <3>2 DEF HolderInv, RegistryCoherent
    <3> QED BY <1>7, <2>1, <3>1, <3>2
  <2> QED BY <2>1 DEF RegistryCoherent
<1>12. HeldIsReady'
  BY <1>1, <1>2 DEF HolderInv, HeldIsReady, TypeInv, TypeOK, Ready
<1>13. MadeIsReady'
  BY <1>2, <1>8 DEF HolderInv, MadeIsReady, Ready
<1>14. LinkIsMade'
  <2>1. \A c \in Conns : resumeEntry[c] # None =>
            resumeEntry[c] \in Sessions /\ entry[resumeEntry[c]].made
    BY DEF HolderInv, LinkIsMade, TypeInv, TypeOK
  <2>2. \A c \in Conns : resumeEntry'[c] = resumeEntry[c] \/ (resumeEntry'[c] = s /\ k # None)
    BY <1>1 DEF TypeInv, TypeOK
  <2> QED BY <1>5, <1>9, <2>1, <2>2 DEF LinkIsMade
<1>15. HolderIsAttached'
  <2>1. ASSUME NEW c \in Conns, NEW x \in Sessions, Registered(x)', session'[c] = x
        PROVE  entry'[x].ws = c
    <3>1. CASE x = s /\ k # None
      BY <1>1, <1>3, <1>5, <2>1, <3>1 DEF TypeInv, TypeOK
    <3>2. CASE x # s /\ Registered(x) /\ entry'[x] = entry[x]
      BY <1>1, <2>1, <3>2 DEF HolderInv, HolderIsAttached, TypeInv, TypeOK
    <3> QED BY <1>10, <2>1, <3>1, <3>2
  <2> QED BY <2>1 DEF HolderIsAttached
<1>16. LinkIsAttached'
  <2>1. ASSUME NEW c \in Conns, NEW x \in Sessions, Registered(x)', resumeEntry'[c] = x,
               wsState[c] # "closed"
        PROVE  entry'[x].ws = c
    <3>1. CASE x = s /\ k # None
      BY <1>1, <1>3, <1>5, <2>1, <3>1 DEF TypeInv, TypeOK
    <3>2. CASE x # s /\ Registered(x) /\ entry'[x] = entry[x]
      BY <1>1, <2>1, <3>2 DEF HolderInv, LinkIsAttached, TypeInv, TypeOK
    <3> QED BY <1>10, <2>1, <3>1, <3>2
  <2> QED BY <1>1, <2>1 DEF LinkIsAttached
<1>17. ExclusiveHolder'
  BY <1>1, <1>3 DEF HolderInv, ExclusiveHolder, TypeInv, TypeOK
<1> QED BY <1>11, <1>12, <1>13, <1>14, <1>15, <1>16, <1>17 DEF HolderInv

LEMMA HolderInit == Init => HolderInv
<1> SUFFICES ASSUME Init PROVE HolderInv
  OBVIOUS
<1>1. RegistryCoherent /\ MadeIsReady /\ \A s \in Sessions : ~Registered(s)
  BY DistinctNone DEF Init, RegistryCoherent, MadeIsReady, Registered, NoEntry
<1>2. HeldIsReady /\ LinkIsMade /\ ExclusiveHolder
  BY DEF Init, HeldIsReady, LinkIsMade, ExclusiveHolder
<1> QED BY <1>1, <1>2 DEF HolderInv, HolderIsAttached, LinkIsAttached

\* Resuming takes a parked entry, and nobody holds a parked one.
LEMMA ResumeStep ==
    ASSUME TypeInv, HolderInv, TypeInv', NEW c \in Conns, NEW k \in Keys, NEW t \in Targets,
           InitResume(c, k, t)
    PROVE  HolderInv'
<1> DEFINE e == resumeSessions[k]
<1>1. /\ e \in Sessions /\ Registered(e) /\ entry[e].ws = None
      /\ session' = [session EXCEPT ![c] = e]
      /\ resumeEntry' = [resumeEntry EXCEPT ![c] = e]
      /\ UNCHANGED <<wsState, ssh, request, resumeSessions>>
  BY DEF InitResume, Attachable, Registered, TypeInv, TypeOK
<1>2. \A x \in Sessions : x # e => entry'[x] = entry[x]
  BY DEF InitResume, TypeInv, TypeOK
<1>3. entry'[e].ws = c /\ entry'[e].made = entry[e].made /\ entry'[e].closed = entry[e].closed
  <2>1. entry[e] \in Entries /\ entry'[e] = [entry[e] EXCEPT !.timer = FALSE, !.ws = c]
    BY <1>1 DEF InitResume, TypeInv, TypeOK
  <2> HIDE DEF e
  <2> QED BY <2>1 DEF Entries
<1>4. entry[e].made /\ Ready(e)
  BY <1>1, DistinctNone DEF HolderInv, RegistryCoherent, MadeIsReady
<1> HIDE DEF e
<1>5. \A d \in Conns : session[d] # e
  BY <1>1, DistinctNone DEF HolderInv, HolderIsAttached
<1>6. \A d \in Conns : resumeEntry[d] = e => wsState[d] = "closed"
  BY <1>1, DistinctNone DEF HolderInv, LinkIsAttached
<1>7. \A x \in Sessions : Registered(x)' <=> Registered(x)
  BY <1>1 DEF Registered
<1>8. RegistryCoherent'
  <2>1. \A x \in Sessions : entry'[x].made = entry[x].made /\ entry'[x].closed = entry[x].closed
    BY <1>2, <1>3
  <2>2. \A j \in Keys : resumeSessions[j] # None => resumeSessions[j] \in Sessions
    BY DEF TypeInv, TypeOK
  <2> QED BY <1>1, <2>1, <2>2 DEF HolderInv, RegistryCoherent
<1>9. HeldIsReady'
  BY <1>1, <1>4 DEF HolderInv, HeldIsReady, TypeInv, TypeOK, Ready
<1>10. MadeIsReady'
  BY <1>1, <1>2, <1>3 DEF HolderInv, MadeIsReady, Ready
<1>11. LinkIsMade'
  <2>1. \A d \in Conns : resumeEntry[d] # None =>
            resumeEntry[d] \in Sessions /\ entry[resumeEntry[d]].made
    BY DEF HolderInv, LinkIsMade, TypeInv, TypeOK
  <2> QED BY <1>1, <1>2, <1>3, <1>4, <2>1 DEF LinkIsMade, TypeInv, TypeOK
<1>12. HolderIsAttached'
  BY <1>1, <1>2, <1>3, <1>5, <1>7 DEF HolderInv, HolderIsAttached, TypeInv, TypeOK
<1>13. LinkIsAttached'
  BY <1>1, <1>2, <1>3, <1>6, <1>7 DEF HolderInv, LinkIsAttached, TypeInv, TypeOK
<1>14. ExclusiveHolder'
  BY <1>1, <1>5 DEF HolderInv, ExclusiveHolder, TypeInv, TypeOK
<1> QED BY <1>8, <1>9, <1>10, <1>11, <1>12, <1>13, <1>14 DEF HolderInv

\* Parking detaches the entry linked to the closing connection; if another
\* connection held its session, the entry would be attached to that one.
LEMMA ParkStep ==
    ASSUME TypeInv, HolderInv, TypeInv', NEW c \in Conns,
           resumeEntry[c] # None, wsState[c] # "closed",
           wsState' = [wsState EXCEPT ![c] = "closed"],
           session' = [session EXCEPT ![c] = None],
           entry' = [entry EXCEPT ![resumeEntry[c]] = [@ EXCEPT !.ws = None, !.timer = TRUE]],
           UNCHANGED <<ssh, resumeSessions, resumeEntry, request>>
    PROVE  HolderInv'
<1> DEFINE e == resumeEntry[c]
<1>1. e \in Sessions
  BY DEF TypeInv, TypeOK
<1>2. \A x \in Sessions : x # e => entry'[x] = entry[x]
  BY DEF TypeInv, TypeOK
<1>3. entry'[e].made = entry[e].made /\ entry'[e].closed = entry[e].closed
  <2>1. entry[e] \in Entries /\ entry'[e] = [entry[e] EXCEPT !.ws = None, !.timer = TRUE]
    BY <1>1 DEF TypeInv, TypeOK
  <2> HIDE DEF e
  <2> QED BY <2>1 DEF Entries
<1>4. Registered(e) => /\ \A d \in Conns : session[d] = e => d = c
                       /\ \A d \in Conns : resumeEntry[d] = e /\ wsState[d] # "closed" => d = c
  BY <1>1 DEF HolderInv, HolderIsAttached, LinkIsAttached
<1>5. \A x \in Sessions : Registered(x)' <=> Registered(x)
  BY DEF Registered
<1>6. \A x \in Sessions : entry'[x].made = entry[x].made
  BY <1>2, <1>3
<1> HIDE DEF e
<1>7. RegistryCoherent'
  <2>1. \A x \in Sessions : entry'[x].closed = entry[x].closed
    BY <1>2, <1>3
  <2>2. \A j \in Keys : resumeSessions[j] # None => resumeSessions[j] \in Sessions
    BY DEF TypeInv, TypeOK
  <2> QED BY <1>6, <2>1, <2>2 DEF HolderInv, RegistryCoherent
<1>8. HeldIsReady'
  BY DEF HolderInv, HeldIsReady, TypeInv, TypeOK, Ready
<1>9. MadeIsReady'
  BY <1>6 DEF HolderInv, MadeIsReady, Ready
<1>10. LinkIsMade'
  <2>1. \A d \in Conns : resumeEntry[d] # None =>
            resumeEntry[d] \in Sessions /\ entry[resumeEntry[d]].made
    BY DEF HolderInv, LinkIsMade, TypeInv, TypeOK
  <2> QED BY <1>6, <2>1 DEF LinkIsMade
<1>11. HolderIsAttached'
  <2>1. ASSUME NEW d \in Conns, NEW x \in Sessions, Registered(x)', session'[d] = x
        PROVE  entry'[x].ws = d
    <3>1. d # c /\ session[d] = x
      BY <2>1, DistinctNone DEF TypeInv, TypeOK
    <3>2. Registered(x) /\ x # e
      BY <1>4, <1>5, <2>1, <3>1
    <3> QED BY <1>2, <3>1, <3>2 DEF HolderInv, HolderIsAttached
  <2> QED BY <2>1 DEF HolderIsAttached
<1>12. LinkIsAttached'
  BY <1>2, <1>4, <1>5 DEF HolderInv, LinkIsAttached, TypeInv, TypeOK
<1>13. ExclusiveHolder'
  BY DistinctNone DEF HolderInv, ExclusiveHolder, TypeInv, TypeOK
<1> QED BY <1>7, <1>8, <1>9, <1>10, <1>11, <1>12, <1>13 DEF HolderInv

LEMMA ConnHolderStep ==
    ASSUME TypeInv, HolderInv, TypeInv', NEW c \in Conns, ConnStep(c)
    PROVE  HolderInv'
<1>1. TypeOK /\ RegistryCoherent /\ Shrinks(entry, resumeSessions)
  BY NothingShrinks DEF TypeInv, HolderInv
<1>2. ASSUME NEW e
      PROVE  /\ Cleanup(entry, e) \in [Sessions -> Entries]
             /\ Unregister(resumeSessions, e) \in [Keys -> Sessions \cup {None}]
             /\ Shrinks(Cleanup(entry, e), Unregister(resumeSessions, e))
  BY <1>1, CleanupType, UnregisterType, CleanupShrinks DEF TypeOK
<1>3. ASSUME Shrinks(entry', resumeSessions'),
             UNCHANGED resumeEntry,
             \A d \in Conns : session'[d] \in {session[d], None},
             \A d \in Conns : wsState[d] = "closed" => wsState'[d] = "closed",
             \A s \in Sessions : Ready(s) => Ready(s)' /\ request'[s] = request[s]
      PROVE  HolderInv'
  BY <1>3, ReleaseStep
<1>4. CASE Accept(c) \/ Reject(c) \/ InitAgain(c) \/ PeerCloses(c)
  <2>1. UNCHANGED <<session, resumeEntry, sshVars>>
    BY <1>4 DEF Accept, Reject, InitAgain, PeerCloses
  <2>2. \A d \in Conns : wsState[d] = "closed" => wsState'[d] = "closed"
    BY <1>4 DEF Accept, Reject, InitAgain, PeerCloses, TypeInv, TypeOK
  <2>3. Shrinks(entry', resumeSessions')
    BY <1>1, <2>1 DEF sshVars
  <2> QED BY <1>3, <2>1, <2>2, <2>3 DEF sshVars, Ready
<1>5. ASSUME NEW k \in Keys, NEW t \in Targets, InitResume(c, k, t) PROVE HolderInv'
  BY <1>5, ResumeStep
<1>6. ASSUME NEW k \in Keys \cup {None}, NEW t \in Targets, NEW s \in Sessions,
             InitConnect(c, k, t, s)
      PROVE  HolderInv'
  <2> DEFINE e   == IF k = None THEN None ELSE resumeSessions[k]
             old == IF e # None /\ ~entry[e].closed THEN e ELSE None
             sshes == [ssh EXCEPT ![s] = "connecting"]
             entries == Cleanup(MarkClosed(entry, old), old)
             registry == Unregister(resumeSessions, old)
  <2>1. /\ ReportClose(Reportable(old), sshes, entries, registry, detail)
        /\ ~Ready(s) /\ request' = [request EXCEPT ![s] = [key |-> k, target |-> t]]
        /\ UNCHANGED <<wsState, session, resumeEntry>>
    BY <1>6 DEF InitConnect, Ready
  <2>2. \A x \in Sessions : Ready(x) => Ready(x)' /\ request'[x] = request[x]
    BY <2>1 DEF ReportClose, Ready, TypeInv, TypeOK
  <2>3. /\ entries \in [Sessions -> Entries] /\ registry \in [Keys -> Sessions \cup {None}]
        /\ Shrinks(entries, registry)
    <3> HIDE DEF old
    <3> QED BY <1>1, CleanupType, UnregisterType, CleanupShrinks DEF TypeOK
  <2> HIDE DEF old, sshes, entries, registry
  <2>4. Shrinks(entry', resumeSessions')
    BY <1>1, <2>1, <2>3, ReportCloseShrinks
  <2> QED BY <1>3, <2>1, <2>2, <2>4
<1>7. CASE ReceiveDisconnect(c)
  <2>1. Shrinks(entry', resumeSessions')
    BY <1>1, <1>2, <1>7, ReportCloseShrinks DEF ReceiveDisconnect
  <2>2. \A x \in Sessions : Ready(x) => Ready(x)' /\ request'[x] = request[x]
    BY <1>7 DEF ReceiveDisconnect, ReportClose, Ready
  <2> QED BY <1>3, <1>7, <2>1, <2>2 DEF ReceiveDisconnect, TypeInv, TypeOK
<1>8. ASSUME NEW code \in CloseCodes, WsClose(c, code) PROVE HolderInv'
  <2> DEFINE details == [detail EXCEPT ![c] = Remember(detail[c], code)]
             e == resumeEntry[c]
  <2>1. /\ wsState[c] = "closing" /\ wsState' = [wsState EXCEPT ![c] = "closed"]
        /\ session' = [session EXCEPT ![c] = None]
        /\ UNCHANGED <<resumeEntry, request>>
    BY <1>8 DEF WsClose
  <2>2. CASE /\ e # None
             /\ entry' = [entry EXCEPT ![e] = [@ EXCEPT !.ws = None, !.timer = TRUE]]
             /\ UNCHANGED <<ssh, resumeSessions>>
    BY <2>1, <2>2, ParkStep
  <2>3. CASE ReportClose(Reportable(session[c]), ssh, Cleanup(entry, e),
                         Unregister(resumeSessions, e), details)
    <3>1. Shrinks(entry', resumeSessions')
      BY <1>1, <1>2, <2>3, ReportCloseShrinks
    <3>2. \A x \in Sessions : Ready(x) => Ready(x)' /\ request'[x] = request[x]
      BY <2>1, <2>3 DEF ReportClose, Ready
    <3> QED BY <1>3, <2>1, <3>1, <3>2 DEF TypeInv, TypeOK
  <2> QED BY <1>8, <2>2, <2>3 DEF WsClose
<1>9. CASE WsError(c)
  <2>1. Shrinks(entry', resumeSessions')
    BY <1>1, <1>2, <1>9, ReportCloseShrinks DEF WsError
  <2>2. \A x \in Sessions : Ready(x) => Ready(x)' /\ request'[x] = request[x]
    BY <1>9 DEF WsError, ReportClose, Ready
  <2> QED BY <1>3, <1>9, <2>1, <2>2 DEF WsError, TypeInv, TypeOK
<1> QED BY <1>4, <1>5, <1>6, <1>7, <1>8, <1>9 DEF ConnStep, ReceiveInit

LEMMA SshHolderStep ==
    ASSUME TypeInv, HolderInv, TypeInv', NEW s \in Sessions, SshStep(s)
    PROVE  HolderInv'
<1>1. TypeOK /\ RegistryCoherent /\ Shrinks(entry, resumeSessions)
  BY NothingShrinks DEF TypeInv, HolderInv
<1>2. ASSUME Shrinks(entry', resumeSessions'),
             UNCHANGED <<session, resumeEntry, wsState, request>>,
             \A x \in Sessions : Ready(x) => Ready(x)'
      PROVE  HolderInv'
  BY <1>2, ReleaseStep
<1>3. CASE SshReject(s)
  <2>1. /\ UNCHANGED <<session, resumeEntry, wsState, request, entry, resumeSessions>>
        /\ \A x \in Sessions : Ready(x) => Ready(x)'
    BY <1>3 DEF SshReject, connVars, Ready, TypeInv, TypeOK
  <2>2. Shrinks(entry', resumeSessions')
    BY <1>1, <2>1
  <2> QED BY <1>2, <2>1, <2>2
<1>4. CASE SshReady(s)
  BY <1>1, <1>4, RegisterStep DEF SshReady, Ready, TypeOK
<1>5. CASE SshReadyTooLate(s)
  <2> DEFINE e == CallbackEntry(s)
             entries == Cleanup(MarkClosed(entry, e), e)
             registry == Unregister(resumeSessions, e)
  <2>1. /\ entries \in [Sessions -> Entries] /\ registry \in [Keys -> Sessions \cup {None}]
        /\ Shrinks(entries, registry)
    <3> HIDE DEF e
    <3> QED BY <1>1, CleanupType, UnregisterType, CleanupShrinks DEF TypeOK
  <2>2. /\ ssh[s] = "connecting" /\ ssh' = [ssh EXCEPT ![s] = "closed"]
        /\ entry' = NewEntry(entries, s) /\ resumeSessions' = NewRegistration(registry, s)
        /\ Register(s)
    BY <1>5 DEF SshReadyTooLate
  <2> HIDE DEF entries, registry
  <2> QED BY <1>1, <2>1, <2>2, RegisterStep DEF Ready, TypeOK
<1>6. CASE SshEnd(s)
  <2>1. Shrinks(entry', resumeSessions')
    BY <1>1, <1>6, ReportCloseShrinks DEF SshEnd, TypeOK
  <2>2. \A x \in Sessions : Ready(x) => Ready(x)'
    BY <1>6 DEF SshEnd, ReportClose, Ready
  <2> QED BY <1>2, <1>6, <2>1, <2>2 DEF SshEnd
<1>7. ASSUME NEW size \in FrameSizes, SshOutput(s, size) PROVE HolderInv'
  <2>1. UNCHANGED <<connVars, sshVars>>
    BY <1>7 DEF SshOutput
  <2>2. Shrinks(entry', resumeSessions')
    BY <1>1, <2>1 DEF sshVars
  <2> QED BY <1>2, <2>1, <2>2 DEF connVars, sshVars, Ready
<1>8. CASE ResumeTimeout(s)
  <2> DEFINE dying == IF entry[s].closed THEN None ELSE s
             entries == Cleanup(MarkClosed(entry, s), s)
             registry == Unregister(resumeSessions, s)
  <2>1. /\ entries \in [Sessions -> Entries] /\ registry \in [Keys -> Sessions \cup {None}]
        /\ Shrinks(entries, registry)
    BY <1>1, CleanupType, UnregisterType, CleanupShrinks DEF TypeOK
  <2>2. ReportClose(Reportable(dying), ssh, entries, registry, detail)
    BY <1>8 DEF ResumeTimeout
  <2> HIDE DEF dying, entries, registry
  <2>3. Shrinks(entry', resumeSessions')
    BY <1>1, <2>1, <2>2, ReportCloseShrinks
  <2>4. \A x \in Sessions : Ready(x) => Ready(x)'
    BY <2>2 DEF ReportClose, Ready
  <2> QED BY <1>2, <1>8, <2>3, <2>4 DEF ResumeTimeout
<1> QED BY <1>3, <1>4, <1>5, <1>6, <1>7, <1>8 DEF SshStep

LEMMA HolderStep == TypeInv /\ HolderInv /\ [Next]_vars => HolderInv'
<1> SUFFICES ASSUME TypeInv, HolderInv, [Next]_vars PROVE HolderInv'
  OBVIOUS
<1>1. TypeInv'
  BY TypeStep
<1>2. CASE UNCHANGED vars
  BY <1>2 DEF vars, connVars, sshVars, HolderInv, RegistryCoherent, HeldIsReady, MadeIsReady,
              LinkIsMade, HolderIsAttached, LinkIsAttached, ExclusiveHolder, Ready, Registered
<1>3. CASE \E c \in Conns : ConnStep(c)
  BY <1>1, <1>3, ConnHolderStep
<1>4. CASE \E s \in Sessions : SshStep(s)
  BY <1>1, <1>4, SshHolderStep
<1> QED BY <1>2, <1>3, <1>4 DEF Next

LEMMA HolderInvariant == Spec => []HolderInv
  BY HolderInit, HolderStep, TypeInvariant, PTL DEF Spec

\* An init frame finds under its key either nothing or a usable entry of that
\* key, whatever has been closed, replaced or registered late before.
THEOREM RegistryStaysCoherent == Spec => []RegistryCoherent
<1>1. HolderInv => RegistryCoherent
  BY DEF HolderInv
<1> QED BY <1>1, HolderInvariant, PTL

\* No two connections ever drive the same SSH session: for any number of
\* clients, sessions and keys, and of init frames per connection.
THEOREM SessionHasOneHolder == Spec => []ExclusiveHolder
<1>1. HolderInv => ExclusiveHolder
  BY DEF HolderInv
<1> QED BY <1>1, HolderInvariant, PTL

\* Both together: what an init frame resumes or opens is usable and its own.
THEOREM HoldersStayCoherent == Spec => []HoldersCoherent
  BY RegistryStaysCoherent, SessionHasOneHolder, PTL DEF HoldersCoherent

-----------------------------------------------------------------------------
(* Leaks, the lease and the buffer.  All three are about clients that send   *)
(* one init frame, as both of them do; OneInit says so of a state, and while *)
(* it holds a connection is either the owner of one SSH session or has       *)
(* resumed one, never both.                                                  *)

\* A connection that has sent no init frame has no part in any session.
Untouched ==
    \A c \in Conns :
        inits[c] = 0 => /\ session[c] = None /\ resumeEntry[c] = None
                        /\ \A s \in Sessions : owner[s] # c

Placed == \A c \in Conns : wsState[c] \in {"none", "rejected"} => inits[c] = 0

OneOwned == \A s, x \in Sessions : owner[s] # None /\ owner[s] = owner[x] => s = x

\* The closure of a session's creator knows that session or none.
OwnerLinks ==
    \A s \in Sessions :
        owner[s] # None => /\ session[owner[s]] \in {None, s}
                           /\ resumeEntry[owner[s]] \in {None, s}

LinkFollows ==
    \A c \in Conns :
        session[c] # None => /\ resumeEntry[c] \in {None, session[c]}
                             /\ entry[session[c]].made => resumeEntry[c] = session[c]

\* A connection that can still clean an entry up holds its session, or the
\* session is over: no handler takes the entry of a live session from under
\* its holder (server.ts 855-936).
LinkIsHeld ==
    \A c \in Conns, s \in Sessions :
        resumeEntry[c] = s /\ wsState[c] # "closed" /\ ssh[s] = "live" => session[c] = s

LeaseInv ==
    /\ Untouched
    /\ Placed
    /\ OneOwned
    /\ OwnerLinks
    /\ LinkFollows
    /\ LinkIsHeld
    /\ DetachedIffTimer
    /\ OutputGoesToHolder
    /\ LiveIsHeldOrParked

\* The step of a handler that gives the session s up, or nothing if s = None:
\* only s is closed, detached and unregistered, and only its holder lets go.
Drops(s) ==
    /\ s \in Sessions \cup {None}
    /\ \A x \in Sessions : x # s =>
           /\ entry'[x] = entry[x]
           /\ ssh'[x] = ssh[x] \/ (~Ready(x) /\ ssh'[x] \in {"connecting", "rejected"})
    /\ s # None =>
           /\ ssh'[s] = "closed"
           /\ entry'[s] = entry[s] \/ (~entry'[s].timer /\ entry'[s].ws = None)
    /\ \A k \in Keys : resumeSessions[k] # None /\ resumeSessions'[k] = None
                           => resumeSessions[k] = s
    /\ \A c \in Conns : session'[c] = session[c] \/ (session[c] = s /\ session'[c] = None)

\* What the connections do meanwhile: open, close, count an init frame.
Turns ==
    /\ \A c \in Conns :
           /\ wsState[c] = "closed" => wsState'[c] = "closed"
           /\ wsState[c] \in {"open", "closing"} /\ session'[c] # None
                  => wsState'[c] \in {"open", "closing"}
           /\ wsState'[c] \in {"none", "rejected"}
                  => wsState[c] \in {"none", "rejected"} /\ inits'[c] = inits[c]
           /\ inits'[c] = 0 => inits[c] = 0
    /\ \/ UNCHANGED owner
       \/ \E c \in Conns, x \in Sessions :
              /\ ~Ready(x) /\ inits[c] = 0 /\ inits'[c] # 0
              /\ owner' = [owner EXCEPT ![x] = c]

GivesUp(s) ==
    /\ Drops(s) /\ Turns
    /\ Shrinks(entry', resumeSessions')
    /\ UNCHANGED <<resumeEntry, outVars>>

\* Giving up keeps the invariant, whatever is given up.
LEMMA GiveUpStep ==
    ASSUME TypeInv, HolderInv, TypeInv', HolderInv', LeaseInv,
           NEW s, GivesUp(s)
    PROVE  LeaseInv'
<1> USE DistinctNone
<1>1. /\ \A x \in Sessions : Ready(x) => owner'[x] = owner[x]
      /\ \A x \in Sessions : ssh'[x] = "live" => x # s /\ ssh[x] = "live"
      /\ \A c \in Conns : session'[c] # None => session'[c] = session[c] /\ session[c] \in Sessions
  <2>1. \A x \in Sessions : Ready(x) => owner'[x] = owner[x]
    BY DEF GivesUp, Turns, TypeInv, TypeOK
  <2>2. \A x \in Sessions : ssh'[x] = "live" => x # s /\ ssh[x] = "live"
    BY DEF GivesUp, Drops
  <2>3. \A c \in Conns : session'[c] # None => session'[c] = session[c] /\ session[c] \in Sessions
    BY DEF GivesUp, Drops, TypeInv, TypeOK
  <2> QED BY <2>1, <2>2, <2>3
<1>2. \A x \in Sessions : entry'[x].made = entry[x].made
  BY DEF GivesUp, Shrinks
<1>3. Untouched'
  BY <1>1 DEF GivesUp, Turns, LeaseInv, Untouched, TypeInv, TypeOK
<1>4. Placed'
  BY DEF GivesUp, Turns, LeaseInv, Placed
<1>5. OneOwned' /\ OwnerLinks'
  <2>1. CASE UNCHANGED owner
    BY <1>1, <2>1 DEF GivesUp, LeaseInv, OneOwned, OwnerLinks, TypeInv, TypeOK
  <2>2. ASSUME NEW c \in Conns, NEW x \in Sessions, inits[c] = 0,
               owner' = [owner EXCEPT ![x] = c]
        PROVE  OneOwned' /\ OwnerLinks'
    <3>1. \A y \in Sessions : owner[y] # c
      BY <2>2 DEF LeaseInv, Untouched
    <3>2. session'[c] = None /\ resumeEntry'[c] = None
      BY <1>1, <2>2 DEF GivesUp, LeaseInv, Untouched
    <3>3. OneOwned'
      BY <2>2, <3>1 DEF LeaseInv, OneOwned, TypeInv, TypeOK
    <3>4. OwnerLinks'
      BY <1>1, <2>2, <3>2 DEF GivesUp, LeaseInv, OwnerLinks, TypeInv, TypeOK
    <3> QED BY <3>3, <3>4
  <2> QED BY <2>1, <2>2 DEF GivesUp, Turns
<1>6. LinkFollows'
  BY <1>1, <1>2 DEF GivesUp, LeaseInv, LinkFollows
<1>7. LinkIsHeld'
  <2>1. ASSUME NEW c \in Conns, NEW x \in Sessions,
               resumeEntry'[c] = x, wsState'[c] # "closed", ssh'[x] = "live"
        PROVE  session'[c] = x
    <3>1. session[c] = x /\ x # s
      BY <1>1, <2>1 DEF GivesUp, Turns, LeaseInv, LinkIsHeld
    <3> QED BY <3>1 DEF GivesUp, Drops
  <2> QED BY <2>1 DEF LinkIsHeld
<1>8. DetachedIffTimer'
  <2>1. ASSUME NEW k \in Keys, resumeSessions'[k] # None, entry'[resumeSessions'[k]].ws = None
        PROVE  entry'[resumeSessions'[k]].timer
    BY <2>1 DEF GivesUp, Shrinks, LeaseInv, DetachedIffTimer
  <2>2. ASSUME NEW x \in Sessions, entry'[x].timer
        PROVE  /\ entry'[x].made /\ entry'[x].ws = None /\ ~entry'[x].closed
               /\ \A c \in Conns : session'[c] # x
    <3>1. entry'[x] = entry[x]
      BY <2>2 DEF GivesUp, Drops
    <3> QED BY <1>1, <2>2, <3>1 DEF LeaseInv, DetachedIffTimer
  <2> QED BY <2>1, <2>2 DEF DetachedIffTimer
<1>9. ASSUME NEW c \in Conns, NEW x \in Sessions, Holds(c, x)' PROVE Holds(c, x)
  <2>1. session[c] = x /\ wsState[c] # "closed"
    BY <1>1, <1>9 DEF Holds, GivesUp, Turns
  <2>2. inits[c] # 0
    BY <2>1 DEF LeaseInv, Untouched
  <2> QED BY <2>1, <2>2 DEF Holds, LeaseInv, Placed, TypeInv, TypeOK, WsStates
<1>10. OutputGoesToHolder'
  <2>1. ASSUME NEW c \in Conns, NEW x \in Sessions,
               Holds(c, x)', ssh'[x] = "live", entry'[x].made
        PROVE  entry'[x].ws = c
    <3>1. entry'[x] = entry[x] /\ ssh[x] = "live"
      BY <1>1, <2>1 DEF GivesUp, Drops
    <3> QED BY <1>9, <2>1, <3>1 DEF LeaseInv, OutputGoesToHolder
  <2> QED BY <2>1 DEF OutputGoesToHolder
<1>11. LiveIsHeldOrParked'
  <2>1. ASSUME NEW x \in Sessions, ssh'[x] = "live"
        PROVE  (\E c \in Conns : Holds(c, x)') \/ Parked(x)' \/ BornOrphan(x)'
    <3>1. /\ x # s /\ ssh[x] = "live" /\ entry'[x] = entry[x] /\ owner'[x] = owner[x]
          /\ \A c \in Conns : session[c] = x => session'[c] = x
      BY <1>1, <2>1 DEF GivesUp, Drops, Ready
    <3>2. CASE \E c \in Conns : Holds(c, x)
      BY <3>1, <3>2 DEF Holds, GivesUp, Turns
    <3>3. CASE Parked(x)
      BY <3>1, <3>3 DEF Parked
    <3>4. CASE BornOrphan(x)
      BY <3>1, <3>4 DEF BornOrphan, GivesUp, Turns, TypeInv, TypeOK
    <3> QED BY <3>1, <3>2, <3>3, <3>4 DEF LeaseInv, LiveIsHeldOrParked
  <2> QED BY <2>1 DEF LiveIsHeldOrParked
<1> QED BY <1>3, <1>4, <1>5, <1>6, <1>7, <1>8, <1>10, <1>11 DEF LeaseInv

\* Entries and registry after the cleanup of s, or as they are: what else is
\* there stays, and what is left of s is detached.
CleanOf(s, entries, registry) ==
    /\ entries \in [Sessions -> Entries]
    /\ registry \in [Keys -> Sessions \cup {None}]
    /\ Shrinks(entries, registry)
    /\ \A x \in Sessions : x # s => entries[x] = entry[x]
    /\ s # None => entries[s] = entry[s] \/ (~entries[s].timer /\ entries[s].ws = None)
    /\ \A k \in Keys : resumeSessions[k] # None /\ registry[k] = None => resumeSessions[k] = s

LEMMA CleanupCleans ==
    ASSUME TypeInv, HolderInv, NEW s \in Sessions \cup {None}, NEW e \in {s, None},
           NEW entries, NEW registry, CleanOf(s, entries, registry)
    PROVE  /\ CleanOf(s, Cleanup(entries, e), Unregister(registry, e))
           /\ CleanOf(s, Cleanup(MarkClosed(entries, e), e), Unregister(registry, e))
<1>1. /\ Cleanup(entries, e) \in [Sessions -> Entries]
      /\ Cleanup(MarkClosed(entries, e), e) \in [Sessions -> Entries]
      /\ Unregister(registry, e) \in [Keys -> Sessions \cup {None}]
  BY CleanupType, UnregisterType DEF CleanOf
<1>2. /\ Shrinks(Cleanup(entries, e), Unregister(registry, e))
      /\ Shrinks(Cleanup(MarkClosed(entries, e), e), Unregister(registry, e))
  BY CleanupShrinks DEF CleanOf, TypeInv, HolderInv
<1>3. ASSUME NEW x \in Sessions, x # e
      PROVE  /\ Cleanup(entries, e)[x] = entries[x]
             /\ Cleanup(MarkClosed(entries, e), e)[x] = entries[x]
  BY <1>3 DEF Cleanup, MarkClosed
<1>4. ASSUME e # None
      PROVE  /\ ~Cleanup(entries, e)[e].timer /\ Cleanup(entries, e)[e].ws = None
             /\ ~Cleanup(MarkClosed(entries, e), e)[e].timer
             /\ Cleanup(MarkClosed(entries, e), e)[e].ws = None
  <2>1. e \in Sessions /\ entries[e] \in Entries
    BY <1>4 DEF CleanOf
  <2>2. /\ Cleanup(entries, e)[e] = [entries[e] EXCEPT !.timer = FALSE, !.ws = None]
        /\ Cleanup(MarkClosed(entries, e), e)[e]
               = [[entries[e] EXCEPT !.closed = TRUE] EXCEPT !.timer = FALSE, !.ws = None]
    BY <2>1 DEF Cleanup, MarkClosed
  <2> QED BY <2>1, <2>2 DEF Entries
<1>5. \A k \in Keys : resumeSessions[k] # None /\ Unregister(registry, e)[k] = None
                          => resumeSessions[k] = s
  BY DEF Unregister, CleanOf, Shrinks
<1> QED BY <1>1, <1>2, <1>3, <1>4, <1>5, DistinctNone DEF CleanOf

LEMMA NothingCleaned ==
    ASSUME TypeInv, NEW s
    PROVE  CleanOf(s, entry, resumeSessions)
  BY NothingShrinks DEF CleanOf, TypeInv, TypeOK

\* The callback of a session cleans up that session's entry only.
LEMMA ReportCleans ==
    ASSUME TypeInv, HolderInv, LeaseInv, NEW s \in Sessions \cup {None}, NEW r \in {s, None},
           r # None => owner[r] \in Conns,
           NEW sshes, NEW details, NEW entries, NEW registry,
           CleanOf(s, entries, registry), ReportClose(r, sshes, entries, registry, details)
    PROVE  /\ CleanOf(s, entry', resumeSessions')
           /\ \A x \in Sessions : ssh'[x] = IF x = r THEN "closed" ELSE sshes[x]
<1> DEFINE e == CallbackEntry(r)
<1>1. e \in {s, None}
  BY DistinctNone DEF CallbackEntry, LeaseInv, OwnerLinks
<1>2. /\ entry' = Cleanup(MarkClosed(entries, e), e)
      /\ resumeSessions' = Unregister(registry, e)
      /\ \A x \in Sessions : ssh'[x] = IF x = r THEN "closed" ELSE sshes[x]
  BY DEF ReportClose
<1> HIDE DEF e
<1> QED BY <1>1, <1>2, CleanupCleans

\* What a connection lets go of when it ends: its session, or the entry it has
\* kept of one that is over.
Own(c) == IF session[c] # None THEN session[c] ELSE resumeEntry[c]

LEMMA OwnIsOver ==
    ASSUME TypeInv, HolderInv, LeaseInv, NEW c \in Conns, wsState[c] # "closed",
           NEW details,
           ReportClose(Reportable(session[c]), ssh, Cleanup(entry, resumeEntry[c]),
                       Unregister(resumeSessions, resumeEntry[c]), details),
           \A d \in Conns : session'[d] = session[d]
                                \/ (d = c /\ session'[d] = None)
    PROVE  Drops(Own(c)) /\ Shrinks(entry', resumeSessions')
<1> DEFINE s == Own(c)
           r == Reportable(session[c])
<1>1. s \in Sessions \cup {None} /\ resumeEntry[c] \in {s, None} /\ session[c] \in {s, None}
  BY DEF Own, LeaseInv, LinkFollows, TypeInv, TypeOK
<1>2. r \in {s, None} /\ (r # None => ssh[r] = "live" /\ owner[r] \in Conns)
  BY <1>1 DEF Reportable, TypeInv, OwnerKnown
<1>3. s # None => ssh[s] = "closed" \/ (r = s /\ ssh[s] = "live")
  <2>1. CASE session[c] # None
    BY <2>1, <1>1 DEF Own, HolderInv, HeldIsReady, Ready, Reportable
  <2>2. CASE session[c] = None /\ resumeEntry[c] # None
    <3>1. Ready(s) /\ s = resumeEntry[c] /\ s \in Sessions
      BY <1>1, <2>2 DEF Own, HolderInv, LinkIsMade, MadeIsReady
    <3>2. ssh[s] # "live"
      BY <2>2, <3>1 DEF LeaseInv, LinkIsHeld
    <3> QED BY <3>1, <3>2 DEF Ready
  <2> QED BY <2>1, <2>2 DEF Own
<1>4. CleanOf(s, Cleanup(entry, resumeEntry[c]), Unregister(resumeSessions, resumeEntry[c]))
  <2> HIDE DEF s
  <2> QED BY <1>1, NothingCleaned, CleanupCleans
<1>5. /\ CleanOf(s, entry', resumeSessions')
      /\ \A x \in Sessions : ssh'[x] = IF x = r THEN "closed" ELSE ssh[x]
  <2> HIDE DEF s, r
  <2> QED BY <1>1, <1>2, <1>4, ReportCleans DEF r
<1> HIDE DEF s, r
<1>6. s # None => ssh'[s] = "closed"
  BY <1>1, <1>3, <1>5
<1>7. \A x \in Sessions : x # s => ssh'[x] = ssh[x]
  BY <1>2, <1>5, DistinctNone
<1>8. \A d \in Conns : session'[d] = session[d] \/ (session[d] = s /\ session'[d] = None)
  BY <1>1
<1>9. Drops(s)
  BY <1>1, <1>5, <1>6, <1>7, <1>8 DEF Drops, CleanOf
<1> QED BY <1>5, <1>9 DEF s, CleanOf

\* A connection that opens, is refused or begins to close.
LEMMA QuietStep ==
    ASSUME TypeInv, UNCHANGED <<session, ssh, entry, resumeSessions>>
    PROVE  Drops(None) /\ Shrinks(entry', resumeSessions')
  BY NothingShrinks, DistinctNone DEF Drops, TypeInv, TypeOK

LEMMA ConnGivesUp ==
    ASSUME TypeInv, HolderInv, OneInit', LeaseInv, NEW c \in Conns,
           \/ Accept(c) \/ Reject(c) \/ InitAgain(c) \/ PeerCloses(c)
           \/ \E k \in Keys \cup {None}, t \in Targets, x \in Sessions : InitConnect(c, k, t, x)
           \/ ReceiveDisconnect(c) \/ WsError(c)
    PROVE  \E s : GivesUp(s)
<1>1. CASE Accept(c) \/ Reject(c) \/ InitAgain(c) \/ PeerCloses(c)
  <2>1. UNCHANGED <<session, ssh, entry, resumeSessions, owner, resumeEntry, outVars>>
    BY <1>1 DEF Accept, Reject, InitAgain, PeerCloses, sshVars
  <2>2. Turns
    BY <1>1, <2>1 DEF Accept, Reject, InitAgain, PeerCloses, GetInit, Turns, TypeInv, TypeOK
  <2> QED BY <2>1, <2>2, QuietStep DEF GivesUp
<1>2. ASSUME NEW k \in Keys \cup {None}, NEW t \in Targets, NEW x \in Sessions,
             InitConnect(c, k, t, x)
      PROVE  \E s : GivesUp(s)
  <2> DEFINE e   == IF k = None THEN None ELSE resumeSessions[k]
             old == IF e # None /\ ~entry[e].closed THEN e ELSE None
             r == Reportable(old)
             sshes == [ssh EXCEPT ![x] = "connecting"]
             entries == Cleanup(MarkClosed(entry, old), old)
             registry == Unregister(resumeSessions, old)
  <2>1. /\ ReportClose(r, sshes, entries, registry, detail)
        /\ ssh[x] = "idle" /\ owner' = [owner EXCEPT ![x] = c]
        /\ inits' = [inits EXCEPT ![c] = @ + 1]
        /\ UNCHANGED <<wsState, session, resumeEntry, outVars>>
        /\ wsState[c] = "open"
    BY <1>2 DEF InitConnect, GetInit
  <2>2. old \in Sessions \cup {None} /\ (old # None => Ready(old))
    BY DEF HolderInv, RegistryCoherent, MadeIsReady, TypeInv, TypeOK
  <2> HIDE DEF old
  <2>3. r \in {old, None} /\ (r # None => ssh[r] = "live" /\ owner[r] \in Conns)
    BY <2>2 DEF Reportable, TypeInv, OwnerKnown
  <2>4. old # None => ssh[old] = "closed" \/ (r = old /\ ssh[old] = "live")
    BY <2>2 DEF Reportable, Ready
  <2>5. CleanOf(old, entries, registry)
    BY <2>2, NothingCleaned, CleanupCleans
  <2> HIDE DEF sshes, entries, registry, r
  <2>6. /\ CleanOf(old, entry', resumeSessions')
        /\ \A y \in Sessions : ssh'[y] = IF y = r THEN "closed" ELSE sshes[y]
    BY <2>1, <2>2, <2>3, <2>5, ReportCleans
  <2>7. old # x /\ \A y \in Sessions : sshes[y] = IF y = x THEN "connecting" ELSE ssh[y]
    BY <2>1, <2>2, DistinctNone DEF sshes, Ready, TypeInv, TypeOK
  <2>8. /\ \A y \in Sessions : y # old =>
               ssh'[y] = ssh[y] \/ (~Ready(y) /\ ssh'[y] \in {"connecting", "rejected"})
        /\ old # None => ssh'[old] = "closed"
    BY <2>1, <2>2, <2>3, <2>4, <2>6, <2>7, DistinctNone DEF Ready
  <2>9. Drops(old) /\ Shrinks(entry', resumeSessions')
    BY <2>1, <2>2, <2>6, <2>8 DEF Drops, CleanOf
  <2>10. inits[c] = 0 /\ inits'[c] # 0
    BY <2>1 DEF OneInit, TypeInv, TypeOK
  <2>11. Turns
    BY <2>1, <2>10 DEF Turns, Ready, TypeInv, TypeOK
  <2> QED BY <2>1, <2>9, <2>11 DEF GivesUp
<1>3. CASE ReceiveDisconnect(c)
  <2>1. Drops(Own(c)) /\ Shrinks(entry', resumeSessions')
    BY <1>3, OwnIsOver DEF ReceiveDisconnect
  <2>2. Turns
    BY <1>3 DEF ReceiveDisconnect, Turns, TypeInv, TypeOK
  <2> QED BY <1>3, <2>1, <2>2 DEF ReceiveDisconnect, GivesUp
<1>4. CASE WsError(c)
  <2>1. \A d \in Conns : session'[d] = session[d] \/ (d = c /\ session'[d] = None)
    BY <1>4 DEF WsError, TypeInv, TypeOK
  <2>2. Drops(Own(c)) /\ Shrinks(entry', resumeSessions')
    BY <1>4, <2>1, OwnIsOver DEF WsError
  <2>3. Turns
    BY <1>4 DEF WsError, Turns, TypeInv, TypeOK
  <2> QED BY <1>4, <2>2, <2>3 DEF WsError, GivesUp
<1> QED BY <1>1, <1>2, <1>3, <1>4

LEMMA CloseGivesUp ==
    ASSUME TypeInv, HolderInv, OneInit', LeaseInv, NEW c \in Conns, NEW code \in CloseCodes,
           WsClose(c, code), UNCHANGED <<resumeEntry, outVars>>,
           NEW details,
           ReportClose(Reportable(session[c]), ssh, Cleanup(entry, resumeEntry[c]),
                       Unregister(resumeSessions, resumeEntry[c]), details)
    PROVE  \E s : GivesUp(s)
<1>1. /\ wsState[c] = "closing" /\ wsState' = [wsState EXCEPT ![c] = "closed"]
      /\ session' = [session EXCEPT ![c] = None] /\ UNCHANGED <<inits, owner>>
  BY DEF WsClose
<1>2. \A d \in Conns : session'[d] = session[d] \/ (d = c /\ session'[d] = None)
  BY <1>1 DEF TypeInv, TypeOK
<1>3. Drops(Own(c)) /\ Shrinks(entry', resumeSessions')
  BY <1>1, <1>2, OwnIsOver
<1>4. Turns
  BY <1>1 DEF Turns, TypeInv, TypeOK
<1> QED BY <1>3, <1>4 DEF GivesUp

LEMMA SshGivesUp ==
    ASSUME TypeInv, HolderInv, LeaseInv, NEW s \in Sessions,
           SshReject(s) \/ SshEnd(s) \/ ResumeTimeout(s)
    PROVE  \E x : GivesUp(x)
<1>1. CASE SshReject(s)
  <2>1. UNCHANGED <<session, entry, resumeSessions, owner, resumeEntry, wsState, inits, outVars>>
    BY <1>1 DEF SshReject, connVars
  <2>2. Drops(None)
    BY <1>1, <2>1, DistinctNone DEF SshReject, Drops, Ready, TypeInv, TypeOK
  <2>3. Shrinks(entry', resumeSessions')
    BY <2>1, NothingShrinks DEF TypeInv
  <2>4. Turns
    BY <2>1 DEF Turns
  <2> QED BY <2>1, <2>2, <2>3, <2>4 DEF GivesUp
<1>2. CASE SshEnd(s)
  <2>1. /\ ssh[s] \in {"connecting", "rejected", "live"} /\ owner[s] \in Conns
        /\ ReportClose(s, ssh, entry, resumeSessions, detail)
        /\ UNCHANGED <<wsState, session, resumeEntry, inits, owner, outVars>>
    BY <1>2 DEF SshEnd, TypeInv, OwnerKnown
  <2>2. /\ CleanOf(s, entry', resumeSessions')
        /\ \A x \in Sessions : ssh'[x] = IF x = s THEN "closed" ELSE ssh[x]
    BY <2>1, NothingCleaned, ReportCleans
  <2>3. Drops(s) /\ Shrinks(entry', resumeSessions') /\ Turns
    BY <2>1, <2>2 DEF Drops, CleanOf, Turns
  <2> QED BY <2>1, <2>3 DEF GivesUp
<1>3. CASE ResumeTimeout(s)
  <2> DEFINE entries == Cleanup(MarkClosed(entry, s), s)
             registry == Unregister(resumeSessions, s)
             r == Reportable(s)
  <2>1. entry[s].timer /\ ~entry[s].closed /\ Ready(s)
    BY <1>3 DEF ResumeTimeout, LeaseInv, DetachedIffTimer, HolderInv, MadeIsReady
  <2>2. /\ ReportClose(r, ssh, entries, registry, detail)
        /\ UNCHANGED <<wsState, session, resumeEntry, inits, owner, outVars>>
    BY <1>3, <2>1 DEF ResumeTimeout
  <2>3. r \in {s, None} /\ (r # None => owner[r] \in Conns) /\ (ssh[s] = "live" => r = s)
    BY DistinctNone DEF Reportable, TypeInv, OwnerKnown
  <2>4. CleanOf(s, entries, registry)
    BY NothingCleaned, CleanupCleans
  <2> HIDE DEF entries, registry, r
  <2>5. /\ CleanOf(s, entry', resumeSessions')
        /\ \A x \in Sessions : ssh'[x] = IF x = r THEN "closed" ELSE ssh[x]
    BY <2>2, <2>3, <2>4, ReportCleans
  <2>6. Drops(s) /\ Shrinks(entry', resumeSessions') /\ Turns
    BY <2>1, <2>2, <2>3, <2>5, DistinctNone DEF Drops, CleanOf, Turns, Ready
  <2> QED BY <2>2, <2>6 DEF GivesUp
<1> QED BY <1>1, <1>2, <1>3

\* The rest of the init handler grants the session to its creator, which has
\* had no part in any other.
LEMMA RegistersOwn ==
    ASSUME TypeInv, HolderInv, LeaseInv, NEW s \in Sessions, SshReady(s) \/ SshReadyTooLate(s)
    PROVE  /\ ssh[s] = "connecting" /\ Ready(s)' /\ owner[s] \in Conns
           /\ session[owner[s]] = None /\ resumeEntry[owner[s]] = None
           /\ ~entry[s].made
           /\ \A x \in Sessions : x # s => ssh'[x] = ssh[x]
           /\ entry' = NewEntry(entry, s)
           /\ resumeSessions' = NewRegistration(resumeSessions, s)
           /\ Register(s) /\ UNCHANGED <<wsState, inits, owner, outVars>>
<1>1. ssh[s] = "connecting" /\ owner[s] \in Conns /\ owner[s] # None
  BY DistinctNone DEF SshReady, SshReadyTooLate, TypeInv, OwnerKnown
<1>2. session[owner[s]] = None /\ resumeEntry[owner[s]] = None /\ ~entry[s].made
  BY <1>1 DEF LeaseInv, OwnerLinks, HolderInv, HeldIsReady, LinkIsMade, MadeIsReady, Ready
<1>3. CASE SshReady(s)
  BY <1>1, <1>2, <1>3 DEF SshReady, Register, Ready, TypeInv, TypeOK
<1>4. CASE SshReadyTooLate(s)
  <2>1. CallbackEntry(s) = None
    BY <1>2, DistinctNone DEF CallbackEntry
  <2>2. /\ Cleanup(MarkClosed(entry, None), None) = entry
        /\ Unregister(resumeSessions, None) = resumeSessions
    <3>1. \A x \in Sessions : Cleanup(MarkClosed(entry, None), None)[x] = entry[x]
      BY DistinctNone DEF Cleanup, MarkClosed
    <3>2. \A j \in Keys : Unregister(resumeSessions, None)[j] = resumeSessions[j]
      BY DEF Unregister
    <3>3. /\ entry = [x \in Sessions |-> entry[x]]
          /\ resumeSessions = [j \in Keys |-> resumeSessions[j]]
      BY DEF TypeInv, TypeOK
    <3>4. Cleanup(MarkClosed(entry, None), None) = entry
      BY <3>1, <3>3 DEF Cleanup
    <3>5. Unregister(resumeSessions, None) = resumeSessions
      BY <3>2, <3>3 DEF Unregister
    <3> QED BY <3>4, <3>5
  <2>3. entry' = NewEntry(entry, s) /\ resumeSessions' = NewRegistration(resumeSessions, s)
    BY <1>4, <2>1, <2>2 DEF SshReadyTooLate
  <2> QED BY <1>1, <1>2, <1>4, <2>3 DEF SshReadyTooLate, Register, Ready, TypeInv, TypeOK
<1> QED BY <1>3, <1>4

LEMMA GrantStep ==
    ASSUME TypeInv, HolderInv, LeaseInv, TypeInv', HolderInv',
           NEW s \in Sessions, SshReady(s) \/ SshReadyTooLate(s)
    PROVE  LeaseInv'
<1> USE DistinctNone
<1> DEFINE o == owner[s]
           k == request[s].key
<1>1. /\ o \in Conns /\ ssh[s] = "connecting" /\ session[o] = None /\ resumeEntry[o] = None
      /\ ~entry[s].made /\ UNCHANGED <<wsState, inits, owner>>
      /\ \A x \in Sessions : x # s => ssh'[x] = ssh[x]
  BY RegistersOwn
<1>2. /\ session' = [session EXCEPT ![o] = s]
      /\ resumeEntry' = IF k = None THEN resumeEntry ELSE [resumeEntry EXCEPT ![o] = s]
  BY RegistersOwn DEF Register
<1>3. /\ \A x \in Sessions : x # s => entry'[x] = entry[x]
      /\ IF k = None THEN entry'[s] = entry[s]
         ELSE entry'[s] = [made |-> TRUE, ws |-> o, timer |-> FALSE, closed |-> FALSE]
      /\ \A j \in Keys : resumeSessions'[j] = IF j = k THEN s ELSE resumeSessions[j]
  <2>1. entry' = NewEntry(entry, s) /\ resumeSessions' = NewRegistration(resumeSessions, s)
    BY RegistersOwn
  <2>2. k \in Keys \cup {None}
    BY DEF TypeInv, TypeOK, Requests
  <2> QED BY <2>1, <2>2 DEF NewEntry, NewRegistration, TypeInv, TypeOK
<1>4. \A c \in Conns : c # o => session'[c] = session[c] /\ resumeEntry'[c] = resumeEntry[c]
  BY <1>1, <1>2 DEF TypeInv, TypeOK
<1>5. session'[o] = s /\ resumeEntry'[o] = IF k = None THEN None ELSE s
  BY <1>1, <1>2 DEF TypeInv, TypeOK
<1>6. \A c \in Conns : session[c] # s /\ resumeEntry[c] # s
  BY <1>1 DEF HolderInv, HeldIsReady, LinkIsMade, Ready
<1>7. inits[o] # 0 /\ wsState[o] \in {"open", "closing", "closed"}
  BY <1>1 DEF LeaseInv, Untouched, Placed, TypeInv, TypeOK, WsStates
<1> HIDE DEF o
<1>8. Untouched' /\ Placed' /\ OneOwned'
  BY <1>1, <1>4, <1>7 DEF LeaseInv, Untouched, Placed, OneOwned
<1>9. OwnerLinks'
  <2>1. \A x \in Sessions : owner[x] = o => x = s
    BY <1>1 DEF o, LeaseInv, OneOwned
  <2>2. ASSUME NEW x \in Sessions, owner[x] # None
        PROVE  session'[owner[x]] \in {None, x} /\ resumeEntry'[owner[x]] \in {None, x}
    <3>1. CASE owner[x] = o
      BY <1>5, <2>1, <3>1
    <3>2. CASE owner[x] # o
      <4>1. owner[x] \in Conns
        BY <2>2 DEF TypeInv, TypeOK
      <4> QED BY <1>4, <2>2, <3>2, <4>1 DEF LeaseInv, OwnerLinks
    <3> QED BY <3>1, <3>2
  <2> QED BY <1>1, <2>2 DEF OwnerLinks
<1>10. LinkFollows'
  <2>1. \A c \in Conns : c # o /\ session[c] # None => entry'[session[c]] = entry[session[c]]
    BY <1>3, <1>6 DEF TypeInv, TypeOK
  <2> QED BY <1>1, <1>3, <1>4, <1>5, <2>1 DEF LeaseInv, LinkFollows
<1>11. LinkIsHeld'
  BY <1>1, <1>4, <1>5, <1>6 DEF LeaseInv, LinkIsHeld
<1>12. DetachedIffTimer'
  <2>1. ASSUME NEW j \in Keys, resumeSessions'[j] # None, entry'[resumeSessions'[j]].ws = None
        PROVE  entry'[resumeSessions'[j]].timer
    <3>1. j # k
      BY <1>1, <1>3, <2>1
    <3>2. resumeSessions'[j] = resumeSessions[j] /\ resumeSessions[j] \in Sessions
      BY <1>3, <2>1, <3>1 DEF TypeInv, TypeOK
    <3>3. resumeSessions[j] # s
      BY <1>1, <2>1, <3>2 DEF HolderInv, RegistryCoherent
    <3> QED BY <1>3, <2>1, <3>2, <3>3 DEF LeaseInv, DetachedIffTimer
  <2>2. ASSUME NEW x \in Sessions, entry'[x].timer
        PROVE  /\ entry'[x].made /\ entry'[x].ws = None /\ ~entry'[x].closed
               /\ \A c \in Conns : session'[c] # x
    <3>1. x # s
      BY <1>1, <1>3, <2>2 DEF LeaseInv, DetachedIffTimer
    <3> QED BY <1>3, <1>4, <1>5, <2>2, <3>1 DEF LeaseInv, DetachedIffTimer
  <2> QED BY <2>1, <2>2 DEF DetachedIffTimer
<1>13. OutputGoesToHolder'
  <2>1. ASSUME NEW c \in Conns, NEW x \in Sessions,
               Holds(c, x)', ssh'[x] = "live", entry'[x].made
        PROVE  entry'[x].ws = c
    <3>1. CASE c = o
      BY <1>1, <1>3, <1>5, <2>1, <3>1 DEF Holds
    <3>2. CASE c # o
      BY <1>1, <1>3, <1>4, <1>6, <2>1, <3>2 DEF Holds, LeaseInv, OutputGoesToHolder
    <3> QED BY <3>1, <3>2
  <2> QED BY <2>1 DEF OutputGoesToHolder
<1>14. LiveIsHeldOrParked'
  <2>1. ASSUME NEW x \in Sessions, ssh'[x] = "live"
        PROVE  (\E c \in Conns : Holds(c, x)') \/ Parked(x)' \/ BornOrphan(x)'
    <3>1. CASE x = s
      BY <1>1, <1>5, <1>7, <3>1 DEF Holds, BornOrphan, o
    <3>2. CASE x # s
      <4>1. /\ ssh[x] = "live" /\ entry'[x] = entry[x]
            /\ \A c \in Conns : session[c] = x => session'[c] = x
        BY <1>1, <1>3, <1>4, <2>1, <3>2
      <4>2. CASE \E c \in Conns : Holds(c, x)
        BY <1>1, <4>1, <4>2 DEF Holds
      <4>3. CASE Parked(x)
        BY <4>1, <4>3 DEF Parked
      <4>4. CASE BornOrphan(x)
        BY <1>1, <4>1, <4>4 DEF BornOrphan, TypeInv, TypeOK
      <4> QED BY <4>1, <4>2, <4>3, <4>4 DEF LeaseInv, LiveIsHeldOrParked
    <3> QED BY <3>1, <3>2
  <2> QED BY <2>1 DEF LiveIsHeldOrParked
<1> QED BY <1>8, <1>9, <1>10, <1>11, <1>12, <1>13, <1>14 DEF LeaseInv

\* What a resume takes: a parked entry, for a connection without any.
LEMMA ResumesParked ==
    ASSUME TypeInv, HolderInv, LeaseInv, OneInit', NEW c \in Conns, NEW k \in Keys,
           NEW t \in Targets, NEW e, e = resumeSessions[k], InitResume(c, k, t)
    PROVE  /\ e \in Sessions /\ entry[e].timer /\ entry[e].made
           /\ \A d \in Conns : session[d] # e
           /\ wsState[c] = "open" /\ inits[c] = 0 /\ inits'[c] # 0
           /\ \A d \in Conns : d # c => inits'[d] = inits[d]
           /\ session' = [session EXCEPT ![c] = e]
           /\ resumeEntry' = [resumeEntry EXCEPT ![c] = e]
           /\ \A x \in Sessions : x # e => entry'[x] = entry[x]
           /\ ~entry'[e].timer /\ entry'[e].ws = c /\ entry'[e].made = entry[e].made
           /\ UNCHANGED <<wsState, ssh, owner, request, resumeSessions>>
<1>1. /\ e \in Sessions /\ e # None /\ entry[e].ws = None
      /\ session' = [session EXCEPT ![c] = e]
      /\ resumeEntry' = [resumeEntry EXCEPT ![c] = e]
      /\ wsState[c] = "open" /\ inits' = [inits EXCEPT ![c] = @ + 1]
      /\ entry' = [entry EXCEPT ![e] = [@ EXCEPT !.timer = FALSE, !.ws = c]]
      /\ UNCHANGED <<wsState, ssh, owner, request, resumeSessions>>
  BY DEF InitResume, GetInit, Attachable, TypeInv, TypeOK
<1>2. inits[c] = 0 /\ inits'[c] # 0 /\ \A d \in Conns : d # c => inits'[d] = inits[d]
  BY <1>1 DEF OneInit, TypeInv, TypeOK
<1>3. entry[e].timer /\ entry[e].made /\ \A d \in Conns : session[d] # e
  BY <1>1 DEF LeaseInv, DetachedIffTimer
<1>4. \A x \in Sessions : x # e => entry'[x] = entry[x]
  BY <1>1 DEF TypeInv, TypeOK
<1>5. ~entry'[e].timer /\ entry'[e].ws = c /\ entry'[e].made = entry[e].made
  <2>1. entry[e] \in Entries /\ entry'[e] = [entry[e] EXCEPT !.timer = FALSE, !.ws = c]
    BY <1>1 DEF TypeInv, TypeOK
  <2> QED BY <2>1 DEF Entries
<1> QED BY <1>1, <1>2, <1>3, <1>4, <1>5

LEMMA ResumeLeaseStep ==
    ASSUME TypeInv, HolderInv, LeaseInv, TypeInv', HolderInv', OneInit', NEW c \in Conns,
           NEW k \in Keys, NEW t \in Targets, InitResume(c, k, t)
    PROVE  LeaseInv'
<1> USE DistinctNone
<1> DEFINE e == resumeSessions[k]
<1>1. /\ e \in Sessions /\ entry[e].timer /\ entry[e].made
      /\ \A d \in Conns : session[d] # e
      /\ wsState[c] = "open" /\ inits[c] = 0 /\ inits'[c] # 0
      /\ \A d \in Conns : d # c => inits'[d] = inits[d]
      /\ session' = [session EXCEPT ![c] = e]
      /\ resumeEntry' = [resumeEntry EXCEPT ![c] = e]
      /\ \A x \in Sessions : x # e => entry'[x] = entry[x]
      /\ ~entry'[e].timer /\ entry'[e].ws = c /\ entry'[e].made = entry[e].made
      /\ UNCHANGED <<wsState, ssh, owner, request, resumeSessions>>
  BY ResumesParked
<1> HIDE DEF e
<1>2. /\ session'[c] = e /\ resumeEntry'[c] = e
      /\ \A d \in Conns : d # c => session'[d] = session[d] /\ resumeEntry'[d] = resumeEntry[d]
  BY <1>1 DEF TypeInv, TypeOK
<1>3. \A s \in Sessions : owner[s] # c
  BY <1>1 DEF LeaseInv, Untouched
<1>4. \A x \in Sessions : entry'[x].made = entry[x].made
  BY <1>1
<1>5. Untouched' /\ Placed' /\ OneOwned'
  BY <1>1, <1>2 DEF LeaseInv, Untouched, Placed, OneOwned
<1>6. OwnerLinks'
  BY <1>1, <1>2, <1>3 DEF LeaseInv, OwnerLinks, TypeInv, TypeOK
<1>7. LinkFollows'
  BY <1>1, <1>2, <1>4 DEF LeaseInv, LinkFollows, TypeInv, TypeOK
<1>8. LinkIsHeld'
  BY <1>1, <1>2 DEF LeaseInv, LinkIsHeld
<1>9. DetachedIffTimer'
  <2>1. \A j \in Keys : resumeSessions[j] # None => resumeSessions[j] \in Sessions
    BY DEF TypeInv, TypeOK
  <2> QED BY <1>1, <1>2, <2>1 DEF LeaseInv, DetachedIffTimer
<1>10. OutputGoesToHolder'
  BY <1>1, <1>2 DEF LeaseInv, OutputGoesToHolder, Holds
<1>11. LiveIsHeldOrParked'
  <2>1. ASSUME NEW x \in Sessions, ssh'[x] = "live"
        PROVE  (\E d \in Conns : Holds(d, x)') \/ Parked(x)' \/ BornOrphan(x)'
    <3>1. CASE x = e
      BY <1>1, <1>2, <3>1 DEF Holds
    <3>2. CASE x # e
      <4>1. session[c] = None /\ ssh[x] = "live" /\ entry'[x] = entry[x]
        BY <1>1, <2>1, <3>2 DEF LeaseInv, Untouched
      <4>2. CASE \E d \in Conns : Holds(d, x)
        BY <1>1, <1>2, <4>1, <4>2 DEF Holds
      <4>3. CASE Parked(x)
        BY <4>1, <4>3 DEF Parked
      <4>4. CASE BornOrphan(x)
        BY <1>1, <1>2, <1>3, <4>4 DEF BornOrphan, TypeInv, TypeOK
      <4> QED BY <4>1, <4>2, <4>3, <4>4 DEF LeaseInv, LiveIsHeldOrParked
    <3> QED BY <3>1, <3>2
  <2> QED BY <2>1 DEF LiveIsHeldOrParked
<1> QED BY <1>5, <1>6, <1>7, <1>8, <1>9, <1>10, <1>11 DEF LeaseInv

LEMMA ParkedEntry ==
    ASSUME NEW old \in Entries, NEW new, new = [old EXCEPT !.ws = None, !.timer = TRUE]
    PROVE  new.timer /\ new.ws = None /\ new.made = old.made /\ new.closed = old.closed
  BY DEF Entries

\* Parking: the entry a closing connection is linked to is the session it
\* holds, so what it lets go of is what the timer now guards.
LEMMA ParkLeaseStep ==
    ASSUME TypeInv, HolderInv, LeaseInv, TypeInv', HolderInv', NEW c \in Conns,
           NEW s, s = resumeEntry[c], s # None, session[c] # None,
           ~entry[s].closed,
           wsState[c] = "closing", wsState' = [wsState EXCEPT ![c] = "closed"],
           session' = [session EXCEPT ![c] = None],
           entry' = [entry EXCEPT ![s] = [@ EXCEPT !.ws = None, !.timer = TRUE]],
           UNCHANGED <<ssh, resumeSessions, resumeEntry, inits, owner>>
    PROVE  LeaseInv' /\ session[c] = s /\ entry'[s].timer
<1> USE DistinctNone
<1>1. s \in Sessions /\ session[c] = s /\ entry[s].made
  BY DEF LeaseInv, LinkFollows, HolderInv, LinkIsMade, TypeInv, TypeOK
<1>2. /\ \A x \in Sessions : x # s => entry'[x] = entry[x]
      /\ entry'[s].timer /\ entry'[s].ws = None
      /\ entry'[s].made = entry[s].made /\ entry'[s].closed = entry[s].closed
  <2>1. entry[s] \in Entries /\ entry'[s] = [entry[s] EXCEPT !.ws = None, !.timer = TRUE]
    BY <1>1 DEF TypeInv, TypeOK
  <2>2. /\ entry'[s].timer /\ entry'[s].ws = None
        /\ entry'[s].made = entry[s].made /\ entry'[s].closed = entry[s].closed
    BY <2>1, ParkedEntry
  <2>3. \A x \in Sessions : x # s => entry'[x] = entry[x]
    BY DEF TypeInv, TypeOK
  <2> QED BY <2>2, <2>3
<1>3. /\ session'[c] = None /\ wsState'[c] = "closed"
      /\ \A d \in Conns : d # c => session'[d] = session[d] /\ wsState'[d] = wsState[d]
  BY DEF TypeInv, TypeOK
<1>4. \A d \in Conns : session'[d] # s
  BY <1>1, <1>3 DEF HolderInv, ExclusiveHolder
<1>5. \A x \in Sessions : entry'[x].made = entry[x].made
  BY <1>2
<1>6. Untouched' /\ Placed' /\ OneOwned' /\ OwnerLinks'
  <2>1. Untouched' /\ Placed' /\ OneOwned'
    BY <1>3 DEF LeaseInv, Untouched, Placed, OneOwned
  <2>2. OwnerLinks'
    BY <1>3 DEF LeaseInv, OwnerLinks, TypeInv, TypeOK
  <2> QED BY <2>1, <2>2
<1>7. LinkFollows' /\ LinkIsHeld'
  <2>1. \A d \in Conns : session[d] # None => session[d] \in Sessions
    BY DEF TypeInv, TypeOK
  <2>2. LinkFollows'
    BY <1>3, <1>5, <2>1 DEF LeaseInv, LinkFollows
  <2>3. LinkIsHeld'
    BY <1>3 DEF LeaseInv, LinkIsHeld
  <2> QED BY <2>2, <2>3
<1>8. DetachedIffTimer'
  <2>1. ASSUME NEW j \in Keys, resumeSessions[j] # None, entry'[resumeSessions[j]].ws = None
        PROVE  entry'[resumeSessions[j]].timer
    <3>1. resumeSessions[j] \in Sessions
      BY <2>1 DEF TypeInv, TypeOK
    <3> QED BY <1>2, <2>1, <3>1 DEF LeaseInv, DetachedIffTimer
  <2>2. ASSUME NEW x \in Sessions, entry'[x].timer
        PROVE  /\ entry'[x].made /\ entry'[x].ws = None /\ ~entry'[x].closed
               /\ \A d \in Conns : session'[d] # x
    <3>1. CASE x = s
      BY <1>1, <1>2, <1>4, <3>1
    <3>2. CASE x # s
      BY <1>2, <1>3, <2>2, <3>2 DEF LeaseInv, DetachedIffTimer
    <3> QED BY <3>1, <3>2
  <2> QED BY <2>1, <2>2 DEF DetachedIffTimer
<1>9. OutputGoesToHolder'
  BY <1>2, <1>3, <1>4 DEF LeaseInv, OutputGoesToHolder, Holds
<1>10. LiveIsHeldOrParked'
  <2>1. ASSUME NEW x \in Sessions, ssh'[x] = "live"
        PROVE  (\E d \in Conns : Holds(d, x)') \/ Parked(x)' \/ BornOrphan(x)'
    <3>1. CASE x = s
      BY <1>2, <3>1 DEF Parked
    <3>2. CASE x # s
      <4>1. session[c] # x /\ ssh[x] = "live" /\ entry'[x] = entry[x]
        BY <1>1, <1>2, <2>1, <3>2
      <4>2. CASE \E d \in Conns : Holds(d, x)
        BY <1>3, <4>1, <4>2 DEF Holds
      <4>3. CASE Parked(x)
        BY <4>1, <4>3 DEF Parked
      <4>4. CASE BornOrphan(x)
        BY <1>3, <4>1, <4>4 DEF BornOrphan, TypeInv, TypeOK
      <4> QED BY <4>1, <4>2, <4>3, <4>4 DEF LeaseInv, LiveIsHeldOrParked
    <3> QED BY <3>1, <3>2
  <2> QED BY <2>1 DEF LiveIsHeldOrParked
<1> QED BY <1>1, <1>2, <1>6, <1>7, <1>8, <1>9, <1>10 DEF LeaseInv

\* Every step of the relay, as one of five kinds.
LEMMA Kinds ==
    ASSUME TypeInv, HolderInv, LeaseInv, OneInit', Next
    PROVE  \/ \E s : GivesUp(s)
           \/ \E s \in Sessions : SshReady(s) \/ SshReadyTooLate(s)
           \/ \E c \in Conns, k \in Keys, t \in Targets : InitResume(c, k, t)
           \/ \E c \in Conns :
                  LET s == resumeEntry[c] IN
                  /\ s # None /\ session[c] # None /\ ~entry[s].closed
                  /\ wsState[c] = "closing" /\ wsState' = [wsState EXCEPT ![c] = "closed"]
                  /\ session' = [session EXCEPT ![c] = None]
                  /\ entry' = [entry EXCEPT ![s] = [@ EXCEPT !.ws = None, !.timer = TRUE]]
                  /\ UNCHANGED <<ssh, resumeSessions, resumeEntry, inits, owner, outVars>>
           \/ \E s \in Sessions, size \in FrameSizes : SshOutput(s, size)
<1>1. ASSUME NEW c \in Conns, NEW code \in CloseCodes, WsClose(c, code),
             ~\E s : GivesUp(s)
      PROVE  LET s == resumeEntry[c] IN
             /\ s # None /\ session[c] # None /\ ~entry[s].closed
             /\ wsState[c] = "closing" /\ wsState' = [wsState EXCEPT ![c] = "closed"]
             /\ session' = [session EXCEPT ![c] = None]
             /\ entry' = [entry EXCEPT ![s] = [@ EXCEPT !.ws = None, !.timer = TRUE]]
             /\ UNCHANGED <<ssh, resumeSessions, resumeEntry, inits, owner, outVars>>
  <2>1. UNCHANGED <<resumeEntry, outVars>>
    BY <1>1 DEF WsClose
  <2>2. ~ReportClose(Reportable(session[c]), ssh, Cleanup(entry, resumeEntry[c]),
                     Unregister(resumeSessions, resumeEntry[c]),
                     [detail EXCEPT ![c] = Remember(detail[c], code)])
    BY <1>1, <2>1, CloseGivesUp
  <2> QED BY <1>1, <2>1, <2>2 DEF WsClose
<1>2. CASE \E c \in Conns : ConnStep(c)
  <2>1. PICK c \in Conns : ConnStep(c)
    BY <1>2
  <2> QED BY <1>1, <2>1, ConnGivesUp DEF ConnStep, ReceiveInit
<1>3. CASE \E s \in Sessions : SshStep(s)
  <2>1. PICK s \in Sessions : SshStep(s)
    BY <1>3
  <2> QED BY <2>1, SshGivesUp DEF SshStep
<1> QED BY <1>2, <1>3 DEF Next

\* The count of init frames never falls, and stays within its bound.
LEMMA InitsStep ==
    ASSUME Next
    PROVE  \/ UNCHANGED inits
           \/ \E d \in Conns : inits[d] < MaxInits /\ inits' = [inits EXCEPT ![d] = @ + 1]
<1>1. ASSUME NEW d \in Conns, ConnStep(d)
      PROVE  UNCHANGED inits \/ (inits[d] < MaxInits /\ inits' = [inits EXCEPT ![d] = @ + 1])
  BY <1>1 DEF ConnStep, Accept, Reject, ReceiveInit, InitAgain, InitResume, InitConnect, GetInit,
              ReceiveDisconnect, PeerCloses, WsClose, WsError
<1>2. ASSUME NEW s \in Sessions, SshStep(s) PROVE UNCHANGED inits
  BY <1>2 DEF SshStep, SshReject, SshReady, SshReadyTooLate, Register, SshEnd, SshOutput,
              ResumeTimeout, connVars
<1> QED BY <1>1, <1>2 DEF Next

LEMMA InitsGrow ==
    ASSUME TypeInv, Next, NEW c \in Conns
    PROVE  inits[c] <= inits'[c] /\ inits[c] \in Nat /\ inits'[c] \in Nat
<1>1. inits \in [Conns -> Nat]
  BY DEF TypeInv, TypeOK
<1>2. ASSUME NEW d \in Conns, inits' = [inits EXCEPT ![d] = @ + 1]
      PROVE  inits'[c] = inits[c] \/ inits'[c] = inits[c] + 1
  BY <1>1, <1>2
<1> QED BY <1>1, <1>2, InitsStep

LEMMA LeaseStep ==
    ASSUME TypeInv, HolderInv, OneInit => LeaseInv, [Next]_vars
    PROVE  OneInit' => LeaseInv'
<1> SUFFICES ASSUME OneInit' PROVE LeaseInv'
  OBVIOUS
<1>1. TypeInv' /\ HolderInv'
  BY TypeStep, HolderStep
<1>2. CASE UNCHANGED vars
  BY <1>2 DEF vars, connVars, sshVars, OneInit, LeaseInv, Untouched, Placed, OneOwned,
              OwnerLinks, LinkFollows, LinkIsHeld, DetachedIffTimer, OutputGoesToHolder,
              LiveIsHeldOrParked, Holds, Parked, BornOrphan
<1>3. CASE Next
  <2>1. OneInit
    BY <1>3, InitsGrow DEF OneInit, TypeInv, TypeOK
  <2>2. LeaseInv
    BY <2>1
  <2>3. CASE \E s : GivesUp(s)
    BY <1>1, <2>2, <2>3, GiveUpStep
  <2>4. CASE \E s \in Sessions : SshReady(s) \/ SshReadyTooLate(s)
    BY <1>1, <2>2, <2>4, GrantStep
  <2>5. CASE \E c \in Conns, k \in Keys, t \in Targets : InitResume(c, k, t)
    BY <1>1, <2>2, <2>5, ResumeLeaseStep
  <2>6. ASSUME NEW c \in Conns,
               LET s == resumeEntry[c] IN
               /\ s # None /\ session[c] # None /\ ~entry[s].closed
               /\ wsState[c] = "closing" /\ wsState' = [wsState EXCEPT ![c] = "closed"]
               /\ session' = [session EXCEPT ![c] = None]
               /\ entry' = [entry EXCEPT ![s] = [@ EXCEPT !.ws = None, !.timer = TRUE]]
               /\ UNCHANGED <<ssh, resumeSessions, resumeEntry, inits, owner, outVars>>
        PROVE  LeaseInv'
    BY <1>1, <2>2, <2>6, ParkLeaseStep
  <2>7. CASE \E s \in Sessions, size \in FrameSizes : SshOutput(s, size)
    BY <2>2, <2>7 DEF SshOutput, connVars, sshVars, LeaseInv, Untouched, Placed, OneOwned,
              OwnerLinks, LinkFollows, LinkIsHeld, DetachedIffTimer, OutputGoesToHolder,
              LiveIsHeldOrParked, Holds, Parked, BornOrphan
  <2> QED BY <1>3, <2>2, <2>3, <2>4, <2>5, <2>6, <2>7, Kinds
<1> QED BY <1>2, <1>3

LEMMA LeaseInit == Init => LeaseInv
  BY DistinctNone DEF Init, NoEntry, LeaseInv, Untouched, Placed, OneOwned, OwnerLinks,
     LinkFollows, LinkIsHeld, DetachedIffTimer, OutputGoesToHolder, LiveIsHeldOrParked, Holds

LEMMA LeaseInvariant == Spec => [](OneInit => LeaseInv)
<1>1. Init => (OneInit => LeaseInv)
  BY LeaseInit
<1>2. TypeInv /\ HolderInv /\ (OneInit => LeaseInv) /\ [Next]_vars => (OneInit => LeaseInv)'
  BY LeaseStep
<1> QED BY <1>1, <1>2, TypeInvariant, HolderInvariant, PTL DEF Spec

\* No SSH session leaks while no client has sent two inits, for any number of
\* clients, sessions and keys: a live one is held or parked with its timer
\* armed, and its output goes to its holder.
THEOREM NothingLeaks == Spec => []NoneLeaks
<1>1. (OneInit => LeaseInv) => NoneLeaks
  BY DEF LeaseInv, NoneLeaks
<1> QED BY <1>1, LeaseInvariant, PTL

-----------------------------------------------------------------------------
(* The lease.                                                                *)

\* What a client that sends one init can rely on is stated with MaxInits <= 1.
LEMMA OneInitOnly ==
    ASSUME MaxInits <= 1
    PROVE  Spec => []OneInit
<1>1. Init => OneInit
  BY DEF Init, OneInit
<1>2. ASSUME TypeInv, OneInit, [Next]_vars PROVE OneInit'
  <2>1. CASE UNCHANGED vars
    BY <1>2, <2>1 DEF OneInit, vars, connVars
  <2>4. ASSUME NEW d \in Conns, inits[d] < MaxInits, inits' = [inits EXCEPT ![d] = @ + 1]
        PROVE  OneInit'
    <3>1. inits \in [Conns -> Nat] /\ inits[d] + 1 <= 1
      BY <1>2, <2>4, BoundsAreNat DEF TypeInv, TypeOK
    <3> QED BY <1>2, <2>4, <3>1 DEF OneInit
  <2> QED BY <1>2, <2>1, <2>4, InitsStep DEF OneInit
<1> QED BY <1>1, <1>2, TypeInvariant, PTL DEF Spec

\* The phase of a session, without the choice of a holder.
View(s) ==
    /\ \A c \in Conns : session[c] = s => LeasePhase(s) = "held" /\ LeaseHolder(s) = c
    /\ (\A c \in Conns : session[c] # s) =>
           /\ LeaseHolder(s) = None
           /\ LeasePhase(s) = IF entry[s].timer THEN "parked"
                              ELSE IF ssh[s] \in {"idle", "connecting", "rejected"} THEN "free"
                              ELSE "over"

LEMMA Views ==
    ASSUME ExclusiveHolder, ExclusiveHolder', NEW s \in Sessions
    PROVE  View(s) /\ View(s)'
<1>1. ASSUME NEW c \in Conns, session[c] = s PROVE LeasePhase(s) = "held" /\ LeaseHolder(s) = c
  <2>1. HeldBy(s) = {c}
    BY <1>1, DistinctNone DEF ExclusiveHolder, HeldBy
  <2> QED BY <2>1 DEF LeasePhase, LeaseHolder
<1>2. ASSUME NEW c \in Conns, session'[c] = s PROVE LeasePhase(s)' = "held" /\ LeaseHolder(s)' = c
  <2>1. HeldBy(s)' = {c}
    BY <1>2, DistinctNone DEF ExclusiveHolder, HeldBy
  <2> QED BY <2>1 DEF LeasePhase, LeaseHolder
<1>3. (\A c \in Conns : session[c] # s) => HeldBy(s) = {}
  BY DEF HeldBy
<1>4. (\A c \in Conns : session'[c] # s) => HeldBy(s)' = {}
  BY DEF HeldBy
<1>5. View(s)
  BY <1>1, <1>3 DEF View, LeasePhase, LeaseHolder
<1>6. View(s)'
  BY <1>2, <1>4 DEF View, LeasePhase, LeaseHolder
<1> QED BY <1>5, <1>6

Same(s) == LeasePhase(s)' = LeasePhase(s) /\ LeaseHolder(s)' = LeaseHolder(s)

\* A session that keeps its holders, its timer and its place in life keeps its
\* lease.
LEMMA SameLease ==
    ASSUME ExclusiveHolder, ExclusiveHolder', NEW s \in Sessions,
           \A c \in Conns : session'[c] = s <=> session[c] = s,
           (\A c \in Conns : session[c] # s) =>
               /\ entry'[s].timer = entry[s].timer
               /\ ssh'[s] \in {"idle", "connecting", "rejected"}
                      <=> ssh[s] \in {"idle", "connecting", "rejected"}
    PROVE  Same(s)
<1>1. View(s) /\ View(s)'
  BY Views
<1>2. CASE \E c \in Conns : session[c] = s
  BY <1>1, <1>2 DEF View, Same
<1>3. CASE \A c \in Conns : session[c] # s
  BY <1>1, <1>3 DEF View, Same
<1> QED BY <1>2, <1>3

\* One session moves, the others keep their lease.
LEMMA OneMoves ==
    ASSUME NEW s \in Sessions, \A x \in Sessions : x # s => Same(x)
    PROVE  Lease!Move(s, LeasePhase(s)', LeaseHolder(s)')
  BY DEF Same, Lease!Move

LEMMA NoneMoves ==
    ASSUME \A x \in Sessions : Same(x)
    PROVE  UNCHANGED Lease!leaseVars
  BY DEF Same, Lease!leaseVars

LEMMA HoldsNothing ==
    ASSUME ExclusiveHolder, ExclusiveHolder', NEW c \in Conns, session[c] = None
    PROVE  Lease!Idle(c)
<1>1. ASSUME NEW x \in Sessions PROVE LeaseHolder(x) # c
  <2>1. View(x) /\ x # None /\ c # None
    BY Views, DistinctNone
  <2> QED BY <2>1 DEF View
<1> QED BY <1>1 DEF Lease!Idle

LEMMA LeaseRefined ==
    ASSUME TypeInv, HolderInv, LeaseInv, HolderInv', LeaseInv', OneInit', Next
    PROVE  Lease!Next \/ UNCHANGED Lease!leaseVars
<1> USE DistinctNone
<1>1. ExclusiveHolder /\ ExclusiveHolder'
  BY DEF HolderInv
<1>2. ASSUME NEW s, GivesUp(s) PROVE Lease!Next \/ UNCHANGED Lease!leaseVars
  <2>1. \A x \in Sessions : x # s => Same(x)
    <3>1. ASSUME NEW x \in Sessions, x # s
          PROVE  /\ \A c \in Conns : session'[c] = x <=> session[c] = x
                 /\ entry'[x].timer = entry[x].timer
                 /\ ssh'[x] \in {"idle", "connecting", "rejected"}
                        <=> ssh[x] \in {"idle", "connecting", "rejected"}
      <4>1. \A c \in Conns : session'[c] = x <=> session[c] = x
        BY <1>2, <3>1 DEF GivesUp, Drops
      <4>2. entry'[x].timer = entry[x].timer
        BY <1>2, <3>1 DEF GivesUp, Drops
      <4>3. ssh'[x] \in {"idle", "connecting", "rejected"}
                <=> ssh[x] \in {"idle", "connecting", "rejected"}
        BY <1>2, <3>1 DEF GivesUp, Drops, Ready, TypeInv, TypeOK, SshStates
      <4> QED BY <4>1, <4>2, <4>3
    <3> QED BY <1>1, <3>1, SameLease
  <2>2. CASE s = None
    BY <2>1, <2>2, NoneMoves
  <2>3. CASE s # None
    <3>1. /\ s \in Sessions /\ ssh'[s] = "closed"
          /\ entry'[s] = entry[s] \/ ~entry'[s].timer
          /\ \A c \in Conns : session'[c] = s => session[c] = s
      BY <1>2, <2>3 DEF GivesUp, Drops
    <3>2. View(s) /\ View(s)'
      BY <1>1, <3>1, Views
    <3>3. CASE Same(s)
      BY <2>1, <3>3, NoneMoves
    <3>4. CASE ~Same(s)
      <4>1. \A c \in Conns : session'[c] # s
        BY <3>1, <3>2, <3>4 DEF View, Same
      <4>2. ~entry'[s].timer
        <5>1. ASSUME entry'[s].timer PROVE FALSE
          <6>1. entry[s].timer /\ \A c \in Conns : session[c] # s
            BY <3>1, <5>1 DEF LeaseInv, DetachedIffTimer
          <6> QED BY <3>2, <3>4, <4>1, <5>1, <6>1 DEF View, Same
        <5> QED BY <5>1
      <4>3. LeasePhase(s)' = "over" /\ LeaseHolder(s)' = None
        BY <3>1, <3>2, <4>1, <4>2 DEF View
      <4>4. LeasePhase(s) # "over"
        BY <3>2, <3>4, <4>3 DEF View, Same
      <4>5. Lease!Move(s, "over", None)
        BY <2>1, <3>1, <4>3, OneMoves
      <4>6. Lease!End(s)
        BY <3>1, <4>4, <4>5 DEF Lease!End
      <4> QED BY <3>1, <4>6 DEF Lease!Next
    <3> QED BY <3>3, <3>4
  <2> QED BY <2>2, <2>3
<1>3. ASSUME NEW s \in Sessions, SshReady(s) \/ SshReadyTooLate(s) PROVE Lease!Next
  <2> DEFINE o == owner[s]
  <2>1. /\ o \in Conns /\ session[o] = None /\ ssh[s] = "connecting" /\ ~entry[s].made
        /\ \A x \in Sessions : x # s => ssh'[x] = ssh[x]
        /\ session' = [session EXCEPT ![o] = s] /\ entry' = NewEntry(entry, s)
    BY <1>3, RegistersOwn DEF Register
  <2>2. \A c \in Conns : session'[c] = IF c = o THEN s ELSE session[c]
    BY <2>1 DEF TypeInv, TypeOK
  <2>3. \A x \in Sessions : x # s => entry'[x] = entry[x]
    BY <2>1 DEF NewEntry, TypeInv, TypeOK
  <2> HIDE DEF o
  <2>4. \A x \in Sessions : x # s => Same(x)
    BY <1>1, <2>1, <2>2, <2>3, SameLease
  <2>5. View(s) /\ View(s)'
    BY <1>1, Views
  <2>6. LeasePhase(s)' = "held" /\ LeaseHolder(s)' = o
    BY <2>1, <2>2, <2>5 DEF View
  <2>7. LeasePhase(s) = "free"
    <3>1. \A c \in Conns : session[c] # s
      BY <2>1 DEF HolderInv, HeldIsReady, Ready
    <3>2. ~entry[s].timer
      BY <2>1 DEF LeaseInv, DetachedIffTimer
    <3> QED BY <2>1, <2>5, <3>1, <3>2 DEF View
  <2>8. Lease!Move(s, "held", o)
    BY <2>4, <2>6, OneMoves
  <2>9. Lease!Grant(o, s)
    BY <1>1, <2>1, <2>7, <2>8, HoldsNothing DEF Lease!Grant
  <2> QED BY <2>1, <2>9 DEF Lease!Next
<1>4. ASSUME NEW c \in Conns, NEW k \in Keys, NEW t \in Targets, InitResume(c, k, t),
             NEW e, e = resumeSessions[k]
      PROVE  Lease!Next
  <2>1. /\ e \in Sessions /\ entry[e].timer
        /\ \A d \in Conns : session[d] # e
        /\ inits[c] = 0 /\ session' = [session EXCEPT ![c] = e]
        /\ \A x \in Sessions : x # e => entry'[x] = entry[x]
        /\ UNCHANGED ssh
    BY <1>4, ResumesParked
  <2>2. session[c] = None
    BY <2>1 DEF LeaseInv, Untouched
  <2>3. \A d \in Conns : session'[d] = IF d = c THEN e ELSE session[d]
    BY <2>1 DEF TypeInv, TypeOK
  <2>4. \A x \in Sessions : x # e => Same(x)
    BY <1>1, <2>1, <2>2, <2>3, SameLease
  <2>5. View(e) /\ View(e)'
    BY <1>1, <2>1, Views
  <2>6. LeasePhase(e)' = "held" /\ LeaseHolder(e)' = c /\ LeasePhase(e) = "parked"
    BY <2>1, <2>3, <2>5 DEF View
  <2>7. Lease!Move(e, "held", c)
    BY <2>1, <2>4, <2>6, OneMoves
  <2>8. Lease!Resume(c, e)
    BY <1>1, <2>1, <2>2, <2>6, <2>7, HoldsNothing DEF Lease!Resume
  <2> QED BY <2>1, <2>8 DEF Lease!Next
<1>5. ASSUME NEW c \in Conns, NEW s, s = resumeEntry[c],
             s # None, session[c] # None, ~entry[s].closed,
             wsState[c] = "closing", wsState' = [wsState EXCEPT ![c] = "closed"],
             session' = [session EXCEPT ![c] = None],
             entry' = [entry EXCEPT ![s] = [@ EXCEPT !.ws = None, !.timer = TRUE]],
             UNCHANGED <<ssh, resumeSessions, resumeEntry, inits, owner>>, TypeInv'
      PROVE  Lease!Next
  <2>1. session[c] = s /\ entry'[s].timer /\ s \in Sessions /\ UNCHANGED ssh
    BY <1>5, ParkLeaseStep DEF TypeInv, TypeOK
  <2>2. \A d \in Conns : session'[d] = IF d = c THEN None ELSE session[d]
    BY <1>5 DEF TypeInv, TypeOK
  <2>3. \A x \in Sessions : x # s => entry'[x] = entry[x]
    BY <1>5 DEF TypeInv, TypeOK
  <2>4. \A x \in Sessions : x # s => Same(x)
    BY <1>1, <2>1, <2>2, <2>3, SameLease
  <2>5. View(s) /\ View(s)'
    BY <1>1, <2>1, Views
  <2>6. \A d \in Conns : session'[d] # s
    BY <1>1, <2>1, <2>2 DEF ExclusiveHolder
  <2>7. LeasePhase(s) = "held" /\ LeasePhase(s)' = "parked" /\ LeaseHolder(s)' = None
    BY <2>1, <2>5, <2>6 DEF View
  <2>8. Lease!Park(s)
    BY <2>1, <2>4, <2>7, OneMoves DEF Lease!Park
  <2> QED BY <2>1, <2>8 DEF Lease!Next
<1>6. ASSUME NEW s \in Sessions, NEW size \in FrameSizes, SshOutput(s, size)
      PROVE  UNCHANGED Lease!leaseVars
  <2>1. UNCHANGED <<session, entry, ssh>>
    BY <1>6 DEF SshOutput, connVars, sshVars
  <2> QED BY <1>1, <2>1, SameLease, NoneMoves
<1>7. TypeInv'
  BY TypeStep
<1> QED BY <1>2, <1>3, <1>4, <1>5, <1>6, <1>7, Kinds

\* The relay implements the lease of a session (SessionLease) for clients that
\* send one init, any number of them: a session changes hands only through a
\* parked entry, and is not handed out again once it was given up.
THEOREM LeaseIsKept ==
    ASSUME MaxInits <= 1
    PROVE  Spec => ImplementsLease
<1>1. Init => Lease!Init
  BY DistinctNone DEF Init, NoEntry, Lease!Init, LeasePhase, LeaseHolder, HeldBy
<1>2. ASSUME TypeInv, HolderInv, LeaseInv, HolderInv', LeaseInv', OneInit', [Next]_vars
      PROVE  [Lease!Next]_(Lease!leaseVars)
  <2>1. CASE UNCHANGED vars
    BY <2>1 DEF vars, connVars, sshVars, Lease!leaseVars, LeasePhase, LeaseHolder, HeldBy
  <2> QED BY <1>2, <2>1, LeaseRefined
<1> QED BY <1>1, <1>2, OneInitOnly, TypeInvariant, HolderInvariant, LeaseInvariant, PTL
        DEF Spec, ImplementsLease, Lease!Spec

\* A registration ends only with its session.
THEOREM RegistrationsAreOwn ==
    ASSUME MaxInits <= 1
    PROVE  Spec => OnlyOwnRegistrationEnds
<1> DEFINE OnlyOwn == \A k \in Keys : LET s == resumeSessions[k] IN
                          s # None /\ resumeSessions'[k] = None => ssh'[s] = "closed"
<1>1. ASSUME TypeInv, HolderInv, LeaseInv, OneInit', [Next]_vars
      PROVE  [OnlyOwn]_vars
  <2>1. CASE \E s : GivesUp(s)
    BY <1>1, <2>1 DEF GivesUp, Drops, TypeInv, TypeOK
  <2>2. CASE \E s \in Sessions : SshReady(s) \/ SshReadyTooLate(s)
    <3>1. PICK s \in Sessions : SshReady(s) \/ SshReadyTooLate(s)
      BY <2>2
    <3>2. resumeSessions' = NewRegistration(resumeSessions, s)
      BY <1>1, <3>1, RegistersOwn
    <3>3. \A k \in Keys : resumeSessions'[k] = None => resumeSessions[k] = None
      BY <1>1, <3>2, DistinctNone DEF NewRegistration, TypeInv, TypeOK
    <3> QED BY <3>3
  <2>3. CASE UNCHANGED resumeSessions
    BY <2>3
  <2> HIDE DEF OnlyOwn
  <2>4. (\E c \in Conns, k \in Keys, t \in Targets : InitResume(c, k, t))
            => UNCHANGED resumeSessions
    BY DEF InitResume
  <2>5. (\E s \in Sessions, size \in FrameSizes : SshOutput(s, size)) => UNCHANGED resumeSessions
    BY DEF SshOutput, sshVars
  <2>6. CASE Next
    BY <1>1, <2>1, <2>2, <2>3, <2>4, <2>5, <2>6, Kinds
  <2> QED BY <1>1, <2>6
<1> QED BY <1>1, OneInitOnly, TypeInvariant, HolderInvariant, LeaseInvariant, PTL
        DEF Spec, OnlyOwnRegistrationEnds

-----------------------------------------------------------------------------
(* The output.                                                               *)

BufferIsOwn ==
    \A s \in Sessions : pending[s] # <<>> => owner[s] # None /\ resumeEntry[owner[s]] = s

DeliveredIsOut == \A s \in Sessions : \A m \in delivered[s] : m <= out[s]

BufferInv == BufferIsOwn /\ DeliveredIsOut /\ BufferIsRecentOutput

\* What pushPendingFrame leaves is the end of what was there and the new frame,
\* and it fits.
LEMMA PushKeepsTheEnd ==
    ASSUME NEW frames \in Seq(Frames), NEW f \in Frames, NEW q, q = PushPending(frames, f)
    PROVE  /\ q \in Seq(Frames) /\ Len(q) <= Len(frames) + 1
           /\ q # <<>> => Bytes(q) <= PendingMax
           /\ \A i \in 1..Len(q) :
                  LET j == Len(frames) + 1 - Len(q) + i IN
                  IF j = Len(frames) + 1 THEN q[i] = f ELSE j \in 1..Len(frames) /\ q[i] = frames[j]
<1> DEFINE all == Append(frames, f)
           d == Dropped(all)
<1>1. /\ all \in Seq(Frames) /\ Len(all) = Len(frames) + 1 /\ Len(frames) \in Nat
      /\ \A j \in 1..Len(all) : all[j] = IF j = Len(frames) + 1 THEN f ELSE frames[j]
  OBVIOUS
<1> HIDE DEF all
<1>2. /\ d \in 0..Len(all)
      /\ d = Len(all) \/ Bytes(SubSeq(all, d + 1, Len(all))) <= PendingMax
  BY <1>1, DroppedFits
<1>3. q = SubSeq(all, d + 1, Len(all))
  BY DEF PushPending, all
<1> HIDE DEF d
<1>4. \A i \in (d + 1)..Len(all) : all[i] \in Frames
  BY <1>1, <1>2
<1>5. /\ q \in Seq(Frames) /\ Len(q) = Len(all) - d
      /\ \A i \in 1..Len(q) : q[i] = all[d + i]
  BY <1>1, <1>2, <1>3, <1>4, SubSeqProperties
<1>6. q # <<>> => Bytes(q) <= PendingMax
  <2>1. q # <<>> => Len(q) # 0
    BY <1>5
  <2> QED BY <1>1, <1>2, <1>3, <1>5, <2>1
<1>7. \A i \in 1..Len(q) :
          LET j == Len(frames) + 1 - Len(q) + i IN
          IF j = Len(frames) + 1 THEN q[i] = f ELSE j \in 1..Len(frames) /\ q[i] = frames[j]
  BY <1>1, <1>2, <1>5
<1> QED BY <1>1, <1>2, <1>5, <1>6, <1>7

\* The frames p of the buffer of s, when those in sent have been delivered and
\* the last one out is numbered last.
Recent(s, p, sent, last) ==
    p # <<>> => /\ Bytes(p) <= PendingMax
                /\ \A i \in DOMAIN p : p[i].from = s /\ p[i].n = last - Len(p) + i
                /\ \A m \in sent : m < p[1].n

\* A step that leaves the output alone keeps what is said about it, when every
\* buffer in use stays detached and its owner's.
LEMMA BufferKept ==
    ASSUME TypeInv, BufferInv, UNCHANGED outVars,
           \A s \in Sessions : pending[s] # <<>> =>
               /\ entry[s].ws = None => entry'[s].ws = None
               /\ resumeEntry[owner[s]] = s /\ owner[s] # None
                      => owner'[s] # None /\ resumeEntry'[owner'[s]] = s
    PROVE  BufferInv'
<1>1. UNCHANGED <<out, pending, delivered>>
  BY DEF outVars
<1>2. BufferIsOwn'
  BY <1>1 DEF BufferInv, BufferIsOwn
<1>3. DeliveredIsOut'
  BY <1>1 DEF BufferInv, DeliveredIsOut
<1>4. BufferIsRecentOutput'
  BY <1>1 DEF BufferInv, BufferIsRecentOutput
<1> QED BY <1>2, <1>3, <1>4 DEF BufferInv

\* A frame in the buffer of a session is its own, is out, and is newer than
\* what has been delivered.
LEMMA BufferedIsNew ==
    ASSUME TypeInv, BufferInv, NEW e \in Sessions, NEW s \in Sessions, NEW n \in Buffered(e, s)
    PROVE  s = e /\ n <= out[s] /\ \A m \in delivered[s] : m < n
<1>1. pending[e] \in Seq(Frames) /\ out[e] \in Nat /\ delivered[s] \subseteq Nat
  BY DEF TypeInv, TypeOK
<1>2. PICK i \in DOMAIN pending[e] : pending[e][i].from = s /\ n = pending[e][i].n
  BY DEF Buffered
<1>3. /\ pending[e] # <<>> /\ i \in 1..Len(pending[e])
      /\ 1 \in 1..Len(pending[e]) /\ Len(pending[e]) \in Nat
  BY <1>1, <1>2
<1>4. /\ s = e /\ n = out[e] - Len(pending[e]) + i
      /\ pending[e][1].n = out[e] - Len(pending[e]) + 1
      /\ \A m \in delivered[e] : m < pending[e][1].n
  BY <1>1, <1>2, <1>3 DEF BufferInv, BufferIsRecentOutput
<1> QED BY <1>1, <1>3, <1>4

\* One more frame in the buffer of a detached entry.
LEMMA PushStep ==
    ASSUME NEW s \in Sessions, NEW p \in Seq(Frames), NEW n \in Nat, NEW size \in FrameSizes,
           NEW sent \in SUBSET Nat, \A m \in sent : m <= n, Recent(s, p, sent, n),
           NEW f, f = [from |-> s, n |-> n + 1, size |-> size],
           NEW q, q = PushPending(p, f)
    PROVE  Recent(s, q, sent, n + 1)
<1>0. /\ \A i \in DOMAIN p : p[i].from = s /\ p[i].n = n - Len(p) + i
      /\ p # <<>> => \A m \in sent : m < p[1].n
  BY DEF Recent
<1>1. f \in Frames /\ f.from = s /\ f.n = n + 1
  BY DEF Frames
<1>2. /\ q \in Seq(Frames) /\ Len(q) <= Len(p) + 1
      /\ q # <<>> => Bytes(q) <= PendingMax
      /\ \A i \in 1..Len(q) :
             LET j == Len(p) + 1 - Len(q) + i IN
             IF j = Len(p) + 1 THEN q[i] = f ELSE j \in 1..Len(p) /\ q[i] = p[j]
  BY <1>1, PushKeepsTheEnd
<1>3. Len(p) \in Nat /\ Len(q) \in Nat /\ DOMAIN p = 1..Len(p) /\ DOMAIN q = 1..Len(q)
  BY <1>2
<1>4. ASSUME NEW i \in 1..Len(q)
      PROVE  q[i].from = s /\ q[i].n = n + 1 - Len(q) + i
  <2> DEFINE j == Len(p) + 1 - Len(q) + i
  <2>1. CASE j = Len(p) + 1
    BY <1>1, <1>2, <1>3, <2>1
  <2>2. CASE j # Len(p) + 1
    <3>1. j \in 1..Len(p) /\ q[i] = p[j]
      BY <1>2, <2>2
    <3>2. p[j].from = s /\ p[j].n = n - Len(p) + j
      BY <1>0, <1>3, <3>1
    <3> QED BY <1>3, <3>1, <3>2
  <2> QED BY <2>1, <2>2
<1>5. ASSUME q # <<>>, NEW m \in sent PROVE m < q[1].n
  <2>1. 1 \in 1..Len(q) /\ Len(q) >= 1
    BY <1>2, <1>3, <1>5
  <2>2. q[1].n = n + 1 - Len(q) + 1
    BY <1>4, <2>1
  <2>3. CASE Len(q) = Len(p) + 1 /\ p # <<>>
    <3>1. Len(p) >= 1 /\ p[1].n = n - Len(p) + 1
      BY <1>0, <1>3, <2>3
    <3>2. m < p[1].n /\ m \in Nat /\ n \in Nat
      BY <1>0, <1>5, <2>3
    <3>3. p[1].n = q[1].n
      BY <1>3, <2>2, <2>3, <3>1
    <3> QED BY <3>2, <3>3
  <2>4. CASE p = <<>>
    BY <1>2, <1>3, <2>1, <2>2, <2>4
  <2>5. CASE Len(q) <= Len(p) /\ p # <<>>
    <3>1. m < p[1].n /\ p[1].n = n - Len(p) + 1
      BY <1>0, <1>3, <2>5
    <3> QED BY <1>3, <2>2, <2>5, <3>1
  <2>6. Len(q) = Len(p) + 1 \/ Len(q) <= Len(p)
    <3>1. Len(q) <= Len(p) + 1 /\ Len(p) \in Nat /\ Len(q) \in Nat
      BY <1>2, <1>3, Zenon
    <3> QED BY <3>1
  <2> QED BY <2>3, <2>4, <2>5, <2>6
<1>6. q # <<>> => Bytes(q) <= PendingMax
  BY <1>2, Zenon
<1>7. \A i \in DOMAIN q : q[i].from = s /\ q[i].n = n + 1 - Len(q) + i
  BY <1>3, <1>4
<1> QED BY <1>5, <1>6, <1>7 DEF Recent

\* Frames that a step delivers are newer than those delivered before.
InOrder == \A s \in Sessions : \A n \in delivered'[s] \ delivered[s], m \in delivered[s] : m < n

LEMMA OutputStep ==
    ASSUME TypeInv, LeaseInv, BufferInv, NEW s \in Sessions, NEW size \in FrameSizes,
           SshOutput(s, size)
    PROVE  BufferInv' /\ InOrder
<1> USE DistinctNone
<1> DEFINE c == owner[s]
           e == resumeEntry[c]
           n == out[s] + 1
           sink == IF e = None THEN c ELSE entry[e].ws
           f == [from |-> s, n |-> n, size |-> size]
<1>1. /\ c \in Conns /\ c # None /\ e \in {s, None} /\ out[s] \in Nat
      /\ pending[s] \in Seq(Frames) /\ delivered[s] \subseteq Nat
      /\ UNCHANGED <<owner, resumeEntry, entry>>
      /\ out' = [out EXCEPT ![s] = n]
  BY DEF SshOutput, TypeInv, OwnerKnown, TypeOK, LeaseInv, OwnerLinks, connVars, sshVars
<1>2. /\ \A m \in delivered[s] : m <= out[s]
      /\ pending[s] # <<>> =>
             /\ e = s /\ entry[s].ws = None
             /\ \A i \in DOMAIN pending[s] :
                    pending[s][i].from = s /\ pending[s][i].n = out[s] - Len(pending[s]) + i
             /\ \A m \in delivered[s] : m < pending[s][1].n
  BY DEF BufferInv, BufferIsOwn, DeliveredIsOut, BufferIsRecentOutput
<1>3. /\ out'[s] = n /\ \A x \in Sessions : x # s => out'[x] = out[x]
  BY <1>1 DEF TypeInv, TypeOK
<1>4. ASSUME \A x \in Sessions : x # s => pending'[x] = pending[x] /\ delivered'[x] = delivered[x],
             \A m \in delivered'[s] : m <= n,
             pending'[s] # <<>> =>
                 /\ e = s /\ entry[s].ws = None /\ Bytes(pending'[s]) <= PendingMax
                 /\ \A i \in DOMAIN pending'[s] : pending'[s][i].from = s
                                                  /\ pending'[s][i].n = n - Len(pending'[s]) + i
                 /\ \A m \in delivered'[s] : m < pending'[s][1].n
      PROVE  BufferInv'
  <2>1. BufferIsOwn'
    BY <1>1, <1>4 DEF BufferInv, BufferIsOwn
  <2>2. DeliveredIsOut'
    BY <1>3, <1>4 DEF BufferInv, DeliveredIsOut
  <2>3. BufferIsRecentOutput'
    BY <1>1, <1>3, <1>4 DEF BufferInv, BufferIsRecentOutput
  <2> QED BY <2>1, <2>2, <2>3 DEF BufferInv
<1>5. CASE sink # None
  <2>1. /\ delivered' = [delivered EXCEPT ![s] = IF wsState[sink] = "open" THEN @ \cup {n} ELSE @]
        /\ UNCHANGED pending
    BY <1>5 DEF SshOutput
  <2>2. pending[s] = <<>>
    BY <1>1, <1>2, <1>5
  <2>3. /\ delivered'[s] \in {delivered[s], delivered[s] \cup {n}}
        /\ \A x \in Sessions : x # s => delivered'[x] = delivered[x]
    BY <2>1 DEF TypeInv, TypeOK
  <2>4. \A m \in delivered[s] : m \in Nat /\ m <= out[s] /\ m < n
    BY <1>1, <1>2
  <2>5. BufferInv'
    BY <1>1, <1>4, <2>1, <2>2, <2>3, <2>4
  <2>6. InOrder
    BY <2>3, <2>4 DEF InOrder
  <2> QED BY <2>5, <2>6
<1>6. CASE sink = None
  <2>1. e = s /\ entry[s].ws = None
    BY <1>1, <1>6
  <2>2. /\ pending' = [pending EXCEPT ![s] = PushPending(@, f)]
        /\ UNCHANGED delivered
    BY <1>6, <2>1 DEF SshOutput
  <2>3. /\ pending'[s] = PushPending(pending[s], f)
        /\ \A x \in Sessions : x # s => pending'[x] = pending[x]
    BY <2>2 DEF TypeInv, TypeOK
  <2>4. Recent(s, pending[s], delivered[s], out[s])
    BY DEF BufferInv, BufferIsRecentOutput, Recent
  <2>5. Recent(s, pending'[s], delivered[s], n)
    <3> HIDE DEF c, e, sink, f
    <3>1. out[s] \in Nat /\ pending[s] \in Seq(Frames) /\ delivered[s] \in SUBSET Nat
      BY <1>1
    <3>2. f = [from |-> s, n |-> out[s] + 1, size |-> size]
      BY DEF f
    <3> QED BY <1>2, <2>3, <2>4, <3>1, <3>2, PushStep
  <2>6. \A m \in delivered[s] : m <= n
    BY <1>1, <1>2
  <2>7. BufferInv'
    BY <1>4, <2>1, <2>2, <2>3, <2>5, <2>6 DEF Recent
  <2>8. InOrder
    BY <2>2 DEF InOrder
  <2> QED BY <2>7, <2>8
<1> QED BY <1>5, <1>6

LEMMA FlushStep ==
    ASSUME TypeInv, HolderInv, LeaseInv, BufferInv, OneInit', NEW c \in Conns,
           NEW k \in Keys, NEW t \in Targets, InitResume(c, k, t)
    PROVE  BufferInv' /\ InOrder
<1>1. PICK e : e = resumeSessions[k]
  OBVIOUS
<1>2. /\ e \in Sessions /\ inits[c] = 0
      /\ resumeEntry' = [resumeEntry EXCEPT ![c] = e]
      /\ \A x \in Sessions : x # e => entry'[x] = entry[x]
      /\ UNCHANGED owner
  BY <1>1, ResumesParked
<1>3. /\ delivered' = [s \in Sessions |-> delivered[s] \cup Buffered(e, s)]
      /\ pending' = [pending EXCEPT ![e] = <<>>] /\ UNCHANGED out
  BY <1>1 DEF InitResume, Flush
<1>4. /\ pending'[e] = <<>>
      /\ \A x \in Sessions : x # e => pending'[x] = pending[x] /\ delivered'[x] = delivered[x]
  <2>1. pending'[e] = <<>> /\ \A x \in Sessions : x # e => pending'[x] = pending[x]
    BY <1>2, <1>3 DEF TypeInv, TypeOK
  <2>2. \A x \in Sessions : x # e => Buffered(e, x) = {}
    BY <1>2, BufferedIsNew
  <2> QED BY <1>3, <2>1, <2>2
<1>5. InOrder
  <2>1. ASSUME NEW s \in Sessions, NEW n \in delivered'[s] \ delivered[s], NEW m \in delivered[s]
        PROVE  m < n
    <3>1. n \in Buffered(e, s)
      BY <1>3, <2>1
    <3> QED BY <1>2, <3>1, BufferedIsNew
  <2> QED BY <2>1 DEF InOrder
<1>6. BufferIsOwn'
  <2>1. ASSUME NEW s \in Sessions, pending'[s] # <<>>
        PROVE  owner[s] # None /\ resumeEntry'[owner[s]] = s
    <3>1. owner[s] # None /\ resumeEntry[owner[s]] = s
      BY <1>4, <2>1 DEF BufferInv, BufferIsOwn
    <3>2. owner[s] \in Conns /\ owner[s] # c
      BY <1>2, <3>1 DEF LeaseInv, Untouched, TypeInv, TypeOK
    <3> QED BY <1>2, <3>1, <3>2 DEF TypeInv, TypeOK
  <2> QED BY <1>2, <2>1 DEF BufferIsOwn
<1>7. DeliveredIsOut'
  <2>1. ASSUME NEW s \in Sessions, NEW m \in delivered'[s] PROVE m <= out[s]
    <3>1. m \in delivered[s] \/ m \in Buffered(e, s)
      BY <1>3, <2>1
    <3> QED BY <1>2, <3>1, BufferedIsNew DEF BufferInv, DeliveredIsOut
  <2> QED BY <1>3, <2>1 DEF DeliveredIsOut
<1>8. BufferIsRecentOutput'
  <2>1. \A s \in Sessions : pending'[s] # <<>> => s # e
    BY <1>4
  <2> QED BY <1>2, <1>3, <1>4, <2>1 DEF BufferInv, BufferIsRecentOutput
<1> QED BY <1>5, <1>6, <1>7, <1>8 DEF BufferInv

LEMMA BufferStep ==
    ASSUME TypeInv, HolderInv, LeaseInv, BufferInv, OneInit', [Next]_vars
    PROVE  BufferInv' /\ InOrder
<1> USE DistinctNone
<1>1. ASSUME NEW x \in Sessions, pending[x] # <<>>
      PROVE  /\ owner[x] \in Conns /\ resumeEntry[owner[x]] = x /\ Ready(x)
  <2>1. owner[x] \in Conns /\ resumeEntry[owner[x]] = x
    BY <1>1 DEF BufferInv, BufferIsOwn, TypeInv, TypeOK
  <2>2. Ready(x)
    BY <2>1 DEF HolderInv, LinkIsMade, MadeIsReady
  <2> QED BY <2>1, <2>2
<1>2. UNCHANGED outVars => InOrder
  BY DEF outVars, InOrder
<1>3. CASE UNCHANGED vars
  <2>1. UNCHANGED <<outVars, entry, owner, resumeEntry>>
    BY <1>3 DEF vars, connVars, sshVars
  <2> QED BY <1>2, <2>1, BufferKept
<1>4. CASE \E s : GivesUp(s)
  <2>1. PICK s : GivesUp(s)
    BY <1>4
  <2>2. UNCHANGED <<outVars, resumeEntry>>
    BY <2>1 DEF GivesUp
  <2>3. \A x \in Sessions : entry[x].ws = None => entry'[x].ws = None
    BY <2>1 DEF GivesUp, Drops
  <2>4. \A x \in Sessions : Ready(x) => owner'[x] = owner[x]
    BY <2>1 DEF GivesUp, Turns, TypeInv, TypeOK
  <2> QED BY <1>1, <1>2, <2>2, <2>3, <2>4, BufferKept
<1>5. CASE \E s \in Sessions : SshReady(s) \/ SshReadyTooLate(s)
  <2>1. PICK s \in Sessions : SshReady(s) \/ SshReadyTooLate(s)
    BY <1>5
  <2>2. /\ owner[s] \in Conns /\ resumeEntry[owner[s]] = None /\ entry' = NewEntry(entry, s)
        /\ Register(s) /\ UNCHANGED <<owner, outVars>>
    BY <2>1, RegistersOwn
  <2>3. ASSUME NEW x \in Sessions, pending[x] # <<>>
        PROVE  entry'[x] = entry[x] /\ resumeEntry'[owner[x]] = x
    <3>1. x # s /\ owner[x] # owner[s]
      BY <1>1, <2>2, <2>3 DEF LeaseInv, OneOwned
    <3>2. entry'[x] = entry[x]
      BY <2>2, <3>1 DEF NewEntry, TypeInv, TypeOK
    <3>3. resumeEntry'[owner[x]] = resumeEntry[owner[x]]
      BY <1>1, <2>2, <2>3, <3>1 DEF Register, TypeInv, TypeOK
    <3> QED BY <1>1, <2>3, <3>2, <3>3
  <2>4. \A x \in Sessions : pending[x] # <<>> => owner'[x] # None /\ resumeEntry'[owner'[x]] = x
    BY <1>1, <2>2, <2>3
  <2> QED BY <1>2, <2>2, <2>3, <2>4, BufferKept
<1>6. CASE \E c \in Conns, k \in Keys, t \in Targets : InitResume(c, k, t)
  BY <1>6, FlushStep
<1>7. ASSUME NEW c \in Conns, NEW s, s = resumeEntry[c], s # None,
             entry' = [entry EXCEPT ![s] = [@ EXCEPT !.ws = None, !.timer = TRUE]],
             UNCHANGED <<resumeEntry, owner, outVars>>
      PROVE  BufferInv' /\ InOrder
  <2>1. \A x \in Sessions : entry[x].ws = None => entry'[x].ws = None
    <3>1. s \in Sessions
      BY <1>7 DEF TypeInv, TypeOK
    <3>2. entry[s] \in Entries /\ entry'[s] = [entry[s] EXCEPT !.ws = None, !.timer = TRUE]
      BY <1>7, <3>1 DEF TypeInv, TypeOK
    <3>3. entry'[s].ws = None
      BY <3>2, ParkedEntry
    <3>4. \A x \in Sessions : x # s => entry'[x] = entry[x]
      BY <1>7 DEF TypeInv, TypeOK
    <3> QED BY <3>3, <3>4
  <2> QED BY <1>2, <1>7, <2>1, BufferKept
<1>8. CASE \E s \in Sessions, size \in FrameSizes : SshOutput(s, size)
  BY <1>8, OutputStep
<1>9. CASE Next
  BY <1>4, <1>5, <1>6, <1>7, <1>8, <1>9, Kinds
<1> QED BY <1>3, <1>9

LEMMA BufferInit == Init => BufferInv
  BY DEF Init, BufferInv, BufferIsOwn, DeliveredIsOut, BufferIsRecentOutput

LEMMA BufferInvariant ==
    ASSUME MaxInits <= 1
    PROVE  Spec => []BufferInv
  BY BufferInit, BufferStep, OneInitOnly, TypeInvariant, HolderInvariant, LeaseInvariant,
     PTL DEF Spec

\* What is buffered for a parked session is its latest output, without a gap,
\* within the limit, and newer than all that a client has seen: for any frames
\* and any limit, and clients that send one init.
THEOREM BufferStaysRecent ==
    ASSUME MaxInits <= 1
    PROVE  Spec => []BufferIsRecentOutput
<1>1. BufferInv => BufferIsRecentOutput
  BY DEF BufferInv
<1> QED BY <1>1, BufferInvariant, PTL

\* The output of a session reaches its clients in the order it was produced,
\* across any number of resumes.
THEOREM OutputStaysInOrder ==
    ASSUME MaxInits <= 1
    PROVE  Spec => DeliveredInOrder
<1>1. TypeInv /\ HolderInv /\ LeaseInv /\ BufferInv /\ OneInit' /\ [Next]_vars => [InOrder]_vars
  BY BufferStep
<1> QED BY <1>1, BufferInvariant, OneInitOnly, TypeInvariant, HolderInvariant, LeaseInvariant,
        PTL DEF Spec, DeliveredInOrder, InOrder

-----------------------------------------------------------------------------
(***************************************************************************)
(* The capture adds nothing to the relay: each step of the composition is  *)
(* a step of GatewayTerminal or leaves its variables alone, so what is     *)
(* proved of the relay holds while rules are armed and sessions recorded.  *)
(***************************************************************************)

\* A step of a connection's handler is one of the relay, or types (which the
\* relay does not see).
LEMMA ConnStepOfRelay ==
    ASSUME NEW c \in Conns, CapConnStep(c) PROVE ConnStep(c) \/ UNCHANGED vars
<1>1. CASE Accept(c) \/ Reject(c) \/ InitAgain(c) \/ PeerCloses(c)
  BY <1>1 DEF ConnStep, ReceiveInit
<1>2. CASE \E k \in Keys, t \in Targets : CapResume(c, k, t)
  BY <1>2 DEF ConnStep, ReceiveInit, CapResume
<1>3. CASE \E k \in Keys \cup {None}, t \in Targets, s \in Sessions : CapConnect(c, k, t, s)
  BY <1>3 DEF ConnStep, ReceiveInit, CapConnect
<1>4. CASE Stdin(c)
  BY <1>4 DEF Stdin
<1>5. CASE ReceiveDisconnect(c) \/ WsError(c)
  BY <1>5 DEF ConnStep
<1>6. CASE \E code \in CloseCodes : WsClose(c, code)
  BY <1>6 DEF ConnStep
<1> QED BY <1>1, <1>2, <1>3, <1>4, <1>5, <1>6 DEF CapConnStep

\* So is a step of an SSH session.
LEMMA SshStepOfRelay ==
    ASSUME NEW s \in Sessions, CapSshStep(s) PROVE SshStep(s)
<1>1. CASE CapReady(s)
  BY <1>1 DEF CapReady, SshStep
<1>2. CASE SshReject(s) \/ SshEnd(s) \/ ResumeTimeout(s)
  BY <1>2 DEF SshStep
<1>3. CASE \E size \in FrameSizes : CapOutput(s, size)
  BY <1>3 DEF CapOutput, SshStep
<1> QED BY <1>1, <1>2, <1>3 DEF CapSshStep

\* Arming rules and recording sessions never changes what the relay does:
\* the composition implements GatewayTerminal (server.ts 450-476, 706-727).
THEOREM CaptureIsPassive == CapSpec => Spec
<1>1. CapInit => Init
  BY DEF CapInit
<1>2. [CapNext]_allVars => [Next]_vars
  <2> SUFFICES ASSUME [CapNext]_allVars PROVE [Next]_vars
    OBVIOUS
  <2>1. CASE \E c \in Conns : CapConnStep(c)
    BY <2>1, ConnStepOfRelay DEF Next
  <2>2. CASE \E s \in Sessions : CapSshStep(s)
    BY <2>2, SshStepOfRelay DEF Next
  <2>3. CASE \E want \in Wants, ms \in Ttls : Arm(want, ms)
    BY <2>3 DEF Arm
  <2>4. CASE Tick
    BY <2>4 DEF Tick
  <2>5. CASE UNCHANGED allVars
    BY <2>5 DEF allVars
  <2> QED BY <2>1, <2>2, <2>3, <2>4, <2>5 DEF CapNext
<1> QED BY <1>1, <1>2, PTL DEF CapSpec, Spec

-----------------------------------------------------------------------------
(* The recordings.  They are named by their sessions, and three places hold  *)
(* a recorder: the closure of the connection that made the session, the      *)
(* entry of the session, and the closure of whoever resumed it.  The         *)
(* invariant says which recorder is where, for clients that send one init.   *)

\* The recorder of session s, if it has one.
Recording(s) == IF file[s] = "none" THEN None ELSE s

RecorderTypes ==
    /\ frameCapture \in [Conns -> Sessions \cup {None}]
    /\ entryCapture \in [Sessions -> Sessions \cup {None}]
    /\ file \in [Sessions -> {"none", "open", "closed"}]
    /\ lines \in [Sessions -> SUBSET (Sessions \X Nat)]

\* Before createSshSession is called there is nothing of a session.
NothingBefore ==
    \A s \in Sessions : ssh[s] = "idle" => file[s] = "none" /\ lines[s] = {} /\ out[s] = 0

OwnerRecords == \A s \in Sessions : ssh[s] # "idle" => frameCapture[owner[s]] = Recording(s)

EntryRecords ==
    \A s \in Sessions : entryCapture[s] = IF entry[s].made THEN Recording(s) ELSE None

\* Only a session with an entry is ever held by another than its creator.
HolderOwns ==
    \A c \in Conns : session[c] # None => entry[session[c]].made \/ owner[session[c]] = c

CaptureInv ==
    /\ RecorderTypes
    /\ NothingBefore
    /\ OwnerRecords
    /\ EntryRecords
    /\ HolderOwns
    /\ RecordingIsTheSession
    /\ OpenWhileAlive

\* How SSH sessions move in a step: one that is started is not started again,
\* keeps its owner, and a closed one stays closed.
SessionsMove ==
    \A s \in Sessions :
        /\ ssh[s] = "idle" => ssh'[s] \in {"idle", "connecting"}
        /\ ssh[s] # "idle" => ssh'[s] # "idle" /\ owner'[s] = owner[s]
        /\ ssh[s] = "closed" => ssh'[s] = "closed"

LEMMA RelayMovesSessions ==
    ASSUME TypeInv, Next
    PROVE  SessionsMove
<1>0. ssh \in [Sessions -> SshStates] /\ owner \in [Sessions -> Conns \cup {None}]
  BY DEF TypeInv, TypeOK
<1>1. ASSUME NEW s, Reportable(s) \in Sessions PROVE ssh[Reportable(s)] = "live"
  BY <1>1, ReportableIsLive
<1>2. ASSUME NEW s, s \in Sessions => ssh[s] \in {"connecting", "rejected", "live"},
             NEW entries, NEW registry, NEW details,
             ReportClose(s, ssh, entries, registry, details), UNCHANGED owner
      PROVE  SessionsMove
  BY <1>0, <1>2 DEF ReportClose, SessionsMove
<1>3. ASSUME NEW c \in Conns, NEW k, NEW t, NEW s \in Sessions, InitConnect(c, k, t, s)
      PROVE  SessionsMove
  <2>1. PICK old, entries, registry, details :
            ReportClose(Reportable(old), [ssh EXCEPT ![s] = "connecting"], entries, registry, details)
    BY <1>3 DEF InitConnect
  <2>2. ssh[s] = "idle" /\ owner' = [owner EXCEPT ![s] = c]
    BY <1>3 DEF InitConnect
  <2>3. ssh' = [x \in Sessions |-> IF x = Reportable(old) THEN "closed"
                                   ELSE [ssh EXCEPT ![s] = "connecting"][x]]
    BY <2>1 DEF ReportClose
  <2> QED BY <1>0, <1>1, <2>2, <2>3 DEF SessionsMove
<1>4. ASSUME UNCHANGED <<ssh, owner>> PROVE SessionsMove
  BY <1>0, <1>4 DEF SessionsMove
<1>5. ASSUME NEW c \in Conns, ConnStep(c) PROVE SessionsMove
  <2>1. CASE Accept(c) \/ Reject(c) \/ InitAgain(c) \/ PeerCloses(c)
    BY <1>4, <2>1 DEF Accept, Reject, InitAgain, PeerCloses, sshVars
  <2>2. CASE \E k \in Keys, t \in Targets : InitResume(c, k, t)
    BY <1>4, <2>2 DEF InitResume
  <2>3. CASE \E k \in Keys \cup {None}, t \in Targets, s \in Sessions : InitConnect(c, k, t, s)
    BY <1>3, <2>3
  <2>4. CASE ReceiveDisconnect(c) \/ WsError(c)
    BY <1>1, <1>2, <2>4 DEF ReceiveDisconnect, WsError
  <2>5. CASE \E code \in CloseCodes : WsClose(c, code)
    BY <1>1, <1>2, <1>4, <2>5 DEF WsClose
  <2> QED BY <1>5, <2>1, <2>2, <2>3, <2>4, <2>5 DEF ConnStep, ReceiveInit
<1>6. ASSUME NEW s \in Sessions, SshStep(s) PROVE SessionsMove
  <2>1. CASE SshReject(s)
    BY <1>0, <2>1 DEF SshReject, SessionsMove
  <2>2. CASE SshReady(s) \/ SshReadyTooLate(s)
    BY <1>0, <2>2 DEF SshReady, SshReadyTooLate, Register, SessionsMove
  <2>3. CASE SshEnd(s)
    BY <1>2, <2>3 DEF SshEnd
  <2>4. CASE \E size \in FrameSizes : SshOutput(s, size)
    BY <1>4, <2>4 DEF SshOutput, sshVars
  <2>5. CASE ResumeTimeout(s)
    BY <1>1, <1>2, <2>5 DEF ResumeTimeout
  <2> QED BY <1>6, <2>1, <2>2, <2>3, <2>4, <2>5 DEF SshStep
<1> QED BY <1>5, <1>6 DEF Next

\* An entry that was made stays made, and only the end of the await makes one.
LEMMA CleanupKeepsMade ==
    ASSUME NEW entries \in [Sessions -> Entries], NEW e, NEW s \in Sessions
    PROVE  /\ Cleanup(entries, e)[s].made = entries[s].made
           /\ MarkClosed(entries, e)[s].made = entries[s].made
  BY DEF Cleanup, MarkClosed, Entries

LEMMA ReportCloseKeepsMade ==
    ASSUME NEW x, NEW sshes, NEW entries \in [Sessions -> Entries], NEW registry, NEW details,
           ReportClose(x, sshes, entries, registry, details), NEW s \in Sessions
    PROVE  entry'[s].made = entries[s].made
<1> DEFINE e == CallbackEntry(x)
<1>1. entry' = Cleanup(MarkClosed(entries, e), e)
  BY DEF ReportClose
<1> HIDE DEF e
<1> QED BY <1>1, CleanupType, CleanupKeepsMade

MadeAsBefore == \A s \in Sessions : entry'[s].made = entry[s].made

\* Closing a session after cleaning up an entry makes none.
LEMMA ClosingKeepsMade ==
    ASSUME TypeInv, NEW x, NEW sshes, NEW registry, NEW details, NEW e,
           \/ ReportClose(x, sshes, entry, registry, details)
           \/ ReportClose(x, sshes, Cleanup(entry, e), registry, details)
           \/ ReportClose(x, sshes, Cleanup(MarkClosed(entry, e), e), registry, details)
    PROVE  MadeAsBefore
<1>0. entry \in [Sessions -> Entries]
  BY DEF TypeInv, TypeOK
<1> DEFINE cleaned == Cleanup(entry, e)
           ended == Cleanup(MarkClosed(entry, e), e)
<1>1. /\ cleaned \in [Sessions -> Entries] /\ ended \in [Sessions -> Entries]
      /\ \A s \in Sessions : cleaned[s].made = entry[s].made /\ ended[s].made = entry[s].made
  BY <1>0, CleanupType, CleanupKeepsMade
<1>2. ASSUME NEW entries \in {entry, cleaned, ended},
             ReportClose(x, sshes, entries, registry, details)
      PROVE  MadeAsBefore
  <2>1. entries \in [Sessions -> Entries] /\ \A s \in Sessions : entries[s].made = entry[s].made
    BY <1>0, <1>1, <1>2
  <2> QED BY <1>2, <2>1, ReportCloseKeepsMade DEF MadeAsBefore
<1> QED BY <1>2

LEMMA ConnKeepsMade ==
    ASSUME TypeInv, NEW c \in Conns, ConnStep(c)
    PROVE  MadeAsBefore
<1>0. entry \in [Sessions -> Entries]
  BY DEF TypeInv, TypeOK
<1>1. CASE UNCHANGED entry
  BY <1>1 DEF MadeAsBefore
<1>2. CASE \E k \in Keys, t \in Targets : InitResume(c, k, t)
  BY <1>0, <1>2 DEF InitResume, MadeAsBefore, Entries
<1>3. CASE \E k \in Keys \cup {None}, t \in Targets, s \in Sessions : InitConnect(c, k, t, s)
  BY <1>3, ClosingKeepsMade DEF InitConnect
<1>4. CASE ReceiveDisconnect(c) \/ WsError(c)
  BY <1>4, ClosingKeepsMade DEF ReceiveDisconnect, WsError
<1>5. CASE \E code \in CloseCodes : WsClose(c, code)
  <2>1. ASSUME entry' = [entry EXCEPT ![resumeEntry[c]] = [@ EXCEPT !.ws = None, !.timer = TRUE]]
        PROVE  MadeAsBefore
    BY <1>0, <2>1 DEF MadeAsBefore, Entries
  <2> QED BY <1>5, <2>1, ClosingKeepsMade DEF WsClose
<1> QED BY <1>1, <1>2, <1>3, <1>4, <1>5 DEF ConnStep, ReceiveInit, Accept, Reject, InitAgain,
        PeerCloses, sshVars

LEMMA EndKeepsMade ==
    ASSUME TypeInv, NEW s \in Sessions, SshReject(s) \/ SshEnd(s) \/ ResumeTimeout(s)
    PROVE  MadeAsBefore
<1>1. CASE UNCHANGED entry
  BY <1>1 DEF MadeAsBefore
<1>2. CASE SshEnd(s)
  BY <1>2, ClosingKeepsMade DEF SshEnd
<1>3. CASE ResumeTimeout(s)
  BY <1>3, ClosingKeepsMade DEF ResumeTimeout
<1> QED BY <1>1, <1>2, <1>3 DEF SshReject

\* Who drives a session after a step did so before it, or resumes what was
\* registered, or has waited for it.
LEMMA HoldersMove ==
    ASSUME TypeInv, HolderInv, Next, NEW c \in Conns, session'[c] # None
    PROVE  \/ session'[c] = session[c]
           \/ session'[c] \in Sessions /\ entry[session'[c]].made
           \/ session'[c] \in Sessions /\ owner[session'[c]] = c /\ ssh[session'[c]] # "idle"
<1>0. session \in [Conns -> Sessions \cup {None}]
  BY DEF TypeInv, TypeOK
<1>1. ASSUME NEW d \in Conns, ConnStep(d), session'[c] # session[c]
      PROVE  session'[c] \in Sessions /\ entry[session'[c]].made
  <2>1. CASE \E k \in Keys, t \in Targets : InitResume(d, k, t)
    <3>1. PICK k \in Keys, t \in Targets : InitResume(d, k, t)
      BY <2>1
    <3>2. session'[c] = resumeSessions[k] /\ resumeSessions[k] # None
      BY <1>0, <1>1, <3>1 DEF InitResume, Attachable
    <3> QED BY <3>2 DEF HolderInv, RegistryCoherent, TypeInv, TypeOK
  <2>2. CASE ~\E k \in Keys, t \in Targets : InitResume(d, k, t)
    BY <1>0, <1>1, <2>2 DEF ConnStep, Accept, Reject, ReceiveInit, InitAgain, InitConnect,
       ReceiveDisconnect, PeerCloses, WsClose, WsError
  <2> QED BY <2>1, <2>2
<1>2. ASSUME NEW s \in Sessions, SshStep(s), session'[c] # session[c]
      PROVE  session'[c] \in Sessions /\ owner[session'[c]] = c /\ ssh[session'[c]] # "idle"
  BY <1>0, <1>2 DEF SshStep, SshReject, SshReady, SshReadyTooLate, Register, SshEnd, SshOutput,
     ResumeTimeout, connVars
<1> QED BY <1>1, <1>2 DEF Next

\* The end of the await makes an entry of its session, if it has a key.
LEMMA ReadyMakes ==
    ASSUME TypeInv, NEW s \in Sessions, SshReady(s) \/ SshReadyTooLate(s), NEW x \in Sessions
    PROVE  entry'[x].made = IF x = s /\ request[s].key # None THEN TRUE ELSE entry[x].made
<1> DEFINE e == CallbackEntry(s)
<1>0. entry \in [Sessions -> Entries]
  BY DEF TypeInv, TypeOK
<1>1. ASSUME NEW entries \in [Sessions -> Entries], entries[x].made = entry[x].made,
             entry' = NewEntry(entries, s)
      PROVE  entry'[x].made = IF x = s /\ request[s].key # None THEN TRUE ELSE entry[x].made
  BY <1>1 DEF NewEntry
<1>2. /\ Cleanup(MarkClosed(entry, e), e) \in [Sessions -> Entries]
      /\ Cleanup(MarkClosed(entry, e), e)[x].made = entry[x].made
  <2> HIDE DEF e
  <2> QED BY <1>0, CleanupType, CleanupKeepsMade
<1> QED BY <1>0, <1>1, <1>2 DEF SshReady, SshReadyTooLate

LEMMA MadeStays ==
    ASSUME TypeInv, Next, NEW s \in Sessions, entry[s].made PROVE entry'[s].made
<1>1. CASE \E x \in Sessions : SshReady(x) \/ SshReadyTooLate(x)
  BY <1>1, ReadyMakes
<1>2. CASE MadeAsBefore
  BY <1>2 DEF MadeAsBefore
<1>3. CASE \E x \in Sessions, size \in FrameSizes : SshOutput(x, size)
  BY <1>3 DEF SshOutput, sshVars
<1> QED BY <1>1, <1>2, <1>3, ConnKeepsMade, EndKeepsMade DEF Next, SshStep

LEMMA HolderOwnsStep ==
    ASSUME TypeInv, HolderInv, HolderOwns, Next PROVE HolderOwns'
<1> SUFFICES ASSUME NEW c \in Conns, session'[c] # None
             PROVE  entry'[session'[c]].made \/ owner'[session'[c]] = c
  BY DEF HolderOwns
<1>1. session'[c] \in Sessions
  BY TypeStep DEF TypeInv, TypeOK
<1>2. CASE session'[c] = session[c]
  <2>1. ssh[session[c]] # "idle"
    BY <1>2 DEF HolderInv, HeldIsReady, Ready
  <2> QED BY <1>1, <1>2, <2>1, MadeStays, RelayMovesSessions DEF HolderOwns, SessionsMove
<1>3. CASE entry[session'[c]].made
  BY <1>1, <1>3, MadeStays
<1>4. CASE owner[session'[c]] = c /\ ssh[session'[c]] # "idle"
  BY <1>1, <1>4, RelayMovesSessions DEF SessionsMove
<1> QED BY <1>2, <1>3, <1>4, HoldersMove

\* The callbacks of a session find its own recorder, wherever they look.
LEMMA OwnRecorder ==
    ASSUME TypeInv, LeaseInv, CaptureInv, NEW s \in Sessions, ssh[s] # "idle"
    PROVE  Recorder(owner[s]) = Recording(s)
<1>1. owner[s] \in Conns /\ owner[s] # None
  BY DistinctNone DEF TypeInv, OwnerKnown
<1>2. resumeEntry[owner[s]] \in {None, s}
  BY <1>1 DEF LeaseInv, OwnerLinks
<1>3. entryCapture[s] \in {None, Recording(s)} /\ frameCapture[owner[s]] = Recording(s)
  BY <1>1 DEF CaptureInv, EntryRecords, OwnerRecords
<1> QED BY <1>2, <1>3 DEF Recorder

\* So does the connection that drives a recorded session, its creator or not.
LEMMA HolderRecorder ==
    ASSUME TypeInv, HolderInv, LeaseInv, CaptureInv,
           NEW c \in Conns, session[c] # None, file[session[c]] # "none"
    PROVE  Recorder(c) = session[c]
<1> DEFINE s == session[c]
<1>1. s \in Sessions /\ ssh[s] # "idle" /\ Recording(s) = s /\ s # None
  BY DEF TypeInv, TypeOK, HolderInv, HeldIsReady, Ready, Recording
<1>2. CASE entry[s].made
  <2>1. resumeEntry[c] = s
    BY <1>2 DEF LeaseInv, LinkFollows
  <2>2. entryCapture[s] = s
    BY <1>1, <1>2 DEF CaptureInv, EntryRecords
  <2> QED BY <1>1, <2>1, <2>2 DEF Recorder
<1>3. CASE owner[s] = c
  BY <1>1, <1>3, OwnRecorder
<1> QED BY <1>2, <1>3 DEF CaptureInv, HolderOwns

\* Closing the recordings of the sessions that end closes theirs and no other.
LEMMA CloseOutcome ==
    ASSUME TypeInv, LeaseInv, CaptureInv, SessionsMove
    PROVE  Close(Ended) = [f \in Sessions |-> IF file[f] = "open" /\ ssh'[f] = "closed"
                                              THEN "closed" ELSE file[f]]
<1> SUFFICES ASSUME NEW f \in Sessions, file[f] = "open"
             PROVE  (\E s \in Ended : Recorder(owner[s]) = f) <=> ssh'[f] = "closed"
  BY DEF Close
<1>1. ssh[f] \in {"connecting", "rejected", "live"}
  BY DEF CaptureInv, OpenWhileAlive
<1>2. ASSUME ssh'[f] = "closed" PROVE \E s \in Ended : Recorder(owner[s]) = f
  <2>1. Recorder(owner[f]) = f
    BY <1>1, OwnRecorder DEF Recording
  <2> QED BY <1>1, <1>2, <2>1 DEF Ended
<1>3. ASSUME NEW s \in Ended, Recorder(owner[s]) = f PROVE ssh'[f] = "closed"
  <2>1. s \in Sessions /\ ssh'[s] = "closed" /\ ssh[s] # "idle"
    BY DEF Ended, SessionsMove
  <2>2. f = Recording(s)
    BY <1>3, <2>1, OwnRecorder
  <2> QED BY <2>1, <2>2, DistinctNone DEF Recording
<1> QED BY <1>2, <1>3

\* A step that starts no session, writes nothing and changes no closure keeps
\* what is recorded, and the recordings open of the sessions that may print.
LEMMA RecordingsKept ==
    ASSUME TypeInv, TypeInv', LeaseInv, CaptureInv, SessionsMove,
           \A s \in Sessions : ssh'[s] = "idle" <=> ssh[s] = "idle",
           file' = Close(Ended), UNCHANGED <<frameCapture, lines, out>>
    PROVE  /\ file' \in [Sessions -> {"none", "open", "closed"}]
           /\ \A s \in Sessions : Recording(s)' = Recording(s)
           /\ NothingBefore' /\ OwnerRecords' /\ RecordingIsTheSession' /\ OpenWhileAlive'
<1>1. file' = [f \in Sessions |-> IF file[f] = "open" /\ ssh'[f] = "closed" THEN "closed" ELSE file[f]]
  BY CloseOutcome
<1>2. file \in [Sessions -> {"none", "open", "closed"}]
  BY DEF CaptureInv, RecorderTypes
<1>3. \A s \in Sessions : file'[s] = "none" <=> file[s] = "none"
  BY <1>1, <1>2
<1>4. \A s \in Sessions : Recording(s)' = Recording(s)
  BY <1>3 DEF Recording
<1>5. NothingBefore'
  BY <1>3 DEF CaptureInv, NothingBefore
<1>6. OwnerRecords'
  BY <1>4 DEF CaptureInv, OwnerRecords, SessionsMove
<1>7. RecordingIsTheSession'
  BY <1>3 DEF CaptureInv, RecordingIsTheSession
<1>8. OpenWhileAlive'
  <2>1. ssh \in [Sessions -> SshStates] /\ ssh' \in [Sessions -> SshStates]
    BY DEF TypeInv, TypeOK
  <2> QED BY <1>1, <1>2, <1>3, <2>1 DEF CaptureInv, OpenWhileAlive, NothingBefore, SessionsMove, SshStates
<1> QED BY <1>1, <1>2, <1>4, <1>5, <1>6, <1>7, <1>8

\* A handler that only ends sessions, and with them their recordings.
LEMMA ClosingStep ==
    ASSUME TypeInv, TypeInv', HolderInv, LeaseInv, CaptureInv, Next, OnlyCloses,
           \A s \in Sessions : ssh'[s] = "idle" <=> ssh[s] = "idle", UNCHANGED out, MadeAsBefore
    PROVE  CaptureInv'
<1>1. SessionsMove
  BY RelayMovesSessions
<1>2. /\ file' \in [Sessions -> {"none", "open", "closed"}]
      /\ \A s \in Sessions : Recording(s)' = Recording(s)
      /\ NothingBefore' /\ OwnerRecords' /\ RecordingIsTheSession' /\ OpenWhileAlive'
  BY <1>1, RecordingsKept DEF OnlyCloses
<1>3. HolderOwns'
  BY HolderOwnsStep DEF CaptureInv
<1>4. EntryRecords'
  BY <1>1, <1>2 DEF CaptureInv, EntryRecords, MadeAsBefore, OnlyCloses
<1>5. RecorderTypes'
  BY <1>2 DEF CaptureInv, RecorderTypes, OnlyCloses
<1> QED BY <1>2, <1>3, <1>4, <1>5 DEF CaptureInv

LEMMA CapReadyStep ==
    ASSUME TypeInv, TypeInv', HolderInv, LeaseInv, CaptureInv, Next,
           NEW s \in Sessions, CapReady(s)
    PROVE  CaptureInv'
<1>1. SessionsMove
  BY RelayMovesSessions
<1>2. ssh[s] = "connecting" /\ ssh'[s] # "idle" /\ UNCHANGED out
      /\ \A x \in Sessions : x # s => ssh'[x] = ssh[x]
  BY DEF CapReady, SshReady, SshReadyTooLate, Register, outVars, TypeInv, TypeOK
<1>3. /\ file' \in [Sessions -> {"none", "open", "closed"}]
      /\ \A x \in Sessions : Recording(x)' = Recording(x)
      /\ NothingBefore' /\ OwnerRecords' /\ RecordingIsTheSession' /\ OpenWhileAlive'
  BY <1>1, <1>2, RecordingsKept DEF CapReady
<1>4. HolderOwns'
  BY HolderOwnsStep DEF CaptureInv
<1>5. entryCapture \in [Sessions -> Sessions \cup {None}] /\ frameCapture[owner[s]] = Recording(s)
  BY <1>2 DEF CaptureInv, RecorderTypes, OwnerRecords
<1>6. \A x \in Sessions : entryCapture'[x] =
          IF x = s /\ request[s].key # None THEN Recording(s) ELSE entryCapture[x]
  BY <1>5 DEF CapReady, NewEntryCapture
<1>7. EntryRecords'
  BY <1>3, <1>6, ReadyMakes DEF CaptureInv, EntryRecords, CapReady
<1>8. RecorderTypes'
  BY <1>3, <1>5 DEF CaptureInv, RecorderTypes, CapReady, NewEntryCapture, Recording
<1> QED BY <1>3, <1>4, <1>7, <1>8 DEF CaptureInv

\* A connection that sends its init frame has created no session yet.
LEMMA FirstInit ==
    ASSUME MaxInits <= 1, TypeInv, LeaseInv, NEW c \in Conns, GetInit(c)
    PROVE  \A s \in Sessions : owner[s] # c
<1>1. inits[c] = 0
  BY BoundsAreNat DEF GetInit, TypeInv, TypeOK
<1> QED BY <1>1 DEF LeaseInv, Untouched

LEMMA CapConnectStep ==
    ASSUME MaxInits <= 1, TypeInv, TypeInv', HolderInv, LeaseInv, CaptureInv, Next,
           NEW c \in Conns, NEW k, NEW t, NEW s \in Sessions, CapConnect(c, k, t, s)
    PROVE  CaptureInv'
<1> DEFINE recorded == Records(TakenRule(k, t))
<1>1. SessionsMove /\ ssh[s] = "idle" /\ owner' = [owner EXCEPT ![s] = c] /\ UNCHANGED out
  BY RelayMovesSessions DEF CapConnect, InitConnect, outVars
<1>2. /\ frameCapture' = [frameCapture EXCEPT ![c] = IF recorded THEN s ELSE None]
      /\ file' = [Close(Ended) EXCEPT ![s] = IF recorded THEN "open" ELSE "none"]
      /\ UNCHANGED <<entryCapture, lines>>
  BY DEF CapConnect
<1> HIDE DEF recorded
<1>3. \A x \in Sessions : owner[x] # c
  BY FirstInit DEF CapConnect, InitConnect
<1>4. /\ file \in [Sessions -> {"none", "open", "closed"}]
      /\ file[s] = "none" /\ lines[s] = {} /\ out[s] = 0 /\ ~entry[s].made
  BY <1>1 DEF CaptureInv, RecorderTypes, NothingBefore, HolderInv, MadeIsReady, Ready
<1>5. \A x \in Sessions :
          file'[x] = IF x = s THEN (IF recorded THEN "open" ELSE "none")
                     ELSE IF file[x] = "open" /\ ssh'[x] = "closed" THEN "closed" ELSE file[x]
  BY <1>1, <1>2, CloseOutcome
<1>6. ssh'[s] = "connecting" /\ \A x \in Sessions : x # s => (ssh'[x] = "idle" <=> ssh[x] = "idle")
  <2>1. PICK old, entries, registry, details :
            ReportClose(Reportable(old), [ssh EXCEPT ![s] = "connecting"], entries, registry, details)
    BY DEF CapConnect, InitConnect
  <2>2. ssh' = [x \in Sessions |-> IF x = Reportable(old) THEN "closed"
                                   ELSE [ssh EXCEPT ![s] = "connecting"][x]]
    BY <2>1 DEF ReportClose
  <2>3. Reportable(old) \in Sessions => ssh[Reportable(old)] = "live"
    BY ReportableIsLive
  <2> QED BY <1>1, <2>2, <2>3 DEF TypeInv, TypeOK
<1>7. MadeAsBefore
  BY ClosingKeepsMade DEF CapConnect, InitConnect
<1>8. RecorderTypes'
  <2>1. file' \in [Sessions -> {"none", "open", "closed"}]
    BY <1>1, <1>2, <1>4, CloseOutcome
  <2> QED BY <1>2, <2>1 DEF CaptureInv, RecorderTypes
<1>9. NothingBefore'
  BY <1>1, <1>2, <1>5, <1>6 DEF CaptureInv, NothingBefore
<1>10. \A x \in Sessions : x # s => Recording(x)' = Recording(x)
  BY <1>4, <1>5 DEF Recording
<1>11. OwnerRecords'
  <2>1. ASSUME NEW x \in Sessions, ssh'[x] # "idle" PROVE frameCapture'[owner'[x]] = Recording(x)'
    <3>1. CASE x = s
      <4>1. owner'[s] = c /\ frameCapture'[c] = IF recorded THEN s ELSE None
        BY <1>1, <1>2 DEF TypeInv, TypeOK, CaptureInv, RecorderTypes
      <4> QED BY <1>5, <3>1, <4>1 DEF Recording
    <3>2. CASE x # s
      <4>1. owner'[x] = owner[x] /\ owner[x] # c /\ ssh[x] # "idle"
        BY <1>1, <1>3, <1>6, <2>1, <3>2
      <4>2. frameCapture'[owner[x]] = frameCapture[owner[x]]
        BY <1>2, <4>1 DEF CaptureInv, RecorderTypes, TypeInv, OwnerKnown
      <4> QED BY <1>10, <3>2, <4>1, <4>2 DEF CaptureInv, OwnerRecords
    <3> QED BY <3>1, <3>2
  <2> QED BY <2>1 DEF OwnerRecords
<1>12. EntryRecords'
  BY <1>2, <1>4, <1>7, <1>10 DEF CaptureInv, EntryRecords, MadeAsBefore
<1>13. HolderOwns'
  BY HolderOwnsStep DEF CaptureInv
<1>14. RecordingIsTheSession'
  <2>1. \A x \in Sessions : x # s /\ file'[x] # "none" => file[x] # "none"
    BY <1>5
  <2>2. lines'[s] = {<<s, n>> : n \in 1..out'[s]}
    BY <1>1, <1>2, <1>4
  <2> QED BY <1>1, <1>2, <2>1, <2>2 DEF CaptureInv, RecordingIsTheSession
<1>15. OpenWhileAlive'
  <2>1. ssh \in [Sessions -> SshStates] /\ ssh' \in [Sessions -> SshStates]
    BY DEF TypeInv, TypeOK
  <2>2. ASSUME NEW x \in Sessions, x # s, file'[x] # "none"
        PROVE  (file'[x] = "open") = (ssh'[x] \in {"connecting", "rejected", "live"})
    <3>1. file[x] # "none" /\ ssh[x] # "idle"
      BY <1>4, <1>5, <2>2 DEF CaptureInv, NothingBefore
    <3> QED BY <1>1, <1>4, <1>5, <2>1, <2>2, <3>1 DEF CaptureInv, OpenWhileAlive, SessionsMove, SshStates
  <2> QED BY <1>5, <1>6, <2>2 DEF OpenWhileAlive
<1> QED BY <1>8, <1>9, <1>11, <1>12, <1>13, <1>14, <1>15 DEF CaptureInv

\* Whoever resumes a session takes over the recorder of its entry.
LEMMA CapResumeStep ==
    ASSUME MaxInits <= 1, TypeInv, TypeInv', HolderInv, LeaseInv, CaptureInv, Next,
           NEW c \in Conns, NEW k \in Keys, NEW t, CapResume(c, k, t)
    PROVE  CaptureInv'
<1>1. UNCHANGED <<ssh, owner, out, entryCapture, file, lines>>
      /\ frameCapture' = [frameCapture EXCEPT ![c] = entryCapture[resumeSessions[k]]]
  BY DEF CapResume, InitResume, Attached
<1>2. \A x \in Sessions : owner[x] # c
  BY FirstInit DEF CapResume, InitResume
<1>3. MadeAsBefore
  BY DEF CapResume, InitResume, MadeAsBefore, TypeInv, TypeOK, Entries
<1>4. RecorderTypes'
  <2>1. resumeSessions[k] \in Sessions
    BY DEF CapResume, InitResume, Attachable, TypeInv, TypeOK
  <2> QED BY <1>1, <2>1 DEF CaptureInv, RecorderTypes
<1>5. NothingBefore' /\ RecordingIsTheSession' /\ OpenWhileAlive'
  BY <1>1 DEF CaptureInv, NothingBefore, RecordingIsTheSession, OpenWhileAlive
<1>6. OwnerRecords'
  BY <1>1, <1>2 DEF CaptureInv, OwnerRecords, RecorderTypes, TypeInv, OwnerKnown, Recording
<1>7. EntryRecords'
  BY <1>1, <1>3 DEF CaptureInv, EntryRecords, MadeAsBefore, Recording
<1>8. HolderOwns'
  BY HolderOwnsStep DEF CaptureInv
<1> QED BY <1>4, <1>5, <1>6, <1>7, <1>8 DEF CaptureInv

\* Output goes into the recording of its session and into no other.
LEMMA CapOutputStep ==
    ASSUME TypeInv, TypeInv', HolderInv, LeaseInv, CaptureInv, Next,
           NEW s \in Sessions, NEW size \in FrameSizes, CapOutput(s, size)
    PROVE  CaptureInv'
<1>1. /\ ssh[s] = "live" /\ out \in [Sessions -> Nat] /\ out' = [out EXCEPT ![s] = @ + 1]
      /\ UNCHANGED <<ssh, owner, entry, session, frameCapture, entryCapture, file>>
      /\ lines' = Written(Recorder(owner[s]), s, out[s] + 1)
  BY DEF CapOutput, SshOutput, connVars, sshVars, TypeInv, TypeOK
<1>2. lines \in [Sessions -> SUBSET (Sessions \X Nat)]
  BY DEF CaptureInv, RecorderTypes
<1>3. file[s] \in {"none", "open"}
  BY <1>1 DEF CaptureInv, RecorderTypes, OpenWhileAlive
<1>4. Recorder(owner[s]) = Recording(s)
  BY <1>1, OwnRecorder
<1>5. lines' = IF file[s] = "none" THEN lines
               ELSE [lines EXCEPT ![s] = @ \cup {<<s, out[s] + 1>>}]
  BY <1>1, <1>3, <1>4, DistinctNone DEF Written, Recording
<1>6. RecorderTypes'
  BY <1>1, <1>2, <1>5 DEF CaptureInv, RecorderTypes
<1>7. RecordingIsTheSession'
  <2>1. ASSUME NEW f \in Sessions, file[f] # "none" PROVE lines'[f] = {<<f, n>> : n \in 1..out'[f]}
    <3>1. lines[f] = {<<f, n>> : n \in 1..out[f]}
      BY <2>1 DEF CaptureInv, RecordingIsTheSession
    <3>2. CASE f # s
      BY <1>1, <1>2, <1>5, <3>1, <3>2
    <3>3. CASE f = s
      <4>1. lines'[s] = lines[s] \cup {<<s, out[s] + 1>>} /\ out'[s] = out[s] + 1
        BY <1>1, <1>2, <1>5, <2>1, <3>3
      <4>2. 1..(out[s] + 1) = (1..out[s]) \cup {out[s] + 1}
        BY <1>1
      <4> QED BY <3>1, <3>3, <4>1, <4>2
    <3> QED BY <3>2, <3>3
  <2> QED BY <1>1, <2>1 DEF RecordingIsTheSession
<1>8. NothingBefore' /\ OwnerRecords' /\ EntryRecords' /\ HolderOwns' /\ OpenWhileAlive'
  <2>1. \A x \in Sessions : ssh[x] = "idle" => lines'[x] = lines[x] /\ out'[x] = out[x]
    BY <1>1, <1>2, <1>5
  <2> QED BY <1>1, <2>1 DEF CaptureInv, NothingBefore, OwnerRecords, EntryRecords, HolderOwns,
                OpenWhileAlive, Recording
<1> QED BY <1>6, <1>7, <1>8 DEF CaptureInv

LEMMA CaptureInit == CapInit => CaptureInv
  BY DistinctNone DEF CapInit, Init, NoEntry, CaptureInv, RecorderTypes, NothingBefore,
     OwnerRecords, EntryRecords, HolderOwns, RecordingIsTheSession, OpenWhileAlive

\* Rules, the clock and what is typed leave the recordings alone.
LEMMA CaptureUntouched ==
    ASSUME CaptureInv,
           UNCHANGED <<session, ssh, owner, entry, out, frameCapture, entryCapture, file, lines>>
    PROVE  CaptureInv'
  BY DEF CaptureInv, RecorderTypes, NothingBefore, OwnerRecords, EntryRecords, HolderOwns,
     RecordingIsTheSession, OpenWhileAlive, Recording

LEMMA CapConnKeeps ==
    ASSUME MaxInits <= 1, TypeInv, TypeInv', HolderInv, LeaseInv, CaptureInv,
           NEW c \in Conns, CapConnStep(c)
    PROVE  CaptureInv'
<1>1. CASE (Accept(c) \/ Reject(c) \/ InitAgain(c) \/ PeerCloses(c)) /\ UNCHANGED capVars
  BY <1>1, CaptureUntouched DEF Accept, Reject, InitAgain, PeerCloses, capVars, recVars,
     sshVars, outVars
<1>2. CASE \E k \in Keys, t \in Targets : CapResume(c, k, t)
  <2>1. PICK k \in Keys, t \in Targets : CapResume(c, k, t)
    BY <1>2
  <2>2. Next
    BY <2>1 DEF CapResume, Next, ConnStep, ReceiveInit
  <2> QED BY <2>1, <2>2, CapResumeStep
<1>3. CASE \E k \in Keys \cup {None}, t \in Targets, s \in Sessions : CapConnect(c, k, t, s)
  <2>1. PICK k \in Keys \cup {None}, t \in Targets, s \in Sessions : CapConnect(c, k, t, s)
    BY <1>3
  <2>2. Next
    BY <2>1 DEF CapConnect, Next, ConnStep, ReceiveInit
  <2> QED BY <2>1, <2>2, CapConnectStep
<1>4. CASE Stdin(c)
  BY <1>4, CaptureUntouched DEF Stdin, vars, connVars, sshVars, outVars
<1>5. ASSUME ReceiveDisconnect(c) \/ WsError(c) \/ \E code \in CloseCodes : WsClose(c, code),
             OnlyCloses
      PROVE  CaptureInv'
  <2>1. ConnStep(c) /\ UNCHANGED out
    BY <1>5 DEF ConnStep, ReceiveDisconnect, WsError, WsClose, outVars
  <2>2. \A s \in Sessions : ssh'[s] = "idle" <=> ssh[s] = "idle"
    <3>1. ASSUME NEW x, NEW entries, NEW registry, NEW details,
                 ReportClose(Reportable(x), ssh, entries, registry, details)
          PROVE  \A s \in Sessions : ssh'[s] = "idle" <=> ssh[s] = "idle"
      BY <3>1, ReportableIsLive DEF ReportClose
    <3> QED BY <1>5, <3>1 DEF ReceiveDisconnect, WsError, WsClose
  <2> QED BY <1>5, <2>1, <2>2, ConnKeepsMade, ClosingStep DEF Next
<1> QED BY <1>1, <1>2, <1>3, <1>4, <1>5 DEF CapConnStep

LEMMA CapSshKeeps ==
    ASSUME TypeInv, TypeInv', HolderInv, LeaseInv, CaptureInv, NEW s \in Sessions, CapSshStep(s)
    PROVE  CaptureInv'
<1>1. SshStep(s) /\ Next
  BY SshStepOfRelay DEF Next
<1>2. CASE CapReady(s)
  BY <1>1, <1>2, CapReadyStep
<1>3. CASE \E size \in FrameSizes : CapOutput(s, size)
  BY <1>1, <1>3, CapOutputStep
<1>4. ASSUME SshReject(s) \/ SshEnd(s) \/ ResumeTimeout(s), OnlyCloses PROVE CaptureInv'
  <2>1. UNCHANGED out
    BY <1>4 DEF SshReject, SshEnd, ResumeTimeout, outVars
  <2>2. \A x \in Sessions : ssh'[x] = "idle" <=> ssh[x] = "idle"
    <3>1. ASSUME NEW y, y \in Sessions => ssh[y] # "idle",
                 NEW entries, NEW registry, NEW details,
                 ReportClose(y, ssh, entries, registry, details)
          PROVE  \A x \in Sessions : ssh'[x] = "idle" <=> ssh[x] = "idle"
      BY <3>1 DEF ReportClose
    <3>2. SshReject(s) => \A x \in Sessions : ssh'[x] = "idle" <=> ssh[x] = "idle"
      BY DEF SshReject, TypeInv, TypeOK
    <3>3. SshEnd(s) => \A x \in Sessions : ssh'[x] = "idle" <=> ssh[x] = "idle"
      BY <3>1 DEF SshEnd
    <3>4. ResumeTimeout(s) => \A x \in Sessions : ssh'[x] = "idle" <=> ssh[x] = "idle"
      BY <3>1, ReportableIsLive DEF ResumeTimeout
    <3> QED BY <1>4, <3>2, <3>3, <3>4
  <2> QED BY <1>1, <1>4, <2>1, <2>2, EndKeepsMade, ClosingStep
<1> QED BY <1>2, <1>3, <1>4 DEF CapSshStep

LEMMA CaptureStep ==
    ASSUME MaxInits <= 1, TypeInv, HolderInv, LeaseInv, CaptureInv, [CapNext]_allVars
    PROVE  CaptureInv'
<1>1. CASE UNCHANGED allVars
  BY <1>1, CaptureUntouched DEF allVars, vars, connVars, sshVars, outVars, capVars, recVars
<1>2. CASE \E c \in Conns : CapConnStep(c)
  BY <1>2, CapConnKeeps, ConnStepOfRelay, TypeStep DEF Next
<1>3. CASE \E s \in Sessions : CapSshStep(s)
  BY <1>3, CapSshKeeps, SshStepOfRelay, TypeStep DEF Next
<1>4. CASE \E want \in Wants, ms \in Ttls : Arm(want, ms)
  BY <1>4, CaptureUntouched DEF Arm, vars, connVars, sshVars, outVars, recVars
<1>5. CASE Tick
  BY <1>5, CaptureUntouched DEF Tick, vars, connVars, sshVars, outVars, recVars
<1> QED BY <1>1, <1>2, <1>3, <1>4, <1>5 DEF CapNext

LEMMA CaptureInvariant ==
    ASSUME MaxInits <= 1
    PROVE  CapSpec => [](TypeInv /\ HolderInv /\ LeaseInv /\ CaptureInv)
<1>1. CapSpec => [](TypeInv /\ HolderInv /\ LeaseInv)
  <2>1. (OneInit => LeaseInv) /\ OneInit => LeaseInv
    OBVIOUS
  <2> QED BY <2>1, CaptureIsPassive, TypeInvariant, HolderInvariant, LeaseInvariant, OneInitOnly, PTL
<1>2. TypeInv /\ HolderInv /\ LeaseInv /\ CaptureInv /\ [CapNext]_allVars => CaptureInv'
  BY CaptureStep
<1> QED BY <1>1, <1>2, CaptureInit, PTL DEF CapSpec

-----------------------------------------------------------------------------
(* The rules.  One that was taken is gone from the store for good, so none  *)
(* in the store is the rule of a recording: ids are not given out twice.    *)

RuleInv ==
    /\ now \in 0..MaxTime /\ arms \in 0..MaxArms
    /\ rules \subseteq [id : 1..MaxArms, want : Wants, until : Nat]
    /\ by \in [Sessions -> 0..MaxArms]
    /\ typed \in [Sessions -> SUBSET Sessions]
    /\ \A r \in rules : r.id <= arms /\ r.until <= now + MaxTtl
    /\ \A s \in Sessions : by[s] <= arms /\ \A r \in rules : by[s] # r.id

\* take() answers with a rule of the store that fits and has not expired, or
\* with none.
LEMMA TakenFits ==
    ASSUME RuleInv, NEW k, NEW t, TakenRule(k, t) # 0
    PROVE  \E r \in rules : r.id = TakenRule(k, t) /\ now < r.until /\ Fits(r.want, k, t)
<1> DEFINE fitting == {r.id : r \in {x \in Unexpired : Fits(x.want, k, t)}}
<1>1. fitting \in SUBSET (0..MaxArms)
  BY DEF Unexpired, RuleInv
<1>2. TakenRule(k, t) = IF fitting = {} THEN 0
                        ELSE CHOOSE id \in fitting : \A x \in fitting : id <= x
  BY DEF TakenRule
<1>3. fitting # {}
  BY <1>2
<1>4. TakenRule(k, t) \in fitting
  <2> HIDE DEF fitting
  <2>1. \E id \in fitting : \A x \in fitting : id <= x
    BY <1>1, <1>3, CaptureBounds, LeastElement
  <2> QED BY <1>2, <1>3, <2>1
<1> QED BY <1>4 DEF Unexpired

LEMMA TtlWithinMax == ASSUME NEW ms \in Ttls PROVE Ttl(ms) \in 0..MaxTtl
BY TtlAssumption DEF Ttl

LEMMA RuleInit == CapInit => RuleInv
BY CaptureBounds DEF CapInit, RuleInv

\* A connection takes a rule out of the store, for the session it opens.
LEMMA TakingKeepsRules ==
    ASSUME RuleInv, NEW c, NEW k, NEW t, NEW s \in Sessions, CapConnect(c, k, t, s)
    PROVE  RuleInv'
<1> DEFINE id == TakenRule(k, t)
<1>1. rules' = Left(id) /\ by' = [by EXCEPT ![s] = id] /\ UNCHANGED <<now, arms, typed>>
  BY DEF CapConnect
<1>2. id \in 0..MaxArms /\ id <= arms
  <2> HIDE DEF id
  <2>1. id # 0 => \E r \in rules : r.id = id
    BY TakenFits DEF id
  <2> QED BY <2>1, CaptureBounds DEF RuleInv
<1> HIDE DEF id
<1>3. \A r \in rules' : r \in rules /\ r.id # id
  BY <1>1 DEF Left, Unexpired
<1> QED BY <1>1, <1>2, <1>3 DEF RuleInv

LEMMA ArmingKeepsRules ==
    ASSUME RuleInv, NEW want \in Wants, NEW ms \in Ttls, Arm(want, ms)
    PROVE  RuleInv'
<1> DEFINE armed == [id |-> arms + 1, want |-> want, until |-> now + Ttl(ms)]
<1>1. arms < MaxArms /\ arms' = arms + 1 /\ UNCHANGED <<now, by, typed>>
  BY DEF Arm, recVars
<1>2. \A r \in rules' : r \in rules \/ r = armed
  BY DEF Arm, Unexpired
<1>3. /\ armed \in [id : 1..MaxArms, want : Wants, until : Nat]
      /\ armed.id = arms + 1 /\ armed.until <= now + MaxTtl
  BY <1>1, TtlWithinMax, CaptureBounds, TtlAssumption DEF RuleInv
<1> HIDE DEF armed
<1>4. rules' \subseteq [id : 1..MaxArms, want : Wants, until : Nat]
  BY <1>2, <1>3 DEF RuleInv
<1>5. \A r \in rules' : r.id <= arms' /\ r.until <= now' + MaxTtl
  BY <1>1, <1>2, <1>3 DEF RuleInv
<1>6. \A s \in Sessions : by'[s] <= arms' /\ \A r \in rules' : by'[s] # r.id
  BY <1>1, <1>2, <1>3 DEF RuleInv
<1>7. arms' \in 0..MaxArms
  BY <1>1, CaptureBounds DEF RuleInv
<1> QED BY <1>1, <1>4, <1>5, <1>6, <1>7 DEF RuleInv

LEMMA RuleStep ==
    ASSUME TypeInv, CaptureInv, RuleInv, [CapNext]_allVars
    PROVE  RuleInv'
<1>1. CASE UNCHANGED <<now, arms, rules, by, typed>>
  BY <1>1 DEF RuleInv
<1>2. ASSUME NEW c \in Conns, CapConnStep(c) PROVE RuleInv'
  <2>1. CASE \E k \in Keys \cup {None}, t \in Targets, s \in Sessions : CapConnect(c, k, t, s)
    BY <2>1, TakingKeepsRules
  <2>2. CASE Stdin(c)
    <3>1. session[c] \in Sessions \cup {None}
      BY DEF TypeInv, TypeOK
    <3>2. typed' \in [Sessions -> SUBSET Sessions] /\ UNCHANGED <<now, arms, rules, by>>
      BY <2>2, <3>1 DEF Stdin, RuleInv
    <3> QED BY <3>2 DEF RuleInv
  <2>3. CASE UNCHANGED <<now, arms, rules, by, typed>>
    BY <1>1, <2>3
  <2> QED BY <1>2, <2>1, <2>2, <2>3 DEF CapConnStep, CapResume, OnlyCloses, capVars, recVars
<1>3. ASSUME NEW s \in Sessions, CapSshStep(s) PROVE RuleInv'
  BY <1>1, <1>3 DEF CapSshStep, CapReady, OnlyCloses, CapOutput
<1>4. ASSUME NEW want \in Wants, NEW ms \in Ttls, Arm(want, ms) PROVE RuleInv'
  BY <1>4, ArmingKeepsRules
<1>5. CASE Tick
  <2>1. now' = now + 1 /\ now < MaxTime /\ UNCHANGED <<arms, rules, by, typed>>
    BY <1>5 DEF Tick, recVars
  <2>2. \A r \in rules : r.until \in Nat
    BY DEF RuleInv
  <2> QED BY <2>1, <2>2, CaptureBounds, TtlAssumption DEF RuleInv
<1> QED BY <1>1, <1>2, <1>3, <1>4, <1>5 DEF CapNext, allVars, capVars, recVars

\* The rule of a new recording was in the store, and of no recording before.
LEMMA RuleTaken ==
    ASSUME TypeInv, RuleInv, [CapNext]_allVars, NEW s \in Sessions, by[s] = 0, by'[s] # 0
    PROVE  /\ \A x \in Sessions : by[x] # by'[s]
           /\ \E r \in rules :
                 /\ r.id = by'[s]
                 /\ now < r.until /\ r.until <= now + MaxTtl
                 /\ Fits(r.want, request'[s].key, request'[s].target)
<1>1. ~UNCHANGED by
  OBVIOUS
<1>2. PICK c \in Conns, k \in Keys \cup {None}, t \in Targets, x \in Sessions : CapConnect(c, k, t, x)
  BY <1>1 DEF CapNext, CapConnStep, CapSshStep, CapResume, Stdin, OnlyCloses, CapReady, CapOutput,
     Arm, Tick, allVars, capVars, recVars
<1>3. by' = [by EXCEPT ![x] = TakenRule(k, t)]
      /\ request' = [request EXCEPT ![x] = [key |-> k, target |-> t]]
  BY <1>2 DEF CapConnect, InitConnect
<1>4. s = x /\ by'[s] = TakenRule(k, t)
  BY <1>3 DEF RuleInv
<1>5. request'[s].key = k /\ request'[s].target = t
  BY <1>3, <1>4 DEF TypeInv, TypeOK
<1>6. PICK r \in rules : r.id = TakenRule(k, t) /\ now < r.until /\ Fits(r.want, k, t)
  BY <1>4, TakenFits
<1> QED BY <1>4, <1>5, <1>6 DEF RuleInv

\* A recording holds all its session printed, whoever held it meanwhile, and
\* nothing of another session (server.ts 748, 760); it is open as long as the
\* session may print (772); what is typed goes with the session it is typed
\* into (835); and a rule makes one recording, in time and of a session it was
\* armed for (terminalCaptureArm.ts 126-140): for any clients that send one
\* init, any sessions, keys, rules and delays.
THEOREM RecordingsStayApart ==
    ASSUME MaxInits <= 1
    PROVE  CapSpec => RecordingsAreApart
<1>1. ASSUME TypeInv, HolderInv, LeaseInv, CaptureInv, RuleInv
      PROVE  CapTypeOK /\ RecordingIsTheSession /\ TypedWhereItGoes /\ OpenWhileAlive
  <2>1. TypedWhereItGoes
    BY <1>1, HolderRecorder DEF TypedWhereItGoes
  <2>2. CapTypeOK
    BY <1>1 DEF CapTypeOK, TypeInv, CaptureInv, RecorderTypes, RuleInv
  <2> QED BY <1>1, <2>1, <2>2 DEF CaptureInv
<1>2. TypeInv /\ CaptureInv /\ RuleInv /\ [CapNext]_allVars => RuleInv'
  BY RuleStep
<1>3. TypeInv /\ RuleInv /\ [CapNext]_allVars =>
        \A s \in Sessions : by[s] = 0 /\ by'[s] # 0 =>
          /\ \A x \in Sessions : by[x] # by'[s]
          /\ \E r \in rules :
                /\ r.id = by'[s]
                /\ now < r.until /\ r.until <= now + MaxTtl
                /\ Fits(r.want, request'[s].key, request'[s].target)
  BY RuleTaken
<1> QED BY <1>1, <1>2, <1>3, CaptureInvariant, RuleInit, PTL
        DEF CapSpec, RecordingsAreApart, RuleServesOnce
=============================================================================
