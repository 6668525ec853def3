------------------------------ MODULE WebHostKeys ------------------------------
(***************************************************************************)
(* Trust in host keys: the web client keeps the key each host was accepted *)
(* with (settingsStore.ts, hostKey.ts), sends it along when it connects,   *)
(* and decides by the user's policy when the gateway reports the key a hop *)
(* presented.  A connection goes over one hop or, with a jump host, over   *)
(* two; the gateway compares before it reports.  Hosts may change their    *)
(* keys.  The settings are read before anything connects.                  *)
(***************************************************************************)
EXTENDS Naturals, Sequences, SequencesExt, FiniteSets, TLAPS, SequenceTheorems

CONSTANTS Hosts, Keys, None,
          Routes,     \* the hops of a connection, in the order they are reported
          MaxChanges  \* bound: hosts that change their key

ASSUME HostKeysAssumption == Routes \subseteq Seq(Hosts) /\ None \notin Keys /\ MaxChanges \in Nat

Policies == {"strict", "trustFirstUse", "manualEachTime"}

VARIABLES
  loaded,   \* bootstrap: nothing, the settings, or all is read
  policy,   \* settings.hostKeyPolicy, as read or saved
  known,    \* knownHosts: [Hosts -> Keys or None]
  diskPolicy, disk, writes,  \* IndexedDB, and the writes under way, in order
  link,     \* the connection: None, or [hops to be reported, sent keys, ready]
  keyOf,    \* the key a host presents
  changes

vars == <<loaded, policy, known, diskPolicy, disk, writes, link, keyOf, changes>>

NoneKnown == [h \in Hosts |-> None]

Init ==
  /\ loaded = "nothing" /\ policy = "strict" /\ known = NoneKnown
  /\ diskPolicy = "strict" /\ disk = NoneKnown /\ writes = <<>>
  /\ link = None /\ keyOf \in [Hosts -> Keys] /\ changes = 0

(* the settings *)

LoadSettings ==
  /\ loaded = "nothing" /\ loaded' = "settings" /\ policy' = diskPolicy
  /\ UNCHANGED <<known, diskPolicy, disk, writes, link, keyOf, changes>>

LoadKnownHosts ==
  /\ loaded = "settings" /\ loaded' = "all" /\ known' = disk
  /\ UNCHANGED <<policy, diskPolicy, disk, writes, link, keyOf, changes>>

Save(p) ==
  /\ loaded = "all" /\ p # policy /\ policy' = p /\ diskPolicy' = p
  /\ UNCHANGED <<loaded, known, disk, writes, link, keyOf, changes>>

WriteDone ==
  /\ writes # <<>> /\ writes' = Tail(writes)
  /\ disk' = [disk EXCEPT ![Head(writes).host] = Head(writes).key]
  /\ UNCHANGED <<loaded, policy, known, diskPolicy, link, keyOf, changes>>

\* The page is closed and opened again; writes under way may be lost.
Reload ==
  /\ loaded = "all" /\ loaded' = "nothing"
  /\ policy' = "strict" /\ known' = NoneKnown /\ writes' = <<>> /\ link' = None
  /\ UNCHANGED <<diskPolicy, disk, keyOf, changes>>

(* connecting *)

Connect(route) ==
  /\ loaded = "all" /\ link = None
  /\ link' = [hops |-> route, ready |-> FALSE,
              sent |-> [h \in Hosts |-> IF h \in ToSet(route) THEN known[h] ELSE None]]
  /\ UNCHANGED <<loaded, policy, known, diskPolicy, disk, writes, keyOf, changes>>

\* verifyHostKey: whether the key is accepted when the user, if asked, says yes
Accepts(host, key, yes) ==
  /\ known[host] \in {None, key}
  /\ policy = "trustFirstUse" \/ (policy = "strict" /\ known[host] = key) \/ yes

HopTrusting(yes) ==
  /\ link # None /\ link.hops # <<>>
  /\ LET h == Head(link.hops)
         key == keyOf[h]
         good == policy = "trustFirstUse" \/ yes
     IN  /\ link' = IF good THEN [link EXCEPT !.hops = Tail(@)] ELSE None
         /\ known' = IF good THEN [known EXCEPT ![h] = key] ELSE known
         /\ writes' = IF good THEN Append(writes, [host |-> h, key |-> key]) ELSE writes
  /\ Len(writes) < 2
  /\ UNCHANGED <<loaded, policy, diskPolicy, disk, keyOf, changes>>

\* The gateway reports the key of the next hop, unless it is not the one sent;
\* verifyAndPersistHostFingerprint decides, and a rejected key disconnects.
Hop(yes) ==
  /\ link # None /\ link.hops # <<>>
  /\ LET h == Head(link.hops)
         key == keyOf[h]
         good == link.sent[h] \in {None, key} /\ Accepts(h, key, yes)
     IN  /\ link' = IF good THEN [link EXCEPT !.hops = Tail(@)] ELSE None
         /\ known' = IF good THEN [known EXCEPT ![h] = key] ELSE known
         /\ writes' = IF good THEN Append(writes, [host |-> h, key |-> key]) ELSE writes
  /\ Len(writes) < 2
  /\ UNCHANGED <<loaded, policy, diskPolicy, disk, keyOf, changes>>

ShellReady ==
  /\ link # None /\ link.hops = <<>> /\ ~link.ready
  /\ link' = [link EXCEPT !.ready = TRUE]
  /\ UNCHANGED <<loaded, policy, known, diskPolicy, disk, writes, keyOf, changes>>

Disconnect ==
  /\ link # None /\ link' = None
  /\ UNCHANGED <<loaded, policy, known, diskPolicy, disk, writes, keyOf, changes>>

KeyChanges(h) ==
  /\ changes < MaxChanges /\ changes' = changes + 1
  /\ \E k \in Keys \ {keyOf[h]} : keyOf' = [keyOf EXCEPT ![h] = k]
  /\ UNCHANGED <<loaded, policy, known, diskPolicy, disk, writes, link>>

Next ==
  \/ LoadSettings \/ LoadKnownHosts \/ WriteDone \/ Reload
  \/ \E p \in Policies : Save(p)
  \/ \E route \in Routes : Connect(route)
  \/ \E yes \in BOOLEAN : Hop(yes)
  \/ ShellReady \/ Disconnect
  \/ \E h \in Hosts : KeyChanges(h)

Spec == Init /\ [][Next]_vars
-----------------------------------------------------------------------------
\* What the page knows is what is stored or about to be, so that a policy is
\* applied to what was really accepted before.
KnownIsStored ==
  loaded = "all" =>
    \A h \in Hosts :
      LET late == {i \in 1..Len(writes) : writes[i].host = h}
      IN  IF late = {} THEN known[h] = disk[h]
          ELSE \A i \in late : writes[i].key = known[h]

\* The keys the gateway was told to compare with are those the page goes by.
SentIsKnown == link # None => \A h \in Hosts : link.sent[h] \in {None, known[h]}

\* A key that was once stored is never replaced by another, neither by a key a
\* host has come to, nor by a connection under way when the page is reloaded;
\* and both the page and the gateway decide by what is stored.
StoredStays ==
  /\ [](KnownIsStored /\ SentIsKnown)
  /\ [][\A h \in Hosts : disk[h] # None => disk'[h] = disk[h]]_vars

-----------------------------------------------------------------------------
(***************************************************************************)
(* Proof about WebHostKeys, for any hosts, keys, routes and policies: a    *)
(* host key that was stored is never replaced.                             *)
(***************************************************************************)

MaybeKeys == Keys \cup {None}
Writes == [host : Hosts, key : Keys]
Links == [hops : Seq(Hosts), ready : BOOLEAN, sent : [Hosts -> MaybeKeys]]

Types ==
  /\ known \in [Hosts -> MaybeKeys] /\ disk \in [Hosts -> MaybeKeys]
  /\ keyOf \in [Hosts -> Keys] /\ writes \in Seq(Writes)
  /\ link = None \/ link \in Links

\* Nothing connects and nothing is written before all is read.
LoadedInv == loaded = "all" \/ (writes = <<>> /\ link = None)

\* The page knows what is stored, and everything it is about to store.
KnownInv ==
  /\ loaded = "all" => \A h \in Hosts : disk[h] # None => known[h] = disk[h]
  /\ \A i \in 1..Len(writes) : known[writes[i].host] = writes[i].key

\* Of a host without a write under way it knows no more than that.
NothingElseInv ==
  loaded = "all" => \A h \in Hosts :
    (\A i \in 1..Len(writes) : writes[i].host # h) => known[h] = disk[h]

IInv == Types /\ LoadedInv /\ KnownInv
-----------------------------------------------------------------------------
LEMMA InitIInv == Init => IInv
<1> SUFFICES ASSUME Init PROVE IInv
  OBVIOUS
<1>1. Types
  BY EmptySeq DEF Init, Types, NoneKnown, MaybeKeys
<1>2. LoadedInv /\ KnownInv
  BY EmptySeq DEF Init, LoadedInv, KnownInv
<1> QED  BY <1>1, <1>2 DEF IInv

\* A write that is done stores what the page knows.
LEMMA WritesKnown ==
  ASSUME IInv, WriteDone
  PROVE  /\ Head(writes).host \in Hosts /\ Head(writes).key \in Keys
         /\ known[Head(writes).host] = Head(writes).key /\ loaded = "all"
<1>1. writes \in Seq(Writes) /\ writes # <<>>
  BY DEF IInv, Types, WriteDone
<1>2. Head(writes) = writes[1] /\ 1 \in 1..Len(writes) /\ Head(writes) \in Writes
  BY <1>1, HeadTailProperties, EmptySeq
<1> QED  BY <1>1, <1>2 DEF IInv, KnownInv, LoadedInv, Writes

LEMMA StepWrite == ASSUME IInv, WriteDone PROVE IInv'
<1> DEFINE w == Head(writes)
<1>1. w.host \in Hosts /\ w.key \in Keys /\ known[w.host] = w.key /\ loaded = "all"
  BY WritesKnown
<1>2. /\ writes' \in Seq(Writes) /\ Len(writes') = Len(writes) - 1 /\ Len(writes) \in Nat
      /\ \A i \in 1..Len(writes') : writes'[i] = writes[i + 1]
  BY HeadTailProperties, LenProperties DEF WriteDone, IInv, Types
<1> HIDE DEF w
<1>3. /\ disk' \in [Hosts -> MaybeKeys]
      /\ \A h \in Hosts : disk'[h] = IF h = w.host THEN w.key ELSE disk[h]
  BY <1>1 DEF WriteDone, IInv, Types, MaybeKeys, w
<1>4. UNCHANGED <<known, keyOf, link, loaded>>
  BY DEF WriteDone
<1>5. Types'
  BY <1>2, <1>3, <1>4 DEF IInv, Types
<1>6. \A i \in 1..Len(writes') : known'[writes'[i].host] = writes'[i].key
  BY <1>2, <1>4 DEF IInv, KnownInv
<1>7. \A h \in Hosts : disk'[h] # None => known'[h] = disk'[h]
  BY <1>1, <1>3, <1>4 DEF IInv, KnownInv
<1> QED  BY <1>1, <1>4, <1>5, <1>6, <1>7 DEF IInv, LoadedInv, KnownInv

LEMMA StepHop == ASSUME IInv, NEW yes \in BOOLEAN, Hop(yes) PROVE IInv'
<1> DEFINE h == Head(link.hops)
<1> DEFINE key == keyOf[h]
<1> DEFINE good == link.sent[h] \in {None, key} /\ Accepts(h, key, yes)
<1> DEFINE w == [host |-> h, key |-> key]
<1>1. link \in Links /\ link.hops # <<>> /\ link.hops \in Seq(Hosts)
  BY DEF Hop, IInv, Types, Links
<1>2. h \in Hosts /\ Tail(link.hops) \in Seq(Hosts) /\ key \in Keys
  BY <1>1, HeadTailProperties DEF IInv, Types
<1>3. loaded = "all" /\ loaded' = "all" /\ disk' = disk /\ keyOf' = keyOf
  BY DEF Hop, IInv, LoadedInv
<1>4. CASE ~good
  <2>1. link' = None /\ UNCHANGED <<known, writes>>
    BY <1>4 DEF Hop
  <2> QED  BY <1>3, <2>1 DEF IInv, Types, LoadedInv, KnownInv
<1>5. CASE good
  <2>1. /\ link' = [link EXCEPT !.hops = Tail(link.hops)]
        /\ known' = [known EXCEPT ![h] = key] /\ writes' = Append(writes, w)
    BY <1>5 DEF Hop
  <2>2. known[h] \in {None, key}
    BY <1>5 DEF Accepts
  <2>3. w \in Writes /\ w.host = h /\ w.key = key
    BY <1>2 DEF Writes
  <2>4. link' \in Links
    BY <1>1, <1>2, <2>1 DEF Links
  <2> HIDE DEF h, key, good, w
  <2>5. /\ writes' \in Seq(Writes) /\ Len(writes') = Len(writes) + 1 /\ Len(writes) \in Nat
        /\ writes'[Len(writes) + 1] = w
        /\ \A i \in 1..Len(writes) : writes'[i] = writes[i] /\ writes[i] \in Writes
    BY <2>1, <2>3, ElementOfSeq DEF IInv, Types
  <2>6. /\ known' \in [Hosts -> MaybeKeys]
        /\ \A x \in Hosts : known'[x] = IF x = h THEN key ELSE known[x]
    BY <1>2, <2>1 DEF IInv, Types, MaybeKeys
  <2>7. \A x \in Hosts : known[x] # None => known'[x] = known[x]
    BY <2>2, <2>6
  <2>8. \A i \in 1..Len(writes) : known'[writes[i].host] = writes[i].key
    <3> SUFFICES ASSUME NEW i \in 1..Len(writes) PROVE known'[writes[i].host] = writes[i].key
      OBVIOUS
    <3>1. writes[i].host \in Hosts /\ writes[i].key # None
      BY <2>5, HostKeysAssumption DEF Writes
    <3>2. known[writes[i].host] = writes[i].key
      BY DEF IInv, KnownInv
    <3> QED  BY <2>7, <3>1, <3>2
  <2>9. \A i \in 1..Len(writes') : known'[writes'[i].host] = writes'[i].key
    <3>1. \A i \in 1..Len(writes') : i \in 1..Len(writes) \/ i = Len(writes) + 1
      BY <2>5
    <3>2. known'[w.host] = w.key
      BY <1>2, <2>3, <2>6
    <3> QED  BY <2>5, <2>8, <3>1, <3>2
  <2>10. \A x \in Hosts : disk'[x] # None => known'[x] = disk'[x]
    BY <1>3, <2>7 DEF IInv, KnownInv
  <2>11. Types'
    BY <1>3, <2>4, <2>5, <2>6 DEF IInv, Types
  <2> QED  BY <1>3, <2>9, <2>10, <2>11 DEF IInv, LoadedInv, KnownInv
<1> QED  BY <1>4, <1>5

LEMMA StepIInv == IInv /\ [Next]_vars => IInv'
<1> SUFFICES ASSUME IInv, [Next]_vars PROVE IInv'
  OBVIOUS
<1> USE DEF IInv, Types, LoadedInv, KnownInv
<1>1. CASE LoadSettings
  BY <1>1 DEF LoadSettings
<1>2. CASE LoadKnownHosts
  BY <1>2, EmptySeq DEF LoadKnownHosts
<1>3. CASE WriteDone
  BY <1>3, StepWrite
<1>4. CASE Reload
  BY <1>4, EmptySeq DEF Reload, NoneKnown, MaybeKeys
<1>5. ASSUME NEW p \in Policies, Save(p) PROVE IInv'
  BY <1>5 DEF Save
<1>6. ASSUME NEW route \in Routes, Connect(route) PROVE IInv'
  <2>1. link' \in Links
    BY <1>6, HostKeysAssumption DEF Connect, Links, MaybeKeys
  <2> QED  BY <1>6, <2>1 DEF Connect
<1>7. ASSUME NEW yes \in BOOLEAN, Hop(yes) PROVE IInv'
  BY <1>7, StepHop
<1>8. CASE ShellReady
  <2>1. link' \in Links
    BY <1>8 DEF ShellReady, Links
  <2> QED  BY <1>8, <2>1 DEF ShellReady
<1>9. CASE Disconnect
  BY <1>9 DEF Disconnect
<1>10. ASSUME NEW h \in Hosts, KeyChanges(h) PROVE IInv'
  <2>1. keyOf' \in [Hosts -> Keys]
    BY <1>10 DEF KeyChanges
  <2> QED  BY <1>10, <2>1 DEF KeyChanges
<1>11. CASE UNCHANGED vars
  BY <1>11 DEF vars
<1> QED
  BY <1>1, <1>2, <1>3, <1>4, <1>5, <1>6, <1>7, <1>8, <1>9, <1>10, <1>11 DEF Next

LEMMA Invariance == Spec => []IInv
BY InitIInv, StepIInv, PTL DEF Spec
-----------------------------------------------------------------------------
LEMMA InitNothingElse == Init => NothingElseInv /\ SentIsKnown
BY DEF Init, NothingElseInv, SentIsKnown

\* A step leaves the hosts without a write as they are, reads all that is
\* stored, finishes the oldest write, or adds one.
LEMMA StepNothingElse == IInv /\ NothingElseInv /\ [Next]_vars => NothingElseInv'
<1> SUFFICES ASSUME IInv, NothingElseInv, [Next]_vars PROVE NothingElseInv'
  OBVIOUS
<1>1. CASE LoadKnownHosts
  BY <1>1 DEF LoadKnownHosts, NothingElseInv
<1>2. CASE WriteDone
  <2> DEFINE w == Head(writes)
  <2>1. w.host \in Hosts /\ known[w.host] = w.key /\ loaded = "all"
    BY <1>2, WritesKnown
  <2>2. /\ Len(writes') = Len(writes) - 1 /\ Len(writes) \in Nat /\ w = writes[1]
        /\ \A i \in 1..Len(writes') : writes'[i] = writes[i + 1]
    BY <1>2, HeadTailProperties, LenProperties DEF WriteDone, IInv, Types
  <2>3. /\ known' = known
        /\ \A h \in Hosts : disk'[h] = IF h = w.host THEN w.key ELSE disk[h]
    BY <1>2, <2>1 DEF WriteDone, IInv, Types
  <2> HIDE DEF w
  <2>4. SUFFICES ASSUME NEW h \in Hosts, \A i \in 1..Len(writes') : writes'[i].host # h
                 PROVE  known'[h] = disk'[h]
    BY DEF NothingElseInv
  <2>5. CASE h = w.host
    BY <2>1, <2>3, <2>5
  <2>6. CASE h # w.host
    <3>1. ASSUME NEW i \in 1..Len(writes) PROVE writes[i].host # h
      <4>1. i = 1 \/ (i - 1 \in 1..Len(writes') /\ writes'[i - 1] = writes[i])
        BY <2>2
      <4> QED  BY <2>2, <2>4, <2>6, <4>1
    <3> QED  BY <2>1, <2>3, <2>6, <3>1 DEF NothingElseInv
  <2> QED  BY <2>5, <2>6
<1>3. CASE Reload
  BY <1>3 DEF Reload, NothingElseInv
<1>4. ASSUME NEW yes \in BOOLEAN, Hop(yes) PROVE NothingElseInv'
  <2> DEFINE x == Head(link.hops)
  <2>1. loaded = "all" /\ loaded' = loaded /\ disk' = disk /\ writes \in Seq(Writes)
    BY <1>4 DEF Hop, IInv, LoadedInv, Types
  <2>2. x \in Hosts
    BY <1>4, HeadTailProperties DEF Hop, IInv, Types, Links
  <2>3. CASE UNCHANGED <<known, writes>>
    BY <2>1, <2>3 DEF NothingElseInv
  <2>4. CASE ~UNCHANGED <<known, writes>>
    <3> DEFINE w == [host |-> x, key |-> keyOf[x]]
    <3>1. known' = [known EXCEPT ![x] = keyOf[x]] /\ writes' = Append(writes, w)
      BY <1>4, <2>4 DEF Hop
    <3> HIDE DEF x
    <3>2. w \in Writes
      BY <2>2 DEF Writes, IInv, Types
    <3>3. w.host = x
      OBVIOUS
    <3> HIDE DEF w
    <3>4. /\ Len(writes') = Len(writes) + 1 /\ Len(writes) \in Nat
          /\ writes'[Len(writes) + 1] = w
          /\ \A i \in 1..Len(writes) : writes'[i] = writes[i]
      BY <2>1, <3>1, <3>2
    <3>5. \A h \in Hosts \ {x} : known'[h] = known[h]
      BY <2>2, <3>1 DEF IInv, Types
    <3>6. SUFFICES ASSUME NEW h \in Hosts, \A i \in 1..Len(writes') : writes'[i].host # h
                   PROVE  known'[h] = disk'[h]
      BY DEF NothingElseInv
    <3>7. h # x
      BY <3>3, <3>4, <3>6
    <3>8. \A i \in 1..Len(writes) : writes[i].host # h
      BY <3>4, <3>6
    <3> QED  BY <2>1, <3>5, <3>7, <3>8 DEF NothingElseInv
  <2> QED  BY <2>3, <2>4
<1>5. CASE ~(LoadKnownHosts \/ WriteDone \/ Reload \/ \E yes \in BOOLEAN : Hop(yes))
  <2>1. UNCHANGED <<known, disk, writes>> /\ (loaded' = "all" => loaded = "all")
    BY <1>5 DEF Next, LoadSettings, Save, Connect, ShellReady, Disconnect, KeyChanges, vars
  <2> QED  BY <2>1 DEF NothingElseInv
<1> QED  BY <1>1, <1>2, <1>3, <1>4, <1>5

\* A connection is sent what is known of its hops, and what is known stays.
LEMMA StepSent == IInv /\ SentIsKnown /\ [Next]_vars => SentIsKnown'
<1> SUFFICES ASSUME IInv, SentIsKnown, [Next]_vars PROVE SentIsKnown'
  OBVIOUS
<1>1. CASE LoadKnownHosts
  BY <1>1 DEF LoadKnownHosts, SentIsKnown, IInv, LoadedInv
<1>2. CASE Reload
  BY <1>2 DEF Reload, SentIsKnown
<1>3. ASSUME NEW route \in Routes, Connect(route) PROVE SentIsKnown'
  BY <1>3 DEF Connect, SentIsKnown
<1>4. ASSUME NEW yes \in BOOLEAN, Hop(yes) PROVE SentIsKnown'
  <2> DEFINE x == Head(link.hops)
  <2>1. link \in Links /\ x \in Hosts /\ known \in [Hosts -> MaybeKeys]
    BY <1>4, HeadTailProperties DEF Hop, IInv, Types, Links
  <2>2. CASE link' = None
    BY <2>2 DEF SentIsKnown
  <2>3. CASE link' # None
    <3>1. /\ link' = [link EXCEPT !.hops = Tail(@)] /\ known' = [known EXCEPT ![x] = keyOf[x]]
          /\ known[x] \in {None, keyOf[x]} /\ link # None
      BY <1>4, <2>3 DEF Hop, Accepts
    <3>2. link'.sent = link.sent
      BY <2>1, <3>1 DEF Links
    <3> HIDE DEF x
    <3>3. \A h \in Hosts : known[h] # None => known'[h] = known[h]
      BY <2>1, <3>1
    <3> QED  BY <3>1, <3>2, <3>3 DEF SentIsKnown
  <2> QED  BY <2>2, <2>3
<1>5. CASE ShellReady
  <2>1. link \in Links /\ link' = [link EXCEPT !.ready = TRUE] /\ known' = known /\ link # None
    BY <1>5 DEF ShellReady, IInv, Types
  <2>2. link'.sent = link.sent
    BY <2>1 DEF Links
  <2> QED  BY <2>1, <2>2 DEF SentIsKnown
<1>6. CASE ~(\/ LoadKnownHosts \/ Reload \/ ShellReady \/ \E route \in Routes : Connect(route)
            \/ \E yes \in BOOLEAN : Hop(yes))
  <2>1. known' = known /\ link' \in {None, link}
    BY <1>6 DEF Next, LoadSettings, WriteDone, Save, Disconnect, KeyChanges, vars
  <2> QED  BY <2>1 DEF SentIsKnown
<1> QED  BY <1>1, <1>2, <1>3, <1>4, <1>5, <1>6

\* What the page decides by is what is stored, or about to be, and so is what
\* the gateway was told to compare with.
THEOREM KnownStaysStored == Spec => [](KnownIsStored /\ SentIsKnown)
<1>1. IInv /\ NothingElseInv => KnownIsStored
  BY DEF IInv, KnownInv, NothingElseInv, KnownIsStored
<1> QED  BY <1>1, InitNothingElse, StepNothingElse, StepSent, Invariance, PTL DEF Spec

\* A key that was once stored is never replaced by another, whatever keys hosts
\* come to present, under every policy and over every route, also not by writes
\* under way: verifyHostKey refuses what differs from what the page knows, and that
\* is what is stored.
THEOREM TrustIsKept == Spec => StoredStays
<1>1. IInv /\ [Next]_vars => [\A h \in Hosts : disk[h] # None => disk'[h] = disk[h]]_vars
  <2> SUFFICES ASSUME IInv, Next, NEW h \in Hosts, disk[h] # None PROVE disk'[h] = disk[h]
    OBVIOUS
  <2>1. CASE WriteDone
    <3>1. /\ Head(writes).host \in Hosts /\ loaded = "all"
          /\ known[Head(writes).host] = Head(writes).key
      BY <2>1, WritesKnown
    <3>2. disk'[h] = IF h = Head(writes).host THEN Head(writes).key ELSE disk[h]
      BY <2>1 DEF WriteDone, IInv, Types
    <3> QED  BY <3>1, <3>2 DEF IInv, KnownInv
  <2>2. CASE ~WriteDone
    BY <2>2 DEF Next, LoadSettings, LoadKnownHosts, Reload, Save, Connect, Hop, ShellReady,
                Disconnect, KeyChanges
  <2> QED  BY <2>1, <2>2
<1> QED  BY <1>1, KnownStaysStored, Invariance, PTL DEF Spec, StoredStays
=============================================================================
