----------------------------- MODULE Speech_proofs -----------------------------
(***************************************************************************)
(* Proofs about speech: the gateway's proxy to the recognition service     *)
(* (AsrProxy), for any number of frames and answers, the rounds of the web *)
(* client (WebVoice), for any number of rounds, the synthesis service      *)
(* (TtsService), for any keys, callers and number of slots, what the mini  *)
(* program hears and reads aloud (MiniSpeech), for any number of calls,    *)
(* jobs and instances, and the place of its voice button (MiniLayout), in  *)
(* a window of any size.                                                   *)
(***************************************************************************)
EXTENDS AsrProxy, WebVoice, TtsService, MiniSpeech, MiniLayout, TLAPS, SequenceTheorems,
        FiniteSetTheorems

-----------------------------------------------------------------------------
(* The proxy: what the service gets to see of one client connection.         *)

Frames == {"start", "audio", "last"}

\* The frames sent are one round, as the proxy's two flags say.
OneRoundInv ==
  /\ sent \in Seq(Frames)
  /\ ServiceSeesOneRound
  /\ sent # <<>> => startSent
  /\ startSent => sent # <<>>
  /\ ~stopSent => \A i \in 1..Len(sent) : sent[i] # "last"
-----------------------------------------------------------------------------
LEMMA InitOneRound == ProxyInit => OneRoundInv
BY EmptySeq DEF ProxyInit, OneRoundInv, ServiceSeesOneRound

\* A start opens the round; audio goes on with it and the last packet ends it,
\* while none has.
LEMMA AppendRound ==
  ASSUME NEW s \in Seq(Frames), NEW f \in Frames,
         \A i \in 1..Len(s) : (s[i] = "start" <=> i = 1) /\ s[i] # "last",
         f = "start" <=> s = <<>>
  PROVE  /\ Append(s, f) \in Seq(Frames) /\ Append(s, f) # <<>>
         /\ \A i \in 1..Len(Append(s, f)) :
              /\ Append(s, f)[i] = "start" <=> i = 1
              /\ Append(s, f)[i] = "last" => i = Len(Append(s, f)) /\ f = "last"
<1> DEFINE a == Append(s, f)
<1>1. /\ a \in Seq(Frames) /\ Len(s) \in Nat /\ Len(a) = Len(s) + 1 /\ a[Len(s) + 1] = f
      /\ \A i \in 1..Len(s) : a[i] = s[i]
  OBVIOUS
<1>2. s = <<>> <=> Len(s) = 0
  BY EmptySeq
<1> HIDE DEF a
<1>3. ASSUME NEW i \in 1..Len(a)
      PROVE  (a[i] = "start" <=> i = 1) /\ (a[i] = "last" => i = Len(a) /\ f = "last")
  <2>1. CASE i \in 1..Len(s)
    BY <1>1, <2>1
  <2>2. CASE i = Len(s) + 1
    BY <1>1, <1>2, <2>2
  <2> QED  BY <1>1, <2>1, <2>2
<1>4. a # <<>>
  BY <1>1, EmptySeq
<1> QED  BY <1>1, <1>3, <1>4 DEF a

\* The steps that send nothing and leave the flags alone.
SendsNothing == UNCHANGED <<sent, startSent, stopSent>>

LEMMA SendsLast ==
  ASSUME OneRoundInv, startSent, ~stopSent, SendUp("last"), stopSent' = TRUE, startSent' = startSent
  PROVE  OneRoundInv'
<1>1. \A i \in 1..Len(sent) : (sent[i] = "start" <=> i = 1) /\ sent[i] # "last"
  BY DEF OneRoundInv, ServiceSeesOneRound
<1>2. /\ sent' \in Seq(Frames) /\ sent' # <<>>
      /\ \A i \in 1..Len(sent') : (sent'[i] = "start" <=> i = 1) /\ (sent'[i] = "last" => i = Len(sent'))
  BY <1>1, AppendRound DEF SendUp, OneRoundInv, Frames
<1> QED  BY <1>2 DEF OneRoundInv, ServiceSeesOneRound

LEMMA FinalStopInv == ASSUME OneRoundInv, FinalStop, UNCHANGED flags PROVE OneRoundInv'
<1>1. CASE SendsNothing
  BY <1>1 DEF SendsNothing, OneRoundInv, ServiceSeesOneRound
<1>2. CASE startSent /\ ~stopSent /\ SendUp("last") /\ stopSent' = TRUE
  BY <1>2, SendsLast DEF flags
<1> QED  BY <1>1, <1>2 DEF FinalStop, SendsNothing, flags

LEMMA StepOneRound == OneRoundInv /\ [ProxyNext]_proxyVars => OneRoundInv'
<1> SUFFICES ASSUME OneRoundInv, [ProxyNext]_proxyVars PROVE OneRoundInv'
  OBVIOUS
<1>1. CASE SendsNothing
  BY <1>1 DEF SendsNothing, OneRoundInv, ServiceSeesOneRound
<1>2. CASE Start
  <2>1. CASE SendUp("start") /\ ~startSent /\ startSent' = TRUE /\ stopSent' = FALSE
    <3>1. sent = <<>> /\ \A i \in 1..Len(sent) : (sent[i] = "start" <=> i = 1) /\ sent[i] # "last"
      BY <2>1 DEF OneRoundInv
    <3>2. /\ sent' \in Seq(Frames) /\ sent' # <<>>
          /\ \A i \in 1..Len(sent') : (sent'[i] = "start" <=> i = 1) /\ sent'[i] # "last"
      BY <2>1, <3>1, AppendRound DEF SendUp, OneRoundInv, Frames
    <3> QED  BY <2>1, <3>2 DEF OneRoundInv, ServiceSeesOneRound
  <2> QED  BY <1>1, <1>2, <2>1 DEF Start, Ignored, SendsNothing
<1>3. CASE Audio
  <2>1. CASE SendUp("audio") /\ startSent /\ ~stopSent
    <3>1. sent # <<>> /\ \A i \in 1..Len(sent) : (sent[i] = "start" <=> i = 1) /\ sent[i] # "last"
      BY <2>1 DEF OneRoundInv, ServiceSeesOneRound
    <3>2. /\ sent' \in Seq(Frames) /\ sent' # <<>>
          /\ \A i \in 1..Len(sent') : (sent'[i] = "start" <=> i = 1) /\ sent'[i] # "last"
      BY <2>1, <3>1, AppendRound DEF SendUp, OneRoundInv, Frames
    <3>3. UNCHANGED <<startSent, stopSent>>
      BY <1>3 DEF Audio, flags
    <3> QED  BY <2>1, <3>2, <3>3 DEF OneRoundInv, ServiceSeesOneRound
  <2> QED  BY <1>1, <1>3, <2>1 DEF Audio, SendsNothing, flags
<1>4. CASE Stop
  <2>1. CASE SendUp("last") /\ startSent /\ ~stopSent /\ stopSent' = TRUE
    BY <1>4, <2>1, SendsLast DEF Stop, flags
  <2> QED  BY <1>1, <1>4, <2>1 DEF Stop, SendsNothing, flags
<1>5. CASE ClientFails \/ ClientCloses
  BY <1>5, FinalStopInv DEF ClientFails, ClientCloses
<1>6. CASE Cancel \/ GraceEnds \/ UpOpens \/ UpRefuses \/ BodyRead \/ UpCloses
  <2>1. SendsNothing
    BY <1>6 DEF Cancel, GraceEnds, UpOpens, UpRefuses, BodyRead, UpCloses, SendsNothing, flags
  <2> QED  BY <1>1, <2>1
<1>7. ASSUME NEW results \in Results, UpAnswers(results) PROVE OneRoundInv'
  <2>1. SendsNothing
    BY <1>7 DEF UpAnswers, SendsNothing, flags
  <2> QED  BY <1>1, <2>1
<1>8. CASE UNCHANGED proxyVars
  BY <1>1, <1>8 DEF proxyVars, SendsNothing
<1> QED  BY <1>2, <1>3, <1>4, <1>5, <1>6, <1>7, <1>8 DEF ProxyNext

\* However often the client starts, stops, fails or goes away: the service sees
\* a start, audio, and at most one last packet with nothing after it (startSent
\* and stopSent of the proxy).
THEOREM OneRoundOnly == ProxySpec => []ServiceSeesOneRound
<1>1. OneRoundInv => ServiceSeesOneRound
  BY DEF OneRoundInv
<1> QED  BY <1>1, InitOneRound, StepOneRound, PTL DEF ProxySpec

-----------------------------------------------------------------------------
(* The rounds of the web client.                                             *)

VoiceStates ==
  [gesture : {"idle", "pending", "dragging", "recording"}, held : BOOLEAN, hold : BOOLEAN,
   panel : BOOLEAN, recording : BOOLEAN, asked : BOOLEAN, mic : BOOLEAN, lost : BOOLEAN,
   round : 0 .. MaxRounds, active : 0 .. MaxRounds, session : 0 .. MaxRounds,
   timer : 0 .. MaxRounds,
   sock : [Rounds -> {"none", "opening", "open", "ended", "closing", "closed"}],
   draft : SUBSET Rounds, base : SUBSET Rounds]

Live == {"opening", "open", "ended"}
StartPcs == {"none", "cleanup", "mic", "opening", "resuming", "autostop", "failing", "done"}
StopCallers == {"auto", "release", "blur", "hidden", "record", "cancel"}

\* What the component's variables w must keep to while the starts are where st
\* says: the two invariants, and that the text in the box is what it was when
\* the newest round began or what that round added.
Sound(w, st) ==
  /\ w \in VoiceStates
  /\ w.active # 0 => w.active = w.round
  /\ \A r \in Rounds : w.sock[r] \in Live => r = w.active \/ st[r] = "opening"
  /\ w.draft \subseteq w.base \cup {w.round}

\* A part of a handler that starts no round brings w to x.
Leads(w, x, st) ==
  Sound(x, st) /\ x.round = w.round /\ (x.draft = w.draft \/ x.draft = {})

VoiceInv ==
  /\ Sound(v, start)
  /\ start \in [Rounds -> StartPcs]
  /\ \A r \in Rounds : start[r] # "none" => r <= v.round
  /\ stops \subseteq [by : StopCallers, round : 0 .. MaxRounds]

LEMMA SameLeads ==
  ASSUME NEW st, NEW w, Sound(w, st), NEW x \in VoiceStates, x.round = w.round,
         x.active = w.active, x.sock = w.sock, x.draft = w.draft, x.base = w.base
  PROVE  Leads(w, x, st)
BY DEF Leads, Sound

LEMMA LeadsOn ==
  ASSUME NEW w, NEW x, NEW y, NEW st, Leads(w, x, st), Leads(x, y, st)
  PROVE  Leads(w, y, st)
BY DEF Leads

(* Each part of a handler is sound. *)

LEMMA CloseSocketLeads ==
  ASSUME NEW st, NEW w, Sound(w, st), NEW r \in Rounds
  PROVE  /\ Leads(w, CloseSocket(w, r), st) /\ CloseSocket(w, r).active = w.active
         /\ CloseSocket(w, r).sock[r] \notin Live
BY DEF Sound, Leads, CloseSocket, VoiceStates, Live

LEMMA CloseActiveLeads ==
  ASSUME NEW st, NEW w, Sound(w, st)
  PROVE  Leads(w, CloseActive(w), st) /\ CloseActive(w).active = 0
<1>1. CASE w.active = 0
  BY <1>1 DEF Sound, Leads, CloseActive, VoiceStates, Live
<1>2. CASE w.active # 0
  <2> DEFINE x == [w EXCEPT !.timer = 0, !.active = 0]
             y == CloseSocket(x, w.active)
  <2>1. /\ w \in VoiceStates /\ w.active \in Rounds /\ 0 \in 0 .. MaxRounds
        /\ w.draft \subseteq w.base \cup {w.round}
        /\ \A r \in Rounds : w.sock[r] \in Live => r = w.active \/ st[r] = "opening"
    BY <1>2, RoundLimit DEF Sound, VoiceStates, Rounds
  <2>2. /\ x \in VoiceStates /\ x.active = 0 /\ x.round = w.round /\ x.sock = w.sock
        /\ x.draft = w.draft /\ x.base = w.base
    BY <2>1 DEF VoiceStates
  <2> HIDE DEF x
  <2>3. /\ y \in VoiceStates /\ y.active = 0 /\ y.round = w.round
        /\ y.draft = w.draft /\ y.base = w.base
        /\ \A r \in Rounds \ {w.active} : y.sock[r] = w.sock[r]
        /\ y.sock[w.active] \notin Live
    BY <2>1, <2>2 DEF VoiceStates, CloseSocket, Live
  <2> HIDE DEF y
  <2>4. Leads(w, y, st)
    BY <2>1, <2>3 DEF Leads, Sound
  <2> QED  BY <1>2, <2>3, <2>4 DEF CloseActive, y, x
<1> QED  BY <1>1, <1>2

LEMMA ResetLeads ==
  ASSUME NEW st, NEW w, Sound(w, st)
  PROVE  Leads(w, ResetRecording(w), st)
BY DEF Sound, Leads, ResetRecording, VoiceStates

LEMMA HidePanelLeads ==
  ASSUME NEW st, NEW w, Sound(w, st)
  PROVE  Leads(w, HidePanel(w), st)
BY DEF Sound, Leads, HidePanel, VoiceStates

LEMMA StopHeadLeads ==
  ASSUME NEW st, NEW w, Sound(w, st), NEW cancel \in BOOLEAN
  PROVE  Leads(w, StopHead(w, cancel), st)
<1> DEFINE x == ResetRecording(w)
<1>1. Leads(w, x, st)
  BY ResetLeads
<1> HIDE DEF x
<1>2. Leads(x, [x EXCEPT !.asked = @ \/ (~cancel /\ w.active = 0), !.session = 0], st)
  <2> DEFINE y == [x EXCEPT !.asked = @ \/ (~cancel /\ w.active = 0), !.session = 0]
  <2>1. x \in VoiceStates /\ Sound(x, st) /\ 0 \in 0 .. MaxRounds
    BY <1>1, RoundLimit DEF Leads, Sound
  <2>2. (x.asked \/ (~cancel /\ w.active = 0)) \in BOOLEAN
    OBVIOUS
  <2>3. y \in VoiceStates
    BY <2>1, <2>2 DEF VoiceStates
  <2>4. y.round = x.round /\ y.active = x.active /\ y.sock = x.sock /\ y.draft = x.draft /\ y.base = x.base
    BY <2>1 DEF VoiceStates
  <2> QED  BY <2>1, <2>3, <2>4, SameLeads
<1> QED  BY <1>1, <1>2, LeadsOn DEF StopHead, x

LEMMA StopTailLeads ==
  ASSUME NEW st, NEW w, Sound(w, st), NEW cancel \in BOOLEAN, NEW r \in 0 .. MaxRounds
  PROVE  Leads(w, StopTail(w, r, cancel), st)
<1> DEFINE x == [w EXCEPT !.asked = @ /\ ~cancel]
<1>1. CASE r = 0 \/ cancel
  <2>1. Leads(w, x, st)
    BY DEF Sound, Leads, VoiceStates
  <2>2. Leads(x, CloseActive(x), st)
    BY <2>1, CloseActiveLeads DEF Leads
  <2> QED  BY <1>1, <2>1, <2>2, LeadsOn DEF StopTail
<1>2. CASE ~(r = 0 \/ cancel)
  BY <1>2 DEF Sound, Leads, VoiceStates, StopTail
<1> QED  BY <1>1, <1>2

LEMMA AfterLeads ==
  ASSUME NEW st, NEW w, Sound(w, st), NEW by \in StopCallers
  PROVE  Leads(w, After(w, by), st)
<1>1. CASE by \in {"record", "cancel"}
  BY <1>1, HidePanelLeads DEF After
<1>2. CASE by \notin {"record", "cancel"}
  BY <1>2 DEF After, StopCallers, Sound, Leads, VoiceStates
<1> QED  BY <1>1, <1>2

LEMMA StopLeads ==
  ASSUME NEW w, Sound(w, start), NEW by \in StopCallers, StopRound(w, by),
         stops \subseteq [by : StopCallers, round : 0 .. MaxRounds]
  PROVE  Leads(w, v', start) /\ stops' \subseteq [by : StopCallers, round : 0 .. MaxRounds]
<1> DEFINE cancel == by = "cancel"
           x == StopHead(w, cancel)
           y == StopTail(x, w.active, cancel)
<1>1. w.active \in 0 .. MaxRounds /\ cancel \in BOOLEAN
  BY DEF Sound, VoiceStates
<1>2. Leads(w, x, start)
  BY <1>1, StopHeadLeads
<1> HIDE DEF x
<1>3. CASE w.session = 0
  <2>1. Leads(x, y, start)
    BY <1>1, <1>2, StopTailLeads DEF Leads
  <2> HIDE DEF y
  <2>2. Leads(y, After(y, by), start)
    BY <2>1, AfterLeads DEF Leads
  <2>3. v' = After(y, by) /\ stops' = stops
    BY <1>3 DEF StopRound, y, x
  <2> QED  BY <1>2, <2>1, <2>2, <2>3, LeadsOn
<1>4. CASE w.session # 0
  BY <1>1, <1>2, <1>4 DEF StopRound, x
<1> QED  BY <1>3, <1>4

(* Each step of the component is sound. *)

\* The steps that start no round keep the text or empty the box.
LEMMA PlainStep ==
  ASSUME VoiceInv, Leads(v, v', start), UNCHANGED start,
         stops' \subseteq [by : StopCallers, round : 0 .. MaxRounds]
  PROVE  VoiceInv' /\ (v.draft \subseteq v'.draft \/ v'.draft = {})
BY DEF VoiceInv, Leads, Sound

\* So do the steps in which the start of round r goes on, if it leaves no socket.
LEMMA StartStep ==
  ASSUME VoiceInv, NEW r \in Rounds, NEW pc \in StartPcs, start[r] # "none",
         start' = [start EXCEPT ![r] = pc], Leads(v, v', start'),
         stops' \subseteq [by : StopCallers, round : 0 .. MaxRounds]
  PROVE  VoiceInv' /\ (v.draft \subseteq v'.draft \/ v'.draft = {})
BY DEF VoiceInv, Leads, Sound

\* Where a start may go without a decision on its socket.
LEMMA StartMoves ==
  ASSUME VoiceInv, NEW w, NEW r \in Rounds, NEW pc, Leads(v, w, start),
         start[r] # "opening" \/ w.sock[r] \notin Live
  PROVE  Leads(v, w, [start EXCEPT ![r] = pc])
BY DEF VoiceInv, Leads, Sound

LEMMA AfterMicStep ==
  ASSUME VoiceInv, NEW w, NEW r \in Rounds, Leads(v, w, start), AfterMic(w, r),
         start[r] \in {"cleanup", "mic"}, UNCHANGED stops
  PROVE  VoiceInv' /\ (v.draft \subseteq v'.draft \/ v'.draft = {})
<1>1. CASE Aborted(w, r) \/ w.gesture # "recording"
  <2>1. v' = w /\ start' = [start EXCEPT ![r] = "done"]
    BY <1>1 DEF AfterMic
  <2>2. Leads(v, v', start')
    BY <2>1, StartMoves
  <2> QED  BY <2>1, <2>2, StartStep DEF StartPcs, VoiceInv
<1>2. CASE ~(Aborted(w, r) \/ w.gesture # "recording")
  <2>1. v' = [w EXCEPT !.sock[r] = "opening"] /\ start' = [start EXCEPT ![r] = "opening"]
    BY <1>2 DEF AfterMic
  <2>2. Leads(v, v', start')
    BY <2>1 DEF Leads, Sound, VoiceStates, VoiceInv, Live, StartPcs
  <2> QED  BY <2>1, <2>2, StartStep DEF StartPcs, VoiceInv
<1> QED  BY <1>1, <1>2

LEMMA HoldFiresStep ==
  ASSUME VoiceInv, HoldFires
  PROVE  VoiceInv' /\ (v.draft \subseteq v'.draft \/ v'.draft = {})
<1> DEFINE u == [v EXCEPT !.hold = FALSE]
           x == [u EXCEPT !.gesture = "recording", !.panel = TRUE, !.asked = FALSE,
                          !.base = u.draft, !.round = @ + 1, !.session = 0]
           w == CloseActive(x)
<1>1. CASE v.gesture # "pending"
  <2>1. Leads(v, u, start)
    BY <1>1 DEF Leads, Sound, VoiceStates, VoiceInv
  <2>2. v' = u /\ UNCHANGED <<start, stops>>
    BY <1>1 DEF HoldFires
  <2> QED  BY <2>1, <2>2, PlainStep DEF VoiceInv
<1>2. CASE v.gesture = "pending"
  <2> DEFINE r == v.round + 1
  <2>1. r \in Rounds /\ start[r] = "none" /\ v.round \in Nat
    BY <1>2, RoundLimit DEF HoldFires, VoiceInv, Sound, VoiceStates, Rounds
  <2>2. \A q \in Rounds : v.sock[q] \in Live => q = v.active \/ start[q] = "opening"
    BY DEF VoiceInv, Sound
  \* The new round's variables, once the last one's socket is closed.
  <2>3. /\ w \in VoiceStates /\ w.round = r /\ w.active = 0 /\ w.draft = v.draft /\ w.base = v.draft
        /\ \A q \in Rounds : w.sock[q] \in Live => start[q] = "opening"
    <3>1. u \in VoiceStates /\ u.draft = v.draft /\ u.round = v.round /\ u.active = v.active /\ u.sock = v.sock
      BY DEF VoiceInv, Sound, VoiceStates
    <3> HIDE DEF u
    <3>2. /\ x \in VoiceStates /\ x.draft = v.draft /\ x.round = r /\ x.active = v.active
          /\ x.sock = v.sock /\ x.base = v.draft
      <4>1. u.round + 1 = r /\ r \in 0 .. MaxRounds /\ 0 \in 0 .. MaxRounds
        BY <2>1, <3>1, RoundLimit DEF Rounds
      <4> HIDE DEF r
      <4>2. x \in VoiceStates
        BY <3>1, <4>1 DEF VoiceStates
      <4> QED  BY <3>1, <4>1 DEF VoiceStates
    <3> HIDE DEF x, r
    <3>3. CASE x.active = 0
      BY <2>2, <3>2, <3>3, RoundLimit DEF CloseActive, VoiceStates, Rounds
    <3>4. CASE x.active # 0
      <4> DEFINE y == [x EXCEPT !.timer = 0, !.active = 0]
      <4>1. /\ y \in VoiceStates /\ y.active = 0 /\ y.round = r /\ y.sock = v.sock
            /\ y.draft = v.draft /\ y.base = v.draft /\ x.active \in Rounds
        <5>1. x \in VoiceStates /\ 0 \in 0 .. MaxRounds
          BY <3>2, RoundLimit
        <5>2. y \in VoiceStates /\ y.active = 0
          BY <5>1 DEF VoiceStates
        <5>3. y.round = r /\ y.sock = v.sock /\ y.draft = v.draft /\ y.base = v.draft
          BY <3>2 DEF VoiceStates
        <5>4. x.active \in Rounds
          BY <3>2, <3>4, RoundLimit DEF VoiceStates, Rounds
        <5> QED  BY <5>2, <5>3, <5>4
      <4> HIDE DEF y
      <4>2. w = CloseSocket(y, x.active)
        BY <3>4 DEF CloseActive, y
      <4> QED  BY <2>2, <3>2, <4>1, <4>2 DEF CloseSocket, VoiceStates, Live
    <3> QED  BY <3>3, <3>4
  <2>4. UNCHANGED stops /\ (IF v.session = 0 THEN AfterCleanup(w, w.round)
                            ELSE v' = w /\ start' = [start EXCEPT ![w.round] = "cleanup"])
    BY <1>2 DEF HoldFires, NewRound
  <2> HIDE DEF w, r
  <2>5. \/ v' = w /\ \E pc \in {"cleanup", "mic", "done"} : start' = [start EXCEPT ![r] = pc]
        \/ v' = [w EXCEPT !.sock[r] = "opening"] /\ start' = [start EXCEPT ![r] = "opening"]
    BY <2>3, <2>4 DEF AfterCleanup, AfterMic
  <2>6. v'.draft = v.draft /\ v'.round = r
    BY <2>3, <2>5 DEF VoiceStates
  <2>7. start' \in [Rounds -> StartPcs] /\ \A q \in Rounds : start'[q] # "none" => q <= r
    BY <2>1, <2>5, RoundLimit DEF VoiceInv, StartPcs, Rounds, r
  <2>8. Sound(v', start')
    <3>1. CASE v' = w
      BY <2>1, <2>3, <2>5, <3>1 DEF Sound, VoiceInv, Live
    <3>2. CASE v' = [w EXCEPT !.sock[r] = "opening"] /\ start' = [start EXCEPT ![r] = "opening"]
      BY <2>1, <2>3, <3>2 DEF Sound, VoiceInv, VoiceStates, Live
    <3> QED  BY <2>5, <3>1, <3>2
  <2> QED  BY <2>4, <2>6, <2>7, <2>8 DEF VoiceInv
<1> QED  BY <1>1, <1>2

LEMMA VoiceStep ==
  ASSUME VoiceInv, [VoiceNext]_voiceVars
  PROVE  VoiceInv' /\ (v.draft \subseteq v'.draft \/ v'.draft = {})
<1> DEFINE Goal == VoiceInv' /\ (v.draft \subseteq v'.draft \/ v'.draft = {})
<1> USE DEF Goal
<1>s. /\ Sound(v, start) /\ v \in VoiceStates /\ Leads(v, v, start)
      /\ stops \subseteq [by : StopCallers, round : 0 .. MaxRounds]
  BY DEF VoiceInv, Sound, Leads
<1>1. CASE UNCHANGED voiceVars
  BY <1>1, <1>s, PlainStep DEF voiceVars
<1>2. CASE PointerDown \/ PointerMove
  <2>1. Leads(v, [v EXCEPT !.held = TRUE, !.gesture = "pending", !.hold = TRUE], start)
    BY <1>s DEF Leads, Sound, VoiceStates
  <2>2. Leads(v, [v EXCEPT !.hold = FALSE, !.gesture = "dragging"], start)
    BY <1>s DEF Leads, Sound, VoiceStates
  <2> QED  BY <1>2, <1>s, <2>1, <2>2, PlainStep DEF PointerDown, PointerMove
<1>3. CASE PointerUp
  <2> DEFINE w == [v EXCEPT !.hold = FALSE, !.held = FALSE]
  <2>1. Leads(v, w, start)
    BY <1>s DEF Leads, Sound, VoiceStates
  <2>2. Leads(w, [w EXCEPT !.gesture = "idle"], start)
    BY <2>1 DEF Leads, Sound, VoiceStates
  <2>3. CASE StopRound(w, "release")
    <3>1. Leads(w, v', start) /\ stops' \subseteq [by : StopCallers, round : 0 .. MaxRounds]
      BY <1>s, <2>1, <2>3, StopLeads DEF Leads, StopCallers
    <3> QED  BY <1>3, <2>1, <3>1, LeadsOn, PlainStep DEF PointerUp
  <2> HIDE DEF w
  <2>4. CASE UNCHANGED stops /\ (v' = v \/ v' = [w EXCEPT !.gesture = "idle"])
    BY <1>3, <1>s, <2>1, <2>2, <2>4, LeadsOn, PlainStep DEF PointerUp
  <2> QED  BY <1>3, <2>3, <2>4 DEF PointerUp, w
<1>4. ASSUME NEW by \in {"blur", "hidden"}, ForceEnd(by) PROVE Goal
  <2> DEFINE w == [v EXCEPT !.hold = FALSE]
  <2>1. Leads(v, w, start) /\ by \in StopCallers
    BY <1>s DEF Leads, Sound, VoiceStates, StopCallers
  <2> HIDE DEF w
  <2>2. StopRound(w, by) \/ (v' = After(w, by) /\ UNCHANGED stops)
    BY <1>4 DEF ForceEnd, w
  <2>3. Leads(w, v', start) /\ stops' \subseteq [by : StopCallers, round : 0 .. MaxRounds]
    <3>1. CASE StopRound(w, by)
      BY <1>s, <2>1, <3>1, StopLeads DEF Leads
    <3>2. CASE v' = After(w, by) /\ UNCHANGED stops
      BY <1>s, <2>1, <3>2, AfterLeads DEF Leads
    <3> QED  BY <2>2, <3>1, <3>2
  <2> QED  BY <1>4, <2>1, <2>3, LeadsOn, PlainStep DEF ForceEnd
<1>5. ASSUME NEW s \in stops, StopEnds(s) PROVE Goal
  <2> DEFINE x == StopTail(v, s.round, s.by = "cancel")
             y == After(x, s.by)
  <2>1. s.by \in StopCallers /\ s.round \in 0 .. MaxRounds
    BY <1>s
  <2>2. Leads(v, x, start)
    BY <1>s, <2>1, StopTailLeads
  <2> HIDE DEF x
  <2>3. Leads(x, y, start)
    BY <2>1, <2>2, AfterLeads DEF Leads
  <2> HIDE DEF y
  <2>4. Leads(y, [y EXCEPT !.held = v.held], start)
    BY <1>s, <2>3 DEF Leads, Sound, VoiceStates
  <2>5. v' = y \/ v' = [y EXCEPT !.held = v.held]
    BY <1>5 DEF StopEnds, x, y
  <2>6. Leads(v, v', start)
    BY <2>2, <2>3, <2>4, <2>5, LeadsOn
  <2> QED  BY <1>5, <1>s, <2>6, PlainStep DEF StopEnds
<1>6. CASE HoldFires
  BY <1>6, HoldFiresStep
<1>7. CASE CloseTimerFires
  <2> DEFINE w == [v EXCEPT !.timer = 0]
  <2>1. Leads(v, w, start)
    BY <1>s, RoundLimit DEF Leads, Sound, VoiceStates
  <2> HIDE DEF w
  <2>2. v.timer \in Rounds
    BY <1>7, <1>s, RoundLimit DEF CloseTimerFires, VoiceStates, Rounds
  <2>3. Leads(v, v', start)
    <3>1. v' = CloseSocket(w, v.timer)
      BY <1>7 DEF CloseTimerFires, w
    <3>2. Leads(w, v', start)
      BY <2>1, <2>2, <3>1, CloseSocketLeads DEF Leads
    <3> QED  BY <2>1, <3>2, LeadsOn
  <2> QED  BY <1>7, <1>s, <2>3, PlainStep DEF CloseTimerFires
<1>8. CASE Send
  BY <1>8, <1>s, HidePanelLeads, PlainStep DEF Send
<1>9. CASE Record
  BY <1>9, <1>s, HidePanelLeads, StopLeads, PlainStep DEF Record, StopCallers
<1>10. CASE CancelPanel
  BY <1>10, <1>s, StopLeads, PlainStep DEF CancelPanel, StopCallers
<1>11. CASE Unmount
  <2> DEFINE w == CloseActive(v)
  <2>1. Leads(v, w, start)
    BY <1>s, CloseActiveLeads
  <2> HIDE DEF w
  <2>2. v' = [w EXCEPT !.hold = FALSE, !.session = 0, !.mic = FALSE, !.held = FALSE, !.gesture = "idle"]
    BY <1>11 DEF Unmount, w
  <2>3. Leads(w, v', start)
    <3>1. w \in VoiceStates /\ Sound(w, start) /\ 0 \in 0 .. MaxRounds
      BY <2>1, RoundLimit DEF Leads, Sound
    <3>2. v' \in VoiceStates
      BY <2>2, <3>1 DEF VoiceStates
    <3>3. v'.round = w.round /\ v'.active = w.active /\ v'.sock = w.sock /\ v'.draft = w.draft /\ v'.base = w.base
      BY <2>2, <3>1 DEF VoiceStates
    <3> QED  BY <3>1, <3>2, <3>3, SameLeads
  <2> QED  BY <1>11, <1>s, <2>1, <2>3, LeadsOn, PlainStep DEF Unmount
<1>12. ASSUME NEW r \in Rounds,
              \/ CleanupEnds(r) \/ MicGranted(r) \/ SocketReady(r) \/ ContextResumes(r)
              \/ StartFails(r) \/ FailureEnds(r) \/ Result(r) \/ RoundEnd(r) \/ SocketCloses(r)
       PROVE  Goal
  <2>1. CASE CleanupEnds(r)
    <3>1. CASE AfterMic(v, r)
      BY <1>s, <2>1, <3>1, AfterMicStep DEF CleanupEnds
    <3>2. CASE v' = v /\ start' = [start EXCEPT ![r] = "mic"]
      BY <1>s, <2>1, <3>2, StartMoves, StartStep DEF CleanupEnds, StartPcs
    <3> QED  BY <2>1, <3>1, <3>2 DEF CleanupEnds, AfterCleanup
  <2>2. CASE MicGranted(r)
    <3> DEFINE w == [v EXCEPT !.mic = TRUE, !.lost = @ \/ v.mic]
    <3>1. Leads(v, w, start)
      BY <1>s DEF Leads, Sound, VoiceStates
    <3> HIDE DEF w
    <3>2. AfterMic(w, r)
      BY <2>2 DEF MicGranted, w
    <3> QED  BY <2>2, <3>1, <3>2, AfterMicStep DEF MicGranted
  <2>3. CASE SocketReady(r)
    <3>1. CASE Aborted(v, r)
      <4>1. v' = CloseSocket(v, r) /\ start' = [start EXCEPT ![r] = "done"]
        BY <2>3, <3>1 DEF SocketReady
      <4>2. Leads(v, v', start')
        BY <1>s, <4>1, CloseSocketLeads, StartMoves
      <4> QED  BY <1>s, <2>3, <4>1, <4>2, StartStep DEF SocketReady, StartPcs
    <3>2. CASE ~Aborted(v, r)
      <4>1. PICK pc \in {"resuming", "autostop"} : start' = [start EXCEPT ![r] = pc]
        BY <2>3, <3>2 DEF SocketReady
      <4>2. v' = [v EXCEPT !.sock[r] = "open", !.active = r] /\ r = v.round
        BY <2>3, <3>2 DEF SocketReady, Aborted
      <4>3. Leads(v, v', start')
        <5>1. /\ v' \in VoiceStates /\ v'.active = r /\ v'.round = v.round
              /\ v'.draft = v.draft /\ v'.base = v.base
              /\ \A q \in Rounds \ {r} : v'.sock[q] = v.sock[q]
          BY <1>s, <4>2, RoundLimit DEF VoiceStates, Rounds
        <5>2. \A q \in Rounds \ {r} : start'[q] = start[q]
          BY <4>1 DEF VoiceInv
        <5>3. \A q \in Rounds \ {r} : v.sock[q] \in Live => start[q] = "opening"
          BY <4>2, RoundLimit DEF VoiceInv, Sound, Rounds
        <5>4. \A q \in Rounds : v'.sock[q] \in Live => q = v'.active \/ start'[q] = "opening"
          BY <5>1, <5>2, <5>3
        <5> QED  BY <1>s, <4>2, <5>1, <5>4 DEF Leads, Sound
      <4> QED  BY <1>s, <2>3, <4>1, <4>3, StartStep DEF SocketReady, StartPcs
    <3> QED  BY <3>1, <3>2
  <2>4. CASE ContextResumes(r)
    <3> DEFINE w == [v EXCEPT !.session = r, !.recording = TRUE]
               x == [w EXCEPT !.asked = FALSE]
    <3>1. Leads(v, w, start)
      <4>1. r \in 0 .. MaxRounds
        BY RoundLimit DEF Rounds
      <4>2. w \in VoiceStates
        BY <1>s, <4>1 DEF VoiceStates
      <4>3. w.round = v.round /\ w.active = v.active /\ w.sock = v.sock /\ w.draft = v.draft /\ w.base = v.base
        BY <1>s DEF VoiceStates
      <4> QED  BY <1>s, <4>2, <4>3, SameLeads
    <3> HIDE DEF w
    <3>2. Leads(w, x, start)
      BY <3>1 DEF Leads, Sound, VoiceStates
    <3> HIDE DEF x
    <3>3. StopRound(x, "auto") \/ (v' = w /\ UNCHANGED stops)
      BY <2>4 DEF ContextResumes, w, x
    <3>5. Leads(v, v', start) /\ stops' \subseteq [by : StopCallers, round : 0 .. MaxRounds]
      <4>1. CASE StopRound(x, "auto")
        <5>1. Leads(x, v', start) /\ stops' \subseteq [by : StopCallers, round : 0 .. MaxRounds]
          BY <1>s, <3>2, <4>1, StopLeads DEF Leads, StopCallers
        <5> QED  BY <3>1, <3>2, <5>1, LeadsOn
      <4> QED  BY <1>s, <3>1, <3>3, <4>1
    <3>6. start' = [start EXCEPT ![r] = "done"] /\ start[r] \in {"resuming", "autostop"}
      BY <2>4 DEF ContextResumes
    <3>7. Leads(v, v', start')
      BY <3>5, <3>6, StartMoves
    <3> QED  BY <3>5, <3>6, <3>7, StartStep DEF StartPcs
  <2>5. CASE StartFails(r)
    <3> DEFINE u == [v EXCEPT !.sock[r] = IF start[r] = "opening" THEN "closed" ELSE @]
               x == ResetRecording(u)
               w == [x EXCEPT !.session = 0]
    <3>1. Leads(v, u, start) /\ (start[r] = "opening" => u.sock[r] \notin Live)
      BY <1>s DEF Leads, Sound, VoiceStates, Live
    <3> HIDE DEF u
    <3>2. Leads(u, x, start) /\ x.sock = u.sock
      <4>1. Sound(u, start) /\ u \in VoiceStates
        BY <3>1 DEF Leads, Sound
      <4> QED  BY <4>1, ResetLeads DEF ResetRecording, VoiceStates
    <3> HIDE DEF x
    <3>3. Leads(x, w, start) /\ w.sock = u.sock
      BY <3>2, RoundLimit DEF Leads, Sound, VoiceStates
    <3>4. \/ v' = CloseActive(w) /\ start' = [start EXCEPT ![r] = "done"]
          \/ v' = w /\ start' = [start EXCEPT ![r] = "failing"]
      BY <2>5 DEF StartFails, w, x, u
    <3>5. start[r] # "none" /\ UNCHANGED stops
      BY <2>5 DEF StartFails
    <3> HIDE DEF w
    <3>6. Leads(v, w, start)
      BY <3>1, <3>2, <3>3, LeadsOn
    <3>7. \A pc : Leads(v, w, [start EXCEPT ![r] = pc])
      BY <3>1, <3>3, <3>6, StartMoves
    <3>8. Leads(v, CloseActive(w), [start EXCEPT ![r] = "done"])
      <4>1. Sound(w, [start EXCEPT ![r] = "done"])
        BY <3>7 DEF Leads
      <4> QED  BY <3>7, <4>1, CloseActiveLeads, LeadsOn
    <3> QED  BY <1>s, <3>4, <3>5, <3>7, <3>8, StartStep DEF StartPcs
  <2>6. CASE FailureEnds(r)
    <3>1. Leads(v, CloseActive(v), start)
      BY <1>s, CloseActiveLeads
    <3>2. v' = CloseActive(v) /\ start' = [start EXCEPT ![r] = "done"] /\ start[r] = "failing"
          /\ UNCHANGED stops
      BY <2>6 DEF FailureEnds
    <3>3. Leads(v, v', start')
      BY <3>1, <3>2, StartMoves
    <3> QED  BY <1>s, <3>2, <3>3, StartStep DEF StartPcs
  <2>7. CASE Result(r)
    <3>1. v' = [v EXCEPT !.draft = v.base \cup {r}] /\ r = v.round /\ UNCHANGED <<start, stops>>
      BY <2>7 DEF Result
    <3>2. Sound(v', start) /\ v'.round = v.round /\ v.draft \subseteq v'.draft
      BY <1>s, <3>1 DEF Sound, VoiceStates
    <3> QED  BY <1>s, <3>1, <3>2 DEF VoiceInv
  <2>8. CASE RoundEnd(r) \/ SocketCloses(r)
    <3>1. Leads(v, v', start)
      <4>1. CASE RoundEnd(r)
        <5>1. /\ v' \in VoiceStates /\ v'.active = v.active /\ v'.round = v.round
              /\ v'.draft = v.draft /\ v'.base = v.base /\ v.sock[r] \in Live
              /\ \A q \in Rounds \ {r} : v'.sock[q] = v.sock[q]
          <6> DEFINE z == IF v.active = r THEN 0 ELSE v.timer
          <6>1. v' = [v EXCEPT !.sock[r] = "ended", !.timer = z] /\ v.sock[r] = "open"
            BY <1>s, <4>1 DEF RoundEnd, VoiceStates
          <6>2. z \in 0 .. MaxRounds
            BY <1>s, RoundLimit DEF VoiceStates
          <6> HIDE DEF z
          <6> QED  BY <1>s, <6>1, <6>2 DEF VoiceStates, Live
        <5> QED  BY <1>s, <5>1 DEF Leads, Sound
      <4>2. CASE SocketCloses(r)
        <5>1. /\ v' \in VoiceStates /\ v'.active = (IF v.active = r THEN 0 ELSE v.active)
              /\ v'.round = v.round /\ v'.draft = v.draft /\ v'.base = v.base
              /\ \A q \in Rounds \ {r} : v'.sock[q] = v.sock[q]
              /\ v'.sock[r] = "closed"
          <6> DEFINE a == IF v.active = r THEN 0 ELSE v.active
          <6>1. v' = [v EXCEPT !.sock[r] = "closed", !.active = a]
            BY <1>s, <4>2 DEF SocketCloses, VoiceStates
          <6>2. a \in 0 .. MaxRounds
            BY <1>s, RoundLimit DEF VoiceStates
          <6>3. /\ v' \in VoiceStates /\ v'.active = a
                /\ v'.round = v.round /\ v'.draft = v.draft /\ v'.base = v.base
                /\ \A q \in Rounds \ {r} : v'.sock[q] = v.sock[q]
                /\ v'.sock[r] = "closed"
            <7> HIDE DEF a
            <7> QED  BY <1>s, <6>1, <6>2 DEF VoiceStates
          <6> QED  BY <6>3
        <5> QED  BY <1>s, <5>1 DEF Leads, Sound, Live
      <4> QED  BY <2>8, <4>1, <4>2
    <3> QED  BY <1>s, <2>8, <3>1, PlainStep DEF RoundEnd, SocketCloses
  <2> QED  BY <1>12, <2>1, <2>2, <2>3, <2>4, <2>5, <2>6, <2>7, <2>8
<1> QED  BY <1>1, <1>2, <1>3, <1>4, <1>5, <1>6, <1>7, <1>8, <1>9, <1>10, <1>11, <1>12 DEF VoiceNext

LEMMA VoiceStarts == VoiceInit => VoiceInv
BY RoundLimit DEF VoiceInit, VoiceInv, Sound, VoiceStates, StartPcs, Rounds, Live

\* For any number of rounds: whatever is lifted, pressed, cancelled or fails
\* while a round waits for the microphone, its socket or its audio, the socket
\* in use is the newest round's, none that may open is out of reach, and no late
\* result takes text out of the box (startRecordingRound, stopRecordingRound).
THEOREM WebRoundsStayApart == VoiceSpec => RoundsStayApart
<1>1. VoiceInv => ActiveIsNewest /\ NoSocketForgotten
  BY DEF VoiceInv, Sound, ActiveIsNewest, NoSocketForgotten, Live
<1>2. VoiceInv /\ [VoiceNext]_voiceVars => VoiceInv'
  BY VoiceStep
<1>3. VoiceInv /\ [VoiceNext]_voiceVars => [v.draft \subseteq v'.draft \/ v'.draft = {}]_voiceVars
  BY VoiceStep
<1>4. VoiceSpec => []VoiceInv
  BY <1>2, VoiceStarts, PTL DEF VoiceSpec
<1>5. VoiceSpec => RoundsAddUp
  BY <1>3, <1>4, PTL DEF VoiceSpec, RoundsAddUp
<1> QED  BY <1>1, <1>4, <1>5, PTL DEF RoundsStayApart

-----------------------------------------------------------------------------
(* The synthesis service: its semaphore and the failures it remembers.       *)

Holds(q, k) == \E i \in 1..Len(q) : q[i] = k
Distinct(q) == \A i, j \in 1..Len(q) : q[i] = q[j] => i = j

Running == With("running")

\* The queue holds each waiting key once.
QueueInv ==
  /\ queue \in Seq(Keys) /\ Distinct(queue)
  /\ \A k \in Keys : job[k] = "waiting" <=> Holds(queue, k)

\* The counter counts the running jobs, and nobody waits beside a free slot.
SlotInv ==
  /\ IsFiniteSet(Running) /\ active = Cardinality(Running) /\ active \in 0..Slots
  /\ queue # <<>> => active = Slots

FailInv ==
  /\ failure \in [Keys -> BOOLEAN] /\ lastEnd \in [Keys -> {"none", "stored", "failed"}]
  /\ FailureIsOfLastJob

JobInv == job \in [Keys -> Jobs]

\* A request that is being handled is about a key.
Pcs == {"idle", "read", "stat", "touch", "drop", "missed", "wait"}
CallStates == [op : Ops \cup {"none", "again"}, key : Keys \cup {"none"}, pc : Pcs]
CallInv == call \in [Callers -> CallStates] /\ \A c \in Callers : At(c, "idle") \/ Key(c) \in Keys

IInv == JobInv /\ QueueInv /\ SlotInv /\ FailInv /\ CallInv
-----------------------------------------------------------------------------
(* Queues that hold each key once. *)

LEMMA AppendDistinct ==
  ASSUME NEW q \in Seq(Keys), NEW k \in Keys, Distinct(q), ~Holds(q, k)
  PROVE  /\ Append(q, k) \in Seq(Keys) /\ Distinct(Append(q, k)) /\ Append(q, k) # <<>>
         /\ \A x \in Keys : Holds(Append(q, k), x) <=> (Holds(q, x) \/ x = k)
<1> DEFINE a == Append(q, k)
<1>1. /\ a \in Seq(Keys) /\ Len(a) = Len(q) + 1 /\ Len(q) \in Nat /\ a[Len(q) + 1] = k
      /\ \A i \in 1..Len(q) : a[i] = q[i]
  OBVIOUS
<1>2. Distinct(a)
  BY <1>1 DEF Distinct, Holds
<1>3. \A x \in Keys : Holds(a, x) <=> (Holds(q, x) \/ x = k)
  BY <1>1 DEF Holds
<1> QED  BY <1>1, <1>2, <1>3

LEMMA TailDistinct ==
  ASSUME NEW q \in Seq(Keys), q # <<>>, Distinct(q)
  PROVE  /\ Tail(q) \in Seq(Keys) /\ Distinct(Tail(q)) /\ Tail(q) # q
         /\ Head(q) \in Keys /\ Holds(q, Head(q))
         /\ \A x \in Keys : Holds(Tail(q), x) <=> (Holds(q, x) /\ x # Head(q))
<1>1. /\ Tail(q) \in Seq(Keys) /\ Len(q) \in Nat \ {0} /\ Len(Tail(q)) = Len(q) - 1
      /\ Head(q) \in Keys /\ Head(q) = q[1]
      /\ \A i \in 1..(Len(q) - 1) : Tail(q)[i] = q[i + 1]
  BY HeadTailProperties, EmptySeq
<1>2. Distinct(Tail(q))
  BY <1>1 DEF Distinct
<1>3. ASSUME NEW x \in Keys PROVE Holds(Tail(q), x) <=> (Holds(q, x) /\ x # Head(q))
  <2>1. ASSUME Holds(Tail(q), x) PROVE Holds(q, x) /\ x # Head(q)
    <3>1. PICK i \in 1..(Len(q) - 1) : q[i + 1] = x
      BY <1>1, <2>1 DEF Holds
    <3> QED  BY <1>1, <3>1 DEF Holds, Distinct
  <2>2. ASSUME Holds(q, x), x # Head(q) PROVE Holds(Tail(q), x)
    <3>1. PICK i \in 1..Len(q) : q[i] = x
      BY <2>2 DEF Holds
    <3>2. i - 1 \in 1..Len(Tail(q)) /\ Tail(q)[i - 1] = x
      BY <1>1, <2>2, <3>1
    <3> QED  BY <3>2 DEF Holds
  <2> QED  BY <2>1, <2>2
<1>4. Holds(q, Head(q))
  BY <1>1 DEF Holds
<1>5. Tail(q) # q
  <2> SUFFICES ASSUME Tail(q) = q PROVE FALSE
    OBVIOUS
  <2>1. Len(q) = Len(q) - 1
    BY <1>1
  <2> QED  BY <1>1, <2>1
<1> QED  BY <1>1, <1>2, <1>3, <1>4, <1>5

LEMMA RemoveAtDistinct ==
  ASSUME NEW q \in Seq(Keys), NEW n \in 1..Len(q), Distinct(q)
  PROVE  /\ RemoveAt(q, n) \in Seq(Keys) /\ Distinct(RemoveAt(q, n))
         /\ \A x \in Keys : Holds(RemoveAt(q, n), x) <=> (Holds(q, x) /\ x # q[n])
<1> DEFINE r == RemoveAt(q, n)
<1> DEFINE a == SubSeq(q, 1, n - 1)
<1> DEFINE b == SubSeq(q, n + 1, Len(q))
<1>1. Len(q) \in Nat
  OBVIOUS
<1>2. a \in Seq(Keys) /\ Len(a) = n - 1 /\ \A i \in 1..(n - 1) : a[i] = q[i]
  BY <1>1, SubSeqProperties
<1>3. /\ b \in Seq(Keys) /\ Len(b) = Len(q) - n
      /\ \A i \in 1..(Len(q) - n) : b[i] = q[n + i]
  BY <1>1, SubSeqProperties
<1> HIDE DEF a, b
<1>4. r = a \o b
  BY DEF RemoveAt, a, b
<1> HIDE DEF r
<1>5. /\ r \in Seq(Keys) /\ Len(r) = Len(q) - 1
      /\ \A i \in 1..(Len(q) - 1) : r[i] = IF i <= n - 1 THEN a[i] ELSE b[i - (n - 1)]
  <2>1. /\ r \in Seq(Keys) /\ Len(r) = Len(a) + Len(b)
        /\ \A i \in 1..(Len(a) + Len(b)) : r[i] = IF i <= Len(a) THEN a[i] ELSE b[i - Len(a)]
    BY <1>2, <1>3, <1>4, ConcatProperties
  <2>2. Len(a) + Len(b) = Len(q) - 1 /\ Len(a) = n - 1
    BY <1>1, <1>2, <1>3
  <2> QED BY <2>1, <2>2
<1>6. \A i \in 1..(Len(q) - 1) : r[i] = q[IF i < n THEN i ELSE i + 1]
  <2> SUFFICES ASSUME NEW i \in 1..(Len(q) - 1) PROVE r[i] = q[IF i < n THEN i ELSE i + 1]
    OBVIOUS
  <2>1. CASE i < n
    BY <1>1, <1>2, <1>5, <2>1
  <2>2. CASE ~(i < n)
    <3>1. i - (n - 1) \in 1..(Len(q) - n) /\ n + (i - (n - 1)) = i + 1 /\ ~(i <= n - 1)
      BY <1>1, <2>2
    <3> QED  BY <1>3, <1>5, <3>1, <2>2
  <2> QED  BY <2>1, <2>2
<1>7. Distinct(r)
  <2> SUFFICES ASSUME NEW i \in 1..(Len(q) - 1), NEW j \in 1..(Len(q) - 1), r[i] = r[j]
               PROVE  i = j
    BY <1>5 DEF Distinct
  <2> DEFINE at(x) == IF x < n THEN x ELSE x + 1
  <2>1. at(i) \in 1..Len(q) /\ at(j) \in 1..Len(q) /\ (at(i) = at(j) => i = j)
    BY <1>1
  <2>2. q[at(i)] = q[at(j)]
    BY <1>6
  <2> HIDE DEF at
  <2> QED  BY <2>1, <2>2 DEF Distinct
<1>8. ASSUME NEW x \in Keys PROVE Holds(r, x) <=> (Holds(q, x) /\ x # q[n])
  <2>1. ASSUME Holds(r, x) PROVE Holds(q, x) /\ x # q[n]
    <3>1. PICK i \in 1..(Len(q) - 1) : r[i] = x
      BY <1>5, <2>1 DEF Holds
    <3>2. PICK j \in 1..Len(q) : j # n /\ q[j] = x
      BY <1>1, <1>6, <3>1
    <3> QED  BY <3>2 DEF Holds, Distinct
  <2>2. ASSUME Holds(q, x), x # q[n] PROVE Holds(r, x)
    <3>1. PICK j \in 1..Len(q) : q[j] = x
      BY <2>2 DEF Holds
    <3>2. j # n
      BY <2>2, <3>1
    <3>3. CASE j < n
      <4>1. j \in 1..Len(r) /\ r[j] = x
        BY <1>1, <1>5, <1>6, <3>1, <3>3
      <4> QED  BY <4>1 DEF Holds
    <3>4. CASE j > n
      <4>1. j - 1 \in 1..Len(r) /\ r[j - 1] = x
        BY <1>1, <1>5, <1>6, <3>1, <3>4
      <4> QED  BY <4>1 DEF Holds
    <3> QED  BY <1>1, <3>2, <3>3, <3>4
  <2> QED  BY <2>1, <2>2
<1> QED  BY <1>5, <1>7, <1>8 DEF r
-----------------------------------------------------------------------------
(* What the steps of a job do to the queue and to the counter. *)

\* A job that is not waiting and changes to another phase that is not waiting.
LEMMA OtherPhase ==
  ASSUME IInv, NEW k \in Keys, NEW p \in Jobs \ {"waiting", "running"},
         job[k] \notin {"waiting", "running"},
         job' = [job EXCEPT ![k] = p], UNCHANGED <<queue, active>>
  PROVE  JobInv' /\ QueueInv' /\ SlotInv'
<1>1. JobInv' /\ \A x \in Keys : job'[x] = IF x = k THEN p ELSE job[x]
  BY DEF IInv, JobInv
<1>2. With("running")' = With("running")
  BY <1>1 DEF With
<1>3. QueueInv'
  BY <1>1 DEF IInv, QueueInv, Distinct, Holds
<1> QED  BY <1>1, <1>2, <1>3 DEF IInv, SlotInv, Running

\* A running job that ends releases its slot, or hands it to the oldest waiter.
LEMMA HandsOver ==
  ASSUME IInv, NEW k \in Keys, NEW p \in Jobs \ {"waiting", "running"}, job[k] = "running",
         Release, job' = Resumed([job EXCEPT ![k] = p])
  PROVE  JobInv' /\ QueueInv' /\ SlotInv'
<1> DEFINE j == [job EXCEPT ![k] = p]
<1>1. j \in [Keys -> Jobs] /\ \A x \in Keys : j[x] = IF x = k THEN p ELSE job[x]
  BY DEF IInv, JobInv
<1>2. /\ IsFiniteSet(Running \ {k}) /\ Cardinality(Running \ {k}) = Cardinality(Running) - 1
      /\ k \in Running
  BY FS_RemoveElement DEF IInv, SlotInv, Running, With
<1>3. active \in 1..Slots /\ active = Cardinality(Running)
  <2>1. Cardinality(Running \ {k}) \in Nat
    BY <1>2, FS_CardinalityType
  <2> QED  BY <1>2, <2>1, Limits DEF IInv, SlotInv
<1> HIDE DEF j
<1>4. CASE queue = <<>>
  <2>1. active' = active - 1 /\ queue' = queue /\ job' = j
    BY <1>4 DEF Release, Resumed, j
  <2>2. With("running")' = Running \ {k}
    BY <1>1, <2>1 DEF With, Running
  <2>3. JobInv'
    BY <1>1, <2>1 DEF JobInv
  <2>4. QueueInv'
    BY <1>1, <2>1 DEF IInv, QueueInv, Distinct, Holds
  <2>5. active' \in 0..Slots
    BY <1>3, <2>1, Limits
  <2>6. IsFiniteSet(With("running")') /\ active' = Cardinality(With("running")')
    BY <1>2, <1>3, <2>1, <2>2
  <2>7. SlotInv'
    BY <1>4, <2>1, <2>5, <2>6 DEF SlotInv, Running
  <2> QED  BY <2>3, <2>7, <2>4
<1>5. CASE queue # <<>>
  <2> DEFINE h == Head(queue)
  <2>1. /\ queue' = Tail(queue) /\ active' = active /\ queue' # queue
        /\ queue' \in Seq(Keys) /\ Distinct(queue') /\ h \in Keys /\ Holds(queue, h)
        /\ \A x \in Keys : Holds(queue', x) <=> (Holds(queue, x) /\ x # h)
    <3>1. queue' = Tail(queue) /\ active' = active
      BY <1>5 DEF Release
    <3>2. queue \in Seq(Keys) /\ Distinct(queue)
      BY DEF IInv, QueueInv
    <3>3. /\ Tail(queue) \in Seq(Keys) /\ Distinct(Tail(queue)) /\ Tail(queue) # queue
          /\ h \in Keys /\ Holds(queue, h)
          /\ \A x \in Keys : Holds(Tail(queue), x) <=> (Holds(queue, x) /\ x # h)
      BY <1>5, <3>2, TailDistinct
    <3> QED  BY <3>1, <3>3
  <2>2. job[h] = "waiting" /\ h # k
    BY <2>1 DEF IInv, QueueInv
  <2>3. job' = [j EXCEPT ![h] = "running"]
    BY <2>1 DEF Resumed, j
  <2> HIDE DEF h
  <2>4. /\ job' \in [Keys -> Jobs]
        /\ \A x \in Keys : job'[x] = IF x = h THEN "running" ELSE IF x = k THEN p ELSE job[x]
    BY <1>1, <2>1, <2>3 DEF Jobs
  <2>5. With("running")' = (Running \ {k}) \cup {h}
    BY <2>1, <2>2, <2>4 DEF With, Running
  <2>6. h \notin Running \ {k}
    BY <2>2 DEF Running, With
  <2>7. IsFiniteSet(With("running")') /\ Cardinality(With("running")') = active
    BY <1>2, <1>3, <2>5, <2>6, FS_AddElement, Limits
  <2>8. QueueInv'
    BY <2>1, <2>2, <2>4 DEF IInv, QueueInv
  <2>9. SlotInv'
    BY <1>3, <1>5, <2>1, <2>7 DEF IInv, SlotInv, Running
  <2> QED  BY <2>4, <2>8, <2>9 DEF JobInv
<1> QED  BY <1>4, <1>5

\* A new job takes a free slot or a place in the queue.
LEMMA Acquires ==
  ASSUME IInv, NEW k \in Keys, job[k] = "none", Acquire(k)
  PROVE  JobInv' /\ QueueInv' /\ SlotInv'
<1>1. CASE active < Slots
  <2>1. active' = active + 1 /\ job' = [job EXCEPT ![k] = "running"] /\ queue' = queue
    BY <1>1 DEF Acquire
  <2>2. JobInv' /\ \A x \in Keys : job'[x] = IF x = k THEN "running" ELSE job[x]
    BY <2>1 DEF IInv, JobInv, Jobs
  <2>3. With("running")' = Running \cup {k} /\ k \notin Running
    BY <2>2 DEF With, Running
  <2>4. IsFiniteSet(With("running")') /\ Cardinality(With("running")') = active + 1
    BY <2>3, FS_AddElement DEF IInv, SlotInv
  <2>5. QueueInv'
    BY <2>1, <2>2 DEF IInv, QueueInv, Distinct, Holds
  <2>6. SlotInv'
    BY <1>1, <2>1, <2>4, Limits DEF IInv, SlotInv, Running
  <2> QED  BY <2>2, <2>5, <2>6
<1>2. CASE ~(active < Slots)
  <2>1. active' = active /\ job' = [job EXCEPT ![k] = "waiting"] /\ queue' = Append(queue, k)
    BY <1>2 DEF Acquire
  <2>2. JobInv' /\ \A x \in Keys : job'[x] = IF x = k THEN "waiting" ELSE job[x]
    BY <2>1 DEF IInv, JobInv, Jobs
  <2>3. With("running")' = Running
    BY <2>2 DEF With, Running
  <2>4. ~Holds(queue, k)
    BY DEF IInv, QueueInv
  <2>5. QueueInv'
    BY <2>1, <2>2, <2>4, AppendDistinct DEF IInv, QueueInv
  <2>6. SlotInv'
    BY <1>2, <2>1, <2>3, Limits DEF IInv, SlotInv, Running
  <2> QED  BY <2>2, <2>5, <2>6
<1> QED  BY <1>1, <1>2

\* A waiter that times out leaves the queue.
LEMMA LeavesQueue ==
  ASSUME IInv, NEW k \in Keys, QueueTimesOut(k)
  PROVE  JobInv' /\ QueueInv' /\ SlotInv'
<1>1. PICK n \in 1..Len(queue) : queue[n] = k /\ queue' = RemoveAt(queue, n)
  BY LenProperties DEF QueueTimesOut, IInv, QueueInv
<1>2. /\ queue' \in Seq(Keys) /\ Distinct(queue')
      /\ \A x \in Keys : Holds(queue', x) <=> (Holds(queue, x) /\ x # k)
  BY <1>1, RemoveAtDistinct DEF IInv, QueueInv
<1>3. JobInv' /\ \A x \in Keys : job'[x] = IF x = k THEN "none" ELSE job[x]
  BY DEF QueueTimesOut, IInv, JobInv, Jobs
<1>4. With("running")' = Running
  BY <1>3 DEF QueueTimesOut, With, Running
<1>5. queue # <<>>
  BY <1>1
<1>6. QueueInv'
  BY <1>2, <1>3 DEF IInv, QueueInv
<1>7. SlotInv'
  BY <1>4, <1>5 DEF QueueTimesOut, IInv, SlotInv, Running
<1> QED  BY <1>3, <1>6, <1>7
-----------------------------------------------------------------------------
(* The handlers of the requests. *)

LEMMA IdleCall == Idle \in CallStates /\ Idle.pc = "idle"
BY DEF Idle, CallStates, Pcs

LEMMA SetsCall ==
  ASSUME CallInv, NEW c \in Callers, NEW r \in CallStates, r.pc = "idle" \/ r.key \in Keys,
         call' = [call EXCEPT ![c] = r]
  PROVE  CallInv'
<1>1. call' \in [Callers -> CallStates] /\ \A x \in Callers : call'[x] = IF x = c THEN r ELSE call[x]
  BY DEF CallInv
<1> QED  BY <1>1 DEF CallInv, At, Key

LEMMA Goes ==
  ASSUME CallInv, NEW c \in Callers, NEW pc \in Pcs, ~At(c, "idle"), Goto(c, pc)
  PROVE  CallInv'
<1> DEFINE r == [call[c] EXCEPT !.pc = pc]
<1>1. call[c] \in CallStates /\ call[c].key \in Keys
  BY DEF CallInv, At, Key
<1>2. r \in CallStates /\ r.key \in Keys
  BY <1>1 DEF CallStates
<1>3. call' = [call EXCEPT ![c] = r]
  BY DEF Goto
<1> HIDE DEF r
<1> QED  BY <1>2, <1>3, SetsCall

LEMMA Answers ==
  ASSUME CallInv, NEW c \in Callers, Answer(c)
  PROVE  CallInv'
BY IdleCall, SetsCall DEF Answer

LEMMA StepCallInv == CallInv /\ [Next]_vars => CallInv'
<1> SUFFICES ASSUME CallInv, [Next]_vars PROVE CallInv'
  OBVIOUS
<1>1. ASSUME NEW c \in Callers, NEW op \in Ops, NEW k \in Keys, Request(c, op, k)
      PROVE  CallInv'
  <2> DEFINE r == [op |-> op, key |-> k, pc |-> "read"]
  <2>1. r \in CallStates /\ r.key \in Keys
    BY <1>1 DEF Ops, CallStates, Pcs
  <2>2. call' = [call EXCEPT ![c] = r]
    BY <1>1 DEF Request
  <2> HIDE DEF r
  <2> QED  BY <2>1, <2>2, SetsCall
<1>2. ASSUME NEW c \in Callers, ReadMeta(c) \/ StatAudio(c) \/ Drop(c) PROVE CallInv'
  <2>1. ~At(c, "idle")
    BY <1>2 DEF ReadMeta, StatAudio, Drop, At
  <2>2. \E pc \in {"stat", "drop", "touch", "missed"} : Goto(c, pc)
    BY <1>2 DEF ReadMeta, StatAudio, Drop
  <2> QED  BY <2>1, <2>2, Goes DEF Pcs
<1>3. ASSUME NEW c \in Callers, Touch(c) PROVE CallInv'
  BY <1>3, Answers DEF Touch
<1>4. ASSUME NEW c \in Callers, Missed(c) PROVE CallInv'
  <2>1. ~At(c, "idle")
    BY <1>4 DEF Missed, At
  <2>2. Goto(c, "wait") \/ Answer(c)
    BY <1>4 DEF Missed
  <2> QED  BY <2>1, <2>2, Goes, Answers DEF Pcs
<1>5. ASSUME NEW c \in Callers, InlineWaitEnds(c) PROVE CallInv'
  <2> DEFINE r == [call[c] EXCEPT !.op = "again", !.pc = "read"]
  <2>1. call[c] \in CallStates /\ call[c].key \in Keys
    BY <1>5 DEF InlineWaitEnds, CallInv, At, Key
  <2>2. r \in CallStates /\ r.key \in Keys
    BY <2>1 DEF CallStates, Pcs
  <2>3. call' = [call EXCEPT ![c] = r]
    BY <1>5 DEF InlineWaitEnds
  <2> HIDE DEF r
  <2> QED  BY <2>2, <2>3, SetsCall
<1>6. ASSUME NEW k \in Keys, JobStep(k) \/ QueueTimesOut(k) \/ FailureExpires(k)
      PROVE  UNCHANGED call
  BY <1>6 DEF JobStep, Synthesized, SynthesisFails, WriteAudio, WriteMeta, QueueTimesOut,
              FailureExpires
<1>7. CASE Restart
  BY <1>7, IdleCall DEF Restart, CallInv, At
<1>8. CASE UNCHANGED call
  BY <1>8 DEF CallInv, At, Key
<1> QED
  BY <1>1, <1>2, <1>3, <1>4, <1>5, <1>6, <1>7, <1>8 DEF Next, Get, vars
-----------------------------------------------------------------------------
LEMMA InitIInv == Init => IInv
<1> SUFFICES ASSUME Init PROVE IInv
  OBVIOUS
<1>1. JobInv /\ \A k \in Keys : job[k] = "none"
  BY DEF Init, JobInv, Jobs
<1>2. QueueInv
  BY <1>1, EmptySeq DEF Init, QueueInv, Distinct, Holds
<1>3. Running = {}
  BY <1>1 DEF Running, With
<1>4. SlotInv
  BY <1>3, FS_EmptySet, Limits DEF Init, SlotInv
<1>5. FailInv
  BY DEF Init, FailInv, FailureIsOfLastJob
<1>6. CallInv
  BY IdleCall DEF Init, CallInv, At
<1> QED  BY <1>1, <1>2, <1>4, <1>5, <1>6 DEF IInv

\* A job that ends in failure, and no other, is remembered as one.
LEMMA Fails ==
  ASSUME IInv, NEW k \in Keys, Fail(k), JobInv', \A x \in Keys \ {k} : job[x] = "none" => job'[x] = "none",
         job'[k] = "none"
  PROVE  FailInv'
BY DEF Fail, IInv, FailInv, FailureIsOfLastJob, JobInv

\* Steps that only take the jobs of keys without a failure further.
LEMMA KeepsFailures ==
  ASSUME IInv, UNCHANGED <<failure, lastEnd>>, \A x \in Keys : job[x] = "none" => job'[x] = "none"
  PROVE  FailInv'
BY DEF IInv, FailInv, FailureIsOfLastJob

LEMMA StepIInv == IInv /\ [Next]_vars => IInv'
<1> SUFFICES ASSUME IInv, [Next]_vars PROVE IInv'
  OBVIOUS
<1>0. CallInv'
  BY StepCallInv DEF IInv
<1>1. CASE UNCHANGED inProcess
  BY <1>0, <1>1 DEF inProcess, IInv, JobInv, QueueInv, SlotInv, FailInv, FailureIsOfLastJob,
              Running, With, Distinct, Holds
<1>2. ASSUME NEW c \in Callers, Missed(c), NEW k \in Keys, StartJob(k) PROVE IInv'
  <2>1. CASE job[k] = "none"
    <3>1. JobInv' /\ QueueInv' /\ SlotInv'
      BY <1>2, <2>1, Acquires DEF StartJob
    <3>2. failure' = [failure EXCEPT ![k] = FALSE] /\ lastEnd' = lastEnd
      BY <1>2, <2>1 DEF StartJob
    <3>3. \A x \in Keys \ {k} : job'[x] = job[x]
      BY <1>2, <2>1 DEF StartJob, Acquire, IInv, JobInv
    <3>4. FailInv'
      BY <3>2, <3>3 DEF IInv, FailInv, FailureIsOfLastJob
    <3> QED  BY <1>0, <3>1, <3>4 DEF IInv
  <2>2. CASE job[k] # "none"
    BY <1>1, <1>2, <2>2 DEF StartJob
  <2> QED  BY <2>1, <2>2
<1>3. ASSUME NEW k \in Keys, Synthesized(k) PROVE IInv'
  <2>1. JobInv' /\ QueueInv' /\ SlotInv'
    BY <1>3, HandsOver DEF Synthesized, Jobs
  <2>2. \A x \in Keys : job[x] = "none" => job'[x] = "none"
    <3>1. CASE queue = <<>>
      BY <1>3, <3>1 DEF Synthesized, Release, Resumed, IInv, JobInv
    <3>2. CASE queue # <<>>
      <4>1. job[Head(queue)] = "waiting" /\ Tail(queue) # queue
        BY <3>2, TailDistinct DEF IInv, QueueInv
      <4> QED  BY <1>3, <3>2, <4>1 DEF Synthesized, Release, Resumed, IInv, JobInv
    <3> QED  BY <3>1, <3>2
  <2>3. FailInv'
    BY <1>3, <2>2, KeepsFailures DEF Synthesized
  <2> QED  BY <1>0, <2>1, <2>3 DEF IInv
<1>4. ASSUME NEW k \in Keys, SynthesisFails(k) PROVE IInv'
  <2>1. JobInv' /\ QueueInv' /\ SlotInv'
    BY <1>4, HandsOver DEF SynthesisFails, Jobs
  <2>2. job'[k] = "none" /\ \A x \in Keys : job[x] = "none" => job'[x] = "none"
    <3>1. CASE queue = <<>>
      BY <1>4, <3>1 DEF SynthesisFails, Release, Resumed, IInv, JobInv
    <3>2. CASE queue # <<>>
      <4>1. job[Head(queue)] = "waiting" /\ Tail(queue) # queue
        BY <3>2, TailDistinct DEF IInv, QueueInv
      <4> QED  BY <1>4, <3>2, <4>1 DEF SynthesisFails, Release, Resumed, IInv, JobInv
    <3> QED  BY <3>1, <3>2
  <2>3. FailInv'
    BY <1>4, <2>1, <2>2, Fails DEF SynthesisFails
  <2> QED  BY <1>0, <2>1, <2>3 DEF IInv
<1>5. ASSUME NEW k \in Keys, QueueTimesOut(k) PROVE IInv'
  <2>1. JobInv' /\ QueueInv' /\ SlotInv'
    BY <1>5, LeavesQueue
  <2>2. job'[k] = "none" /\ \A x \in Keys : job[x] = "none" => job'[x] = "none"
    BY <1>5 DEF QueueTimesOut, IInv, JobInv
  <2>3. FailInv'
    BY <1>5, <2>1, <2>2, Fails DEF QueueTimesOut
  <2> QED  BY <1>0, <2>1, <2>3 DEF IInv
<1>6. ASSUME NEW k \in Keys, WriteAudio(k) PROVE IInv'
  <2>1. JobInv' /\ QueueInv' /\ SlotInv'
    BY <1>6, OtherPhase DEF WriteAudio, Jobs
  <2>2. \A x \in Keys : job[x] = "none" => job'[x] = "none"
    BY <1>6 DEF WriteAudio, IInv, JobInv
  <2>3. FailInv'
    BY <1>6, <2>2, KeepsFailures DEF WriteAudio
  <2> QED  BY <1>0, <2>1, <2>3 DEF IInv
<1>7. ASSUME NEW k \in Keys, WriteMeta(k) PROVE IInv'
  <2>1. JobInv' /\ QueueInv' /\ SlotInv'
    BY <1>7, OtherPhase DEF WriteMeta, Jobs
  <2>2. ~failure[k]
    BY <1>7 DEF WriteMeta, IInv, FailInv, FailureIsOfLastJob
  <2>3. FailInv'
    BY <1>7, <2>2 DEF WriteMeta, IInv, FailInv, FailureIsOfLastJob, JobInv
  <2> QED  BY <1>0, <2>1, <2>3 DEF IInv
<1>8. ASSUME NEW k \in Keys, FailureExpires(k) PROVE IInv'
  <2>1. JobInv' /\ QueueInv' /\ SlotInv'
    BY <1>8 DEF FailureExpires, IInv, JobInv, QueueInv, SlotInv, Running, With, Distinct, Holds
  <2>2. FailInv'
    BY <1>8 DEF FailureExpires, IInv, FailInv, FailureIsOfLastJob
  <2> QED  BY <1>0, <2>1, <2>2 DEF IInv
<1>9. CASE Restart
  <2>1. JobInv' /\ \A k \in Keys : job'[k] = "none"
    BY <1>9 DEF Restart, JobInv, Jobs
  <2>2. QueueInv'
    BY <1>9, <2>1, EmptySeq DEF Restart, QueueInv, Distinct, Holds
  <2>3. With("running")' = {}
    BY <2>1 DEF With
  <2>4. SlotInv'
    <3>1. active' = 0 /\ queue' = <<>> /\ 0 \in 0..Slots
      BY <1>9, Limits DEF Restart
    <3> QED  BY <2>3, <3>1, FS_EmptySet DEF SlotInv, Running
  <2>5. FailInv'
    BY <1>9 DEF Restart, FailInv, FailureIsOfLastJob
  <2> QED  BY <1>0, <2>1, <2>2, <2>4, <2>5 DEF IInv
<1>10. ASSUME NEW c \in Callers, Missed(c), UNCHANGED inProcess PROVE IInv'
  BY <1>1, <1>10
<1>11. ASSUME NEW c \in Callers, Get(c) \/ InlineWaitEnds(c) PROVE UNCHANGED inProcess
  BY <1>11 DEF Get, ReadMeta, StatAudio, Touch, Drop, InlineWaitEnds
<1>12. ASSUME NEW c \in Callers, NEW op \in Ops, NEW k \in Keys, Request(c, op, k)
       PROVE  UNCHANGED inProcess
  BY <1>12 DEF Request
<1>13. UNCHANGED vars => UNCHANGED inProcess
  BY DEF vars, inProcess
<1>14. ASSUME NEW c \in Callers, Missed(c) PROVE IInv'
  <2>1. Key(c) \in Keys
    BY <1>14 DEF Missed, At, IInv, CallInv
  <2> QED  BY <1>2, <1>10, <1>14, <2>1 DEF Missed
<1> QED
  BY <1>1, <1>2, <1>3, <1>4, <1>5, <1>6, <1>7, <1>8, <1>9, <1>10, <1>11, <1>12, <1>13, <1>14
     DEF Next, JobStep

LEMMA Invariance == Spec => []IInv
BY InitIInv, StepIInv, PTL DEF Spec
-----------------------------------------------------------------------------
\* Never more synthesis calls than slots, every slot taken has a job running,
\* and nobody waits beside a free slot: AsyncSemaphore, whatever times out.
THEOREM SlotsAreNeverLost == Spec => []SlotsAreUsed
<1>1. IInv => SlotsAreUsed
  BY Limits DEF IInv, SlotInv, SlotsAreUsed, Running
<1> QED  BY <1>1, Invariance, PTL

\* The queue holds the waiting jobs, each once: the shift of release and the
\* splice of a timeout never both serve the same waiter.
THEOREM WaitersAreQueued == Spec => []QueueIsWaiters
<1>1. ASSUME IInv PROVE QueueIsWaiters
  <2>1. queue \in Seq(Keys) /\ Len(queue) \in Nat /\ DOMAIN queue = 1..Len(queue)
    BY <1>1, LenProperties DEF IInv, QueueInv
  <2>2. ToSet(queue) = With("waiting")
    BY <1>1, <2>1, ElementOfSeq DEF IInv, QueueInv, Holds, ToSet, With
  <2>3. queue \in Bijection(1..Len(queue), With("waiting"))
    <3>1. queue \in [1..Len(queue) -> With("waiting")]
      BY <2>1, <2>2, LenProperties DEF ToSet
    <3>2. \A i, j \in 1..Len(queue) : queue[i] = queue[j] => i = j
      BY <1>1 DEF IInv, QueueInv, Distinct
    <3>3. \A k \in With("waiting") : \E i \in 1..Len(queue) : queue[i] = k
      BY <2>1, <2>2 DEF ToSet
    <3> QED  BY <3>1, <3>2, <3>3 DEF Bijection, Injection, Surjection, IsInjective
  <2>4. ExistsBijection(1..Len(queue), With("waiting"))
    BY <2>3 DEF ExistsBijection
  <2>5. IsFiniteSet(1..Len(queue)) /\ Cardinality(1..Len(queue)) = Len(queue)
    BY <2>1, FS_Interval
  <2>6. Len(queue) = Cardinality(With("waiting"))
    BY <2>4, <2>5, FS_Bijection
  <2> QED  BY <2>2, <2>6 DEF QueueIsWaiters
<1> QED  BY <1>1, Invariance, PTL

\* A remembered failure is that of the last job of its key: ensureBackground-
\* Synthesis forgets it before the job is in the inflight map.
THEOREM FailuresAreCurrent == Spec => []FailureIsOfLastJob
<1>1. IInv => FailureIsOfLastJob
  BY DEF IInv, FailInv
<1> QED  BY <1>1, Invariance, PTL

\* Slots, waiters and failures together: what the service counts is so, for any
\* number of keys, requests, slots and restarts.
THEOREM CountsAreKept == Spec => []SynthesisIsCounted
<1>1. SlotsAreUsed /\ QueueIsWaiters /\ FailureIsOfLastJob => SynthesisIsCounted
  BY DEF SynthesisIsCounted
<1> QED  BY <1>1, SlotsAreNeverLost, WaitersAreQueued, FailuresAreCurrent, PTL
-----------------------------------------------------------------------------
(* Dictation of the mini program (MiniSpeech).  A handler turns the page's      *)
(* record into the next through several helpers; for each helper a lemma says   *)
(* which parts of the record it leaves alone and what it makes of the others.   *)
(* The invariant has a part for the finger, one for the calls under way, one    *)
(* for the recorder and its flags, and one for the rounds that were given up.   *)

TalkStates ==
  [phase : {"idle", "connecting", "recording", "stopping"}, cur : Calls \cup {None},
   discard : BOOLEAN, stopReq : BOOLEAN, timer : BOOLEAN, isStarting : BOOLEAN, isRunning : BOOLEAN,
   stopAfter : BOOLEAN, hold : {"no", "armed", "shows", "started", "released"}, panel : BOOLEAN]
Pages == [v : TalkStates, call : [Calls -> {"free", "perm", "connect"}],
          sock : [Calls -> {"none", "opening", "ready", "ended", "closing"}],
          rec : {"off", "starting", "on", "stopping"}]

HasClient(n) == n.v.phase = "recording" => n.v.cur # None

\* A round that begins, or has begun, is held by the finger that started it; a
\* finger that waits for its round waits alone.
FingerSound(n, h) ==
  /\ n.v.phase = "recording" => h
  /\ n.v.phase = "connecting" /\ ~n.v.stopReq => h
  /\ h /\ n.v.phase \in {"connecting", "recording"} => n.v.hold = "started"
  /\ n.v.hold \in {"armed", "shows"} =>
       n.v.phase = "idle" /\ h /\ n.rec = "off" /\ \A c \in Calls : n.call[c] = "free"
  /\ n.v.hold # "released"
  /\ ~h => n.v.hold = "no"

\* One call is under way at a time, and none while the recorder is busy.
CallsSound(n) ==
  /\ \A c, d \in Calls : n.call[c] # "free" /\ n.call[d] # "free" => c = d
  /\ \A c \in Calls : n.call[c] # "free" =>
       n.rec = "off" /\ n.v.phase \in {"idle", "connecting"}
  /\ \A c \in Calls : n.call[c] = "perm" =>
       n.sock[c] = "none" /\ n.v.cur = None /\ n.v.phase = "connecting"
  /\ \A c \in Calls : n.call[c] = "connect" => n.sock[c] # "none"
  /\ n.v.phase = "idle" => n.v.cur = None

\* The flags say what the recorder does.
MicSound(n) ==
  /\ n.v.isStarting <=> n.rec = "starting"
  /\ n.v.isRunning <=> n.rec = "on"

\* A recorder that is not to run any more stops as soon as it has started.
MicEnds(n) == n.rec \in {"starting", "on"} => n.v.isStarting /\ n.v.stopAfter
MicFine(n) == n.v.phase = "recording" \/ MicEnds(n)

TimerSound(n) == n.v.timer => n.v.phase = "stopping"

\* A round that was given up has a socket to be closed, and if it is still the
\* page's, its results are discarded.
DropSound(n, d) == /\ \A c \in d : n.sock[c] # "none"
                   /\ n.v.cur \in d => n.v.discard

Patient(n, h, d) == /\ FingerSound(n, h) /\ CallsSound(n) /\ MicSound(n) /\ MicFine(n)
                    /\ TimerSound(n) /\ DropSound(n, d)

TalkInv == /\ VoiceNow \in Pages /\ HasClient(VoiceNow)
           /\ held \in BOOLEAN /\ dropped \subseteq Calls
           /\ habits = {} => Patient(VoiceNow, held, dropped) /\ ~late

\* Sockets may move on, but none appears or goes.
SameSockets(n, m) == \A c \in Calls : m.sock[c] = "none" <=> n.sock[c] = "none"

-----------------------------------------------------------------------------
(* The helpers of the page. *)

LEMMA PageFields ==
  ASSUME NEW n \in Pages
  PROVE  /\ n.v \in TalkStates /\ n.call \in [Calls -> {"free", "perm", "connect"}]
         /\ n.sock \in [Calls -> {"none", "opening", "ready", "ended", "closing"}]
         /\ n.rec \in {"off", "starting", "on", "stopping"}
         /\ n = [v |-> n.v, call |-> n.call, sock |-> n.sock, rec |-> n.rec]
BY DEF Pages

LEMMA Turns ==
  ASSUME NEW n \in Pages, NEW w \in TalkStates
  PROVE  LET m == [n EXCEPT !.v = w] IN
         m \in Pages /\ m.v = w /\ m.call = n.call /\ m.sock = n.sock /\ m.rec = n.rec
BY DEF Pages

LEMMA CloseDoes ==
  ASSUME NEW n \in Pages, NEW c \in Calls \cup {None}
  PROVE  LET m == Close(n, c) IN
         m \in Pages /\ m.v = n.v /\ m.call = n.call /\ m.rec = n.rec /\ SameSockets(n, m)
<1>1. CASE c # None /\ n.sock[c] \in {"opening", "ready", "ended"}
  <2>1. Close(n, c) = [n EXCEPT !.sock[c] = "closing"] /\ c \in Calls
    BY <1>1 DEF Close
  <2> QED BY <2>1, <1>1, PageFields DEF Pages, SameSockets
<1>2. CASE ~(c # None /\ n.sock[c] \in {"opening", "ready", "ended"})
  BY <1>2 DEF Close, SameSockets
<1> QED BY <1>1, <1>2

LEMMA TeardownDoes ==
  ASSUME NEW n \in Pages
  PROVE  LET m == Teardown(n) IN
         /\ m \in Pages /\ m.v = [n.v EXCEPT !.cur = None]
         /\ m.call = n.call /\ m.rec = n.rec /\ SameSockets(n, m)
<1> DEFINE k == Close(n, n.v.cur)
<1>1. n.v.cur \in Calls \cup {None}
  BY DEF Pages, TalkStates
<1>2. k \in Pages /\ k.v = n.v /\ k.call = n.call /\ k.rec = n.rec /\ SameSockets(n, k)
  BY <1>1, CloseDoes
<1> HIDE DEF k
<1>3. Teardown(n) = [k EXCEPT !.v.cur = None]
  BY DEF Teardown, k
<1>4. [n.v EXCEPT !.cur = None] \in TalkStates
  BY PageFields DEF TalkStates
<1> QED BY <1>2, <1>3, <1>4, PageFields DEF Pages, SameSockets

\* What the user sees of the page is not the recorder's business.
SameButFlags(n, m) ==
  /\ m.v.phase = n.v.phase /\ m.v.cur = n.v.cur /\ m.v.discard = n.v.discard
  /\ m.v.stopReq = n.v.stopReq /\ m.v.timer = n.v.timer /\ m.v.hold = n.v.hold
  /\ m.call = n.call /\ m.sock = n.sock

LEMMA StopRecorderDoes ==
  ASSUME NEW n \in Pages
  PROVE  LET m == StopRecorder(n) IN
         /\ m \in Pages /\ SameButFlags(n, m)
         /\ MicSound(n) => MicSound(m) /\ MicEnds(m) /\ (n.rec = "off" => m = n)
<1>1. CASE n.v.isStarting /\ ~n.v.isRunning
  <2>1. StopRecorder(n) = [n EXCEPT !.v.stopAfter = TRUE]
    BY <1>1 DEF StopRecorder
  <2> n.v \in TalkStates
    BY PageFields
  <2>2. [n.v EXCEPT !.stopAfter = TRUE] \in TalkStates
    BY DEF TalkStates
  <2>3. StopRecorder(n) \in Pages /\ StopRecorder(n).v = [n.v EXCEPT !.stopAfter = TRUE]
        /\ StopRecorder(n).rec = n.rec /\ StopRecorder(n).call = n.call
        /\ StopRecorder(n).sock = n.sock
    BY <2>1, <2>2, PageFields DEF Pages
  <2>4. SameButFlags(n, StopRecorder(n))
    BY <2>3, PageFields DEF SameButFlags, TalkStates
  <2>5. MicSound(n) => MicSound(StopRecorder(n)) /\ MicEnds(StopRecorder(n)) /\ n.rec # "off"
    BY <1>1, <2>3, PageFields DEF MicSound, MicEnds, TalkStates
  <2> QED BY <2>3, <2>4, <2>5
<1>2. CASE n.v.isRunning
  <2> DEFINE k == StopCall(n)
  <2>1. k \in Pages /\ k.v = n.v /\ k.call = n.call /\ k.sock = n.sock
        /\ (n.rec = "on" => k.rec = "stopping")
    BY PageFields DEF StopCall, Pages
  <2>2. StopRecorder(n) = [k EXCEPT !.v.isRunning = FALSE, !.v.isStarting = FALSE]
    BY <1>2 DEF StopRecorder
  <2> HIDE DEF k
  <2> n.v \in TalkStates
    BY PageFields
  <2>3. [n.v EXCEPT !.isRunning = FALSE, !.isStarting = FALSE] \in TalkStates
    BY DEF TalkStates
  <2> DEFINE w == [n.v EXCEPT !.isRunning = FALSE, !.isStarting = FALSE]
             m == [k EXCEPT !.v = w]
  <2>a. m \in Pages /\ m.v = w /\ m.rec = k.rec /\ m.call = n.call /\ m.sock = n.sock
    <3> HIDE DEF w
    <3> QED BY <2>1, <2>3, Turns DEF w
  <2>b. StopRecorder(n) = m
    BY <2>1, <2>2
  <2>4. StopRecorder(n) \in Pages
        /\ StopRecorder(n).v = [n.v EXCEPT !.isRunning = FALSE, !.isStarting = FALSE]
        /\ StopRecorder(n).rec = k.rec /\ StopRecorder(n).call = n.call
        /\ StopRecorder(n).sock = n.sock
    BY <2>a, <2>b
  <2>5. SameButFlags(n, StopRecorder(n))
    BY <2>4, PageFields DEF SameButFlags, TalkStates
  <2>6. MicSound(n) => MicSound(StopRecorder(n)) /\ MicEnds(StopRecorder(n)) /\ n.rec # "off"
    BY <1>2, <2>1, <2>4, PageFields DEF MicSound, MicEnds, TalkStates
  <2> QED BY <2>4, <2>5, <2>6
<1>3. CASE ~n.v.isRunning /\ ~n.v.isStarting
  <2>1. StopRecorder(n) = n
    BY <1>3 DEF StopRecorder
  <2>2. MicSound(n) => MicEnds(n)
    BY <1>3 DEF MicSound, MicEnds
  <2> QED BY <2>1, <2>2 DEF SameButFlags
<1>4. n.v.isRunning \in BOOLEAN /\ n.v.isStarting \in BOOLEAN
  BY PageFields DEF TalkStates
<1> QED BY <1>1, <1>2, <1>3, <1>4

LEMMA EndClientDoes ==
  ASSUME NEW n \in Pages, NEW cancel \in BOOLEAN
  PROVE  LET m == EndClient(n, cancel) IN
         m \in Pages /\ m.v = n.v /\ m.call = n.call /\ m.rec = n.rec /\ SameSockets(n, m)
<1>1. n.v.cur \in Calls \cup {None}
  BY DEF Pages, TalkStates
<1>2. CASE n.v.cur = None
  BY <1>2 DEF EndClient, SameSockets
<1>3. CASE n.v.cur # None /\ cancel
  BY <1>1, <1>3, CloseDoes DEF EndClient
<1>4. CASE n.v.cur # None /\ ~cancel
  <2> DEFINE c == n.v.cur
             s == IF n.sock[c] = "ready" THEN "ended" ELSE n.sock[c]
  <2>1. EndClient(n, cancel) = [n EXCEPT !.sock[c] = s]
    BY <1>4 DEF EndClient
  <2>2. s \in {"none", "opening", "ready", "ended", "closing"} /\ (s = "none" <=> n.sock[c] = "none")
    BY <1>1, <1>4, PageFields
  <2>3. c \in Calls
    BY <1>1, <1>4
  <2> HIDE DEF c, s
  <2> QED BY <2>1, <2>2, <2>3, PageFields DEF Pages, SameSockets
<1> QED BY <1>2, <1>3, <1>4


LEMMA ToIdleDoes ==
  ASSUME NEW n \in Pages
  PROVE  LET m == ToIdle(n) IN
         /\ m \in Pages /\ m.v = [n.v EXCEPT !.phase = "idle"]
         /\ m.call = n.call /\ m.sock = n.sock /\ m.rec = n.rec
<1> DEFINE w == [n.v EXCEPT !.phase = "idle"]
<1> n.v \in TalkStates
  BY PageFields
<1>1. w \in TalkStates
  BY DEF TalkStates
<1>2. ToIdle(n) = [n EXCEPT !.v = w]
  BY DEF ToIdle
<1> HIDE DEF w
<1>3. LET m == [n EXCEPT !.v = w] IN
      m \in Pages /\ m.v = w /\ m.call = n.call /\ m.sock = n.sock /\ m.rec = n.rec
  BY <1>1, Turns
<1> QED BY <1>2, <1>3 DEF w

LEMMA FlagsDoes ==
  ASSUME NEW n \in Pages
  PROVE  LET m == Flags(n) IN
         /\ m \in Pages /\ SameButFlags(n, m) /\ m.rec = n.rec
         /\ ~m.v.isStarting /\ ~m.v.isRunning /\ ~m.v.stopAfter
<1> DEFINE w == [n.v EXCEPT !.isRunning = FALSE, !.isStarting = FALSE, !.stopAfter = FALSE]
<1> n.v \in TalkStates
  BY PageFields
<1>1. w \in TalkStates
  BY DEF TalkStates
<1>2. Flags(n) = [n EXCEPT !.v = w]
  BY DEF Flags
<1>3. /\ w.phase = n.v.phase /\ w.cur = n.v.cur /\ w.discard = n.v.discard
      /\ w.stopReq = n.v.stopReq /\ w.timer = n.v.timer /\ w.hold = n.v.hold
      /\ ~w.isStarting /\ ~w.isRunning /\ ~w.stopAfter
  BY DEF TalkStates
<1> HIDE DEF w
<1>4. LET m == [n EXCEPT !.v = w] IN
      m \in Pages /\ m.v = w /\ m.call = n.call /\ m.sock = n.sock /\ m.rec = n.rec
  BY <1>1, Turns
<1> QED BY <1>2, <1>3, <1>4 DEF SameButFlags

\* A timer that is cleared is the only change of a page.
LEMMA UntimedDoes ==
  ASSUME NEW n \in Pages
  PROVE  LET m == [n EXCEPT !.v.timer = FALSE] IN
         /\ m \in Pages /\ m.v = [n.v EXCEPT !.timer = FALSE]
         /\ m.call = n.call /\ m.sock = n.sock /\ m.rec = n.rec
<1> DEFINE w == [n.v EXCEPT !.timer = FALSE]
<1> n.v \in TalkStates
  BY PageFields
<1>1. w \in TalkStates
  BY DEF TalkStates
<1> HIDE DEF w
<1>2. LET m == [n EXCEPT !.v = w] IN
      m \in Pages /\ m.v = w /\ m.call = n.call /\ m.sock = n.sock /\ m.rec = n.rec
  BY <1>1, Turns
<1> QED BY <1>2 DEF w

\* What a round that is stopped looks like, by the phase it was in.
RoundIsStopped(n, cancel, m) ==
  /\ n.v.phase = "idle" =>
       m.v.phase = "idle" /\ m.v.cur = n.v.cur /\ m.v.timer = n.v.timer /\ MicEnds(m)
  /\ n.v.phase = "connecting" /\ cancel =>
       m.v.phase = "idle" /\ m.v.cur = None /\ m.v.timer = n.v.timer /\ (MicEnds(n) => MicEnds(m))
  /\ n.v.phase = "connecting" /\ ~cancel =>
       m.v.phase = "connecting" /\ m.v.cur = n.v.cur /\ m.v.timer = n.v.timer /\ m.v.stopReq
       /\ (MicEnds(n) => MicEnds(m))
  /\ n.v.phase \in {"recording", "stopping"} =>
       m.v.phase = "stopping" /\ m.v.cur = n.v.cur /\ MicEnds(m)

LEMMA StopVoiceRoundDoes ==
  ASSUME NEW n \in Pages, NEW cancel \in BOOLEAN
  PROVE  LET m == StopVoiceRound(n, cancel) IN
         /\ m \in Pages /\ m.call = n.call /\ SameSockets(n, m)
         /\ m.v.hold = n.v.hold /\ m.v.discard = n.v.discard
         /\ m.v.phase # "recording"
         /\ MicSound(n) => MicSound(m) /\ (n.rec = "off" => m.rec = "off")
                           /\ RoundIsStopped(n, cancel, m)
<1> DEFINE m == StopVoiceRound(n, cancel)
<1>p. n.v \in TalkStates /\ n.v.phase \in {"idle", "connecting", "recording", "stopping"}
  BY PageFields DEF TalkStates
<1>1. CASE n.v.phase = "idle"
  <2>1. m = StopRecorder(n)
    BY <1>1 DEF StopVoiceRound
  <2>2. m \in Pages /\ SameButFlags(n, m)
        /\ (MicSound(n) => MicSound(m) /\ MicEnds(m) /\ (n.rec = "off" => m = n))
    BY <2>1, StopRecorderDoes
  <2> HIDE DEF m
  <2> QED BY <1>1, <2>2 DEF SameButFlags, SameSockets, RoundIsStopped, m
<1>2. CASE n.v.phase = "connecting" /\ cancel
  <2> DEFINE w == [n.v EXCEPT !.stopReq = FALSE]
  <2>1. w \in TalkStates
    BY <1>p DEF TalkStates
  <2> DEFINE a == [n EXCEPT !.v = w]
             b == ToIdle(a)
  <2>2. m = Teardown(b)
    BY <1>2 DEF StopVoiceRound
  <2>3. a \in Pages /\ a.v = w /\ a.call = n.call /\ a.sock = n.sock /\ a.rec = n.rec
    <3> HIDE DEF w
    <3> QED BY <2>1, Turns
  <2> HIDE DEF a
  <2>4. b \in Pages /\ b.v = [a.v EXCEPT !.phase = "idle"] /\ b.call = a.call /\ b.sock = a.sock
        /\ b.rec = a.rec
    BY <2>3, ToIdleDoes
  <2> HIDE DEF b
  <2>5. m \in Pages /\ m.v = [b.v EXCEPT !.cur = None]
        /\ m.call = b.call /\ m.rec = b.rec /\ SameSockets(b, m)
    BY <2>2, <2>4, TeardownDoes
  <2> HIDE DEF m
  <2>6. /\ m.v.phase = "idle" /\ m.v.cur = None /\ m.v.timer = n.v.timer /\ m.v.hold = n.v.hold
        /\ m.v.discard = n.v.discard /\ m.v.isStarting = n.v.isStarting
        /\ m.v.isRunning = n.v.isRunning /\ m.v.stopAfter = n.v.stopAfter
    BY <2>3, <2>4, <2>5, <1>p DEF TalkStates
  <2>7. MicSound(n) => MicSound(m)
    BY <2>3, <2>4, <2>5, <2>6 DEF MicSound
  <2>8. MicEnds(n) => MicEnds(m)
    BY <2>3, <2>4, <2>5, <2>6 DEF MicEnds
  <2>9. m.call = n.call /\ m.rec = n.rec /\ SameSockets(n, m)
    BY <2>3, <2>4, <2>5 DEF SameSockets
  <2>10. RoundIsStopped(n, cancel, m)
    BY <1>2, <2>6, <2>8 DEF RoundIsStopped
  <2> QED BY <2>5, <2>6, <2>7, <2>9, <2>10 DEF m
<1>3. CASE n.v.phase = "connecting" /\ ~cancel
  <2> DEFINE w == [n.v EXCEPT !.stopReq = TRUE]
  <2>1. w \in TalkStates
    BY <1>p DEF TalkStates
  <2>2. m = [n EXCEPT !.v = w]
    BY <1>3 DEF StopVoiceRound
  <2>3. m \in Pages /\ m.v = w /\ m.call = n.call /\ m.sock = n.sock /\ m.rec = n.rec
    <3> HIDE DEF w
    <3> QED BY <2>1, <2>2, Turns
  <2> HIDE DEF m
  <2>4. /\ m.v.phase = "connecting" /\ m.v.cur = n.v.cur /\ m.v.timer = n.v.timer
        /\ m.v.hold = n.v.hold /\ m.v.stopReq
        /\ m.v.discard = n.v.discard /\ m.v.isStarting = n.v.isStarting
        /\ m.v.isRunning = n.v.isRunning /\ m.v.stopAfter = n.v.stopAfter
    BY <1>3, <2>3, <1>p DEF TalkStates
  <2>5. MicSound(n) => MicSound(m)
    BY <2>3, <2>4 DEF MicSound
  <2>6. MicEnds(n) => MicEnds(m)
    BY <2>3, <2>4 DEF MicEnds
  <2> QED BY <1>3, <2>3, <2>4, <2>5, <2>6 DEF SameSockets, RoundIsStopped, m
<1>4. CASE n.v.phase \in {"recording", "stopping"}
  <2> DEFINE a == StopRecorder(n)
             b == EndClient(a, cancel)
             w == [b.v EXCEPT !.phase = "stopping", !.timer = TRUE]
  <2>1. a \in Pages /\ SameButFlags(n, a)
        /\ (MicSound(n) => MicSound(a) /\ MicEnds(a) /\ (n.rec = "off" => a = n))
    BY StopRecorderDoes
  <2>2. m = [b EXCEPT !.v = w]
    BY <1>4 DEF StopVoiceRound
  <2> HIDE DEF a
  <2>3. b \in Pages /\ b.v = a.v /\ b.call = a.call /\ b.rec = a.rec /\ SameSockets(a, b)
    BY <2>1, EndClientDoes
  <2> HIDE DEF b
  <2>4. b.v \in TalkStates
    BY <2>3, PageFields
  <2>5. w \in TalkStates
    BY <2>4 DEF TalkStates
  <2>6. m \in Pages /\ m.v = w /\ m.call = b.call /\ m.sock = b.sock /\ m.rec = b.rec
    <3> HIDE DEF w
    <3> QED BY <2>2, <2>3, <2>5, Turns
  <2> HIDE DEF m
  <2>7. /\ m.v.phase = "stopping" /\ m.v.cur = a.v.cur /\ m.v.hold = a.v.hold
        /\ m.v.discard = a.v.discard /\ m.v.isStarting = a.v.isStarting
        /\ m.v.isRunning = a.v.isRunning /\ m.v.stopAfter = a.v.stopAfter
    BY <2>3, <2>4, <2>6 DEF TalkStates
  <2>8. MicSound(a) => MicSound(m)
    BY <2>3, <2>6, <2>7 DEF MicSound
  <2>9. MicEnds(a) => MicEnds(m)
    BY <2>3, <2>6, <2>7 DEF MicEnds
  <2> QED BY <1>4, <2>1, <2>3, <2>6, <2>7, <2>8, <2>9 DEF SameButFlags, SameSockets, RoundIsStopped, m
<1> QED BY <1>p, <1>1, <1>2, <1>3, <1>4

LEMMA ForceResetDoes ==
  ASSUME NEW n \in Pages
  PROVE  ForceReset(n) \in Pages /\ ForceReset(n).v.phase = "idle"
<1> DEFINE w == [n.v EXCEPT !.timer = FALSE, !.stopReq = FALSE, !.discard = TRUE]
           a == [n EXCEPT !.v = w]
           b == ToIdle(a)
           d == Teardown(b)
           e == StopRecorder(d)
<1> n.v \in TalkStates
  BY PageFields
<1>1. w \in TalkStates
  BY DEF TalkStates
<1>2. ForceReset(n) = Flags(e)
  BY DEF ForceReset
<1>3. a \in Pages /\ a.v = w
  <2> HIDE DEF w
  <2> QED BY <1>1, Turns
<1> HIDE DEF a
<1>4. b \in Pages /\ b.v = [a.v EXCEPT !.phase = "idle"]
  BY <1>3, ToIdleDoes
<1>5. b.v.phase = "idle" /\ b.v \in TalkStates
  BY <1>1, <1>3, <1>4, PageFields DEF TalkStates
<1> HIDE DEF b
<1>6. d \in Pages /\ d.v = [b.v EXCEPT !.cur = None]
  BY <1>4, TeardownDoes
<1>7. d.v.phase = "idle"
  BY <1>5, <1>6 DEF TalkStates
<1> HIDE DEF d
<1>8. e \in Pages /\ e.v.phase = "idle"
  BY <1>6, <1>7, StopRecorderDoes DEF SameButFlags
<1> HIDE DEF e
<1> QED BY <1>2, <1>8, FlagsDoes DEF SameButFlags

LEMMA CatchDoes ==
  ASSUME NEW n \in Pages, NEW c \in Calls
  PROVE  LET m == Catch(n, c) IN
         /\ m \in Pages /\ m.v.phase = "idle" /\ m.v.cur = None
         /\ m.v.hold = n.v.hold /\ m.v.timer = n.v.timer /\ m.v.discard = n.v.discard
         /\ m.call = [n.call EXCEPT ![c] = "free"] /\ SameSockets(n, m)
         /\ MicSound(n) /\ n.rec = "off" => MicSound(m) /\ m.rec = "off"
<1> DEFINE m == Catch(n, c)
           a == [n EXCEPT !.call[c] = "free"]
           b == Teardown(a)
           d == ToIdle(b)
           e == StopRecorder(d)
           w == [e.v EXCEPT !.isStarting = FALSE, !.stopAfter = FALSE]
<1>1. a \in Pages /\ a.v = n.v /\ a.sock = n.sock /\ a.rec = n.rec
      /\ a.call = [n.call EXCEPT ![c] = "free"]
  BY PageFields DEF Pages
<1>2. m = [e EXCEPT !.v = w]
  BY DEF Catch
<1> HIDE DEF a
<1>3. /\ b \in Pages /\ b.v = [a.v EXCEPT !.cur = None]
      /\ b.call = a.call /\ b.rec = a.rec /\ SameSockets(a, b)
  BY <1>1, TeardownDoes
<1> HIDE DEF b
<1>4. /\ d \in Pages /\ d.v = [b.v EXCEPT !.phase = "idle"]
      /\ d.call = b.call /\ d.sock = b.sock /\ d.rec = b.rec
  BY <1>3, ToIdleDoes
<1>5. n.v \in TalkStates
  BY PageFields
<1>6. /\ d.v.phase = "idle" /\ d.v.cur = None /\ d.v.hold = n.v.hold /\ d.v.timer = n.v.timer
      /\ d.v.discard = n.v.discard /\ d.v.isStarting = n.v.isStarting
      /\ d.v.isRunning = n.v.isRunning
  BY <1>1, <1>3, <1>4, <1>5 DEF TalkStates
<1> HIDE DEF d
<1>7. e \in Pages /\ SameButFlags(d, e)
      /\ (MicSound(d) => MicSound(e) /\ (d.rec = "off" => e = d))
  BY <1>4, StopRecorderDoes
<1> HIDE DEF e
<1>8. e.v \in TalkStates
  BY <1>7, PageFields
<1>9. w \in TalkStates
  BY <1>8 DEF TalkStates
<1>10. m \in Pages /\ m.v = w /\ m.call = e.call /\ m.sock = e.sock /\ m.rec = e.rec
  <2> HIDE DEF w
  <2> QED BY <1>2, <1>7, <1>9, Turns
<1>11. /\ w.phase = e.v.phase /\ w.cur = e.v.cur /\ w.hold = e.v.hold /\ w.timer = e.v.timer
       /\ w.discard = e.v.discard /\ ~w.isStarting /\ w.isRunning = e.v.isRunning
  BY <1>8 DEF TalkStates
<1> HIDE DEF w
<1>12. m.call = [n.call EXCEPT ![c] = "free"] /\ SameSockets(n, m)
  BY <1>1, <1>3, <1>4, <1>7, <1>10 DEF SameButFlags, SameSockets
<1>13. /\ m.v.phase = "idle" /\ m.v.cur = None /\ m.v.hold = n.v.hold
       /\ m.v.timer = n.v.timer /\ m.v.discard = n.v.discard
  BY <1>6, <1>7, <1>10, <1>11 DEF SameButFlags
<1>14. MicSound(n) /\ n.rec = "off" => MicSound(m) /\ m.rec = "off"
  <2> SUFFICES ASSUME MicSound(n), n.rec = "off" PROVE MicSound(m) /\ m.rec = "off"
    OBVIOUS
  <2>1. MicSound(d) /\ d.rec = "off"
    BY <1>1, <1>3, <1>4, <1>6 DEF MicSound
  <2>2. MicSound(e) /\ e.rec = "off"
    BY <2>1, <1>7
  <2> QED BY <2>2, <1>10, <1>11 DEF MicSound
<1> QED BY <1>10, <1>12, <1>13, <1>14 DEF m

-----------------------------------------------------------------------------
(* The steps. *)

LEMMA PageNow ==
  ASSUME TalkInv
  PROVE  /\ VoiceNow \in Pages /\ HasClient(VoiceNow)
         /\ VoiceNow.v = voice /\ VoiceNow.call = voiceCall /\ VoiceNow.sock = sock
         /\ VoiceNow.rec = rec
BY DEF TalkInv, VoiceNow

LEMMA TalkKept ==
  ASSUME TalkInv, NEW n \in Pages, VoiceBecome(n), HasClient(n),
         held' \in BOOLEAN, dropped' \subseteq Calls,
         habits = {} => Patient(n, held', dropped') /\ ~late'
  PROVE  TalkInv'
<1>1. VoiceNow' = n /\ habits' = habits
  BY PageFields DEF VoiceBecome, VoiceNow
<1> QED BY <1>1 DEF TalkInv

\* Only what the finger does to the button.
SameButHold(n, m) ==
  /\ m.v.phase = n.v.phase /\ m.v.cur = n.v.cur /\ m.v.discard = n.v.discard
  /\ m.v.stopReq = n.v.stopReq /\ m.v.timer = n.v.timer /\ m.v.isStarting = n.v.isStarting
  /\ m.v.isRunning = n.v.isRunning /\ m.v.stopAfter = n.v.stopAfter
  /\ m.call = n.call /\ m.sock = n.sock /\ m.rec = n.rec

LEMMA HoldDoes ==
  ASSUME NEW n \in Pages, NEW x \in {"no", "armed", "shows", "started", "released"}
  PROVE  LET m == [n EXCEPT !.v.hold = x] IN m \in Pages /\ SameButHold(n, m) /\ m.v.hold = x
<1> DEFINE w == [n.v EXCEPT !.hold = x]
<1> n.v \in TalkStates
  BY PageFields
<1>1. w \in TalkStates
  BY DEF TalkStates
<1>2. /\ w.phase = n.v.phase /\ w.cur = n.v.cur /\ w.discard = n.v.discard
      /\ w.stopReq = n.v.stopReq /\ w.timer = n.v.timer /\ w.isStarting = n.v.isStarting
      /\ w.isRunning = n.v.isRunning /\ w.stopAfter = n.v.stopAfter /\ w.hold = x
  BY DEF TalkStates
<1> HIDE DEF w
<1>3. LET m == [n EXCEPT !.v = w] IN
      m \in Pages /\ m.v = w /\ m.call = n.call /\ m.sock = n.sock /\ m.rec = n.rec
  BY <1>1, Turns
<1> QED BY <1>2, <1>3 DEF SameButHold, w

LEMMA PanelDoes ==
  ASSUME NEW n \in Pages, NEW b \in BOOLEAN
  PROVE  LET m == [n EXCEPT !.v.panel = b] IN
         m \in Pages /\ SameButHold(n, m) /\ m.v.hold = n.v.hold
<1> DEFINE w == [n.v EXCEPT !.panel = b]
<1> n.v \in TalkStates
  BY PageFields
<1>1. w \in TalkStates
  BY DEF TalkStates
<1>2. /\ w.phase = n.v.phase /\ w.cur = n.v.cur /\ w.discard = n.v.discard
      /\ w.stopReq = n.v.stopReq /\ w.timer = n.v.timer /\ w.isStarting = n.v.isStarting
      /\ w.isRunning = n.v.isRunning /\ w.stopAfter = n.v.stopAfter /\ w.hold = n.v.hold
  BY DEF TalkStates
<1> HIDE DEF w
<1>3. LET m == [n EXCEPT !.v = w] IN
      m \in Pages /\ m.v = w /\ m.call = n.call /\ m.sock = n.sock /\ m.rec = n.rec
  BY <1>1, Turns
<1> QED BY <1>2, <1>3 DEF SameButHold, w

\* A page on which a round may begin: all is quiet, and the finger is down.
Awaits(n, h, d) ==
  /\ n.v.phase = "idle" /\ n.v.cur = None /\ ~n.v.timer /\ n.v.hold = "started" /\ h
  /\ n.rec = "off" /\ MicSound(n) /\ \A c \in Calls : n.call[c] = "free"
  /\ d \subseteq Calls /\ \A c \in d : n.sock[c] # "none"

LEMMA AwaitsIsPatient ==
  ASSUME NEW n \in Pages, NEW h, NEW d, Awaits(n, h, d)
  PROVE  Patient(n, h, d)
BY NoneIsNoCall DEF Awaits, Patient, FingerSound, CallsSound, MicFine, MicEnds, TimerSound, DropSound

LEMMA StartKeeps ==
  ASSUME TalkInv, NEW k \in Pages, HasClient(k), StartVoiceRound(k),
         k.call = voiceCall, k.sock = sock, UNCHANGED <<held, dropped, late>>,
         habits = {} => Awaits(k, held, dropped)
  PROVE  TalkInv'
<1>0. held' = held /\ dropped' = dropped /\ late' = late /\ held \in BOOLEAN /\ dropped \subseteq Calls
      /\ (habits = {} => ~late)
  BY DEF TalkInv
<1>1. CASE VoiceBecome(k)
  <2>1. habits = {} => Patient(k, held', dropped') /\ ~late'
    BY <1>0, AwaitsIsPatient
  <2> QED BY <1>0, <1>1, <2>1, TalkKept
<1>2. CASE \E c \in Calls :
         /\ voiceCall[c] = "free" /\ sock[c] = "none" /\ k.v.cur # c
         /\ VoiceBecome([k EXCEPT !.v.phase = "connecting", !.v.discard = FALSE,
                                  !.v.stopReq = FALSE, !.call[c] = "perm"])
  <2>1. PICK c \in Calls :
         /\ voiceCall[c] = "free" /\ sock[c] = "none" /\ k.v.cur # c
         /\ VoiceBecome([k EXCEPT !.v.phase = "connecting", !.v.discard = FALSE,
                                  !.v.stopReq = FALSE, !.call[c] = "perm"])
    BY <1>2
  <2> DEFINE w == [k.v EXCEPT !.phase = "connecting", !.discard = FALSE, !.stopReq = FALSE]
             j == [k.call EXCEPT ![c] = "perm"]
             m == [k EXCEPT !.v = w, !.call = j]
  <2> k.v \in TalkStates /\ k.call \in [Calls -> {"free", "perm", "connect"}]
    BY PageFields
  <2>2. w \in TalkStates
    BY DEF TalkStates
  <2>3. /\ w.phase = "connecting" /\ ~w.stopReq /\ w.cur = k.v.cur /\ w.timer = k.v.timer
        /\ w.hold = k.v.hold /\ w.isStarting = k.v.isStarting /\ w.isRunning = k.v.isRunning
    BY DEF TalkStates
  <2>4. j \in [Calls -> {"free", "perm", "connect"}]
        /\ \A d \in Calls : j[d] = IF d = c THEN "perm" ELSE k.call[d]
    OBVIOUS
  <2>5. VoiceBecome(m)
    BY <2>1
  <2> HIDE DEF w, j
  <2>6. m \in Pages /\ m.v = w /\ m.call = j /\ m.sock = k.sock /\ m.rec = k.rec
    BY <2>2, <2>4 DEF Pages
  <2>7. HasClient(m)
    BY <2>3, <2>6 DEF HasClient
  <2>8. ASSUME habits = {} PROVE Patient(m, held, dropped)
    <3>1. Awaits(k, held, dropped)
      BY <2>8
    <3> HIDE DEF m
    <3>2. FingerSound(m, held)
      BY <2>3, <2>6, <3>1 DEF Awaits, FingerSound
    <3>3. CallsSound(m)
      BY <2>1, <2>3, <2>4, <2>6, <3>1 DEF Awaits, CallsSound
    <3>4. MicSound(m)
      BY <2>3, <2>6, <3>1 DEF Awaits, MicSound
    <3>5. MicFine(m) /\ TimerSound(m) /\ DropSound(m, dropped)
      BY <2>3, <2>6, <3>1, NoneIsNoCall DEF Awaits, MicFine, MicEnds, TimerSound, DropSound
    <3> QED BY <3>2, <3>3, <3>4, <3>5 DEF Patient
  <2> HIDE DEF m
  <2>9. habits = {} => Patient(m, held', dropped') /\ ~late'
    BY <1>0, <2>8
  <2> QED BY <1>0, <2>5, <2>6, <2>7, <2>9, TalkKept
<1> QED BY <1>1, <1>2 DEF StartVoiceRound

LEMMA PressKeeps ==
  ASSUME TalkInv, Press
  PROVE  TalkInv'
<1>1. PICK n \in Pages : n = VoiceNow /\ HasClient(n) /\ n.v = voice /\ n.call = voiceCall
                         /\ n.sock = sock /\ n.rec = rec
  BY PageNow
<1> DEFINE again == voice.phase = "stopping" \/ (voice.phase = "connecting" /\ voice.stopReq)
           a == IF again THEN ForceReset(n) ELSE n
           free == a.v.phase = "idle" /\ ~a.v.isRunning /\ ~a.v.isStarting
           m == IF free THEN [a EXCEPT !.v.hold = "armed"] ELSE a
<1>2. /\ ~held /\ voice.hold = "no" /\ held' = TRUE /\ dropped' = dropped /\ late' = late
      /\ VoiceBecome(m)
      /\ \/ "restarts" \in habits
         \/ voice.phase = "idle" /\ rec = "off" /\ \A c \in Calls : voiceCall[c] = "free"
  BY <1>1 DEF Press
<1>3. a \in Pages /\ HasClient(a)
  BY <1>1, ForceResetDoes DEF HasClient
<1>4. ASSUME habits = {}
      PROVE  a = n /\ voice.phase = "idle" /\ rec = "off" /\ \A c \in Calls : voiceCall[c] = "free"
  BY <1>2, <1>4
<1> HIDE DEF a
<1>5. LET k == [a EXCEPT !.v.hold = "armed"] IN k \in Pages /\ SameButHold(a, k) /\ k.v.hold = "armed"
  BY <1>3, HoldDoes
<1>6. m \in Pages /\ HasClient(m)
  BY <1>3, <1>5 DEF HasClient, SameButHold
<1>7. ASSUME habits = {} PROVE Patient(m, TRUE, dropped)
  <2>1. Patient(n, held, dropped)
    BY <1>1, <1>7 DEF TalkInv
  <2>2. free
    BY <2>1, <1>1, <1>4, <1>7 DEF Patient, MicSound
  <2>3. SameButHold(n, m) /\ m.v.hold = "armed"
    BY <2>2, <1>4, <1>5, <1>7
  <2> HIDE DEF m
  <2>4. n.v.phase = "idle" /\ n.rec = "off" /\ \A c \in Calls : n.call[c] = "free"
    BY <1>1, <1>4, <1>7
  <2>5. FingerSound(m, TRUE)
    BY <2>3, <2>4 DEF FingerSound, SameButHold
  <2>6. CallsSound(m)
    BY <2>1, <2>3 DEF CallsSound, SameButHold, Patient
  <2>7. MicSound(m) /\ MicFine(m)
    BY <2>1, <2>3 DEF MicSound, MicFine, MicEnds, SameButHold, Patient
  <2>8. TimerSound(m) /\ DropSound(m, dropped)
    BY <2>1, <2>3 DEF TimerSound, DropSound, SameButHold, Patient
  <2> QED BY <2>5, <2>6, <2>7, <2>8 DEF Patient
<1> HIDE DEF m
<1>8. held' \in BOOLEAN /\ dropped' \subseteq Calls
      /\ (habits = {} => Patient(m, held', dropped') /\ ~late')
  BY <1>2, <1>7 DEF TalkInv
<1> QED BY <1>2, <1>6, <1>8, TalkKept

\* The finger lets go of a button, or a hold is given up, in a page that does not record.
LEMMA LetsGo ==
  ASSUME NEW n \in Pages, NEW m \in Pages, NEW h, NEW d, Patient(n, h, d),
         n.v.phase \notin {"connecting", "recording"}, SameButHold(n, m), m.v.hold = "no",
         NEW g
  PROVE  Patient(m, g, d)
<1>1. FingerSound(m, g)
  BY DEF FingerSound, SameButHold
<1>2. CallsSound(m)
  BY DEF CallsSound, SameButHold, Patient
<1>3. MicSound(m) /\ MicFine(m)
  BY DEF MicSound, MicFine, MicEnds, SameButHold, Patient
<1>4. TimerSound(m) /\ DropSound(m, d)
  BY DEF TimerSound, DropSound, SameButHold, Patient
<1> QED BY <1>1, <1>2, <1>3, <1>4 DEF Patient

\* Only the timer of the hold, and a panel that is being shown, start a round.
LEMMA WaitsAlone ==
  ASSUME NEW n \in Pages, NEW h, NEW d, Patient(n, h, d), d \subseteq Calls,
         n.v.hold \in {"armed", "shows"},
         NEW m \in Pages, SameButHold(n, m), m.v.hold = "started"
  PROVE  Awaits(m, h, d)
<1>1. /\ n.v.phase = "idle" /\ h /\ n.rec = "off" /\ n.v.cur = None /\ ~n.v.timer /\ MicSound(n)
      /\ \A c \in Calls : n.call[c] = "free"
      /\ \A c \in d : n.sock[c] # "none"
  BY DEF Patient, FingerSound, CallsSound, TimerSound, DropSound
<1> QED BY <1>1 DEF Awaits, SameButHold, MicSound

LEMMA HoldTimerKeeps ==
  ASSUME TalkInv, HoldTimer
  PROVE  TalkInv'
<1>1. PICK n \in Pages : n = VoiceNow /\ HasClient(n) /\ n.v = voice /\ n.call = voiceCall
                         /\ n.sock = sock /\ n.rec = rec
  BY PageNow
<1>2. /\ n.v.hold = "armed" /\ UNCHANGED <<held, dropped, late>>
      /\ IF n.v.phase # "idle" \/ n.v.isRunning \/ n.v.isStarting
         THEN VoiceBecome([n EXCEPT !.v.hold = "no"])
         ELSE IF n.v.panel THEN StartVoiceRound([n EXCEPT !.v.hold = "started"])
              ELSE VoiceBecome([n EXCEPT !.v.hold = "shows"])
  BY <1>1 DEF HoldTimer
<1>3. habits = {} => Patient(n, held, dropped) /\ ~late
  BY <1>1 DEF TalkInv
<1>4. held' = held /\ dropped' = dropped /\ late' = late /\ held \in BOOLEAN /\ dropped \subseteq Calls
  BY <1>2 DEF TalkInv
<1>5. CASE n.v.phase # "idle" \/ n.v.isRunning \/ n.v.isStarting
  <2>1. PICK m : m = [n EXCEPT !.v.hold = "no"]
    OBVIOUS
  <2>2. m \in Pages /\ SameButHold(n, m) /\ m.v.hold = "no"
    BY <2>1, HoldDoes
  <2>3. HasClient(m)
    BY <1>1, <2>2 DEF HasClient, SameButHold
  <2>4. habits # {}
    BY <1>2, <1>3, <1>5 DEF Patient, FingerSound, MicSound
  <2> QED BY <1>2, <1>4, <1>5, <2>1, <2>2, <2>3, <2>4, TalkKept
<1>6. CASE ~(n.v.phase # "idle" \/ n.v.isRunning \/ n.v.isStarting) /\ n.v.panel
  <2>1. PICK m : m = [n EXCEPT !.v.hold = "started"]
    OBVIOUS
  <2>2. m \in Pages /\ SameButHold(n, m) /\ m.v.hold = "started"
    BY <2>1, HoldDoes
  <2>3. HasClient(m)
    BY <1>1, <2>2 DEF HasClient, SameButHold
  <2>4. habits = {} => Awaits(m, held, dropped)
    BY <1>2, <1>3, <1>4, <2>2, WaitsAlone
  <2>5. StartVoiceRound(m) /\ m.call = voiceCall /\ m.sock = sock
    BY <1>1, <1>2, <1>6, <2>1, <2>2 DEF SameButHold
  <2> QED BY <1>2, <2>2, <2>3, <2>4, <2>5, StartKeeps
<1>7. CASE ~(n.v.phase # "idle" \/ n.v.isRunning \/ n.v.isStarting) /\ ~n.v.panel
  <2>1. PICK m : m = [n EXCEPT !.v.hold = "shows"]
    OBVIOUS
  <2>2. m \in Pages /\ SameButHold(n, m) /\ m.v.hold = "shows"
    BY <2>1, HoldDoes
  <2>3. HasClient(m)
    BY <1>1, <2>2 DEF HasClient, SameButHold
  <2>4. ASSUME Patient(n, held, dropped) PROVE Patient(m, held, dropped)
    <3>1. FingerSound(m, held)
      BY <1>2, <2>2, <2>4 DEF FingerSound, SameButHold, Patient
    <3>2. CallsSound(m)
      BY <2>2, <2>4 DEF CallsSound, SameButHold, Patient
    <3>3. MicSound(m) /\ MicFine(m)
      BY <2>2, <2>4 DEF MicSound, MicFine, MicEnds, SameButHold, Patient
    <3>4. TimerSound(m) /\ DropSound(m, dropped)
      BY <2>2, <2>4 DEF TimerSound, DropSound, SameButHold, Patient
    <3> QED BY <3>1, <3>2, <3>3, <3>4 DEF Patient
  <2>5. habits = {} => Patient(m, held', dropped') /\ ~late'
    BY <1>3, <1>4, <2>4
  <2> QED BY <1>2, <1>4, <1>7, <2>1, <2>2, <2>3, <2>5, TalkKept
<1> QED BY <1>5, <1>6, <1>7

LEMMA PanelShownKeeps ==
  ASSUME TalkInv, PanelShown
  PROVE  TalkInv'
<1>1. PICK n \in Pages : n = VoiceNow /\ HasClient(n) /\ n.v = voice /\ n.call = voiceCall
                         /\ n.sock = sock /\ n.rec = rec
  BY PageNow
<1> DEFINE x == IF n.v.hold = "shows" THEN "started" ELSE "no"
           a == [n EXCEPT !.v.panel = TRUE]
<1>2. /\ n.v.hold \in {"shows", "released"} /\ UNCHANGED <<held, dropped, late>>
      /\ StartVoiceRound([n EXCEPT !.v.panel = TRUE, !.v.hold = x])
  BY <1>1 DEF PanelShown
<1>3. habits = {} => Patient(n, held, dropped)
  BY <1>1 DEF TalkInv
<1>4. held \in BOOLEAN /\ dropped \subseteq Calls
  BY DEF TalkInv
<1>5. a \in Pages /\ SameButHold(n, a) /\ a.v.hold = n.v.hold
  BY PanelDoes
<1>6. x \in {"no", "armed", "shows", "started", "released"}
  OBVIOUS
<1> DEFINE m == [a EXCEPT !.v.hold = x]
<1>7. StartVoiceRound(m)
  BY <1>2
<1> HIDE DEF a
<1>8. m \in Pages /\ SameButHold(a, m) /\ m.v.hold = x
  BY <1>5, <1>6, HoldDoes
<1> HIDE DEF m
<1>9. SameButHold(n, m)
  BY <1>5, <1>8 DEF SameButHold
<1>10. HasClient(m) /\ m.call = voiceCall /\ m.sock = sock
  BY <1>1, <1>9 DEF HasClient, SameButHold
<1>11. habits = {} => Awaits(m, held, dropped)
  <2> SUFFICES ASSUME habits = {} PROVE Awaits(m, held, dropped)
    OBVIOUS
  <2>1. n.v.hold = "shows"
    BY <1>2, <1>3 DEF Patient, FingerSound
  <2>2. m.v.hold = "started"
    BY <2>1, <1>8
  <2> QED BY <2>1, <2>2, <1>3, <1>4, <1>8, <1>9, WaitsAlone
<1> QED BY <1>2, <1>7, <1>8, <1>10, <1>11, StartKeeps

LEMMA StopKeeps ==
  ASSUME NEW a \in Pages, NEW cancel \in BOOLEAN, NEW d, d \subseteq Calls, a.v.hold = "no",
         CallsSound(a), MicSound(a), MicFine(a), TimerSound(a), DropSound(a, d),
         cancel => \A c \in Calls : a.call[c] # "perm"
  PROVE  Patient(StopVoiceRound(a, cancel), FALSE, d)
<1>1. PICK m : m = StopVoiceRound(a, cancel)
  OBVIOUS
<1>2. /\ m \in Pages /\ m.call = a.call /\ SameSockets(a, m)
      /\ m.v.hold = a.v.hold /\ m.v.discard = a.v.discard /\ m.v.phase # "recording"
      /\ MicSound(m) /\ (a.rec = "off" => m.rec = "off") /\ RoundIsStopped(a, cancel, m)
  BY <1>1, StopVoiceRoundDoes
<1>3. a.v.phase \in {"idle", "connecting", "recording", "stopping"}
      /\ a.call \in [Calls -> {"free", "perm", "connect"}]
  BY PageFields DEF TalkStates
<1>4. FingerSound(m, FALSE)
  BY <1>2, <1>3 DEF FingerSound, RoundIsStopped
<1>5. CallsSound(m)
  <2>1. \A c, e \in Calls : m.call[c] # "free" /\ m.call[e] # "free" => c = e
    BY <1>2 DEF CallsSound
  <2>2. \A c \in Calls : m.call[c] # "free" => m.rec = "off" /\ m.v.phase \in {"idle", "connecting"}
    BY <1>2, <1>3 DEF CallsSound, RoundIsStopped
  <2>3. \A c \in Calls : m.call[c] = "perm" =>
          m.sock[c] = "none" /\ m.v.cur = None /\ m.v.phase = "connecting"
    BY <1>2, <1>3 DEF CallsSound, RoundIsStopped, SameSockets
  <2>4. \A c \in Calls : m.call[c] = "connect" => m.sock[c] # "none"
    BY <1>2 DEF CallsSound, SameSockets
  <2>5. m.v.phase = "idle" => m.v.cur = None
    BY <1>2, <1>3 DEF CallsSound, RoundIsStopped
  <2> QED BY <2>1, <2>2, <2>3, <2>4, <2>5 DEF CallsSound
<1>6. MicFine(m)
  BY <1>2, <1>3 DEF MicFine, RoundIsStopped
<1>7. TimerSound(m)
  BY <1>2, <1>3 DEF TimerSound, RoundIsStopped
<1>8. DropSound(m, d)
  BY <1>2, <1>3, NoneIsNoCall DEF DropSound, RoundIsStopped, SameSockets
<1> QED BY <1>1, <1>2, <1>4, <1>5, <1>6, <1>7, <1>8 DEF Patient

LEMMA ReleaseKeeps ==
  ASSUME TalkInv, VoiceRelease
  PROVE  TalkInv'
<1>1. PICK n \in Pages : n = VoiceNow /\ HasClient(n) /\ n.v = voice /\ n.call = voiceCall
                         /\ n.sock = sock /\ n.rec = rec
  BY PageNow
<1> DEFINE x == IF n.v.hold = "shows" THEN "released" ELSE "no"
           a == [n EXCEPT !.v.hold = x]
           m == IF n.v.hold \in {"started", "shows"} THEN StopVoiceRound(a, FALSE) ELSE a
<1>2. /\ held /\ held' = FALSE /\ dropped' = dropped /\ late' = late
      /\ ("defers" \in habits \/ n.v.hold # "shows")
      /\ VoiceBecome(m)
  BY <1>1 DEF VoiceRelease
<1>3. habits = {} => Patient(n, TRUE, dropped) /\ ~late
  BY <1>1, <1>2 DEF TalkInv
<1>4. dropped \subseteq Calls
  BY DEF TalkInv
<1>5. a \in Pages /\ SameButHold(n, a) /\ a.v.hold = x
  <2>1. x \in {"no", "armed", "shows", "started", "released"}
    OBVIOUS
  <2> HIDE DEF x
  <2> QED BY <2>1, HoldDoes
<1> HIDE DEF a
<1>6. m \in Pages /\ HasClient(m)
  BY <1>1, <1>5, StopVoiceRoundDoes DEF HasClient, SameButHold
<1>7. ASSUME habits = {} PROVE Patient(m, FALSE, dropped)
  <2>1. Patient(n, TRUE, dropped) /\ n.v.hold # "shows" /\ a.v.hold = "no"
    BY <1>2, <1>3, <1>5, <1>7
  <2>2. CASE n.v.hold \in {"started", "shows"}
    <3>1. CallsSound(a)
      BY <1>5, <2>1 DEF CallsSound, SameButHold, Patient
    <3>2. MicSound(a) /\ MicFine(a)
      BY <1>5, <2>1 DEF MicSound, MicFine, MicEnds, SameButHold, Patient
    <3>3. TimerSound(a) /\ DropSound(a, dropped)
      BY <1>5, <2>1 DEF TimerSound, DropSound, SameButHold, Patient
    <3> QED BY <1>4, <1>5, <2>1, <2>2, <3>1, <3>2, <3>3, StopKeeps
  <2>3. CASE n.v.hold \notin {"started", "shows"}
    <3>1. n.v.phase \notin {"connecting", "recording"}
      BY <2>1, <2>3 DEF Patient, FingerSound
    <3> QED BY <1>5, <2>1, <2>3, <3>1, LetsGo
  <2> QED BY <2>2, <2>3
<1> HIDE DEF m
<1>8. held' \in BOOLEAN /\ dropped' \subseteq Calls
      /\ (habits = {} => Patient(m, held', dropped') /\ ~late')
  BY <1>2, <1>3, <1>4, <1>7
<1> QED BY <1>2, <1>6, <1>8, TalkKept

LEMMA LeaveDraftKeeps ==
  ASSUME TalkInv, LeaveDraft
  PROVE  TalkInv'
<1>1. PICK n \in Pages : n = VoiceNow /\ HasClient(n) /\ n.v = voice /\ n.call = voiceCall
                         /\ n.sock = sock /\ n.rec = rec
  BY PageNow
<1>2. PICK send \in BOOLEAN, shows \in BOOLEAN :
        /\ ~held /\ held' = held /\ late' = late
        /\ "overlays" \in habits \/ \A c \in Calls : voiceCall[c] # "perm"
        /\ VoiceBecome([Draft(n, send) EXCEPT !.v.panel = send /\ ~shows])
        /\ dropped' = {c \in Calls : voiceCall[c] # "free" \/ sock[c] # "none"}
  BY <1>1 DEF LeaveDraft
<1> DEFINE w == [n.v EXCEPT !.discard = TRUE]
           a == [n EXCEPT !.v = w]
           b == IF send /\ a.v.phase = "idle" THEN a ELSE StopVoiceRound(a, TRUE)
           m == [b EXCEPT !.v.panel = send /\ ~shows]
<1>3. PICK d : d = {c \in Calls : n.call[c] # "free" \/ n.sock[c] # "none"}
  OBVIOUS
<1>4. VoiceBecome(m) /\ dropped' = d /\ d \subseteq Calls
  BY <1>1, <1>2, <1>3 DEF Draft
<1>5. habits = {} => Patient(n, FALSE, dropped) /\ ~late /\ \A c \in Calls : n.call[c] # "perm"
  BY <1>1, <1>2 DEF TalkInv
<1>6. n.v \in TalkStates /\ n.call \in [Calls -> {"free", "perm", "connect"}]
  BY PageFields
<1>7. w \in TalkStates
  BY <1>6 DEF TalkStates
<1>8. /\ w.phase = n.v.phase /\ w.cur = n.v.cur /\ w.discard
      /\ w.stopReq = n.v.stopReq /\ w.timer = n.v.timer /\ w.isStarting = n.v.isStarting
      /\ w.isRunning = n.v.isRunning /\ w.stopAfter = n.v.stopAfter /\ w.hold = n.v.hold
  BY <1>6 DEF TalkStates
<1> HIDE DEF w
<1>9. a \in Pages /\ a.v = w /\ a.call = n.call /\ a.sock = n.sock /\ a.rec = n.rec
  BY <1>7, Turns
<1> HIDE DEF a
<1>10. b \in Pages /\ HasClient(b)
  BY <1>1, <1>8, <1>9, StopVoiceRoundDoes DEF HasClient
<1>11. ASSUME habits = {} PROVE Patient(b, FALSE, d)
  <2>1. Patient(n, FALSE, dropped) /\ \A c \in Calls : n.call[c] # "perm"
    BY <1>5, <1>11
  <2>2. a.v.hold = "no"
    BY <1>8, <1>9, <2>1 DEF Patient, FingerSound
  <2>3. CallsSound(a)
    BY <1>8, <1>9, <2>1 DEF CallsSound, Patient
  <2>4. MicSound(a) /\ MicFine(a)
    BY <1>8, <1>9, <2>1 DEF MicSound, MicFine, MicEnds, Patient
  <2>5. TimerSound(a)
    BY <1>8, <1>9, <2>1 DEF TimerSound, Patient
  <2>6. DropSound(a, d)
    BY <1>3, <1>6, <1>8, <1>9, <2>1 DEF DropSound, CallsSound, Patient
  <2>7. FingerSound(a, FALSE)
    BY <1>8, <1>9, <2>1 DEF FingerSound, Patient
  <2>8. Patient(a, FALSE, d)
    BY <2>3, <2>4, <2>5, <2>6, <2>7 DEF Patient
  <2>9. Patient(StopVoiceRound(a, TRUE), FALSE, d)
    BY <1>4, <1>9, <2>1, <2>2, <2>3, <2>4, <2>5, <2>6, StopKeeps
  <2> QED BY <2>8, <2>9
<1> HIDE DEF b
<1>12. m \in Pages /\ SameButHold(b, m) /\ m.v.hold = b.v.hold
  BY <1>10, PanelDoes
<1> HIDE DEF m
<1>13. HasClient(m)
  BY <1>10, <1>12 DEF HasClient, SameButHold
<1>14. ASSUME Patient(b, FALSE, d) PROVE Patient(m, FALSE, d)
  <2>1. FingerSound(m, FALSE)
    BY <1>12, <1>14 DEF FingerSound, SameButHold, Patient
  <2>2. CallsSound(m)
    BY <1>12, <1>14 DEF CallsSound, SameButHold, Patient
  <2>3. MicSound(m) /\ MicFine(m)
    BY <1>12, <1>14 DEF MicSound, MicFine, MicEnds, SameButHold, Patient
  <2>4. TimerSound(m) /\ DropSound(m, d)
    BY <1>12, <1>14 DEF TimerSound, DropSound, SameButHold, Patient
  <2> QED BY <2>1, <2>2, <2>3, <2>4 DEF Patient
<1>15. held' \in BOOLEAN /\ held' = FALSE
  BY <1>2 DEF TalkInv
<1>16. habits = {} => Patient(m, held', dropped') /\ ~late'
  BY <1>2, <1>4, <1>5, <1>11, <1>14, <1>15
<1> QED BY <1>4, <1>12, <1>13, <1>15, <1>16, TalkKept

LEMMA HideKeeps ==
  ASSUME TalkInv, VoiceHide
  PROVE  TalkInv'
<1>1. PICK n \in Pages : n = VoiceNow /\ HasClient(n) /\ n.v = voice /\ n.call = voiceCall
                         /\ n.sock = sock /\ n.rec = rec
  BY PageNow
<1> DEFINE a == [n EXCEPT !.v.hold = "no"]
           b == StopVoiceRound(a, TRUE)
           e == Teardown(b)
           f == IF e.v.isRunning THEN StopCall(e) ELSE e
           g == [f EXCEPT !.v.timer = FALSE]
           m == Flags(g)
<1>2. "hides" \in habits /\ VoiceBecome(m) /\ held' = FALSE /\ dropped' = dropped
  BY <1>1 DEF VoiceHide
<1>3. a \in Pages
  BY HoldDoes
<1> HIDE DEF a
<1>4. b \in Pages /\ b.v.phase # "recording"
  BY <1>3, StopVoiceRoundDoes
<1> HIDE DEF b
<1>5. e \in Pages /\ e.v = [b.v EXCEPT !.cur = None]
  BY <1>4, TeardownDoes
<1>6. e.v.phase # "recording"
  BY <1>4, <1>5, PageFields DEF TalkStates
<1> HIDE DEF e
<1>7. f \in Pages /\ f.v = e.v
  BY <1>5, PageFields DEF StopCall, Pages
<1> HIDE DEF f
<1>8. g \in Pages /\ g.v = [f.v EXCEPT !.timer = FALSE]
  BY <1>7, UntimedDoes
<1>9. g.v.phase # "recording"
  BY <1>6, <1>7, <1>8, PageFields DEF TalkStates
<1> HIDE DEF g
<1>10. m \in Pages /\ HasClient(m)
  BY <1>8, <1>9, FlagsDoes DEF SameButFlags, HasClient
<1> HIDE DEF m
<1> QED BY <1>2, <1>10, TalkKept DEF TalkInv

LEMMA PermissionKeeps ==
  ASSUME TalkInv, NEW c \in Calls, Permission(c)
  PROVE  TalkInv'
<1>1. PICK n \in Pages : n = VoiceNow /\ HasClient(n) /\ n.v = voice /\ n.call = voiceCall
                         /\ n.sock = sock /\ n.rec = rec
  BY PageNow
<1>2. /\ n.call[c] = "perm" /\ held' = held /\ dropped' = dropped /\ late' = late
      /\ held \in BOOLEAN /\ dropped \subseteq Calls
  BY <1>1 DEF Permission, TalkInv
<1>3. habits = {} => Patient(n, held, dropped) /\ ~late
  BY <1>1 DEF TalkInv
<1>4. CASE VoiceBecome([Teardown(n) EXCEPT !.v.cur = c, !.call[c] = "connect",
                                           !.sock[c] = "opening"])
  <2> DEFINE a == Teardown(n)
             w == [a.v EXCEPT !.cur = c]
             j == [a.call EXCEPT ![c] = "connect"]
             s == [a.sock EXCEPT ![c] = "opening"]
             m == [a EXCEPT !.v = w, !.call = j, !.sock = s]
  <2>1. /\ a \in Pages /\ a.v = [n.v EXCEPT !.cur = None]
        /\ a.call = n.call /\ a.rec = n.rec /\ SameSockets(n, a)
    BY TeardownDoes
  <2>2. VoiceBecome(m)
    BY <1>4
  <2> HIDE DEF a
  <2>3. /\ a.v \in TalkStates /\ a.call \in [Calls -> {"free", "perm", "connect"}]
        /\ a.sock \in [Calls -> {"none", "opening", "ready", "ended", "closing"}]
    BY <2>1, PageFields
  <2>4. w \in TalkStates
    BY <2>3 DEF TalkStates
  <2>5. /\ w.phase = n.v.phase /\ w.cur = c /\ w.stopReq = n.v.stopReq /\ w.timer = n.v.timer
        /\ w.hold = n.v.hold /\ w.isStarting = n.v.isStarting /\ w.isRunning = n.v.isRunning
        /\ w.stopAfter = n.v.stopAfter
    BY <2>1, PageFields DEF TalkStates
  <2>6. j \in [Calls -> {"free", "perm", "connect"}]
        /\ \A d \in Calls : j[d] = IF d = c THEN "connect" ELSE n.call[d]
    BY <2>1, <2>3
  <2>7. s \in [Calls -> {"none", "opening", "ready", "ended", "closing"}]
        /\ \A d \in Calls : s[d] = IF d = c THEN "opening" ELSE a.sock[d]
    BY <2>3
  <2> HIDE DEF w, j, s
  <2>8. m \in Pages /\ m.v = w /\ m.call = j /\ m.sock = s /\ m.rec = n.rec
    BY <2>1, <2>4, <2>6, <2>7 DEF Pages
  <2> HIDE DEF m
  <2>9. HasClient(m)
    BY <2>5, <2>8, NoneIsNoCall DEF HasClient
  <2>10. ASSUME habits = {} PROVE Patient(m, held, dropped)
    <3>1. Patient(n, held, dropped)
      BY <1>3, <2>10
    <3>2. /\ n.v.phase = "connecting" /\ n.sock[c] = "none" /\ n.rec = "off" /\ c \notin dropped
          /\ \A d \in Calls : d # c => n.call[d] = "free"
      BY <1>2, <3>1 DEF Patient, CallsSound, DropSound
    <3>3. FingerSound(m, held)
      BY <2>5, <2>8, <3>1, <3>2 DEF FingerSound, Patient
    <3>4. CallsSound(m)
      BY <2>5, <2>6, <2>7, <2>8, <3>2 DEF CallsSound
    <3>5. MicSound(m) /\ MicFine(m)
      BY <2>5, <2>8, <3>1, <3>2 DEF MicSound, MicFine, MicEnds, Patient
    <3>6. TimerSound(m)
      BY <2>5, <2>8, <3>1 DEF TimerSound, Patient
    <3>7. DropSound(m, dropped)
      BY <1>2, <2>1, <2>5, <2>7, <2>8, <3>1, <3>2 DEF DropSound, Patient, SameSockets
    <3> QED BY <3>3, <3>4, <3>5, <3>6, <3>7 DEF Patient
  <2>11. habits = {} => Patient(m, held', dropped') /\ ~late'
    BY <1>2, <1>3, <2>10
  <2> QED BY <1>2, <2>2, <2>8, <2>9, <2>11, TalkKept
<1>5. CASE VoiceBecome(ToIdle([n EXCEPT !.call[c] = "free"]))
  <2> DEFINE j == [n.call EXCEPT ![c] = "free"]
             a == [n EXCEPT !.call = j]
             m == ToIdle(a)
  <2>1. n.call \in [Calls -> {"free", "perm", "connect"}] /\ n.v \in TalkStates
    BY PageFields
  <2>2. j \in [Calls -> {"free", "perm", "connect"}]
        /\ \A d \in Calls : j[d] = IF d = c THEN "free" ELSE n.call[d]
    BY <2>1
  <2>3. VoiceBecome(m)
    BY <1>5
  <2> HIDE DEF j
  <2>4. a \in Pages /\ a.v = n.v /\ a.call = j /\ a.sock = n.sock /\ a.rec = n.rec
    BY <2>2 DEF Pages
  <2> HIDE DEF a
  <2>5. /\ m \in Pages /\ m.v = [n.v EXCEPT !.phase = "idle"]
        /\ m.call = j /\ m.sock = n.sock /\ m.rec = n.rec
    BY <2>4, ToIdleDoes
  <2> HIDE DEF m
  <2>6. /\ m.v.phase = "idle" /\ m.v.cur = n.v.cur /\ m.v.discard = n.v.discard
        /\ m.v.timer = n.v.timer /\ m.v.hold = n.v.hold /\ m.v.isStarting = n.v.isStarting
        /\ m.v.isRunning = n.v.isRunning /\ m.v.stopAfter = n.v.stopAfter
    BY <2>1, <2>5 DEF TalkStates
  <2>7. HasClient(m)
    BY <2>6 DEF HasClient
  <2>8. ASSUME habits = {} PROVE Patient(m, held, dropped)
    <3>1. Patient(n, held, dropped)
      BY <1>3, <2>8
    <3>2. /\ n.v.phase = "connecting" /\ n.rec = "off" /\ n.v.cur = None
          /\ \A d \in Calls : d # c => n.call[d] = "free"
      BY <1>2, <3>1 DEF Patient, CallsSound
    <3>3. FingerSound(m, held)
      BY <2>5, <2>6, <3>1, <3>2 DEF FingerSound, Patient
    <3>4. CallsSound(m)
      BY <2>2, <2>5, <2>6, <3>2 DEF CallsSound
    <3>5. MicSound(m) /\ MicFine(m)
      BY <2>5, <2>6, <3>1, <3>2 DEF MicSound, MicFine, MicEnds, Patient
    <3>6. TimerSound(m) /\ DropSound(m, dropped)
      BY <2>5, <2>6, <3>1, <3>2 DEF TimerSound, DropSound, Patient
    <3> QED BY <3>3, <3>4, <3>5, <3>6 DEF Patient
  <2>9. habits = {} => Patient(m, held', dropped') /\ ~late'
    BY <1>2, <1>3, <2>8
  <2> QED BY <1>2, <2>3, <2>5, <2>7, <2>9, TalkKept
<1> QED BY <1>1, <1>4, <1>5 DEF Permission

LEMMA ReadyKeeps ==
  ASSUME TalkInv, NEW c \in Calls, SockReady(c)
  PROVE  TalkInv'
<1>1. PICK n \in Pages : n = VoiceNow /\ HasClient(n) /\ n.v = voice /\ n.call = voiceCall
                         /\ n.sock = sock /\ n.rec = rec
  BY PageNow
<1> DEFINE s == IF n.sock[c] = "opening" THEN "ready" ELSE n.sock[c]
           a == [n EXCEPT !.sock[c] = s]
           b == [a EXCEPT !.call[c] = "free"]
<1>2. /\ n.call[c] = "connect" /\ n.sock[c] \in {"opening", "closing"}
      /\ held' = held /\ dropped' = dropped /\ late' = late
      /\ held \in BOOLEAN /\ dropped \subseteq Calls /\ VoiceBecome(Connected(a, c))
  BY <1>1 DEF SockReady, TalkInv
<1>3. habits = {} => Patient(n, held, dropped) /\ ~late
  BY <1>1 DEF TalkInv
<1>4. /\ n.v \in TalkStates /\ n.call \in [Calls -> {"free", "perm", "connect"}]
      /\ n.sock \in [Calls -> {"none", "opening", "ready", "ended", "closing"}]
  BY PageFields
<1>5. s \in {"none", "opening", "ready", "ended", "closing"} /\ s # "none" /\ n.sock[c] # "none"
  BY <1>2, <1>4
<1> HIDE DEF s
<1>6. a \in Pages /\ a.v = n.v /\ a.call = n.call /\ a.rec = n.rec /\ SameSockets(n, a)
  BY <1>4, <1>5 DEF Pages, SameSockets
<1> HIDE DEF a
<1>7. /\ b \in Pages /\ b.v = n.v /\ b.rec = n.rec /\ SameSockets(n, b)
      /\ \A d \in Calls : b.call[d] = IF d = c THEN "free" ELSE n.call[d]
  BY <1>4, <1>6 DEF Pages, SameSockets
<1>8. Connected(a, c) = IF n.v.phase # "connecting" \/ n.v.cur # c THEN Close(b, c)
                        ELSE IF n.rec # "off" THEN Refused(b) ELSE Begin(b)
  BY <1>6 DEF Connected
<1> HIDE DEF b
<1>9. ASSUME habits = {}
      PROVE  /\ Patient(n, held, dropped) /\ n.rec = "off"
             /\ \A d \in Calls : b.call[d] = "free"
  BY <1>2, <1>3, <1>7, <1>9 DEF Patient, CallsSound
<1>10. CASE n.v.phase # "connecting" \/ n.v.cur # c
  <2>1. PICK m : m = Close(b, c)
    OBVIOUS
  <2>2. m \in Pages /\ m.v = n.v /\ m.call = b.call /\ m.rec = n.rec /\ SameSockets(n, m)
    BY <2>1, <1>7, CloseDoes DEF SameSockets
  <2>3. HasClient(m)
    BY <1>1, <2>2 DEF HasClient
  <2>4. ASSUME habits = {} PROVE Patient(m, held, dropped)
    <3>1. FingerSound(m, held)
      BY <1>9, <2>2, <2>4 DEF FingerSound, Patient
    <3>2. CallsSound(m)
      BY <1>9, <2>2, <2>4 DEF CallsSound, Patient
    <3>3. MicSound(m) /\ MicFine(m)
      BY <1>9, <2>2, <2>4 DEF MicSound, MicFine, MicEnds, Patient
    <3>4. TimerSound(m) /\ DropSound(m, dropped)
      BY <1>2, <1>9, <2>2, <2>4 DEF TimerSound, DropSound, SameSockets, Patient
    <3> QED BY <3>1, <3>2, <3>3, <3>4 DEF Patient
  <2>5. habits = {} => Patient(m, held', dropped') /\ ~late'
    BY <1>2, <1>3, <2>4
  <2> QED BY <1>2, <1>8, <1>10, <2>1, <2>2, <2>3, <2>5, TalkKept
<1>11. CASE n.v.phase = "connecting" /\ n.v.cur = c /\ n.rec # "off"
  <2> DEFINE d == Teardown(b)
             e == ToIdle(d)
             m == Flags(e)
  <2>1. VoiceBecome(m)
    BY <1>2, <1>8, <1>11 DEF Refused
  <2>2. d \in Pages
    BY <1>7, TeardownDoes
  <2> HIDE DEF d
  <2>3. e \in Pages /\ e.v = [d.v EXCEPT !.phase = "idle"]
    BY <2>2, ToIdleDoes
  <2>4. e.v.phase = "idle"
    BY <2>2, <2>3, PageFields DEF TalkStates
  <2> HIDE DEF e
  <2>5. m \in Pages /\ HasClient(m)
    BY <2>3, <2>4, FlagsDoes DEF SameButFlags, HasClient
  <2> HIDE DEF m
  <2>6. habits # {}
    BY <1>9, <1>11
  <2> QED BY <1>2, <2>1, <2>5, <2>6, TalkKept
<1>12. CASE n.v.phase = "connecting" /\ n.v.cur = c /\ n.rec = "off"
  <2> DEFINE w == [b.v EXCEPT !.isStarting = TRUE, !.isRunning = FALSE, !.stopAfter = FALSE,
                              !.phase = "recording"]
             k == [b EXCEPT !.v = w, !.rec = "starting"]
             x == [k.v EXCEPT !.stopReq = FALSE]
             y == [k EXCEPT !.v = x]
             z == [b EXCEPT !.rec = "starting", !.v.isStarting = TRUE, !.v.isRunning = FALSE,
                            !.v.stopAfter = FALSE, !.v.phase = "recording"]
  <2>a. z = k
    BY <1>7, PageFields DEF Pages
  <2>b. Begin(b) = IF z.v.stopReq THEN StopVoiceRound([z EXCEPT !.v.stopReq = FALSE], FALSE) ELSE z
    BY DEF Begin
  <2> HIDE DEF z
  <2>1. Begin(b) = IF k.v.stopReq THEN StopVoiceRound(y, FALSE) ELSE k
    BY <2>a, <2>b
  <2>2. b.v \in TalkStates
    BY <1>7, <1>4
  <2>3. w \in TalkStates
    BY <2>2 DEF TalkStates
  <2>4. /\ w.phase = "recording" /\ w.cur = c /\ w.stopReq = n.v.stopReq /\ w.hold = n.v.hold
        /\ w.timer = n.v.timer /\ w.discard = n.v.discard
        /\ w.isStarting /\ ~w.isRunning /\ ~w.stopAfter
    BY <1>7, <1>12, <2>2 DEF TalkStates
  <2> HIDE DEF w
  <2>5. k \in Pages /\ k.v = w /\ k.rec = "starting" /\ k.call = b.call /\ k.sock = b.sock
    BY <1>7, <2>3, PageFields DEF Pages
  <2> HIDE DEF k
  <2>6. x \in TalkStates
    BY <2>3, <2>5 DEF TalkStates
  <2>7. /\ x.phase = "recording" /\ x.cur = c /\ x.hold = n.v.hold
        /\ x.timer = n.v.timer /\ x.discard = n.v.discard
        /\ x.isStarting /\ ~x.isRunning /\ ~x.stopAfter
    BY <2>3, <2>4, <2>5 DEF TalkStates
  <2> HIDE DEF x
  <2>8. y \in Pages /\ y.v = x /\ y.rec = "starting" /\ y.call = b.call /\ y.sock = b.sock
    BY <2>5, <2>6, Turns
  <2> HIDE DEF y
  <2>9. CASE n.v.stopReq
    <3>1. PICK m : m = StopVoiceRound(y, FALSE)
      OBVIOUS
    <3>2. VoiceBecome(m)
      BY <1>2, <1>8, <1>12, <2>1, <2>4, <2>5, <2>9, <3>1
    <3>3. /\ m \in Pages /\ m.call = b.call /\ SameSockets(y, m) /\ m.v.hold = n.v.hold
          /\ m.v.discard = n.v.discard /\ m.v.phase # "recording"
          /\ (MicSound(y) => MicSound(m) /\ RoundIsStopped(y, FALSE, m))
      BY <3>1, <2>7, <2>8, StopVoiceRoundDoes
    <3>4. MicSound(y)
      BY <2>7, <2>8 DEF MicSound
    <3>5. m.v.phase = "stopping" /\ m.v.cur = c /\ MicEnds(m)
      BY <3>3, <3>4, <2>7, <2>8 DEF RoundIsStopped
    <3>6. HasClient(m)
      BY <3>3 DEF HasClient
    <3>7. ASSUME habits = {} PROVE Patient(m, held, dropped)
      <4>1. FingerSound(m, held)
        BY <1>9, <1>12, <3>3, <3>5, <3>7 DEF FingerSound, Patient
      <4>2. CallsSound(m)
        BY <1>9, <3>3, <3>5, <3>7 DEF CallsSound
      <4>3. MicSound(m) /\ MicFine(m) /\ TimerSound(m)
        BY <3>3, <3>4, <3>5 DEF MicFine, TimerSound
      <4>4. DropSound(m, dropped)
        BY <1>2, <1>7, <1>9, <1>12, <2>8, <3>3, <3>5, <3>7 DEF DropSound, SameSockets, Patient
      <4> QED BY <4>1, <4>2, <4>3, <4>4 DEF Patient
    <3>8. habits = {} => Patient(m, held', dropped') /\ ~late'
      BY <1>2, <1>3, <3>7
    <3> QED BY <1>2, <3>2, <3>3, <3>6, <3>8, TalkKept
  <2>10. CASE ~n.v.stopReq
    <3>1. VoiceBecome(k)
      BY <1>2, <1>8, <1>12, <2>1, <2>4, <2>5, <2>10
    <3>2. HasClient(k)
      BY <2>4, <2>5, NoneIsNoCall DEF HasClient
    <3>3. ASSUME habits = {} PROVE Patient(k, held, dropped)
      <4>1. FingerSound(k, held)
        BY <1>9, <1>12, <2>4, <2>5, <2>10, <3>3 DEF FingerSound, Patient
      <4>2. CallsSound(k)
        BY <1>9, <2>4, <2>5, <3>3 DEF CallsSound
      <4>3. MicSound(k) /\ MicFine(k)
        BY <2>4, <2>5 DEF MicSound, MicFine
      <4>4. TimerSound(k)
        BY <1>9, <1>12, <2>4, <2>5, <3>3 DEF TimerSound, Patient
      <4>5. DropSound(k, dropped)
        BY <1>2, <1>7, <1>9, <1>12, <2>4, <2>5, <3>3 DEF DropSound, SameSockets, Patient
      <4> QED BY <4>1, <4>2, <4>3, <4>4, <4>5 DEF Patient
    <3>4. habits = {} => Patient(k, held', dropped') /\ ~late'
      BY <1>2, <1>3, <3>3
    <3> QED BY <1>2, <2>5, <3>1, <3>2, <3>4, TalkKept
  <2> QED BY <2>9, <2>10
<1> QED BY <1>10, <1>11, <1>12

LEMMA FailsKeeps ==
  ASSUME TalkInv, NEW c \in Calls, SockFails(c)
  PROVE  TalkInv'
<1>1. PICK n \in Pages : n = VoiceNow /\ HasClient(n) /\ n.v = voice /\ n.call = voiceCall
                         /\ n.sock = sock /\ n.rec = rec
  BY PageNow
<1> DEFINE a == Close(n, c)
           m == Catch(a, c)
<1>2. /\ n.call[c] = "connect" /\ held' = held /\ dropped' = dropped /\ late' = late
      /\ held \in BOOLEAN /\ dropped \subseteq Calls /\ VoiceBecome(m)
  BY <1>1 DEF SockFails, TalkInv
<1>3. habits = {} => Patient(n, held, dropped) /\ ~late
  BY <1>1 DEF TalkInv
<1>4. a \in Pages /\ a.v = n.v /\ a.call = n.call /\ a.rec = n.rec /\ SameSockets(n, a)
  BY CloseDoes
<1> HIDE DEF a
<1>5. /\ m \in Pages /\ m.v.phase = "idle" /\ m.v.cur = None
      /\ m.v.hold = n.v.hold /\ m.v.timer = n.v.timer
      /\ m.call = [n.call EXCEPT ![c] = "free"] /\ SameSockets(a, m)
      /\ (MicSound(a) /\ n.rec = "off" => MicSound(m) /\ m.rec = "off")
  BY <1>4, CatchDoes
<1> HIDE DEF m
<1>6. HasClient(m)
  BY <1>5 DEF HasClient
<1>7. ASSUME habits = {} PROVE Patient(m, held, dropped)
  <2>1. Patient(n, held, dropped)
    BY <1>3, <1>7
  <2>2. /\ n.rec = "off" /\ n.v.phase \in {"idle", "connecting"}
        /\ \A d \in Calls : d # c => n.call[d] = "free"
    BY <1>2, <2>1 DEF Patient, CallsSound
  <2>3. \A d \in Calls : m.call[d] = "free"
    BY <1>5, <2>2, PageFields
  <2>4. MicSound(m) /\ m.rec = "off"
    BY <1>4, <1>5, <2>1, <2>2 DEF MicSound, Patient
  <2>5. FingerSound(m, held)
    BY <1>2, <1>5, <2>1 DEF FingerSound, Patient
  <2>6. CallsSound(m)
    BY <1>5, <2>3 DEF CallsSound
  <2>7. MicFine(m) /\ TimerSound(m)
    BY <1>5, <2>1, <2>2, <2>4 DEF MicFine, MicEnds, TimerSound, Patient
  <2>8. DropSound(m, dropped)
    BY <1>2, <1>4, <1>5, <2>1, NoneIsNoCall DEF DropSound, SameSockets, Patient
  <2> QED BY <2>4, <2>5, <2>6, <2>7, <2>8 DEF Patient
<1>8. habits = {} => Patient(m, held', dropped') /\ ~late'
  BY <1>2, <1>3, <1>7
<1> QED BY <1>2, <1>5, <1>6, <1>8, TalkKept

LEMMA ClosedKeeps ==
  ASSUME TalkInv, NEW c \in Calls, SockClosed(c)
  PROVE  TalkInv'
<1>1. PICK n \in Pages : n = VoiceNow /\ HasClient(n) /\ n.v = voice /\ n.call = voiceCall
                         /\ n.sock = sock /\ n.rec = rec
  BY PageNow
<1> DEFINE a == [n EXCEPT !.sock[c] = "none"]
           e == StopRecorder(a)
           w == [e.v EXCEPT !.timer = FALSE, !.cur = None]
           f == [e EXCEPT !.v = w]
           g == ToIdle(f)
           m == IF n.v.cur # c THEN a ELSE g
           k == IF n.call[c] = "connect" THEN Catch(m, c) ELSE m
<1>2. /\ n.sock[c] # "none" /\ held' = held /\ dropped' = dropped \ {c} /\ late' = late
      /\ held \in BOOLEAN /\ dropped \subseteq Calls /\ VoiceBecome(k)
  BY <1>1 DEF SockClosed, TalkInv
<1>3. habits = {} => Patient(n, held, dropped) /\ ~late
  BY <1>1 DEF TalkInv
<1>4. /\ n.v \in TalkStates /\ n.call \in [Calls -> {"free", "perm", "connect"}]
      /\ n.sock \in [Calls -> {"none", "opening", "ready", "ended", "closing"}]
  BY PageFields
<1>5. /\ a \in Pages /\ a.v = n.v /\ a.call = n.call /\ a.rec = n.rec
      /\ a.sock[c] = "none" /\ \A d \in Calls : d # c => a.sock[d] = n.sock[d]
  BY <1>4 DEF Pages
<1> HIDE DEF a
<1>6. e \in Pages /\ SameButFlags(a, e)
      /\ (MicSound(a) => MicSound(e) /\ MicEnds(e) /\ (a.rec = "off" => e = a))
  BY <1>5, StopRecorderDoes
<1> HIDE DEF e
<1> e.v \in TalkStates
  BY <1>6, PageFields
<1>7. w \in TalkStates
  BY DEF TalkStates
<1>8. /\ w.cur = None /\ ~w.timer /\ w.hold = e.v.hold /\ w.isStarting = e.v.isStarting
      /\ w.isRunning = e.v.isRunning /\ w.stopAfter = e.v.stopAfter
  BY DEF TalkStates
<1> HIDE DEF w
<1>9. f \in Pages /\ f.v = w /\ f.call = e.call /\ f.sock = e.sock /\ f.rec = e.rec
  BY <1>6, <1>7, Turns
<1> HIDE DEF f
<1>10. /\ g \in Pages /\ g.v = [f.v EXCEPT !.phase = "idle"]
       /\ g.call = f.call /\ g.sock = f.sock /\ g.rec = f.rec
  BY <1>9, ToIdleDoes
<1>11. /\ g.v.phase = "idle" /\ g.v.cur = None /\ ~g.v.timer /\ g.v.hold = n.v.hold
       /\ g.v.isStarting = e.v.isStarting /\ g.v.isRunning = e.v.isRunning
       /\ g.v.stopAfter = e.v.stopAfter /\ g.call = n.call /\ g.sock = a.sock /\ g.rec = e.rec
  BY <1>5, <1>6, <1>7, <1>8, <1>9, <1>10 DEF SameButFlags, TalkStates
<1> HIDE DEF g
<1>12. /\ m \in Pages /\ HasClient(m) /\ m.call = n.call /\ m.v.hold = n.v.hold
       /\ m.sock = a.sock
  BY <1>1, <1>5, <1>10, <1>11 DEF HasClient
<1>13. ASSUME habits = {}
       PROVE  /\ Patient(n, held, dropped) /\ MicSound(m) /\ MicFine(m) /\ TimerSound(m)
              /\ (n.rec = "off" => m.rec = "off")
              /\ m.v.phase = "idle" => m.v.cur = None
              /\ (m.v.phase = "idle" /\ m.v.cur = None) \/ (m.v = n.v /\ n.v.cur # c)
  <2>1. Patient(n, held, dropped)
    BY <1>3, <1>13
  <2>2. CASE n.v.cur # c
    <3>1. m = a
      BY <2>2
    <3> HIDE DEF m
    <3>2. MicSound(m) /\ MicFine(m) /\ TimerSound(m)
      BY <1>5, <2>1, <3>1 DEF MicSound, MicFine, MicEnds, TimerSound, Patient
    <3> QED BY <1>5, <2>1, <2>2, <3>1, <3>2 DEF Patient, CallsSound
  <2>3. CASE n.v.cur = c
    <3>1. m = g
      BY <2>3
    <3> HIDE DEF m
    <3>2. MicSound(a)
      BY <1>5, <2>1 DEF MicSound, Patient
    <3>3. MicSound(m)
      BY <1>6, <1>11, <3>1, <3>2 DEF MicSound
    <3>4. MicFine(m) /\ TimerSound(m)
      BY <1>6, <1>11, <3>1, <3>2 DEF MicFine, MicEnds, TimerSound
    <3>5. n.rec = "off" => m.rec = "off"
      BY <1>5, <1>6, <1>11, <3>1, <3>2
    <3>6. m.v.phase = "idle" /\ m.v.cur = None
      BY <1>11, <3>1
    <3> QED BY <2>1, <3>3, <3>4, <3>5, <3>6
  <2> QED BY <2>2, <2>3
<1> HIDE DEF m
<1>14. CASE n.call[c] = "connect"
  <2>1. k = Catch(m, c)
    BY <1>14
  <2> HIDE DEF k
  <2>2. /\ k \in Pages /\ k.v.phase = "idle" /\ k.v.cur = None
        /\ k.v.hold = n.v.hold /\ k.v.timer = m.v.timer
        /\ k.call = [n.call EXCEPT ![c] = "free"] /\ SameSockets(m, k)
        /\ (MicSound(m) /\ m.rec = "off" => MicSound(k) /\ k.rec = "off")
    BY <1>12, <2>1, CatchDoes
  <2>3. HasClient(k)
    BY <2>2 DEF HasClient
  <2>4. ASSUME habits = {} PROVE Patient(k, held, dropped \ {c})
    <3>1. Patient(n, held, dropped)
      BY <1>13, <2>4
    <3>2. /\ n.rec = "off" /\ n.v.phase \in {"idle", "connecting"}
          /\ \A d \in Calls : d # c => n.call[d] = "free"
      BY <1>14, <3>1 DEF Patient, CallsSound
    <3>3. \A d \in Calls : k.call[d] = "free"
      BY <1>4, <2>2, <3>2
    <3>4. MicSound(k) /\ k.rec = "off"
      BY <1>13, <2>2, <2>4, <3>2
    <3>5. FingerSound(k, held)
      BY <1>14, <2>2, <3>1 DEF FingerSound, Patient
    <3>6. CallsSound(k)
      BY <2>2, <3>3 DEF CallsSound
    <3>7. MicFine(k)
      BY <3>4 DEF MicFine, MicEnds
    <3>8. TimerSound(k)
      <4>1. ~m.v.timer
        BY <1>13, <2>4, <3>1, <3>2 DEF TimerSound, Patient
      <4> QED BY <2>2, <4>1 DEF TimerSound
    <3>9. DropSound(k, dropped \ {c})
      BY <1>2, <1>5, <1>12, <2>2, <3>1, NoneIsNoCall DEF DropSound, SameSockets, Patient
    <3> QED BY <3>4, <3>5, <3>6, <3>7, <3>8, <3>9 DEF Patient
  <2>5. habits = {} => Patient(k, held', dropped') /\ ~late'
    BY <1>2, <1>3, <2>4
  <2> QED BY <1>2, <2>2, <2>3, <2>5, TalkKept
<1>15. CASE n.call[c] # "connect"
  <2>1. k = m
    BY <1>15
  <2> HIDE DEF k
  <2>2. ASSUME habits = {} PROVE Patient(m, held, dropped \ {c})
    <3>1. Patient(n, held, dropped)
      BY <1>13, <2>2
    <3>2. (m.v.phase = "idle" /\ m.v.cur = None) \/ (m.v = n.v /\ n.v.cur # c)
      BY <1>13, <2>2
    <3>3. \A d \in Calls : n.call[d] = "perm" =>
            d # c /\ n.v.cur = None /\ n.v.phase = "connecting"
      BY <1>2, <3>1 DEF Patient, CallsSound
    <3>4. n.call[c] = "free"
      BY <1>4, <1>15, <3>3
    <3>5. FingerSound(m, held)
      <4>1. CASE m.v = n.v
        <5>1. n.v.hold \in {"armed", "shows"} => m.rec = "off"
          BY <1>13, <2>2, <3>1 DEF Patient, FingerSound
        <5> QED BY <1>12, <3>1, <4>1, <5>1 DEF FingerSound, Patient
      <4>2. CASE m.v.phase = "idle" /\ m.v # n.v
        <5>1. n.v.hold \in {"armed", "shows"} => m.rec = "off"
          BY <1>13, <2>2, <3>1 DEF Patient, FingerSound
        <5> QED BY <1>12, <3>1, <4>2, <5>1 DEF FingerSound, Patient
      <4> QED BY <3>2, <4>1, <4>2
    <3>6. CallsSound(m)
      <4>1. \A d, e2 \in Calls : m.call[d] # "free" /\ m.call[e2] # "free" => d = e2
        BY <1>12, <3>1 DEF CallsSound, Patient
      <4>2. \A d \in Calls : m.call[d] # "free" => m.rec = "off" /\ m.v.phase \in {"idle", "connecting"}
        BY <1>12, <1>13, <2>2, <3>1, <3>2 DEF CallsSound, Patient
      <4>3. ASSUME NEW d \in Calls, m.call[d] = "perm"
            PROVE  m.sock[d] = "none" /\ m.v.cur = None /\ m.v.phase = "connecting"
        <5>1. d # c /\ n.v.cur = None /\ n.v.phase = "connecting" /\ n.sock[d] = "none"
          BY <1>12, <3>1, <3>3, <4>3 DEF CallsSound, Patient
        <5>2. n.v.cur # c
          BY <5>1, NoneIsNoCall
        <5>3. m = a
          BY <5>2 DEF m
        <5> QED BY <1>5, <5>1, <5>3
      <4>4. \A d \in Calls : m.call[d] = "connect" => m.sock[d] # "none"
        BY <1>5, <1>12, <1>15, <3>1 DEF CallsSound, Patient
      <4> QED BY <4>1, <4>2, <4>3, <4>4, <1>13, <2>2 DEF CallsSound
    <3>7. DropSound(m, dropped \ {c})
      BY <1>2, <1>5, <1>12, <3>1, <3>2, NoneIsNoCall DEF DropSound, Patient
    <3> QED BY <1>13, <2>2, <3>5, <3>6, <3>7 DEF Patient
  <2>3. habits = {} => Patient(k, held', dropped') /\ ~late'
    BY <1>2, <1>3, <2>1, <2>2
  <2>4. dropped' \subseteq Calls
    BY <1>2
  <2> QED BY <1>2, <1>12, <2>1, <2>3, <2>4, TalkKept
<1> QED BY <1>14, <1>15

LEMMA ResultKeeps ==
  ASSUME TalkInv, NEW c \in Calls, AsrResult(c)
  PROVE  TalkInv'
<1>1. UNCHANGED <<voice, voiceCall, sock, rec, held, dropped, habits>>
      /\ late' = (late \/ (voice.cur = c /\ ~voice.discard /\ c \in dropped))
  BY DEF AsrResult
<1>2. VoiceNow' = VoiceNow /\ VoiceNow.v = voice
  BY <1>1 DEF VoiceNow
<1>3. habits = {} => ~late'
  BY <1>1, <1>2 DEF TalkInv, Patient, DropSound
<1> QED BY <1>1, <1>2, <1>3 DEF TalkInv

LEMMA RoundEndKeeps ==
  ASSUME TalkInv, NEW c \in Calls, AsrRoundEnd(c)
  PROVE  TalkInv'
<1>1. PICK n \in Pages : n = VoiceNow /\ HasClient(n) /\ n.v = voice /\ n.call = voiceCall
                         /\ n.sock = sock /\ n.rec = rec
  BY PageNow
<1> DEFINE a == StopRecorder(n)
           b == [a EXCEPT !.v.timer = FALSE]
           e == ToIdle(b)
           m == Teardown(e)
<1>2. /\ n.v.cur = c /\ held' = held /\ dropped' = dropped /\ late' = late
      /\ held \in BOOLEAN /\ dropped \subseteq Calls /\ VoiceBecome(m)
  BY <1>1 DEF AsrRoundEnd, TalkInv
<1>3. habits = {} => Patient(n, held, dropped) /\ ~late
  BY <1>1 DEF TalkInv
<1>4. a \in Pages /\ SameButFlags(n, a)
      /\ (MicSound(n) => MicSound(a) /\ MicEnds(a) /\ (n.rec = "off" => a = n))
  BY StopRecorderDoes
<1> HIDE DEF a
<1>5. /\ b \in Pages /\ b.v = [a.v EXCEPT !.timer = FALSE]
      /\ b.call = a.call /\ b.sock = a.sock /\ b.rec = a.rec
  BY <1>4, UntimedDoes
<1> HIDE DEF b
<1>6. /\ e \in Pages /\ e.v = [b.v EXCEPT !.phase = "idle"]
      /\ e.call = b.call /\ e.sock = b.sock /\ e.rec = b.rec
  BY <1>5, ToIdleDoes
<1> HIDE DEF e
<1>7. /\ m \in Pages /\ m.v = [e.v EXCEPT !.cur = None]
      /\ m.call = e.call /\ m.rec = e.rec /\ SameSockets(e, m)
  BY <1>6, TeardownDoes
<1> HIDE DEF m
<1>8. a.v \in TalkStates
  BY <1>4, PageFields
<1>9. /\ m.v.phase = "idle" /\ m.v.cur = None /\ ~m.v.timer /\ m.v.hold = a.v.hold
      /\ m.v.isStarting = a.v.isStarting /\ m.v.isRunning = a.v.isRunning
      /\ m.v.stopAfter = a.v.stopAfter
  BY <1>5, <1>6, <1>7, <1>8 DEF TalkStates
<1>10. m.call = n.call /\ m.rec = a.rec /\ SameSockets(n, m) /\ m.v.hold = n.v.hold
  BY <1>4, <1>5, <1>6, <1>7, <1>9 DEF SameButFlags, SameSockets
<1>11. HasClient(m)
  BY <1>9 DEF HasClient
<1>12. ASSUME habits = {} PROVE Patient(m, held, dropped)
  <2>1. Patient(n, held, dropped)
    BY <1>3, <1>12
  <2>2. \A d \in Calls : n.call[d] # "perm"
    BY <1>2, <2>1, NoneIsNoCall DEF Patient, CallsSound
  <2>3. n.v.hold \notin {"armed", "shows"}
    BY <1>2, <2>1, NoneIsNoCall DEF Patient, CallsSound, FingerSound
  <2>4. FingerSound(m, held)
    BY <1>9, <1>10, <2>1, <2>3 DEF FingerSound, Patient
  <2>5. CallsSound(m)
    BY <1>4, <1>9, <1>10, <2>1, <2>2 DEF CallsSound, SameSockets, Patient
  <2>6. MicSound(m) /\ MicFine(m)
    BY <1>4, <1>9, <1>10, <2>1 DEF MicSound, MicFine, MicEnds, Patient
  <2>7. TimerSound(m) /\ DropSound(m, dropped)
    BY <1>2, <1>9, <1>10, <2>1, NoneIsNoCall DEF TimerSound, DropSound, SameSockets, Patient
  <2> QED BY <2>4, <2>5, <2>6, <2>7 DEF Patient
<1>13. habits = {} => Patient(m, held', dropped') /\ ~late'
  BY <1>2, <1>3, <1>12
<1> QED BY <1>2, <1>7, <1>11, <1>13, TalkKept

LEMMA StopTimerKeeps ==
  ASSUME TalkInv, NEW c \in Calls, StopTimer(c)
  PROVE  TalkInv'
<1>1. PICK n \in Pages : n = VoiceNow /\ HasClient(n) /\ n.v = voice /\ n.call = voiceCall
                         /\ n.sock = sock /\ n.rec = rec
  BY PageNow
<1> DEFINE m == Close(n, c)
<1>2. /\ held' = held /\ dropped' = dropped /\ late' = late
      /\ held \in BOOLEAN /\ dropped \subseteq Calls /\ VoiceBecome(m)
  BY <1>1 DEF StopTimer, TalkInv
<1>3. habits = {} => Patient(n, held, dropped) /\ ~late
  BY <1>1 DEF TalkInv
<1>4. m \in Pages /\ m.v = n.v /\ m.call = n.call /\ m.rec = n.rec /\ SameSockets(n, m)
  BY CloseDoes
<1> HIDE DEF m
<1>5. HasClient(m)
  BY <1>1, <1>4 DEF HasClient
<1>6. ASSUME habits = {} PROVE Patient(m, held, dropped)
  <2>1. FingerSound(m, held)
    BY <1>3, <1>4, <1>6 DEF FingerSound, Patient
  <2>2. CallsSound(m)
    BY <1>3, <1>4, <1>6 DEF CallsSound, SameSockets, Patient
  <2>3. MicSound(m) /\ MicFine(m)
    BY <1>3, <1>4, <1>6 DEF MicSound, MicFine, MicEnds, Patient
  <2>4. TimerSound(m) /\ DropSound(m, dropped)
    BY <1>2, <1>3, <1>4, <1>6 DEF TimerSound, DropSound, SameSockets, Patient
  <2> QED BY <2>1, <2>2, <2>3, <2>4 DEF Patient
<1>7. habits = {} => Patient(m, held', dropped') /\ ~late'
  BY <1>2, <1>3, <1>6
<1> QED BY <1>2, <1>4, <1>5, <1>7, TalkKept

LEMMA CloseTimerKeeps ==
  ASSUME TalkInv, CloseTimer
  PROVE  TalkInv'
<1>1. PICK n \in Pages : n = VoiceNow /\ HasClient(n) /\ n.v = voice /\ n.call = voiceCall
                         /\ n.sock = sock /\ n.rec = rec
  BY PageNow
<1> DEFINE a == [n EXCEPT !.v.timer = FALSE]
           b == Teardown(a)
           m == ToIdle(b)
<1>2. /\ n.v.timer /\ held' = held /\ dropped' = dropped /\ late' = late
      /\ held \in BOOLEAN /\ dropped \subseteq Calls /\ VoiceBecome(m)
  BY <1>1 DEF CloseTimer, TalkInv
<1>3. habits = {} => Patient(n, held, dropped) /\ ~late
  BY <1>1 DEF TalkInv
<1>4. /\ a \in Pages /\ a.v = [n.v EXCEPT !.timer = FALSE]
      /\ a.call = n.call /\ a.sock = n.sock /\ a.rec = n.rec
  BY UntimedDoes
<1> HIDE DEF a
<1>5. /\ b \in Pages /\ b.v = [a.v EXCEPT !.cur = None]
      /\ b.call = a.call /\ b.rec = a.rec /\ SameSockets(a, b)
  BY <1>4, TeardownDoes
<1> HIDE DEF b
<1>6. /\ m \in Pages /\ m.v = [b.v EXCEPT !.phase = "idle"]
      /\ m.call = b.call /\ m.sock = b.sock /\ m.rec = b.rec
  BY <1>5, ToIdleDoes
<1> HIDE DEF m
<1> n.v \in TalkStates
  BY PageFields
<1>7. /\ m.v.phase = "idle" /\ m.v.cur = None /\ ~m.v.timer /\ m.v.hold = n.v.hold
      /\ m.v.isStarting = n.v.isStarting /\ m.v.isRunning = n.v.isRunning
      /\ m.v.stopAfter = n.v.stopAfter
  BY <1>4, <1>5, <1>6 DEF TalkStates
<1>8. m.call = n.call /\ m.rec = n.rec /\ SameSockets(n, m)
  BY <1>4, <1>5, <1>6 DEF SameSockets
<1>9. HasClient(m)
  BY <1>7 DEF HasClient
<1>10. ASSUME habits = {} PROVE Patient(m, held, dropped)
  <2>1. Patient(n, held, dropped) /\ n.v.phase = "stopping"
    BY <1>2, <1>3, <1>10 DEF Patient, TimerSound
  <2>2. \A d \in Calls : n.call[d] = "free"
    BY <2>1 DEF Patient, CallsSound
  <2>3. FingerSound(m, held)
    BY <1>7, <1>8, <2>1 DEF FingerSound, Patient
  <2>4. CallsSound(m)
    BY <1>7, <1>8, <2>2 DEF CallsSound
  <2>5. MicSound(m) /\ MicFine(m)
    BY <1>7, <1>8, <2>1 DEF MicSound, MicFine, MicEnds, Patient
  <2>6. TimerSound(m) /\ DropSound(m, dropped)
    BY <1>2, <1>7, <1>8, <2>1, NoneIsNoCall DEF TimerSound, DropSound, SameSockets, Patient
  <2> QED BY <2>3, <2>4, <2>5, <2>6 DEF Patient
<1>11. habits = {} => Patient(m, held', dropped') /\ ~late'
  BY <1>2, <1>3, <1>10
<1> QED BY <1>2, <1>6, <1>9, <1>11, TalkKept

LEMMA StartedKeeps ==
  ASSUME TalkInv, RecStarted
  PROVE  TalkInv'
<1>1. PICK n \in Pages : n = VoiceNow /\ HasClient(n) /\ n.v = voice /\ n.call = voiceCall
                         /\ n.sock = sock /\ n.rec = rec
  BY PageNow
<1> DEFINE w == [n.v EXCEPT !.isStarting = FALSE, !.isRunning = TRUE]
           a == [n EXCEPT !.v = w, !.rec = "on"]
           x == [w EXCEPT !.stopAfter = FALSE]
           b == [a EXCEPT !.v = x]
           m == IF n.v.stopAfter THEN StopRecorder(b) ELSE a
<1> n.v \in TalkStates
  BY PageFields
<1>a. [n EXCEPT !.rec = "on", !.v.isStarting = FALSE, !.v.isRunning = TRUE] = a
  BY PageFields DEF Pages
<1>2. /\ n.rec = "starting" /\ held' = held /\ dropped' = dropped /\ late' = late
      /\ held \in BOOLEAN /\ dropped \subseteq Calls
  BY <1>1 DEF RecStarted, TalkInv
<1>3. habits = {} => Patient(n, held, dropped) /\ ~late
  BY <1>1 DEF TalkInv
<1>4. w \in TalkStates
  BY DEF TalkStates
<1>5. /\ w.phase = n.v.phase /\ w.cur = n.v.cur /\ w.discard = n.v.discard
      /\ w.stopReq = n.v.stopReq /\ w.timer = n.v.timer /\ w.hold = n.v.hold
      /\ ~w.isStarting /\ w.isRunning /\ w.stopAfter = n.v.stopAfter
  BY DEF TalkStates
<1> HIDE DEF w
<1>6. a \in Pages /\ a.v = w /\ a.call = n.call /\ a.sock = n.sock /\ a.rec = "on"
  BY <1>4, PageFields DEF Pages
<1>b. VoiceBecome(m)
  <2> DEFINE z == [n EXCEPT !.rec = "on", !.v.isStarting = FALSE, !.v.isRunning = TRUE]
  <2>1. VoiceBecome(IF n.v.stopAfter THEN StopRecorder([z EXCEPT !.v.stopAfter = FALSE]) ELSE z)
    BY <1>1 DEF RecStarted
  <2> HIDE DEF z, a
  <2>2. z = a
    BY <1>a DEF z, a
  <2>3. [a EXCEPT !.v.stopAfter = FALSE] = b
    BY <1>6
  <2> QED BY <2>1, <2>2, <2>3
<1> HIDE DEF a
<1>7. x \in TalkStates
  BY <1>4 DEF TalkStates
<1>8. /\ x.phase = w.phase /\ x.cur = w.cur /\ x.discard = w.discard
      /\ x.stopReq = w.stopReq /\ x.timer = w.timer /\ x.hold = w.hold
      /\ x.isStarting = w.isStarting /\ x.isRunning = w.isRunning
  BY <1>4 DEF TalkStates
<1> HIDE DEF x
<1>9. b \in Pages /\ b.v = x /\ b.call = n.call /\ b.sock = n.sock /\ b.rec = "on"
  BY <1>6, <1>7, Turns
<1> HIDE DEF b
<1>10. /\ StopRecorder(b) \in Pages /\ SameButFlags(b, StopRecorder(b))
       /\ MicSound(StopRecorder(b)) /\ MicEnds(StopRecorder(b))
  <2>1. MicSound(b)
    BY <1>5, <1>8, <1>9 DEF MicSound
  <2> QED BY <2>1, <1>9, StopRecorderDoes
<1>11. /\ m \in Pages
       /\ m.v.phase = n.v.phase /\ m.v.cur = n.v.cur /\ m.v.discard = n.v.discard
       /\ m.v.stopReq = n.v.stopReq /\ m.v.timer = n.v.timer /\ m.v.hold = n.v.hold
       /\ m.call = n.call /\ m.sock = n.sock /\ MicSound(m)
       /\ MicEnds(m) \/ ~n.v.stopAfter
  <2>1. CASE n.v.stopAfter
    BY <2>1, <1>5, <1>8, <1>9, <1>10 DEF SameButFlags
  <2>2. CASE ~n.v.stopAfter
    <3>1. MicSound(a)
      BY <1>5, <1>6 DEF MicSound
    <3> QED BY <2>2, <3>1, <1>5, <1>6
  <2> QED BY <2>1, <2>2
<1> HIDE DEF m
<1>12. HasClient(m)
  BY <1>1, <1>11 DEF HasClient
<1>13. ASSUME habits = {} PROVE Patient(m, held, dropped)
  <2>1. Patient(n, held, dropped)
    BY <1>3, <1>13
  <2>2. (\A d \in Calls : n.call[d] = "free") /\ n.v.hold \notin {"armed", "shows"}
    BY <1>2, <2>1 DEF Patient, CallsSound, FingerSound
  <2>3. FingerSound(m, held)
    BY <1>11, <2>1, <2>2 DEF FingerSound, Patient
  <2>4. CallsSound(m)
    BY <1>11, <2>1, <2>2 DEF CallsSound, Patient
  <2>5. MicFine(m)
    BY <1>2, <1>11, <2>1 DEF MicFine, MicEnds, Patient
  <2>6. TimerSound(m) /\ DropSound(m, dropped)
    BY <1>11, <2>1 DEF TimerSound, DropSound, Patient
  <2> QED BY <1>11, <2>3, <2>4, <2>5, <2>6 DEF Patient
<1>14. habits = {} => Patient(m, held', dropped') /\ ~late'
  BY <1>2, <1>3, <1>13
<1> QED BY <1>b, <1>2, <1>11, <1>12, <1>14, TalkKept

LEMMA RecStoppedKeeps ==
  ASSUME TalkInv, RecStopped
  PROVE  TalkInv'
<1>1. PICK n \in Pages : n = VoiceNow /\ HasClient(n) /\ n.v = voice /\ n.call = voiceCall
                         /\ n.sock = sock /\ n.rec = rec
  BY PageNow
<1> DEFINE a == [n EXCEPT !.rec = "off"]
           m == Flags(a)
<1>2. /\ n.rec = "stopping" /\ held' = held /\ dropped' = dropped /\ late' = late
      /\ held \in BOOLEAN /\ dropped \subseteq Calls /\ VoiceBecome(m)
  BY <1>1 DEF RecStopped, TalkInv
<1>3. habits = {} => Patient(n, held, dropped) /\ ~late
  BY <1>1 DEF TalkInv
<1>4. a \in Pages /\ a.v = n.v /\ a.call = n.call /\ a.sock = n.sock /\ a.rec = "off"
  BY DEF Pages
<1> HIDE DEF a
<1>5. /\ m \in Pages /\ SameButFlags(a, m) /\ m.rec = "off"
      /\ ~m.v.isStarting /\ ~m.v.isRunning
  BY <1>4, FlagsDoes
<1> HIDE DEF m
<1>6. HasClient(m)
  BY <1>1, <1>4, <1>5 DEF HasClient, SameButFlags
<1>7. ASSUME habits = {} PROVE Patient(m, held, dropped)
  <2>1. FingerSound(m, held)
    BY <1>3, <1>4, <1>5, <1>7 DEF FingerSound, SameButFlags, Patient
  <2>2. CallsSound(m)
    BY <1>3, <1>4, <1>5, <1>7 DEF CallsSound, SameButFlags, Patient
  <2>3. MicSound(m) /\ MicFine(m)
    BY <1>5 DEF MicSound, MicFine, MicEnds
  <2>4. TimerSound(m) /\ DropSound(m, dropped)
    BY <1>3, <1>4, <1>5, <1>7 DEF TimerSound, DropSound, SameButFlags, Patient
  <2> QED BY <2>1, <2>2, <2>3, <2>4 DEF Patient
<1>8. habits = {} => Patient(m, held', dropped') /\ ~late'
  BY <1>2, <1>3, <1>7
<1> QED BY <1>2, <1>5, <1>6, <1>8, TalkKept

LEMMA RecErrorKeeps ==
  ASSUME TalkInv, RecError
  PROVE  TalkInv'
<1>1. PICK n \in Pages : n = VoiceNow /\ HasClient(n) /\ n.v = voice /\ n.call = voiceCall
                         /\ n.sock = sock /\ n.rec = rec
  BY PageNow
<1> DEFINE a == [n EXCEPT !.rec = "off"]
           b == Flags(a)
           e == Teardown(b)
           m == ToIdle(e)
<1>2. /\ "breaks" \in habits /\ held' = held /\ dropped' = dropped
      /\ held \in BOOLEAN /\ dropped \subseteq Calls /\ VoiceBecome(m)
  BY <1>1 DEF RecError, TalkInv
<1>3. a \in Pages
  BY DEF Pages
<1> HIDE DEF a
<1>4. b \in Pages
  BY <1>3, FlagsDoes
<1> HIDE DEF b
<1>5. e \in Pages
  BY <1>4, TeardownDoes
<1> HIDE DEF e
<1>6. m \in Pages /\ m.v = [e.v EXCEPT !.phase = "idle"]
  BY <1>5, ToIdleDoes
<1> HIDE DEF m
<1>7. HasClient(m)
  BY <1>5, <1>6, PageFields DEF HasClient, TalkStates
<1> QED BY <1>2, <1>6, <1>7, TalkKept

-----------------------------------------------------------------------------
LEMMA TalkStep ==
  ASSUME TalkInv, [DictationNext]_dictationVars
  PROVE  TalkInv'
<1>1. CASE UNCHANGED dictationVars
  BY <1>1 DEF dictationVars, TalkInv, VoiceNow
<1>2. CASE DictationNext
  BY <1>2, PressKeeps, HoldTimerKeeps, PanelShownKeeps, ReleaseKeeps, LeaveDraftKeeps, HideKeeps,
     PermissionKeeps, ReadyKeeps, FailsKeeps, ClosedKeeps, ResultKeeps, RoundEndKeeps,
     StopTimerKeeps, CloseTimerKeeps, StartedKeeps, RecStoppedKeeps, RecErrorKeeps
     DEF DictationNext
<1> QED BY <1>1, <1>2

LEMMA TalkHolds == DictationSpec => []TalkInv
<1>1. ASSUME DictationInit PROVE TalkInv
  <2> DEFINE w == [phase |-> "idle", cur |-> None, discard |-> FALSE, stopReq |-> FALSE,
                   timer |-> FALSE, isStarting |-> FALSE, isRunning |-> FALSE,
                   stopAfter |-> FALSE, hold |-> "no", panel |-> FALSE]
  <2>1. voice = w /\ voiceCall = [c \in Calls |-> "free"] /\ sock = [c \in Calls |-> "none"]
        /\ rec = "off" /\ held = FALSE /\ dropped = {} /\ late = FALSE
    BY <1>1 DEF DictationInit
  <2>2. w \in TalkStates
    BY DEF TalkStates
  <2>3. /\ w.phase = "idle" /\ w.cur = None /\ ~w.timer /\ w.hold = "no"
        /\ ~w.isStarting /\ ~w.isRunning
    OBVIOUS
  <2> HIDE DEF w
  <2>4. VoiceNow \in Pages
    BY <2>1, <2>2 DEF Pages, VoiceNow
  <2>5. VoiceNow.v = w /\ VoiceNow.call = voiceCall /\ VoiceNow.sock = sock /\ VoiceNow.rec = rec
    BY <2>1 DEF VoiceNow
  <2>6. FingerSound(VoiceNow, held) /\ CallsSound(VoiceNow)
    BY <2>1, <2>3, <2>5 DEF FingerSound, CallsSound
  <2>7. MicSound(VoiceNow) /\ MicFine(VoiceNow) /\ TimerSound(VoiceNow) /\ DropSound(VoiceNow, dropped)
    BY <2>1, <2>3, <2>5 DEF MicSound, MicFine, MicEnds, TimerSound, DropSound
  <2>8. HasClient(VoiceNow)
    BY <2>3, <2>5 DEF HasClient
  <2> QED BY <2>1, <2>4, <2>6, <2>7, <2>8 DEF TalkInv, Patient
<1> QED BY <1>1, TalkStep, PTL DEF DictationSpec

\* The mini program records under the finger only, gives the microphone back, and
\* writes nothing of a cancelled round, whatever the number of calls under way.
THEOREM DictationStaysHeld == DictationSpec => []DictationIsHeld
<1>1. ASSUME TalkInv PROVE DictationIsHeld
  <2>1. /\ VoiceNow.v = voice /\ VoiceNow.rec = rec /\ HasClient(VoiceNow)
        /\ (habits = {} => Patient(VoiceNow, held, dropped) /\ ~late)
    BY <1>1, PageNow DEF TalkInv
  <2>2. RecordingHasClient
    BY <2>1 DEF RecordingHasClient, HasClient
  <2>3. ASSUME habits = {}
        PROVE  NoTextAfterCancel /\ RecordingIsHeld /\ MicIsWanted /\ TimerIsOfRound
    BY <2>1, <2>3 DEF NoTextAfterCancel, RecordingIsHeld, MicIsWanted, TimerIsOfRound, Patient,
       FingerSound, MicFine, MicEnds, TimerSound
  <2> QED BY <2>2, <2>3 DEF DictationIsHeld
<1> QED BY <1>1, TalkHolds, PTL
-----------------------------------------------------------------------------
(* What the mini program reads aloud (MiniSpeech), for any number of jobs,       *)
(* instances and segments.                                                       *)

TtsStates ==
  [enabled : BOOLEAN, codex : BOOLEAN, round : {"none", "quiet", "changed", "confirm"},
   job : Playbacks \cup {NoJob}, q : [Segs -> {"new", "local", "remote"}], idx : 0 .. LastSeg,
   phase : {"idle", "stopping", "loading", "playing", "advancing"}, pending : BOOLEAN,
   load : BOOLEAN, inst : Insts \cup {None},
   state : {"idle", "preparing", "playing", "error"}]
Readings ==
  [t : TtsStates, aud : [Insts -> {"free", "idle", "loading", "playing", "stopping"}],
   asked : SUBSET (Playbacks \X Segs), call : [Playbacks -> 0 .. LastSeg]]

\* An instance that is not free or being stopped is the page's.
OneInstance(n) == \A i \in Insts : n.aud[i] \in {"idle", "loading", "playing"} => n.t.inst = i
\* No instance plays, or the job of the page, which is being played.
PlaysOwn(n) ==
  \A i \in Insts : n.aud[i] = "playing" => n.t.job # NoJob /\ n.t.phase = "playing"
LoadsOwn(n) == n.t.phase = "loading" => n.t.job # NoJob
Guarded(n) == n.t.load <=> n.t.phase = "loading"
Busy(n) == n.t.state \in {"preparing", "playing"} => n.t.job # NoJob
\* A job that waits for a segment plays none.
WaitsQuietly(n) ==
  n.t.job # NoJob /\ n.call[n.t.job] # 0 =>
     n.t.phase \notin {"loading", "playing"} /\ \A i \in Insts : n.aud[i] \notin {"loading", "playing"}

ReadingSound(n) ==
  /\ n \in Readings /\ OneInstance(n) /\ PlaysOwn(n) /\ LoadsOwn(n) /\ Guarded(n) /\ Busy(n)
  /\ WaitsQuietly(n)
ReadingInv == ReadingSound(ReadingNow)

\* No instance plays, and none is about to.
Silent(n) == \A i \in Insts : n.aud[i] \notin {"loading", "playing"}

-----------------------------------------------------------------------------
(* The helpers of the page. *)

LEMMA ReadingFields ==
  ASSUME NEW n \in Readings
  PROVE  /\ n.t \in TtsStates /\ n.asked \in SUBSET (Playbacks \X Segs)
         /\ n.aud \in [Insts -> {"free", "idle", "loading", "playing", "stopping"}]
         /\ n.call \in [Playbacks -> 0 .. LastSeg]
         /\ n = [t |-> n.t, aud |-> n.aud, asked |-> n.asked, call |-> n.call]
BY DEF Readings

LEMMA ReadingTurns ==
  ASSUME NEW n \in Readings, NEW w \in TtsStates
  PROVE  LET m == [n EXCEPT !.t = w] IN
         m \in Readings /\ m.t = w /\ m.aud = n.aud /\ m.asked = n.asked /\ m.call = n.call
BY DEF Readings

\* What is drawn of a job and its segments; the rest is the round and the switches.
LEMMA ShowDoes ==
  ASSUME NEW n \in Readings, NEW s \in {"idle", "preparing", "playing", "error"}
  PROVE  LET m == Show(n, s) IN
         /\ m \in Readings /\ m.t = [n.t EXCEPT !.state = s]
         /\ m.aud = n.aud /\ m.asked = n.asked /\ m.call = n.call
<1> DEFINE w == [n.t EXCEPT !.state = s]
<1> n.t \in TtsStates
  BY ReadingFields
<1>1. w \in TtsStates
  BY DEF TtsStates
<1>2. Show(n, s) = [n EXCEPT !.t = w]
  BY DEF Show
<1> HIDE DEF w
<1>3. LET m == [n EXCEPT !.t = w] IN
      m \in Readings /\ m.t = w /\ m.aud = n.aud /\ m.asked = n.asked /\ m.call = n.call
  BY <1>1, ReadingTurns
<1> QED BY <1>2, <1>3 DEF w

LEMMA ClearQueueDoes ==
  ASSUME NEW n \in Readings
  PROVE  LET m == ClearQueue(n) IN
         /\ m \in Readings /\ m.aud = n.aud /\ m.asked = n.asked /\ m.call = n.call
         /\ m.t.job = NoJob /\ m.t.phase = "idle" /\ m.t.load = FALSE
         /\ m.t.inst = n.t.inst /\ m.t.state = n.t.state /\ m.t.round = n.t.round
         /\ m.t.enabled = n.t.enabled
<1> DEFINE w == [n.t EXCEPT !.load = FALSE, !.job = NoJob, !.q = Fresh, !.idx = 0,
                            !.pending = FALSE, !.phase = "idle"]
<1> n.t \in TtsStates
  BY ReadingFields
<1>a. Fresh \in [Segs -> {"new", "local", "remote"}] /\ 0 \in 0 .. LastSeg
  BY ReadingAssumption DEF Fresh
<1>1. w \in TtsStates
  BY <1>a DEF TtsStates
<1>2. ClearQueue(n) = [n EXCEPT !.t = w]
  BY DEF ClearQueue
<1>3. /\ w.job = NoJob /\ w.phase = "idle" /\ w.load = FALSE /\ w.inst = n.t.inst
      /\ w.state = n.t.state /\ w.round = n.t.round /\ w.enabled = n.t.enabled
  BY DEF TtsStates
<1> HIDE DEF w
<1>4. LET m == [n EXCEPT !.t = w] IN
      m \in Readings /\ m.t = w /\ m.aud = n.aud /\ m.asked = n.asked /\ m.call = n.call
  BY <1>1, ReadingTurns
<1> QED BY <1>2, <1>3, <1>4

LEMMA StopAudioDoes ==
  ASSUME NEW n \in Readings, OneInstance(n)
  PROVE  LET m == StopAudio(n) IN
         /\ m \in Readings /\ m.t = n.t /\ m.asked = n.asked /\ m.call = n.call
         /\ OneInstance(m) /\ Silent(m)
<1>1. CASE n.t.inst # None /\ n.aud[n.t.inst] \in {"loading", "playing"}
  <2>1. n.t.inst \in Insts
    BY <1>1, ReadingFields DEF TtsStates
  <2>2. PICK i \in Insts : i = n.t.inst
    BY <2>1
  <2>3. StopAudio(n) = [n EXCEPT !.aud[i] = "stopping"]
    BY <1>1, <2>2 DEF StopAudio
  <2>4. StopAudio(n) \in Readings /\ StopAudio(n).t = n.t /\ StopAudio(n).asked = n.asked
        /\ StopAudio(n).call = n.call /\ StopAudio(n).aud = [n.aud EXCEPT ![i] = "stopping"]
    BY <2>3, ReadingFields DEF Readings
  <2> QED BY <2>2, <2>4, ReadingFields DEF OneInstance, Silent
<1>2. CASE ~(n.t.inst # None /\ n.aud[n.t.inst] \in {"loading", "playing"})
  <2>1. StopAudio(n) = n
    BY <1>2 DEF StopAudio
  <2>2. Silent(n)
    BY <1>2, ReadingAssumption DEF OneInstance, Silent
  <2> QED BY <2>1, <2>2
<1> QED BY <1>1, <1>2

LEMMA ReleaseDoes ==
  ASSUME NEW n \in Readings, OneInstance(n)
  PROVE  LET m == ReadingRelease(n) IN
         /\ m \in Readings /\ m.t = [n.t EXCEPT !.inst = None]
         /\ m.asked = n.asked /\ m.call = n.call
         /\ \A i \in Insts : m.aud[i] \in {"free", "stopping"}
<1> n.t \in TtsStates /\ n.aud \in [Insts -> {"free", "idle", "loading", "playing", "stopping"}]
  BY ReadingFields
<1>1. CASE n.t.inst = None
  <2>1. [n.t EXCEPT !.inst = None] = n.t
    BY <1>1 DEF TtsStates
  <2>2. \A i \in Insts : n.aud[i] \in {"free", "stopping"}
    BY <1>1, ReadingAssumption DEF OneInstance
  <2> QED BY <1>1, <2>1, <2>2 DEF ReadingRelease
<1>2. CASE n.t.inst # None
  <2>1. n.t.inst \in Insts
    BY <1>2 DEF TtsStates
  <2>2. PICK i \in Insts : i = n.t.inst
    BY <2>1
  <2> DEFINE m == StopAudio(n)
             w == [n.t EXCEPT !.inst = None]
             a == [m.aud EXCEPT ![i] = IF @ = "idle" THEN "free" ELSE @]
  <2>3. /\ m \in Readings /\ m.t = n.t /\ m.asked = n.asked /\ m.call = n.call
        /\ OneInstance(m) /\ Silent(m)
    BY StopAudioDoes
  <2>4. ReadingRelease(n) = [m EXCEPT !.aud[i] = IF @ = "idle" THEN "free" ELSE @, !.t.inst = None]
    BY <1>2, <2>2 DEF ReadingRelease
  <2> HIDE DEF m
  <2>5. w \in TtsStates
    BY DEF TtsStates
  <2>6. m.aud \in [Insts -> {"free", "idle", "loading", "playing", "stopping"}]
    BY <2>3, ReadingFields
  <2>7. a \in [Insts -> {"free", "idle", "loading", "playing", "stopping"}]
        /\ \A d \in Insts : a[d] \in {"free", "stopping"}
    BY <2>2, <2>3, <2>6 DEF OneInstance, Silent
  <2>8. /\ ReadingRelease(n).t = w /\ ReadingRelease(n).aud = a /\ ReadingRelease(n).asked = n.asked
        /\ ReadingRelease(n).call = n.call
        /\ ReadingRelease(n) = [t |-> w, aud |-> a, asked |-> n.asked, call |-> n.call]
    BY <2>3, <2>4, ReadingFields DEF Readings
  <2> HIDE DEF w, a
  <2>9. ReadingRelease(n) \in Readings
    BY <2>5, <2>7, <2>8, ReadingFields DEF Readings
  <2> QED BY <2>7, <2>8, <2>9 DEF w
<1> QED BY <1>1, <1>2

LEMMA StopPlaybackDoes ==
  ASSUME NEW n \in Readings, OneInstance(n)
  PROVE  LET m == StopPlayback(n) IN
         /\ m \in Readings /\ m.asked = n.asked /\ m.call = n.call
         /\ OneInstance(m) /\ Silent(m)
         /\ m.t.job = NoJob /\ m.t.phase \in {"idle", "stopping"} /\ m.t.load = FALSE
         /\ m.t.state = n.t.state /\ m.t.round = n.t.round /\ m.t.enabled = n.t.enabled
<1> DEFINE k == ClearQueue(n)
<1>1. /\ k \in Readings /\ k.aud = n.aud /\ k.asked = n.asked /\ k.call = n.call
      /\ k.t.job = NoJob /\ k.t.phase = "idle" /\ k.t.load = FALSE
      /\ k.t.inst = n.t.inst /\ k.t.state = n.t.state /\ k.t.round = n.t.round
      /\ k.t.enabled = n.t.enabled
  BY ClearQueueDoes
<1>2. StopPlayback(n) = IF n.t.inst = None THEN k
                        ELSE StopAudio([k EXCEPT !.t.phase = "stopping"])
  BY DEF StopPlayback
<1> HIDE DEF k
<1>3. CASE n.t.inst = None
  <2>1. OneInstance(k) /\ Silent(k)
    BY <1>1, <1>3, ReadingAssumption DEF OneInstance, Silent
  <2> QED BY <1>1, <1>2, <1>3, <2>1
<1>4. CASE n.t.inst # None
  <2> DEFINE w == [k.t EXCEPT !.phase = "stopping"]
             p == [k EXCEPT !.t = w]
  <2> k.t \in TtsStates
    BY <1>1, ReadingFields
  <2>1. w \in TtsStates
    BY DEF TtsStates
  <2>2. /\ w.job = NoJob /\ w.phase = "stopping" /\ w.load = FALSE /\ w.inst = n.t.inst
        /\ w.state = n.t.state /\ w.round = n.t.round /\ w.enabled = n.t.enabled
    BY <1>1 DEF TtsStates
  <2>3. StopPlayback(n) = StopAudio(p)
    BY <1>2, <1>4
  <2> HIDE DEF w
  <2>4. p \in Readings /\ p.t = w /\ p.aud = k.aud /\ p.asked = k.asked /\ p.call = k.call
    BY <1>1, <2>1, ReadingTurns
  <2> HIDE DEF p
  <2>5. OneInstance(p)
    BY <1>1, <2>2, <2>4 DEF OneInstance
  <2> QED BY <1>1, <2>2, <2>3, <2>4, <2>5, StopAudioDoes
<1> QED BY <1>3, <1>4

\* A page that plays nothing and has no job is sound.
LEMMA QuietIsSound ==
  ASSUME NEW n \in Readings, OneInstance(n), Silent(n), n.t.job = NoJob, n.t.load = FALSE,
         n.t.phase # "loading", n.t.state \in {"idle", "error"}
  PROVE  ReadingSound(n)
BY DEF ReadingSound, PlaysOwn, LoadsOwn, Guarded, Busy, WaitsQuietly, Silent

LEMMA FailIsSound ==
  ASSUME NEW n \in Readings, OneInstance(n)
  PROVE  ReadingSound(FailPlayback(n))
<1> DEFINE a == StopAudio(n)
           b == ClearQueue(a)
           m == Show(b, "error")
<1>1. a \in Readings /\ OneInstance(a) /\ Silent(a)
  BY StopAudioDoes
<1>2. FailPlayback(n) = m
  BY DEF FailPlayback
<1> HIDE DEF a
<1>3. /\ b \in Readings /\ b.aud = a.aud /\ b.t.job = NoJob /\ b.t.phase = "idle"
      /\ b.t.load = FALSE /\ b.t.inst = a.t.inst
  BY <1>1, ClearQueueDoes
<1> HIDE DEF b
<1>4. m \in Readings /\ m.t = [b.t EXCEPT !.state = "error"] /\ m.aud = b.aud
  BY <1>3, ShowDoes
<1> HIDE DEF m
<1>5. /\ m.t.job = NoJob /\ m.t.phase = "idle" /\ m.t.load = FALSE /\ m.t.inst = b.t.inst
      /\ m.t.state = "error"
  BY <1>3, <1>4, ReadingFields DEF TtsStates
<1>6. OneInstance(m) /\ Silent(m)
  BY <1>1, <1>3, <1>4, <1>5 DEF OneInstance, Silent
<1> QED BY <1>2, <1>4, <1>5, <1>6, QuietIsSound

\* A segment is loaded for the job of the page, which waits for nothing else.
LEMMA LoadIsSound ==
  ASSUME NEW n \in Readings, OneInstance(n), NEW i \in Insts, NEW k \in Segs,
         n.t.job # NoJob, n.call[n.t.job] = 0
  PROVE  ReadingSound(Load(n, i, k))
<1> DEFINE r == ReadingRelease(n)
           w == [r.t EXCEPT !.inst = i, !.idx = k, !.pending = TRUE, !.phase = "loading",
                            !.load = TRUE, !.state = "preparing"]
           a == [r.aud EXCEPT ![i] = "loading"]
           m == Load(n, i, k)
<1>1. /\ r \in Readings /\ r.t = [n.t EXCEPT !.inst = None] /\ r.asked = n.asked
      /\ r.call = n.call /\ \A d \in Insts : r.aud[d] \in {"free", "stopping"}
  BY ReleaseDoes
<1>2. m = [r EXCEPT !.t.inst = i, !.aud[i] = "loading", !.t.idx = k, !.t.pending = TRUE,
                    !.t.phase = "loading", !.t.load = TRUE, !.t.state = "preparing"]
  BY DEF Load
<1>3. r.t.job = n.t.job
  BY <1>1, ReadingFields DEF TtsStates
<1> HIDE DEF r
<1> r.t \in TtsStates /\ r.aud \in [Insts -> {"free", "idle", "loading", "playing", "stopping"}]
  BY <1>1, ReadingFields
<1>a. k \in 0 .. LastSeg
  BY ReadingAssumption DEF Segs
<1>4. w \in TtsStates
  BY <1>a DEF TtsStates
<1>5. /\ w.inst = i /\ w.phase = "loading" /\ w.load = TRUE /\ w.state = "preparing"
      /\ w.job = n.t.job
  BY <1>3 DEF TtsStates
<1>6. m = [t |-> w, aud |-> a, asked |-> r.asked, call |-> r.call]
  <2>1. r = [t |-> r.t, aud |-> r.aud, asked |-> r.asked, call |-> r.call]
    BY <1>1, ReadingFields
  <2>2. m.t = w /\ m.aud = a /\ m.asked = r.asked /\ m.call = r.call
    BY <1>2, <2>1
  <2> HIDE DEF w, a
  <2>3. m = [t |-> m.t, aud |-> m.aud, asked |-> m.asked, call |-> m.call]
    BY <1>2, <2>1
  <2> QED BY <2>2, <2>3
<1> HIDE DEF w, m
<1>7. a \in [Insts -> {"free", "idle", "loading", "playing", "stopping"}]
      /\ \A d \in Insts : a[d] = IF d = i THEN "loading" ELSE r.aud[d]
  OBVIOUS
<1> HIDE DEF a
<1>8. m \in Readings /\ m.t = w /\ m.aud = a /\ m.call = n.call
  BY <1>1, <1>4, <1>6, <1>7, ReadingFields DEF Readings
<1>9. OneInstance(m) /\ PlaysOwn(m)
  BY <1>1, <1>5, <1>7, <1>8 DEF OneInstance, PlaysOwn
<1>10. LoadsOwn(m) /\ Guarded(m) /\ Busy(m)
  BY <1>5, <1>8 DEF LoadsOwn, Guarded, Busy
<1>11. WaitsQuietly(m)
  BY <1>5, <1>8 DEF WaitsQuietly
<1> QED BY <1>8, <1>9, <1>10, <1>11 DEF ReadingSound, m

-----------------------------------------------------------------------------
(* The steps of a job.  ReadingBecome makes the page what a helper returned.     *)

LEMMA BecomesSound ==
  ASSUME NEW n, ReadingSound(n), ReadingBecome(n)
  PROVE  ReadingInv'
<1>1. n \in Readings
  BY DEF ReadingSound
<1>2. n = [t |-> n.t, aud |-> n.aud, asked |-> n.asked, call |-> n.call]
  BY <1>1, ReadingFields
<1>3. ReadingNow' = n
  BY <1>2 DEF ReadingBecome, ReadingNow
<1> QED BY <1>3 DEF ReadingInv

LEMMA ReadingPage ==
  ASSUME ReadingInv
  PROVE  \E n \in Readings : /\ n = ReadingNow /\ ReadingSound(n)
                             /\ n.t = t /\ n.aud = aud /\ n.asked = asked /\ n.call = readingCall
BY DEF ReadingInv, ReadingSound, ReadingNow

\* A page that plays nothing, whose job is about to go on.
Ready(n) == /\ OneInstance(n) /\ Silent(n) /\ n.t.job # NoJob /\ n.t.load = FALSE
            /\ n.t.phase \notin {"loading", "playing"} /\ n.call[n.t.job] = 0

LEMMA PlaySegmentSound ==
  ASSUME NEW n \in Readings, Ready(n), NEW k \in Segs, PlaySegment(n, k)
  PROVE  ReadingInv'
<1>1. n.t.job \in Playbacks
  BY ReadingFields DEF Ready, TtsStates
<1>2. CASE n.t.q[k] = "new"
  <2>1. PICK j \in Playbacks : j = n.t.job
    BY <1>1
  <2> DEFINE p == [n.call EXCEPT ![j] = k]
             s == n.asked \cup {<<j, k>>}
             m == [t |-> n.t, aud |-> n.aud, asked |-> s, call |-> p]
  <2>2. [Ask(n, n.t.job, k) EXCEPT !.call[n.t.job] = k] = m
    <3>1. n = [t |-> n.t, aud |-> n.aud, asked |-> n.asked, call |-> n.call]
      BY ReadingFields
    <3>2. Ask(n, j, k) = [t |-> n.t, aud |-> n.aud, asked |-> s, call |-> n.call]
      BY <3>1 DEF Ask
    <3> HIDE DEF s
    <3> QED BY <2>1, <3>2
  <2>3. ReadingBecome(m)
    BY <1>2, <2>2 DEF PlaySegment
  <2>4. p \in [Playbacks -> 0 .. LastSeg] /\ s \in SUBSET (Playbacks \X Segs)
    BY ReadingFields, ReadingAssumption DEF Segs
  <2> HIDE DEF p, s
  <2>5. m \in Readings /\ m.t = n.t /\ m.aud = n.aud
    BY <2>4, ReadingFields DEF Readings
  <2> HIDE DEF m
  <2>6. ReadingSound(m)
    BY <2>5 DEF Ready, ReadingSound, OneInstance, PlaysOwn, LoadsOwn, Guarded, Busy, WaitsQuietly,
       Silent
  <2> QED BY <2>3, <2>6, BecomesSound
<1>3. CASE n.t.q[k] # "new"
  <2>1. PICK i \in Insts : ReadingBecome(Load(n, i, k))
    BY <1>3 DEF PlaySegment
  <2>2. ReadingSound(Load(n, i, k))
    BY LoadIsSound DEF Ready
  <2> QED BY <2>1, <2>2, BecomesSound
<1> QED BY <1>2, <1>3

LEMMA RetryOrFailSound ==
  ASSUME NEW n \in Readings, OneInstance(n), n.t.job # NoJob, n.call[n.t.job] = 0, RetryOrFail(n)
  PROVE  ReadingInv'
<1>1. CASE n.t.idx # 0 /\ n.t.q[n.t.idx] = "local"
  <2>1. n.t \in TtsStates /\ n.t.idx \in Segs
    BY <1>1, ReadingFields, ReadingAssumption DEF TtsStates, Segs
  <2>2. PICK k \in Segs : k = n.t.idx
    BY <2>1
  <2> DEFINE u == [n.t.q EXCEPT ![k] = "remote"]
             w == [n.t EXCEPT !.q = u]
             m == [n EXCEPT !.t = w]
  <2>3. u \in [Segs -> {"new", "local", "remote"}]
    BY <2>1 DEF TtsStates
  <2>4. PICK i \in Insts : ReadingBecome(Load(m, i, k))
    <3>1. [n EXCEPT !.t.q[n.t.idx] = "remote"] = m
      BY <2>2
    <3> HIDE DEF m
    <3> QED BY <1>1, <2>2, <3>1 DEF RetryOrFail
  <2> HIDE DEF u
  <2>5. w \in TtsStates /\ w.job = n.t.job /\ w.inst = n.t.inst
    BY <2>1, <2>3 DEF TtsStates
  <2> HIDE DEF w
  <2>6. m \in Readings /\ m.t = w /\ m.aud = n.aud /\ m.call = n.call
    BY <2>5, ReadingTurns
  <2> HIDE DEF m
  <2>7. OneInstance(m)
    BY <2>5, <2>6 DEF OneInstance
  <2>8. ReadingSound(Load(m, i, k))
    BY <2>5, <2>6, <2>7, LoadIsSound
  <2> QED BY <2>4, <2>8, BecomesSound
<1>2. CASE ~(n.t.idx # 0 /\ n.t.q[n.t.idx] = "local")
  <2>1. ReadingBecome(FailPlayback(n))
    BY <1>2 DEF RetryOrFail
  <2> QED BY <2>1, FailIsSound, BecomesSound
<1> QED BY <1>1, <1>2

-----------------------------------------------------------------------------
(* The steps of the page. *)

\* A step that touches only the round, or what is shown.
LEMMA RoundKeeps ==
  ASSUME NEW n \in Readings, ReadingSound(n), NEW w \in TtsStates,
         w.job = n.t.job, w.phase = n.t.phase, w.load = n.t.load, w.inst = n.t.inst,
         w.state \in {n.t.state, "idle", "error"}
  PROVE  ReadingSound([n EXCEPT !.t = w])
<1> DEFINE m == [n EXCEPT !.t = w]
<1>1. m \in Readings /\ m.t = w /\ m.aud = n.aud /\ m.asked = n.asked /\ m.call = n.call
  BY ReadingTurns
<1> HIDE DEF m
<1>2. ReadingSound(m)
  BY <1>1 DEF ReadingSound, OneInstance, PlaysOwn, LoadsOwn, Guarded, Busy, WaitsQuietly
<1> QED BY <1>2 DEF m

\* A page that stopped its playback and forgot its job.
LEMMA StoppedSound ==
  ASSUME NEW n \in Readings, OneInstance(n), NEW s \in {"idle", "error"}
  PROVE  ReadingSound(Show(StopPlayback(n), s))
<1> DEFINE k == StopPlayback(n)
           m == Show(k, s)
<1>1. /\ k \in Readings /\ OneInstance(k) /\ Silent(k)
      /\ k.t.job = NoJob /\ k.t.phase \in {"idle", "stopping"} /\ k.t.load = FALSE
  BY StopPlaybackDoes
<1> HIDE DEF k
<1>2. m \in Readings /\ m.t = [k.t EXCEPT !.state = s] /\ m.aud = k.aud
  <2>1. s \in {"idle", "preparing", "playing", "error"}
    OBVIOUS
  <2> QED BY <1>1, <2>1, ShowDoes
<1> HIDE DEF m
<1>3. /\ m.t.job = NoJob /\ m.t.phase # "loading" /\ m.t.load = FALSE /\ m.t.state = s
      /\ m.t.inst = k.t.inst
  BY <1>1, <1>2, ReadingFields DEF TtsStates
<1>4. OneInstance(m) /\ Silent(m)
  BY <1>1, <1>2, <1>3 DEF OneInstance, Silent
<1>5. ReadingSound(m)
  BY <1>2, <1>3, <1>4, QuietIsSound
<1> QED BY <1>5 DEF m, k

\* A new value of the round alone.
LEMMA RoundDoes ==
  ASSUME NEW n \in Readings, NEW r \in {"none", "quiet", "changed", "confirm"}
  PROVE  LET m == [n EXCEPT !.t.round = r] IN
         /\ m \in Readings /\ m.t = [n.t EXCEPT !.round = r]
         /\ m.aud = n.aud /\ m.asked = n.asked /\ m.call = n.call
         /\ (OneInstance(n) => OneInstance(m)) /\ (ReadingSound(n) => ReadingSound(m))
<1> DEFINE w == [n.t EXCEPT !.round = r]
           m == [n EXCEPT !.t = w]
<1> n.t \in TtsStates
  BY ReadingFields
<1>1. w \in TtsStates
  BY DEF TtsStates
<1>2. w.job = n.t.job /\ w.phase = n.t.phase /\ w.load = n.t.load /\ w.inst = n.t.inst
      /\ w.state = n.t.state
  BY DEF TtsStates
<1> HIDE DEF w
<1>3. m \in Readings /\ m.t = w /\ m.aud = n.aud /\ m.asked = n.asked /\ m.call = n.call
  BY <1>1, ReadingTurns
<1>4. ReadingSound(n) => ReadingSound(m)
  BY <1>1, <1>2, RoundKeeps
<1> HIDE DEF m
<1>5. OneInstance(n) => OneInstance(m)
  BY <1>2, <1>3 DEF OneInstance
<1> QED BY <1>3, <1>4, <1>5 DEF w, m

LEMMA StartRoundKeeps ==
  ASSUME ReadingInv, StartRound
  PROVE  ReadingInv'
<1>1. PICK n \in Readings : n = ReadingNow /\ ReadingSound(n)
  BY ReadingPage
<1> DEFINE m == [n EXCEPT !.t.round = "quiet"]
<1>2. m \in Readings /\ OneInstance(m)
  BY <1>1, RoundDoes DEF ReadingSound
<1>3. ReadingBecome(Show(StopPlayback(m), "idle"))
  BY <1>1 DEF StartRound
<1> HIDE DEF m
<1> QED BY <1>2, <1>3, StoppedSound, BecomesSound

LEMMA OutputAppendedKeeps ==
  ASSUME ReadingInv, OutputAppended
  PROVE  ReadingInv'
<1>1. PICK n \in Readings : n = ReadingNow /\ ReadingSound(n)
  BY ReadingPage
<1> DEFINE w == [n.t EXCEPT !.round = "changed", !.state = IF @ = "preparing" THEN "idle" ELSE @]
<1> n.t \in TtsStates
  BY ReadingFields
<1>2. /\ w \in TtsStates /\ w.job = n.t.job /\ w.phase = n.t.phase /\ w.load = n.t.load
      /\ w.inst = n.t.inst /\ w.state \in {n.t.state, "idle", "error"}
  BY DEF TtsStates
<1>3. ReadingBecome([n EXCEPT !.t = w])
  BY <1>1 DEF OutputAppended
<1> HIDE DEF w
<1> QED BY <1>1, <1>2, <1>3, RoundKeeps, BecomesSound

LEMMA StableTimerKeeps ==
  ASSUME ReadingInv, StableTimer
  PROVE  ReadingInv'
<1>1. PICK n \in Readings : n = ReadingNow /\ ReadingSound(n)
  BY ReadingPage
<1> DEFINE r == IF t.enabled THEN "confirm" ELSE "quiet"
<1>2. ReadingBecome([n EXCEPT !.t.round = r])
  BY <1>1 DEF StableTimer
<1>3. r \in {"none", "quiet", "changed", "confirm"}
  OBVIOUS
<1>4. PICK x \in {"none", "quiet", "changed", "confirm"} : x = r
  BY <1>3
<1>5. ReadingSound([n EXCEPT !.t.round = x])
  BY <1>1, RoundDoes
<1> QED BY <1>2, <1>4, <1>5, BecomesSound

LEMMA ConfirmTimerKeeps ==
  ASSUME ReadingInv, ConfirmTimer
  PROVE  ReadingInv'
<1>1. PICK n \in Readings : /\ n = ReadingNow /\ ReadingSound(n) /\ n.t = t /\ n.aud = aud
                            /\ n.asked = asked /\ n.call = readingCall
  BY ReadingPage
<1>2. CASE RequestPlayback(ReadingNow)
  <2> DEFINE a == [n EXCEPT !.t.round = "none"]
             b == StopPlayback(a)
             e == Show(b, "preparing")
  <2>1. PICK j \in Playbacks :
          readingCall[j] = 0 /\ PlaySegment([e EXCEPT !.t.job = j, !.t.phase = "idle"], 1)
    BY <1>1, <1>2 DEF RequestPlayback
  <2>2. a \in Readings /\ OneInstance(a) /\ a.call = n.call
    BY <1>1, RoundDoes DEF ReadingSound
  <2> HIDE DEF a
  <2>3. /\ b \in Readings /\ OneInstance(b) /\ Silent(b) /\ b.t.load = FALSE /\ b.call = n.call
    BY <2>2, StopPlaybackDoes
  <2> HIDE DEF b
  <2>4. /\ e \in Readings /\ e.t = [b.t EXCEPT !.state = "preparing"] /\ e.aud = b.aud
        /\ e.call = b.call
    BY <2>3, ShowDoes
  <2> HIDE DEF e
  <2>5. b.t \in TtsStates /\ e.t \in TtsStates
    BY <2>3, <2>4, ReadingFields
  <2> DEFINE w == [e.t EXCEPT !.job = j, !.phase = "idle"]
             m == [e EXCEPT !.t = w]
  <2>6. w \in TtsStates
    BY <2>5 DEF TtsStates
  <2>7. w.job = j /\ w.phase = "idle" /\ w.load = FALSE /\ w.inst = b.t.inst
    BY <2>3, <2>4, <2>5 DEF TtsStates
  <2>8. PlaySegment(m, 1)
    BY <2>1
  <2> HIDE DEF w
  <2>9. m \in Readings /\ m.t = w /\ m.aud = e.aud /\ m.call = e.call
    BY <2>4, <2>6, ReadingTurns
  <2> HIDE DEF m
  <2>10. OneInstance(m) /\ Silent(m)
    BY <2>3, <2>4, <2>7, <2>9 DEF OneInstance, Silent
  <2>11. Ready(m)
    BY <1>1, <2>1, <2>3, <2>4, <2>7, <2>9, <2>10, ReadingAssumption DEF Ready
  <2>12. 1 \in Segs
    BY ReadingAssumption DEF Segs
  <2> QED BY <2>8, <2>9, <2>11, <2>12, PlaySegmentSound
<1>3. CASE ReadingBecome(Show([ReadingNow EXCEPT !.t.round = "quiet"], "idle"))
  <2> DEFINE w == [n.t EXCEPT !.round = "quiet", !.state = "idle"]
  <2> n.t \in TtsStates
    BY ReadingFields
  <2>1. /\ w \in TtsStates /\ w.job = n.t.job /\ w.phase = n.t.phase /\ w.load = n.t.load
        /\ w.inst = n.t.inst /\ w.state \in {n.t.state, "idle", "error"}
    BY DEF TtsStates
  <2>2. Show([n EXCEPT !.t.round = "quiet"], "idle") = [n EXCEPT !.t = w]
    BY DEF Show
  <2>3. ReadingBecome([n EXCEPT !.t = w])
    BY <1>1, <1>3, <2>2
  <2> HIDE DEF w
  <2> QED BY <1>1, <2>1, <2>3, RoundKeeps, BecomesSound
<1> QED BY <1>2, <1>3 DEF ConfirmTimer

-----------------------------------------------------------------------------
(* The answers of the synthesis service, and what the instances report. *)

\* An answer adds to the queue of its job only, and to nothing else.
LEMMA SynthesisedKeeps ==
  ASSUME ReadingInv, NEW j \in Playbacks, NEW k \in Segs, Synthesised(j, k)
  PROVE  ReadingInv'
<1>1. PICK n \in Readings : /\ n = ReadingNow /\ ReadingSound(n) /\ n.t = t /\ n.aud = aud
                            /\ n.asked = asked /\ n.call = readingCall
  BY ReadingPage
<1> DEFINE s == n.asked \ {<<j, k>>}
           a == [n EXCEPT !.asked = s]
<1> n.t \in TtsStates /\ n.call \in [Playbacks -> 0 .. LastSeg]
  BY ReadingFields
<1>2. PICK where \in {"local", "remote"} :
        LET m == IF t.job = j THEN [a EXCEPT !.t.q[k] = where] ELSE a
            r == [m EXCEPT !.call[j] = 0]
        IN IF ~Waits(j, k) THEN ReadingBecome(m)
           ELSE IF t.job = j THEN PlaySegment(r, k) ELSE ReadingBecome(r)
  BY <1>1 DEF Synthesised
<1>3. s \in SUBSET (Playbacks \X Segs)
  BY ReadingFields
<1> HIDE DEF s
<1>4. a \in Readings /\ a.t = n.t /\ a.aud = n.aud /\ a.call = n.call
  BY <1>3, ReadingFields DEF Readings
<1> HIDE DEF a
<1>5. ReadingSound(a)
  BY <1>1, <1>4 DEF ReadingSound, OneInstance, PlaysOwn, LoadsOwn, Guarded, Busy, WaitsQuietly
<1> DEFINE u == [n.t.q EXCEPT ![k] = where]
           w == IF t.job = j THEN [n.t EXCEPT !.q = u] ELSE n.t
           m == [a EXCEPT !.t = w]
<1>6. u \in [Segs -> {"new", "local", "remote"}]
  BY DEF TtsStates
<1>7. m = IF t.job = j THEN [a EXCEPT !.t.q[k] = where] ELSE a
  <2>1. CASE t.job = j
    BY <1>4, <2>1
  <2>2. CASE t.job # j
    BY <1>4, <2>2, ReadingFields
  <2> QED BY <2>1, <2>2
<1> HIDE DEF u
<1>8. /\ w \in TtsStates /\ w.job = n.t.job /\ w.phase = n.t.phase /\ w.load = n.t.load
      /\ w.inst = n.t.inst /\ w.state = n.t.state
  BY <1>6 DEF TtsStates
<1> HIDE DEF w
<1>9. ReadingSound(m)
  BY <1>4, <1>5, <1>8, RoundKeeps
<1>10. m \in Readings /\ m.t = w /\ m.aud = n.aud /\ m.call = n.call
  BY <1>4, <1>8, ReadingTurns
<1> HIDE DEF m
<1> DEFINE c == [m.call EXCEPT ![j] = 0]
           r == [m EXCEPT !.call = c]
<1>11. c \in [Playbacks -> 0 .. LastSeg]
  BY <1>10, ReadingAssumption
<1>12. IF ~Waits(j, k) THEN ReadingBecome(m)
       ELSE IF t.job = j THEN PlaySegment(r, k) ELSE ReadingBecome(r)
  BY <1>2, <1>7
<1>a. c[j] = 0 /\ \A i \in Playbacks : c[i] # 0 => c[i] = n.call[i]
  BY <1>10
<1> HIDE DEF c
<1>13. r \in Readings /\ r.t = w /\ r.aud = n.aud /\ r.call = c
  BY <1>10, <1>11, ReadingFields DEF Readings
<1> HIDE DEF r
<1>14. OneInstance(m)
  BY <1>9 DEF ReadingSound
<1>15. OneInstance(r)
  BY <1>10, <1>13, <1>14 DEF OneInstance
<1>16. CASE ~Waits(j, k)
  BY <1>9, <1>12, <1>16, BecomesSound
<1>17. CASE Waits(j, k) /\ t.job = j
  <2>1. n.call[n.t.job] # 0 /\ n.t.job # NoJob
    BY <1>1, <1>17, ReadingAssumption DEF Waits, Segs
  <2>2. n.t.phase \notin {"loading", "playing"} /\ Silent(n) /\ n.t.load = FALSE
    BY <1>1, <2>1 DEF ReadingSound, WaitsQuietly, Guarded, Silent, TtsStates
  <2>3. Ready(r)
    BY <1>1, <1>8, <1>13, <1>15, <1>17, <1>a, <2>1, <2>2 DEF Ready, Silent
  <2>4. PlaySegment(r, k)
    BY <1>12, <1>17
  <2> QED BY <1>13, <2>3, <2>4, PlaySegmentSound
<1>18. CASE Waits(j, k) /\ t.job # j
  <2>1. ReadingBecome(r)
    BY <1>12, <1>18
  <2>2. PlaysOwn(r) /\ LoadsOwn(r) /\ Guarded(r) /\ Busy(r)
    BY <1>9, <1>10, <1>13 DEF ReadingSound, PlaysOwn, LoadsOwn, Guarded, Busy
  <2>3. WaitsQuietly(r)
    BY <1>1, <1>8, <1>13, <1>a DEF ReadingSound, WaitsQuietly, TtsStates
  <2> QED BY <1>13, <1>15, <2>1, <2>2, <2>3, BecomesSound DEF ReadingSound
<1> QED BY <1>16, <1>17, <1>18

\* A page that is silent may forget its job.
LEMMA ForgottenSound ==
  ASSUME NEW n \in Readings, OneInstance(n), Silent(n), NEW s \in {"idle", "error"}
  PROVE  ReadingSound(Show(ClearQueue(n), s))
<1> DEFINE k == ClearQueue(n)
           m == Show(k, s)
<1>1. /\ k \in Readings /\ k.aud = n.aud /\ k.t.job = NoJob /\ k.t.phase = "idle"
      /\ k.t.load = FALSE /\ k.t.inst = n.t.inst
  BY ClearQueueDoes
<1> HIDE DEF k
<1>2. m \in Readings /\ m.t = [k.t EXCEPT !.state = s] /\ m.aud = k.aud
  <2>1. s \in {"idle", "preparing", "playing", "error"}
    OBVIOUS
  <2> QED BY <1>1, <2>1, ShowDoes
<1> HIDE DEF m
<1>3. /\ m.t.job = NoJob /\ m.t.phase = "idle" /\ m.t.load = FALSE /\ m.t.state = s
      /\ m.t.inst = k.t.inst
  BY <1>1, <1>2, ReadingFields DEF TtsStates
<1>4. OneInstance(m) /\ Silent(m)
  BY <1>1, <1>2, <1>3 DEF OneInstance, Silent
<1>5. ReadingSound(m)
  BY <1>2, <1>3, <1>4, QuietIsSound
<1> QED BY <1>5 DEF m, k

LEMMA SegmentFailsKeeps ==
  ASSUME ReadingInv, ~Slow, NEW j \in Playbacks, NEW k \in Segs, SegmentFails(j, k)
  PROVE  ReadingInv'
<1>1. PICK n \in Readings : /\ n = ReadingNow /\ ReadingSound(n) /\ n.t = t /\ n.aud = aud
                            /\ n.asked = asked /\ n.call = readingCall
  BY ReadingPage
<1> DEFINE s == n.asked \ {<<j, k>>}
           a == [n EXCEPT !.asked = s]
           c == [a.call EXCEPT ![j] = 0]
           m == [a EXCEPT !.call = c]
<1> n.t \in TtsStates /\ n.call \in [Playbacks -> 0 .. LastSeg]
  BY ReadingFields
<1>2. /\ t.job = j
      /\ ReadingBecome(IF ~Waits(j, k) THEN a
                       ELSE IF k = 1 THEN CatchFirst(m) ELSE Show(ClearQueue(m), "error"))
  BY <1>1 DEF SegmentFails
<1>3. s \in SUBSET (Playbacks \X Segs)
  BY ReadingFields
<1> HIDE DEF s
<1>4. a \in Readings /\ a.t = n.t /\ a.aud = n.aud /\ a.call = n.call
  BY <1>3, ReadingFields DEF Readings
<1> HIDE DEF a
<1>5. ReadingSound(a)
  BY <1>1, <1>4 DEF ReadingSound, OneInstance, PlaysOwn, LoadsOwn, Guarded, Busy, WaitsQuietly
<1>6. c \in [Playbacks -> 0 .. LastSeg] /\ c[j] = 0
  BY <1>4, ReadingAssumption
<1> HIDE DEF c
<1>7. m \in Readings /\ m.t = n.t /\ m.aud = n.aud /\ m.call = c
  BY <1>4, <1>6, ReadingFields DEF Readings
<1> HIDE DEF m
<1>8. OneInstance(m)
  BY <1>1, <1>7 DEF ReadingSound, OneInstance
<1>9. CASE ~Waits(j, k)
  BY <1>2, <1>5, <1>9, BecomesSound
<1>10. CASE Waits(j, k)
  <2>1. n.call[n.t.job] # 0 /\ n.t.job # NoJob
    BY <1>1, <1>2, <1>10, ReadingAssumption DEF Waits, Segs
  <2>2. Silent(m)
    BY <1>1, <1>7, <2>1 DEF ReadingSound, WaitsQuietly, Silent
  <2>3. ReadingSound(Show(ClearQueue(m), "error"))
    BY <1>7, <1>8, <2>2, ForgottenSound
  <2>4. PlaysOwn(m) /\ LoadsOwn(m) /\ Guarded(m) /\ Busy(m)
    BY <1>1, <1>7 DEF ReadingSound, PlaysOwn, LoadsOwn, Guarded, Busy
  <2>5. WaitsQuietly(m)
    BY <1>1, <1>2, <1>6, <1>7 DEF WaitsQuietly
  <2>6. ReadingSound(m)
    BY <1>7, <1>8, <2>4, <2>5 DEF ReadingSound
  <2>7. ReadingBecome(m) \/ ReadingBecome(Show(ClearQueue(m), "error"))
    BY <1>2, <1>10 DEF CatchFirst
  <2> QED BY <2>3, <2>6, <2>7, BecomesSound
<1> QED BY <1>9, <1>10

\* An instance starts to play what it loaded, and the next segment is asked for.
LEMMA PlaysKeeps ==
  ASSUME ReadingInv, NEW i \in Insts, Plays(i)
  PROVE  ReadingInv'
<1>1. PICK n \in Readings : /\ n = ReadingNow /\ ReadingSound(n) /\ n.t = t /\ n.aud = aud
                            /\ n.asked = asked /\ n.call = readingCall
  BY ReadingPage
<1> DEFINE a == [n.aud EXCEPT ![i] = "playing"]
           w == [n.t EXCEPT !.load = FALSE, !.phase = "playing", !.pending = FALSE,
                            !.state = "playing"]
           m == [t |-> w, aud |-> a, asked |-> n.asked, call |-> n.call]
<1> n.t \in TtsStates /\ n.aud \in [Insts -> {"free", "idle", "loading", "playing", "stopping"}]
  BY ReadingFields
<1>2. /\ n.aud[i] = "loading" /\ n.t.inst = i /\ n.t.job # NoJob
      /\ ReadingBecome(IF n.t.idx < LastSeg /\ n.t.q[n.t.idx + 1] = "new"
                       THEN Ask(m, n.t.job, n.t.idx + 1) ELSE m)
  <2>1. n = [t |-> n.t, aud |-> n.aud, asked |-> n.asked, call |-> n.call]
    BY ReadingFields
  <2> DEFINE p == [n EXCEPT !.aud[i] = "playing", !.t.load = FALSE, !.t.phase = "playing",
                            !.t.pending = FALSE, !.t.state = "playing"]
  <2>2. p = [n EXCEPT !.aud = a, !.t = w]
    BY <2>1
  <2>3. p = m
    <3> HIDE DEF p, w, a
    <3> QED BY <2>1, <2>2
  <2> HIDE DEF m
  <2> QED BY <1>1, <2>3 DEF Plays
<1>3. w \in TtsStates
  BY DEF TtsStates
<1>4. w.load = FALSE /\ w.phase = "playing" /\ w.job = n.t.job /\ w.inst = i
  BY <1>2 DEF TtsStates
<1>5. a \in [Insts -> {"free", "idle", "loading", "playing", "stopping"}]
      /\ \A d \in Insts : a[d] = IF d = i THEN "playing" ELSE n.aud[d]
  OBVIOUS
<1> HIDE DEF w, a
<1>6. m \in Readings
  BY <1>3, <1>5, ReadingFields DEF Readings
<1>7. OneInstance(n)
  BY <1>1 DEF ReadingSound
<1>8. n.call[n.t.job] = 0
  BY <1>1, <1>2 DEF ReadingSound, WaitsQuietly
<1>9. \A s \in SUBSET (Playbacks \X Segs) : ReadingSound([m EXCEPT !.asked = s])
  <2> TAKE s \in SUBSET (Playbacks \X Segs)
  <2> DEFINE p == [m EXCEPT !.asked = s]
  <2>1. p \in Readings /\ p.t = w /\ p.aud = a /\ p.call = n.call
    BY <1>6 DEF Readings
  <2> HIDE DEF p, m
  <2>2. OneInstance(p) /\ PlaysOwn(p)
    BY <1>2, <1>4, <1>5, <1>7, <2>1 DEF OneInstance, PlaysOwn
  <2>3. LoadsOwn(p) /\ Guarded(p) /\ Busy(p)
    BY <1>2, <1>4, <2>1 DEF LoadsOwn, Guarded, Busy
  <2>4. WaitsQuietly(p)
    BY <1>4, <1>8, <2>1 DEF WaitsQuietly
  <2>5. ReadingSound(p)
    BY <2>1, <2>2, <2>3, <2>4 DEF ReadingSound
  <2> QED BY <2>5 DEF p
<1>10. PICK s \in SUBSET (Playbacks \X Segs) : ReadingBecome([m EXCEPT !.asked = s])
  <2>1. CASE n.t.idx < LastSeg /\ n.t.q[n.t.idx + 1] = "new"
    <3>1. n.t.idx + 1 \in Segs /\ n.t.job \in Playbacks
      BY <1>2, <2>1, ReadingAssumption DEF TtsStates, Segs
    <3>2. n.asked \cup {<<n.t.job, n.t.idx + 1>>} \in SUBSET (Playbacks \X Segs)
      BY <3>1, ReadingFields
    <3>3. ReadingBecome(Ask(m, n.t.job, n.t.idx + 1))
      BY <1>2, <2>1
    <3>4. Ask(m, n.t.job, n.t.idx + 1) = [m EXCEPT !.asked = n.asked \cup {<<n.t.job, n.t.idx + 1>>}]
      BY DEF Ask
    <3> QED BY <3>2, <3>3, <3>4
  <2>2. CASE ~(n.t.idx < LastSeg /\ n.t.q[n.t.idx + 1] = "new")
    <3>1. n.asked \in SUBSET (Playbacks \X Segs) /\ ReadingBecome(m)
      BY <1>2, <2>2, ReadingFields
    <3>2. [m EXCEPT !.asked = n.asked] = m
      OBVIOUS
    <3> QED BY <3>1, <3>2
  <2> QED BY <2>1, <2>2
<1> QED BY <1>9, <1>10, BecomesSound

\* An instance that reported its end is at rest, or gone.
LEMMA RestDoes ==
  ASSUME NEW n \in Readings, OneInstance(n), NEW i \in Insts
  PROVE  LET m == [n EXCEPT !.aud[i] = IF n.t.inst = i THEN "idle" ELSE "free"] IN
         /\ m \in Readings /\ m.t = n.t /\ m.asked = n.asked /\ m.call = n.call
         /\ OneInstance(m) /\ (n.t.inst = i => Silent(m))
         /\ (ReadingSound(n) => ReadingSound(m))
<1> DEFINE x == IF n.t.inst = i THEN "idle" ELSE "free"
           a == [n.aud EXCEPT ![i] = x]
           m == [n EXCEPT !.aud = a]
<1> n.aud \in [Insts -> {"free", "idle", "loading", "playing", "stopping"}]
  BY ReadingFields
<1>1. a \in [Insts -> {"free", "idle", "loading", "playing", "stopping"}]
      /\ \A d \in Insts : a[d] = IF d = i THEN x ELSE n.aud[d]
  OBVIOUS
<1> HIDE DEF a
<1>2. m \in Readings /\ m.t = n.t /\ m.aud = a /\ m.asked = n.asked /\ m.call = n.call
  BY <1>1, ReadingFields DEF Readings
<1> HIDE DEF m
<1>3. OneInstance(m) /\ (n.t.inst = i => Silent(m))
  BY <1>1, <1>2 DEF OneInstance, Silent
<1>4. ASSUME ReadingSound(n) PROVE ReadingSound(m)
  <2>1. PlaysOwn(m) /\ LoadsOwn(m) /\ Guarded(m) /\ Busy(m)
    BY <1>1, <1>2, <1>4 DEF ReadingSound, PlaysOwn, LoadsOwn, Guarded, Busy
  <2>2. WaitsQuietly(m)
    BY <1>1, <1>2, <1>4 DEF ReadingSound, WaitsQuietly
  <2> QED BY <1>2, <1>3, <2>1, <2>2 DEF ReadingSound
<1> QED BY <1>2, <1>3, <1>4 DEF m, a

LEMMA EndedKeeps ==
  ASSUME ReadingInv, NEW i \in Insts, Ended(i)
  PROVE  ReadingInv'
<1>1. PICK n \in Readings : /\ n = ReadingNow /\ ReadingSound(n) /\ n.t = t /\ n.aud = aud
                            /\ n.asked = asked /\ n.call = readingCall
  BY ReadingPage
<1> DEFINE r == [n EXCEPT !.aud[i] = IF n.t.inst = i THEN "idle" ELSE "free"]
           w == [n.t EXCEPT !.load = FALSE, !.pending = FALSE, !.phase = "advancing",
                            !.state = "preparing"]
           m == [r EXCEPT !.t = w]
<1>2. OneInstance(n) /\ aud[i] = "playing" /\ n.t.job # NoJob
  BY <1>1 DEF ReadingSound, PlaysOwn, Ended
<1>3. ReadingBecome(r) \/ (n.t.inst = i /\ Continue(m))
  BY <1>1, <1>2 DEF Ended, Show
<1>4. /\ r \in Readings /\ r.t = n.t /\ r.asked = n.asked /\ r.call = n.call
      /\ OneInstance(r) /\ (n.t.inst = i => Silent(r)) /\ ReadingSound(r)
  BY <1>1, <1>2, RestDoes
<1> HIDE DEF r
<1> n.t \in TtsStates
  BY ReadingFields
<1>5. /\ w \in TtsStates /\ w.job = n.t.job /\ w.load = FALSE /\ w.phase = "advancing"
      /\ w.inst = n.t.inst /\ w.idx = n.t.idx
  BY DEF TtsStates
<1> HIDE DEF w
<1>6. CASE ReadingBecome(r)
  BY <1>4, <1>6, BecomesSound
<1>7. CASE n.t.inst = i /\ Continue(m)
  <2>1. m \in Readings /\ m.t = w /\ m.aud = r.aud /\ m.call = n.call
    BY <1>4, <1>5, ReadingTurns
  <2> HIDE DEF m
  <2>2. OneInstance(m) /\ Silent(m)
    BY <1>4, <1>5, <1>7, <2>1 DEF OneInstance, Silent
  <2>3. n.call[n.t.job] = 0
    BY <1>1, <1>2 DEF ReadingSound, WaitsQuietly
  <2>4. Ready(m)
    BY <1>2, <1>5, <2>1, <2>2, <2>3 DEF Ready
  <2>5. CASE m.t.idx = LastSeg
    BY <1>7, <2>1, <2>2, <2>5, ForgottenSound, BecomesSound DEF Continue
  <2>6. CASE m.t.idx # LastSeg
    <3>1. m.t.idx + 1 \in Segs
      BY <1>5, <2>1, <2>6, ReadingAssumption DEF TtsStates, Segs
    <3> QED BY <1>7, <2>1, <2>4, <2>6, <3>1, PlaySegmentSound DEF Continue
  <2> QED BY <2>5, <2>6
<1> QED BY <1>3, <1>6, <1>7

LEMMA StoppedKeeps ==
  ASSUME ReadingInv, NEW i \in Insts, Stopped(i)
  PROVE  ReadingInv'
<1>1. PICK n \in Readings : /\ n = ReadingNow /\ ReadingSound(n) /\ n.t = t /\ n.aud = aud
                            /\ n.asked = asked /\ n.call = readingCall
  BY ReadingPage
<1> DEFINE r == [n EXCEPT !.aud[i] = IF n.t.inst = i THEN "idle" ELSE "free"]
           w == [n.t EXCEPT !.load = FALSE, !.pending = FALSE, !.phase = "idle"]
           m == [r EXCEPT !.t = w]
<1>2. OneInstance(n)
  BY <1>1 DEF ReadingSound
<1>3. ReadingBecome(r) \/ (n.t.inst = i /\ (ReadingBecome(Show(m, "idle"))
                                            \/ (n.t.state = "error" /\ ReadingBecome(m))))
  BY <1>1 DEF Stopped
<1>4. /\ r \in Readings /\ r.t = n.t /\ r.asked = n.asked /\ r.call = n.call
      /\ OneInstance(r) /\ (n.t.inst = i => Silent(r)) /\ ReadingSound(r)
  BY <1>1, <1>2, RestDoes
<1> HIDE DEF r
<1> n.t \in TtsStates
  BY ReadingFields
<1>5. /\ w \in TtsStates /\ w.job = n.t.job /\ w.load = FALSE /\ w.phase = "idle"
      /\ w.inst = n.t.inst /\ w.state = n.t.state
  BY DEF TtsStates
<1> HIDE DEF w
<1>6. m \in Readings /\ m.t = w /\ m.aud = r.aud /\ m.call = n.call
  BY <1>4, <1>5, ReadingTurns
<1> HIDE DEF m
<1>7. CASE ReadingBecome(r)
  BY <1>4, <1>7, BecomesSound
<1>8. CASE n.t.inst = i
  <2>1. OneInstance(m) /\ Silent(m)
    BY <1>4, <1>5, <1>6, <1>8 DEF OneInstance, Silent
  <2> DEFINE e == Show(m, "idle")
  <2>2. e \in Readings /\ e.t = [m.t EXCEPT !.state = "idle"] /\ e.aud = m.aud /\ e.call = m.call
    BY <1>6, ShowDoes
  <2> HIDE DEF e
  <2> m.t \in TtsStates
    BY <1>6, ReadingFields
  <2>3. /\ e.t.job = n.t.job /\ e.t.load = FALSE /\ e.t.phase = "idle" /\ e.t.inst = n.t.inst
        /\ e.t.state = "idle"
    BY <1>5, <1>6, <2>2 DEF TtsStates
  <2>4. OneInstance(e) /\ Silent(e)
    BY <1>5, <1>6, <2>1, <2>2, <2>3 DEF OneInstance, Silent
  <2>5. ReadingSound(e)
    BY <2>2, <2>3, <2>4
       DEF ReadingSound, PlaysOwn, LoadsOwn, Guarded, Busy, WaitsQuietly, Silent
  <2>6. n.t.state = "error" => ReadingSound(m)
    BY <1>5, <1>6, <2>1
       DEF ReadingSound, PlaysOwn, LoadsOwn, Guarded, Busy, WaitsQuietly, Silent
  <2>7. ReadingBecome(r) \/ ReadingBecome(e) \/ (n.t.state = "error" /\ ReadingBecome(m))
    BY <1>3 DEF e
  <2> QED BY <1>4, <2>5, <2>6, <2>7, BecomesSound
<1> QED BY <1>3, <1>7, <1>8

LEMMA BreaksKeeps ==
  ASSUME ReadingInv, NEW i \in Insts, ReadingBreaks(i)
  PROVE  ReadingInv'
<1>1. PICK n \in Readings : /\ n = ReadingNow /\ ReadingSound(n) /\ n.t = t /\ n.aud = aud
                            /\ n.asked = asked /\ n.call = readingCall
  BY ReadingPage
<1> DEFINE r == [n EXCEPT !.aud[i] = IF n.t.inst = i THEN "idle" ELSE "free"]
<1>2. OneInstance(n) /\ aud[i] \in {"loading", "playing"}
  BY <1>1 DEF ReadingSound, ReadingBreaks
<1>3. ReadingBecome(r) \/ (n.t.job # NoJob /\ RetryOrFail(r))
  BY <1>1 DEF ReadingBreaks
<1>4. /\ r \in Readings /\ r.t = n.t /\ r.call = n.call /\ OneInstance(r) /\ ReadingSound(r)
  BY <1>1, <1>2, RestDoes
<1> HIDE DEF r
<1>5. n.t.job # NoJob => n.call[n.t.job] = 0
  BY <1>1, <1>2 DEF ReadingSound, WaitsQuietly
<1> QED BY <1>3, <1>4, <1>5, RetryOrFailSound, BecomesSound

LEMMA LoadTimerKeeps ==
  ASSUME ReadingInv, LoadTimer
  PROVE  ReadingInv'
<1>1. PICK n \in Readings : /\ n = ReadingNow /\ ReadingSound(n) /\ n.t = t /\ n.aud = aud
                            /\ n.asked = asked /\ n.call = readingCall
  BY ReadingPage
<1> DEFINE w == [n.t EXCEPT !.load = FALSE]
           m == [n EXCEPT !.t = w]
<1>2. n.t.load /\ RetryOrFail(m)
  BY <1>1 DEF LoadTimer
<1> n.t \in TtsStates
  BY ReadingFields
<1>3. w \in TtsStates /\ w.job = n.t.job /\ w.inst = n.t.inst
  BY DEF TtsStates
<1> HIDE DEF w
<1>4. m \in Readings /\ m.t = w /\ m.aud = n.aud /\ m.call = n.call
  BY <1>3, ReadingTurns
<1> HIDE DEF m
<1>5. n.t.phase = "loading" /\ n.t.job # NoJob /\ n.call[n.t.job] = 0
  BY <1>1, <1>2 DEF ReadingSound, Guarded, LoadsOwn, WaitsQuietly
<1>6. OneInstance(m)
  BY <1>1, <1>3, <1>4 DEF ReadingSound, OneInstance
<1> QED BY <1>2, <1>3, <1>4, <1>5, <1>6, RetryOrFailSound

-----------------------------------------------------------------------------
(* The page around it. *)

LEMMA ResetSound ==
  ASSUME NEW n \in Readings, ReadingSound(n)
  PROVE  ReadingSound(Reset(n))
<1> DEFINE a == [n EXCEPT !.t.round = "none"]
<1>1. a \in Readings /\ OneInstance(a)
  BY RoundDoes DEF ReadingSound
<1>2. Reset(n) = Show(StopPlayback(a), "idle")
  BY DEF Reset
<1> HIDE DEF a
<1> QED BY <1>1, <1>2, StoppedSound

\* A reset page shows nothing.
LEMMA ResetIsQuiet ==
  ASSUME NEW n \in Readings, ReadingSound(n)
  PROVE  LET m == Reset(n) IN
         m \in Readings /\ OneInstance(m) /\ Silent(m) /\ m.t.job = NoJob /\ m.t.state = "idle"
<1> DEFINE a == [n EXCEPT !.t.round = "none"]
           b == StopPlayback(a)
           m == Show(b, "idle")
<1>1. a \in Readings /\ OneInstance(a)
  BY RoundDoes DEF ReadingSound
<1>2. Reset(n) = m
  BY DEF Reset
<1> HIDE DEF a
<1>3. b \in Readings /\ OneInstance(b) /\ Silent(b) /\ b.t.job = NoJob
  BY <1>1, StopPlaybackDoes
<1> HIDE DEF b
<1>4. m \in Readings /\ m.t = [b.t EXCEPT !.state = "idle"] /\ m.aud = b.aud
  BY <1>3, ShowDoes
<1> HIDE DEF m
<1>5. m.t.job = NoJob /\ m.t.state = "idle" /\ m.t.inst = b.t.inst
  BY <1>3, <1>4, ReadingFields DEF TtsStates
<1>6. OneInstance(m) /\ Silent(m)
  BY <1>3, <1>4, <1>5 DEF OneInstance, Silent
<1> QED BY <1>2, <1>4, <1>5, <1>6

LEMMA ToggleKeeps ==
  ASSUME ReadingInv, Toggle
  PROVE  ReadingInv'
<1>1. PICK n \in Readings : n = ReadingNow /\ ReadingSound(n)
  BY ReadingPage
<1> DEFINE a == IF t.enabled THEN Reset(n) ELSE n
           s == IF t.enabled THEN a.t.state ELSE "idle"
           w == [a.t EXCEPT !.enabled = ~t.enabled, !.state = s]
<1>2. ReadingSound(a)
  BY <1>1, ResetSound
<1>3. a \in Readings
  BY <1>2 DEF ReadingSound
<1>4. CASE t.enabled
  <2>1. ReadingBecome([a EXCEPT !.t.enabled = FALSE])
    BY <1>1, <1>4 DEF Toggle
  <2> DEFINE x == [a.t EXCEPT !.enabled = FALSE]
  <2> HIDE DEF a
  <2> a.t \in TtsStates
    BY <1>3, ReadingFields
  <2>2. /\ x \in TtsStates /\ x.job = a.t.job /\ x.phase = a.t.phase /\ x.load = a.t.load
        /\ x.inst = a.t.inst /\ x.state = a.t.state
    BY DEF TtsStates
  <2>3. ReadingBecome([a EXCEPT !.t = x])
    BY <2>1
  <2> HIDE DEF x
  <2> QED BY <1>2, <1>3, <2>2, <2>3, RoundKeeps, BecomesSound
<1>5. CASE ~t.enabled
  <2> DEFINE x == [n.t EXCEPT !.enabled = TRUE, !.state = "idle"]
  <2>1. ReadingBecome([n EXCEPT !.t = x])
    BY <1>1, <1>5 DEF Toggle, Show
  <2> n.t \in TtsStates
    BY ReadingFields
  <2>2. /\ x \in TtsStates /\ x.job = n.t.job /\ x.phase = n.t.phase /\ x.load = n.t.load
        /\ x.inst = n.t.inst /\ x.state = "idle"
    BY DEF TtsStates
  <2> HIDE DEF x
  <2> QED BY <1>1, <2>1, <2>2, RoundKeeps, BecomesSound
<1> QED BY <1>4, <1>5

LEMMA CodexKeeps ==
  ASSUME ReadingInv, Codex
  PROVE  ReadingInv'
<1>1. PICK n \in Readings : n = ReadingNow /\ ReadingSound(n) /\ n.t = t
  BY ReadingPage
<1> DEFINE w == [n.t EXCEPT !.codex = ~n.t.codex]
<1> n.t \in TtsStates
  BY ReadingFields
<1>2. /\ w \in TtsStates /\ w.job = n.t.job /\ w.phase = n.t.phase /\ w.load = n.t.load
      /\ w.inst = n.t.inst /\ w.state = n.t.state
  BY DEF TtsStates
<1>3. ReadingBecome([n EXCEPT !.t = w])
  BY <1>1 DEF Codex
<1> HIDE DEF w
<1> QED BY <1>1, <1>2, <1>3, RoundKeeps, BecomesSound

\* A hidden page lets its instance go.
LEMMA ReadingHideKeeps ==
  ASSUME ReadingInv, ReadingHide
  PROVE  ReadingInv'
<1>1. PICK n \in Readings : n = ReadingNow /\ ReadingSound(n)
  BY ReadingPage
<1> DEFINE r == Reset(n)
<1>2. r \in Readings /\ OneInstance(r) /\ Silent(r) /\ r.t.job = NoJob /\ r.t.state = "idle"
  BY <1>1, ResetIsQuiet
<1>3. ReadingSound(r) /\ ReadingBecome(Destroy(r))
  BY <1>1, ResetSound DEF ReadingHide
<1> HIDE DEF r
<1>4. CASE r.t.inst = None
  BY <1>3, <1>4, BecomesSound DEF Destroy
<1>5. CASE r.t.inst # None
  <2> DEFINE k == ClearQueue(r)
             w == [k.t EXCEPT !.phase = "stopping"]
             p == [k EXCEPT !.t = w]
             m == ReadingRelease(p)
  <2>1. ReadingBecome(m)
    BY <1>3, <1>5 DEF Destroy
  <2>2. /\ k \in Readings /\ k.aud = r.aud /\ k.t.job = NoJob /\ k.t.load = FALSE
        /\ k.t.inst = r.t.inst /\ k.t.state = r.t.state
    BY <1>2, ClearQueueDoes
  <2> HIDE DEF k
  <2> k.t \in TtsStates
    BY <2>2, ReadingFields
  <2>3. /\ w \in TtsStates /\ w.job = NoJob /\ w.load = FALSE /\ w.phase = "stopping"
        /\ w.inst = r.t.inst /\ w.state = "idle"
    BY <1>2, <2>2 DEF TtsStates
  <2> HIDE DEF w
  <2>4. p \in Readings /\ p.t = w /\ p.aud = r.aud
    BY <2>2, <2>3, ReadingTurns
  <2> HIDE DEF p
  <2>5. OneInstance(p)
    BY <1>2, <2>3, <2>4 DEF OneInstance
  <2>6. m \in Readings /\ m.t = [p.t EXCEPT !.inst = None]
        /\ \A i \in Insts : m.aud[i] \in {"free", "stopping"}
    BY <2>4, <2>5, ReleaseDoes
  <2> HIDE DEF m
  <2>7. m.t.job = NoJob /\ m.t.load = FALSE /\ m.t.phase = "stopping" /\ m.t.state = "idle"
    BY <2>3, <2>4, <2>6 DEF TtsStates
  <2>8. OneInstance(m) /\ Silent(m)
    BY <2>6 DEF OneInstance, Silent
  <2>9. ReadingSound(m)
    BY <2>6, <2>7, <2>8, QuietIsSound
  <2> QED BY <2>1, <2>9, BecomesSound
<1> QED BY <1>4, <1>5

-----------------------------------------------------------------------------
LEMMA ReadingStep ==
  ASSUME ReadingInv, ~Slow, [ReadingNext]_readingVars
  PROVE  ReadingInv'
<1>1. CASE UNCHANGED readingVars
  BY <1>1 DEF readingVars, ReadingInv, ReadingNow
<1>2. CASE Disconnects
  <2>1. PICK n \in Readings : n = ReadingNow /\ ReadingSound(n)
    BY ReadingPage
  <2>2. ReadingSound(Reset(n)) /\ ReadingBecome(Reset(n))
    BY <1>2, <2>1, ResetSound DEF Disconnects
  <2> QED BY <2>2, BecomesSound
<1>3. CASE ReadingNext
  BY <1>2, <1>3, StartRoundKeeps, OutputAppendedKeeps, StableTimerKeeps, ConfirmTimerKeeps,
     LoadTimerKeeps, SynthesisedKeeps, SegmentFailsKeeps, PlaysKeeps, EndedKeeps, StoppedKeeps,
     BreaksKeeps, ToggleKeeps, CodexKeeps, ReadingHideKeeps
     DEF ReadingNext
<1> QED BY <1>1, <1>3

\* What is heard is the job of the page, which the page shows, whatever answers of
\* the service and events of older instances come late.  An old job's request may
\* be late but does not fail after a newer job began (Slow).
THEOREM ReadingStaysMeant == ASSUME ~Slow PROVE ReadingSpec => []HeardIsMeant
<1>1. ASSUME ReadingInit PROVE ReadingInv
  <2> DEFINE w == [enabled |-> FALSE, codex |-> FALSE, round |-> "none", job |-> NoJob,
                   q |-> Fresh, idx |-> 0, phase |-> "idle", pending |-> FALSE, load |-> FALSE,
                   inst |-> None, state |-> "idle"]
             a == [i \in Insts |-> "free"]
             c == [j \in Playbacks |-> 0]
             m == [t |-> w, aud |-> a, asked |-> {}, call |-> c]
  <2>1. ReadingNow = m
    BY <1>1 DEF ReadingInit, ReadingNow
  <2>2. Fresh \in [Segs -> {"new", "local", "remote"}] /\ 0 \in 0 .. LastSeg
    BY ReadingAssumption DEF Fresh
  <2>3. w \in TtsStates
    BY <2>2 DEF TtsStates
  <2>4. w.job = NoJob /\ w.phase = "idle" /\ w.load = FALSE /\ w.inst = None /\ w.state = "idle"
    OBVIOUS
  <2> HIDE DEF w
  <2>5. a \in [Insts -> {"free", "idle", "loading", "playing", "stopping"}]
        /\ c \in [Playbacks -> 0 .. LastSeg] /\ \A i \in Insts : a[i] = "free"
    BY <2>2
  <2> HIDE DEF a, c
  <2>6. m \in Readings
    BY <2>3, <2>5 DEF Readings
  <2>7. m.t = w /\ m.aud = a
    OBVIOUS
  <2> HIDE DEF m
  <2>8. OneInstance(m) /\ Silent(m)
    BY <2>5, <2>7 DEF OneInstance, Silent
  <2>9. ReadingSound(m)
    BY <2>4, <2>6, <2>7, <2>8, QuietIsSound
  <2> QED BY <2>1, <2>9 DEF ReadingInv
<1>2. ASSUME ReadingInv PROVE HeardIsMeant
  <2>1. PICK n \in Readings : ReadingSound(n) /\ n.t = t /\ n.aud = aud
    BY <1>2, ReadingPage
  <2> QED BY <2>1 DEF ReadingSound, OneInstance, PlaysOwn, Guarded, Busy, HeardIsMeant, SoundHasJob,
             BusyHasJob, LoadIsGuarded
<1> QED BY <1>1, <1>2, ReadingStep, PTL DEF ReadingSpec
-----------------------------------------------------------------------------
(* The voice button (MiniLayout), in a window of any size.  A panel lies at the  *)
(* left margin and between the margins above and below; a folded button lies     *)
(* where the panel would fit; and a panel that was not moved still knows the     *)
(* place it was unfolded from.                                                   *)

PanelIn == panelShown => left = Gap /\ bottom \in Gap .. LastBottom(height)
ButtonIn == ~panelShown =>
  /\ left \in Gap + InsetLeft .. Gap + InsetLeft + MaxOffset
  /\ bottom \in Gap + InsetBottom .. LastBottom(height) + InsetBottom
FromIn == panelFrom # <<>> =>
  IF panelShown THEN /\ offset <= MaxOffset
                     /\ panelFrom = <<left + InsetLeft + offset, bottom + InsetBottom>>
  ELSE panelFrom = <<left, bottom>>

Switches == /\ panelShown \in BOOLEAN /\ enabled \in BOOLEAN /\ armed \in BOOLEAN
            /\ measures \in BOOLEAN /\ syncs \in BOOLEAN
            /\ touching \in {"none", "button", "actions", "input"} /\ slide \in Int
            /\ drag \in [candidate : BOOLEAN, active : BOOLEAN, l : Int, b : Int]
Measures == /\ height \in PanelHeights \cup {FallbackHeight} /\ maxOffset \in MaxOffsets \cup {0}
            /\ offset \in 0 .. Width

PanelInv == Switches /\ Measures /\ PanelIn /\ ButtonIn /\ FromIn

LEMMA BetweenIn ==
  ASSUME NEW x \in Int, NEW lo \in Int, NEW hi \in Int, lo <= hi
  PROVE  Between(x, lo, hi) \in lo .. hi /\ (x \in lo .. hi => Between(x, lo, hi) = x)
BY DEF Between, Larger, Smaller

\* The ranges are never empty, and within the window.
LEMMA Ranges ==
  ASSUME NEW h \in PanelHeights \cup {FallbackHeight}
  PROVE  /\ Gap \in Nat /\ LastLeft = Gap /\ LastBottom(h) \in Nat /\ Gap <= LastBottom(h)
         /\ LastBottom(h) + InsetBottom <= WindowHeight /\ Gap <= Width
BY PanelAssumption DEF Gap, LastLeft, LastBottom, PanelWidth, Larger

LEMMA OffsetRange ==
  ASSUME maxOffset \in MaxOffsets \cup {0}
  PROVE  MaxOffset \in Nat /\ Gap + InsetLeft + MaxOffset <= Width
BY PanelAssumption DEF MaxOffset, Gap

LEMMA ExpandedIn ==
  ASSUME NEW h \in PanelHeights \cup {FallbackHeight}, NEW l \in Int, NEW b \in Int
  PROVE  /\ ExpandedOrigin(l, b, h).l = Gap
         /\ ExpandedOrigin(l, b, h).b \in Gap .. LastBottom(h)
         /\ b \in Gap .. LastBottom(h) => ExpandedOrigin(l, b, h).b = b
<1>1. Gap \in Int /\ LastLeft = Gap /\ LastBottom(h) \in Int /\ Gap <= LastBottom(h)
  BY Ranges
<1>2. Between(l, Gap, LastLeft) = Gap
  BY <1>1 DEF Between, Larger, Smaller
<1> QED BY <1>1, <1>2, BetweenIn DEF ExpandedOrigin

LEMMA CollapsedIn ==
  ASSUME maxOffset \in MaxOffsets \cup {0}, NEW h \in PanelHeights \cup {FallbackHeight},
         NEW l \in Int, NEW b \in Int
  PROVE  LET p == CollapsedPosition(l, b, h)
             X == Gap + InsetLeft .. Gap + InsetLeft + MaxOffset
             Y == Gap + InsetBottom .. LastBottom(h) + InsetBottom
         IN p.l \in X /\ p.b \in Y /\ (l \in X => p.l = l) /\ (b \in Y => p.b = b)
<1>1. MaxOffset \in Nat /\ LastBottom(h) \in Nat /\ Gap <= LastBottom(h) /\ Gap \in Nat
      /\ InsetLeft \in Nat /\ InsetBottom \in Nat
  BY Ranges, OffsetRange, PanelAssumption
<1> DEFINE a == Gap + InsetLeft
           c == Gap + InsetLeft + MaxOffset
           d == Gap + InsetBottom
           e == LastBottom(h) + InsetBottom
<1>2. a \in Int /\ c \in Int /\ d \in Int /\ e \in Int /\ a <= c /\ d <= e
  BY <1>1
<1>3. CollapsedPosition(l, b, h) = [l |-> Between(l, a, c), b |-> Between(b, d, e)]
  BY DEF CollapsedPosition, Bounds
<1> HIDE DEF a, c, d, e
<1>4. /\ Between(l, a, c) \in a .. c /\ (l \in a .. c => Between(l, a, c) = l)
      /\ Between(b, d, e) \in d .. e /\ (b \in d .. e => Between(b, d, e) = b)
  BY <1>2, BetweenIn
<1> QED BY <1>3, <1>4 DEF a, c, d, e

LEMMA OffsetIn ==
  ASSUME maxOffset \in MaxOffsets \cup {0}, NEW l \in Int
  PROVE  /\ OffsetOf(l) \in 0 .. MaxOffset
         /\ l \in Gap + InsetLeft .. Gap + InsetLeft + MaxOffset => OffsetOf(l) = l - Gap - InsetLeft
<1>1. MaxOffset \in Nat /\ Gap \in Nat /\ InsetLeft \in Nat
  BY OffsetRange, PanelAssumption DEF Gap
<1>2. OffsetOf(l) = Between(l - (Gap + InsetLeft), 0, MaxOffset)
  BY DEF OffsetOf, Bounds
<1> QED BY <1>1, <1>2, BetweenIn

LEMMA SizesNow ==
  ASSUME Measures
  PROVE  /\ Gap \in Nat /\ LastBottom(height) \in Nat /\ Gap <= LastBottom(height)
         /\ LastBottom(height) + InsetBottom <= WindowHeight /\ Gap <= Width
         /\ MaxOffset \in Nat /\ Gap + InsetLeft + MaxOffset <= Width
         /\ Width \in Nat /\ WindowHeight \in Nat /\ InsetLeft \in Nat /\ InsetBottom \in Nat
BY Ranges, OffsetRange, PanelAssumption DEF Measures

LEMMA PlaceIsInt ==
  ASSUME PanelInv
  PROVE  left \in 0 .. Width /\ bottom \in 0 .. WindowHeight
<1>1. CASE panelShown
  BY <1>1, SizesNow DEF PanelInv, PanelIn
<1>2. CASE ~panelShown
  BY <1>2, SizesNow DEF PanelInv, ButtonIn
<1> QED BY <1>1, <1>2

LEMMA FirstPlace ==
  ASSUME PanelInit
  PROVE  PanelInv
<1>1. Measures
  BY PanelAssumption DEF PanelInit, Measures
<1>2. Switches
  <2>1. drag \in [candidate : BOOLEAN, active : BOOLEAN, l : Int, b : Int]
    BY DEF PanelInit, NoDrag
  <2>2. slide \in Int
    BY DEF PanelInit
  <2> QED BY <2>1, <2>2 DEF PanelInit, Switches
<1>3. ButtonIn
  BY <1>1, SizesNow DEF PanelInit, ButtonIn
<1> QED BY <1>1, <1>2, <1>3 DEF PanelInit, PanelInv, PanelIn, FromIn

\* Most steps move nothing.
LEMMA PlaceRests ==
  ASSUME PanelInv, Switches', UNCHANGED <<place, panelShown, sizes, panelFrom>>
  PROVE  PanelInv'
<1>1. MaxOffset' = MaxOffset
  BY DEF MaxOffset, sizes
<1>2. Measures' /\ PanelIn' /\ ButtonIn' /\ FromIn'
  BY <1>1 DEF PanelInv, Measures, PanelIn, ButtonIn, FromIn, place, sizes
<1> QED BY <1>2 DEF PanelInv

LEMMA TouchKeeps ==
  ASSUME PanelInv, NEW handle \in BOOLEAN,
         PressFolded(handle) \/ PressActions(handle) \/ TouchInput(handle)
  PROVE  PanelInv'
<1>1. left \in Int /\ bottom \in Int
  BY PlaceIsInt, PanelAssumption
<1>2. offset \in Int
  BY PanelAssumption DEF PanelInv, Measures
<1>3. /\ drag' = [candidate |-> handle, active |-> FALSE, l |-> left, b |-> bottom]
      /\ UNCHANGED <<place, panelShown, sizes, panelFrom, enabled, syncs>>
      /\ touching' \in {"none", "button", "actions", "input"}
  <2>1. CASE PressFolded(handle)
    BY <2>1 DEF PressFolded, LayerTouchStart
  <2>2. CASE PressActions(handle)
    BY <2>2 DEF PressActions, LayerTouchStart
  <2>3. CASE TouchInput(handle)
    BY <2>3 DEF TouchInput, LayerTouchStart
  <2> QED BY <2>1, <2>2, <2>3
<1>4. armed' \in BOOLEAN /\ measures' \in BOOLEAN /\ slide' \in Int
  BY <1>2 DEF PressFolded, PressActions, TouchInput, PanelInv, Switches
<1>5. drag' \in [candidate : BOOLEAN, active : BOOLEAN, l : Int, b : Int]
  BY <1>1, <1>3
<1>6. Switches'
  BY <1>3, <1>4, <1>5 DEF PanelInv, Switches
<1> QED BY <1>3, <1>6, PlaceRests

LEMMA DragKeeps ==
  ASSUME PanelInv, NEW dx \in Ways, NEW dy \in Ways, DragBy(dx, dy)
  PROVE  PanelInv'
<1> DEFINE next == Within(drag.l + dx, drag.b - dy, panelShown, height)
<1>1. /\ drag' = [drag EXCEPT !.active = TRUE] /\ armed' = FALSE
      /\ left' = next.l /\ bottom' = next.b
      /\ offset' = IF panelShown THEN offset ELSE OffsetOf(next.l)
      /\ panelFrom' = IF panelShown THEN <<>> ELSE <<next.l, next.b>>
      /\ UNCHANGED <<panelShown, enabled, sizes, touching, slide, measures, syncs>>
  BY DEF DragBy
<1>2. dx \in Int /\ dy \in Int /\ drag.l \in Int /\ drag.b \in Int
  BY PanelAssumption DEF PanelInv, Switches
<1>3. PICK l \in Int, b \in Int : l = drag.l + dx /\ b = drag.b - dy
  BY <1>2
<1>4. next = IF panelShown THEN ExpandedOrigin(l, b, height) ELSE CollapsedPosition(l, b, height)
  BY <1>3 DEF Within
<1> HIDE DEF next
<1>5. Switches'
  <2>1. drag' \in [candidate : BOOLEAN, active : BOOLEAN, l : Int, b : Int]
    BY <1>1 DEF PanelInv, Switches
  <2> QED BY <1>1, <2>1 DEF PanelInv, Switches
<1>6. MaxOffset' = MaxOffset /\ height' = height /\ maxOffset' = maxOffset
  BY <1>1 DEF MaxOffset, sizes
<1>7. height \in PanelHeights \cup {FallbackHeight} /\ maxOffset \in MaxOffsets \cup {0}
      /\ offset \in 0 .. Width
  BY DEF PanelInv, Measures
<1>8. CASE panelShown
  <2>1. left' = Gap /\ bottom' \in Gap .. LastBottom(height) /\ offset' = offset /\ panelFrom' = <<>>
    BY <1>1, <1>4, <1>7, <1>8, ExpandedIn
  <2> QED BY <1>1, <1>5, <1>6, <1>7, <1>8, <2>1 DEF PanelInv, Measures, PanelIn, ButtonIn, FromIn
<1>9. CASE ~panelShown
  <2>1. /\ left' \in Gap + InsetLeft .. Gap + InsetLeft + MaxOffset
        /\ bottom' \in Gap + InsetBottom .. LastBottom(height) + InsetBottom
    BY <1>1, <1>4, <1>7, <1>9, CollapsedIn
  <2>2. left' \in Int /\ MaxOffset \in 0 .. Width
    BY <2>1, <1>7, SizesNow DEF Measures
  <2>3. offset' \in 0 .. Width
    BY <1>1, <1>7, <1>9, <2>2, OffsetIn, PanelAssumption
  <2>4. panelFrom' = <<left', bottom'>>
    BY <1>1, <1>9
  <2> QED BY <1>1, <1>5, <1>6, <1>7, <1>9, <2>1, <2>3, <2>4
          DEF PanelInv, Measures, PanelIn, ButtonIn, FromIn
<1> QED BY <1>8, <1>9 DEF PanelInv, Switches

LEMMA SlideKeeps ==
  ASSUME PanelInv, NEW dx \in Ways, SlideBy(dx)
  PROVE  PanelInv'
<1>1. /\ offset' = Between(slide + dx, 0, maxOffset) /\ panelFrom' = <<>>
      /\ UNCHANGED <<left, bottom, panelShown, enabled, sizes, touching, armed, drag, slide,
                     measures, syncs>>
  BY DEF SlideBy
<1>2. slide + dx \in Int /\ maxOffset \in MaxOffsets \cup {0}
  BY PanelAssumption DEF PanelInv, Switches, Measures
<1>3. maxOffset \in 0 .. Width
  BY <1>2, PanelAssumption DEF Gap
<1>4. offset' \in 0 .. Width
  <2>1. 0 \in Int /\ maxOffset \in Int /\ 0 <= maxOffset /\ Width \in Nat
    BY <1>3, PanelAssumption
  <2>2. Between(slide + dx, 0, maxOffset) \in 0 .. maxOffset
    BY <1>2, <2>1, BetweenIn
  <2> QED BY <1>1, <1>3, <2>1, <2>2
<1>5. MaxOffset' = MaxOffset
  BY <1>1 DEF MaxOffset, sizes
<1> QED BY <1>1, <1>4, <1>5 DEF PanelInv, Switches, Measures, PanelIn, ButtonIn, FromIn, sizes

LEMMA LiftKeeps ==
  ASSUME PanelInv, LiftFinger
  PROVE  PanelInv'
<1>1. Switches'
  <2>1. drag' \in [candidate : BOOLEAN, active : BOOLEAN, l : Int, b : Int]
    BY DEF LiftFinger, NoDrag
  <2>2. slide' \in Int
    BY DEF LiftFinger
  <2> QED BY <2>1, <2>2 DEF LiftFinger, PanelInv, Switches
<1> QED BY <1>1, PlaceRests DEF LiftFinger

\* A folded button unfolds to where its panel fits, and knows the way back.
LEMMA UnfoldKeeps ==
  ASSUME PanelInv, UnfoldTimer
  PROVE  PanelInv'
<1>1. Switches'
  BY DEF UnfoldTimer, PanelInv, Switches
<1>2. CASE panelShown
  BY <1>1, <1>2, PlaceRests DEF UnfoldTimer, place
<1>3. CASE ~panelShown
  <2> DEFINE o == OffsetOf(left)
             p == ExpandedOrigin(left - InsetLeft - o, bottom - InsetBottom, height)
  <2>1. /\ panelShown' = TRUE /\ left' = p.l /\ bottom' = p.b /\ offset' = o
        /\ UNCHANGED <<sizes, panelFrom>>
    BY <1>3 DEF UnfoldTimer, Unfolded
  <2>2. Measures /\ ButtonIn /\ FromIn
    BY DEF PanelInv
  <2>3. /\ left \in Gap + InsetLeft .. Gap + InsetLeft + MaxOffset
        /\ bottom \in Gap + InsetBottom .. LastBottom(height) + InsetBottom
    BY <1>3, <2>2 DEF ButtonIn
  <2>4. /\ Gap \in Nat /\ MaxOffset \in Nat /\ MaxOffset <= Width /\ InsetLeft \in Nat
        /\ InsetBottom \in Nat /\ LastBottom(height) \in Nat /\ Width \in Nat
    BY <2>2, SizesNow
  <2>5. left \in Int /\ bottom \in Int
    BY <2>3, <2>4
  <2>6. o \in 0 .. MaxOffset /\ o = left - Gap - InsetLeft
    BY <2>2, <2>3, <2>5, OffsetIn DEF Measures
  <2> HIDE DEF o
  <2>7. left - InsetLeft - o \in Int /\ bottom - InsetBottom \in Gap .. LastBottom(height)
    BY <2>3, <2>4, <2>5, <2>6
  <2>8. p.l = Gap /\ p.b \in Gap .. LastBottom(height) /\ p.b = bottom - InsetBottom
    BY <2>2, <2>4, <2>7, ExpandedIn DEF Measures
  <2> HIDE DEF p
  <2>9. MaxOffset' = MaxOffset /\ height' = height /\ maxOffset' = maxOffset
    BY <2>1 DEF MaxOffset, sizes
  <2>10. Measures'
    BY <2>1, <2>2, <2>4, <2>6, <2>9 DEF Measures
  <2>11. left = left' + InsetLeft + offset' /\ bottom = bottom' + InsetBottom
    BY <2>1, <2>4, <2>5, <2>6, <2>8
  <2>12. FromIn'
    BY <1>3, <2>1, <2>2, <2>4, <2>6, <2>9, <2>11 DEF FromIn
  <2> QED BY <1>1, <2>1, <2>8, <2>9, <2>10, <2>12 DEF PanelInv, PanelIn, ButtonIn
<1> QED BY <1>2, <1>3 DEF PanelInv, Switches

LEMMA MeasuredKeeps ==
  ASSUME PanelInv, NEW h \in PanelHeights, NEW m \in MaxOffsets, Measured(h, m)
  PROVE  PanelInv'
<1>1. Switches'
  BY DEF Measured, PanelInv, Switches
<1>2. CASE ~panelShown
  BY <1>1, <1>2, PlaceRests DEF Measured
<1>3. CASE panelShown
  <2> DEFINE p == ExpandedOrigin(left, bottom, h)
  <2>1. /\ height' = h /\ maxOffset' = m /\ left' = p.l /\ bottom' = p.b
        /\ offset' = Between(offset, 0, m) /\ panelShown' = panelShown
        /\ panelFrom' = IF h = height /\ offset' = offset THEN panelFrom ELSE <<>>
    BY <1>3 DEF Measured, Within
  <2>2. Measures /\ PanelIn /\ FromIn
    BY DEF PanelInv
  <2>3. left \in Int /\ bottom \in Int /\ left = Gap /\ bottom \in Gap .. LastBottom(height)
        /\ Gap \in Nat
    BY <1>3, <2>2, PlaceIsInt, SizesNow DEF PanelIn
  <2>4. /\ p.l = Gap /\ p.b \in Gap .. LastBottom(h)
        /\ h = height => p.b = bottom
    BY <2>3, ExpandedIn
  <2> HIDE DEF p
  <2>5. m \in Nat /\ Gap + InsetLeft + m <= Width /\ InsetLeft \in Nat /\ Width \in Nat
    BY PanelAssumption
  <2>6. offset' \in 0 .. m
    BY <2>1, <2>2, <2>5, BetweenIn DEF Measures
  <2>7. offset' \in 0 .. Width
    BY <2>3, <2>5, <2>6
  <2>8. offset' <= MaxOffset'
    <3>1. maxOffset' \in MaxOffsets \cup {0}
      BY <2>1
    <3>2. MaxOffset' = IF m > 0 THEN m ELSE FallbackOffset
      BY <2>1 DEF MaxOffset
    <3> QED BY <2>5, <2>6, <3>2, PanelAssumption
  <2>9. Measures'
    BY <2>1, <2>7 DEF Measures
  <2>10. FromIn'
    BY <1>3, <2>1, <2>2, <2>3, <2>4, <2>8 DEF FromIn
  <2> QED BY <1>1, <1>3, <2>1, <2>4, <2>9, <2>10 DEF PanelInv, PanelIn, ButtonIn
<1> QED BY <1>2, <1>3 DEF PanelInv, Switches

\* A folded panel leaves the button where the panel would fit; one that was not
\* moved, at the place it came from.
LEMMA FoldKeeps ==
  ASSUME PanelInv, Fold
  PROVE  PanelInv' /\ (panelFrom # <<>> => left' = panelFrom[1] /\ bottom' = panelFrom[2])
<1>1. /\ panelShown /\ panelShown' = FALSE /\ left' = left + InsetLeft + Between(offset, 0, MaxOffset)
      /\ bottom' = bottom + InsetBottom /\ offset' = offset
      /\ UNCHANGED <<sizes, panelFrom>>
  BY DEF Fold, FoldedLeft, FoldedBottom
<1>2. Measures /\ PanelIn /\ FromIn
  BY DEF PanelInv
<1>3. Switches'
  BY DEF Fold, PanelInv, Switches
<1>4. /\ Gap \in Nat /\ MaxOffset \in Nat /\ InsetLeft \in Nat /\ InsetBottom \in Nat
      /\ LastBottom(height) \in Nat /\ Width \in Nat
  BY <1>2, SizesNow
<1>5. left = Gap /\ bottom \in Gap .. LastBottom(height) /\ offset \in 0 .. Width
  BY <1>1, <1>2 DEF PanelIn, Measures
<1>6. Between(offset, 0, MaxOffset) \in 0 .. MaxOffset
      /\ (offset <= MaxOffset => Between(offset, 0, MaxOffset) = offset)
  <2>1. 0 \in Int /\ MaxOffset \in Int /\ 0 <= MaxOffset /\ offset \in Int /\ 0 <= offset
    BY <1>4, <1>5
  <2> QED BY <2>1, BetweenIn
<1>7. MaxOffset' = MaxOffset /\ height' = height /\ maxOffset' = maxOffset
  BY <1>1 DEF MaxOffset, sizes
<1>8. /\ left' \in Gap + InsetLeft .. Gap + InsetLeft + MaxOffset
      /\ bottom' \in Gap + InsetBottom .. LastBottom(height) + InsetBottom
  BY <1>1, <1>4, <1>5, <1>6
<1>9. panelFrom # <<>> => panelFrom = <<left', bottom'>>
  BY <1>1, <1>2, <1>6 DEF FromIn
<1>10. Measures'
  BY <1>1, <1>2, <1>7 DEF Measures
<1> QED BY <1>1, <1>3, <1>7, <1>8, <1>9, <1>10 DEF PanelInv, PanelIn, ButtonIn, FromIn

LEMMA SyncKeeps ==
  ASSUME PanelInv, Sync
  PROVE  PanelInv'
<1>1. Switches'
  BY DEF Sync, PanelInv, Switches
<1>2. Measures /\ PanelIn /\ ButtonIn /\ left \in Int /\ bottom \in Int
  BY PlaceIsInt, PanelAssumption DEF PanelInv
<1>3. CASE panelShown
  <2>1. left' = left /\ bottom' = bottom /\ offset' = offset
    BY <1>2, <1>3, ExpandedIn DEF Sync, Within, PanelIn, Measures
  <2> QED BY <1>1, <2>1, PlaceRests DEF Sync, place
<1>4. CASE ~panelShown
  <2>1. left' = left /\ bottom' = bottom
    BY <1>2, <1>4, CollapsedIn DEF Sync, Within, ButtonIn, Measures
  <2>2. offset' = OffsetOf(left)
    BY <1>4, <2>1 DEF Sync
  <2>3. offset' \in 0 .. Width
    <3>1. OffsetOf(left) \in 0 .. MaxOffset
      BY <1>2, OffsetIn DEF Measures
    <3>2. MaxOffset \in Nat /\ Gap + InsetLeft + MaxOffset <= Width /\ Gap \in Nat /\ InsetLeft \in Nat
          /\ Width \in Nat
      BY <1>2, SizesNow
    <3> QED BY <2>2, <3>1, <3>2
  <2>4. UNCHANGED <<panelShown, sizes, panelFrom>> /\ MaxOffset' = MaxOffset
    BY DEF Sync, MaxOffset, sizes
  <2> QED BY <1>1, <1>4, <2>1, <2>3, <2>4
          DEF PanelInv, Measures, PanelIn, ButtonIn, FromIn, sizes
<1> QED BY <1>3, <1>4 DEF PanelInv, Switches

LEMMA BackKeeps ==
  ASSUME PanelInv, ~Toggles, NEW on \in BOOLEAN, BackFromSettings(on)
  PROVE  PanelInv' /\ ~panelShown
<1>1. ~panelShown /\ Switches' /\ UNCHANGED <<place, panelShown, sizes, panelFrom>>
  BY DEF BackFromSettings, PanelInv, Switches
<1> QED BY <1>1, PlaceRests

LEMMA PanelStep ==
  ASSUME PanelInv, ~Toggles, [PanelNext]_panelVars
  PROVE  /\ PanelInv'
         /\ panelShown /\ ~panelShown' /\ enabled' /\ panelFrom # <<>> =>
              left' = panelFrom[1] /\ bottom' = panelFrom[2]
<1>1. CASE UNCHANGED panelVars
  <2>1. Switches'
    BY <1>1 DEF panelVars, PanelInv, Switches
  <2> QED BY <1>1, <2>1, PlaceRests DEF panelVars, place, sizes
<1>2. CASE \E handle \in BOOLEAN : PressFolded(handle) \/ PressActions(handle) \/ TouchInput(handle)
  <2>1. PICK handle \in BOOLEAN : PressFolded(handle) \/ PressActions(handle) \/ TouchInput(handle)
    BY <1>2
  <2>2. PanelInv'
    BY <2>1, TouchKeeps
  <2>3. panelShown' = panelShown
    BY <2>1 DEF PressFolded, PressActions, TouchInput
  <2> QED BY <2>2, <2>3
<1>3. CASE \E dx, dy \in Ways : DragBy(dx, dy)
  <2>1. PICK dx \in Ways, dy \in Ways : DragBy(dx, dy)
    BY <1>3
  <2>2. PanelInv'
    BY <2>1, DragKeeps
  <2>3. panelShown' = panelShown
    BY <2>1 DEF DragBy
  <2> QED BY <2>2, <2>3
<1>4. CASE \E dx \in Ways : SlideBy(dx)
  BY <1>4, SlideKeeps DEF SlideBy
<1>5. CASE LiftFinger
  BY <1>5, LiftKeeps DEF LiftFinger
<1>6. CASE UnfoldTimer
  BY <1>6, UnfoldKeeps DEF UnfoldTimer
<1>7. CASE Fold
  BY <1>7, FoldKeeps
<1>8. CASE Sync
  BY <1>8, SyncKeeps DEF Sync
<1>9. CASE \E h \in PanelHeights, m \in MaxOffsets : Measured(h, m)
  <2>1. PICK h \in PanelHeights, m \in MaxOffsets : Measured(h, m)
    BY <1>9
  <2>2. PanelInv'
    BY <2>1, MeasuredKeeps
  <2>3. panelShown' = panelShown
    BY <2>1 DEF Measured
  <2> QED BY <2>2, <2>3
<1>10. CASE \E on \in BOOLEAN : BackFromSettings(on)
  BY <1>10, BackKeeps
<1> QED BY <1>1, <1>2, <1>3, <1>4, <1>5, <1>6, <1>7, <1>8, <1>9, <1>10 DEF PanelNext

\* The folded button and the panel stay in reach, and a panel that was not moved
\* folds back to its button, in a window of any size.  The settings are opened
\* with the panel folded (Toggles): otherwise onShow hides it without folding.
THEOREM ButtonAlwaysInReach == ASSUME ~Toggles PROVE PanelSpec => ButtonStaysInReach
<1>1. ASSUME PanelInv PROVE PanelTypeOK /\ FoldedFits /\ PanelFits
  <2>1. Switches /\ Measures /\ left \in Int /\ bottom \in Int
        /\ left \in 0 .. Width /\ bottom \in 0 .. WindowHeight
    BY <1>1, PlaceIsInt, PanelAssumption DEF PanelInv
  <2>2. PanelTypeOK
    <3>1. {panelShown, enabled, armed, measures, syncs} \subseteq BOOLEAN
      BY <2>1 DEF Switches
    <3>2. drag.candidate \in BOOLEAN
      BY <2>1 DEF Switches
    <3> QED BY <2>1, <3>1, <3>2 DEF PanelTypeOK, Switches, Measures
  <2>3. FoldedFits
    <3> SUFFICES ASSUME ~panelShown
                 PROVE  CollapsedPosition(left, bottom, height) = [l |-> left, b |-> bottom]
      BY DEF FoldedFits
    <3> DEFINE p == CollapsedPosition(left, bottom, height)
    <3>1. p.l = left /\ p.b = bottom
      BY <1>1, <2>1, CollapsedIn DEF PanelInv, ButtonIn, Measures
    <3>2. p = [l |-> p.l, b |-> p.b]
      BY DEF CollapsedPosition
    <3> HIDE DEF p
    <3> QED BY <3>1, <3>2 DEF p
  <2>4. PanelFits
    <3> SUFFICES ASSUME panelShown
                 PROVE  ExpandedOrigin(left, bottom, height) = [l |-> left, b |-> bottom]
      BY DEF PanelFits
    <3> DEFINE p == ExpandedOrigin(left, bottom, height)
    <3>1. p.l = left /\ p.b = bottom
      BY <1>1, <2>1, ExpandedIn DEF PanelInv, PanelIn, Measures
    <3>2. p = [l |-> p.l, b |-> p.b]
      BY DEF ExpandedOrigin
    <3> HIDE DEF p
    <3> QED BY <3>1, <3>2 DEF p
  <2> QED BY <2>2, <2>3, <2>4
<1>2. PanelInit => PanelInv
  BY FirstPlace
<1>3. PanelInv /\ [PanelNext]_panelVars =>
        PanelInv' /\ [panelShown /\ ~panelShown' /\ enabled' /\ panelFrom # <<>> =>
                        left' = panelFrom[1] /\ bottom' = panelFrom[2]]_panelVars
  BY PanelStep
<1> QED BY <1>1, <1>2, <1>3, PTL DEF PanelSpec, FoldsBack, ButtonStaysInReach
=============================================================================
