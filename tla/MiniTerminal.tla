---------------------------- MODULE MiniTerminal -------------------------------
(***************************************************************************)
(* The terminal page of the mini-program and its gateway clients: a client *)
(* retries a connect that failed before it opened, the page suspends its   *)
(* client when it is hidden, resumes when it is shown, reconnects after a  *)
(* lost connection.  The page drops a client whenever an error reaches it; *)
(* the callbacks of a dropped client whose socket is still open go on      *)
(* acting on the page.                                                     *)
(***************************************************************************)
EXTENDS Naturals, TLAPS

CONSTANTS
  MaxClients, \* bound: clients that have a socket, a run or the page at a time
  Retries,    \* connectRetryCount
  Limit,      \* settings.reconnectLimit, with settings.autoReconnect on
  Prompt      \* the gateway answers an init within the wait timer, and reports no error

ASSUME PageConstants ==
  MaxClients \in Nat \ {0} /\ Retries \in Nat /\ Limit \in Nat /\ Prompt \in BOOLEAN

VARIABLE w
vars == <<w>>

Clients == 1 .. MaxClients

\* A client: its socket, its run of connect (stale: in its delay when it was
\* superseded) and the attempt that run is at.
Fresh == [sock |-> "none", run |-> "none", tries |-> 0]

\* client: the page's client (0: null); rtimer, wtimer: autoReconnectTimer and
\* waitForConnectedTimer are armed; layout: callbacks of onLoad and onShow that
\* wait for the layout; snap: the status in the stored session snapshot.
Init ==
  w = [shown |-> TRUE, status |-> "connecting", client |-> 1, ready |-> FALSE,
       suspended |-> FALSE, suppressed |-> FALSE, attempts |-> 0,
       rtimer |-> FALSE, wtimer |-> FALSE, layout |-> {"load", "show"},
       snap |-> "connecting", cli |-> [c \in Clients |-> Fresh]]

\* --- parts of the handlers: from the page and its clients to the new ones --------
CliConnect(n, c) ==
  IF n.cli[c].run \in {"connecting", "retry"} THEN n
  ELSE [n EXCEPT !.cli[c] = [sock |-> "opening", run |-> "connecting", tries |-> 1]]

CliStop(n, c) ==
  [n EXCEPT !.cli[c] = IF @.run = "retry" THEN [Fresh EXCEPT !.run = "stale"] ELSE Fresh]

SetStatus(n, st) ==
  [n EXCEPT !.status = st,
            !.wtimer = @ /\ st \notin {"connected", "disconnected", "error"},
            !.snap = IF st \in {"auth_pending", "connected"} THEN st ELSE @]

Free(n) == {c \in Clients : c # n.client /\ n.cli[c] = Fresh}

ConnectGateway(n, again) ==
  LET id == IF n.client # 0 THEN n.client ELSE CHOOSE c \in Free(n) : TRUE
  IN  CliConnect([n EXCEPT !.rtimer = FALSE, !.client = id,
                           !.attempts = IF again THEN @ ELSE 0,
                           !.suppressed = @ /\ again,
                           !.suspended = FALSE, !.ready = FALSE, !.snap = "connecting"], id)

\* connect() resolves
Opened(n) == [SetStatus(n, "auth_pending") EXCEPT !.wtimer = TRUE]

HandleError(n) ==
  SetStatus([n EXCEPT !.rtimer = FALSE, !.ready = FALSE, !.client = 0,
                      !.suspended = FALSE, !.snap = "none"], "error")

WantsReconnect(n, reason) ==
  ~n.suppressed /\ ~n.suspended /\ reason # "manual" /\ n.attempts < Limit

ScheduleReconnect(n, reason) ==
  IF WantsReconnect(n, reason)
  THEN [SetStatus(n, "reconnecting") EXCEPT !.attempts = @ + 1, !.rtimer = TRUE]
  ELSE n

HandleDisconnect(n, reason) ==
  LET d == SetStatus([n EXCEPT !.ready = FALSE, !.client = 0, !.suspended = FALSE,
                               !.snap = IF reason = "ws_closed" THEN "resumable" ELSE "none"],
                     "disconnected")
  IN  IF n.suspended THEN d ELSE ScheduleReconnect(d, reason)

Suspend(n) ==
  IF n.client = 0 \/ n.suspended THEN n
  ELSE CliStop([n EXCEPT !.suspended = TRUE, !.snap = "resumable", !.ready = FALSE,
                         !.client = 0], n.client)

Frame(n, kind) ==
  CASE kind = "stdout" -> SetStatus(n, "connected")
    [] kind = "error" -> HandleError(n)
    [] OTHER -> [SetStatus(n, "connected") EXCEPT !.ready = @ \/ kind = "ready",
                   !.rtimer = FALSE, !.attempts = 0, !.suppressed = FALSE]

\* --- the page's life ----------------------------------------------------------
Disabled(n) == n.status \in {"connecting", "auth_pending", "reconnecting"}
HasRoom(n) == n.client # 0 \/ Free(n) # {}
Become(n) == w' = n /\ HasRoom(n)

Show == ~w.shown /\ Become([w EXCEPT !.shown = TRUE, !.layout = @ \cup {"show"}])

HideKeepsTimer ==
  w.shown /\ Become(Suspend([w EXCEPT !.shown = FALSE, !.suppressed = TRUE, !.wtimer = FALSE]))
Hide ==
  /\ w.shown
  /\ Become(Suspend([w EXCEPT !.shown = FALSE, !.suppressed = TRUE, !.rtimer = FALSE, !.wtimer = FALSE]))

LoadLaidOut ==
  /\ "load" \in w.layout
  /\ Become(ConnectGateway([w EXCEPT !.layout = @ \ {"load"}], FALSE))

ShowLaidOut ==
  LET n == [w EXCEPT !.layout = @ \ {"show"}] IN
  /\ "show" \in w.layout
  /\ Become(CASE w.client = 0 /\ w.snap # "none" -> ConnectGateway(n, FALSE)
              [] w.client = 0 /\ w.snap = "none" /\ w.status \in {"connecting", "auth_pending", "connected"}
                   -> SetStatus(n, "disconnected")
              [] OTHER -> n)

SnapshotExpires == w.snap = "resumable" /\ Become([w EXCEPT !.snap = "none"])

ConnectionAction ==
  /\ w.shown /\ ~Disabled(w)
  /\ IF w.status \in {"disconnected", "error"} THEN Become(ConnectGateway(w, FALSE))
     ELSE LET n == [w EXCEPT !.suppressed = TRUE, !.rtimer = FALSE]
          IN  Become(HandleDisconnect(IF w.client = 0 THEN n ELSE CliStop(n, w.client), "manual"))

\* ensureConnectedForAi of a launch that finds no ready shell
AiTap ==
  /\ w.shown /\ w.status \notin {"connecting", "auth_pending"}
  /\ ~(w.status = "connected" /\ w.client # 0 /\ w.ready)
  /\ Become(ConnectGateway(w, FALSE))

ReconnectTimer ==
  /\ w.rtimer
  /\ LET n == [w EXCEPT !.rtimer = FALSE]
     IN  Become(IF WantsReconnect(n, "ws_closed") THEN ConnectGateway(n, TRUE) ELSE n)

\* The callback's disconnect comes after handleError has dropped the client: it is
\* never made.
WaitTimer ==
  /\ w.wtimer /\ (Prompt => w.client = 0)
  /\ LET n == [w EXCEPT !.wtimer = FALSE]
     IN  Become(IF w.status \in {"auth_pending", "connecting"} THEN HandleError(n) ELSE n)

\* --- what the clients report -------------------------------------------------
SocketOpens(c) ==
  /\ w.cli[c].sock = "opening"
  /\ Become(Opened([w EXCEPT !.cli[c].sock = "open", !.cli[c].run = "none"]))

SocketFails(c, retryable) ==
  /\ w.cli[c].sock = "opening"
  /\ Become(IF retryable /\ w.cli[c].tries <= Retries
            THEN [w EXCEPT !.cli[c].sock = "none", !.cli[c].run = "retry"]
            ELSE HandleError([w EXCEPT !.cli[c] = Fresh]))

RetryDelay(c) ==
  /\ w.cli[c].run = "retry"
  /\ Become([w EXCEPT !.cli[c] = [sock |-> "opening", run |-> "connecting", tries |-> @.tries + 1]])

\* The superseded run returns, which resolves its connect().
StaleWakes(c) == w.cli[c].run = "stale" /\ Become(Opened([w EXCEPT !.cli[c] = Fresh]))

GatewaySends(c, kind) ==
  /\ w.cli[c].sock = "open" /\ (Prompt => kind # "error")
  /\ Become(Frame(w, kind))

SocketErrs(c) == w.cli[c].sock = "open" /\ ~Prompt /\ Become(HandleError(w))

SocketCloses(c) ==
  w.cli[c].sock = "open" /\ Become(HandleDisconnect([w EXCEPT !.cli[c] = Fresh], "ws_closed"))

\* The gateway closes a socket whose session key another one has claimed.
Replaced(c) == (\E d \in Clients \ {c} : w.cli[d].sock = "open") /\ SocketCloses(c)

Next ==
  \/ Show \/ Hide \/ LoadLaidOut \/ ShowLaidOut \/ SnapshotExpires
  \/ ConnectionAction \/ AiTap \/ ReconnectTimer \/ WaitTimer
  \/ \E c \in Clients :
       \/ SocketOpens(c) \/ RetryDelay(c) \/ StaleWakes(c) \/ SocketErrs(c) \/ SocketCloses(c)
       \/ \E retryable \in BOOLEAN : SocketFails(c, retryable)
       \/ \E kind \in {"fingerprint", "ready", "stdout", "error"} : GatewaySends(c, kind)

Spec == Init /\ [][Next]_vars

\* Timers fire, layouts are done, wx ends a connect within its timeout, the gateway
\* closes what was replaced.
Fairness ==
  /\ WF_vars(LoadLaidOut) /\ WF_vars(ShowLaidOut) /\ WF_vars(ReconnectTimer) /\ WF_vars(WaitTimer)
  /\ \A c \in Clients :
       /\ WF_vars(SocketOpens(c) \/ \E retryable \in BOOLEAN : SocketFails(c, retryable))
       /\ WF_vars(RetryDelay(c)) /\ WF_vars(StaleWakes(c)) /\ WF_vars(Replaced(c))

\* --- properties ---------------------------------------------------------------
\* While errors do not make the page drop a client, only the page's client has a
\* socket: neither a hidden page's retry nor a replaced attempt leaves a second one.
OneSocket == \A c \in Clients : w.cli[c].sock # "none" => c = w.client

\* After the user ended the connection, or left the page, nothing reconnects until a
\* connect that was asked for, or a shell that answered, lifts the ban.
EndedStaysDown == w.rtimer => ~w.suppressed

\* The shell is ready only on the connection the page holds: the flag of an earlier
\* one does not leak into it (the comment of connectGateway).
ReadyIsHeld == w.ready => w.client # 0 /\ w.cli[w.client].sock = "open"

\* A session that was ended stays down, and as long as no error makes the page
\* drop a client, one socket serves the page and the shell is ready on no other.
PageIsConnected == EndedStaysDown /\ (Prompt => OneSocket /\ ReadyIsHeld)

\* The page does not stay in a connecting state: the wait ends, or the page is left.
IsPending == w.shown /\ w.status \in {"connecting", "auth_pending"}

-----------------------------------------------------------------------------
(***************************************************************************)
(* Proof of PageIsConnected, for any number of clients, retries and        *)
(* reconnects.  Handlers turn one record into the next through several     *)
(* helpers; for each helper a lemma says what it keeps of a page and its   *)
(* clients, and the step of a handler puts them together.                  *)
(***************************************************************************)

\* What a client and the page may hold.
Runs == [sock : {"none", "opening", "open"}, run : {"none", "connecting", "retry", "stale"},
         tries : Nat]
Pages ==
  [shown : BOOLEAN, status : {"connecting", "auth_pending", "connected", "reconnecting",
                              "disconnected", "error"},
   client : {0} \cup Clients, ready : BOOLEAN, suspended : BOOLEAN, suppressed : BOOLEAN,
   attempts : Nat, rtimer : BOOLEAN, wtimer : BOOLEAN, layout : SUBSET {"load", "show"},
   snap : {"none", "connecting", "auth_pending", "connected", "resumable"},
   cli : [Clients -> Runs]]

\* A client works for the page when it has a socket or a run that was not superseded.
Works(k) == k.sock # "none" \/ k.run \in {"connecting", "retry"}

\* The page's state has its type, and a client in a retry delay, or whose run was
\* superseded in it, has no socket.
Sound(n) ==
  /\ n \in Pages
  /\ \A c \in Clients : n.cli[c].run \in {"retry", "stale"} => n.cli[c].sock = "none"

\* Only the page's client works, and the page is ready only when its socket is open.
OneWorks(n) == \A c \in Clients : Works(n.cli[c]) => c = n.client
Held(n) == n.ready => n.client # 0 /\ n.cli[n.client].sock = "open"

\* No reconnect is scheduled against a ban.
Quiet(n) == n.rtimer => ~n.suppressed

\* The inductive invariant, of the page's state w and of the one a handler leads to.
Good(n) == Sound(n) /\ HasRoom(n) /\ Quiet(n) /\ (Prompt => OneWorks(n) /\ Held(n))
PageInv == Good(w)

\* setStatus touches neither the clients nor what the invariant says of them.
LEMMA SetStatusKeeps ==
  ASSUME NEW n, Sound(n), NEW st \in {"connecting", "auth_pending", "connected", "reconnecting",
                              "disconnected", "error"}
  PROVE  /\ Sound(SetStatus(n, st))
         /\ SetStatus(n, st).client = n.client /\ SetStatus(n, st).cli = n.cli
         /\ SetStatus(n, st).ready = n.ready
         /\ SetStatus(n, st).rtimer = n.rtimer /\ SetStatus(n, st).suppressed = n.suppressed
         /\ SetStatus(n, st).suspended = n.suspended /\ SetStatus(n, st).attempts = n.attempts
<1> DEFINE waits == n.wtimer /\ st \notin {"connected", "disconnected", "error"}
           snap == IF st \in {"auth_pending", "connected"} THEN st ELSE n.snap
<1>1. waits \in BOOLEAN /\ snap \in {"none", "connecting", "auth_pending", "connected", "resumable"}
  BY DEF Sound, Pages
<1>2. SetStatus(n, st) = [n EXCEPT !.status = st, !.wtimer = waits, !.snap = snap]
  BY DEF SetStatus
<1> HIDE DEF waits, snap
<1>3. n \in Pages
  BY DEF Sound
<1>4. SetStatus(n, st) \in Pages
  BY <1>1, <1>2, <1>3 DEF Pages
<1>5. /\ SetStatus(n, st).client = n.client /\ SetStatus(n, st).cli = n.cli
      /\ SetStatus(n, st).ready = n.ready
      /\ SetStatus(n, st).rtimer = n.rtimer /\ SetStatus(n, st).suppressed = n.suppressed
      /\ SetStatus(n, st).suspended = n.suspended /\ SetStatus(n, st).attempts = n.attempts
  BY <1>2, <1>3 DEF Pages
<1> QED BY <1>4, <1>5 DEF Sound

\* connect() of a client
LEMMA CliConnectKeeps ==
  ASSUME NEW n, Sound(n), NEW c \in Clients
  PROVE  LET m == CliConnect(n, c) IN
         /\ Sound(m) /\ m.client = n.client /\ m.ready = n.ready
         /\ m.rtimer = n.rtimer /\ m.suppressed = n.suppressed
         /\ \A d \in Clients : d # c => m.cli[d] = n.cli[d]
  BY DEF Sound, Pages, Runs, CliConnect

\* disconnect() of a client: it no longer works, whatever it was at.
LEMMA CliStopKeeps ==
  ASSUME NEW n, Sound(n), NEW c \in Clients
  PROVE  LET m == CliStop(n, c) IN
         /\ Sound(m) /\ m.client = n.client /\ m.ready = n.ready
         /\ m.rtimer = n.rtimer /\ m.suppressed = n.suppressed /\ m.suspended = n.suspended
         /\ \A d \in Clients : d # c => m.cli[d] = n.cli[d]
         /\ ~Works(m.cli[c])
  BY DEF Sound, Pages, Runs, CliStop, Fresh, Works

\* connectGateway: the client that was there, or a new one, connects for the page.
LEMMA ConnectKeeps ==
  ASSUME NEW n, Sound(n), HasRoom(n), NEW again \in BOOLEAN
  PROVE  LET m == ConnectGateway(n, again) IN
         Sound(m) /\ ~m.ready /\ ~m.rtimer /\ (OneWorks(n) => OneWorks(m))
<1> DEFINE id == IF n.client # 0 THEN n.client ELSE CHOOSE c \in Free(n) : TRUE
           tries == IF again THEN n.attempts ELSE 0
           banned == n.suppressed /\ again
           p == [n EXCEPT !.rtimer = FALSE, !.client = id, !.attempts = tries,
                          !.suppressed = banned, !.suspended = FALSE, !.ready = FALSE,
                          !.snap = "connecting"]
<1>1. id \in Clients /\ tries \in Nat /\ banned \in BOOLEAN
  BY DEF Sound, Pages, HasRoom, Free
<1>2. id # n.client => n.client = 0
  OBVIOUS
<1>3. ConnectGateway(n, again) = CliConnect(p, id)
  BY DEF ConnectGateway
<1> HIDE DEF id, tries, banned
<1>4. p \in Pages /\ p.client = id /\ p.cli = n.cli /\ p.ready = FALSE /\ p.rtimer = FALSE
  BY <1>1 DEF Sound, Pages
<1>5. Sound(p)
  BY <1>4 DEF Sound
<1> HIDE DEF p
<1>6. LET m == CliConnect(p, id) IN
      Sound(m) /\ m.client = id /\ ~m.ready /\ ~m.rtimer
      /\ \A d \in Clients : d # id => m.cli[d] = n.cli[d]
  BY <1>1, <1>4, <1>5, CliConnectKeeps
<1>7. OneWorks(n) => OneWorks(CliConnect(p, id))
  BY <1>1, <1>2, <1>6 DEF OneWorks, Clients
<1> QED BY <1>3, <1>6, <1>7

\* handleError drops the client and disarms the reconnect timer.
LEMMA ErrorKeeps ==
  ASSUME NEW n, Sound(n)
  PROVE  LET m == HandleError(n) IN
         Sound(m) /\ m.client = 0 /\ m.cli = n.cli /\ ~m.ready /\ ~m.rtimer
<1> DEFINE p == [n EXCEPT !.rtimer = FALSE, !.ready = FALSE, !.client = 0,
                          !.suspended = FALSE, !.snap = "none"]
<1>1. Sound(p) /\ p.client = 0 /\ p.cli = n.cli /\ ~p.ready /\ ~p.rtimer
  BY DEF Sound, Pages
<1>2. HandleError(n) = SetStatus(p, "error")
  BY DEF HandleError
<1> HIDE DEF p
<1> QED BY <1>1, <1>2, SetStatusKeeps

\* A reconnect is scheduled only where nothing bans it.
LEMMA ScheduleKeeps ==
  ASSUME NEW n, Sound(n), Quiet(n), NEW reason
  PROVE  LET m == ScheduleReconnect(n, reason) IN
         Sound(m) /\ Quiet(m) /\ m.client = n.client /\ m.cli = n.cli /\ m.ready = n.ready
<1>1. CASE WantsReconnect(n, reason)
  <2> DEFINE p == SetStatus(n, "reconnecting")
             tries == p.attempts + 1
             m == [p EXCEPT !.attempts = tries, !.rtimer = TRUE]
  <2>1. Sound(p) /\ p.client = n.client /\ p.cli = n.cli /\ p.ready = n.ready
        /\ p.suppressed = n.suppressed
    BY SetStatusKeeps
  <2>2. ~n.suppressed
    BY <1>1 DEF WantsReconnect
  <2>3. p \in Pages /\ tries \in Nat
    BY <2>1 DEF Sound, Pages
  <2>4. ScheduleReconnect(n, reason) = m
    BY <1>1 DEF ScheduleReconnect, p
  <2> HIDE DEF p, tries
  <2>5. m \in Pages /\ m.client = p.client /\ m.cli = p.cli /\ m.ready = p.ready
        /\ m.suppressed = p.suppressed
    BY <2>3 DEF Pages
  <2> HIDE DEF m
  <2> QED BY <2>1, <2>2, <2>4, <2>5 DEF Sound, Quiet
<1>2. CASE ~WantsReconnect(n, reason)
  BY <1>2 DEF ScheduleReconnect
<1> QED BY <1>1, <1>2

\* handleDisconnect drops the client; a reconnect is scheduled where none is banned.
LEMMA DisconnectKeeps ==
  ASSUME NEW n, Sound(n), Quiet(n), NEW reason
  PROVE  LET m == HandleDisconnect(n, reason) IN
         Sound(m) /\ Quiet(m) /\ m.client = 0 /\ m.cli = n.cli /\ ~m.ready
<1> DEFINE p == [n EXCEPT !.ready = FALSE, !.client = 0, !.suspended = FALSE,
                          !.snap = IF reason = "ws_closed" THEN "resumable" ELSE "none"]
           d == SetStatus(p, "disconnected")
<1>1. Sound(p) /\ p.client = 0 /\ p.cli = n.cli /\ ~p.ready
      /\ p.rtimer = n.rtimer /\ p.suppressed = n.suppressed
  BY DEF Sound, Pages
<1>2. HandleDisconnect(n, reason) = IF n.suspended THEN d ELSE ScheduleReconnect(d, reason)
  BY DEF HandleDisconnect
<1> HIDE DEF p
<1>3. Sound(d) /\ d.client = 0 /\ d.cli = n.cli /\ ~d.ready /\ Quiet(d)
  BY <1>1, SetStatusKeeps DEF Quiet
<1> HIDE DEF d
<1> QED BY <1>2, <1>3, ScheduleKeeps

\* Hiding the page ends the socket of its client, and a retry of it is superseded.
LEMMA SuspendKeeps ==
  ASSUME NEW n, Sound(n), Quiet(n)
  PROVE  LET m == Suspend(n) IN
         Sound(m) /\ Quiet(m) /\ (OneWorks(n) => OneWorks(m)) /\ (Held(n) => Held(m))
<1>1. CASE n.client = 0 \/ n.suspended
  BY <1>1 DEF Suspend
<1>2. CASE ~(n.client = 0 \/ n.suspended)
  <2> DEFINE p == [n EXCEPT !.suspended = TRUE, !.snap = "resumable", !.ready = FALSE, !.client = 0]
  <2>1. Sound(p) /\ p.client = 0 /\ p.cli = n.cli /\ ~p.ready /\ n.client \in Clients
        /\ p.rtimer = n.rtimer /\ p.suppressed = n.suppressed
    BY <1>2 DEF Sound, Pages
  <2>2. Suspend(n) = CliStop(p, n.client)
    BY <1>2 DEF Suspend
  <2> HIDE DEF p
  <2>3. LET m == CliStop(p, n.client) IN
        /\ Sound(m) /\ Quiet(m) /\ ~m.ready
        /\ m.client = 0 /\ ~Works(m.cli[n.client])
        /\ \A d \in Clients : d # n.client => m.cli[d] = n.cli[d]
    BY <2>1, CliStopKeeps DEF Quiet
  <2> QED BY <2>1, <2>2, <2>3 DEF OneWorks, Held
<1> QED BY <1>1, <1>2

\* A frame lifts the ban together with disarming the timer, and only "ready" makes ready.
LEMMA FrameKeeps ==
  ASSUME NEW n, Sound(n), Quiet(n), NEW kind \in {"fingerprint", "ready", "stdout", "error"}
  PROVE  LET m == Frame(n, kind) IN
         /\ Sound(m) /\ Quiet(m)
         /\ kind # "error" => /\ m.client = n.client /\ m.cli = n.cli
                              /\ m.ready => n.ready \/ kind = "ready"
<1> DEFINE p == SetStatus(n, "connected")
           ready == p.ready \/ kind = "ready"
           m == [p EXCEPT !.ready = ready, !.rtimer = FALSE, !.attempts = 0, !.suppressed = FALSE]
<1>1. /\ Sound(p) /\ p.client = n.client /\ p.cli = n.cli /\ p.ready = n.ready
      /\ p.rtimer = n.rtimer /\ p.suppressed = n.suppressed
  BY SetStatusKeeps
<1>2. CASE kind = "stdout"
  BY <1>1, <1>2 DEF Frame, Quiet
<1>3. CASE kind = "error"
  BY <1>3, ErrorKeeps DEF Frame, Quiet
<1>4. CASE kind \in {"fingerprint", "ready"}
  <2>1. Frame(n, kind) = m
    BY <1>4 DEF Frame
  <2>2. ready \in BOOLEAN
    OBVIOUS
  <2>3. ready => n.ready \/ kind = "ready"
    BY <1>1
  <2> HIDE DEF p, ready
  <2>4. Sound(m) /\ m.client = p.client /\ m.cli = p.cli /\ m.ready = ready /\ ~m.rtimer
    BY <1>1, <2>2 DEF Sound, Pages
  <2> HIDE DEF m
  <2> QED BY <1>1, <2>1, <2>3, <2>4 DEF Quiet
<1> QED BY <1>2, <1>3, <1>4

LEMMA OpenedKeeps ==
  ASSUME NEW n, Sound(n)
  PROVE  LET m == Opened(n) IN
         /\ Sound(m) /\ m.client = n.client /\ m.cli = n.cli /\ m.ready = n.ready
         /\ m.rtimer = n.rtimer /\ m.suppressed = n.suppressed
<1> DEFINE p == SetStatus(n, "auth_pending")
<1>1. /\ Sound(p) /\ p.client = n.client /\ p.cli = n.cli /\ p.ready = n.ready
      /\ p.rtimer = n.rtimer /\ p.suppressed = n.suppressed
  BY SetStatusKeeps
<1>2. Opened(n) = [p EXCEPT !.wtimer = TRUE]
  BY DEF Opened
<1> HIDE DEF p
<1> DEFINE m == [p EXCEPT !.wtimer = TRUE]
<1>3. p \in Pages
  BY <1>1 DEF Sound
<1>4. /\ m \in Pages /\ m.client = p.client /\ m.cli = p.cli /\ m.ready = p.ready
      /\ m.rtimer = p.rtimer /\ m.suppressed = p.suppressed
  BY <1>3 DEF Pages
<1> HIDE DEF m
<1> QED BY <1>1, <1>2, <1>4 DEF Sound, m

\* --- the steps ------------------------------------------------------------------
LEMMA ShowStep == PageInv /\ Show => Good(w')
<1> SUFFICES ASSUME PageInv, Show PROVE Good(w')
  OBVIOUS
<1> DEFINE n == [w EXCEPT !.shown = TRUE, !.layout = @ \cup {"show"}]
<1>1. w' = n /\ HasRoom(n)
  BY DEF Show, Become
<1>2. w \in Pages /\ w.layout \cup {"show"} \in SUBSET {"load", "show"}
  BY DEF PageInv, Good, Sound, Pages
<1>3. n \in Pages /\ n.client = w.client /\ n.cli = w.cli /\ n.ready = w.ready
      /\ n.rtimer = w.rtimer /\ n.suppressed = w.suppressed
  BY <1>2 DEF Pages
<1> QED BY <1>1, <1>3 DEF PageInv, Good, Sound, Quiet, OneWorks, Held

LEMMA HideStep == PageInv /\ Hide => Good(w')
<1> SUFFICES ASSUME PageInv, Hide PROVE Good(w')
  OBVIOUS
<1> DEFINE p == [w EXCEPT !.shown = FALSE, !.suppressed = TRUE, !.rtimer = FALSE, !.wtimer = FALSE]
<1>1. w' = Suspend(p) /\ HasRoom(w')
  BY DEF Hide, Become
<1>2. p \in Pages /\ p.client = w.client /\ p.cli = w.cli /\ p.ready = w.ready /\ ~p.rtimer
  BY DEF PageInv, Good, Sound, Pages
<1> HIDE DEF p
<1>3. Sound(p) /\ Quiet(p)
  BY <1>2 DEF PageInv, Good, Sound, Quiet
<1>4. Prompt => OneWorks(p) /\ Held(p)
  BY <1>2 DEF PageInv, Good, OneWorks, Held
<1> QED BY <1>1, <1>3, <1>4, SuspendKeeps DEF Good

\* A connect of the page, from a state n that holds the clients of the present one.
LEMMA ConnectGood ==
  ASSUME PageInv, NEW n, Sound(n), n.client = w.client, n.cli = w.cli, NEW again \in BOOLEAN,
         Become(ConnectGateway(n, again))
  PROVE  Good(w')
<1>1. HasRoom(n) /\ (Prompt => OneWorks(n))
  BY DEF PageInv, Good, HasRoom, Free, OneWorks
<1> QED BY <1>1, ConnectKeeps DEF Become, Good, Quiet, Held

LEMMA LoadLaidOutStep == PageInv /\ LoadLaidOut => Good(w')
<1> SUFFICES ASSUME PageInv, LoadLaidOut PROVE Good(w')
  OBVIOUS
<1> DEFINE p == [w EXCEPT !.layout = @ \ {"load"}]
<1>1. Sound(p) /\ p.client = w.client /\ p.cli = w.cli
  BY DEF PageInv, Good, Sound, Pages
<1> QED BY <1>1, ConnectGood DEF LoadLaidOut

LEMMA ShowLaidOutStep == PageInv /\ ShowLaidOut => Good(w')
<1> SUFFICES ASSUME PageInv, ShowLaidOut PROVE Good(w')
  OBVIOUS
<1> DEFINE p == [w EXCEPT !.layout = @ \ {"show"}]
<1>1. /\ Sound(p) /\ p.client = w.client /\ p.cli = w.cli /\ p.ready = w.ready
      /\ p.rtimer = w.rtimer /\ p.suppressed = w.suppressed
  BY DEF PageInv, Good, Sound, Pages
<1>2. \/ Become(ConnectGateway(p, FALSE)) \/ Become(SetStatus(p, "disconnected")) \/ Become(p)
  BY DEF ShowLaidOut
<1> HIDE DEF p
<1>3. CASE Become(ConnectGateway(p, FALSE))
  BY <1>1, <1>3, ConnectGood
<1>4. ASSUME NEW n \in {p, SetStatus(p, "disconnected")}, Become(n) PROVE Good(w')
  <2>1. /\ Sound(n) /\ n.client = w.client /\ n.cli = w.cli /\ n.ready = w.ready
        /\ n.rtimer = w.rtimer /\ n.suppressed = w.suppressed
    BY <1>1, SetStatusKeeps
  <2> QED BY <1>4, <2>1 DEF Become, PageInv, Good, Quiet, OneWorks, Held
<1> QED BY <1>2, <1>3, <1>4

LEMMA SnapshotExpiresStep == PageInv /\ SnapshotExpires => Good(w')
<1> SUFFICES ASSUME PageInv, SnapshotExpires PROVE Good(w')
  OBVIOUS
<1> DEFINE n == [w EXCEPT !.snap = "none"]
<1>1. /\ Sound(n) /\ n.client = w.client /\ n.cli = w.cli /\ n.ready = w.ready
      /\ n.rtimer = w.rtimer /\ n.suppressed = w.suppressed
  BY DEF PageInv, Good, Sound, Pages
<1>2. w' = n /\ HasRoom(n)
  BY DEF SnapshotExpires, Become
<1> HIDE DEF n
<1> QED BY <1>1, <1>2 DEF PageInv, Good, Quiet, OneWorks, Held

LEMMA ConnectionActionStep == PageInv /\ ConnectionAction => Good(w')
<1> SUFFICES ASSUME PageInv, ConnectionAction PROVE Good(w')
  OBVIOUS
<1> DEFINE p == [w EXCEPT !.suppressed = TRUE, !.rtimer = FALSE]
           q == IF w.client = 0 THEN p ELSE CliStop(p, w.client)
<1>1. CASE Become(ConnectGateway(w, FALSE))
  BY <1>1, ConnectGood DEF PageInv, Good
<1>2. CASE Become(HandleDisconnect(q, "manual"))
  <2>1. Sound(p) /\ p.client = w.client /\ p.cli = w.cli /\ ~p.rtimer /\ w.client \in {0} \cup Clients
    BY DEF PageInv, Good, Sound, Pages
  <2> HIDE DEF p
  <2>2. /\ Sound(q) /\ ~q.rtimer
        /\ \A c \in Clients : c # w.client => q.cli[c] = w.cli[c]
        /\ w.client # 0 => ~Works(q.cli[w.client])
    BY <2>1, CliStopKeeps
  <2> HIDE DEF q
  <2>3. LET m == HandleDisconnect(q, "manual") IN
        Sound(m) /\ Quiet(m) /\ m.client = 0 /\ m.cli = q.cli /\ ~m.ready
    BY <2>2, DisconnectKeeps DEF Quiet
  <2>4. OneWorks(w) => OneWorks(HandleDisconnect(q, "manual"))
    BY <2>1, <2>2, <2>3 DEF OneWorks, Clients
  <2> QED BY <1>2, <2>3, <2>4 DEF Become, PageInv, Good, Held
<1> QED BY <1>1, <1>2 DEF ConnectionAction

LEMMA AiTapStep == PageInv /\ AiTap => Good(w')
  BY ConnectGood DEF AiTap, PageInv, Good

LEMMA ReconnectTimerStep == PageInv /\ ReconnectTimer => Good(w')
<1> SUFFICES ASSUME PageInv, ReconnectTimer PROVE Good(w')
  OBVIOUS
<1> DEFINE p == [w EXCEPT !.rtimer = FALSE]
<1>1. Sound(p) /\ p.client = w.client /\ p.cli = w.cli /\ p.ready = w.ready /\ ~p.rtimer
  BY DEF PageInv, Good, Sound, Pages
<1>2. Become(ConnectGateway(p, TRUE)) \/ Become(p)
  BY DEF ReconnectTimer
<1> HIDE DEF p
<1>3. CASE Become(p)
  BY <1>1, <1>3 DEF Become, PageInv, Good, Quiet, OneWorks, Held
<1> QED BY <1>1, <1>2, <1>3, ConnectGood

\* With no client (the wait ends while one answers), an error drops none.
LEMMA WaitTimerStep == PageInv /\ WaitTimer => Good(w')
<1> SUFFICES ASSUME PageInv, WaitTimer PROVE Good(w')
  OBVIOUS
<1> DEFINE p == [w EXCEPT !.wtimer = FALSE]
<1>1. /\ Sound(p) /\ p.client = w.client /\ p.cli = w.cli /\ p.ready = w.ready
      /\ p.rtimer = w.rtimer /\ p.suppressed = w.suppressed
  BY DEF PageInv, Good, Sound, Pages
<1>2. (Become(HandleError(p)) \/ Become(p)) /\ (Prompt => w.client = 0)
  BY DEF WaitTimer
<1> HIDE DEF p
<1>3. CASE Become(p)
  BY <1>1, <1>3 DEF Become, PageInv, Good, Quiet, OneWorks, Held
<1>4. CASE Become(HandleError(p))
  BY <1>1, <1>2, <1>4, ErrorKeeps DEF Become, PageInv, Good, Quiet, OneWorks, Held
<1> QED BY <1>2, <1>3, <1>4

\* What a client's socket or run becomes, the page staying as it is.
LEMMA ClientTurns ==
  ASSUME PageInv, NEW c \in Clients, NEW k \in Runs, k.run \in {"retry", "stale"} => k.sock = "none"
  PROVE  LET n == [w EXCEPT !.cli[c] = k] IN
         /\ Sound(n) /\ n.client = w.client /\ n.ready = w.ready /\ Quiet(n)
         /\ n.cli[c] = k /\ \A d \in Clients : d # c => n.cli[d] = w.cli[d]
<1> DEFINE clis == [w.cli EXCEPT ![c] = k]
           n == [w EXCEPT !.cli[c] = k]
<1>1. w \in Pages
  BY DEF PageInv, Good, Sound
<1>2. clis \in [Clients -> Runs] /\ clis[c] = k /\ \A d \in Clients : d # c => clis[d] = w.cli[d]
  BY <1>1 DEF Pages
<1>3. n = [w EXCEPT !.cli = clis]
  BY <1>1 DEF Pages
<1> HIDE DEF clis, n
<1>4. n \in Pages /\ n.client = w.client /\ n.ready = w.ready /\ n.cli = clis
      /\ n.rtimer = w.rtimer /\ n.suppressed = w.suppressed
  BY <1>1, <1>2, <1>3 DEF Pages
<1>5. Sound(n) /\ Quiet(n)
  BY <1>2, <1>4 DEF PageInv, Good, Sound, Quiet
<1> QED BY <1>2, <1>4, <1>5 DEF n

LEMMA ClientTyped ==
  ASSUME PageInv, NEW c \in Clients
  PROVE  /\ w.cli[c] \in Runs
         /\ w.cli[c].run \in {"retry", "stale"} => w.cli[c].sock = "none"
         /\ Prompt => (Works(w.cli[c]) => c = w.client)
  BY DEF PageInv, Good, Sound, Pages, OneWorks

\* A client that ends works no longer.
LEMMA ClientEnds ==
  ASSUME PageInv, NEW c \in Clients
  PROVE  LET n == [w EXCEPT !.cli[c] = Fresh] IN
         /\ Sound(n) /\ n.client = w.client /\ n.ready = w.ready /\ Quiet(n)
         /\ ~Works(n.cli[c]) /\ \A d \in Clients : d # c => n.cli[d] = w.cli[d]
<1> DEFINE n == [w EXCEPT !.cli[c] = Fresh]
<1>1. Fresh \in Runs /\ ~Works(Fresh) /\ Fresh.run = "none"
  BY DEF Fresh, Runs, Works
<1>2. /\ Sound(n) /\ n.client = w.client /\ n.ready = w.ready /\ Quiet(n)
      /\ n.cli[c] = Fresh /\ \A d \in Clients : d # c => n.cli[d] = w.cli[d]
  BY <1>1, ClientTurns
<1> HIDE DEF n
<1> QED BY <1>1, <1>2 DEF n

\* No client is a second one after a step in which only c was at work.
LEMMA StillOne ==
  ASSUME PageInv, NEW c \in Clients, NEW n, Works(w.cli[c]), n.client = w.client,
         \A d \in Clients : d # c => n.cli[d] = w.cli[d]
  PROVE  Prompt => c = n.client /\ OneWorks(n)
  BY DEF PageInv, Good, OneWorks

LEMMA SocketOpensStep == ASSUME PageInv, NEW c \in Clients, SocketOpens(c) PROVE Good(w')
<1> DEFINE k == [w.cli[c] EXCEPT !.sock = "open", !.run = "none"]
           n == [w EXCEPT !.cli[c].sock = "open", !.cli[c].run = "none"]
<1>1. w.cli[c].sock = "opening" /\ Become(Opened(n))
  BY DEF SocketOpens
<1>2. n = [w EXCEPT !.cli[c] = k]
  BY DEF PageInv, Good, Sound, Pages
<1>3. k \in Runs /\ k.sock = "open" /\ k.run = "none"
  BY ClientTyped DEF Runs
<1> HIDE DEF n, k
<1>4. /\ Sound(n) /\ Quiet(n) /\ n.client = w.client /\ n.ready = w.ready /\ n.cli[c] = k
      /\ \A d \in Clients : d # c => n.cli[d] = w.cli[d]
  BY <1>2, <1>3, ClientTurns
<1>5. Prompt => c = n.client /\ OneWorks(n) /\ Held(n)
  BY <1>1, <1>3, <1>4, StillOne DEF Works, Held, Clients
<1> QED BY <1>1, <1>4, <1>5, OpenedKeeps DEF Become, Good, Quiet, OneWorks, Held

LEMMA SocketFailsStep ==
  ASSUME PageInv, NEW c \in Clients, NEW retryable \in BOOLEAN, SocketFails(c, retryable)
  PROVE  Good(w')
<1>1. w.cli[c].sock = "opening" /\ Works(w.cli[c])
  BY DEF SocketFails, Works
<1>2. Prompt => c = w.client /\ ~w.ready
  BY <1>1 DEF PageInv, Good, OneWorks, Held
<1>3. CASE Become([w EXCEPT !.cli[c].sock = "none", !.cli[c].run = "retry"])
  <2> DEFINE k == [w.cli[c] EXCEPT !.sock = "none", !.run = "retry"]
             n == [w EXCEPT !.cli[c].sock = "none", !.cli[c].run = "retry"]
  <2>1. n = [w EXCEPT !.cli[c] = k]
    BY DEF PageInv, Good, Sound, Pages
  <2>2. k \in Runs /\ k.sock = "none" /\ k.run = "retry"
    BY ClientTyped DEF Runs
  <2>3. w' = n /\ HasRoom(n)
    BY <1>3 DEF Become
  <2> HIDE DEF n, k
  <2>4. /\ Sound(n) /\ Quiet(n) /\ n.client = w.client /\ n.ready = w.ready
        /\ \A d \in Clients : d # c => n.cli[d] = w.cli[d]
    BY <2>1, <2>2, ClientTurns
  <2> QED BY <1>1, <1>2, <2>3, <2>4, StillOne DEF Good, Held
<1>4. CASE Become(HandleError([w EXCEPT !.cli[c] = Fresh]))
  <2> DEFINE n == [w EXCEPT !.cli[c] = Fresh]
  <2>1. /\ Sound(n) /\ Quiet(n) /\ n.client = w.client /\ ~Works(n.cli[c])
        /\ \A d \in Clients : d # c => n.cli[d] = w.cli[d]
    BY ClientEnds
  <2> HIDE DEF n
  <2>2. Prompt => \A d \in Clients : ~Works(n.cli[d])
    BY <1>1, <1>2, <2>1 DEF PageInv, Good, OneWorks
  <2> QED BY <1>4, <2>1, <2>2, ErrorKeeps DEF n, Become, Good, Quiet, OneWorks, Held
<1> QED BY <1>3, <1>4 DEF SocketFails

LEMMA RetryDelayStep == ASSUME PageInv, NEW c \in Clients, RetryDelay(c) PROVE Good(w')
<1> DEFINE k == [sock |-> "opening", run |-> "connecting", tries |-> w.cli[c].tries + 1]
           n == [w EXCEPT !.cli[c] = k]
<1>1. w.cli[c].run = "retry" /\ Works(w.cli[c]) /\ w' = n /\ HasRoom(n)
  BY DEF RetryDelay, Become, Works, PageInv, Good, Sound, Pages
<1>2. Prompt => c = w.client /\ ~w.ready
  BY <1>1, ClientTyped DEF PageInv, Good, Held
<1>3. /\ Sound(n) /\ Quiet(n) /\ n.client = w.client /\ n.ready = w.ready
      /\ \A d \in Clients : d # c => n.cli[d] = w.cli[d]
  <2>1. k \in Runs /\ k.run = "connecting"
    BY ClientTyped DEF Runs
  <2> HIDE DEF k
  <2> QED BY <2>1, ClientTurns
<1> HIDE DEF n
<1> QED BY <1>1, <1>2, <1>3, StillOne DEF Good, Held

\* A superseded run has no socket, so its client is not one the page is ready on.
LEMMA StaleWakesStep == ASSUME PageInv, NEW c \in Clients, StaleWakes(c) PROVE Good(w')
<1> DEFINE n == [w EXCEPT !.cli[c] = Fresh]
<1>1. w.cli[c].run = "stale" /\ w.cli[c].sock = "none" /\ Become(Opened(n))
  BY ClientTyped DEF StaleWakes
<1>2. /\ Sound(n) /\ Quiet(n) /\ n.client = w.client /\ n.ready = w.ready /\ ~Works(n.cli[c])
      /\ \A d \in Clients : d # c => n.cli[d] = w.cli[d]
  BY ClientEnds
<1> HIDE DEF n
<1>3. Prompt => OneWorks(n) /\ Held(n)
  <2>1. n.client \in {0} \cup Clients
    BY <1>2 DEF Sound, Pages
  <2> QED BY <1>1, <1>2, <2>1 DEF PageInv, Good, OneWorks, Held
<1> QED BY <1>1, <1>2, <1>3, OpenedKeeps DEF Become, Good, Quiet, OneWorks, Held

LEMMA SocketErrsStep == ASSUME PageInv, NEW c \in Clients, SocketErrs(c) PROVE Good(w')
  BY ErrorKeeps DEF SocketErrs, Become, PageInv, Good, Quiet

LEMMA SocketClosesStep == ASSUME PageInv, NEW c \in Clients, SocketCloses(c) PROVE Good(w')
<1> DEFINE n == [w EXCEPT !.cli[c] = Fresh]
<1>1. Works(w.cli[c]) /\ Become(HandleDisconnect(n, "ws_closed"))
  BY DEF SocketCloses, Works
<1>2. /\ Sound(n) /\ Quiet(n) /\ ~Works(n.cli[c])
      /\ \A d \in Clients : d # c => n.cli[d] = w.cli[d]
  BY ClientEnds
<1> HIDE DEF n
<1>3. Prompt => \A d \in Clients : ~Works(n.cli[d])
  BY <1>1, <1>2 DEF PageInv, Good, OneWorks
<1> QED BY <1>1, <1>2, <1>3, DisconnectKeeps DEF Become, Good, OneWorks, Held

LEMMA GatewaySendsStep ==
  ASSUME PageInv, NEW c \in Clients, NEW kind \in {"fingerprint", "ready", "stdout", "error"},
         GatewaySends(c, kind)
  PROVE  Good(w')
<1>1. w.cli[c].sock = "open" /\ (Prompt => kind # "error") /\ Become(Frame(w, kind))
  BY DEF GatewaySends
<1>2. Prompt => c = w.client /\ w.client # 0
  BY <1>1 DEF PageInv, Good, OneWorks, Works, Clients
<1> QED BY <1>1, <1>2, FrameKeeps DEF Become, PageInv, Good, OneWorks, Held

LEMMA PageStep == PageInv /\ [Next]_vars => PageInv'
<1> SUFFICES ASSUME PageInv, [Next]_vars PROVE Good(w')
  BY DEF PageInv
<1>1. CASE UNCHANGED vars
  BY <1>1 DEF vars, PageInv
<1>2. CASE \E c \in Clients :
             \/ SocketOpens(c) \/ RetryDelay(c) \/ StaleWakes(c) \/ SocketErrs(c) \/ SocketCloses(c)
             \/ \E retryable \in BOOLEAN : SocketFails(c, retryable)
             \/ \E kind \in {"fingerprint", "ready", "stdout", "error"} : GatewaySends(c, kind)
  BY <1>2, SocketOpensStep, RetryDelayStep, StaleWakesStep, SocketErrsStep, SocketClosesStep,
     SocketFailsStep, GatewaySendsStep
<1> QED BY <1>1, <1>2, ShowStep, HideStep, LoadLaidOutStep, ShowLaidOutStep, SnapshotExpiresStep,
        ConnectionActionStep, AiTapStep, ReconnectTimerStep, WaitTimerStep DEF Next

LEMMA PageInvInit == Init => PageInv
<1>1. 1 \in Clients
  BY PageConstants DEF Clients
<1>2. ASSUME Init PROVE w \in Pages /\ w.client = 1 /\ ~w.ready /\ ~w.rtimer
                        /\ \A c \in Clients : w.cli[c] = Fresh
  <2>1. [c \in Clients |-> Fresh] \in [Clients -> Runs]
    BY DEF Fresh, Runs
  <2> QED BY <1>1, <1>2, <2>1 DEF Init, Pages
<1>3. Fresh.run = "none" /\ ~Works(Fresh)
  BY DEF Fresh, Works
<1> QED BY <1>2, <1>3 DEF PageInv, Good, Sound, HasRoom, Quiet, OneWorks, Held

\* For any number of clients, retries and reconnects: no reconnect is scheduled after
\* the user ended the session or left the page, and as long as no error makes the page
\* drop a client, only the page's client has a socket and the shell is ready on no other
\* (index.js, connectGateway, handleDisconnect, onHide; gateway.js, connect).
THEOREM PageStaysConnected == Spec => []PageIsConnected
<1>1. PageInv => PageIsConnected
  BY DEF PageInv, Good, Quiet, OneWorks, Works, Held, PageIsConnected, EndedStaysDown, OneSocket,
     ReadyIsHeld
<1> QED BY <1>1, PageInvInit, PageStep, PTL DEF Spec

=============================================================================
