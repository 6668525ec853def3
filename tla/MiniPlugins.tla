------------------------------ MODULE MiniPlugins ------------------------------
(* The plugin runtime of the mini-program for one plugin (utils/pluginRuntime.js *)
(* with utils/sessionBus.js, pages/plugins/index.js and what the terminal page   *)
(* tells the bus).  Storage is synchronous: an operation waits only for onload.  *)
EXTENDS Integers, Sequences, FiniteSets

CONSTANTS Ops, \* operations that may overlap
          Fuse \* 3: failures after which enable refuses

Nothing == 0
Leftover == -1 \* loads that failed, or were replaced by one that overlapped

VARIABLES k,  \* the runtime: package, records, slots, commands, operations
          v,  \* the page of the runtime: the record and the command it lists
          t,  \* the terminal page: shown, its status, its client; the shell behind it
          bus \* the bus: its state, and what listeners were told last

vars == <<k, v, t, bus>>

Objs == 1..(Cardinality(Ops) + 1)
Slots == 1..(Cardinality(Ops) + 1)
NoRecord == [enabled |-> FALSE, status |-> "none", errors |-> 0]
Fresh == [enabled |-> FALSE, status |-> "discovered", errors |-> 0]
Idle == [name |-> "none", wait |-> FALSE, r |-> Nothing, s |-> Nothing]

Asleep(n) == [n EXCEPT !.objs = [o \in Objs |-> NoRecord], !.map = Nothing, !.hooks = {},
                       !.run = Nothing, !.cmd = Nothing, !.op = [p \in Ops |-> Idle],
                       !.booted = FALSE]

Init ==
  /\ \E pkg \in BOOLEAN :
       k = Asleep([pkg |-> pkg, stored |-> NoRecord, objs |-> <<>>, map |-> Nothing, hooks |-> {},
                   run |-> Nothing, cmd |-> Nothing, op |-> <<>>, booted |-> FALSE, choice |-> "none"])
  /\ v = [rec |-> NoRecord, cmd |-> FALSE]
  /\ t = [shown |-> FALSE, status |-> "disconnected", client |-> FALSE, shell |-> FALSE]
  /\ bus = [state |-> "disconnected", told |-> "disconnected"]

-----------------------------------------------------------------------------
Record(n) == IF n.map = Nothing THEN NoRecord ELSE n.objs[n.map]
Persist(n) == [n EXCEPT !.stored = Record(n)]

Free(n, p) == CHOOSE o \in Objs : o # n.map /\ \A q \in Ops \ {p} : n.op[q].r # o
Held(n, p) ==
  IF n.map # Nothing THEN [n EXCEPT !.op[p].r = n.map]
  ELSE LET o == Free(n, p) IN [n EXCEPT !.op[p].r = o, !.objs[o] = Fresh]
InMap(n, p) == [n EXCEPT !.map = n.op[p].r]

(* The operation's promise is settled.                                          *)
Settled(n, p) == [n EXCEPT !.op[p] = Idle,
                           !.choice = CASE n.op[p].name = "on" -> "on"
                                        [] n.op[p].name = "off" -> "off"
                                        [] OTHER -> @]
Thrown(n, p) == [n EXCEPT !.op[p] = Idle, !.choice = "none"]

ClearedHooksOnly(n) == IF n.run = Nothing THEN n ELSE [n EXCEPT !.hooks = @ \ {n.run}, !.run = Nothing]

(* clearRuntimeById: nothing at all without a slot.                             *)
Cleared(n) == IF n.run = Nothing THEN n
              ELSE [n EXCEPT !.hooks = @ \ {n.run}, !.run = Nothing, !.cmd = Nothing]

Disabled(n, p) ==
  LET h == Held(Cleared(n), p)
      r == h.op[p].r
  IN Persist(InMap([h EXCEPT !.objs[r].enabled = FALSE,
                             !.objs[r].status = IF @ = "failed" THEN @ ELSE "stopped"], p))

Unused(n) == {s \in Slots : s \notin n.hooks /\ n.cmd # s /\ n.run # s
                            /\ \A p \in Ops : n.op[p].s # s}

(* enable up to the wait for onload; onload registers its listener and its      *)
(* command at once, or has not got to it yet.                                   *)
Enabling(n, p, registers) ==
  LET h == Held(n, p)
      c == Persist(InMap([Cleared(h) EXCEPT !.objs[h.op[p].r].status = "loading"], p))
      s == CHOOSE x \in Unused(c) : \A y \in Unused(c) : x <= y
      l == [c EXCEPT !.op[p].wait = TRUE, !.op[p].s = s]
  IN IF ~n.pkg \/ h.objs[h.op[p].r].errors >= Fuse THEN Thrown(n, p)
     ELSE IF registers THEN [l EXCEPT !.hooks = @ \cup {s}, !.cmd = s] ELSE l

(* No slot of the runtime leads to what this load has registered any more.      *)
Abandoned(n, s) ==
  [n EXCEPT !.hooks = IF s \in @ THEN (@ \ {s}) \cup {Leftover} ELSE @,
            !.cmd = IF s # Nothing /\ @ = s THEN Leftover ELSE @]

Activated(n, p) ==
  LET r == n.op[p].r
      m == [Abandoned(n, n.run) EXCEPT !.run = n.op[p].s, !.objs[r].enabled = TRUE, !.objs[r].status = "active"]
  IN Settled(Persist(InMap(m, p)), p)

(* The catch of enable clears what is in the map of running plugins, not what   *)
(* this load has registered.                                                    *)
Failed(n, p) ==
  LET r == n.op[p].r
      m == [Abandoned(Cleared(n), n.op[p].s) EXCEPT !.objs[r].enabled = FALSE, !.objs[r].status = "failed",
                              !.objs[r].errors = @ + 1]
  IN Thrown(Persist(InMap(m, p)), p)

(* ensureBootstrapped up to the enabling of what was enabled.                   *)
Known(n) ==
  LET m == CASE n.stored # NoRecord -> [n EXCEPT !.objs[1] = n.stored, !.map = 1]
             [] n.pkg -> [n EXCEPT !.objs[1] = Fresh, !.map = 1]
             [] OTHER -> n
  IN [Persist(m) EXCEPT !.booted = TRUE]

Sampled(n) == IF n.pkg THEN n ELSE [n EXCEPT !.pkg = TRUE]
Named(n, p, name) == [n EXCEPT !.op[p].name = name]

-----------------------------------------------------------------------------
(* reloadRuntime of the page; the command wants a connected session.            *)
Listed(n) == [rec |-> Record(n), cmd |-> n.cmd # Nothing /\ bus.state = "connected"]

(* The page lists again after an operation that went through, and only then.    *)
Ran(n, well) == /\ k' = n
                /\ v' = IF well THEN Listed(n) ELSE v
                /\ UNCHANGED <<t, bus>>

(* The page opens: a first time it starts the runtime.                          *)
OnShow(p) ==
  \E registers \in BOOLEAN :
    /\ ~t.shown /\ k.op[p] = Idle /\ ~k.booted
    /\ LET n == Known(Sampled(k))
       IN /\ k' = IF Record(n).enabled THEN Enabling(Named(n, p, "boot"), p, registers) ELSE n
          /\ v' = IF k'.op[p].wait THEN v ELSE Listed(k')
    /\ UNCHANGED <<t, bus>>

At(p) == ~t.shown /\ k.booted /\ k.op[p] = Idle

ImportJson(p) ==
  /\ At(p)
  /\ LET n == Held([k EXCEPT !.pkg = TRUE], p)
         m == Persist(InMap([n EXCEPT !.objs[n.op[p].r].status = "validated"], p))
     IN Ran([m EXCEPT !.op[p] = Idle], TRUE)

Enable(p) == \E registers \in BOOLEAN : At(p) /\ Ran(Enabling(Named(k, p, "on"), p, registers), FALSE)

Disable(p) == At(p) /\ Ran(Settled(Disabled(Named(k, p, "off"), p), p), TRUE)

Reload(p) ==
  \E registers \in BOOLEAN :
    /\ At(p)
    /\ LET n == Held(Named(k, p, "on"), p)
           m == Persist(InMap([n EXCEPT !.objs[n.op[p].r].errors = 0], p))
       IN Ran(Enabling(Disabled(m, p), p, registers), FALSE)

RemovePlugin(p) ==
  /\ At(p)
  /\ LET n == Disabled(Named(k, p, "off"), p)
     IN Ran(Settled(Persist([n EXCEPT !.pkg = FALSE, !.map = Nothing]), p), TRUE)

(* onload settles, or waits for ever: nothing limits it. The plugin may register *)
(* before it settles.                                                           *)
OnLoadRegisters(p) ==
  /\ k.op[p].wait /\ k.op[p].s \notin k.hooks
  /\ k' = [k EXCEPT !.hooks = @ \cup {k.op[p].s}, !.cmd = k.op[p].s]
  /\ UNCHANGED <<v, t, bus>>

OnLoadDone(p) == k.op[p].wait /\ Ran(Activated(k, p), TRUE)

OnLoadFails(p) == k.op[p].wait /\ Ran(Failed(k, p), k.op[p].name = "boot")

-----------------------------------------------------------------------------
(* The terminal page and the bus.                                               *)
Emit(event) == bus' = [state |-> event, told |-> event]

OpenTerminal ==
  /\ ~t.shown /\ k.booted
  /\ t' = [t EXCEPT !.shown = TRUE]
  /\ UNCHANGED <<k, v, bus>>

ConnectGateway ==
  /\ t.shown /\ ~t.client
  /\ t' = [t EXCEPT !.client = TRUE, !.status = "connecting"]
  /\ UNCHANGED <<k, v, bus>>

Connected ==
  /\ t.client /\ t.status # "connected"
  /\ t' = [t EXCEPT !.status = "connected", !.shell = TRUE]
  /\ Emit("connected")
  /\ UNCHANGED <<k, v>>

Disconnected ==
  /\ t.client
  /\ t' = [t EXCEPT !.status = "disconnected", !.client = FALSE, !.shell = FALSE]
  /\ Emit("disconnected")
  /\ UNCHANGED <<k, v>>

Failure ==
  /\ t.client
  /\ t' = [t EXCEPT !.status = "error", !.client = FALSE, !.shell = FALSE]
  /\ UNCHANGED <<k, v, bus>>

(* The page is hidden or closed: the session is parked, the sender is gone.     *)
OnHide ==
  /\ t.shown
  /\ t' = [t EXCEPT !.shown = FALSE, !.client = FALSE]
  /\ bus' = [bus EXCEPT !.state = "disconnected"]
  /\ v' = [rec |-> Record(k), cmd |-> FALSE]
  /\ UNCHANGED k

(* The mini-program ends: only what was stored is left.                         *)
Restart ==
  /\ k.booted
  /\ k' = [Asleep(k) EXCEPT !.choice = IF \A p \in Ops : k.op[p] = Idle THEN @ ELSE "none"]
  /\ v' = [rec |-> NoRecord, cmd |-> FALSE]
  /\ t' = [shown |-> FALSE, status |-> "disconnected", client |-> FALSE, shell |-> FALSE]
  /\ bus' = [state |-> "disconnected", told |-> "disconnected"]

Next == \/ \E p \in Ops : \/ OnShow(p) \/ ImportJson(p) \/ Enable(p) \/ Disable(p)
                          \/ Reload(p) \/ RemovePlugin(p) \/ OnLoadRegisters(p)
                          \/ OnLoadDone(p) \/ OnLoadFails(p)
        \/ OpenTerminal \/ ConnectGateway \/ Connected \/ Disconnected \/ Failure \/ OnHide \/ Restart

Spec == Init /\ [][Next]_vars

(* onload settles.                                                              *)
Fairness == \A p \in Ops : WF_vars(OnLoadDone(p) \/ OnLoadFails(p))

-----------------------------------------------------------------------------
Quiet == k.booted /\ \A p \in Ops : k.op[p] = Idle

(* A plugin whose enable or reload went through runs, also after a restart,     *)
(* until the user stops it or the runtime says it failed (ensureBootstrapped).  *)
EnabledRuns == Quiet /\ k.choice = "on" => k.run # Nothing

(* What runs is recorded as enabled, also while operations wait or overlap; and *)
(* what is recorded as enabled runs once all have ended, unless a second load   *)
(* failed meanwhile and the fuse refuses to start it at the next bootstrap.     *)
RunsAsRecorded == /\ k.run # Nothing => Record(k).enabled
                  /\ Quiet /\ Record(k).enabled /\ Record(k).errors < Fuse => k.run # Nothing

(* Nothing under way: what runs is a package that is there, and was not stopped *)
(* since; an import over a running plugin makes it "validated".                 *)
RunsWhatIsThere ==
  Quiet /\ k.run # Nothing => k.pkg /\ Record(k).status \in {"active", "validated"}

(* After the user disabled or removed the plugin it does not run, also across a *)
(* restart, and the only listeners and commands are those of loads that failed. *)
DisabledIsClean ==
  Quiet /\ k.choice = "off" =>
    k.run = Nothing /\ k.hooks \subseteq {Leftover} /\ k.cmd \in {Nothing, Leftover}

(* What is stored is what the runtime knows.                                    *)
StoredIsKnown == k.booted => k.stored = Record(k)

(* After an operation that went through the page shows the record as it is.     *)
PageIsCurrent == Quiet /\ ~t.shown /\ k.choice # "none" => v.rec = Record(k)

(* A session the terminal page shows as connected, or as disconnected, is one   *)
(* the plugins were told so of (setStatus).                                     *)
ToldOfStatus == t.status \in {"connected", "disconnected"} => bus.told = t.status

(* An operation comes to an end.                                                *)
OperationsEnd == \A p \in Ops : []<>(k.op[p] = Idle)
=============================================================================
