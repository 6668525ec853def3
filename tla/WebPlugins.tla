------------------------------ MODULE WebPlugins ------------------------------
(* The plugin runtime of the web client for one plugin                          *)
(* (packages/plugin-runtime/src/core/pluginManager.ts, and the store and        *)
(* storage adapter that drive it).  An operation runs until it awaits; what is  *)
(* left of it is a sequence of steps.  A record is an object that operations    *)
(* hold by reference; a slot is what one load of the plugin has installed: its  *)
(* style element, its session listener, its command.                            *)
EXTENDS Integers, Sequences, SequencesExt, FiniteSets

CONSTANTS Ops,      \* operations that may overlap
          Asked,    \* what each may be, by name
          Fuse,     \* 3: failures after which enable refuses
          MaxSlots, \* loads installed at a time
          Registers \* what the plugin does: TRUE to register something, FALSE not to

Nothing == 0
Leftover == -1   \* a load that failed

VARIABLES pkg,     \* the package is in storage
          stored,  \* the record in storage, or NoRecord
          objs,    \* record objects
          map,     \* the object in the map of records, or Nothing
          slots,   \* what each load installed
          run,     \* the slot in the map of running plugins, or Nothing
          cmd,     \* whose handler the plugin's command has: a slot, Leftover or Nothing
          debris,  \* what loads that failed have left in the page
          op,      \* what each operation has left to do
          booted,  \* the runtime has been started
          choice   \* what the user's last finished operation asked for

vars == <<pkg, stored, objs, map, slots, run, cmd, debris, op, booted, choice>>

Objs == 1..(2 * Cardinality(Ops) + 1)
Slots == 1..MaxSlots
NoRecord == [enabled |-> FALSE, status |-> "none", errors |-> 0]
Fresh == [enabled |-> FALSE, status |-> "discovered", errors |-> 0]
Empty == [style |-> FALSE, hook |-> FALSE]
NoDebris == [hook |-> FALSE, late |-> FALSE]
\* r and d are the records that enable and the disable within it hold, s the
\* slot being loaded, u the slot being unloaded.
Idle == [name |-> "none", todo |-> <<>>, r |-> Nothing, d |-> Nothing,
         s |-> Nothing, u |-> Nothing]

Now == [pkg |-> pkg, stored |-> stored, objs |-> objs, map |-> map, slots |-> slots,
        run |-> run, cmd |-> cmd, debris |-> debris, op |-> op, booted |-> booted,
        choice |-> choice]
Reached(n) == {n.map} \cup {n.op[p].r : p \in Ops} \cup {n.op[p].d : p \in Ops}
Become(n) == /\ pkg' = n.pkg /\ stored' = n.stored /\ map' = n.map
             /\ objs' = [o \in Objs |-> IF o \in Reached(n) THEN n.objs[o] ELSE NoRecord]
             /\ slots' = n.slots /\ run' = n.run /\ cmd' = n.cmd /\ debris' = n.debris
             /\ op' = n.op /\ booted' = n.booted /\ choice' = n.choice

Init ==
  /\ pkg \in BOOLEAN /\ stored = NoRecord
  /\ objs = [o \in Objs |-> NoRecord] /\ map = Nothing
  /\ slots = [s \in Slots |-> Empty] /\ run = Nothing /\ cmd = Nothing
  /\ debris = NoDebris /\ op = [p \in Ops |-> Idle] /\ booted = FALSE /\ choice = "none"

-----------------------------------------------------------------------------
Then(n, p, steps) == [n EXCEPT !.op[p].todo = steps \o @]
Done(n, p) == LET w == n.op[p].name
              IN [n EXCEPT !.op[p] = Idle,
                           !.choice = CASE w \in {"enable", "reload"} -> "on"
                                        [] w \in {"disable", "remove"} -> "off"
                                        [] OTHER -> @]
Thrown(n, p) == [n EXCEPT !.op[p] = Idle, !.choice = "none"]

Persist(n) == [n EXCEPT !.stored = IF n.map = Nothing THEN NoRecord ELSE n.objs[n.map]]

(* records.get(id) ?? createRecord(id).                                         *)
Free(n) == CHOOSE o \in Objs : o \notin Reached(n)
Held(n, p) ==
  IF n.map # Nothing THEN [n EXCEPT !.op[p].r = n.map]
  ELSE LET o == Free(n) IN [n EXCEPT !.op[p].r = o, !.objs[o] = Fresh]
HeldToStop(n, p) ==
  IF n.map # Nothing THEN [n EXCEPT !.op[p].d = n.map]
  ELSE LET o == Free(n) IN [n EXCEPT !.op[p].d = o, !.objs[o] = Fresh]

(* The cleanup functions and the style of the slot that disable looked up.      *)
CleanedStyleOnly(n, s) == IF s = Nothing THEN n ELSE [n EXCEPT !.slots[s].style = FALSE, !.run = Nothing]
Cleaned(n, s) == IF s = Nothing THEN n ELSE [n EXCEPT !.slots[s] = Empty, !.run = Nothing]

(* disable after onunload: clean up, drop the plugin's commands, record.        *)
Stopped(n, p) ==
  LET c == Cleaned(n, n.op[p].u)
      d == c.op[p].d
  IN Persist([c EXCEPT !.cmd = Nothing, !.map = d, !.objs[d].enabled = FALSE,
                       !.objs[d].status = IF @ = "failed" THEN @ ELSE "stopped",
                       !.op[p].u = Nothing, !.op[p].d = Nothing])

(* disable up to its first await: slot and record are looked up; it waits for   *)
(* onunload if the plugin runs, and otherwise goes through.                     *)
Stopping(n, p) ==
  LET h == [HeldToStop(n, p) EXCEPT !.op[p].u = n.run]
  IN IF n.run = Nothing THEN Stopped(h, p) ELSE Then(h, p, <<"stopped">>)

Loading(n, p) ==
  LET r == n.op[p].r
  IN Persist(Then([n EXCEPT !.objs[r].status = "loading", !.map = r], p, <<"onload", "loaded">>))

(* enable once it has the package: a blown fuse throws.                         *)
Checked(n, p) ==
  LET h == Held(n, p)
  IN IF h.objs[h.op[p].r].errors >= Fuse THEN Thrown(n, p)
     ELSE IF n.run # Nothing THEN Stopping(Then(h, p, <<"load">>), p)
     ELSE Loading(h, p)

Unused(n) == {s \in Slots : /\ n.slots[s] = Empty /\ n.cmd # s /\ n.run # s
                            /\ \A p \in Ops : n.op[p].s # s /\ n.op[p].u # s}

Registered(n, s) == [n EXCEPT !.slots[s].hook = TRUE, !.cmd = s]

Started(n, p) ==
  LET r == n.op[p].r
  IN Persist([n EXCEPT !.objs[r].enabled = TRUE, !.objs[r].status = "active",
                       !.run = n.op[p].s, !.op[p].s = Nothing, !.op[p].r = Nothing])

(* The catch of enable: only the style goes; what was registered stays.         *)
Failed(n, p) ==
  LET r == n.op[p].r
      s == n.op[p].s
  IN Persist([n EXCEPT !.slots[s] = Empty, !.debris.hook = @ \/ n.slots[s].hook,
                       !.cmd = IF @ = s THEN Leftover ELSE @,
                       !.map = r, !.objs[r].enabled = FALSE, !.objs[r].status = "failed",
                       !.objs[r].errors = @ + 1, !.op[p].s = Nothing])

-----------------------------------------------------------------------------
(* The user's operations, and the start of the page.                            *)
Begun(p, name, steps) == [Now EXCEPT !.op[p].name = name, !.op[p].todo = steps]
MayBegin(p, name) == booted /\ op[p] = Idle /\ name \in Asked[p]
Begin(p, name, steps) == MayBegin(p, name) /\ Become(Begun(p, name, steps))

Bootstrap(p) == ~booted /\ op[p] = Idle /\ Become(Begun(p, "boot", <<"boot">>))
InstallPackage(p) == Begin(p, "install", <<"upsert", "validated">>)
Enable(p) == Begin(p, "enable", <<"get">>)
Disable(p) == MayBegin(p, "disable") /\ Become(Stopping(Begun(p, "disable", <<>>), p))

Reload(p) ==
  /\ MayBegin(p, "reload")
  /\ LET n == Held(Begun(p, "reload", <<"reset">>), p)
         r == n.op[p].r
     IN Become(Persist([n EXCEPT !.objs[r].errors = 0, !.map = r, !.op[p].r = Nothing]))

RemovePlugin(p) ==
  MayBegin(p, "remove") /\ Become(Stopping(Begun(p, "remove", <<"delete", "forget">>), p))

(* What an operation does between two awaits.                                   *)
Step(p, label) == op[p].todo # <<>> /\ Head(op[p].todo) = label
Rest(p) == [Now EXCEPT !.op[p].todo = Tail(@)]

Known(n) == IF stored # NoRecord THEN [n EXCEPT !.objs[1] = stored, !.map = 1]
            ELSE IF pkg THEN [n EXCEPT !.objs[1] = Fresh, !.map = 1] ELSE n

ReadStore(p) ==
  /\ Step(p, "boot")
  /\ LET n == [Persist(Known(Rest(p))) EXCEPT !.booted = TRUE]
     IN Become(IF n.map # Nothing /\ n.objs[1].enabled THEN Then(n, p, <<"get">>) ELSE n)

Upsert(p) == Step(p, "upsert") /\ Become([Rest(p) EXCEPT !.pkg = TRUE])

Validated(p) ==
  /\ Step(p, "validated")
  /\ LET n == Held(Rest(p), p)
         r == n.op[p].r
     IN Become(Persist([n EXCEPT !.objs[r].status = "validated", !.map = r]))

(* The package is read, and then looked at.                                     *)
GetPackage(p) ==
  Step(p, "get") /\ Become(IF pkg THEN Then(Rest(p), p, <<"check">>) ELSE Thrown(Rest(p), p))
CheckPackage(p) == Step(p, "check") /\ Become(Checked(Rest(p), p))

ResetThenDisable(p) ==
  Step(p, "reset") /\ Become(Stopping(Then(Rest(p), p, <<"get">>), p))

(* onunload is over, by whatever end.                                           *)
AfterUnload(p) == Step(p, "stopped") /\ Become(Stopped(Rest(p), p))

RemovePackage(p) == Step(p, "delete") /\ Become([Rest(p) EXCEPT !.pkg = FALSE])
ForgetRecord(p) == Step(p, "forget") /\ Become(Persist([Rest(p) EXCEPT !.map = Nothing]))
StartLoading(p) == Step(p, "load") /\ Become(Loading(Rest(p), p))

(* mountStyle, the plugin's code and its onload, which register or do not.      *)
OnLoad(p) ==
  \E registers \in Registers :
    /\ Step(p, "onload") /\ Unused(Now) # {}
    /\ LET s == CHOOSE x \in Unused(Now) : \A y \in Unused(Now) : x <= y
           n == [Rest(p) EXCEPT !.slots[s].style = TRUE, !.op[p].s = s]
       IN Become(IF registers THEN Registered(n, s) ELSE n)

OnLoadDone(p) == Step(p, "loaded") /\ Become(Started(Rest(p), p))
OnLoadFails(p) == Step(p, "loaded") /\ Become(Thrown(Failed(Rest(p), p), p))

(* The three seconds run out; the plugin's code goes on.                        *)
OnLoadTimesOut(p) ==
  /\ Step(p, "loaded")
  /\ Become([Thrown(Failed(Rest(p), p), p) EXCEPT !.debris.late = @ \/ TRUE \in Registers])

RegistersLate ==
  \E more \in BOOLEAN :
    debris.late /\ Become([Now EXCEPT !.debris = [hook |-> TRUE, late |-> more], !.cmd = Leftover])

Finish(p) == op[p] # Idle /\ op[p].todo = <<>> /\ Become(Done(Now, p))

(* The page is reloaded: only what was stored is left.                          *)
Restart ==
  /\ booted
  /\ Become([Now EXCEPT !.map = Nothing, !.run = Nothing, !.slots = [s \in Slots |-> Empty],
                        !.cmd = Nothing, !.debris = NoDebris, !.booted = FALSE,
                        !.op = [p \in Ops |-> Idle],
                        !.choice = IF \A p \in Ops : op[p] = Idle THEN @ ELSE "none"])

Next == \/ \E p \in Ops : \/ Bootstrap(p) \/ InstallPackage(p) \/ Enable(p) \/ Disable(p)
                          \/ Reload(p) \/ RemovePlugin(p) \/ ReadStore(p) \/ Upsert(p)
                          \/ Validated(p) \/ GetPackage(p) \/ CheckPackage(p)
                          \/ ResetThenDisable(p) \/ AfterUnload(p) \/ RemovePackage(p)
                          \/ ForgetRecord(p) \/ StartLoading(p) \/ OnLoad(p) \/ OnLoadDone(p)
                          \/ OnLoadFails(p) \/ OnLoadTimesOut(p) \/ Finish(p)
        \/ RegistersLate
        \/ Restart

Spec == Init /\ [][Next]_vars

-----------------------------------------------------------------------------
Quiet == booted /\ \A p \in Ops : op[p] = Idle

(* Nothing under way: the plugin runs exactly when its record says so, and then *)
(* its package and its record are there; an import over a running plugin makes  *)
(* it "validated" (enable, disable, remove, installPackage, bootstrap).         *)
RunsAsRecorded ==
  Quiet => /\ run # Nothing <=> map # Nothing /\ objs[map].enabled
           /\ run # Nothing => pkg /\ objs[map].status \in {"active", "validated"}

(* After the user disabled or removed the plugin none of its styles is left,    *)
(* also across a restart, and its only listeners and commands are those of      *)
(* loads that failed, a command only if it was registered afterwards.           *)
DisabledIsClean ==
  Quiet /\ choice = "off" =>
    /\ run = Nothing /\ \A s \in Slots : slots[s] = Empty
    /\ cmd # Nothing => cmd = Leftover /\ debris.hook

(* A plugin whose enable or reload went through runs, also after a restart,     *)
(* until the user stops it or the runtime says it failed.                       *)
EnabledRuns == Quiet /\ choice = "on" => run # Nothing

(* After three failures the plugin is not loaded again until a reload; loads    *)
(* that were already under way may fail as well.                                *)
FuseHolds == \A o \in Objs : objs[o].errors <= Fuse + Cardinality(Ops) - 1

(* What is stored is what the runtime knows.                                    *)
StoredIsKnown == booted => stored = (IF map = Nothing THEN NoRecord ELSE objs[map])

(* What is in the map of running plugins was cleaned by nobody, however         *)
(* operations overlap.                                                          *)
RunningIsWhole == run # Nothing => slots[run].style
=============================================================================
