--------------------------- MODULE PluginManager ----------------------------
(***************************************************************************)
(* The plugin manager (infrastructure/plugin_framework/manager.py).  A     *)
(* plugin's state changes between awaits only in its start and stop hooks, *)
(* which run under the plugin's own lifecycle lock; validate, load,        *)
(* disable and enable take no lock.  start_all and stop_all go through the *)
(* dependency order one plugin at a time.                                  *)
(***************************************************************************)
EXTENDS Integers, FiniteSets, Sequences

CONSTANTS
  Plugins,
  Needs,      \* dependencies of each plugin's manifest
  Invalid,    \* plugins with an API version or capability that is refused
  Admins,     \* tasks that call start, stop, start_all or stop_all
  Calls       \* bound: which of them each task calls

ASSUME PluginAssumption ==
  /\ Needs \in [Plugins -> SUBSET Plugins]
  /\ Invalid \subseteq Plugins
  /\ Calls \in [Admins -> SUBSET {"start", "stop", "start_all", "stop_all"}]
  /\ "none" \notin Plugins \cup Admins

VARIABLES
  plugin,        \* state of each registration; "absent" before add
  disabledFrom,  \* _disabled_from
  hookOf,        \* the admin inside the plugin's hook: holds its lock
  admin,         \* each admin's call under way
  raced          \* history: a stop's hook and a dependent's start overlapped

pluginVars == <<plugin, disabledFrom, hookOf, admin, raced>>

PluginStates ==
  {"absent", "discovered", "validated", "loaded", "started", "stopped", "failed", "disabled"}
Idle == [op |-> "free", at |-> "idle", name |-> "none", todo |-> {}, undo |-> <<>>]

PluginTypeOK ==
  /\ plugin \in [Plugins -> PluginStates]
  /\ disabledFrom \in [Plugins -> PluginStates]
  /\ hookOf \in [Plugins -> Admins \cup {"none"}]
  /\ raced \in BOOLEAN
  /\ DOMAIN admin = Admins
  /\ \A a \in Admins :
       /\ admin[a].op \in {"free", "start", "stop", "start_all", "stop_all", "rollback"}
       /\ admin[a].at \in {"idle", "next", "lock", "hook"}
       /\ admin[a].name \in Plugins \cup {"none"}
       /\ admin[a].todo \subseteq Plugins
       /\ admin[a].undo \in Seq(Plugins)
       /\ admin[a].at = "hook" <=> \E p \in Plugins : p = admin[a].name /\ hookOf[p] = a

PluginInit ==
  /\ plugin = [p \in Plugins |-> "absent"]
  /\ disabledFrom = [p \in Plugins |-> "discovered"]
  /\ hookOf = [p \in Plugins |-> "none"]
  /\ admin = [a \in Admins |-> Idle]
  /\ raced = FALSE

Added == {p \in Plugins : plugin[p] # "absent"}
StartedDependents(p) == {q \in Plugins : plugin[q] = "started" /\ p \in Needs[q]}
Available(p) == \A q \in Needs[p] : plugin[q] = "started"
Starts(a) == admin[a].op \in {"start", "start_all"}

AddPlugin(p) ==
  /\ plugin[p] = "absent"
  /\ plugin' = [plugin EXCEPT ![p] = "discovered"]
  /\ UNCHANGED <<disabledFrom, hookOf, admin, raced>>

(* _validate: a failed plugin that validates may load once more.           *)
Validated(p) ==
  IF p \in Invalid \/ ~(Needs[p] \subseteq Added) THEN "failed"
  ELSE IF plugin[p] \in {"discovered", "validated", "failed"} THEN "validated"
  ELSE plugin[p]

Validate(p) ==
  /\ p \in Added
  /\ plugin' = [plugin EXCEPT ![p] = Validated(p)]
  /\ UNCHANGED <<disabledFrom, hookOf, admin, raced>>

(* What load leaves, if the register hook works or raises.                 *)
Loaded(p, works) ==
  IF Validated(p) = "failed" \/ ~works THEN "failed" ELSE "loaded"

Load(p) ==
  /\ plugin[p] \in {"discovered", "validated"}
  /\ \E works \in BOOLEAN : plugin' = [plugin EXCEPT ![p] = Loaded(p, works)]
  /\ UNCHANGED <<disabledFrom, hookOf, admin, raced>>

Disable(p) ==
  /\ plugin[p] \notin {"absent", "started", "disabled"} /\ StartedDependents(p) = {}
  /\ disabledFrom' = [disabledFrom EXCEPT ![p] = plugin[p]]
  /\ plugin' = [plugin EXCEPT ![p] = "disabled"]
  /\ UNCHANGED <<hookOf, admin, raced>>

Enable(p) ==
  /\ plugin[p] = "disabled"
  /\ plugin' = [plugin EXCEPT ![p] = disabledFrom[p]]
  /\ disabledFrom' = [disabledFrom EXCEPT ![p] = "discovered"]
  /\ UNCHANGED <<hookOf, admin, raced>>

Call(a, op) ==
  /\ admin[a].op = "free"
  /\ \/ /\ op \in {"start", "stop"}
        /\ \E p \in Added :
             admin' = [admin EXCEPT ![a] = [Idle EXCEPT !.op = op, !.at = "lock", !.name = p]]
     \/ /\ op \in {"start_all", "stop_all"}
        /\ admin' = [admin EXCEPT ![a] = [Idle EXCEPT !.op = op, !.at = "next", !.todo = Added]]
  /\ UNCHANGED <<plugin, disabledFrom, hookOf, raced>>

(* How a call goes on after one plugin: start_all remembers what it has    *)
(* started and, at the first error, stops it again, last first; a rollback *)
(* swallows its errors, stop_all raises its first.                         *)
After(call, ok) ==
  CASE call.op = "start_all" /\ ok ->
         [call EXCEPT !.at = "next", !.todo = @ \ {call.name}, !.undo = Append(@, call.name)]
    [] call.op = "start_all" /\ ~ok -> [call EXCEPT !.op = "rollback", !.at = "next"]
    [] call.op = "stop_all" /\ ok -> [call EXCEPT !.at = "next", !.todo = @ \ {call.name}]
    [] call.op = "rollback" -> [call EXCEPT !.at = "next"]
    [] OTHER -> Idle

(* The dependency order: a plugin comes after those it needs.              *)
StartNext(a, p) ==
  LET call == admin[a]
      passes == plugin[p] \in {"disabled", "started"} IN
  /\ call.op = "start_all" /\ call.at = "next" /\ p \in call.todo
  /\ Needs[p] \cap call.todo = {}
  /\ plugin' = [plugin EXCEPT ![p] = IF passes THEN @ ELSE Validated(p)]
  /\ admin' = [admin EXCEPT ![a] =
       IF passes THEN [call EXCEPT !.todo = @ \ {p}]
       ELSE IF Validated(p) = "failed" \/ ~Available(p) THEN After(call, FALSE)
       ELSE [call EXCEPT !.at = "lock", !.name = p]]
  /\ UNCHANGED <<disabledFrom, hookOf, raced>>

StopNext(a, p) ==
  LET call == admin[a] IN
  /\ call.op = "stop_all" /\ call.at = "next" /\ p \in call.todo
  /\ \A q \in call.todo : p \notin Needs[q]
  /\ admin' = [admin EXCEPT ![a] =
       IF plugin[p] = "started" THEN [call EXCEPT !.at = "lock", !.name = p]
       ELSE [call EXCEPT !.todo = @ \ {p}]]
  /\ UNCHANGED <<plugin, disabledFrom, hookOf, raced>>

RollBack(a) ==
  LET call == admin[a]
      last == Len(call.undo) IN
  /\ call.op = "rollback" /\ call.at = "next" /\ last > 0
  /\ admin' = [admin EXCEPT ![a] =
       [call EXCEPT !.at = "lock", !.name = call.undo[last], !.undo = SubSeq(@, 1, last - 1)]]
  /\ UNCHANGED <<plugin, disabledFrom, hookOf, raced>>

ReturnAll(a) ==
  LET call == admin[a] IN
  /\ call.at = "next"
  /\ IF call.op = "rollback" THEN call.undo = <<>> ELSE call.todo = {}
  /\ admin' = [admin EXCEPT ![a] = Idle]
  /\ UNCHANGED <<plugin, disabledFrom, hookOf, raced>>

Answer(a, ok) ==
  /\ admin' = [admin EXCEPT ![a] = After(admin[a], ok)]
  /\ UNCHANGED <<disabledFrom, hookOf, raced>>

EntersHook(a) ==
  /\ hookOf' = [hookOf EXCEPT ![admin[a].name] = a]
  /\ admin' = [admin EXCEPT ![a].at = "hook"]
  /\ UNCHANGED disabledFrom

MayStart(state) == state \in {"loaded", "stopped"}

(* _start_locked up to the await of the plugin's start.                    *)
StartLocked(a) ==
  LET p == admin[a].name IN
  /\ Starts(a) /\ admin[a].at = "lock" /\ hookOf[p] = "none"
  /\ IF plugin[p] = "started" \/ ~Available(p)
     THEN Answer(a, plugin[p] = "started") /\ UNCHANGED plugin
     ELSE \E works \in BOOLEAN :
            /\ plugin' = [plugin EXCEPT ![p] =
                 IF @ \in {"discovered", "validated"} THEN Loaded(p, works) ELSE @]
            /\ IF MayStart(plugin'[p])
               THEN /\ EntersHook(a)
                    /\ raced' = (raced \/ \E q \in Needs[p] : hookOf[q] # "none")
               ELSE Answer(a, FALSE)

MayStop(p) == StartedDependents(p) = {}

(* _stop_locked up to the await of the plugin's stop.                      *)
StopLocked(a) ==
  LET p == admin[a].name IN
  /\ admin[a].at = "lock" /\ ~Starts(a) /\ hookOf[p] = "none"
  /\ IF plugin[p] = "started" /\ MayStop(p)
     THEN /\ EntersHook(a)
          /\ raced' = (raced \/ \E q \in Plugins : p \in Needs[q] /\ hookOf[q] # "none")
     ELSE Answer(a, FALSE)
  /\ UNCHANGED plugin

(* The hook returns or raises; whatever the state has become meanwhile is  *)
(* overwritten.                                                            *)
HookState(a, ok) == IF ~ok THEN "failed" ELSE IF Starts(a) THEN "started" ELSE "stopped"


LeavesHook(a) == hookOf' = [hookOf EXCEPT ![admin[a].name] = "none"]

HookEnds(a, ok) ==
  /\ admin[a].at = "hook"
  /\ plugin' = [plugin EXCEPT ![admin[a].name] = HookState(a, ok)]
  /\ LeavesHook(a)
  /\ admin' = [admin EXCEPT ![a] = After(admin[a], ok)]
  /\ UNCHANGED <<disabledFrom, raced>>

(* The caller is cancelled inside the hook: no handler catches that, so    *)
(* the state stays and a start_all does not roll back.                     *)
HookCancelled(a) ==
  /\ admin[a].at = "hook"
  /\ UNCHANGED <<plugin, disabledFrom, raced>>
  /\ LeavesHook(a)
  /\ admin' = [admin EXCEPT ![a] = Idle]

AdminStep(a) ==
  \/ \E p \in Plugins : StartNext(a, p) \/ StopNext(a, p)
  \/ RollBack(a) \/ ReturnAll(a) \/ StartLocked(a) \/ StopLocked(a)
  \/ \E ok \in BOOLEAN : HookEnds(a, ok)

PluginNext ==
  \/ \E p \in Plugins : AddPlugin(p) \/ Validate(p) \/ Load(p) \/ Disable(p) \/ Enable(p)
  \/ \E a \in Admins :
       \/ \E op \in Calls[a] : Call(a, op)
       \/ AdminStep(a) \/ HookCancelled(a)

(* The event loop goes on with every call, hooks end, and asyncio.Lock     *)
(* serves its waiters in turn.                                             *)
PluginFairness ==
  \A a \in Admins :
    WF_pluginVars(AdminStep(a)) /\ SF_pluginVars(StartLocked(a) \/ StopLocked(a))

(* What a started plugin depends on is started too, unless the stop of the *)
(* one overlapped the start of the other: each checks the other's state    *)
(* before its hook, under a lock of its own (_start_locked, _stop_locked). *)
DependenciesStarted ==
  \A p \in Plugins : plugin[p] = "started" => Available(p) \/ raced

(* A disabled plugin leaves that state by enable, or because the hook that *)
(* was running when it was disabled ends (disable takes no lock).          *)
DisabledStays ==
  [][\A p \in Plugins :
       plugin[p] = "disabled" /\ plugin'[p] # "disabled" =>
         \/ plugin'[p] = disabledFrom[p]
         \/ hookOf[p] # "none"
         \/ plugin'[p] = "failed"]_pluginVars

(* start, stop, start_all and stop_all return, whatever the others do: a   *)
(* caller holds one lifecycle lock at a time and every hook ends.          *)
PluginCallsReturn == \A a \in Admins : admin[a].op # "free" ~> admin[a].op = "free"
=============================================================================
