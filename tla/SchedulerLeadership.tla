------------------------ MODULE SchedulerLeadership -------------------------
(***************************************************************************)
(* Which process runs the scheduled jobs: RedisSchedulerLeadership and its *)
(* use by OrchestrationRuntime (deployment.py).  A process that takes the  *)
(* lock in Redis renews it every third of its lifetime and runs the        *)
(* scheduler; the others contend for the lock at the same pace.  Time      *)
(* passes in ticks; Late bounds how late the event loop and Redis may be.  *)
(***************************************************************************)
EXTENDS Integers, TLAPS

CONSTANTS
  Procs,      \* processes of the service
  TTL,        \* ticks the lock lives without renewal
  Period,     \* ticks between renewals, and between attempts to acquire
  Late,       \* ticks a due renewal or attempt may be late
  MaxStops,   \* bound: shutdowns and crashes
  MaxFaults   \* bound: Redis calls that raise

ASSUME LeadershipAssumption ==
  /\ TTL \in Nat /\ Period \in Nat /\ Late \in Nat
  /\ Period + Late < TTL
  /\ MaxStops \in Nat /\ MaxFaults \in Nat
  /\ {"none", "gone"} \cap Procs = {}

VARIABLES
  holder,  \* whose token the key holds: "none", or "gone" for a former process
  left,    \* ticks until the key expires
  proc,    \* each process: its life, is_leader, its task and its scheduler
  stops,   \* shutdowns and crashes so far
  faults   \* failed calls so far

vars == <<holder, left, proc, stops, faults>>

Lives == {"down", "starting", "running", "stopping", "closing", "exiting"}
Process ==
  [life : Lives,
   leads : BOOLEAN,                                 \* is_leader
   led : BOOLEAN,                                   \* start()'s local "leader"
   task : {"none", "renewing", "lost", "contending"},
   since : 0..(Period + Late),                      \* ticks the task has slept
   scheduler : {"off", "on", "stopping"}]

TypeOK ==
  /\ holder \in Procs \cup {"none", "gone"}
  /\ left \in 0..TTL
  /\ proc \in [Procs -> Process]
  /\ stops \in 0..MaxStops
  /\ faults \in 0..MaxFaults

Down ==
  [life |-> "down", leads |-> FALSE, led |-> FALSE, task |-> "none",
   since |-> 0, scheduler |-> "off"]

Init ==
  /\ holder = "none"
  /\ left = 0
  /\ proc = [p \in Procs |-> Down]
  /\ stops = 0
  /\ faults = 0

Up(p) == proc[p].life \notin {"down", "exiting"}
Sleeping(p) == proc[p].task \in {"renewing", "contending"}
Due(p) == Sleeping(p) /\ proc[p].since >= Period

Fault == faults < MaxFaults /\ faults' = faults + 1
Stopping == stops < MaxStops /\ stops' = stops + 1

Becomes(p, state) == proc' = [proc EXCEPT ![p] = state]
Leading(p) ==
  [proc[p] EXCEPT !.leads = TRUE, !.task = "renewing", !.since = 0]
Contending(p) ==
  [proc[p] EXCEPT !.leads = FALSE, !.task = "contending", !.since = 0]

----------------------------------------------------------------------------
(* Redis. *)

\* Mutant: the lifetime is added to what is left.
HoldLonger(p) == holder' = p /\ left' = left + TTL

Hold(p) == holder' = p /\ left' = TTL
KeyUnchanged == UNCHANGED <<holder, left>>

\* Mutant: SET without NX.
FreeIgnored == TRUE

\* SET key token NX EX ttl
Free == holder = "none"

\* GET key = token
Owns(p) == holder = p

\* A process that is gone leaves its token to expire.
Abandon(p) ==
  /\ holder' = IF holder = p THEN "gone" ELSE holder
  /\ UNCHANGED left

----------------------------------------------------------------------------
(* The process. *)

\* TaskScheduler.start: nothing happens while an earlier loop is still ending.
Started(state) ==
  [state EXCEPT !.scheduler = IF @ = "off" THEN "on" ELSE @]

\* OrchestrationRuntime.start as far as acquire_or_wait.
Acquire(p) ==
  /\ proc[p].life = "down"
  /\ \/ /\ Free
        /\ Hold(p)
        /\ Becomes(p, [Leading(p) EXCEPT !.life = "starting", !.led = TRUE])
     \/ /\ ~Free
        /\ KeyUnchanged
        /\ Becomes(p, [Contending(p) EXCEPT !.life = "starting"])
  /\ UNCHANGED <<stops, faults>>

\* The rest of start: the scheduler runs if acquire_or_wait returned True.
StartScheduler(p) ==
  /\ proc[p].life = "starting"
  /\ Becomes(p, [(IF proc[p].led THEN Started(proc[p]) ELSE proc[p])
                   EXCEPT !.life = "running", !.led = FALSE])
  /\ UNCHANGED <<holder, left, stops, faults>>

\* Mutant: the loser does not call on_lost.
RenewKeepsScheduler(p) ==
  /\ proc[p].task = "renewing"
  /\ Due(p)
  /\ \/ Owns(p) /\ Hold(p) /\ Becomes(p, Leading(p))
     \/ ~Owns(p) /\ KeyUnchanged /\ Becomes(p, Contending(p))
  /\ UNCHANGED <<stops, faults>>

\* _renew: a lock that is lost stops the scheduler.
Renew(p) ==
  /\ proc[p].task = "renewing"
  /\ Due(p)
  /\ \/ Owns(p) /\ Hold(p) /\ Becomes(p, Leading(p))
     \/ /\ ~Owns(p)
        /\ KeyUnchanged
        /\ Becomes(p, [proc[p] EXCEPT !.leads = FALSE, !.task = "lost", !.since = 0,
                         !.scheduler = IF @ = "on" THEN "stopping" ELSE @])
  /\ UNCHANGED <<stops, faults>>

\* Only CancelledError is handled: the renewal task ends with its exception.
RenewRaises(p) ==
  /\ proc[p].task = "renewing"
  /\ Due(p)
  /\ Fault
  /\ KeyUnchanged \/ (Owns(p) /\ Hold(p))
  /\ Becomes(p, [proc[p] EXCEPT !.task = "none", !.since = 0])
  /\ UNCHANGED stops

\* on_lost, TaskScheduler.stop, has returned: contend again.
LostStopped(p) ==
  /\ proc[p].task = "lost"
  /\ Becomes(p, [Contending(p) EXCEPT !.scheduler = "off"])
  /\ UNCHANGED <<holder, left, stops, faults>>

\* Mutant: a single attempt.
ContendOnce(p) ==
  /\ proc[p].task = "contending"
  /\ Due(p)
  /\ \/ Free /\ Hold(p) /\ Becomes(p, Started(Leading(p)))
     \/ ~Free /\ KeyUnchanged /\ Becomes(p, [proc[p] EXCEPT !.task = "none", !.since = 0])
  /\ UNCHANGED <<stops, faults>>

\* _contend: another attempt; on_acquired starts the scheduler.
Contend(p) ==
  /\ proc[p].task = "contending"
  /\ Due(p)
  /\ \/ Free /\ Hold(p) /\ Becomes(p, Started(Leading(p)))
     \/ ~Free /\ KeyUnchanged /\ Becomes(p, Contending(p))
  /\ UNCHANGED <<stops, faults>>

\* The contender task ends with its exception; the key may have been set.
ContendRaises(p) ==
  /\ proc[p].task = "contending"
  /\ Due(p)
  /\ Fault
  /\ KeyUnchanged \/ (Free /\ Hold(p))
  /\ Becomes(p, [proc[p] EXCEPT !.task = "none", !.since = 0])
  /\ UNCHANGED stops

\* shutdown: a leader stops its scheduler first.  Renewal and contention go on
\* while it and the plugins stop.
Shutdown(p) ==
  /\ proc[p].life = "running"
  /\ Stopping
  /\ \/ /\ proc[p].leads
        /\ Becomes(p, [proc[p] EXCEPT !.life = "stopping",
                         !.scheduler = IF @ = "on" THEN "stopping" ELSE @])
     \/ /\ ~proc[p].leads
        /\ Becomes(p, [proc[p] EXCEPT !.life = "closing"])
  /\ UNCHANGED <<holder, left, faults>>

ShutdownStopped(p) ==
  /\ proc[p].life = "stopping"
  /\ Becomes(p, [proc[p] EXCEPT !.life = "closing", !.scheduler = "off"])
  /\ UNCHANGED <<holder, left, stops, faults>>

\* Mutant: the key is deleted whoever holds it.
ReleaseAnyKey(p) ==
  /\ proc[p].life = "closing"
  /\ holder' = "none" /\ left' = 0
  /\ Becomes(p, [proc[p] EXCEPT !.life = "exiting", !.leads = FALSE,
                   !.task = "none", !.since = 0])
  /\ UNCHANGED <<stops, faults>>

\* release: the tasks are cancelled, then the key is deleted if it is ours.
Release(p) ==
  /\ proc[p].life = "closing"
  /\ \/ proc[p].leads /\ Owns(p) /\ holder' = "none" /\ left' = 0 /\ UNCHANGED faults
     \/ ~(proc[p].leads /\ Owns(p)) /\ KeyUnchanged /\ UNCHANGED faults
     \/ proc[p].leads /\ Fault /\ KeyUnchanged
  /\ Becomes(p, [proc[p] EXCEPT !.life = "exiting", !.leads = FALSE,
                   !.task = "none", !.since = 0])
  /\ UNCHANGED stops

Exit(p) ==
  /\ proc[p].life = "exiting"
  /\ Abandon(p)
  /\ Becomes(p, Down)
  /\ UNCHANGED <<stops, faults>>

Crash(p) ==
  /\ Up(p)
  /\ Stopping
  /\ Abandon(p)
  /\ Becomes(p, Down)
  /\ UNCHANGED faults

\* A tick passes unless some task is as late as it may be.
Tick ==
  /\ \A p \in Procs : Sleeping(p) => proc[p].since < Period + Late
  /\ left' = IF left > 0 THEN left - 1 ELSE 0
  /\ holder' = IF left > 1 THEN holder ELSE "none"
  /\ proc' = [p \in Procs |->
                IF Sleeping(p) THEN [proc[p] EXCEPT !.since = @ + 1] ELSE proc[p]]
  /\ UNCHANGED <<stops, faults>>

\* Redis comes back without the key.
KeyLost ==
  /\ holder # "none"
  /\ Fault
  /\ holder' = "none" /\ left' = 0
  /\ UNCHANGED <<proc, stops>>

\* The process's own course, and that of its leadership task.
Main(p) == StartScheduler(p) \/ ShutdownStopped(p) \/ Release(p) \/ Exit(p)
Task(p) == Renew(p) \/ LostStopped(p) \/ Contend(p)

Next ==
  \/ Tick
  \/ KeyLost
  \/ \E p \in Procs :
       \/ Acquire(p) \/ Main(p) \/ Task(p) \/ Shutdown(p) \/ Crash(p)
       \/ RenewRaises(p) \/ ContendRaises(p)

Spec == Init /\ [][Next]_vars

----------------------------------------------------------------------------
(* Properties. *)

\* While Redis answers, one process leads at most
\* (test_scheduler_leadership_is_singleton_and_recoverable).  The renewal must
\* outrun the lock's lifetime: the property relates time, Redis and processes.
OneLeader ==
  faults = 0 => \A p, q \in Procs : proc[p].leads /\ proc[q].leads => p = q

\* While Redis answers, a process that is not shutting down runs its scheduler
\* only under its own lock: what it remembers of its leadership is not stale.
SchedulesUnderLock ==
  faults = 0 => \A p \in Procs :
    proc[p].scheduler = "on" /\ proc[p].life \in {"starting", "running"}
      => holder = p

\* The clock and what a process has begun go on.  Nothing is assumed of stops
\* and faults, nor that a process that is down is started again.
Fairness ==
  /\ WF_vars(Tick)
  /\ \A p \in Procs : WF_vars(Main(p)) /\ WF_vars(Task(p))

FairSpec == Spec /\ Fairness

\* A process that has lost the key stops its scheduler, while its renewal runs
\* (test_scheduler_stops_and_recontends_after_leadership_loss).
LoserStops ==
  \A p \in Procs :
    (proc[p].scheduler = "on" /\ proc[p].task = "renewing" /\ holder # p) ~>
      proc[p].scheduler # "on"

\* Two leaders are a matter of the lease window: one of them notices.
LeadersBecomeOne ==
  \A p, q \in Procs :
    (p # q /\ proc[p].leads /\ proc[q].leads) ~>
      ~(proc[p].leads /\ proc[q].leads)

\* While Redis answers and a process stays up, some process runs the scheduled
\* jobs in the end ("keeps contending and starts its scheduler after acquiring
\* it", in the promotion runbook).
SchedulerRuns ==
  \A p \in Procs :
    (proc[p].life = "running" /\ faults = 0) ~>
      \/ proc[p].life # "running" \/ faults > 0
      \/ \E q \in Procs : proc[q].scheduler = "on"

-----------------------------------------------------------------------------
(* Proofs of the safety properties, for any processes, lifetime, renewal     *)
(* period and lateness with Period + Late < TTL.  While Redis answers, a     *)
(* leader holds the lock, and what is left of the lock's lifetime is what    *)
(* the leader has not yet slept.                                             *)

\* A task that begins to sleep has slept for a time within the bound.
LEMMA Awake == 0 \in 0..(Period + Late)
BY LeadershipAssumption

\* What the actions make of a process is a process.
LEMMA ProcessUpdates ==
  ASSUME NEW s \in Process
  PROVE  /\ [s EXCEPT !.leads = TRUE, !.task = "renewing", !.since = 0] \in Process
         /\ [s EXCEPT !.leads = FALSE, !.task = "contending", !.since = 0] \in Process
         /\ [s EXCEPT !.leads = FALSE, !.task = "lost", !.since = 0,
               !.scheduler = IF @ = "on" THEN "stopping" ELSE @] \in Process
         /\ [s EXCEPT !.task = "none", !.since = 0] \in Process
         /\ [s EXCEPT !.life = "exiting", !.leads = FALSE, !.task = "none",
               !.since = 0] \in Process
         /\ Started(s) \in Process
BY Awake DEF Process, Lives, Started

\* A process that is down is a process.
LEMMA DownIsProcess == Down \in Process
BY Awake DEF Process, Lives, Down

\* Every component keeps its type, faults included.
LEMMA TypeStep == TypeOK /\ [Next]_vars => TypeOK'
<1> SUFFICES ASSUME TypeOK, [Next]_vars PROVE TypeOK'
  OBVIOUS
<1> USE LeadershipAssumption DEF TypeOK
<1>1. CASE Tick
  <2>1. proc' \in [Procs -> Process]
    BY <1>1 DEF Tick, Sleeping, Process
  <2>2. holder' \in Procs \cup {"none", "gone"} /\ left' \in 0..TTL
    BY <1>1 DEF Tick
  <2>. QED  BY <1>1, <2>1, <2>2 DEF Tick
<1>2. CASE KeyLost
  BY <1>2 DEF KeyLost, Fault
<1>3. ASSUME NEW p \in Procs,
             Acquire(p) \/ Main(p) \/ Task(p) \/ Shutdown(p) \/ Crash(p)
               \/ RenewRaises(p) \/ ContendRaises(p)
      PROVE  TypeOK'
  <2>0. proc[p] \in Process /\ Leading(p) \in Process /\ Contending(p) \in Process
    BY ProcessUpdates DEF Leading, Contending
  <2>a. \A state \in Process : [proc EXCEPT ![p] = state] \in [Procs -> Process]
    OBVIOUS
  <2>1. CASE Acquire(p)
    <3>1. /\ [Leading(p) EXCEPT !.life = "starting", !.led = TRUE] \in Process
          /\ [Contending(p) EXCEPT !.life = "starting"] \in Process
      BY <2>0 DEF Process, Lives
    <3>. QED  BY <2>a, <2>1, <3>1 DEF Acquire, Becomes, Hold, KeyUnchanged
  <2>2. CASE StartScheduler(p)
    <3>1. \A state \in Process : [state EXCEPT !.life = "running", !.led = FALSE] \in Process
      BY DEF Process, Lives
    <3>. QED  BY <2>0, <2>a, <2>2, <3>1, ProcessUpdates DEF StartScheduler, Becomes
  <2>3. CASE Renew(p)
    <3>1. [proc[p] EXCEPT !.leads = FALSE, !.task = "lost", !.since = 0,
             !.scheduler = IF @ = "on" THEN "stopping" ELSE @] \in Process
      BY <2>0, ProcessUpdates
    <3>. QED  BY <2>0, <2>a, <2>3, <3>1 DEF Renew, Becomes, Hold, KeyUnchanged
  <2>4. CASE LostStopped(p)
    <3>1. [Contending(p) EXCEPT !.scheduler = "off"] \in Process
      BY <2>0 DEF Process
    <3>. QED  BY <2>a, <2>4, <3>1 DEF LostStopped, Becomes
  <2>5. CASE Contend(p)
    <3>1. Started(Leading(p)) \in Process
      BY <2>0, ProcessUpdates
    <3>. QED  BY <2>0, <2>a, <2>5, <3>1 DEF Contend, Becomes, Hold, KeyUnchanged
  <2>6. CASE RenewRaises(p) \/ ContendRaises(p)
    <3>1. [proc[p] EXCEPT !.task = "none", !.since = 0] \in Process
      BY <2>0, ProcessUpdates
    <3>. QED
      BY <2>a, <2>6, <3>1 DEF RenewRaises, ContendRaises, Becomes, Hold, KeyUnchanged, Fault
  <2>7. CASE Shutdown(p)
    <3>1. /\ [proc[p] EXCEPT !.life = "closing"] \in Process
          /\ [proc[p] EXCEPT !.life = "stopping",
                !.scheduler = IF @ = "on" THEN "stopping" ELSE @] \in Process
      BY <2>0 DEF Process, Lives
    <3>. QED  BY <2>a, <2>7, <3>1 DEF Shutdown, Becomes, Stopping
  <2>8. CASE ShutdownStopped(p)
    <3>1. [proc[p] EXCEPT !.life = "closing", !.scheduler = "off"] \in Process
      BY <2>0 DEF Process, Lives
    <3>. QED  BY <2>a, <2>8, <3>1 DEF ShutdownStopped, Becomes
  <2>9. CASE Release(p)
    <3>1. [proc[p] EXCEPT !.life = "exiting", !.leads = FALSE, !.task = "none",
             !.since = 0] \in Process
      BY <2>0, ProcessUpdates
    <3>. QED  BY <2>a, <2>9, <3>1 DEF Release, Becomes, KeyUnchanged, Fault
  <2>10. CASE Exit(p) \/ Crash(p)
    BY DownIsProcess, <2>a, <2>10 DEF Exit, Crash, Becomes, Abandon, Stopping
  <2>. QED
    BY <1>3, <2>1, <2>2, <2>3, <2>4, <2>5, <2>6, <2>7, <2>8, <2>9, <2>10 DEF Main, Task
<1>4. CASE UNCHANGED vars
  BY <1>4 DEF vars
<1>. QED  BY <1>1, <1>2, <1>3, <1>4 DEF Next

\* The lock, its remaining lifetime and every process stay well formed,
\* whatever Redis does.
THEOREM LeadershipTypes == Spec => []TypeOK
<1>1. Init => TypeOK
  BY DownIsProcess, LeadershipAssumption DEF Init, TypeOK
<1>. QED  BY <1>1, TypeStep, PTL DEF Spec

----------------------------------------------------------------------------
\* A leader's renewal task lives, it holds the lock, and the lock lives as
\* long as the task may still sleep.
LeaderHolds(p) ==
  proc[p].leads =>
    /\ proc[p].task = "renewing"
    /\ holder = p
    /\ left + proc[p].since = TTL

\* Only a leader renews, starts the scheduler at startup, or runs it.
OnlyLeader(p) ==
  /\ proc[p].task = "renewing" => proc[p].leads
  /\ proc[p].task # "lost"
  /\ proc[p].task = "contending" => proc[p].life \notin {"down", "exiting"}
  /\ proc[p].led => proc[p].leads /\ proc[p].life = "starting"
  /\ proc[p].scheduler # "off" /\ proc[p].life \in {"starting", "running"}
       => proc[p].leads
  /\ proc[p].life \in {"down", "exiting"} => ~proc[p].leads
  /\ proc[p].life = "down" => proc[p].scheduler = "off"

LeadershipInv ==
  TypeOK /\ (faults = 0 => \A p \in Procs : LeaderHolds(p) /\ OnlyLeader(p))

\* A step of one process leaves the others as they are.
LEMMA OtherProcesses ==
  ASSUME proc \in [Procs -> Process], NEW p \in Procs, NEW s, Becomes(p, s)
  PROVE  proc'[p] = s /\ \A q \in Procs : q # p => proc'[q] = proc[q]
BY DEF Becomes

\* Every step keeps the invariant, as long as no call to Redis has failed.
LEMMA LeadershipStep == LeadershipInv /\ [Next]_vars => LeadershipInv'
<1> SUFFICES ASSUME LeadershipInv, [Next]_vars PROVE LeadershipInv'
  OBVIOUS
<1>t. TypeOK'
  BY TypeStep DEF LeadershipInv
<1> SUFFICES ASSUME faults' = 0, NEW q \in Procs
             PROVE  LeaderHolds(q)' /\ OnlyLeader(q)'
  BY <1>t DEF LeadershipInv
<1>f. faults = 0 /\ ~Fault
  <2>1. UNCHANGED faults \/ Fault
    <3>1. ASSUME NEW p \in Procs, Acquire(p) \/ Main(p) \/ Task(p)
          PROVE  UNCHANGED faults \/ Fault
      BY <3>1 DEF Acquire, Main, Task, StartScheduler, ShutdownStopped, Release, Exit,
                  Renew, LostStopped, Contend
    <3>2. ASSUME NEW p \in Procs, Shutdown(p) \/ Crash(p) \/ RenewRaises(p) \/ ContendRaises(p)
          PROVE  UNCHANGED faults \/ Fault
      BY <3>2 DEF Shutdown, Crash, RenewRaises, ContendRaises
    <3>. QED  BY <3>1, <3>2 DEF Next, vars, Tick, KeyLost
  <2>. QED  BY <2>1, LeadershipAssumption DEF Fault, LeadershipInv, TypeOK
<1>h. \A p \in Procs : LeaderHolds(p) /\ OnlyLeader(p)
  BY <1>f DEF LeadershipInv
<1>p. /\ proc \in [Procs -> Process]
      /\ holder \in Procs \cup {"none", "gone"}
      /\ left \in Nat
      /\ q # "none" /\ q # "gone"
  BY LeadershipAssumption DEF LeadershipInv, TypeOK
<1>1. CASE Tick
  <2>1. /\ proc'[q].life = proc[q].life /\ proc'[q].leads = proc[q].leads
        /\ proc'[q].led = proc[q].led /\ proc'[q].task = proc[q].task
        /\ proc'[q].scheduler = proc[q].scheduler
        /\ proc[q].task = "renewing" =>
             proc'[q].since = proc[q].since + 1 /\ proc[q].since < Period + Late
    BY <1>1, <1>p DEF Tick, Sleeping, Process
  <2>2. ASSUME proc'[q].leads
        PROVE  holder' = q /\ left' + proc'[q].since = TTL
    <3>1. left + proc[q].since = TTL /\ proc[q].task = "renewing" /\ holder = q
      BY <1>h, <2>1, <2>2 DEF LeaderHolds
    <3>2. proc[q].since \in Nat
      BY <1>p, LeadershipAssumption DEF Process
    <3>3. left > 1
      BY <1>p, <2>1, <3>1, <3>2, LeadershipAssumption
    <3>. QED  BY <1>1, <1>p, <2>1, <3>1, <3>2, <3>3, LeadershipAssumption DEF Tick
  <2>. QED  BY <1>h, <2>1, <2>2 DEF LeaderHolds, OnlyLeader
<1>2. CASE KeyLost
  BY <1>2, <1>f DEF KeyLost
<1>3. ASSUME NEW p \in Procs,
             Acquire(p) \/ Main(p) \/ Task(p) \/ Shutdown(p) \/ Crash(p)
               \/ RenewRaises(p) \/ ContendRaises(p)
      PROVE  LeaderHolds(q)' /\ OnlyLeader(q)'
  <2>h. LeaderHolds(p) /\ OnlyLeader(p) /\ LeaderHolds(q) /\ OnlyLeader(q)
    BY <1>h
  <2>p. proc[p] \in Process /\ proc[q] \in Process /\ p # "none" /\ p # "gone"
    BY <1>p, LeadershipAssumption
  <2> USE DEF LeaderHolds, OnlyLeader
  <2>1. CASE Acquire(p)
    <3>1. proc[p].scheduler = "off" /\ ~proc[p].leads /\ proc[p].led = FALSE
      BY <2>1, <2>h, <2>p DEF Acquire, Process
    <3>2. CASE Free /\ Hold(p) /\ Becomes(p, [Leading(p) EXCEPT !.life = "starting", !.led = TRUE])
      <4>1. q # p => ~proc[q].leads
        BY <3>2, <2>h, <1>p DEF Free
      <4>2. CASE q = p
        <5>1. proc'[p] = [Leading(p) EXCEPT !.life = "starting", !.led = TRUE]
          BY <3>2, <1>p, OtherProcesses
        <5>2. /\ proc'[p].leads /\ proc'[p].task = "renewing" /\ proc'[p].since = 0
              /\ proc'[p].life = "starting"
          BY <5>1, <2>p DEF Leading, Process
        <5>. QED  BY <4>2, <5>2, <3>2, LeadershipAssumption DEF Hold
      <4>3. CASE q # p
        BY <4>1, <4>3, <2>h, <3>2, <1>p, OtherProcesses
      <4>. QED  BY <4>2, <4>3
    <3>3. CASE KeyUnchanged /\ Becomes(p, [Contending(p) EXCEPT !.life = "starting"])
      <4>1. proc'[p] = [Contending(p) EXCEPT !.life = "starting"]
        BY <3>3, <1>p, OtherProcesses
      <4>2. /\ ~proc'[p].leads /\ proc'[p].task = "contending"
            /\ proc'[p].life = "starting" /\ proc'[p].led = FALSE
            /\ proc'[p].scheduler = "off"
        BY <4>1, <3>1, <2>p DEF Contending, Process
      <4>. QED  BY <4>2, <2>h, <3>3, <1>p, OtherProcesses DEF KeyUnchanged
    <3>. QED  BY <2>1, <3>2, <3>3 DEF Acquire
  <2>2. CASE StartScheduler(p)
    BY <1>p, <2>h, <2>p, <2>2 DEF StartScheduler, Started, Becomes, Process
  <2>3. CASE Renew(p)
    <3>1. Hold(p) /\ Becomes(p, Leading(p)) /\ proc[p].leads /\ holder = p
      BY <2>3, <2>h DEF Renew, Owns
    <3>2. proc'[p] = Leading(p)
      BY <3>1, <1>p, OtherProcesses
    <3>3. /\ proc'[p].leads /\ proc'[p].task = "renewing" /\ proc'[p].since = 0
          /\ proc'[p].life = proc[p].life /\ proc'[p].led = proc[p].led
          /\ proc'[p].scheduler = proc[p].scheduler
      BY <3>2, <2>p DEF Leading, Process
    <3>4. CASE q = p
      BY <3>1, <3>3, <3>4, <2>h, LeadershipAssumption DEF Hold
    <3>5. CASE q # p
      BY <3>1, <3>5, <2>h, <1>p, OtherProcesses
    <3>. QED  BY <3>4, <3>5
  <2>4. CASE LostStopped(p)
    BY <2>4, <2>h DEF LostStopped
  <2>5. CASE Contend(p)
    <3>0. ~proc[p].leads /\ proc[p].task = "contending"
      BY <2>5, <2>h DEF Contend
    <3>1. CASE Free /\ Hold(p) /\ Becomes(p, Started(Leading(p)))
      <4>1. q # p => ~proc[q].leads
        BY <3>1, <2>h, <1>p DEF Free
      <4>2. CASE q = p
        <5>1. proc'[p] = Started(Leading(p))
          BY <3>1, <1>p, OtherProcesses
        <5>2. /\ proc'[p].leads /\ proc'[p].task = "renewing" /\ proc'[p].since = 0
              /\ proc'[p].life = proc[p].life
          BY <5>1, <2>p DEF Leading, Started, Process
        <5>3. proc[p].life \notin {"down", "exiting"} /\ proc'[p].led = FALSE
          BY <3>0, <2>h, <2>p, <5>1 DEF Leading, Started, Process
        <5>. QED  BY <4>2, <5>2, <5>3, <3>1, LeadershipAssumption DEF Hold
      <4>3. CASE q # p
        BY <4>1, <4>3, <2>h, <3>1, <1>p, OtherProcesses
      <4>. QED  BY <4>2, <4>3
    <3>2. CASE KeyUnchanged /\ Becomes(p, Contending(p))
      <4>1. proc'[p] = Contending(p)
        BY <3>2, <1>p, OtherProcesses
      <4>2. /\ ~proc'[p].leads /\ proc'[p].task = "contending"
            /\ proc'[p].life = proc[p].life /\ proc'[p].led = proc[p].led
            /\ proc'[p].scheduler = proc[p].scheduler
        BY <4>1, <2>p DEF Contending, Process
      <4>. QED  BY <4>2, <3>0, <2>h, <3>2, <1>p, OtherProcesses DEF KeyUnchanged
    <3>. QED  BY <2>5, <3>1, <3>2 DEF Contend
  <2>6. CASE RenewRaises(p) \/ ContendRaises(p)
    BY <2>6, <1>f DEF RenewRaises, ContendRaises
  <2>7. CASE Shutdown(p)
    <3>0. proc[p].led = FALSE
      BY <2>7, <2>h, <2>p DEF Shutdown, Process
    <3>1. /\ UNCHANGED <<holder, left>>
          /\ \A r \in Procs : r # p => proc'[r] = proc[r]
          /\ proc'[p].leads = proc[p].leads /\ proc'[p].task = proc[p].task
          /\ proc'[p].led = proc[p].led /\ proc'[p].since = proc[p].since
          /\ proc'[p].life \in {"stopping", "closing"}
      <4>1. CASE Becomes(p, [proc[p] EXCEPT !.life = "closing"])
        BY <4>1, <1>p, <2>p, <2>7 DEF Becomes, Process, Shutdown
      <4>2. CASE Becomes(p, [proc[p] EXCEPT !.life = "stopping",
                               !.scheduler = IF @ = "on" THEN "stopping" ELSE @])
        BY <4>2, <1>p, <2>p, <2>7 DEF Becomes, Process, Shutdown
      <4>. QED  BY <4>1, <4>2, <2>7 DEF Shutdown
    <3>. QED  BY <3>0, <3>1, <2>h
  <2>8. CASE ShutdownStopped(p)
    BY <1>p, <2>h, <2>p, <2>8 DEF ShutdownStopped, Becomes, Process
  <2>9. CASE Release(p)
    <3>0. proc[p].led = FALSE
      BY <2>9, <2>h, <2>p DEF Release, Process
    <3>1. /\ proc[p].leads => Owns(p)
          /\ q # p /\ proc[q].leads => ~proc[p].leads
      BY <2>h DEF Owns
    <3>2. /\ q # p /\ proc[q].leads => KeyUnchanged
          /\ Becomes(p, [proc[p] EXCEPT !.life = "exiting", !.leads = FALSE,
                           !.task = "none", !.since = 0])
      BY <2>9, <3>1, <1>f DEF Release
    <3>3. proc'[p] = [proc[p] EXCEPT !.life = "exiting", !.leads = FALSE,
                        !.task = "none", !.since = 0]
      BY <3>2, <1>p, OtherProcesses
    <3>4. /\ ~proc'[p].leads /\ proc'[p].task = "none" /\ proc'[p].life = "exiting"
          /\ proc'[p].led = proc[p].led
      BY <3>3, <2>p DEF Process
    <3>. QED
      BY <3>0, <3>2, <3>4, <2>h, <1>p, OtherProcesses DEF KeyUnchanged
  <2>10. CASE Exit(p) \/ Crash(p)
    <3>1. Becomes(p, Down) /\ Abandon(p)
      BY <2>10 DEF Exit, Crash
    <3>2. proc'[p] = Down
      BY <3>1, <1>p, OtherProcesses
    <3>. QED
      BY <3>1, <3>2, <2>h, <1>p, OtherProcesses DEF Down, Abandon
  <2>. QED
    BY <1>3, <2>1, <2>2, <2>3, <2>4, <2>5, <2>6, <2>7, <2>8, <2>9, <2>10 DEF Main, Task
<1>4. CASE UNCHANGED vars
  BY <1>4, <1>h DEF vars, LeaderHolds, OnlyLeader
<1>. QED  BY <1>1, <1>2, <1>3, <1>4 DEF Next

\* It holds of every behaviour.
LEMMA LeadershipAlways == Spec => []LeadershipInv
<1>1. Init => LeadershipInv
  <2> SUFFICES ASSUME Init PROVE LeadershipInv
    OBVIOUS
  <2>1. TypeOK
    BY DownIsProcess, LeadershipAssumption DEF Init, TypeOK
  <2>2. \A p \in Procs : proc[p] = Down
    BY DEF Init
  <2>. QED  BY <2>1, <2>2 DEF LeadershipInv, LeaderHolds, OnlyLeader, Down
<1>. QED  BY <1>1, LeadershipStep, PTL DEF Spec

\* While Redis answers, one process leads at most, whatever the number of
\* processes and however they stop: renewal outruns the lock's lifetime.
THEOREM SingleLeader == Spec => []OneLeader
<1>1. LeadershipInv => OneLeader
  BY DEF LeadershipInv, LeaderHolds, OneLeader
<1>. QED  BY <1>1, LeadershipAlways, PTL

\* While Redis answers, a process that is not shutting down runs its scheduler
\* only under the lock.
THEOREM SchedulerUnderLock == Spec => []SchedulesUnderLock
<1>1. LeadershipInv => SchedulesUnderLock
  BY DEF LeadershipInv, LeaderHolds, OnlyLeader, SchedulesUnderLock
<1>. QED  BY <1>1, LeadershipAlways, PTL
=============================================================================
