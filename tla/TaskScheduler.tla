--------------------------- MODULE TaskScheduler ----------------------------
(***************************************************************************)
(* The asyncio task scheduler (infrastructure/task_scheduler/scheduler.py).*)
(* Its lock is never held across an await, so a section under it is one    *)
(* step; other tasks run while an execution waits for the semaphore, the   *)
(* job's coroutine or a backoff, while cancel waits for the task it        *)
(* cancelled, and while stop waits for the loop and for the tasks.         *)
(* Job coroutines do not suppress their cancellation.                      *)
(***************************************************************************)
EXTENDS Integers, FiniteSets

CONSTANTS
  Jobs,            \* job ids
  Once,            \* the jobs with ScheduleType.ONCE; the others are INTERVAL
  Skip,            \* the jobs with MisfirePolicy.SKIP; the others RUN_ONCE
  Tasks,           \* asyncio tasks that execute jobs
  Callers,         \* tasks that call cancel, unregister or stop
  MaxConcurrency,  \* maximum_concurrency, the semaphore's size
  MaxAttempts,     \* retry_policy.maximum_attempts
  MaxCalls,        \* bound: calls of the interface
  Overlapping      \* may a call meet a stop, or a cancel of its job, under way?

ASSUME SchedulerAssumption ==
  /\ Once \subseteq Jobs /\ Skip \subseteq Jobs
  /\ MaxConcurrency \in Nat \ {0} /\ MaxAttempts \in Nat \ {0}
  /\ MaxCalls \in Nat
  /\ Overlapping \in BOOLEAN
  /\ "none" \notin Jobs \cup Tasks

VARIABLES
  jobs,       \* keys of _jobs
  state,      \* _states
  next,       \* _next_run, relative to now and to the misfire grace
  running,    \* _running_tasks: the task of a job
  task,       \* each task that executes a job
  loop,       \* is the loop task alive?
  stopEvent,  \* _stop_event
  caller,     \* each call of cancel, unregister or stop under way
  calls,      \* calls so far
  cancelled   \* history: jobs whose cancel has returned

table == <<jobs, state, next, running>>
vars == <<table, task, loop, stopEvent, caller, calls, cancelled>>

JobStates ==
  {"none", "scheduled", "paused", "running", "succeeded", "failed", "cancelled"}
Executing == {"running", "backoff"}   \* points that hold the semaphore
Alive == {"new", "queued"} \cup Executing
CallerPoints == {"free", "cancelling", "stopping", "gathering"}

TypeOK ==
  /\ jobs \subseteq Jobs
  /\ state \in [Jobs -> JobStates]
  /\ next \in [Jobs -> {"none", "later", "due", "late"}]
  /\ running \in [Jobs -> Tasks \cup {"none"}]
  /\ task \in [Tasks ->
       [pc : {"free", "ending"} \cup Alive, job : Jobs \cup {"none"},
        manual : BOOLEAN,            \* run by the caller of run_now
        attempt : 0..MaxAttempts, cancel : BOOLEAN]]
  /\ loop \in BOOLEAN
  /\ stopEvent \in BOOLEAN
  /\ caller \in [Callers ->
       [pc : CallerPoints, job : Jobs \cup {"none"}, task : Tasks \cup {"none"},
        drop : BOOLEAN, waits : SUBSET Tasks, stopped : SUBSET Jobs]]
  /\ calls \in 0..MaxCalls
  /\ cancelled \subseteq Jobs

NoTask == [pc |-> "free", job |-> "none", manual |-> FALSE, attempt |-> 0, cancel |-> FALSE]
NoCall ==
  [pc |-> "free", job |-> "none", task |-> "none", drop |-> FALSE, waits |-> {}, stopped |-> {}]

Init ==
  /\ jobs = {}
  /\ state = [j \in Jobs |-> "none"]
  /\ next = [j \in Jobs |-> "none"]
  /\ running = [j \in Jobs |-> "none"]
  /\ task = [t \in Tasks |-> NoTask]
  /\ loop = FALSE
  /\ stopEvent = FALSE
  /\ caller = [c \in Callers |-> NoCall]
  /\ calls = 0
  /\ cancelled = {}

----------------------------------------------------------------------------
(* Helpers. *)

StopUnderWay == \E c \in Callers : caller[c].pc \in {"stopping", "gathering"}
Cancelling(js) == \E c \in Callers : caller[c].pc = "cancelling" /\ caller[c].job \in js

Call ==
  /\ calls < MaxCalls
  /\ calls' = calls + 1
  /\ Overlapping \/ ~StopUnderWay

SetState(j, s) == state' = [state EXCEPT ![j] = s]
Holders == {t \in Tasks : task[t].pc \in Executing}

\* A task object not in use, nor remembered by a call under way.
Unused(t) ==
  /\ task[t].pc = "free"
  /\ \A c \in Callers : caller[c].task # t /\ t \notin caller[c].waits

\* The job has a task that is not done.
Active(j) == \E t \in Tasks : running[j] = t /\ task[t].pc \in Alive

\* A caller's task is done: whoever awaits it will go on.
Done(t) == caller' = [c \in Callers |-> [caller[c] EXCEPT !.waits = @ \ {t}]]

\* task.cancel() for the tasks ts that are not done.
CancelTasks(ts) ==
  task' = [t \in Tasks |->
             IF t \in ts /\ task[t].pc \in Alive
             THEN [task[t] EXCEPT !.cancel = TRUE] ELSE task[t]]

\* self._running_tasks.pop(job_id), if it is still this task's.
Forget(j, t) == running' = [running EXCEPT ![j] = IF @ = t THEN "none" ELSE @]

\* The semaphore: an execution enters, or waits in line.
Enter(t, e) ==
  IF Cardinality(Holders) < MaxConcurrency
  THEN /\ task' = [task EXCEPT ![t] = [e EXCEPT !.pc = "running", !.attempt = 1]]
       /\ SetState(e.job, "running")
  ELSE task' = [task EXCEPT ![t] = [e EXCEPT !.pc = "queued"]] /\ UNCHANGED state

----------------------------------------------------------------------------
(* The interface. *)

Register(j) ==
  /\ Call
  /\ j \notin jobs
  /\ jobs' = jobs \cup {j}
  /\ SetState(j, "scheduled")
  /\ \E n \in {"later"} \cup (IF j \in Once THEN {"due", "late"} ELSE {}) :
       next' = [next EXCEPT ![j] = n]
  /\ cancelled' = cancelled \ {j}
  /\ UNCHANGED <<running, task, loop, stopEvent, caller>>

Pause(j) ==
  /\ Call
  /\ j \in jobs
  /\ running[j] = "none"
  /\ state[j] = "scheduled"
  /\ SetState(j, "paused")
  /\ UNCHANGED <<jobs, next, running, task, loop, stopEvent, caller, cancelled>>

Resume(j) ==
  /\ Call
  /\ j \in jobs
  /\ state[j] = "paused"
  /\ SetState(j, "scheduled")
  /\ next' = [next EXCEPT ![j] =
                IF j \notin Once THEN "later" ELSE IF @ = "none" THEN "late" ELSE @]
  /\ UNCHANGED <<jobs, running, task, loop, stopEvent, caller, cancelled>>

\* Mutant: a cancelled job may be run.
RunNowCancelled(j, t) ==
  /\ Call
  /\ j \in jobs
  /\ running[j] = "none"
  /\ Unused(t)
  /\ running' = [running EXCEPT ![j] = t]
  /\ Enter(t, [NoTask EXCEPT !.job = j, !.manual = TRUE])
  /\ UNCHANGED <<jobs, next, loop, stopEvent, caller, cancelled>>

\* run_now executes in the caller's own task, t.
RunNow(j, t) ==
  /\ Call
  /\ j \in jobs
  /\ running[j] = "none"
  /\ state[j] # "cancelled"
  /\ Unused(t)
  /\ running' = [running EXCEPT ![j] = t]
  /\ Enter(t, [NoTask EXCEPT !.job = j, !.manual = TRUE])
  /\ UNCHANGED <<jobs, next, loop, stopEvent, caller, cancelled>>

\* The last section of cancel, and what unregister does after it.
CancelEnds(j, t, drop) ==
  /\ state' = [state EXCEPT ![j] = IF drop THEN "none" ELSE "cancelled"]
  /\ jobs' = IF drop THEN jobs \ {j} ELSE jobs
  /\ next' = IF drop THEN [next EXCEPT ![j] = "none"] ELSE next
  /\ cancelled' = IF drop THEN cancelled \ {j} ELSE cancelled \cup {j}
  /\ IF t = "none" THEN UNCHANGED running ELSE Forget(j, t)

\* cancel, or unregister (drop): a task that is not done is cancelled and
\* awaited, otherwise the call ends at once.
Cancel(c, j, drop) ==
  /\ Call
  /\ Overlapping \/ ~Cancelling({j})
  /\ j \in jobs
  /\ caller[c].pc = "free"
  /\ \/ /\ Active(j)
        /\ CancelTasks({running[j]})
        /\ caller' = [caller EXCEPT ![c] =
             [NoCall EXCEPT !.pc = "cancelling", !.job = j, !.task = running[j],
                !.drop = drop, !.waits = {running[j]}]]
        /\ UNCHANGED <<table, cancelled>>
     \/ /\ ~Active(j)
        /\ CancelEnds(j, running[j], drop)
        /\ UNCHANGED <<task, caller>>
  /\ UNCHANGED <<loop, stopEvent>>

\* The same, when the task was that of a run_now.
CancelReturns(c) ==
  /\ caller[c].pc = "cancelling"
  /\ caller[c].waits = {}
  /\ IF caller[c].job \in jobs
     THEN CancelEnds(caller[c].job, caller[c].task, caller[c].drop)
     ELSE Forget(caller[c].job, caller[c].task)
            /\ UNCHANGED <<jobs, state, next, cancelled>>
  /\ caller' = [caller EXCEPT ![c] = NoCall]
  /\ UNCHANGED <<task, loop, stopEvent, calls>>

\* start, when no loop is alive; otherwise it returns.
Start ==
  /\ Call
  /\ ~loop
  /\ loop' = TRUE
  /\ stopEvent' = FALSE
  /\ UNCHANGED <<table, task, caller, cancelled>>

\* Mutant: the tasks are forgotten but not cancelled.
StopTasksForgotten(c) ==
  /\ caller' = [caller EXCEPT ![c] = NoCall]
  /\ running' = [j \in Jobs |-> "none"]
  /\ UNCHANGED <<jobs, state, next, loop, task, cancelled>>

\* Every task that is not done is cancelled and awaited; without any, stop
\* ends here.
StopTasks(c) ==
  LET live == {j \in Jobs : Active(j)}
      ts == {running[j] : j \in live} IN
  /\ CancelTasks(ts)
  /\ \/ /\ ts # {}
        /\ caller' = [caller EXCEPT ![c] =
             [NoCall EXCEPT !.pc = "gathering", !.waits = ts, !.stopped = live]]
        /\ UNCHANGED running
     \/ /\ ts = {}
        /\ caller' = [caller EXCEPT ![c] = NoCall]
        /\ running' = [j \in Jobs |-> "none"]
  /\ UNCHANGED <<jobs, state, next, loop, cancelled>>

\* Mutant: the stop event is not set.
StopWithoutEvent(c) ==
  /\ Call
  /\ Overlapping \/ ~Cancelling(Jobs)
  /\ caller[c].pc = "free"
  /\ \/ /\ loop
        /\ caller' = [caller EXCEPT ![c].pc = "stopping"]
        /\ UNCHANGED <<table, task, loop, cancelled>>
     \/ ~loop /\ StopTasks(c)
  /\ UNCHANGED stopEvent

\* stop awaits the loop, if there is one.
Stop(c) ==
  /\ Call
  /\ Overlapping \/ ~Cancelling(Jobs)
  /\ caller[c].pc = "free"
  /\ stopEvent' = TRUE
  /\ \/ /\ loop
        /\ caller' = [caller EXCEPT ![c].pc = "stopping"]
        /\ UNCHANGED <<table, task, loop, cancelled>>
     \/ ~loop /\ StopTasks(c)

StopLoopEnded(c) ==
  /\ caller[c].pc = "stopping"
  /\ ~loop
  /\ StopTasks(c)
  /\ UNCHANGED <<stopEvent, calls>>

\* gather has returned: what was cancelled is scheduled again.
StopReturns(c) ==
  /\ caller[c].pc = "gathering"
  /\ caller[c].waits = {}
  /\ LET again == caller[c].stopped \cap jobs IN
     /\ state' = [j \in Jobs |-> IF j \in again THEN "scheduled" ELSE state[j]]
     /\ next' = [j \in Jobs |-> IF j \in again \ Once THEN "later" ELSE next[j]]
  /\ running' = [j \in Jobs |-> "none"]
  /\ caller' = [caller EXCEPT ![c] = NoCall]
  /\ UNCHANGED <<jobs, task, loop, stopEvent, calls, cancelled>>

----------------------------------------------------------------------------
(* The loop, the executions and the clock. *)

DueJobs == {j \in jobs : state[j] = "scheduled" /\ next[j] \in {"due", "late"}}
Misfired == {j \in DueJobs \cap Skip : next[j] = "late"}

\* Mutant: a job that still waits for the semaphore gets another task.
ToBeginAgain == DueJobs \ Misfired

\* The jobs that get a task: none that still has one.
ToBegin == {j \in DueJobs \ Misfired : running[j] = "none"}

\* Mutant: a skipped interval job is not given its next slot.
AfterMisfireUnchanged(j) == IF j \in Once THEN "none" ELSE next[j]

\* The next run of a job that was skipped.
AfterMisfire(j) == IF j \in Once THEN "none" ELSE "later"

\* One round of _run_loop: misfired jobs are skipped, the others get a task,
\* unless they still have one.
LoopRound ==
  /\ loop /\ ~stopEvent
  /\ state' = [j \in Jobs |-> IF j \in Misfired \cap Once THEN "cancelled" ELSE state[j]]
  /\ next' = [j \in Jobs |->
                IF j \in Misfired THEN AfterMisfire(j) ELSE next[j]]
  /\ \E new \in [ToBegin -> {t \in Tasks : Unused(t)}] :
       /\ \A i, j \in ToBegin : new[i] = new[j] => i = j
       /\ running' = [j \in Jobs |-> IF j \in ToBegin THEN new[j] ELSE running[j]]
       /\ task' = [t \in Tasks |->
            IF \E j \in ToBegin : new[j] = t
            THEN [NoTask EXCEPT !.pc = "new", !.job = CHOOSE j \in ToBegin : new[j] = t]
            ELSE task[t]]
  /\ UNCHANGED <<jobs, loop, stopEvent, caller, calls, cancelled>>

LoopEnds ==
  /\ loop /\ stopEvent
  /\ loop' = FALSE
  /\ UNCHANGED <<table, task, stopEvent, caller, calls, cancelled>>

\* A created task takes its first step.
Begin(t) ==
  /\ task[t].pc = "new" /\ ~task[t].cancel
  /\ Enter(t, task[t])
  /\ UNCHANGED <<jobs, next, running, loop, stopEvent, caller, calls, cancelled>>

\* The semaphore has room for one that waits.
Admit(t) ==
  /\ task[t].pc = "queued" /\ ~task[t].cancel
  /\ Cardinality(Holders) < MaxConcurrency
  /\ Enter(t, task[t])
  /\ UNCHANGED <<jobs, next, running, loop, stopEvent, caller, calls, cancelled>>

\* The execution ends with result r.  The loop's reschedules its job and is
\* done; a caller's restores an interval job and forgets the task.
Ends(t, r) ==
  LET j == task[t].job IN
  /\ \/ /\ ~task[t].manual
        /\ SetState(j, IF j \in Once THEN r ELSE "scheduled")
        /\ next' = [next EXCEPT ![j] = IF j \in Once THEN "none" ELSE "later"]
        /\ task' = [task EXCEPT ![t].pc = "ending"]
        /\ UNCHANGED running
        /\ UNCHANGED caller
     \/ /\ task[t].manual
        /\ SetState(j, IF j \in Once THEN r ELSE "scheduled")
        /\ task' = [task EXCEPT ![t] = NoTask]
        /\ Forget(j, t)
        /\ Done(t)
        /\ UNCHANGED next
  /\ UNCHANGED <<jobs, loop, stopEvent, calls, cancelled>>

Succeeds(t) ==
  /\ task[t].pc = "running" /\ ~task[t].cancel
  /\ Ends(t, "succeeded")

\* Mutant: one attempt too many.
FailsOnceMore(t) ==
  /\ task[t].pc = "running" /\ ~task[t].cancel
  /\ \/ /\ task[t].attempt <= MaxAttempts
        /\ task' = [task EXCEPT ![t].pc = "backoff"]
        /\ UNCHANGED <<table, loop, stopEvent, caller, calls, cancelled>>
     \/ /\ task[t].attempt > MaxAttempts
        /\ Ends(t, "failed")

\* The coroutine raises or times out: a backoff and another attempt, or the end.
Fails(t) ==
  /\ task[t].pc = "running" /\ ~task[t].cancel
  /\ \/ /\ task[t].attempt < MaxAttempts
        /\ task' = [task EXCEPT ![t].pc = "backoff"]
        /\ UNCHANGED <<table, loop, stopEvent, caller, calls, cancelled>>
     \/ /\ task[t].attempt = MaxAttempts
        /\ Ends(t, "failed")

Retries(t) ==
  /\ task[t].pc = "backoff" /\ ~task[t].cancel
  /\ task' = [task EXCEPT ![t].pc = "running", ![t].attempt = @ + 1]
  /\ UNCHANGED <<table, loop, stopEvent, caller, calls, cancelled>>

\* Mutant: _execute lets the CancelledError pass without recording it.
CancelUnrecorded(t) ==
  LET j == task[t].job IN
  /\ task[t].pc \in Alive /\ task[t].cancel
  /\ \/ /\ task[t].manual
        /\ task' = [task EXCEPT ![t] = NoTask]
        /\ Forget(j, t)
        /\ Done(t)
     \/ /\ ~task[t].manual
        /\ task' = [task EXCEPT ![t].pc = "ending"]
        /\ UNCHANGED <<running, caller>>
  /\ UNCHANGED <<jobs, state, next, loop, stopEvent, calls, cancelled>>

\* CancelledError reaches the task.  A task that had not begun never enters
\* _execute, which records the cancellation.
CancelArrives(t) ==
  LET j == task[t].job IN
  /\ task[t].pc \in Alive /\ task[t].cancel
  /\ IF task[t].pc = "new" THEN UNCHANGED state ELSE SetState(j, "cancelled")
  /\ \/ /\ task[t].manual
        /\ task' = [task EXCEPT ![t] = NoTask]
        /\ Forget(j, t)
        /\ Done(t)
     \/ /\ ~task[t].manual
        /\ task' = [task EXCEPT ![t].pc = "ending"]
        /\ UNCHANGED <<running, caller>>
  /\ UNCHANGED <<jobs, next, loop, stopEvent, calls, cancelled>>

\* The done callback, _discard_running, and right behind it those of the calls
\* of cancel that await the task: nothing else runs in between.
Discard(t) ==
  LET j == task[t].job
      cancelling == {c \in Callers : caller[c].pc = "cancelling" /\ t \in caller[c].waits} IN
  /\ task[t].pc = "ending"
  /\ task' = [task EXCEPT ![t] = NoTask]
  /\ \/ /\ cancelling # {} /\ j \in jobs
        /\ CancelEnds(j, t, \E c \in cancelling : caller[c].drop)
     \/ /\ cancelling = {} \/ j \notin jobs
        /\ Forget(j, t)
        /\ UNCHANGED <<jobs, state, next, cancelled>>
  /\ caller' = [c \in Callers |->
       IF c \in cancelling THEN NoCall ELSE [caller[c] EXCEPT !.waits = @ \ {t}]]
  /\ UNCHANGED <<loop, stopEvent, calls>>

\* Time passes for a job: its next run becomes due, then late.
Pass(j) ==
  /\ next[j] \in {"later", "due"}
  /\ next' = [next EXCEPT ![j] = IF @ = "later" THEN "due" ELSE "late"]
  /\ UNCHANGED <<jobs, state, running, task, loop, stopEvent, caller, calls, cancelled>>

Interface ==
  \/ Start
  \/ \E j \in Jobs : Register(j) \/ Pause(j) \/ Resume(j) \/ \E t \in Tasks : RunNow(j, t)
  \/ \E c \in Callers :
       Stop(c) \/ \E j \in Jobs, drop \in BOOLEAN : Cancel(c, j, drop)

Step(t) ==
  Begin(t) \/ Succeeds(t) \/ Fails(t) \/ Retries(t) \/ CancelArrives(t) \/ Discard(t)
Return(c) == CancelReturns(c) \/ StopLoopEnded(c) \/ StopReturns(c)

Next ==
  \/ Interface \/ LoopRound \/ LoopEnds
  \/ \E t \in Tasks : Step(t) \/ Admit(t)
  \/ \E c \in Callers : Return(c)
  \/ \E j \in Jobs : Pass(j)

Spec == Init /\ [][Next]_vars

----------------------------------------------------------------------------
(* Properties. *)

\* A job never has two executions under way, be they the loop's or a caller's
\* (test_same_job_cannot_run_concurrently).
OneExecution ==
  \A s, t \in Tasks :
    /\ task[s].pc \in Alive
    /\ task[t].pc \in Alive
    /\ task[s].job = task[t].job
    => s = t

\* A job whose cancel has returned stays cancelled and is not executed.
CancelledStays ==
  \A j \in cancelled :
    /\ state[j] = "cancelled"
    /\ \A t \in Tasks : task[t].job = j => task[t].pc \notin Alive

\* The table tells the truth about executions: a job is "running" while and
\* only while a task holds the semaphore for it, so none is left "running" by
\* an execution that was cancelled, and an interval job is never left in the
\* state of a result, where nothing would schedule it again.
RunningIsTrue ==
  \A j \in jobs :
    /\ (state[j] = "running") <=> (\E t \in Holders : task[t].job = j)
    /\ j \notin Once => state[j] \notin {"succeeded", "failed"}

\* When stop has returned nothing is executed until something is started.
StopIsClean ==
  [][\A c \in Callers :
       caller[c].pc \in {"stopping", "gathering"} /\ caller'[c].pc = "free"
         => ~loop' /\ \A t \in Tasks : task'[t].pc \notin Alive]_vars

\* asyncio runs what is ready, its semaphore admits in order, coroutines end
\* and backoffs pass.  Nothing is assumed of the callers.
Fairness ==
  /\ WF_vars(LoopRound) /\ WF_vars(LoopEnds)
  /\ \A t \in Tasks : WF_vars(Step(t)) /\ SF_vars(Admit(t))
  /\ \A c \in Callers : WF_vars(Return(c))

FairSpec == Spec /\ Fairness

\* A job that is due while the loop runs is started, skipped or taken out of
\* the schedule.
DueIsServed ==
  \A j \in Jobs :
    (j \in DueJobs /\ running[j] = "none" /\ loop) ~>
      (j \notin DueJobs \/ running[j] # "none" \/ ~loop)

\* stop and cancel return.
CallsReturn == \A c \in Callers : caller[c].pc # "free" ~> caller[c].pc = "free"
=============================================================================
