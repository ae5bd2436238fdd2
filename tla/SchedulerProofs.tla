--------------------------- MODULE SchedulerProofs --------------------------
(***************************************************************************)
(* Proofs about TaskScheduler, for any jobs, tasks, callers, semaphore and *)
(* number of attempts.  The types hold however calls overlap.  The rest    *)
(* needs calls that meet no stop, and no cancel of their job, under way:   *)
(* then a task that executes a job is the one the table names, whoever     *)
(* cancels it waits for it, and stop waits for every one of them.          *)
(***************************************************************************)
EXTENDS TaskScheduler, TLAPS

\* A task that waits for its next attempt has one left.
BackoffHasAttempts ==
  \A t \in Tasks : task[t].pc = "backoff" => task[t].attempt < MaxAttempts

TypeInv == TypeOK /\ BackoffHasAttempts

\* _running_tasks: a task that is not done is the one the table names for its
\* job, which is registered, and the table names no task of another job.
TableInv ==
  /\ \A t \in Tasks : task[t].pc \in Alive => task[t].job \in jobs /\ running[task[t].job] = t
  /\ \A j \in Jobs : running[j] # "none" =>
       task[running[j]].pc # "free" /\ task[running[j]].job = j

\* run_now executes in its caller: there is no step before the execution.
ManualInv == \A t \in Tasks : task[t].manual => task[t].pc # "new"

\* A job whose state is "running" is being executed, and only such a job.
StateInv ==
  \A j \in jobs :
    /\ state[j] = "running" <=> (\E t \in Holders : task[t].job = j)
    /\ j \notin Once => state[j] \notin {"succeeded", "failed"}

\* A call of cancel waits for the task of its job, which has been cancelled;
\* when it has nothing left to wait for the job is not executed and stays so.
CancelInv ==
  /\ \A c \in Callers : caller[c].pc = "cancelling" =>
       /\ caller[c].job \in jobs
       /\ \/ /\ caller[c].waits = {caller[c].task}
             /\ caller[c].task \in Tasks
             /\ running[caller[c].job] = caller[c].task
             /\ task[caller[c].task].cancel
          \/ /\ caller[c].waits = {}
             /\ running[caller[c].job] = "none"
             /\ state[caller[c].job] = "cancelled"
  /\ \A c, d \in Callers :
       /\ caller[c].pc = "cancelling"
       /\ caller[d].pc = "cancelling"
       /\ caller[c].job = caller[d].job
       => c = d

\* A stop that is under way is the only call; once the loop is gone it waits
\* for every task that is not done, and none of their jobs has been cancelled.
StopInv ==
  \A c \in Callers :
    /\ caller[c].pc \in {"stopping", "gathering"} =>
         \A d \in Callers \ {c} : caller[d].pc = "free"
    /\ caller[c].pc = "gathering" =>
         /\ ~loop
         /\ \A t \in Tasks : task[t].pc \in Alive => t \in caller[c].waits
         /\ caller[c].stopped \cap cancelled = {}

\* What cancel has returned for stays registered and cancelled.
CancelledInv == cancelled \subseteq jobs /\ CancelledStays

SchedulerInv ==
  TableInv /\ ManualInv /\ StateInv /\ CancelInv /\ StopInv /\ CancelledInv

-----------------------------------------------------------------------------
(* Types. *)

TaskState ==
  [pc : {"free", "ending"} \cup Alive, job : Jobs \cup {"none"},
   manual : BOOLEAN, attempt : 0..MaxAttempts, cancel : BOOLEAN]
CallerState ==
  [pc : CallerPoints, job : Jobs \cup {"none"}, task : Tasks \cup {"none"},
   drop : BOOLEAN, waits : SUBSET Tasks, stopped : SUBSET Jobs]

\* A task or a call that is not in use is well formed.
LEMMA Unoccupied == NoTask \in TaskState /\ NoCall \in CallerState
BY SchedulerAssumption DEF NoTask, NoCall, TaskState, CallerState, CallerPoints

\* What enters the semaphore, or waits for it, is well formed.
LEMMA EnterTypes ==
  ASSUME TypeInv, NEW t \in Tasks, NEW e \in TaskState, Enter(t, e)
  PROVE  /\ task' \in [Tasks -> TaskState]
         /\ state' \in [Jobs -> JobStates]
         /\ BackoffHasAttempts'
<1>1. /\ [e EXCEPT !.pc = "running", !.attempt = 1] \in TaskState
      /\ [e EXCEPT !.pc = "queued"] \in TaskState
      /\ [e EXCEPT !.pc = "running", !.attempt = 1].pc # "backoff"
      /\ [e EXCEPT !.pc = "queued"].pc # "backoff"
  <2>1. 1 \in 0..MaxAttempts
    BY SchedulerAssumption
  <2>2. {"running", "queued"} \subseteq {"free", "ending"} \cup Alive
    BY DEF Alive, Executing
  <2>. QED  BY <2>1, <2>2 DEF TaskState
<1> DEFINE entered == [e EXCEPT !.pc = "running", !.attempt = 1]
           inLine == [e EXCEPT !.pc = "queued"]
<1>2. \/ task' = [task EXCEPT ![t] = entered] /\ SetState(e.job, "running")
      \/ task' = [task EXCEPT ![t] = inLine] /\ UNCHANGED state
  BY DEF Enter
<1>3. state' \in [Jobs -> JobStates]
  BY <1>2 DEF TypeInv, TypeOK, SetState, JobStates
<1> HIDE DEF entered, inLine
<1>4. task \in [Tasks -> TaskState]
  BY DEF TypeInv, TypeOK, TaskState
<1>5. task' \in [Tasks -> TaskState] /\ \A s \in Tasks \ {t} : task'[s] = task[s]
  BY <1>1, <1>2, <1>4 DEF entered, inLine
<1>6. task'[t].pc # "backoff"
  BY <1>1, <1>2, <1>4 DEF entered, inLine
<1>. QED  BY <1>3, <1>5, <1>6 DEF BackoffHasAttempts, TypeInv

\* Forgetting a task, and cancelling some, keeps the tables well formed.
LEMMA UpdateTypes ==
  ASSUME TypeInv
  PROVE  /\ \A j, t : Forget(j, t) => running' \in [Jobs -> Tasks \cup {"none"}]
         /\ \A j, s : s \in JobStates /\ SetState(j, s) => state' \in [Jobs -> JobStates]
         /\ \A ts : CancelTasks(ts) =>
              task' \in [Tasks -> TaskState] /\ BackoffHasAttempts'
         /\ \A t : Done(t) => caller' \in [Callers -> CallerState]
<1>t. task \in [Tasks -> TaskState] /\ caller \in [Callers -> CallerState]
  BY DEF TypeInv, TypeOK, TaskState, CallerState
<1>1. ASSUME NEW j, NEW t, Forget(j, t)
      PROVE  running' \in [Jobs -> Tasks \cup {"none"}]
  BY <1>1 DEF Forget, TypeInv, TypeOK
<1>2. ASSUME NEW j, NEW s, s \in JobStates, SetState(j, s)
      PROVE  state' \in [Jobs -> JobStates]
  BY <1>2 DEF SetState, TypeInv, TypeOK
<1>3. ASSUME NEW ts, CancelTasks(ts)
      PROVE  task' \in [Tasks -> TaskState] /\ BackoffHasAttempts'
  <2>1. \A t \in Tasks : [task[t] EXCEPT !.cancel = TRUE] \in TaskState
    BY <1>t DEF TaskState
  <2>2. \A t \in Tasks : /\ [task[t] EXCEPT !.cancel = TRUE].pc = task[t].pc
                         /\ [task[t] EXCEPT !.cancel = TRUE].attempt = task[t].attempt
    BY <1>t DEF TaskState
  <2>. QED  BY <1>3, <1>t, <2>1, <2>2 DEF CancelTasks, TypeInv, BackoffHasAttempts
<1>4. ASSUME NEW t, Done(t)
      PROVE  caller' \in [Callers -> CallerState]
  <2>1. \A c \in Callers : [caller[c] EXCEPT !.waits = @ \ {t}] \in CallerState
    BY <1>t DEF CallerState
  <2>. QED  BY <1>4, <2>1 DEF Done
<1>. QED  BY <1>1, <1>2, <1>3, <1>4

\* The last section of cancel keeps the tables well formed.
LEMMA CancelEndsTypes ==
  ASSUME TypeInv, NEW j \in Jobs, NEW t \in Tasks \cup {"none"}, NEW drop \in BOOLEAN,
         CancelEnds(j, t, drop)
  PROVE  /\ jobs' \subseteq Jobs /\ cancelled' \subseteq Jobs
         /\ state' \in [Jobs -> JobStates]
         /\ next' \in [Jobs -> {"none", "later", "due", "late"}]
         /\ running' \in [Jobs -> Tasks \cup {"none"}]
<1>1. running' \in [Jobs -> Tasks \cup {"none"}]
  BY UpdateTypes DEF CancelEnds, TypeInv, TypeOK
<1>. QED  BY <1>1 DEF CancelEnds, TypeInv, TypeOK, JobStates

\* A stop that cancels what is not done keeps the types.
LEMMA StopTasksTypes ==
  ASSUME TypeInv, NEW c \in Callers, StopTasks(c)
  PROVE  /\ UNCHANGED <<jobs, state, next, loop, cancelled>>
         /\ task' \in [Tasks -> TaskState] /\ BackoffHasAttempts'
         /\ caller' \in [Callers -> CallerState]
         /\ running' \in [Jobs -> Tasks \cup {"none"}]
<1> DEFINE live == {j \in Jobs : Active(j)}
           ts == {running[j] : j \in live}
<1>t. caller \in [Callers -> CallerState]
  BY DEF TypeInv, TypeOK, CallerState
<1>1. ts \subseteq Tasks /\ live \subseteq Jobs
  BY DEF Active
<1>2. /\ CancelTasks(ts)
      /\ \/ /\ caller' = [caller EXCEPT ![c] =
                 [NoCall EXCEPT !.pc = "gathering", !.waits = ts, !.stopped = live]]
            /\ UNCHANGED running
         \/ /\ caller' = [caller EXCEPT ![c] = NoCall]
            /\ running' = [j \in Jobs |-> "none"]
      /\ UNCHANGED <<jobs, state, next, loop, cancelled>>
  BY DEF StopTasks
<1> HIDE DEF live, ts
<1>3. [NoCall EXCEPT !.pc = "gathering", !.waits = ts, !.stopped = live] \in CallerState
  BY <1>1 DEF NoCall, CallerState, CallerPoints
<1>. QED  BY <1>2, <1>3, <1>t, Unoccupied, UpdateTypes DEF TypeInv, TypeOK

\* Every call keeps the types.
LEMMA InterfaceTypes == TypeInv /\ Interface => TypeInv'
<1> SUFFICES ASSUME TypeInv, Interface PROVE TypeInv'
  OBVIOUS
<1>t. task \in [Tasks -> TaskState] /\ caller \in [Callers -> CallerState]
  BY DEF TypeInv, TypeOK, TaskState, CallerState
<1>k. Call => calls' \in 0..MaxCalls
  BY SchedulerAssumption DEF Call, TypeInv, TypeOK
<1>1. CASE Start
  BY <1>1, <1>k DEF Start, table, TypeInv, TypeOK, BackoffHasAttempts
<1>2. ASSUME NEW j \in Jobs, Register(j) \/ Pause(j) \/ Resume(j) PROVE TypeInv'
  <2>1. state' \in [Jobs -> JobStates]
    BY <1>2, UpdateTypes DEF Register, Pause, Resume, JobStates
  <2>2. next' \in [Jobs -> {"none", "later", "due", "late"}]
    BY <1>2 DEF Register, Pause, Resume, TypeInv, TypeOK
  <2>3. jobs' \subseteq Jobs /\ cancelled' \subseteq Jobs
    BY <1>2 DEF Register, Pause, Resume, TypeInv, TypeOK
  <2>4. Call /\ UNCHANGED <<running, task, loop, stopEvent, caller>>
    BY <1>2 DEF Register, Pause, Resume
  <2>. QED  BY <2>1, <2>2, <2>3, <2>4, <1>k DEF TypeInv, TypeOK, BackoffHasAttempts
<1>3. ASSUME NEW j \in Jobs, NEW t \in Tasks, RunNow(j, t) PROVE TypeInv'
  <2>1. [NoTask EXCEPT !.job = j, !.manual = TRUE] \in TaskState
    BY Unoccupied DEF NoTask, TaskState
  <2>2. /\ Enter(t, [NoTask EXCEPT !.job = j, !.manual = TRUE])
        /\ running' = [running EXCEPT ![j] = t]
        /\ Call /\ UNCHANGED <<jobs, next, loop, stopEvent, caller, cancelled>>
    BY <1>3 DEF RunNow
  <2>3. /\ task' \in [Tasks -> TaskState] /\ state' \in [Jobs -> JobStates]
        /\ BackoffHasAttempts'
    BY <2>1, <2>2, EnterTypes
  <2>. QED  BY <2>2, <2>3, <1>k DEF TypeInv, TypeOK, TaskState
<1>4. ASSUME NEW c \in Callers, NEW j \in Jobs, NEW drop \in BOOLEAN, Cancel(c, j, drop)
      PROVE  TypeInv'
  <2>1. Call /\ UNCHANGED <<loop, stopEvent>>
    BY <1>4 DEF Cancel
  <2>2. CASE Active(j)
    <3>1. running[j] \in Tasks
      BY <2>2 DEF Active
    <3>2. [NoCall EXCEPT !.pc = "cancelling", !.job = j, !.task = running[j],
             !.drop = drop, !.waits = {running[j]}] \in CallerState
      BY <3>1 DEF NoCall, CallerState, CallerPoints
    <3>3. /\ CancelTasks({running[j]})
          /\ caller' = [caller EXCEPT ![c] =
               [NoCall EXCEPT !.pc = "cancelling", !.job = j, !.task = running[j],
                  !.drop = drop, !.waits = {running[j]}]]
          /\ UNCHANGED <<table, cancelled>>
      BY <1>4, <2>2 DEF Cancel
    <3>4. caller' \in [Callers -> CallerState]
      BY <3>2, <3>3, <1>t
    <3>. QED
      BY <2>1, <3>3, <3>4, <1>k, UpdateTypes DEF table, TypeInv, TypeOK, TaskState, CallerState
  <2>3. CASE ~Active(j)
    <3>1. CancelEnds(j, running[j], drop) /\ UNCHANGED <<task, caller>>
      BY <1>4, <2>3 DEF Cancel
    <3>2. running[j] \in Tasks \cup {"none"}
      BY DEF TypeInv, TypeOK
    <3>3. /\ jobs' \subseteq Jobs /\ cancelled' \subseteq Jobs
          /\ state' \in [Jobs -> JobStates]
          /\ next' \in [Jobs -> {"none", "later", "due", "late"}]
          /\ running' \in [Jobs -> Tasks \cup {"none"}]
      BY <3>1, <3>2, CancelEndsTypes
    <3>. QED  BY <2>1, <3>1, <3>3, <1>k DEF TypeInv, TypeOK, BackoffHasAttempts
  <2>. QED  BY <2>2, <2>3
<1>5. ASSUME NEW c \in Callers, Stop(c) PROVE TypeInv'
  <2>1. Call /\ stopEvent' = TRUE
    BY <1>5 DEF Stop
  <2>2. CASE loop
    <3>1. /\ caller' = [caller EXCEPT ![c].pc = "stopping"]
          /\ UNCHANGED <<table, task, loop, cancelled>>
      BY <1>5, <2>2 DEF Stop
    <3>2. [caller[c] EXCEPT !.pc = "stopping"] \in CallerState
      BY <1>t DEF CallerState, CallerPoints
    <3>3. caller' \in [Callers -> CallerState]
      BY <3>1, <3>2, <1>t
    <3>. QED
      BY <2>1, <3>1, <3>3, <1>k DEF table, TypeInv, TypeOK, CallerState, BackoffHasAttempts
  <2>3. CASE ~loop
    <3>1. StopTasks(c)
      BY <1>5, <2>3 DEF Stop
    <3>. QED
      BY <2>1, <3>1, <1>k, StopTasksTypes DEF TypeInv, TypeOK, TaskState, CallerState
  <2>. QED  BY <2>2, <2>3
<1>. QED  BY <1>1, <1>2, <1>3, <1>4, <1>5 DEF Interface

\* A round of the loop gives new tasks to the jobs it begins.
LEMMA LoopRoundTypes == TypeInv /\ LoopRound => TypeInv'
<1> SUFFICES ASSUME TypeInv, LoopRound PROVE TypeInv'
  OBVIOUS
<1>t. task \in [Tasks -> TaskState]
  BY DEF TypeInv, TypeOK, TaskState
<1>b. ToBegin \subseteq Jobs
  BY DEF ToBegin, DueJobs, TypeInv, TypeOK
<1>1. PICK new \in [ToBegin -> {t \in Tasks : Unused(t)}] :
        /\ running' = [j \in Jobs |-> IF j \in ToBegin THEN new[j] ELSE running[j]]
        /\ task' = [t \in Tasks |->
             IF \E j \in ToBegin : new[j] = t
             THEN [NoTask EXCEPT !.pc = "new", !.job = CHOOSE j \in ToBegin : new[j] = t]
             ELSE task[t]]
  BY DEF LoopRound
<1>2. running' \in [Jobs -> Tasks \cup {"none"}]
  BY <1>1 DEF TypeInv, TypeOK
<1>3. \A t \in Tasks : task'[t] \in TaskState /\ (task'[t].pc = "backoff" => task'[t] = task[t])
  <2> SUFFICES ASSUME NEW t \in Tasks
      PROVE task'[t] \in TaskState /\ (task'[t].pc = "backoff" => task'[t] = task[t])
    OBVIOUS
  <2>1. CASE \E j \in ToBegin : new[j] = t
    <3>1. PICK j \in Jobs : task'[t] = [NoTask EXCEPT !.pc = "new", !.job = j]
      BY <1>1, <1>b, <2>1
    <3>. QED  BY <3>1, Unoccupied DEF NoTask, TaskState, Alive
  <2>2. CASE ~\E j \in ToBegin : new[j] = t
    BY <1>1, <1>t, <2>2
  <2>. QED  BY <2>1, <2>2
<1>4. task' \in [Tasks -> TaskState] /\ BackoffHasAttempts'
  BY <1>1, <1>3 DEF TypeInv, BackoffHasAttempts
<1>5. state' \in [Jobs -> JobStates] /\ next' \in [Jobs -> {"none", "later", "due", "late"}]
  BY DEF LoopRound, AfterMisfire, JobStates, TypeInv, TypeOK
<1>. QED  BY <1>2, <1>4, <1>5 DEF LoopRound, TypeInv, TypeOK, TaskState

\* A task that ends, one way or another, is well formed.
LEMMA TaskEnds ==
  ASSUME TypeInv, NEW t \in Tasks
  PROVE  /\ task' = [task EXCEPT ![t].pc = "ending"] =>
              task' \in [Tasks -> TaskState] /\ BackoffHasAttempts'
         /\ task' = [task EXCEPT ![t] = NoTask] =>
              task' \in [Tasks -> TaskState] /\ BackoffHasAttempts'
<1>t. task \in [Tasks -> TaskState]
  BY DEF TypeInv, TypeOK, TaskState
<1>1. [task[t] EXCEPT !.pc = "ending"] \in TaskState
  BY <1>t DEF TaskState
<1>2. [task[t] EXCEPT !.pc = "ending"].pc # "backoff" /\ NoTask.pc # "backoff"
  BY <1>t DEF TaskState, NoTask
<1>. QED  BY <1>t, <1>1, <1>2, Unoccupied DEF TypeInv, BackoffHasAttempts

\* An execution that ends with a result keeps the types.
LEMMA EndsTypes ==
  ASSUME TypeInv, NEW t \in Tasks, NEW r \in {"succeeded", "failed"}, Ends(t, r)
  PROVE  TypeInv'
<1>1. /\ task' \in [Tasks -> TaskState] /\ BackoffHasAttempts'
      /\ running' \in [Jobs -> Tasks \cup {"none"}]
      /\ caller' \in [Callers -> CallerState]
  <2>1. CASE ~task[t].manual
    BY <2>1, TaskEnds DEF Ends, TypeInv, TypeOK, CallerState
  <2>2. CASE task[t].manual
    BY <2>2, TaskEnds, UpdateTypes DEF Ends
  <2>. QED  BY <2>1, <2>2
<1>2. state' \in [Jobs -> JobStates]
  BY UpdateTypes DEF Ends, JobStates
<1>3. next' \in [Jobs -> {"none", "later", "due", "late"}]
  BY DEF Ends, TypeInv, TypeOK
<1>. QED  BY <1>1, <1>2, <1>3 DEF Ends, TypeInv, TypeOK, TaskState, CallerState

\* Every step of a task keeps the types.
LEMMA StepTypes ==
  ASSUME TypeInv, NEW t \in Tasks, Step(t) \/ Admit(t)
  PROVE  TypeInv'
<1>t. task \in [Tasks -> TaskState] /\ caller \in [Callers -> CallerState]
  BY DEF TypeInv, TypeOK, TaskState, CallerState
<1>1. CASE Begin(t) \/ Admit(t)
  <2>1. /\ Enter(t, task[t])
        /\ UNCHANGED <<jobs, next, running, loop, stopEvent, caller, calls, cancelled>>
    BY <1>1 DEF Begin, Admit
  <2>2. task[t] \in TaskState
    BY <1>t
  <2>3. /\ task' \in [Tasks -> TaskState] /\ state' \in [Jobs -> JobStates]
        /\ BackoffHasAttempts'
    BY <2>1, <2>2, EnterTypes
  <2>. QED  BY <2>1, <2>3 DEF TypeInv, TypeOK, TaskState
<1>2. CASE Succeeds(t)
  BY <1>2, EndsTypes DEF Succeeds
<1>3. CASE Fails(t)
  <2>1. CASE task[t].attempt < MaxAttempts
    <3>1. /\ task' = [task EXCEPT ![t].pc = "backoff"]
          /\ UNCHANGED <<table, loop, stopEvent, caller, calls, cancelled>>
      <4>1. task[t].attempt # MaxAttempts
        BY <2>1, SchedulerAssumption
      <4>. QED  BY <1>3, <2>1, <4>1 DEF Fails
    <3>2. [task[t] EXCEPT !.pc = "backoff"] \in TaskState
      BY <1>t DEF TaskState, Alive, Executing
    <3>3. task' \in [Tasks -> TaskState] /\ BackoffHasAttempts'
      <4>1. [task[t] EXCEPT !.pc = "backoff"].attempt = task[t].attempt
        BY <1>t DEF TaskState
      <4>. QED  BY <1>t, <2>1, <3>1, <3>2, <4>1 DEF TypeInv, BackoffHasAttempts
    <3>. QED  BY <3>1, <3>3 DEF table, TypeInv, TypeOK, TaskState
  <2>2. CASE ~(task[t].attempt < MaxAttempts)
    BY <1>3, <2>2, EndsTypes DEF Fails
  <2>. QED  BY <2>1, <2>2
<1>4. CASE Retries(t)
  <2>1. task[t].attempt + 1 \in 0..MaxAttempts /\ task[t].attempt + 1 \in Int
    <3>1. task[t].attempt \in 0..MaxAttempts /\ task[t].attempt < MaxAttempts
      BY <1>4, <1>t DEF Retries, TypeInv, BackoffHasAttempts, TaskState
    <3>. QED  BY <3>1, SchedulerAssumption
  <2> DEFINE again == [task[t] EXCEPT !.pc = "running", !.attempt = task[t].attempt + 1]
  <2>2. again \in TaskState /\ again.pc # "backoff"
    <3>1. "running" \in {"free", "ending"} \cup Alive
      BY DEF Alive, Executing
    <3>. QED  BY <1>t, <2>1, <3>1 DEF TaskState
  <2>3. task' = [task EXCEPT ![t] = again]
    BY <1>4, <1>t DEF Retries, TaskState
  <2> HIDE DEF again
  <2>4. task' \in [Tasks -> TaskState] /\ BackoffHasAttempts'
    BY <1>t, <2>2, <2>3 DEF TypeInv, BackoffHasAttempts
  <2>. QED  BY <1>4, <2>4 DEF Retries, table, TypeInv, TypeOK, TaskState
<1>5. CASE CancelArrives(t)
  <2>1. /\ task' \in [Tasks -> TaskState] /\ BackoffHasAttempts'
        /\ running' \in [Jobs -> Tasks \cup {"none"}]
        /\ caller' \in [Callers -> CallerState]
    <3>1. CASE ~task[t].manual
      BY <1>5, <3>1, TaskEnds DEF CancelArrives, TypeInv, TypeOK, CallerState
    <3>2. CASE task[t].manual
      BY <1>5, <3>2, TaskEnds, UpdateTypes DEF CancelArrives
    <3>. QED  BY <3>1, <3>2
  <2>2. state' \in [Jobs -> JobStates]
    BY <1>5, UpdateTypes DEF CancelArrives, JobStates, TypeInv, TypeOK
  <2>. QED  BY <1>5, <2>1, <2>2 DEF CancelArrives, TypeInv, TypeOK, TaskState, CallerState
<1>6. CASE Discard(t)
  <2> DEFINE cancelling == {c \in Callers : caller[c].pc = "cancelling" /\ t \in caller[c].waits}
  <2>1. task' \in [Tasks -> TaskState] /\ BackoffHasAttempts'
    BY <1>6, TaskEnds DEF Discard
  <2>2. /\ jobs' \subseteq Jobs /\ cancelled' \subseteq Jobs
        /\ state' \in [Jobs -> JobStates]
        /\ next' \in [Jobs -> {"none", "later", "due", "late"}]
        /\ running' \in [Jobs -> Tasks \cup {"none"}]
    <3>1. CASE cancelling # {} /\ task[t].job \in jobs
      <4>1. CancelEnds(task[t].job, t, \E c \in cancelling : caller[c].drop)
        BY <1>6, <3>1 DEF Discard
      <4>2. task[t].job \in Jobs
        BY <3>1 DEF TypeInv, TypeOK
      <4>3. (\E c \in cancelling : caller[c].drop) \in BOOLEAN
        OBVIOUS
      <4>. QED  BY <4>1, <4>2, <4>3, CancelEndsTypes
    <3>2. CASE ~(cancelling # {} /\ task[t].job \in jobs)
      BY <1>6, <3>2, UpdateTypes DEF Discard, TypeInv, TypeOK
    <3>. QED  BY <3>1, <3>2
  <2>3. caller' \in [Callers -> CallerState]
    <3>1. \A c \in Callers : [caller[c] EXCEPT !.waits = @ \ {t}] \in CallerState
      BY <1>t DEF CallerState
    <3>. QED  BY <1>6, <3>1, Unoccupied DEF Discard
  <2>. QED  BY <1>6, <2>1, <2>2, <2>3 DEF Discard, TypeInv, TypeOK, TaskState, CallerState
<1>. QED  BY <1>1, <1>2, <1>3, <1>4, <1>5, <1>6 DEF Step

\* What ends a call keeps the types.
LEMMA ReturnTypes ==
  ASSUME TypeInv, NEW c \in Callers, Return(c)
  PROVE  TypeInv'
<1>t. caller \in [Callers -> CallerState]
  BY DEF TypeInv, TypeOK, CallerState
<1>1. CASE CancelReturns(c)
  <2>1. caller' \in [Callers -> CallerState]
    BY <1>1, <1>t, Unoccupied DEF CancelReturns
  <2>2. /\ jobs' \subseteq Jobs /\ cancelled' \subseteq Jobs
        /\ state' \in [Jobs -> JobStates]
        /\ next' \in [Jobs -> {"none", "later", "due", "late"}]
        /\ running' \in [Jobs -> Tasks \cup {"none"}]
    <3>1. CASE caller[c].job \in jobs
      <4>1. /\ CancelEnds(caller[c].job, caller[c].task, caller[c].drop)
            /\ caller[c].job \in Jobs /\ caller[c].task \in Tasks \cup {"none"}
            /\ caller[c].drop \in BOOLEAN
        BY <1>1, <1>t, <3>1 DEF CancelReturns, CallerState, TypeInv, TypeOK
      <4>. QED  BY <4>1, CancelEndsTypes
    <3>2. CASE caller[c].job \notin jobs
      BY <1>1, <3>2, UpdateTypes DEF CancelReturns, TypeInv, TypeOK
    <3>. QED  BY <3>1, <3>2
  <2>. QED
    BY <1>1, <2>1, <2>2 DEF CancelReturns, TypeInv, TypeOK, CallerState, BackoffHasAttempts
<1>2. CASE StopLoopEnded(c)
  BY <1>2, StopTasksTypes DEF StopLoopEnded, TypeInv, TypeOK, TaskState, CallerState
<1>3. CASE StopReturns(c)
  <2>1. caller' \in [Callers -> CallerState]
    BY <1>3, <1>t, Unoccupied DEF StopReturns
  <2>2. /\ state' \in [Jobs -> JobStates]
        /\ next' \in [Jobs -> {"none", "later", "due", "late"}]
        /\ running' \in [Jobs -> Tasks \cup {"none"}]
    BY <1>3 DEF StopReturns, TypeInv, TypeOK, JobStates
  <2>. QED
    BY <1>3, <2>1, <2>2 DEF StopReturns, TypeInv, TypeOK, CallerState, BackoffHasAttempts
<1>. QED  BY <1>1, <1>2, <1>3 DEF Return

\* Every step keeps the types.
LEMMA TypeStep == TypeInv /\ [Next]_vars => TypeInv'
<1> SUFFICES ASSUME TypeInv, [Next]_vars PROVE TypeInv'
  OBVIOUS
<1>1. CASE LoopEnds
  BY <1>1 DEF LoopEnds, table, TypeInv, TypeOK, BackoffHasAttempts
<1>2. CASE \E j \in Jobs : Pass(j)
  BY <1>2 DEF Pass, TypeInv, TypeOK, BackoffHasAttempts
<1>3. CASE UNCHANGED vars
  BY <1>3 DEF vars, table, TypeInv, TypeOK, BackoffHasAttempts
<1>. QED
  BY <1>1, <1>2, <1>3, InterfaceTypes, LoopRoundTypes, StepTypes, ReturnTypes DEF Next

\* Nothing is registered, executed or under way at first.
LEMMA TypeInit == Init => TypeInv
<1> SUFFICES ASSUME Init PROVE TypeInv
  OBVIOUS
<1>1. task \in [Tasks -> TaskState] /\ caller \in [Callers -> CallerState]
  BY Unoccupied DEF Init
<1>2. BackoffHasAttempts
  BY DEF Init, BackoffHasAttempts, NoTask
<1>3. 0 \in 0..MaxCalls
  BY SchedulerAssumption
<1>4. /\ jobs \subseteq Jobs /\ cancelled \subseteq Jobs
      /\ state \in [Jobs -> JobStates]
      /\ next \in [Jobs -> {"none", "later", "due", "late"}]
      /\ running \in [Jobs -> Tasks \cup {"none"}]
      /\ loop \in BOOLEAN /\ stopEvent \in BOOLEAN
  BY DEF Init, JobStates
<1>. QED  BY <1>1, <1>2, <1>3, <1>4 DEF Init, TypeInv, TypeOK, TaskState, CallerState

\* The types are an invariant.
LEMMA TypeInvariant == Spec => []TypeInv
BY TypeInit, TypeStep, PTL DEF Spec

\* The tables, the tasks and the calls under way stay well formed, however the
\* calls of the interface overlap (TaskScheduler).
THEOREM SchedulerTypes == Spec => []TypeOK
<1>1. TypeInv => TypeOK
  BY DEF TypeInv
<1>. QED  BY <1>1, TypeInvariant, PTL

-----------------------------------------------------------------------------
(* One execution of a job, and calls that end what they promise to end. *)

\* A job that the table gives no task, or one that is done, is not executed.
LEMMA Quiet ==
  ASSUME TypeInv, TableInv, NEW j \in Jobs, running[j] = "none" \/ ~Active(j)
  PROVE  \A t \in Tasks : task[t].pc \in Alive => task[t].job # j
BY SchedulerAssumption DEF TableInv, Active

\* The state of a job that is not executed is not "running".
LEMMA QuietState ==
  ASSUME TypeInv, StateInv, NEW j \in jobs,
         \A t \in Tasks : task[t].pc \in Alive => task[t].job # j
  PROVE  state[j] # "running"
BY DEF StateInv, Holders, Alive, Executing

\* Without overlapping calls no stop is under way when one is made.
LEMMA CallAlone ==
  ASSUME ~Overlapping, Call
  PROVE  \A c \in Callers : caller[c].pc \notin {"stopping", "gathering"}
BY DEF Call, StopUnderWay

\* start changes only the loop.
LEMMA StartStep ==
  ASSUME ~Overlapping, TypeInv, SchedulerInv, Start
  PROVE  SchedulerInv'
<1>1. \A c \in Callers : caller[c].pc \notin {"stopping", "gathering"}
  BY CallAlone DEF Start
<1>2. UNCHANGED <<jobs, state, running, task, caller, cancelled>>
  BY DEF Start, table
<1>3. StopInv'
  BY <1>1, <1>2 DEF StopInv
<1>. QED
  BY <1>2, <1>3
     DEF SchedulerInv, TableInv, ManualInv, StateInv, Holders, CancelInv, CancelledInv,
       CancelledStays

\* register, pause and resume change the state of a job that is not executed,
\* nor cancelled.
LEMMA PlanStep ==
  ASSUME ~Overlapping, TypeInv, SchedulerInv,
         NEW j \in Jobs, Register(j) \/ Pause(j) \/ Resume(j)
  PROVE  SchedulerInv'
<1>i. TableInv /\ ManualInv /\ StateInv /\ CancelInv /\ StopInv /\ CancelledInv
  BY DEF SchedulerInv
<1>1. \A c \in Callers : caller[c].pc \notin {"stopping", "gathering"}
  BY CallAlone DEF Register, Pause, Resume
<1>2. /\ UNCHANGED <<running, task, loop, caller>>
      /\ jobs' = jobs \cup {j}
      /\ cancelled' = cancelled \ {j}
      /\ j \notin jobs \/ state[j] \in {"scheduled", "paused"}
      /\ state' \in [Jobs -> JobStates]
      /\ state'[j] \in {"scheduled", "paused"}
      /\ \A k \in Jobs \ {j} : state'[k] = state[k]
  BY <1>i DEF Register, Pause, Resume, SetState, TypeInv, TypeOK, JobStates, CancelledInv,
    CancelledStays
<1>3. \A t \in Tasks : task[t].pc \in Executing => task[t].job # j
  BY <1>i, <1>2 DEF TableInv, StateInv, Holders, Alive
<1>4. TableInv' /\ ManualInv'
  BY <1>i, <1>2 DEF TableInv, ManualInv
<1>5. StateInv'
  BY <1>i, <1>2, <1>3 DEF StateInv, Holders, TypeInv, TypeOK
<1>6. CancelInv' /\ StopInv'
  BY <1>i, <1>1, <1>2 DEF CancelInv, StopInv, TypeInv, TypeOK
<1>7. CancelledInv'
  BY <1>i, <1>2 DEF CancelledInv, CancelledStays, TypeInv, TypeOK
<1>. QED  BY <1>4, <1>5, <1>6, <1>7 DEF SchedulerInv

\* A task enters the semaphore, or waits for it, with the job it had; only the
\* job's state changes besides.
LEMMA Entered ==
  ASSUME TypeInv, NEW t \in Tasks, NEW e \in TaskState, e.job \in Jobs, Enter(t, e)
  PROVE  /\ \A s \in Tasks \ {t} : task'[s] = task[s]
         /\ task'[t].job = e.job /\ task'[t].cancel = e.cancel
         /\ task'[t].manual = e.manual
         /\ \A k \in Jobs \ {e.job} : state'[k] = state[k]
         /\ \/ task'[t].pc = "running" /\ state'[e.job] = "running"
            \/ task'[t].pc = "queued" /\ state'[e.job] = state[e.job]
<1> DEFINE entered == [e EXCEPT !.pc = "running", !.attempt = 1]
           inLine == [e EXCEPT !.pc = "queued"]
<1>1. \/ task' = [task EXCEPT ![t] = entered] /\ SetState(e.job, "running")
      \/ task' = [task EXCEPT ![t] = inLine] /\ UNCHANGED state
  BY DEF Enter
<1>2. /\ entered.pc = "running" /\ entered.job = e.job
      /\ entered.cancel = e.cancel /\ entered.manual = e.manual
      /\ inLine.pc = "queued" /\ inLine.job = e.job
      /\ inLine.cancel = e.cancel /\ inLine.manual = e.manual
  BY DEF TaskState
<1> HIDE DEF entered, inLine
<1>. QED  BY <1>1, <1>2 DEF SetState, TypeInv, TypeOK

\* run_now executes a job that is not executed, nor cancelled, in a new task.
LEMMA RunNowStep ==
  ASSUME ~Overlapping, TypeInv, SchedulerInv, NEW j \in Jobs, NEW t \in Tasks, RunNow(j, t)
  PROVE  SchedulerInv'
<1>i. TableInv /\ ManualInv /\ StateInv /\ CancelInv /\ StopInv /\ CancelledInv
  BY DEF SchedulerInv
<1> DEFINE e == [NoTask EXCEPT !.job = j, !.manual = TRUE]
<1>1. \A c \in Callers : caller[c].pc \notin {"stopping", "gathering"}
  BY CallAlone DEF RunNow
<1>2. /\ j \in jobs /\ running[j] = "none" /\ state[j] # "cancelled"
      /\ Unused(t) /\ Enter(t, e)
      /\ running' = [running EXCEPT ![j] = t]
      /\ UNCHANGED <<jobs, loop, caller, cancelled>>
  BY DEF RunNow
<1>3. e \in TaskState /\ e.job = j /\ e.manual
  BY Unoccupied DEF NoTask, TaskState
<1> HIDE DEF e
<1>4. /\ \A s \in Tasks \ {t} : task'[s] = task[s]
      /\ task'[t].job = j
      /\ \A k \in Jobs \ {j} : state'[k] = state[k]
      /\ \/ task'[t].pc = "running" /\ state'[j] = "running"
         \/ task'[t].pc = "queued" /\ state'[j] = state[j]
  BY <1>2, <1>3, Entered
<1>5. /\ running'[j] = t /\ \A k \in Jobs \ {j} : running'[k] = running[k]
      /\ t # "none"
  BY <1>2, SchedulerAssumption DEF TypeInv, TypeOK
<1>6. /\ \A s \in Tasks : task[s].pc \in Alive => task[s].job # j
      /\ state[j] # "running"
  BY <1>i, <1>2, Quiet, QuietState
<1>7. \A k \in Jobs : running[k] # t
  BY <1>i, <1>2, <1>5 DEF TableInv, Unused
<1>8. TableInv'
  BY <1>i, <1>2, <1>4, <1>5, <1>6, <1>7
     DEF TableInv, Unused, Alive, Executing, TypeInv, TypeOK
<1>9. ManualInv' /\ StopInv'
  BY <1>i, <1>1, <1>2, <1>4 DEF ManualInv, StopInv
<1>10. StateInv'
  <2>1. \A k \in jobs : k # j => state'[k] = state[k]
    BY <1>4 DEF TypeInv, TypeOK
  <2>2. \A s \in Tasks \ {t} : s \in Holders' <=> s \in Holders
    BY <1>4 DEF Holders
  <2>3. t \notin Holders /\ (t \in Holders' <=> task'[t].pc = "running")
    BY <1>2, <1>4 DEF Holders, Unused, Executing
  <2>4. \A s \in Holders : task[s].job # j
    BY <1>6 DEF Holders, Alive
  <2>5. \A k \in jobs : k # j =>
          /\ state'[k] = "running" <=> \E s \in Holders' : task'[s].job = k
          /\ k \notin Once => state'[k] \notin {"succeeded", "failed"}
    <3>1. \A s \in Holders \cup Holders' : s \in Tasks
      BY DEF Holders
    <3>2. \A k \in jobs : k # j =>
            ((\E s \in Holders' : task'[s].job = k) <=> \E s \in Holders : task[s].job = k)
      BY <1>4, <2>2, <2>3, <3>1
    <3>. QED  BY <1>i, <2>1, <3>2 DEF StateInv
  <2>6. /\ state'[j] = "running" <=> \E s \in Holders' : task'[s].job = j
        /\ j \notin Once => state'[j] \notin {"succeeded", "failed"}
    BY <1>i, <1>2, <1>4, <1>6, <2>2, <2>3, <2>4 DEF StateInv, Holders
  <2>. QED  BY <1>2, <2>5, <2>6 DEF StateInv
<1>11. CancelInv'
  BY <1>i, <1>2, <1>4, <1>5, SchedulerAssumption
     DEF CancelInv, Unused, TypeInv, TypeOK
<1>12. CancelledInv'
  BY <1>i, <1>2, <1>4 DEF CancelledInv, CancelledStays, TypeInv, TypeOK, Unused, Alive, Executing
<1>. QED  BY <1>8, <1>9, <1>10, <1>11, <1>12 DEF SchedulerInv

\* cancel, in its last section, takes out a job that is not executed: its
\* state says so, or it is gone.
LEMMA Cancelled ==
  ASSUME TypeInv, SchedulerInv,
         NEW j \in jobs, NEW t \in Tasks \cup {"none"}, NEW drop \in BOOLEAN,
         CancelEnds(j, t, drop),
         running[j] \in {t, "none"},
         \A s \in Tasks : task[s].pc \in Alive => task[s].job # j
  PROVE  /\ jobs' \in {jobs, jobs \ {j}} /\ cancelled' \in {cancelled \cup {j}, cancelled \ {j}}
         /\ (drop <=> j \notin jobs') /\ (drop <=> j \notin cancelled')
         /\ \A k \in Jobs \ {j} : state'[k] = state[k] /\ running'[k] = running[k]
         /\ running'[j] = "none"
         /\ j \in jobs' => state'[j] = "cancelled"
<1>1. j \in Jobs /\ running \in [Jobs -> Tasks \cup {"none"}] /\ state \in [Jobs -> JobStates]
  BY DEF TypeInv, TypeOK
<1>j. /\ jobs' = IF drop THEN jobs \ {j} ELSE jobs
      /\ cancelled' = IF drop THEN cancelled \ {j} ELSE cancelled \cup {j}
      /\ state' = [state EXCEPT ![j] = IF drop THEN "none" ELSE "cancelled"]
  BY DEF CancelEnds
<1>2. running'[j] = "none" /\ \A k \in Jobs \ {j} : running'[k] = running[k]
  <2>0. \A k \in Jobs \ {j} : running[k] # "none" => running[k] # running[j]
    BY <1>1 DEF SchedulerInv, TableInv
  <2>1. CASE t = "none"
    BY <1>1, <2>1 DEF CancelEnds
  <2>2. CASE t # "none"
    BY <1>1, <2>2 DEF CancelEnds, Forget
  <2>. QED  BY <2>1, <2>2
<1>3. \A k \in Jobs \ {j} : state'[k] = state[k]
  BY <1>1, <1>j
<1>4. state'[j] = IF drop THEN "none" ELSE "cancelled"
  BY <1>1, <1>j
<1>. QED  BY <1>2, <1>3, <1>4, <1>j

\* What these facts preserve, when the tasks stay and nobody else cancels the job.
LEMMA CancelledStep ==
  ASSUME TypeInv, SchedulerInv,
         NEW j \in jobs, NEW t \in Tasks \cup {"none"}, NEW drop \in BOOLEAN,
         CancelEnds(j, t, drop),
         running[j] \in {t, "none"},
         \A s \in Tasks : task[s].pc \in Alive => task[s].job # j,
         UNCHANGED <<task, loop>>,
         \A d \in Callers : caller'[d] \in {caller[d], NoCall},
         \A d \in Callers : caller'[d].pc = "cancelling" => caller[d].job # j,
         \A d \in Callers : caller[d].pc \notin {"stopping", "gathering"}
  PROVE  SchedulerInv'
<1>i. TableInv /\ ManualInv /\ StateInv /\ CancelInv /\ StopInv /\ CancelledInv
  BY DEF SchedulerInv
<1>0. j \in Jobs /\ jobs \subseteq Jobs /\ cancelled \subseteq Jobs
  BY DEF TypeInv, TypeOK
<1>1. /\ jobs' \in {jobs, jobs \ {j}} /\ cancelled' \in {cancelled \cup {j}, cancelled \ {j}}
      /\ (drop <=> j \notin jobs') /\ (drop <=> j \notin cancelled')
      /\ \A k \in Jobs \ {j} : state'[k] = state[k] /\ running'[k] = running[k]
      /\ running'[j] = "none"
      /\ j \in jobs' => state'[j] = "cancelled"
  BY Cancelled
<1>n. NoCall.pc = "free"
  BY DEF NoCall
<1>2. TableInv'
  <2>1. \A s \in Tasks : task[s].pc \in Alive =>
          task[s].job \in jobs' /\ running'[task[s].job] = s
    BY <1>i, <1>0, <1>1 DEF TableInv
  <2>2. \A k \in Jobs : running'[k] # "none" => task[running'[k]].pc # "free"
                                             /\ task[running'[k]].job = k
    BY <1>i, <1>1 DEF TableInv
  <2>. QED  BY <2>1, <2>2 DEF TableInv
<1>3. ManualInv'
  BY <1>i DEF ManualInv
<1>4. StateInv'
  <2>1. \A s \in Holders : task[s].job # j
    BY DEF Holders, Alive, Executing
  <2>2. Holders' = Holders
    BY DEF Holders
  <2>. QED  BY <1>i, <1>0, <1>1, <2>1, <2>2 DEF StateInv
<1>5. CancelInv'
  <2>1. \A d \in Callers : caller'[d].pc = "cancelling" =>
          caller'[d] = caller[d] /\ caller[d].job \in Jobs \ {j}
    BY <1>i, <1>0, <1>n DEF CancelInv
  <2>. QED  BY <1>i, <1>0, <1>1, <2>1 DEF CancelInv
<1>6. StopInv'
  BY <1>n DEF StopInv
<1>7. CancelledInv'
  BY <1>i, <1>0, <1>1 DEF CancelledInv, CancelledStays
<1>. QED  BY <1>2, <1>3, <1>4, <1>5, <1>6, <1>7 DEF SchedulerInv

\* cancel and unregister: the job's task is cancelled, or the call ends at once.
LEMMA CancelStep ==
  ASSUME ~Overlapping, TypeInv, SchedulerInv,
         NEW c \in Callers, NEW j \in Jobs, NEW drop \in BOOLEAN, Cancel(c, j, drop)
  PROVE  SchedulerInv'
<1>i. TableInv /\ ManualInv /\ StateInv /\ CancelInv /\ StopInv /\ CancelledInv
  BY DEF SchedulerInv
<1>1. \A d \in Callers : caller[d].pc \notin {"stopping", "gathering"}
  BY CallAlone DEF Cancel
<1>2. /\ j \in jobs /\ caller[c].pc = "free"
      /\ \A d \in Callers : caller[d].pc = "cancelling" => caller[d].job # j
      /\ UNCHANGED loop
  BY DEF Cancel, Cancelling
<1>3. CASE Active(j)
  <2> DEFINE t == running[j]
  <2>1. t \in Tasks /\ task[t].pc \in Alive
    BY <1>3 DEF Active
  <2>2. /\ CancelTasks({t})
        /\ caller' = [caller EXCEPT ![c] =
             [NoCall EXCEPT !.pc = "cancelling", !.job = j, !.task = t,
                !.drop = drop, !.waits = {t}]]
        /\ UNCHANGED <<jobs, state, running, cancelled>>
    BY <1>3 DEF Cancel, table
  <2>3. /\ task' \in [Tasks -> TaskState]
        /\ \A s \in Tasks : /\ task'[s].pc = task[s].pc
                            /\ task'[s].job = task[s].job
                            /\ task'[s].manual = task[s].manual
                            /\ task[s].cancel => task'[s].cancel
        /\ task'[t].cancel
    <3>1. \A s \in Tasks : LET x == [task[s] EXCEPT !.cancel = TRUE] IN
            /\ x.pc = task[s].pc /\ x.job = task[s].job
            /\ x.manual = task[s].manual /\ x.cancel
      BY DEF TypeInv, TypeOK
    <3>2. \A s \in Tasks :
            task'[s] = IF s = t /\ task[s].pc \in Alive
                       THEN [task[s] EXCEPT !.cancel = TRUE] ELSE task[s]
      BY <2>2 DEF CancelTasks
    <3>3. task' \in [Tasks -> TaskState]
      BY <2>2, UpdateTypes
    <3>. QED  BY <2>1, <3>1, <3>2, <3>3
  <2>4. /\ caller'[c].pc = "cancelling" /\ caller'[c].job = j
        /\ caller'[c].task = t /\ caller'[c].waits = {t}
        /\ \A d \in Callers \ {c} : caller'[d] = caller[d]
    BY <2>2 DEF NoCall, TypeInv, TypeOK
  <2> HIDE DEF t
  <2>5. running[j] = t
    BY DEF t
  <2>6. TableInv' /\ ManualInv'
    BY <1>i, <2>2, <2>3 DEF TableInv, ManualInv, TypeInv, TypeOK
  <2>7. StateInv' /\ CancelledInv'
    BY <1>i, <2>2, <2>3 DEF StateInv, Holders, CancelledInv, CancelledStays
  <2>8. CancelInv'
    BY <1>i, <1>2, <2>1, <2>2, <2>3, <2>4, <2>5 DEF CancelInv
  <2>9. StopInv'
    BY <1>1, <2>4 DEF StopInv
  <2>. QED  BY <2>6, <2>7, <2>8, <2>9 DEF SchedulerInv
<1>4. CASE ~Active(j)
  <2>1. CancelEnds(j, running[j], drop) /\ UNCHANGED <<task, caller>>
    BY <1>4 DEF Cancel
  <2>2. running[j] \in Tasks \cup {"none"}
    BY DEF TypeInv, TypeOK
  <2>3. \A s \in Tasks : task[s].pc \in Alive => task[s].job # j
    BY <1>i, <1>4, Quiet
  <2>. QED  BY <1>1, <1>2, <2>1, <2>2, <2>3, CancelledStep
<1>. QED  BY <1>3, <1>4

\* A call of cancel returns: its job is not executed.
LEMMA CancelReturnsStep ==
  ASSUME TypeInv, SchedulerInv, NEW c \in Callers, CancelReturns(c)
  PROVE  SchedulerInv'
<1>i. TableInv /\ CancelInv /\ StopInv
  BY DEF SchedulerInv
<1> DEFINE j == caller[c].job
<1>1. /\ caller[c].pc = "cancelling" /\ caller[c].waits = {}
      /\ j \in jobs /\ j \in Jobs /\ running[j] = "none"
  BY <1>i DEF CancelReturns, CancelInv, TypeInv, TypeOK
<1>2. /\ CancelEnds(j, caller[c].task, caller[c].drop)
      /\ caller' = [caller EXCEPT ![c] = NoCall]
      /\ UNCHANGED <<task, loop>>
  BY <1>1 DEF CancelReturns
<1>3. caller[c].task \in Tasks \cup {"none"} /\ caller[c].drop \in BOOLEAN
  BY DEF TypeInv, TypeOK
<1>4. \A s \in Tasks : task[s].pc \in Alive => task[s].job # j
  BY <1>i, <1>1, Quiet
<1>5. /\ \A d \in Callers : caller'[d] \in {caller[d], NoCall}
      /\ caller'[c] = NoCall /\ \A d \in Callers \ {c} : caller'[d] = caller[d]
  BY <1>2 DEF TypeInv, TypeOK
<1>6. \A d \in Callers : caller'[d].pc = "cancelling" => caller[d].job # j
  BY <1>i, <1>1, <1>5 DEF CancelInv, NoCall
<1>7. \A d \in Callers : caller[d].pc \notin {"stopping", "gathering"}
  BY <1>i, <1>1 DEF StopInv
<1> HIDE DEF j
<1>. QED  BY <1>1, <1>2, <1>3, <1>4, <1>5, <1>6, <1>7, CancelledStep

\* stop, once there is no loop: it waits for every task that is not done, or
\* there is none and it ends.
LEMMA StopTasksStep ==
  ASSUME TypeInv, SchedulerInv, NEW c \in Callers, StopTasks(c), ~loop,
         \A d \in Callers \ {c} : caller[d].pc = "free"
  PROVE  /\ SchedulerInv'
         /\ caller'[c].pc = "free" => \A t \in Tasks : task'[t].pc \notin Alive
<1>i. TableInv /\ ManualInv /\ StateInv /\ CancelInv /\ StopInv /\ CancelledInv
  BY DEF SchedulerInv
<1> DEFINE live == {j \in Jobs : Active(j)}
           ts == {running[j] : j \in live}
<1>1. /\ CancelTasks(ts)
      /\ \/ /\ ts # {}
            /\ caller' = [caller EXCEPT ![c] =
                 [NoCall EXCEPT !.pc = "gathering", !.waits = ts, !.stopped = live]]
            /\ UNCHANGED running
         \/ /\ ts = {}
            /\ caller' = [caller EXCEPT ![c] = NoCall]
            /\ running' = [j \in Jobs |-> "none"]
      /\ UNCHANGED <<jobs, state, next, loop, cancelled>>
  BY DEF StopTasks
<1>2. \A t \in Tasks : task[t].pc \in Alive => t \in ts
  <2> SUFFICES ASSUME NEW t \in Tasks, task[t].pc \in Alive PROVE t \in ts
    OBVIOUS
  <2>1. task[t].job \in Jobs /\ running[task[t].job] = t
    BY <1>i DEF TableInv, TypeInv, TypeOK
  <2>. QED  BY <2>1 DEF Active
<1>3. live \cap cancelled = {}
  <2> SUFFICES ASSUME NEW j \in live, j \in cancelled PROVE FALSE
    OBVIOUS
  <2>1. PICK t \in Tasks : running[j] = t /\ task[t].pc \in Alive
    BY DEF Active
  <2>2. task[t].job = j
    BY <1>i, <2>1, SchedulerAssumption DEF TableInv
  <2>. QED  BY <1>i, <2>1, <2>2 DEF CancelledInv, CancelledStays
<1>4. \A s \in Tasks : /\ task'[s].pc = task[s].pc
                       /\ task'[s].job = task[s].job
                       /\ task'[s].manual = task[s].manual
  <2>1. \A s \in Tasks : LET x == [task[s] EXCEPT !.cancel = TRUE] IN
          x.pc = task[s].pc /\ x.job = task[s].job /\ x.manual = task[s].manual
    BY DEF TypeInv, TypeOK
  <2>. QED  BY <1>1, <2>1 DEF CancelTasks
<1>5. ManualInv' /\ StateInv' /\ CancelledInv'
  BY <1>i, <1>1, <1>4 DEF ManualInv, StateInv, Holders, CancelledInv, CancelledStays
<1> HIDE DEF live, ts
<1>6. CASE ts # {}
  <2>1. /\ caller'[c].pc = "gathering" /\ caller'[c].waits = ts /\ caller'[c].stopped = live
        /\ \A d \in Callers \ {c} : caller'[d] = caller[d]
        /\ UNCHANGED running
    <3> DEFINE waiting == [NoCall EXCEPT !.pc = "gathering", !.waits = ts, !.stopped = live]
    <3>1. waiting.pc = "gathering" /\ waiting.waits = ts /\ waiting.stopped = live
      BY DEF NoCall
    <3>2. caller' = [caller EXCEPT ![c] = waiting] /\ UNCHANGED running
      BY <1>1, <1>6
    <3> HIDE DEF waiting
    <3>3. caller \in [Callers -> CallerState]
      BY DEF TypeInv, TypeOK, CallerState
    <3>. QED  BY <3>1, <3>2, <3>3
  <2>2. TableInv'
    BY <1>i, <1>1, <1>4, <2>1 DEF TableInv, TypeInv, TypeOK
  <2>3. CancelInv'
    BY <2>1 DEF CancelInv
  <2>4. StopInv'
    <3>1. \A d \in Callers \ {c} : caller'[d].pc = "free"
      BY <2>1
    <3>2. ~loop' /\ live \cap cancelled' = {} /\ \A t \in Tasks : task'[t].pc \in Alive => t \in ts
      BY <1>1, <1>2, <1>3, <1>4
    <3>. QED  BY <2>1, <3>1, <3>2 DEF StopInv
  <2>. QED  BY <1>5, <2>1, <2>2, <2>3, <2>4 DEF SchedulerInv
<1>7. CASE ts = {}
  <2>1. /\ \A d \in Callers : caller'[d].pc = "free"
        /\ running' = [j \in Jobs |-> "none"]
    BY <1>1, <1>7 DEF NoCall, TypeInv, TypeOK
  <2>2. \A t \in Tasks : task'[t].pc \notin Alive
    BY <1>2, <1>4, <1>7
  <2>3. TableInv' /\ CancelInv' /\ StopInv'
    BY <2>1, <2>2 DEF TableInv, CancelInv, StopInv
  <2>. QED  BY <1>5, <2>2, <2>3 DEF SchedulerInv
<1>. QED  BY <1>6, <1>7

\* stop is called: no other call is under way.
LEMMA StopStep ==
  ASSUME ~Overlapping, TypeInv, SchedulerInv, NEW c \in Callers, Stop(c)
  PROVE  SchedulerInv'
<1>i. TableInv /\ ManualInv /\ StateInv /\ CancelInv /\ StopInv /\ CancelledInv
  BY DEF SchedulerInv
<1>1. \A d \in Callers : caller[d].pc = "free"
  <2>1. \A d \in Callers : caller[d].pc \notin {"stopping", "gathering"}
    BY CallAlone DEF Stop
  <2>2. \A d \in Callers : caller[d].pc = "cancelling" => caller[d].job \in Jobs
    BY <1>i DEF CancelInv, TypeInv, TypeOK
  <2>3. \A d \in Callers : caller[d].pc # "cancelling"
    BY <2>2 DEF Stop, Cancelling
  <2>. QED  BY <2>1, <2>3 DEF TypeInv, TypeOK, CallerPoints
<1>2. CASE loop
  <2>1. /\ caller' = [caller EXCEPT ![c].pc = "stopping"]
        /\ UNCHANGED <<jobs, state, running, task, loop, cancelled>>
    BY <1>2 DEF Stop, table
  <2>2. caller'[c].pc = "stopping" /\ \A d \in Callers \ {c} : caller'[d] = caller[d]
    BY <2>1 DEF TypeInv, TypeOK
  <2>3. StopInv' /\ CancelInv'
    BY <1>1, <2>2 DEF StopInv, CancelInv
  <2>. QED
    BY <1>i, <2>1, <2>3
       DEF SchedulerInv, TableInv, ManualInv, StateInv, Holders, CancelledInv, CancelledStays
<1>3. CASE ~loop
  <2>1. StopTasks(c)
    BY <1>3 DEF Stop
  <2>. QED  BY <1>1, <1>3, <2>1, StopTasksStep
<1>. QED  BY <1>2, <1>3

\* When stop returns, no task is left that it waited for: none at all.
LEMMA StopReturnsStep ==
  ASSUME TypeInv, SchedulerInv, NEW c \in Callers, StopReturns(c)
  PROVE  /\ SchedulerInv'
         /\ ~loop' /\ \A t \in Tasks : task'[t].pc \notin Alive
<1>i. TableInv /\ ManualInv /\ StateInv /\ CancelInv /\ StopInv /\ CancelledInv
  BY DEF SchedulerInv
<1>1. /\ caller[c].pc = "gathering" /\ caller[c].waits = {}
      /\ running' = [j \in Jobs |-> "none"]
      /\ caller' = [caller EXCEPT ![c] = NoCall]
      /\ UNCHANGED <<jobs, task, loop, cancelled>>
  BY DEF StopReturns
<1>2. /\ ~loop /\ \A t \in Tasks : task[t].pc \notin Alive
      /\ caller[c].stopped \cap cancelled = {}
      /\ \A d \in Callers \ {c} : caller[d].pc = "free"
  BY <1>i, <1>1 DEF StopInv
<1>3. \A d \in Callers : caller'[d].pc = "free"
  BY <1>1, <1>2 DEF NoCall, TypeInv, TypeOK
<1>4. \A j \in Jobs : /\ state'[j] \in {state[j], "scheduled"}
                      /\ j \in cancelled => state'[j] = state[j]
  BY <1>2 DEF StopReturns
<1>5. TableInv' /\ ManualInv' /\ CancelInv' /\ StopInv'
  BY <1>i, <1>1, <1>2, <1>3 DEF TableInv, ManualInv, CancelInv, StopInv
<1>6. StateInv'
  <2>1. Holders = {} /\ Holders' = {}
    BY <1>1, <1>2 DEF Holders, Alive, Executing
  <2>. QED  BY <1>i, <1>1, <1>4, <2>1 DEF StateInv, TypeInv, TypeOK
<1>7. CancelledInv'
  BY <1>i, <1>1, <1>4 DEF CancelledInv, CancelledStays, TypeInv, TypeOK
<1>. QED  BY <1>1, <1>2, <1>5, <1>6, <1>7 DEF SchedulerInv

\* A round of the loop begins only jobs that have no task and are scheduled.
LEMMA LoopRoundStep ==
  ASSUME TypeInv, SchedulerInv, LoopRound
  PROVE  SchedulerInv'
<1>i. TableInv /\ ManualInv /\ StateInv /\ CancelInv /\ StopInv /\ CancelledInv
  BY DEF SchedulerInv
<1>b. /\ ToBegin \subseteq jobs /\ jobs \subseteq Jobs
      /\ \A j \in ToBegin : running[j] = "none" /\ state[j] = "scheduled"
      /\ loop
      /\ UNCHANGED <<jobs, loop, caller, cancelled>>
  BY DEF LoopRound, ToBegin, DueJobs, TypeInv, TypeOK
<1>1. PICK new \in [ToBegin -> {t \in Tasks : Unused(t)}] :
        /\ \A i, j \in ToBegin : new[i] = new[j] => i = j
        /\ running' = [j \in Jobs |-> IF j \in ToBegin THEN new[j] ELSE running[j]]
        /\ task' = [t \in Tasks |->
             IF \E j \in ToBegin : new[j] = t
             THEN [NoTask EXCEPT !.pc = "new", !.job = CHOOSE j \in ToBegin : new[j] = t]
             ELSE task[t]]
  BY DEF LoopRound
<1>2. \A j \in ToBegin :
        /\ new[j] \in Tasks /\ Unused(new[j])
        /\ running'[j] = new[j]
        /\ task'[new[j]].pc = "new" /\ task'[new[j]].job = j
        /\ ~task'[new[j]].manual
  <2> SUFFICES ASSUME NEW j \in ToBegin
      PROVE  /\ new[j] \in Tasks /\ Unused(new[j])
             /\ running'[j] = new[j]
             /\ task'[new[j]].pc = "new" /\ task'[new[j]].job = j
             /\ ~task'[new[j]].manual
    OBVIOUS
  <2>1. new[j] \in Tasks /\ Unused(new[j])
    OBVIOUS
  <2>2. (CHOOSE i \in ToBegin : new[i] = new[j]) = j
    BY <1>1
  <2>3. task'[new[j]] = [NoTask EXCEPT !.pc = "new", !.job = j]
    BY <1>1, <2>1, <2>2
  <2>4. running'[j] = new[j]
    BY <1>1, <1>b
  <2>. QED  BY <2>1, <2>3, <2>4 DEF NoTask
<1>3. \A t \in Tasks : (\A j \in ToBegin : new[j] # t) => task'[t] = task[t]
  BY <1>1
<1>4. \A j \in Jobs \ ToBegin : running'[j] = running[j]
  BY <1>1
<1>5. \A t \in Tasks : task[t].pc # "free" => task'[t] = task[t]
  BY <1>2, <1>3 DEF Unused
<1>6. \A j \in Jobs : /\ state'[j] \in {state[j], "cancelled"}
                      /\ state'[j] # state[j] => state[j] = "scheduled"
  BY DEF LoopRound, Misfired, DueJobs
<1>7. \A t \in Tasks : task'[t] = task[t] \/ \E j \in ToBegin : t = new[j]
  BY <1>3
<1>8. TableInv'
  <2>1. ASSUME NEW t \in Tasks, task'[t].pc \in Alive
        PROVE  task'[t].job \in jobs' /\ running'[task'[t].job] = t
    <3>1. CASE \E j \in ToBegin : t = new[j]
      BY <1>b, <1>2, <3>1
    <3>2. CASE task'[t] = task[t]
      <4>1. task[t].job \in jobs /\ running[task[t].job] = t
        BY <1>i, <2>1, <3>2 DEF TableInv
      <4>2. task[t].job \notin ToBegin
        BY <1>b, <4>1, SchedulerAssumption
      <4>. QED  BY <1>b, <1>4, <3>2, <4>1, <4>2
    <3>. QED  BY <1>7, <3>1, <3>2
  <2>2. ASSUME NEW j \in Jobs, running'[j] # "none"
        PROVE  task'[running'[j]].pc # "free" /\ task'[running'[j]].job = j
    <3>1. CASE j \in ToBegin
      BY <1>2, <3>1
    <3>2. CASE j \notin ToBegin
      <4>1. running'[j] = running[j] /\ running[j] \in Tasks
        BY <1>4, <2>2, <3>2 DEF TypeInv, TypeOK
      <4>. QED  BY <1>i, <1>5, <2>2, <4>1 DEF TableInv
    <3>. QED  BY <3>1, <3>2
  <2>. QED  BY <2>1, <2>2 DEF TableInv
<1>9. ManualInv'
  BY <1>i, <1>2, <1>7 DEF ManualInv
<1>10. StateInv'
  <2>1. Holders' = Holders
    BY <1>2, <1>5, <1>7 DEF Holders, Executing
  <2>2. \A t \in Holders : task'[t] = task[t]
    BY <1>5 DEF Holders, Executing
  <2>. QED  BY <1>i, <1>b, <1>6, <2>1, <2>2 DEF StateInv
<1>11. CancelInv'
  <2> SUFFICES ASSUME NEW c \in Callers, caller[c].pc = "cancelling"
      PROVE  \/ /\ caller[c].waits = {caller[c].task}
                /\ caller[c].task \in Tasks
                /\ running'[caller[c].job] = caller[c].task
                /\ task'[caller[c].task].cancel
             \/ /\ caller[c].waits = {}
                /\ running'[caller[c].job] = "none"
                /\ state'[caller[c].job] = "cancelled"
    BY <1>i, <1>b DEF CancelInv
  <2>1. caller[c].job \in Jobs
    BY <1>i, <1>b DEF CancelInv
  <2>2. CASE caller[c].waits = {}
    <3>1. running[caller[c].job] = "none" /\ state[caller[c].job] = "cancelled"
      BY <1>i, <2>2 DEF CancelInv
    <3>2. caller[c].job \notin ToBegin
      BY <1>b, <3>1
    <3>. QED  BY <1>4, <1>6, <2>1, <2>2, <3>1, <3>2
  <2>3. CASE caller[c].waits # {}
    <3>1. /\ caller[c].waits = {caller[c].task}
          /\ caller[c].task \in Tasks
          /\ running[caller[c].job] = caller[c].task
          /\ task[caller[c].task].cancel
      BY <1>i, <2>3 DEF CancelInv
    <3>2. caller[c].job \notin ToBegin /\ task[caller[c].task].pc # "free"
      BY <1>i, <1>b, <2>1, <3>1, SchedulerAssumption DEF TableInv
    <3>. QED  BY <1>4, <1>5, <2>1, <3>1, <3>2
  <2>. QED  BY <2>2, <2>3
<1>12. StopInv'
  BY <1>i, <1>b DEF StopInv
<1>13. CancelledInv'
  <2>1. \A j \in cancelled : j \in Jobs /\ j \notin ToBegin /\ state'[j] = "cancelled"
    BY <1>i, <1>b, <1>6 DEF CancelledInv, CancelledStays
  <2>2. \A j \in cancelled, t \in Tasks : task'[t].job = j => task'[t].pc \notin Alive
    BY <1>i, <1>2, <1>7, <2>1 DEF CancelledInv, CancelledStays
  <2>. QED  BY <1>i, <1>b, <2>1, <2>2 DEF CancelledInv, CancelledStays
<1>. QED  BY <1>8, <1>9, <1>10, <1>11, <1>12, <1>13 DEF SchedulerInv

\* A created task takes its first step, or gets its place at the semaphore.
LEMMA BeginStep ==
  ASSUME TypeInv, SchedulerInv, NEW t \in Tasks, Begin(t) \/ Admit(t)
  PROVE  SchedulerInv'
<1>i. TableInv /\ ManualInv /\ StateInv /\ CancelInv /\ StopInv /\ CancelledInv
  BY DEF SchedulerInv
<1> DEFINE j == task[t].job
<1>1. /\ task[t].pc \in {"new", "queued"} /\ task[t].pc \in Alive
      /\ j \in jobs /\ j \in Jobs /\ running[j] = t /\ task[t] \in TaskState
  BY <1>i DEF Begin, Admit, Alive, TableInv, TypeInv, TypeOK, TaskState
<1>2. /\ Enter(t, task[t])
      /\ UNCHANGED <<jobs, running, loop, caller, cancelled>>
  BY DEF Begin, Admit
<1>3. /\ \A s \in Tasks \ {t} : task'[s] = task[s]
      /\ task'[t].job = j /\ task'[t].cancel = task[t].cancel
      /\ task'[t].manual = task[t].manual
      /\ \A k \in Jobs \ {j} : state'[k] = state[k]
      /\ \/ task'[t].pc = "running" /\ state'[j] = "running"
         \/ task'[t].pc = "queued" /\ state'[j] = state[j]
  BY <1>1, <1>2, Entered
<1>4. \A s \in Tasks \ {t} : task[s].pc \in Alive => task[s].job # j
  BY <1>i, <1>1 DEF TableInv
<1>5. \A s \in Tasks : task[s].pc \in Executing => task[s].job # j
  BY <1>1, <1>4 DEF Alive, Executing
<1>6. state[j] # "running"
  BY <1>i, <1>1, <1>5 DEF StateInv, Holders
<1> HIDE DEF j
<1>7. t # "none" /\ j \notin cancelled
  BY <1>i, <1>1, SchedulerAssumption DEF CancelledInv, CancelledStays, j
<1>8. TableInv' /\ ManualInv'
  <2>1. TableInv'
    BY <1>i, <1>1, <1>2, <1>3 DEF TableInv, Alive, Executing, TypeInv, TypeOK
  <2>2. ManualInv'
    BY <1>i, <1>3 DEF ManualInv
  <2>. QED  BY <2>1, <2>2
<1>9. StateInv'
  <2>1. \A k \in jobs \ {j} : (\E s \in Holders' : task'[s].job = k)
                                <=> (\E s \in Holders : task[s].job = k)
    BY <1>1, <1>3 DEF Holders, Executing, j
  <2>2. (\E s \in Holders' : task'[s].job = j) <=> task'[t].pc = "running"
    BY <1>3, <1>5 DEF Holders, Executing
  <2>3. jobs \subseteq Jobs
    BY DEF TypeInv, TypeOK
  <2>. QED  BY <1>i, <1>1, <1>2, <1>3, <1>6, <2>1, <2>2, <2>3 DEF StateInv
<1>10. CancelInv'
  <2>1. \A k \in Jobs : running[k] = "none" => k # j
    BY <1>1, <1>7
  <2>2. \A c \in Callers : caller[c].pc = "cancelling" => caller[c].job \in Jobs
    BY <1>i DEF CancelInv, TypeInv, TypeOK
  <2>3. \A s \in Tasks : task'[s].cancel = task[s].cancel
    BY <1>3
  <2>. QED  BY <1>i, <1>2, <1>3, <2>1, <2>2, <2>3 DEF CancelInv
<1>11. StopInv'
  <2>1. \A s \in Tasks : task'[s].pc \in Alive => task[s].pc \in Alive
    BY <1>1, <1>3
  <2>. QED  BY <1>i, <1>2, <2>1 DEF StopInv
<1>12. CancelledInv'
  <2>1. \A k \in cancelled : k \in Jobs /\ state'[k] = state[k]
    BY <1>3, <1>7 DEF TypeInv, TypeOK
  <2>. QED  BY <1>i, <1>2, <1>3, <1>7, <2>1 DEF CancelledInv, CancelledStays
<1>. QED  BY <1>8, <1>9, <1>10, <1>11, <1>12 DEF SchedulerInv

\* An execution that goes on keeps its place at the semaphore.
LEMMA GoesOnStep ==
  ASSUME TypeInv, SchedulerInv, NEW t \in Tasks, NEW x \in TaskState,
         task[t].pc \in Executing, x.pc \in Executing,
         x.job = task[t].job, x.manual = task[t].manual, x.cancel = task[t].cancel,
         task' = [task EXCEPT ![t] = x],
         UNCHANGED <<jobs, state, running, loop, caller, cancelled>>
  PROVE  SchedulerInv'
<1>i. TableInv /\ ManualInv /\ StateInv /\ CancelInv /\ StopInv /\ CancelledInv
  BY DEF SchedulerInv
<1>1. \A s \in Tasks : /\ task'[s].job = task[s].job /\ task'[s].manual = task[s].manual
                       /\ task'[s].cancel = task[s].cancel
                       /\ task'[s].pc \in Executing <=> task[s].pc \in Executing
                       /\ task'[s].pc \in Alive <=> task[s].pc \in Alive
                       /\ task'[s].pc = "new" <=> task[s].pc = "new"
                       /\ task'[s].pc = "free" <=> task[s].pc = "free"
  BY DEF Alive, Executing, TypeInv, TypeOK
<1>2. Holders' = Holders
  BY <1>1 DEF Holders
<1>3. \A s \in Holders : task'[s].job = task[s].job
  BY <1>1 DEF Holders
<1>4. TableInv' /\ ManualInv'
  BY <1>i, <1>1 DEF TableInv, ManualInv, TypeInv, TypeOK
<1>5. StateInv' /\ CancelInv'
  BY <1>i, <1>1, <1>2, <1>3 DEF StateInv, CancelInv
<1>6. StopInv' /\ CancelledInv'
  BY <1>i, <1>1 DEF StopInv, CancelledInv, CancelledStays
<1>. QED  BY <1>4, <1>5, <1>6 DEF SchedulerInv

\* A task that was executed is done: its job has another state, and whoever
\* awaited it goes on.  The loop's task stays in the table until its callback
\* runs, a caller's is taken out at once.
LEMMA DoneStep ==
  ASSUME TypeInv, SchedulerInv, NEW t \in Tasks, task[t].pc \in Alive,
         UNCHANGED <<jobs, loop, cancelled>>,
         NEW r \in JobStates,
         r # "running",
         task[t].job \notin Once => r \notin {"succeeded", "failed"},
         state' = [state EXCEPT ![task[t].job] = r],
         task[t].cancel /\ task[t].manual => r = "cancelled",
         \/ /\ ~task[t].manual
            /\ task' = [task EXCEPT ![t].pc = "ending"]
            /\ UNCHANGED <<running, caller>>
         \/ /\ task[t].manual
            /\ task' = [task EXCEPT ![t] = NoTask]
            /\ Forget(task[t].job, t)
            /\ Done(t)
  PROVE  SchedulerInv'
<1>i. TableInv /\ ManualInv /\ StateInv /\ CancelInv /\ StopInv /\ CancelledInv
  BY DEF SchedulerInv
<1> DEFINE j == task[t].job
<1>1. /\ j \in jobs /\ j \in Jobs /\ running[j] = t /\ t # "none"
      /\ running \in [Jobs -> Tasks \cup {"none"}]
      /\ task \in [Tasks -> TaskState] /\ caller \in [Callers -> CallerState]
      /\ jobs \subseteq Jobs /\ cancelled \subseteq Jobs
  BY <1>i, SchedulerAssumption DEF TableInv, TypeInv, TypeOK, TaskState, CallerState
<1>2. /\ \A s \in Tasks \ {t} : task'[s] = task[s]
      /\ task'[t].pc \in {"free", "ending"}
      /\ task'[t].pc = "ending" => task'[t].job = j /\ task'[t].cancel = task[t].cancel
      /\ task'[t].pc = "free" <=> task[t].manual
      /\ ~task'[t].manual \/ task'[t].pc # "new"
  BY <1>1 DEF NoTask, TaskState
<1>3. /\ \A k \in Jobs \ {j} : running'[k] = running[k]
      /\ running'[j] = IF task[t].manual THEN "none" ELSE t
  <2>1. CASE task[t].manual
    <3>1. running' = [running EXCEPT ![j] = IF @ = t THEN "none" ELSE @]
      BY <2>1 DEF Forget
    <3>. QED  BY <1>1, <1>i, <2>1, <3>1 DEF TableInv
  <2>2. CASE ~task[t].manual
    BY <1>1, <2>2
  <2>. QED  BY <2>1, <2>2
<1>4. /\ \A c \in Callers : /\ caller'[c].pc = caller[c].pc
                            /\ caller'[c].job = caller[c].job
                            /\ caller'[c].task = caller[c].task
                            /\ caller'[c].stopped = caller[c].stopped
                            /\ caller'[c].waits = IF task[t].manual THEN caller[c].waits \ {t}
                                                  ELSE caller[c].waits
  <2>1. CASE task[t].manual
    <3>1. \A c \in Callers : LET x == [caller[c] EXCEPT !.waits = @ \ {t}] IN
            /\ x.pc = caller[c].pc /\ x.job = caller[c].job /\ x.task = caller[c].task
            /\ x.stopped = caller[c].stopped /\ x.waits = caller[c].waits \ {t}
      BY <1>1 DEF CallerState
    <3>2. \A c \in Callers : caller'[c] = [caller[c] EXCEPT !.waits = @ \ {t}]
      BY <2>1 DEF Done
    <3>. QED  BY <2>1, <3>1, <3>2
  <2>2. CASE ~task[t].manual
    BY <2>2
  <2>. QED  BY <2>1, <2>2
<1>5. /\ \A k \in Jobs \ {j} : state'[k] = state[k]
      /\ state'[j] = r
  BY <1>1 DEF TypeInv, TypeOK
<1>6. \A s \in Tasks \ {t} : task[s].pc \in Alive => task[s].job # j
  BY <1>i, <1>1 DEF TableInv
<1>7. j \notin cancelled
  BY <1>i DEF CancelledInv, CancelledStays
<1> HIDE DEF j
<1>8. \A s \in Tasks : task'[s].pc \in Alive => s # t /\ task[s].pc \in Alive /\ task'[s] = task[s]
  BY <1>2 DEF Alive, Executing
<1>9. TableInv'
  <2>1. \A s \in Tasks : task'[s].pc \in Alive =>
          task'[s].job \in jobs' /\ running'[task'[s].job] = s
    BY <1>i, <1>1, <1>3, <1>6, <1>8 DEF TableInv
  <2>2. \A k \in Jobs : running'[k] # "none" =>
          task'[running'[k]].pc # "free" /\ task'[running'[k]].job = k
    <3> SUFFICES ASSUME NEW k \in Jobs, running'[k] # "none"
        PROVE task'[running'[k]].pc # "free" /\ task'[running'[k]].job = k
      OBVIOUS
    <3>1. CASE k = j
      BY <1>2, <1>3, <3>1
    <3>2. CASE k # j
      <4>1. running'[k] = running[k] /\ running[k] \in Tasks /\ task[running[k]].job = k
            /\ task[running[k]].pc # "free"
        BY <1>i, <1>1, <1>3, <3>2 DEF TableInv
      <4>2. running[k] # t
        BY <3>2, <4>1 DEF j
      <4>. QED  BY <1>2, <4>1, <4>2
    <3>. QED  BY <3>1, <3>2
  <2>. QED  BY <2>1, <2>2 DEF TableInv
<1>10. ManualInv'
  BY <1>i, <1>2 DEF ManualInv
<1>11. StateInv'
  <2>1. \A k \in Jobs \ {j} : (\E s \in Holders' : task'[s].job = k)
                                <=> (\E s \in Holders : task[s].job = k)
    BY <1>2 DEF Holders, Executing, j
  <2>2. \A s \in Holders' : task'[s].job # j
    BY <1>6, <1>8 DEF Holders, Alive
  <2>. QED  BY <1>i, <1>1, <1>5, <2>1, <2>2 DEF StateInv, j
<1>12. CancelInv'
  <2> SUFFICES ASSUME NEW c \in Callers, caller[c].pc = "cancelling"
      PROVE  \/ /\ caller'[c].waits = {caller[c].task}
                /\ caller[c].task \in Tasks
                /\ running'[caller[c].job] = caller[c].task
                /\ task'[caller[c].task].cancel
             \/ /\ caller'[c].waits = {}
                /\ running'[caller[c].job] = "none"
                /\ state'[caller[c].job] = "cancelled"
    <3>1. \A c \in Callers : /\ caller'[c].pc = caller[c].pc
                             /\ caller'[c].job = caller[c].job
                             /\ caller'[c].task = caller[c].task
      BY <1>4
    <3>2. \A c \in Callers : caller[c].pc = "cancelling" => caller[c].job \in jobs'
      BY <1>i DEF CancelInv
    <3>3. \A c, d \in Callers : /\ caller[c].pc = "cancelling"
                                /\ caller[d].pc = "cancelling"
                                /\ caller[c].job = caller[d].job
                                => c = d
      BY <1>i DEF CancelInv
    <3>. QED  BY <3>1, <3>2, <3>3 DEF CancelInv
  <2>1. caller[c].job \in Jobs
    BY <1>i, <1>1 DEF CancelInv
  <2>2. CASE caller[c].waits = {}
    <3>1. running[caller[c].job] = "none" /\ state[caller[c].job] = "cancelled"
      BY <1>i, <2>2 DEF CancelInv
    <3>2. caller[c].job # j
      BY <1>1, <3>1 DEF j
    <3>. QED  BY <1>3, <1>4, <1>5, <2>1, <2>2, <3>1, <3>2
  <2>3. CASE caller[c].waits # {}
    <3>1. /\ caller[c].waits = {caller[c].task}
          /\ caller[c].task \in Tasks
          /\ running[caller[c].job] = caller[c].task
          /\ task[caller[c].task].cancel
      BY <1>i, <2>3 DEF CancelInv
    <3>2. CASE caller[c].task = t
      <4>1. caller[c].job = j /\ task[t].cancel
        BY <1>i, <1>1, <2>1, <3>1, <3>2 DEF TableInv, j
      <4>. QED  BY <1>2, <1>3, <1>4, <1>5, <3>1, <3>2, <4>1
    <3>3. CASE caller[c].task # t
      <4>1. caller[c].job # j
        BY <1>1, <3>1, <3>3 DEF j
      <4>. QED  BY <1>2, <1>3, <1>4, <2>1, <3>1, <3>3, <4>1
    <3>. QED  BY <3>2, <3>3
  <2>. QED  BY <2>2, <2>3
<1>13. StopInv'
  <2>1. \A c \in Callers : caller'[c].pc = caller[c].pc /\ caller'[c].stopped = caller[c].stopped
    BY <1>4
  <2>2. \A c \in Callers, s \in Tasks :
          task'[s].pc \in Alive /\ s \in caller[c].waits => s \in caller'[c].waits
    BY <1>4, <1>8
  <2>. QED  BY <1>i, <1>8, <2>1, <2>2 DEF StopInv
<1>14. CancelledInv'
  <2>1. \A k \in cancelled : state'[k] = "cancelled"
    BY <1>i, <1>1, <1>5, <1>7 DEF CancelledInv, CancelledStays
  <2>. QED  BY <1>i, <1>8, <2>1 DEF CancelledInv, CancelledStays
<1>. QED  BY <1>9, <1>10, <1>11, <1>12, <1>13, <1>14 DEF SchedulerInv

\* An execution succeeds, fails, is tried again or is cancelled.
LEMMA ExecutionStep ==
  ASSUME TypeInv, SchedulerInv, NEW t \in Tasks,
         Succeeds(t) \/ Fails(t) \/ Retries(t) \/ CancelArrives(t)
  PROVE  SchedulerInv'
<1>t. task \in [Tasks -> TaskState] /\ task[t] \in TaskState
  BY DEF TypeInv, TypeOK, TaskState
<1>j. task[t].pc \in Alive => task[t].job \in jobs /\ task[t].job \in Jobs
  BY DEF SchedulerInv, TableInv, TypeInv, TypeOK
<1>1. ASSUME NEW r \in {"succeeded", "failed"}, Ends(t, r),
             task[t].pc = "running", ~task[t].cancel
      PROVE  SchedulerInv'
  <2> DEFINE result == IF task[t].job \in Once THEN r ELSE "scheduled"
  <2>1. task[t].pc \in Alive
    BY <1>1 DEF Alive, Executing
  <2>2. /\ state' = [state EXCEPT ![task[t].job] = result]
        /\ UNCHANGED <<jobs, loop, cancelled>>
        /\ \/ /\ ~task[t].manual
              /\ task' = [task EXCEPT ![t].pc = "ending"]
              /\ UNCHANGED <<running, caller>>
           \/ /\ task[t].manual
              /\ task' = [task EXCEPT ![t] = NoTask]
              /\ Forget(task[t].job, t)
              /\ Done(t)
    BY <1>1 DEF Ends, SetState
  <2>3. /\ result \in JobStates /\ result # "running"
        /\ task[t].job \notin Once => result \notin {"succeeded", "failed"}
    BY DEF JobStates
  <2> HIDE DEF result
  <2>. QED  BY <1>1, <2>1, <2>2, <2>3, DoneStep
<1>2. CASE Succeeds(t)
  BY <1>1, <1>2 DEF Succeeds
<1>3. CASE Fails(t)
  <2>1. CASE /\ task' = [task EXCEPT ![t].pc = "backoff"]
             /\ UNCHANGED <<table, loop, stopEvent, caller, calls, cancelled>>
    <3> DEFINE x == [task[t] EXCEPT !.pc = "backoff"]
    <3>1. /\ x \in TaskState /\ x.pc \in Executing /\ x.job = task[t].job
          /\ x.manual = task[t].manual /\ x.cancel = task[t].cancel
      BY <1>t DEF TaskState, Alive, Executing
    <3>2. task' = [task EXCEPT ![t] = x] /\ task[t].pc \in Executing
      BY <1>3, <1>t, <2>1 DEF Fails, Executing
    <3> HIDE DEF x
    <3>. QED  BY <2>1, <3>1, <3>2, GoesOnStep DEF table
  <2>2. CASE Ends(t, "failed")
    BY <1>1, <1>3, <2>2 DEF Fails
  <2>. QED  BY <1>3, <2>1, <2>2 DEF Fails
<1>4. CASE Retries(t)
  <2> DEFINE x == [task[t] EXCEPT !.pc = "running", !.attempt = task[t].attempt + 1]
  <2>0. task[t].attempt + 1 \in 0..MaxAttempts
    <3>1. task[t].attempt \in 0..MaxAttempts /\ task[t].attempt < MaxAttempts
      BY <1>4, <1>t DEF Retries, TypeInv, BackoffHasAttempts, TaskState
    <3>. QED  BY <3>1, SchedulerAssumption
  <2>1. /\ x \in TaskState /\ x.pc \in Executing /\ x.job = task[t].job
        /\ x.manual = task[t].manual /\ x.cancel = task[t].cancel
    <3>1. "running" \in Executing /\ "running" \in {"free", "ending"} \cup Alive
      BY DEF Alive, Executing
    <3>. QED  BY <1>t, <2>0, <3>1 DEF TaskState
  <2>2. /\ task' = [task EXCEPT ![t] = x] /\ task[t].pc \in Executing
        /\ UNCHANGED <<jobs, state, running, loop, caller, cancelled>>
    BY <1>4, <1>t DEF Retries, Executing, table
  <2> HIDE DEF x
  <2>. QED  BY <2>1, <2>2, GoesOnStep
<1>5. CASE CancelArrives(t)
  <2>1. /\ task[t].pc \in Alive /\ task[t].cancel
        /\ UNCHANGED <<jobs, loop, cancelled>>
        /\ \/ /\ ~task[t].manual
              /\ task' = [task EXCEPT ![t].pc = "ending"]
              /\ UNCHANGED <<running, caller>>
           \/ /\ task[t].manual
              /\ task' = [task EXCEPT ![t] = NoTask]
              /\ Forget(task[t].job, t)
              /\ Done(t)
    BY <1>5 DEF CancelArrives
  <2>2. CASE task[t].pc = "new"
    <3>1. state' = state
      BY <1>5, <2>2 DEF CancelArrives
    <3>2. /\ state[task[t].job] \in JobStates /\ state[task[t].job] # "running"
          /\ task[t].job \notin Once => state[task[t].job] \notin {"succeeded", "failed"}
      <4>1. \A s \in Tasks : task[s].pc \in Executing => task[s].job # task[t].job
        BY <1>j, <2>1, <2>2 DEF SchedulerInv, TableInv, Alive, Executing
      <4>. QED  BY <1>j, <2>1, <4>1 DEF SchedulerInv, StateInv, Holders, TypeInv, TypeOK
    <3>3. state' = [state EXCEPT ![task[t].job] = state[task[t].job]]
      BY <3>1 DEF TypeInv, TypeOK
    <3>4. ~task[t].manual
      BY <2>2 DEF SchedulerInv, ManualInv
    <3>. QED  BY <2>1, <3>2, <3>3, <3>4, DoneStep
  <2>3. CASE task[t].pc # "new"
    <3>1. state' = [state EXCEPT ![task[t].job] = "cancelled"]
      BY <1>5, <2>3 DEF CancelArrives, SetState
    <3>2. "cancelled" \in JobStates
      BY DEF JobStates
    <3>. QED  BY <2>1, <3>1, <3>2, DoneStep
  <2>. QED  BY <2>2, <2>3
<1>. QED  BY <1>2, <1>3, <1>4, <1>5

\* A task that is done is forgotten, and the calls of cancel that await it return.
LEMMA DiscardStep ==
  ASSUME TypeInv, SchedulerInv, NEW t \in Tasks, Discard(t)
  PROVE  SchedulerInv'
<1>i. TableInv /\ ManualInv /\ StateInv /\ CancelInv /\ StopInv /\ CancelledInv
  BY DEF SchedulerInv
<1>z. /\ task \in [Tasks -> TaskState] /\ caller \in [Callers -> CallerState]
      /\ running \in [Jobs -> Tasks \cup {"none"}]
      /\ jobs \subseteq Jobs /\ cancelled \subseteq Jobs /\ t # "none"
  BY SchedulerAssumption DEF TypeInv, TypeOK, TaskState, CallerState
<1> DEFINE j == task[t].job
           cancelling == {c \in Callers : caller[c].pc = "cancelling" /\ t \in caller[c].waits}
<1>1. /\ task[t].pc = "ending"
      /\ task' = [task EXCEPT ![t] = NoTask]
      /\ \/ /\ cancelling # {} /\ j \in jobs
            /\ CancelEnds(j, t, \E c \in cancelling : caller[c].drop)
         \/ /\ cancelling = {} \/ j \notin jobs
            /\ Forget(j, t)
            /\ UNCHANGED <<jobs, state, next, cancelled>>
      /\ caller' = [c \in Callers |->
           IF c \in cancelling THEN NoCall ELSE [caller[c] EXCEPT !.waits = @ \ {t}]]
      /\ UNCHANGED loop
  BY DEF Discard
<1>2. \A c \in cancelling : caller[c].job = j /\ running[j] = t /\ j \in jobs
  <2> SUFFICES ASSUME NEW c \in cancelling
      PROVE  caller[c].job = j /\ running[j] = t /\ j \in jobs
    OBVIOUS
  <2>1. /\ caller[c].job \in jobs /\ caller[c].job \in Jobs
        /\ running[caller[c].job] = t
    BY <1>i, <1>z DEF CancelInv
  <2>. QED  BY <1>i, <1>z, <2>1 DEF TableInv
<1>3. \A c \in Callers \ cancelling :
        /\ caller'[c].pc = caller[c].pc
        /\ caller'[c].job = caller[c].job
        /\ caller'[c].task = caller[c].task
        /\ caller'[c].stopped = caller[c].stopped
        /\ caller'[c].waits = caller[c].waits \ {t}
  <2>1. \A c \in Callers : LET x == [caller[c] EXCEPT !.waits = @ \ {t}] IN
          /\ x.pc = caller[c].pc /\ x.job = caller[c].job /\ x.task = caller[c].task
          /\ x.stopped = caller[c].stopped /\ x.waits = caller[c].waits \ {t}
    BY <1>z DEF CallerState
  <2>2. \A c \in Callers \ cancelling : caller'[c] = [caller[c] EXCEPT !.waits = @ \ {t}]
    BY <1>1
  <2>. QED  BY <2>1, <2>2
<1>4. \A c \in cancelling : caller'[c].pc = "free"
  BY <1>1 DEF NoCall
<1>c. \A c \in Callers :
        caller[c].pc = "cancelling" /\ c \notin cancelling => t \notin caller[c].waits
  OBVIOUS
<1>5. /\ \A s \in Tasks \ {t} : task'[s] = task[s]
      /\ task'[t].pc = "free" /\ ~task'[t].manual
  BY <1>1, <1>z DEF NoTask
<1>6. \A s \in Tasks : /\ task[s].pc \in Alive => s # t
                       /\ task'[s].pc \in Alive => s # t /\ task[s].pc \in Alive
  BY <1>1, <1>5 DEF Alive, Executing
<1>7. Holders' = Holders /\ \A s \in Holders : task'[s] = task[s] /\ s # t
  BY <1>1, <1>5 DEF Holders, Executing
<1>8. /\ \A k \in Jobs \ {j} : running'[k] = running[k] /\ state'[k] = state[k]
      /\ j \in Jobs => running'[j] = IF running[j] = t THEN "none" ELSE running[j]
      /\ jobs' = jobs \/ (cancelling # {} /\ jobs' = jobs \ {j})
      /\ cancelling = {} => UNCHANGED <<state, cancelled>>
      /\ cancelling # {} /\ j \in jobs' => state'[j] = "cancelled"
      /\ cancelled' \in {cancelled, cancelled \cup {j}, cancelled \ {j}}
      /\ cancelling # {} => (j \in cancelled' <=> j \in jobs')
  <2>1. CASE cancelling # {}
    <3>1. j \in jobs /\ j \in Jobs /\ running[j] = t
      BY <1>2, <1>z, <2>1
    <3> DEFINE drop == \E c \in cancelling : caller[c].drop
    <3>d. drop \in BOOLEAN
      OBVIOUS
    <3>2. CancelEnds(j, t, drop)
      BY <2>1, <3>1 DEF Discard
    <3>3. \A s \in Tasks : task[s].pc \in Alive => task[s].job # j
      BY <1>i, <1>6, <3>1 DEF TableInv
    <3> HIDE DEF j, cancelling, drop
    <3>4. /\ jobs' \in {jobs, jobs \ {j}} /\ cancelled' \in {cancelled \cup {j}, cancelled \ {j}}
          /\ (drop <=> j \notin jobs') /\ (drop <=> j \notin cancelled')
          /\ \A k \in Jobs \ {j} : state'[k] = state[k] /\ running'[k] = running[k]
          /\ running'[j] = "none"
          /\ j \in jobs' => state'[j] = "cancelled"
      BY <3>1, <3>2, <3>3, <3>d, Cancelled
    <3>. QED  BY <2>1, <3>1, <3>4
  <2>2. CASE cancelling = {}
    <3>1. Forget(j, t) /\ UNCHANGED <<jobs, state, cancelled>>
      BY <1>1, <2>2
    <3>. QED  BY <1>z, <2>2, <3>1 DEF Forget
  <2>. QED  BY <2>1, <2>2
<1>9. \A s \in Tasks : task[s].pc \in Alive => task[s].job # j \/ cancelling = {}
  BY <1>i, <1>2, <1>6 DEF TableInv
<1>j. \A k \in Jobs : running[k] = t => k = j
  BY <1>i, <1>z DEF TableInv
<1> HIDE DEF j, cancelling
<1>10. TableInv'
  <2>1. ASSUME NEW s \in Tasks, task'[s].pc \in Alive
        PROVE  task'[s].job \in jobs' /\ running'[task'[s].job] = s
    <3>1. /\ task'[s] = task[s] /\ s # t /\ task[s].pc \in Alive
          /\ task[s].job \in jobs /\ task[s].job \in Jobs /\ running[task[s].job] = s
      BY <1>i, <1>z, <1>5, <1>6, <2>1 DEF TableInv
    <3>. QED  BY <1>8, <1>9, <3>1
  <2>2. ASSUME NEW k \in Jobs, running'[k] # "none"
        PROVE  task'[running'[k]].pc # "free" /\ task'[running'[k]].job = k
    <3>1. running'[k] = running[k] /\ running[k] # t
      BY <1>8, <1>j, <2>2
    <3>2. running[k] \in Tasks
      BY <1>z, <2>2, <3>1
    <3>. QED  BY <1>i, <1>5, <2>2, <3>1, <3>2 DEF TableInv
  <2>. QED  BY <2>1, <2>2 DEF TableInv
<1>11. ManualInv'
  BY <1>i, <1>5 DEF ManualInv
<1>12. StateInv'
  <2> SUFFICES ASSUME NEW k \in jobs'
      PROVE  /\ state'[k] = "running" <=> \E s \in Holders : task[s].job = k
             /\ k \notin Once => state'[k] \notin {"succeeded", "failed"}
    BY <1>7 DEF StateInv
  <2>0. k \in jobs /\ k \in Jobs
    BY <1>8, <1>z
  <2>1. CASE k # j \/ cancelling = {}
    BY <1>i, <1>8, <2>0, <2>1 DEF StateInv
  <2>2. CASE k = j /\ cancelling # {}
    <3>1. \A s \in Holders : task[s].job # j
      BY <1>9, <2>2 DEF Holders, Alive
    <3>. QED  BY <1>8, <2>2, <3>1
  <2>. QED  BY <2>1, <2>2
<1>13. CancelInv'
  <2>1. ASSUME NEW c \in Callers, caller'[c].pc = "cancelling"
        PROVE  /\ caller[c].pc = "cancelling" /\ caller'[c].job = caller[c].job
               /\ caller[c].job \in jobs'
               /\ \/ /\ caller'[c].waits = {caller'[c].task}
                     /\ caller'[c].task \in Tasks
                     /\ running'[caller[c].job] = caller'[c].task
                     /\ task'[caller[c].task].cancel
                     /\ caller'[c].task = caller[c].task
                  \/ /\ caller'[c].waits = {}
                     /\ running'[caller[c].job] = "none"
                     /\ state'[caller[c].job] = "cancelled"
    <3>1. /\ c \notin cancelling
          /\ caller[c].pc = "cancelling" /\ caller'[c].job = caller[c].job
          /\ caller'[c].task = caller[c].task /\ t \notin caller[c].waits
          /\ caller'[c].waits = caller[c].waits
      <4>1. c \notin cancelling
        BY <1>4, <2>1
      <4>2. /\ caller'[c].pc = caller[c].pc /\ caller'[c].job = caller[c].job
            /\ caller'[c].task = caller[c].task
            /\ caller'[c].waits = caller[c].waits \ {t}
        BY <1>3, <4>1
      <4>3. caller[c].pc = "cancelling" /\ t \notin caller[c].waits
        BY <1>c, <2>1, <4>1, <4>2
      <4>. QED  BY <4>1, <4>2, <4>3
    <3>2. caller[c].job \in jobs /\ caller[c].job \in Jobs
      BY <1>i, <1>z, <3>1 DEF CancelInv
    <3>3. caller[c].job # j \/ cancelling = {}
      <4>1. \A d \in cancelling : caller[d].job = j /\ caller[d].pc = "cancelling"
        BY <1>2 DEF cancelling, j
      <4>2. \A d \in cancelling : caller[d].job # caller[c].job
        BY <1>i, <3>1, <4>1 DEF CancelInv, cancelling
      <4>. QED  BY <4>1, <4>2
    <3>4. caller[c].job \in jobs' /\ state'[caller[c].job] = state[caller[c].job]
      BY <1>8, <3>2, <3>3
    <3>5. CASE caller[c].waits = {}
      <4>1. running[caller[c].job] = "none" /\ state[caller[c].job] = "cancelled"
        BY <1>i, <3>1, <3>5 DEF CancelInv
      <4>2. running'[caller[c].job] = "none"
        BY <1>8, <3>2, <4>1
      <4>. QED  BY <3>1, <3>4, <3>5, <4>1, <4>2
    <3>6. CASE caller[c].waits # {}
      <4>1. /\ caller[c].waits = {caller[c].task}
            /\ caller[c].task \in Tasks
            /\ running[caller[c].job] = caller[c].task
            /\ task[caller[c].task].cancel
        BY <1>i, <3>1, <3>6 DEF CancelInv
      <4>2. caller[c].task # t
        BY <3>1, <4>1
      <4>3. running'[caller[c].job] = caller[c].task /\ task'[caller[c].task] = task[caller[c].task]
        BY <1>5, <1>8, <3>2, <4>1, <4>2
      <4>. QED  BY <3>1, <3>4, <4>1, <4>3
    <3>. QED  BY <3>5, <3>6
  <2>2. \A c \in Callers : caller'[c].pc = "cancelling" =>
          /\ caller'[c].job \in jobs'
          /\ \/ /\ caller'[c].waits = {caller'[c].task}
                /\ caller'[c].task \in Tasks
                /\ running'[caller'[c].job] = caller'[c].task
                /\ task'[caller'[c].task].cancel
             \/ /\ caller'[c].waits = {}
                /\ running'[caller'[c].job] = "none"
                /\ state'[caller'[c].job] = "cancelled"
    BY <2>1
  <2>3. \A c, d \in Callers :
          /\ caller'[c].pc = "cancelling"
          /\ caller'[d].pc = "cancelling"
          /\ caller'[c].job = caller'[d].job
          => c = d
    BY <1>i, <2>1 DEF CancelInv
  <2>. QED  BY <2>2, <2>3 DEF CancelInv
<1>14. StopInv'
  <2>1. \A c \in Callers : caller'[c].pc \in {"stopping", "gathering"} =>
          caller'[c].pc = caller[c].pc /\ c \notin cancelling
    BY <1>3, <1>4
  <2>2. \A c \in Callers : caller'[c].pc \in {"stopping", "gathering"} =>
          \A d \in Callers \ {c} : caller'[d].pc = "free"
    BY <1>i, <1>3, <1>4, <2>1 DEF StopInv
  <2>3. \A c \in Callers : caller'[c].pc = "gathering" =>
          /\ ~loop'
          /\ \A s \in Tasks : task'[s].pc \in Alive => s \in caller'[c].waits
    BY <1>i, <1>1, <1>3, <1>6, <2>1 DEF StopInv
  <2>4. \A c \in Callers : caller'[c].pc = "gathering" => caller'[c].stopped \cap cancelled' = {}
    <3> SUFFICES ASSUME NEW c \in Callers, caller'[c].pc = "gathering"
        PROVE  caller'[c].stopped \cap cancelled' = {}
      OBVIOUS
    <3>1. caller[c].pc = "gathering" /\ caller'[c].stopped = caller[c].stopped
      BY <1>3, <2>1
    <3>2. cancelling = {}
      BY <1>i, <3>1 DEF StopInv, cancelling
    <3>. QED  BY <1>i, <1>8, <3>1, <3>2 DEF StopInv
  <2>. QED  BY <2>2, <2>3, <2>4 DEF StopInv
<1>15. CancelledInv'
  <2>1. cancelled' \subseteq jobs'
    BY <1>i, <1>8 DEF CancelledInv
  <2>2. \A k \in cancelled' : state'[k] = "cancelled"
    <3> SUFFICES ASSUME NEW k \in cancelled' PROVE state'[k] = "cancelled"
      OBVIOUS
    <3>1. k \in jobs' /\ k \in jobs /\ k \in Jobs
      BY <1>8, <1>z, <2>1
    <3>2. CASE cancelling = {}
      BY <1>i, <1>8, <3>2 DEF CancelledInv, CancelledStays
    <3>3. CASE cancelling # {} /\ k = j
      BY <1>8, <3>1, <3>3
    <3>4. CASE cancelling # {} /\ k # j
      BY <1>i, <1>8, <3>1, <3>4 DEF CancelledInv, CancelledStays
    <3>. QED  BY <3>2, <3>3, <3>4
  <2>3. \A k \in cancelled', s \in Tasks : task'[s].job = k => task'[s].pc \notin Alive
    <3> SUFFICES ASSUME NEW k \in cancelled', NEW s \in Tasks, task'[s].job = k,
                        task'[s].pc \in Alive
        PROVE  FALSE
      OBVIOUS
    <3>1. s # t /\ task[s].pc \in Alive /\ task[s].job = k
      BY <1>5, <1>6
    <3>2. k \notin cancelled
      BY <1>i, <3>1 DEF CancelledInv, CancelledStays
    <3>3. k = j /\ cancelling # {}
      BY <1>8, <3>2
    <3>. QED  BY <1>9, <3>1, <3>3
  <2>. QED  BY <2>1, <2>2, <2>3 DEF CancelledInv, CancelledStays
<1>. QED  BY <1>10, <1>11, <1>12, <1>13, <1>14, <1>15 DEF SchedulerInv

\* A stop goes on once the loop has ended; it is then the only call under way.
LEMMA StopLoopEndedStep ==
  ASSUME TypeInv, SchedulerInv, NEW c \in Callers, StopLoopEnded(c)
  PROVE  /\ SchedulerInv'
         /\ ~loop'
         /\ caller'[c].pc = "free" => \A t \in Tasks : task'[t].pc \notin Alive
<1>1. StopTasks(c) /\ ~loop /\ \A d \in Callers \ {c} : caller[d].pc = "free"
  BY DEF StopLoopEnded, SchedulerInv, StopInv
<1>2. ~loop'
  BY <1>1 DEF StopTasks
<1>. QED  BY <1>1, <1>2, StopTasksStep

\* The loop ends, time passes, or nothing happens.
LEMMA IdleStep ==
  ASSUME SchedulerInv, LoopEnds \/ (\E j \in Jobs : Pass(j)) \/ UNCHANGED vars
  PROVE  SchedulerInv'
<1>1. /\ UNCHANGED <<jobs, state, running, task, caller, cancelled>>
      /\ loop' = loop \/ ~loop'
  BY DEF LoopEnds, Pass, vars, table
<1>. QED
  BY <1>1 DEF SchedulerInv, TableInv, ManualInv, StateInv, CancelInv, StopInv, CancelledInv,
              CancelledStays, Holders

\* Every step preserves these facts, as long as the calls that must not overlap
\* do not.
LEMMA SchedulerStep ==
  ASSUME ~Overlapping, TypeInv, SchedulerInv, [Next]_vars
  PROVE  SchedulerInv'
<1>1. CASE Interface
  BY <1>1, StartStep, PlanStep, RunNowStep, StopStep, CancelStep DEF Interface
<1>2. CASE LoopRound
  BY <1>2, LoopRoundStep
<1>3. ASSUME NEW t \in Tasks, Step(t) \/ Admit(t)
      PROVE  SchedulerInv'
  BY <1>3, BeginStep, ExecutionStep, DiscardStep DEF Step
<1>4. ASSUME NEW c \in Callers, Return(c)
      PROVE  SchedulerInv'
  BY <1>4, CancelReturnsStep, StopLoopEndedStep, StopReturnsStep DEF Return
<1>5. CASE LoopEnds \/ (\E j \in Jobs : Pass(j)) \/ UNCHANGED vars
  BY <1>5, IdleStep
<1>. QED  BY <1>1, <1>2, <1>3, <1>4, <1>5 DEF Next

\* At first nothing is registered and nothing is executed.
LEMMA SchedulerInit == Init => SchedulerInv
<1> SUFFICES ASSUME Init PROVE SchedulerInv
  OBVIOUS
<1>1. /\ \A t \in Tasks : task[t].pc = "free" /\ ~task[t].manual
      /\ \A c \in Callers : caller[c].pc = "free"
      /\ jobs = {} /\ cancelled = {}
      /\ \A j \in Jobs : running[j] = "none"
  BY DEF Init, NoTask, NoCall
<1>2. "free" \notin Alive
  BY DEF Alive, Executing
<1>. QED
  BY <1>1, <1>2 DEF SchedulerInv, TableInv, ManualInv, StateInv, CancelInv, StopInv,
                    CancelledInv, CancelledStays

\* The facts above hold at all times when no stop overlaps another call and no
\* two calls of cancel are about the same job.
LEMMA SchedulerInvariant ==
  ASSUME ~Overlapping
  PROVE  Spec => [](TypeInv /\ SchedulerInv)
<1>1. TypeInv /\ SchedulerInv /\ [Next]_vars => (TypeInv /\ SchedulerInv)'
  BY SchedulerStep, TypeStep
<1>. QED  BY <1>1, TypeInit, SchedulerInit, PTL DEF Spec

\* A job never has two executions under way, be they the loop's or a caller's
\* (_run_loop, run_now, _discard_running).
THEOREM SingleExecution ==
  ASSUME ~Overlapping
  PROVE  Spec => []OneExecution
<1>1. SchedulerInv => OneExecution
  BY DEF SchedulerInv, TableInv, OneExecution
<1>. QED  BY <1>1, SchedulerInvariant, PTL

\* A job whose cancel has returned stays cancelled and is not executed (cancel,
\* run_now, _run_loop).
THEOREM CancelledStay ==
  ASSUME ~Overlapping
  PROVE  Spec => []CancelledStays
<1>1. SchedulerInv => CancelledStays
  BY DEF SchedulerInv, CancelledInv
<1>. QED  BY <1>1, SchedulerInvariant, PTL

\* The table says "running" of a job exactly while a task holds the semaphore
\* for it (_execute, _execute_callback, cancel, stop).
THEOREM RunningTrue ==
  ASSUME ~Overlapping
  PROVE  Spec => []RunningIsTrue
<1>1. SchedulerInv => RunningIsTrue
  BY DEF SchedulerInv, StateInv, RunningIsTrue
<1>. QED  BY <1>1, SchedulerInvariant, PTL

\* When stop returns the loop is gone and nothing is executed (stop).
THEOREM StopsClean ==
  ASSUME ~Overlapping
  PROVE  Spec => StopIsClean
<1> DEFINE Clean ==
      \A c \in Callers :
        caller[c].pc \in {"stopping", "gathering"} /\ caller'[c].pc = "free"
          => ~loop' /\ \A t \in Tasks : task'[t].pc \notin Alive
<1>1. TypeInv /\ SchedulerInv /\ [Next]_vars => [Clean]_vars
  <2> SUFFICES ASSUME TypeInv, SchedulerInv, Next,
                      NEW c \in Callers, caller[c].pc \in {"stopping", "gathering"},
                      caller'[c].pc = "free"
      PROVE  ~loop' /\ \A t \in Tasks : task'[t].pc \notin Alive
    OBVIOUS
  <2>c. caller \in [Callers -> CallerState]
    BY DEF TypeInv, TypeOK, CallerState
  <2>0. caller'[c].pc # caller[c].pc
    OBVIOUS
  <2>1. CASE Interface
    <3>1. Call
      BY <2>1 DEF Interface, Start, Register, Pause, Resume, RunNow, Stop, Cancel
    <3>. QED  BY <3>1, CallAlone
  <2>2. CASE LoopRound \/ LoopEnds \/ \E j \in Jobs : Pass(j)
    BY <2>0, <2>2 DEF LoopRound, LoopEnds, Pass
  <2>3. ASSUME NEW t \in Tasks, Step(t) \/ Admit(t)
        PROVE  FALSE
    <3>1. \A x \in CallerState : [x EXCEPT !.waits = @ \ {t}].pc = x.pc
      BY DEF CallerState
    <3>2. CASE caller' = caller \/ Done(t)
      BY <2>0, <2>c, <3>1, <3>2 DEF Done
    <3>3. CASE Discard(t)
      <4>1. caller'[c] = [caller[c] EXCEPT !.waits = @ \ {t}]
        BY <3>3 DEF Discard
      <4>. QED  BY <2>0, <2>c, <3>1, <4>1
    <3>. QED
      BY <2>3, <3>2, <3>3
         DEF Step, Begin, Admit, Succeeds, Fails, Retries, CancelArrives, Ends
  <2>4. ASSUME NEW d \in Callers, Return(d)
        PROVE  ~loop' /\ \A t \in Tasks : task'[t].pc \notin Alive
    <3>1. CASE StopReturns(d)
      BY <3>1, StopReturnsStep
    <3>2. CASE StopLoopEnded(d)
      <4>1. c = d
        BY <3>2 DEF StopLoopEnded, SchedulerInv, StopInv
      <4>. QED  BY <3>2, <4>1, StopLoopEndedStep
    <3>3. CASE CancelReturns(d)
      <4>1. c # d /\ caller' = [caller EXCEPT ![d] = NoCall]
        BY <3>3 DEF CancelReturns
      <4>. QED  BY <2>0, <2>c, <4>1
    <3>. QED  BY <2>4, <3>1, <3>2, <3>3 DEF Return
  <2>. QED  BY <2>1, <2>2, <2>3, <2>4 DEF Next
<1>. QED  BY <1>1, SchedulerInvariant, PTL DEF Spec, StopIsClean
=============================================================================
