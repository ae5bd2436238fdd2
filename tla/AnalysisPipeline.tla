-------------------------- MODULE AnalysisPipeline --------------------------
(* One scheduled analysis workflow (application/workflows.py) and the        *)
(* pipeline of engines it runs (application/orchestrator.py, registry.py).   *)
(* Each try of the task makes a run; the run writes its state, its events    *)
(* and its audit records one after the other, and any write may raise,       *)
(* having been made or not.  The scheduler tries a task that raised again    *)
(* and runs one task of a job at a time; a task is cut off by a cancellation *)
(* or with its process.  What the engines compute is EngineGates.            *)
EXTENDS Integers, FiniteSets, Sequences

CONSTANTS
  Stages,          \* engines of the pipeline, in their order: 1 .. Stages
  BlockingStages,  \* engines whose result may block the run
  RetryableStages, \* engines that are called again after a failure
  TaskTries,       \* the scheduler's attempts
  MaxRuns,         \* bound: runs made
  MaxPipelineFaults\* bound: writes that raise and tasks that are cut off

ASSUME PipelineAssumption ==
  /\ Stages \in Nat \ {0} /\ BlockingStages \cup RetryableStages \subseteq 1 .. Stages
  /\ TaskTries \in Nat \ {0}

VARIABLES
  task,        \* the workflow task: where it is, its try, the status and call of its run
  job,         \* state "openclaw_workflows": the job's status
  runs,        \* the runs, each with its state, trail and outputs
  unwritten,   \* history: the job's status could not be written, or its task was cut off
  abandoned,   \* history: runs left by a write that raised or by a cut
  pipelineFaults

pipelineVars == <<task, job, runs, unwritten, abandoned, pipelineFaults>>

IdleTask == [at |-> "idle", try |-> 0, status |-> "running", call |-> 1]
NewRun == [stored |-> "none", outputs |-> 0, events |-> {}, audits |-> {}, denied |-> FALSE,
           delivered |-> 0]
FinalStatuses == {"completed", "blocked", "failed"}

PipelineInit ==
  /\ task = IdleTask /\ job = "none" /\ runs = <<>>
  /\ unwritten = FALSE /\ abandoned = {} /\ pipelineFaults = 0

At(place) == task.at = place
GoTo(place) == task' = [task EXCEPT !.at = place]
Now == Len(runs)
ThisRun == runs[Now]
InThisRun(run) == runs' = [runs EXCEPT ![Now] = run]
Published(event) == [ThisRun EXCEPT !.events = @ \cup {event}]
Audited(action) == [ThisRun EXCEPT !.audits = @ \cup {action}]
PipelineFault == pipelineFaults < MaxPipelineFaults /\ pipelineFaults' = pipelineFaults + 1

(* A write of the run: it is made and the run goes on, or it raises.         *)
Writes(run, next, raised) ==
  \/ InThisRun(run) /\ GoTo(next) /\ UNCHANGED <<job, unwritten, abandoned, pipelineFaults>>
  \/ /\ PipelineFault /\ GoTo(raised)
     /\ \E made \in {run, ThisRun} : InThisRun(made)
     /\ abandoned' = IF raised = "escaped" THEN abandoned \cup {Now} ELSE abandoned
     /\ UNCHANGED <<job, unwritten>>

(* A write of the job's status.                                              *)
WritesJob(status, next) ==
  \/ job' = status /\ unwritten' = FALSE /\ GoTo(next) /\ UNCHANGED pipelineFaults
  \/ /\ PipelineFault /\ GoTo("raised")
     /\ \E made \in {status, job} : job' = made
     /\ unwritten' = TRUE

-----------------------------------------------------------------------------
(* The scheduler starts the task, and tries one that raised again.           *)
StartTask ==
  /\ At("idle") \/ (At("raised") /\ task.try < TaskTries)
  /\ Now < MaxRuns
  /\ task' = [IdleTask EXCEPT !.at = "mark", !.try = IF At("idle") THEN 1 ELSE task.try + 1]
  /\ UNCHANGED <<job, runs, unwritten, abandoned, pipelineFaults>>

GiveUpTask ==
  /\ At("raised") /\ task.try = TaskTries /\ task' = IdleTask
  /\ UNCHANGED <<job, runs, unwritten, abandoned, pipelineFaults>>

MarkJob == At("mark") /\ WritesJob("running", "execute") /\ UNCHANGED <<runs, abandoned>>

(* execute: a request that is stale or of the future raises before its run.  *)
MakeRun ==
  /\ At("execute")
  /\ \/ runs' = Append(runs, NewRun) /\ GoTo("authorize")
     \/ GoTo("escaped") /\ UNCHANGED runs
  /\ UNCHANGED <<job, unwritten, abandoned, pipelineFaults>>

Authorize ==
  /\ At("authorize")
  /\ \/ GoTo("opened") /\ UNCHANGED runs
     \/ /\ InThisRun([ThisRun EXCEPT !.denied = TRUE])
        /\ task' = [task EXCEPT !.at = "finish", !.status = "failed"]
  /\ UNCHANGED <<job, unwritten, abandoned, pipelineFaults>>

OpenRun == At("opened") /\ Writes(Published("run.started"), "created", "escaped")
AuditCreated == At("created") /\ Writes(Audited("created"), "running", "escaped")
StoreRunning ==
  At("running") /\ Writes([ThisRun EXCEPT !.stored = "running"], "stage", "escaped")

-----------------------------------------------------------------------------
(* One engine after the other; the event before the call is outside the try. *)
Engine == ThisRun.outputs + 1
BeginStage ==
  /\ At("stage")
  /\ IF ThisRun.outputs < Stages THEN Writes(Published("stage.started"), "call", "escaped")
     ELSE /\ task' = [task EXCEPT !.at = "finish", !.status = "completed"]
          /\ UNCHANGED <<job, runs, unwritten, abandoned, pipelineFaults>>

(* The request cannot be built, the engine raises or its time is up, its     *)
(* output is missing, invalid or of another symbol.                          *)
CallEngine ==
  /\ At("call")
  /\ \/ InThisRun([ThisRun EXCEPT !.outputs = @ + 1]) /\ GoTo("output")
     \/ /\ task' = IF Engine \in RetryableStages /\ task.call = 1
                   THEN [task EXCEPT !.call = 2] ELSE [task EXCEPT !.at = "failing"]
        /\ UNCHANGED runs
  /\ UNCHANGED <<job, unwritten, abandoned, pipelineFaults>>

CompleteStage == At("output") /\ Writes(Published("stage.completed"), "judge", "failing")

JudgeOutput ==
  /\ At("judge")
  /\ \/ task' = [task EXCEPT !.at = "stage", !.call = 1]
     \/ ThisRun.outputs \in BlockingStages /\ GoTo("blocking")
  /\ UNCHANGED <<job, runs, unwritten, abandoned, pipelineFaults>>

PublishBlocked == At("blocking") /\ Writes(Published("run.blocked"), "block_audit", "failing")
AuditBlocked ==
  /\ At("block_audit")
  /\ \/ /\ InThisRun(Audited("blocked"))
        /\ task' = [task EXCEPT !.at = "finish", !.status = "blocked"]
        /\ UNCHANGED <<job, unwritten, abandoned, pipelineFaults>>
     \/ /\ PipelineFault /\ GoTo("failing")
        /\ \E made \in {Audited("blocked"), ThisRun} : InThisRun(made)
        /\ UNCHANGED <<job, unwritten, abandoned>>

(* The except branch: a write that raises here leaves the run.               *)
PublishFailed == At("failing") /\ Writes(Published("stage.failed"), "fail_audit", "escaped")
AuditFailed ==
  /\ At("fail_audit")
  /\ \/ /\ InThisRun(Audited("failed"))
        /\ task' = [task EXCEPT !.at = "finish", !.status = "failed"]
        /\ UNCHANGED <<job, unwritten, abandoned, pipelineFaults>>
     \/ /\ PipelineFault /\ GoTo("escaped")
        /\ \E made \in {Audited("failed"), ThisRun} : InThisRun(made)
        /\ abandoned' = abandoned \cup {Now} /\ UNCHANGED <<job, unwritten>>

-----------------------------------------------------------------------------
\* Mutant: a run that reached its finish is stored as completed, however it ended.
StoreCompleted ==
  At("finish") /\ Writes([ThisRun EXCEPT !.stored = "completed"], "finished", "escaped")

(* _finish *)
StoreFinal ==
  At("finish") /\ Writes([ThisRun EXCEPT !.stored = task.status], "finished", "escaped")
PublishFinal == At("finished") /\ Writes(Published("run." \o task.status), "approve", "escaped")
AuditApproved ==
  /\ At("approve")
  /\ IF task.status = "completed" THEN Writes(Audited("approved"), "deliver", "escaped")
     ELSE GoTo("deliver") /\ UNCHANGED <<job, runs, unwritten, abandoned, pipelineFaults>>

(* deliver_safely swallows what delivery raises.                             *)
DeliverResult ==
  /\ At("deliver") /\ GoTo("mark_result")
  /\ \E sent \in {0, 1} : InThisRun([ThisRun EXCEPT !.delivered = @ + sent])
  /\ UNCHANGED <<job, unwritten, abandoned, pipelineFaults>>

(* The job takes the run's status, or "failed" when execute raised.          *)
MarkResult == At("mark_result") /\ WritesJob(task.status, "idle") /\ UNCHANGED <<runs, abandoned>>
MarkFailed == At("escaped") /\ WritesJob("failed", "raised") /\ UNCHANGED <<runs, abandoned>>

CutTask ==
  /\ ~At("idle") /\ PipelineFault /\ task' = IdleTask
  /\ unwritten' = TRUE /\ abandoned' = abandoned \cup (IF Now = 0 THEN {} ELSE {Now})
  /\ UNCHANGED <<job, runs>>

PipelineNext ==
  \/ StartTask \/ GiveUpTask \/ MarkJob \/ MakeRun \/ Authorize
  \/ OpenRun \/ AuditCreated \/ StoreRunning
  \/ BeginStage \/ CallEngine \/ CompleteStage \/ JudgeOutput \/ PublishBlocked \/ AuditBlocked
  \/ PublishFailed \/ AuditFailed \/ StoreFinal \/ PublishFinal \/ AuditApproved
  \/ DeliverResult \/ MarkResult \/ MarkFailed \/ CutTask

PipelineTypeOK ==
  /\ job \in {"none", "running"} \cup FinalStatuses /\ task.try \in 0 .. TaskTries
  /\ \A r \in DOMAIN runs : runs[r].stored \in {"none", "running"} \cup FinalStatuses
                            /\ runs[r].outputs \in 0 .. Stages /\ runs[r].delivered \in 0 .. 1

-----------------------------------------------------------------------------
\* The stored status of a run and its audit records tell one story, whatever
\* write raised: an approved run ran every engine and nothing stopped it, a
\* blocked or failed one has the record that says so.
TrailsAgree ==
  \A r \in DOMAIN runs : LET run == runs[r] IN
    /\ "approved" \in run.audits => run.stored = "completed"
    /\ run.stored = "completed" =>
         run.outputs = Stages /\ run.audits \cap {"failed", "blocked"} = {}
                              /\ run.events \cap {"stage.failed", "run.blocked"} = {}
    /\ run.stored = "blocked" => "blocked" \in run.audits /\ "stage.failed" \notin run.events
    /\ run.stored = "failed" => run.denied \/ "failed" \in run.audits

\* A run stored as running is being run, or was abandoned: by a write outside
\* the guarded part that raised, or by a cut.
RunsAreRun ==
  \A r \in DOMAIN runs :
    runs[r].stored = "running" => r \in abandoned \/ (r = Now /\ ~At("idle") /\ ~At("raised"))

\* A result is delivered once, and after its status was stored.
DeliveredOnce ==
  \A r \in DOMAIN runs :
    runs[r].delivered > 0 => runs[r].delivered = 1 /\ runs[r].stored \in FinalStatuses

\* Between two tasks the job's status is that of its last run, unless a write
\* that raised or a cut kept it from being told.
JobIsTrue ==
  At("idle") /\ ~unwritten /\ job # "none" =>
    \/ job = "failed"
    \/ Now > 0 /\ job = ThisRun.stored

PipelineSound == TrailsAgree /\ RunsAreRun /\ DeliveredOnce /\ JobIsTrue

\* A run that has its final status keeps it.
FinalIsFinal ==
  [][\A r \in DOMAIN runs :
       runs[r].stored \in FinalStatuses => runs'[r].stored = runs[r].stored]_pipelineVars
=============================================================================
