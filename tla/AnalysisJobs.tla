---------------------------- MODULE AnalysisJobs ----------------------------
(***************************************************************************)
(* Durable analysis jobs: the analysis_jobs rows of PostgreSQL and every   *)
(* actor that reads and overwrites them.                                   *)
(*                                                                         *)
(*   - the web handlers that create a job and that request cancellation    *)
(*     (internal/adapters/webapi/server.go);                               *)
(*   - the dispatcher of vod-web that reconciles queued jobs and requested *)
(*     cancellations with Temporal (temporalworkflow/dispatcher.go);       *)
(*   - the workflow ProcessAnalysisWorkflow as the Temporal service runs   *)
(*     it (temporalworkflow/workflow.go);                                  *)
(*   - the activities of vod-worker (temporalworkflow/activities.go).      *)
(*                                                                         *)
(* UpdateAnalysisJob overwrites the whole row and has no guard on what the *)
(* row has become since it was read.  Every actor therefore works on a     *)
(* local copy between its FindAnalysisJob and its UpdateAnalysisJob, and   *)
(* the two are separate steps here.                                        *)
(***************************************************************************)
EXTENDS Naturals, FiniteSets

CONSTANTS
  Jobs,           \* the jobs users may submit
  Requests,       \* the cancellation requests users may send, one handler each
  Corrupt,        \* jobs whose stored request this build cannot decode or bind
  MaxAttempts,    \* attempts Temporal grants the RunAnalysis activity
  MaxFinalTries,  \* attempts Temporal grants a finalization activity
  Reports,        \* progress reports one run of the executor makes
  BatchSize,      \* rows one pass of the dispatcher lists
  Faults,         \* the kinds of fault of this instance
  MaxFaults       \* how many faults may happen (bound of the model)

FaultKinds == {"rpc", "db", "crash", "timeout"}

ASSUME ParameterAssumption ==
  /\ IsFiniteSet(Jobs)
  /\ Corrupt \subseteq Jobs
  /\ MaxAttempts \in Nat \ {0}
  /\ MaxFinalTries \in Nat \ {0}
  /\ Reports \in Nat
  /\ BatchSize \in Nat \ {0}
  /\ Faults \subseteq FaultKinds
  /\ MaxFaults \in Nat

VARIABLES
  row,       \* the analysis_jobs table
  created,   \* per job, its created_at as a rank; 0 before it is inserted
  submit,    \* per job, where the handler that creates it stands
  cancel,    \* per cancellation request, where its handler stands
  dispatch,  \* the dispatcher's pass over the table
  workflow,  \* per job, its workflow execution at the Temporal service
  act,       \* per job, the executions of its activities in the workers
  faults,    \* faults so far
  reported,  \* history: jobs whose executor returned a saved report
  asked,     \* history: jobs a user asked to cancel while they were active
  settled    \* history: jobs whose row ever took a terminal status

vars == <<row, created, submit, cancel, dispatch, workflow, act, faults,
          reported, asked, settled>>

-----------------------------------------------------------------------------
(* Rows.  Only the columns the handlers decide on are kept: the progress    *)
(* percentage follows the stage, message and error are text.                *)

Terminal == {"completed", "failed", "cancelled"}
Active == {"queued", "running"}

Statuses == {"absent"} \cup Active \cup Terminal
Stages == {"absent", "queued", "starting", "working"} \cup Terminal

Row == [status : Statuses, stage : Stages, cancel : BOOLEAN,
        attempts : 0..MaxAttempts, finished : BOOLEAN, report : BOOLEAN]

NoRow == [status |-> "absent", stage |-> "absent", cancel |-> FALSE,
          attempts |-> 0, finished |-> FALSE, report |-> FALSE]

QueuedRow == [NoRow EXCEPT !.status = "queued", !.stage = "queued"]

\* RunAnalysis marks the job running; it does not clear finished_at.
MarkRunning(r, n) ==
  [r EXCEPT !.status = "running", !.stage = "starting", !.attempts = n]

MarkProgress(r) == [r EXCEPT !.stage = "working"]

MarkCompleted(r) ==
  [r EXCEPT !.status = "completed", !.stage = "completed",
            !.finished = TRUE, !.report = TRUE]

MarkFailed(r) ==
  [r EXCEPT !.status = "failed", !.stage = "failed", !.finished = TRUE]

MarkCancelled(r) ==
  [r EXCEPT !.status = "cancelled", !.stage = "cancelled",
            !.cancel = TRUE, !.finished = TRUE]

RequestCancel(r) == [r EXCEPT !.cancel = TRUE]

\* UpdateAnalysisJob: UPDATE ... WHERE id, no condition on the row's state.
Overwrite(j, r) ==
  /\ row' = [row EXCEPT ![j] = r]
  /\ settled' = IF r.status \in Terminal THEN settled \cup {j} ELSE settled

KeepRows == UNCHANGED <<row, settled>>

Fault(kind) ==
  /\ kind \in Faults
  /\ faults < MaxFaults
  /\ faults' = faults + 1

\* An UpdateAnalysisJob that returns an error: the connection may be lost
\* before or after the statement took effect.
FailedOverwrite(j, r) ==
  /\ Fault("db")
  /\ Overwrite(j, r) \/ KeepRows

-----------------------------------------------------------------------------
(* The Temporal service.  A job's workflow has its job ID, a finished ID is *)
(* never run again, and a phase of the workflow is the activity it awaits.  *)

Phases == {"none", "run", "complete", "fail", "cancel", "closed"}
Finalizers == {"complete", "fail", "cancel"}
Kinds == {"run"} \cup Finalizers

Tries(kind) == IF kind = "run" THEN MaxAttempts ELSE MaxFinalTries
Slots == {s \in Kinds \X (1..(MaxAttempts + MaxFinalTries)) : s[2] <= Tries(s[1])}

Workflow == [phase : Phases, try : 0..(MaxAttempts + MaxFinalTries),
             cancelled : BOOLEAN]

NoWorkflow == [phase |-> "none", try |-> 0, cancelled |-> FALSE]

Enter(w, phase) == [w EXCEPT !.phase = phase, !.try = 1]
Close(w) == [w EXCEPT !.phase = "closed", !.try = 0]
Retry(w) == [w EXCEPT !.try = @ + 1]

IsOpen(w) == w.phase \in Kinds
Awaits(w, slot) == w.phase = slot[1] /\ w.try = slot[2]

MayRetry(w) == w.try < Tries(w.phase) /\ ~(w.phase = "run" /\ w.cancelled)

\* StartAnalysisWorkflow: conflict policy USE_EXISTING, reuse policy
\* REJECT_DUPLICATE.
StartWorkflow(j) ==
  workflow' = [workflow EXCEPT ![j] = IF @.phase = "none" THEN Enter(@, "run") ELSE @]

\* CancelAnalysisWorkflow: an error for a workflow that is not open.  The
\* completion activity runs under the workflow's own context, so cancelling
\* while it is awaited abandons it; RunAnalysis is waited for, the
\* finalizers of a failure or a cancellation are disconnected.
CancelWorkflow(j) ==
  workflow' =
    [workflow EXCEPT ![j] =
      IF ~IsOpen(@) THEN @
      ELSE IF @.phase = "complete" THEN [Enter(@, "cancel") EXCEPT !.cancelled = TRUE]
      ELSE [@ EXCEPT !.cancelled = TRUE]]

\* Mutant: the error of RunAnalysis is dropped.
AfterDroppedError(w, outcome) ==
  CASE outcome \in {"ok", "error"} ->
         {IF w.phase # "run" THEN Close(w)
          ELSE IF w.cancelled THEN Enter(w, "cancel") ELSE Enter(w, "complete")}
    [] outcome \in {"canceled", "refused"} -> {Enter(w, "cancel")}

\* What the workflow does with the outcome of the activity it awaits.
\* "refused" is a CanceledError the activity returns by itself because of
\* the row's flag: the SDK reports it as a cancellation only when the
\* activity's context has been cancelled too, and otherwise as a failure to
\* retry whose cause is the cancellation.
After(w, outcome) ==
  CASE outcome = "ok" ->
         {IF w.phase # "run" THEN Close(w)
          ELSE IF w.cancelled THEN Enter(w, "cancel") ELSE Enter(w, "complete")}
    [] outcome = "canceled" -> {Enter(w, "cancel")}
    [] outcome = "refused" ->
         {Enter(w, "cancel")} \cup (IF MayRetry(w) THEN {Retry(w)} ELSE {})
    [] outcome = "error" ->
         {IF MayRetry(w) THEN Retry(w)
          ELSE IF w.phase = "run" THEN Enter(w, "fail") ELSE Close(w)}

\* A result of an execution the service has already given up is discarded.
Deliver(j, slot, outcome) ==
  IF Awaits(workflow[j], slot)
    THEN \E w \in After(workflow[j], outcome) : workflow' = [workflow EXCEPT ![j] = w]
    ELSE UNCHANGED workflow

-----------------------------------------------------------------------------
(* Executions of activities in the workers.                                 *)

Off == [pc |-> "off", copy |-> NoRow, left |-> 0]
Done == [Off EXCEPT !.pc = "done"]
Dead == [Off EXCEPT !.pc = "dead"]

Pcs == {"off", "ready", "mark", "exec", "report", "write", "done", "dead"}
Execution == [pc : Pcs, copy : Row, left : 0..Reports]

Alive(e) == e.pc \in {"ready", "mark", "exec", "report", "write"}

SetAct(j, slot, e) == act' = [act EXCEPT ![j][slot] = e]

Finish(j, slot, outcome) ==
  /\ SetAct(j, slot, Done)
  /\ Deliver(j, slot, outcome)

-----------------------------------------------------------------------------

Request == [pc : {"idle", "write", "call", "done", "gone"}, job : Jobs, copy : Row]

IdleRequest(j) == [pc |-> "idle", job |-> j, copy |-> NoRow]

\* Of the rows a pass has listed only failCorruptJob uses more than the ID:
\* rows keeps the listed copies of corrupt jobs.
Dispatch == [pc : {"idle", "start", "cancel"}, jobs : SUBSET Jobs, rows : [Jobs -> Row]]

IdleDispatch == [pc |-> "idle", jobs |-> {}, rows |-> [j \in Jobs |-> NoRow]]

Init ==
  /\ row = [j \in Jobs |-> NoRow]
  /\ created = [j \in Jobs |-> 0]
  /\ submit = [j \in Jobs |-> "idle"]
  /\ cancel \in [Requests -> {IdleRequest(j) : j \in Jobs}]
  /\ dispatch = IdleDispatch
  /\ workflow = [j \in Jobs |-> NoWorkflow]
  /\ act = [j \in Jobs |-> [s \in Slots |-> Off]]
  /\ faults = 0
  /\ reported = {}
  /\ asked = {}
  /\ settled = {}

-----------------------------------------------------------------------------
(* handleAnalyze with async set: insert the queued job, start its workflow, *)
(* and record a deferred dispatch from the handler's own copy of the job.   *)

Submit(j) ==
  /\ submit[j] = "idle"
  /\ submit' = [submit EXCEPT ![j] = "start"]
  /\ created' = [created EXCEPT ![j] = 1 + Cardinality({k \in Jobs : created[k] > 0})]
  /\ Overwrite(j, QueuedRow)
  /\ UNCHANGED <<cancel, dispatch, workflow, act, faults, reported, asked>>

SubmitStart(j) ==
  /\ submit[j] = "start"
  /\ \/ /\ StartWorkflow(j)
        /\ submit' = [submit EXCEPT ![j] = "done"]
        /\ UNCHANGED faults
     \/ /\ Fault("rpc")
        /\ StartWorkflow(j) \/ UNCHANGED workflow
        /\ submit' = [submit EXCEPT ![j] = "defer"]
  /\ KeepRows
  /\ UNCHANGED <<created, cancel, dispatch, act, reported, asked>>

SubmitDefer(j) ==
  /\ submit[j] = "defer"
  /\ submit' = [submit EXCEPT ![j] = "done"]
  /\ \/ Overwrite(j, QueuedRow) /\ UNCHANGED faults
     \/ FailedOverwrite(j, QueuedRow)
  /\ UNCHANGED <<created, cancel, dispatch, workflow, act, reported, asked>>

(* handleCancelAnalysisJob.                                                 *)

CancelRead(c) ==
  LET j == cancel[c].job IN
  /\ cancel[c].pc = "idle"
  /\ row[j].status # "absent"
  /\ cancel' = [cancel EXCEPT ![c] =
       IF row[j].status \in Terminal
         THEN [@ EXCEPT !.pc = "done"]
         ELSE [@ EXCEPT !.pc = "write", !.copy = RequestCancel(row[j])]]
  /\ asked' = IF row[j].status \in Terminal THEN asked ELSE asked \cup {j}
  /\ KeepRows
  /\ UNCHANGED <<created, submit, dispatch, workflow, act, faults, reported>>

CancelWrite(c) ==
  /\ cancel[c].pc = "write"
  /\ \/ /\ Overwrite(cancel[c].job, cancel[c].copy)
        /\ cancel' = [cancel EXCEPT ![c].pc = "call", ![c].copy = NoRow]
        /\ UNCHANGED faults
     \/ /\ FailedOverwrite(cancel[c].job, cancel[c].copy)
        /\ cancel' = [cancel EXCEPT ![c].pc = "done", ![c].copy = NoRow]
  /\ UNCHANGED <<created, submit, dispatch, workflow, act, reported, asked>>

\* An error of the call is only logged: the dispatcher delivers it later.
CancelCall(c) ==
  /\ cancel[c].pc = "call"
  /\ cancel' = [cancel EXCEPT ![c].pc = "done"]
  /\ \/ CancelWorkflow(cancel[c].job) /\ UNCHANGED faults
     \/ Fault("rpc") /\ (CancelWorkflow(cancel[c].job) \/ UNCHANGED workflow)
  /\ KeepRows
  /\ UNCHANGED <<created, submit, dispatch, act, reported, asked>>

-----------------------------------------------------------------------------
(* Dispatcher.Reconcile: list the queued jobs, start each; list the active  *)
(* jobs with a requested cancellation, cancel each.                         *)

\* ListAnalysisJobs: ORDER BY created_at DESC LIMIT BatchSize.
Newer(j, among) == {k \in among : created[k] > created[j]}
Page(matching) == {j \in matching : Cardinality(Newer(j, matching)) < BatchSize}

\* Mutants: only jobs whose handler ended are redispatched; only queued jobs
\* are cancelled; every active job is cancelled.
QueuedAnswered == {j \in Jobs : row[j].status = "queued" /\ submit[j] = "done"}
CancellingQueued == {j \in Jobs : row[j].cancel /\ row[j].status = "queued"}

Queued == {j \in Jobs : row[j].status = "queued"}
Cancelling == {j \in Jobs : row[j].cancel /\ row[j].status \in Active}

\* validateJobBinding and the decoding of the stored request.
Unreadable(j) == j \in Corrupt

DispatchList ==
  /\ dispatch.pc = "idle"
  /\ \/ /\ dispatch' = [pc |-> "start", jobs |-> Page(Queued),
                        rows |-> [j \in Jobs |-> IF j \in Page(Queued) /\ Unreadable(j)
                                                   THEN row[j] ELSE NoRow]]
        /\ UNCHANGED faults
     \/ Fault("db") /\ UNCHANGED dispatch
  /\ KeepRows
  /\ UNCHANGED <<created, submit, cancel, workflow, act, reported, asked>>

DispatchStart(j) ==
  /\ dispatch.pc = "start"
  /\ j \in dispatch.jobs
  /\ Newer(j, dispatch.jobs) = {}
  /\ \/ /\ Unreadable(j)
        /\ UNCHANGED workflow
        /\ \/ Overwrite(j, MarkFailed(dispatch.rows[j])) /\ UNCHANGED faults
           \/ FailedOverwrite(j, MarkFailed(dispatch.rows[j]))
     \/ /\ ~Unreadable(j)
        /\ KeepRows
        /\ \/ StartWorkflow(j) /\ UNCHANGED faults
           \/ Fault("rpc") /\ (StartWorkflow(j) \/ UNCHANGED workflow)
  /\ dispatch' = [dispatch EXCEPT !.jobs = @ \ {j}, !.rows[j] = NoRow]
  /\ UNCHANGED <<created, submit, cancel, act, reported, asked>>

DispatchListCancellations ==
  /\ dispatch.pc = "start"
  /\ dispatch.jobs = {}
  /\ \/ /\ dispatch' = [dispatch EXCEPT !.pc = "cancel", !.jobs = Page(Cancelling)]
        /\ UNCHANGED faults
     \/ Fault("db") /\ dispatch' = IdleDispatch
  /\ KeepRows
  /\ UNCHANGED <<created, submit, cancel, workflow, act, reported, asked>>

DispatchCancel(j) ==
  /\ dispatch.pc = "cancel"
  /\ j \in dispatch.jobs
  /\ Newer(j, dispatch.jobs) = {}
  /\ dispatch' = [dispatch EXCEPT !.jobs = @ \ {j}]
  /\ \/ CancelWorkflow(j) /\ UNCHANGED faults
     \/ Fault("rpc") /\ (CancelWorkflow(j) \/ UNCHANGED workflow)
  /\ KeepRows
  /\ UNCHANGED <<created, submit, cancel, act, reported, asked>>

DispatchSleep ==
  /\ dispatch.pc = "cancel"
  /\ dispatch.jobs = {}
  /\ dispatch' = IdleDispatch
  /\ KeepRows
  /\ UNCHANGED <<created, submit, cancel, workflow, act, faults, reported, asked>>

\* vod-web stops: its handlers and its dispatcher's pass are lost.
WebCrash ==
  /\ Fault("crash")
  /\ submit' = [j \in Jobs |-> IF submit[j] \in {"start", "defer"} THEN "gone" ELSE submit[j]]
  /\ cancel' = [c \in Requests |->
       IF cancel[c].pc \in {"write", "call"}
         THEN [cancel[c] EXCEPT !.pc = "gone", !.copy = NoRow] ELSE cancel[c]]
  /\ dispatch' = IdleDispatch
  /\ KeepRows
  /\ UNCHANGED <<created, workflow, act, reported, asked>>

-----------------------------------------------------------------------------
(* The worker takes the task of the activity the workflow awaits.           *)

Poll(j, slot) ==
  /\ Awaits(workflow[j], slot)
  /\ act[j][slot].pc = "off"
  /\ SetAct(j, slot, [Off EXCEPT !.pc = "ready"])
  /\ KeepRows
  /\ UNCHANGED <<created, submit, cancel, dispatch, workflow, faults, reported, asked>>

(* Activities.RunAnalysis.                                                  *)

RunLoad(j, n) ==
  LET slot == <<"run", n>> IN
  /\ act[j][slot].pc = "ready"
  /\ \/ /\ row[j].cancel
        /\ Finish(j, slot, "refused")
        /\ UNCHANGED faults
     \/ /\ ~row[j].cancel
        /\ SetAct(j, slot, [pc |-> "mark", copy |-> MarkRunning(row[j], n), left |-> Reports])
        /\ UNCHANGED <<workflow, faults>>
     \/ /\ Fault("db")
        /\ Finish(j, slot, "error")
  /\ KeepRows
  /\ UNCHANGED <<created, submit, cancel, dispatch, reported, asked>>

RunMark(j, n) ==
  LET slot == <<"run", n>> IN
  /\ act[j][slot].pc = "mark"
  /\ \/ /\ Overwrite(j, act[j][slot].copy)
        /\ SetAct(j, slot, [act[j][slot] EXCEPT !.pc = "exec", !.copy = NoRow])
        /\ UNCHANGED <<workflow, faults>>
     \/ /\ FailedOverwrite(j, act[j][slot].copy)
        /\ Finish(j, slot, "error")
  /\ UNCHANGED <<created, submit, cancel, dispatch, reported, asked>>

\* The progress reporter reads the row and gives up when a cancellation is
\* requested, when the read fails or when the activity is being cancelled.
ReportRead(j, n) ==
  LET slot == <<"run", n>> IN
  /\ act[j][slot].pc = "exec"
  /\ act[j][slot].left > 0
  /\ SetAct(j, slot,
       IF row[j].cancel
         THEN [act[j][slot] EXCEPT !.left = @ - 1]
         ELSE [pc |-> "report", copy |-> MarkProgress(row[j]), left |-> act[j][slot].left - 1])
  /\ KeepRows
  /\ UNCHANGED <<created, submit, cancel, dispatch, workflow, faults, reported, asked>>

\* The reporter's own errors are dropped: the write may be lost silently.
ReportWrite(j, n) ==
  LET slot == <<"run", n>> IN
  /\ act[j][slot].pc = "report"
  /\ SetAct(j, slot, [act[j][slot] EXCEPT !.pc = "exec", !.copy = NoRow])
  /\ \/ Overwrite(j, act[j][slot].copy) /\ UNCHANGED faults
     \/ FailedOverwrite(j, act[j][slot].copy)
  /\ UNCHANGED <<created, submit, cancel, dispatch, workflow, reported, asked>>

\* The executor returns: with a saved report, with an error, or with the
\* error of its cancelled context.
RunReturn(j, n) ==
  LET slot == <<"run", n>> IN
  /\ act[j][slot].pc = "exec"
  /\ \/ /\ act[j][slot].left = 0
        /\ reported' = reported \cup {j}
        /\ Finish(j, slot, "ok")
     \/ /\ UNCHANGED reported
        /\ Finish(j, slot, "error")
     \/ /\ workflow[j].cancelled
        /\ UNCHANGED reported
        /\ Finish(j, slot, "canceled")
  /\ KeepRows
  /\ UNCHANGED <<created, submit, cancel, dispatch, faults, asked>>

(* Activities.Complete, Fail and Cancel: read the row, decide, overwrite.   *)

\* What a finalizer answers without writing, "" when it goes on to write.
EarlyReturn(kind, r) ==
  CASE kind = "complete" /\ r.status = "cancelled" -> "ok"
    [] kind = "complete" /\ r.status # "cancelled" /\ r.cancel -> "refused"
    [] kind = "fail" /\ r.status \in {"completed", "cancelled"} -> "ok"
    [] kind = "cancel" /\ r.status \in {"completed", "failed"} -> "ok"
    [] OTHER -> ""

Finalized(kind, r) ==
  CASE kind = "complete" -> MarkCompleted(r)
    [] kind = "fail" -> MarkFailed(r)
    [] kind = "cancel" -> MarkCancelled(r)

FinalizerLoad(j, slot) ==
  LET answer == EarlyReturn(slot[1], row[j]) IN
  /\ slot[1] \in Finalizers
  /\ act[j][slot].pc = "ready"
  /\ \/ /\ answer # ""
        /\ Finish(j, slot, answer)
        /\ UNCHANGED faults
     \/ /\ answer = ""
        /\ SetAct(j, slot, [pc |-> "write", copy |-> Finalized(slot[1], row[j]), left |-> 0])
        /\ UNCHANGED <<workflow, faults>>
     \/ /\ Fault("db")
        /\ Finish(j, slot, "error")
  /\ KeepRows
  /\ UNCHANGED <<created, submit, cancel, dispatch, reported, asked>>

FinalizerWrite(j, slot) ==
  /\ slot[1] \in Finalizers
  /\ act[j][slot].pc = "write"
  /\ \/ /\ Overwrite(j, act[j][slot].copy)
        /\ Finish(j, slot, "ok")
        /\ UNCHANGED faults
     \/ /\ FailedOverwrite(j, act[j][slot].copy)
        /\ Finish(j, slot, "error")
  /\ UNCHANGED <<created, submit, cancel, dispatch, reported, asked>>

-----------------------------------------------------------------------------
(* Faults of the execution: the process of an activity dies, or the service *)
(* stops hearing from it (heartbeat or start-to-close timeout) although the *)
(* process goes on.                                                         *)

WorkerCrash(j, slot) ==
  /\ Alive(act[j][slot])
  /\ Fault("crash")
  /\ SetAct(j, slot, Dead)
  /\ KeepRows
  /\ UNCHANGED <<created, submit, cancel, dispatch, workflow, reported, asked>>

TimeoutDead(j, slot) ==
  /\ Awaits(workflow[j], slot)
  /\ act[j][slot].pc = "dead"
  /\ Finish(j, slot, "error")
  /\ KeepRows
  /\ UNCHANGED <<created, submit, cancel, dispatch, faults, reported, asked>>

TimeoutAlive(j, slot) ==
  /\ Awaits(workflow[j], slot)
  /\ Alive(act[j][slot])
  /\ Fault("timeout")
  /\ Deliver(j, slot, "error")
  /\ KeepRows
  /\ UNCHANGED <<created, submit, cancel, dispatch, act, reported, asked>>

\* A cancelled activity that no worker has started is cancelled at once.
CancelUnstarted(j, n) ==
  LET slot == <<"run", n>> IN
  /\ Awaits(workflow[j], slot)
  /\ workflow[j].cancelled
  /\ act[j][slot].pc = "off"
  /\ Deliver(j, slot, "canceled")
  /\ KeepRows
  /\ UNCHANGED <<created, submit, cancel, dispatch, act, faults, reported, asked>>

-----------------------------------------------------------------------------

Runs == 1..MaxAttempts

Handler(j) == SubmitStart(j) \/ SubmitDefer(j)
CancelHandler(c) == CancelWrite(c) \/ CancelCall(c)

Dispatcher ==
  \/ DispatchList \/ DispatchListCancellations \/ DispatchSleep
  \/ \E j \in Jobs : DispatchStart(j) \/ DispatchCancel(j)

RunStep(j, n) ==
  \/ Poll(j, <<"run", n>>) \/ RunLoad(j, n) \/ RunMark(j, n)
  \/ ReportRead(j, n) \/ ReportWrite(j, n)

RunAttempt(j, n) == RunStep(j, n) \/ RunReturn(j, n)

Finalizer(j, slot) ==
  /\ slot[1] \in Finalizers
  /\ Poll(j, slot) \/ FinalizerLoad(j, slot) \/ FinalizerWrite(j, slot)

Service(j) ==
  \/ \E slot \in Slots : TimeoutDead(j, slot)
  \/ \E n \in Runs : CancelUnstarted(j, n)

Users ==
  \/ \E j \in Jobs : Submit(j)
  \/ \E c \in Requests : CancelRead(c)

Environment ==
  \/ WebCrash
  \/ \E j \in Jobs, slot \in Slots : WorkerCrash(j, slot) \/ TimeoutAlive(j, slot)

Next ==
  \/ Users \/ Dispatcher \/ Environment
  \/ \E c \in Requests : CancelHandler(c)
  \/ \E j \in Jobs : \/ Handler(j) \/ Service(j)
                     \/ \E n \in Runs : RunAttempt(j, n)
                     \/ \E slot \in Slots : Finalizer(j, slot)

Spec == Init /\ [][Next]_vars

\* A live goroutine goes on, the dispatcher's ticker keeps ticking, and
\* Temporal keeps offering a task until a worker takes it; users need not
\* act and faults need not happen.  The executor may take as long as it likes.
PatientSpec ==
  /\ Spec
  /\ WF_vars(Dispatcher)
  /\ \A c \in Requests : WF_vars(CancelHandler(c))
  /\ \A j \in Jobs :
       /\ WF_vars(Handler(j))
       /\ WF_vars(Service(j))
       /\ \A n \in Runs : WF_vars(RunStep(j, n))
       /\ \A slot \in Slots : WF_vars(Finalizer(j, slot))

\* The executor returns: OverallTimeout bounds it.
FairSpec == PatientSpec /\ \A j \in Jobs, n \in Runs : WF_vars(RunAttempt(j, n))

-----------------------------------------------------------------------------
(* Properties.                                                              *)

\* Every variable holds a value of its kind.
TypeOK ==
  /\ row \in [Jobs -> Row]
  /\ created \in [Jobs -> Nat]
  /\ submit \in [Jobs -> {"idle", "start", "defer", "done", "gone"}]
  /\ cancel \in [Requests -> Request]
  /\ dispatch \in Dispatch
  /\ workflow \in [Jobs -> Workflow]
  /\ act \in [Jobs -> [Slots -> Execution]]
  /\ faults \in 0..MaxFaults
  /\ reported \subseteq Jobs
  /\ asked \subseteq Jobs
  /\ settled \subseteq Jobs

\* A job shown as completed carries the paths of a report that its executor
\* really saved, whichever stale copies have been written over the row: the
\* result page never opens a report that does not exist.
CompletedHasReport ==
  \A j \in Jobs : row[j].status = "completed" =>
    j \in reported /\ row[j].report /\ row[j].finished

\* A job is cancelled, or carries a cancellation request, only if a user asked
\* for it while the job was active: neither a retry nor a shutdown of a worker
\* nor a lost answer cancels a job on its own.
CancelledWasAsked ==
  \A j \in Jobs : row[j].status = "cancelled" \/ row[j].cancel => j \in asked

\* A job with a readable request fails only after every attempt of its retry
\* policy was handed to a worker, or because its workflow was cancelled while
\* an attempt was failing.
FailureFollowsRetries ==
  \A j \in Jobs \ Corrupt : row[j].status = "failed" =>
    \/ workflow[j].cancelled
    \/ \A n \in Runs : act[j][<<"run", n>>].pc # "off"

\* However a job is shown to have ended, and however stale the copies were from
\* which its row was written, the end is one its user may rely on.
EndsAreJustified == CompletedHasReport /\ CancelledWasAsked /\ FailureFollowsRetries

\* What makes the three invariants inductive: every copy of a row in anyone's
\* hands is as sound as the row itself, and whoever may decide the end of a job
\* has evidence for it.
EveryAttemptStarted(j) == \A n \in Runs : act[j][<<"run", n>>].pc # "off"

MayFail(j) == workflow[j].cancelled \/ EveryAttemptStarted(j)

SoundRow(j, r) ==
  /\ r.status = "completed" => j \in reported /\ r.report /\ r.finished
  /\ r.status = "cancelled" \/ r.cancel => j \in asked
  /\ r.status = "failed" => j \in Corrupt \/ MayFail(j)

Engaged(j, kind) ==
  \/ workflow[j].phase = kind
  \/ \E slot \in Slots : slot[1] = kind /\ act[j][slot].pc # "off"

Evidence(j) ==
  /\ Engaged(j, "complete") => j \in reported
  /\ Engaged(j, "cancel") \/ workflow[j].cancelled => j \in asked
  /\ Engaged(j, "fail") => MayFail(j)
  /\ \A n \in Runs : workflow[j].phase = "run" /\ n < workflow[j].try
                       => act[j][<<"run", n>>].pc # "off"

SoundRows == \A j \in Jobs : SoundRow(j, row[j])

SoundExecutions == \A j \in Jobs, slot \in Slots : SoundRow(j, act[j][slot].copy)

SoundRequests ==
  \A c \in Requests :
    /\ SoundRow(cancel[c].job, cancel[c].copy)
    /\ cancel[c].pc \in {"write", "call"} => cancel[c].job \in asked

SoundDispatch ==
  /\ \A j \in Jobs : SoundRow(j, dispatch.rows[j])
  /\ dispatch.pc = "cancel" => dispatch.jobs \subseteq asked

SoundWorkflows == \A j \in Jobs : Evidence(j)

SoundEverywhere ==
  /\ SoundRows
  /\ SoundExecutions
  /\ SoundRequests
  /\ SoundDispatch
  /\ SoundWorkflows

\* Once a row holds a terminal status no handler writes it again with anything
\* else: status, stage, report paths and finished_at stay.
TerminalIsFinal ==
  [][\A j \in Jobs : row[j].status \in Terminal => row'[j] = row[j]]_vars

\* Every submitted job is answered: the row of a job that was inserted takes a
\* terminal status, even if vod-web stops between the insert and the start of
\* the workflow, a call to Temporal fails or a worker dies.
SubmittedIsAnswered ==
  \A j \in Jobs : created[j] > 0 ~> j \in settled

\* The dispatcher delivers a requested cancellation that Temporal has not
\* accepted yet, as long as the row still shows it.
RequestIsDelivered ==
  \A j \in Jobs :
    row[j].cancel /\ row[j].status \in Active
      ~> \/ workflow[j].cancelled \/ workflow[j].phase \in {"cancel", "closed"}
         \/ ~row[j].cancel \/ row[j].status \in Terminal

=============================================================================
