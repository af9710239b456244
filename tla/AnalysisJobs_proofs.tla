------------------------ MODULE AnalysisJobs_proofs ------------------------
(***************************************************************************)
(* Proofs about AnalysisJobs, for any set of jobs and of cancellation      *)
(* requests and any bound on attempts, reports, pages and faults.          *)
(***************************************************************************)
EXTENDS AnalysisJobs, FiniteSetTheorems, TLAPS

-----------------------------------------------------------------------------
(* The operators on rows, workflows and executions keep their kinds.        *)

\* What the handlers write into a row, starting from a row, is a row.
LEMMA MarksAreRows ==
  ASSUME NEW r \in Row, NEW n \in 1..MaxAttempts
  PROVE  /\ MarkRunning(r, n) \in Row
         /\ MarkProgress(r) \in Row
         /\ MarkCompleted(r) \in Row
         /\ MarkFailed(r) \in Row
         /\ MarkCancelled(r) \in Row
         /\ RequestCancel(r) \in Row
<1> USE DEF Row, Statuses, Stages, Terminal, Active
<1>1. MarkRunning(r, n) \in Row
  <2>1. n \in 0..MaxAttempts
    BY ParameterAssumption
  <2>2. QED
    BY <2>1 DEF MarkRunning
<1>2. MarkProgress(r) \in Row
  BY DEF MarkProgress
<1>3. MarkCompleted(r) \in Row
  BY DEF MarkCompleted
<1>4. MarkFailed(r) \in Row
  BY DEF MarkFailed
<1>5. MarkCancelled(r) \in Row
  BY DEF MarkCancelled
<1>6. RequestCancel(r) \in Row
  BY DEF RequestCancel
<1>7. QED
  BY <1>1, <1>2, <1>3, <1>4, <1>5, <1>6

\* The rows a handler writes from nothing.
LEMMA ConstantRows == NoRow \in Row /\ QueuedRow \in Row
<1> USE DEF Row, Statuses, Stages, Terminal, Active
<1>1. NoRow \in Row
  BY ParameterAssumption DEF NoRow
<1>2. QueuedRow \in Row
  BY <1>1 DEF QueuedRow
<1>3. QED
  BY <1>1, <1>2

\* The number of tries of an activity of any kind.
LEMMA TriesBounds ==
  ASSUME NEW k \in Kinds
  PROVE  Tries(k) \in Nat /\ Tries(k) >= 1 /\ Tries(k) <= MaxAttempts + MaxFinalTries
BY ParameterAssumption DEF Tries, Kinds, Finalizers

\* The moves of a workflow between its phases.
LEMMA MovesAreWorkflows ==
  ASSUME NEW w \in Workflow
  PROVE  /\ \A p \in Phases : Enter(w, p) \in Workflow
         /\ Close(w) \in Workflow
         /\ w.phase \in Kinds /\ MayRetry(w) => Retry(w) \in Workflow
<1>1. 0 \in 0..(MaxAttempts + MaxFinalTries) /\ 1 \in 0..(MaxAttempts + MaxFinalTries)
  BY ParameterAssumption
<1>2. ASSUME NEW p \in Phases PROVE Enter(w, p) \in Workflow
  BY <1>1 DEF Enter, Workflow
<1>3. Close(w) \in Workflow
  <2>1. "closed" \in Phases
    BY DEF Phases
  <2>2. QED
    BY <1>1, <2>1 DEF Close, Workflow
<1>4. ASSUME w.phase \in Kinds, MayRetry(w) PROVE Retry(w) \in Workflow
  <2>1. w.try \in Nat /\ w.try < Tries(w.phase)
    BY <1>4 DEF MayRetry, Workflow
  <2>2. w.try + 1 \in 0..(MaxAttempts + MaxFinalTries)
    BY <2>1, <1>4, TriesBounds, ParameterAssumption
  <2>3. QED
    BY <2>2 DEF Retry, Workflow
<1>5. QED
  BY <1>2, <1>3, <1>4

\* What the workflow becomes after an outcome.
LEMMA AfterIsWorkflow ==
  ASSUME NEW w \in Workflow, NEW outcome \in {"ok", "canceled", "refused", "error"},
         w.phase \in Kinds, NEW x \in After(w, outcome)
  PROVE  x \in Workflow
<1>1. {"complete", "fail", "cancel"} \subseteq Phases
  BY DEF Phases
<1>2. CASE outcome = "ok"
  BY <1>1, <1>2, MovesAreWorkflows DEF After
<1>3. CASE outcome = "canceled"
  BY <1>1, <1>3, MovesAreWorkflows DEF After
<1>4. CASE outcome = "refused"
  BY <1>1, <1>4, MovesAreWorkflows DEF After
<1>5. CASE outcome = "error"
  BY <1>1, <1>5, MovesAreWorkflows DEF After
<1>6. QED
  BY <1>2, <1>3, <1>4, <1>5

\* Delivering an outcome keeps the workflows well formed.
LEMMA DeliverType ==
  ASSUME workflow \in [Jobs -> Workflow], NEW j \in Jobs, NEW slot \in Slots,
         NEW outcome \in {"ok", "canceled", "refused", "error"},
         Deliver(j, slot, outcome)
  PROVE  workflow' \in [Jobs -> Workflow]
<1>1. CASE Awaits(workflow[j], slot)
  <2>1. workflow[j] \in Workflow /\ workflow[j].phase \in Kinds
    BY <1>1 DEF Awaits, Slots
  <2>2. PICK w \in After(workflow[j], outcome) : workflow' = [workflow EXCEPT ![j] = w]
    BY <1>1 DEF Deliver
  <2>3. w \in Workflow
    BY <2>1, AfterIsWorkflow
  <2>4. QED
    BY <2>2, <2>3
<1>2. CASE ~Awaits(workflow[j], slot)
  BY <1>2 DEF Deliver
<1>3. QED
  BY <1>1, <1>2

\* Starting and cancelling a workflow keep the workflows well formed.
LEMMA WorkflowCallsType ==
  ASSUME workflow \in [Jobs -> Workflow], NEW j \in Jobs,
         StartWorkflow(j) \/ CancelWorkflow(j) \/ UNCHANGED workflow
  PROVE  workflow' \in [Jobs -> Workflow]
<1>1. workflow[j] \in Workflow /\ {"run", "cancel"} \subseteq Phases
  BY DEF Phases
<1>2. CASE StartWorkflow(j)
  BY <1>1, <1>2, MovesAreWorkflows DEF StartWorkflow
<1>3. CASE CancelWorkflow(j)
  <2>1. \A w \in Workflow : [w EXCEPT !.cancelled = TRUE] \in Workflow
    BY DEF Workflow
  <2>2. Enter(workflow[j], "cancel") \in Workflow
    BY <1>1, MovesAreWorkflows
  <2>3. QED
    BY <1>1, <1>3, <2>1, <2>2 DEF CancelWorkflow
<1>4. QED
  BY <1>2, <1>3

\* Overwriting a row by a row keeps the table well formed.
LEMMA OverwriteType ==
  ASSUME row \in [Jobs -> Row], settled \subseteq Jobs, NEW j \in Jobs, NEW r \in Row,
         Overwrite(j, r)
  PROVE  row' \in [Jobs -> Row] /\ settled' \subseteq Jobs
BY DEF Overwrite

\* A fault counts itself.
LEMMA FaultType ==
  ASSUME faults \in 0..MaxFaults, NEW kind, Fault(kind)
  PROVE  faults' \in 0..MaxFaults
BY ParameterAssumption DEF Fault

\* Replacing one execution keeps the executions well formed.
LEMMA SetActType ==
  ASSUME act \in [Jobs -> [Slots -> Execution]], NEW j \in Jobs, NEW slot \in Slots,
         NEW e \in Execution, SetAct(j, slot, e)
  PROVE  act' \in [Jobs -> [Slots -> Execution]]
BY DEF SetAct

\* The executions without a copy.
LEMMA ConstantExecutions ==
  /\ Off \in Execution
  /\ Done \in Execution
  /\ Dead \in Execution
  /\ [Off EXCEPT !.pc = "ready"] \in Execution
BY ConstantRows, ParameterAssumption DEF Off, Done, Dead, Execution, Pcs

\* Ending an execution.
LEMMA FinishType ==
  ASSUME workflow \in [Jobs -> Workflow], act \in [Jobs -> [Slots -> Execution]],
         NEW j \in Jobs, NEW slot \in Slots,
         NEW outcome \in {"ok", "canceled", "refused", "error"}, Finish(j, slot, outcome)
  PROVE  /\ workflow' \in [Jobs -> Workflow]
         /\ act' \in [Jobs -> [Slots -> Execution]]
BY DeliverType, SetActType, ConstantExecutions DEF Finish

\* The slots of the attempts of RunAnalysis.
LEMMA RunSlots == ASSUME NEW n \in Runs PROVE <<"run", n>> \in Slots
BY ParameterAssumption DEF Runs, Slots, Kinds, Tries

\* The rank of a created job is a number.
LEMMA SubmittedCount == Cardinality({k \in Jobs : created[k] > 0}) \in Nat
BY ParameterAssumption, FS_Subset, FS_CardinalityType

\* Some attempt exists.
LEMMA OneAttempt == 1 \in 1..MaxAttempts
BY ParameterAssumption

-----------------------------------------------------------------------------
(* Type correctness.                                                        *)

\* The initial state is well typed.
LEMMA InitTypeOK == Init => TypeOK
<1> SUFFICES ASSUME Init PROVE TypeOK
  OBVIOUS
<1>1. row \in [Jobs -> Row]
  BY ConstantRows DEF Init
<1>2. cancel \in [Requests -> Request]
  BY ConstantRows DEF Init, IdleRequest, Request
<1>3. dispatch \in Dispatch
  BY ConstantRows DEF Init, IdleDispatch, Dispatch
<1>4. workflow \in [Jobs -> Workflow]
  <2>1. NoWorkflow \in Workflow
    BY ParameterAssumption DEF NoWorkflow, Workflow, Phases
  <2>2. QED
    BY <2>1 DEF Init
<1>5. act \in [Jobs -> [Slots -> Execution]]
  BY ConstantExecutions DEF Init
<1>6. faults \in 0..MaxFaults
  BY ParameterAssumption DEF Init
<1>7. QED
  BY <1>1, <1>2, <1>3, <1>4, <1>5, <1>6 DEF Init, TypeOK

\* The handler that creates a job keeps the types.
LEMMA SubmitTypeOK ==
  ASSUME TypeOK, NEW j \in Jobs, Submit(j) \/ SubmitStart(j) \/ SubmitDefer(j)
  PROVE  TypeOK'
<1> USE DEF TypeOK
<1>1. CASE Submit(j)
  <2>1. Cardinality({k \in Jobs : created[k] > 0}) \in Nat
    BY SubmittedCount
  <2>2. row' \in [Jobs -> Row] /\ settled' \subseteq Jobs
    BY <1>1, OverwriteType, ConstantRows DEF Submit
  <2>3. created' \in [Jobs -> Nat]
    <3>1. \A m \in Nat : [created EXCEPT ![j] = 1 + m] \in [Jobs -> Nat]
      OBVIOUS
    <3>2. QED
      BY <1>1, <2>1, <3>1 DEF Submit
  <2>4. submit' \in [Jobs -> {"idle", "start", "defer", "done", "gone"}]
    BY <1>1 DEF Submit
  <2>5. QED
    BY <1>1, <2>2, <2>3, <2>4 DEF Submit
<1>2. CASE SubmitStart(j)
  <2>1. workflow' \in [Jobs -> Workflow]
    BY <1>2, WorkflowCallsType DEF SubmitStart
  <2>2. faults' \in 0..MaxFaults
    BY <1>2, FaultType DEF SubmitStart
  <2>3. QED
    BY <1>2, <2>1, <2>2 DEF SubmitStart, KeepRows
<1>3. CASE SubmitDefer(j)
  <2>1. row' \in [Jobs -> Row] /\ settled' \subseteq Jobs
    BY <1>3, OverwriteType, ConstantRows DEF SubmitDefer, FailedOverwrite, KeepRows
  <2>2. faults' \in 0..MaxFaults
    BY <1>3, FaultType DEF SubmitDefer, FailedOverwrite
  <2>3. QED
    BY <1>3, <2>1, <2>2 DEF SubmitDefer
<1>4. QED
  BY <1>1, <1>2, <1>3

\* Any change of the place and the copy of a request gives a request.
LEMMA RequestMoves ==
  ASSUME cancel \in [Requests -> Request], NEW c \in Requests,
         NEW p \in {"idle", "write", "call", "done", "gone"}, NEW r \in Row
  PROVE  /\ [cancel[c] EXCEPT !.pc = p, !.copy = r] \in Request
         /\ [cancel EXCEPT ![c].pc = p, ![c].copy = r] \in [Requests -> Request]
<1>1. cancel[c] \in Request
  OBVIOUS
<1>2. [cancel[c] EXCEPT !.pc = p, !.copy = r] \in Request
  BY <1>1 DEF Request
<1>3. [cancel EXCEPT ![c].pc = p, ![c].copy = r]
        = [cancel EXCEPT ![c] = [cancel[c] EXCEPT !.pc = p, !.copy = r]]
  OBVIOUS
<1>4. QED
  BY <1>2, <1>3

\* The handler of a cancellation request keeps the types.
LEMMA CancelTypeOK ==
  ASSUME TypeOK, NEW c \in Requests, CancelRead(c) \/ CancelHandler(c)
  PROVE  TypeOK'
<1> USE DEF TypeOK
<1>1. CASE CancelRead(c)
  <2>1. RequestCancel(row[cancel[c].job]) \in Row /\ cancel[c].job \in Jobs
    BY MarksAreRows, OneAttempt DEF Request
  <2>2. cancel' \in [Requests -> Request]
    <3>1. /\ cancel \in [Requests -> Request]
          /\ RequestCancel(row[cancel[c].job]) \in Row
      BY <2>1
    <3>2. \/ cancel' = [cancel EXCEPT ![c] = [@ EXCEPT !.pc = "done"]]
          \/ cancel' = [cancel EXCEPT ![c] =
                 [@ EXCEPT !.pc = "write", !.copy = RequestCancel(row[cancel[c].job])]]
      BY <1>1 DEF CancelRead
    <3> HIDE DEF TypeOK
    <3>3. [cancel[c] EXCEPT !.pc = "done"] \in Request
      BY <3>1 DEF Request
    <3>4. [cancel[c] EXCEPT !.pc = "write", !.copy = RequestCancel(row[cancel[c].job])]
            \in Request
      BY <3>1, RequestMoves
    <3>5. QED
      BY <3>1, <3>2, <3>3, <3>4
  <2>3. asked' \subseteq Jobs
    BY <1>1, <2>1 DEF CancelRead
  <2>4. QED
    BY <1>1, <2>2, <2>3 DEF CancelRead, KeepRows
<1>2. CASE CancelWrite(c)
  <2>1. cancel[c].copy \in Row /\ cancel[c].job \in Jobs
    BY DEF Request
  <2>2. row' \in [Jobs -> Row] /\ settled' \subseteq Jobs
    BY <1>2, <2>1, OverwriteType DEF CancelWrite, FailedOverwrite, KeepRows
  <2>3. cancel' \in [Requests -> Request]
    <3>1. cancel \in [Requests -> Request] /\ NoRow \in Row
      BY ConstantRows
    <3>2. \/ cancel' = [cancel EXCEPT ![c].pc = "call", ![c].copy = NoRow]
          \/ cancel' = [cancel EXCEPT ![c].pc = "done", ![c].copy = NoRow]
      BY <1>2 DEF CancelWrite
    <3> HIDE DEF TypeOK
    <3>3. /\ [cancel EXCEPT ![c].pc = "call", ![c].copy = NoRow] \in [Requests -> Request]
          /\ [cancel EXCEPT ![c].pc = "done", ![c].copy = NoRow] \in [Requests -> Request]
      BY <3>1, RequestMoves
    <3>4. QED
      BY <3>2, <3>3
  <2>4. faults' \in 0..MaxFaults
    BY <1>2, FaultType DEF CancelWrite, FailedOverwrite
  <2>5. QED
    BY <1>2, <2>2, <2>3, <2>4 DEF CancelWrite
<1>3. CASE CancelCall(c)
  <2>1. cancel[c].job \in Jobs
    BY DEF Request
  <2>2. workflow' \in [Jobs -> Workflow]
    BY <1>3, <2>1, WorkflowCallsType DEF CancelCall
  <2>3. cancel' \in [Requests -> Request]
    BY <1>3 DEF CancelCall, Request
  <2>4. faults' \in 0..MaxFaults
    BY <1>3, FaultType DEF CancelCall
  <2>5. QED
    BY <1>3, <2>2, <2>3, <2>4 DEF CancelCall, KeepRows
<1>4. QED
  BY <1>1, <1>2, <1>3 DEF CancelHandler

\* A crash of vod-web keeps the types.
LEMMA WebCrashTypeOK == TypeOK /\ WebCrash => TypeOK'
<1> SUFFICES ASSUME TypeOK, WebCrash PROVE TypeOK'
  OBVIOUS
<1> USE DEF TypeOK
<1>1. faults' \in 0..MaxFaults
  BY FaultType DEF WebCrash
<1>2. cancel' \in [Requests -> Request]
  <2>1. cancel \in [Requests -> Request] /\ NoRow \in Row
    BY ConstantRows
  <2>2. cancel' = [c \in Requests |->
          IF cancel[c].pc \in {"write", "call"}
            THEN [cancel[c] EXCEPT !.pc = "gone", !.copy = NoRow] ELSE cancel[c]]
    BY DEF WebCrash
  <2> HIDE DEF TypeOK
  <2>3. \A c \in Requests : [cancel[c] EXCEPT !.pc = "gone", !.copy = NoRow] \in Request
    BY <2>1, RequestMoves
  <2>4. QED
    BY <2>1, <2>2, <2>3
<1>3. dispatch' \in Dispatch
  BY ConstantRows DEF WebCrash, Dispatch, IdleDispatch
<1>4. submit' \in [Jobs -> {"idle", "start", "defer", "done", "gone"}]
  BY DEF WebCrash
<1>5. QED
  BY <1>1, <1>2, <1>3, <1>4 DEF WebCrash, KeepRows

\* The dispatcher keeps the types.
LEMMA DispatcherTypeOK == TypeOK /\ Dispatcher => TypeOK'
<1> SUFFICES ASSUME TypeOK, Dispatcher PROVE TypeOK'
  OBVIOUS
<1> USE DEF TypeOK
<1>1. IdleDispatch \in Dispatch
  BY ConstantRows DEF IdleDispatch, Dispatch
<1>2. \A M \in SUBSET Jobs : Page(M) \in SUBSET Jobs
  BY DEF Page
<1>3. Queued \in SUBSET Jobs /\ Cancelling \in SUBSET Jobs
  BY DEF Queued, Cancelling
<1>4. CASE DispatchList
  <2>1. faults' \in 0..MaxFaults
    BY <1>4, FaultType DEF DispatchList
  <2>2. dispatch' \in Dispatch
    <3>1. Page(Queued) \in SUBSET Jobs
      BY <1>2, <1>3
    <3>2. QED
      BY <1>4, <3>1, ConstantRows DEF DispatchList, Dispatch
  <2>3. QED
    BY <1>4, <2>1, <2>2 DEF DispatchList, KeepRows
<1>5. CASE DispatchListCancellations
  <2>1. faults' \in 0..MaxFaults
    BY <1>5, FaultType DEF DispatchListCancellations
  <2>2. dispatch' \in Dispatch
    <3>1. Page(Cancelling) \in SUBSET Jobs
      BY <1>2, <1>3
    <3>2. QED
      BY <1>1, <1>5, <3>1 DEF DispatchListCancellations, Dispatch
  <2>3. QED
    BY <1>5, <2>1, <2>2 DEF DispatchListCancellations, KeepRows
<1>6. CASE DispatchSleep
  BY <1>1, <1>6 DEF DispatchSleep, KeepRows
<1>7. ASSUME NEW j \in Jobs, DispatchStart(j) PROVE TypeOK'
  <2>1. dispatch.rows[j] \in Row
    BY DEF Dispatch
  <2>2. MarkFailed(dispatch.rows[j]) \in Row
    BY <2>1, OneAttempt, MarksAreRows
  <2>3. row' \in [Jobs -> Row] /\ settled' \subseteq Jobs
    BY <1>7, <2>2, OverwriteType DEF DispatchStart, FailedOverwrite, KeepRows
  <2>4. faults' \in 0..MaxFaults
    BY <1>7, FaultType DEF DispatchStart, FailedOverwrite
  <2>5. workflow' \in [Jobs -> Workflow]
    BY <1>7, WorkflowCallsType DEF DispatchStart
  <2>6. dispatch' \in Dispatch
    BY <1>7, ConstantRows DEF DispatchStart, Dispatch
  <2>7. QED
    BY <1>7, <2>3, <2>4, <2>5, <2>6 DEF DispatchStart
<1>8. ASSUME NEW j \in Jobs, DispatchCancel(j) PROVE TypeOK'
  <2>1. faults' \in 0..MaxFaults
    BY <1>8, FaultType DEF DispatchCancel
  <2>2. workflow' \in [Jobs -> Workflow]
    BY <1>8, WorkflowCallsType DEF DispatchCancel
  <2>3. dispatch' \in Dispatch
    BY <1>8 DEF DispatchCancel, Dispatch
  <2>4. QED
    BY <1>8, <2>1, <2>2, <2>3 DEF DispatchCancel, KeepRows
<1>9. QED
  BY <1>4, <1>5, <1>6, <1>7, <1>8 DEF Dispatcher

\* The attempts of RunAnalysis keep the types.
LEMMA RunTypeOK ==
  ASSUME TypeOK, NEW j \in Jobs, NEW n \in Runs, RunAttempt(j, n)
  PROVE  TypeOK'
<1> DEFINE slot == <<"run", n>>
<1> USE DEF TypeOK
<1>1. slot \in Slots /\ n \in 1..MaxAttempts
  BY RunSlots DEF Runs
<1>2. row[j] \in Row /\ act[j][slot] \in Execution
  BY <1>1
<1>3. CASE Poll(j, slot)
  <2>1. act' \in [Jobs -> [Slots -> Execution]]
    BY <1>1, <1>3, SetActType, ConstantExecutions DEF Poll
  <2>2. QED
    BY <1>3, <2>1 DEF Poll, KeepRows
<1>4. CASE RunLoad(j, n)
  <2>1. [pc |-> "mark", copy |-> MarkRunning(row[j], n), left |-> Reports] \in Execution
    <3>1. MarkRunning(row[j], n) \in Row
      BY <1>1, <1>2, MarksAreRows
    <3>2. Reports \in 0..Reports
      BY ParameterAssumption
    <3>3. QED
      BY <3>1, <3>2 DEF Execution, Pcs
  <2>2. act' \in [Jobs -> [Slots -> Execution]] /\ workflow' \in [Jobs -> Workflow]
    BY <1>1, <1>4, <2>1, SetActType, FinishType DEF RunLoad
  <2>3. faults' \in 0..MaxFaults
    BY <1>4, FaultType DEF RunLoad
  <2>4. QED
    BY <1>4, <2>2, <2>3 DEF RunLoad, KeepRows
<1>5. CASE RunMark(j, n)
  <2>1. act[j][slot].copy \in Row
    BY <1>2 DEF Execution
  <2>2. row' \in [Jobs -> Row] /\ settled' \subseteq Jobs
    BY <1>5, <2>1, OverwriteType DEF RunMark, FailedOverwrite, KeepRows
  <2>3. [act[j][slot] EXCEPT !.pc = "exec", !.copy = NoRow] \in Execution
    BY <1>2, ConstantRows DEF Execution, Pcs
  <2>4. act' \in [Jobs -> [Slots -> Execution]] /\ workflow' \in [Jobs -> Workflow]
    BY <1>1, <1>5, <2>3, SetActType, FinishType DEF RunMark
  <2>5. faults' \in 0..MaxFaults
    BY <1>5, FaultType DEF RunMark, FailedOverwrite
  <2>6. QED
    BY <1>5, <2>2, <2>4, <2>5 DEF RunMark
<1>6. CASE ReportRead(j, n)
  <2>1. act[j][slot].left > 0 /\ act[j][slot].left \in 0..Reports
    BY <1>2, <1>6 DEF ReportRead, Execution
  <2>2. act[j][slot].left - 1 \in 0..Reports
    BY <2>1, ParameterAssumption
  <2>3. [act[j][slot] EXCEPT !.left = @ - 1] \in Execution
    BY <1>2, <2>2 DEF Execution
  <2>4. MarkProgress(row[j]) \in Row
    BY <1>2, OneAttempt, MarksAreRows
  <2>5. [pc |-> "report", copy |-> MarkProgress(row[j]), left |-> act[j][slot].left - 1]
           \in Execution
    BY <2>2, <2>4 DEF Execution, Pcs
  <2>6. act' \in [Jobs -> [Slots -> Execution]]
    BY <1>1, <1>6, <2>3, <2>5, SetActType DEF ReportRead
  <2>7. QED
    BY <1>6, <2>6 DEF ReportRead, KeepRows
<1>7. CASE ReportWrite(j, n)
  <2>1. act[j][slot].copy \in Row
    BY <1>2 DEF Execution
  <2>2. row' \in [Jobs -> Row] /\ settled' \subseteq Jobs
    BY <1>7, <2>1, OverwriteType DEF ReportWrite, FailedOverwrite, KeepRows
  <2>3. faults' \in 0..MaxFaults
    BY <1>7, FaultType DEF ReportWrite, FailedOverwrite
  <2>4. [act[j][slot] EXCEPT !.pc = "exec", !.copy = NoRow] \in Execution
    BY <1>2, ConstantRows DEF Execution, Pcs
  <2>5. act' \in [Jobs -> [Slots -> Execution]]
    BY <1>1, <1>7, <2>4, SetActType DEF ReportWrite
  <2>6. QED
    BY <1>7, <2>2, <2>3, <2>5 DEF ReportWrite
<1>8. CASE RunReturn(j, n)
  <2>1. act' \in [Jobs -> [Slots -> Execution]] /\ workflow' \in [Jobs -> Workflow]
    BY <1>1, <1>8, FinishType DEF RunReturn
  <2>2. QED
    BY <1>8, <2>1 DEF RunReturn, KeepRows
<1>9. QED
  BY <1>3, <1>4, <1>5, <1>6, <1>7, <1>8 DEF RunAttempt, RunStep

\* The finalizers keep the types.
LEMMA FinalizerTypeOK ==
  ASSUME TypeOK, NEW j \in Jobs, NEW slot \in Slots, Finalizer(j, slot)
  PROVE  TypeOK'
<1> USE DEF TypeOK
<1>1. row[j] \in Row /\ act[j][slot] \in Execution /\ slot[1] \in Finalizers
  BY DEF Finalizer
<1>2. CASE Poll(j, slot)
  <2>1. act' \in [Jobs -> [Slots -> Execution]]
    BY <1>2, SetActType, ConstantExecutions DEF Poll
  <2>2. QED
    BY <1>2, <2>1 DEF Poll, KeepRows
<1>3. CASE FinalizerLoad(j, slot)
  <2>1. EarlyReturn(slot[1], row[j]) # "" =>
          EarlyReturn(slot[1], row[j]) \in {"ok", "canceled", "refused", "error"}
    BY DEF EarlyReturn
  <2>2. Finalized(slot[1], row[j]) \in Row
    BY <1>1, OneAttempt, MarksAreRows DEF Finalized, Finalizers
  <2>3. 0 \in 0..Reports
    BY ParameterAssumption
  <2>4. [pc |-> "write", copy |-> Finalized(slot[1], row[j]), left |-> 0] \in Execution
    BY <2>2, <2>3 DEF Execution, Pcs
  <2>5. act' \in [Jobs -> [Slots -> Execution]] /\ workflow' \in [Jobs -> Workflow]
    BY <1>3, <2>1, <2>4, SetActType, FinishType DEF FinalizerLoad
  <2>6. faults' \in 0..MaxFaults
    BY <1>3, FaultType DEF FinalizerLoad
  <2>7. QED
    BY <1>3, <2>5, <2>6 DEF FinalizerLoad, KeepRows
<1>4. CASE FinalizerWrite(j, slot)
  <2>1. act[j][slot].copy \in Row
    BY <1>1 DEF Execution
  <2>2. row' \in [Jobs -> Row] /\ settled' \subseteq Jobs
    BY <1>4, <2>1, OverwriteType DEF FinalizerWrite, FailedOverwrite, KeepRows
  <2>3. act' \in [Jobs -> [Slots -> Execution]] /\ workflow' \in [Jobs -> Workflow]
    BY <1>4, FinishType DEF FinalizerWrite
  <2>4. faults' \in 0..MaxFaults
    BY <1>4, FaultType DEF FinalizerWrite, FailedOverwrite
  <2>5. QED
    BY <1>4, <2>2, <2>3, <2>4 DEF FinalizerWrite
<1>5. QED
  BY <1>2, <1>3, <1>4 DEF Finalizer

\* Crashes, timeouts and cancellations of executions keep the types.
LEMMA ExecutionFaultsTypeOK ==
  ASSUME TypeOK, NEW j \in Jobs,
         \/ Service(j)
         \/ \E slot \in Slots : WorkerCrash(j, slot) \/ TimeoutAlive(j, slot)
  PROVE  TypeOK'
<1> USE DEF TypeOK
<1>1. ASSUME NEW slot \in Slots, TimeoutDead(j, slot) PROVE TypeOK'
  <2>1. act' \in [Jobs -> [Slots -> Execution]] /\ workflow' \in [Jobs -> Workflow]
    BY <1>1, FinishType DEF TimeoutDead
  <2>2. QED
    BY <1>1, <2>1 DEF TimeoutDead, KeepRows
<1>2. ASSUME NEW n \in Runs, CancelUnstarted(j, n) PROVE TypeOK'
  <2>1. workflow' \in [Jobs -> Workflow]
    BY <1>2, RunSlots, DeliverType DEF CancelUnstarted
  <2>2. QED
    BY <1>2, <2>1 DEF CancelUnstarted, KeepRows
<1>3. ASSUME NEW slot \in Slots, WorkerCrash(j, slot) PROVE TypeOK'
  <2>1. act' \in [Jobs -> [Slots -> Execution]]
    BY <1>3, SetActType, ConstantExecutions DEF WorkerCrash
  <2>2. faults' \in 0..MaxFaults
    BY <1>3, FaultType DEF WorkerCrash
  <2>3. QED
    BY <1>3, <2>1, <2>2 DEF WorkerCrash, KeepRows
<1>4. ASSUME NEW slot \in Slots, TimeoutAlive(j, slot) PROVE TypeOK'
  <2>1. workflow' \in [Jobs -> Workflow]
    BY <1>4, DeliverType DEF TimeoutAlive
  <2>2. faults' \in 0..MaxFaults
    BY <1>4, FaultType DEF TimeoutAlive
  <2>3. QED
    BY <1>4, <2>1, <2>2 DEF TimeoutAlive, KeepRows
<1>5. QED
  BY <1>1, <1>2, <1>3, <1>4 DEF Service

\* Every step keeps the types.
LEMMA NextTypeOK == TypeOK /\ [Next]_vars => TypeOK'
<1> SUFFICES ASSUME TypeOK, [Next]_vars PROVE TypeOK'
  OBVIOUS
<1>1. CASE Users
  BY <1>1, SubmitTypeOK, CancelTypeOK DEF Users
<1>2. CASE Dispatcher
  BY <1>2, DispatcherTypeOK
<1>3. CASE Environment
  BY <1>3, WebCrashTypeOK, ExecutionFaultsTypeOK DEF Environment
<1>4. CASE \E c \in Requests : CancelHandler(c)
  BY <1>4, CancelTypeOK
<1>5. ASSUME NEW j \in Jobs, Handler(j) PROVE TypeOK'
  BY <1>5, SubmitTypeOK DEF Handler
<1>6. ASSUME NEW j \in Jobs, Service(j) PROVE TypeOK'
  BY <1>6, ExecutionFaultsTypeOK
<1>7. ASSUME NEW j \in Jobs, NEW n \in Runs, RunAttempt(j, n) PROVE TypeOK'
  BY <1>7, RunTypeOK
<1>8. ASSUME NEW j \in Jobs, NEW slot \in Slots, Finalizer(j, slot) PROVE TypeOK'
  BY <1>8, FinalizerTypeOK
<1>9. CASE UNCHANGED vars
  BY <1>9 DEF TypeOK, vars
<1>10. QED
  BY <1>1, <1>2, <1>3, <1>4, <1>5, <1>6, <1>7, <1>8, <1>9 DEF Next

\* Every variable holds a value of its kind in every reachable state.
THEOREM TypeCorrect == Spec => []TypeOK
BY InitTypeOK, NextTypeOK, PTL DEF Spec

-----------------------------------------------------------------------------
(* Safety.  The evidence for the end of a job only grows, so a stale copy   *)
(* stays sound; what remains is who adds copies and who moves a workflow.   *)

Monotone ==
  /\ reported \subseteq reported'
  /\ asked \subseteq asked'
  /\ \A j \in Jobs :
       /\ workflow[j].cancelled => workflow'[j].cancelled
       /\ \A slot \in Slots : act[j][slot].pc # "off" => act'[j][slot].pc # "off"

\* An execution starts only as the one its workflow awaits.
OnlyAwaitedStart ==
  \A j \in Jobs, slot \in Slots :
    act'[j][slot].pc # "off" => act[j][slot].pc # "off" \/ Awaits(workflow[j], slot)

\* The evidence the new phase of a workflow needs.
JustifiedMove(j) ==
  /\ workflow'[j].phase = "complete" => j \in reported'
  /\ workflow'[j].phase = "cancel" \/ workflow'[j].cancelled => j \in asked'
  /\ workflow'[j].phase = "fail" => MayFail(j)'
  /\ \A n \in Runs : workflow'[j].phase = "run" /\ n < workflow'[j].try
                       => act'[j][<<"run", n>>].pc # "off"

JustifiedMoves == \A j \in Jobs : workflow'[j] = workflow[j] \/ JustifiedMove(j)

\* The permission to fail is never withdrawn.
LEMMA MayFailGrows ==
  ASSUME Monotone, NEW j \in Jobs, MayFail(j)
  PROVE  MayFail(j)'
BY RunSlots DEF Monotone, MayFail, EveryAttemptStarted

\* A sound copy of a row stays sound.
LEMMA SoundRowGrows ==
  ASSUME Monotone, NEW j \in Jobs
  PROVE  \A r \in Row : SoundRow(j, r) =>
           /\ r.status = "completed" => j \in reported' /\ r.report /\ r.finished
           /\ r.status = "cancelled" \/ r.cancel => j \in asked'
           /\ r.status = "failed" => j \in Corrupt \/ MayFail(j)'
BY MayFailGrows DEF Monotone, SoundRow

\* A table in which a sound row is overwritten by a sound row is sound.
LEMMA OverwriteSound ==
  ASSUME TypeOK, SoundRows, Monotone, NEW j \in Jobs, NEW r \in Row, SoundRow(j, r),
         Overwrite(j, r)
  PROVE  SoundRows'
BY SoundRowGrows DEF TypeOK, SoundRows, SoundRow, Overwrite

\* A table nobody writes stays sound.
LEMMA KeepRowsSound == ASSUME TypeOK, SoundRows, Monotone, KeepRows PROVE SoundRows'
BY SoundRowGrows DEF TypeOK, SoundRows, SoundRow, KeepRows

\* Executions, requests and the dispatcher's pass stay sound when untouched.
LEMMA KeepExecutionsSound ==
  ASSUME TypeOK, SoundExecutions, Monotone, UNCHANGED act
  PROVE  SoundExecutions'
<1>1. \A j \in Jobs, slot \in Slots : act[j][slot].copy \in Row
  BY DEF TypeOK, Execution
<1>2. QED
  BY <1>1, SoundRowGrows DEF SoundExecutions, SoundRow

\* See KeepExecutionsSound.
LEMMA KeepRequestsSound ==
  ASSUME TypeOK, SoundRequests, Monotone, UNCHANGED cancel
  PROVE  SoundRequests'
<1>1. \A c \in Requests : cancel[c].job \in Jobs /\ cancel[c].copy \in Row
  BY DEF TypeOK, Request
<1>2. QED
  BY <1>1, SoundRowGrows DEF SoundRequests, SoundRow, Monotone

\* See KeepExecutionsSound.
LEMMA KeepDispatchSound ==
  ASSUME TypeOK, SoundDispatch, Monotone, UNCHANGED dispatch
  PROVE  SoundDispatch'
<1>1. \A j \in Jobs : dispatch.rows[j] \in Row
  BY DEF TypeOK, Dispatch
<1>2. QED
  BY <1>1, SoundRowGrows DEF SoundDispatch, SoundRow, Monotone

\* Setting one execution to one with a sound copy.
LEMMA SetActSound ==
  ASSUME TypeOK, SoundExecutions, Monotone, NEW j \in Jobs, NEW slot \in Slots,
         NEW e \in Execution, SoundRow(j, e.copy), SetAct(j, slot, e)
  PROVE  SoundExecutions'
<1>1. \A k \in Jobs, s \in Slots : act[k][s].copy \in Row /\ e.copy \in Row
  BY DEF TypeOK, Execution
<1>2. ASSUME NEW k \in Jobs, NEW s \in Slots
      PROVE  act'[k][s].copy \in Row /\ SoundRow(k, act'[k][s].copy)
  BY <1>1 DEF TypeOK, SetAct, SoundExecutions
<1>3. QED
  BY <1>2, SoundRowGrows DEF SoundExecutions, SoundRow

\* The evidence survives justified moves and awaited starts.
LEMMA MovesSound ==
  ASSUME TypeOK, SoundWorkflows, Monotone, OnlyAwaitedStart, JustifiedMoves
  PROVE  SoundWorkflows'
<1> SUFFICES ASSUME NEW j \in Jobs PROVE Evidence(j)'
  BY DEF SoundWorkflows
<1>1. Evidence(j)
  BY DEF SoundWorkflows
<1>2. ASSUME NEW kind, Engaged(j, kind)'
      PROVE  Engaged(j, kind) \/ (workflow'[j].phase = kind /\ workflow'[j] # workflow[j])
  BY <1>2 DEF Engaged, OnlyAwaitedStart, Awaits
<1>3. \A n \in Runs : workflow'[j].phase = "run" /\ n < workflow'[j].try
                         => act'[j][<<"run", n>>].pc # "off"
  BY <1>1, RunSlots DEF Evidence, JustifiedMoves, JustifiedMove, Monotone
<1>4. Engaged(j, "complete")' => j \in reported'
  BY <1>1, <1>2 DEF Evidence, JustifiedMoves, JustifiedMove, Monotone
<1>5. Engaged(j, "cancel")' \/ workflow'[j].cancelled => j \in asked'
  BY <1>1, <1>2 DEF Evidence, JustifiedMoves, JustifiedMove, Monotone
<1>6. Engaged(j, "fail")' => MayFail(j)'
  BY <1>1, <1>2, MayFailGrows DEF Evidence, JustifiedMoves, JustifiedMove
<1>7. QED
  BY <1>3, <1>4, <1>5, <1>6 DEF Evidence

\* Starting a workflow needs no evidence, cancelling one that the job's user
\* asked for.
LEMMA CallsJustified ==
  ASSUME TypeOK, SoundWorkflows, Monotone, NEW j \in Jobs,
         StartWorkflow(j) \/ (CancelWorkflow(j) /\ j \in asked) \/ UNCHANGED workflow
  PROVE  JustifiedMoves
<1> USE DEF JustifiedMoves
<1>1. Evidence(j)
  BY DEF SoundWorkflows
<1>2. CASE StartWorkflow(j)
  <2>1. \A k \in Jobs : k # j => workflow'[k] = workflow[k]
    BY <1>2 DEF StartWorkflow, TypeOK
  <2>2. CASE workflow[j].phase = "none"
    <3>1. /\ workflow'[j].phase = "run" /\ workflow'[j].try = 1
          /\ workflow'[j].cancelled = workflow[j].cancelled
      BY <1>2, <2>2 DEF StartWorkflow, Enter, TypeOK, Workflow
    <3>2. JustifiedMove(j)
      BY <1>1, <3>1 DEF JustifiedMove, Evidence, Monotone, Runs
    <3>3. QED
      BY <2>1, <3>2
  <2>3. CASE workflow[j].phase # "none"
    BY <1>2, <2>1, <2>3 DEF StartWorkflow, TypeOK
  <2>4. QED
    BY <2>2, <2>3
<1>3. CASE CancelWorkflow(j) /\ j \in asked
  <2>1. \A k \in Jobs : k # j => workflow'[k] = workflow[k]
    BY <1>3 DEF CancelWorkflow, TypeOK
  <2>2. CASE ~IsOpen(workflow[j])
    BY <1>3, <2>1, <2>2 DEF CancelWorkflow, TypeOK
  <2>3. CASE IsOpen(workflow[j]) /\ workflow[j].phase = "complete"
    <3>1. workflow'[j].phase = "cancel"
      BY <1>3, <2>3 DEF CancelWorkflow, Enter, TypeOK, Workflow
    <3>2. JustifiedMove(j)
      BY <1>3, <3>1 DEF JustifiedMove, Monotone
    <3>3. QED
      BY <2>1, <3>2
  <2>4. CASE IsOpen(workflow[j]) /\ workflow[j].phase # "complete"
    <3>1. /\ workflow'[j].phase = workflow[j].phase /\ workflow'[j].try = workflow[j].try
          /\ workflow'[j].cancelled
      BY <1>3, <2>4 DEF CancelWorkflow, TypeOK, Workflow
    <3>2. MayFail(j)'
      BY <3>1 DEF MayFail
    <3>3. JustifiedMove(j)
      BY <1>1, <1>3, <2>4, <3>1, <3>2, RunSlots DEF JustifiedMove, Evidence, Monotone
    <3>4. QED
      BY <2>1, <3>3
  <2>5. QED
    BY <2>2, <2>3, <2>4
<1>4. CASE UNCHANGED workflow
  BY <1>4
<1>5. QED
  BY <1>2, <1>3, <1>4

\* A workflow that has used up its attempts without being cancelled has
\* started every one of them.
LEMMA LastAttempt ==
  ASSUME TypeOK, SoundWorkflows, Monotone, NEW j \in Jobs, NEW slot \in Slots,
         Awaits(workflow[j], slot), workflow[j].phase = "run", act'[j][slot].pc # "off"
  PROVE  /\ \A n \in Runs : n <= workflow[j].try => act'[j][<<"run", n>>].pc # "off"
         /\ ~MayRetry(workflow[j]) /\ ~workflow[j].cancelled
              => \A n \in Runs : act'[j][<<"run", n>>].pc # "off"
<1>1. slot = <<"run", workflow[j].try>>
  <2>1. slot \in Kinds \X (1..(MaxAttempts + MaxFinalTries))
    BY DEF Slots
  <2>2. slot = <<slot[1], slot[2]>>
    BY <2>1
  <2>3. QED
    BY <2>2 DEF Awaits
<1>2. workflow[j].try \in Nat
  BY DEF TypeOK, Workflow
<1>3. ASSUME NEW n \in Runs, n <= workflow[j].try PROVE act'[j][<<"run", n>>].pc # "off"
  <2>1. n = workflow[j].try \/ n < workflow[j].try
    BY <1>2, <1>3 DEF Runs
  <2>2. QED
    BY <1>1, <2>1, RunSlots DEF SoundWorkflows, Evidence, Monotone
<1>4. ASSUME ~MayRetry(workflow[j]), ~workflow[j].cancelled, NEW n \in Runs
      PROVE  n <= workflow[j].try
  BY <1>2, <1>4, ParameterAssumption DEF MayRetry, Tries, Runs
<1>5. QED
  BY <1>3, <1>4

\* An outcome moves a workflow only where the evidence allows.
LEMMA DeliverJustified ==
  ASSUME TypeOK, SoundWorkflows, Monotone, NEW j \in Jobs, NEW slot \in Slots,
         NEW outcome \in {"ok", "canceled", "refused", "error"},
         Deliver(j, slot, outcome),
         act'[j][slot].pc # "off" \/ outcome = "canceled",
         outcome = "ok" /\ slot[1] = "run" => j \in reported',
         outcome \in {"canceled", "refused"} => j \in asked
  PROVE  JustifiedMoves
<1>1. CASE ~Awaits(workflow[j], slot)
  BY <1>1 DEF Deliver, JustifiedMoves
<1>2. CASE Awaits(workflow[j], slot)
  <2> DEFINE w == workflow[j]
  <2>1. PICK x \in After(w, outcome) : workflow' = [workflow EXCEPT ![j] = x]
    BY <1>2 DEF Deliver
  <2>2. workflow'[j] = x /\ \A k \in Jobs : k # j => workflow'[k] = workflow[k]
    BY <2>1 DEF TypeOK
  <2>3. w \in Workflow /\ w.phase = slot[1] /\ w.phase \in Kinds /\ Evidence(j)
    BY <1>2 DEF TypeOK, Awaits, Slots, SoundWorkflows
  <2>4. w.cancelled => j \in asked'
    BY <2>3 DEF Evidence, Monotone
  <2>5. ASSUME x = Close(w) PROVE JustifiedMove(j)
    BY <2>2, <2>3, <2>4, <2>5 DEF Close, Workflow, JustifiedMove
  <2>6. ASSUME x = Enter(w, "cancel"), j \in asked' PROVE JustifiedMove(j)
    BY <2>2, <2>3, <2>6 DEF Enter, Workflow, JustifiedMove
  <2>7. ASSUME x = Enter(w, "complete"), j \in reported' PROVE JustifiedMove(j)
    BY <2>2, <2>3, <2>4, <2>7 DEF Enter, Workflow, JustifiedMove
  <2>8. ASSUME x = Enter(w, "fail"), w.phase = "run", ~MayRetry(w), outcome = "error"
        PROVE  JustifiedMove(j)
    <3>1. x.phase = "fail" /\ x.cancelled = w.cancelled
      BY <2>3, <2>8 DEF Enter, Workflow
    <3>2. MayFail(j)'
      <4>1. CASE w.cancelled
        BY <2>2, <3>1, <4>1 DEF MayFail
      <4>2. CASE ~w.cancelled
        BY <1>2, <2>8, <4>2, LastAttempt DEF MayFail, EveryAttemptStarted
      <4>3. QED
        BY <4>1, <4>2
    <3>3. QED
      BY <2>2, <2>4, <3>1, <3>2 DEF JustifiedMove
  <2>9. ASSUME x = Retry(w), act'[j][slot].pc # "off" PROVE JustifiedMove(j)
    <3>1. x.phase = w.phase /\ x.try = w.try + 1 /\ x.cancelled = w.cancelled
      BY <2>3, <2>9 DEF Retry, Workflow
    <3>2. ASSUME NEW n \in Runs, w.phase = "run", n < w.try + 1
          PROVE  act'[j][<<"run", n>>].pc # "off"
      <4>1. w.try \in Nat /\ n \in Nat
        BY <2>3 DEF Workflow, Runs
      <4>2. n <= w.try
        BY <3>2, <4>1
      <4>3. QED
        BY <1>2, <2>9, <3>2, <4>2, LastAttempt
    <3>3. Engaged(j, w.phase)
      BY DEF Engaged
    <3>4. w.phase = "complete" => j \in reported'
      BY <2>3, <3>3 DEF Evidence, Monotone
    <3>5. w.phase = "cancel" \/ w.cancelled => j \in asked'
      BY <2>3, <3>3 DEF Evidence, Monotone
    <3>6. w.phase = "fail" => MayFail(j)'
      BY <2>3, <3>3, MayFailGrows DEF Evidence
    <3>7. QED
      BY <2>2, <3>1, <3>2, <3>4, <3>5, <3>6 DEF JustifiedMove
  <2>10. JustifiedMove(j)
    <3>1. CASE outcome = "ok"
      BY <2>3, <2>4, <2>5, <2>6, <2>7, <3>1 DEF After
    <3>2. CASE outcome = "canceled"
      BY <2>6, <3>2 DEF After, Monotone
    <3>3. CASE outcome = "refused"
      BY <2>6, <2>9, <3>3 DEF After, Monotone
    <3>4. CASE outcome = "error"
      BY <2>5, <2>8, <2>9, <3>4 DEF After
    <3>5. QED
      BY <3>1, <3>2, <3>3, <3>4
  <2>11. QED
    BY <2>2, <2>10 DEF JustifiedMoves
<1>3. QED
  BY <1>1, <1>2

-----------------------------------------------------------------------------
(* Every step is monotone.                                                  *)

\* A workflow stays cancelled when it is started, cancelled or moved.
LEMMA CancelledGrows ==
  ASSUME TypeOK, NEW j \in Jobs,
         \/ StartWorkflow(j) \/ CancelWorkflow(j) \/ UNCHANGED workflow
         \/ \E slot \in Slots, outcome \in {"ok", "canceled", "refused", "error"} :
              Deliver(j, slot, outcome),
         NEW k \in Jobs, workflow[k].cancelled
  PROVE  workflow'[k].cancelled
<1>1. \A w \in Workflow, p \in Phases : Enter(w, p).cancelled = w.cancelled
  BY DEF Enter, Workflow
<1>2. \A w \in Workflow : Close(w).cancelled = w.cancelled /\ Retry(w).cancelled = w.cancelled
  BY DEF Close, Retry, Workflow
<1>3. workflow[j] \in Workflow /\ {"run", "complete", "fail", "cancel"} \subseteq Phases
  BY DEF TypeOK, Phases
<1>4. CASE StartWorkflow(j)
  BY <1>1, <1>3, <1>4 DEF StartWorkflow, TypeOK
<1>5. CASE CancelWorkflow(j)
  <2>1. \A w \in Workflow : [w EXCEPT !.cancelled = TRUE].cancelled
    BY DEF Workflow
  <2>2. Enter(workflow[j], "cancel") \in Workflow
    BY <1>3, MovesAreWorkflows
  <2>3. QED
    BY <1>3, <1>5, <2>1, <2>2 DEF CancelWorkflow, TypeOK
<1>6. ASSUME NEW slot \in Slots, NEW outcome \in {"ok", "canceled", "refused", "error"},
             Deliver(j, slot, outcome), Awaits(workflow[j], slot)
      PROVE  workflow'[k].cancelled
  <2>1. PICK x \in After(workflow[j], outcome) : workflow' = [workflow EXCEPT ![j] = x]
    BY <1>6 DEF Deliver
  <2>2. x.cancelled = workflow[j].cancelled
    <3>1. CASE outcome = "ok"
      BY <1>1, <1>2, <1>3, <2>1, <3>1 DEF After
    <3>2. CASE outcome = "canceled"
      BY <1>1, <1>3, <2>1, <3>2 DEF After
    <3>3. CASE outcome = "refused"
      BY <1>1, <1>2, <1>3, <2>1, <3>3 DEF After
    <3>4. CASE outcome = "error"
      BY <1>1, <1>2, <1>3, <2>1, <3>4 DEF After
    <3>5. QED
      BY <3>1, <3>2, <3>3, <3>4
  <2>3. QED
    BY <2>1, <2>2 DEF TypeOK
<1>7. ASSUME NEW slot \in Slots, NEW outcome \in {"ok", "canceled", "refused", "error"},
             Deliver(j, slot, outcome), ~Awaits(workflow[j], slot)
      PROVE  workflow'[k].cancelled
  BY <1>7 DEF Deliver
<1>8. QED
  BY <1>4, <1>5, <1>6, <1>7

\* An execution that has started is never forgotten when one is replaced by
\* another that has started, and only that one may start.
LEMMA SetActStarts ==
  ASSUME TypeOK, NEW j \in Jobs, NEW slot \in Slots, NEW e \in Execution,
         e.pc # "off", SetAct(j, slot, e)
  PROVE  /\ act'[j][slot].pc # "off"
         /\ \A k \in Jobs, s \in Slots : act[k][s].pc # "off" => act'[k][s].pc # "off"
         /\ act[j][slot].pc # "off" \/ Awaits(workflow[j], slot) => OnlyAwaitedStart
<1>1. \A k \in Jobs, s \in Slots : act'[k][s] = IF k = j /\ s = slot THEN e ELSE act[k][s]
  BY DEF TypeOK, SetAct
<1>2. QED
  BY <1>1 DEF OnlyAwaitedStart

\* A step that leaves the executions alone starts none.
LEMMA NoStart == ASSUME UNCHANGED act PROVE OnlyAwaitedStart
BY DEF OnlyAwaitedStart

\* A step that moves one workflow by a call and leaves executions and evidence
\* alone is monotone.
LEMMA CallMonotone ==
  ASSUME TypeOK, NEW j \in Jobs,
         StartWorkflow(j) \/ CancelWorkflow(j) \/ UNCHANGED workflow,
         UNCHANGED act, reported \subseteq reported', asked \subseteq asked'
  PROVE  Monotone
BY CancelledGrows DEF Monotone

\* The end of an execution starts nothing and is monotone.
LEMMA FinishMonotone ==
  ASSUME TypeOK, NEW j \in Jobs, NEW slot \in Slots,
         NEW outcome \in {"ok", "canceled", "refused", "error"}, Finish(j, slot, outcome),
         act[j][slot].pc # "off", reported \subseteq reported', asked \subseteq asked'
  PROVE  Monotone /\ OnlyAwaitedStart /\ act'[j][slot].pc # "off"
<1>1. Done \in Execution /\ Done.pc # "off"
  BY ConstantExecutions DEF Done, Off
<1>2. \A k \in Jobs : workflow[k].cancelled => workflow'[k].cancelled
  BY CancelledGrows DEF Finish
<1>3. QED
  BY <1>1, <1>2, SetActStarts DEF Finish, Monotone

\* A change of one started or awaited execution that moves no workflow.
LEMMA SetActMonotone ==
  ASSUME TypeOK, NEW j \in Jobs, NEW slot \in Slots, NEW e \in Execution,
         e.pc # "off", SetAct(j, slot, e), UNCHANGED workflow,
         act[j][slot].pc # "off" \/ Awaits(workflow[j], slot),
         reported \subseteq reported', asked \subseteq asked'
  PROVE  Monotone /\ OnlyAwaitedStart /\ JustifiedMoves
BY SetActStarts DEF Monotone, JustifiedMoves

-----------------------------------------------------------------------------
(* Every step keeps the copies and the evidence sound.                      *)

\* What a handler makes of a sound copy is sound, given its evidence.
LEMMA MarksAreSound ==
  ASSUME NEW j \in Jobs, NEW r \in Row, SoundRow(j, r), NEW n \in Nat
  PROVE  /\ SoundRow(j, MarkRunning(r, n))
         /\ SoundRow(j, MarkProgress(r))
         /\ j \in reported => SoundRow(j, MarkCompleted(r))
         /\ j \in Corrupt \/ MayFail(j) => SoundRow(j, MarkFailed(r))
         /\ j \in asked => SoundRow(j, MarkCancelled(r))
<1> USE DEF SoundRow, Row
<1>1. SoundRow(j, MarkRunning(r, n))
  BY DEF MarkRunning
<1>2. SoundRow(j, MarkProgress(r))
  BY DEF MarkProgress
<1>3. j \in reported => SoundRow(j, MarkCompleted(r))
  BY DEF MarkCompleted
<1>4. j \in Corrupt \/ MayFail(j) => SoundRow(j, MarkFailed(r))
  BY DEF MarkFailed
<1>5. j \in asked => SoundRow(j, MarkCancelled(r))
  BY DEF MarkCancelled
<1>6. QED
  BY <1>1, <1>2, <1>3, <1>4, <1>5

\* The rows a handler writes from nothing are sound.
LEMMA ConstantsAreSound ==
  \A j \in Jobs : SoundRow(j, NoRow) /\ SoundRow(j, QueuedRow)
BY DEF SoundRow, NoRow, QueuedRow

\* The handler that creates a job keeps everything sound.
LEMMA SubmitSound ==
  ASSUME TypeOK, SoundEverywhere, NEW j \in Jobs,
         Submit(j) \/ SubmitStart(j) \/ SubmitDefer(j)
  PROVE  SoundEverywhere'
<1> USE DEF SoundEverywhere
<1>1. /\ UNCHANGED <<act, cancel, dispatch, reported, asked>>
      /\ StartWorkflow(j) \/ UNCHANGED workflow
      /\ KeepRows \/ Overwrite(j, QueuedRow)
  BY DEF Submit, SubmitStart, SubmitDefer, FailedOverwrite
<1>2. Monotone /\ OnlyAwaitedStart /\ JustifiedMoves
  <2>1. Monotone
    BY <1>1, CallMonotone
  <2>2. QED
    BY <1>1, <2>1, NoStart, CallsJustified
<1>3. SoundRows'
  BY <1>1, <1>2, KeepRowsSound, OverwriteSound, ConstantRows, ConstantsAreSound
<1>4. QED
  BY <1>1, <1>2, <1>3, KeepExecutionsSound, KeepRequestsSound, KeepDispatchSound, MovesSound

\* The handler of a cancellation request keeps everything sound.
LEMMA CancelSound ==
  ASSUME TypeOK, SoundEverywhere, NEW c \in Requests, CancelRead(c) \/ CancelHandler(c)
  PROVE  SoundEverywhere'
<1> USE DEF SoundEverywhere
<1> DEFINE j == cancel[c].job
<1>1. j \in Jobs /\ cancel[c].copy \in Row /\ row[j] \in Row
  BY DEF TypeOK, Request
<1>2. /\ UNCHANGED <<act, dispatch, reported>>
      /\ asked \subseteq asked'
      /\ UNCHANGED workflow \/ (CancelWorkflow(j) /\ cancel[c].pc = "call")
      /\ KeepRows \/ (Overwrite(j, cancel[c].copy) /\ cancel[c].pc = "write")
  BY DEF CancelHandler, CancelRead, CancelWrite, CancelCall, FailedOverwrite
<1>3. Monotone /\ OnlyAwaitedStart /\ JustifiedMoves
  <2>1. Monotone
    BY <1>1, <1>2, CallMonotone
  <2>2. cancel[c].pc = "call" => j \in asked
    BY DEF SoundRequests
  <2>3. QED
    BY <1>1, <1>2, <2>1, <2>2, NoStart, CallsJustified
<1>4. SoundRows'
  <2>1. SoundRow(j, cancel[c].copy)
    BY DEF SoundRequests
  <2>2. QED
    BY <1>1, <1>2, <1>3, <2>1, KeepRowsSound, OverwriteSound
<1>5. ASSUME NEW d \in Requests
      PROVE  /\ SoundRow(cancel[d].job, cancel[d].copy)'
             /\ cancel'[d].pc \in {"write", "call"} => cancel'[d].job \in asked'
  <2>1. /\ cancel[d].job \in Jobs /\ cancel[d].copy \in Row
        /\ SoundRow(cancel[d].job, cancel[d].copy)
        /\ cancel[d].pc \in {"write", "call"} => cancel[d].job \in asked
    BY DEF TypeOK, Request, SoundRequests
  <2>2. CASE cancel'[d].copy = cancel[d].copy /\ cancel'[d].job = cancel[d].job
             /\ (cancel'[d].pc \in {"write", "call"} => cancel[d].pc \in {"write", "call"})
    BY <1>2, <1>3, <2>1, <2>2, SoundRowGrows DEF SoundRow
  <2>3. CASE d = c /\ cancel'[c].copy = NoRow /\ cancel'[c].job = j
             /\ (cancel'[c].pc \in {"write", "call"} => cancel[c].pc \in {"write", "call"})
    BY <1>1, <1>2, <2>1, <2>3 DEF SoundRow, NoRow
  <2>4. CASE d = c /\ cancel'[c].copy = RequestCancel(row[j]) /\ cancel'[c].job = j
             /\ row[j].status \notin Terminal /\ j \in asked'
    BY <1>1, <2>4 DEF SoundRow, RequestCancel, Row, Terminal
  <2>5. CASE CancelRead(c)
    BY <2>2, <2>4, <2>5 DEF CancelRead, TypeOK, Request
  <2>6. CASE CancelWrite(c)
    BY <2>2, <2>3, <2>6 DEF CancelWrite, TypeOK, Request
  <2>7. CASE CancelCall(c)
    BY <2>2, <2>7 DEF CancelCall, TypeOK, Request
  <2>8. QED
    BY <2>5, <2>6, <2>7 DEF CancelHandler
<1>6. SoundRequests'
  BY <1>5 DEF SoundRequests
<1>7. QED
  BY <1>2, <1>3, <1>4, <1>6, KeepExecutionsSound, KeepDispatchSound, MovesSound

\* A crash of vod-web drops copies and adds none.
LEMMA WebCrashSound == TypeOK /\ SoundEverywhere /\ WebCrash => SoundEverywhere'
<1> SUFFICES ASSUME TypeOK, SoundEverywhere, WebCrash PROVE SoundEverywhere'
  OBVIOUS
<1> USE DEF SoundEverywhere
<1>1. UNCHANGED <<act, workflow, reported, asked>> /\ KeepRows
  BY DEF WebCrash
<1>2. Monotone /\ OnlyAwaitedStart /\ JustifiedMoves
  BY <1>1 DEF Monotone, OnlyAwaitedStart, JustifiedMoves
<1>3. ASSUME NEW c \in Requests
      PROVE  /\ SoundRow(cancel[c].job, cancel[c].copy)'
             /\ cancel'[c].pc \in {"write", "call"} => cancel'[c].job \in asked'
  <2>1. /\ cancel[c].job \in Jobs /\ cancel[c].copy \in Row
        /\ SoundRow(cancel[c].job, cancel[c].copy)
    BY DEF TypeOK, Request, SoundRequests
  <2>2. CASE cancel[c].pc \in {"write", "call"}
    BY <1>1, <2>1, <2>2 DEF WebCrash, TypeOK, Request, SoundRow, NoRow
  <2>3. CASE cancel[c].pc \notin {"write", "call"}
    BY <1>1, <1>2, <2>1, <2>3, SoundRowGrows DEF WebCrash, SoundRow
  <2>4. QED
    BY <2>2, <2>3
<1>4. SoundRequests'
  BY <1>3 DEF SoundRequests
<1>5. SoundDispatch'
  BY DEF WebCrash, IdleDispatch, SoundDispatch, SoundRow, NoRow
<1>6. QED
  BY <1>1, <1>2, <1>4, <1>5, KeepRowsSound, KeepExecutionsSound, MovesSound

\* The dispatcher keeps everything sound.
LEMMA DispatcherSound == TypeOK /\ SoundEverywhere /\ Dispatcher => SoundEverywhere'
<1> SUFFICES ASSUME TypeOK, SoundEverywhere, Dispatcher PROVE SoundEverywhere'
  OBVIOUS
<1> USE DEF SoundEverywhere
<1>1. ASSUME UNCHANGED <<act, cancel, reported, asked>>, SoundRows', SoundDispatch',
             Monotone, JustifiedMoves
      PROVE  SoundEverywhere'
  BY <1>1, NoStart, KeepExecutionsSound, KeepRequestsSound, MovesSound
<1>2. ASSUME UNCHANGED <<workflow, act, cancel, reported, asked>>, KeepRows, SoundDispatch'
      PROVE  SoundEverywhere'
  <2>1. Monotone /\ JustifiedMoves
    BY <1>2 DEF Monotone, JustifiedMoves
  <2>2. QED
    BY <1>1, <1>2, <2>1, KeepRowsSound
<1>3. CASE DispatchList
  <2>1. \/ /\ dispatch'.pc # "cancel"
           /\ \A j \in Jobs : dispatch'.rows[j] \in {row[j], NoRow}
        \/ UNCHANGED dispatch
    BY <1>3 DEF DispatchList, TypeOK, Dispatch
  <2>2. UNCHANGED <<row, workflow, act, cancel, reported, asked>> /\ KeepRows
    BY <1>3 DEF DispatchList, KeepRows
  <2>3. CASE UNCHANGED dispatch
    BY <2>2, <2>3, <1>2, KeepDispatchSound DEF Monotone
  <2>4. CASE dispatch'.pc # "cancel" /\ \A j \in Jobs : dispatch'.rows[j] \in {row[j], NoRow}
    <3>1. SoundDispatch'
      BY <2>2, <2>4, ConstantsAreSound
         DEF SoundDispatch, SoundRows, SoundRow, MayFail, EveryAttemptStarted
    <3>2. QED
      BY <2>2, <3>1, <1>2
  <2>5. QED
    BY <2>1, <2>3, <2>4
<1>4. CASE DispatchListCancellations
  <2>1. \A j \in Page(Cancelling) : j \in asked
    BY DEF Page, Cancelling, SoundRows, SoundRow
  <2>2. \/ dispatch' = IdleDispatch
        \/ dispatch' = [dispatch EXCEPT !.pc = "cancel", !.jobs = Page(Cancelling)]
    BY <1>4 DEF DispatchListCancellations
  <2>3. UNCHANGED <<workflow, act, cancel, reported, asked>> /\ KeepRows
    BY <1>4 DEF DispatchListCancellations
  <2>4. /\ \A j \in Jobs : dispatch'.rows[j] \in {dispatch.rows[j], NoRow}
        /\ dispatch'.pc = "cancel" => dispatch'.jobs \subseteq asked
    <3>1. CASE dispatch' = IdleDispatch
      BY <3>1 DEF IdleDispatch
    <3>2. CASE dispatch' = [dispatch EXCEPT !.pc = "cancel", !.jobs = Page(Cancelling)]
      <4>1. dispatch'.rows = dispatch.rows /\ dispatch'.jobs = Page(Cancelling)
        BY <3>2 DEF TypeOK, Dispatch
      <4>2. QED
        BY <2>1, <4>1
    <3>3. QED
      BY <2>2, <3>1, <3>2
  <2>5. SoundDispatch'
    BY <2>3, <2>4, ConstantsAreSound
       DEF SoundDispatch, SoundRow, MayFail, EveryAttemptStarted
  <2>6. QED
    BY <2>3, <2>5, <1>2
<1>5. CASE DispatchSleep
  <2>1. UNCHANGED <<workflow, act, cancel, reported, asked>> /\ KeepRows
    BY <1>5 DEF DispatchSleep
  <2>2. SoundDispatch'
    BY <1>5 DEF DispatchSleep, IdleDispatch, SoundDispatch, SoundRow, NoRow
  <2>3. QED
    BY <2>1, <2>2, <1>2
<1>6. ASSUME NEW j \in Jobs, DispatchStart(j) PROVE SoundEverywhere'
  <2>1. UNCHANGED <<act, cancel, reported, asked>>
    BY <1>6 DEF DispatchStart
  <2>2. StartWorkflow(j) \/ UNCHANGED workflow
    BY <1>6 DEF DispatchStart
  <2>3. Monotone
    BY <2>1, <2>2, CallMonotone
  <2>4. dispatch.rows[j] \in Row /\ SoundRow(j, dispatch.rows[j])
    BY DEF TypeOK, Dispatch, SoundDispatch
  <2>5. KeepRows \/ (j \in Corrupt /\ Overwrite(j, MarkFailed(dispatch.rows[j])))
    BY <1>6 DEF DispatchStart, FailedOverwrite, Unreadable
  <2>6. j \in Corrupt => SoundRow(j, MarkFailed(dispatch.rows[j]))
    BY <2>4, MarksAreSound
  <2>7. MarkFailed(dispatch.rows[j]) \in Row
    BY <2>4, OneAttempt, MarksAreRows
  <2>8. SoundRows'
    BY <2>3, <2>5, <2>6, <2>7, KeepRowsSound, OverwriteSound
  <2>9. /\ \A k \in Jobs : dispatch'.rows[k] = IF k = j THEN NoRow ELSE dispatch.rows[k]
        /\ dispatch'.pc = "start"
    BY <1>6 DEF DispatchStart, TypeOK, Dispatch
  <2>10. \A k \in Jobs : dispatch.rows[k] \in Row /\ SoundRow(k, dispatch.rows[k])
    BY DEF TypeOK, Dispatch, SoundDispatch
  <2>11. SoundDispatch'
    BY <2>3, <2>9, <2>10, SoundRowGrows DEF SoundDispatch, SoundRow, NoRow
  <2>12. QED
    BY <2>1, <2>2, <2>3, <2>8, <2>11, <1>1, CallsJustified
<1>7. ASSUME NEW j \in Jobs, DispatchCancel(j) PROVE SoundEverywhere'
  <2>1. UNCHANGED <<act, cancel, reported, asked>> /\ KeepRows
    BY <1>7 DEF DispatchCancel
  <2>2. j \in asked /\ (CancelWorkflow(j) \/ UNCHANGED workflow)
    BY <1>7 DEF DispatchCancel, SoundDispatch
  <2>3. Monotone
    BY <2>1, <2>2, CallMonotone
  <2>4. dispatch'.rows = dispatch.rows /\ dispatch'.pc = "cancel"
        /\ dispatch'.jobs \subseteq dispatch.jobs
    BY <1>7 DEF DispatchCancel, TypeOK, Dispatch
  <2>5. \A k \in Jobs : dispatch.rows[k] \in Row /\ SoundRow(k, dispatch.rows[k])
    BY DEF TypeOK, Dispatch, SoundDispatch
  <2>6. dispatch.jobs \subseteq asked
    BY <1>7 DEF DispatchCancel, SoundDispatch
  <2>7. SoundDispatch'
    BY <2>1, <2>3, <2>4, <2>5, <2>6, SoundRowGrows DEF SoundDispatch, SoundRow
  <2>8. QED
    BY <2>1, <2>2, <2>3, <2>7, <1>1, CallsJustified, KeepRowsSound
<1>8. QED
  BY <1>3, <1>4, <1>5, <1>6, <1>7 DEF Dispatcher

\* What an execution's step must show: everything but the table, the executions
\* and the workflow stays.
LEMMA ExecutionStepSound ==
  ASSUME TypeOK, SoundEverywhere, UNCHANGED <<cancel, dispatch>>, Monotone,
         OnlyAwaitedStart, JustifiedMoves, SoundRows', SoundExecutions'
  PROVE  SoundEverywhere'
BY KeepRequestsSound, KeepDispatchSound, MovesSound DEF SoundEverywhere

\* The end of an execution.
LEMMA FinishSound ==
  ASSUME TypeOK, SoundEverywhere, UNCHANGED <<cancel, dispatch, asked>>,
         NEW j \in Jobs, NEW slot \in Slots,
         NEW outcome \in {"ok", "canceled", "refused", "error"}, Finish(j, slot, outcome),
         act[j][slot].pc # "off", reported \subseteq reported',
         outcome = "ok" /\ slot[1] = "run" => j \in reported',
         outcome \in {"canceled", "refused"} => j \in asked,
         \/ KeepRows
         \/ \E r \in Row : SoundRow(j, r) /\ Overwrite(j, r)
  PROVE  SoundEverywhere'
<1> USE DEF SoundEverywhere
<1>1. Monotone /\ OnlyAwaitedStart /\ act'[j][slot].pc # "off"
  BY FinishMonotone
<1>2. JustifiedMoves
  BY <1>1, DeliverJustified DEF Finish
<1>3. SoundRows'
  BY <1>1, KeepRowsSound, OverwriteSound
<1>4. SoundExecutions'
  <2>1. Done \in Execution /\ Done.copy = NoRow
    BY ConstantExecutions DEF Done, Off
  <2>2. QED
    BY <1>1, <2>1, ConstantsAreSound, SetActSound DEF Finish
<1>5. QED
  BY <1>1, <1>2, <1>3, <1>4, ExecutionStepSound

\* A step of an execution that ends nothing.
LEMMA SetActStepSound ==
  ASSUME TypeOK, SoundEverywhere, UNCHANGED <<cancel, dispatch, asked, reported, workflow>>,
         NEW j \in Jobs, NEW slot \in Slots, NEW e \in Execution, SetAct(j, slot, e),
         e.pc # "off", SoundRow(j, e.copy),
         act[j][slot].pc # "off" \/ Awaits(workflow[j], slot),
         \/ KeepRows
         \/ \E r \in Row : SoundRow(j, r) /\ Overwrite(j, r)
  PROVE  SoundEverywhere'
<1> USE DEF SoundEverywhere
<1>1. Monotone /\ OnlyAwaitedStart /\ JustifiedMoves
  BY SetActMonotone
<1>2. SoundRows'
  BY <1>1, KeepRowsSound, OverwriteSound
<1>3. SoundExecutions'
  BY <1>1, SetActSound
<1>4. QED
  BY <1>1, <1>2, <1>3, ExecutionStepSound

\* A worker that takes a task keeps everything sound.
LEMMA PollSound ==
  ASSUME TypeOK, SoundEverywhere, NEW j \in Jobs, NEW slot \in Slots, Poll(j, slot)
  PROVE  SoundEverywhere'
<1>1. [Off EXCEPT !.pc = "ready"].copy = NoRow /\ [Off EXCEPT !.pc = "ready"].pc = "ready"
  BY DEF Off
<1>2. QED
  BY <1>1, ConstantExecutions, ConstantsAreSound, SetActStepSound DEF Poll

\* The attempts of RunAnalysis keep everything sound.
LEMMA RunSound ==
  ASSUME TypeOK, SoundEverywhere, NEW j \in Jobs, NEW n \in Runs, RunAttempt(j, n)
  PROVE  SoundEverywhere'
<1> DEFINE slot == <<"run", n>>
<1> DEFINE e == act[j][slot]
<1>1. slot \in Slots /\ slot[1] = "run" /\ n \in Nat /\ n \in 1..MaxAttempts
  BY RunSlots DEF Runs
<1>2. e \in Execution /\ row[j] \in Row /\ e.copy \in Row
  BY <1>1 DEF TypeOK, Execution
<1>3. /\ SoundRow(j, row[j]) /\ SoundRow(j, e.copy)
      /\ row[j].cancel => j \in asked
      /\ workflow[j].cancelled => j \in asked
  BY <1>1 DEF SoundEverywhere, SoundRows, SoundExecutions, SoundWorkflows, Evidence, SoundRow
<1>4. CASE Poll(j, slot)
  BY <1>1, <1>4, PollSound
<1>5. CASE RunLoad(j, n)
  <2> DEFINE marked == [pc |-> "mark", copy |-> MarkRunning(row[j], n), left |-> Reports]
  <2>1. e.pc = "ready" /\ UNCHANGED <<cancel, dispatch, asked, reported>> /\ KeepRows
    BY <1>5 DEF RunLoad
  <2>2. CASE row[j].cancel /\ Finish(j, slot, "refused")
    BY <1>1, <1>3, <2>1, <2>2, FinishSound
  <2>3. CASE Finish(j, slot, "error")
    BY <1>1, <2>1, <2>3, FinishSound
  <2>4. CASE SetAct(j, slot, marked) /\ UNCHANGED workflow
    <3>1. MarkRunning(row[j], n) \in Row /\ SoundRow(j, MarkRunning(row[j], n))
      BY <1>1, <1>2, <1>3, MarksAreRows, MarksAreSound
    <3>2. marked \in Execution
      BY <3>1, ParameterAssumption DEF Execution, Pcs
    <3>3. QED
      BY <1>1, <2>1, <2>4, <3>1, <3>2, SetActStepSound
  <2>5. QED
    BY <1>5, <2>2, <2>3, <2>4 DEF RunLoad
<1>6. CASE RunMark(j, n)
  <2> DEFINE running == [e EXCEPT !.pc = "exec", !.copy = NoRow]
  <2>1. /\ e.pc = "mark" /\ UNCHANGED <<cancel, dispatch, asked, reported>>
        /\ KeepRows \/ Overwrite(j, e.copy)
    BY <1>6 DEF RunMark, FailedOverwrite
  <2>2. CASE Finish(j, slot, "error")
    BY <1>1, <1>2, <1>3, <2>1, <2>2, FinishSound
  <2>3. CASE SetAct(j, slot, running) /\ UNCHANGED workflow
    <3>1. running \in Execution /\ running.copy = NoRow /\ running.pc = "exec"
      BY <1>2, ConstantRows DEF Execution, Pcs
    <3>2. QED
      BY <1>1, <1>2, <1>3, <2>1, <2>3, <3>1, ConstantsAreSound, SetActStepSound
  <2>4. QED
    BY <1>6, <2>2, <2>3 DEF RunMark
<1>7. CASE ReportRead(j, n)
  <2> DEFINE skipped == [e EXCEPT !.left = @ - 1]
  <2> DEFINE noted == [pc |-> "report", copy |-> MarkProgress(row[j]), left |-> e.left - 1]
  <2>1. /\ e.pc = "exec" /\ e.left > 0 /\ KeepRows
        /\ UNCHANGED <<cancel, dispatch, asked, reported, workflow>>
        /\ SetAct(j, slot, skipped) \/ SetAct(j, slot, noted)
    BY <1>7 DEF ReportRead
  <2>2. e.left - 1 \in 0..Reports
    BY <1>2, <2>1, ParameterAssumption DEF Execution
  <2>3. skipped \in Execution /\ skipped.copy = e.copy /\ skipped.pc = "exec"
    BY <1>2, <2>1, <2>2 DEF Execution
  <2>4. MarkProgress(row[j]) \in Row /\ SoundRow(j, MarkProgress(row[j]))
    BY <1>1, <1>2, <1>3, MarksAreRows, MarksAreSound
  <2>5. noted \in Execution
    BY <2>2, <2>4 DEF Execution, Pcs
  <2>6. CASE SetAct(j, slot, skipped)
    BY <1>1, <1>3, <2>1, <2>3, <2>6, SetActStepSound
  <2>7. CASE SetAct(j, slot, noted)
    BY <1>1, <2>1, <2>4, <2>5, <2>7, SetActStepSound
  <2>8. QED
    BY <2>1, <2>6, <2>7
<1>8. CASE ReportWrite(j, n)
  <2> DEFINE running == [e EXCEPT !.pc = "exec", !.copy = NoRow]
  <2>1. /\ e.pc = "report" /\ UNCHANGED <<cancel, dispatch, asked, reported, workflow>>
        /\ KeepRows \/ Overwrite(j, e.copy)
        /\ SetAct(j, slot, running)
    BY <1>8 DEF ReportWrite, FailedOverwrite
  <2>2. running \in Execution /\ running.copy = NoRow /\ running.pc = "exec"
    BY <1>2, ConstantRows DEF Execution, Pcs
  <2>3. QED
    BY <1>1, <1>2, <1>3, <2>1, <2>2, ConstantsAreSound, SetActStepSound
<1>9. CASE RunReturn(j, n)
  <2>1. /\ e.pc = "exec" /\ UNCHANGED <<cancel, dispatch, asked>> /\ KeepRows
        /\ reported \subseteq reported'
        /\ \/ Finish(j, slot, "ok") /\ j \in reported'
           \/ Finish(j, slot, "error")
           \/ Finish(j, slot, "canceled") /\ workflow[j].cancelled
    BY <1>9 DEF RunReturn
  <2>2. CASE Finish(j, slot, "ok") /\ j \in reported'
    BY <1>1, <2>1, <2>2, FinishSound
  <2>3. CASE Finish(j, slot, "error")
    BY <1>1, <2>1, <2>3, FinishSound
  <2>4. CASE Finish(j, slot, "canceled") /\ workflow[j].cancelled
    BY <1>1, <1>3, <2>1, <2>4, FinishSound
  <2>5. QED
    BY <2>1, <2>2, <2>3, <2>4
<1>10. QED
  BY <1>4, <1>5, <1>6, <1>7, <1>8, <1>9 DEF RunAttempt, RunStep

\* The finalizers keep everything sound.
LEMMA FinalizerSound ==
  ASSUME TypeOK, SoundEverywhere, NEW j \in Jobs, NEW slot \in Slots, Finalizer(j, slot)
  PROVE  SoundEverywhere'
<1> DEFINE e == act[j][slot]
<1> DEFINE kind == slot[1]
<1>1. kind \in Finalizers /\ kind # "run"
  BY DEF Finalizer, Finalizers
<1>2. e \in Execution /\ row[j] \in Row /\ e.copy \in Row
  BY DEF TypeOK, Execution
<1>3. SoundRow(j, row[j]) /\ SoundRow(j, e.copy) /\ Evidence(j)
  BY DEF SoundEverywhere, SoundRows, SoundExecutions, SoundWorkflows
<1>4. CASE Poll(j, slot)
  BY <1>4, PollSound
<1>5. CASE FinalizerLoad(j, slot)
  <2> DEFINE answer == EarlyReturn(kind, row[j])
  <2> DEFINE written == [pc |-> "write", copy |-> Finalized(kind, row[j]), left |-> 0]
  <2>1. e.pc = "ready" /\ UNCHANGED <<cancel, dispatch, asked, reported>> /\ KeepRows
    BY <1>5 DEF FinalizerLoad
  <2>2. CASE answer # "" /\ Finish(j, slot, answer)
    <3>1. answer \in {"ok", "refused"} /\ (answer = "refused" => row[j].cancel)
      BY <2>2 DEF EarlyReturn
    <3>2. answer = "refused" => j \in asked
      BY <1>3, <3>1 DEF SoundRow
    <3>3. QED
      BY <1>1, <2>1, <2>2, <3>1, <3>2, FinishSound
  <2>3. CASE Finish(j, slot, "error")
    BY <2>1, <2>3, FinishSound
  <2>4. CASE SetAct(j, slot, written) /\ UNCHANGED workflow
    <3>1. Engaged(j, kind)
      BY <2>1 DEF Engaged
    <3>2. SoundRow(j, Finalized(kind, row[j]))
      <4>1. CASE kind = "complete"
        BY <1>2, <1>3, <3>1, <4>1, MarksAreSound DEF Evidence, Finalized
      <4>2. CASE kind = "fail"
        BY <1>2, <1>3, <3>1, <4>2, MarksAreSound DEF Evidence, Finalized
      <4>3. CASE kind = "cancel"
        BY <1>2, <1>3, <3>1, <4>3, MarksAreSound DEF Evidence, Finalized
      <4>4. QED
        BY <1>1, <4>1, <4>2, <4>3 DEF Finalizers
    <3>3. Finalized(kind, row[j]) \in Row
      BY <1>1, <1>2, OneAttempt, MarksAreRows DEF Finalized, Finalizers
    <3>4. written \in Execution
      BY <3>3, ParameterAssumption DEF Execution, Pcs
    <3>5. QED
      BY <2>1, <2>4, <3>2, <3>4, SetActStepSound
  <2>5. QED
    BY <1>5, <2>2, <2>3, <2>4 DEF FinalizerLoad
<1>6. CASE FinalizerWrite(j, slot)
  <2>1. /\ e.pc = "write" /\ UNCHANGED <<cancel, dispatch, asked, reported>>
        /\ KeepRows \/ Overwrite(j, e.copy)
        /\ Finish(j, slot, "ok") \/ Finish(j, slot, "error")
    BY <1>6 DEF FinalizerWrite, FailedOverwrite
  <2>2. QED
    BY <1>1, <1>2, <1>3, <2>1, FinishSound
<1>7. QED
  BY <1>4, <1>5, <1>6 DEF Finalizer

\* Crashes, timeouts and cancellations of executions keep everything sound.
LEMMA ExecutionFaultsSound ==
  ASSUME TypeOK, SoundEverywhere, NEW j \in Jobs,
         \/ Service(j)
         \/ \E slot \in Slots : WorkerCrash(j, slot) \/ TimeoutAlive(j, slot)
  PROVE  SoundEverywhere'
<1>1. ASSUME NEW slot \in Slots, TimeoutDead(j, slot) PROVE SoundEverywhere'
  BY <1>1, FinishSound DEF TimeoutDead
<1>2. ASSUME NEW slot \in Slots, WorkerCrash(j, slot) PROVE SoundEverywhere'
  <2>1. Dead \in Execution /\ Dead.copy = NoRow /\ Dead.pc = "dead"
    BY ConstantExecutions DEF Dead, Off
  <2>2. act[j][slot].pc # "off"
    BY <1>2 DEF WorkerCrash, Alive
  <2>3. QED
    BY <1>2, <2>1, <2>2, ConstantsAreSound, SetActStepSound DEF WorkerCrash
<1>3. ASSUME NEW slot \in Slots, NEW outcome \in {"error", "canceled"},
             Deliver(j, slot, outcome), KeepRows,
             UNCHANGED <<cancel, dispatch, act, asked, reported>>,
             act[j][slot].pc # "off" \/ outcome = "canceled",
             outcome = "canceled" => workflow[j].cancelled
      PROVE  SoundEverywhere'
  <2> USE DEF SoundEverywhere
  <2>1. Monotone
    BY <1>3, CancelledGrows DEF Monotone
  <2>2. workflow[j].cancelled => j \in asked
    BY DEF SoundWorkflows, Evidence
  <2>3. JustifiedMoves
    BY <1>3, <2>1, <2>2, DeliverJustified
  <2>4. QED
    BY <1>3, <2>1, <2>3, NoStart, KeepRowsSound, KeepExecutionsSound, ExecutionStepSound
<1>4. ASSUME NEW slot \in Slots, TimeoutAlive(j, slot) PROVE SoundEverywhere'
  BY <1>3, <1>4 DEF TimeoutAlive, Alive
<1>5. ASSUME NEW n \in Runs, CancelUnstarted(j, n) PROVE SoundEverywhere'
  BY <1>3, <1>5, RunSlots DEF CancelUnstarted
<1>6. QED
  BY <1>1, <1>2, <1>4, <1>5 DEF Service

\* Nothing is claimed of the initial state.
LEMMA InitSound == Init => SoundEverywhere
<1> SUFFICES ASSUME Init PROVE SoundEverywhere
  OBVIOUS
<1> USE DEF Init
<1>1. SoundRows /\ SoundExecutions
  BY ConstantsAreSound DEF SoundRows, SoundExecutions, Off
<1>2. SoundRequests
  BY DEF SoundRequests, SoundRow, IdleRequest, NoRow
<1>3. SoundDispatch
  BY ConstantsAreSound DEF SoundDispatch, IdleDispatch
<1>4. ASSUME NEW j \in Jobs PROVE Evidence(j)
  <2>1. workflow[j] = NoWorkflow /\ \A slot \in Slots : act[j][slot].pc = "off"
    BY DEF Off
  <2>2. \A kind \in Kinds : ~Engaged(j, kind)
    BY <2>1 DEF Engaged, NoWorkflow, Kinds, Finalizers
  <2>3. QED
    BY <2>1, <2>2 DEF Evidence, NoWorkflow, Kinds, Finalizers
<1>5. QED
  BY <1>1, <1>2, <1>3, <1>4 DEF SoundEverywhere, SoundWorkflows

\* Every step keeps every copy of every row sound.
LEMMA NextSound == TypeOK /\ SoundEverywhere /\ [Next]_vars => SoundEverywhere'
<1> SUFFICES ASSUME TypeOK, SoundEverywhere, [Next]_vars PROVE SoundEverywhere'
  OBVIOUS
<1>1. CASE Users
  BY <1>1, SubmitSound, CancelSound DEF Users
<1>2. CASE Dispatcher
  BY <1>2, DispatcherSound
<1>3. CASE Environment
  BY <1>3, WebCrashSound, ExecutionFaultsSound DEF Environment
<1>4. CASE \E c \in Requests : CancelHandler(c)
  BY <1>4, CancelSound
<1>5. ASSUME NEW j \in Jobs, Handler(j) PROVE SoundEverywhere'
  BY <1>5, SubmitSound DEF Handler
<1>6. ASSUME NEW j \in Jobs, Service(j) PROVE SoundEverywhere'
  BY <1>6, ExecutionFaultsSound
<1>7. ASSUME NEW j \in Jobs, NEW n \in Runs, RunAttempt(j, n) PROVE SoundEverywhere'
  BY <1>7, RunSound
<1>8. ASSUME NEW j \in Jobs, NEW slot \in Slots, Finalizer(j, slot) PROVE SoundEverywhere'
  BY <1>8, FinalizerSound
<1>9. CASE UNCHANGED vars
  BY <1>9
     DEF vars, SoundEverywhere, SoundRows, SoundExecutions, SoundRequests, SoundDispatch,
         SoundWorkflows, Evidence, Engaged, SoundRow, MayFail, EveryAttemptStarted
<1>10. QED
  BY <1>1, <1>2, <1>3, <1>4, <1>5, <1>6, <1>7, <1>8, <1>9 DEF Next

\* Every copy of a row, in the table and in the hands of a handler, of the
\* dispatcher or of an activity, is sound in every reachable state.
THEOREM SoundnessHolds == Spec => []SoundEverywhere
<1>1. Init => TypeOK /\ SoundEverywhere
  BY InitTypeOK, InitSound
<1>2. TypeOK /\ SoundEverywhere /\ [Next]_vars => (TypeOK /\ SoundEverywhere)'
  BY NextTypeOK, NextSound
<1>3. QED
  BY <1>1, <1>2, PTL DEF Spec

\* A completed job always has the report its executor saved.
THEOREM CompletedJobsHaveReports == Spec => []CompletedHasReport
<1>1. SoundEverywhere => CompletedHasReport
  BY DEF SoundEverywhere, SoundRows, SoundRow, CompletedHasReport
<1>2. QED
  BY <1>1, SoundnessHolds, PTL

\* A job is cancelled only for a user who asked for it.
THEOREM OnlyUsersCancel == Spec => []CancelledWasAsked
<1>1. SoundEverywhere => CancelledWasAsked
  BY DEF SoundEverywhere, SoundRows, SoundRow, CancelledWasAsked
<1>2. QED
  BY <1>1, SoundnessHolds, PTL

\* A job fails only when its attempts are used up or its workflow cancelled.
THEOREM FailuresFollowRetries == Spec => []FailureFollowsRetries
<1>1. SoundEverywhere => FailureFollowsRetries
  BY DEF SoundEverywhere, SoundRows, SoundRow, MayFail, EveryAttemptStarted,
         FailureFollowsRetries
<1>2. QED
  BY <1>1, SoundnessHolds, PTL

\* Every end a job is shown to have had is justified, however stale the copies
\* its row was written from: the three together.
THEOREM EndsAreAlwaysJustified == Spec => []EndsAreJustified
<1>1. CompletedHasReport /\ CancelledWasAsked /\ FailureFollowsRetries => EndsAreJustified
  BY DEF EndsAreJustified
<1>2. QED
  BY <1>1, CompletedJobsHaveReports, OnlyUsersCancel, FailuresFollowRetries, PTL

=============================================================================
