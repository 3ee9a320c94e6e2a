------------------------ MODULE WorkflowEngine_proofs ------------------------
(***************************************************************************)
(* Theorems about the workflow executor, for every task graph, cap, retry  *)
(* limit and combination of cancels, crashes, resumes and retries.         *)
(*                                                                         *)
(* TypeOK is inductive by itself.  The other invariants follow from IInv,  *)
(* which says what the executor's memory knows about the rows: what done   *)
(* holds is settled in the database, what is pending in memory is neither  *)
(* done nor completed, and a batch exists only while its phase does.       *)
(* Four more invariants rest on it, each with a section of its own: what a *)
(* finished run leaves (FinishInv), what is reviewed (ReviewedRows), what  *)
(* becomes of the branches of a router (RoutingInv), and how far memory    *)
(* and rows agree (MemoryInv), from which the refinement follows.          *)
(***************************************************************************)
EXTENDS WorkflowEngine, FiniteSetTheorems, TLAPS

\* The tasks of completedIds are settled in the database.
DoneSettled ==
    \A d \in done :
        row[d] \in {"completed", "skipped"} \cup IF entry = "continue" THEN {"failed"} ELSE {}

\* A task of the batch has its dependencies in completedIds, and is not there.
BatchReady == \A t \in Tasks : pc[t] # "idle" => Deps[t] \subseteq done /\ t \notin done

\* What memory holds pending is neither done nor completed in the database.
PendingOpen ==
    phase # "ended" =>
        \A t \in Tasks : mem[t] = "pending" => t \notin done /\ row[t] # "completed"

\* From the end of its attempt to the end of the batch, a task is completed.
CompletedInReview ==
    \A t \in Tasks : pc[t] \in {"review", "fulfilled"} => row[t] = "completed" /\ mem[t] # "pending"

\* Before, it is not.
OpenBeforeReview == \A t \in Tasks : pc[t] \in InBatch \ {"review"} => row[t] # "completed"

BatchOnlyInPhase == phase # "batch" => \A t \in Tasks : pc[t] = "idle"

EndedContinues == phase = "ended" => entry = "continue"

BatchFits == Disjoint(BatchOf) /\ (MaxParallel > 0 => Cardinality(BatchOf) <= MaxParallel)

ErrorEnds == exit = "error" => phase = "ended" /\ wfStatus = "failed"

IInv ==
    /\ TypeOK
    /\ DoneSettled
    /\ BatchReady
    /\ PendingOpen
    /\ CompletedInReview
    /\ OpenBeforeReview
    /\ BatchOnlyInPhase
    /\ EndedContinues
    /\ BatchFits
    /\ ErrorEnds

---------------------------------------------------------------------------
(* Type correctness *)

\* Put keeps a function's type.
LEMMA PutType ==
    ASSUME NEW R, NEW f \in [Tasks -> R], NEW S, NEW v \in R
    PROVE  Put(f, S, v) \in [Tasks -> R]
BY DEF Put

\* What Ends writes has its type.
LEMMA EndsType ==
    ASSUME NEW how \in {"completed", "error", "canceled", "crashed"},
           NEW status \in WfStatus,
           Ends(how, status)
    PROVE  /\ wfStatus' \in WfStatus
           /\ phase' \in {"start", "checkpoint", "paused", "batch", "closing", "ended"}
           /\ entry' \in {"execute", "continue"}
           /\ caller' \in {"terminal", "background"}
           /\ pc' \in [Tasks -> InBatch \cup Settled \cup {"idle"}]
           /\ mem' \in [Tasks -> RowStatus]
           /\ done' \subseteq Tasks
           /\ attempt' \in [Tasks -> 0 .. MaxAttempts]
           /\ aborted' \subseteq Tasks
           /\ raced' \in BOOLEAN
           /\ exit' \in {"none", "completed", "error", "canceled", "timeout", "crashed"}
<1>1. wfStatus' \in WfStatus BY DEF Ends, WfStatus
<1>2. pc' \in [Tasks -> InBatch \cup Settled \cup {"idle"}] BY DEF Ends
<1>3. mem' \in [Tasks -> RowStatus] BY DEF Ends, RowStatus
<1>4. attempt' \in [Tasks -> 0 .. MaxAttempts] BY LimitAssumption DEF Ends
<1>5. exit' \in {"none", "completed", "error", "canceled", "timeout", "crashed"} BY DEF Ends
<1> QED BY <1>1, <1>2, <1>3, <1>4, <1>5 DEF Ends

\* What Continue writes has its type.
LEMMA ContinueType ==
    ASSUME TypeOK, NEW prepared \in [Tasks -> RowStatus],
           Continue(prepared), caller' \in Callers
    PROVE  TypeOK'
BY LimitAssumption DEF Continue, TypeOK, RowStatus, WfStatus

\* The first state of a run has its type.
LEMMA InitType == Init => TypeOK
<1> SUFFICES ASSUME Init PROVE TypeOK
  OBVIOUS
<1>1. attempt \in [Tasks -> 0 .. MaxAttempts] BY LimitAssumption DEF Init
<1>2. caller \in {"terminal", "background"} BY LimitAssumption DEF Init
<1>3. picked \in [Routers -> Tasks \cup {NoBranch}] BY DEF Init
<1>4. pc \in [Tasks -> InBatch \cup Settled \cup {"idle"}] BY DEF Init
<1> QED BY <1>1, <1>2, <1>3, <1>4 DEF Init, TypeOK, WfStatus, ControlState, RowStatus

\* A step of one task keeps every type; the attempt counter, which only a retry below
\* the limit raises, is the part that needs the guard.  (runRetryLoop's bound.)
LEMMA TaskStepType ==
    ASSUME TypeOK, NEW t \in Tasks, TaskStep(t)
    PROVE  TypeOK'
<1> USE DEF TypeOK, At, TaskFrame, RowStatus, InBatch, Registered, Settled, Rejections
<1>1. CASE EnterGate(t) BY <1>1 DEF EnterGate
<1>2. CASE NoGate(t) BY <1>2 DEF NoGate
<1>3. CASE GateApproved(t) BY <1>3 DEF GateApproved
<1>4. CASE GateRefused(t) BY <1>4 DEF GateRefused
<1>5. CASE GateLapsed(t) BY <1>5 DEF GateLapsed
<1>6. CASE Blocked(t) BY <1>6 DEF Blocked
<1>7. CASE CostCapHit(t)
  <2>1. row' \in [Tasks -> RowStatus] /\ mem' \in [Tasks -> RowStatus]
    BY <1>7, PutType DEF CostCapHit
  <2>2. QED BY <1>7, <2>1 DEF CostCapHit, WfStatus
<1>8. CASE Start(t) BY <1>8, LimitAssumption DEF Start
<1>9. CASE WorktreeFails(t) BY <1>9 DEF WorktreeFails
<1>10. CASE AttemptAborted(t) BY <1>10 DEF AttemptAborted
<1>11. CASE AttemptRetried(t)
  <2>1. attempt[t] + 1 \in 0 .. MaxAttempts
    BY <1>11, LimitAssumption DEF AttemptRetried
  <2>2. QED BY <1>11, <2>1 DEF AttemptRetried
<1>12. CASE AttemptFails(t) BY <1>12 DEF AttemptFails
<1>13. CASE BackoffEnds(t) BY <1>13 DEF BackoffEnds
<1>14. CASE BackoffGivesUp(t) BY <1>14 DEF BackoffGivesUp
<1>15. CASE AttemptSucceeds(t)
  <2>1. picked' \in [Routers -> Tasks \cup {NoBranch}]
    BY <1>15 DEF AttemptSucceeds, Children
  <2>2. QED BY <1>15, <2>1 DEF AttemptSucceeds
<1>16. CASE ReviewPasses(t) BY <1>16 DEF ReviewPasses
<1>17. CASE ReviewFails(t) BY <1>17 DEF ReviewFails
<1> QED
  BY TaskStep(t), <1>1, <1>2, <1>3, <1>4, <1>5, <1>6, <1>7, <1>8, <1>9, <1>10, <1>11,
     <1>12, <1>13, <1>14, <1>15, <1>16, <1>17 DEF TaskStep

\* So does a step of the loop around the batch, and of the caller around the loop.
LEMMA LoopStepType ==
    ASSUME TypeOK,
           \/ QuotaPasses \/ QuotaBlocks
           \/ CheckpointPauses \/ CheckpointCancels
           \/ SelectBatch \/ NoReadyTask \/ LoopDone \/ LoopDoneWithFailures
           \/ BatchSucceeds \/ BatchFails
           \/ ClosingCompletes \/ ClosingBlocked
    PROVE  TypeOK'
<1>0. wfStatus \in WfStatus /\ "failed" \in WfStatus /\ "completed" \in WfStatus
  BY DEF TypeOK, WfStatus
<1>a. ControlAfterPass \in ControlState BY DEF ControlAfterPass, ControlState
<1>b. StatusAfterPass \in WfStatus BY DEF StatusAfterPass, TypeOK, WfStatus
<1>1. CASE QuotaPasses BY <1>1 DEF QuotaPasses, TypeOK, dbVars
<1>2. CASE QuotaBlocks BY <1>2, <1>0, EndsType DEF QuotaBlocks, TypeOK
<1>3. CASE CheckpointPauses
  BY <1>3 DEF CheckpointPauses, TypeOK, WfStatus, ControlState
<1>4. CASE CheckpointCancels BY <1>4, <1>0, EndsType DEF CheckpointCancels, TypeOK
<1>5. CASE SelectBatch
  <2>1. pc' \in [Tasks -> InBatch \cup Settled \cup {"idle"}]
    <3>1. PICK B \in Batches(Ready) : pc' = Put(pc, B, "selected") BY <1>5 DEF SelectBatch
    <3>2. QED BY <3>1, PutType DEF TypeOK, InBatch
  <2>2. tried' \subseteq Tasks
    BY <1>5 DEF SelectBatch, TypeOK, Batches, Ready, MemPending
  <2>3. QED BY <1>5, <1>a, <1>b, <2>1, <2>2 DEF SelectBatch, TypeOK
<1>6. CASE NoReadyTask BY <1>6, <1>0, <1>a, EndsType DEF NoReadyTask, TypeOK
<1>7. CASE LoopDone BY <1>7, <1>a, <1>b DEF LoopDone, LoopReturns, TypeOK
<1>8. CASE LoopDoneWithFailures
  BY <1>8, <1>0, <1>a, EndsType DEF LoopDoneWithFailures, LoopReturns, TypeOK
<1>9. CASE BatchSucceeds
  <2>1. PICK S \in RoutingSkips :
          /\ row' = Put(row, S, "skipped")
          /\ mem' = Put(mem, S, "skipped")
          /\ done' = DoneAfter \cup S
    BY <1>9 DEF BatchSucceeds
  <2>2. row' \in [Tasks -> RowStatus] /\ mem' \in [Tasks -> RowStatus]
    BY <2>1, PutType DEF TypeOK, RowStatus
  <2>3. done' \subseteq Tasks
    BY <2>1 DEF TypeOK, RoutingSkips, Unpicked, MemPending, DoneAfter, Fulfilled
  <2>4. QED BY <1>9, <2>2, <2>3 DEF BatchSucceeds, TypeOK
<1>10. CASE BatchFails
  <2>1. row' \in [Tasks -> RowStatus]
    <3>1. PICK S \in RoutingSkips : row' = Put(row, S, "skipped") BY <1>10 DEF BatchFails
    <3>2. QED BY <3>1, PutType DEF TypeOK, RowStatus
  <2>2. Ends("canceled", wfStatus) \/ Ends("error", "failed")
    BY <1>10 DEF BatchFails
  <2>3. QED BY <1>10, <1>0, <2>1, <2>2, EndsType DEF BatchFails, TypeOK
<1>11. CASE ClosingCompletes
  <2>1. Ends("completed", wfStatus) \/ Ends("completed", "completed")
    BY <1>11 DEF ClosingCompletes
  <2>2. QED BY <1>11, <1>0, <2>1, EndsType DEF ClosingCompletes, TypeOK
<1>12. CASE ClosingBlocked BY <1>12, <1>0, EndsType DEF ClosingBlocked, TypeOK
<1> QED BY <1>1, <1>2, <1>3, <1>4, <1>5, <1>6, <1>7, <1>8, <1>9, <1>10, <1>11, <1>12

\* So does a resume or a retry: what it writes to the rows are statuses.
LEMMA ResumeType ==
    ASSUME TypeOK, Resume \/ RetryTasks
    PROVE  TypeOK'
<1>0. "pending" \in RowStatus /\ "skipped" \in RowStatus /\ row \in [Tasks -> RowStatus]
  BY DEF RowStatus, TypeOK
<1>1. CASE ResumeRetrying
  <2>1. caller' \in Callers
        /\ \/ Continue(row)
           \/ \E t \in RowsIn({"failed"}) : Continue([row EXCEPT ![t] = "pending"])
    BY <1>1 DEF ResumeRetrying
  <2>2. CASE Continue(row) BY <2>1, <2>2, <1>0, ContinueType
  <2>3. ASSUME NEW t \in RowsIn({"failed"}), Continue([row EXCEPT ![t] = "pending"])
        PROVE  TypeOK'
    BY <2>1, <2>3, <1>0, ContinueType
  <2>4. QED BY <2>1, <2>2, <2>3
<1>2. CASE ResumeSkippingFailed
  BY <1>2, <1>0, PutType, ContinueType DEF ResumeSkippingFailed
<1>3. CASE ResumeCancelled
  BY <1>3, <1>0, PutType, ContinueType DEF ResumeCancelled
<1>4. CASE ResumeInterrupted BY <1>4, <1>0, ContinueType DEF ResumeInterrupted
<1>5. CASE ResumeRefused BY <1>5 DEF ResumeRefused, TypeOK, WfStatus, memVars
<1>6. CASE RetryTasks
  <2>1. PICK S \in RetrySelections : Continue(Put(row, S, "pending"))
    BY <1>6 DEF RetryTasks
  <2>2. Put(row, S, "pending") \in [Tasks -> RowStatus] BY <1>0, PutType
  <2>3. caller' \in Callers BY <1>6 DEF RetryTasks
  <2>4. QED BY <2>1, <2>2, <2>3, ContinueType
<1> QED BY <1>1, <1>2, <1>3, <1>4, <1>5, <1>6 DEF Resume

\* So do the operator's requests, the deadline, a crash and the lease expiry.
LEMMA ControlStepType ==
    ASSUME TypeOK,
           \/ RequestPause \/ RequestResume \/ RequestCancel
           \/ DeadlineFires \/ Crash \/ ExpireLease
    PROVE  TypeOK'
<1>1. CASE RequestPause BY <1>1 DEF RequestPause, TypeOK, ControlState, memVars
<1>2. CASE RequestResume
  BY <1>2 DEF RequestResume, TypeOK, ControlState, WfStatus, memVars
<1>3. ASSUME NEW where, CancelActive(where) PROVE TypeOK'
  <2>1. row' \in [Tasks -> RowStatus]
    BY <1>3, PutType DEF CancelActive, TypeOK, RowStatus
  <2>2. aborted' \subseteq Tasks
    BY <1>3 DEF CancelActive, TypeOK, Cancellable, RowsIn
  <2>3. QED BY <1>3, <2>1, <2>2 DEF CancelActive, TypeOK, ControlState, WfStatus
<1>4. CASE CancelTerminal BY <1>4 DEF CancelTerminal, TypeOK, ControlState, memVars
<1>5. CASE DeadlineFires BY <1>5 DEF DeadlineFires, TypeOK, WfStatus
<1>6. CASE Crash
  <2>1. wfStatus \in WfStatus BY DEF TypeOK
  <2>2. QED BY <1>6, <2>1, EndsType DEF Crash, TypeOK
<1>7. CASE ExpireLease
  <2>1. row' \in [Tasks -> RowStatus] BY <1>7 DEF ExpireLease, TypeOK, RowStatus
  <2>2. wfStatus' \in WfStatus BY <1>7 DEF ExpireLease, TypeOK, WfStatus
  <2>3. UNCHANGED <<control, picked, memVars, exit, reviewed, tried>>
    BY <1>7 DEF ExpireLease
  <2>4. QED BY <2>1, <2>2, <2>3 DEF TypeOK, memVars
<1> QED BY <1>1, <1>2, <1>3, <1>4, <1>5, <1>6, <1>7 DEF RequestCancel

\* Every step of the specification keeps the types.
LEMMA NextType == TypeOK /\ [Next]_vars => TypeOK'
<1> SUFFICES ASSUME TypeOK, [Next]_vars PROVE TypeOK'
  OBVIOUS
<1>1. CASE UNCHANGED vars BY <1>1 DEF vars, dbVars, memVars, TypeOK
<1>2. CASE ExecutorStep BY <1>2, TaskStepType, LoopStepType DEF ExecutorStep
<1>3. CASE OperatorStep BY <1>3, ResumeType, ControlStepType DEF OperatorStep
<1>4. CASE EnvironmentStep BY <1>4, ControlStepType DEF EnvironmentStep
<1> QED BY <1>1, <1>2, <1>3, <1>4 DEF Next

\* Every state of the executor, its rows and its control channel is well typed; in
\* particular no task's attempt ever exceeds max_retries + 1.
THEOREM TypeCorrect == Spec => []TypeOK
BY InitType, NextType, PTL DEF Spec

---------------------------------------------------------------------------
(* The inductive invariant *)

\* The inductive invariant holds at first: nothing is done, and nothing in flight.
LEMMA InitIInv == Init => IInv
<1> SUFFICES ASSUME Init PROVE IInv
  OBVIOUS
<1>1. TypeOK BY InitType
<1>2. BatchOf = {} BY DEF Init, BatchOf
<1>3. BatchFits BY <1>2, FS_EmptySet, LimitAssumption DEF BatchFits, Disjoint
<1> QED
  BY <1>1, <1>3 DEF IInv, Init, DoneSettled, BatchReady, PendingOpen, CompletedInReview,
     OpenBeforeReview, BatchOnlyInPhase, EndedContinues, ErrorEnds, InBatch, Registered

\* An executor that ends leaves IInv true, provided an error has failed the workflow.
LEMMA EndsIInv ==
    ASSUME TypeOK', NEW how, NEW status, Ends(how, status),
           how = "error" => status = "failed"
    PROVE  IInv'
<1>1. BatchOf' = {} BY DEF Ends, BatchOf
<1>2. BatchFits' BY <1>1, FS_EmptySet, LimitAssumption DEF BatchFits, Disjoint
<1>3. ErrorEnds' BY DEF Ends, ErrorEnds
<1>4. CompletedInReview' /\ OpenBeforeReview' /\ BatchReady' /\ BatchOnlyInPhase'
  BY DEF Ends, CompletedInReview, OpenBeforeReview, BatchReady, BatchOnlyInPhase, InBatch,
     Registered
<1> QED
  BY <1>2, <1>3, <1>4 DEF IInv, Ends, DoneSettled, PendingOpen, EndedContinues

\* What a step of one task leaves alone, as long as the batch keeps its members.
LEMMA TaskFrameIInv ==
    ASSUME IInv, phase = "batch", TaskFrame,
           \A u \in Tasks : pc'[u] = "idle" <=> pc[u] = "idle"
    PROVE  BatchReady' /\ BatchOnlyInPhase' /\ EndedContinues' /\ BatchFits' /\ ErrorEnds'
<1>1. BatchOf' = BatchOf BY DEF BatchOf
<1>2. BatchFits' BY <1>1 DEF IInv, BatchFits, Disjoint, Overlap
<1>3. BatchReady' BY DEF IInv, BatchReady, TaskFrame
<1> QED
  BY <1>2, <1>3 DEF IInv, TaskFrame, BatchOnlyInPhase, EndedContinues, ErrorEnds

\* A step of one task happens in a batch, moves that task, and keeps it in the batch.
LEMMA TaskStepMoves ==
    ASSUME TypeOK, NEW t \in Tasks, TaskStep(t)
    PROVE  /\ phase = "batch" /\ pc[t] # "idle" /\ TaskFrame
           /\ pc' \in [Tasks -> InBatch \cup Settled \cup {"idle"}]
           /\ \A u \in Tasks \ {t} : pc'[u] = pc[u]
           /\ pc'[t] # "idle"
BY DEF TypeOK, TaskStep, At, Rejections, EnterGate, NoGate, GateApproved, GateRefused, GateLapsed,
   Blocked, CostCapHit, Start, WorktreeFails, AttemptAborted, AttemptRetried, AttemptFails,
   BackoffEnds, BackoffGivesUp, AttemptSucceeds, ReviewPasses, ReviewFails, InBatch, Registered,
   Settled

\* A step of one task keeps it: one case per action, one conjunct after the other.
LEMMA TaskStepIInv ==
    ASSUME IInv, TypeOK', NEW t \in Tasks, TaskStep(t)
    PROVE  IInv'
<1>1. /\ phase = "batch" /\ pc[t] # "idle" /\ TaskFrame
      /\ pc' \in [Tasks -> InBatch \cup Settled \cup {"idle"}]
      /\ \A u \in Tasks \ {t} : pc'[u] = pc[u]
      /\ pc'[t] # "idle"
  BY TaskStepMoves DEF IInv
<1>2. BatchReady' /\ BatchOnlyInPhase' /\ EndedContinues' /\ BatchFits' /\ ErrorEnds'
  BY <1>1, TaskFrameIInv
<1>3. t \notin done BY <1>1 DEF IInv, BatchReady
<1>. DEFINE Rest == DoneSettled /\ PendingOpen /\ CompletedInReview /\ OpenBeforeReview
<1>4. Rest'
  <2> USE <1>1, <1>3 DEF IInv, TypeOK, DoneSettled, PendingOpen, CompletedInReview,
       OpenBeforeReview, At, TaskFrame, InBatch, Registered, Rejections
  <2>1. CASE EnterGate(t) BY <2>1 DEF EnterGate
  <2>2. CASE NoGate(t) BY <2>2 DEF NoGate
  <2>3. CASE GateApproved(t) BY <2>3 DEF GateApproved
  <2>4. CASE GateRefused(t) BY <2>4 DEF GateRefused
  <2>5. CASE GateLapsed(t) BY <2>5 DEF GateLapsed
  <2>6. CASE Blocked(t) BY <2>6 DEF Blocked
  <2>7. CASE CostCapHit(t) BY <2>7 DEF CostCapHit, MemPending, Put
  <2>8. CASE Start(t) BY <2>8 DEF Start
  <2>9. CASE WorktreeFails(t) BY <2>9 DEF WorktreeFails
  <2>10. CASE AttemptAborted(t) BY <2>10 DEF AttemptAborted
  <2>11. CASE AttemptRetried(t) BY <2>11 DEF AttemptRetried
  <2>12. CASE AttemptFails(t) BY <2>12 DEF AttemptFails
  <2>13. CASE BackoffEnds(t) BY <2>13 DEF BackoffEnds
  <2>14. CASE BackoffGivesUp(t) BY <2>14 DEF BackoffGivesUp
  <2>15. CASE AttemptSucceeds(t) BY <2>15 DEF AttemptSucceeds
  <2>16. CASE ReviewPasses(t) BY <2>16 DEF ReviewPasses
  <2>17. CASE ReviewFails(t) BY <2>17 DEF ReviewFails
  <2> QED
    BY <2>1, <2>2, <2>3, <2>4, <2>5, <2>6, <2>7, <2>8, <2>9, <2>10, <2>11, <2>12, <2>13,
       <2>14, <2>15, <2>16, <2>17 DEF TaskStep
<1> QED BY <1>2, <1>4 DEF IInv

\* Selection keeps it: what it takes up is ready, disjoint, and within the cap.
LEMMA SelectBatchIInv ==
    ASSUME IInv, TypeOK', SelectBatch
    PROVE  IInv'
<1>1. PICK B \in Batches(Ready) : pc' = Put(pc, B, "selected") BY DEF SelectBatch
<1>2. \A t \in Tasks : pc[t] = "idle"
  BY DEF IInv, BatchOnlyInPhase, SelectBatch, Passes, CheckpointPasses, PollPasses
<1>3. B \subseteq Ready /\ Disjoint(B) /\ (MaxParallel > 0 => Cardinality(B) <= MaxParallel)
  BY LimitAssumption DEF Batches
<1>4. \A t \in B : t \in Tasks /\ mem[t] = "pending" /\ Deps[t] \subseteq done
  BY <1>3 DEF Ready, MemPending
<1>5. \A t \in Tasks : pc'[t] = IF t \in B THEN "selected" ELSE "idle"
  BY <1>1, <1>2 DEF Put
<1>6. BatchOf' = B BY <1>4, <1>5 DEF BatchOf
<1>7. BatchFits' BY <1>3, <1>6 DEF BatchFits, Disjoint, Overlap
<1>8. phase # "ended" BY DEF SelectBatch, Passes, CheckpointPasses, PollPasses
<1>9. BatchReady' BY <1>4, <1>5, <1>8 DEF IInv, PendingOpen, BatchReady, SelectBatch
<1>10. OpenBeforeReview' /\ CompletedInReview'
  BY <1>4, <1>5, <1>8 DEF IInv, PendingOpen, OpenBeforeReview, CompletedInReview, SelectBatch,
     InBatch, Registered
<1> QED
  BY <1>7, <1>8, <1>9, <1>10 DEF IInv, SelectBatch, DoneSettled, PendingOpen, BatchOnlyInPhase,
     EndedContinues, ErrorEnds

\* The batch of a run whose every task is fulfilled: its tasks are settled, and so
\* are the tasks the routers skip.
LEMMA BatchSucceedsIInv ==
    ASSUME IInv, TypeOK', BatchSucceeds
    PROVE  IInv'
<1>1. PICK S \in RoutingSkips :
        /\ row' = Put(row, S, "skipped")
        /\ mem' = Put(mem, S, "skipped")
        /\ done' = DoneAfter \cup S
  BY DEF BatchSucceeds
<1>2. phase = "batch" /\ phase' = "checkpoint" BY DEF BatchSucceeds, BatchSettled
<1>3. pc' = [t \in Tasks |-> "idle"] BY DEF BatchSucceeds
<1>4. S \subseteq MemPending BY DEF RoutingSkips, Unpicked
<1>5. \A t \in Fulfilled : t \in Tasks /\ row[t] = "completed" /\ mem[t] # "pending"
  BY DEF Fulfilled, IInv, CompletedInReview
<1>6. DoneSettled'
  BY <1>1, <1>4, <1>5 DEF IInv, TypeOK, DoneSettled, DoneAfter, Put, MemPending, BatchSucceeds
<1>7. PendingOpen'
  BY <1>1, <1>2, <1>4, <1>5 DEF IInv, PendingOpen, DoneAfter, Put, MemPending
<1>8. BatchOf' = {} BY <1>3 DEF BatchOf
<1>9. BatchFits' BY <1>8, FS_EmptySet, LimitAssumption DEF BatchFits, Disjoint
<1>10. BatchReady' /\ OpenBeforeReview' /\ CompletedInReview' /\ BatchOnlyInPhase'
  BY <1>3 DEF BatchReady, OpenBeforeReview, CompletedInReview, BatchOnlyInPhase, InBatch,
     Registered
<1> QED
  BY <1>2, <1>6, <1>7, <1>9, <1>10 DEF IInv, EndedContinues, ErrorEnds, BatchSucceeds

\* A step that changes neither the rows nor what memory knows of them.
LEMMA LoopFrameIInv ==
    ASSUME IInv, TypeOK', phase # "ended", phase # "batch", phase' # "ended", phase' # "batch",
           UNCHANGED <<row, entry, pc, mem, done, exit>>
    PROVE  IInv'
<1>1. BatchOf' = BatchOf BY DEF BatchOf
<1>2. BatchFits' BY <1>1 DEF IInv, BatchFits, Disjoint, Overlap
<1> QED
  BY <1>2 DEF IInv, DoneSettled, BatchReady, PendingOpen, CompletedInReview, OpenBeforeReview,
     BatchOnlyInPhase, EndedContinues, ErrorEnds

\* A step of the loop keeps it: it selects, settles, or ends the run.
LEMMA LoopStepIInv ==
    ASSUME IInv, TypeOK',
           \/ QuotaPasses \/ QuotaBlocks
           \/ CheckpointPauses \/ CheckpointCancels
           \/ SelectBatch \/ NoReadyTask \/ LoopDone \/ LoopDoneWithFailures
           \/ BatchSucceeds \/ BatchFails
           \/ ClosingCompletes \/ ClosingBlocked
    PROVE  IInv'
<1>1. CASE QuotaPasses BY <1>1, LoopFrameIInv DEF QuotaPasses, dbVars
<1>2. CASE QuotaBlocks BY <1>2, EndsIInv DEF QuotaBlocks
<1>3. CASE CheckpointPauses BY <1>3, LoopFrameIInv DEF CheckpointPauses
<1>4. CASE CheckpointCancels BY <1>4, EndsIInv DEF CheckpointCancels
<1>5. CASE SelectBatch BY <1>5, SelectBatchIInv
<1>6. CASE NoReadyTask BY <1>6, EndsIInv DEF NoReadyTask
<1>7. CASE LoopDone
  BY <1>7, LoopFrameIInv DEF LoopDone, LoopReturns, Passes, CheckpointPasses, PollPasses
<1>8. CASE LoopDoneWithFailures BY <1>8, EndsIInv DEF LoopDoneWithFailures
<1>9. CASE BatchSucceeds BY <1>9, BatchSucceedsIInv
<1>10. CASE BatchFails
  <2>1. Ends("canceled", wfStatus) \/ Ends("error", "failed") BY <1>10 DEF BatchFails
  <2>2. QED BY <2>1, EndsIInv
<1>11. CASE ClosingCompletes BY <1>11, EndsIInv DEF ClosingCompletes
<1>12. CASE ClosingBlocked BY <1>12, EndsIInv DEF ClosingBlocked
<1> QED BY <1>1, <1>2, <1>3, <1>4, <1>5, <1>6, <1>7, <1>8, <1>9, <1>10, <1>11, <1>12

\* A resumed run takes its memory from the rows.
LEMMA ContinueIInv ==
    ASSUME IInv, TypeOK', phase = "ended", NEW prepared, Continue(prepared)
    PROVE  IInv'
<1>1. BatchOf' = BatchOf BY DEF Continue, BatchOf
<1>2. BatchFits' BY <1>1 DEF IInv, BatchFits, Disjoint, Overlap
<1>3. entry' = "continue" BY DEF IInv, EndedContinues, Continue
<1>4. \A t \in Tasks : pc'[t] = "idle" BY DEF IInv, BatchOnlyInPhase, Continue
<1>5. row' = mem' /\ done' = {t \in Tasks : row'[t] \in {"completed", "failed", "skipped"}}
  BY DEF Continue
<1>6. DoneSettled' BY <1>3, <1>5 DEF DoneSettled
<1>7. PendingOpen' BY <1>5 DEF PendingOpen
<1>8. BatchReady' /\ OpenBeforeReview' /\ CompletedInReview' /\ BatchOnlyInPhase'
  BY <1>4 DEF BatchReady, OpenBeforeReview, CompletedInReview, BatchOnlyInPhase, InBatch,
     Registered
<1> QED BY <1>2, <1>3, <1>6, <1>7, <1>8 DEF IInv, EndedContinues, ErrorEnds, Continue

\* A resume keeps it: what it counts as done is settled in the rows it wrote.
LEMMA ResumeIInv ==
    ASSUME IInv, TypeOK', Resume \/ RetryTasks
    PROVE  IInv'
<1>1. CASE ResumeRefused
  <2>1. BatchOf' = BatchOf BY <1>1 DEF ResumeRefused, memVars, BatchOf
  <2>2. BatchFits' BY <2>1 DEF IInv, BatchFits, Disjoint, Overlap
  <2>3. QED
    BY <1>1, <2>2 DEF ResumeRefused, memVars, IInv, DoneSettled, BatchReady, PendingOpen,
       CompletedInReview, OpenBeforeReview, BatchOnlyInPhase, EndedContinues, ErrorEnds
<1>2. CASE ~ResumeRefused
  <2>1. phase = "ended" /\ \E prepared : Continue(prepared)
    BY <1>2 DEF Resume, Resumable, ResumeRetrying, ResumeSkippingFailed, ResumeCancelled,
       ResumeInterrupted, RetryTasks
  <2>2. QED BY <2>1, ContinueIInv
<1> QED BY <1>1, <1>2

\* A step of the control channel or of the scheduler: what it writes to the rows
\* leaves the settled ones as they are.
LEMMA RowsOnlyIInv ==
    ASSUME IInv, TypeOK', UNCHANGED <<phase, entry, pc, mem, done, exit>>,
           \A t \in Tasks :
               \/ row'[t] = row[t]
               \/ row[t] \in {"pending", "running"} /\ row'[t] \in {"failed", "cancelled"},
           wfStatus = "failed" => wfStatus' = "failed"
    PROVE  IInv'
<1>1. BatchOf' = BatchOf BY DEF BatchOf
<1>2. BatchFits' BY <1>1 DEF IInv, BatchFits, Disjoint, Overlap
<1>3. DoneSettled' BY DEF IInv, TypeOK, DoneSettled
<1>4. PendingOpen' /\ CompletedInReview' /\ OpenBeforeReview'
  BY DEF IInv, PendingOpen, CompletedInReview, OpenBeforeReview
<1> QED
  BY <1>2, <1>3, <1>4 DEF IInv, BatchReady, BatchOnlyInPhase, EndedContinues, ErrorEnds

\* The operator's other requests, the deadline, a crash and the lease expiry keep it:
\* none of them touches a settled row.
LEMMA ControlStepIInv ==
    ASSUME IInv, TypeOK',
           \/ RequestPause \/ RequestResume \/ RequestCancel
           \/ DeadlineFires \/ Crash \/ ExpireLease
    PROVE  IInv'
<1>1. CASE RequestPause BY <1>1, RowsOnlyIInv DEF RequestPause, memVars
<1>2. CASE RequestResume BY <1>2, RowsOnlyIInv DEF RequestResume, memVars
<1>3. ASSUME NEW where, CancelActive(where) PROVE IInv'
  BY <1>3, RowsOnlyIInv DEF CancelActive, Cancellable, RowsIn, Put, TerminalWf
<1>4. CASE CancelTerminal BY <1>4, RowsOnlyIInv DEF CancelTerminal, memVars
<1>5. CASE DeadlineFires BY <1>5, RowsOnlyIInv DEF DeadlineFires
<1>6. CASE Crash BY <1>6, EndsIInv DEF Crash
<1>7. CASE ExpireLease
  <2>1. PICK t \in RowsIn({"running"}) : row' = [row EXCEPT ![t] = "failed"]
    BY <1>7 DEF ExpireLease
  <2>2. \A u \in Tasks :
          \/ row'[u] = row[u]
          \/ row[u] \in {"pending", "running"} /\ row'[u] \in {"failed", "cancelled"}
    <3>1. t \in Tasks /\ row[t] = "running" BY DEF RowsIn
    <3>2. row \in [Tasks -> RowStatus] BY DEF IInv, TypeOK
    <3>3. QED BY <2>1, <3>1, <3>2
  <2>3. wfStatus = "failed" => wfStatus' = "failed" BY <1>7 DEF ExpireLease
  <2>4. UNCHANGED <<phase, entry, pc, mem, done, exit>> BY <1>7 DEF ExpireLease, memVars
  <2>5. QED BY <2>2, <2>3, <2>4, RowsOnlyIInv
<1> QED BY <1>1, <1>2, <1>3, <1>4, <1>5, <1>6, <1>7 DEF RequestCancel

\* Every step of the specification keeps the inductive invariant.
LEMMA NextIInv == IInv /\ [Next]_vars => IInv'
<1> SUFFICES ASSUME IInv, [Next]_vars PROVE IInv'
  OBVIOUS
<1>1. TypeOK' BY NextType DEF IInv
<1>2. CASE UNCHANGED vars
  <2>1. BatchOf' = BatchOf BY <1>2 DEF BatchOf, vars, memVars
  <2>2. BatchFits' BY <2>1 DEF IInv, BatchFits, Disjoint, Overlap
  <2>3. QED
    BY <1>1, <1>2, <2>2 DEF vars, dbVars, memVars, IInv, DoneSettled, BatchReady, PendingOpen,
       CompletedInReview, OpenBeforeReview, BatchOnlyInPhase, EndedContinues, ErrorEnds
<1>3. CASE ExecutorStep BY <1>1, <1>3, TaskStepIInv, LoopStepIInv DEF ExecutorStep
<1>4. CASE OperatorStep BY <1>1, <1>4, ResumeIInv, ControlStepIInv DEF OperatorStep
<1>5. CASE EnvironmentStep BY <1>1, <1>5, ControlStepIInv DEF EnvironmentStep
<1> QED BY <1>2, <1>3, <1>4, <1>5 DEF Next

\* The inductive invariant always holds.
LEMMA InductiveInvariant == Spec => []IInv
BY InitIInv, NextIInv, PTL DEF Spec

---------------------------------------------------------------------------
(* What follows from it *)

\* No task is ever in a batch before everything it depends on has settled in the
\* database, for every graph and through every cancel, crash, resume and retry.
\* (selectReadyBatch and completedIds.)
THEOREM DependenciesAlwaysSettled == Spec => []DependenciesSettled
<1>1. IInv => DependenciesSettled
  <2> SUFFICES ASSUME IInv, NEW t \in Tasks, Working(t), NEW d \in Deps[t]
               PROVE  row[d] \in {"completed", "skipped"}
                                   \cup IF entry = "continue" THEN {"failed"} ELSE {}
    BY DEF DependenciesSettled
  <2>1. pc[t] # "idle" BY DEF Working, InBatch, Registered
  <2>2. d \in done BY <2>1 DEF IInv, BatchReady
  <2>3. QED BY <2>2 DEF IInv, DoneSettled
<1> QED BY <1>1, InductiveInvariant, PTL

\* Two tasks that declare a common file are never in flight together, and no batch
\* exceeds the cap.  (The scope guard and the cap of selectReadyBatch.)
THEOREM BatchAlwaysAdmissible == Spec => []BatchAdmissible
<1>1. IInv => BatchAdmissible
  <2> SUFFICES ASSUME IInv PROVE BatchAdmissible
    OBVIOUS
  <2>1. \A t \in Tasks : Working(t) => t \in BatchOf
    BY DEF Working, BatchOf, InBatch, Registered
  <2>2. QED BY <2>1 DEF IInv, BatchFits, BatchAdmissible, Disjoint
<1> QED BY <1>1, InductiveInvariant, PTL

\* A run that ends in an error has failed the workflow.  (setWorkflowDone before each
\* throw.)
THEOREM ErrorAlwaysRecorded == Spec => []ErrorRecorded
<1>1. IInv => ErrorRecorded BY DEF IInv, ErrorEnds, ErrorRecorded
<1> QED BY <1>1, InductiveInvariant, PTL

\* Only a retry the operator asks for, or its own review, takes a completed task
\* back: no cancel, crash, resume, cap or routing skip does.
THEOREM CompletedWorkAlwaysKept == Spec => CompletedWorkKept
<1> DEFINE Keeps == \A t \in Tasks : row[t] = "completed" =>
                        \/ row'[t] = "completed"
                        \/ pc[t] = "review" /\ row'[t] = "failed"
<1>1. IInv /\ [Next]_vars => [RetryTasks \/ Keeps]_vars
  <2> SUFFICES ASSUME IInv, Next, ~RetryTasks PROVE Keeps
    OBVIOUS
  <2>1. ASSUME NEW t \in Tasks, TaskStep(t) PROVE Keeps
    <3> USE <2>1 DEF IInv, TypeOK, OpenBeforeReview, At, InBatch, Registered
    <3>1. CASE CostCapHit(t) BY <3>1 DEF CostCapHit, Put, MemPending, PendingOpen
    <3>2. CASE ReviewFails(t) BY <3>2 DEF ReviewFails
    <3>3. CASE ~CostCapHit(t) /\ ~ReviewFails(t)
      BY <3>3 DEF TaskStep, EnterGate, NoGate, GateApproved, GateRefused, GateLapsed, Blocked,
         Start, WorktreeFails, AttemptAborted, AttemptRetried, AttemptFails, BackoffEnds,
         BackoffGivesUp, AttemptSucceeds, ReviewPasses
    <3> QED BY <3>1, <3>2, <3>3
  <2>2. CASE BatchSucceeds \/ BatchFails
    <3>1. PICK S \in RoutingSkips : row' = Put(row, S, "skipped")
      BY <2>2 DEF BatchSucceeds, BatchFails
    <3>2. \A t \in S : t \in Tasks /\ row[t] # "completed"
      BY <2>2 DEF RoutingSkips, Unpicked, MemPending, IInv, PendingOpen, BatchSucceeds, BatchFails,
         BatchSettled
    <3> QED BY <3>1, <3>2 DEF Put
  <2>3. CASE Resume
    <3>1. ASSUME NEW prepared, Continue(prepared),
                 \A t \in Tasks : row[t] = "completed" => prepared[t] = "completed"
          PROVE  Keeps
      BY <3>1 DEF Continue
    <3>2. CASE ResumeRetrying
      <4>1. CASE Continue(row) BY <4>1, <3>1
      <4>2. ASSUME NEW t \in RowsIn({"failed"}), Continue([row EXCEPT ![t] = "pending"])
            PROVE  Keeps
        <5>1. \A u \in Tasks : row[u] = "completed" =>
                [row EXCEPT ![t] = "pending"][u] = "completed"
          BY <4>2 DEF RowsIn, IInv, TypeOK
        <5> QED BY <4>2, <5>1, <3>1
      <4> QED BY <3>2, <4>1, <4>2 DEF ResumeRetrying
    <3>3. CASE ResumeSkippingFailed
      BY <3>3, <3>1 DEF ResumeSkippingFailed, Put, RowsIn
    <3>4. CASE ResumeCancelled BY <3>4, <3>1 DEF ResumeCancelled, Put, RowsIn
    <3>5. CASE ResumeInterrupted BY <3>5, <3>1 DEF ResumeInterrupted
    <3>6. CASE ResumeRefused BY <3>6 DEF ResumeRefused
    <3> QED BY <2>3, <3>2, <3>3, <3>4, <3>5, <3>6 DEF Resume
  <2>4. ASSUME NEW where, CancelActive(where) PROVE Keeps
    BY <2>4 DEF CancelActive, Cancellable, RowsIn, Put
  <2>5. CASE ExpireLease BY <2>5 DEF ExpireLease, RowsIn, IInv, TypeOK
  <2>6. CASE UNCHANGED row BY <2>6
  <2> QED
    BY <2>1, <2>2, <2>3, <2>4, <2>5, <2>6 DEF Next, ExecutorStep, OperatorStep, EnvironmentStep,
       QuotaPasses, QuotaBlocks, CheckpointPauses, CheckpointCancels, SelectBatch, NoReadyTask,
       LoopDone, LoopDoneWithFailures, LoopReturns, ClosingCompletes, ClosingBlocked,
       RequestPause, RequestResume, RequestCancel, CancelTerminal, DeadlineFires, Crash, dbVars
<1>2. QED BY <1>1, InductiveInvariant, PTL DEF Spec, CompletedWorkKept

\* While an operator's pause or cancel stands, no task enters a batch.  (The
\* checkpoint at the top of the loop is the only way to a batch.)
THEOREM HoldsAlwaysHonoured == Spec => HoldsHonoured
<1> DEFINE Held  == control \in HoldControl
           Stays == \A t \in Tasks : pc[t] = "idle" => pc'[t] = "idle"
<1>1. TypeOK /\ [Next]_vars => [Held => Stays]_vars
  <2> SUFFICES ASSUME TypeOK, Next, Held PROVE Stays
    OBVIOUS
  <2>1. ASSUME NEW t \in Tasks, TaskStep(t) PROVE Stays
    BY <2>1 DEF TypeOK, TaskStep, At, EnterGate, NoGate, GateApproved, GateRefused, GateLapsed,
       Blocked, CostCapHit, Start, WorktreeFails, AttemptAborted, AttemptRetried, AttemptFails,
       BackoffEnds, BackoffGivesUp, AttemptSucceeds, ReviewPasses, ReviewFails
  <2>2. ~SelectBatch
    BY DEF SelectBatch, Passes, CheckpointPasses, PollPasses, HoldControl, CancelControl
  <2>3. ASSUME NEW how, NEW status, Ends(how, status) PROVE Stays BY <2>3 DEF Ends
  <2>4. CASE UNCHANGED pc BY <2>4
  <2>5. CASE BatchSucceeds BY <2>5 DEF BatchSucceeds
  <2>6. CASE BatchFails
    <3>1. Ends("canceled", wfStatus) \/ Ends("error", "failed") BY <2>6 DEF BatchFails
    <3> QED BY <3>1, <2>3
  <2>7. CASE Resume \/ RetryTasks
    BY <2>7, <2>4 DEF Resume, RetryTasks, ResumeRetrying, ResumeSkippingFailed, ResumeCancelled,
       ResumeInterrupted, ResumeRefused, Continue, memVars
  <2> QED
    BY <2>1, <2>2, <2>3, <2>4, <2>5, <2>6, <2>7 DEF Next, ExecutorStep, OperatorStep,
       EnvironmentStep, QuotaPasses, QuotaBlocks, CheckpointPauses, CheckpointCancels, NoReadyTask,
       LoopDone, LoopDoneWithFailures, ClosingCompletes, ClosingBlocked, RequestPause,
       RequestResume, RequestCancel, CancelActive, CancelTerminal, DeadlineFires, Crash,
       ExpireLease, memVars
<1>2. QED BY <1>1, TypeCorrect, PTL DEF Spec, HoldsHonoured

------------------------------------------------------------------
(* What a finished run leaves behind *)

Over == {"completed", "skipped", "cancelled"}

\* What memory no longer holds pending, outside the batch, is over in the database.
SettledRows ==
    phase # "ended" =>
        \A t \in Tasks : mem[t] # "pending" /\ pc[t] = "idle" =>
            row[t] \in Over \cup IF entry = "continue" THEN {"failed"} ELSE {}

\* From the end of the loop on, every row is over.
ClosedRows == phase = "closing" \/ wfStatus = "completed" => \A t \in Tasks : row[t] \in Over

\* A workflow is completed by the last write of its run, and by nothing before.
CompletedEnds == wfStatus = "completed" => phase = "ended"

FinishInv == SettledRows /\ ClosedRows /\ CompletedEnds

\* A completed workflow leaves no task pending, running or failed.
CompletedLeavesNoneOpen == wfStatus = "completed" => \A t \in Tasks : row[t] \in Over

\* The first state has nothing settled, and is not completed.
LEMMA InitFinish == Init => FinishInv
BY DEF Init, FinishInv, SettledRows, ClosedRows, CompletedEnds

\* A run that ends keeps it, if it writes completed only over rows that are over.
LEMMA EndsFinish ==
    ASSUME NEW how, NEW status, Ends(how, status),
           status = "completed" => \A t \in Tasks : row'[t] \in Over
    PROVE  FinishInv'
BY DEF Ends, FinishInv, SettledRows, ClosedRows, CompletedEnds

\* So does a step outside the executor: it cancels what is open, or fails what runs.
LEMMA RowsOnlyFinish ==
    ASSUME FinishInv, UNCHANGED <<phase, entry, pc, mem>>,
           \A t \in Tasks :
               \/ row'[t] = row[t]
               \/ row[t] \in {"pending", "running"} /\ row'[t] = "cancelled"
               \/ row[t] = "running" /\ row'[t] = "failed",
           wfStatus' = "completed" => wfStatus = "completed"
    PROVE  FinishInv'
<1>1. SettledRows' BY DEF FinishInv, SettledRows, Over
<1>2. ClosedRows' BY DEF FinishInv, ClosedRows, Over
<1> QED BY <1>1, <1>2 DEF FinishInv, CompletedEnds

\* So does a step of one task: the other tasks' rows stay, or are skipped.
LEMMA TaskStepFinish ==
    ASSUME IInv, FinishInv, NEW t \in Tasks, TaskStep(t)
    PROVE  FinishInv'
<1>1. /\ phase = "batch" /\ UNCHANGED <<phase, entry>>
      /\ pc[t] # "idle" /\ pc'[t] # "idle" /\ \A u \in Tasks \ {t} : pc'[u] = pc[u]
      /\ wfStatus' = "completed" => wfStatus = "completed"
      /\ \A u \in Tasks \ {t} : \/ row'[u] = row[u] /\ mem'[u] = mem[u]
                                \/ row'[u] = "skipped"
  <2> USE DEF IInv, TypeOK, TaskFrame, At, Rejections
  <2>1. CASE CostCapHit(t) BY <2>1 DEF CostCapHit, Put
  <2>2. CASE ~CostCapHit(t)
    BY <2>2 DEF TaskStep, EnterGate, NoGate, GateApproved, GateRefused, GateLapsed, Blocked,
       Start, WorktreeFails, AttemptAborted, AttemptRetried, AttemptFails, BackoffEnds,
       BackoffGivesUp, AttemptSucceeds, ReviewPasses, ReviewFails
  <2> QED BY <2>1, <2>2
<1>2. SettledRows' BY <1>1 DEF FinishInv, SettledRows, Over
<1>3. wfStatus' # "completed" BY <1>1 DEF FinishInv, CompletedEnds
<1> QED BY <1>1, <1>2, <1>3 DEF FinishInv, ClosedRows, CompletedEnds

\* So does a step of the loop: a batch that succeeds is all completed, and the loop
\* returns only when nothing is pending and, in a resumed run, nothing failed.
LEMMA LoopStepFinish ==
    ASSUME IInv, FinishInv,
           \/ QuotaPasses \/ QuotaBlocks
           \/ CheckpointPauses \/ CheckpointCancels
           \/ SelectBatch \/ NoReadyTask \/ LoopDone \/ LoopDoneWithFailures
           \/ BatchSucceeds \/ BatchFails
           \/ ClosingCompletes \/ ClosingBlocked
    PROVE  FinishInv'
<1>0. phase # "ended" => wfStatus # "completed" BY DEF FinishInv, CompletedEnds
<1>1. CASE QuotaPasses
  BY <1>1, <1>0 DEF QuotaPasses, dbVars, FinishInv, SettledRows, ClosedRows, CompletedEnds
<1>2. CASE QuotaBlocks BY <1>2, EndsFinish DEF QuotaBlocks
<1>3. CASE CheckpointPauses
  BY <1>3, <1>0 DEF CheckpointPauses, FinishInv, SettledRows, ClosedRows, CompletedEnds
<1>4. CASE CheckpointCancels BY <1>4, <1>0, EndsFinish DEF CheckpointCancels
<1>a. Passes => phase \in {"checkpoint", "paused"} /\ StatusAfterPass # "completed"
  BY <1>0 DEF Passes, CheckpointPasses, PollPasses, StatusAfterPass
<1>5. CASE SelectBatch
  <2>1. PICK B \in Batches(Ready) : pc' = Put(pc, B, "selected") BY <1>5 DEF SelectBatch
  <2>2. \A t \in Tasks : pc'[t] = "idle" => pc[t] = "idle" BY <2>1 DEF Put
  <2>3. SettledRows' BY <1>5, <1>a, <2>2 DEF SelectBatch, FinishInv, SettledRows
  <2> QED BY <1>5, <1>a, <2>3 DEF SelectBatch, FinishInv, ClosedRows, CompletedEnds
<1>6. CASE NoReadyTask BY <1>6, EndsFinish DEF NoReadyTask
<1>7. CASE LoopDone
  <2>1. \A t \in Tasks : pc[t] = "idle" /\ mem[t] # "pending"
    BY <1>7, <1>a DEF LoopDone, LoopReturns, MemPending, IInv, BatchOnlyInPhase
  <2>2. \A t \in Tasks : row[t] \in Over
    BY <1>7, <1>a, <2>1 DEF LoopDone, LoopReturns, RowsIn, FinishInv, SettledRows
  <2>3. ClosedRows' BY <1>7, <2>2 DEF LoopDone, LoopReturns, ClosedRows
  <2>4. SettledRows' BY <1>7, <2>2 DEF LoopDone, LoopReturns, SettledRows
  <2> QED BY <1>7, <1>a, <2>3, <2>4 DEF LoopDone, LoopReturns, FinishInv, CompletedEnds
<1>8. CASE LoopDoneWithFailures BY <1>8, EndsFinish DEF LoopDoneWithFailures
<1>9. CASE BatchSucceeds
  <2>1. PICK S \in RoutingSkips : row' = Put(row, S, "skipped") /\ mem' = Put(mem, S, "skipped")
    BY <1>9 DEF BatchSucceeds
  <2>2. \A t \in Tasks : pc[t] = "idle" \/ pc[t] = "fulfilled"
    BY <1>9 DEF BatchSucceeds, BatchSettled, BatchOf, Rejected, Settled, Rejections
  <2>3. \A t \in Tasks : pc[t] = "fulfilled" => row[t] = "completed"
    BY DEF IInv, CompletedInReview
  <2>4. phase = "batch" /\ phase' = "checkpoint" /\ entry' = entry /\ wfStatus' = wfStatus
    BY <1>9 DEF BatchSucceeds, BatchSettled
  <2>5. SettledRows'
    BY <2>1, <2>2, <2>3, <2>4 DEF Put, FinishInv, SettledRows, Over
  <2> QED BY <1>0, <2>4, <2>5 DEF FinishInv, ClosedRows, CompletedEnds
<1>10. CASE BatchFails
  <2>1. (Ends("canceled", wfStatus) \/ Ends("error", "failed")) /\ phase # "ended"
    BY <1>10 DEF BatchFails, BatchSettled
  <2> QED BY <2>1, <1>0, EndsFinish
<1>11. CASE ClosingCompletes
  <2>1. \A t \in Tasks : row'[t] \in Over BY <1>11 DEF ClosingCompletes, FinishInv, ClosedRows
  <2> QED BY <1>11, <2>1, EndsFinish DEF ClosingCompletes
<1>12. CASE ClosingBlocked BY <1>12, EndsFinish DEF ClosingBlocked
<1> QED BY <1>1, <1>2, <1>3, <1>4, <1>5, <1>6, <1>7, <1>8, <1>9, <1>10, <1>11, <1>12

\* So does a resume: its memory is the rows it wrote.
LEMMA ContinueFinish ==
    ASSUME IInv, TypeOK', phase = "ended", NEW prepared, Continue(prepared)
    PROVE  FinishInv'
<1>1. entry' = "continue" BY DEF IInv, EndedContinues, Continue
<1>2. row' = mem' /\ row' \in [Tasks -> RowStatus] BY DEF Continue, TypeOK
<1>3. \A t \in Tasks : row'[t] # "running" BY DEF Continue
<1>4. SettledRows' BY <1>1, <1>2, <1>3 DEF SettledRows, RowStatus, Over
<1> QED BY <1>4 DEF Continue, FinishInv, ClosedRows, CompletedEnds

\* Every step keeps it.
LEMMA NextFinish == IInv /\ FinishInv /\ [Next]_vars => FinishInv'
<1> SUFFICES ASSUME IInv, FinishInv, [Next]_vars PROVE FinishInv'
  OBVIOUS
<1>1. TypeOK' BY NextType DEF IInv
<1>2. CASE UNCHANGED vars
  BY <1>2 DEF vars, dbVars, memVars, FinishInv, SettledRows, ClosedRows, CompletedEnds
<1>3. CASE ExecutorStep BY <1>3, TaskStepFinish, LoopStepFinish DEF ExecutorStep
<1>4. CASE Resume \/ RetryTasks
  <2>1. CASE ResumeRefused BY <2>1, RowsOnlyFinish DEF ResumeRefused, memVars
  <2>2. CASE ~ResumeRefused
    <3>1. phase = "ended" /\ \E prepared : Continue(prepared)
      BY <1>4, <2>2 DEF Resume, Resumable, ResumeRetrying, ResumeSkippingFailed, ResumeCancelled,
         ResumeInterrupted, RetryTasks
    <3> QED BY <1>1, <3>1, ContinueFinish
  <2> QED BY <2>1, <2>2
<1>5. CASE RequestPause BY <1>5, RowsOnlyFinish DEF RequestPause, memVars
<1>6. CASE RequestResume BY <1>6, RowsOnlyFinish DEF RequestResume, memVars
<1>7. ASSUME NEW where, CancelActive(where) PROVE FinishInv'
  BY <1>7, RowsOnlyFinish DEF CancelActive, Cancellable, RowsIn, Put
<1>8. CASE CancelTerminal BY <1>8, RowsOnlyFinish DEF CancelTerminal, memVars
<1>9. CASE DeadlineFires BY <1>9, RowsOnlyFinish DEF DeadlineFires
<1>10. CASE Crash BY <1>10, EndsFinish DEF Crash, FinishInv, CompletedEnds
<1>11. CASE ExpireLease
  <2>1. PICK t \in RowsIn({"running"}) : row' = [row EXCEPT ![t] = "failed"]
    BY <1>11 DEF ExpireLease
  <2>2. t \in Tasks /\ row[t] = "running" /\ row \in [Tasks -> RowStatus]
    BY DEF RowsIn, IInv, TypeOK
  <2>3. \A u \in Tasks : row'[u] = row[u] \/ (row[u] = "running" /\ row'[u] = "failed")
    BY <2>1, <2>2
  <2>4. UNCHANGED <<phase, entry, pc, mem>> /\ (wfStatus' = "completed" => wfStatus = "completed")
    BY <1>11 DEF ExpireLease, memVars
  <2> QED BY <2>3, <2>4, RowsOnlyFinish
<1> QED
  BY <1>2, <1>3, <1>4, <1>5, <1>6, <1>7, <1>8, <1>9, <1>10, <1>11
     DEF Next, OperatorStep, EnvironmentStep, RequestCancel

\* A workflow is never completed with a task still pending, running or failed: through
\* every cancel, crash, expired lease, resume, retry and lost race with the deadline.
\* (The unconditional last write of executeWorkflow and continueWorkflowExecution.)
THEOREM CompletedAlwaysLeavesNoneOpen == Spec => []CompletedLeavesNoneOpen
<1>1. FinishInv => CompletedLeavesNoneOpen BY DEF FinishInv, ClosedRows, CompletedLeavesNoneOpen
<1> QED BY <1>1, InitFinish, NextFinish, InductiveInvariant, PTL DEF Spec

NeverCancelled == \A t \in Tasks : row[t] # "cancelled"

\* Only a cancel makes a cancelled row.
LEMMA NextNeverCancelled ==
    ASSUME CancelFrom = {}
    PROVE  TypeOK /\ NeverCancelled /\ [Next]_vars => NeverCancelled'
<1> SUFFICES ASSUME TypeOK, NeverCancelled, [Next]_vars PROVE NeverCancelled'
  OBVIOUS
<1>1. CASE UNCHANGED row BY <1>1 DEF NeverCancelled
<1>2. ASSUME NEW t \in Tasks, TaskStep(t) PROVE NeverCancelled'
  BY <1>2 DEF TypeOK, NeverCancelled, TaskStep, At, EnterGate, NoGate, GateApproved, GateRefused,
     GateLapsed, Blocked, CostCapHit, Put, Start, WorktreeFails, AttemptAborted, AttemptRetried,
     AttemptFails, BackoffEnds, BackoffGivesUp, AttemptSucceeds, ReviewPasses, ReviewFails
<1>3. CASE BatchSucceeds \/ BatchFails
  <2>1. PICK S : row' = Put(row, S, "skipped") BY <1>3 DEF BatchSucceeds, BatchFails
  <2> QED BY <2>1 DEF Put, NeverCancelled
<1>4. ASSUME NEW prepared, Continue(prepared), \A t \in Tasks : prepared[t] # "cancelled"
      PROVE  NeverCancelled'
  BY <1>4 DEF Continue, NeverCancelled
<1>5. CASE Resume \/ RetryTasks
  <2>1. ASSUME NEW t \in Tasks, Continue([row EXCEPT ![t] = "pending"]) PROVE NeverCancelled'
    <3>1. \A u \in Tasks : [row EXCEPT ![t] = "pending"][u] # "cancelled"
      BY DEF TypeOK, NeverCancelled
    <3> QED BY <2>1, <3>1, <1>4
  <2>2. ASSUME NEW S, NEW v \in {"pending", "skipped"}, Continue(Put(row, S, v))
        PROVE  NeverCancelled'
    <3>1. \A u \in Tasks : Put(row, S, v)[u] # "cancelled" BY DEF Put, NeverCancelled
    <3> QED BY <2>2, <3>1, <1>4
  <2>3. CASE Continue(row) BY <2>3, <1>4 DEF NeverCancelled
  <2>4. CASE ResumeRetrying BY <2>4, <2>1, <2>3 DEF ResumeRetrying, RowsIn
  <2>5. CASE ~ResumeRetrying
    BY <1>5, <2>5, <2>2, <2>3, <1>1 DEF Resume, ResumeSkippingFailed, ResumeCancelled,
       ResumeInterrupted, ResumeRefused, RetryTasks
  <2> QED BY <2>4, <2>5
<1>6. CASE ExpireLease BY <1>6 DEF ExpireLease, TypeOK, NeverCancelled
<1> QED
  BY <1>1, <1>2, <1>3, <1>5, <1>6 DEF Next, ExecutorStep, OperatorStep, EnvironmentStep,
     QuotaPasses, QuotaBlocks, CheckpointPauses, CheckpointCancels, SelectBatch, NoReadyTask,
     LoopDone, LoopDoneWithFailures, LoopReturns, ClosingCompletes, ClosingBlocked,
     RequestPause, RequestResume, RequestCancel, CancelTerminal, DeadlineFires, Crash, vars, dbVars

\* Without a cancel, a completed workflow has every task completed or skipped: through
\* crashes, expired leases, resumes, retries and lost races with the deadline.
THEOREM CompletedAlwaysMeansDone ==
    ASSUME CancelFrom = {}
    PROVE  Spec => []CompletedMeansDone
<1>1. Init => NeverCancelled BY DEF Init, NeverCancelled
<1>2. TypeOK /\ NeverCancelled /\ [Next]_vars => NeverCancelled' BY NextNeverCancelled
<1>3. CompletedLeavesNoneOpen /\ NeverCancelled => CompletedMeansDone
  BY DEF CompletedLeavesNoneOpen, NeverCancelled, CompletedMeansDone, Over
<1> QED BY <1>1, <1>2, <1>3, TypeCorrect, CompletedAlwaysLeavesNoneOpen, PTL DEF Spec
-----------------------------------------------
(* What a batch may build on *)

\* A completed row is reviewed, or its review is under way.
ReviewedRows == \A t \in Tasks : row[t] = "completed" => t \in reviewed \/ pc[t] = "review"

\* A run that ends with no task in review leaves the rows reviewed.
LEMMA EndsReviewed ==
    ASSUME ReviewedRows, NEW how, NEW status, Ends(how, status),
           \A t \in Tasks : pc[t] # "review",
           \A t \in Tasks : row'[t] = "completed" => row[t] = "completed",
           reviewed' = reviewed
    PROVE  ReviewedRows'
BY DEF ReviewedRows, Ends

\* Without a crash every step keeps it: a batch settles only when its reviews have, and
\* no resume completes a row.
LEMMA NextReviewed ==
    ASSUME CanCrash = FALSE
    PROVE  IInv /\ ReviewedRows /\ [Next]_vars => ReviewedRows'
<1> SUFFICES ASSUME IInv, ReviewedRows, [Next]_vars PROVE ReviewedRows'
  OBVIOUS
<1>0. phase # "batch" => \A t \in Tasks : pc[t] # "review" BY DEF IInv, BatchOnlyInPhase
<1>1. ASSUME UNCHANGED <<pc, reviewed>>,
             \A t \in Tasks : row'[t] = "completed" => row[t] = "completed"
      PROVE  ReviewedRows'
  BY <1>1 DEF ReviewedRows
<1>2. ASSUME NEW how, NEW status, Ends(how, status), phase # "batch", UNCHANGED <<row, reviewed>>
      PROVE  ReviewedRows'
  BY <1>2, <1>0, EndsReviewed
<1>3. ASSUME NEW t \in Tasks, TaskStep(t) PROVE ReviewedRows'
  <2> USE DEF IInv, TypeOK, ReviewedRows, At, Rejections
  <2>1. CASE CostCapHit(t) BY <2>1 DEF CostCapHit, Put
  <2>2. CASE AttemptSucceeds(t) BY <2>2 DEF AttemptSucceeds
  <2>3. CASE ReviewPasses(t) BY <2>3 DEF ReviewPasses
  <2>4. CASE ReviewFails(t) BY <2>4 DEF ReviewFails
  <2>5. CASE ~(CostCapHit(t) \/ AttemptSucceeds(t) \/ ReviewPasses(t) \/ ReviewFails(t))
    BY <1>3, <2>5 DEF TaskStep, EnterGate, NoGate, GateApproved, GateRefused, GateLapsed, Blocked,
       Start, WorktreeFails, AttemptAborted, AttemptRetried, AttemptFails, BackoffEnds,
       BackoffGivesUp
  <2> QED BY <2>1, <2>2, <2>3, <2>4, <2>5
<1>4. CASE SelectBatch
  <2>1. PICK B : pc' = Put(pc, B, "selected") BY <1>4 DEF SelectBatch
  <2> QED
    BY <1>4, <2>1, <1>0 DEF SelectBatch, Passes, CheckpointPasses, PollPasses, Put, ReviewedRows
<1>5. CASE BatchSucceeds \/ BatchFails
  <2>1. PICK S : row' = Put(row, S, "skipped") BY <1>5 DEF BatchSucceeds, BatchFails
  <2>2. \A t \in Tasks : row'[t] = "completed" => row[t] = "completed" BY <2>1 DEF Put
  <2>3. \A t \in Tasks : pc[t] # "review"
    BY <1>5 DEF BatchSucceeds, BatchFails, BatchSettled, BatchOf, Settled
  <2>4. CASE BatchSucceeds BY <2>2, <2>3, <2>4 DEF BatchSucceeds, ReviewedRows
  <2>5. CASE BatchFails
    <3>1. Ends("canceled", wfStatus) \/ Ends("error", "failed") BY <2>5 DEF BatchFails
    <3> QED BY <2>5, <3>1, <2>2, <2>3, EndsReviewed DEF BatchFails
  <2> QED BY <1>5, <2>4, <2>5
<1>6. CASE Resume \/ RetryTasks
  <2>1. ASSUME NEW prepared, Continue(prepared),
               \A t \in Tasks : prepared[t] = "completed" => row[t] = "completed"
        PROVE  ReviewedRows'
    BY <2>1, <1>1 DEF Continue
  <2>2. ASSUME NEW t \in Tasks, Continue([row EXCEPT ![t] = "pending"]) PROVE ReviewedRows'
    <3>1. \A u \in Tasks : [row EXCEPT ![t] = "pending"][u] = "completed" => row[u] = "completed"
      BY DEF IInv, TypeOK
    <3> QED BY <2>2, <3>1, <2>1
  <2>3. ASSUME NEW S, NEW v \in {"pending", "skipped"}, Continue(Put(row, S, v))
        PROVE  ReviewedRows'
    <3>1. \A u \in Tasks : Put(row, S, v)[u] = "completed" => row[u] = "completed" BY DEF Put
    <3> QED BY <2>3, <3>1, <2>1
  <2>4. CASE Continue(row) BY <2>4, <2>1
  <2>5. CASE ResumeRetrying BY <2>5, <2>2, <2>4 DEF ResumeRetrying, RowsIn
  <2>6. CASE ResumeRefused BY <2>6, <1>1 DEF ResumeRefused, memVars
  <2>7. CASE ~ResumeRetrying /\ ~ResumeRefused
    BY <1>6, <2>7, <2>3, <2>4 DEF Resume, ResumeSkippingFailed, ResumeCancelled,
       ResumeInterrupted, RetryTasks
  <2> QED BY <2>5, <2>6, <2>7
<1>7. ASSUME NEW where, CancelActive(where) PROVE ReviewedRows'
  BY <1>7, <1>1 DEF CancelActive, Put
<1>8. CASE ExpireLease
  <2>1. \A t \in Tasks : row'[t] = "completed" => row[t] = "completed"
    BY <1>8 DEF ExpireLease, IInv, TypeOK
  <2> QED BY <1>8, <2>1, <1>1 DEF ExpireLease, memVars
<1>9. CASE UNCHANGED <<row, pc, reviewed>> BY <1>9, <1>1
<1> QED
  BY <1>2, <1>3, <1>4, <1>5, <1>6, <1>7, <1>8, <1>9 DEF Next, ExecutorStep, OperatorStep,
     EnvironmentStep, QuotaPasses, QuotaBlocks, CheckpointPauses, CheckpointCancels, NoReadyTask,
     LoopDone, LoopDoneWithFailures, LoopReturns, Passes, CheckpointPasses, PollPasses,
     ClosingCompletes, ClosingBlocked, RequestPause, RequestResume, RequestCancel, CancelTerminal,
     DeadlineFires, Crash, vars, dbVars, memVars

\* Without a crash, no task ever works on an output whose review has not passed: through
\* every cancel, expired lease, deadline, resume and retry.  (finalizeSuccess marks the row
\* completed first; the batch is what waits for the review.)
THEOREM UnreviewedNeverConsumed ==
    ASSUME CanCrash = FALSE
    PROVE  Spec => []UnreviewedNotConsumed
<1>1. Init => ReviewedRows BY DEF Init, ReviewedRows
<1>2. IInv /\ ReviewedRows /\ [Next]_vars => ReviewedRows' BY NextReviewed
<1>3. IInv /\ ReviewedRows => UnreviewedNotConsumed
  <2> SUFFICES ASSUME IInv, ReviewedRows, NEW t \in Tasks, Working(t), NEW d \in Deps[t],
                      row[d] = "completed"
               PROVE  d \in reviewed
    BY DEF UnreviewedNotConsumed
  <2>1. pc[t] # "idle" BY DEF Working, InBatch, Registered
  <2>2. d \in done /\ d \in Tasks BY <2>1, GraphAssumption DEF IInv, BatchReady
  <2>3. pc[d] = "idle" BY <2>2 DEF IInv, BatchReady
  <2> QED BY <2>2, <2>3 DEF ReviewedRows
<1> QED BY <1>1, <1>2, <1>3, InductiveInvariant, PTL DEF Spec

---------------------------------------------------------------------------
(* The branch a router did not choose *)

\* Every branch depends on its router alone.
RoutedAlone == \A q \in Routers : \A t \in Children(q) : Deps[t] = {q}

\* A task no batch has taken up is pending or skipped, and memory knows which.
UntriedKnown ==
    \A t \in Tasks \ tried :
        /\ row[t] \in {"pending", "skipped"}
        /\ pc[t] = "idle"
        /\ phase # "ended" => mem[t] = row[t]

\* Memory knows the completed rows, which the routing skips go by.
CompletedKnown == phase # "ended" => \A t \in Tasks : row[t] = "completed" => mem[t] = "completed"

\* Once its router's batch is over, a branch that was not chosen is skipped.
UnpickedSkipped ==
    \A q \in Routers : \A t \in Children(q) \ tried :
        row[q] = "completed" /\ picked[q] # t =>
            row[t] = "skipped" \/ pc[q] \in {"review", "fulfilled"}

RoutingInv == UntriedKnown /\ CompletedKnown /\ UnpickedSkipped

\* At first no task has been taken up, and no router is completed.
LEMMA InitRouting == Init => RoutingInv
BY GraphAssumption DEF Init, RoutingInv, UntriedKnown, CompletedKnown, UnpickedSkipped, Children

\* A run that ends keeps it, if no router is between its completion and its skips.
LEMMA EndsRouting ==
    ASSUME RoutingInv, NEW how, NEW status, Ends(how, status),
           \A q \in Tasks : pc[q] \notin {"review", "fulfilled"},
           UNCHANGED <<row, picked, tried>>
    PROVE  RoutingInv'
<1>1. Routers \subseteq Tasks BY GraphAssumption
<1> QED
  BY <1>1 DEF Ends, RoutingInv, UntriedKnown, CompletedKnown, UnpickedSkipped, Children

\* A step of one task keeps it: its router's branches wait, completed or not, until the
\* batch settles.
LEMMA TaskStepRouting ==
    ASSUME IInv, RoutingInv, NEW t \in Tasks, TaskStep(t)
    PROVE  RoutingInv'
<1>1. t \in tried /\ phase = "batch" /\ UNCHANGED <<phase, tried>>
  BY DEF RoutingInv, UntriedKnown, TaskStep, At, TaskFrame, EnterGate, NoGate, GateApproved,
     GateRefused, GateLapsed, Blocked, CostCapHit, Start, WorktreeFails, AttemptAborted,
     AttemptRetried, AttemptFails, BackoffEnds, BackoffGivesUp, AttemptSucceeds, ReviewPasses,
     ReviewFails
<1>2. Routers \subseteq Tasks /\ \A q \in Routers : Children(q) \subseteq Tasks
  BY GraphAssumption DEF Children
<1>3. ASSUME UNCHANGED picked,
             \A u \in Tasks \ {t} : pc'[u] = pc[u],
             \A u \in Tasks \ {t} :
                 \/ row'[u] = row[u] /\ mem'[u] = mem[u]
                 \/ row'[u] = "skipped" /\ mem'[u] = "skipped",
             row'[t] = "completed" =>
                 row[t] = "completed" /\ mem'[t] = mem[t]
                     /\ (pc[t] \in {"review", "fulfilled"} => pc'[t] \in {"review", "fulfilled"})
      PROVE  RoutingInv'
  <2>1. UntriedKnown' BY <1>1, <1>3 DEF RoutingInv, UntriedKnown
  <2>2. CompletedKnown' BY <1>1, <1>3 DEF RoutingInv, CompletedKnown
  <2>3. UnpickedSkipped' BY <1>1, <1>2, <1>3 DEF RoutingInv, UnpickedSkipped, Children
  <2> QED BY <2>1, <2>2, <2>3 DEF RoutingInv
<1>4. CASE AttemptSucceeds(t)
  <2>1. /\ row' = [row EXCEPT ![t] = "completed"] /\ mem' = [mem EXCEPT ![t] = "completed"]
        /\ pc' = [pc EXCEPT ![t] = "review"]
        /\ \A q \in Routers \ {t} : picked'[q] = picked[q]
    BY <1>4 DEF AttemptSucceeds, IInv, TypeOK
  <2> USE DEF IInv, TypeOK
  <2>2. UntriedKnown' BY <1>1, <2>1 DEF RoutingInv, UntriedKnown
  <2>3. CompletedKnown' BY <1>1, <2>1 DEF RoutingInv, CompletedKnown
  <2>4. UnpickedSkipped' BY <1>1, <1>2, <2>1 DEF RoutingInv, UnpickedSkipped, Children
  <2> QED BY <2>2, <2>3, <2>4 DEF RoutingInv
<1>5. CASE CostCapHit(t)
  BY <1>5, <1>3 DEF CostCapHit, Put, IInv, TypeOK
<1>6. CASE ~AttemptSucceeds(t) /\ ~CostCapHit(t)
  <2> USE <1>3 DEF IInv, TypeOK, At, Rejections, OpenBeforeReview, InBatch, Registered
  <2>1. CASE ReviewPasses(t) BY <2>1 DEF ReviewPasses
  <2>2. CASE ReviewFails(t) BY <2>2 DEF ReviewFails
  <2>3. CASE Start(t) BY <2>3 DEF Start
  <2>4. CASE AttemptAborted(t) BY <2>4 DEF AttemptAborted
  <2>5. CASE EnterGate(t) \/ NoGate(t) \/ GateApproved(t) \/ GateLapsed(t)
    BY <2>5 DEF EnterGate, NoGate, GateApproved, GateLapsed
  <2>6. CASE GateRefused(t) \/ Blocked(t) \/ WorktreeFails(t)
    BY <2>6 DEF GateRefused, Blocked, WorktreeFails
  <2>7. CASE AttemptFails(t) \/ BackoffGivesUp(t) BY <2>7 DEF AttemptFails, BackoffGivesUp
  <2>8. CASE AttemptRetried(t) \/ BackoffEnds(t) BY <2>8 DEF AttemptRetried, BackoffEnds
  <2> QED BY <1>6, <2>1, <2>2, <2>3, <2>4, <2>5, <2>6, <2>7, <2>8 DEF TaskStep
<1> QED BY <1>4, <1>5, <1>6

\* The end of a batch keeps it: a branch that was not chosen is pending in memory, has no
\* other dependency, and so is among the routing skips.
LEMMA BatchEndRouting ==
    ASSUME RoutedAlone, IInv, RoutingInv, BatchSucceeds \/ BatchFails
    PROVE  RoutingInv'
<1>1. PICK S \in RoutingSkips :
        row' = Put(row, S, "skipped") /\ (BatchSucceeds => mem' = Put(mem, S, "skipped"))
  BY DEF BatchSucceeds, BatchFails
<1>2. /\ phase = "batch" /\ pc' = [t \in Tasks |-> "idle"] /\ UNCHANGED <<picked, tried>>
      /\ phase' = "ended" \/ mem' = Put(mem, S, "skipped")
      /\ \A t \in Tasks : pc[t] # "review"
  BY <1>1 DEF BatchSucceeds, BatchFails, BatchSettled, BatchOf, Settled, Ends
<1>3. S \subseteq MemPending BY DEF RoutingSkips, Unpicked
<1>4. UntriedKnown' BY <1>1, <1>2 DEF RoutingInv, UntriedKnown, Put
<1>5. CompletedKnown' BY <1>1, <1>2 DEF RoutingInv, CompletedKnown, Put
<1>6. UnpickedSkipped'
  <2> SUFFICES ASSUME NEW q \in Routers, NEW t \in Children(q) \ tried,
                      row'[q] = "completed", picked[q] # t, row[t] # "skipped"
               PROVE  t \in S
    BY <1>1, <1>2, GraphAssumption DEF UnpickedSkipped, Children, Put
  <2>1. q \in Tasks /\ t \in Tasks /\ q \in Deps[t] /\ row[q] = "completed"
    BY <1>1, GraphAssumption DEF Children, Put
  <2>2. mem[q] = "completed" BY <1>2, <2>1 DEF RoutingInv, CompletedKnown
  <2>3. pc[q] = "fulfilled" BY <1>2, <2>1 DEF RoutingInv, UnpickedSkipped
  <2>4. mem[t] = "pending" BY <1>2, <2>1 DEF RoutingInv, UntriedKnown
  <2>5. t \in Unpicked BY <2>1, <2>2, <2>4, GraphAssumption DEF Unpicked, MemPending, NextStepId
  <2>6. Deps[t] \subseteq DoneAfter BY <2>1, <2>3 DEF RoutedAlone, DoneAfter, Fulfilled
  <2> QED BY <2>5, <2>6 DEF RoutingSkips
<1> QED BY <1>4, <1>5, <1>6 DEF RoutingInv

\* A resume keeps it, if it completes no row and takes no skipped one back, or takes every
\* row back.
LEMMA ContinueRouting ==
    ASSUME IInv, RoutingInv, phase = "ended", NEW prepared, Continue(prepared),
           \/ \A t \in Tasks : prepared[t] = "pending"
           \/ \A t \in Tasks : \/ prepared[t] = row[t]
                               \/ row[t] \in {"failed", "cancelled"}
                                    /\ prepared[t] \in {"pending", "skipped"}
    PROVE  RoutingInv'
<1>1. \A t \in Tasks : pc[t] = "idle" BY DEF IInv, BatchOnlyInPhase
<1>2. row' = mem' /\ UNCHANGED <<picked, pc, tried>> BY DEF Continue
<1>3. \A t \in Tasks : row'[t] = IF prepared[t] = "running" THEN "pending" ELSE prepared[t]
  BY DEF Continue
<1>4. UntriedKnown' BY <1>2, <1>3 DEF RoutingInv, UntriedKnown
<1>5. CompletedKnown' BY <1>2 DEF CompletedKnown
<1>6. UnpickedSkipped'
  BY <1>1, <1>2, <1>3, GraphAssumption DEF RoutingInv, UnpickedSkipped, Children
<1> QED BY <1>4, <1>5, <1>6 DEF RoutingInv

\* So every step keeps it, when nothing crashes and nobody cancels, and a retry takes back
\* the failed tasks or all of them.
LEMMA NextRouting ==
    ASSUME CancelFrom = {}, CanCrash = FALSE, RetryModes \subseteq {"failed", "workflow"},
           RoutedAlone
    PROVE  IInv /\ RoutingInv /\ [Next]_vars => RoutingInv'
<1> SUFFICES ASSUME IInv, RoutingInv, [Next]_vars PROVE RoutingInv'
  OBVIOUS
<1>0. phase # "batch" => \A t \in Tasks : pc[t] = "idle" BY DEF IInv, BatchOnlyInPhase
<1>1. ASSUME UNCHANGED <<row, picked, pc, mem, tried>>, phase = "ended" => phase' = "ended"
      PROVE  RoutingInv'
  BY <1>1 DEF RoutingInv, UntriedKnown, CompletedKnown, UnpickedSkipped, Children
<1>2. ASSUME NEW how, NEW status, Ends(how, status), phase # "batch",
             UNCHANGED <<row, picked, tried>>
      PROVE  RoutingInv'
  BY <1>2, <1>0, EndsRouting
<1>3. ASSUME NEW t \in Tasks, TaskStep(t) PROVE RoutingInv'
  BY <1>3, TaskStepRouting
<1>4. CASE SelectBatch
  <2>1. PICK B : pc' = Put(pc, B, "selected") /\ tried' = tried \cup B BY <1>4 DEF SelectBatch
  <2>2. /\ \A t \in Tasks : pc[t] = "idle" /\ (t \notin tried' => pc'[t] = "idle")
        /\ phase # "ended" /\ UNCHANGED <<row, picked, mem>>
    BY <1>4, <1>0, <2>1 DEF SelectBatch, Passes, CheckpointPasses, PollPasses, Put
  <2>3. UntriedKnown' BY <2>1, <2>2 DEF RoutingInv, UntriedKnown
  <2>4. CompletedKnown' BY <2>2 DEF RoutingInv, CompletedKnown
  <2>5. UnpickedSkipped'
    BY <2>1, <2>2, GraphAssumption DEF RoutingInv, UnpickedSkipped, Children
  <2> QED BY <2>3, <2>4, <2>5 DEF RoutingInv
<1>5. CASE BatchSucceeds \/ BatchFails BY <1>5, BatchEndRouting
<1>6. CASE Resume \/ RetryTasks
  <2>1. CASE ResumeRetrying
    <3>1. ASSUME NEW t \in RowsIn({"failed"}), Continue([row EXCEPT ![t] = "pending"])
          PROVE  RoutingInv'
      <4>1. \A u \in Tasks : \/ [row EXCEPT ![t] = "pending"][u] = row[u]
                             \/ row[u] = "failed" /\ [row EXCEPT ![t] = "pending"][u] = "pending"
        BY DEF RowsIn, IInv, TypeOK
      <4> QED BY <2>1, <3>1, <4>1, ContinueRouting DEF ResumeRetrying, Resumable
    <3> QED BY <2>1, <3>1, ContinueRouting DEF ResumeRetrying, Resumable
  <2>2. CASE ResumeSkippingFailed
    BY <2>2, ContinueRouting DEF ResumeSkippingFailed, Resumable, RowsIn, Put
  <2>3. CASE ResumeCancelled
    BY <2>3, ContinueRouting DEF ResumeCancelled, Resumable, RowsIn, Put
  <2>4. CASE ResumeInterrupted BY <2>4, ContinueRouting DEF ResumeInterrupted, Resumable
  <2>5. CASE ResumeRefused BY <2>5, <1>1 DEF ResumeRefused, memVars
  <2>6. CASE RetryTasks
    <3>1. PICK S \in RetrySelections : Continue(Put(row, S, "pending")) BY <2>6 DEF RetryTasks
    <3>2. S = Tasks \/ S = RowsIn({"failed"}) BY DEF RetrySelections
    <3> QED BY <2>6, <3>1, <3>2, ContinueRouting DEF RetryTasks, RowsIn, Put
  <2> QED BY <1>6, <2>1, <2>2, <2>3, <2>4, <2>5, <2>6 DEF Resume
<1>7. CASE ExpireLease
  <2>1. PICK t \in Tasks : row[t] = "running" /\ row' = [row EXCEPT ![t] = "failed"]
    BY <1>7 DEF ExpireLease, RowsIn
  <2>2. /\ \A u \in Tasks : row'[u] = row[u] \/ (u = t /\ row'[u] = "failed")
        /\ t \in tried /\ UNCHANGED <<phase, picked, pc, mem, tried>>
    BY <1>7, <2>1 DEF ExpireLease, memVars, RoutingInv, UntriedKnown, IInv, TypeOK
  <2>3. UntriedKnown' BY <2>2 DEF RoutingInv, UntriedKnown
  <2>4. CompletedKnown' BY <2>2 DEF RoutingInv, CompletedKnown
  <2>5. UnpickedSkipped' BY <2>2, GraphAssumption DEF RoutingInv, UnpickedSkipped, Children
  <2> QED BY <2>3, <2>4, <2>5 DEF RoutingInv
<1>8. CASE QuotaPasses \/ CheckpointPauses \/ LoopDone \/ DeadlineFires
           \/ RequestPause \/ RequestResume \/ UNCHANGED vars
  BY <1>8, <1>1 DEF QuotaPasses, CheckpointPauses, LoopDone, LoopReturns, Passes, CheckpointPasses,
     PollPasses, DeadlineFires, RequestPause, RequestResume, vars, dbVars, memVars
<1>9. CASE QuotaBlocks \/ CheckpointCancels \/ NoReadyTask \/ LoopDoneWithFailures
           \/ ClosingCompletes \/ ClosingBlocked
  BY <1>9, <1>2 DEF QuotaBlocks, CheckpointCancels, NoReadyTask, LoopDoneWithFailures, LoopReturns,
     Passes, CheckpointPasses, PollPasses, ClosingCompletes, ClosingBlocked
<1>10. ~RequestCancel /\ ~Crash BY DEF RequestCancel, Crash
<1> QED
  BY <1>3, <1>4, <1>5, <1>6, <1>7, <1>8, <1>9, <1>10 DEF Next, ExecutorStep, OperatorStep,
     EnvironmentStep

\* A branch its router did not choose is never taken up, not in the run that made the choice
\* and not in a resumed one: for every graph whose branches depend on their router alone,
\* every number of routers, evaluators among them, and through expired leases, the deadline,
\* failed batches, resumes and retries.  (applyRoutingSkips before the first rejection is thrown.)
THEOREM OnlyPickedBranchesRun ==
    ASSUME CancelFrom = {}, CanCrash = FALSE, RetryModes \subseteq {"failed", "workflow"},
           RoutedAlone
    PROVE  Spec => OnlyPickedBranchRuns
<1> DEFINE Picked == \A t \in tried' \ tried : \A r \in Routers \cap Deps[t] :
                         row[r] = "completed" => picked[r] = t
<1>1. IInv /\ RoutingInv /\ [Next]_vars => [Picked]_vars
  <2> SUFFICES ASSUME IInv, RoutingInv, Next,
                      NEW t \in tried' \ tried, NEW r \in Routers, r \in Deps[t],
                      row[r] = "completed", picked[r] # t
               PROVE  FALSE
    OBVIOUS
  <2>1. SelectBatch
    <3>1. \A u \in Tasks : TaskStep(u) => tried' = tried
      BY DEF TaskStep, TaskFrame, EnterGate, NoGate, GateApproved, GateRefused, GateLapsed, Blocked,
         CostCapHit, Start, WorktreeFails, AttemptAborted, AttemptRetried, AttemptFails,
         BackoffEnds, BackoffGivesUp, AttemptSucceeds, ReviewPasses, ReviewFails
    <3>2. Resume \/ RetryTasks => tried' = tried
      BY DEF Resume, ResumeRetrying, ResumeSkippingFailed, ResumeCancelled, ResumeInterrupted,
         ResumeRefused, RetryTasks, Continue
    <3> QED
      BY <3>1, <3>2 DEF Next, ExecutorStep, OperatorStep, EnvironmentStep, QuotaPasses,
         QuotaBlocks, CheckpointPauses, CheckpointCancels, NoReadyTask, LoopDone,
         LoopDoneWithFailures, LoopReturns, BatchSucceeds, BatchFails, ClosingCompletes,
         ClosingBlocked, RequestPause, RequestResume, RequestCancel, CancelActive, CancelTerminal,
         DeadlineFires, Crash, ExpireLease
  <2>2. t \in Ready BY <2>1 DEF SelectBatch, Batches
  <2>3. t \in Tasks /\ mem[t] = "pending" BY <2>2 DEF Ready, MemPending
  <2>4. phase # "ended" /\ \A u \in Tasks : pc[u] = "idle"
    BY <2>1 DEF SelectBatch, Passes, CheckpointPasses, PollPasses, IInv, BatchOnlyInPhase
  <2>5. row[t] = "pending" BY <2>3, <2>4 DEF RoutingInv, UntriedKnown
  <2>6. row[t] = "skipped"
    BY <2>3, <2>4, GraphAssumption DEF RoutingInv, UnpickedSkipped, Children
  <2> QED BY <2>5, <2>6
<1>2. IInv /\ RoutingInv /\ [Next]_vars => RoutingInv' BY NextRouting
<1> QED BY <1>1, <1>2, InitRouting, InductiveInvariant, PTL DEF Spec, OnlyPickedBranchRuns

---------------------------------------------------------------------------
(* The schedule: the executor implements its abstract specification *)

\* What memory holds pending outside the batch is pending in the database, unless a cancel
\* that still stands has closed it.
PendingKnown ==
    phase # "ended" =>
        \A t \in Tasks : mem[t] = "pending" /\ pc[t] = "idle" =>
            \/ row[t] = "pending"
            \/ row[t] = "cancelled" /\ control \in CancelControl /\ wfStatus \in TerminalWf

\* What memory holds completed, which the routing skips go by, is.
MemCompleted == phase # "ended" => \A t \in Tasks : mem[t] = "completed" => row[t] = "completed"

\* A batch is never empty.
BatchThere == phase = "batch" => \E t \in Tasks : pc[t] # "idle"

MemoryInv == PendingKnown /\ MemCompleted /\ BatchThere

\* At first memory and rows agree.
LEMMA InitMemory == Init => MemoryInv
BY DEF Init, MemoryInv, PendingKnown, MemCompleted, BatchThere

\* A run that has ended remembers nothing.
LEMMA EndsMemory ==
    ASSUME NEW how, NEW status, Ends(how, status)
    PROVE  MemoryInv'
BY DEF Ends, MemoryInv, PendingKnown, MemCompleted, BatchThere

\* A step of one task changes its own row and memory, or skips what is pending.
LEMMA TaskStepMemory ==
    ASSUME IInv, MemoryInv, NEW t \in Tasks, TaskStep(t)
    PROVE  MemoryInv'
<1> USE DEF IInv, TypeOK, At, TaskFrame, Rejections
<1>1. CASE CostCapHit(t)
  BY <1>1 DEF CostCapHit, Put, MemPending, MemoryInv, PendingKnown, MemCompleted,
     BatchThere
<1>2. CASE ~CostCapHit(t)
  <2>1. /\ pc[t] # "idle" /\ pc'[t] # "idle" /\ phase = "batch"
        /\ UNCHANGED <<phase, control, wfStatus>>
        /\ \A u \in Tasks \ {t} : row'[u] = row[u] /\ mem'[u] = mem[u] /\ pc'[u] = pc[u]
    BY <1>2 DEF TaskStep, EnterGate, NoGate, GateApproved, GateRefused, GateLapsed, Blocked,
       Start, WorktreeFails, AttemptAborted, AttemptRetried, AttemptFails, BackoffEnds,
       BackoffGivesUp, AttemptSucceeds, ReviewPasses, ReviewFails
  <2>2. PendingKnown' BY <2>1 DEF MemoryInv, PendingKnown
  <2>3. mem'[t] = "completed" => row'[t] = "completed"
    <3> USE <2>1 DEF MemoryInv, MemCompleted, OpenBeforeReview, InBatch, Registered
    <3>1. CASE EnterGate(t) \/ NoGate(t) \/ GateApproved(t) \/ GateLapsed(t) \/ AttemptRetried(t)
               \/ BackoffEnds(t) \/ ReviewPasses(t)
      BY <3>1 DEF EnterGate, NoGate, GateApproved, GateLapsed, AttemptRetried, BackoffEnds,
         ReviewPasses
    <3>2. CASE Blocked(t) BY <3>2 DEF Blocked
    <3>3. CASE GateRefused(t) \/ Start(t) \/ WorktreeFails(t) \/ AttemptAborted(t)
               \/ AttemptFails(t) \/ BackoffGivesUp(t) \/ AttemptSucceeds(t) \/ ReviewFails(t)
      BY <3>3 DEF GateRefused, Start, WorktreeFails, AttemptAborted, AttemptFails, BackoffGivesUp,
         AttemptSucceeds, ReviewFails
    <3> QED BY <1>2, <3>1, <3>2, <3>3 DEF TaskStep
  <2>4. MemCompleted' BY <2>1, <2>3 DEF MemoryInv, MemCompleted
  <2> QED BY <2>1, <2>2, <2>4 DEF MemoryInv, BatchThere
<1> QED BY <1>1, <1>2

\* Every step keeps memory and rows in agreement.
LEMMA NextMemory == IInv /\ MemoryInv /\ [Next]_vars => MemoryInv'
<1> SUFFICES ASSUME IInv, MemoryInv, [Next]_vars PROVE MemoryInv'
  OBVIOUS
<1> USE DEF MemoryInv, PendingKnown, MemCompleted, BatchThere
<1>1. CASE UNCHANGED vars BY <1>1 DEF vars, dbVars, memVars
<1>2. ASSUME NEW t \in Tasks, TaskStep(t) PROVE MemoryInv' BY <1>2, TaskStepMemory
<1>3. CASE QuotaPasses BY <1>3 DEF QuotaPasses, dbVars
<1>4. CASE CheckpointPauses BY <1>4 DEF CheckpointPauses, CancelControl
<1>a. Passes => phase # "ended" /\ control \notin CancelControl
  BY DEF Passes, CheckpointPasses, PollPasses, CancelControl
<1>5. CASE SelectBatch
  <2>1. PICK B \in Batches(Ready) : pc' = Put(pc, B, "selected") BY <1>5 DEF SelectBatch
  <2>2. \E t \in Tasks : t \in B BY DEF Batches, Ready, MemPending
  <2> QED BY <1>5, <1>a, <2>1, <2>2 DEF SelectBatch, Put
<1>6. CASE LoopDone BY <1>6, <1>a DEF LoopDone, LoopReturns
<1>7. CASE BatchSucceeds
  <2>1. PICK S \in RoutingSkips : row' = Put(row, S, "skipped") /\ mem' = Put(mem, S, "skipped")
    BY <1>7 DEF BatchSucceeds
  <2>2. \A t \in Tasks : pc[t] = "idle" \/ mem[t] # "pending"
    BY <1>7 DEF BatchSucceeds, BatchSettled, BatchOf, Rejected, Settled, Rejections, IInv,
       CompletedInReview
  <2>3. phase = "batch" /\ phase' = "checkpoint" /\ UNCHANGED <<control, wfStatus>>
    BY <1>7 DEF BatchSucceeds, BatchSettled
  <2> QED BY <2>1, <2>2, <2>3 DEF Put
<1>8. CASE BatchFails
  <2>1. Ends("canceled", wfStatus) \/ Ends("error", "failed") BY <1>8 DEF BatchFails
  <2> QED BY <2>1, EndsMemory
<1>9. CASE QuotaBlocks \/ CheckpointCancels \/ NoReadyTask \/ LoopDoneWithFailures
           \/ ClosingCompletes \/ ClosingBlocked \/ Crash
  BY <1>9, EndsMemory DEF QuotaBlocks, CheckpointCancels, NoReadyTask, LoopDoneWithFailures,
     ClosingCompletes, ClosingBlocked, Crash
<1>10. CASE Resume \/ RetryTasks
  <2>1. CASE ResumeRefused BY <2>1 DEF ResumeRefused, memVars, TerminalWf
  <2>2. CASE ~ResumeRefused
    <3>1. \E prepared : Continue(prepared)
      BY <1>10, <2>2 DEF Resume, ResumeRetrying, ResumeSkippingFailed, ResumeCancelled,
         ResumeInterrupted, RetryTasks
    <3> QED BY <3>1 DEF Continue
  <2> QED BY <2>1, <2>2
<1>11. CASE RequestPause BY <1>11 DEF RequestPause, memVars
<1>12. CASE RequestResume BY <1>12 DEF RequestResume, memVars
<1>13. ASSUME NEW where, CancelActive(where) PROVE MemoryInv'
  BY <1>13 DEF CancelActive, Put, Cancellable, RowsIn, CancelControl, TerminalWf
<1>14. CASE CancelTerminal BY <1>14 DEF CancelTerminal, memVars, CancelControl
<1>15. CASE DeadlineFires BY <1>15 DEF DeadlineFires, TerminalWf
<1>16. CASE ExpireLease
  <2>1. PICK t \in Tasks : row[t] = "running" /\ row' = [row EXCEPT ![t] = "failed"]
    BY <1>16 DEF ExpireLease, RowsIn
  <2>2. \A u \in Tasks : row[u] \in {"pending", "cancelled", "completed"} => row'[u] = row[u]
    BY <2>1 DEF IInv, TypeOK
  <2>3. wfStatus \in TerminalWf => wfStatus' \in TerminalWf
    BY <1>16 DEF ExpireLease, TerminalWf
  <2> QED BY <1>16, <2>2, <2>3 DEF ExpireLease, memVars
<1> QED
  BY <1>1, <1>2, <1>3, <1>4, <1>5, <1>6, <1>7, <1>8, <1>9, <1>10, <1>11, <1>12, <1>13, <1>14,
     <1>15, <1>16 DEF Next, ExecutorStep, OperatorStep, EnvironmentStep, RequestCancel

\* What the schedule sees of a state.
ledger == <<row, BatchOf, control \in HoldControl, entry = "continue", wfStatus = "completed">>

\* At first it sees every task pending and nothing else.
LEMMA InitLedger == Init => Ledger!Init
<1> SUFFICES ASSUME Init PROVE Ledger!Init
  OBVIOUS
<1>1. BatchOf = {} BY DEF Init, BatchOf
<1>2. (control \in HoldControl) = FALSE BY DEF Init, HoldControl, CancelControl
<1> QED BY <1>1, <1>2 DEF Init, Ledger!Init

\* A run that ends without completing the workflow is an End of the schedule.
LEMMA EndsLedger ==
    ASSUME IInv, FinishInv, phase # "ended", NEW how, NEW status, Ends(how, status),
           status # "completed", row' = row,
           control' \in HoldControl <=> control \in HoldControl
    PROVE  Ledger!End
<1>1. BatchOf' = {} BY DEF Ends, BatchOf
<1>2. (wfStatus = "completed") = FALSE BY DEF FinishInv, CompletedEnds
<1>3. (wfStatus' = "completed") = FALSE BY DEF Ends
<1>4. (entry' = "continue") = TRUE BY DEF Ends
<1>5. (control' \in HoldControl) = (control \in HoldControl) OBVIOUS
<1> QED BY <1>1, <1>2, <1>3, <1>4, <1>5 DEF Ledger!End

\* A step of one task works on its row, halts what is pending, or shows nothing.
LEMMA TaskStepLedger ==
    ASSUME IInv, FinishInv, NEW t \in Tasks, TaskStep(t)
    PROVE  [Ledger!Next]_ledger
<1>1. /\ phase = "batch" /\ pc[t] # "idle" /\ TaskFrame
      /\ pc' \in [Tasks -> InBatch \cup Settled \cup {"idle"}]
      /\ \A u \in Tasks \ {t} : pc'[u] = pc[u]
      /\ pc'[t] # "idle"
  BY TaskStepMoves DEF IInv
<1>2. t \in BatchOf /\ BatchOf' = BatchOf BY <1>1 DEF BatchOf
<1>3. (wfStatus' = "completed") = (wfStatus = "completed")
  BY <1>1 DEF FinishInv, CompletedEnds, TaskStep, EnterGate, NoGate, GateApproved, GateRefused,
     GateLapsed, Blocked, CostCapHit, Start, WorktreeFails, AttemptAborted, AttemptRetried,
     AttemptFails, BackoffEnds, BackoffGivesUp, AttemptSucceeds, ReviewPasses, ReviewFails
<1>4. UNCHANGED <<BatchOf, control \in HoldControl, entry = "continue", wfStatus = "completed">>
  BY <1>1, <1>2, <1>3 DEF TaskFrame
<1>5. CASE row' = row BY <1>4, <1>5 DEF ledger
<1>6. ASSUME \/ row[t] # "completed" /\ row' = [row EXCEPT ![t] = "running"]
             \/ row[t] # "completed" /\ row' = [row EXCEPT ![t] = "completed"]
             \/ row' = [row EXCEPT ![t] = "failed"]
      PROVE  Ledger!Work
  BY <1>2, <1>4, <1>6 DEF Ledger!Work
<1>7. pc[t] \in InBatch \ {"review"} => row[t] # "completed" BY DEF IInv, OpenBeforeReview
<1>8. CASE Start(t) \/ AttemptSucceeds(t)
  <2>1. row[t] # "completed" BY <1>7, <1>8 DEF Start, AttemptSucceeds, At, InBatch, Registered
  <2>2. \/ row' = [row EXCEPT ![t] = "running"]
        \/ row' = [row EXCEPT ![t] = "completed"]
    BY <1>8 DEF Start, AttemptSucceeds
  <2> QED BY <1>6, <2>1, <2>2 DEF Ledger!Next
<1>9. CASE GateRefused(t) \/ Blocked(t) \/ WorktreeFails(t) \/ AttemptFails(t)
           \/ BackoffGivesUp(t) \/ ReviewFails(t)
  <2>1. row' = [row EXCEPT ![t] = "failed"]
    BY <1>9 DEF GateRefused, Blocked, WorktreeFails, AttemptFails, BackoffGivesUp, ReviewFails
  <2> QED BY <1>6, <2>1 DEF Ledger!Next
<1>10. CASE CostCapHit(t)
  <2> DEFINE H == MemPending \cup {t}
  <2>1. \A u \in H : row[u] # "completed"
    BY <1>1, <1>7, <1>10 DEF CostCapHit, At, InBatch, Registered, MemPending, IInv, PendingOpen
  <2>2. H \subseteq Tasks /\ t \in H BY DEF MemPending
  <2>3. row' = Put(row, H, "skipped") BY <1>10 DEF CostCapHit
  <2>4. H \cap BatchOf # {} BY <1>2, <2>2
  <2> HIDE DEF H
  <2>5. Ledger!Skipped(H) BY <2>1, <2>3 DEF Ledger!Skipped, Put
  <2>6. Ledger!Halt BY <1>4, <2>2, <2>4, <2>5 DEF Ledger!Halt
  <2> QED BY <2>6 DEF Ledger!Next
<1>11. CASE EnterGate(t) \/ NoGate(t) \/ GateApproved(t) \/ GateLapsed(t) \/ AttemptAborted(t)
            \/ AttemptRetried(t) \/ BackoffEnds(t) \/ ReviewPasses(t)
  BY <1>5, <1>11 DEF EnterGate, NoGate, GateApproved, GateLapsed, AttemptAborted, AttemptRetried,
     BackoffEnds, ReviewPasses
<1> QED BY <1>8, <1>9, <1>10, <1>11 DEF TaskStep

\* A selection is a TakeUp: what memory calls ready is ready by the rows.
LEMMA SelectBatchLedger ==
    ASSUME IInv, FinishInv, MemoryInv, SelectBatch
    PROVE  Ledger!TakeUp
<1>1. PICK B \in Batches(Ready) : pc' = Put(pc, B, "selected") BY DEF SelectBatch
<1>2. phase \notin {"ended", "batch"} /\ control \notin HoldControl /\ control' \notin HoldControl
  BY DEF SelectBatch, Passes, CheckpointPasses, PollPasses, ControlAfterPass, HoldControl,
     CancelControl
<1>3. \A t \in Tasks : pc[t] = "idle" BY <1>2 DEF IInv, BatchOnlyInPhase
<1>4. /\ B \subseteq Ready /\ B # {} /\ Disjoint(B)
      /\ MaxParallel > 0 => Cardinality(B) <= MaxParallel
  BY LimitAssumption DEF Batches
<1>5. \A t \in B : t \in Tasks /\ mem[t] = "pending" /\ Deps[t] \subseteq done
  BY <1>4 DEF Ready, MemPending
<1>6. BatchOf = {} /\ BatchOf' = B BY <1>1, <1>3, <1>5 DEF BatchOf, Put
<1>7. \A t \in B : row[t] = "pending"
  BY <1>2, <1>3, <1>5 DEF MemoryInv, PendingKnown, HoldControl
<1>8. \A t \in B : \A d \in Deps[t] : row[d] \in Ledger!Settled
  BY <1>5 DEF IInv, DoneSettled, Ledger!Settled
<1>9. B \in SideBySide BY <1>4, <1>5 DEF SideBySide
<1>10. \A t \in B : Ledger!Ready(t) BY <1>7, <1>8 DEF Ledger!Ready
<1>11. (control \in HoldControl) = FALSE /\ (control' \in HoldControl) = FALSE BY <1>2
<1>12. (wfStatus = "completed") = FALSE /\ (wfStatus' = "completed") = FALSE
  BY <1>2 DEF SelectBatch, StatusAfterPass, FinishInv, CompletedEnds
<1>13. UNCHANGED <<row, entry>> BY DEF SelectBatch
<1> QED BY <1>6, <1>9, <1>10, <1>11, <1>12, <1>13 DEF Ledger!TakeUp

\* The end of a batch is a Settle: the run goes on only when every task is completed.
LEMMA BatchEndLedger ==
    ASSUME IInv, FinishInv, MemoryInv, BatchSucceeds \/ BatchFails
    PROVE  [Ledger!Next]_ledger
<1>1. PICK S \in RoutingSkips : row' = Put(row, S, "skipped") BY DEF BatchSucceeds, BatchFails
<1>2. phase = "batch" /\ control' = control /\ pc' = [t \in Tasks |-> "idle"]
      /\ (wfStatus' = "completed") = (wfStatus = "completed")
  BY DEF BatchSucceeds, BatchFails, BatchSettled, Ends, FinishInv, CompletedEnds
<1>3. S \subseteq Tasks /\ \A t \in S : row[t] # "completed"
  BY <1>2 DEF RoutingSkips, Unpicked, MemPending, IInv, PendingOpen
<1>4. \A t \in S : \E d \in Deps[t] : row[d] = "completed"
  BY <1>2, GraphAssumption DEF RoutingSkips, Unpicked, MemoryInv, MemCompleted
<1>5. BatchOf' = {} BY <1>2 DEF BatchOf
<1>6. \/ (entry' = "continue") = TRUE
      \/ entry' = entry /\ \A t \in BatchOf : row[t] = "completed"
  BY DEF BatchSucceeds, BatchFails, Ends, BatchSettled, BatchOf, Rejected, Settled, Rejections,
     IInv, CompletedInReview
<1>7. Ledger!Skipped(S) BY <1>1, <1>3 DEF Ledger!Skipped, Put
<1>8. BatchOf # {} BY <1>2 DEF MemoryInv, BatchThere, BatchOf
<1>9. Ledger!Settle BY <1>2, <1>3, <1>4, <1>5, <1>6, <1>7, <1>8 DEF Ledger!Settle
<1> QED BY <1>9 DEF Ledger!Next

\* A step of the loop or of the caller around it.
LEMMA LoopStepLedger ==
    ASSUME IInv, FinishInv, MemoryInv,
           \/ QuotaPasses \/ QuotaBlocks
           \/ CheckpointPauses \/ CheckpointCancels
           \/ SelectBatch \/ NoReadyTask \/ LoopDone \/ LoopDoneWithFailures
           \/ BatchSucceeds \/ BatchFails
           \/ ClosingCompletes \/ ClosingBlocked
    PROVE  [Ledger!Next]_ledger
<1>0. phase # "ended" => wfStatus # "completed" BY DEF FinishInv, CompletedEnds
<1>1. ASSUME phase # "ended", wfStatus' # "completed", UNCHANGED <<row, pc, entry>>,
             control' \in HoldControl <=> control \in HoldControl
      PROVE  UNCHANGED ledger
  <2>1. BatchOf' = BatchOf BY <1>1 DEF BatchOf
  <2>2. (control' \in HoldControl) = (control \in HoldControl) BY <1>1
  <2>3. (wfStatus' = "completed") = (wfStatus = "completed") BY <1>0, <1>1
  <2>4. (entry' = "continue") = (entry = "continue") BY <1>1
  <2> QED BY <1>1, <2>1, <2>2, <2>3, <2>4 DEF ledger
<1>2. ASSUME NEW how, NEW status, Ends(how, status), phase # "ended", status # "completed",
             row' = row, control' \in HoldControl <=> control \in HoldControl
      PROVE  Ledger!Next
  BY <1>2, EndsLedger DEF Ledger!Next
<1>3. Passes =>
        /\ phase \in {"checkpoint", "paused"} /\ StatusAfterPass # "completed"
        /\ control \notin HoldControl /\ ControlAfterPass \notin HoldControl
  BY <1>0 DEF Passes, CheckpointPasses, PollPasses, StatusAfterPass, ControlAfterPass, HoldControl,
     CancelControl
<1>4. CASE QuotaPasses BY <1>4, <1>0, <1>1 DEF QuotaPasses, dbVars
<1>5. CASE CheckpointPauses
  <2>1. control \in HoldControl /\ control' \in HoldControl
    BY <1>5 DEF CheckpointPauses, HoldControl
  <2> QED BY <1>5, <1>0, <1>1, <2>1 DEF CheckpointPauses
<1>6. CASE LoopDone BY <1>6, <1>1, <1>3 DEF LoopDone, LoopReturns
<1>7. CASE QuotaBlocks \/ CheckpointCancels \/ ClosingBlocked
  BY <1>7, <1>0, <1>2 DEF QuotaBlocks, CheckpointCancels, ClosingBlocked
<1>8. CASE NoReadyTask \/ LoopDoneWithFailures
  BY <1>8, <1>2, <1>3 DEF NoReadyTask, LoopDoneWithFailures, LoopReturns
<1>9. CASE SelectBatch BY <1>9, SelectBatchLedger DEF Ledger!Next
<1>10. CASE BatchSucceeds \/ BatchFails BY <1>10, BatchEndLedger
<1>11. CASE ClosingCompletes
  <2>1. phase = "closing" /\ UNCHANGED <<control, row>> BY <1>11 DEF ClosingCompletes
  <2>2. CASE raced BY <1>11, <2>1, <2>2, <1>0, <1>2 DEF ClosingCompletes
  <2>3. CASE ~raced
    <3>1. BatchOf = {} /\ BatchOf' = {}
      BY <1>11, <2>1 DEF ClosingCompletes, Ends, IInv, BatchOnlyInPhase, BatchOf
    <3>2. \A t \in Tasks : row[t] \in Ledger!Over
      BY <2>1 DEF FinishInv, ClosedRows, Over, Ledger!Over
    <3>3. (wfStatus' = "completed") = TRUE /\ (entry' = "continue") = TRUE
      BY <1>11, <2>3 DEF ClosingCompletes, Ends
    <3>4. (control' \in HoldControl) = (control \in HoldControl) BY <2>1
    <3>5. Ledger!Finish BY <2>1, <3>1, <3>2, <3>3, <3>4 DEF Ledger!Finish
    <3> QED BY <3>5 DEF Ledger!Next
  <2> QED BY <2>2, <2>3
<1> QED BY <1>4, <1>5, <1>6, <1>7, <1>8, <1>9, <1>10, <1>11

\* A resume or a retry reopens rows as the schedule allows.
LEMMA ResumeLedger ==
    ASSUME IInv, FinishInv, TypeOK', Resume \/ RetryTasks
    PROVE  [Ledger!Next]_ledger
<1>1. phase = "ended" /\ entry = "continue"
  BY DEF Resume, Resumable, ResumeRetrying, ResumeSkippingFailed, ResumeCancelled,
     ResumeInterrupted, ResumeRefused, RetryTasks, IInv, EndedContinues
<1>2. BatchOf = {} BY <1>1 DEF IInv, BatchOnlyInPhase, BatchOf
<1>3. (entry = "continue") = TRUE BY <1>1
<1>4. row' \in [Tasks -> Ledger!Status] BY DEF TypeOK, RowStatus, Ledger!Status
<1>5. ASSUME NEW prepared, Continue(prepared)
      PROVE  /\ BatchOf' = {} /\ (entry' = "continue") = TRUE
             /\ (wfStatus' = "completed") = FALSE
             /\ (control' \in HoldControl) = (control \in HoldControl)
             /\ \A t \in Tasks :
                    row'[t] = IF prepared[t] = "running" THEN "pending" ELSE prepared[t]
  BY <1>1, <1>2, <1>5 DEF Continue, BatchOf
<1>6. ASSUME wfStatus # "completed", NEW prepared, Continue(prepared),
             \A t \in Tasks : \/ prepared[t] = row[t]
                              \/ prepared[t] = "pending" /\ row[t] \in {"failed", "cancelled"}
                              \/ prepared[t] = "skipped" /\ row[t] = "failed"
      PROVE  Ledger!Next
  <2>1. \A t \in Tasks :
          \/ row'[t] = row[t] /\ row[t] # "running"
          \/ row'[t] = "pending" /\ row[t] \in {"running", "failed", "cancelled"}
          \/ row'[t] = "skipped" /\ row[t] = "failed"
    <3>1. \A t \in Tasks :
            row'[t] = IF prepared[t] = "running" THEN "pending" ELSE prepared[t]
      BY <1>5, <1>6
    <3> QED BY <1>6, <3>1
  <2>2. (wfStatus = "completed") = FALSE BY <1>6
  <2>3. Ledger!Resume BY <1>2, <1>3, <1>4, <1>5, <1>6, <2>1, <2>2 DEF Ledger!Resume
  <2> QED BY <2>3 DEF Ledger!Next
<1>7. CASE ResumeRetrying
  <2>1. wfStatus # "completed" BY <1>7 DEF ResumeRetrying, Resumable
  <2>2. CASE Continue(row) BY <1>6, <2>1, <2>2
  <2>3. ASSUME NEW t \in RowsIn({"failed"}), Continue([row EXCEPT ![t] = "pending"])
        PROVE  Ledger!Next
    <3>1. \A u \in Tasks : \/ [row EXCEPT ![t] = "pending"][u] = row[u]
                           \/ [row EXCEPT ![t] = "pending"][u] = "pending" /\ row[u] = "failed"
      BY DEF RowsIn, IInv, TypeOK
    <3> QED BY <1>6, <2>1, <2>3, <3>1
  <2> QED BY <1>7, <2>2, <2>3 DEF ResumeRetrying
<1>8. ASSUME NEW S, NEW v, Continue(Put(row, S, v)), wfStatus # "completed",
             \A t \in S : \/ v = "pending" /\ row[t] \in {"failed", "cancelled"}
                          \/ v = "skipped" /\ row[t] = "failed"
      PROVE  Ledger!Next
  <2>1. \A t \in Tasks : Put(row, S, v)[t] = IF t \in S THEN v ELSE row[t] BY DEF Put
  <2> QED BY <1>6, <1>8, <2>1
<1>9. CASE ResumeSkippingFailed
  BY <1>8, <1>9 DEF ResumeSkippingFailed, Resumable, RowsIn
<1>10. CASE ResumeCancelled BY <1>8, <1>10 DEF ResumeCancelled, Resumable, RowsIn
<1>11. CASE ResumeInterrupted BY <1>6, <1>11 DEF ResumeInterrupted, Resumable
<1>12. CASE ResumeRefused
  <2>1. BatchOf' = BatchOf BY <1>12 DEF ResumeRefused, memVars, BatchOf
  <2>2. (wfStatus = "completed") = TRUE /\ (wfStatus' = "completed") = FALSE
    BY <1>12 DEF ResumeRefused
  <2>3. Ledger!Refuse BY <1>12, <2>1, <2>2 DEF ResumeRefused, memVars, Ledger!Refuse
  <2> QED BY <2>3 DEF Ledger!Next
<1>13. CASE RetryTasks
  <2>1. PICK S \in RetrySelections : Continue(Put(row, S, "pending")) BY <1>13 DEF RetryTasks
  <2>2. \A t \in Tasks : Put(row, S, "pending")[t] = IF t \in S THEN "pending" ELSE row[t]
    BY DEF Put
  <2>3. \A t \in Tasks : row'[t] = "pending" \/ (row'[t] = row[t] /\ row[t] # "running")
    BY <1>5, <2>1, <2>2
  <2>4. Ledger!Retry BY <1>2, <1>3, <1>4, <1>5, <2>1, <2>3 DEF Ledger!Retry
  <2> QED BY <2>4 DEF Ledger!Next
<1> QED BY <1>7, <1>9, <1>10, <1>11, <1>12, <1>13 DEF Resume

\* The operator's other requests, the deadline, a crash and the lease expiry.
LEMMA ControlStepLedger ==
    ASSUME IInv, FinishInv,
           \/ RequestPause \/ RequestResume \/ RequestCancel
           \/ DeadlineFires \/ Crash \/ ExpireLease
    PROVE  [Ledger!Next]_ledger
<1>1. UNCHANGED <<pc, entry>> => BatchOf' = BatchOf /\ (entry' = "continue") = (entry = "continue")
  BY DEF BatchOf
<1>2. CASE RequestPause \/ CancelTerminal
  <2>1. (control' \in HoldControl) = TRUE /\ UNCHANGED <<row, pc, entry, wfStatus>>
    BY <1>2 DEF RequestPause, CancelTerminal, memVars, HoldControl, CancelControl
  <2>2. Ledger!Hold BY <1>1, <2>1 DEF Ledger!Hold
  <2> QED BY <2>2 DEF Ledger!Next
<1>3. CASE RequestResume
  <2>1. (control' \in HoldControl) = FALSE /\ UNCHANGED <<row, pc, entry>>
    BY <1>3 DEF RequestResume, memVars, HoldControl, CancelControl
  <2>2. (wfStatus = "completed") = FALSE /\ (wfStatus' = "completed") = FALSE
    BY <1>3 DEF RequestResume, TerminalWf
  <2>3. Ledger!Release BY <1>1, <2>1, <2>2 DEF Ledger!Release
  <2> QED BY <2>3 DEF Ledger!Next
<1>4. ASSUME NEW where, CancelActive(where) PROVE Ledger!Next
  <2>1. (control' \in HoldControl) = TRUE /\ UNCHANGED <<pc, entry>>
    BY <1>4 DEF CancelActive, HoldControl, CancelControl
  <2>2. (wfStatus = "completed") = FALSE /\ (wfStatus' = "completed") = FALSE
    BY <1>4 DEF CancelActive, TerminalWf
  <2>3. row' = [t \in Tasks |->
                  IF row[t] \in {"pending", "running"} THEN "cancelled" ELSE row[t]]
    BY <1>4 DEF CancelActive, Put, Cancellable, RowsIn
  <2>4. Ledger!Cancel BY <1>1, <2>1, <2>2, <2>3 DEF Ledger!Cancel
  <2> QED BY <2>4 DEF Ledger!Next
<1>5. CASE DeadlineFires
  <2>1. UNCHANGED <<row, pc, entry, control>> BY <1>5 DEF DeadlineFires
  <2>2. (wfStatus' = "completed") = (wfStatus = "completed")
    BY <1>5 DEF DeadlineFires, FinishInv, CompletedEnds
  <2> QED BY <1>1, <2>1, <2>2 DEF ledger
<1>6. CASE Crash
  <2>1. wfStatus # "completed" /\ phase # "ended" /\ row' = row /\ control' = control
        /\ Ends("crashed", wfStatus)
    BY <1>6 DEF Crash, FinishInv, CompletedEnds
  <2> QED BY <2>1, EndsLedger DEF Ledger!Next
<1>7. CASE ExpireLease
  <2>1. (wfStatus' = "completed") = (wfStatus = "completed") /\ UNCHANGED <<pc, entry, control>>
    BY <1>7 DEF ExpireLease, memVars
  <2>2. \E t \in Tasks : row[t] = "running" /\ row' = [row EXCEPT ![t] = "failed"]
    BY <1>7 DEF ExpireLease, RowsIn
  <2>3. Ledger!Expire BY <1>1, <2>1, <2>2 DEF Ledger!Expire
  <2> QED BY <2>3 DEF Ledger!Next
<1> QED BY <1>2, <1>3, <1>4, <1>5, <1>6, <1>7 DEF RequestCancel

\* Every step of the executor is a step of the schedule, or shows nothing.
LEMMA NextLedger ==
    IInv /\ FinishInv /\ MemoryInv /\ [Next]_vars => [Ledger!Next]_ledger
<1> SUFFICES ASSUME IInv, FinishInv, MemoryInv, [Next]_vars PROVE [Ledger!Next]_ledger
  OBVIOUS
<1>1. TypeOK' BY NextType DEF IInv
<1>2. CASE UNCHANGED vars
  <2>1. BatchOf' = BatchOf BY <1>2 DEF BatchOf, vars, memVars
  <2> QED BY <1>2, <2>1 DEF vars, dbVars, memVars, ledger
<1>3. CASE ExecutorStep BY <1>3, TaskStepLedger, LoopStepLedger DEF ExecutorStep
<1>4. CASE OperatorStep BY <1>1, <1>4, ResumeLedger, ControlStepLedger DEF OperatorStep
<1>5. CASE EnvironmentStep BY <1>5, ControlStepLedger DEF EnvironmentStep
<1> QED BY <1>2, <1>3, <1>4, <1>5 DEF Next

\* The executor implements the schedule of its rows: whatever completedIds and the statuses
\* in memory say, a batch is made of pending rows with settled dependencies, a run goes on
\* only after a batch that is all completed, nothing starts under a hold, only an operator
\* lifts one, and the workflow is completed over rows that are over.
THEOREM ImplementsSchedule == Spec => KeepsSchedule
<1>1. IInv /\ FinishInv /\ MemoryInv /\ [Next]_vars => [Ledger!Next]_ledger BY NextLedger
<1>2. Spec => [](IInv /\ FinishInv /\ MemoryInv)
  BY InitIInv, InitFinish, InitMemory, NextIInv, NextFinish, NextMemory, PTL DEF Spec
<1> QED BY <1>1, <1>2, InitLedger, PTL DEF Spec, KeepsSchedule, Ledger!Spec, ledger

---------------------------------------------------------------------------
(* Where a promise fails, what it fails by *)

\* Without evaluators a settled batch skips only what one of its routers did not choose:
\* that applyRoutingSkips looks for a field evaluators do not write is all that is in the
\* way.
THEOREM PickedBranchAlwaysKept ==
    ASSUME Evaluators = {}
    PROVE  Spec => PickedBranchKept
<1> DEFINE Kept == \A t \in Tasks : row[t] = "pending" /\ row'[t] = "skipped" =>
                       \E r \in Routers \cap Deps[t] : row[r] = "completed" /\ picked[r] # t
<1>1. MemoryInv /\ [Next]_vars => [(BatchSucceeds \/ BatchFails) => Kept]_vars
  <2> SUFFICES ASSUME MemoryInv, BatchSucceeds \/ BatchFails,
                      NEW t \in Tasks, row[t] = "pending", row'[t] = "skipped"
               PROVE  \E r \in Routers \cap Deps[t] : row[r] = "completed" /\ picked[r] # t
    OBVIOUS
  <2>1. PICK S \in RoutingSkips : row' = Put(row, S, "skipped") BY DEF BatchSucceeds, BatchFails
  <2>2. t \in S BY <2>1 DEF Put
  <2>3. PICK r \in Routers : r \in Deps[t] /\ mem[r] = "completed" /\ NextStepId(r) # t
    BY <2>2 DEF RoutingSkips, Unpicked
  <2>4. picked[r] # t BY <2>3 DEF NextStepId
  <2>5. row[r] = "completed"
    BY <2>3, GraphAssumption DEF MemoryInv, MemCompleted, BatchSucceeds, BatchFails, BatchSettled
  <2> QED BY <2>3, <2>4, <2>5
<1>2. Spec => []MemoryInv
  BY InitIInv, InitMemory, NextIInv, NextMemory, PTL DEF Spec
<1> QED BY <1>1, <1>2, PTL DEF Spec, PickedBranchKept

\* At a terminal a completed workflow never becomes a failed one, whatever is paused,
\* cancelled, resumed or expires: only the catch of a background job undoes a completion.
THEOREM CompletedNeverFails ==
    ASSUME "background" \notin Callers
    PROVE  Spec => CompletedNotFailed
<1>1. FinishInv /\ [Next]_vars => [wfStatus = "completed" => wfStatus' # "failed"]_wfStatus
  <2> SUFFICES ASSUME FinishInv, Next, wfStatus = "completed" PROVE wfStatus' # "failed"
    BY DEF vars, dbVars
  <2>1. phase = "ended" BY DEF FinishInv, CompletedEnds
  <2>2. ~ExecutorStep
    BY <2>1 DEF ExecutorStep, QuotaPasses, QuotaBlocks, CheckpointPauses, CheckpointCancels,
       SelectBatch, NoReadyTask, LoopDone, LoopDoneWithFailures, LoopReturns, Passes,
       CheckpointPasses, PollPasses, BatchSucceeds, BatchFails, BatchSettled, ClosingCompletes,
       ClosingBlocked, TaskStep, At, EnterGate, NoGate, GateApproved, GateRefused, GateLapsed,
       Blocked, CostCapHit, Start, WorktreeFails, AttemptAborted, AttemptRetried, AttemptFails,
       BackoffEnds, BackoffGivesUp, AttemptSucceeds, ReviewPasses, ReviewFails
  <2>3. Resume \/ RetryTasks => FALSE
    BY DEF Resume, ResumeRetrying, ResumeSkippingFailed, ResumeCancelled, ResumeInterrupted,
       ResumeRefused, Resumable, RetryTasks
  <2> QED
    BY <2>1, <2>2, <2>3 DEF Next, OperatorStep, EnvironmentStep, RequestPause, RequestResume,
       RequestCancel, CancelActive, CancelTerminal, TerminalWf, DeadlineFires, Crash, ExpireLease
<1>2. Spec => []FinishInv
  BY InitIInv, InitFinish, NextIInv, NextFinish, PTL DEF Spec
<1> QED BY <1>1, <1>2, PTL DEF Spec, CompletedNotFailed
=============================================================================
