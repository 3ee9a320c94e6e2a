--------------------------- MODULE WorkflowEngine ---------------------------
(***************************************************************************)
(* The workflow executor: the batched task loop of                         *)
(* brain/executor/orchestrate.ts, the life of a task inside a batch        *)
(* (brain/executor/run-task), the pause / resume / cancel control channel  *)
(* (db/workflow-control.ts, v2/subagent/control.ts) and the resume path    *)
(* (brain/executor/resume.ts), for one workflow driven by at most one      *)
(* executor at a time.                                                     *)
(*                                                                         *)
(* The SQLite rows (wfStatus, control, row, picked) survive a crash; the   *)
(* executor's memory (phase, entry, caller, pc, mem, done, attempt,        *)
(* aborted, raced) does not.  A synchronous stretch of JavaScript between  *)
(* two awaits is one action: the event loop is not interrupted inside it.  *)
(***************************************************************************)
EXTENDS Naturals, FiniteSets

CONSTANTS
    Tasks,          \* the tasks of the DAG: 'ephemeral', and none output_pinned
    Paths,          \* abstract files: two scopes share one where pathsOverlap holds
    Deps,           \* depends_on
    Scope,          \* file_scope: the files a task declares; {} declares none
    Routers,        \* the tasks of a routing kind (if_else, switch, evaluator)
    Evaluators,     \* the evaluators among them
    HitlTasks,      \* the tasks flagged hitl
    MaxParallel,    \* maxParallelTasks; 0 is unlimited
    MaxAttempts,    \* max_retries + 1
    HasDeadline,    \* max_duration_seconds is set
    CanCrash,       \* the executor's process may die
    CancelFrom,     \* the processes an operator's cancel may be served by
    RetryModes,     \* the modes of the dashboard's task retry
    Callers,        \* who starts and resumes runs: a terminal or a background job
    NoBranch        \* a router's null next_step_id

ASSUME GraphAssumption ==
    /\ IsFiniteSet(Tasks)
    /\ Deps \in [Tasks -> SUBSET Tasks]
    /\ Scope \in [Tasks -> SUBSET Paths]
    /\ Routers \subseteq Tasks
    /\ Evaluators \subseteq Routers
    /\ HitlTasks \subseteq Tasks
    /\ NoBranch \notin Tasks

ASSUME LimitAssumption ==
    /\ MaxParallel \in Nat
    /\ MaxAttempts \in Nat \ {0}
    /\ HasDeadline \in BOOLEAN
    /\ CanCrash \in BOOLEAN
    /\ CancelFrom \subseteq {"executor_process", "other_process"}
    /\ RetryModes \subseteq {"task", "downstream", "failed", "workflow"}
    /\ Callers \subseteq {"terminal", "background"}

VARIABLES
    wfStatus,   \* workflows.status
    control,    \* workflow_control_state.state, "none" without a row
    row,        \* tasks.status
    picked,     \* the branch named in the output_json of a router's row
    phase,      \* where runTaskLoop and its caller are
    entry,      \* "execute": executeWorkflow, "continue": continueWorkflowExecution
    caller,     \* whose call it is
    pc,         \* where a task of the batch is
    mem,        \* Task.status of the executor's own task objects
    done,       \* completedIds
    attempt,    \* the attempt a task's retry loop is at
    aborted,    \* the tasks whose AbortController fired
    raced,      \* executeWorkflow's race was lost to the deadline
    exit,       \* how the last executor ended
    reviewed,   \* history: rows completed whose review has passed
    tried       \* history: the tasks a batch has ever taken up

dbVars  == <<wfStatus, control, row, picked>>
memVars == <<phase, entry, caller, pc, mem, done, attempt, aborted, raced>>
vars    == <<dbVars, memVars, exit, reviewed, tried>>

RowStatus     == {"pending", "running", "completed", "failed", "cancelled", "skipped"}
WfStatus      == {"executing", "paused", "completed", "failed", "cancelled"}
ControlState  == {"none", "running", "pause_requested", "paused",
                  "resume_requested", "cancel_requested", "canceled"}
CancelControl == {"cancel_requested", "canceled"}
HoldControl   == {"pause_requested", "paused"} \cup CancelControl
TerminalWf    == {"completed", "failed", "cancelled"}

\* A registered AbortController: from registerAbortController to the finally.
Registered == {"gate", "prepared", "running", "backoff", "review"}
InBatch    == Registered \cup {"selected"}
Settled    == {"fulfilled", "rejected", "aborted"}
\* A rejection is "aborted" when isCancellationError holds of it: the name
\* AbortError, or the word cancel anywhere in the message -- which quotes the
\* task's name, so a plain failure may land on either side.
Rejections == {"rejected", "aborted"}

TypeOK ==
    /\ wfStatus \in WfStatus
    /\ control \in ControlState
    /\ row \in [Tasks -> RowStatus]
    /\ picked \in [Routers -> Tasks \cup {NoBranch}]
    /\ phase \in {"start", "checkpoint", "paused", "batch", "closing", "ended"}
    /\ entry \in {"execute", "continue"}
    /\ caller \in {"terminal", "background"}
    /\ pc \in [Tasks -> InBatch \cup Settled \cup {"idle"}]
    /\ mem \in [Tasks -> RowStatus]
    /\ done \subseteq Tasks
    /\ attempt \in [Tasks -> 0 .. MaxAttempts]
    /\ aborted \subseteq Tasks
    /\ raced \in BOOLEAN
    /\ exit \in {"none", "completed", "error", "canceled", "timeout", "crashed"}
    /\ reviewed \subseteq Tasks
    /\ tried \subseteq Tasks

MemPending == {t \in Tasks : mem[t] = "pending"}
RowsIn(S)  == {t \in Tasks : row[t] \in S}
BatchOf    == {t \in Tasks : pc[t] # "idle"}

\* Sets the entries of the tasks in S to v.
Put(f, S, v) == [t \in Tasks |-> IF t \in S THEN v ELSE f[t]]

Init ==
    /\ wfStatus = "executing"
    /\ control = "none"
    /\ row = [t \in Tasks |-> "pending"]
    /\ picked = [r \in Routers |-> NoBranch]
    /\ phase = "start"
    /\ entry = "execute"
    /\ caller \in Callers
    /\ pc = [t \in Tasks |-> "idle"]
    /\ mem = [t \in Tasks |-> "pending"]
    /\ done = {}
    /\ attempt = [t \in Tasks |-> 0]
    /\ aborted = {}
    /\ raced = FALSE
    /\ exit = "none"
    /\ reviewed = {}
    /\ tried = {}

\* The executor returns or throws, leaving the status it wrote, and its memory
\* is gone.  A background job (executeWorkflowInBackground, the dashboard's
\* resume and retry) answers every throw by failing the workflow; a lost race
\* has already thrown.
Ends(how, status) ==
    /\ wfStatus' = IF caller = "background" /\ how \in {"error", "canceled"} /\ ~raced
                     THEN "failed" ELSE status
    /\ phase' = "ended"
    /\ exit' = IF raced THEN "timeout" ELSE how
    /\ entry' = "continue"
    /\ caller' = "terminal"
    /\ pc' = [t \in Tasks |-> "idle"]
    /\ mem' = [t \in Tasks |-> "pending"]
    /\ done' = {}
    /\ attempt' = [t \in Tasks |-> 0]
    /\ aborted' = {}
    /\ raced' = FALSE

---------------------------------------------------------------------------
(* executeWorkflow before the loop *)

\* The quota guard is off, allows the run, or only warns.
QuotaPasses ==
    /\ phase = "start"
    /\ phase' = "checkpoint"
    /\ UNCHANGED <<dbVars, entry, caller, pc, mem, done, attempt, aborted, raced, exit, reviewed, tried>>

QuotaBlocks ==
    /\ phase = "start"
    /\ Ends("error", "failed")
    /\ UNCHANGED <<control, row, picked, reviewed, tried>>

---------------------------------------------------------------------------
(* waitForWorkflowControlCheckpoint, at the top of every loop iteration *)

\* Mutant: a pause not yet acknowledged does not stop the loop.
CheckpointPasses_IgnoresPause ==
    phase = "checkpoint" /\ control \in {"none", "running", "resume_requested", "pause_requested"}

\* Mutant: the poll loop waits for a state it is itself to write.
PollPasses_RunningOnly == phase = "paused" /\ control = "running"

\* The checkpoint lets the loop go on: at once, or out of the poll loop.
CheckpointPasses == phase = "checkpoint" /\ control \in {"none", "running", "resume_requested"}
PollPasses       == phase = "paused" /\ control \in {"running", "resume_requested"}
Passes           == CheckpointPasses \/ PollPasses

ControlAfterPass == IF control = "none" THEN "none" ELSE "running"
\* Only the poll loop writes the status back, whatever it was.
StatusAfterPass  == IF PollPasses THEN "executing" ELSE wfStatus

CheckpointPauses ==
    /\ phase = "checkpoint"
    /\ control \in {"pause_requested", "paused"}
    /\ phase' = "paused"
    /\ control' = "paused"
    /\ wfStatus' = IF control = "pause_requested" THEN "paused" ELSE wfStatus
    /\ UNCHANGED <<row, picked, entry, caller, pc, mem, done, attempt, aborted, raced, exit, reviewed, tried>>

\* Mutant: a parked run does not look for a cancel.
CheckpointCancels_NotParked ==
    /\ phase = "checkpoint"
    /\ control \in CancelControl
    /\ Ends("canceled", wfStatus)
    /\ UNCHANGED <<control, row, picked, reviewed, tried>>

CheckpointCancels ==
    /\ phase \in {"checkpoint", "paused"}
    /\ control \in CancelControl
    /\ Ends("canceled", wfStatus)
    /\ UNCHANGED <<control, row, picked, reviewed, tried>>

---------------------------------------------------------------------------
(* One iteration of runTaskLoop: checkpoint, selection, batch *)

Ready == {t \in MemPending : Deps[t] \subseteq done}

Overlap(t, u)   == Scope[t] \cap Scope[u] # {}
Disjoint(B)     == \A t, u \in B : t # u => ~Overlap(t, u)
\* Candidates are walked longest timeout first, an order the model leaves open:
\* a task joins unless it overlaps one already accepted; the cap cuts the rest.
MaximalIn(B, R) == \A t \in R \ B : \E u \in B : Overlap(t, u)

\* Mutant: the scope guard compares with the running tasks only, not with the
\* batch it is building.
Batches_NoScopeGuard(R) ==
    {B \in SUBSET R : B # {} /\ (MaxParallel = 0 \/ Cardinality(B) <= MaxParallel)}

Batches(R) ==
    {B \in SUBSET R :
        /\ B # {}
        /\ Disjoint(B)
        /\ \/ MaximalIn(B, R) /\ (MaxParallel = 0 \/ Cardinality(B) <= MaxParallel)
           \/ MaxParallel > 0 /\ Cardinality(B) = MaxParallel}

SelectBatch ==
    /\ Passes
    /\ \E B \in Batches(Ready) :
         /\ pc' = Put(pc, B, "selected")
         /\ tried' = tried \cup B
    /\ phase' = "batch"
    /\ control' = ControlAfterPass
    /\ wfStatus' = StatusAfterPass
    /\ UNCHANGED <<row, picked, entry, caller, mem, done, attempt, aborted, raced, exit, reviewed>>

\* Pending tasks, none of them ready: the workflow is failed.
NoReadyTask ==
    /\ Passes
    /\ MemPending # {}
    /\ Ready = {}
    /\ control' = ControlAfterPass
    /\ Ends("error", "failed")
    /\ UNCHANGED <<row, picked, reviewed, tried>>

\* Nothing pending: the loop returns to its caller.
LoopReturns ==
    /\ Passes
    /\ MemPending = {}
    /\ control' = ControlAfterPass
    /\ UNCHANGED <<row, picked, reviewed, tried>>

\* Mutant: continueWorkflowExecution completes as executeWorkflow does.
LoopDone_FailedRowsIgnored ==
    /\ LoopReturns
    /\ phase' = "closing"
    /\ wfStatus' = StatusAfterPass
    /\ UNCHANGED <<entry, caller, pc, mem, done, attempt, aborted, raced, exit>>

LoopDone ==
    /\ LoopReturns
    /\ entry = "continue" => RowsIn({"failed"}) = {}
    /\ phase' = "closing"
    /\ wfStatus' = StatusAfterPass
    /\ UNCHANGED <<entry, caller, pc, mem, done, attempt, aborted, raced, exit>>

\* continueWorkflowExecution does not complete a workflow with failed rows.
LoopDoneWithFailures ==
    /\ LoopReturns
    /\ entry = "continue"
    /\ RowsIn({"failed"}) # {}
    /\ Ends("error", "failed")

---------------------------------------------------------------------------
(* A task of the batch, executeTaskWithRetry *)

At(t, S) == phase = "batch" /\ pc[t] \in S

\* The parts of the state no step of one task changes.
TaskFrame == UNCHANGED <<control, phase, entry, caller, done, raced, exit, tried>>

\* Registering the AbortController; a flagged task waits at its gate.  A
\* resume may have cleared the flag of a gate already resolved.
EnterGate(t) ==
    /\ At(t, {"selected"})
    /\ t \in HitlTasks
    /\ pc' = [pc EXCEPT ![t] = "gate"]
    /\ UNCHANGED <<wfStatus, row, picked, mem, attempt, aborted, reviewed>>
    /\ TaskFrame

NoGate(t) ==
    /\ At(t, {"selected"})
    /\ t \in HitlTasks => entry = "continue"
    /\ pc' = [pc EXCEPT ![t] = "prepared"]
    /\ UNCHANGED <<wfStatus, row, picked, mem, attempt, aborted, reviewed>>
    /\ TaskFrame

\* Approved; checkAborted('after_hitl_gate') follows at once.
GateApproved(t) ==
    /\ At(t, {"gate"})
    /\ pc' = [pc EXCEPT ![t] = IF t \in aborted THEN "aborted" ELSE "prepared"]
    /\ UNCHANGED <<wfStatus, row, picked, mem, attempt, aborted, reviewed>>
    /\ TaskFrame

GateRefused(t) ==
    /\ At(t, {"gate"})
    /\ row' = [row EXCEPT ![t] = "failed"]
    /\ mem' = [mem EXCEPT ![t] = "failed"]
    /\ \E how \in Rejections : pc' = [pc EXCEPT ![t] = how]
    /\ UNCHANGED <<wfStatus, picked, attempt, aborted, reviewed>>
    /\ TaskFrame

\* HitlGateTimeoutError or HitlModifyError: thrown with the row as it was.
GateLapsed(t) ==
    /\ At(t, {"gate"})
    /\ \E how \in Rejections : pc' = [pc EXCEPT ![t] = how]
    /\ UNCHANGED <<wfStatus, row, picked, mem, attempt, aborted, reviewed>>
    /\ TaskFrame

\* A budget or injection block in preDispatch: the row fails, the executor's
\* own copy of the status stays pending.
Blocked(t) ==
    /\ At(t, {"prepared"})
    /\ row' = [row EXCEPT ![t] = "failed"]
    /\ \E how \in Rejections : pc' = [pc EXCEPT ![t] = how]
    /\ UNCHANGED <<wfStatus, picked, mem, attempt, aborted, reviewed>>
    /\ TaskFrame

\* enforceWorkflowCostCapBeforeTask over the cap: the task and every task still
\* pending in memory are skipped, the workflow fails.
CostCapHit(t) ==
    /\ At(t, {"prepared"})
    /\ LET halted == MemPending \cup {t} IN
         /\ row' = Put(row, halted, "skipped")
         /\ mem' = Put(mem, halted, "skipped")
    /\ pc' = [pc EXCEPT ![t] = "rejected"]
    /\ wfStatus' = "failed"
    /\ UNCHANGED <<picked, attempt, aborted, reviewed>>
    /\ TaskFrame

\* setTaskRunning is unconditional; the first statement of the retry loop is a
\* checkAborted, which throws past finalizeFailure.
Start(t) ==
    /\ At(t, {"prepared"})
    /\ row' = [row EXCEPT ![t] = "running"]
    /\ mem' = [mem EXCEPT ![t] = "running"]
    /\ pc' = [pc EXCEPT ![t] = IF t \in aborted THEN "aborted" ELSE "running"]
    /\ attempt' = [attempt EXCEPT ![t] = 1]
    /\ UNCHANGED <<wfStatus, picked, aborted, reviewed>>
    /\ TaskFrame

\* The worktree of a cli_spawn task cannot be prepared.
WorktreeFails(t) ==
    /\ At(t, {"prepared"})
    /\ row' = [row EXCEPT ![t] = "failed"]
    /\ mem' = [mem EXCEPT ![t] = "failed"]
    /\ \E how \in Rejections : pc' = [pc EXCEPT ![t] = how]
    /\ UNCHANGED <<wfStatus, picked, attempt, aborted, reviewed>>
    /\ TaskFrame

\* The attempt ends with its controller aborted: finalizeFailure leaves the row
\* alone.  checkAborted throws an AbortError; an interrupted model call reports
\* 'request timed out', a killed CLI 'killed (timeout)'.
AttemptAborted(t) ==
    /\ At(t, {"running"})
    /\ t \in aborted
    /\ mem' = [mem EXCEPT ![t] = "cancelled"]
    /\ \E how \in Rejections : pc' = [pc EXCEPT ![t] = how]
    /\ UNCHANGED <<wfStatus, row, picked, attempt, aborted, reviewed>>
    /\ TaskFrame

\* Mutant: a retry does not count as an attempt.
AttemptRetried_NotCounted(t) ==
    /\ At(t, {"running"})
    /\ t \notin aborted
    /\ attempt[t] < MaxAttempts
    /\ pc' = [pc EXCEPT ![t] = "backoff"]
    /\ UNCHANGED <<wfStatus, row, picked, mem, attempt, aborted, reviewed>>
    /\ TaskFrame

\* A retryable failure with attempts left.
AttemptRetried(t) ==
    /\ At(t, {"running"})
    /\ t \notin aborted
    /\ attempt[t] < MaxAttempts
    /\ pc' = [pc EXCEPT ![t] = "backoff"]
    /\ attempt' = [attempt EXCEPT ![t] = @ + 1]
    /\ UNCHANGED <<wfStatus, row, picked, mem, aborted, reviewed>>
    /\ TaskFrame

\* A terminal failure, or the last attempt's: finalizeFailure.
AttemptFails(t) ==
    /\ At(t, {"running"})
    /\ t \notin aborted
    /\ row' = [row EXCEPT ![t] = "failed"]
    /\ mem' = [mem EXCEPT ![t] = "failed"]
    /\ \E how \in Rejections : pc' = [pc EXCEPT ![t] = how]
    /\ UNCHANGED <<wfStatus, picked, attempt, aborted, reviewed>>
    /\ TaskFrame

\* After the backoff sleep: checkAborted throws past finalizeFailure.
BackoffEnds(t) ==
    /\ At(t, {"backoff"})
    /\ pc' = [pc EXCEPT ![t] = IF t \in aborted THEN "aborted" ELSE "running"]
    /\ UNCHANGED <<wfStatus, row, picked, mem, attempt, aborted, reviewed>>
    /\ TaskFrame

\* The timeout is at its cap or the recovery policy gives up: no new attempt.
BackoffGivesUp(t) ==
    /\ At(t, {"backoff"})
    /\ t \notin aborted
    /\ row' = [row EXCEPT ![t] = "failed"]
    /\ mem' = [mem EXCEPT ![t] = "failed"]
    /\ \E how \in Rejections : pc' = [pc EXCEPT ![t] = how]
    /\ UNCHANGED <<wfStatus, picked, attempt, aborted, reviewed>>
    /\ TaskFrame

Children(r) == {t \in Tasks : r \in Deps[t]}

\* finalizeSuccess marks the row completed before the review is asked for.
AttemptSucceeds(t) ==
    /\ At(t, {"running"})
    /\ t \notin aborted
    /\ row' = [row EXCEPT ![t] = "completed"]
    /\ mem' = [mem EXCEPT ![t] = "completed"]
    /\ pc' = [pc EXCEPT ![t] = "review"]
    /\ IF t \in Routers
         THEN \E b \in Children(t) \cup {NoBranch} : picked' = [picked EXCEPT ![t] = b]
         ELSE UNCHANGED picked
    /\ reviewed' = reviewed \ {t}
    /\ UNCHANGED <<wfStatus, attempt, aborted>>
    /\ TaskFrame

ReviewPasses(t) ==
    /\ At(t, {"review"})
    /\ pc' = [pc EXCEPT ![t] = "fulfilled"]
    /\ reviewed' = reviewed \cup {t}
    /\ UNCHANGED <<wfStatus, row, picked, mem, attempt, aborted>>
    /\ TaskFrame

\* Mutant: the row keeps the status it had before the review.
ReviewFails_RowKept(t) ==
    /\ At(t, {"review"})
    /\ mem' = [mem EXCEPT ![t] = "failed"]
    /\ \E how \in Rejections : pc' = [pc EXCEPT ![t] = how]
    /\ UNCHANGED <<wfStatus, row, picked, attempt, aborted, reviewed>>
    /\ TaskFrame

\* The reviewer, the refine loop or the quality gate throws.
ReviewFails(t) ==
    /\ At(t, {"review"})
    /\ row' = [row EXCEPT ![t] = "failed"]
    /\ mem' = [mem EXCEPT ![t] = "failed"]
    /\ \E how \in Rejections : pc' = [pc EXCEPT ![t] = how]
    /\ UNCHANGED <<wfStatus, picked, attempt, aborted, reviewed>>
    /\ TaskFrame

TaskStep(t) ==
    \/ EnterGate(t)      \/ NoGate(t)         \/ GateApproved(t)
    \/ GateRefused(t)    \/ GateLapsed(t)     \/ Blocked(t)
    \/ CostCapHit(t)     \/ Start(t)          \/ WorktreeFails(t)
    \/ AttemptAborted(t) \/ AttemptRetried(t) \/ AttemptFails(t)
    \/ BackoffEnds(t)    \/ BackoffGivesUp(t) \/ AttemptSucceeds(t)
    \/ ReviewPasses(t)   \/ ReviewFails(t)

---------------------------------------------------------------------------
(* The batch has settled *)

BatchSettled == phase = "batch" /\ \A t \in BatchOf : pc[t] \in Settled
Fulfilled    == {t \in Tasks : pc[t] = "fulfilled"}
Rejected     == {t \in Tasks : pc[t] \in Rejections}
DoneAfter    == done \cup Fulfilled

\* applyRoutingSkips reads next_step_id; an evaluator writes target_step_id.
NextStepId(r) == IF r \in Evaluators THEN NoBranch ELSE picked[r]

\* Pending tasks a completed router did not choose.
Unpicked ==
    {t \in MemPending : \E r \in Routers :
        r \in Deps[t] /\ mem[r] = "completed" /\ NextStepId(r) # t}

\* applyRoutingSkips is one pass in task order, and a skip counts as done for
\* the tasks visited after it: which of the later ones are reached depends on
\* the order, which the model leaves open.
RoutingSkips ==
    {S \in SUBSET Unpicked :
        /\ \A t \in Unpicked : Deps[t] \subseteq DoneAfter => t \in S
        /\ \A t \in S : Deps[t] \subseteq DoneAfter \cup S}

\* Mutant: the run goes on although a task of its batch has failed.
BatchSucceeds_DespiteFailures ==
    /\ BatchSettled
    /\ \E S \in RoutingSkips :
         /\ row' = Put(row, S, "skipped")
         /\ mem' = Put(mem, S, "skipped")
         /\ done' = DoneAfter \cup S
    /\ phase' = "checkpoint"
    /\ pc' = [t \in Tasks |-> "idle"]
    /\ UNCHANGED <<wfStatus, control, picked, entry, caller, attempt, aborted, raced, exit, reviewed, tried>>

\* Every task fulfilled: on to the next iteration.
BatchSucceeds ==
    /\ BatchSettled
    /\ Rejected = {}
    /\ \E S \in RoutingSkips :
         /\ row' = Put(row, S, "skipped")
         /\ mem' = Put(mem, S, "skipped")
         /\ done' = DoneAfter \cup S
    /\ phase' = "checkpoint"
    /\ pc' = [t \in Tasks |-> "idle"]
    /\ UNCHANGED <<wfStatus, control, picked, entry, caller, attempt, aborted, raced, exit, reviewed, tried>>

\* Mutant: the rejection is thrown before the routing skips are applied.
BatchFails_BeforeSkips ==
    /\ BatchSettled
    /\ \E first \in Rejected :
         IF pc[first] = "aborted" THEN Ends("canceled", wfStatus) ELSE Ends("error", "failed")
    /\ UNCHANGED <<control, row, picked, reviewed, tried>>

\* The first rejection of the batch decides: a cancellation leaves the status
\* to whoever cancelled, anything else fails the workflow.
BatchFails ==
    /\ BatchSettled
    /\ \E S \in RoutingSkips : row' = Put(row, S, "skipped")
    /\ \E first \in Rejected :
         IF pc[first] = "aborted" THEN Ends("canceled", wfStatus) ELSE Ends("error", "failed")
    /\ UNCHANGED <<control, picked, reviewed, tried>>

---------------------------------------------------------------------------
(* After the loop: validation, consolidation, final quality review *)

\* The caller's last write is unconditional, unless its race is already lost.
ClosingCompletes ==
    /\ phase = "closing"
    /\ Ends("completed", IF raced THEN wfStatus ELSE "completed")
    /\ UNCHANGED <<control, row, picked, reviewed, tried>>

\* enforceFinalQualityReview in 'enforced' mode.
ClosingBlocked ==
    /\ phase = "closing"
    /\ Ends("error", "failed")
    /\ UNCHANGED <<control, row, picked, reviewed, tried>>

\* The wall-clock limit wins Promise.race: the workflow fails, and the core it
\* raced against keeps running.
DeadlineFires ==
    /\ HasDeadline
    /\ entry = "execute"
    /\ phase \in {"checkpoint", "paused", "batch", "closing"}
    /\ ~raced
    /\ raced' = TRUE
    /\ wfStatus' = "failed"
    /\ UNCHANGED <<control, row, picked, phase, entry, caller, pc, mem, done, attempt, aborted, exit, reviewed, tried>>

---------------------------------------------------------------------------
(* The operator: requestWorkflowControl *)

RequestPause ==
    /\ wfStatus \notin TerminalWf
    /\ control' = "pause_requested"
    /\ UNCHANGED <<wfStatus, row, picked, memVars, exit, reviewed, tried>>

RequestResume ==
    /\ wfStatus \notin TerminalWf
    /\ control' = "resume_requested"
    /\ wfStatus' = IF wfStatus = "paused" THEN "executing" ELSE wfStatus
    /\ UNCHANGED <<row, picked, memVars, exit, reviewed, tried>>

\* Mutant: the cancel touches every row of the workflow.
Cancellable_AllRows == Tasks

Cancellable == RowsIn({"pending", "running"})

\* broadcastCancelToWorkflow reaches only the controllers of its own process.
CancelActive(where) ==
    /\ wfStatus \notin TerminalWf
    /\ control' = "canceled"
    /\ wfStatus' = "cancelled"
    /\ row' = Put(row, Cancellable, "cancelled")
    /\ aborted' = IF where = "executor_process"
                    THEN aborted \cup {t \in Cancellable : pc[t] \in Registered}
                    ELSE aborted
    /\ UNCHANGED <<picked, phase, entry, caller, pc, mem, done, attempt, raced, exit, reviewed, tried>>

\* A cancel of a terminal workflow only records the request.
CancelTerminal ==
    /\ wfStatus \in TerminalWf
    /\ control' = "cancel_requested"
    /\ UNCHANGED <<wfStatus, row, picked, memVars, exit, reviewed, tried>>

RequestCancel == \E where \in CancelFrom : CancelActive(where) \/ CancelTerminal

---------------------------------------------------------------------------
(* Crash, resume, and the scheduler's lease expiry *)

Crash ==
    /\ CanCrash
    /\ phase # "ended"
    /\ Ends("crashed", wfStatus)
    /\ UNCHANGED <<control, row, picked, reviewed, tried>>

\* Mutant: a cancelled dependency counts as settled too.
Continue_CancelledCounts(prepared) ==
    LET rows == [t \in Tasks |-> IF prepared[t] = "running" THEN "pending" ELSE prepared[t]] IN
    /\ row' = rows
    /\ mem' = rows
    /\ done' = {t \in Tasks : rows[t] # "pending"}
    /\ phase' = "checkpoint"
    /\ exit' = "none"
    /\ wfStatus' = "executing"
    /\ UNCHANGED <<control, picked, entry, pc, attempt, aborted, raced, reviewed, tried>>

\* continueWorkflowExecution: interrupted rows are pending again, and what is
\* completed, failed or skipped satisfies dependencies.
Continue(prepared) ==
    LET rows == [t \in Tasks |-> IF prepared[t] = "running" THEN "pending" ELSE prepared[t]] IN
    /\ row' = rows
    /\ mem' = rows
    /\ done' = {t \in Tasks : rows[t] \in {"completed", "failed", "skipped"}}
    /\ phase' = "checkpoint"
    /\ exit' = "none"
    /\ wfStatus' = "executing"
    /\ UNCHANGED <<control, picked, entry, pc, attempt, aborted, raced, reviewed, tried>>

Resumable == phase = "ended" /\ wfStatus # "completed"

\* A failed workflow: its latest failed task runs again.
ResumeRetrying ==
    /\ Resumable
    /\ wfStatus = "failed"
    /\ caller' \in Callers
    /\ IF RowsIn({"failed"}) = {}
         THEN Continue(row)
         ELSE \E t \in RowsIn({"failed"}) : Continue([row EXCEPT ![t] = "pending"])

\* A failed workflow with skipFailedSteps: its failed tasks are skipped.
ResumeSkippingFailed ==
    /\ Resumable
    /\ wfStatus = "failed"
    /\ caller' \in Callers
    /\ Continue(Put(row, RowsIn({"failed"}), "skipped"))

\* A cancelled workflow: its cancelled tasks are pending again.
ResumeCancelled ==
    /\ Resumable
    /\ wfStatus = "cancelled"
    /\ caller' \in Callers
    /\ Continue(Put(row, RowsIn({"cancelled"}), "pending"))

\* A paused or interrupted workflow.
ResumeInterrupted ==
    /\ Resumable
    /\ wfStatus \in {"paused", "executing"}
    /\ caller' \in Callers
    /\ Continue(row)

\* A completed workflow cannot be resumed: prepareWorkflowForResume throws, and
\* the dashboard's background job answers the throw like any other.
ResumeRefused ==
    /\ phase = "ended"
    /\ wfStatus = "completed"
    /\ "background" \in Callers
    /\ wfStatus' = "failed"
    /\ UNCHANGED <<control, row, picked, memVars, exit, reviewed, tried>>

Resume ==
    \/ ResumeRetrying  \/ ResumeSkippingFailed
    \/ ResumeCancelled \/ ResumeInterrupted    \/ ResumeRefused

\* The tasks that depend on t, directly or not, and t itself.
Downstream(t) ==
    {u \in Tasks : \A S \in SUBSET Tasks :
        t \in S /\ (\A v \in Tasks : Deps[v] \cap S # {} => v \in S) => u \in S}

RetrySelections ==
    {S \in SUBSET Tasks :
        \/ "task" \in RetryModes /\ \E t \in Tasks : S = {t}
        \/ "downstream" \in RetryModes /\ \E t \in Tasks : S = Downstream(t)
        \/ "failed" \in RetryModes /\ S = RowsIn({"failed"}) /\ S # {}
        \/ "workflow" \in RetryModes /\ S = Tasks}

\* The dashboard's task retry: the selected tasks are pending again, and a
\* background job continues the workflow from whatever status it had.
RetryTasks ==
    /\ phase = "ended"
    /\ "background" \in Callers
    /\ caller' = "background"
    /\ \E S \in RetrySelections :
         /\ S \cap RowsIn({"running"}) = {}
         /\ Continue(Put(row, S, "pending"))

\* expireTimedOutRunningTasks of the scheduler tick: a running row whose lease
\* nobody renews any more fails, and with it a workflow still executing.
ExpireLease ==
    /\ \E t \in RowsIn({"running"}) :
         /\ pc[t] \notin {"running", "backoff"}
         /\ row' = [row EXCEPT ![t] = "failed"]
    /\ wfStatus' = IF wfStatus = "executing" THEN "failed" ELSE wfStatus
    /\ UNCHANGED <<control, picked, memVars, exit, reviewed, tried>>

---------------------------------------------------------------------------

\* What the executor's event loop runs.
ExecutorStep ==
    \/ QuotaPasses \/ QuotaBlocks
    \/ CheckpointPauses \/ CheckpointCancels
    \/ SelectBatch \/ NoReadyTask \/ LoopDone \/ LoopDoneWithFailures
    \/ \E t \in Tasks : TaskStep(t)
    \/ BatchSucceeds \/ BatchFails
    \/ ClosingCompletes \/ ClosingBlocked

OperatorStep == RequestPause \/ RequestResume \/ RequestCancel \/ Resume \/ RetryTasks

EnvironmentStep == DeadlineFires \/ Crash \/ ExpireLease

Next == ExecutorStep \/ OperatorStep \/ EnvironmentStep

Spec == Init /\ [][Next]_vars

\* The event loop runs what is ready: a gate's poll has a deadline of ten
\* minutes, an attempt runs under withTimeout, a sleep ends.
FairSpec == Spec /\ WF_vars(ExecutorStep)

---------------------------------------------------------------------------
(* Safety *)

Working(t) == pc[t] \in InBatch

\* No task is in a batch before everything it depends on has finished: on a
\* first run each dependency's row is completed or skipped; a resume also
\* accepts the ones left failed.  (selectReadyBatch and completedIds against
\* the rows, under cancels, crashes, lease expiry and cost-cap skips.)
DependenciesSettled ==
    \A t \in Tasks : Working(t) =>
        \A d \in Deps[t] :
            row[d] \in {"completed", "skipped"} \cup IF entry = "continue" THEN {"failed"} ELSE {}

\* Two tasks whose file scopes overlap are never in flight together, and a
\* batch respects the cap.  (The scope guard and the cap of selectReadyBatch.)
BatchAdmissible ==
    /\ Disjoint({t \in Tasks : Working(t)})
    /\ MaxParallel > 0 => Cardinality(BatchOf) <= MaxParallel

\* Work is never thrown away: a completed row stays completed across cancels,
\* crashes and resumes, unless its own review is what fails it or the operator
\* asks for that task again.  (broadcastCancelToWorkflow, prepareWorkflowForResume.)
CompletedWorkKept ==
    [][RetryTasks \/ \A t \in Tasks : row[t] = "completed" =>
            \/ row'[t] = "completed"
            \/ pc[t] = "review" /\ row'[t] = "failed"]_vars

\* While an operator's pause or cancel stands, no new task enters a batch.
\* (The checkpoint of waitForWorkflowControlCheckpoint.)
HoldsHonoured ==
    [][(control \in HoldControl) =>
            \A t \in Tasks : pc[t] = "idle" => pc'[t] = "idle"]_vars

\* What may be in flight together: no shared scope, no more than the cap.
SideBySide ==
    {B \in SUBSET Tasks :
        B # {} /\ Disjoint(B) /\ (MaxParallel > 0 => Cardinality(B) <= MaxParallel)}

\* The executor keeps what its rows promise (module Schedule): with completedIds and the
\* statuses in memory it schedules as if it read the rows each time, through cancels,
\* crashes, expired leases, deadlines, resumes and retries.
Ledger ==
    INSTANCE Schedule WITH
        inFlight <- BatchOf,
        held     <- control \in HoldControl,
        resumed  <- entry = "continue",
        finished <- wfStatus = "completed"
KeepsSchedule == Ledger!Spec

\* A run that ends in an error leaves the workflow failed, whatever the
\* operator asked for meanwhile.  (setWorkflowDone before each throw.)
ErrorRecorded == exit = "error" => wfStatus = "failed"

\* A completed workflow has no task left undone.  (The unconditional last write
\* of executeWorkflow and continueWorkflowExecution.)
CompletedMeansDone ==
    wfStatus = "completed" => \A t \in Tasks : row[t] \in {"completed", "skipped"}

\* A task a router did not choose is never taken up: not in the run that made
\* the choice, and not in one resumed after the router's batch failed.  Only a
\* task that ran before its router completed may run again.  (applyRoutingSkips,
\* which must come before the batch's first rejection is thrown.)
OnlyPickedBranchRuns ==
    [][\A t \in tried' \ tried : \A r \in Routers \cap Deps[t] :
            row[r] = "completed" => picked[r] = t]_vars

\* A settled batch skips a task only if one of its routers chose another branch.
\* (applyRoutingSkips' comment: the output of an if_else, switch or evaluator
\* "contains a `next_step_id` field that identifies which branch to execute".)
PickedBranchKept ==
    [][(BatchSucceeds \/ BatchFails) =>
            \A t \in Tasks : row[t] = "pending" /\ row'[t] = "skipped" =>
                \E r \in Routers \cap Deps[t] : row[r] = "completed" /\ picked[r] # t]_vars

\* A task never works on an output whose review has not passed: the row is
\* completed before the review, but nothing may build on it until then.
UnreviewedNotConsumed ==
    \A t \in Tasks : Working(t) =>
        \A d \in Deps[t] : row[d] = "completed" => d \in reviewed

\* A cancelled workflow is never downgraded to failed.
\* (runTaskLoop's comment, tests/integration/cancel-propagation-e2e.test.ts.)
CancelNotDowngraded == [][wfStatus = "cancelled" => wfStatus' # "failed"]_wfStatus

\* A run that is over has left a terminal status behind, unless it crashed.
\* (executeWorkflow: "any failure ... marks the workflow failed".)
RunEndRecorded ==
    phase = "ended" /\ exit # "crashed" => wfStatus \in TerminalWf

\* A run resumed after a cancel is not still under that cancel.
\* (resumeWorkflow: "restore workflow/tasks after failed / cancelled / paused runs".)
ResumeOutlivesCancel ==
    phase # "ended" /\ wfStatus = "executing" => control \notin CancelControl

\* A completed workflow does not become a failed one.
\* (prepareWorkflowForResume: "is completed and cannot be resumed".)
CompletedNotFailed == [][wfStatus = "completed" => wfStatus' # "failed"]_wfStatus

\* Once the wall-clock limit has fired, no new task is picked up.
\* (The comment above maxDurationSeconds in executeWorkflow.)
NoPickupAfterDeadline ==
    [][raced => \A t \in Tasks : pc[t] = "idle" => pc'[t] = "idle"]_vars

---------------------------------------------------------------------------
(* Liveness *)

\* A cancel ends the run, wherever it finds it: at the checkpoint, parked, in the
\* middle of a batch or in the closing steps.
CancelStops == wfStatus = "cancelled" ~> phase = "ended"

\* A run ends or stays parked by an operator's pause.
RunEndsOrParks == phase # "ended" ~> phase \in {"ended", "paused"}

\* A parked run wakes up when it is resumed, unless a new pause overtakes it.
ResumeWakes ==
    phase = "paused" /\ control = "resume_requested"
        ~> phase # "paused" \/ control = "pause_requested"
=============================================================================
