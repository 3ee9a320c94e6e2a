------------------------------ MODULE CostCap ------------------------------
(***************************************************************************)
(* The cost cap of a workflow: brain/executor/cost-cap.ts, its in-process  *)
(* ledger of reservations, and every place of run-task and orchestrate.ts  *)
(* that reserves, releases or clears it.  WorkflowEngine's CostCapHit is   *)
(* the step Halt here; this module keeps the amounts, and leaves out the   *)
(* graph: which pending tasks make up a batch is left open.                *)
(*                                                                         *)
(* The map costReservations lives in the process: it outlives a run, and a *)
(* restart empties it.                                                     *)
(***************************************************************************)
EXTENDS Naturals, FiniteSets, Functions

CONSTANTS
    Tasks,      \* the priced tasks: kind llm_call or cli_spawn
    LlmCalls,   \* those of kind llm_call: their cost is recorded in model_calls
    Est,        \* estimateUpcomingCost
    Cap,        \* workflows.max_total_cost_usd
    ReviewCost, \* what one call of the reviewer may cost at most
    FailedCost, \* what the attempts of a task that fails may cost at most
    HasDeadline,\* maxTimeMs is set
    MaxSpend    \* bound: what one task, or the reviewer, may cost over all runs

ASSUME CostAssumption ==
    /\ IsFiniteSet(Tasks)
    /\ LlmCalls \subseteq Tasks
    /\ Est \in [Tasks -> Nat]
    /\ Cap \in Nat
    /\ ReviewCost \in Nat
    /\ FailedCost \in Nat
    /\ HasDeadline \in BOOLEAN
    /\ MaxSpend \in Nat

VARIABLES
    run,        \* the entry that drives the workflow, "none" between two runs
    raced,      \* executeWorkflow lost its race to the deadline; its core runs on
    halted,     \* a task of this run hit the cap
    status,     \* Task.status
    pc,         \* where a task of the batch is
    billed,     \* the cost finalizeSuccess recorded for a task in model_calls
    reviews,    \* the cost of the reviewer's calls in model_calls
    reserved,   \* costReservations, 0 without an entry
    spent       \* history: what the providers charged for a task

vars == <<run, raced, halted, status, pc, billed, reviews, reserved, spent>>

\* Past its check, and its estimate not yet released.
InFlight == {t \in Tasks : pc[t] \in {"admitted", "working", "review"}}
Busy     == {t \in Tasks : pc[t] = "checking"} \cup InFlight
Pending  == {t \in Tasks : status[t] = "pending"}

\* A reservation is a task's own estimate or nothing: it never accumulates over
\* retries and resumes.  (reserveCost: "Overwrite (not add)".)
TypeOK ==
    /\ run \in {"none", "execute", "continue"}
    /\ raced \in BOOLEAN
    /\ halted \in BOOLEAN
    /\ status \in [Tasks -> {"pending", "running", "completed", "failed", "skipped"}]
    /\ pc \in [Tasks -> {"idle", "checking", "admitted", "working", "review", "fulfilled", "rejected"}]
    /\ billed \in [Tasks -> Nat]
    /\ reviews \in Nat
    /\ reserved \in [Tasks -> Nat]
    /\ \A t \in Tasks : reserved[t] \in {0, Est[t]}
    /\ spent \in [Tasks -> Nat]

Used         == SumFunction(billed) + reviews
Others(t)    == SumFunctionOnSet(reserved, Tasks \ {t})
NoneReserved == [t \in Tasks |-> 0]

Init ==
    /\ run = "execute"
    /\ raced = FALSE
    /\ halted = FALSE
    /\ status = [t \in Tasks |-> "pending"]
    /\ pc = [t \in Tasks |-> "idle"]
    /\ billed = [t \in Tasks |-> 0]
    /\ reviews = 0
    /\ reserved = NoneReserved
    /\ spent = [t \in Tasks |-> 0]

---------------------------------------------------------------------------
(* A batch and its tasks *)

\* The loop takes up a batch; each of its tasks enters preDispatch.
TakeUp ==
    /\ run # "none"
    /\ \A t \in Tasks : pc[t] = "idle"
    /\ \E B \in (SUBSET Pending) \ {{}} :
         pc' = [t \in Tasks |-> IF t \in B THEN "checking" ELSE "idle"]
    /\ UNCHANGED <<run, raced, halted, status, billed, reviews, reserved, spent>>

\* The sum the check compares with the cap: its own reservation is left out.
Fits(t) == Used + Others(t) + Est[t] <= Cap

\* Mutant: the check does not see what its siblings have reserved.
Admit_Unreserved(t) ==
    /\ pc[t] = "checking"
    /\ Used + Est[t] <= Cap
    /\ pc' = [pc EXCEPT ![t] = "admitted"]
    /\ reserved' = [reserved EXCEPT ![t] = Est[t]]
    /\ UNCHANGED <<run, raced, halted, status, billed, reviews, spent>>

\* enforceWorkflowCostCapBeforeTask: read, check and reserve without an await.
\* Nothing here looks at the task's status: a task skipped meanwhile goes on.
Admit(t) ==
    /\ pc[t] = "checking"
    /\ Fits(t)
    /\ pc' = [pc EXCEPT ![t] = "admitted"]
    /\ reserved' = [reserved EXCEPT ![t] = Est[t]]
    /\ UNCHANGED <<run, raced, halted, status, billed, reviews, spent>>

\* Over the cap: every pending task is skipped and every reservation dropped,
\* those of the tasks in flight with them.
Halt(t) ==
    /\ pc[t] = "checking"
    /\ ~Fits(t)
    /\ status' = [u \in Tasks |-> IF u \in Pending \cup {t} THEN "skipped" ELSE status[u]]
    /\ halted' = TRUE
    /\ reserved' = NoneReserved
    /\ pc' = [pc EXCEPT ![t] = "rejected"]
    /\ UNCHANGED <<run, raced, billed, reviews, spent>>

\* preDispatch throws before the check: a gate refused, a budget or injection
\* block (these fail the row), or an abort.
Stop(t) ==
    /\ pc[t] = "checking"
    /\ pc' = [pc EXCEPT ![t] = "rejected"]
    /\ \E s \in {"failed", status[t]} : status' = [status EXCEPT ![t] = s]
    /\ UNCHANGED <<run, raced, halted, billed, reviews, reserved, spent>>

\* setTaskRunning, after the check.
Begin(t) ==
    /\ pc[t] = "admitted"
    /\ pc' = [pc EXCEPT ![t] = "working"]
    /\ status' = [status EXCEPT ![t] = "running"]
    /\ UNCHANGED <<run, raced, halted, billed, reviews, reserved, spent>>

Charged(t, c) ==
    /\ spent[t] + c <= MaxSpend
    /\ spent' = [spent EXCEPT ![t] = @ + c]

\* The worktree cannot be prepared (the row fails), the secrets cannot be resolved or
\* an abort is seen between two attempts or after the last (it stays running): the
\* task ends with its reservation held.
Abandon(t) ==
    /\ pc[t] = "working"
    /\ pc' = [pc EXCEPT ![t] = "rejected"]
    /\ \E s \in {"failed", "running"} : status' = [status EXCEPT ![t] = s]
    /\ \E c \in 0 .. FailedCost : Charged(t, c)
    /\ UNCHANGED <<run, raced, halted, billed, reviews, reserved>>

\* Mutant: one task's failure drops the reservations of the whole workflow.
Fail_ClearsAll(t) ==
    /\ pc[t] = "working"
    /\ pc' = [pc EXCEPT ![t] = "rejected"]
    /\ status' = [status EXCEPT ![t] = "failed"]
    /\ \E c \in 0 .. FailedCost : Charged(t, c)
    /\ reserved' = NoneReserved
    /\ UNCHANGED <<run, raced, halted, billed, reviews>>

\* finalizeFailure releases the task's own reservation; what the attempts cost is
\* not recorded.
Fail(t) ==
    /\ pc[t] = "working"
    /\ pc' = [pc EXCEPT ![t] = "rejected"]
    /\ status' = [status EXCEPT ![t] = "failed"]
    /\ \E c \in 0 .. FailedCost : Charged(t, c)
    /\ reserved' = [reserved EXCEPT ![t] = 0]
    /\ UNCHANGED <<run, raced, halted, billed, reviews>>

\* finalizeSuccess up to the review: an llm_call's cost is recorded, a cli_spawn's
\* is not.  No call costs more than its estimate.
Succeed(t) ==
    /\ pc[t] = "working"
    /\ pc' = [pc EXCEPT ![t] = "review"]
    /\ status' = [status EXCEPT ![t] = "completed"]
    /\ \E c \in 0 .. Est[t] :
         /\ Charged(t, c)
         /\ billed' = [billed EXCEPT ![t] = IF t \in LlmCalls THEN @ + c ELSE @]
    /\ UNCHANGED <<run, raced, halted, reviews, reserved>>

\* Mutant: a review that fails throws past the release.
Reviewed_ReleasesPassed(t) ==
    /\ pc[t] = "review"
    /\ \/ /\ pc' = [pc EXCEPT ![t] = "fulfilled"] /\ UNCHANGED status
          /\ reserved' = [reserved EXCEPT ![t] = 0]
       \/ /\ pc' = [pc EXCEPT ![t] = "rejected"]
          /\ status' = [status EXCEPT ![t] = "failed"]
          /\ UNCHANGED reserved
    /\ \E c \in 0 .. ReviewCost : reviews + c <= MaxSpend /\ reviews' = reviews + c
    /\ UNCHANGED <<run, raced, halted, billed, spent>>

\* The review, whose call is recorded and was never reserved, and the finally of
\* finalizeSuccess, whatever the review said.
Reviewed(t) ==
    /\ pc[t] = "review"
    /\ \/ pc' = [pc EXCEPT ![t] = "fulfilled"] /\ UNCHANGED status
       \/ /\ pc' = [pc EXCEPT ![t] = "rejected"]
          /\ status' = [status EXCEPT ![t] = "failed"]
    /\ \E c \in 0 .. ReviewCost : reviews + c <= MaxSpend /\ reviews' = reviews + c
    /\ reserved' = [reserved EXCEPT ![t] = 0]
    /\ UNCHANGED <<run, raced, halted, billed, spent>>

TaskStep(t) ==
    \/ Admit(t) \/ Halt(t)    \/ Stop(t)     \/ Begin(t) \/ Abandon(t)
    \/ Fail(t)  \/ Succeed(t) \/ Reviewed(t)

---------------------------------------------------------------------------
(* The run around the batch *)

Rejected == {t \in Tasks : pc[t] = "rejected"}

\* Promise.allSettled without a rejection: the loop goes on.
BatchSucceeds ==
    /\ run # "none"
    /\ Busy = {} /\ Rejected = {}
    /\ \E t \in Tasks : pc[t] = "fulfilled"
    /\ pc' = [t \in Tasks |-> "idle"]
    /\ UNCHANGED <<run, raced, halted, status, billed, reviews, reserved, spent>>

EndRun(clears) ==
    /\ run' = "none"
    /\ raced' = FALSE
    /\ halted' = FALSE
    /\ reserved' = IF clears THEN NoneReserved ELSE reserved
    /\ pc' = [t \in Tasks |-> "idle"]
    /\ UNCHANGED <<status, billed, reviews, spent>>

\* A rejected task, or a cancel at the checkpoint, ends the run with a throw.
\* Only executeWorkflow clears then, and a core that lost its race is outside it.
RunThrows ==
    /\ run # "none"
    /\ Busy = {}
    /\ EndRun(run = "execute" /\ ~raced)

\* Nothing is pending: both entries clear, but for a core that lost its race.
RunCompletes ==
    /\ run # "none"
    /\ Pending = {}
    /\ \A t \in Tasks : pc[t] = "idle"
    /\ EndRun(~raced)

\* The deadline's catch clears the reservations of the core that runs on.
DeadlineFires ==
    /\ HasDeadline
    /\ run = "execute" /\ ~raced
    /\ raced' = TRUE
    /\ reserved' = NoneReserved
    /\ UNCHANGED <<run, halted, status, pc, billed, reviews, spent>>

\* A resume or a retry in the same process makes some of the tasks pending again,
\* those left running among them.
Resume ==
    /\ run = "none"
    /\ run' = "continue"
    /\ \E S \in {{}, Tasks} \cup {{t} : t \in Tasks} :
         status' = [t \in Tasks |->
             IF t \in S \/ status[t] = "running" THEN "pending" ELSE status[t]]
    /\ UNCHANGED <<raced, halted, pc, billed, reviews, reserved, spent>>

\* The process dies, and with it the run and the map.
Restart ==
    /\ run' = "none"
    /\ raced' = FALSE
    /\ halted' = FALSE
    /\ reserved' = NoneReserved
    /\ pc' = [t \in Tasks |-> "idle"]
    /\ UNCHANGED <<status, billed, reviews, spent>>

Next ==
    \/ TakeUp \/ \E t \in Tasks : TaskStep(t)
    \/ BatchSucceeds \/ RunThrows \/ RunCompletes
    \/ DeadlineFires \/ Resume \/ Restart

Spec == Init /\ [][Next]_vars

---------------------------------------------------------------------------
(* Properties *)

\* Until the run hits the cap or loses its race, what the tasks have been recorded
\* to cost and the estimates of the calls now under way add up to no more than the
\* cap: no batch, however wide, and no stale reservation of an earlier run lets
\* the check count too little.  The reviewer's calls come on top.
\* (BRAIN-04, the read-check-reserve of enforceWorkflowCostCapBeforeTask.)
CommittedWithinCap ==
    LET underWay == {t \in Tasks : pc[t] \in {"admitted", "working"}}
    IN  ~halted /\ ~raced /\ underWay # {} =>
            SumFunction(billed) + SumFunctionOnSet(Est, underWay) <= Cap

\* Until then too, every call in flight is covered by its reservation: no release
\* by a sibling and no clear at the end of another run has taken it away.
\* (releaseCostReservation, clearWorkflowCostReservations and their callers.)
InFlightReserved ==
    ~halted /\ ~raced => \A t \in InFlight : reserved[t] = Est[t]

\* No call leaves its reservation behind, to be counted against the tasks that come
\* after it: what stays of a call that is over stays because its task was abandoned.
\* (releaseCostReservation, at each end of a task that has started.)
ReleasedWithCall ==
    [][\A t \in Tasks :
         t \in InFlight /\ t \notin InFlight' => reserved'[t] = 0 \/ Abandon(t)]_vars

\* Between two runs nothing is reserved.  (cost-cap.ts: cleared "at workflow terminal
\* points (success / failure) so the per-process ledger cannot leak across runs".)
LedgerCleared == run = "none" => reserved = NoneReserved

\* The tasks never cost more than the cap, when no call costs more than its
\* estimate and a failed one costs nothing.  (cost-cap.ts: "the cap becomes a HARD ceiling".)
SpendWithinCap == SumFunction(spent) <= Cap
=============================================================================
