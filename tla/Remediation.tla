---------------------------- MODULE Remediation ----------------------------
(***************************************************************************)
(* Remediation workflows: a task of a parent workflow fails its quality    *)
(* gate, a child workflow with an approval task t0 and the fix tasks is    *)
(* spawned (quality/remediation.ts, run-task/quality-gate.ts), the daemon  *)
(* picks pending children up when it starts (quality/remediation-pickup.ts,*)
(* cli/commands/daemon.ts), and the outcome of a child goes back to the    *)
(* parent (db/persist.ts).                                                 *)
(*                                                                         *)
(* The parent has one batch of tasks; its executor lives in the daemon or  *)
(* at a terminal.  A child has the rows t0 and fix, one for all of its fix *)
(* tasks, and is driven by executors of the daemon, each with the tasks it *)
(* loaded in memory.  Several executors may drive one child.               *)
(***************************************************************************)
EXTENDS Naturals

CONSTANTS
    Sources,        \* tasks of the parent with a quality gate
    MaxChildren,    \* bound on remediation children
    MaxExecs,       \* bound on executors of children at a time
    MaxCrashes,     \* bound on crashes
    MaxResumes      \* bound on resumes, of the parent and of children

ASSUME BoundAssumption ==
    MaxChildren \in Nat /\ MaxExecs \in Nat /\ MaxCrashes \in Nat /\ MaxResumes \in Nat

Children == 1 .. MaxChildren    \* in the order they are spawned
Execs    == 1 .. MaxExecs       \* calls of continueWorkflowExecution
NoChild  == 0                   \* what an idle executor drives

VARIABLES
    up,         \* the daemon runs
    parent,     \* workflows.status of the parent
    runner,     \* the process the parent's executor lives in
    halted,     \* the parent's control row is canceled
    src,        \* how far each source task is in the parent's batch
    child,      \* workflows.status of each child
    stopped,    \* the children whose control row is canceled
    row,        \* tasks.status of t0 and fix of each child
    exec,       \* the executors of children, in the daemon
    toPick,     \* pending children the running pickup has still to dispatch
    approved,   \* history: children whose t0 an operator let pass
    torn,       \* history: a crash between the failure of t0 and of the child
    crashes,    \* crashes so far
    resumes     \* resumes so far

parentVars == <<parent, runner, halted, src>>
childVars  == <<child, stopped, row, exec, toPick, approved, torn>>
counters   == <<crashes, resumes>>
vars       == <<parentVars, childVars, counters, up>>

Tasks == {"t0", "fix"}
Row   == {"pending", "running", "completed", "failed", "cancelled", "skipped"}

Open == {"pending", "executing"}

\* select: at the head of the loop; asking: t0 waits at its gate; working: a
\* task runs; thrown: a task has failed, the workflow is not recorded yet.
At   == {"idle", "select", "asking", "working", "thrown", "closing"}
Exec == [wf   : Children \cup {NoChild},
         at   : At,
         task : Tasks,              \* asked for or worked on
         pend : SUBSET Tasks,       \* in memory: still pending
         done : SUBSET Tasks,       \* in memory: completedIds
         free : BOOLEAN,            \* in memory: t0 was loaded without its flag
         dash : BOOLEAN,            \* started by the dashboard's resume
         cut  : BOOLEAN]            \* its controller was aborted

Idle == [wf |-> NoChild, at |-> "idle", task |-> "t0", pend |-> {}, done |-> {},
         free |-> FALSE, dash |-> FALSE, cut |-> FALSE]

TypeOK ==
    /\ up \in BOOLEAN
    /\ parent \in {"executing", "awaiting_remediation", "completed", "failed", "cancelled"}
    /\ runner \in {"none", "daemon", "terminal"}
    /\ halted \in BOOLEAN
    /\ src \in [Sources -> {"review", "passed", "thrown", "aborted"}]
    /\ child \in [Children -> Open \cup {"none", "completed", "failed", "cancelled"}]
    /\ stopped \subseteq Children
    /\ row \in [Children -> [Tasks -> Row]]
    /\ exec \in [Execs -> Exec]
    /\ \A e \in Execs : exec[e].pend \cap exec[e].done = {}
    /\ toPick \subseteq Children
    /\ approved \subseteq Children
    /\ torn \subseteq Children
    /\ crashes \in 0 .. MaxCrashes
    /\ resumes \in 0 .. MaxResumes

Init ==
    /\ up = TRUE
    /\ parent = "executing"
    /\ runner \in {"daemon", "terminal"}
    /\ halted = FALSE
    /\ src = [s \in Sources |-> "review"]
    /\ child = [c \in Children |-> "none"]
    /\ stopped = {}
    /\ row = [c \in Children |-> [t \in Tasks |-> "pending"]]
    /\ exec = [e \in Execs |-> Idle]
    /\ toPick = {}
    /\ approved = {}
    /\ torn = {}
    /\ crashes = 0
    /\ resumes = 0

\* From a failed task to setWorkflowDone nothing is awaited but settled
\* promises: no request and no other run of the daemon comes between.
Calm == \A e \in Execs : exec[e].at # "thrown"

Alive == up /\ Calm
Runs  == runner # "none" /\ (runner = "daemon" => Alive)

----------------------------------------------------------------------------
(* The parent's batch: run-task/quality-gate.ts *)

Settles(s, how) ==
    /\ Runs
    /\ src[s] = "review"
    /\ src' = [src EXCEPT ![s] = how]
    /\ UNCHANGED <<runner, halted, stopped, row, exec, toPick, approved, torn, counters, up>>

GatePasses(s) == Settles(s, "passed") /\ UNCHANGED <<parent, child>>

\* checkAborted before the gate; the gate itself does not look at the signal.
ReviewAborted(s) == halted /\ Settles(s, "aborted") /\ UNCHANGED <<parent, child>>

\* needs_fixes or blocked under enforcement: the row is failed, the fix tasks
\* are inserted, and spawnRemediationWorkflow moves them to a child, in one
\* transaction.  The error of the gate is thrown all the same.
Spawn(s) ==
    /\ Settles(s, "thrown")
    /\ \E c \in Children :
         /\ child[c] = "none" /\ \A d \in Children : d < c => child[d] # "none"
         /\ child' = [child EXCEPT ![c] = "pending"]
    /\ parent' = "awaiting_remediation"

\* Auto-remediation is off, or the spawn throws and is audited.  With a crash
\* next, this is also the crash before the transaction.
NoSpawn(s) == Settles(s, "thrown") /\ UNCHANGED <<parent, child>>

\* runTaskLoop after Promise.allSettled: setWorkflowDone(failed), whatever a
\* spawn wrote meanwhile.  If the first failure is an abort it is left out,
\* but the catch of a background job does it then.
BatchThrows ==
    /\ Runs
    /\ \A s \in Sources : src[s] # "review"
    /\ \E s \in Sources : src[s] # "passed"
    /\ runner' = "none"
    /\ \/ parent' = "failed"
       \/ (\E s \in Sources : src[s] = "aborted") /\ UNCHANGED parent
    /\ UNCHANGED <<halted, src, childVars, counters, up>>

\* A standing cancel throws at the checkpoint; otherwise the run completes.
BatchPasses ==
    /\ Runs
    /\ \A s \in Sources : src[s] = "passed"
    /\ runner' = "none"
    /\ parent' \in IF halted THEN {parent, "failed"} ELSE {"completed", "failed"}
    /\ UNCHANGED <<halted, src, childVars, counters, up>>

----------------------------------------------------------------------------
(* Statuses of children *)

\* Mutant: the failure stays with the child.
Propagate_Never == parent' = parent

\* propagateRemediationFailureToParent
Propagate == parent' = IF parent = "awaiting_remediation" THEN "failed" ELSE parent

\* setWorkflowDone of a child: only a failure is passed on.  Nothing calls
\* resolveParentAfterRemediation for a continued run.
ChildDone(c, status) ==
    /\ child' = [child EXCEPT ![c] = status]
    /\ IF status = "failed" THEN Propagate ELSE UNCHANGED parent
    /\ UNCHANGED <<runner, halted, src, stopped>>

\* The rows a cancel flips, and the executors whose controller it aborts.
Cancelled(c) == [t \in Tasks |-> IF row[c][t] \in {"pending", "running"}
                                   THEN "cancelled" ELSE row[c][t]]
CutIn(C) == [e \in Execs |->
               IF exec[e].wf \in C /\ exec[e].at \in {"asking", "working"}
                  /\ row[exec[e].wf][exec[e].task] \in {"pending", "running"}
                 THEN [exec[e] EXCEPT !.cut = TRUE] ELSE exec[e]]

----------------------------------------------------------------------------
(* An executor of a child: continueWorkflowExecution *)

\* Mutant: a cancelled row is pending again as well.
Load_Cancelled(e, c, rows, isFree, isDash) ==
    LET loaded == [t \in Tasks |-> IF rows[t] \in {"running", "cancelled"}
                                     THEN "pending" ELSE rows[t]] IN
    /\ row' = [row EXCEPT ![c] = loaded]
    /\ exec' = [exec EXCEPT ![e] =
                  [wf |-> c, at |-> "select", task |-> "t0",
                   pend |-> {t \in Tasks : loaded[t] = "pending"},
                   done |-> {t \in Tasks : loaded[t] \in {"completed", "failed", "skipped"}},
                   free |-> isFree, dash |-> isDash, cut |-> FALSE]]

\* Interrupted rows become pending; completed, failed and skipped ones count
\* as done.
Load(e, c, rows, isFree, isDash) ==
    LET loaded == [t \in Tasks |-> IF rows[t] = "running" THEN "pending" ELSE rows[t]] IN
    /\ row' = [row EXCEPT ![c] = loaded]
    /\ exec' = [exec EXCEPT ![e] =
                  [wf |-> c, at |-> "select", task |-> "t0",
                   pend |-> {t \in Tasks : loaded[t] = "pending"},
                   done |-> {t \in Tasks : loaded[t] \in {"completed", "failed", "skipped"}},
                   free |-> isFree, dash |-> isDash, cut |-> FALSE]]

Vacant(e)     == exec[e] = Idle /\ \A d \in Execs : d < e => exec[d] # Idle
In(e, at)     == Alive /\ exec[e].at = at
Moves(e, at)  == exec' = [exec EXCEPT ![e].at = at]
Leaves(e)     == exec' = [exec EXCEPT ![e] = Idle]
SetRow(e, st) == row' = [row EXCEPT ![exec[e].wf][exec[e].task] = st]

ExecFrame == UNCHANGED <<toPick, torn, counters, up>>

\* A throw that reaches the caller: the pickup only notes an event, the
\* dashboard's job fails the workflow.
ThrowsOut(e) ==
    /\ IF exec[e].dash THEN ChildDone(exec[e].wf, "failed")
                       ELSE UNCHANGED <<parentVars, child, stopped>>
    /\ Leaves(e)

\* waitForWorkflowControlCheckpoint under a standing cancel.
CheckpointThrows(e) ==
    /\ In(e, "select")
    /\ exec[e].wf \in stopped
    /\ ThrowsOut(e)
    /\ UNCHANGED <<row, approved>>
    /\ ExecFrame

Passes(e) == In(e, "select") /\ exec[e].wf \notin stopped

\* t0 depends on nothing, the fix tasks on t0.
ReadyIn(e) == {t \in exec[e].pend : t = "fix" => "t0" \in exec[e].done}

Asks(e) ==
    /\ Passes(e)
    /\ "t0" \in ReadyIn(e)
    /\ IF exec[e].free
         THEN /\ exec' = [exec EXCEPT ![e].at = "working", ![e].task = "t0"]
              /\ row' = [row EXCEPT ![exec[e].wf]["t0"] = "running"]
         ELSE /\ exec' = [exec EXCEPT ![e].at = "asking", ![e].task = "t0"]
              /\ UNCHANGED row
    /\ UNCHANGED <<parentVars, child, stopped, approved>>
    /\ ExecFrame

StartsFix(e) ==
    /\ Passes(e)
    /\ "fix" \in ReadyIn(e)
    /\ exec' = [exec EXCEPT ![e].at = "working", ![e].task = "fix"]
    /\ row' = [row EXCEPT ![exec[e].wf]["fix"] = "running"]
    /\ UNCHANGED <<parentVars, child, stopped, approved>>
    /\ ExecFrame

NothingReady(e) ==
    /\ Passes(e)
    /\ exec[e].pend # {} /\ ReadyIn(e) = {}
    /\ ChildDone(exec[e].wf, "failed")
    /\ Leaves(e)
    /\ UNCHANGED <<row, approved>>
    /\ ExecFrame

\* Nothing pending in memory: failed rows fail the workflow, others do not.
LoopReturns(e) ==
    /\ Passes(e)
    /\ exec[e].pend = {}
    /\ IF \E t \in Tasks : row[exec[e].wf][t] = "failed"
         THEN ChildDone(exec[e].wf, "failed") /\ Leaves(e)
         ELSE Moves(e, "closing") /\ UNCHANGED <<parentVars, child, stopped>>
    /\ UNCHANGED <<row, approved>>
    /\ ExecFrame

\* Validation, consolidation and final review, which may throw.
Completes(e) ==
    /\ In(e, "closing")
    /\ ChildDone(exec[e].wf, "completed")
    /\ Leaves(e)
    /\ UNCHANGED <<row, approved>>
    /\ ExecFrame

ClosingThrows(e) ==
    /\ In(e, "closing")
    /\ ThrowsOut(e)
    /\ UNCHANGED <<row, approved>>
    /\ ExecFrame

\* The gate of t0, then the start of its body unless it was aborted.
Approves(e) ==
    /\ In(e, "asking")
    /\ approved' = approved \cup {exec[e].wf}
    /\ IF exec[e].cut
         THEN ThrowsOut(e) /\ UNCHANGED row
         ELSE /\ Moves(e, "working")
              /\ SetRow(e, "running")
              /\ UNCHANGED <<parentVars, child, stopped>>
    /\ ExecFrame

\* A rejection fails the row; a timeout and a modify throw without it.
Refuses(e) ==
    /\ In(e, "asking")
    /\ \/ row' = [row EXCEPT ![exec[e].wf]["t0"] = "failed"]
       \/ UNCHANGED row
    /\ Moves(e, "thrown")
    /\ UNCHANGED <<parentVars, child, stopped, approved>>
    /\ ExecFrame

Succeeds(e) ==
    /\ In(e, "working")
    /\ ~exec[e].cut
    /\ SetRow(e, "completed")
    /\ exec' = [exec EXCEPT ![e].at = "select",
                            ![e].pend = @ \ {exec[e].task},
                            ![e].done = @ \cup {exec[e].task}]
    /\ UNCHANGED <<parentVars, child, stopped, approved>>
    /\ ExecFrame

Fails(e) ==
    /\ In(e, "working")
    /\ ~exec[e].cut
    /\ SetRow(e, "failed")
    /\ Moves(e, "thrown")
    /\ UNCHANGED <<parentVars, child, stopped, approved>>
    /\ ExecFrame

\* An abort keeps the row and does not record the workflow.
Aborts(e) ==
    /\ In(e, "working")
    /\ exec[e].cut
    /\ ThrowsOut(e)
    /\ UNCHANGED <<row, approved>>
    /\ ExecFrame

\* The batch failure of runTaskLoop.
Records(e) ==
    /\ up
    /\ exec[e].at = "thrown"
    /\ ChildDone(exec[e].wf, "failed")
    /\ Leaves(e)
    /\ UNCHANGED <<row, approved>>
    /\ ExecFrame

----------------------------------------------------------------------------
(* The daemon *)

\* Mutant: the pickup looks for executing children.
DaemonStart_Executing ==
    /\ ~up
    /\ up' = TRUE
    /\ toPick' = {c \in Children : child[c] = "executing"}
    /\ UNCHANGED <<parentVars, child, stopped, row, exec, approved, torn, counters>>

\* runStartupAsyncSweeps: listPendingRemediationChildren
DaemonStart ==
    /\ ~up
    /\ up' = TRUE
    /\ toPick' = {c \in Children : child[c] = "pending"}
    /\ UNCHANGED <<parentVars, child, stopped, row, exec, approved, torn, counters>>

\* dispatchChildWorkflow, of a child that is still pending.  The run is not
\* awaited, and the status is left as it is.
Pickup(c, e) ==
    /\ Alive
    /\ c \in toPick
    /\ Vacant(e)
    /\ toPick' = toPick \ {c}
    /\ IF child[c] = "pending" THEN Load(e, c, row[c], FALSE, FALSE) ELSE UNCHANGED <<row, exec>>
    /\ UNCHANGED <<parentVars, child, stopped, approved, torn, counters, up>>

CrashDaemon ==
    /\ up
    /\ crashes < MaxCrashes
    /\ crashes' = crashes + 1
    /\ up' = FALSE
    /\ toPick' = {}
    /\ torn' = torn \cup {exec[e].wf : e \in {x \in Execs : exec[x].at = "thrown"}}
    /\ exec' = [e \in Execs |-> Idle]
    /\ runner' = IF runner = "daemon" THEN "none" ELSE runner
    /\ UNCHANGED <<parent, halted, src, child, stopped, row, approved, resumes>>

CrashTerminal ==
    /\ runner = "terminal"
    /\ crashes < MaxCrashes
    /\ crashes' = crashes + 1
    /\ runner' = "none"
    /\ UNCHANGED <<parent, halted, src, childVars, resumes, up>>

----------------------------------------------------------------------------
(* The operator, at the dashboard *)

\* requestWorkflowControl: a failed workflow only gets the request on record.  A
\* completed one too, but it is never resumed, so nobody reads it.
CancelChild(c) ==
    /\ Alive
    /\ child[c] \notin {"none", "completed"} /\ c \notin stopped
    /\ stopped' = stopped \cup {c}
    /\ IF child[c] \in Open
         THEN /\ child' = [child EXCEPT ![c] = "cancelled"]
              /\ row' = [row EXCEPT ![c] = Cancelled(c)]
              /\ exec' = CutIn({c})
         ELSE UNCHANGED <<child, row, exec>>
    /\ UNCHANGED <<parentVars, toPick, approved, torn, counters, up>>

\* broadcastCancelToWorkflow goes on to the children: their rows and their
\* controllers, not their statuses, nor their control rows.
CancelParent ==
    /\ Alive
    /\ parent # "completed" /\ ~halted
    /\ halted' = TRUE
    /\ IF parent \in {"executing", "awaiting_remediation"}
         THEN LET C == {c \in Children : child[c] \in Open} IN
              /\ parent' = "cancelled"
              /\ row' = [c \in Children |-> IF c \in C THEN Cancelled(c) ELSE row[c]]
              /\ exec' = CutIn(C)
         ELSE UNCHANGED <<parent, row, exec>>
    /\ UNCHANGED <<runner, src, child, stopped, toPick, approved, torn, counters, up>>

\* prepareWorkflowForResume of a parent: after a failure one failed task is
\* tried again; a task that was interrupted in its review counts as done.
\* Under a standing cancel the first checkpoint throws and the job's catch
\* fails the workflow.
ResumeParent ==
    /\ Alive
    /\ runner = "none" /\ parent # "completed"
    /\ resumes < MaxResumes
    /\ resumes' = resumes + 1
    /\ IF halted
         THEN parent' = "failed" /\ UNCHANGED <<runner, src>>
         ELSE LET settled == [s \in Sources |-> IF src[s] = "review" THEN "passed" ELSE src[s]]
                  failed  == {s \in Sources : src[s] = "thrown"} IN
              /\ parent' = "executing"
              /\ runner' = "daemon"
              /\ src' \in IF parent = "failed" /\ failed # {}
                            THEN {[settled EXCEPT ![s] = "review"] : s \in failed}
                            ELSE {settled}
    /\ UNCHANGED <<halted, childVars, crashes, up>>

\* Mutant: a failed child is resumed without trying a failed task again.
Reset_Nothing(c) == {row[c]}

\* What prepareWorkflowForResume does to the rows: the failed task that was
\* written last is pending again, or all cancelled ones.
Reset(c) ==
    CASE child[c] = "failed" /\ (\E t \in Tasks : row[c][t] = "failed") ->
           {[row[c] EXCEPT ![t] = "pending"] : t \in {u \in Tasks : row[c][u] = "failed"}}
      [] child[c] = "cancelled" ->
           {[t \in Tasks |-> IF row[c][t] = "cancelled" THEN "pending" ELSE row[c][t]]}
      [] OTHER -> {row[c]}

\* The dashboard knows its own resumes of this child, not the pickup's.  After
\* an executing run a gate decided for t0 clears its flag.
ResumeChild(c, e) ==
    /\ Alive
    /\ child[c] \notin {"none", "completed"}
    /\ Vacant(e)
    /\ \A x \in Execs : exec[x].wf = c => ~exec[x].dash
    /\ resumes < MaxResumes
    /\ resumes' = resumes + 1
    /\ child' = [child EXCEPT ![c] = "executing"]
    /\ \E rows \in Reset(c) :
         Load(e, c, rows, child[c] = "executing" /\ c \in approved, TRUE)
    /\ UNCHANGED <<parentVars, stopped, toPick, approved, torn, crashes, up>>

\* The same with skip_failed_steps: the operator waves failed tasks through.
SkipFailed(c, e) ==
    /\ Alive
    /\ child[c] = "failed"
    /\ Vacant(e)
    /\ \A x \in Execs : exec[x].wf = c => ~exec[x].dash
    /\ resumes < MaxResumes
    /\ resumes' = resumes + 1
    /\ child' = [child EXCEPT ![c] = "executing"]
    /\ Load(e, c, [t \in Tasks |-> IF row[c][t] = "failed" THEN "skipped" ELSE row[c][t]],
            FALSE, TRUE)
    /\ approved' = IF row[c]["t0"] = "failed" THEN approved \cup {c} ELSE approved
    /\ UNCHANGED <<parentVars, stopped, toPick, torn, crashes, up>>

----------------------------------------------------------------------------

SourceMoves(s) ==
    GatePasses(s) \/ ReviewAborted(s) \/ Spawn(s) \/ NoSpawn(s)

ExecStep(e) ==
    \/ CheckpointThrows(e) \/ Asks(e) \/ StartsFix(e) \/ NothingReady(e) \/ LoopReturns(e)
    \/ Completes(e) \/ ClosingThrows(e) \/ Approves(e) \/ Refuses(e) \/ Succeeds(e)
    \/ Fails(e) \/ Aborts(e) \/ Records(e)

Next ==
    \/ \E s \in Sources : SourceMoves(s)
    \/ BatchThrows \/ BatchPasses
    \/ \E e \in Execs : ExecStep(e)
    \/ DaemonStart \/ CrashDaemon \/ CrashTerminal
    \/ \E c \in Children : CancelChild(c)
    \/ \E c \in Children, e \in Execs : Pickup(c, e) \/ ResumeChild(c, e) \/ SkipFailed(c, e)
    \/ CancelParent \/ ResumeParent

Spec == Init /\ [][Next]_vars

\* A dead daemon is started again, its pickup goes through its list, and of the
\* executors some goes on: gates time out, tasks and closing phases end.
FairSpec ==
    /\ Spec
    /\ WF_vars(DaemonStart)
    /\ WF_vars(\E c \in Children, e \in Execs : Pickup(c, e))
    /\ WF_vars(\E e \in Execs : ExecStep(e))

----------------------------------------------------------------------------
(* Safety *)

\* No fix task runs before an operator has let t0 of its child pass, over
\* crashes, pickups, resumes and several executors of one child - unless the
\* daemon died between the failure of t0 and that of the child.
\* (spawnRemediationWorkflow's t0 and its dependents.)
FixNeedsConsent ==
    \A e \in Execs : exec[e].at = "working" /\ exec[e].task = "fix" =>
        exec[e].wf \in approved \cup torn

\* A parent never waits for children that have all failed.
\* (propagateRemediationFailureToParent, for any order of spawns and failures.)
NoWaitForFailed ==
    parent = "awaiting_remediation" =>
        \E c \in Children : child[c] \notin {"none", "failed"}

\* What a run of a child records reaches a parent only while it waits: a parent
\* that was cancelled, resumed or has ended keeps its status.
WaitingParentOnly ==
    [][parent # "awaiting_remediation" /\ child' # child /\ parent' # parent =>
          parent' = "awaiting_remediation"]_vars

\* A row that a cancel of the child or of its parent took down comes back only
\* by a resume, never by a pickup, which finds the child of a cancelled parent
\* still pending.  (broadcastCancelToWorkflow, continueWorkflowExecution.)
CancelledStaysDown ==
    [][\A c \in Children, t \in Tasks :
          row[c][t] = "cancelled" /\ row'[c][t] = "pending" => resumes' > resumes]_vars

----------------------------------------------------------------------------
(* Liveness *)

\* A child that is pending when the daemon is down is driven to an end, comes
\* to rest with nobody left to run it, or is cancelled: it is not forgotten.
\* (pickupPendingRemediationWorkflows, crash recovery.)
Driven(c) == \E e \in Execs : exec[e].wf = c

OrphanDriven ==
    \A c \in Children : (child[c] = "pending" /\ ~up) ~> (child[c] # "pending" \/ Driven(c))

----------------------------------------------------------------------------
(* What the code does not do *)

\* A parent is resolved once a child it waits for has completed.
CompletedChildResolves ==
    parent = "awaiting_remediation" =>
        \E c \in Children : child[c] \notin {"none", "failed", "completed"}

=============================================================================
