# A TLA+ model of the Aurora-Redux workflow engine

Aurora-Redux (npm `omniforge`) turns an objective into a DAG of tasks and runs it: batches of
tasks in parallel, retries, reviews, human approval, pause / resume / cancel, a cost cap, and
resumption after failures and crashes. State lives in one SQLite file shared by the daemon, the
HTTP dashboard, the REPL and the command line. This directory holds TLA+ modules translated from
that code, TLC configurations that check them on small instances, and TLAPS proofs of the most
important safety properties for all instances.

    tlc -workers 2 -config EngineOperator.cfg MCWorkflowEngine.tla
    tlapm WorkflowEngine_proofs.tla

Paths below are relative to the repository's `src/`.

## 1. Inventory

| Component | State | Operations | Hard because | Correct when |
|---|---|---|---|---|
| Task loop (`brain/executor/orchestrate.ts`) | `workflows.status`, `tasks.status`; in memory: `tasks[]`, `completedIds` | `executeWorkflow`, `continueWorkflowExecution`, one batch after another | rows and memory drift apart; several tasks of a batch fail differently; a deadline abandons the loop without stopping it | dependencies are settled before a task runs, batches respect file scopes and the cap, errors and completion are recorded truthfully |
| Task execution (`brain/executor/run-task/`) | task row, controller, lease, attempt | gate, guards, start, attempts with backoff, success, review | an abort can land between any two awaits; the row is completed before its review | work is neither lost nor consumed unreviewed; the attempt bound holds |
| Control (`db/workflow-control.ts`, `v2/subagent/control.ts`) | `workflow_control_state`, process-local controllers | pause, resume, cancel; the checkpoint and its poll loop | the operator writes while the loop is anywhere; another process has no controllers | a hold stops pickup, a cancel stops the run, a resume wakes it |
| Resume and retry (`brain/executor/resume.ts`, `mcp/dashboard-task-ops-*.ts`, `mcp/routes/dashboard-workflow-ops/`) | rows | resume by prior status, four retry modes, background jobs and their catch | a resume starts from whatever rows a failure, cancel or crash left | completed work is kept, nothing runs that should not |
| Cost cap (`brain/executor/cost-cap.ts`) | in-process reservations, `model_calls` | check-and-reserve, release, clear | many tasks check one amount; releases and clears happen in six places | the cap bounds what is committed |
| Leases and tick (`db/task-leases.ts`, `scheduler/tick.ts`) | `workflow_task_leases` | acquire, heartbeat, complete, expire, startup sweep | a stale run and its successor write the same lease and the same controller slot | a run nobody overlaps keeps its lease, the tick leaves a live run alone, an abandoned task is noticed |
| HITL gates (`brain/executor/hitl-gate.ts`, `hitl/`, `db/hitl-orphan-recovery.ts`) | `hitl_gates` | open, decide (terminal, dashboard, Slack, Telegram), poll, time out, recover | several deciders race a deadline; a gate outlives the executor that asked | no work without a consent, no gate left asking by anything but a crash |
| Quality gate and remediation (`quality/`) | child workflows, `awaiting_remediation` | spawn, pick up at startup, approve, cancel with the parent, hand the outcome back | two workflows, several executors of one child, two writers of the parent's status | fix tasks wait for a consent, a parent never waits for children that have all failed, a cancelled child stays down, an orphaned child is driven |
| Routing (`step-executors/`) | `output_json` of a router | pick a branch | the field name is a contract between two files | only the branch picked runs |
| File scopes (`v2/scheduling/file-scope.ts`) | none | `pathsOverlap` | string prefixes | overlapping directories are never written side by side |
| Failover (`v2/failover/`) | per-run recovery counter | classify, decide | two retry budgets and an escalating timeout | retries are bounded |
| Budgets, ledger (`v2/budget/`, `v2/llm-ledger/`) | `model_calls` | record, compare | cost arrives after the decision | every cost is recorded once |
| Adaptive supervisor (`brain/executor/adaptive-supervisor.ts`, `runAdaptiveBatch` in `orchestrate.ts`) | in memory: the subagents alive, their outcomes, the streak without progress | spawn phase, iterations, turns, clean-up, mapping to rows | kill, steer and cancel arrive during a turn; a write may fail half-way through a phase | every task gets an outcome, a cancel stops the loop, the supervisor ends |
| Sub-agent mailbox and run records (`v2/subagent/`) | `subagent_messages`, deliveries, `subagent_runs`, controllers | announce, collect, cancel with the sender, kill, steer, sweep at startup | delivery and cancellation race; the sweep and a living supervisor end the same record | a message reaches a turn at most once, a record ends once and none stays open |
| Process pool (`runtime/process-pool.ts`) | per key: mutex chain, registered process, sessions in `runtime_sessions` | acquire, reuse, spawn, tick and expiry, exit handler, drain, forced kill, orphan sweep | the exit handler and the expiry delete by key, not by process; the daemon may stop at any point | one spawn at a time, somebody answers for every living process, a hung one goes |
| ACP client and turns (`runtime/adapters/acp.ts`, `executors/cli/opencode-acp.ts`) | pending requests, notification handlers, a turn's text | session/new, prompt, close; cancel; response, chunk, teardown | tasks share one client, and an attempt that timed out leaves its turn running; timers, answers and the end of the process race | a turn returns its own text, all of it; the agent is told of a turn that failed; nothing stays; every turn ends |
| Rate limits, triggers, event broker, DAG validation, decomposer, reviewers, executors, providers, dashboard, REPL, context, vault, agents, skills, observability | various | various | mostly I/O, model calls or pure functions | see `PROJECT.json` for each one's status |

How they interact. An entry point (`mcp/tools/run_workflow.ts`, the CLI, the dashboard) calls the
task loop, in the foreground or as a background promise whose catch marks the workflow failed. The
loop reads the control row at the top of each iteration, selects a batch and awaits
`Promise.allSettled` over `executeTaskWithRetry`. Operators write the control row, the workflow
row and the task rows directly, from the same process (then they can also fire `AbortController`s)
or from another one. The scheduler tick and the resume path write the rows of a run that may or
may not be alive.

The hazards this leads to, each at its line, are under `hazards` in `PROJECT.json`, with the
properties that watch them.

## 2. Modules

| Module | Models |
|---|---|
| `WorkflowEngine` | the task loop, the life of a task, the control channel, resume, retry, lease expiry, for one workflow |
| `WorkflowEngine_proofs` | its theorems |
| `Schedule` | what the executor promises to a reader of the database: a scheduler that remembers nothing but the rows. `WorkflowEngine` implements it |
| `MCWorkflowEngine` | two instances: *Routing* (a router `r`, its branches `a`, `b`, and `w`) and *Sharing* (`x`, `y` declare one file, `z` depends on one of them and has a gate), and two graphs with a branch that does not depend on its router alone |
| `CostCap` | the reservations of the cost cap with amounts; refines nothing, but its `Halt` is `WorkflowEngine`'s `CostCapHit` with the graph left out |
| `CostCap_proofs` | its theorems |
| `MCCostCap` | three tasks with mixed or equal estimates |
| `HitlGate` | the gates of one flagged task: channels, deciders, the poll and its deadline, crash, resume, retry, orphan recovery |
| `Approval` | what a flag promises: no work before a consent. `HitlGate` implements it |
| `HitlGate_proofs` | the theorems of `HitlGate`, the refinement among them |
| `MCHitlGate` | two gates and one decider in another process |
| `TaskLeases` | the lease of one task, its overlapping runs in several processes, the tick, the startup sweep, the controller registry |
| `TaskLeases_proofs`, `MCTaskLeases` | its theorems; two runs in the daemon and one at a terminal |
| `Remediation` | a parent workflow, its remediation children and the executors that drive them |
| `Remediation_proofs`, `MCRemediation` | its theorems; one source task and two children |
| `Subagents` | the adaptive supervisor, the mailbox and run records of its subagents, and the operator |
| `Subagents_proofs` | its theorems |
| `ProcessPool` | one key of the process pool in a daemon, through shutdowns, crashes and restarts |
| `ProcessPool_proofs` | its theorems |
| `AcpTurns` | turns of several attempts over the client that the pool hands out, with the agent at the other end |
| `AcpTurns_proofs`, `MCAcpTurns` | its theorems; one task with two attempts |

### WorkflowEngine and the code

`wfStatus`, `control`, `row` and `picked` are columns of the database and survive `Crash`. `phase`,
`entry`, `caller`, `pc`, `mem`, `done`, `attempt`, `aborted` and `raced` are what the executor keeps
in memory. `exit`, `reviewed` and `tried` are history variables that only properties read
(`exit` says how the last run ended, `reviewed` which completed rows passed their review, `tried`
which tasks were ever in a batch).

JavaScript between two awaits is not interrupted, so such a stretch is one action: the checkpoint
and the selection that follows it are `SelectBatch`; the settling of a batch, the routing skips and
the throw are `BatchSucceeds` / `BatchFails`. Everything another task, the operator or the clock may
do happens between actions. `pc` is where a task's promise is:

    selected -> gate -> prepared -> running <-> backoff
                                     running -> review -> fulfilled
    any of them -> rejected, or aborted (a rejection that isCancellationError accepts)

Since `isCancellationError` also accepts every message with the word cancel in it, and messages quote
task names and model output, an ordinary failure may settle as either; `Rejections` leaves it open.

`Ends` is the return or throw of the entry point with what its caller does next: a background caller
answers a throw by failing the workflow. `raced` is set when `executeWorkflow` loses its race to the
deadline; the core it raced against stays in the model and goes on.

Choices left open because the code's own order depends on data: which admissible batch is chosen
(longest timeout first), which branch a router picks, which failure is retryable, how far the single
pass of `applyRoutingSkips` reaches, and which failed task is the latest.

What is assumed or left out:

* Tasks are `ephemeral` and not `output_pinned`; a router's target that is not among its children is
  the same as no target.
* One executor at a time. The code does not enforce that (see the hazards): overlapping runs are in
  `TaskLeases` for a task and in `Remediation` for a child workflow.
* The statements of one cancel are one action; `ExpireLease` expires one row at a time.
* The quality gate's throw is `ReviewFails` here; what it spawns is in `Remediation`. The adaptive
  batch with its kill and steer is in `Subagents`. The auto-summaries and the modify loop of a gate are
  not modelled.
* After an abort, memory may say `running` or `cancelled`; both are "not pending" and the model
  writes one of them.
* Two file scopes overlap when they share a member of `Paths`: the relation of `pathsOverlap`,
  whatever its strings.
* A throw of `resolveTaskSecrets` is left to `CostCap` (`Abandon`).

`Schedule` is the abstract specification: no `completedIds`, no statuses in memory, no promises, only rows,
the batch in flight, and whether somebody holds the run, a run has been resumed and the workflow is
finished. `KeepsSchedule` maps them to `BatchOf`, to a `control` that is a pause or a cancel, to `entry`
being `"continue"` and to `wfStatus` being `"completed"`. The executor reads the rows once, when it starts,
and goes by its memory from then on, while cancels, the tick and the end of earlier runs write rows behind
its back: that every batch it takes up is one the rows would have allowed is what the refinement says. It
also says which steps may take a row back, and to which status: `Resume`, `Retry`, `Cancel`, `Expire` and
the failing review of `Work`.

### CostCap and the code

`reserved` is the map `costReservations`, `billed` and `reviews` are what `model_calls` holds, `spent`
is what was really charged. `Admit` is the synchronous check-and-reserve; `Halt` skips what is
pending and clears the whole map; `Fail` and `Reviewed` release the task's own entry; `RunThrows`,
`RunCompletes` and `DeadlineFires` clear or forget to, as their code does: the throw of a continued
run and of a core that lost its race do not clear.

Only `llm_call` costs are recorded, after the call; reviews are recorded and were never reserved;
what failed attempts cost is not recorded. `TakeUp` leaves the graph open, `Resume` over-approximates
which tasks become pending again. One executor at a time, and a call costs no more than its estimate.

### HitlGate and the code

`status` and `latest` are the rows of `hitl_gates` (`latest` stands for the order by `decided_at`),
`marked` the gates with `recovery_attempted_at`, `flag`, `row` and `wfStatus` the task and the
workflow. `stage`, `gate` and `detached` are where the executor's promises are: `asking` polls the row
(and prompts, on the terminal channel), `prompting` is the Slack fallback that only prompts, `detached`
holds the polls a terminal answer left running. `granted`, `orphans` and `announced` are history.

A decider in the executor's process reads and writes the row in one synchronous stretch, `Decide`;
so does the actor route, whose update is conditional. The dashboard's and the MCP tool's handlers check
and then write without a condition: in another process, that is `RemoteChecks` and `RemoteWrites`.
The terminal's answer is written without a condition too. `PollLapses` needs no clock: it may happen at
any time while asking, before or after a decision nobody has read yet, which is the order the code
leaves open by looking at the deadline first.

The workflow has this one task, so its run ends with it. `ResumeInterrupted` stands for a resume from
`executing` or `paused`, `ResumeFailed` for one from `failed` without `skipFailedSteps`. The channel is chosen once: `.hitl.json` is read again at every gate, but a change of
channel between two gates shows nothing new. Cancelling a run that asks is in `WorkflowEngine`.

`HitlGate` and `WorkflowEngine` meet in the gate's outcome: `GateApproved`, `GateRefused` and
`GateLapsed` there are `stage = "released"` and the two ways to end here.

### TaskLeases and the code

`row`, `lease`, `attempt`, `left`, `quiet` and `hung` are in the database; `left` is the time until
`expires_at`, `quiet` the time since the heartbeat the tick reads. A run is one call of
`executeTaskWithRetry`: it registers its controller, marks the row, acquires the lease, beats every
`Interval` until it has been reviewed, and unregisters. `key` is the attempt in the idempotency key it
acquired, `registry` the one slot per task and process that `registerTaskController` overwrites and
`unregisterTaskController` deletes whoever is in it. `shared` is history: the current run began while
another was under way.

Runs of one task overlap, in one process or in two: a cancelled run winds down while a resume starts the
next, and a terminal may drive what the daemon drives. `Elapse` advances all clocks together and waits for
a heartbeat that is more than `Lag` overdue in a living process. The tick and the sweep belong to the daemon. The
effect of an expired lease on the rest of the workflow is `ExpireLease` in `WorkflowEngine`.

### Remediation and the code

`parent`, `child`, `halted`, `stopped` and `row` are columns; `src` says how far each source task of the
parent's one batch is; `exec` are calls of `continueWorkflowExecution` for children, with the tasks they
loaded. A child has the rows `t0` (the approval) and `fix`, one row for all its fix tasks. Several
executors may drive one child: nothing stops a resume from running beside a pickup. `toPick` is what
`pickUpPendingRemediations` has listed and not dispatched yet. `approved` is the history of consents,
`torn` of crashes between the failure of `t0` and that of its child.

A child's failure reaches its parent through `setWorkflowDone` (`db/persist.ts:254`), its completion would
through `resolveParentAfterRemediation`, which only `executeWorkflow` calls: children go through
`continueWorkflowExecution` and never reach it. That is the violation run `remediation_parent`.

Left out: children of children, fix tasks whose source row was deleted, cancels typed at the REPL, and
pauses. The content of a fix task and the scoring of the gate are data.

### Subagents and the code

One batch of adaptive tasks, which skip the gate, the lease and the cost check of ordinary ones. `at` follows
the supervisor through spawn phase, head of the loop, turns, clean-up and the mapping of outcomes;
`batch`, `todo`, `alive`, `outcome`, `iter` and `streak` are its locals. `run` holds the record of each
attempt, `from`, `open` and `got` the messages and their deliveries. `lost`, `seen` and `late` are history.

No caller in production passes `onSubagentEvent`, so a supervisor in the daemon yields to the operator's
handlers only while a turn is in flight, at the `sleep(0)` between iterations and before the batch (`Serves`);
a supervisor at a terminal runs beside the daemon and can be interrupted anywhere. Kill, steer and cancel
are served by the daemon, whose controllers are its own. `isWorkflowCancelRequested` reads the database.
`error` stands for error and timeout. `steer_instruction` is written and nothing reads it.

Only announcements have a producer; directed messages, queries and the limits on depth and children are
never reached. One supervisor at a time. The ephemeral part of a mixed batch and the resume anchors are
left out. The ceiling of ten minutes per turn is any turn that returns `error`. `MaxFaults` bounds crashes and
failed writes together.

### ProcessPool and the code

One key, that is one workspace and executor, in one daemon. A task acquires once
(`executors/cli/opencode-acp.ts`), so the task that had a process spawned names the process, its entry and
the database connection of its run. `tail` and `after` are the promise chain of `acpMutexes`; `reg`,
`closing` and `age` the registered entry; `serves` and `row` the session a task tracks; `tick`, `subject`
and `tickDb` the heartbeat tick with the connection it was started with, which the run it came from closes
(`mcp/tools/run_workflow.ts:214`). `ahead` (whom a task still has to let pass) and `strays` (living
processes whose registration was taken away) are history.

The exit handler and `expireAcpEntry` delete by key: when an expired process exits after its successor has
registered, the successor's registration goes. That is where `strays` come from: nothing in the daemon
finds them again. `Reuse` refreshes the heartbeat without having heard from the process.
A SIGKILL always kills. A stale and an archived session are both `ended`.

Left out: `startSession` and its sessions without a process, cancel notifications, pools of terminals, the
sweep's second condition (a foreign daemon that lives), reuse of process ids. The tick's period equals the
width of the window in which it probes, so a busy process may also be killed without a probe: the model
allows both.

### AcpTurns and the code

A turn is one call of `runOpencodeViaAcp` after it has acquired its client, which is where `ProcessPool` stops:
`pc` says which of its three requests it awaits. `open`, `waiting` and `heard` are `closed`, `pending` and
`notificationHandlers` of `AcpStdioClient`, `got` what is in `assistantBuffer`, counted by session. A request
that was settled leaves `reply` until its turn goes on; timers and the steps of others wait for that
(`Calm`), but further lines of one chunk of data do not. `attempt`, `aborted` and `cancelled` are what
`withTimeout`, `composeAbortSignals` and the task's controller know. An attempt that times out is over for
the retry loop while its turn goes on: two turns of one task then share the client as two tasks do.

`frames`, `chunks` and `answer` are what the pipes hold of a session; across sessions order is left open.
The agent is external: it reads in order, sends text only while it works on a prompt, names the session and
answers last, but may fail a request, never answer, go on after a cancel, or die. Its death loses what it has
not read and nothing that it wrote. `sent` is history.

Left out: requests of the agent to the client, for which no handler is installed, the runtime rows and events
of a turn, and `AcpAdapter` in the same file, which only tests create.

## 3. Runs

| Run | Question | Bounds |
|---|---|---|
| `engine_routing` | Does only the chosen branch run, is nothing built on an unreviewed output, is a completed workflow complete? | Routing instance, one attempt, no cap, retry of failed tasks, both callers; no cancel, crash or deadline |
| `engine_operator` | Does the executor implement `Schedule`, and do the safety properties survive every interleaving of operators, crashes, the deadline and lease expiry? | Sharing instance, cap 2, two attempts, everything enabled but the retry of failed tasks; fires every action (734,751 states) |
| `engine_liveness` | Do cancels, runs and resumes get where they should? | Sharing instance, cap 2, two attempts, crashes, both kinds of cancel, `FairSpec` |
| `cost_cap` | Is what is committed within the cap, is every call in flight covered, and does none leave its reservation behind? | estimates 1, 2, 1, cap 2, one `cli_spawn`, `MaxSpend` 2 |
| `hitl_gate` | Does a flag hold the task back, do gates and their timeouts stay consistent, does asking end? | two gates, all four channels, with and without automatic approval, one decider in another process |
| `task_leases` | Does a run nobody overlaps keep its lease and its controller, does the tick leave it alone, is an abandoned task noticed? | two runs in the daemon, one at a terminal; in units of 20 s: interval 1, lag 1, lease 3, threshold 3; two acquisitions, one crash |
| `remediation` | Do fix tasks wait for a consent, does a parent wait for something, do cancelled rows stay down, is an orphaned child driven? | one source task, two children, two executors, one crash, two resumes (456,915 states) |
| `subagents` | Are messages handed out at most once, do records and outcomes come out right, does a cancel stop the loop? | two tasks, three iterations, streak of two, two attempts, one message, one crash or failed write (2.9 million states) |
| `subagents_end` | Does every supervisor end? | the same with one attempt, `FairSpec` |
| `process_pool` | One spawn at a time, every living process accounted for, nobody stuck at the mutex, a hung process dropped | two tasks, one restart (309,052 states), `FairSpec` |
| `acp_turns` | Is a turn's text its own and complete, is the agent told, does anything stay, does every turn end? | one task with two attempts, one chunk per session (357,837 states), `FairSpec` |
| `remediation_parent` | expects a violation, see section 5 | the same as `remediation` |

Why the bounds are enough. Two tasks that share a file and a third that depends on one of them give every
relation the selection tests: overlap, cap, readiness, a dependency failed, skipped or cancelled. A
router needs two branches and a task that is not its child. Two attempts exercise the bound of the
retry loop; more only repeat the same loop body. The only counters are `attempt` (bounded by the code
itself) and, in `CostCap`, `spent` and `reviews`, bounded by `MaxSpend`: with a cap of 2 a recorded
cost of 2 already reaches it. No symmetry is used, since the tasks have different roles.

For gates, two is where it gets interesting: one that was decided or orphaned, and a later one of the
same task; `Gates` bounds how often the task is asked, so a run stops being explored at its third gate.
One remote decider can hold a stale check while everything else happens; a second adds only another
write of the same kind.

For leases, three runs give two that overlap in one process while a third overlaps them in another;
the second acquisition is where idempotency keys could collide. A lease of three units, the shortest the
code grants, leaves room for a heartbeat that is late by `Lag` and none for one that is lost. A child that
is resumed while another executor drives it, and a second child spawned by the retry of the source, are
what two executors and two children are for. Two subagents and three iterations give a sender and a
receiver, a streak that starts, is broken and completes, and an end by each of the three rules. In the
pool, an expiry that takes away a registration needs an old and a new entry, so two tasks are enough; the
mutex with any number of tasks is proved. For turns, two attempts give a turn that goes on beside another,
and one chunk per session is enough to lose it or to hand it to the other; any number is proved.

`CHECK_DEADLOCK FALSE` in every cfg: a workflow that has ended and completed has nothing left to do
unless a dashboard touches it. What must not stop is stated as liveness.

`CompletedMeansDone`, `UnreviewedNotConsumed` and `OnlyPickedBranchRuns` are checked without cancels
and crashes. With both they fail, for reasons listed under the hazards (a cancelled row under a
downgraded status, a crash during a review or before the routing skips); the code promises nothing
there, so these are recorded as hazards and not as violations. Which of the two each one really
excludes is what the proofs settle, in section 4.

### Fairness

`FairSpec` adds weak fairness of `ExecutorStep`, the steps of the executor's own event loop, and
nothing for operators, crashes, the deadline or the tick. The event loop runs what is ready: the gate's
poll has a deadline of ten minutes, an attempt runs under `withTimeout` with `timeout_seconds` at
least 60, backoff sleeps and the control poll end by themselves. The run
`engine_liveness` has no endless supply of new work (no task retry), but crashes and resumes remain
possible at any time.

`HitlGate`'s `FairSpec` is the same: the poll, its deadline, and the task's attempts come to an end. A
terminal, an operator and another process owe nothing. `EveryAskEnds` leaves out the Slack channel,
whose fallback prompt has no deadline: it would not hold.

`TaskLeases`: heartbeats fire and the tick comes round in a live process, the steps between two writes of
one synchronous stretch follow each other, time passes, and a dead daemon is started again. Runs, resumes
and cancels owe nothing. `AbandonedNoticed` needs the daemon only.

`Remediation`: a daemon is started again, its pickup goes through its list, and some executor goes on: the
fairness is of `\E e : ExecStep(e)`, since gates time out and attempts end, without a promise to each one.

`Subagents`: `WF_vars(SupervisorStep)`, where a turn ends by `withTimeout`. The crash of the supervisor's
process counts as an end.

`ProcessPool`: `initialize` has 15 s and a probe 2 s, the mutex is a chain of promises, the tick's
interval comes round, and a process dies of the SIGKILL that follows its SIGTERM. A process need not exit
otherwise, and a task need not ask or finish.

`AcpTurns`: settled promises are gone on with, and every request has a timer (15 s, 120 s, 5 s). The agent,
the pool and the operator owe nothing.

## 4. Proofs

`WorkflowEngine_proofs` proves, for every finite graph and every value of the other constants,
`TypeOK`, `DependenciesSettled`, `BatchAdmissible`, `ErrorRecorded`, the action properties
`CompletedWorkKept` and `HoldsHonoured`, and the refinement `KeepsSchedule`. The assumptions are
`GraphAssumption` and `LimitAssumption`; the graph need not be acyclic.

`DependenciesSettled` is not inductive: it speaks of rows, while the selection reads `done` and `mem`,
which live in memory. The strengthening `IInv` ties the two: what is in `done` has a settled row
(`DoneSettled`), a task in a batch had all its dependencies in `done` when it was selected and `done`
does not change while a batch runs (`BatchReady`), a task still pending in memory has not been
completed behind the executor's back (`PendingOpen`), a task in review has a completed row
(`CompletedInReview`), one before its review does not (`OpenBeforeReview`), a batch exists only in
phase `batch` (`BatchOnlyInPhase`), an ended run can only be continued (`EndedContinues`), a batch
fits (`BatchFits`), and an error leaves a failed workflow (`ErrorEnds`). The proof goes action by
action; actions that share a shape (the steps of one task, the ends of a run, the continuations) share
a lemma. `CompletedWorkKept` rests on `PendingOpen` and `OpenBeforeReview`: every action that
overwrites a row does so for a task whose row cannot be completed, except a failing review.

Five theorems need more than the code provides in general. Their hypotheses are on constants, and none is
there for the proof's sake: TLC finds a counterexample on the instances of `MCWorkflowEngine` as soon as one is dropped.


* `CompletedMeansDone` holds without cancels (`CancelFrom = {}`), crashes or not. With cancels,
  `CompletedLeavesNoneOpen` still holds, under no hypothesis: no task is pending, running or failed. Both
  follow from `FinishInv`: what memory no longer holds pending, outside the batch, is over in the table, or
  failed in a resumed run (`SettledRows`); from the end of the loop on, with its look at the failed rows,
  every row is over (`ClosedRows`); and nothing but the last write of a run completes it (`CompletedEnds`).
* `UnreviewedNotConsumed` holds without crashes. `ReviewedRows`: a completed row is reviewed, or its review
  is under way, and no batch ends under a review.
* `OnlyPickedBranchRuns` holds without cancels and crashes, when only failed tasks or the
  whole workflow are retried, and when what depends on a router depends on nothing else (`RoutedAlone`). That
  last one is what the comment inside `applyRoutingSkips` says of the tasks it skips ("any pending task that
  only depends on this routing task"); without it there are two counterexamples, in section 5. By
  `RoutingInv`, once the router's batch is over, a branch that was neither picked nor tried before is
  skipped (`UnpickedSkipped`), and memory knows it (`UntriedKnown`, `CompletedKnown`).
* `PickedBranchKept` holds without evaluators, and `CompletedNotFailed` without background callers: so the
  causes that section 5 names for their counterexamples are the only ones.

The refinement rests on `IInv` and on `MemoryInv`, which says how far memory and rows agree while a run is
alive: what memory holds pending outside the batch is pending in the table, or cancelled by a cancel that
still stands and will stop the next pickup (`PendingKnown`), what it holds completed is completed
(`MemCompleted`), and phase `batch` has a batch (`BatchThere`). Each action is then shown to be a step of
`Schedule` or a stutter: `SelectBatch` is `TakeUp`, the steps of one task are `Work` or `Halt`, the ends of a
batch `Settle`, what follows a run `End` or `Finish`. `Settle` is where `DoneSettled` and the skips of
the routers meet.

`CostCap_proofs` proves `TypeOK`, `InFlightReserved`, `CommittedWithinCap` and `ReleasedWithCall` for every
set of tasks, estimates and cap. The first two are inductive as they stand; the first says that a
reservation is a task's own estimate or nothing, whatever is retried. `CommittedWithinCap` compares sums
over two different sets, the reservations the check counts and the estimates of the calls under way, and
is inductive together with `InFlightReserved`. The module proves what it needs of sums itself (an empty
sum, one more summand, monotonicity in the set and in the function) by induction over the subsets of a
finite set, in the form the provers can do: a set of counterexamples would have a smallest member.

`HitlGate_proofs` proves `TypeOK` and all four safety properties of its run for every finite set of gates,
every set of channels and any number of remote deciders, and that `HitlGate` implements `Approval`. The
refinement is not inductive by itself: `working` may start from `released`, and `released` is reached
through the flag being off or a gate being approved. The invariant ties those to the history: a
decided row with a consent is in `granted` (`ConsentsGranted`), a task that was let go has a gate in
`granted` (`LetGoGranted`), the executor waits only at a gate that was opened (`WaitsAtGate`), and a
gate that was reported is marked (`ReportedMarked`), which bounds the reports (`ReportedOnce`).

`TaskLeases_proofs` proves `TypeOK`, `KeysUnique`, `SoleRunHoldsLease` and `LiveRunLeftAlone` for any
number of runs, processes and crashes, and every timing with `Interval + Lag < TTL` and
`Interval + Lag <= Stale` (`TimeAssumption`). The invariant relates the three clocks of a run that is
alone and owns the row: what is left of the lease and the time since its last beat add up to `TTL`, and the
silence the tick sees is at most that time (`SoleLease`). Keys stay at or below the attempt counter
(`KeysBelow`), and a run that began alone is still the one in the registry (`SoleRegistered`).

`Remediation_proofs` proves `TypeOK`, `FixNeedsConsent`, `NoWaitForFailed`, `WaitingParentOnly` and
`CancelledStaysDown` for any number of sources, children, executors, crashes and resumes. That a fix task
runs only after a consent says something of one executor's memory; the invariant carries the consent from
executor to executor through the rows: what works, has `t0` in `done` or loaded it without its flag has
consent (`ExecConsented`); without one, `t0` has got nowhere and the fix tasks have not started
(`RowsConsented`); and a refused `t0` is recorded in its child or about to be, so that no pickup takes its
failed row for done (`RefusalRecorded`).

`Subagents_proofs` proves `TypeOK`, `DeliveredOnce`, `RunsSettled`, `OutcomesTotal`, `CancelBoundsTurns`
and `TerminalRunFinal` for any number of tasks, iterations, attempts, messages and faults. A message that
was handed out has a delivery row, and none goes back to its sender (`MailKept`); the records of attempts to come are untouched (`RecordsFresh`); in
every phase a task of the batch is to be spawned, gets turns or has an outcome (`BatchCovered`); and a task
that had a turn after the cancel has left the round, under a cancel that stands (`LateIsOver`).

`ProcessPool_proofs` proves `TypeOK`, `SpawnsSerial` and `Accounted` for every set of tasks and any number of
restarts. The mutex is a chain in which a task waits for one predecessor only, so that the exclusion
needs the whole queue: `Queue` says that whom a task still has to let pass (`ahead`) is in the mutex,
that the predecessor it awaits is the last of them, that any two tasks in the mutex are ordered, and that
`tail` is the last of all. `Lives` says what one daemon leaves to the next and when a process is killed.

`AcpTurns_proofs` proves `TypeOK`, `TextIsOwn`, `AgentTold` and `NothingLeft` for any number of tasks, attempts
and chunks. The invariant follows a turn and its session together: the request of each place is in the pipe,
at the agent or answered, and in one of them at most (`Unprompted`, `Prompted`); while the turn waits for its
prompt, what it collected and what is on its way add up to what was sent; after the answer nothing is on its
way and the agent is quiet (`Complete`). A step touches one turn, or all of them in the same way (`Still`).

`ErrorRecorded`, `CompletedLeavesNoneOpen`, `PickedBranchKept`, `CompletedNotFailed`, `KeysUnique`,
`WaitingParentOnly` and the `TypeOK` of every module are proved and not checked by a run of their own.

Only model-checked: all liveness (`engine_liveness`, `EveryAskEnds`, `AbandonedNoticed`, `OrphanDriven`,
`SupervisorEnds`, `AcquireServed`, `HungDropped`, `TurnEnds`), which is out of the prover's reach together
with `ENABLED`. Every safety property of a passing run is a theorem.

## 5. Where code and documentation disagree

The run `remediation_parent` checks one sentence of the repository against the code and finds a
counterexample: a child that completes never resolves the parent that waits for it. The sentence is quoted
under `findings` in `PROJECT.json`.

The modules state more such properties, under "What the code does not do". No run checks them; each fails
with the cfg named here when the property is made the only INVARIANT or PROPERTY and `SPECIFICATION` is
`Spec`. *Base* is `EngineLiveness` with `MaxAttempts = 1`, `CanCrash = FALSE` and `CancelFrom = {}`. The
actions are those of the shortest counterexample, as far as they matter.

| Property | Cfg and changes | Counterexample |
|---|---|---|
| `CancelNotDowngraded` | Base, `Callers = {"background"}`, `CancelFrom = {"executor_process"}` | `CancelActive`, `QuotaBlocks`: the run throws, and the catch of the background job writes `failed` over `cancelled` (`run_workflow.ts:193`, also `lifecycle.ts:154` and `tasks.ts:206`; the loop says "Do NOT downgrade it to 'failed' here", `orchestrate.ts:728-731`, and `cancel-propagation-e2e.test.ts:25` "never 'failed'") |
| `RunEndRecorded` | Base | `SelectBatch`, `NoGate`, `Blocked`, `BatchFails`: a failure whose message contains "cancel" ends the run with the workflow still `executing` (`orchestrate.ts:94`) |
| `NoPickupAfterDeadline` | Base, `HasDeadline = TRUE` | `DeadlineFires`, `SelectBatch`: the loop that lost its race takes up the next batch (`orchestrate.ts:1004`) |
| `ResumeOutlivesCancel` | Base, `Callers = {"background"}`, `CancelFrom = {"executor_process"}` | `CancelTerminal`, `ResumeRetrying`: the resumed run is still under the old cancel (`resume.ts:182`) |
| `CompletedNotFailed` | Base, `Callers = {"background"}` | `ClosingCompletes`, `ResumeRefused`: the catch of a refused resume fails a completed workflow |
| `PickedBranchKept` | `EngineRouting`, `Evaluators = {r}` | `AttemptSucceeds`, `BatchFails`: the branch an evaluator picks is skipped with the others (`evaluator.ts:138`) |
| `OnlyPickedBranchRuns` | `EngineRouting`, `Deps <- JointDeps`: `b` depends on `r` and on `w` | `ReviewPasses` of `r`, `Blocked` of `w`, `BatchFails`, `ResumeInterrupted`, `SelectBatch`: the pass leaves `b` alone because `w` is not complete (`orchestrate.ts:168-170`); after the resume the failed `w` counts as done, `b` is ready, and no pass looks at `r` before the selection. The comment above says that every pending task that "depends directly on a completed routing task" and is not the target is skipped (`orchestrate.ts:137-141`) |
| `OnlyPickedBranchRuns` | `EngineRouting`, `Deps <- ChainDeps`: `b` depends on `r` and on its other branch `a` | `ReviewPasses` of `r`, the end of its batch, `SelectBatch`: `b` is looked at while `a` is pending and passed over; then `a` is skipped, which settles it, and `b` is ready |
| `LedgerCleared` | `CostCap`, `HasDeadline = FALSE` | `RunThrows`, `Resume`, `Admit`, `Begin`, `Abandon`, `RunThrows`: a resumed run that throws does not clear the map, and a task that throws around its attempts has not released its entry (cleared "at workflow terminal points (success / failure) so the per-process ledger cannot leak across runs", `cost-cap.ts:71-73`; only the catch of `executeWorkflow` and the normal ends do, `orchestrate.ts:1069`) |
| `SpendWithinCap` | `CostCap`, `Est <- UnitEst`, `LlmCalls = {x, y, z}`, `Cap = 1`, `ReviewCost = 0`, `FailedCost = 0`, `MaxSpend = 1` | `Admit`, `Begin`, `DeadlineFires`, `Admit`: the reservations of running calls are dropped and the next check overshoots; with `HasDeadline = FALSE` a halt at the cap does the same |
| `KillSticks` | `Subagents` | `BeginTurn`, `Kill`, `TurnReturns`, `Complete`: a task killed during its turn still completes, and the batch writes its row (`orchestrate.ts:453` against `control.ts:153-156`) |
| `DeadNotActive` | `ProcessPool` | `Register`, `Finish`, `RunEnds`, `Exits`: the exit handler's connection is closed, the session stays active ("mark every tracked session as stale", `process-pool.ts:405-406`) |
| `AbortForwarded` | `AcpTurns` | `Begin`, `TimesOut`, `Respond`, `Opened`: an abort during `session/new` reaches no listener, and the prompt goes out ("We forward the parent abort signal", `opencode-acp.ts:383`) |
| `NoChildOutlives` | `ProcessPool` | `Spawn`, `Drain`, `ForceKill`, `ExitDaemon`: a process that is being spawned is not registered, so the forced kill misses it ("guarantee no opencode child outlives the daemon", `process-pool.ts:531`) |

Met while modelling, without a property of their own: the tick reports a task as hung once ever
(`scheduler/tick.ts:51`), so a second run of it that hangs is not reported; a tick that throws may leave
`scheduleTickInFlight` set (`mcp/http-server.ts:503`); a crash between `setTaskRunning` and
`acquireTaskLease` leaves a running row nobody looks at, which is why `AbandonedNoticed` asks for a lease; the
child of a cancelled parent stays pending (`control.ts:244`) and may later complete with cancelled rows;
the batch of a parent that has just spawned a child writes `failed` over `awaiting_remediation`.

## 6. Plan

Done, in this order: `WorkflowEngine`, `CostCap`, `HitlGate` with its abstract specification,
`TaskLeases`, `Remediation`, `Subagents`, `ProcessPool`, `AcpTurns`, each with its proofs, and `Schedule`, the
abstract specification of `WorkflowEngine`.

Next:

1. Abstract specifications for further components: the mutex of the pool, a lease, the mailbox.
2. For gates: the consent a resume spends twice (`resume.ts:34-37` speaks of gates resolved "while the
   executor died"), and the tool-policy gate.
3. `FileScope` and `RetryPolicy`: `pathsOverlap` against directory containment, and the escalation of
   timeouts with the recovery budget, as operators checked over bounded inputs; rate limits and the DAG
   validator in the same way.
4. A second executor on one workflow, as `TaskLeases` and `Remediation` have it, in `WorkflowEngine`.

Runs are kept to a dozen and properties to what each is worth; a new one replaces a shallower one.

### Not modelled

Model calls and their prompts, decomposition, providers and their protocols, but for the ACP client, are outcomes a run cannot
foresee: an attempt, a review or a closing phase is an action with any outcome. The dashboard, the MCP
server, the REPL and the command line are front ends whose operations on workflows are operator actions
here; their rendering and routing keep no state of a workflow. Triggers start runs and the event broker
only reports them. Context, artifacts, vault, agents, skills and observability store data that no decision
of the modelled control flow reads. SQLite is taken as given: one statement, or one transaction, is atomic.
