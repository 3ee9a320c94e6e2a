----------------------------- MODULE TaskLeases -----------------------------
(***************************************************************************)
(* The lease of one task: acquisition, heartbeat and release by the runs   *)
(* of executeTaskWithRetry (db/task-leases.ts, brain/executor/run-task),   *)
(* the daemon's liveness tick (scheduler/tick.ts) and its startup sweep    *)
(* (cli/commands/daemon.ts), and the AbortController registry that a       *)
(* cancel goes through (v2/subagent/control.ts).                           *)
(*                                                                         *)
(* Nothing in the code keeps two executors off one task: a resume may      *)
(* start while a cancelled run is still winding down, and a terminal may   *)
(* drive a workflow the daemon drives.  Runs may therefore overlap here.   *)
(*                                                                         *)
(* Time is relative: left, quiet and beat count Elapse steps, so the       *)
(* clock itself needs no bound.                                            *)
(***************************************************************************)
EXTENDS Naturals, FiniteSets

CONSTANTS
    Runs,           \* runs of the task: calls of executeTaskWithRetry
    Processes,      \* operating system processes sharing the database
    Daemon,         \* the one with the scheduler tick and the startup sweep
    Home,           \* the process a run lives in
    Interval,       \* heartbeat interval
    Lag,            \* how late a live event loop may fire a timer
    TTL,            \* lease duration: max(timeout, 60 s)
    Stale,          \* STALE_THRESHOLD_MS
    MaxAttempts,    \* bound on acquisitions
    MaxCrashes,     \* bound on crashes
    NoRun           \* an empty slot of a registry

ASSUME RunAssumption ==
    /\ Daemon \in Processes
    /\ Home \in [Runs -> Processes]
    /\ NoRun \notin Runs

\* The heartbeat interval of 20 s leaves 40 s of the shortest lease, 60 s.
ASSUME TimeAssumption ==
    /\ Interval \in Nat \ {0}
    /\ Lag \in Nat
    /\ TTL \in Nat
    /\ Stale \in Nat
    /\ Interval + Lag < TTL
    /\ Interval + Lag <= Stale
    /\ MaxAttempts \in Nat
    /\ MaxCrashes \in Nat

VARIABLES
    row,        \* tasks.status
    lease,      \* workflow_task_leases.status, "none" without a row
    attempt,    \* workflow_task_leases.attempt
    left,       \* time until expires_at
    quiet,      \* time since heartbeat_at, as far as the tick can tell
    hung,       \* a task_hung event of this task exists
    up,         \* the daemon runs
    pc,         \* where a run is
    key,        \* the attempt in the idempotency key a run acquired
    beat,       \* time since a run's heartbeat timer last fired
    aborted,    \* the runs whose AbortController fired
    registry,   \* _controllerMap of each process, at this task
    crashes,    \* crashes so far
    shared      \* history: the current run started while another was under way

dbVars  == <<row, lease, attempt, left, quiet, hung>>
memVars == <<pc, key, beat, aborted, registry>>
vars    == <<dbVars, memVars, up, crashes, shared>>

\* ready: registered, in preDispatch; marked: the row says running and the
\* lease is not acquired yet; reviewing: completed, the heartbeat still on.
PC      == {"free", "ready", "marked", "working", "reviewing"}
Beating == {"working", "reviewing"}

TypeOK ==
    /\ row \in {"pending", "running", "completed", "failed", "cancelled"}
    /\ lease \in {"none", "running", "completed", "failed", "expired"}
    /\ attempt \in Nat
    /\ left \in 0 .. TTL
    /\ quiet \in 0 .. Stale + 1
    /\ hung \in BOOLEAN
    /\ up \in BOOLEAN
    /\ pc \in [Runs -> PC]
    /\ key \in [Runs -> Nat]
    /\ beat \in [Runs -> 0 .. Interval + Lag]
    /\ aborted \subseteq Runs
    /\ registry \in [Processes -> Runs \cup {NoRun}]
    /\ crashes \in 0 .. MaxCrashes
    /\ shared \in BOOLEAN

Init ==
    /\ row = "pending"
    /\ lease = "none"
    /\ attempt = 0
    /\ left = 0
    /\ quiet = 0
    /\ hung = FALSE
    /\ up = TRUE
    /\ pc = [r \in Runs |-> "free"]
    /\ key = [r \in Runs |-> 0]
    /\ beat = [r \in Runs |-> 0]
    /\ aborted = {}
    /\ registry = [p \in Processes |-> NoRun]
    /\ crashes = 0
    /\ shared = FALSE

Alive(p) == p = Daemon => up

\* A process in the synchronous stretch between setTaskRunning and
\* acquireTaskLease does nothing else; another process may.
Idle(p) == \A r \in Runs : Home[r] = p => pc[r] # "marked"

OthersFree(r) == \A s \in Runs \ {r} : pc[s] = "free"

----------------------------------------------------------------------------
(* Starting a run *)

\* runOne reaches the task: registerAbortController replaces what the registry
\* of the process held for this task.
Enter(r) ==
    /\ pc[r] = "free"
    /\ Alive(Home[r]) /\ Idle(Home[r])
    /\ Cardinality({s \in Runs : pc[s] \in {"ready", "marked"}}) + attempt < MaxAttempts
    /\ pc' = [pc EXCEPT ![r] = "ready"]
    /\ registry' = [registry EXCEPT ![Home[r]] = r]
    /\ aborted' = aborted \ {r}
    /\ shared' = ~OthersFree(r)
    /\ UNCHANGED <<attempt, left, quiet, hung, key, beat, up, crashes>>

\* executeWorkflow, or a continued run whose task was never started.
Begin(r) ==
    /\ row = "pending"
    /\ Enter(r)
    /\ UNCHANGED <<row, lease>>

\* prepareWorkflowForResume re-pends a failed or cancelled task,
\* continueWorkflowExecution a running one: neither asks who runs it.
Resume(r) ==
    /\ row \in {"running", "failed", "cancelled"}
    /\ Enter(r)
    /\ row' = "pending"
    /\ UNCHANGED lease

\* The dashboard's task retry refuses a running row and expires the lease.
Retry(r) ==
    /\ row # "running"
    /\ Enter(r)
    /\ row' = "pending"
    /\ lease' = IF lease = "running" THEN "expired" ELSE lease

----------------------------------------------------------------------------
(* A run *)

\* The finally of executeTaskWithRetry: the heartbeat stops, and the registry
\* forgets the task, whoever registered last.
Leave(r) ==
    /\ pc' = [pc EXCEPT ![r] = "free"]
    /\ key' = [key EXCEPT ![r] = 0]
    /\ beat' = [beat EXCEPT ![r] = 0]
    /\ aborted' = aborted \ {r}
    /\ registry' = [registry EXCEPT ![Home[r]] = NoRun]

RunFrame == UNCHANGED <<attempt, left, hung, up, crashes, shared>>

\* completeTaskLease asks neither for the owner nor for the status.
Release(status) == lease' = status /\ quiet' = 0

\* preDispatch throws before the lease; its finally is not reached either, so
\* the registry keeps the entry.  Some blocks fail the row first.
Refused(r) ==
    /\ pc[r] = "ready" /\ Idle(Home[r])
    /\ row' \in {row, "failed"}
    /\ pc' = [pc EXCEPT ![r] = "free"]
    /\ aborted' = aborted \ {r}
    /\ UNCHANGED <<lease, quiet, key, beat, registry>>
    /\ RunFrame

MarkRunning(r) ==
    /\ pc[r] = "ready" /\ Idle(Home[r])
    /\ row' = "running"
    /\ pc' = [pc EXCEPT ![r] = "marked"]
    /\ UNCHANGED <<lease, quiet, key, beat, aborted, registry>>
    /\ RunFrame

\* acquireTaskLease, one immediate transaction: whatever the lease was, it is
\* taken over under the next attempt.
Acquire(r) ==
    /\ pc[r] = "marked"
    /\ lease' = "running"
    /\ attempt' = attempt + 1
    /\ left' = TTL
    /\ quiet' = 0
    /\ pc' = [pc EXCEPT ![r] = "working"]
    /\ key' = [key EXCEPT ![r] = attempt + 1]
    /\ beat' = [beat EXCEPT ![r] = 0]
    /\ UNCHANGED <<row, hung, up, aborted, registry, crashes, shared>>

\* prepareCliSpawnIsolation throws right after the acquisition.
WorktreeFails(r) ==
    /\ pc[r] = "marked"
    /\ row' = "failed"
    /\ Release("failed")
    /\ attempt' = attempt + 1
    /\ left' = TTL
    /\ Leave(r)
    /\ UNCHANGED <<hung, up, crashes, shared>>

\* Mutant: expires_at moves, heartbeat_at does not.
Heartbeat_Silent(r) ==
    /\ pc[r] \in Beating /\ Idle(Home[r])
    /\ beat[r] >= Interval
    /\ beat' = [beat EXCEPT ![r] = 0]
    /\ left' = IF lease = "running" THEN TTL ELSE left
    /\ UNCHANGED <<row, lease, attempt, quiet, hung, up, pc, key, aborted, registry, crashes,
                   shared>>

\* The interval timer: heartbeatTaskLease renews a running lease, no matter
\* whose it is.
Heartbeat(r) ==
    /\ pc[r] \in Beating /\ Idle(Home[r])
    /\ beat[r] >= Interval
    /\ beat' = [beat EXCEPT ![r] = 0]
    /\ left' = IF lease = "running" THEN TTL ELSE left
    /\ quiet' = IF lease = "running" THEN 0 ELSE quiet
    /\ UNCHANGED <<row, lease, attempt, hung, up, pc, key, aborted, registry, crashes, shared>>

\* The head of finalizeSuccess.
Succeed(r) ==
    /\ pc[r] = "working" /\ Idle(Home[r])
    /\ r \notin aborted
    /\ row' = "completed"
    /\ Release("completed")
    /\ pc' = [pc EXCEPT ![r] = "reviewing"]
    /\ UNCHANGED <<key, beat, aborted, registry>>
    /\ RunFrame

\* The rest of it: a review or quality gate that throws fails the row, an abort
\* and a success leave it.
Reviewed(r) ==
    /\ pc[r] = "reviewing" /\ Idle(Home[r])
    /\ row' \in {row, "failed"}
    /\ Leave(r)
    /\ UNCHANGED <<lease, quiet>>
    /\ RunFrame

\* finalizeFailure.
Fail(r) ==
    /\ pc[r] = "working" /\ Idle(Home[r])
    /\ r \notin aborted
    /\ row' = "failed"
    /\ Release("failed")
    /\ Leave(r)
    /\ RunFrame

\* finalizeFailure after an abort keeps the row; a checkAborted outside it (at
\* the head of the retry loop, before_finalize_success) keeps the lease too.
AbortSettles(r) ==
    /\ pc[r] = "working" /\ Idle(Home[r])
    /\ r \in aborted
    /\ \/ Release("failed")
       \/ UNCHANGED <<lease, quiet>>
    /\ Leave(r)
    /\ UNCHANGED row
    /\ RunFrame

\* resolveTaskSecrets throws: neither the row nor the lease is written.
Throws(r) ==
    /\ pc[r] = "working" /\ Idle(Home[r])
    /\ Leave(r)
    /\ UNCHANGED <<row, lease, quiet>>
    /\ RunFrame

----------------------------------------------------------------------------
(* The operator, the daemon, time *)

\* broadcastCancelToWorkflow served by process p: it aborts what p's registry
\* holds and flips the row; a run of another process is not told.
Cancel(p) ==
    /\ Alive(p) /\ Idle(p)
    /\ row \in {"pending", "running"}
    /\ row' = "cancelled"
    /\ aborted' = aborted \cup ({registry[p]} \ {NoRun})
    /\ UNCHANGED <<lease, attempt, left, quiet, hung, up, pc, key, beat, registry,
                   crashes, shared>>

\* Mutant: only leases still running are looked at.
HungNow_RunningOnly == row = "running" /\ lease = "running" /\ quiet > Stale

\* emitTaskHungEvents, once per task, then expireTimedOutRunningTasks.
HungNow == row = "running" /\ lease # "none" /\ quiet > Stale
ExpiredNow == row = "running" /\ lease = "running" /\ left = 0

Tick ==
    /\ up /\ Idle(Daemon)
    /\ hung' = (hung \/ HungNow)
    /\ row' = IF ExpiredNow THEN "failed" ELSE row
    /\ lease' = IF ExpiredNow THEN "expired" ELSE lease
    /\ quiet' = IF ExpiredNow THEN 0 ELSE quiet
    /\ UNCHANGED <<attempt, left, memVars, up, crashes, shared>>

\* Mutant: the sweep takes every running lease for a leftover.
DaemonStart_SweepsAll ==
    /\ ~up
    /\ up' = TRUE
    /\ lease' = IF lease = "running" THEN "expired" ELSE lease
    /\ quiet' = IF lease = "running" THEN 0 ELSE quiet
    /\ UNCHANGED <<row, attempt, left, hung, memVars, crashes, shared>>

\* runStartupSweeps: recoverExpiredTaskLeases marks the lease and leaves the task.
DaemonStart ==
    /\ ~up
    /\ up' = TRUE
    /\ LET swept == lease = "running" /\ left = 0 IN
         /\ lease' = IF swept THEN "expired" ELSE lease
         /\ quiet' = IF swept THEN 0 ELSE quiet
    /\ UNCHANGED <<row, attempt, left, hung, memVars, crashes, shared>>

\* A process dies with its runs, its timers and its registry.
Crash(p) ==
    /\ Alive(p)
    /\ crashes < MaxCrashes
    /\ crashes' = crashes + 1
    /\ up' = (up /\ p # Daemon)
    /\ pc' = [r \in Runs |-> IF Home[r] = p THEN "free" ELSE pc[r]]
    /\ key' = [r \in Runs |-> IF Home[r] = p THEN 0 ELSE key[r]]
    /\ beat' = [r \in Runs |-> IF Home[r] = p THEN 0 ELSE beat[r]]
    /\ aborted' = {r \in aborted : Home[r] # p}
    /\ registry' = [registry EXCEPT ![p] = NoRun]
    /\ UNCHANGED <<dbVars, shared>>

\* Time passes unless a live run's timer is overdue by Lag.
Elapse ==
    /\ \A p \in Processes : Idle(p)
    /\ \A r \in Runs : pc[r] \in Beating => beat[r] < Interval + Lag
    /\ left' = IF left > 0 THEN left - 1 ELSE 0
    /\ quiet' = IF quiet <= Stale THEN quiet + 1 ELSE quiet
    /\ beat' = [r \in Runs |-> IF pc[r] \in Beating THEN beat[r] + 1 ELSE 0]
    /\ UNCHANGED <<row, lease, attempt, hung, up, pc, key, aborted, registry, crashes, shared>>

----------------------------------------------------------------------------

RunStep(r) ==
    \/ Begin(r) \/ Resume(r) \/ Retry(r)
    \/ Refused(r) \/ MarkRunning(r) \/ Acquire(r) \/ WorktreeFails(r) \/ Heartbeat(r)
    \/ Succeed(r) \/ Reviewed(r) \/ Fail(r) \/ AbortSettles(r) \/ Throws(r)

Next ==
    \/ \E r \in Runs : RunStep(r)
    \/ \E p \in Processes : Cancel(p) \/ Crash(p)
    \/ Tick \/ DaemonStart \/ Elapse

Spec == Init /\ [][Next]_vars

\* Timers fire, the tick's interval comes round while the daemon is up, a dead
\* daemon is started again, and a synchronous stretch goes on to its end.
FairSpec ==
    /\ Spec
    /\ \A r \in Runs : WF_vars(Acquire(r) \/ WorktreeFails(r)) /\ WF_vars(Heartbeat(r))
    /\ WF_vars(Tick) /\ WF_vars(DaemonStart) /\ WF_vars(Elapse)

----------------------------------------------------------------------------
(* Safety *)

\* Two runs under way never carry the same idempotency key, however they
\* overlap, cross processes or crash.  (acquireTaskLease's transaction.)
KeysUnique ==
    \A r, s \in Runs : r # s /\ key[r] # 0 => key[r] # key[s]

\* A run that nobody overlaps and that still owns the row holds a running,
\* unexpired lease under its own key, and a cancel served by its process can
\* reach it: neither a sweep, a restart nor a predecessor's leftovers take any
\* of it away.  (startTaskLeaseHeartbeat, recoverExpiredTaskLeases, the registry.)
SoleRunHoldsLease ==
    \A r \in Runs :
       pc[r] = "working" /\ ~shared =>
          /\ registry[Home[r]] = r
          /\ key[r] = attempt
          /\ row = "running" => lease = "running" /\ left > 0

\* The tick neither fails nor reports as hung a task whose only run is alive
\* and working.  (emitTaskHungEvents, expireTimedOutRunningTasks.)
LiveRunLeftAlone ==
    [][Tick => \A r \in Runs : pc[r] = "working" /\ ~shared =>
                                  row' = row /\ hung' = hung]_vars

----------------------------------------------------------------------------
(* Liveness *)

\* A task left running by a run that died after its acquisition is failed or
\* reported, also when a restart of the daemon has swept its lease first.
\* (expireTimedOutRunningTasks; emitTaskHungEvents for a swept lease.)
Abandoned ==
    /\ row = "running"
    /\ lease # "none"
    /\ \A r \in Runs : pc[r] = "free"

AbandonedNoticed == Abandoned ~> (row # "running" \/ hung)

=============================================================================
