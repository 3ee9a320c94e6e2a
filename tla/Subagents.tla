------------------------------ MODULE Subagents ------------------------------
(***************************************************************************)
(* Adaptive tasks: the supervisor that gives the subagents of one batch    *)
(* their turns (brain/executor/adaptive-supervisor.ts), the outcome each   *)
(* task ends with (runAdaptiveBatch in brain/executor/orchestrate.ts), the *)
(* mailbox between the subagents and their run records (v2/subagent/), and *)
(* what reaches them from outside: kill, steer, a cancel of the workflow,  *)
(* a crash, the orphan sweep of the daemon's start, a resume.              *)
(*                                                                         *)
(* The workflow has one batch of independent adaptive tasks.  The          *)
(* supervisor lives in the daemon or at a terminal; an operator's request  *)
(* is served by the daemon, between any two steps of a terminal's          *)
(* supervisor and where one of its own waits.                              *)
(***************************************************************************)
EXTENDS Naturals, FiniteSets

CONSTANTS
    NumTasks,       \* tasks of the batch, in its order
    MaxIterations,  \* adaptiveMaxIterations
    Threshold,      \* CONVERGENCE_STREAK_THRESHOLD
    MaxAttempts,    \* bound on runs of the workflow: the first and its resumes
    MaxMessages,    \* bound on announcements
    MaxFaults       \* bound on crashes and failed writes

ASSUME BoundAssumption ==
    /\ NumTasks \in Nat /\ MaxIterations \in Nat /\ Threshold \in Nat \ {0}
    /\ MaxAttempts \in Nat /\ MaxMessages \in Nat /\ MaxFaults \in Nat

Tasks    == 1 .. NumTasks
Attempts == 1 .. MaxAttempts
Messages == 1 .. MaxMessages
NoTask   == 0

VARIABLES
    row,        \* tasks.status
    wf,         \* workflows.status
    stopped,    \* the control row is canceled
    run,        \* subagent_runs.status of a task in each attempt
    from,       \* subagent_messages.from_task_id, NoTask before it is sent
    open,       \* the messages whose root row is pending
    got,        \* subagent_message_deliveries: <<message, task>>
    attempt,    \* attempts so far; the last one is the supervisor's
    at,         \* where the supervisor is, "off" without one
    where,      \* the process it lives in
    batch,      \* the tasks it was given
    todo,       \* the tasks left in the phase: to spawn, or of the snapshot
    alive,      \* the tasks that still get turns
    outcome,    \* how a task ended
    iter,       \* iteration
    streak,     \* noProgressStreak
    before,     \* aliveSizeBefore
    cut,        \* cancelled: the loop was left because of a cancel
    turn,       \* the task whose turn it is
    aborted,    \* the controller of this turn fired
    up,         \* the daemon runs
    faults,     \* crashes and failed writes so far
    lost,       \* history: attempts whose supervisor died or threw
    seen,       \* history: how often a message was handed to a turn
    late        \* history: turns of a task begun after the cancel

dbVars   == <<row, wf, stopped, run, from, open, got>>
loopVars == <<batch, todo, alive, outcome, iter, streak, before, cut, turn, aborted>>
supVars  == <<at, where, loopVars>>
history  == <<lost, seen, late>>
vars     == <<dbVars, supVars, history, attempt, up, faults>>

\* A run that is pending or running is active; error stands for error and
\* timeout, which nothing that follows tells apart.
Active  == "active"
Ended   == {"complete", "error", "killed"}
Outcome == {"none", "ok", "error", "killed"}

\* spawn: runs are registered; head: the top of the loop; next: between turns;
\* turn: one is under way; talk: it has returned and its announcements go out;
\* after: it was aborted; clean: the rest is given up; map: all have ended.
At == {"off", "spawn", "head", "next", "turn", "talk", "after", "clean", "map"}

TypeOK ==
    /\ row \in [Tasks -> {"pending", "completed", "failed", "cancelled", "skipped"}]
    /\ wf \in {"executing", "completed", "failed", "cancelled"}
    /\ stopped \in BOOLEAN
    /\ run \in [Attempts -> [Tasks -> Ended \cup {"none", Active}]]
    /\ from \in [Messages -> Tasks \cup {NoTask}]
    /\ open \subseteq Messages
    /\ got \subseteq Messages \X Tasks
    /\ attempt \in 0 .. MaxAttempts
    /\ at \in At
    /\ at = "off" => batch = {}
    /\ at # "off" => attempt > 0
    /\ where \in {"daemon", "terminal"}
    /\ batch \subseteq Tasks /\ todo \subseteq batch /\ alive \subseteq batch
    /\ outcome \in [Tasks -> Outcome]
    /\ iter \in 0 .. MaxIterations
    /\ streak \in 0 .. Threshold - 1
    /\ before \in 0 .. NumTasks
    /\ cut \in BOOLEAN
    /\ turn \in Tasks \cup {NoTask}
    /\ at \in {"next", "turn", "talk", "after"} => todo \subseteq alive
    /\ at \in {"turn", "talk"} => turn \in alive \ todo
    /\ at \notin {"turn", "talk"} => turn = NoTask
    /\ aborted \in BOOLEAN
    /\ up \in BOOLEAN
    /\ faults \in 0 .. MaxFaults
    /\ lost \subseteq Attempts
    /\ seen \in [Messages \X Tasks -> Nat]
    /\ late \in [Tasks -> Nat]

Init ==
    /\ row = [t \in Tasks |-> "pending"]
    /\ wf = "executing"
    /\ stopped = FALSE
    /\ run = [a \in Attempts |-> [t \in Tasks |-> "none"]]
    /\ from = [m \in Messages |-> NoTask]
    /\ open = {}
    /\ got = {}
    /\ attempt = 0
    /\ at = "off"
    /\ where = "daemon"
    /\ batch = {} /\ todo = {} /\ alive = {}
    /\ outcome = [t \in Tasks |-> "none"]
    /\ iter = 0 /\ streak = 0 /\ before = 0
    /\ cut = FALSE
    /\ turn = NoTask
    /\ aborted = FALSE
    /\ up = TRUE
    /\ faults = 0
    /\ lost = {}
    /\ seen = [d \in Messages \X Tasks |-> 0]
    /\ late = [t \in Tasks |-> 0]

Alive(p) == p = "daemon" => up

\* The locals of a supervisor that has come to its end.
Forget ==
    /\ at' = "off"
    /\ where' = "daemon"
    /\ batch' = {} /\ todo' = {} /\ alive' = {}
    /\ outcome' = [t \in Tasks |-> "none"]
    /\ iter' = 0 /\ streak' = 0 /\ before' = 0
    /\ cut' = FALSE
    /\ turn' = NoTask
    /\ aborted' = FALSE

\* A task comes before the others of S in the batch.
First(t, S) == t \in S /\ \A u \in S : t <= u

----------------------------------------------------------------------------
(* An attempt *)

\* What becomes of the workflow when its executor throws: the daemon's jobs
\* record a failure, the command line leaves the status as it was.
Thrown(p, status) == IF p = "daemon" THEN "failed" ELSE status

\* executeWorkflow or continueWorkflowExecution with these rows, up to its
\* batch: the first checkpoint throws under a cancel, and without pending rows
\* the workflow is over.
Drive(p, rows) ==
    LET pending == {t \in Tasks : rows[t] = "pending"} IN
    /\ at = "off" /\ Alive(p)
    /\ attempt < MaxAttempts
    /\ attempt' = attempt + 1
    /\ row' = rows
    /\ IF stopped
         THEN wf' = Thrown(p, "executing") /\ UNCHANGED <<at, where, batch, todo>>
         ELSE IF pending = {}
         THEN /\ wf' = IF \E t \in Tasks : rows[t] = "failed" THEN "failed" ELSE "completed"
              /\ UNCHANGED <<at, where, batch, todo>>
         ELSE /\ wf' = "executing"
              /\ at' = "spawn"
              /\ where' = p
              /\ batch' = pending
              /\ todo' = pending
    /\ UNCHANGED <<stopped, run, from, open, got, alive, outcome, iter, streak, before, cut,
                   turn, aborted, history, up, faults>>

Start(p) ==
    /\ attempt = 0
    /\ Drive(p, row)

\* prepareWorkflowForResume: after a failure one failed task is tried again, or
\* all of them are skipped; after a cancel every cancelled one is.
Prepared ==
    LET failed == {t \in Tasks : row[t] = "failed"} IN
    CASE wf = "failed" /\ failed # {} ->
           {[row EXCEPT ![t] = "pending"] : t \in failed}
             \cup {[t \in Tasks |-> IF t \in failed THEN "skipped" ELSE row[t]]}
      [] wf = "cancelled" ->
           {[t \in Tasks |-> IF row[t] = "cancelled" THEN "pending" ELSE row[t]]}
      [] OTHER -> {row}

Resume(p) ==
    /\ attempt > 0 /\ wf # "completed"
    /\ \E rows \in Prepared : Drive(p, rows)

----------------------------------------------------------------------------
(* The run records *)

\* Mutant: the outcome is written over whatever the record says.
Settle_Always(t, status) == run' = [run EXCEPT ![attempt][t] = status]

\* markRunComplete: a record that has ended keeps its end.
Settle(t, status) ==
    run' = IF run[attempt][t] = Active
             THEN [run EXCEPT ![attempt][t] = status] ELSE run

----------------------------------------------------------------------------
(* The supervisor *)

Runs == at # "off" /\ Alive(where)

\* runSpawnPhase for one task: registerSubagentRun may be refused.
Spawn(t) ==
    /\ Runs /\ at = "spawn" /\ First(t, todo)
    /\ todo' = todo \ {t}
    /\ at' = IF todo' = {} THEN "head" ELSE at
    /\ \/ /\ run' = [run EXCEPT ![attempt][t] = Active]
          /\ alive' = alive \cup {t}
          /\ UNCHANGED outcome
       \/ /\ outcome' = [outcome EXCEPT ![t] = "error"]
          /\ UNCHANGED <<run, alive>>
    /\ UNCHANGED <<row, wf, stopped, from, open, got, where, batch, iter, streak, before, cut,
                   turn, aborted, history, attempt, up, faults>>

\* Behind the loop: without live tasks there is nothing to clean up.
GiveUp == IF alive = {} THEN "map" ELSE "clean"

\* Mutant: the iteration is not counted.
Head_Uncounted ==
    /\ Runs /\ at = "head"
    /\ IF alive = {} \/ iter = MaxIterations
         THEN at' = GiveUp /\ UNCHANGED <<todo, before, cut>>
         ELSE IF stopped
                THEN at' = "clean" /\ cut' = TRUE /\ UNCHANGED <<todo, before>>
                ELSE /\ at' = "next"
                     /\ before' = Cardinality(alive)
                     /\ todo' = alive
                     /\ UNCHANGED cut
    /\ UNCHANGED <<dbVars, where, batch, alive, outcome, iter, streak, turn, aborted, history,
                   attempt, up, faults>>

\* Mutant: the cancel is only looked for after an aborted turn.
Head_Blind ==
    /\ Runs /\ at = "head"
    /\ IF alive = {} \/ iter = MaxIterations
         THEN at' = GiveUp /\ UNCHANGED <<todo, iter, before>>
         ELSE /\ iter' = iter + 1
              /\ at' = "next"
              /\ before' = Cardinality(alive)
              /\ todo' = alive
    /\ UNCHANGED <<dbVars, where, batch, alive, outcome, streak, cut, turn, aborted, history,
                   attempt, up, faults>>

\* The top of an iteration, with its check of the control state.
Head ==
    /\ Runs /\ at = "head"
    /\ IF alive = {} \/ iter = MaxIterations
         THEN at' = GiveUp /\ UNCHANGED <<todo, iter, before, cut>>
         ELSE /\ iter' = iter + 1
              /\ IF stopped
                   THEN at' = "clean" /\ cut' = TRUE /\ UNCHANGED <<todo, before>>
                   ELSE /\ at' = "next"
                        /\ before' = Cardinality(alive)
                        /\ todo' = alive
                        /\ UNCHANGED cut
    /\ UNCHANGED <<dbVars, where, batch, alive, outcome, streak, turn, aborted, history,
                   attempt, up, faults>>

\* What dequeueFor selects.
Inbox(t) ==
    {m \in open : from[m] # t /\ <<m, t>> \notin got}

\* Mutant: a broadcast is not noted as delivered.
Deliver_Unnoted(t) ==
    /\ seen' = [d \in Messages \X Tasks |->
                  IF d[2] = t /\ d[1] \in Inbox(t) THEN seen[d] + 1 ELSE seen[d]]
    /\ UNCHANGED got

\* dequeueFor: one transaction reads the messages and notes their delivery.
Deliver(t) ==
    /\ got' = got \cup (Inbox(t) \X {t})
    /\ seen' = [d \in Messages \X Tasks |->
                  IF d[2] = t /\ d[1] \in Inbox(t) THEN seen[d] + 1 ELSE seen[d]]

\* The inbox is drained, a controller registered and the executor called.
BeginTurn(t) ==
    /\ Runs /\ at = "next" /\ First(t, todo)
    /\ at' = "turn"
    /\ turn' = t
    /\ todo' = todo \ {t}
    /\ aborted' = FALSE
    /\ Deliver(t)
    /\ late' = IF stopped THEN [late EXCEPT ![t] = @ + 1] ELSE late
    /\ UNCHANGED <<row, wf, stopped, run, from, open, where, batch, alive, outcome, iter,
                   streak, before, cut, lost, attempt, up, faults>>

\* The executor answers; it may do so although its signal has fired.
TurnReturns ==
    /\ Runs /\ at = "turn"
    /\ at' = "talk"
    /\ aborted' = FALSE
    /\ UNCHANGED <<dbVars, where, batch, todo, alive, outcome, iter, streak, before, cut, turn,
                   history, attempt, up, faults>>

\* The task has ended: its record, its outcome, and it leaves the loop.
End(t, status, record) ==
    /\ Settle(t, record)
    /\ outcome' = [outcome EXCEPT ![t] = status]
    /\ alive' = alive \ {t}

\* The turn throws: an AbortError when it was told to stop, or a timeout or
\* anything else.
TurnFails(status) ==
    /\ Runs /\ at = "turn"
    /\ status = "killed" => aborted \/ stopped
    /\ End(turn, status, status)
    /\ at' = IF status = "killed" THEN "after" ELSE "next"
    /\ turn' = NoTask /\ aborted' = FALSE
    /\ UNCHANGED <<row, wf, stopped, from, open, got, where, batch, todo, iter, streak, before,
                   cut, history, attempt, up, faults>>

\* An aborted turn asks whether the workflow was cancelled.
AfterAbort ==
    /\ Runs /\ at = "after"
    /\ at' = IF stopped THEN "clean" ELSE "next"
    /\ cut' = stopped
    /\ UNCHANGED <<dbVars, where, batch, todo, alive, outcome, iter, streak, before, turn,
                   aborted, history, attempt, up, faults>>

\* broadcastAnnouncement, to everybody.
Announce(m) ==
    /\ Runs /\ at = "talk"
    /\ from[m] = NoTask /\ \A k \in Messages : k < m => from[k] # NoTask
    /\ from' = [from EXCEPT ![m] = turn]
    /\ open' = open \cup {m}
    /\ UNCHANGED <<row, wf, stopped, run, got, supVars, history, attempt, up, faults>>

Continue ==
    /\ Runs /\ at = "talk"
    /\ at' = "next"
    /\ turn' = NoTask
    /\ UNCHANGED <<dbVars, where, batch, todo, alive, outcome, iter, streak, before, cut,
                   aborted, history, attempt, up, faults>>

Complete ==
    /\ Runs /\ at = "talk"
    /\ End(turn, "ok", "complete")
    /\ at' = "next"
    /\ turn' = NoTask
    /\ UNCHANGED <<row, wf, stopped, from, open, got, where, batch, todo, iter, streak, before,
                   cut, aborted, history, attempt, up, faults>>

\* The convergence detector: only several subagents can be stuck together.
NewStreak ==
    IF before >= 2 /\ Cardinality(alive) = before THEN streak + 1 ELSE 0

RoundEnds ==
    /\ Runs /\ at = "next" /\ todo = {}
    /\ IF NewStreak >= Threshold
         THEN at' = "clean" /\ streak' = 0
         ELSE at' = "head" /\ streak' = NewStreak
    /\ UNCHANGED <<dbVars, where, batch, todo, alive, outcome, iter, before, cut, turn,
                   aborted, history, attempt, up, faults>>

\* Mutant: tasks given up after the last iteration get no outcome of their own.
CleanUp_CancelOnly(t) ==
    /\ Runs /\ at = "clean" /\ First(t, alive)
    /\ IF cut
         THEN End(t, "killed", "killed")
         ELSE alive' = alive \ {t} /\ UNCHANGED outcome /\ Settle(t, "error")
    /\ UNCHANGED <<row, wf, stopped, from, open, got, at, where, batch, todo, iter, streak,
                   before, cut, turn, aborted, history, attempt, up, faults>>

\* Mutant: their records are left as they are.
CleanUp_NoRecord(t) ==
    /\ Runs /\ at = "clean" /\ First(t, alive)
    /\ alive' = alive \ {t}
    /\ outcome' = [outcome EXCEPT ![t] = IF cut THEN "killed" ELSE "error"]
    /\ UNCHANGED <<dbVars, at, where, batch, todo, iter, streak,
                   before, cut, turn, aborted, history, attempt, up, faults>>

\* Phase 3, one task at a time.
CleanUp(t) ==
    /\ Runs /\ at = "clean" /\ First(t, alive)
    /\ LET status == IF cut THEN "killed" ELSE "error" IN End(t, status, status)
    /\ UNCHANGED <<row, wf, stopped, from, open, got, at, where, batch, todo, iter, streak,
                   before, cut, turn, aborted, history, attempt, up, faults>>

Cleaned ==
    /\ Runs /\ at = "clean" /\ alive = {}
    /\ at' = "map"
    /\ UNCHANGED <<dbVars, where, loopVars, history, attempt, up, faults>>

----------------------------------------------------------------------------
(* runAdaptiveBatch and the end of the run *)

\* A missing outcome counts as a success, with "(empty adaptive output)".
Succeeded(t) == outcome[t] \in {"none", "ok"}

\* The error of the first task that did not succeed decides: one that names a
\* cancel leaves the workflow's status to whoever catches it.  Without one the
\* next checkpoint throws under a cancel, and otherwise the workflow completes.
WorkflowAfter ==
    LET rejected == {t \in batch : ~Succeeded(t)} IN
    IF rejected = {}
      THEN IF stopped THEN Thrown(where, wf)
           ELSE IF \E t \in Tasks \ batch : row[t] = "failed" THEN "failed" ELSE "completed"
      ELSE IF \E t \in Tasks : First(t, rejected) /\ outcome[t] = "killed"
             THEN Thrown(where, wf) ELSE "failed"

\* setTaskCompleted and setTaskFailed do not ask what the row says.
MapOutcomes ==
    /\ Runs /\ at = "map"
    /\ row' = [t \in Tasks |-> IF t \notin batch THEN row[t]
                               ELSE IF Succeeded(t) THEN "completed" ELSE "failed"]
    /\ wf' = WorkflowAfter
    /\ Forget
    /\ UNCHANGED <<stopped, run, from, open, got, history, attempt, up, faults>>

\* A write fails for good inside the supervisor: the catch fails the batch and
\* leaves the records.
SupervisorThrows ==
    /\ Runs
    /\ faults < MaxFaults
    /\ faults' = faults + 1
    /\ row' = [t \in Tasks |-> IF t \in batch THEN "failed" ELSE row[t]]
    /\ wf' = "failed"
    /\ lost' = lost \cup {attempt}
    /\ Forget
    /\ UNCHANGED <<stopped, run, from, open, got, seen, late, attempt, up>>

----------------------------------------------------------------------------
(* The operator *)

\* The controller of a turn is found in the daemon's registry only.
Abort(T) ==
    aborted' = (aborted \/ (where = "daemon" /\ at = "turn" /\ turn \in T))

\* terminateTaskState for the tasks of T.
Terminate(T, status) ==
    /\ Abort(T)
    /\ row' = [t \in Tasks |-> IF t \in T THEN status ELSE row[t]]
    /\ run' = [a \in Attempts |-> [t \in Tasks |->
                 IF t \in T /\ run[a][t] = Active THEN "killed" ELSE run[a][t]]]
    /\ open' = {m \in open : from[m] \notin T}

\* The daemon serves a request where its own supervisor waits for something: the
\* batch for its ephemeral tasks, a turn for its executor, an iteration for its
\* sleep.  Nobody passes the event hook that the other awaits are there for.
Serves ==
    /\ up /\ attempt > 0
    /\ where = "daemon" =>
         \/ at \in {"off", "turn"}
         \/ at = "spawn" /\ todo = batch
         \/ at = "head" /\ iter > 0

OperatorFrame ==
    UNCHANGED <<from, got, at, where, batch, todo, alive, outcome, iter, streak, before, cut,
                turn, history, attempt, up, faults>>

Kill(t) ==
    /\ Serves
    /\ row[t] = "pending"
    /\ Terminate({t}, "failed")
    /\ UNCHANGED <<wf, stopped>>
    /\ OperatorFrame

\* steer_instruction is written and nobody reads it: what is left is the abort.
Steer(t) ==
    /\ Serves
    /\ row[t] = "pending"
    /\ Abort({t})
    /\ UNCHANGED dbVars
    /\ OperatorFrame

\* requestWorkflowControl; the tasks are told while the workflow executes.
Cancel ==
    /\ Serves
    /\ wf # "completed" /\ ~stopped
    /\ stopped' = TRUE
    /\ IF wf = "executing"
         THEN wf' = "cancelled" /\ Terminate({t \in Tasks : row[t] = "pending"}, "cancelled")
         ELSE UNCHANGED <<wf, row, run, open, aborted>>
    /\ OperatorFrame

----------------------------------------------------------------------------
(* Crashes *)

Crash(p) ==
    /\ IF p = "daemon" THEN up ELSE at # "off" /\ where = p
    /\ faults < MaxFaults
    /\ faults' = faults + 1
    /\ up' = (up /\ p # "daemon")
    /\ IF at # "off" /\ where = p
         THEN Forget /\ lost' = lost \cup {attempt}
         ELSE UNCHANGED <<supVars, lost>>
    /\ UNCHANGED <<dbVars, seen, late, attempt>>

\* sweepOrphans: records that are active for more than ten minutes get an
\* error, whoever works on them.
DaemonStart ==
    /\ ~up
    /\ up' = TRUE
    /\ \E old \in SUBSET {x \in Attempts \X Tasks : run[x[1]][x[2]] = Active} :
         run' = [a \in Attempts |-> [t \in Tasks |->
                   IF <<a, t>> \in old THEN "error" ELSE run[a][t]]]
    /\ UNCHANGED <<row, wf, stopped, from, open, got, supVars, history, attempt, faults>>

----------------------------------------------------------------------------

SupervisorStep ==
    \/ \E t \in Tasks : Spawn(t) \/ BeginTurn(t) \/ CleanUp(t)
    \/ Head \/ TurnReturns \/ AfterAbort \/ Continue \/ Complete \/ RoundEnds
    \/ Cleaned \/ MapOutcomes
    \/ \E s \in {"error", "killed"} : TurnFails(s)

Next ==
    \/ SupervisorStep
    \/ \E m \in Messages : Announce(m)
    \/ SupervisorThrows
    \/ \E p \in {"daemon", "terminal"} : Start(p) \/ Resume(p) \/ Crash(p)
    \/ \E t \in Tasks : Kill(t) \/ Steer(t)
    \/ Cancel \/ DaemonStart

Spec == Init /\ [][Next]_vars

\* A live supervisor goes on: withTimeout ends a turn that its executor does not.
FairSpec == Spec /\ WF_vars(SupervisorStep)

----------------------------------------------------------------------------
(* Safety *)

\* No subagent is handed an announcement twice, nor its own, over retries,
\* crashes between two turns and cancelled senders.  (dequeueFor.)
DeliveredOnce ==
    \A m \in Messages, t \in Tasks :
        seen[<<m, t>>] <= (IF from[m] = t THEN 0 ELSE 1)

\* Once an attempt is over, no record of it still claims to run, unless its
\* process died or its supervisor threw: the sweep has nothing else to find.
\* (processOneTurn, phase 3, markRunComplete.)
RunsSettled ==
    \A a \in Attempts, t \in Tasks :
        run[a][t] = Active => a \in lost \/ (a = attempt /\ at # "off" /\ t \in alive)

\* When the outcomes are mapped every task of the batch has one: none is
\* completed with an empty output because its outcome is missing.
\* (runAdaptiveBatch, the three phases of the supervisor.)
OutcomesTotal ==
    at = "map" => \A t \in batch : outcome[t] # "none"

\* After a cancel a subagent gets at most the turn of the iteration that was
\* under way: the loop does not go on to its last iteration.
\* (isWorkflowCancelRequested at the top of the loop.)
CancelBoundsTurns == \A t \in Tasks : late[t] <= 1

\* The end of a run record is final, whichever of the supervisor, a kill, a
\* cancel and a sweep comes first.  (markRunComplete, recoverOrphan.)
TerminalRunFinal ==
    [][\A a \in Attempts, t \in Tasks :
          run[a][t] \in Ended => run'[a][t] = run[a][t]]_vars

----------------------------------------------------------------------------
(* Liveness *)

\* However its subagents ask for more turns, a supervisor comes to its end or
\* dies with its process.  (maxIterations, the convergence detector, withTimeout.)
SupervisorEnds == (at # "off") ~> (at = "off")

----------------------------------------------------------------------------
(* What the code does not do *)

\* A task that is killed before its subagent has completed is not completed
\* afterwards: nothing of it feeds what comes next.  (kill in control.ts.)
KillSticks ==
    [][\A t \in Tasks : row[t] = "failed" /\ outcome[t] = "none" => outcome'[t] # "ok"]_vars

=============================================================================
