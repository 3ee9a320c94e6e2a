-------------------------- MODULE Subagents_proofs --------------------------
(***************************************************************************)
(* What holds of the mailbox, the run records and the supervisor for any   *)
(* number of tasks, iterations, attempts and messages.  SupervisorEnds is  *)
(* a liveness property and stays with TLC.                                 *)
(*                                                                         *)
(* The four parts of the strengthening touch disjoint variables for the    *)
(* most part, so each has a lemma of its own.                              *)
(***************************************************************************)
EXTENDS Subagents, TLAPS, FiniteSetTheorems

\* What was handed out is what the delivery rows say, and only messages that
\* were sent, to others than their sender, are in either.
MailKept ==
    /\ \A m \in Messages, t \in Tasks : seen[<<m, t>>] = IF <<m, t>> \in got THEN 1 ELSE 0
    /\ \A m \in Messages, t \in Tasks : <<m, t>> \in got => from[m] # t /\ from[m] # NoTask
    /\ \A m \in open : from[m] # NoTask

\* No attempt to come has a record, nor has a task that is still to be spawned.
RecordsFresh ==
    /\ \A a \in Attempts, t \in Tasks : a > attempt => run[a][t] = "none"
    /\ at = "spawn" => \A t \in todo : run[attempt][t] = "none"

\* A task of the batch is to be spawned, gets turns, or has ended.
BatchCovered ==
    /\ at # "off" => \A t \in batch :
                        t \in alive \/ outcome[t] # "none" \/ (at = "spawn" /\ t \in todo)
    /\ at = "map" => alive = {}

\* A turn after the cancel is the last one of its task: it has left the round.
LateIsOver ==
    \A t \in Tasks : late[t] > 0 => /\ late[t] = 1
                                    /\ stopped
                                    /\ t \notin todo
                                    /\ at # "spawn"

IInv == TypeOK /\ MailKept /\ RunsSettled /\ RecordsFresh /\ BatchCovered /\ LateIsOver

----------------------------------------------------------------------------

\* The number of tasks bounds a part of the batch.
LEMMA AliveCounts ==
    ASSUME TypeOK
    PROVE  Cardinality(alive) \in 0 .. NumTasks
<1>1. IsFiniteSet(Tasks) /\ Cardinality(Tasks) = NumTasks
  <2>1. IsFiniteSet(1 .. NumTasks)
        /\ Cardinality(1 .. NumTasks) = IF 1 > NumTasks THEN 0 ELSE NumTasks - 1 + 1
    BY FS_Interval, BoundAssumption
  <2> QED
    BY <2>1, BoundAssumption DEF Tasks
<1>2. alive \in SUBSET Tasks
  BY DEF TypeOK
<1>3. IsFiniteSet(alive) /\ Cardinality(alive) <= Cardinality(Tasks)
  BY <1>1, <1>2, FS_Subset
<1>4. Cardinality(alive) \in Nat
  BY <1>3, FS_CardinalityType
<1> QED
  BY <1>1, <1>3, <1>4, BoundAssumption

\* The attempt under way is one of the attempts.
LEMMA AttemptUnderWay ==
    ASSUME TypeOK, at # "off"
    PROVE  attempt \in Attempts
BY BoundAssumption DEF TypeOK, Attempts

LEMMA InitHolds == Init => IInv
<1> SUFFICES ASSUME Init
             PROVE  IInv
  OBVIOUS
<1> USE DEF Init
<1>1. TypeOK
  <2>1. /\ iter \in 0 .. MaxIterations /\ streak \in 0 .. Threshold - 1
        /\ before \in 0 .. NumTasks /\ attempt \in 0 .. MaxAttempts
        /\ faults \in 0 .. MaxFaults
    BY BoundAssumption
  <2>2. at \in At /\ outcome \in [Tasks -> Outcome]
        /\ run \in [Attempts -> [Tasks -> Ended \cup {"none", Active}]]
    BY DEF At, Outcome
  <2>3. seen \in [Messages \X Tasks -> Nat] /\ late \in [Tasks -> Nat]
    OBVIOUS
  <2> QED
    BY <2>1, <2>2, <2>3 DEF TypeOK
<1>2. MailKept
  <2>1. \A m \in Messages, t \in Tasks : seen[<<m, t>>] = 0
    OBVIOUS
  <2> QED
    BY <2>1 DEF MailKept
<1>3. RunsSettled /\ RecordsFresh
  BY DEF RunsSettled, RecordsFresh, Active
<1>4. BatchCovered
  BY DEF BatchCovered
<1>5. LateIsOver
  <2>1. \A t \in Tasks : late[t] = 0
    OBVIOUS
  <2> QED
    BY <2>1 DEF LateIsOver
<1> QED
  BY <1>1, <1>2, <1>3, <1>4, <1>5 DEF IInv

----------------------------------------------------------------------------
(* Types *)

\* What Forget leaves is well typed.
LEMMA ForgetTypes ==
    ASSUME Forget
    PROVE  /\ at' \in At /\ at' = "off" /\ where' \in {"daemon", "terminal"}
           /\ batch' \subseteq Tasks /\ todo' \subseteq batch' /\ alive' \subseteq batch'
           /\ outcome' \in [Tasks -> Outcome]
           /\ iter' \in 0 .. MaxIterations
           /\ streak' \in 0 .. Threshold - 1
           /\ before' \in 0 .. NumTasks
           /\ cut' \in BOOLEAN
           /\ turn' = NoTask
           /\ aborted' \in BOOLEAN
<1>1. /\ iter' \in 0 .. MaxIterations
      /\ streak' \in 0 .. Threshold - 1
      /\ before' \in 0 .. NumTasks
  BY BoundAssumption DEF Forget
<1>2. outcome' \in [Tasks -> Outcome]
  BY DEF Forget, Outcome
<1>3. at' \in At
  BY DEF Forget, At
<1> QED
  BY <1>1, <1>2, <1>3 DEF Forget

\* A task of the batch leaves the loop.
LEMMA EndTypes ==
    ASSUME TypeOK, at # "off", NEW t \in Tasks, NEW s \in Outcome, NEW e \in Ended, End(t, s, e)
    PROVE  /\ run' \in [Attempts -> [Tasks -> Ended \cup {"none", Active}]]
           /\ outcome' \in [Tasks -> Outcome]
           /\ alive' \subseteq batch
<1>1. attempt \in Attempts
  BY AttemptUnderWay
<1>2. run \in [Attempts -> [Tasks -> Ended \cup {"none", Active}]]
  BY DEF TypeOK
<1>3. [run EXCEPT ![attempt][t] = e] \in [Attempts -> [Tasks -> Ended \cup {"none", Active}]]
  BY <1>1, <1>2
<1>4. outcome' \in [Tasks -> Outcome] /\ alive' \subseteq batch
  BY DEF TypeOK, End
<1> QED
  BY <1>2, <1>3, <1>4 DEF End, Settle

LEMMA DriveTypes ==
    ASSUME TypeOK, NEW p \in {"daemon", "terminal"},
           NEW rows \in [Tasks -> {"pending", "completed", "failed", "cancelled", "skipped"}],
           Drive(p, rows)
    PROVE  TypeOK'
<1> DEFINE pending == {t \in Tasks : rows[t] = "pending"}
<1>1. attempt' \in 0 .. MaxAttempts /\ attempt' > 0
  BY BoundAssumption DEF TypeOK, Drive
<1>2. row' \in [Tasks -> {"pending", "completed", "failed", "cancelled", "skipped"}]
  BY DEF Drive
<1>3. UNCHANGED <<stopped, run, from, open, got, alive, outcome, iter, streak, before, cut,
                  turn, aborted, history, up, faults>>
  BY DEF Drive
<1>4. CASE stopped \/ pending = {}
  <2>1. UNCHANGED <<at, where, batch, todo>>
    BY <1>4 DEF Drive
  <2>2. wf' \in {"executing", "completed", "failed", "cancelled"}
    BY <1>4 DEF Drive, Thrown
  <2> QED
    BY <1>1, <1>2, <1>3, <2>1, <2>2 DEF TypeOK, history
<1>5. CASE ~stopped /\ pending # {}
  <2>1. /\ at' = "spawn" /\ wf' = "executing" /\ where' = p
        /\ batch' = pending /\ todo' = pending
    BY <1>5 DEF Drive
  <2>2. alive = {}
    BY DEF TypeOK, Drive
  <2> QED
    BY <1>1, <1>2, <1>3, <2>1, <2>2 DEF TypeOK, Drive, At, history
<1> QED
  BY <1>4, <1>5

\* The rows a resume may start from are rows.
LEMMA PreparedTypes ==
    ASSUME TypeOK, NEW rows \in Prepared
    PROVE  rows \in [Tasks -> {"pending", "completed", "failed", "cancelled", "skipped"}]
<1> DEFINE failed == {t \in Tasks : row[t] = "failed"}
<1>1. row \in [Tasks -> {"pending", "completed", "failed", "cancelled", "skipped"}]
  BY DEF TypeOK
<1>2. CASE wf = "failed" /\ failed # {}
  <2>1. rows \in {[row EXCEPT ![t] = "pending"] : t \in failed}
                \cup {[t \in Tasks |-> IF t \in failed THEN "skipped" ELSE row[t]]}
    BY <1>2 DEF Prepared
  <2> QED
    BY <1>1, <2>1
<1>3. CASE wf = "cancelled"
  <2>1. rows = [t \in Tasks |-> IF row[t] = "cancelled" THEN "pending" ELSE row[t]]
    BY <1>3 DEF Prepared
  <2> QED
    BY <1>1, <2>1
<1>4. CASE wf # "cancelled" /\ ~(wf = "failed" /\ failed # {})
  BY <1>1, <1>4 DEF Prepared
<1> QED
  BY <1>2, <1>3, <1>4

\* A request of the operator keeps the types of what Terminate writes.
LEMMA TerminateTypes ==
    ASSUME TypeOK, NEW T \in SUBSET Tasks, NEW s \in {"failed", "cancelled"}, Terminate(T, s)
    PROVE  /\ row' \in [Tasks -> {"pending", "completed", "failed", "cancelled", "skipped"}]
           /\ run' \in [Attempts -> [Tasks -> Ended \cup {"none", Active}]]
           /\ open' \subseteq Messages
           /\ aborted' \in BOOLEAN
<1>1. row' \in [Tasks -> {"pending", "completed", "failed", "cancelled", "skipped"}]
  BY DEF TypeOK, Terminate
<1>2. run' \in [Attempts -> [Tasks -> Ended \cup {"none", Active}]]
  BY DEF TypeOK, Terminate, Ended
<1>3. open' \subseteq Messages
  BY DEF TypeOK, Terminate
<1>4. aborted' \in BOOLEAN
  BY DEF TypeOK, Terminate, Abort
<1> QED
  BY <1>1, <1>2, <1>3, <1>4

LEMMA TypeStep == TypeOK /\ [Next]_vars => TypeOK'
<1> SUFFICES ASSUME TypeOK, [Next]_vars
             PROVE  TypeOK'
  OBVIOUS
<1> USE DEF dbVars, loopVars, supVars, history
<1>1. ASSUME NEW t \in Tasks, Spawn(t)
      PROVE  TypeOK'
  <2>1. attempt \in Attempts
    BY <1>1, AttemptUnderWay DEF Spawn, Runs
  <2>2. [run EXCEPT ![attempt][t] = Active] \in [Attempts -> [Tasks -> Ended \cup {"none", Active}]]
    BY <2>1 DEF TypeOK
  <2>3. run' \in [Attempts -> [Tasks -> Ended \cup {"none", Active}]]
    BY <1>1, <2>2 DEF Spawn, TypeOK
  <2>4. outcome' \in [Tasks -> Outcome]
    BY <1>1 DEF Spawn, TypeOK, Outcome
  <2>5. /\ t \in batch
        /\ todo' \subseteq batch
        /\ alive' \subseteq batch
        /\ at' \in {"spawn", "head"}
    BY <1>1 DEF Spawn, TypeOK, First
  <2> QED
    BY <1>1, <2>3, <2>4, <2>5 DEF TypeOK, Spawn, At
<1>2. ASSUME NEW t \in Tasks, BeginTurn(t)
      PROVE  TypeOK'
  <2>1. got' \subseteq Messages \X Tasks
    BY <1>2 DEF TypeOK, BeginTurn, Deliver, Inbox
  <2>2. seen' \in [Messages \X Tasks -> Nat]
    BY <1>2 DEF TypeOK, BeginTurn, Deliver
  <2>3. late' \in [Tasks -> Nat]
    BY <1>2 DEF TypeOK, BeginTurn
  <2>4. t \in alive
    BY <1>2 DEF TypeOK, BeginTurn, First
  <2>5. todo' \subseteq batch
    BY <1>2 DEF TypeOK, BeginTurn
  <2> QED
    BY <1>2, <2>1, <2>2, <2>3, <2>4, <2>5 DEF TypeOK, BeginTurn, At
<1>3. ASSUME NEW t \in Tasks, CleanUp(t)
      PROVE  TypeOK'
  <2>1. PICK s \in {"killed", "error"} : End(t, s, s)
    BY <1>3 DEF CleanUp
  <2>2. /\ run' \in [Attempts -> [Tasks -> Ended \cup {"none", Active}]]
        /\ outcome' \in [Tasks -> Outcome]
        /\ alive' \subseteq batch
    BY <1>3, <2>1, EndTypes DEF CleanUp, Ended, Outcome
  <2> QED
    BY <1>3, <2>2 DEF TypeOK, CleanUp
<1>4. CASE Head
  <2>1. at' \in {"map", "clean", "next"}
    BY <1>4 DEF Head, GiveUp
  <2>4. todo' \subseteq batch
    BY <1>4 DEF TypeOK, Head
  <2>5. cut' \in BOOLEAN
    BY <1>4, Zenon DEF TypeOK, Head
  <2>6. at' = "next" => todo' = alive
    BY <1>4 DEF Head, GiveUp
  <2>2. iter' \in 0 .. MaxIterations
    BY <1>4, BoundAssumption DEF TypeOK, Head
  <2>3. before' \in 0 .. NumTasks
    BY <1>4, AliveCounts DEF TypeOK, Head
  <2> QED
    BY <1>4, <2>1, <2>2, <2>3, <2>4, <2>5, <2>6 DEF TypeOK, Head, At
<1>5. CASE TurnReturns
  BY <1>5 DEF TypeOK, TurnReturns, At
<1>6. CASE AfterAbort
  BY <1>6 DEF TypeOK, AfterAbort, At
<1>7. CASE Continue
  BY <1>7 DEF TypeOK, Continue, At
<1>8. CASE Complete
  <2>1. turn \in Tasks
    BY <1>8 DEF TypeOK, Complete
  <2>2. /\ run' \in [Attempts -> [Tasks -> Ended \cup {"none", Active}]]
        /\ outcome' \in [Tasks -> Outcome]
        /\ alive' \subseteq batch
    BY <1>8, <2>1, EndTypes DEF Complete, Ended, Outcome
  <2>3. todo' \subseteq alive' /\ at' \in {"next", "after"} /\ turn' = NoTask
    BY <1>8 DEF TypeOK, Complete, End
  <2> QED
    BY <1>8, <2>2, <2>3 DEF TypeOK, Complete, At
<1>9. CASE RoundEnds
  <2>1. NewStreak \in Nat
    BY DEF TypeOK, NewStreak
  <2>2. streak' \in 0 .. Threshold - 1
    BY <1>9, <2>1, BoundAssumption DEF RoundEnds
  <2>3. at' \in {"clean", "head"}
    BY <1>9 DEF RoundEnds
  <2> QED
    BY <1>9, <2>2, <2>3 DEF TypeOK, RoundEnds, At
<1>10. CASE Cleaned
  BY <1>10 DEF TypeOK, Cleaned, At
<1>11. CASE MapOutcomes
  <2>1. row' \in [Tasks -> {"pending", "completed", "failed", "cancelled", "skipped"}]
    BY <1>11 DEF TypeOK, MapOutcomes
  <2>2. wf' \in {"executing", "completed", "failed", "cancelled"}
    BY <1>11 DEF TypeOK, MapOutcomes, WorkflowAfter, Thrown
  <2> QED
    BY <1>11, <2>1, <2>2, ForgetTypes DEF TypeOK, MapOutcomes, Forget
<1>12. ASSUME NEW s \in {"error", "killed"}, TurnFails(s)
       PROVE  TypeOK'
  <2>1. turn \in Tasks
    BY <1>12 DEF TypeOK, TurnFails
  <2>2. /\ run' \in [Attempts -> [Tasks -> Ended \cup {"none", Active}]]
        /\ outcome' \in [Tasks -> Outcome]
        /\ alive' \subseteq batch
    BY <1>12, <2>1, EndTypes DEF TurnFails, Ended, Outcome
  <2>3. todo' \subseteq alive' /\ at' \in {"next", "after"} /\ turn' = NoTask
    BY <1>12 DEF TypeOK, TurnFails, End
  <2> QED
    BY <1>12, <2>2, <2>3 DEF TypeOK, TurnFails, At
<1>13. ASSUME NEW m \in Messages, Announce(m)
       PROVE  TypeOK'
  <2>1. from' \in [Messages -> Tasks \cup {NoTask}] /\ open' \subseteq Messages
    BY <1>13 DEF TypeOK, Announce
  <2> QED
    BY <1>13, <2>1 DEF TypeOK, Announce
<1>14. CASE SupervisorThrows
  <2>1. row' \in [Tasks -> {"pending", "completed", "failed", "cancelled", "skipped"}]
    BY <1>14 DEF TypeOK, SupervisorThrows
  <2>2. lost' \subseteq Attempts
    BY <1>14, AttemptUnderWay DEF TypeOK, SupervisorThrows, Runs
  <2>3. faults' \in 0 .. MaxFaults
    BY <1>14, BoundAssumption DEF TypeOK, SupervisorThrows
  <2> QED
    BY <1>14, <2>1, <2>2, <2>3, ForgetTypes DEF TypeOK, SupervisorThrows, Forget
<1>15. ASSUME NEW p \in {"daemon", "terminal"}, Start(p)
       PROVE  TypeOK'
  BY <1>15, DriveTypes DEF TypeOK, Start
<1>16. ASSUME NEW p \in {"daemon", "terminal"}, Resume(p)
       PROVE  TypeOK'
  BY <1>16, DriveTypes, PreparedTypes DEF Resume
<1>17. ASSUME NEW p \in {"daemon", "terminal"}, Crash(p)
       PROVE  TypeOK'
  <2>1. faults' \in 0 .. MaxFaults /\ up' \in BOOLEAN
    BY <1>17, BoundAssumption DEF TypeOK, Crash
  <2>2. CASE at # "off" /\ where = p
    <3>1. Forget /\ lost' \subseteq Attempts
      BY <1>17, <2>2, AttemptUnderWay DEF TypeOK, Crash
    <3> QED
      BY <1>17, <2>1, <3>1, ForgetTypes DEF TypeOK, Crash, Forget
  <2>3. CASE ~(at # "off" /\ where = p)
    BY <1>17, <2>1, <2>3 DEF TypeOK, Crash
  <2> QED
    BY <2>2, <2>3
<1>18. ASSUME NEW t \in Tasks, Kill(t)
       PROVE  TypeOK'
  <2>1. Terminate({t}, "failed") /\ {t} \in SUBSET Tasks
    BY <1>18 DEF Kill
  <2> QED
    BY <1>18, <2>1, TerminateTypes DEF TypeOK, Kill, OperatorFrame
<1>19. ASSUME NEW t \in Tasks, Steer(t)
       PROVE  TypeOK'
  BY <1>19 DEF TypeOK, Steer, Abort, OperatorFrame
<1>20. CASE Cancel
  <2>1. CASE wf = "executing"
    <3>1. Terminate({t \in Tasks : row[t] = "pending"}, "cancelled")
          /\ {t \in Tasks : row[t] = "pending"} \in SUBSET Tasks
      BY <1>20, <2>1 DEF Cancel
    <3> QED
      BY <1>20, <2>1, <3>1, TerminateTypes DEF TypeOK, Cancel, OperatorFrame
  <2>2. CASE wf # "executing"
    BY <1>20, <2>2 DEF TypeOK, Cancel, OperatorFrame
  <2> QED
    BY <2>1, <2>2
<1>21. CASE DaemonStart
  <2>1. run' \in [Attempts -> [Tasks -> Ended \cup {"none", Active}]]
    BY <1>21 DEF TypeOK, DaemonStart, Ended
  <2> QED
    BY <1>21, <2>1 DEF TypeOK, DaemonStart
<1>22. CASE UNCHANGED vars
  BY <1>22 DEF TypeOK, vars
<1> QED
  BY <1>1, <1>2, <1>3, <1>4, <1>5, <1>6, <1>7, <1>8, <1>9, <1>10, <1>11, <1>12, <1>13, <1>14,
     <1>15, <1>16, <1>17, <1>18, <1>19, <1>20, <1>21, <1>22 DEF Next, SupervisorStep

----------------------------------------------------------------------------
(* The mailbox *)

LEMMA MailStep == TypeOK /\ MailKept /\ [Next]_vars => MailKept'
<1> SUFFICES ASSUME TypeOK, MailKept, [Next]_vars
             PROVE  MailKept'
  OBVIOUS
<1>1. ASSUME NEW t \in Tasks, BeginTurn(t)
      PROVE  MailKept'
  <2>1. got' = got \cup (Inbox(t) \X {t}) /\ UNCHANGED <<from, open>>
    BY <1>1 DEF BeginTurn, Deliver
  <2>2. ASSUME NEW m \in Messages, NEW u \in Tasks
        PROVE  seen'[<<m, u>>] = IF <<m, u>> \in got' THEN 1 ELSE 0
    <3>1. seen'[<<m, u>>] = IF u = t /\ m \in Inbox(t) THEN seen[<<m, u>>] + 1
                                                     ELSE seen[<<m, u>>]
      BY <1>1 DEF BeginTurn, Deliver
    <3>2. CASE u = t /\ m \in Inbox(t)
      <4>1. <<m, u>> \notin got /\ <<m, u>> \in got'
        BY <3>2, <2>1 DEF Inbox
      <4>2. seen[<<m, u>>] = 0
        BY <4>1 DEF MailKept
      <4> QED
        BY <3>1, <3>2, <4>1, <4>2
    <3>3. CASE ~(u = t /\ m \in Inbox(t))
      BY <3>1, <3>3, <2>1 DEF MailKept
    <3> QED
      BY <3>2, <3>3
  <2>3. ASSUME NEW m \in Messages, NEW u \in Tasks, <<m, u>> \in got'
        PROVE  from'[m] # u /\ from'[m] # NoTask
    BY <2>1, <2>3 DEF MailKept, Inbox
  <2> QED
    BY <2>1, <2>2, <2>3 DEF MailKept
<1>2. ASSUME NEW m \in Messages, Announce(m)
      PROVE  MailKept'
  <2>1. turn \in Tasks /\ turn # NoTask
    BY <1>2, BoundAssumption DEF TypeOK, Announce, Tasks, NoTask
  <2>2. from[m] = NoTask /\ from' = [from EXCEPT ![m] = turn] /\ open' = open \cup {m}
        /\ UNCHANGED <<got, seen>>
    BY <1>2 DEF Announce, history
  <2>3. \A k \in Messages : from'[k] = IF k = m THEN turn ELSE from[k]
    BY <2>2 DEF TypeOK
  <2> QED
    BY <2>1, <2>2, <2>3 DEF TypeOK, MailKept
<1>3. ASSUME open' \subseteq open, UNCHANGED <<from, got, seen>>
      PROVE  MailKept'
  BY <1>3 DEF MailKept
<1>4. ASSUME NEW t \in Tasks, Kill(t) \/ Steer(t)
      PROVE  MailKept'
  BY <1>3, <1>4 DEF Kill, Steer, Terminate, OperatorFrame, dbVars, history
<1>5. CASE Cancel
  BY <1>3, <1>5 DEF Cancel, Terminate, OperatorFrame, history
<1>6. ASSUME NEW t \in Tasks, Spawn(t) \/ CleanUp(t)
      PROVE  MailKept'
  BY <1>3, <1>6 DEF Spawn, CleanUp, history
<1>7. CASE Head \/ TurnReturns \/ AfterAbort \/ Continue \/ Complete \/ RoundEnds \/ Cleaned
  BY <1>3, <1>7 DEF Head, TurnReturns, AfterAbort, Continue, Complete, RoundEnds, Cleaned,
                    dbVars, history
<1>8. CASE MapOutcomes \/ SupervisorThrows \/ DaemonStart
  BY <1>3, <1>8 DEF MapOutcomes, SupervisorThrows, DaemonStart, history
<1>9. ASSUME NEW s \in {"error", "killed"}, TurnFails(s)
      PROVE  MailKept'
  BY <1>3, <1>9 DEF TurnFails, history
<1>10. ASSUME NEW p \in {"daemon", "terminal"}, Start(p) \/ Resume(p) \/ Crash(p)
       PROVE  MailKept'
  BY <1>3, <1>10 DEF Start, Resume, Drive, Crash, dbVars, history
<1>11. CASE UNCHANGED vars
  BY <1>3, <1>11 DEF vars, dbVars, history
<1> QED
  BY <1>1, <1>2, <1>4, <1>5, <1>6, <1>7, <1>8, <1>9, <1>10, <1>11 DEF Next, SupervisorStep

----------------------------------------------------------------------------
(* The outcomes *)

LEMMA BatchStep == TypeOK /\ BatchCovered /\ [Next]_vars => BatchCovered'
<1> SUFFICES ASSUME TypeOK, BatchCovered, [Next]_vars
             PROVE  BatchCovered'
  OBVIOUS
<1>1. ASSUME NEW t \in Tasks, Spawn(t)
      PROVE  BatchCovered'
  <2>1. \A u \in Tasks : outcome[u] # "none" => outcome'[u] # "none"
    BY <1>1 DEF TypeOK, Spawn
  <2>2. t \in alive' \/ outcome'[t] # "none"
    BY <1>1 DEF TypeOK, Spawn
  <2>3. /\ at = "spawn" /\ batch' = batch /\ alive \subseteq alive'
        /\ todo' = todo \ {t}
        /\ at' = IF todo' = {} THEN "head" ELSE "spawn"
    BY <1>1 DEF Spawn
  <2> QED
    BY <2>1, <2>2, <2>3 DEF TypeOK, BatchCovered
<1>2. ASSUME NEW t \in Tasks, NEW s \in Outcome \ {"none"}, NEW e \in Ended, End(t, s, e),
             at # "off", at # "spawn", at # "map", at' # "map", batch' = batch
      PROVE  BatchCovered'
  <2>1. outcome'[t] # "none" /\ \A u \in Tasks \ {t} : outcome'[u] = outcome[u]
    BY <1>2 DEF TypeOK, End
  <2>2. alive' = alive \ {t}
    BY <1>2 DEF End
  <2> QED
    BY <1>2, <2>1, <2>2 DEF TypeOK, BatchCovered
<1>3. ASSUME NEW t \in Tasks, CleanUp(t)
      PROVE  BatchCovered'
  <2>1. PICK s \in {"killed", "error"} : End(t, s, s)
    BY <1>3 DEF CleanUp
  <2> QED
    BY <1>2, <1>3, <2>1 DEF CleanUp, Outcome, Ended
<1>4. CASE Complete
  <2>1. turn \in Tasks
    BY <1>4 DEF TypeOK, Complete
  <2> QED
    BY <1>2, <1>4, <2>1 DEF Complete, Outcome, Ended
<1>5. ASSUME NEW s \in {"error", "killed"}, TurnFails(s)
      PROVE  BatchCovered'
  <2>1. turn \in Tasks
    BY <1>5 DEF TypeOK, TurnFails
  <2> QED
    BY <1>2, <1>5, <2>1 DEF TurnFails, Outcome, Ended
<1>6. ASSUME at # "off", at # "spawn", at' = "map" => alive = {},
             UNCHANGED <<batch, alive, outcome>>
      PROVE  BatchCovered'
  BY <1>6 DEF BatchCovered
<1>7. CASE Head
  BY <1>6, <1>7 DEF Head, GiveUp
<1>8. CASE TurnReturns \/ AfterAbort \/ Continue \/ RoundEnds \/ Cleaned
  BY <1>6, <1>8 DEF TurnReturns, AfterAbort, Continue, RoundEnds, Cleaned, loopVars
<1>9. ASSUME NEW t \in Tasks, BeginTurn(t)
      PROVE  BatchCovered'
  BY <1>6, <1>9 DEF BeginTurn
<1>10. ASSUME UNCHANGED <<at, batch, todo, alive, outcome>>
       PROVE  BatchCovered'
  BY <1>10 DEF BatchCovered
<1>11. ASSUME NEW t \in Tasks, Kill(t) \/ Steer(t)
       PROVE  BatchCovered'
  BY <1>10, <1>11 DEF Kill, Steer, OperatorFrame
<1>12. CASE Cancel \/ DaemonStart
  BY <1>10, <1>12 DEF Cancel, OperatorFrame, DaemonStart, supVars, loopVars
<1>13. ASSUME NEW m \in Messages, Announce(m)
       PROVE  BatchCovered'
  BY <1>10, <1>13 DEF Announce, supVars, loopVars
<1>14. CASE MapOutcomes \/ SupervisorThrows
  BY <1>14 DEF MapOutcomes, SupervisorThrows, Forget, BatchCovered
<1>15. ASSUME NEW p \in {"daemon", "terminal"}, NEW rows, Drive(p, rows)
       PROVE  BatchCovered'
  BY <1>15 DEF Drive, BatchCovered
<1>16. ASSUME NEW p \in {"daemon", "terminal"}, Start(p) \/ Resume(p)
       PROVE  BatchCovered'
  BY <1>15, <1>16 DEF Start, Resume
<1>17. ASSUME NEW p \in {"daemon", "terminal"}, Crash(p)
       PROVE  BatchCovered'
  <2>1. CASE at # "off" /\ where = p
    BY <1>17, <2>1 DEF Crash, Forget, BatchCovered
  <2>2. CASE ~(at # "off" /\ where = p)
    BY <1>10, <1>17, <2>2 DEF Crash, supVars, loopVars
  <2> QED
    BY <2>1, <2>2
<1>18. CASE UNCHANGED vars
  BY <1>10, <1>18 DEF vars, supVars, loopVars
<1> QED
  BY <1>1, <1>3, <1>4, <1>5, <1>7, <1>8, <1>9, <1>11, <1>12, <1>13, <1>14, <1>16, <1>17, <1>18
     DEF Next, SupervisorStep

----------------------------------------------------------------------------
(* The run records *)

Records == RunsSettled /\ RecordsFresh

\* What is written over a record, by whom ever, is written over an active one.
LEMMA SettleWrites ==
    ASSUME TypeOK, at # "off", NEW t \in Tasks, NEW e \in Ended, Settle(t, e)
    PROVE  \A a \in Attempts, u \in Tasks :
              run'[a][u] = IF a = attempt /\ u = t /\ run[a][u] = Active THEN e ELSE run[a][u]
<1>1. attempt \in Attempts
  BY AttemptUnderWay
<1> QED
  BY <1>1 DEF TypeOK, Settle

\* Where the supervisor stays at its place, or moves on past the spawning, with
\* the same live tasks, records may only be settled.
LEMMA OnlySettled ==
    ASSUME TypeOK, Records,
           \A a \in Attempts, u \in Tasks :
              run'[a][u] = run[a][u] \/ (run[a][u] = Active /\ run'[a][u] \in Ended),
           lost' = lost, attempt' = attempt, alive' = alive,
           at # "off" => at' # "off",
           at' = "spawn" => at = "spawn" /\ todo' = todo
    PROVE  Records'
<1>1. \A a \in Attempts, u \in Tasks : run'[a][u] = Active => run[a][u] = Active
  BY DEF Active, Ended
<1>2. \A a \in Attempts, u \in Tasks : run[a][u] = "none" => run'[a][u] = "none"
  BY DEF Active
<1>3. RunsSettled'
  BY <1>1 DEF Records, RunsSettled
<1>4. \A a \in Attempts, u \in Tasks : a > attempt' => run'[a][u] = "none"
  BY <1>2 DEF Records, RecordsFresh
<1>5. at' = "spawn" => \A u \in todo' : run'[attempt'][u] = "none"
  BY <1>2, AttemptUnderWay DEF TypeOK, Records, RecordsFresh
<1> QED
  BY <1>3, <1>4, <1>5 DEF Records, RecordsFresh

\* A task that ends takes its active record along.
LEMMA EndRecords ==
    ASSUME TypeOK, Records, NEW t \in Tasks, NEW s, NEW e \in Ended, End(t, s, e),
           at # "off", at' # "off", at' # "spawn", lost' = lost, attempt' = attempt
    PROVE  Records'
<1>1. \A a \in Attempts, u \in Tasks :
         run'[a][u] = IF a = attempt /\ u = t /\ run[a][u] = Active THEN e ELSE run[a][u]
  BY SettleWrites DEF End
<1>2. alive' = alive \ {t} /\ e # Active
  BY DEF End, Ended, Active
<1>3. RunsSettled'
  <2> SUFFICES ASSUME NEW a \in Attempts, NEW u \in Tasks, run'[a][u] = Active
               PROVE  a \in lost \/ (a = attempt /\ u \in alive')
    BY DEF RunsSettled
  <2>1. run[a][u] = Active /\ ~(a = attempt /\ u = t)
    BY <1>1, <1>2
  <2> QED
    BY <1>2, <2>1 DEF Records, RunsSettled
<1>4. RecordsFresh'
  <2>1. attempt \in Nat
    BY AttemptUnderWay DEF Attempts
  <2>2. \A a \in Attempts, u \in Tasks : a > attempt => run'[a][u] = run[a][u]
    BY <1>1, <2>1 DEF Attempts
  <2> QED
    BY <2>2 DEF Records, RecordsFresh
<1> QED
  BY <1>3, <1>4 DEF Records

\* A new attempt finds its records unwritten, and the active ones are lost.
LEMMA DriveRecords ==
    ASSUME TypeOK, Records, NEW p \in {"daemon", "terminal"}, NEW rows, Drive(p, rows)
    PROVE  Records'
<1>1. attempt' = attempt + 1 /\ attempt' \in Attempts /\ at = "off" /\ UNCHANGED <<run, lost>>
  BY BoundAssumption DEF TypeOK, Drive, Attempts, history
<1>2. RunsSettled'
  BY <1>1 DEF Records, RunsSettled
<1>3. \A a \in Attempts : a >= attempt' => a > attempt
  BY <1>1 DEF TypeOK, Attempts
<1>4. \A a \in Attempts, t \in Tasks : a >= attempt' => run'[a][t] = "none"
  BY <1>1, <1>3 DEF Records, RecordsFresh
<1>5. todo' \subseteq Tasks /\ attempt' >= attempt'
  BY <1>1 DEF TypeOK, Drive, Attempts
<1> QED
  BY <1>1, <1>2, <1>4, <1>5 DEF Records, RecordsFresh, Attempts, TypeOK

LEMMA RecordStep == TypeOK /\ BatchCovered /\ Records /\ [Next]_vars => Records'
<1> SUFFICES ASSUME TypeOK, BatchCovered, Records, [Next]_vars
             PROVE  Records'
  OBVIOUS
<1>1. ASSUME NEW t \in Tasks, Spawn(t)
      PROVE  Records'
  <2>1. attempt \in Attempts /\ at = "spawn" /\ t \in todo
    BY <1>1, AttemptUnderWay DEF Spawn, Runs, First
  <2>2. at' # "off" /\ todo' = todo \ {t} /\ UNCHANGED <<lost, attempt>>
    BY <1>1 DEF Spawn, history
  <2>3. CASE run' = [run EXCEPT ![attempt][t] = Active] /\ alive' = alive \cup {t}
    <3>1. \A a \in Attempts, u \in Tasks :
             run'[a][u] = IF a = attempt /\ u = t THEN Active ELSE run[a][u]
      BY <2>1, <2>3 DEF TypeOK
    <3>2. RunsSettled'
      BY <2>1, <2>2, <2>3, <3>1 DEF Records, RunsSettled
    <3>3. \A a \in Attempts, u \in Tasks : a > attempt => run'[a][u] = "none"
      BY <2>1, <3>1 DEF Records, RecordsFresh, Attempts
    <3>4. \A u \in todo' : run'[attempt][u] = "none"
      BY <2>1, <2>2, <3>1 DEF TypeOK, Records, RecordsFresh
    <3> QED
      BY <2>2, <3>2, <3>3, <3>4 DEF Records, RecordsFresh
  <2>4. CASE UNCHANGED <<run, alive>>
    BY <2>1, <2>2, <2>4 DEF Records, RunsSettled, RecordsFresh
  <2> QED
    BY <1>1, <2>3, <2>4 DEF Spawn
<1>2. ASSUME NEW t \in Tasks, CleanUp(t)
      PROVE  Records'
  <2>1. PICK s \in {"killed", "error"} : End(t, s, s)
    BY <1>2 DEF CleanUp
  <2> QED
    BY <1>2, <2>1, EndRecords DEF CleanUp, Ended, history
<1>3. CASE Complete
  <2>1. turn \in Tasks
    BY <1>3 DEF TypeOK, Complete
  <2> QED
    BY <1>3, <2>1, EndRecords DEF Complete, Ended, history
<1>4. ASSUME NEW s \in {"error", "killed"}, TurnFails(s)
      PROVE  Records'
  <2>1. turn \in Tasks
    BY <1>4 DEF TypeOK, TurnFails
  <2> QED
    BY <1>4, <2>1, EndRecords DEF TurnFails, Ended, history
<1>5. CASE Head
  BY <1>5, OnlySettled DEF Head, GiveUp, dbVars, history
<1>6. CASE TurnReturns \/ AfterAbort \/ Continue \/ RoundEnds \/ Cleaned
  BY <1>6, OnlySettled DEF TurnReturns, AfterAbort, Continue, RoundEnds, Cleaned, loopVars,
                           dbVars, history
<1>7. ASSUME NEW t \in Tasks, BeginTurn(t)
      PROVE  Records'
  BY <1>7, OnlySettled DEF BeginTurn
<1>8. ASSUME NEW m \in Messages, Announce(m)
      PROVE  Records'
  BY <1>8, OnlySettled DEF Announce, supVars, loopVars, history
<1>9. ASSUME NEW T \in SUBSET Tasks, NEW s, Terminate(T, s), OperatorFrame
      PROVE  Records'
  <2>1. \A a \in Attempts, u \in Tasks :
           run'[a][u] = IF u \in T /\ run[a][u] = Active THEN "killed" ELSE run[a][u]
    BY <1>9 DEF Terminate
  <2>2. \A a \in Attempts, u \in Tasks :
           run'[a][u] = run[a][u] \/ (run[a][u] = Active /\ run'[a][u] \in Ended)
    BY <2>1 DEF Ended
  <2> QED
    BY <1>9, <2>2, OnlySettled DEF OperatorFrame, history
<1>10. ASSUME NEW t \in Tasks, Kill(t) \/ Steer(t)
       PROVE  Records'
  <2>1. CASE Kill(t)
    BY <1>9, <2>1 DEF Kill
  <2>2. CASE Steer(t)
    BY <2>2, OnlySettled DEF Steer, OperatorFrame, dbVars, history
  <2> QED
    BY <1>10, <2>1, <2>2
<1>11. CASE Cancel
  <2>1. CASE wf = "executing"
    <3>1. Terminate({t \in Tasks : row[t] = "pending"}, "cancelled") /\ OperatorFrame
      BY <1>11, <2>1 DEF Cancel
    <3>2. {t \in Tasks : row[t] = "pending"} \in SUBSET Tasks
      OBVIOUS
    <3> QED
      BY <1>9, <3>1, <3>2
  <2>2. CASE wf # "executing"
    BY <1>11, <2>2, OnlySettled DEF Cancel, OperatorFrame, history
  <2> QED
    BY <2>1, <2>2
<1>12. CASE DaemonStart
  <2>1. \A a \in Attempts, u \in Tasks :
           run'[a][u] = run[a][u] \/ (run[a][u] = Active /\ run'[a][u] \in Ended)
    <3>1. PICK old \in SUBSET {x \in Attempts \X Tasks : run[x[1]][x[2]] = Active} :
             run' = [a \in Attempts |-> [t \in Tasks |->
                       IF <<a, t>> \in old THEN "error" ELSE run[a][t]]]
      BY <1>12 DEF DaemonStart
    <3>2. \A a \in Attempts, u \in Tasks : <<a, u>> \in old => run[a][u] = Active
      BY <3>1
    <3> QED
      BY <3>1, <3>2 DEF Ended
  <2> QED
    BY <1>12, <2>1, OnlySettled DEF DaemonStart, supVars, loopVars, history
<1>13. CASE MapOutcomes
  <2>1. alive = {} /\ at' = "off" /\ UNCHANGED <<run, lost, attempt>>
    BY <1>13 DEF MapOutcomes, BatchCovered, Forget, history
  <2> QED
    BY <2>1 DEF Records, RunsSettled, RecordsFresh
<1>14. ASSUME Forget, lost' = lost \cup {attempt}, UNCHANGED <<run, attempt>>
       PROVE  Records'
  BY <1>14 DEF Forget, Records, RunsSettled, RecordsFresh
<1>15. CASE SupervisorThrows
  BY <1>14, <1>15 DEF SupervisorThrows
<1>16. ASSUME NEW p \in {"daemon", "terminal"}, Crash(p)
       PROVE  Records'
  <2>1. CASE at # "off" /\ where = p
    BY <1>14, <1>16, <2>1 DEF Crash, dbVars
  <2>2. CASE ~(at # "off" /\ where = p)
    BY <1>16, <2>2, OnlySettled DEF Crash, dbVars, supVars, loopVars
  <2> QED
    BY <2>1, <2>2
<1>17. ASSUME NEW p \in {"daemon", "terminal"}, Start(p) \/ Resume(p)
       PROVE  Records'
  BY <1>17, DriveRecords DEF Start, Resume
<1>18. CASE UNCHANGED vars
  BY <1>18, OnlySettled DEF vars, dbVars, supVars, loopVars, history
<1> QED
  BY <1>1, <1>2, <1>3, <1>4, <1>5, <1>6, <1>7, <1>8, <1>10, <1>11, <1>12, <1>13, <1>15,
     <1>16, <1>17, <1>18 DEF Next, SupervisorStep

\* The record that Spawn writes had nothing in it, and whoever settles one
\* asks first whether it is active.
RecordsFinal ==
    \A a \in Attempts, t \in Tasks : run[a][t] \in Ended => run'[a][t] = run[a][t]

LEMMA FinalStep == TypeOK /\ Records /\ [Next]_vars => RecordsFinal
<1> SUFFICES ASSUME TypeOK, Records, [Next]_vars
             PROVE  RecordsFinal
  OBVIOUS
<1>1. ASSUME NEW t \in Tasks, Spawn(t)
      PROVE  RecordsFinal
  <2>1. attempt \in Attempts /\ t \in Tasks /\ run[attempt][t] = "none"
    BY <1>1, AttemptUnderWay DEF Spawn, Runs, First, Records, RecordsFresh
  <2>2. run' \in {run, [run EXCEPT ![attempt][t] = Active]}
    BY <1>1 DEF Spawn
  <2>3. \A a \in Attempts, u \in Tasks : run'[a][u] # run[a][u] => a = attempt /\ u = t
    BY <2>1, <2>2 DEF TypeOK
  <2>4. "none" \notin Ended
    BY DEF Ended
  <2> QED
    BY <2>1, <2>3, <2>4 DEF RecordsFinal
<1>2. ASSUME NEW t \in Tasks, NEW s, NEW e \in Ended, End(t, s, e), at # "off"
      PROVE  RecordsFinal
  <2>1. Settle(t, e)
    BY <1>2 DEF End
  <2> QED
    BY <1>2, <2>1, SettleWrites DEF RecordsFinal, Ended, Active
<1>3. ASSUME NEW t \in Tasks, CleanUp(t)
      PROVE  RecordsFinal
  <2>1. PICK s \in {"killed", "error"} : End(t, s, s)
    BY <1>3 DEF CleanUp
  <2> QED
    BY <1>2, <1>3, <2>1 DEF CleanUp, Ended
<1>4. CASE Complete
  <2>1. turn \in Tasks
    BY <1>4 DEF TypeOK, Complete
  <2> QED
    BY <1>2, <1>4, <2>1 DEF Complete, Ended
<1>5. ASSUME NEW s \in {"error", "killed"}, TurnFails(s)
      PROVE  RecordsFinal
  <2>1. turn \in Tasks
    BY <1>5 DEF TypeOK, TurnFails
  <2> QED
    BY <1>2, <1>5, <2>1 DEF TurnFails, Ended
<1>6. ASSUME NEW T \in SUBSET Tasks, NEW s, Terminate(T, s)
      PROVE  RecordsFinal
  <2>1. \A a \in Attempts, u \in Tasks :
           run'[a][u] = IF u \in T /\ run[a][u] = Active THEN "killed" ELSE run[a][u]
    BY <1>6 DEF Terminate
  <2> QED
    BY <2>1 DEF RecordsFinal, Ended, Active
<1>7. ASSUME NEW t \in Tasks, Kill(t) \/ Steer(t)
      PROVE  RecordsFinal
  BY <1>6, <1>7 DEF Kill, Steer, dbVars, RecordsFinal
<1>8. CASE Cancel
  <2>1. CASE wf = "executing"
    <3>1. Terminate({t \in Tasks : row[t] = "pending"}, "cancelled")
      BY <1>8, <2>1 DEF Cancel
    <3>2. {t \in Tasks : row[t] = "pending"} \in SUBSET Tasks
      OBVIOUS
    <3> QED
      BY <1>6, <3>1, <3>2
  <2>2. CASE wf # "executing"
    BY <1>8, <2>2 DEF Cancel, RecordsFinal
  <2> QED
    BY <2>1, <2>2
<1>9. CASE DaemonStart
  <2>1. PICK old \in SUBSET {x \in Attempts \X Tasks : run[x[1]][x[2]] = Active} :
           run' = [a \in Attempts |-> [t \in Tasks |->
                     IF <<a, t>> \in old THEN "error" ELSE run[a][t]]]
    BY <1>9 DEF DaemonStart
  <2>2. \A a \in Attempts, u \in Tasks : <<a, u>> \in old => run[a][u] = Active
    BY <2>1
  <2> QED
    BY <2>1, <2>2 DEF RecordsFinal, Ended, Active
<1>10. CASE UNCHANGED run
  BY <1>10 DEF RecordsFinal
<1>11. CASE Head \/ TurnReturns \/ AfterAbort \/ Continue \/ RoundEnds \/ Cleaned
  BY <1>10, <1>11 DEF Head, TurnReturns, AfterAbort, Continue, RoundEnds, Cleaned, dbVars
<1>12. ASSUME NEW t \in Tasks, BeginTurn(t)
       PROVE  RecordsFinal
  BY <1>10, <1>12 DEF BeginTurn
<1>13. ASSUME NEW m \in Messages, Announce(m)
       PROVE  RecordsFinal
  BY <1>10, <1>13 DEF Announce
<1>14. CASE MapOutcomes \/ SupervisorThrows
  BY <1>10, <1>14 DEF MapOutcomes, SupervisorThrows
<1>15. ASSUME NEW p \in {"daemon", "terminal"}, Start(p) \/ Resume(p) \/ Crash(p)
       PROVE  RecordsFinal
  BY <1>10, <1>15 DEF Start, Resume, Drive, Crash, dbVars
<1>16. CASE UNCHANGED vars
  BY <1>10, <1>16 DEF vars, dbVars
<1> QED
  BY <1>1, <1>3, <1>4, <1>5, <1>7, <1>8, <1>9, <1>11, <1>12, <1>13, <1>14, <1>15, <1>16
     DEF Next, SupervisorStep

----------------------------------------------------------------------------
(* Turns after the cancel *)

LEMMA LateStep == TypeOK /\ LateIsOver /\ [Next]_vars => LateIsOver'
<1> SUFFICES ASSUME TypeOK, LateIsOver, [Next]_vars
             PROVE  LateIsOver'
  OBVIOUS
<1>1. ASSUME NEW t \in Tasks, BeginTurn(t)
      PROVE  LateIsOver'
  <2>1. t \in todo /\ todo' = todo \ {t} /\ at' = "turn" /\ stopped' = stopped
        /\ late' = IF stopped THEN [late EXCEPT ![t] = @ + 1] ELSE late
    BY <1>1 DEF BeginTurn, First
  <2>2. late[t] = 0
    BY <2>1 DEF TypeOK, LateIsOver
  <2>3. CASE stopped
    <3>1. \A u \in Tasks : late'[u] = IF u = t THEN 1 ELSE late[u]
      BY <2>1, <2>2, <2>3 DEF TypeOK
    <3> QED
      BY <2>1, <2>3, <3>1 DEF TypeOK, LateIsOver
  <2>4. CASE ~stopped
    BY <2>1, <2>4 DEF TypeOK, LateIsOver
  <2> QED
    BY <2>3, <2>4
<1>2. ASSUME late' = late, stopped => stopped', stopped => todo' \subseteq todo,
             stopped => (at' = "spawn" => at = "spawn")
      PROVE  LateIsOver'
  BY <1>2 DEF TypeOK, LateIsOver
<1>3. ASSUME NEW t \in Tasks, Spawn(t) \/ CleanUp(t)
      PROVE  LateIsOver'
  BY <1>2, <1>3 DEF Spawn, CleanUp, history
<1>4. CASE Head
  BY <1>2, <1>4 DEF Head, GiveUp, dbVars, history
<1>5. CASE TurnReturns \/ AfterAbort \/ Continue \/ Complete \/ RoundEnds \/ Cleaned
  BY <1>2, <1>5 DEF TurnReturns, AfterAbort, Continue, Complete, RoundEnds, Cleaned, dbVars,
                    loopVars, history
<1>6. ASSUME NEW s \in {"error", "killed"}, TurnFails(s)
      PROVE  LateIsOver'
  BY <1>2, <1>6 DEF TurnFails, history
<1>7. CASE MapOutcomes \/ SupervisorThrows
  BY <1>2, <1>7 DEF MapOutcomes, SupervisorThrows, Forget, history
<1>8. ASSUME NEW t \in Tasks, Kill(t) \/ Steer(t)
      PROVE  LateIsOver'
  BY <1>2, <1>8 DEF Kill, Steer, OperatorFrame, dbVars, history
<1>9. CASE Cancel \/ DaemonStart
  BY <1>2, <1>9 DEF Cancel, OperatorFrame, DaemonStart, supVars, loopVars, history
<1>10. ASSUME NEW m \in Messages, Announce(m)
       PROVE  LateIsOver'
  BY <1>2, <1>10 DEF Announce, supVars, loopVars, history
<1>11. ASSUME NEW p \in {"daemon", "terminal"}, Start(p) \/ Resume(p) \/ Crash(p)
       PROVE  LateIsOver'
  BY <1>2, <1>11 DEF Start, Resume, Drive, Crash, Forget, dbVars, supVars, loopVars, history
<1>12. CASE UNCHANGED vars
  BY <1>2, <1>12 DEF vars, dbVars, supVars, loopVars, history
<1> QED
  BY <1>1, <1>3, <1>4, <1>5, <1>6, <1>7, <1>8, <1>9, <1>10, <1>11, <1>12
     DEF Next, SupervisorStep

----------------------------------------------------------------------------
(* The theorems *)

THEOREM Inductive == Spec => []IInv
<1>1. Init => IInv
  BY InitHolds
<1>2. IInv /\ [Next]_vars => IInv'
  BY TypeStep, MailStep, BatchStep, RecordStep, LateStep DEF IInv, Records
<1> QED
  BY <1>1, <1>2, PTL DEF Spec

\* Every variable of the supervisor, the mailbox and the records keeps its type;
\* the streak of idle rounds stays below its threshold.
THEOREM TypeCorrect == Spec => []TypeOK
<1>1. IInv => TypeOK
  BY DEF IInv
<1> QED
  BY <1>1, Inductive, PTL

\* A subagent is handed an announcement at most once, and never its own.
THEOREM AtMostOnce == Spec => []DeliveredOnce
<1>1. IInv => DeliveredOnce
  <2> SUFFICES ASSUME IInv, NEW m \in Messages, NEW t \in Tasks
               PROVE  seen[<<m, t>>] <= (IF from[m] = t THEN 0 ELSE 1)
    BY DEF DeliveredOnce
  <2>1. seen[<<m, t>>] = IF <<m, t>> \in got THEN 1 ELSE 0
    BY DEF IInv, MailKept
  <2>2. from[m] = t => <<m, t>> \notin got
    BY DEF IInv, MailKept
  <2> QED
    BY <2>1, <2>2
<1> QED
  BY <1>1, Inductive, PTL

\* A finished attempt leaves no record that claims to run.
THEOREM NoRecordLeftRunning == Spec => []RunsSettled
<1>1. IInv => RunsSettled
  BY DEF IInv
<1> QED
  BY <1>1, Inductive, PTL

\* Every task of the batch has an outcome when the outcomes are mapped.
THEOREM EveryTaskAnswered == Spec => []OutcomesTotal
<1>1. IInv => OutcomesTotal
  BY DEF IInv, TypeOK, BatchCovered, OutcomesTotal
<1> QED
  BY <1>1, Inductive, PTL

\* After a cancel no subagent gets a second turn.
THEOREM CancelStopsTheLoop == Spec => []CancelBoundsTurns
<1>1. IInv => CancelBoundsTurns
  BY DEF IInv, TypeOK, LateIsOver, CancelBoundsTurns
<1> QED
  BY <1>1, Inductive, PTL

\* The end of a run record is never overwritten.
THEOREM RecordsStayEnded == Spec => TerminalRunFinal
<1>1. IInv /\ [Next]_vars => [RecordsFinal]_vars
  BY FinalStep DEF IInv, Records
<1>2. IInv /\ [Next]_vars =>
        [\A a \in Attempts, t \in Tasks :
            run[a][t] \in Ended => run'[a][t] = run[a][t]]_vars
  BY <1>1 DEF RecordsFinal
<1> QED
  BY <1>2, Inductive, PTL DEF Spec, TerminalRunFinal

=============================================================================
