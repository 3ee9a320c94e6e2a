------------------------- MODULE Remediation_proofs -------------------------
(***************************************************************************)
(* For every set of source tasks and every number of children, executors,  *)
(* crashes and resumes: the types, that no fix task runs without consent,  *)
(* that a parent does not wait for failed children, that it is left alone  *)
(* unless it waits, and that cancelled rows stay down.                     *)
(***************************************************************************)
EXTENDS Remediation, TLAPS

Consented == approved \cup torn

\* An executor that is under way drives a child.
ExecDrives == \A e \in Execs : exec[e].at # "idle" => exec[e].wf \in Children

\* What works, counts t0 as done or was loaded without the flag has consent.
ExecConsented ==
    \A e \in Execs :
        exec[e].at = "working" \/ "t0" \in exec[e].done \/ exec[e].free =>
            exec[e].wf \in Consented

\* Without consent t0 has got nowhere, and the fix tasks have not been started.
RowsConsented ==
    \A c \in Children : c \notin Consented =>
        /\ row[c]["t0"] \in {"pending", "failed", "cancelled"}
        /\ row[c]["fix"] \in {"pending", "cancelled"}

\* A refused t0 is recorded in its child, or about to be: a pickup, which takes
\* failed rows for done, does not get to see it.
RefusalRecorded ==
    \A c \in Children : c \notin Consented /\ row[c]["t0"] = "failed" =>
        \/ child[c] \in {"failed", "completed"}
        \/ \E e \in Execs : exec[e].at = "thrown" /\ exec[e].wf = c

IInv ==
    /\ TypeOK
    /\ ExecDrives
    /\ ExecConsented
    /\ RowsConsented
    /\ RefusalRecorded
    /\ NoWaitForFailed

\* The initial states satisfy the inductive invariant.
LEMMA InitIInv == Init => IInv
  <1> SUFFICES ASSUME Init PROVE IInv
    OBVIOUS
  <1> USE DEF Init, Idle
  <1>1. exec \in [Execs -> Exec] /\ \A e \in Execs : exec[e].pend \cap exec[e].done = {}
    BY DEF Tasks, Exec, At
  <1>3. row \in [Children -> [Tasks -> Row]]
    BY DEF Tasks, Row
  <1>4. crashes \in 0 .. MaxCrashes /\ resumes \in 0 .. MaxResumes
    BY BoundAssumption
  <1>5. TypeOK
    BY <1>1, <1>3, <1>4 DEF TypeOK
  <1>2. ExecDrives /\ ExecConsented /\ RowsConsented /\ RefusalRecorded /\ NoWaitForFailed
    BY DEF ExecDrives, ExecConsented, RowsConsented, RefusalRecorded, NoWaitForFailed,
           Consented, Tasks
  <1>6. QED
    BY <1>2, <1>5 DEF IInv

---------------------------------------------------------------------------
(* Types, action by action *)

\* What continueWorkflowExecution loads is well typed.
LEMMA LoadType ==
  ASSUME TypeOK, NEW e \in Execs, NEW c \in Children, NEW rows \in [Tasks -> Row],
         NEW isFree \in BOOLEAN, NEW isDash \in BOOLEAN, Load(e, c, rows, isFree, isDash)
  PROVE  /\ row' \in [Children -> [Tasks -> Row]]
         /\ exec' \in [Execs -> Exec]
         /\ \A x \in Execs : exec'[x].pend \cap exec'[x].done = {}
  <1> DEFINE loaded == [t \in Tasks |-> IF rows[t] = "running" THEN "pending" ELSE rows[t]]
             pend   == {t \in Tasks : loaded[t] = "pending"}
             done   == {t \in Tasks : loaded[t] \in {"completed", "failed", "skipped"}}
             new    == [wf |-> c, at |-> "select", task |-> "t0", pend |-> pend, done |-> done,
                        free |-> isFree, dash |-> isDash, cut |-> FALSE]
  <1>1. row' = [row EXCEPT ![c] = loaded] /\ exec' = [exec EXCEPT ![e] = new]
    BY DEF Load
  <1>2. loaded \in [Tasks -> Row] /\ new \in Exec /\ pend \cap done = {}
    BY DEF Row, Exec, At, Tasks
  <1>3. QED
    BY <1>1, <1>2 DEF TypeOK

\* What a resume does to the rows is well typed.
LEMMA ResetType ==
  ASSUME TypeOK, NEW c \in Children, NEW rows \in Reset(c)
  PROVE  rows \in [Tasks -> Row]
  BY DEF Reset, TypeOK, Row, Tasks

\* The steps of the parent keep the types.
LEMMA ParentType ==
  ASSUME TypeOK,
         \/ \E s \in Sources : SourceMoves(s)
         \/ BatchThrows \/ BatchPasses \/ ResumeParent \/ CrashTerminal
  PROVE  TypeOK'
  <1> USE BoundAssumption DEF TypeOK, counters, childVars, parentVars
  <1>1. CASE \E s \in Sources : SourceMoves(s)
    BY <1>1 DEF SourceMoves, GatePasses, ReviewAborted, Spawn, NoSpawn, Settles, Open
  <1>2. CASE BatchThrows \/ BatchPasses \/ CrashTerminal
    BY <1>2 DEF BatchThrows, BatchPasses, CrashTerminal
  <1>3. CASE ResumeParent
    <2> DEFINE settled == [s \in Sources |-> IF src[s] = "review" THEN "passed" ELSE src[s]]
    <2>1. settled \in [Sources -> {"review", "passed", "thrown", "aborted"}]
      OBVIOUS
    <2>2. src' \in [Sources -> {"review", "passed", "thrown", "aborted"}]
      BY <1>3, <2>1 DEF ResumeParent
    <2>3. resumes' \in 0 .. MaxResumes
      BY <1>3 DEF ResumeParent
    <2>4. QED
      BY <1>3, <2>2, <2>3 DEF ResumeParent
  <1>4. QED
    BY <1>1, <1>2, <1>3

\* What a step of an executor must respect for the types to hold afterwards.
LEMMA FrameType ==
  ASSUME TypeOK,
         row' \in [Children -> [Tasks -> Row]],
         exec' \in [Execs -> Exec],
         \A x \in Execs : exec'[x].pend \cap exec'[x].done = {},
         UNCHANGED <<parent, runner, halted, src, child, stopped, toPick, approved, torn,
                     crashes, resumes, up>>
  PROVE  TypeOK'
  BY DEF TypeOK

\* The steps of an executor keep the types.
LEMMA ExecType ==
  ASSUME TypeOK, ExecDrives, NEW e \in Execs, ExecStep(e)
  PROVE  TypeOK'
  <1> USE DEF TypeOK, counters, childVars, parentVars, ExecFrame, ExecDrives
  <1>1. exec[e] \in Exec /\ Idle \in Exec /\ Idle.pend \cap Idle.done = {}
    BY DEF Idle, Exec, At, Tasks
  <1>2. ASSUME exec[e].at # "idle" PROVE exec[e].wf \in Children
    BY <1>2
  <1>3. CASE CheckpointThrows(e)
    BY <1>1, <1>2, <1>3 DEF CheckpointThrows, In, Passes, ReadyIn, Moves, Leaves, SetRow, ThrowsOut, ChildDone, Propagate, Open, Exec, At, Tasks, Row
  <1>4. CASE Asks(e)
    <2>1. exec[e].wf \in Children /\ exec[e].free \in BOOLEAN
      BY <1>1, <1>2, <1>4 DEF Asks, Passes, In, Exec
    <2>2. row' \in [Children -> [Tasks -> Row]]
      <3>1. CASE exec[e].free
        BY <1>4, <2>1, <3>1, SMTT(20) DEF Asks, Tasks, Row
      <3>2. CASE ~exec[e].free
        BY <1>4, <2>1, <3>2 DEF Asks
      <3>3. QED
        BY <3>1, <3>2
    <2>3. \E a \in At : exec' = [exec EXCEPT ![e].at = a, ![e].task = "t0"]
      <3>1. CASE exec[e].free
        BY <1>4, <3>1 DEF Asks, At
      <3>2. CASE ~exec[e].free
        BY <1>4, <3>2 DEF Asks, At
      <3>3. QED
        BY <3>1, <3>2
    <2>4. /\ exec' \in [Execs -> Exec]
          /\ \A x \in Execs : exec'[x].pend \cap exec'[x].done = {}
      <3>1. PICK a \in At : exec' = [exec EXCEPT ![e].at = a, ![e].task = "t0"]
        BY <2>3
      <3>2. [exec[e] EXCEPT !.at = a, !.task = "t0"] \in Exec
        BY <1>1 DEF Exec, Tasks
      <3>3. QED
        BY <3>1, <3>2
    <2>5. QED
      BY <1>4, <2>2, <2>4 DEF Asks
  <1>5. CASE StartsFix(e)
    <2>1. row' \in [Children -> [Tasks -> Row]]
      BY <1>2, <1>5 DEF StartsFix, Passes, In, Tasks, Row
    <2>2. /\ exec' \in [Execs -> Exec]
          /\ \A x \in Execs : exec'[x].pend \cap exec'[x].done = {}
      <3>1. exec' = [exec EXCEPT ![e] = [exec[e] EXCEPT !.at = "working", !.task = "fix"]]
        BY <1>5 DEF StartsFix
      <3> DEFINE y == [exec[e] EXCEPT !.at = "working", !.task = "fix"]
      <3>2. y \in Exec /\ y.pend \cap y.done = {}
        BY <1>1 DEF Exec, At, Tasks
      <3> HIDE DEF y
      <3>3. QED
        BY <3>1, <3>2 DEF y
    <2>3. UNCHANGED <<parent, runner, halted, src, child, stopped, toPick, approved, torn,
                      crashes, resumes, up>>
      BY <1>5 DEF StartsFix
    <2> HIDE DEF TypeOK, ExecDrives
    <2>4. QED
      BY <2>1, <2>2, <2>3, FrameType
  <1>6. CASE NothingReady(e)
    BY <1>1, <1>2, <1>6 DEF NothingReady, In, Passes, ReadyIn, Moves, Leaves, SetRow, ThrowsOut, ChildDone, Propagate, Open, Exec, At, Tasks, Row
  <1>7. CASE LoopReturns(e)
    <2>1. row' \in [Children -> [Tasks -> Row]]
      BY <1>1, <1>2, <1>7 DEF LoopReturns, Passes, In, SetRow, Tasks, Row, Exec
    <2>2. /\ exec' \in [Execs -> Exec]
          /\ \A x \in Execs : exec'[x].pend \cap exec'[x].done = {}
      <3>1. [exec[e] EXCEPT !.at = "closing"] \in Exec
        BY <1>1 DEF Exec, At
      <3>2. \/ exec' = [exec EXCEPT ![e] = Idle]
            \/ exec' = [exec EXCEPT ![e].at = "closing"]
        BY <1>1, <1>7 DEF LoopReturns, Moves, Leaves, ThrowsOut, Exec
      <3>3. CASE exec' = [exec EXCEPT ![e] = Idle]
        BY <1>1, <3>3
      <3>4. CASE exec' = [exec EXCEPT ![e].at = "closing"]
        <4>1. exec' \in [Execs -> Exec]
          BY <3>1, <3>4
        <4>2. \A x \in Execs : exec'[x].pend = exec[x].pend /\ exec'[x].done = exec[x].done
          BY <1>1, <3>4 DEF Exec
        <4>3. QED
          BY <4>1, <4>2
      <3>5. QED
        BY <3>2, <3>3, <3>4
    <2>3. child' \in [Children -> Open \cup {"none", "completed", "failed", "cancelled"}]
      BY <1>2, <1>7 DEF LoopReturns, Passes, In, ThrowsOut, ChildDone
    <2>4. QED
      BY <1>2, <1>7, <2>1, <2>2, <2>3 DEF LoopReturns, Passes, In, ThrowsOut, ChildDone, Propagate
  <1>8. CASE Completes(e)
    BY <1>1, <1>2, <1>8 DEF Completes, In, Passes, ReadyIn, Moves, Leaves, SetRow, ThrowsOut, ChildDone, Propagate, Open, Exec, At, Tasks, Row
  <1>9. CASE ClosingThrows(e)
    <2>1. exec' = [exec EXCEPT ![e] = Idle] /\ exec[e].wf \in Children
      BY <1>2, <1>9 DEF ClosingThrows, In, ThrowsOut, Leaves
    <2>2. /\ exec' \in [Execs -> Exec]
          /\ \A x \in Execs : exec'[x].pend \cap exec'[x].done = {}
      BY <1>1, <2>1
    <2>3. CASE exec[e].dash
      BY <1>9, <2>1, <2>2, <2>3 DEF ClosingThrows, ThrowsOut, ChildDone, Propagate
    <2>4. CASE ~exec[e].dash
      BY <1>9, <2>2, <2>4 DEF ClosingThrows, ThrowsOut
    <2>5. QED
      BY <2>3, <2>4
  <1>10. CASE Approves(e)
    <2>1. row' \in [Children -> [Tasks -> Row]]
      BY <1>1, <1>2, <1>10 DEF Approves, Passes, In, SetRow, Tasks, Row, Exec
    <2>2. /\ exec' \in [Execs -> Exec]
          /\ \A x \in Execs : exec'[x].pend \cap exec'[x].done = {}
      <3>1. [exec[e] EXCEPT !.at = "working"] \in Exec
        BY <1>1 DEF Exec, At
      <3>2. \/ exec' = [exec EXCEPT ![e] = Idle]
            \/ exec' = [exec EXCEPT ![e].at = "working"]
        BY <1>1, <1>10 DEF Approves, Moves, Leaves, ThrowsOut, Exec
      <3>3. CASE exec' = [exec EXCEPT ![e] = Idle]
        BY <1>1, <3>3
      <3>4. CASE exec' = [exec EXCEPT ![e].at = "working"]
        <4>1. exec' \in [Execs -> Exec]
          BY <3>1, <3>4
        <4>2. \A x \in Execs : exec'[x].pend = exec[x].pend /\ exec'[x].done = exec[x].done
          BY <1>1, <3>4 DEF Exec
        <4>3. QED
          BY <4>1, <4>2
      <3>5. QED
        BY <3>2, <3>3, <3>4
    <2>3. child' \in [Children -> Open \cup {"none", "completed", "failed", "cancelled"}]
      BY <1>2, <1>10 DEF Approves, Passes, In, ThrowsOut, ChildDone
    <2>4. QED
      BY <1>2, <1>10, <2>1, <2>2, <2>3 DEF Approves, Passes, In, ThrowsOut, ChildDone, Propagate
  <1>11. CASE Refuses(e)
    <2>1. row' \in [Children -> [Tasks -> Row]]
      BY <1>1, <1>2, <1>11 DEF Refuses, Passes, In, SetRow, Tasks, Row, Exec
    <2>2. /\ exec' \in [Execs -> Exec]
          /\ \A x \in Execs : exec'[x].pend \cap exec'[x].done = {}
      BY <1>1, <1>11, SMTT(20) DEF Refuses, Moves, Leaves, ThrowsOut, Exec, At, Tasks
    <2>3. child' \in [Children -> Open \cup {"none", "completed", "failed", "cancelled"}]
      BY <1>2, <1>11 DEF Refuses, Passes, In, ThrowsOut, ChildDone
    <2>4. QED
      BY <1>2, <1>11, <2>1, <2>2, <2>3 DEF Refuses, Passes, In, ThrowsOut, ChildDone, Propagate
  <1>12. CASE Succeeds(e)
    <2> exec[e].task \in Tasks
      BY <1>1 DEF Exec
    <2>1. row' \in [Children -> [Tasks -> Row]]
      BY <1>1, <1>2, <1>12 DEF Succeeds, In, SetRow, Tasks, Row
    <2>2. /\ exec' \in [Execs -> Exec]
          /\ \A x \in Execs : exec'[x].pend \cap exec'[x].done = {}
      <3>1. exec' = [exec EXCEPT ![e] = [exec[e] EXCEPT !.at = "select",
                                                        !.pend = @ \ {exec[e].task},
                                                        !.done = @ \cup {exec[e].task}]]
        BY <1>12 DEF Succeeds
      <3> DEFINE y == [exec[e] EXCEPT !.at = "select", !.pend = @ \ {exec[e].task},
                                      !.done = @ \cup {exec[e].task}]
      <3>2. y \in Exec /\ y.pend \cap y.done = {}
        BY <1>1 DEF Exec, At
      <3> HIDE DEF y
      <3>3. QED
        BY <1>1, <3>1, <3>2 DEF y
    <2>3. UNCHANGED <<parent, runner, halted, src, child, stopped, toPick, approved, torn,
                      crashes, resumes, up>>
      BY <1>12 DEF Succeeds
    <2> HIDE DEF TypeOK, ExecDrives
    <2>4. QED
      BY <2>1, <2>2, <2>3, FrameType
  <1>13. CASE Fails(e)
    <2>1. row' \in [Children -> [Tasks -> Row]]
      BY <1>1, <1>2, <1>13 DEF Fails, In, SetRow, Tasks, Row, Exec
    <2>2. /\ exec' \in [Execs -> Exec]
          /\ \A x \in Execs : exec'[x].pend \cap exec'[x].done = {}
      BY <1>1, <1>13 DEF Fails, Moves, Exec, At
    <2>3. UNCHANGED <<parent, runner, halted, src, child, stopped, toPick, approved, torn,
                      crashes, resumes, up>>
      BY <1>13 DEF Fails
    <2> HIDE DEF TypeOK, ExecDrives
    <2>4. QED
      BY <2>1, <2>2, <2>3, FrameType
  <1>14. CASE Aborts(e)
    BY <1>1, <1>2, <1>14 DEF Aborts, In, Passes, ReadyIn, Moves, Leaves, SetRow, ThrowsOut, ChildDone, Propagate, Open, Exec, At, Tasks, Row
  <1>15. CASE Records(e)
    BY <1>1, <1>2, <1>15 DEF Records, In, Passes, ReadyIn, Moves, Leaves, SetRow, ThrowsOut, ChildDone, Propagate, Open, Exec, At, Tasks, Row
  <1>16. QED
    BY <1>3, <1>4, <1>5, <1>6, <1>7, <1>8, <1>9, <1>10, <1>11, <1>12, <1>13, <1>14, <1>15 DEF ExecStep

\* The executors a cancel aborts stay well typed.
LEMMA CutType ==
  ASSUME TypeOK, NEW C \in SUBSET Children, exec' = CutIn(C)
  PROVE  /\ exec' \in [Execs -> Exec]
         /\ \A x \in Execs : exec'[x].pend \cap exec'[x].done = {}
  <1>1. ASSUME NEW x \in Execs
        PROVE  exec'[x] \in Exec /\ exec'[x].pend \cap exec'[x].done = {}
    <2>1. exec'[x] \in {exec[x], [exec[x] EXCEPT !.cut = TRUE]}
      BY DEF CutIn
    <2>2. /\ exec[x] \in Exec /\ [exec[x] EXCEPT !.cut = TRUE] \in Exec
          /\ [exec[x] EXCEPT !.cut = TRUE].pend = exec[x].pend
          /\ [exec[x] EXCEPT !.cut = TRUE].done = exec[x].done
      <3>1. exec[x] \in Exec
        BY DEF TypeOK
      <3>2. QED
        BY <3>1 DEF Exec
    <2>3. QED
      BY <2>1, <2>2 DEF TypeOK
  <1>2. QED
    BY <1>1 DEF CutIn

\* The steps of the daemon and of the operator keep the types.
LEMMA DaemonType ==
  ASSUME TypeOK, ExecDrives,
         \/ DaemonStart \/ CrashDaemon \/ CancelParent
         \/ \E c \in Children : CancelChild(c)
         \/ \E c \in Children, e \in Execs : Pickup(c, e) \/ ResumeChild(c, e) \/ SkipFailed(c, e)
  PROVE  TypeOK'
  <1> USE BoundAssumption DEF counters, childVars, parentVars
  <1>1. CASE DaemonStart
    BY <1>1 DEF DaemonStart, TypeOK
  <1>2. CASE CrashDaemon
    <2>1. Idle \in Exec /\ Idle.pend \cap Idle.done = {}
      BY DEF Idle, Exec, At, Tasks
    <2>2. {exec[e].wf : e \in {x \in Execs : exec[x].at = "thrown"}} \subseteq Children
      BY DEF ExecDrives
    <2>3. exec' \in [Execs -> Exec] /\ \A e \in Execs : exec'[e].pend \cap exec'[e].done = {}
      BY <1>2, <2>1 DEF CrashDaemon
    <2>4. crashes' \in 0 .. MaxCrashes
      BY <1>2 DEF CrashDaemon, TypeOK
    <2>5. torn' \subseteq Children
      BY <1>2, <2>2 DEF CrashDaemon, TypeOK
    <2>6. QED
      BY <1>2, <2>3, <2>4, <2>5 DEF CrashDaemon, TypeOK
  <1>3. CASE CancelParent
    <2>1. exec' \in [Execs -> Exec] /\ \A e \in Execs : exec'[e].pend \cap exec'[e].done = {}
      BY <1>3, CutType DEF CancelParent, TypeOK
    <2>2. \A c \in Children : Cancelled(c) \in [Tasks -> Row]
      BY DEF Cancelled, TypeOK, Row
    <2>3. row' \in [Children -> [Tasks -> Row]]
      BY <1>3, <2>2 DEF CancelParent, TypeOK
    <2>4. QED
      BY <1>3, <2>1, <2>3 DEF CancelParent, TypeOK
  <1>4. ASSUME NEW c \in Children, CancelChild(c) PROVE TypeOK'
    <2>1. exec' \in [Execs -> Exec] /\ \A e \in Execs : exec'[e].pend \cap exec'[e].done = {}
      BY <1>4, CutType DEF CancelChild, TypeOK
    <2>2. Cancelled(c) \in [Tasks -> Row]
      BY DEF Cancelled, TypeOK, Row
    <2>3. row' \in [Children -> [Tasks -> Row]]
      BY <1>4, <2>2 DEF CancelChild, TypeOK
    <2>4. child' \in [Children -> Open \cup {"none", "completed", "failed", "cancelled"}]
      BY <1>4 DEF CancelChild, TypeOK
    <2>5. QED
      BY <1>4, <2>1, <2>3, <2>4 DEF CancelChild, TypeOK
  <1>5. ASSUME NEW c \in Children, NEW e \in Execs, Pickup(c, e) PROVE TypeOK'
    <2>1. /\ row' \in [Children -> [Tasks -> Row]]
          /\ exec' \in [Execs -> Exec]
          /\ \A x \in Execs : exec'[x].pend \cap exec'[x].done = {}
      <3>1. CASE child[c] = "pending"
        <4>1. row[c] \in [Tasks -> Row] /\ Load(e, c, row[c], FALSE, FALSE)
          BY <1>5, <3>1 DEF Pickup, TypeOK
        <4>2. QED
          BY <4>1, LoadType
      <3>2. CASE child[c] # "pending"
        BY <1>5, <3>2 DEF Pickup, TypeOK
      <3>3. QED
        BY <3>1, <3>2
    <2>2. QED
      BY <1>5, <2>1 DEF Pickup, TypeOK
  <1>6. ASSUME NEW c \in Children, NEW e \in Execs, ResumeChild(c, e) PROVE TypeOK'
    <2>1. PICK rows \in Reset(c) :
             Load(e, c, rows, child[c] = "executing" /\ c \in approved, TRUE)
      BY <1>6 DEF ResumeChild
    <2>2. rows \in [Tasks -> Row]
      BY ResetType
    <2>3. (child[c] = "executing" /\ c \in approved) \in BOOLEAN
      OBVIOUS
    <2>4. /\ row' \in [Children -> [Tasks -> Row]]
          /\ exec' \in [Execs -> Exec]
          /\ \A x \in Execs : exec'[x].pend \cap exec'[x].done = {}
      BY <2>1, <2>2, <2>3, LoadType
    <2>5. resumes' \in 0 .. MaxResumes
      BY <1>6 DEF ResumeChild, TypeOK
    <2>6. QED
      BY <1>6, <2>4, <2>5 DEF ResumeChild, TypeOK, Open
  <1>7. ASSUME NEW c \in Children, NEW e \in Execs, SkipFailed(c, e) PROVE TypeOK'
    <2> DEFINE rows == [t \in Tasks |-> IF row[c][t] = "failed" THEN "skipped" ELSE row[c][t]]
    <2>1. rows \in [Tasks -> Row]
      BY DEF TypeOK, Row
    <2>5. Load(e, c, rows, FALSE, TRUE)
      BY <1>7 DEF SkipFailed
    <2>2. /\ row' \in [Children -> [Tasks -> Row]]
          /\ exec' \in [Execs -> Exec]
          /\ \A x \in Execs : exec'[x].pend \cap exec'[x].done = {}
      BY <2>1, <2>5, LoadType
    <2>3. resumes' \in 0 .. MaxResumes
      BY <1>7 DEF SkipFailed, TypeOK
    <2>4. QED
      BY <1>7, <2>2, <2>3 DEF SkipFailed, TypeOK, Open
  <1>8. QED
    BY <1>1, <1>2, <1>3, <1>4, <1>5, <1>6, <1>7

---------------------------------------------------------------------------
(* Consent *)

Consent == ExecDrives /\ ExecConsented /\ RowsConsented /\ RefusalRecorded

\* Consent is never taken back: when only a status of a child changes, and not
\* that of a failed or completed one, the invariant is kept.
LEMMA StatusConsent ==
  ASSUME Consent, UNCHANGED <<row, exec, approved, torn>>,
         \A c \in Children : child[c] \in {"failed", "completed"} => child'[c] = child[c]
  PROVE  Consent'
  BY DEF Consent, ExecDrives, ExecConsented, RowsConsented, RefusalRecorded, Consented

\* An executor that leaves takes nothing along, if a failure it has thrown is
\* recorded by then.
LEMMA LeaveConsent ==
  ASSUME Consent, TypeOK, NEW e \in Execs, exec' = [exec EXCEPT ![e] = Idle],
         UNCHANGED <<row, torn>>, approved \subseteq approved',
         \A c \in Children : child'[c] \in {child[c], "failed", "completed"},
         exec[e].at = "thrown" => child'[exec[e].wf] = "failed"
  PROVE  Consent'
  <1>1. \A x \in Execs : exec'[x] = IF x = e THEN Idle ELSE exec[x]
    BY DEF TypeOK
  <1>2. Idle.at = "idle" /\ Idle.done = {} /\ Idle.free = FALSE
    BY DEF Idle
  <1>3. Consented \subseteq Consented'
    BY DEF Consented
  <1>4. ExecDrives' /\ ExecConsented'
    BY <1>1, <1>2, <1>3 DEF Consent, ExecDrives, ExecConsented
  <1>5. RowsConsented'
    BY <1>3 DEF Consent, RowsConsented
  <1>6. RefusalRecorded'
    BY <1>1, <1>3 DEF Consent, RefusalRecorded
  <1>7. QED
    BY <1>4, <1>5, <1>6 DEF Consent

\* A run that is loaded while nothing is thrown, from rows that have consent or
\* have not been touched.
LEMMA LoadConsent ==
  ASSUME Consent, TypeOK, Calm,
         NEW e \in Execs, NEW c \in Children, NEW rows \in [Tasks -> Row],
         NEW isFree \in BOOLEAN, NEW isDash \in BOOLEAN,
         Load(e, c, rows, isFree, isDash),
         UNCHANGED torn, approved \subseteq approved',
         isFree => c \in Consented',
         c \notin Consented' => rows["t0"] \in {"pending", "cancelled"}
                                /\ rows["fix"] \in {"pending", "cancelled"},
         \A d \in Children : d # c => child'[d] = child[d]
  PROVE  Consent'
  <1> DEFINE loaded == [t \in Tasks |-> IF rows[t] = "running" THEN "pending" ELSE rows[t]]
             new    == [wf |-> c, at |-> "select", task |-> "t0",
                        pend |-> {t \in Tasks : loaded[t] = "pending"},
                        done |-> {t \in Tasks : loaded[t] \in {"completed", "failed", "skipped"}},
                        free |-> isFree, dash |-> isDash, cut |-> FALSE]
  <1>1. row' = [row EXCEPT ![c] = loaded] /\ exec' = [exec EXCEPT ![e] = new]
    BY DEF Load
  <1>2. Consented \subseteq Consented'
    BY DEF Consented
  <1>3. /\ \A d \in Children : row'[d] = IF d = c THEN loaded ELSE row[d]
        /\ \A x \in Execs : exec'[x] = IF x = e THEN new ELSE exec[x]
    BY <1>1 DEF TypeOK
  <1>4. c \notin Consented' => loaded["t0"] \in {"pending", "cancelled"}
                               /\ loaded["fix"] \in {"pending", "cancelled"}
    BY DEF Tasks
  <1>5. "t0" \in new.done \/ new.free => c \in Consented'
    BY <1>4
  <1>11. new.wf = c /\ new.at = "select"
    OBVIOUS
  <1> HIDE DEF new
  <1>6. ExecDrives'
    BY <1>3, <1>11 DEF Consent, ExecDrives
  <1>7. ExecConsented'
    BY <1>2, <1>3, <1>5, <1>11 DEF Consent, ExecConsented
  <1>8. RowsConsented'
    BY <1>2, <1>3, <1>4 DEF Consent, RowsConsented
  <1>9. RefusalRecorded'
    BY <1>2, <1>3, <1>4 DEF Consent, RefusalRecorded, Calm
  <1>10. QED
    BY <1>6, <1>7, <1>8, <1>9 DEF Consent

\* The steps of the parent do not touch the children's consent.
LEMMA ParentConsent ==
  ASSUME TypeOK, Consent,
         \/ \E s \in Sources : SourceMoves(s)
         \/ BatchThrows \/ BatchPasses \/ ResumeParent \/ CrashTerminal
  PROVE  Consent'
  <1>1. UNCHANGED <<row, exec, approved, torn>>
    BY DEF SourceMoves, GatePasses, ReviewAborted, Spawn, NoSpawn, Settles, BatchThrows,
           BatchPasses, ResumeParent, CrashTerminal, childVars
  <1>2. \A c \in Children : child[c] \in {"failed", "completed"} => child'[c] = child[c]
    BY DEF SourceMoves, GatePasses, ReviewAborted, Spawn, NoSpawn, BatchThrows,
           BatchPasses, ResumeParent, CrashTerminal, childVars, TypeOK
  <1>3. QED
    BY <1>1, <1>2, StatusConsent

\* An executor that stays with its child and has consent for what it does next.
LEMMA StayConsent ==
  ASSUME Consent, TypeOK, NEW e \in Execs, exec[e].at \notin {"idle", "thrown"},
         UNCHANGED <<child, torn>>, approved \subseteq approved',
         NEW n, exec' = [exec EXCEPT ![e] = n], n.wf = exec[e].wf,
         n.at = "working" \/ "t0" \in n.done \/ n.free => exec[e].wf \in Consented',
         NEW r, row' = [row EXCEPT ![exec[e].wf] = r],
         exec[e].wf \notin Consented' =>
             /\ r["t0"] \in {"pending", "failed", "cancelled"}
             /\ r["fix"] \in {"pending", "cancelled"}
             /\ r["t0"] = "failed" => n.at = "thrown" \/ row[exec[e].wf]["t0"] = "failed"
  PROVE  Consent'
  <1>1. exec[e].wf \in Children
    BY DEF Consent, ExecDrives
  <1>2. /\ \A x \in Execs : exec'[x] = IF x = e THEN n ELSE exec[x]
        /\ \A d \in Children : row'[d] = IF d = exec[e].wf THEN r ELSE row[d]
    BY DEF TypeOK
  <1>3. Consented \subseteq Consented'
    BY DEF Consented
  <1>4. ExecDrives' /\ ExecConsented'
    BY <1>1, <1>2, <1>3 DEF Consent, ExecDrives, ExecConsented
  <1>5. RowsConsented'
    BY <1>2, <1>3 DEF Consent, RowsConsented
  <1>6. RefusalRecorded'
    <2> SUFFICES ASSUME NEW c \in Children, c \notin Consented', row'[c]["t0"] = "failed"
                 PROVE  \/ child'[c] \in {"failed", "completed"}
                        \/ \E x \in Execs : exec'[x].at = "thrown" /\ exec'[x].wf = c
      BY DEF RefusalRecorded
    <2>1. CASE row[c]["t0"] = "failed"
      <3>1. \/ child[c] \in {"failed", "completed"}
            \/ \E x \in Execs : exec[x].at = "thrown" /\ exec[x].wf = c
        BY <2>1, <1>3 DEF Consent, RefusalRecorded
      <3>2. QED
        BY <3>1, <1>2
    <2>2. CASE row[c]["t0"] # "failed"
      <3>1. c = exec[e].wf /\ n.at = "thrown"
        BY <2>2, <1>2
      <3>2. QED
        BY <3>1, <1>2
    <2>3. QED
      BY <2>1, <2>2
  <1>7. QED
    BY <1>4, <1>5, <1>6 DEF Consent

\* The steps of an executor keep consent.
LEMMA ExecConsent ==
  ASSUME TypeOK, Consent, NEW e \in Execs, ExecStep(e)
  PROVE  Consent'
  <1> DEFINE w == exec[e].wf
  <1>1. exec[e] \in Exec /\ (exec[e].at # "idle" => w \in Children)
    BY DEF TypeOK, Consent, ExecDrives
  <1>2. row = [row EXCEPT ![w] = row[w]]
    BY DEF TypeOK
  <1>3. exec[e].at # "idle" /\ w \notin Consented =>
            /\ row[w]["t0"] \in {"pending", "failed", "cancelled"}
            /\ row[w]["fix"] \in {"pending", "cancelled"}
            /\ ~exec[e].free /\ "t0" \notin exec[e].done /\ exec[e].at # "working"
    BY <1>1 DEF Consent, RowsConsented, ExecConsented
  <1>4. CASE \/ CheckpointThrows(e) \/ NothingReady(e) \/ Completes(e) \/ ClosingThrows(e)
             \/ Aborts(e) \/ Records(e)
    <2>1. exec' = [exec EXCEPT ![e] = Idle] /\ UNCHANGED <<row, torn, approved>>
      BY <1>4 DEF CheckpointThrows, NothingReady, Completes, ClosingThrows, Aborts, Records,
                  ThrowsOut, Leaves, ExecFrame
    <2>2. \A c \in Children : child'[c] \in {child[c], "failed", "completed"}
      BY <1>4 DEF CheckpointThrows, NothingReady, Completes, ClosingThrows, Aborts, Records,
                  ThrowsOut, ChildDone, TypeOK
    <2>3. exec[e].at = "thrown" => child'[w] = "failed"
      BY <1>1, <1>4 DEF CheckpointThrows, NothingReady, Completes, ClosingThrows, Aborts,
                        Records, ChildDone, TypeOK, In, Passes
    <2>4. QED
      BY <2>1, <2>2, <2>3, LeaveConsent
  <1>5. CASE Asks(e)
    <2>1. exec[e].at = "select" /\ UNCHANGED <<child, torn, approved>>
      BY <1>5 DEF Asks, Passes, In, ExecFrame
    <2>2. CASE exec[e].free
      <3> DEFINE n == [exec[e] EXCEPT !.at = "working", !.task = "t0"]
                 r == [row[w] EXCEPT !["t0"] = "running"]
      <3>1. exec' = [exec EXCEPT ![e] = n] /\ row' = [row EXCEPT ![w] = r]
        BY <1>5, <2>2 DEF Asks
      <3>2. n.wf = w /\ w \in Consented
        BY <1>1, <2>2 DEF Exec, Consent, ExecConsented
      <3>3. w \in Consented'
        BY <2>1, <3>2 DEF Consented
      <3> HIDE DEF n, r
      <3>4. QED
        BY <2>1, <3>1, <3>2, <3>3, StayConsent
    <2>3. CASE ~exec[e].free
      <3> DEFINE n == [exec[e] EXCEPT !.at = "asking", !.task = "t0"]
      <3>1. exec' = [exec EXCEPT ![e] = n] /\ row' = [row EXCEPT ![w] = row[w]]
        BY <1>2, <1>5, <2>3 DEF Asks
      <3>2. /\ n.wf = w /\ n.at = "asking" /\ n.done = exec[e].done
            /\ n.free = exec[e].free
        BY <1>1 DEF Exec
      <3>3. Consented' = Consented
        BY <2>1 DEF Consented
      <3>4. n.at = "working" \/ "t0" \in n.done \/ n.free => w \in Consented'
        BY <1>3, <2>1, <3>2, <3>3
      <3> HIDE DEF n
      <3>5. QED
        BY <1>3, <2>1, <3>1, <3>2, <3>3, <3>4, StayConsent
    <2>4. QED
      BY <2>2, <2>3
  <1>6. CASE StartsFix(e)
    <2>1. exec[e].at = "select" /\ UNCHANGED <<child, torn, approved>> /\ "t0" \in exec[e].done
      BY <1>6 DEF StartsFix, Passes, In, ExecFrame, ReadyIn
    <2> DEFINE n == [exec[e] EXCEPT !.at = "working", !.task = "fix"]
               r == [row[w] EXCEPT !["fix"] = "running"]
    <2>2. exec' = [exec EXCEPT ![e] = n] /\ row' = [row EXCEPT ![w] = r]
      BY <1>6 DEF StartsFix
    <2>3. n.wf = w /\ w \in Consented'
      BY <1>1, <1>3, <2>1 DEF Exec, Consented
    <2> HIDE DEF n, r
    <2>4. QED
      BY <2>1, <2>2, <2>3, StayConsent
  <1>7. CASE LoopReturns(e)
    <2>1. exec[e].at = "select" /\ UNCHANGED <<row, torn, approved>>
      BY <1>7 DEF LoopReturns, Passes, In, ExecFrame
    <2>2. CASE \E t \in Tasks : row[w][t] = "failed"
      <3>1. exec' = [exec EXCEPT ![e] = Idle] /\ child' = [child EXCEPT ![w] = "failed"]
        BY <1>7, <2>2 DEF LoopReturns, Leaves, ChildDone
      <3>2. \A c \in Children : child'[c] \in {child[c], "failed", "completed"}
        BY <3>1 DEF TypeOK
      <3>3. QED
        BY <2>1, <3>1, <3>2, LeaveConsent
    <2>3. CASE ~\E t \in Tasks : row[w][t] = "failed"
      <3> DEFINE n == [exec[e] EXCEPT !.at = "closing"]
      <3>1. /\ exec' = [exec EXCEPT ![e] = n] /\ UNCHANGED child
            /\ row' = [row EXCEPT ![w] = row[w]]
        BY <1>2, <1>7, <2>1, <2>3 DEF LoopReturns, Moves
      <3>2. /\ n.wf = w /\ n.at = "closing" /\ n.done = exec[e].done
            /\ n.free = exec[e].free
        BY <1>1 DEF Exec
      <3>3. Consented' = Consented
        BY <2>1 DEF Consented
      <3>4. n.at = "working" \/ "t0" \in n.done \/ n.free => w \in Consented'
        BY <1>3, <2>1, <3>2, <3>3
      <3> HIDE DEF n
      <3>5. QED
        BY <1>3, <2>1, <3>1, <3>2, <3>3, <3>4, StayConsent
    <2>4. QED
      BY <2>2, <2>3
  <1>8. CASE Approves(e)
    <2>1. /\ exec[e].at = "asking" /\ UNCHANGED torn /\ approved' = approved \cup {w}
      BY <1>8 DEF Approves, In, ExecFrame
    <2>2. w \in Consented'
      BY <2>1 DEF Consented
    <2>3. CASE exec[e].cut
      <3>1. exec' = [exec EXCEPT ![e] = Idle] /\ UNCHANGED row
        BY <1>8, <2>3 DEF Approves, ThrowsOut, Leaves
      <3>2. \A c \in Children : child'[c] \in {child[c], "failed", "completed"}
        BY <1>8, <2>3 DEF Approves, ThrowsOut, ChildDone, TypeOK
      <3>3. QED
        BY <2>1, <3>1, <3>2, LeaveConsent
    <2>4. CASE ~exec[e].cut
      <3> DEFINE n == [exec[e] EXCEPT !.at = "working"]
                 r == [row[w] EXCEPT ![exec[e].task] = "running"]
      <3>1. exec' = [exec EXCEPT ![e] = n] /\ row' = [row EXCEPT ![w] = r] /\ UNCHANGED child
        BY <1>8, <2>4 DEF Approves, Moves, SetRow
      <3>2. n.wf = w
        BY <1>1 DEF Exec
      <3> HIDE DEF n, r
      <3>3. QED
        BY <2>1, <2>2, <3>1, <3>2, StayConsent
    <2>5. QED
      BY <2>3, <2>4
  <1>9. CASE Refuses(e)
    <2>1. exec[e].at = "asking" /\ UNCHANGED <<child, torn, approved>>
      BY <1>9 DEF Refuses, In, ExecFrame
    <2> DEFINE n == [exec[e] EXCEPT !.at = "thrown"]
               r == [row[w] EXCEPT !["t0"] = "failed"]
    <2>2. exec' = [exec EXCEPT ![e] = n]
      BY <1>9 DEF Refuses, Moves
    <2>3. /\ n.wf = w /\ n.at = "thrown" /\ n.done = exec[e].done
          /\ n.free = exec[e].free
      BY <1>1 DEF Exec
    <2>4. Consented' = Consented
      BY <2>1 DEF Consented
    <2>5. n.at = "working" \/ "t0" \in n.done \/ n.free => w \in Consented'
      BY <1>3, <2>1, <2>3, <2>4
    <2>6. CASE row' = [row EXCEPT ![w] = r]
      <3>1. w \notin Consented' =>
                /\ r["t0"] \in {"pending", "failed", "cancelled"}
                /\ r["fix"] \in {"pending", "cancelled"}
        BY <1>1, <1>3, <2>1, <2>4 DEF TypeOK, Tasks
      <3> HIDE DEF n, r
      <3>2. QED
        BY <2>1, <2>2, <2>3, <2>5, <2>6, <3>1, StayConsent
    <2>7. CASE UNCHANGED row
      <3>1. row' = [row EXCEPT ![w] = row[w]]
        BY <1>2, <2>7
      <3> HIDE DEF n
      <3>2. QED
        BY <1>3, <2>1, <2>2, <2>3, <2>4, <2>5, <3>1, StayConsent
    <2>8. QED
      BY <1>9, <2>6, <2>7 DEF Refuses
  <1>10. CASE Succeeds(e)
    <2>1. exec[e].at = "working" /\ UNCHANGED <<child, torn, approved>>
      BY <1>10 DEF Succeeds, In, ExecFrame
    <2> DEFINE n == [exec[e] EXCEPT !.at = "select", !.pend = @ \ {exec[e].task},
                                    !.done = @ \cup {exec[e].task}]
               r == [row[w] EXCEPT ![exec[e].task] = "completed"]
    <2>2. exec' = [exec EXCEPT ![e] = n] /\ row' = [row EXCEPT ![w] = r]
      BY <1>10 DEF Succeeds, SetRow
    <2>3. n.wf = w /\ w \in Consented'
      BY <1>1, <1>3, <2>1 DEF Exec, Consented
    <2> HIDE DEF n, r
    <2>4. QED
      BY <2>1, <2>2, <2>3, StayConsent
  <1>11. CASE Fails(e)
    <2>1. exec[e].at = "working" /\ UNCHANGED <<child, torn, approved>>
      BY <1>11 DEF Fails, In, ExecFrame
    <2> DEFINE n == [exec[e] EXCEPT !.at = "thrown"]
               r == [row[w] EXCEPT ![exec[e].task] = "failed"]
    <2>2. exec' = [exec EXCEPT ![e] = n] /\ row' = [row EXCEPT ![w] = r]
      BY <1>11 DEF Fails, Moves, SetRow
    <2>3. n.wf = w /\ w \in Consented'
      BY <1>1, <1>3, <2>1 DEF Exec, Consented
    <2> HIDE DEF n, r
    <2>4. QED
      BY <2>1, <2>2, <2>3, StayConsent
  <1>12. QED
    BY <1>4, <1>5, <1>6, <1>7, <1>8, <1>9, <1>10, <1>11 DEF ExecStep

\* What a cancel does to executors and rows keeps consent.
LEMMA CancelConsent ==
  ASSUME TypeOK, Consent, Calm, NEW C \in SUBSET Children, exec' = CutIn(C),
         UNCHANGED <<approved, torn>>,
         \A c \in Children : row'[c] \in {row[c], Cancelled(c)},
         \A c \in Children : child[c] \in {"failed", "completed"} => child'[c] = child[c]
  PROVE  Consent'
  <1>1. \A x \in Execs : /\ exec'[x].wf = exec[x].wf /\ exec'[x].at = exec[x].at
                         /\ exec'[x].done = exec[x].done /\ exec'[x].free = exec[x].free
    <2> SUFFICES ASSUME NEW x \in Execs
                 PROVE  /\ exec'[x].wf = exec[x].wf /\ exec'[x].at = exec[x].at
                        /\ exec'[x].done = exec[x].done /\ exec'[x].free = exec[x].free
      OBVIOUS
    <2>1. exec'[x] \in {exec[x], [exec[x] EXCEPT !.cut = TRUE]}
      BY DEF CutIn
    <2>2. exec[x] \in Exec
      BY DEF TypeOK
    <2>3. QED
      BY <2>1, <2>2 DEF Exec
  <1>2. Consented' = Consented
    BY DEF Consented
  <1>3. \A c \in Children, t \in Tasks :
           row'[c][t] # row[c][t] =>
               row[c][t] \in {"pending", "running"} /\ row'[c][t] = "cancelled"
    <2> SUFFICES ASSUME NEW c \in Children, NEW t \in Tasks, row'[c][t] # row[c][t]
                 PROVE  row[c][t] \in {"pending", "running"} /\ row'[c][t] = "cancelled"
      OBVIOUS
    <2>1. row'[c] = Cancelled(c)
      OBVIOUS
    <2>2. row'[c][t] = IF row[c][t] \in {"pending", "running"} THEN "cancelled" ELSE row[c][t]
      BY <2>1 DEF Cancelled
    <2>3. QED
      BY <2>2
  <1>4. ExecDrives' /\ ExecConsented'
    BY <1>1, <1>2 DEF Consent, ExecDrives, ExecConsented
  <1>5. RowsConsented'
    BY <1>2, <1>3 DEF Consent, RowsConsented, Tasks
  <1>6. RefusalRecorded'
    BY <1>2, <1>3 DEF Consent, RefusalRecorded, Calm, Tasks
  <1>7. QED
    BY <1>4, <1>5, <1>6 DEF Consent

\* The steps of the daemon and of the operator keep consent.
LEMMA DaemonConsent ==
  ASSUME TypeOK, Consent,
         \/ DaemonStart \/ CrashDaemon \/ CancelParent
         \/ \E c \in Children : CancelChild(c)
         \/ \E c \in Children, e \in Execs : Pickup(c, e) \/ ResumeChild(c, e) \/ SkipFailed(c, e)
  PROVE  Consent'
  <1>1. CASE DaemonStart
    BY <1>1, StatusConsent DEF DaemonStart
  <1>2. CASE CrashDaemon
    <2>1. \A e \in Execs : exec'[e].at = "idle" /\ exec'[e].done = {} /\ exec'[e].free = FALSE
      BY <1>2 DEF CrashDaemon, Idle
    <2>2. /\ Consented \subseteq Consented' /\ UNCHANGED <<row, child>>
          /\ \A e \in Execs : exec[e].at = "thrown" => exec[e].wf \in Consented'
      BY <1>2 DEF CrashDaemon, Consented
    <2>3. ExecDrives' /\ ExecConsented'
      BY <2>1 DEF ExecDrives, ExecConsented
    <2>4. RowsConsented' /\ RefusalRecorded'
      BY <2>2 DEF Consent, RowsConsented, RefusalRecorded
    <2>5. QED
      BY <2>3, <2>4 DEF Consent
  <1>3. CASE CancelParent
    <2>1. CASE parent \in {"executing", "awaiting_remediation"}
      <3> DEFINE C == {c \in Children : child[c] \in Open}
      <3>1. exec' = CutIn(C) /\ Calm /\ UNCHANGED <<approved, torn, child>>
        BY <1>3, <2>1 DEF CancelParent, Alive
      <3>2. \A c \in Children : row'[c] \in {row[c], Cancelled(c)}
        BY <1>3, <2>1 DEF CancelParent
      <3>3. QED
        BY <3>1, <3>2, CancelConsent
    <2>2. CASE parent \notin {"executing", "awaiting_remediation"}
      BY <1>3, <2>2, StatusConsent DEF CancelParent
    <2>3. QED
      BY <2>1, <2>2
  <1>4. ASSUME NEW c \in Children, CancelChild(c) PROVE Consent'
    <2>1. CASE child[c] \in Open
      <3>1. /\ exec' = CutIn({c}) /\ Calm /\ UNCHANGED <<approved, torn>>
            /\ \A d \in Children : row'[d] \in {row[d], Cancelled(d)}
        BY <1>4, <2>1 DEF CancelChild, Alive, TypeOK
      <3>2. \A d \in Children : child[d] \in {"failed", "completed"} => child'[d] = child[d]
        BY <1>4, <2>1 DEF CancelChild, Open, TypeOK
      <3>3. QED
        BY <3>1, <3>2, CancelConsent
    <2>2. CASE child[c] \notin Open
      BY <1>4, <2>2, StatusConsent DEF CancelChild
    <2>3. QED
      BY <2>1, <2>2
  <1>5. ASSUME NEW c \in Children, NEW e \in Execs, Pickup(c, e) PROVE Consent'
    <2>1. CASE child[c] = "pending"
      <3>1. /\ Calm /\ Load(e, c, row[c], FALSE, FALSE) /\ UNCHANGED <<child, torn, approved>>
            /\ row[c] \in [Tasks -> Row]
        BY <1>5, <2>1 DEF Pickup, Alive, TypeOK
      <3>2. c \notin Consented' => row[c]["t0"] \in {"pending", "cancelled"}
                                   /\ row[c]["fix"] \in {"pending", "cancelled"}
        BY <2>1, <3>1 DEF Consent, RowsConsented, RefusalRecorded, Calm, Consented
      <3>3. QED
        BY <3>1, <3>2, LoadConsent
    <2>2. CASE child[c] # "pending"
      BY <1>5, <2>2, StatusConsent DEF Pickup
    <2>3. QED
      BY <2>1, <2>2
  <1>6. ASSUME NEW c \in Children, NEW e \in Execs, ResumeChild(c, e) PROVE Consent'
    <2> DEFINE free == child[c] = "executing" /\ c \in approved
    <2>1. PICK rows \in Reset(c) : Load(e, c, rows, free, TRUE)
      BY <1>6 DEF ResumeChild
    <2>2. rows \in [Tasks -> Row] /\ free \in BOOLEAN
      BY ResetType
    <2>3. /\ Calm /\ UNCHANGED <<torn, approved>>
          /\ \A d \in Children : d # c => child'[d] = child[d]
          /\ child[c] \notin {"none", "completed"}
      BY <1>6 DEF ResumeChild, Alive, TypeOK
    <2>4. Consented' = Consented
      BY <2>3 DEF Consented
    <2>5. c \notin Consented' => rows["t0"] \in {"pending", "cancelled"}
                                 /\ rows["fix"] \in {"pending", "cancelled"}
      <3> SUFFICES ASSUME c \notin Consented
                   PROVE  rows["t0"] \in {"pending", "cancelled"}
                          /\ rows["fix"] \in {"pending", "cancelled"}
        BY <2>4
      <3>1. /\ row[c]["t0"] \in {"pending", "failed", "cancelled"}
            /\ row[c]["fix"] \in {"pending", "cancelled"}
            /\ row[c]["t0"] = "failed" => child[c] = "failed"
        BY <2>3 DEF Consent, RowsConsented, RefusalRecorded, Calm
      <3>2. CASE child[c] = "failed" /\ \E t \in Tasks : row[c][t] = "failed"
        BY <3>1, <3>2 DEF Reset, Tasks, TypeOK
      <3>3. CASE child[c] = "cancelled"
        BY <3>1, <3>3 DEF Reset, Tasks
      <3>4. CASE /\ ~(child[c] = "failed" /\ \E t \in Tasks : row[c][t] = "failed")
                 /\ child[c] # "cancelled"
        BY <3>1, <3>4 DEF Reset, Tasks
      <3>5. QED
        BY <3>2, <3>3, <3>4
    <2>6. free => c \in Consented'
      BY <2>4 DEF Consented
    <2> HIDE DEF free
    <2>7. QED
      BY <2>1, <2>2, <2>3, <2>5, <2>6, LoadConsent
  <1>7. ASSUME NEW c \in Children, NEW e \in Execs, SkipFailed(c, e) PROVE Consent'
    <2> DEFINE rows == [t \in Tasks |-> IF row[c][t] = "failed" THEN "skipped" ELSE row[c][t]]
    <2>1. rows \in [Tasks -> Row]
      BY DEF TypeOK, Row
    <2>2. /\ Calm /\ UNCHANGED torn /\ approved \subseteq approved'
          /\ \A d \in Children : d # c => child'[d] = child[d]
          /\ Load(e, c, rows, FALSE, TRUE)
          /\ row[c]["t0"] = "failed" => c \in approved'
      BY <1>7 DEF SkipFailed, Alive, TypeOK
    <2>3. c \notin Consented' => rows["t0"] \in {"pending", "cancelled"}
                                 /\ rows["fix"] \in {"pending", "cancelled"}
      BY <2>2 DEF Consent, RowsConsented, Consented, Tasks
    <2> HIDE DEF rows
    <2>4. QED
      BY <2>1, <2>2, <2>3, LoadConsent
  <1>8. QED
    BY <1>1, <1>2, <1>3, <1>4, <1>5, <1>6, <1>7

---------------------------------------------------------------------------
(* Parents that wait *)

\* Every step leaves a waiting parent a child that has not failed: a parent
\* starts to wait with a spawn, and a child that fails takes its parent along.
LEMMA StepWait ==
  ASSUME TypeOK, ExecDrives, NoWaitForFailed, Next
  PROVE  NoWaitForFailed'
  <1> USE DEF NoWaitForFailed, counters, childVars, parentVars
  <1>1. ASSUME NEW s \in Sources, SourceMoves(s) PROVE NoWaitForFailed'
    <2>1. CASE Spawn(s)
      BY <2>1 DEF Spawn, TypeOK
    <2>2. CASE GatePasses(s) \/ ReviewAborted(s) \/ NoSpawn(s)
      BY <2>2 DEF GatePasses, ReviewAborted, NoSpawn
    <2>3. QED
      BY <1>1, <2>1, <2>2 DEF SourceMoves
  <1>2. CASE BatchThrows \/ BatchPasses \/ ResumeParent \/ CrashTerminal
    BY <1>2 DEF BatchThrows, BatchPasses, ResumeParent, CrashTerminal
  <1>3. ASSUME NEW e \in Execs, ExecStep(e) PROVE NoWaitForFailed'
    <2>1. \/ UNCHANGED <<parent, child>>
          \/ ChildDone(exec[e].wf, "failed")
          \/ ChildDone(exec[e].wf, "completed") /\ exec[e].at = "closing"
      BY <1>3 DEF ExecStep, CheckpointThrows, Asks, StartsFix, NothingReady, LoopReturns, Completes,
         ClosingThrows, Approves, Refuses, Succeeds, Fails, Aborts, Records, ThrowsOut, In
    <2>2. CASE ChildDone(exec[e].wf, "failed")
      BY <2>2 DEF ChildDone, Propagate
    <2>3. CASE ChildDone(exec[e].wf, "completed") /\ exec[e].at = "closing"
      BY <2>3 DEF ChildDone, ExecDrives, TypeOK
    <2>4. QED
      BY <2>1, <2>2, <2>3, SMTT(20)
  <1>4. CASE DaemonStart \/ CrashDaemon
    BY <1>4 DEF DaemonStart, CrashDaemon
  <1>5. CASE CancelParent
    BY <1>5 DEF CancelParent
  <1>6. ASSUME NEW c \in Children, CancelChild(c) PROVE NoWaitForFailed'
    BY <1>6 DEF CancelChild, TypeOK, Open
  <1>7. ASSUME NEW c \in Children, NEW e \in Execs,
               Pickup(c, e) \/ ResumeChild(c, e) \/ SkipFailed(c, e)
        PROVE  NoWaitForFailed'
    BY <1>7 DEF Pickup, ResumeChild, SkipFailed, TypeOK
  <1>8. QED
    BY <1>1, <1>2, <1>3, <1>4, <1>5, <1>6, <1>7 DEF Next

---------------------------------------------------------------------------
(* The theorems *)

\* The invariant is inductive.
LEMMA StepIInv == IInv /\ [Next]_vars => IInv'
  <1> SUFFICES ASSUME IInv, [Next]_vars PROVE IInv'
    OBVIOUS
  <1>1. CASE Next
    <2>1. Consent
      BY DEF IInv, Consent
    <2>2. NoWaitForFailed'
      BY <1>1, StepWait DEF IInv
    <2>3. TypeOK' /\ Consent'
      <3>1. CASE \/ \E s \in Sources : SourceMoves(s)
                 \/ BatchThrows \/ BatchPasses \/ ResumeParent \/ CrashTerminal
        BY <2>1, <3>1, ParentType, ParentConsent DEF IInv
      <3>2. CASE \E e \in Execs : ExecStep(e)
        BY <2>1, <3>2, ExecType, ExecConsent DEF IInv
      <3>3. CASE \/ DaemonStart \/ CrashDaemon \/ CancelParent
                 \/ \E c \in Children : CancelChild(c)
                 \/ \E c \in Children, e \in Execs :
                       Pickup(c, e) \/ ResumeChild(c, e) \/ SkipFailed(c, e)
        BY <2>1, <3>3, DaemonType, DaemonConsent DEF IInv
      <3>4. QED
        BY <1>1, <3>1, <3>2, <3>3 DEF Next
    <2>4. QED
      BY <2>2, <2>3 DEF IInv, Consent
  <1>2. CASE UNCHANGED vars
    BY <1>2 DEF vars, parentVars, childVars, counters, IInv, TypeOK, ExecDrives, ExecConsented,
                RowsConsented, RefusalRecorded, NoWaitForFailed, Consented
  <1>3. QED
    BY <1>1, <1>2

LEMMA Inductive == Spec => []IInv
  BY InitIInv, StepIInv, PTL DEF Spec

\* Every variable keeps its type.
THEOREM TypeCorrect == Spec => []TypeOK
  BY Inductive, PTL DEF IInv

\* No fix task runs before t0 was let pass, but for the torn failure.
THEOREM ConsentFirst == Spec => []FixNeedsConsent
  <1>1. IInv => FixNeedsConsent
    BY DEF IInv, ExecConsented, FixNeedsConsent, Consented
  <1>2. QED
    BY <1>1, Inductive, PTL

\* A parent that waits has a child that has not failed.
THEOREM ParentWaitsForSomething == Spec => []NoWaitForFailed
  BY Inductive, PTL DEF IInv

\* A child's outcome is passed on to a parent that waits, and to no other.
THEOREM OnlyWaitingParents == Spec => WaitingParentOnly
  <1>1. IInv /\ [Next]_vars =>
          [parent # "awaiting_remediation" /\ child' # child /\ parent' # parent =>
              parent' = "awaiting_remediation"]_vars
    <2> SUFFICES ASSUME IInv, Next, parent # "awaiting_remediation", child' # child
                 PROVE  parent' \in {parent, "awaiting_remediation"}
      OBVIOUS
    <2> USE DEF childVars, parentVars
    <2>1. CASE \/ \E s \in Sources : SourceMoves(s)
               \/ BatchThrows \/ BatchPasses \/ ResumeParent \/ CrashTerminal
      BY <2>1, SMTT(20) DEF SourceMoves, GatePasses, ReviewAborted, NoSpawn, Spawn, BatchThrows,
                  BatchPasses, ResumeParent, CrashTerminal
    <2>2. CASE \E e \in Execs : ExecStep(e)
      BY <2>2 DEF ExecStep, CheckpointThrows, Asks, StartsFix, NothingReady, LoopReturns,
         Completes, ClosingThrows, Approves, Refuses, Succeeds, Fails, Aborts, Records, ThrowsOut,
         ChildDone, Propagate
    <2>3. CASE \/ DaemonStart \/ CrashDaemon \/ CancelParent
               \/ \E c \in Children : CancelChild(c)
               \/ \E c \in Children, e \in Execs :
                     Pickup(c, e) \/ ResumeChild(c, e) \/ SkipFailed(c, e)
      BY <2>3 DEF DaemonStart, CrashDaemon, CancelParent, CancelChild, Pickup, ResumeChild,
                  SkipFailed
    <2>4. QED
      BY <2>1, <2>2, <2>3 DEF Next
  <1>2. QED
    BY <1>1, Inductive, PTL DEF WaitingParentOnly, Spec

\* Only a resume brings a cancelled row back.
THEOREM CancelledRowsStayDown == Spec => CancelledStaysDown
  <1>1. IInv /\ [Next]_vars =>
          [\A c \in Children, t \in Tasks :
              row[c][t] = "cancelled" /\ row'[c][t] = "pending" => resumes' > resumes]_vars
    <2> SUFFICES ASSUME IInv, Next, NEW c \in Children, NEW t \in Tasks,
                        row[c][t] = "cancelled", row'[c][t] = "pending"
                 PROVE  resumes' > resumes
      OBVIOUS
    <2> USE DEF childVars, parentVars
    <2>1. CASE \/ \E s \in Sources : SourceMoves(s)
               \/ BatchThrows \/ BatchPasses \/ ResumeParent \/ CrashTerminal
               \/ DaemonStart \/ CrashDaemon
      BY <2>1 DEF SourceMoves, GatePasses, ReviewAborted, NoSpawn, Spawn, Settles, BatchThrows,
                  BatchPasses, ResumeParent, CrashTerminal, DaemonStart, CrashDaemon
    <2>2. ASSUME NEW e \in Execs, ExecStep(e) PROVE FALSE
      <3>1. \/ UNCHANGED row
            \/ SetRow(e, "running") \/ SetRow(e, "completed") \/ SetRow(e, "failed")
            \/ \E u \in Tasks, v \in {"running", "failed"} :
                  row' = [row EXCEPT ![exec[e].wf][u] = v]
        BY <2>2 DEF ExecStep, CheckpointThrows, Asks, StartsFix, NothingReady, LoopReturns,
           Completes, ClosingThrows, Approves, Refuses, Succeeds, Fails, Aborts, Records, Tasks
      <3>2. \E u \in Tasks, v \in {"running", "completed", "failed"} :
                row' = [row EXCEPT ![exec[e].wf][u] = v]
        BY <3>1 DEF SetRow, IInv, TypeOK, Exec
      <3>3. QED
        BY <3>2 DEF IInv, TypeOK
    <2>3. CASE CancelParent \/ \E d \in Children : CancelChild(d)
      <3> row \in [Children -> [Tasks -> Row]]
        BY DEF IInv, TypeOK
      <3>1. row'[c] = row[c] \/ row'[c] = Cancelled(c)
        <4>1. CASE CancelParent
          <5>1. \/ row' = row
                \/ \E C \in SUBSET Children :
                      row' = [d \in Children |-> IF d \in C THEN Cancelled(d) ELSE row[d]]
            BY <4>1, Zenon DEF CancelParent
          <5>2. QED
            BY <5>1, Zenon
        <4>2. ASSUME NEW d \in Children, CancelChild(d)
              PROVE  row'[c] = row[c] \/ row'[c] = Cancelled(c)
          <5>1. row' = row \/ row' = [row EXCEPT ![d] = Cancelled(d)]
            BY <4>2, Zenon DEF CancelChild
          <5>2. QED
            BY <5>1, Zenon
        <4>3. QED
          BY <2>3, <4>1, <4>2
      <3>2. Cancelled(c)[t] = IF row[c][t] \in {"pending", "running"}
                                THEN "cancelled" ELSE row[c][t]
        BY DEF Cancelled
      <3>3. QED
        BY <3>1, <3>2
    <2>4. ASSUME NEW d \in Children, NEW e \in Execs, Pickup(d, e) PROVE FALSE
      <3>1. row'[c][t] \in {row[c][t], IF row[c][t] = "running" THEN "pending" ELSE row[c][t]}
        BY <2>4 DEF Pickup, Load, IInv, TypeOK
      <3>2. QED
        BY <3>1
    <2>5. ASSUME NEW d \in Children, NEW e \in Execs, ResumeChild(d, e) \/ SkipFailed(d, e)
          PROVE  resumes' > resumes
      <3>1. resumes' = resumes + 1
        BY <2>5 DEF ResumeChild, SkipFailed
      <3>2. resumes \in Nat
        BY BoundAssumption DEF IInv, TypeOK
      <3>3. QED
        BY <3>1, <3>2
    <2>6. QED
      BY <2>1, <2>2, <2>3, <2>4, <2>5 DEF Next
  <1>2. QED
    BY <1>1, Inductive, PTL DEF CancelledStaysDown, Spec

=============================================================================
