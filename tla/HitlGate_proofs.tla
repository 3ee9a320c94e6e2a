-------------------------- MODULE HitlGate_proofs --------------------------
(***************************************************************************)
(* For every set of gates, channels and remote handlers: the types, that   *)
(* no gate is left pending without somebody waiting at it, that a timeout  *)
(* never overwrites a decision, and that HitlGate implements Approval.     *)
(***************************************************************************)
EXTENDS HitlGate, TLAPS

\* Where the executor waits there is a gate.
WaitsAtGate == stage \in Waiting => gate \in Gates

\* A consent in the table has been given.
ConsentsGranted == \A g \in Gates : status[g] \in Consents => g \in granted

\* The flag is cleared, and the task let go, only after a consent.
LetGoGranted == ~flag \/ stage \in {"released", "working"} => granted # {}

\* A gate not marked has not been reported.
ReportedMarked == \A g \in Gates : announced[g] # 0 => g \in marked

IInv ==
    /\ TypeOK
    /\ NoPhantomGate
    /\ WaitsAtGate
    /\ ConsentsGranted
    /\ LetGoGranted
    /\ ReportedMarked
    /\ ReportedOnce

\* The initial states satisfy the inductive invariant.
LEMMA InitIInv == Init => IInv
  BY GateAssumption DEF Init, IInv, TypeOK, NoPhantomGate, WaitsAtGate, ConsentsGranted,
     LetGoGranted, ReportedMarked, ReportedOnce, GateStatus, Decisions, Consents, Waiting, Nothing

\* What a write of a gate's row leaves true: types, consents, and who is pending.
LEMMA ResolveKeeps ==
  ASSUME IInv, NEW g \in Gates, NEW d \in Decisions \cup {"timed_out"}, Resolve(g, d)
  PROVE  /\ status' \in [Gates -> GateStatus]
         /\ latest' \in Gates \cup {NoGate}
         /\ granted' \subseteq Gates
         /\ granted \subseteq granted'
         /\ ConsentsGranted'
         /\ status'[g] = d
         /\ \A h \in Gates : h # g => status'[h] = status[h]
  BY DEF IInv, TypeOK, Resolve, ConsentsGranted, GateStatus, Decisions, Consents

\* The same of markGateTimedOut, after which the gate is not pending.
LEMMA MarkKeeps ==
  ASSUME IInv, NEW g \in Gates, MarkTimedOut(g)
  PROVE  /\ status' \in [Gates -> GateStatus]
         /\ latest' \in Gates \cup {NoGate}
         /\ granted' = granted
         /\ ConsentsGranted'
         /\ status'[g] # "pending"
         /\ \A h \in Gates : h # g => status'[h] = status[h]
         /\ \A h \in Gates : status[h] \in Decisions => status'[h] = status[h]
  BY DEF IInv, TypeOK, MarkTimedOut, Resolve, ConsentsGranted, GateStatus, Decisions, Consents

---------------------------------------------------------------------------
(* The inductive invariant, action by action *)

\* Opening a gate, and the step past a cleared flag.
LEMMA OpeningKeeps ==
  ASSUME IInv, OpenGate \/ OpenApproved \/ Unflagged
  PROVE  IInv'
  <1> USE DEF IInv, TypeOK, NoPhantomGate, WaitsAtGate, ConsentsGranted, LetGoGranted,
              ReportedMarked, ReportedOnce, GateStatus, Decisions, Consents, Waiting, rows, executor, history
  <1>1. CASE OpenGate
    <2>1. PICK g \in Gates : /\ status[g] = "none"
                             /\ status' = [status EXCEPT ![g] = "pending"]
                             /\ gate' = g
      BY <1>1 DEF OpenGate
    <2>2. QED
      BY <1>1, <2>1 DEF OpenGate
  <1>2. CASE OpenApproved
    <2>1. PICK g \in Gates : Resolve(g, "approved") /\ gate' = g
      BY <1>2 DEF OpenApproved
    <2>2. g \in granted'
      BY <2>1 DEF Resolve
    <2>3. QED
      BY <1>2, <2>1, <2>2, ResolveKeeps DEF OpenApproved
  <1>3. CASE Unflagged
    BY <1>3 DEF Unflagged
  <1>4. QED
    BY <1>1, <1>2, <1>3

\* The poll and its deadline, the terminal, and a poll left behind.
LEMMA AnswerKeeps ==
  ASSUME IInv, PollSees \/ PollLapses \/ SlackFallsBack \/ TerminalAnswers \/ DetachedPollEnds
  PROVE  IInv'
  <1> USE DEF IInv, TypeOK, NoPhantomGate, WaitsAtGate, ConsentsGranted, LetGoGranted,
              ReportedMarked, ReportedOnce, GateStatus, Decisions, Consents, Waiting, rows, executor, history
  <1>1. CASE PollSees
    BY <1>1 DEF PollSees, Follow, RunFails
  <1>2. CASE PollLapses
    <2>1. gate \in Gates /\ MarkTimedOut(gate)
      BY <1>2 DEF PollLapses
    <2>2. QED
      BY <1>2, <2>1, MarkKeeps DEF PollLapses, RunFails
  <1>3. CASE SlackFallsBack
    BY <1>3 DEF SlackFallsBack
  <1>4. CASE TerminalAnswers
    <2>1. gate \in Gates
      BY <1>4 DEF TerminalAnswers, Prompted
    <2>2. PICK d \in {"approved", "rejected"} : Resolve(gate, d) /\ Follow(d)
      BY <1>4 DEF TerminalAnswers
    <2>3. d = "approved" => gate \in granted'
      BY <2>2 DEF Resolve
    <2>4. stage' \in {"released", "down"} /\ (stage' = "released" => d = "approved")
          /\ row' \in {"pending", "running", "completed", "failed"}
          /\ wfStatus' \in {"executing", "completed", "failed"}
      BY <2>2 DEF Follow, RunFails
    <2>5. granted \subseteq granted' /\ ConsentsGranted' /\ status'[gate] = d
          /\ \A h \in Gates : h # gate => status'[h] = status[h]
      BY <2>1, <2>2, ResolveKeeps
    <2>6. status' \in [Gates -> GateStatus] /\ latest' \in Gates \cup {NoGate} /\ granted' \subseteq Gates
      BY <2>1, <2>2, ResolveKeeps
    <2>7. detached' \subseteq Gates
      BY <1>4, <2>1 DEF TerminalAnswers
    <2>8. TypeOK'
      BY <1>4, <2>4, <2>6, <2>7 DEF TerminalAnswers
    <2>9. QED
      BY <1>4, <2>3, <2>4, <2>5, <2>8 DEF TerminalAnswers
  <1>5. CASE DetachedPollEnds
    <2>1. PICK g \in detached : detached' = detached \ {g} /\ MarkTimedOut(g)
      BY <1>5 DEF DetachedPollEnds
    <2>2. QED
      BY <1>5, <2>1, MarkKeeps DEF DetachedPollEnds
  <1>6. QED
    BY <1>1, <1>2, <1>3, <1>4, <1>5

\* The task's body, crashes, resumes and the recovery of orphans.
LEMMA TaskKeeps ==
  ASSUME IInv, \/ StartsWork \/ TaskFails \/ TaskSucceeds \/ Crash
               \/ ResumeFailed \/ ResumeInterrupted \/ RetryTask \/ Surface
  PROVE  IInv'
  <1> USE DEF IInv, TypeOK, NoPhantomGate, WaitsAtGate, ConsentsGranted, LetGoGranted,
              ReportedMarked, ReportedOnce, Consents, Waiting, rows, executor, history
  <1>1. CASE StartsWork \/ TaskFails \/ TaskSucceeds
    BY <1>1 DEF StartsWork, TaskFails, TaskSucceeds, RunFails
  <1>2. CASE Crash
    BY <1>2 DEF Crash
  <1>3. CASE ResumeFailed \/ RetryTask
    BY <1>3 DEF ResumeFailed, RetryTask, Continue
  <1>4. CASE ResumeInterrupted
    <2>1. Settles => granted # {}
      BY DEF Settles
    <2>2. QED
      BY <1>4, <2>1 DEF ResumeInterrupted, Continue
  <1>5. CASE Surface
    <2>1. PICK g \in Gates :
            /\ g \notin marked
            /\ marked' = marked \cup {g}
            /\ \E sent \in {0, 1} : announced' = [announced EXCEPT ![g] = @ + sent]
      BY <1>5 DEF Surface
    <2>2. announced[g] = 0
      BY <2>1
    <2>3. QED
      BY <1>5, <2>1, <2>2 DEF Surface
  <1>6. QED
    BY <1>1, <1>2, <1>3, <1>4, <1>5

\* The deciders, in the executor's process and in others.
LEMMA DecideKeeps ==
  ASSUME IInv, Decide \/ \E p \in Remote : RemoteChecks(p) \/ RemoteWrites(p)
  PROVE  IInv'
  <1> USE DEF IInv, TypeOK, NoPhantomGate, WaitsAtGate, LetGoGranted,
              ReportedMarked, ReportedOnce, Waiting, rows, executor, history
  <1>1. CASE Decide
    <2>1. PICK g \in Gates, d \in Decisions : Resolve(g, d)
      BY <1>1 DEF Decide
    <2>2. QED
      BY <1>1, <2>1, ResolveKeeps DEF Decide, Decisions
  <1>2. ASSUME NEW p \in Remote, RemoteChecks(p)
        PROVE  IInv'
    <2>1. held' \in [Remote -> [gate : Gates \cup {NoGate}, decision : Decisions]]
      BY <1>2 DEF RemoteChecks
    <2>2. QED
      BY <1>2, <2>1 DEF RemoteChecks, ConsentsGranted
  <1>3. ASSUME NEW p \in Remote, RemoteWrites(p)
        PROVE  IInv'
    <2>1. held[p].gate \in Gates /\ held[p].decision \in Decisions
      BY <1>3 DEF RemoteWrites
    <2>2. held' \in [Remote -> [gate : Gates \cup {NoGate}, decision : Decisions]]
      BY <1>3 DEF RemoteWrites, Nothing, Decisions
    <2>3. QED
      BY <1>3, <2>1, <2>2, ResolveKeeps DEF RemoteWrites, Decisions
  <1>4. QED
    BY <1>1, <1>2, <1>3

\* Every step keeps the inductive invariant.
LEMMA NextIInv == IInv /\ [Next]_vars => IInv'
  <1> SUFFICES ASSUME IInv, [Next]_vars
               PROVE  IInv'
    OBVIOUS
  <1>1. CASE Next
    BY <1>1, OpeningKeeps, AnswerKeeps, TaskKeeps, DecideKeeps
       DEF Next, ExecutorStep, OperatorStep
  <1>2. CASE UNCHANGED vars
    BY <1>2 DEF vars, rows, executor, history, IInv, TypeOK, NoPhantomGate, WaitsAtGate,
       ConsentsGranted, LetGoGranted, ReportedMarked, ReportedOnce
  <1>3. QED
    BY <1>1, <1>2

\* The inductive invariant holds throughout.
THEOREM Inductive == Spec => []IInv
  BY InitIInv, NextIInv, PTL DEF Spec

---------------------------------------------------------------------------

\* The variables keep their types.
THEOREM TypeCorrect == Spec => []TypeOK
  <1>1. IInv => TypeOK
    BY DEF IInv
  <1>2. QED
    BY <1>1, Inductive, PTL

\* An orphan is reported at most once: a gate is marked before its report, whether or not
\* the report succeeds.
THEOREM OrphansReportedOnce == Spec => []ReportedOnce
  <1>1. IInv => ReportedOnce
    BY DEF IInv
  <1>2. QED
    BY <1>1, Inductive, PTL

\* No gate is left pending that nobody is waiting at, except by a crash.
THEOREM NoPhantom == Spec => []NoPhantomGate
  <1>1. IInv => NoPhantomGate
    BY DEF IInv
  <1>2. QED
    BY <1>1, Inductive, PTL

\* A timeout never overwrites a decision: markGateTimedOut looks at the row in the
\* statement that writes it, and nothing else writes timed_out.
THEOREM TimeoutsKeepDecisions == Spec => TimeoutNeverClobbers
  <1> DEFINE Kept == \A g \in Gates : status[g] \in Decisions => status'[g] # "timed_out"
  <1>1. IInv /\ [Next]_vars => [Kept]_vars
    <2> SUFFICES ASSUME IInv, Next, NEW g \in Gates, status[g] \in Decisions
                 PROVE  status'[g] # "timed_out"
      BY DEF Kept
    <2> USE DEF IInv, TypeOK, Decisions, rows, history
    <2>1. CASE PollLapses \/ DetachedPollEnds
      <3>1. PICK h \in Gates : MarkTimedOut(h)
        BY <2>1 DEF PollLapses, DetachedPollEnds, WaitsAtGate, Waiting
      <3>2. status'[g] = status[g]
        BY <3>1, MarkKeeps DEF Decisions
      <3>3. QED
        BY <3>2
    <2>2. CASE OpenGate \/ OpenApproved \/ TerminalAnswers \/ Decide
      BY <2>2 DEF OpenGate, OpenApproved, TerminalAnswers, Decide, Resolve
    <2>3. ASSUME NEW p \in Remote, RemoteChecks(p) \/ RemoteWrites(p)
          PROVE  status'[g] # "timed_out"
      BY <2>3 DEF RemoteChecks, RemoteWrites, Resolve
    <2>4. CASE Unflagged \/ PollSees \/ SlackFallsBack \/ Crash
      BY <2>4 DEF Unflagged, PollSees, SlackFallsBack, Crash
    <2>5. CASE StartsWork \/ TaskFails \/ TaskSucceeds \/ Surface
      BY <2>5 DEF StartsWork, TaskFails, TaskSucceeds, Surface
    <2>6. CASE ResumeFailed \/ ResumeInterrupted \/ RetryTask
      BY <2>6 DEF ResumeFailed, ResumeInterrupted, RetryTask, Continue
    <2>7. QED
      BY <2>1, <2>2, <2>3, <2>4, <2>5, <2>6 DEF Next, ExecutorStep, OperatorStep
  <1>2. QED
    BY <1>1, Inductive, PTL DEF Spec, TimeoutNeverClobbers

---------------------------------------------------------------------------
(* HitlGate implements Approval *)

\* Writing a gate's row gives a consent or changes no consent.
LEMMA ResolveConsents ==
  ASSUME NEW g \in Gates, NEW d, Resolve(g, d)
  PROVE  granted' = granted \cup {g} \/ granted' = granted
  BY DEF Resolve

\* Every step of the gate is a step of the promise, or a stutter.
LEMMA StepImplements ==
  ASSUME IInv, [Next]_vars
  PROVE  [Promise!Next]_<<granted, stage = "working">>
  <1> USE DEF rows, executor, history, Promise!Next
  <1>1. CASE OpenApproved \/ TerminalAnswers \/ Decide
    <2>1. PICK g \in Gates, d \in Decisions : Resolve(g, d)
      BY <1>1 DEF OpenApproved, TerminalAnswers, Decide, Prompted, IInv, WaitsAtGate, Waiting, Decisions
    <2>2. (stage # "working" /\ stage' # "working") \/ stage' = stage
      BY <1>1 DEF OpenApproved, TerminalAnswers, Decide, Prompted, Follow, RunFails
    <2>3. QED
      BY <2>1, <2>2, ResolveConsents DEF Promise!Consent
  <1>2. ASSUME NEW p \in Remote, RemoteChecks(p) \/ RemoteWrites(p)
        PROVE  [Promise!Next]_<<granted, stage = "working">>
    <2>1. held[p].gate \in Gates \cup {NoGate}
      BY DEF IInv, TypeOK
    <2>2. QED
      BY <1>2, <2>1, ResolveConsents DEF RemoteChecks, RemoteWrites, Promise!Consent
  <1>3. CASE PollLapses \/ DetachedPollEnds
    <2>1. PICK g \in Gates : MarkTimedOut(g)
      BY <1>3 DEF PollLapses, DetachedPollEnds, IInv, TypeOK, WaitsAtGate, Waiting
    <2>2. granted' = granted
      BY <2>1, MarkKeeps
    <2>3. (stage # "working" /\ stage' # "working") \/ stage' = stage
      BY <1>3 DEF PollLapses, DetachedPollEnds, RunFails
    <2>4. QED
      BY <2>2, <2>3
  <1>4. CASE StartsWork
    <2>1. granted # {} /\ stage' = "working" /\ granted' = granted
      BY <1>4 DEF StartsWork, IInv, LetGoGranted
    <2>2. QED
      BY <2>1 DEF Promise!Work
  <1>5. CASE TaskFails \/ TaskSucceeds \/ Crash
    <2>1. stage' = "down" /\ granted' = granted
      BY <1>5 DEF TaskFails, TaskSucceeds, Crash, RunFails
    <2>2. QED
      BY <2>1 DEF Promise!Stop
  <1>6. CASE OpenGate \/ Unflagged \/ PollSees \/ SlackFallsBack \/ Surface
    <2>1. granted' = granted /\ ((stage # "working" /\ stage' # "working") \/ stage' = stage)
      BY <1>6 DEF OpenGate, Unflagged, PollSees, SlackFallsBack, Surface, Follow, RunFails
    <2>2. QED
      BY <2>1
  <1>7. CASE ResumeFailed \/ ResumeInterrupted \/ RetryTask
    BY <1>7 DEF ResumeFailed, ResumeInterrupted, RetryTask, Continue
  <1>8. CASE UNCHANGED vars
    BY <1>8 DEF vars
  <1>9. QED
    BY <1>1, <1>2, <1>3, <1>4, <1>5, <1>6, <1>7, <1>8 DEF Next, ExecutorStep, OperatorStep

\* The gate implements the promise of the flag: no task works without a consent.
THEOREM Implements == Spec => KeepsPromise
  <1>1. Init => Promise!Init
    BY DEF Init, Promise!Init
  <1>2. IInv /\ [Next]_vars => [Promise!Next]_<<granted, stage = "working">>
    BY StepImplements
  <1>3. QED
    BY <1>1, <1>2, Inductive, PTL DEF Spec, KeepsPromise, Promise!Spec
=============================================================================
