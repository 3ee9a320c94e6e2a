------------------------------ MODULE HitlGate ------------------------------
(***************************************************************************)
(* The human-in-the-loop gate of one flagged task: runHitlGate with its    *)
(* channels, the poll of the gate's row and its deadline, everybody who    *)
(* may decide (brain/executor/hitl-gate.ts, hitl/, mcp/), what a resume    *)
(* makes of decided gates (brain/executor/resume.ts) and the recovery of   *)
(* orphans at daemon start (db/hitl-orphan-recovery.ts).                   *)
(*                                                                         *)
(* The rows (status, latest, flag, row, wfStatus, marked) survive a crash  *)
(* of the executor.  A handler in the executor's own process is one        *)
(* action; one in another process may be interleaved between its read and  *)
(* its write.                                                              *)
(***************************************************************************)
EXTENDS Naturals, FiniteSets

CONSTANTS
    Gates,          \* bound: the gates that can be opened for the task
    Channels,       \* the channels the workspace may be configured for
    AutoApprove,    \* autoApprove, or matchesAutoApprovePolicy
    Remote,         \* handlers that run in another process than the executor
    NoGate

ASSUME GateAssumption ==
    /\ IsFiniteSet(Gates)
    /\ NoGate \notin Gates
    /\ Channels \subseteq {"terminal", "detached", "slack", "telegram"}
    /\ AutoApprove \subseteq BOOLEAN

VARIABLES
    status,     \* hitl_gates.status, "none" before the gate is inserted
    latest,     \* the gate with the greatest decided_at
    flag,       \* tasks.hitl
    row,        \* tasks.status
    wfStatus,   \* workflows.status
    marked,     \* the gates whose context_json holds recovery_attempted_at
    stage,      \* where the executor is with the task; "down" without an executor
    gate,       \* the gate it waits at
    channel,    \* the channel of the workspace's .hitl.json and of the process's stdin
    detached,   \* gates still polled after the terminal won the race
    held,       \* what a handler of another process has checked and not written
    granted,    \* history: the gates at which somebody consented
    orphans,    \* history: gates whose executor died while asking
    announced   \* history: how often a gate was reported as an orphan

rows     == <<status, latest, flag, row, wfStatus, marked>>
executor == <<stage, gate, channel, detached>>
history  == <<granted, orphans, announced>>
vars     == <<rows, executor, held, history>>

Decisions  == {"approved", "rejected", "modify"}
GateStatus == Decisions \cup {"none", "pending", "timed_out"}
\* A modify consents too: a resume goes on with the modified input.
Consents   == {"approved", "modify"}
Waiting    == {"asking", "prompting"}
Nothing    == [gate |-> NoGate, decision |-> "rejected"]

TypeOK ==
    /\ status \in [Gates -> GateStatus]
    /\ latest \in Gates \cup {NoGate}
    /\ flag \in BOOLEAN
    /\ row \in {"pending", "running", "completed", "failed"}
    /\ wfStatus \in {"executing", "completed", "failed"}
    /\ marked \subseteq Gates
    /\ stage \in Waiting \cup {"down", "ready", "released", "working"}
    /\ gate \in Gates \cup {NoGate}
    /\ channel \in Channels
    /\ detached \subseteq Gates
    /\ held \in [Remote -> [gate : Gates \cup {NoGate}, decision : Decisions]]
    /\ granted \subseteq Gates
    /\ orphans \subseteq Gates
    /\ announced \in [Gates -> Nat]

Init ==
    /\ status = [g \in Gates |-> "none"]
    /\ latest = NoGate
    /\ flag = TRUE
    /\ row = "pending"
    /\ wfStatus = "executing"
    /\ marked = {}
    /\ stage = "ready"
    /\ gate = NoGate
    /\ channel \in Channels
    /\ detached = {}
    /\ held = [p \in Remote |-> Nothing]
    /\ granted = {}
    /\ orphans = {}
    /\ announced = [g \in Gates |-> 0]

---------------------------------------------------------------------------
(* Writes of a gate's row *)

\* resolveHitlGate: whatever the row holds.
Resolve(g, decision) ==
    /\ status' = [status EXCEPT ![g] = decision]
    /\ latest' = g
    /\ granted' = IF decision \in Consents THEN granted \cup {g} ELSE granted

\* Mutant: the status is not looked at.
MarkTimedOut_Unconditional(g) ==
    /\ status' = [status EXCEPT ![g] = "timed_out"]
    /\ latest' = g
    /\ UNCHANGED granted

\* markGateTimedOut: only a pending row.
MarkTimedOut(g) ==
    IF status[g] = "pending"
      THEN Resolve(g, "timed_out")
      ELSE UNCHANGED <<status, latest, granted>>

---------------------------------------------------------------------------
(* runHitlGate *)

\* The run ends with the workflow failed; the row is what the gate left.
RunFails(taskRow) ==
    /\ stage' = "down"
    /\ row' = taskRow
    /\ wfStatus' = "failed"

\* A flagged task: the gate is inserted and somebody is asked.
OpenGate ==
    /\ stage = "ready"
    /\ flag
    /\ FALSE \in AutoApprove
    /\ \E g \in Gates :
         /\ status[g] = "none"
         /\ status' = [status EXCEPT ![g] = "pending"]
         /\ gate' = g
    /\ stage' = "asking"
    /\ UNCHANGED <<latest, flag, row, wfStatus, marked, channel, detached, held, history>>

\* A gate approved as soon as it is inserted, in the same synchronous stretch.
OpenApproved ==
    /\ stage = "ready"
    /\ flag
    /\ TRUE \in AutoApprove
    /\ \E g \in Gates :
         /\ status[g] = "none"
         /\ Resolve(g, "approved")
         /\ gate' = g
    /\ stage' = "released"
    /\ UNCHANGED <<flag, row, wfStatus, marked, channel, detached, held, orphans, announced>>

Unflagged ==
    /\ stage = "ready"
    /\ ~flag
    /\ stage' = "released"
    /\ UNCHANGED <<rows, gate, channel, detached, held, history>>

\* What the executor does with an answer: go on, stop with the row failed, or
\* (a modify) throw HitlModifyError with the row as it is.
Follow(decision) ==
    \/ /\ decision = "approved"
       /\ stage' = "released"
       /\ UNCHANGED <<row, wfStatus>>
    \/ /\ decision = "modify"
       /\ RunFails(row)
    \/ /\ decision \notin Consents
       /\ RunFails("failed")

\* The poll reads a row that is no longer pending.
PollSees ==
    /\ stage = "asking"
    /\ status[gate] # "pending"
    /\ Follow(status[gate])
    /\ UNCHANGED <<status, latest, flag, marked, gate, channel, detached, held, history>>

\* Mutant: the gate is left as it is when its poll times out.
PollLapses_NotMarked ==
    /\ stage = "asking"
    /\ channel # "slack"
    /\ RunFails(row)
    /\ UNCHANGED <<status, latest, granted, flag, marked, gate, channel, detached, held, orphans, announced>>

\* Mutant: only the channels without a prompt have a deadline.
PollLapses_NotTerminal ==
    /\ stage = "asking"
    /\ channel \in {"detached", "telegram"}
    /\ MarkTimedOut(gate)
    /\ RunFails(row)
    /\ UNCHANGED <<flag, marked, gate, channel, detached, held, orphans, announced>>

\* The deadline is looked at before the row, so a decision of the last interval
\* is not seen any more.
PollLapses ==
    /\ stage = "asking"
    /\ channel # "slack"
    /\ MarkTimedOut(gate)
    /\ RunFails(row)
    /\ UNCHANGED <<flag, marked, gate, channel, detached, held, orphans, announced>>

\* The Slack poll times out, or its listener cannot start: the terminal is asked
\* and the row is not read again.
SlackFallsBack ==
    /\ stage = "asking"
    /\ channel = "slack"
    /\ stage' = "prompting"
    /\ UNCHANGED <<rows, gate, channel, detached, held, history>>

Prompted == (stage = "asking" /\ channel = "terminal") \/ stage = "prompting"

\* The terminal prompt wins its race; the poll goes on by itself.
TerminalAnswers ==
    /\ Prompted
    /\ \E decision \in {"approved", "rejected"} :
         Resolve(gate, decision) /\ Follow(decision)
    /\ detached' = IF stage = "asking" THEN detached \cup {gate} ELSE detached
    /\ UNCHANGED <<flag, marked, gate, channel, held, orphans, announced>>

\* A poll left behind sees the row, or times out like any other.
DetachedPollEnds ==
    /\ \E g \in detached :
         /\ detached' = detached \ {g}
         /\ MarkTimedOut(g)
    /\ UNCHANGED <<flag, row, wfStatus, marked, stage, gate, channel, held, orphans, announced>>

---------------------------------------------------------------------------
(* The task's body *)

StartsWork ==
    /\ stage = "released"
    /\ stage' = "working"
    /\ row' = "running"
    /\ UNCHANGED <<status, latest, flag, wfStatus, marked, gate, channel, detached, held, history>>

\* A guard of preDispatch, or every attempt, fails.
TaskFails ==
    /\ stage \in {"released", "working"}
    /\ RunFails("failed")
    /\ UNCHANGED <<status, latest, flag, marked, gate, channel, detached, held, history>>

TaskSucceeds ==
    /\ stage = "working"
    /\ stage' = "down"
    /\ row' = "completed"
    /\ wfStatus' = "completed"
    /\ UNCHANGED <<status, latest, flag, marked, gate, channel, detached, held, history>>

---------------------------------------------------------------------------
(* The deciders *)

\* A handler of the executor's process (dashboard, MCP tool, Telegram webhook,
\* Slack listener), or the conditional update of the actor route anywhere.
Decide ==
    /\ \E g \in Gates, decision \in Decisions :
         /\ status[g] = "pending"
         /\ Resolve(g, decision)
    /\ UNCHANGED <<flag, row, wfStatus, marked, executor, held, orphans, announced>>

\* The same handlers in another process: the row is read ...
RemoteChecks(p) ==
    /\ held[p] = Nothing
    /\ \E g \in Gates, decision \in Decisions :
         /\ status[g] = "pending"
         /\ held' = [held EXCEPT ![p] = [gate |-> g, decision |-> decision]]
    /\ UNCHANGED <<rows, executor, history>>

\* ... and written by a second statement, whatever it holds by then.
RemoteWrites(p) ==
    /\ held[p].gate # NoGate
    /\ Resolve(held[p].gate, held[p].decision)
    /\ held' = [held EXCEPT ![p] = Nothing]
    /\ UNCHANGED <<flag, row, wfStatus, marked, executor, orphans, announced>>

---------------------------------------------------------------------------
(* Crash, resume, retry, orphan recovery *)

Crash ==
    /\ stage # "down"
    /\ stage' = "down"
    /\ detached' = {}
    /\ orphans' = IF stage \in Waiting THEN orphans \cup {gate} ELSE orphans
    /\ UNCHANGED <<rows, gate, channel, held, granted, announced>>

\* continueWorkflowExecution with the row pending.
Continue ==
    /\ stage = "down"
    /\ stage' = "ready"
    /\ row' = "pending"
    /\ wfStatus' = "executing"
    /\ UNCHANGED <<status, latest, marked, gate, channel, detached, held, history>>

ResumeFailed ==
    /\ wfStatus = "failed"
    /\ row # "completed"
    /\ Continue
    /\ UNCHANGED flag

\* Mutant: any outcome clears the flag.
Settles_AnyOutcome == row = "pending" /\ latest # NoGate

\* applyResolvedHitlGatesForResume: the latest decided gate of a pending task.
Settles == row = "pending" /\ latest # NoGate /\ status[latest] \in Consents

ResumeInterrupted ==
    /\ wfStatus = "executing"
    /\ Continue
    /\ flag' = (flag /\ ~Settles)

\* The dashboard's task retry touches neither gates nor flag.
RetryTask ==
    /\ row # "running"
    /\ Continue
    /\ UNCHANGED flag

\* Mutant: a gate is not marked.
Surface_Unmarked ==
    /\ \E g \in Gates :
         /\ status[g] = "pending"
         /\ g \notin marked
         /\ \E sent \in {0, 1} : announced' = [announced EXCEPT ![g] = @ + sent]
    /\ UNCHANGED <<status, latest, flag, row, wfStatus, marked, executor, held, granted, orphans>>

\* recoverOrphanHitlGates at a daemon start, one old pending gate: it is marked,
\* then reported; the report may fail.
Surface ==
    /\ \E g \in Gates :
         /\ status[g] = "pending"
         /\ g \notin marked
         /\ marked' = marked \cup {g}
         /\ \E sent \in {0, 1} : announced' = [announced EXCEPT ![g] = @ + sent]
    /\ UNCHANGED <<status, latest, flag, row, wfStatus, executor, held, granted, orphans>>

---------------------------------------------------------------------------

\* What the executor's event loop gets to by itself.
ExecutorStep ==
    \/ OpenGate \/ OpenApproved \/ Unflagged
    \/ PollSees \/ PollLapses \/ SlackFallsBack \/ DetachedPollEnds
    \/ StartsWork \/ TaskFails \/ TaskSucceeds

OperatorStep ==
    \/ TerminalAnswers \/ Decide
    \/ \E p \in Remote : RemoteChecks(p) \/ RemoteWrites(p)
    \/ ResumeFailed \/ ResumeInterrupted \/ RetryTask

Next == ExecutorStep \/ OperatorStep \/ Crash \/ Surface

Spec == Init /\ [][Next]_vars

\* Polls, their deadline and the task's attempts come to an end by themselves.
FairSpec == Spec /\ WF_vars(ExecutorStep)

---------------------------------------------------------------------------
(* Properties *)

\* The flag keeps its promise (module Approval): the task never works unless
\* somebody consented at one of its gates, whatever deciders, crashes, resumes
\* and retries do.  (runHitlGate, applyResolvedHitlGatesForResume.)
Promise == INSTANCE Approval WITH consents <- granted, working <- stage = "working"
KeepsPromise == Promise!Spec

\* No gate is left pending that nobody is waiting at, except by a crash.
\* (pollGateOrMarkTimedOut: "so it isn't left 'pending' -- a dashboard-inbox
\* phantom".)
NoPhantomGate ==
    \A g \in Gates : status[g] = "pending" =>
        (stage \in Waiting /\ gate = g) \/ g \in orphans

\* A timeout never overwrites a decision, neither the poll's own nor that of a
\* poll the terminal left behind.  (markGateTimedOut, which other writers race.)
TimeoutNeverClobbers ==
    [][\A g \in Gates : status[g] \in Decisions => status'[g] # "timed_out"]_vars

\* A gate is reported as an orphan at most once, over any number of crashes, daemon
\* starts and reports that fail.  (recoverOrphanHitlGates: "does not double-emit".)
ReportedOnce == \A g \in Gates : announced[g] <= 1

\* Asking comes to an end, on any channel whose row is polled to the end: no
\* silent operator, lost prompt or late decision leaves the executor waiting.
\* (resolveViaCli: "watch the daemon hang forever waiting on stdin".)
EveryAskEnds == stage = "asking" /\ channel # "slack" ~> stage # "asking"
=============================================================================
