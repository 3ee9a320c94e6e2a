------------------------------ MODULE AcpTurns ------------------------------
(***************************************************************************)
(* Turns over one pooled agent process: the JSON-RPC client that several   *)
(* tasks share (AcpStdioClient in runtime/adapters/acp.ts), a turn of a    *)
(* task with its session, prompt and close (runOpencodeViaAcp in           *)
(* executors/cli/opencode-acp.ts), the attempt that waits for it under a   *)
(* timeout and may be cancelled (brain/executor/internal-utils.ts and      *)
(* run-task/retry-loop.ts), and the agent at the other end.                *)
(*                                                                         *)
(* A turn is an attempt of a task.  An attempt that times out does not     *)
(* stop its turn, which goes on beside the next attempt.  The pipes keep   *)
(* the order of the frames of one session; a turn has at most one request  *)
(* under way, so its id is the turn.  How the client comes from the pool   *)
(* is in ProcessPool.                                                      *)
(***************************************************************************)
EXTENDS Naturals

CONSTANTS
    Tasks,
    Attempts,       \* the attempts a task has, a bound
    MaxChunks       \* bound on the chunks of text of a session

ASSUME TurnAssumption == Attempts \in [Tasks -> Nat] /\ MaxChunks \in Nat

Turns == UNION {{k} \X (1 .. Attempts[k]) : k \in Tasks}

VARIABLES
    open,       \* the client is not closed
    alive,      \* the agent's process lives
    pc,         \* where a turn is in runOpencodeViaAcp
    waiting,    \* pending: the turns whose request has no answer yet
    reply,      \* the answer a turn is about to go on with
    heard,      \* notificationHandlers: the turns that collect text
    got,        \* assistantBuffer: how many chunks of which session
    frames,     \* what is on its way to the agent for a session
    work,       \* what the agent does for a session
    sent,       \* history: the chunks the agent has sent for a session
    chunks,     \* how many of them are on their way to the client
    answer,     \* the response on its way to the client
    attempt,    \* how an attempt has ended for the retry loop
    aborted,    \* the turns whose signal is aborted
    cancelled   \* the tasks that were cancelled

clientVars  == <<open, waiting, reply, heard, got>>
agentVars   == <<alive, work, sent>>
pipeVars    == <<frames, chunks, answer>>
attemptVars == <<attempt, aborted, cancelled>>
vars        == <<pc, clientVars, agentVars, pipeVars, attemptVars>>

\* drop: session/close as a notification, which nobody answers.
Frame    == {"new", "prompt", "cancel", "close", "drop"}
Settled  == {"output", "timeout", "cancelled", "failed"}
Over(t)  == pc[t] \in {"returned", "failed"}
Busy     == {"working", "stopping"}

TypeOK ==
    /\ open \in BOOLEAN
    /\ alive \in BOOLEAN
    /\ pc \in [Turns -> {"idle", "opening", "prompting", "closing", "returned", "failed"}]
    /\ waiting \subseteq Turns
    /\ reply \in [Turns -> {"none", "ok", "error"}]
    /\ heard \subseteq Turns
    /\ got \in [Turns -> [Turns -> Nat]]
    /\ frames \in [Turns -> SUBSET Frame]
    /\ work \in [Turns -> Busy \cup {"none", "opening", "ready"}]
    /\ sent \in [Turns -> Nat]
    /\ chunks \in [Turns -> Nat]
    /\ answer \in [Turns -> {"none", "ok", "error"}]
    /\ attempt \in [Turns -> Settled \cup {"none", "running"}]
    /\ aborted \subseteq Turns
    /\ cancelled \subseteq Tasks
    /\ \A t \in Turns : t \in waiting \/ reply[t] # "none" <=>
                            pc[t] \in {"opening", "prompting", "closing"}
    /\ \A t \in waiting : reply[t] = "none"
    /\ \A t \in Turns : attempt[t] = "none" <=> pc[t] = "idle"

Init ==
    /\ open = TRUE
    /\ alive = TRUE
    /\ pc = [t \in Turns |-> "idle"]
    /\ waiting = {}
    /\ reply = [t \in Turns |-> "none"]
    /\ heard = {}
    /\ got = [t \in Turns |-> [s \in Turns |-> 0]]
    /\ frames = [t \in Turns |-> {}]
    /\ work = [t \in Turns |-> "none"]
    /\ sent = [t \in Turns |-> 0]
    /\ chunks = [t \in Turns |-> 0]
    /\ answer = [t \in Turns |-> "none"]
    /\ attempt = [t \in Turns |-> "none"]
    /\ aborted = {}
    /\ cancelled = {}

\* Between two events of the event loop every promise that is settled has been
\* gone on with; only further lines of one chunk of data come before that.
Calm == \A t \in Turns : reply[t] = "none"

\* AcpStdioClient.request: on a closed client, an error at once.
Request(t, frame) ==
    IF open
      THEN /\ frames' = [frames EXCEPT ![t] = @ \cup {frame}]
           /\ waiting' = waiting \cup {t}
           /\ reply' = [reply EXCEPT ![t] = "none"]
      ELSE /\ reply' = [reply EXCEPT ![t] = "error"]
           /\ UNCHANGED <<frames, waiting>>

\* AcpStdioClient.notify; nothing gets through a closed client.
Notify(t, frame) ==
    frames' = IF open THEN [frames EXCEPT ![t] = @ \cup {frame}] ELSE frames

----------------------------------------------------------------------------
(* The attempt: runRetryLoop, withTimeout, composeAbortSignals *)

\* The next attempt, after one that failed or timed out, unless the task is
\* cancelled; session/new goes out.  The client may be a closed one: it was
\* acquired before.
Begin(t) ==
    /\ Calm
    /\ attempt[t] = "none"
    /\ t[1] \notin cancelled
    /\ t[2] > 1 => attempt[<<t[1], t[2] - 1>>] \in {"timeout", "failed"}
    /\ attempt' = [attempt EXCEPT ![t] = "running"]
    /\ pc' = [pc EXCEPT ![t] = "opening"]
    /\ Request(t, "new")
    /\ UNCHANGED <<open, heard, got, agentVars, chunks, answer, aborted, cancelled>>

\* A signal aborts once; the listener exists while the prompt is under way.
Abort(t) ==
    /\ aborted' = aborted \cup {t}
    /\ IF pc[t] = "prompting" /\ t \notin aborted
         THEN Notify(t, "cancel")
         ELSE UNCHANGED frames

\* What becomes of an attempt that still waits: the loop looks at the task's
\* signal before anything else.
Settles(t, how) ==
    attempt' = IF attempt[t] # "running" THEN attempt
               ELSE [attempt EXCEPT ![t] = IF t[1] \in cancelled THEN "cancelled" ELSE how]

TimesOut(t) ==
    /\ Calm
    /\ attempt[t] = "running"
    /\ Settles(t, "timeout")
    /\ Abort(t)
    /\ UNCHANGED <<pc, clientVars, agentVars, chunks, answer, cancelled>>

\* The task's controller: the attempt goes on until its turn has settled.
Cancel(k) ==
    /\ Calm
    /\ k \notin cancelled
    /\ cancelled' = cancelled \cup {k}
    /\ IF \E t \in Turns : t[1] = k /\ attempt[t] = "running"
         THEN \E t \in Turns : t[1] = k /\ attempt[t] = "running" /\ Abort(t)
         ELSE UNCHANGED <<aborted, frames>>
    /\ UNCHANGED <<pc, clientVars, agentVars, chunks, answer, attempt>>

----------------------------------------------------------------------------
(* The turn: runOpencodeViaAcp *)

\* The session is there: collect its text, listen to the signal, prompt.
Opened(t) ==
    /\ pc[t] = "opening"
    /\ reply[t] = "ok"
    /\ pc' = [pc EXCEPT ![t] = "prompting"]
    /\ heard' = heard \cup {t}
    /\ Request(t, "prompt")
    /\ UNCHANGED <<open, got, agentVars, chunks, answer, attemptVars>>

NotOpened(t) ==
    /\ pc[t] = "opening"
    /\ reply[t] = "error"
    /\ pc' = [pc EXCEPT ![t] = "failed"]
    /\ reply' = [reply EXCEPT ![t] = "none"]
    /\ Settles(t, "failed")
    /\ UNCHANGED <<open, waiting, heard, got, agentVars, pipeVars, aborted, cancelled>>

\* Mutant: a turn that fails does not tell the agent.
PromptFails_Silent(t) ==
    /\ pc[t] = "prompting"
    /\ reply[t] = "error"
    /\ pc' = [pc EXCEPT ![t] = "failed"]
    /\ reply' = [reply EXCEPT ![t] = "none"]
    /\ heard' = heard \ {t}
    /\ Settles(t, "failed")
    /\ UNCHANGED <<open, waiting, got, agentVars, pipeVars, aborted, cancelled>>

\* Mutant: only a turn that succeeds takes its handler away.
PromptFails_Subscribed(t) ==
    /\ pc[t] = "prompting"
    /\ reply[t] = "error"
    /\ pc' = [pc EXCEPT ![t] = "failed"]
    /\ reply' = [reply EXCEPT ![t] = "none"]
    /\ Notify(t, "drop")
    /\ Settles(t, "failed")
    /\ UNCHANGED <<open, waiting, heard, got, agentVars, chunks, answer, aborted, cancelled>>

PromptFails(t) ==
    /\ pc[t] = "prompting"
    /\ reply[t] = "error"
    /\ pc' = [pc EXCEPT ![t] = "failed"]
    /\ reply' = [reply EXCEPT ![t] = "none"]
    /\ heard' = heard \ {t}
    /\ Notify(t, "drop")
    /\ Settles(t, "failed")
    /\ UNCHANGED <<open, waiting, got, agentVars, chunks, answer, aborted, cancelled>>

\* The text is complete, and the session is closed.
PromptDone(t) ==
    /\ pc[t] = "prompting"
    /\ reply[t] = "ok"
    /\ pc' = [pc EXCEPT ![t] = "closing"]
    /\ heard' = heard \ {t}
    /\ Request(t, "close")
    /\ UNCHANGED <<open, got, agentVars, chunks, answer, attemptVars>>

\* Whatever became of session/close, the text is returned.
Returns(t) ==
    /\ pc[t] = "closing"
    /\ reply[t] # "none"
    /\ pc' = [pc EXCEPT ![t] = "returned"]
    /\ reply' = [reply EXCEPT ![t] = "none"]
    /\ Settles(t, "output")
    /\ UNCHANGED <<open, waiting, heard, got, agentVars, pipeVars, aborted, cancelled>>

----------------------------------------------------------------------------
(* The client: AcpStdioClient *)

\* A request's own timer.
RequestTimesOut(t) ==
    /\ Calm
    /\ t \in waiting
    /\ waiting' = waiting \ {t}
    /\ reply' = [reply EXCEPT ![t] = "error"]
    /\ UNCHANGED <<pc, open, heard, got, agentVars, pipeVars, attemptVars>>

\* A response: it settles the request that waits for it, or is dropped.
Respond(t) ==
    /\ answer[t] # "none"
    /\ chunks[t] = 0
    /\ answer' = [answer EXCEPT ![t] = "none"]
    /\ IF t \in waiting
         THEN waiting' = waiting \ {t} /\ reply' = [reply EXCEPT ![t] = answer[t]]
         ELSE UNCHANGED <<waiting, reply>>
    /\ UNCHANGED <<pc, open, heard, got, agentVars, frames, chunks, attemptVars>>

\* Mutant: the handler of a turn takes every text for its own.
Collect_Unfiltered(s) ==
    /\ chunks[s] > 0
    /\ chunks' = [chunks EXCEPT ![s] = @ - 1]
    /\ got' = [t \in Turns |-> IF t \in heard THEN [got[t] EXCEPT ![s] = @ + 1] ELSE got[t]]
    /\ UNCHANGED <<pc, open, waiting, reply, heard, agentVars, frames, answer, attemptVars>>

\* A chunk of text: every handler sees it, the one of its session keeps it; the
\* agent names the session of what it sends.
Collect(s) ==
    /\ chunks[s] > 0
    /\ chunks' = [chunks EXCEPT ![s] = @ - 1]
    /\ got' = IF s \in heard THEN [got EXCEPT ![s][s] = @ + 1] ELSE got
    /\ UNCHANGED <<pc, open, waiting, reply, heard, agentVars, frames, answer, attemptVars>>

\* Mutant: the requests under way are forgotten, with their timers.
Teardown_Forgets ==
    /\ open
    /\ open' = FALSE
    /\ waiting' = {}
    /\ reply' = reply
    /\ heard' = {}

Teardown ==
    /\ open
    /\ open' = FALSE
    /\ waiting' = {}
    /\ reply' = [t \in Turns |-> IF t \in waiting THEN "error" ELSE reply[t]]
    /\ heard' = {}

\* The pool closes the client: an expiry, a drain.
PoolCloses ==
    /\ Calm
    /\ Teardown
    /\ UNCHANGED <<pc, got, agentVars, pipeVars, attemptVars>>

\* The end of stdout, once all that was written before has been read.
StreamEnds ==
    /\ Calm
    /\ ~alive
    /\ \A t \in Turns : chunks[t] = 0 /\ answer[t] = "none"
    /\ Teardown
    /\ UNCHANGED <<pc, got, agentVars, pipeVars, attemptVars>>

----------------------------------------------------------------------------
(* The agent, as far as the client relies on it: it reads a session's frames in
   order, sends text only while it works on a prompt, and answers last.  It may
   fail a request, never answer, go on after a cancel, or die. *)

AgentFrame == UNCHANGED <<pc, clientVars, alive, attemptVars>>

Reads(t, frame) == frame \in frames[t] /\ frames' = [frames EXCEPT ![t] = @ \ {frame}]

Works(t, how) == work' = [work EXCEPT ![t] = how]

Answers(t) == \E how \in {"ok", "error"} : answer' = [answer EXCEPT ![t] = how]

ReadNew(t) ==
    /\ alive
    /\ Reads(t, "new")
    /\ Works(t, "opening")
    /\ UNCHANGED <<sent, chunks, answer>>
    /\ AgentFrame

AnswerNew(t) ==
    /\ work[t] = "opening"
    /\ Works(t, "ready")
    /\ Answers(t)
    /\ UNCHANGED <<sent, frames, chunks>>
    /\ AgentFrame

ReadPrompt(t) ==
    /\ alive
    /\ Reads(t, "prompt")
    /\ Works(t, "working")
    /\ UNCHANGED <<sent, chunks, answer>>
    /\ AgentFrame

\* It may well end what it does, in its own time.
ReadStop(t) ==
    /\ alive
    /\ "prompt" \notin frames[t]
    /\ Reads(t, "cancel") \/ Reads(t, "drop")
    /\ IF work[t] = "working" THEN Works(t, "stopping") ELSE UNCHANGED work
    /\ UNCHANGED <<sent, chunks, answer>>
    /\ AgentFrame

Speak(t) ==
    /\ work[t] \in Busy
    /\ sent[t] < MaxChunks
    /\ sent' = [sent EXCEPT ![t] = @ + 1]
    /\ chunks' = [chunks EXCEPT ![t] = @ + 1]
    /\ UNCHANGED <<work, frames, answer>>
    /\ AgentFrame

AnswerPrompt(t) ==
    /\ work[t] \in Busy
    /\ Works(t, "ready")
    /\ Answers(t)
    /\ UNCHANGED <<sent, frames, chunks>>
    /\ AgentFrame

ReadClose(t) ==
    /\ alive
    /\ Reads(t, "close")
    /\ Answers(t)
    /\ UNCHANGED <<work, sent, chunks>>
    /\ AgentFrame

\* What it has not read is lost, what it has written is not.
Dies ==
    /\ alive
    /\ alive' = FALSE
    /\ frames' = [t \in Turns |-> {}]
    /\ work' = [t \in Turns |-> "none"]
    /\ UNCHANGED <<pc, clientVars, sent, chunks, answer, attemptVars>>

----------------------------------------------------------------------------

Continues(t) == Opened(t) \/ NotOpened(t) \/ PromptFails(t) \/ PromptDone(t) \/ Returns(t)

AgentStep(t) ==
    \/ ReadNew(t) \/ AnswerNew(t) \/ ReadPrompt(t) \/ ReadStop(t) \/ Speak(t)
    \/ AnswerPrompt(t) \/ ReadClose(t)

Next ==
    \/ \E t \in Turns : Begin(t) \/ TimesOut(t) \/ Continues(t)
    \/ \E k \in Tasks : Cancel(k)
    \/ \E t \in Turns : RequestTimesOut(t) \/ Respond(t) \/ Collect(t)
    \/ PoolCloses \/ StreamEnds
    \/ \E t \in Turns : AgentStep(t)
    \/ Dies

Spec == Init /\ [][Next]_vars

\* Promises that are settled are gone on with, and a request has its timer; the
\* agent owes nothing.
FairSpec ==
    Spec /\ \A t \in Turns : WF_vars(Continues(t)) /\ WF_vars(RequestTimesOut(t))

----------------------------------------------------------------------------
(* Safety *)

\* The text of a turn that ends well is all of what the agent sent for its
\* session, and nothing of another's: not of a task that shares the process, nor
\* of an earlier attempt that timed out and still goes on.  ("Scope strictly to
\* THIS task's nativeSessionId so a shared pooled process can't bleed another
\* task's chunks into ours", runOpencodeViaAcp.)
TextIsOwn ==
    \A t \in Turns : pc[t] \in {"closing", "returned"} =>
        got[t] = [s \in Turns |-> IF s = t THEN sent[t] ELSE 0]

\* The agent does not work on for a turn that is over without having been told
\* to stop, whichever timer, answer or abort has ended it, as long as the client
\* is open.  (The session/cancel and session/close of runOpencodeViaAcp.)
AgentTold ==
    \A t \in Turns : open /\ Over(t) /\ (work[t] = "working" \/ "prompt" \in frames[t]) =>
        frames[t] \cap {"cancel", "drop"} # {}

\* The client that all tasks share keeps nothing of a turn that is over: no
\* handler, no request.  (The finally of runOpencodeViaAcp, teardown.)
NothingLeft == \A t \in heard \cup waiting : ~Over(t)

----------------------------------------------------------------------------
(* Liveness *)

\* A turn ends, though the agent never answers, dies, or the client is closed
\* under it.  (The timers of request, and teardown.)
TurnEnds == \A t \in Turns : pc[t] # "idle" ~> Over(t)

----------------------------------------------------------------------------
(* What the code does not do *)

\* An abort stops a turn that has not prompted yet.
AbortForwarded ==
    [][\A t \in Turns : pc[t] = "opening" /\ pc'[t] = "prompting" => t \notin aborted]_vars

=============================================================================
