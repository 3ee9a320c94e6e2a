--------------------------- MODULE AcpTurns_proofs ---------------------------
(***************************************************************************)
(* What AcpTurns promises for any number of tasks and attempts on one      *)
(* client: a turn returns the text of its own session and all of it, the   *)
(* agent is told of a turn that failed, and the client keeps nothing of a  *)
(* turn that is over.                                                      *)
(***************************************************************************)
EXTENDS AcpTurns, TLAPS

----------------------------------------------------------------------------
(* The inductive invariant: what a turn, its session at the agent and the
   pipes between them agree on, at each place of the turn. *)

\* The agent does not work on a prompt of the session, nor is one on its way.
Quiet(t) == work[t] \notin Busy /\ "prompt" \notin frames[t]

\* Nothing was sent to or by the agent.
Fresh(t) ==
    pc[t] = "idle" =>
        /\ frames[t] = {} /\ work[t] = "none" /\ answer[t] = "none"
        /\ sent[t] = 0 /\ chunks[t] = 0 /\ got[t][t] = 0

\* session/new is in one place at most: in the pipe, at the agent, answered.
Unprompted(t) ==
    pc[t] = "opening" =>
        /\ Quiet(t) /\ "close" \notin frames[t]
        /\ sent[t] = 0 /\ chunks[t] = 0 /\ got[t][t] = 0
        /\ work[t] = "opening" => "new" \notin frames[t]
        /\ answer[t] # "none" \/ reply[t] = "ok" =>
              "new" \notin frames[t] /\ work[t] # "opening"
        /\ reply[t] = "ok" => answer[t] = "none"

\* So is session/prompt, and no chunk is lost as long as the turn waits for it.
Prompted(t) ==
    pc[t] = "prompting" =>
        /\ "new" \notin frames[t] /\ work[t] # "opening" /\ "close" \notin frames[t]
        /\ "prompt" \in frames[t] => work[t] \notin Busy
        /\ answer[t] # "none" \/ reply[t] = "ok" => Quiet(t)
        /\ t \in waiting => t \in heard /\ got[t][t] + chunks[t] = sent[t]
        /\ reply[t] = "ok" => chunks[t] = 0 /\ got[t][t] = sent[t]

\* The text of a turn that ended well is complete.
Complete(t) ==
    pc[t] \in {"closing", "returned"} =>
        Quiet(t) /\ chunks[t] = 0 /\ got[t][t] = sent[t]

\* A turn that failed has told the agent.
Told(t) ==
    open /\ pc[t] = "failed" /\ (work[t] = "working" \/ "prompt" \in frames[t]) =>
        frames[t] \cap {"cancel", "drop"} # {}

Turn(t) == Fresh(t) /\ Unprompted(t) /\ Prompted(t) /\ Complete(t) /\ Told(t)

\* A closed client waits for nothing; a turn that prompts is the only one to be
\* heard, and hears nobody else.
Client ==
    /\ waiting # {} => open
    /\ \A t \in heard : pc[t] = "prompting"
    /\ \A t, s \in Turns : t # s => got[t][s] = 0

IInv == TypeOK /\ Client /\ \A t \in Turns : Turn(t)

\* The initial states satisfy the inductive invariant.
LEMMA InitIInv == Init => IInv
  <1> SUFFICES ASSUME Init PROVE IInv
    OBVIOUS
  <1>1. TypeOK
    BY TurnAssumption DEF Init, TypeOK
  <1>2. Client
    BY DEF Init, Client
  <1>3. \A t \in Turns : Turn(t)
    BY DEF Init, Turn, Fresh, Unprompted, Prompted, Complete, Told
  <1>4. QED
    BY <1>1, <1>2, <1>3 DEF IInv

----------------------------------------------------------------------------
(* Types *)

\* What an attempt has come to is well typed.
LEMMA SettlesType ==
  ASSUME attempt \in [Turns -> Settled \cup {"none", "running"}],
         NEW t \in Turns, NEW how \in {"output", "failed", "timeout"}, Settles(t, how)
  PROVE  /\ attempt' \in [Turns -> Settled \cup {"none", "running"}]
         /\ \A u \in Turns : attempt'[u] = "none" <=> attempt[u] = "none"
  BY DEF Settles, Settled

\* A request leaves its turn with a request under way or an answer, and no other
\* turn otherwise than it was.
LEMMA RequestType ==
  ASSUME TypeOK, NEW t \in Turns, NEW frame \in Frame, Request(t, frame)
  PROVE  /\ frames' \in [Turns -> SUBSET Frame]
         /\ reply' \in [Turns -> {"none", "ok", "error"}]
         /\ waiting' \subseteq Turns
         /\ \A u \in Turns \ {t} : reply'[u] = reply[u] /\ (u \in waiting' <=> u \in waiting)
         /\ t \notin waiting =>
               \/ t \in waiting' /\ reply'[t] = "none"
               \/ t \notin waiting' /\ reply'[t] = "error"
  <1>1. CASE open
    <2>1. /\ frames' = [frames EXCEPT ![t] = @ \cup {frame}]
          /\ waiting' = waiting \cup {t}
          /\ reply' = [reply EXCEPT ![t] = "none"]
      BY <1>1, Zenon DEF Request
    <2>2. frames' \in [Turns -> SUBSET Frame]
      BY <2>1 DEF TypeOK
    <2>3. QED
      BY <2>1, <2>2 DEF TypeOK
  <1>2. CASE ~open
    BY <1>2 DEF Request, TypeOK
  <1>3. QED
    BY <1>1, <1>2

\* A step of the attempt or of the turn keeps the types.
LEMMA TurnType ==
  ASSUME TypeOK, NEW t \in Turns, Begin(t) \/ TimesOut(t) \/ Continues(t)
  PROVE  TypeOK'
  <1>1. CASE Begin(t)
    <2>1. "new" \in Frame /\ Request(t, "new")
      BY <1>1 DEF Begin, Frame
    <2>2. attempt' \in [Turns -> Settled \cup {"none", "running"}]
      BY <1>1 DEF Begin, TypeOK
    <2>3. t \notin waiting
      BY <1>1 DEF Begin, TypeOK, Calm
    <2>4. QED
      BY <1>1, <2>1, <2>2, <2>3, RequestType DEF Begin, TypeOK, agentVars
  <1>2. CASE TimesOut(t)
    <2>1. frames' \in [Turns -> SUBSET Frame] /\ aborted' \subseteq Turns
      BY <1>2 DEF TimesOut, TypeOK, Abort, Notify, Frame
    <2>2. /\ attempt' \in [Turns -> Settled \cup {"none", "running"}]
          /\ \A u \in Turns : attempt'[u] = "none" <=> attempt[u] = "none"
      BY <1>2, SettlesType DEF TimesOut, TypeOK
    <2>3. QED
      BY <1>2, <2>1, <2>2 DEF TimesOut, TypeOK, agentVars, clientVars
  <1>3. CASE Opened(t)
    <2>1. "prompt" \in Frame /\ Request(t, "prompt")
      BY <1>3 DEF Opened, Frame
    <2>2. t \notin waiting
      BY <1>3 DEF Opened, TypeOK
    <2>3. QED
      BY <1>3, <2>1, <2>2, RequestType DEF Opened, TypeOK, agentVars, attemptVars
  <1>4. CASE NotOpened(t)
    <2>1. /\ attempt' \in [Turns -> Settled \cup {"none", "running"}]
          /\ \A u \in Turns : attempt'[u] = "none" <=> attempt[u] = "none"
      BY <1>4, SettlesType DEF NotOpened, TypeOK
    <2>2. \A u \in Turns : attempt'[u] = "none" <=> pc'[u] = "idle"
      BY <1>4, <2>1 DEF NotOpened, TypeOK
    <2>3. \A u \in Turns : u \in waiting' \/ reply'[u] # "none" <=>
                                pc'[u] \in {"opening", "prompting", "closing"}
      BY <1>4 DEF NotOpened, TypeOK
    <2>4. QED
      BY <1>4, <2>1, <2>2, <2>3 DEF NotOpened, TypeOK, agentVars, pipeVars
  <1>5. CASE PromptFails(t)
    <2>1. /\ attempt' \in [Turns -> Settled \cup {"none", "running"}]
          /\ \A u \in Turns : attempt'[u] = "none" <=> attempt[u] = "none"
      BY <1>5, SettlesType DEF PromptFails, TypeOK
    <2>2. \A u \in Turns : attempt'[u] = "none" <=> pc'[u] = "idle"
      BY <1>5, <2>1 DEF PromptFails, TypeOK
    <2>3. \A u \in Turns : u \in waiting' \/ reply'[u] # "none" <=>
                                pc'[u] \in {"opening", "prompting", "closing"}
      BY <1>5 DEF PromptFails, TypeOK
    <2>4. frames' \in [Turns -> SUBSET Frame]
      BY <1>5 DEF PromptFails, TypeOK, Notify, Frame
    <2>5. QED
      BY <1>5, <2>1, <2>2, <2>3, <2>4 DEF PromptFails, TypeOK, agentVars
  <1>6. CASE PromptDone(t)
    <2>1. "close" \in Frame /\ Request(t, "close")
      BY <1>6 DEF PromptDone, Frame
    <2>2. t \notin waiting
      BY <1>6 DEF PromptDone, TypeOK
    <2>3. QED
      BY <1>6, <2>1, <2>2, RequestType DEF PromptDone, TypeOK, agentVars, attemptVars
  <1>7. CASE Returns(t)
    <2>1. /\ attempt' \in [Turns -> Settled \cup {"none", "running"}]
          /\ \A u \in Turns : attempt'[u] = "none" <=> attempt[u] = "none"
      BY <1>7, SettlesType DEF Returns, TypeOK
    <2>2. \A u \in Turns : attempt'[u] = "none" <=> pc'[u] = "idle"
      BY <1>7, <2>1 DEF Returns, TypeOK
    <2>3. \A u \in Turns : u \in waiting' \/ reply'[u] # "none" <=>
                                pc'[u] \in {"opening", "prompting", "closing"}
      BY <1>7 DEF Returns, TypeOK
    <2>4. QED
      BY <1>7, <2>1, <2>2, <2>3 DEF Returns, TypeOK, agentVars, pipeVars
  <1>8. QED
    BY <1>1, <1>2, <1>3, <1>4, <1>5, <1>6, <1>7 DEF Continues

\* The shared end of the client leaves every turn with an answer.
LEMMA TeardownType ==
  ASSUME TypeOK, Teardown, UNCHANGED <<pc, got, agentVars, pipeVars, attemptVars>>
  PROVE  TypeOK'
  BY DEF Teardown, TypeOK, agentVars, pipeVars, attemptVars

\* A step of the client keeps the types.
LEMMA ClientType ==
  ASSUME TypeOK, NEW t \in Turns, RequestTimesOut(t) \/ Respond(t) \/ Collect(t)
  PROVE  TypeOK'
  <1>1. CASE RequestTimesOut(t)
    BY <1>1 DEF RequestTimesOut, TypeOK, agentVars, pipeVars, attemptVars
  <1>2. CASE Respond(t)
    BY <1>2 DEF Respond, TypeOK, agentVars, attemptVars
  <1>3. CASE Collect(t)
    <2>1. got' \in [Turns -> [Turns -> Nat]]
      BY <1>3 DEF Collect, TypeOK
    <2>2. chunks' \in [Turns -> Nat]
      BY <1>3 DEF Collect, TypeOK
    <2>3. QED
      BY <1>3, <2>1, <2>2 DEF Collect, TypeOK, agentVars, attemptVars
  <1>4. QED
    BY <1>1, <1>2, <1>3

\* A step of the agent keeps the types.
LEMMA AgentType ==
  ASSUME TypeOK, NEW t \in Turns, AgentStep(t)
  PROVE  TypeOK'
  <1> USE DEF AgentFrame, Reads, Works, Answers, Busy, clientVars, attemptVars
  <1>1. CASE ReadNew(t)
    BY <1>1 DEF ReadNew, TypeOK
  <1>2. CASE AnswerNew(t)
    BY <1>2 DEF AnswerNew, TypeOK
  <1>3. CASE ReadPrompt(t)
    BY <1>3 DEF ReadPrompt, TypeOK
  <1>4. CASE ReadStop(t)
    BY <1>4 DEF ReadStop, TypeOK
  <1>5. CASE Speak(t)
    BY <1>5 DEF Speak, TypeOK
  <1>6. CASE AnswerPrompt(t)
    BY <1>6 DEF AnswerPrompt, TypeOK
  <1>7. CASE ReadClose(t)
    BY <1>7 DEF ReadClose, TypeOK
  <1>8. QED
    BY <1>1, <1>2, <1>3, <1>4, <1>5, <1>6, <1>7 DEF AgentStep

\* Every step keeps the types.
LEMMA StepType ==
  ASSUME TypeOK, [Next]_vars
  PROVE  TypeOK'
  <1>1. CASE \E k \in Tasks : Cancel(k)
    <2> PICK k \in Tasks : Cancel(k)
      BY <1>1
    <2>1. frames' \in [Turns -> SUBSET Frame] /\ aborted' \subseteq Turns
      BY DEF Cancel, TypeOK, Abort, Notify, Frame
    <2>2. QED
      BY <2>1 DEF Cancel, TypeOK, clientVars, agentVars
  <1>2. CASE PoolCloses \/ StreamEnds
    BY <1>2, TeardownType DEF PoolCloses, StreamEnds
  <1>3. CASE Dies
    BY <1>3 DEF Dies, TypeOK, clientVars, attemptVars
  <1>4. CASE UNCHANGED vars
    BY <1>4 DEF vars, clientVars, agentVars, pipeVars, attemptVars, TypeOK
  <1>5. QED
    BY <1>1, <1>2, <1>3, <1>4, TurnType, ClientType, AgentType DEF Next

----------------------------------------------------------------------------
(* What two turns share, action by action *)

\* Only the turns that prompt are heard, and a closed client waits for nothing.
LEMMA ClientStep ==
  ASSUME TypeOK, Client, [Next]_vars
  PROVE  Client'
  <1> USE DEF Client
  <1>1. ASSUME NEW t \in Turns, Begin(t) PROVE Client'
    BY <1>1 DEF Begin, Request, TypeOK, agentVars
  <1>2. ASSUME NEW t \in Turns, TimesOut(t) PROVE Client'
    BY <1>2 DEF TimesOut, clientVars
  <1>3. ASSUME NEW k \in Tasks, Cancel(k) PROVE Client'
    BY <1>3 DEF Cancel, clientVars
  <1>4. ASSUME NEW t \in Turns, Opened(t) PROVE Client'
    BY <1>4 DEF Opened, Request, TypeOK
  <1>5. ASSUME NEW t \in Turns, NotOpened(t) PROVE Client'
    BY <1>5 DEF NotOpened, TypeOK
  <1>6. ASSUME NEW t \in Turns, PromptFails(t) PROVE Client'
    BY <1>6 DEF PromptFails, TypeOK
  <1>7. ASSUME NEW t \in Turns, PromptDone(t) PROVE Client'
    BY <1>7 DEF PromptDone, Request, TypeOK
  <1>8. ASSUME NEW t \in Turns, Returns(t) PROVE Client'
    BY <1>8 DEF Returns, TypeOK
  <1>9. ASSUME NEW t \in Turns, RequestTimesOut(t) PROVE Client'
    BY <1>9 DEF RequestTimesOut
  <1>10. ASSUME NEW t \in Turns, Respond(t) PROVE Client'
    BY <1>10 DEF Respond
  <1>11. ASSUME NEW t \in Turns, Collect(t) PROVE Client'
    BY <1>11 DEF Collect, TypeOK
  <1>12. CASE PoolCloses \/ StreamEnds
    BY <1>12 DEF PoolCloses, StreamEnds, Teardown
  <1>13. ASSUME NEW t \in Turns, AgentStep(t) PROVE Client'
    BY <1>13 DEF AgentStep, ReadNew, AnswerNew, ReadPrompt, ReadStop, Speak, AnswerPrompt,
                 ReadClose, AgentFrame, clientVars
  <1>14. CASE Dies
    BY <1>14 DEF Dies, clientVars
  <1>15. CASE UNCHANGED vars
    BY <1>15 DEF vars, clientVars
  <1>16. QED
    BY <1>1, <1>2, <1>3, <1>4, <1>5, <1>6, <1>7, <1>8, <1>9, <1>10, <1>11, <1>12, <1>13,
       <1>14, <1>15 DEF Next, Continues

----------------------------------------------------------------------------
(* A turn and its session, action by action *)

\* A turn that a step leaves as it is.
Still(u) ==
    /\ pc'[u] = pc[u] /\ reply'[u] = reply[u] /\ (u \in waiting' <=> u \in waiting)
    /\ (u \in heard' <=> u \in heard) /\ got'[u][u] = got[u][u]
    /\ frames'[u] = frames[u] /\ work'[u] = work[u] /\ sent'[u] = sent[u]
    /\ chunks'[u] = chunks[u] /\ answer'[u] = answer[u] /\ (open' => open)

\* Such a turn keeps what is known of it.
LEMMA StillTurn ==
  ASSUME NEW u \in Turns, Turn(u), Still(u)
  PROVE  Turn(u)'
  BY DEF Still, Turn, Fresh, Unprompted, Prompted, Complete, Told, Quiet

\* A step of the attempt or of the turn.
LEMMA TurnStep ==
  ASSUME TypeOK, Client, NEW t \in Turns, Turn(t), Begin(t) \/ TimesOut(t) \/ Continues(t)
  PROVE  Turn(t)' /\ \A u \in Turns \ {t} : Still(u)
  <1> USE DEF Turn
  <1>1. CASE Begin(t)
    <2>1. Turn(t)'
      <3>1. /\ pc[t] = "idle" /\ pc'[t] = "opening" /\ frames'[t] \subseteq {"new"}
            /\ reply'[t] # "ok" /\ UNCHANGED <<work, answer, sent, chunks, got>>
        BY <1>1 DEF Begin, Request, TypeOK, agentVars, Fresh
      <3>2. QED
        BY <3>1 DEF Fresh, Unprompted, Prompted, Complete, Told, Quiet, Busy
    <2>2. QED
      BY <1>1, <2>1 DEF Begin, Request, TypeOK, agentVars, Still
  <1>2. CASE TimesOut(t)
    <2>1. Turn(t)'
      BY <1>2 DEF TimesOut, Abort, Notify, TypeOK, agentVars, clientVars, Fresh, Unprompted,
                  Prompted, Complete, Told, Quiet
    <2>2. QED
      BY <1>2, <2>1 DEF TimesOut, Abort, Notify, TypeOK, agentVars, clientVars, Still
  <1>3. CASE Opened(t)
    <2>1. Turn(t)'
      <3>1. /\ pc[t] = "opening" /\ pc'[t] = "prompting" /\ t \in heard'
            /\ frames'[t] \subseteq frames[t] \cup {"prompt"}
            /\ reply[t] = "ok" /\ reply'[t] # "ok"
            /\ UNCHANGED <<work, answer, sent, chunks, got>>
        BY <1>3 DEF Opened, Request, TypeOK, agentVars
      <3>2. QED
        BY <3>1 DEF Fresh, Unprompted, Prompted, Complete, Told, Quiet
    <2>2. QED
      BY <1>3, <2>1 DEF Opened, Request, TypeOK, agentVars, Still
  <1>4. CASE NotOpened(t)
    <2>1. Turn(t)'
      BY <1>4 DEF NotOpened, TypeOK, agentVars, pipeVars, Fresh, Unprompted, Prompted,
                  Complete, Told, Quiet, Busy
    <2>2. QED
      BY <1>4, <2>1 DEF NotOpened, TypeOK, agentVars, pipeVars, Still
  <1>5. CASE PromptFails(t)
    <2>1. Turn(t)'
      <3>1. pc'[t] = "failed" /\ (open' => "drop" \in frames'[t])
        BY <1>5 DEF PromptFails, Notify, TypeOK
      <3>2. QED
        BY <3>1 DEF Fresh, Unprompted, Prompted, Complete, Told
    <2>2. QED
      BY <1>5, <2>1 DEF PromptFails, Notify, TypeOK, agentVars, Still
  <1>6. CASE PromptDone(t)
    <2>1. Turn(t)'
      BY <1>6 DEF PromptDone, Request, TypeOK, agentVars, Fresh, Unprompted, Prompted,
                  Complete, Told, Quiet
    <2>2. QED
      BY <1>6, <2>1 DEF PromptDone, Request, TypeOK, agentVars, Still
  <1>7. CASE Returns(t)
    <2>1. Turn(t)'
      BY <1>7 DEF Returns, TypeOK, agentVars, pipeVars, Fresh, Unprompted, Prompted,
                  Complete, Told, Quiet
    <2>2. QED
      BY <1>7, <2>1 DEF Returns, TypeOK, agentVars, pipeVars, Still
  <1>8. QED
    BY <1>1, <1>2, <1>3, <1>4, <1>5, <1>6, <1>7 DEF Continues

\* A step of the client for one turn.
LEMMA TurnReads ==
  ASSUME TypeOK, Client, NEW t \in Turns, Turn(t),
         RequestTimesOut(t) \/ Respond(t) \/ Collect(t)
  PROVE  Turn(t)' /\ \A u \in Turns \ {t} : Still(u)
  <1> USE DEF Turn
  <1>1. CASE RequestTimesOut(t)
    <2>1. Turn(t)'
      BY <1>1 DEF RequestTimesOut, TypeOK, agentVars, pipeVars, Fresh, Unprompted, Prompted,
                  Complete, Told, Quiet
    <2>2. QED
      BY <1>1, <2>1 DEF RequestTimesOut, TypeOK, agentVars, pipeVars, Still
  <1>2. CASE Respond(t)
    <2>1. Turn(t)'
      BY <1>2 DEF Respond, TypeOK, agentVars, Fresh, Unprompted, Prompted, Complete, Told, Quiet
    <2>2. QED
      BY <1>2, <2>1 DEF Respond, TypeOK, agentVars, Still
  <1>3. CASE Collect(t)
    <2>1. Turn(t)'
      BY <1>3 DEF Collect, TypeOK, agentVars, Fresh, Unprompted, Prompted, Complete, Told, Quiet
    <2>2. QED
      BY <1>3, <2>1 DEF Collect, TypeOK, agentVars, Still
  <1>4. QED
    BY <1>1, <1>2, <1>3

\* A step of the agent for one session.
LEMMA TurnServed ==
  ASSUME TypeOK, Client, NEW t \in Turns, Turn(t), AgentStep(t)
  PROVE  Turn(t)' /\ \A u \in Turns \ {t} : Still(u)
  <1> USE DEF AgentFrame, Reads, Works, Answers, clientVars, Turn
  <1>1. CASE ReadNew(t)
    <2>1. Turn(t)'
      BY <1>1 DEF ReadNew, TypeOK, Fresh, Unprompted, Prompted, Complete, Told, Quiet, Busy
    <2>2. QED
      BY <1>1, <2>1 DEF ReadNew, TypeOK, Still
  <1>2. CASE AnswerNew(t)
    <2>1. Turn(t)'
      BY <1>2 DEF AnswerNew, TypeOK, Fresh, Unprompted, Prompted, Complete, Told, Quiet, Busy
    <2>2. QED
      BY <1>2, <2>1 DEF AnswerNew, TypeOK, Still
  <1>3. CASE ReadPrompt(t)
    <2>1. Turn(t)'
      BY <1>3 DEF ReadPrompt, TypeOK, Fresh, Unprompted, Prompted, Complete, Told, Quiet, Busy
    <2>2. QED
      BY <1>3, <2>1 DEF ReadPrompt, TypeOK, Still
  <1>4. CASE ReadStop(t)
    <2>1. Turn(t)'
      BY <1>4 DEF ReadStop, TypeOK, Fresh, Unprompted, Prompted, Complete, Told, Quiet, Busy
    <2>2. QED
      BY <1>4, <2>1 DEF ReadStop, TypeOK, Still
  <1>5. CASE Speak(t)
    <2>1. Turn(t)'
      <3>1. /\ sent'[t] = sent[t] + 1 /\ chunks'[t] = chunks[t] + 1
            /\ got[t][t] \in Nat /\ sent[t] \in Nat /\ chunks[t] \in Nat
        BY <1>5 DEF Speak, TypeOK
      <3>2. /\ work[t] \in Busy
            /\ UNCHANGED <<open, pc, waiting, reply, heard, got, frames, work, answer>>
        BY <1>5 DEF Speak
      <3>3. Fresh(t)' /\ Unprompted(t)' /\ Complete(t)' /\ Told(t)'
        BY <3>2 DEF Fresh, Unprompted, Complete, Told, Quiet, Busy
      <3>4. Prompted(t)'
        BY <3>1, <3>2 DEF Prompted, Quiet
      <3>5. QED
        BY <3>3, <3>4
    <2>2. QED
      BY <1>5, <2>1 DEF Speak, TypeOK, Still
  <1>6. CASE AnswerPrompt(t)
    <2>1. Turn(t)'
      BY <1>6 DEF AnswerPrompt, TypeOK, Fresh, Unprompted, Prompted, Complete, Told, Quiet, Busy
    <2>2. QED
      BY <1>6, <2>1 DEF AnswerPrompt, TypeOK, Still
  <1>7. CASE ReadClose(t)
    <2>1. Turn(t)'
      BY <1>7 DEF ReadClose, TypeOK, Fresh, Unprompted, Prompted, Complete, Told, Quiet, Busy
    <2>2. QED
      BY <1>7, <2>1 DEF ReadClose, TypeOK, Still
  <1>8. QED
    BY <1>1, <1>2, <1>3, <1>4, <1>5, <1>6, <1>7 DEF AgentStep

\* Every step keeps what is known of each turn: a step of one turn by the lemmas
\* above, a step that concerns all of them directly.
LEMMA StepTurns ==
  ASSUME IInv, [Next]_vars
  PROVE  \A u \in Turns : Turn(u)'
  <1> USE DEF IInv
  <1>1. ASSUME NEW t \in Turns,
               \/ Begin(t) \/ TimesOut(t) \/ Continues(t)
               \/ RequestTimesOut(t) \/ Respond(t) \/ Collect(t)
               \/ AgentStep(t)
        PROVE  \A u \in Turns : Turn(u)'
    <2>1. Turn(t)' /\ \A u \in Turns \ {t} : Still(u)
      BY <1>1, TurnStep, TurnReads, TurnServed
    <2>2. QED
      BY <2>1, StillTurn
  <1>2. ASSUME NEW k \in Tasks, Cancel(k), NEW u \in Turns PROVE Turn(u)'
    <2>1. /\ UNCHANGED <<open, pc, waiting, reply, heard, got, work, sent, chunks, answer>>
          /\ frames[u] \subseteq frames'[u] /\ frames'[u] \subseteq frames[u] \cup {"cancel"}
          /\ pc[u] # "prompting" => frames'[u] = frames[u]
      BY <1>2 DEF Cancel, Abort, Notify, TypeOK, clientVars, agentVars
    <2>2. Turn(u)
      OBVIOUS
    <2>3. QED
      BY <2>1, <2>2 DEF Turn, Fresh, Unprompted, Prompted, Complete, Told, Quiet
  <1>3. ASSUME PoolCloses \/ StreamEnds, NEW u \in Turns PROVE Turn(u)'
    <2>1. /\ open' = FALSE /\ waiting' = {} /\ reply'[u] \in {reply[u], "error"}
          /\ UNCHANGED <<pc, got, frames, work, sent, chunks, answer>>
      BY <1>3 DEF PoolCloses, StreamEnds, Teardown, agentVars, pipeVars
    <2>2. Turn(u)
      OBVIOUS
    <2>3. QED
      BY <2>1, <2>2 DEF Turn, Fresh, Unprompted, Prompted, Complete, Told, Quiet
  <1>4. ASSUME Dies, NEW u \in Turns PROVE Turn(u)'
    <2>1. /\ frames'[u] = {} /\ work'[u] = "none"
          /\ UNCHANGED <<open, pc, waiting, reply, heard, got, sent, chunks, answer>>
      BY <1>4 DEF Dies, clientVars
    <2>2. Turn(u)
      OBVIOUS
    <2>3. QED
      BY <2>1, <2>2 DEF Turn, Fresh, Unprompted, Prompted, Complete, Told, Quiet, Busy
  <1>5. ASSUME UNCHANGED vars, NEW u \in Turns PROVE Turn(u)'
    <2>1. Still(u)
      BY <1>5 DEF vars, clientVars, agentVars, pipeVars, Still
    <2>2. QED
      BY <2>1, StillTurn
  <1>6. QED
    BY <1>1, <1>2, <1>3, <1>4, <1>5 DEF Next

\* The invariant is inductive.
LEMMA StepIInv == IInv /\ [Next]_vars => IInv'
  <1> SUFFICES ASSUME IInv, [Next]_vars PROVE IInv'
    OBVIOUS
  <1>1. TypeOK'
    BY StepType DEF IInv
  <1>2. Client'
    BY ClientStep DEF IInv
  <1>3. (\A u \in Turns : Turn(u))'
    <2>1. \A u \in Turns : Turn(u)'
      BY StepTurns
    <2>2. Turns' = Turns
      BY DEF Turns
    <2>3. QED
      BY <2>1, <2>2
  <1>4. QED
    BY <1>1, <1>2, <1>3 DEF IInv

\* It always holds.
LEMMA AlwaysIInv == Spec => []IInv
  BY InitIInv, StepIInv, PTL DEF Spec

----------------------------------------------------------------------------
(* The theorems *)

\* Every reachable state is well typed: a turn that awaits the client has either
\* a request under way or an answer, never both.
THEOREM TypeCorrect == Spec => []TypeOK
  <1>1. IInv => TypeOK
    BY DEF IInv
  <1>2. QED
    BY <1>1, AlwaysIInv, PTL

\* For any number of tasks and attempts on one client: the text of a turn that
\* ends well is all of its own session's and nothing of another's.
THEOREM TextAlwaysOwn == Spec => []TextIsOwn
  <1>1. IInv => TextIsOwn
    <2> SUFFICES ASSUME IInv, NEW t \in Turns, pc[t] \in {"closing", "returned"}
                 PROVE  got[t] = [s \in Turns |-> IF s = t THEN sent[t] ELSE 0]
      BY DEF TextIsOwn
    <2>1. got[t] \in [Turns -> Nat] /\ got[t][t] = sent[t]
      BY DEF IInv, TypeOK, Turn, Complete
    <2>2. \A s \in Turns : got[t][s] = IF s = t THEN sent[t] ELSE 0
      BY <2>1 DEF IInv, Client
    <2>3. QED
      BY <2>1, <2>2
  <1>2. QED
    BY <1>1, AlwaysIInv, PTL

\* The agent does not work on for a turn that is over and that it was not told of,
\* as long as the client is open.
THEOREM AgentAlwaysTold == Spec => []AgentTold
  <1>1. IInv => AgentTold
    BY DEF IInv, AgentTold, Over, Turn, Complete, Told, Quiet, Busy
  <1>2. QED
    BY <1>1, AlwaysIInv, PTL

\* The shared client keeps no handler and no request of a turn that is over.
THEOREM NothingStays == Spec => []NothingLeft
  <1>1. IInv => NothingLeft
    <2> SUFFICES ASSUME IInv, NEW t \in heard \cup waiting PROVE ~Over(t)
      BY DEF NothingLeft
    <2>1. CASE t \in heard
      BY <2>1 DEF IInv, Client, Over
    <2>2. CASE t \in waiting
      BY <2>2 DEF IInv, TypeOK, Over
    <2>3. QED
      BY <2>1, <2>2
  <1>2. QED
    BY <1>1, AlwaysIInv, PTL

=============================================================================
