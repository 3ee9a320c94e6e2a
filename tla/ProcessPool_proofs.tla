-------------------------- MODULE ProcessPool_proofs --------------------------
(***************************************************************************)
(* What ProcessPool promises for any number of tasks: two tasks never      *)
(* spawn at a time, and no process is left without somebody who answers    *)
(* for it.                                                                 *)
(***************************************************************************)
EXTENDS ProcessPool, TLAPS

----------------------------------------------------------------------------
(* The inductive invariant *)

\* What the chain of promises amounts to: whoever a task has to let pass is in
\* the mutex, the last of them is the one it awaits, and of two tasks in the
\* mutex one lets the other pass.
Queue ==
    /\ \A c \in Tasks : ahead[c] \subseteq Held \ {c}
    /\ \A c \in Tasks : pc[c] = "spawning" => ahead[c] = {}
    /\ \A c \in Tasks : ahead[c] # {} =>
          after[c] \in ahead[c] /\ ahead[c] = ahead[after[c]] \cup {after[c]}
    /\ \A c, d \in Held : c # d => c \in ahead[d] \/ d \in ahead[c]
    /\ Held # {} => tail \in Held /\ Held = ahead[tail] \cup {tail}

\* What a daemon leaves to the next one, and who is killed when.
Lives ==
    /\ victim # None => mode = "killing"
    /\ \A e \in Tasks : child[e] # "none" => pc[e] \notin {"idle", "waiting"}
    /\ ~Up => \A e \in Tasks : pc[e] # "idle" => e \in old

IInv == TypeOK /\ Queue /\ Lives /\ Accounted

\* The initial states satisfy the inductive invariant.
LEMMA InitIInv == Init => IInv
  <1> SUFFICES ASSUME Init PROVE IInv
    OBVIOUS
  <1>1. TypeOK
    <2>1. /\ after \in [Tasks -> Tasks \cup {None}]
          /\ serves \in [Tasks -> Tasks \cup {None}]
          /\ ahead \in [Tasks -> SUBSET Tasks]
      BY DEF Init
    <2>2. mode = "up" /\ starts \in 0 .. MaxStarts
      BY PoolAssumption DEF Init
    <2>3. QED
      BY <2>1, <2>2 DEF Init, TypeOK, Living
  <1>2. Queue
    BY DEF Init, Queue, Held
  <1>3. Lives
    BY DEF Init, Lives, Up
  <1>4. Accounted
    BY DEF Init, Accounted, Living
  <1>5. QED
    BY <1>1, <1>2, <1>3, <1>4 DEF IInv

----------------------------------------------------------------------------
(* Types, action by action *)

\* A deregistration keeps the types of the registration.
LEMMA DeregisterType ==
  ASSUME TypeOK, NEW e \in Tasks, Deregister(e)
  PROVE  /\ reg' \in {reg, None} /\ closing' \in BOOLEAN
         /\ age' \in {"fresh", "due", "stale"} /\ strays' \subseteq Tasks
  BY DEF TypeOK, Deregister, Lost

\* Entering and leaving the mutex keeps the types.
LEMMA AcquireType ==
  ASSUME TypeOK, NEW c \in Tasks,
         Ask(c) \/ Reuse(c) \/ Spawn(c) \/ Register(c) \/ SpawnFails(c)
  PROVE  TypeOK'
  <1> USE PoolAssumption DEF TypeOK, Living
  <1>1. CASE Ask(c)
    <2>1. ahead' \in [Tasks -> SUBSET Tasks]
      BY <1>1 DEF Ask, Held
    <2>2. pc' \in [Tasks -> {"idle", "waiting", "spawning", "opening", "prompting", "done",
                            "over"}]
      BY <1>1 DEF Ask
    <2>3. reg' = reg /\ tickDb' = tickDb /\ \A d \in Tasks : d # c => pc'[d] = pc[d]
      BY <1>1 DEF Ask, regVars, tickVars
    <2>4. reg' # None => tickDb' # None /\ pc'[reg'] \notin {"idle", "waiting", "spawning"}
      BY <1>1, <2>3 DEF Ask
    <2>5. QED
      BY <1>1, <2>1, <2>2, <2>4 DEF Ask, regVars, rowVars, tickVars, lifeVars
  <1>2. /\ tail' \in Tasks \cup {None} /\ after' \in [Tasks -> Tasks \cup {None}]
        /\ ahead' \in [Tasks -> SUBSET Tasks]
    BY DEF Ask, Reuse, Spawn, Register, SpawnFails, Release, mutexVars, Held
  <1>3. CASE Reuse(c)
    BY <1>2, <1>3 DEF Reuse, HasTurn, Reusable, Opens, OpensNot, rowVars, tickVars, lifeVars
  <1>4. CASE Spawn(c)
    BY <1>2, <1>4 DEF Spawn, HasTurn, regVars, rowVars, tickVars, lifeVars
  <1>5. CASE Register(c)
    <2>1. strays' \subseteq Tasks
      BY <1>5 DEF Register, Lost
    <2>2. /\ reg' = c /\ tickDb' \in Tasks \cup {None} /\ tickDb' # None
          /\ age' = "fresh" /\ closing' = FALSE
      BY <1>5 DEF Register
    <2>3. /\ pc' \in [Tasks -> {"idle", "waiting", "spawning", "opening", "prompting",
                               "done", "over"}]
          /\ pc'[c] \in {"opening", "done"}
      BY <1>5 DEF Register, Opens, OpensNot
    <2>4. /\ row' \in [Tasks -> {"none", "active", "ended"}]
          /\ serves' \in [Tasks -> Tasks \cup {None}]
          /\ \A d \in Tasks : row'[d] = "none" <=> serves'[d] = None
      BY <1>5 DEF Register, Opens, OpensNot, rowVars
    <2>5. UNCHANGED <<child, tick, subject, mode, starts, victim, old>>
      BY <1>5 DEF Register, lifeVars
    <2>6. QED
      BY <1>2, <2>1, <2>2, <2>3, <2>4, <2>5
  <1>6. CASE SpawnFails(c)
    BY <1>2, <1>6 DEF SpawnFails, regVars, rowVars, tickVars, lifeVars
  <1>7. QED
    BY <1>1, <1>3, <1>4, <1>5, <1>6

\* The rest of a task's life and of a process's keeps the types.
LEMMA TaskType ==
  ASSUME TypeOK, NEW c \in Tasks,
         \/ Opened(c) \/ Finish(c) \/ RunEnds(c) \/ Hang(c) \/ Exits(c)
         \/ OperatorEnds(c) \/ SweepRow(c)
  PROVE  TypeOK'
  <1> USE PoolAssumption DEF TypeOK, Living, mutexVars, tickVars, lifeVars
  <1>1. CASE Opened(c)
    BY <1>1 DEF Opened, rowVars
  <1>2. CASE Finish(c) \/ RunEnds(c)
    BY <1>2 DEF Finish, RunEnds, regVars, rowVars
  <1>3. CASE Hang(c)
    BY <1>3 DEF Hang, regVars, rowVars
  <1>4. CASE Exits(c)
    <2>1. row' \in [Tasks -> {"none", "active", "ended"}]
          /\ \A d \in Tasks : row'[d] = "none" <=> row[d] = "none"
      BY <1>4 DEF Exits, OnExit, Ended, Tracked
    <2>2. /\ reg' \in {reg, None} /\ closing' \in BOOLEAN
          /\ age' \in {"fresh", "due", "stale"} /\ strays' \subseteq Tasks
      <3>1. CASE Deregister(c)
        BY <3>1, DeregisterType
      <3>2. CASE UNCHANGED regVars
        BY <3>2 DEF regVars
      <3>3. QED
        BY <1>4, <3>1, <3>2 DEF Exits, OnExit
    <2>3. child' \in [Tasks -> Living \cup {"none", "dead"}]
      BY <1>4 DEF Exits
    <2>4. QED
      BY <1>4, <2>1, <2>2, <2>3 DEF Exits
  <1>5. CASE OperatorEnds(c) \/ SweepRow(c)
    BY <1>5 DEF OperatorEnds, SweepRow, regVars
  <1>6. QED
    BY <1>1, <1>2, <1>3, <1>4, <1>5

\* Time and the heartbeat tick keep the types.
LEMMA TickType ==
  ASSUME TypeOK, Elapse \/ TickStep
  PROVE  TypeOK'
  <1> USE PoolAssumption DEF TypeOK, TickFrame, mutexVars, lifeVars
  <1>1. CASE Elapse
    BY <1>1 DEF Elapse, rowVars, tickVars
  <1>2. CASE Probe
    BY <1>2 DEF Probe, regVars
  <1>3. ASSUME NEW e \in Tasks, BeginExpire(e), reg # None \/ tick # "idle"
        PROVE  TypeOK'
    <2>1. row' \in [Tasks -> {"none", "active", "ended"}]
          /\ \A d \in Tasks : row'[d] = "none" <=> row[d] = "none"
      BY <1>3 DEF BeginExpire, Ended, Tracked
    <2>2. /\ tick' = "closing" /\ subject' = e /\ closing' \in BOOLEAN
          /\ UNCHANGED <<reg, age, strays, pc, child, serves, tickDb, tail, after, ahead,
                         mode, starts, victim, old>>
      BY <1>3 DEF BeginExpire
    <2>3. subject' \in Tasks \cup {None} /\ (tick' = "idle" <=> subject' = None)
      BY <2>2
    <2>4. QED
      BY <2>1, <2>2, <2>3
  <1>4. CASE TickExpires
    BY <1>4, <1>3 DEF TickExpires
  <1>5. CASE ProbeFails
    <2>1. subject \in Tasks
      BY <1>5 DEF ProbeFails
    <2>2. QED
      BY <1>3, <1>5, <2>1 DEF ProbeFails
  <1>6. CASE ProbeAnswered
    BY <1>6 DEF ProbeAnswered
  <1>7. CASE SendTerm
    BY <1>7 DEF SendTerm, regVars
  <1>8. CASE EndExpire
    BY <1>8 DEF EndExpire, Deregister, Lost
  <1>9. QED
    BY <1>1, <1>2, <1>4, <1>5, <1>6, <1>7, <1>8 DEF TickStep

\* The daemon's life keeps the types.
LEMMA DaemonType ==
  ASSUME TypeOK, Drain \/ ForceKill \/ ExitDaemon \/ Crash \/ Start \/ Swept
  PROVE  TypeOK'
  <1> USE PoolAssumption DEF TypeOK, mutexVars, tickVars
  <1>1. CASE Drain
    <2>1. row' \in [Tasks -> {"none", "active", "ended"}]
          /\ \A d \in Tasks : row'[d] = "none" <=> row[d] = "none"
      BY <1>1 DEF Drain, Ended, Tracked
    <2>2. QED
      BY <1>1, <2>1 DEF Drain
  <1>2. CASE ForceKill
    <2>1. /\ reg' \in {reg, None} /\ closing' \in BOOLEAN
          /\ age' \in {"fresh", "due", "stale"} /\ strays' \subseteq Tasks
      BY <1>2, DeregisterType DEF ForceKill, regVars
    <2>2. victim' \in Tasks \cup {None} /\ mode' = "killing"
      BY <1>2 DEF ForceKill
    <2>3. UNCHANGED <<tail, after, ahead, pc, child, serves, row, tick, subject, tickDb, starts,
                      old>>
      BY <1>2 DEF ForceKill, rowVars
    <2>4. QED
      BY <2>1, <2>2, <2>3
  <1>3. CASE ExitDaemon \/ Crash
    <2>1. mode' \in {"exited", "crashed"} /\ Dies
      BY <1>3 DEF ExitDaemon, Crash
    <2>2. QED
      BY <2>1 DEF Dies, rowVars
  <1>4. CASE Start \/ Swept
    BY <1>4 DEF Start, Swept, regVars, rowVars
  <1>5. QED
    BY <1>1, <1>2, <1>3, <1>4

\* Every step keeps the types.
LEMMA TypeStep ==
  ASSUME TypeOK, [Next]_vars
  PROVE  TypeOK'
  <1>1. CASE Next
    BY <1>1, AcquireType, TaskType, TickType, DaemonType DEF Next, TaskStep
  <1>2. CASE UNCHANGED vars
    BY <1>2 DEF vars, mutexVars, regVars, rowVars, tickVars, lifeVars, TypeOK
  <1>3. QED
    BY <1>1, <1>2

----------------------------------------------------------------------------
(* The mutex *)

\* Whoever has the turn has nobody left to let pass.
LEMMA TurnIsFirst ==
  ASSUME Queue, NEW c \in Tasks, HasTurn(c)
  PROVE  ahead[c] = {}
  BY DEF Queue, HasTurn

\* A task that asks is the last in the queue.
LEMMA EnterQueue ==
  ASSUME TypeOK, Queue, NEW c \in Tasks, Ask(c)
  PROVE  Queue'
  <1>1. c \notin Held /\ Held' = Held \cup {c}
    BY DEF Ask, Held, TypeOK
  <1>2. /\ tail' = c /\ ahead'[c] = Held /\ after'[c] = tail
        /\ \A d \in Tasks : d # c => ahead'[d] = ahead[d] /\ after'[d] = after[d]
    BY DEF Ask, TypeOK
  <1>3. /\ \A d \in Tasks : d # c => pc'[d] = pc[d]
        /\ pc'[c] = "waiting"
    BY DEF Ask, TypeOK
  <1>4. \A d \in Tasks : ahead[d] \subseteq Held \ {d}
    BY DEF Queue
  <1>5. /\ \A d \in Tasks : ahead'[d] \subseteq Held' \ {d}
        /\ \A d \in Tasks : pc'[d] = "spawning" => ahead'[d] = {}
    BY <1>1, <1>2, <1>3, <1>4 DEF Queue
  <1>6. ASSUME NEW d \in Tasks, ahead'[d] # {}
        PROVE  after'[d] \in ahead'[d] /\ ahead'[d] = ahead'[after'[d]] \cup {after'[d]}
    <2>1. CASE d = c
      <3>1. tail \in Held /\ Held = ahead[tail] \cup {tail} /\ tail # c /\ tail \in Tasks
        BY <1>1, <1>2, <1>6, <2>1 DEF Queue, Held
      <3>2. QED
        BY <1>2, <2>1, <3>1
    <2>2. CASE d # c
      <3>1. /\ ahead'[d] = ahead[d] /\ after'[d] = after[d]
            /\ after[d] \in ahead[d] /\ ahead[d] = ahead[after[d]] \cup {after[d]}
        BY <1>2, <1>6, <2>2 DEF Queue
      <3>2. after[d] \in Tasks /\ after[d] # c
        BY <1>1, <1>4, <3>1 DEF Held
      <3>3. QED
        BY <1>2, <3>1, <3>2
    <2>3. QED
      BY <2>1, <2>2
  <1>7. \A d, e \in Held' : d # e => d \in ahead'[e] \/ e \in ahead'[d]
    <2>1. \A d \in Held : d \in Tasks
      BY DEF Held
    <2>2. QED
      BY <1>1, <1>2, <2>1 DEF Queue
  <1>8. tail' \in Held' /\ Held' = ahead'[tail'] \cup {tail'}
    BY <1>1, <1>2
  <1>9. QED
    BY <1>5, <1>6, <1>7, <1>8 DEF Queue

\* The first in the queue leaves it.
LEMMA LeaveQueue ==
  ASSUME TypeOK, Queue, NEW c \in Held, ahead[c] = {}, Release(c), Held' = Held \ {c},
         \A d \in Tasks : pc'[d] = "spawning" => pc[d] = "spawning"
  PROVE  Queue'
  <1>1. /\ c \in Tasks
        /\ \A d \in Tasks : ahead'[d] = ahead[d] \ {c}
        /\ \A d \in Tasks : d # c => after'[d] = after[d]
    BY DEF Release, TypeOK, Held
  <1>2. \A d \in Tasks : ahead[d] \subseteq Held \ {d}
    BY DEF Queue
  <1>3. /\ \A d \in Tasks : ahead'[d] \subseteq Held' \ {d}
        /\ \A d \in Tasks : pc'[d] = "spawning" => ahead'[d] = {}
    BY <1>1, <1>2 DEF Queue
  <1>4. ASSUME NEW d \in Tasks, ahead'[d] # {}
        PROVE  after'[d] \in ahead'[d] /\ ahead'[d] = ahead'[after'[d]] \cup {after'[d]}
    <2>1. d # c /\ after'[d] = after[d]
      BY <1>1, <1>4
    <2>2. after[d] \in ahead[d] /\ ahead[d] = ahead[after[d]] \cup {after[d]}
      BY <1>1, <1>4 DEF Queue
    <2>3. after[d] \in Tasks
      BY <1>2, <2>2 DEF Held
    <2>4. after[d] # c
      BY <1>1, <1>4, <2>2
    <2>5. QED
      BY <1>1, <2>1, <2>2, <2>3, <2>4
  <1>5. \A d, e \in Held' : d # e => d \in ahead'[e] \/ e \in ahead'[d]
    <2>1. \A d \in Held : d \in Tasks
      BY DEF Held
    <2>2. QED
      BY <1>1, <2>1 DEF Queue
  <1>6. ASSUME Held' # {}
        PROVE  tail' \in Held' /\ Held' = ahead'[tail'] \cup {tail'}
    <2>1. tail \in Held /\ Held = ahead[tail] \cup {tail} /\ tail \in Tasks
      BY <1>6 DEF Queue, Held
    <2>2. tail # c
      BY <1>6, <2>1
    <2>3. tail' = tail
      BY <2>2 DEF Release
    <2>4. QED
      BY <1>1, <2>1, <2>2, <2>3
  <1>7. QED
    BY <1>3, <1>4, <1>5, <1>6 DEF Queue

\* A step that leaves the chain and its members alone keeps the queue, when only
\* the first may begin to spawn.
LEMMA KeepQueue ==
  ASSUME Queue, UNCHANGED mutexVars, Held' = Held,
         \A d \in Tasks : pc'[d] = "spawning" => pc[d] = "spawning" \/ ahead[d] = {}
  PROVE  Queue'
  BY DEF Queue, mutexVars

\* Every step keeps the queue.
LEMMA QueueStep ==
  ASSUME TypeOK, Queue, [Next]_vars
  PROVE  Queue'
  <1> DEFINE Same == UNCHANGED <<mutexVars, pc>>
  <1>1. ASSUME Same PROVE Queue'
    BY <1>1, KeepQueue DEF Held, mutexVars
  <1>2. ASSUME NEW c \in Tasks, TaskStep(c) PROVE Queue'
    <2>1. CASE Ask(c)
      BY <2>1, EnterQueue
    <2>2. CASE Reuse(c) \/ Register(c) \/ SpawnFails(c)
      <3>1. c \in Held /\ Release(c)
        BY <2>2 DEF Reuse, Register, SpawnFails, HasTurn, Held
      <3>2. ahead[c] = {}
        BY <2>2, TurnIsFirst DEF Reuse, Register, SpawnFails, Queue
      <3>3. /\ pc'[c] \in {"opening", "done"}
            /\ \A d \in Tasks : d # c => pc'[d] = pc[d]
        BY <2>2 DEF Reuse, Register, SpawnFails, Opens, OpensNot, TypeOK
      <3>4. Held' = Held \ {c}
        BY <3>3 DEF Held
      <3>5. QED
        BY <3>1, <3>2, <3>3, <3>4, LeaveQueue
    <2>3. CASE Spawn(c)
      <3>1. ahead[c] = {}
        BY <2>3, TurnIsFirst DEF Spawn
      <3>2. Held' = Held /\ \A d \in Tasks : d # c => pc'[d] = pc[d]
        BY <2>3 DEF Spawn, HasTurn, Held, TypeOK
      <3>3. QED
        BY <2>3, <3>1, <3>2, KeepQueue DEF Spawn
    <2>4. CASE Opened(c) \/ Finish(c) \/ RunEnds(c)
      <3>1. /\ pc[c] \notin {"waiting", "spawning"} /\ pc'[c] \notin {"waiting", "spawning"}
            /\ \A d \in Tasks : d # c => pc'[d] = pc[d]
        BY <2>4 DEF Opened, Finish, RunEnds, TypeOK
      <3>2. Held' = Held
        BY <3>1 DEF Held
      <3>3. UNCHANGED mutexVars
        BY <2>4 DEF Opened, Finish, RunEnds
      <3>4. QED
        BY <3>1, <3>2, <3>3, KeepQueue
    <2>5. QED
      BY <1>2, <2>1, <2>2, <2>3, <2>4 DEF TaskStep
  <1>3. ASSUME NEW c \in Tasks, Hang(c) \/ Exits(c) \/ OperatorEnds(c) \/ SweepRow(c)
        PROVE  Queue'
    BY <1>1, <1>3 DEF Hang, Exits, OperatorEnds, SweepRow
  <1>4. CASE Elapse \/ TickStep
    <2>1. Same
      BY <1>4 DEF Elapse, TickStep, Probe, TickExpires, ProbeAnswered, ProbeFails, SendTerm,
                  EndExpire, BeginExpire, TickFrame
    <2>2. QED
      BY <1>1, <2>1
  <1>5. CASE Drain \/ ForceKill \/ Start \/ Swept
    BY <1>1, <1>5 DEF Drain, ForceKill, Start, Swept
  <1>6. CASE ExitDaemon \/ Crash
    <2>1. Dies
      BY <1>6 DEF ExitDaemon, Crash
    <2>2. Held' = {} /\ \A d \in Tasks : ahead'[d] = {} /\ pc'[d] # "spawning"
      BY <2>1 DEF Dies, Held
    <2>3. QED
      BY <2>2 DEF Queue
  <1>7. CASE UNCHANGED vars
    BY <1>1, <1>7 DEF vars
  <1>8. QED
    BY <1>2, <1>3, <1>4, <1>5, <1>6, <1>7 DEF Next

----------------------------------------------------------------------------
(* Lives, and who answers for a process *)

\* Every step keeps what a daemon leaves to the next one.
LEMMA LivesStep ==
  ASSUME TypeOK, Lives, [Next]_vars
  PROVE  Lives'
  <1> USE DEF Lives, Up
  <1>1. ASSUME NEW c \in Tasks,
               Ask(c) \/ Reuse(c) \/ Spawn(c) \/ Register(c) \/ SpawnFails(c)
        PROVE  Lives'
    <2>1. UNCHANGED <<mode, victim, old>>
      BY <1>1 DEF Ask, Reuse, Spawn, Register, SpawnFails, lifeVars
    <2>2. \A d \in Tasks : d # c => pc'[d] = pc[d] /\ child'[d] = child[d]
      BY <1>1 DEF Ask, Reuse, Spawn, Register, SpawnFails, Opens, OpensNot, TypeOK
    <2>3. child'[c] # "none" => pc'[c] \notin {"idle", "waiting"}
      BY <1>1 DEF Ask, Reuse, Spawn, Register, SpawnFails, Opens, OpensNot, TypeOK
    <2>4. ~Up => pc[c] # "idle"
      BY <1>1 DEF Ask, Reuse, Spawn, Register, SpawnFails, HasTurn
    <2>5. QED
      BY <2>1, <2>2, <2>3, <2>4
  <1>2. ASSUME NEW c \in Tasks, Opened(c) \/ Finish(c) \/ RunEnds(c) PROVE Lives'
    <2>1. UNCHANGED <<mode, victim, old, child>>
      BY <1>2 DEF Opened, Finish, RunEnds, lifeVars
    <2>2. /\ \A d \in Tasks : d # c => pc'[d] = pc[d]
          /\ pc[c] # "idle" /\ pc'[c] \notin {"idle", "waiting"}
      BY <1>2 DEF Opened, Finish, RunEnds, TypeOK
    <2>3. QED
      BY <2>1, <2>2
  <1>3. ASSUME NEW c \in Tasks, Hang(c) \/ Exits(c) \/ OperatorEnds(c) \/ SweepRow(c)
        PROVE  Lives'
    <2>1. UNCHANGED <<mode, victim, old, pc>>
      BY <1>3 DEF Hang, Exits, OperatorEnds, SweepRow, lifeVars
    <2>2. \A d \in Tasks : child'[d] # "none" => child[d] # "none"
      BY <1>3 DEF Hang, Exits, OperatorEnds, SweepRow, Living, TypeOK
    <2>3. QED
      BY <2>1, <2>2
  <1>4. CASE Elapse \/ TickStep
    <2>1. UNCHANGED <<mode, victim, old, pc, child>>
      BY <1>4 DEF Elapse, TickStep, Probe, TickExpires, ProbeAnswered, ProbeFails, SendTerm,
                  EndExpire, BeginExpire, TickFrame, lifeVars
    <2>2. QED
      BY <2>1
  <1>5. CASE Drain \/ ForceKill \/ Start \/ Swept
    BY <1>5 DEF Drain, ForceKill, Start, Swept
  <1>6. CASE ExitDaemon \/ Crash
    <2>1. Dies
      BY <1>6 DEF ExitDaemon, Crash
    <2>2. /\ victim' = None /\ child' = child
          /\ \A d \in Tasks : pc'[d] \in {"idle", "over"} /\ (pc'[d] = "idle" <=> pc[d] = "idle")
          /\ \A d \in Tasks : pc'[d] # "idle" => d \in old'
      BY <2>1 DEF Dies
    <2>3. QED
      BY <2>2
  <1>7. CASE UNCHANGED vars
    BY <1>7 DEF vars, lifeVars
  <1>8. QED
    BY <1>1, <1>2, <1>3, <1>4, <1>5, <1>6, <1>7 DEF Next, TaskStep

\* What a process needs for somebody to answer for it.
Kept(e) == pc[e] = "spawning" \/ reg = e \/ Doomed(e) \/ e \in strays

\* A deregistration leaves no living process to itself, when what it is done for
\* is dead or being killed.
LEMMA DeregisterKeeps ==
  ASSUME TypeOK, NEW d \in Tasks, Deregister(d), NEW e \in Tasks, e # d, Kept(e),
         child[e] \in Living, pc' = pc,
         Doomed(e) => Doomed(e)'
  PROVE  Kept(e)'
  <1>1. CASE reg = e /\ ~Doomed(e)
    <2>1. Lost(d) = {e}
      BY <1>1, PoolAssumption DEF Lost
    <2>2. QED
      BY <2>1 DEF Deregister, Kept
  <1>2. CASE Doomed(e)
    BY <1>2 DEF Kept
  <1>3. CASE pc[e] = "spawning" \/ e \in strays
    BY <1>3 DEF Kept, Deregister
  <1>4. QED
    BY <1>1, <1>2, <1>3 DEF Kept

\* Every step keeps all living processes accounted for.
LEMMA AccountedStep ==
  ASSUME TypeOK, Lives, Accounted, [Next]_vars
  PROVE  Accounted'
  <1> SUFFICES ASSUME NEW e \in Tasks, Up', child'[e] \in Living, e \notin old'
               PROVE  Kept(e)'
    BY DEF Accounted, Kept
  <1>1. Up /\ child[e] \in Living /\ e \notin old => Kept(e)
    BY DEF Accounted, Kept
  <1>2. ASSUME NEW c \in Tasks, TaskStep(c) PROVE Kept(e)'
    <2>1. /\ UNCHANGED <<mode, old, victim, tick, subject>>
          /\ \A d \in Tasks : d # c => pc'[d] = pc[d] /\ child'[d] = child[d]
      BY <1>2 DEF TaskStep, Ask, Reuse, Spawn, Register, SpawnFails, Opened, Finish, RunEnds,
                  Opens, OpensNot, lifeVars, tickVars, TypeOK
    <2>2. Up /\ e \notin old /\ (Doomed(e) => Doomed(e)')
      BY <2>1 DEF Up, Doomed
    <2>3. CASE Register(c)
      <3>1. CASE e = c
        BY <2>3, <3>1 DEF Register, Kept
      <3>2. CASE e # c
        <4>1. Kept(e) /\ child[e] \in Living
          BY <1>1, <2>1, <2>2, <3>2
        <4>2. CASE reg = e /\ ~Doomed(e)
          <5>1. Lost(c) = {e}
            BY <3>2, <4>1, <4>2, PoolAssumption DEF Lost
          <5>2. QED
            BY <2>3, <5>1 DEF Register, Kept
        <4>3. CASE Doomed(e) \/ e \in strays \/ pc[e] = "spawning"
          BY <2>1, <2>2, <2>3, <3>2, <4>3 DEF Register, Kept
        <4>4. QED
          BY <4>1, <4>2, <4>3 DEF Kept
      <3>3. QED
        BY <3>1, <3>2
    <2>4. CASE Spawn(c)
      <3>1. CASE e = c
        BY <2>4, <3>1 DEF Spawn, Kept, TypeOK
      <3>2. CASE e # c
        BY <1>1, <2>1, <2>2, <2>4, <3>2 DEF Spawn, Kept, regVars
      <3>3. QED
        BY <3>1, <3>2
    <2>5. CASE SpawnFails(c)
      <3>1. e # c
        BY <2>5 DEF SpawnFails, TypeOK, Living
      <3>2. QED
        BY <1>1, <2>1, <2>2, <2>5, <3>1 DEF SpawnFails, Kept, regVars
    <2>6. CASE Ask(c) \/ Reuse(c) \/ Opened(c) \/ Finish(c) \/ RunEnds(c)
      <3>1. /\ child' = child /\ reg' = reg /\ strays' = strays
            /\ pc[c] # "spawning"
        BY <2>6 DEF Ask, Reuse, HasTurn, Opened, Finish, RunEnds, regVars
      <3>2. Kept(e)
        BY <1>1, <2>2, <3>1
      <3>3. QED
        BY <2>1, <2>2, <3>1, <3>2 DEF Kept
    <2>7. QED
      BY <1>2, <2>3, <2>4, <2>5, <2>6 DEF TaskStep
  <1>3. ASSUME NEW c \in Tasks, Exits(c) PROVE Kept(e)'
    <2>1. /\ UNCHANGED <<mode, old, victim, tick, subject, pc>>
          /\ \A d \in Tasks : d # c => child'[d] = child[d]
          /\ child'[c] = "dead"
      BY <1>3 DEF Exits, lifeVars, tickVars, TypeOK
    <2>2. /\ e # c /\ child[e] \in Living /\ Kept(e)
          /\ Doomed(e) => Doomed(e)'
      BY <1>1, <2>1 DEF Up, Doomed, Living
    <2>3. CASE Deregister(c)
      BY <2>1, <2>2, <2>3, DeregisterKeeps
    <2>4. CASE UNCHANGED regVars
      BY <2>1, <2>2, <2>4 DEF Kept, regVars
    <2>5. QED
      BY <1>3, <2>3, <2>4 DEF Exits, OnExit
  <1>4. ASSUME NEW c \in Tasks, Hang(c) \/ OperatorEnds(c) \/ SweepRow(c) PROVE Kept(e)'
    <2>1. /\ UNCHANGED <<mode, old, victim, tick, subject, pc, reg, strays>>
          /\ child[e] \in Living
      BY <1>4 DEF Hang, OperatorEnds, SweepRow, lifeVars, tickVars, regVars, TypeOK, Living
    <2>2. QED
      BY <1>1, <2>1 DEF Up, Kept, Doomed
  <1>5. CASE Elapse \/ TickStep
    <2>1. UNCHANGED <<mode, old, victim, pc, child>>
      BY <1>5 DEF Elapse, TickStep, Probe, TickExpires, ProbeAnswered, ProbeFails, SendTerm,
                  EndExpire, BeginExpire, TickFrame, lifeVars
    <2>2. Kept(e) /\ child[e] \in Living
      BY <1>1, <2>1 DEF Up
    <2>3. CASE EndExpire
      <3>1. subject \in Tasks /\ Deregister(subject) /\ (child[subject] = "dead" \/ victim = subject)
        BY <2>3 DEF EndExpire, TypeOK
      <3>2. CASE e = subject
        BY <2>1, <2>2, <3>1, <3>2 DEF Kept, Doomed, Living
      <3>3. CASE e # subject
        <4>1. Doomed(e) => Doomed(e)'
          BY <2>1, <3>3 DEF Doomed
        <4>2. QED
          BY <2>1, <2>2, <3>1, <3>3, <4>1, DeregisterKeeps
      <3>4. QED
        BY <3>2, <3>3
    <2>4. CASE ~EndExpire
      <3>1. reg' = reg /\ strays' = strays
        BY <1>5, <2>4 DEF Elapse, TickStep, Probe, TickExpires, ProbeAnswered, ProbeFails,
                          SendTerm, BeginExpire, regVars
      <3>2. Doomed(e) => Doomed(e)'
        BY <1>5, <2>1, <2>4 DEF Elapse, TickStep, Probe, TickExpires, ProbeAnswered, ProbeFails,
                          SendTerm, BeginExpire, tickVars, Doomed
      <3>3. QED
        BY <2>1, <2>2, <3>1, <3>2 DEF Kept
    <2>5. QED
      BY <2>3, <2>4
  <1>6. CASE ForceKill
    <2>1. UNCHANGED <<old, tick, subject, pc, child>> /\ Up /\ victim = None
      BY <1>6 DEF ForceKill, Up, tickVars, Lives
    <2>2. Kept(e) /\ child[e] \in Living
      BY <1>1, <2>1
    <2>3. Doomed(e) => Doomed(e)'
      BY <2>1, PoolAssumption DEF Doomed
    <2>4. CASE UNCHANGED <<victim, regVars>>
      BY <2>1, <2>2, <2>3, <2>4 DEF Kept, regVars
    <2>5. CASE reg \in Tasks /\ victim' = reg /\ Deregister(reg)
      <3>1. CASE e = reg
        BY <2>5, <3>1 DEF Kept, Doomed
      <3>2. CASE e # reg
        BY <2>1, <2>2, <2>3, <2>5, <3>2, DeregisterKeeps
      <3>3. QED
        BY <3>1, <3>2
    <2>6. QED
      BY <1>6, <2>4, <2>5 DEF ForceKill, TypeOK
  <1>7. CASE Drain \/ Swept
    <2>1. UNCHANGED <<old, victim, tick, subject, pc, child, reg, strays>> /\ Up
      BY <1>7 DEF Drain, Swept, Up, tickVars, regVars
    <2>2. QED
      BY <1>1, <2>1 DEF Kept, Doomed
  <1>8. CASE ExitDaemon \/ Crash
    BY <1>8 DEF ExitDaemon, Crash, Up
  <1>9. CASE Start
    <2>1. ~Up /\ UNCHANGED <<old, pc, child>>
      BY <1>9 DEF Start
    <2>2. child[e] # "none" /\ pc[e] # "idle"
      BY <2>1 DEF Lives, Living
    <2>3. QED
      BY <2>1, <2>2 DEF Lives
  <1>10. CASE UNCHANGED vars
    <2>1. UNCHANGED <<mode, old, victim, tick, subject, pc, child, reg, strays>>
      BY <1>10 DEF vars, lifeVars, tickVars, regVars
    <2>2. QED
      BY <1>1, <2>1 DEF Up, Kept, Doomed
  <1>11. QED
    BY <1>2, <1>3, <1>4, <1>5, <1>6, <1>7, <1>8, <1>9, <1>10 DEF Next

----------------------------------------------------------------------------
(* The theorems *)

\* The inductive invariant holds throughout.
LEMMA SpecIInv == Spec => []IInv
  <1>1. Init => IInv
    BY InitIInv
  <1>2. IInv /\ [Next]_vars => IInv'
    BY TypeStep, QueueStep, LivesStep, AccountedStep DEF IInv
  <1>3. QED
    BY <1>1, <1>2, PTL DEF Spec

\* The pool's state has its types, the registered entry belongs to a task that
\* has left the mutex, and a session is tracked exactly when it has a row.
THEOREM TypeCorrect == Spec => []TypeOK
  BY SpecIInv, PTL DEF IInv

\* However many tasks ask, wait, fail and crash, no two of them spawn at a time.
\* (takePoolMutex and the finally of acquireAcpProcess.)
THEOREM OneSpawnAtATime == Spec => []SpawnsSerial
  <1>1. IInv => SpawnsSerial
    BY DEF IInv, Queue, SpawnsSerial, Held
  <1>2. QED
    BY <1>1, SpecIInv, PTL

\* However the tick, exits, the drain and new registrations interleave, a living
\* process is spawning, registered, being killed, or one whose registration went
\* to another.  (acquireAcpProcess, expireAcpEntry, forceKillSurvivingAcpProcesses.)
THEOREM EveryProcessAccounted == Spec => []Accounted
  BY SpecIInv, PTL DEF IInv

=============================================================================
