----------------------------- MODULE ProcessPool -----------------------------
(***************************************************************************)
(* The pool of long-lived agent processes (runtime/process-pool.ts), for   *)
(* one workspace and executor, that is for one key: the mutex in front of  *)
(* an acquisition, the reuse of the registered process, the heartbeat tick *)
(* that expires it, its exit handler, the daemon's drain and forced kill   *)
(* (cli/commands/daemon.ts), and the orphan sweep of the next start.       *)
(*                                                                         *)
(* A task acquires once (executors/cli/opencode-acp.ts).  A process is     *)
(* named by the task that had it spawned; so is the entry of the pool, and *)
(* the database connection that the task's run opened.                     *)
(***************************************************************************)
EXTENDS Naturals

CONSTANTS
    Tasks,      \* the tasks that ask for a process
    None,       \* no task
    MaxStarts   \* bound on further starts of the daemon

ASSUME PoolAssumption == None \notin Tasks /\ MaxStarts \in Nat

VARIABLES
    mode,       \* the daemon
    starts,     \* its further starts so far
    tail,       \* acpMutexes: who is last in the chain, None without one
    after,      \* whose turn a task's own comes after
    pc,         \* where a task is
    child,      \* the process spawned for a task
    reg,        \* acpProcesses: the registered entry
    closing,    \* its shuttingDown
    age,        \* how long ago its lastHeartbeatAt is
    serves,     \* whose process a task's session is tracked by
    row,        \* runtime_sessions.status of a task's session
    tick,       \* where the heartbeat tick is
    subject,    \* the entry it deals with
    tickDb,     \* whose connection it was given, None before it is started
    victim,     \* the process the forced kill waits for
    old,        \* tasks of an earlier daemon
    ahead,      \* history: the tasks a task still has to let pass
    strays      \* history: living processes whose registration was lost

mutexVars == <<tail, after, ahead>>
regVars   == <<reg, closing, age, strays>>
rowVars   == <<serves, row>>
tickVars  == <<tick, subject, tickDb>>
lifeVars  == <<mode, starts, victim, old>>
vars      == <<mutexVars, pc, child, regVars, rowVars, tickVars, lifeVars>>

Living == {"well", "hung"}

\* fresh: less than 60 s; due: from 60 to 90 s; stale: more.
TypeOK ==
    /\ mode \in {"sweeping", "up", "draining", "killing", "exited", "crashed"}
    /\ starts \in 0 .. MaxStarts
    /\ tail \in Tasks \cup {None}
    /\ after \in [Tasks -> Tasks \cup {None}]
    /\ pc \in [Tasks -> {"idle", "waiting", "spawning", "opening", "prompting", "done",
                       "over"}]
    /\ child \in [Tasks -> Living \cup {"none", "dead"}]
    /\ reg \in Tasks \cup {None}
    /\ closing \in BOOLEAN
    /\ age \in {"fresh", "due", "stale"}
    /\ serves \in [Tasks -> Tasks \cup {None}]
    /\ row \in [Tasks -> {"none", "active", "ended"}]
    /\ tick \in {"idle", "probing", "closing", "killing"}
    /\ subject \in Tasks \cup {None}
    /\ tickDb \in Tasks \cup {None}
    /\ victim \in Tasks \cup {None}
    /\ old \subseteq Tasks
    /\ ahead \in [Tasks -> SUBSET Tasks]
    /\ strays \subseteq Tasks
    /\ reg # None => tickDb # None /\ pc[reg] \notin {"idle", "waiting", "spawning"}
    /\ tick = "idle" <=> subject = None
    /\ \A c \in Tasks : row[c] = "none" <=> serves[c] = None

Init ==
    /\ mode = "up" /\ starts = 0
    /\ tail = None
    /\ after = [c \in Tasks |-> None]
    /\ pc = [c \in Tasks |-> "idle"]
    /\ child = [c \in Tasks |-> "none"]
    /\ reg = None /\ closing = FALSE /\ age = "fresh"
    /\ serves = [c \in Tasks |-> None]
    /\ row = [c \in Tasks |-> "none"]
    /\ tick = "idle" /\ subject = None /\ tickDb = None
    /\ victim = None
    /\ old = {}
    /\ ahead = [c \in Tasks |-> {}]
    /\ strays = {}

Up == mode \in {"sweeping", "up", "draining", "killing"}

\* The sessions tracked by the entry of e.
Tracked(e) == {c \in Tasks : serves[c] = e}

\* The process of e is being killed: by the tick, or by the forced kill.
Doomed(e) == (tick \in {"closing", "killing"} /\ subject = e) \/ victim = e

\* What becomes a stray when the registration is overwritten or deleted for the
\* sake of the entry e.
Lost(e) ==
    IF reg \notin {None, e} /\ child[reg] \in Living /\ ~Doomed(reg) THEN {reg} ELSE {}

\* acpProcesses.delete on behalf of e, whoever is registered by now.
Deregister(e) ==
    /\ reg' = None /\ closing' = FALSE /\ age' = "fresh"
    /\ strays' = strays \cup Lost(e)

\* The sessions of e are no longer active.  The statuses stale and archived, and
\* a change from one to the other, are not told apart.
Ended(e) == [c \in Tasks |-> IF c \in Tracked(e) THEN "ended" ELSE row[c]]

----------------------------------------------------------------------------
(* The mutex: takePoolMutex *)

\* The tasks between takePoolMutex and their release.
Held == {c \in Tasks : pc[c] \in {"waiting", "spawning"}}

\* Mutant: the chain is read, and published only once the turn has come.
Ask_Unpublished(c) ==
    /\ mode \in {"up", "draining", "killing"}
    /\ pc[c] = "idle"
    /\ pc' = [pc EXCEPT ![c] = "waiting"]
    /\ after' = [after EXCEPT ![c] = tail]
    /\ ahead' = [ahead EXCEPT ![c] = Held]
    /\ UNCHANGED <<tail, child, regVars, rowVars, tickVars, lifeVars>>

Ask(c) ==
    /\ mode \in {"up", "draining", "killing"}
    /\ pc[c] = "idle"
    /\ pc' = [pc EXCEPT ![c] = "waiting"]
    /\ after' = [after EXCEPT ![c] = tail]
    /\ ahead' = [ahead EXCEPT ![c] = Held]
    /\ tail' = c
    /\ UNCHANGED <<child, regVars, rowVars, tickVars, lifeVars>>

\* What the task awaits has been released.
HasTurn(c) == pc[c] = "waiting" /\ after[c] \notin Held

\* The chain is forgotten by the last one in it.
Release(c) ==
    /\ tail' = IF tail = c THEN None ELSE tail
    /\ ahead' = [d \in Tasks |-> ahead[d] \ {c}]
    /\ after' = [after EXCEPT ![c] = None]

----------------------------------------------------------------------------
(* An acquisition: acquireAcpProcess *)

\* findReusableAcpEntry: an entry that is not shutting down, whose process has
\* not exited, with a heartbeat of the last 90 s and an active session, or none
\* yet.
Reusable ==
    /\ reg # None
    /\ ~closing
    /\ child[reg] # "dead"
    /\ age # "stale"
    /\ Tracked(reg) = {} \/ \E c \in Tracked(reg) : row[c] = "active"

\* persistAcpRow, and the session is tracked.
Opens(c, e) ==
    /\ pc' = [pc EXCEPT ![c] = "opening"]
    /\ row' = [row EXCEPT ![c] = "active"]
    /\ serves' = [serves EXCEPT ![c] = e]

\* persistAcpRow throws: the pool counts as unavailable.
OpensNot(c) == pc' = [pc EXCEPT ![c] = "done"] /\ UNCHANGED rowVars

\* The heartbeat counts as fresh, though the process has not been heard of.
Reuse(c) ==
    /\ HasTurn(c)
    /\ Reusable
    /\ \/ Opens(c, reg) /\ age' = "fresh"
       \/ OpensNot(c) /\ UNCHANGED age
    /\ Release(c)
    /\ UNCHANGED <<child, reg, closing, strays, tickVars, lifeVars>>

\* The factory spawns a process and waits for it to answer initialize.
Spawn(c) ==
    /\ HasTurn(c)
    /\ ~Reusable
    /\ pc' = [pc EXCEPT ![c] = "spawning"]
    /\ child' = [child EXCEPT ![c] = "well"]
    /\ UNCHANGED <<mutexVars, regVars, rowVars, tickVars, lifeVars>>

\* The new entry takes the place of whatever was registered.
Register(c) ==
    /\ pc[c] = "spawning"
    /\ child[c] = "well"
    /\ reg' = c /\ closing' = FALSE /\ age' = "fresh"
    /\ strays' = strays \cup Lost(c)
    /\ tickDb' = IF tickDb = None THEN c ELSE tickDb
    /\ Opens(c, c) \/ OpensNot(c)
    /\ Release(c)
    /\ UNCHANGED <<child, tick, subject, lifeVars>>

\* Mutant: the half-spawned process is left alone.
SpawnFails_NoKill(c) ==
    /\ pc[c] = "spawning"
    /\ pc' = [pc EXCEPT ![c] = "done"]
    /\ Release(c)
    /\ UNCHANGED <<child, regVars, rowVars, tickVars, lifeVars>>

\* Mutant: only a success releases the mutex.
SpawnFails_NoRelease(c) ==
    /\ pc[c] = "spawning"
    /\ child' = [child EXCEPT ![c] = "dead"]
    /\ UNCHANGED <<mutexVars, pc, regVars, rowVars, tickVars, lifeVars>>

\* No answer within 15 s, or an exit before it: a SIGKILL, and the factory throws.
SpawnFails(c) ==
    /\ pc[c] = "spawning"
    /\ child' = [child EXCEPT ![c] = "dead"]
    /\ pc' = [pc EXCEPT ![c] = "done"]
    /\ Release(c)
    /\ UNCHANGED <<regVars, rowVars, tickVars, lifeVars>>

----------------------------------------------------------------------------
(* The task's turn: runOpencodeViaAcp *)

\* session/new is answered: the only message that counts as a heartbeat
\* (recordAcpInbound), if the entry is still the registered one.  An expiry has
\* closed the client.
Opened(c) ==
    /\ pc[c] = "opening"
    /\ child[serves[c]] = "well"
    /\ ~(subject = serves[c] /\ tick \in {"closing", "killing"})
    /\ pc' = [pc EXCEPT ![c] = "prompting"]
    /\ age' = IF serves[c] = reg THEN "fresh" ELSE age
    /\ UNCHANGED <<mutexVars, child, reg, closing, strays, rowVars, tickVars, lifeVars>>

\* An answer, an error, a timeout, an abort: the session row stays as it is.
Finish(c) ==
    /\ pc[c] \in {"opening", "prompting"}
    /\ pc' = [pc EXCEPT ![c] = "done"]
    /\ UNCHANGED <<mutexVars, child, regVars, rowVars, tickVars, lifeVars>>

\* The run that the task belongs to is over, and closes its connection.
RunEnds(c) ==
    /\ pc[c] = "done"
    /\ pc' = [pc EXCEPT ![c] = "over"]
    /\ UNCHANGED <<mutexVars, child, regVars, rowVars, tickVars, lifeVars>>

----------------------------------------------------------------------------
(* The processes *)

\* A process stops answering; a failed SIGTERM and a wedged agent are the same.
Hang(e) ==
    /\ Up /\ e \notin old
    /\ child[e] = "well"
    /\ child' = [child EXCEPT ![e] = "hung"]
    /\ UNCHANGED <<mutexVars, pc, regVars, rowVars, tickVars, lifeVars>>

\* attachAcpExitHandler: the sessions, over the connection of the run that had
\* the process spawned, and the registration.
OnExit(e) ==
    /\ row' = IF pc[e] = "over" THEN row ELSE Ended(e)
    /\ Deregister(e)

\* A process exits: by itself, by a crash or by a signal.
Exits(e) ==
    /\ child[e] \in Living
    /\ child' = [child EXCEPT ![e] = "dead"]
    /\ IF Up /\ e \notin old /\ pc[e] # "spawning"
         THEN OnExit(e)
         ELSE UNCHANGED <<row, regVars>>
    /\ UNCHANGED <<mutexVars, pc, serves, tickVars, lifeVars>>

----------------------------------------------------------------------------
(* The heartbeat tick: runAcpHeartbeatTick *)

Elapse ==
    /\ reg # None /\ age # "stale"
    /\ age' = IF age = "fresh" THEN "due" ELSE "stale"
    /\ UNCHANGED <<mutexVars, pc, child, reg, closing, strays, rowVars, tickVars, lifeVars>>

TickFrame == UNCHANGED <<mutexVars, pc, child, serves, tickDb, lifeVars>>

\* The head of expireAcpEntry, before its first await.
BeginExpire(e) ==
    /\ tick' = "closing" /\ subject' = e
    /\ closing' = IF reg = e THEN TRUE ELSE closing
    /\ row' = IF pc[tickDb] = "over" THEN row ELSE Ended(e)
    /\ UNCHANGED <<reg, age, strays>>
    /\ TickFrame

Probe ==
    /\ tick = "idle" /\ reg # None
    /\ age = "due"
    /\ tick' = "probing" /\ subject' = reg
    /\ UNCHANGED <<row, regVars>>
    /\ TickFrame

TickExpires ==
    /\ tick = "idle" /\ reg # None
    /\ age = "stale"
    /\ BeginExpire(reg)

ProbeAnswered ==
    /\ tick = "probing"
    /\ child[subject] = "well"
    /\ age' = IF reg = subject THEN "fresh" ELSE age
    /\ tick' = "idle" /\ subject' = None
    /\ UNCHANGED <<row, reg, closing, strays>>
    /\ TickFrame

\* Mutant: a probe without an answer is tried again at the next tick.
ProbeFails_Retries ==
    /\ tick = "probing"
    /\ age' = IF reg = subject THEN "fresh" ELSE age
    /\ tick' = "idle" /\ subject' = None
    /\ UNCHANGED <<row, reg, closing, strays>>
    /\ TickFrame

\* No answer within 2 s.
ProbeFails == tick = "probing" /\ BeginExpire(subject)

\* The client is closed, or 3 s have passed: gracefulThenForceKill.
SendTerm ==
    /\ tick = "closing"
    /\ tick' = "killing"
    /\ UNCHANGED <<subject, row, regVars>>
    /\ TickFrame

\* The process is gone, after 5 s by a SIGKILL, or the forced kill has signalled
\* it before.
EndExpire ==
    /\ tick = "killing"
    /\ child[subject] = "dead" \/ victim = subject
    /\ Deregister(subject)
    /\ tick' = "idle" /\ subject' = None
    /\ UNCHANGED row
    /\ TickFrame

----------------------------------------------------------------------------
(* The operator and the daemon *)

\* markStale and endSession from the dashboard: only the row.
OperatorEnds(c) ==
    /\ mode \in {"up", "draining"}
    /\ row[c] = "active"
    /\ row' = [row EXCEPT ![c] = "ended"]
    /\ UNCHANGED <<mutexVars, pc, child, regVars, serves, tickVars, lifeVars>>

\* drainAcpProcesses: no process is killed yet, and tasks go on.
Drain ==
    /\ mode = "up"
    /\ mode' = "draining"
    /\ closing' = (reg # None)
    /\ row' = IF reg = None THEN row ELSE Ended(reg)
    /\ UNCHANGED <<mutexVars, pc, child, reg, age, strays, serves, tickVars, starts, victim,
                   old>>

\* forceKillSurvivingAcpProcesses: the registered process, unless the tick has
\* sent it a SIGTERM already (child.killed).
ForceKill ==
    /\ mode = "draining"
    /\ mode' = "killing"
    /\ IF reg # None /\ child[reg] \in Living /\ ~(tick = "killing" /\ subject = reg)
         THEN victim' = reg /\ Deregister(reg)
         ELSE UNCHANGED <<victim, regVars>>
    /\ UNCHANGED <<mutexVars, pc, child, rowVars, tickVars, starts, old>>

\* The daemon is gone, and everything it had in memory.
Dies ==
    /\ tail' = None
    /\ after' = [c \in Tasks |-> None]
    /\ ahead' = [c \in Tasks |-> {}]
    /\ pc' = [c \in Tasks |-> IF pc[c] = "idle" THEN "idle" ELSE "over"]
    /\ reg' = None /\ closing' = FALSE /\ age' = "fresh" /\ strays' = {}
    /\ tick' = "idle" /\ subject' = None /\ tickDb' = None
    /\ victim' = None
    /\ old' = {c \in Tasks : pc[c] # "idle"}
    /\ UNCHANGED <<child, rowVars, starts>>

ExitDaemon ==
    /\ mode = "killing"
    /\ victim # None => child[victim] = "dead"
    /\ mode' = "exited"
    /\ Dies

Crash == Up /\ mode' = "crashed" /\ Dies

Start ==
    /\ ~Up /\ starts < MaxStarts
    /\ mode' = "sweeping"
    /\ starts' = starts + 1
    /\ UNCHANGED <<mutexVars, pc, child, regVars, rowVars, tickVars, victim, old>>

\* recoverOrphanAcpSessions: the active sessions of a daemon that is no more, one
\* after the other.  A process that still lives gets a SIGTERM, which it may heed.
SweepRow(c) ==
    /\ mode = "sweeping"
    /\ row[c] = "active"
    /\ row' = [row EXCEPT ![c] = "ended"]
    /\ UNCHANGED <<mutexVars, pc, child, regVars, serves, tickVars, lifeVars>>

Swept ==
    /\ mode = "sweeping"
    /\ \A c \in Tasks : row[c] # "active"
    /\ mode' = "up"
    /\ UNCHANGED <<mutexVars, pc, child, regVars, rowVars, tickVars, starts, victim, old>>

----------------------------------------------------------------------------

TaskStep(c) ==
    \/ Ask(c) \/ Reuse(c) \/ Spawn(c) \/ Register(c) \/ SpawnFails(c)
    \/ Opened(c) \/ Finish(c) \/ RunEnds(c)

TickStep ==
    Probe \/ TickExpires \/ ProbeAnswered \/ ProbeFails \/ SendTerm \/ EndExpire

Next ==
    \/ \E c \in Tasks : TaskStep(c) \/ Hang(c) \/ Exits(c) \/ OperatorEnds(c) \/ SweepRow(c)
    \/ Elapse \/ TickStep
    \/ Drain \/ ForceKill \/ ExitDaemon \/ Crash \/ Start \/ Swept

Spec == Init /\ [][Next]_vars

\* The factory's initialize and the probe have timeouts, the mutex is a chain of
\* promises, the tick comes round, and nothing survives a SIGKILL.
FairSpec ==
    /\ Spec
    /\ \A c \in Tasks : WF_vars(Reuse(c) \/ Spawn(c)) /\ WF_vars(Register(c) \/ SpawnFails(c))
    /\ \A c \in Tasks : WF_vars(tick = "killing" /\ subject = c /\ Exits(c))
    /\ WF_vars(Elapse) /\ WF_vars(TickStep)

----------------------------------------------------------------------------
(* Safety *)

\* Never do two tasks spawn at a time, in whatever order they come and fail:
\* those that follow see what the first one has registered.  (takePoolMutex:
\* "the 5 concurrent acquires, 5 spawned processes race".)
SpawnsSerial ==
    \A c, d \in Tasks : pc[c] = "spawning" /\ pc[d] = "spawning" => c = d

\* As long as the daemon lives, a process it has spawned is being spawned,
\* registered or being killed, so that the drain finds it - unless it lost its
\* registration to another one.  (acquireAcpProcess, expireAcpEntry, the factory.)
Accounted ==
    \A e \in Tasks : Up /\ child[e] \in Living /\ e \notin old =>
        pc[e] = "spawning" \/ reg = e \/ Doomed(e) \/ e \in strays

----------------------------------------------------------------------------
(* Liveness *)

\* Nobody waits for the mutex for ever: every way out of an acquisition lets the
\* next one in.  (The finally of acquireAcpProcess.)
AcquireServed ==
    \A c \in Tasks : pc[c] = "waiting" ~> pc[c] # "waiting"

\* A process that has stopped answering does not stay registered, once no more
\* tasks are given it.  (runAcpHeartbeatTick; each reuse postpones it.)
HungDropped ==
    \A e \in Tasks : reg = e /\ child[e] = "hung" ~> reg # e

----------------------------------------------------------------------------
(* What the code does not do *)

\* When a process dies, its sessions are no longer active.
DeadNotActive ==
    \A c \in Tasks : Up /\ c \notin old /\ row[c] = "active" => child[serves[c]] # "dead"

\* No process outlives a daemon that has shut down in order.
NoChildOutlives == mode = "exited" => \A e \in old : child[e] \notin Living

=============================================================================
