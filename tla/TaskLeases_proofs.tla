------------------------- MODULE TaskLeases_proofs -------------------------
(***************************************************************************)
(* For every set of runs and processes, every timing that leaves a         *)
(* heartbeat room inside the lease, and any number of crashes: the types,  *)
(* that idempotency keys are unique, that a run nobody overlaps keeps its  *)
(* lease and its controller, and that the tick leaves it alone.            *)
(***************************************************************************)
EXTENDS TaskLeases, TLAPS

\* A key is an attempt the lease has reached.
KeysBelow == \A r \in Runs : key[r] <= attempt

\* Unless runs overlap, one that is under way is the only one.
SoleAlone == ~shared => \A r \in Runs : pc[r] # "free" => OthersFree(r)

\* A sole run is the one its process has registered.
SoleRegistered ==
    ~shared => \A r \in Runs : pc[r] \in {"ready", "marked", "working"} => registry[Home[r]] = r

\* A sole working run carries the key of the lease, and as long as the row is
\* running, the lease is as old as the run's last heartbeat.
SoleLease ==
    ~shared => \A r \in Runs : pc[r] = "working" =>
        /\ key[r] = attempt
        /\ row = "running" => lease = "running" /\ left + beat[r] = TTL /\ quiet <= beat[r]

IInv ==
    /\ TypeOK
    /\ KeysBelow
    /\ KeysUnique
    /\ SoleAlone
    /\ SoleRegistered
    /\ SoleLease

\* The initial states satisfy the inductive invariant.
LEMMA InitIInv == Init => IInv
  <1> SUFFICES ASSUME Init PROVE IInv
    OBVIOUS
  <1>1. TypeOK
    <2>1. /\ left \in 0 .. TTL /\ quiet \in 0 .. Stale + 1 /\ crashes \in 0 .. MaxCrashes
          /\ beat \in [Runs -> 0 .. Interval + Lag]
      BY TimeAssumption DEF Init
    <2>2. hung \in BOOLEAN /\ up \in BOOLEAN /\ shared \in BOOLEAN
      BY DEF Init
    <2>3. /\ pc \in [Runs -> PC] /\ key \in [Runs -> Nat]
          /\ registry \in [Processes -> Runs \cup {NoRun}]
      BY DEF Init, PC
    <2>4. QED
      BY <2>1, <2>2, <2>3 DEF Init, TypeOK
  <1>2. KeysBelow /\ KeysUnique
    BY DEF Init, KeysBelow, KeysUnique
  <1>3. SoleAlone /\ SoleRegistered /\ SoleLease
    BY DEF Init, SoleAlone, SoleRegistered, SoleLease
  <1>4. QED
    BY <1>1, <1>2, <1>3 DEF IInv

---------------------------------------------------------------------------
(* Types, action by action *)

\* The steps that start a run keep the types.
LEMMA EnterType ==
  ASSUME TypeOK, NEW r \in Runs, Begin(r) \/ Resume(r) \/ Retry(r)
  PROVE  TypeOK'
  <1> USE RunAssumption DEF TypeOK, PC, Enter, OthersFree
  <1>1. CASE Begin(r)
    BY <1>1 DEF Begin
  <1>2. CASE Resume(r)
    BY <1>2 DEF Resume
  <1>3. CASE Retry(r)
    BY <1>3 DEF Retry
  <1>4. QED
    BY <1>1, <1>2, <1>3

\* The steps of a run under way keep the types.
LEMMA RunType ==
  ASSUME TypeOK, NEW r \in Runs,
         \/ Refused(r) \/ MarkRunning(r) \/ Acquire(r) \/ WorktreeFails(r) \/ Heartbeat(r)
         \/ Succeed(r) \/ Reviewed(r) \/ Fail(r) \/ AbortSettles(r) \/ Throws(r)
  PROVE  TypeOK'
  <1> USE RunAssumption, TimeAssumption DEF TypeOK, PC, Leave, Release, RunFrame
  <1>1. CASE Refused(r) \/ MarkRunning(r)
    BY <1>1 DEF Refused, MarkRunning
  <1>2. CASE Acquire(r) \/ WorktreeFails(r)
    BY <1>2 DEF Acquire, WorktreeFails
  <1>3. CASE Heartbeat(r)
    BY <1>3 DEF Heartbeat
  <1>4. CASE Succeed(r) \/ Reviewed(r)
    BY <1>4 DEF Succeed, Reviewed
  <1>5. CASE Fail(r) \/ AbortSettles(r) \/ Throws(r)
    BY <1>5 DEF Fail, AbortSettles, Throws
  <1>6. QED
    BY <1>1, <1>2, <1>3, <1>4, <1>5

\* The operator, the daemon, crashes and time keep the types.
LEMMA OtherType ==
  ASSUME TypeOK,
         (\E p \in Processes : Cancel(p) \/ Crash(p)) \/ Tick \/ DaemonStart \/ Elapse
  PROVE  TypeOK'
  <1> USE RunAssumption, TimeAssumption DEF TypeOK, PC
  <1>1. CASE \E p \in Processes : Cancel(p)
    BY <1>1 DEF Cancel
  <1>2. CASE \E p \in Processes : Crash(p)
    BY <1>2 DEF Crash, dbVars
  <1>3. CASE Tick
    <2>1. row' \in {row, "failed"} /\ lease' \in {lease, "expired"} /\ quiet' \in {quiet, 0}
      BY <1>3 DEF Tick
    <2>2. hung' \in BOOLEAN
      BY <1>3 DEF Tick, HungNow
    <2>3. QED
      BY <1>3, <2>1, <2>2 DEF Tick, memVars
  <1>4. CASE DaemonStart
    BY <1>4 DEF DaemonStart, memVars
  <1>5. CASE Elapse
    <2>1. left' \in 0 .. TTL /\ quiet' \in 0 .. Stale + 1
      BY <1>5 DEF Elapse
    <2>2. beat' \in [Runs -> 0 .. Interval + Lag]
      BY <1>5 DEF Elapse, Beating
    <2>3. QED
      BY <1>5, <2>1, <2>2 DEF Elapse
  <1>6. QED
    BY <1>1, <1>2, <1>3, <1>4, <1>5

---------------------------------------------------------------------------
(* Keys *)

\* A step that leaves the attempt and can only blank keys keeps them unique.
LEMMA KeysOnlyBlanked ==
  ASSUME TypeOK, KeysBelow, KeysUnique,
         attempt' = attempt, \A r \in Runs : key'[r] \in {key[r], 0}
  PROVE  KeysBelow' /\ KeysUnique'
  <1>1. \A r \in Runs : key[r] \in Nat /\ attempt \in Nat
    BY DEF TypeOK
  <1>2. QED
    BY <1>1 DEF KeysBelow, KeysUnique

\* Every step keeps keys below the attempt, and unique.
LEMMA KeysStep ==
  ASSUME IInv, [Next]_vars
  PROVE  KeysBelow' /\ KeysUnique'
  <1> USE DEF IInv
  <1>1. ASSUME NEW r \in Runs, Acquire(r)
        PROVE  KeysBelow' /\ KeysUnique'
    <2>1. \A s \in Runs : key[s] \in Nat /\ attempt \in Nat
      BY DEF TypeOK
    <2>2. /\ attempt' = attempt + 1
          /\ \A s \in Runs : key'[s] = IF s = r THEN attempt + 1 ELSE key[s]
      BY <1>1 DEF Acquire, TypeOK
    <2>3. QED
      BY <2>1, <2>2 DEF KeysBelow, KeysUnique
  <1>2. ASSUME NEW r \in Runs, WorktreeFails(r)
        PROVE  KeysBelow' /\ KeysUnique'
    <2>1. \A s \in Runs : key[s] \in Nat /\ attempt \in Nat
      BY DEF TypeOK
    <2>2. /\ attempt' = attempt + 1
          /\ \A s \in Runs : key'[s] = IF s = r THEN 0 ELSE key[s]
      BY <1>2 DEF WorktreeFails, Leave, TypeOK
    <2>3. QED
      BY <2>1, <2>2 DEF KeysBelow, KeysUnique
  <1>3. ASSUME NEW r \in Runs, Begin(r) \/ Resume(r) \/ Retry(r)
        PROVE  KeysBelow' /\ KeysUnique'
    BY <1>3, KeysOnlyBlanked DEF Begin, Resume, Retry, Enter
  <1>4. ASSUME NEW r \in Runs, Refused(r) \/ MarkRunning(r) \/ Heartbeat(r) \/ Succeed(r)
        PROVE  KeysBelow' /\ KeysUnique'
    BY <1>4, KeysOnlyBlanked DEF Refused, MarkRunning, Heartbeat, Succeed, RunFrame
  <1>5. ASSUME NEW r \in Runs, Reviewed(r) \/ Fail(r) \/ AbortSettles(r) \/ Throws(r)
        PROVE  KeysBelow' /\ KeysUnique'
    <2>1. attempt' = attempt /\ \A s \in Runs : key'[s] \in {key[s], 0}
      BY <1>5 DEF Reviewed, Fail, AbortSettles, Throws, Leave, RunFrame, TypeOK
    <2>2. QED
      BY <2>1, KeysOnlyBlanked
  <1>6. ASSUME NEW p \in Processes, Cancel(p) \/ Crash(p)
        PROVE  KeysBelow' /\ KeysUnique'
    <2>1. attempt' = attempt /\ \A s \in Runs : key'[s] \in {key[s], 0}
      BY <1>6 DEF Cancel, Crash, dbVars, TypeOK
    <2>2. QED
      BY <2>1, KeysOnlyBlanked
  <1>7. CASE Tick \/ DaemonStart \/ Elapse \/ UNCHANGED vars
    BY <1>7, KeysOnlyBlanked DEF Tick, DaemonStart, Elapse, memVars, dbVars, vars
  <1>8. QED
    BY <1>1, <1>2, <1>3, <1>4, <1>5, <1>6, <1>7 DEF Next, RunStep

---------------------------------------------------------------------------
(* A sole run *)

Sole == SoleAlone /\ SoleRegistered /\ SoleLease

\* Starting a run next to another makes the task shared; starting it alone
\* registers it.
LEMMA EnterSole ==
  ASSUME IInv, NEW r \in Runs, Begin(r) \/ Resume(r) \/ Retry(r)
  PROVE  Sole'
  <1>1. /\ pc' = [pc EXCEPT ![r] = "ready"]
        /\ registry' = [registry EXCEPT ![Home[r]] = r]
        /\ shared' = ~OthersFree(r)
    BY DEF Begin, Resume, Retry, Enter
  <1>2. CASE shared'
    BY <1>2 DEF Sole, SoleAlone, SoleRegistered, SoleLease
  <1>3. CASE ~shared'
    <2>1. \A s \in Runs : pc'[s] = IF s = r THEN "ready" ELSE "free"
      BY <1>1, <1>3 DEF OthersFree, IInv, TypeOK
    <2>2. registry'[Home[r]] = r
      BY <1>1, RunAssumption DEF IInv, TypeOK
    <2>3. QED
      BY <2>1, <2>2 DEF Sole, SoleAlone, SoleRegistered, SoleLease, OthersFree
  <1>4. QED
    BY <1>2, <1>3

\* What the step of a sole run means for the others: they are free.
LEMMA OnlyThisRun ==
  ASSUME IInv, ~shared, NEW r \in Runs, pc[r] # "free", NEW s \in Runs, s # r
  PROVE  pc[s] = "free"
  BY DEF IInv, SoleAlone, OthersFree

\* A step of a run that keeps it under way or ends it keeps the invariant.
LEMMA RunSole ==
  ASSUME IInv, NEW r \in Runs,
         \/ Refused(r) \/ MarkRunning(r) \/ Acquire(r) \/ WorktreeFails(r) \/ Heartbeat(r)
         \/ Succeed(r) \/ Reviewed(r) \/ Fail(r) \/ AbortSettles(r) \/ Throws(r)
  PROVE  Sole'
  <1>1. shared' = shared /\ pc[r] # "free"
    BY DEF Refused, MarkRunning, Acquire, WorktreeFails, Heartbeat, Succeed, Reviewed, Fail,
           AbortSettles, Throws, RunFrame, Beating
  <1>2. CASE shared
    BY <1>1, <1>2 DEF Sole, SoleAlone, SoleRegistered, SoleLease
  <1>3. CASE ~shared
    <2>1. \A s \in Runs : s # r => pc[s] = "free"
      BY <1>1, <1>3, OnlyThisRun
    <2>2. CASE \/ Refused(r) \/ WorktreeFails(r) \/ Reviewed(r) \/ Fail(r)
               \/ AbortSettles(r) \/ Throws(r)
      <3>1. \A s \in Runs : pc'[s] = "free"
        BY <2>1, <2>2 DEF Refused, WorktreeFails, Reviewed, Fail, AbortSettles, Throws, Leave,
                          IInv, TypeOK
      <3>2. QED
        BY <3>1 DEF Sole, SoleAlone, SoleRegistered, SoleLease
    <2>3. CASE MarkRunning(r) \/ Succeed(r)
      <3>1. /\ \A s \in Runs : s # r => pc'[s] = "free"
            /\ pc'[r] \in {"marked", "reviewing"}
            /\ registry' = registry
            /\ pc'[r] = "marked" => pc[r] = "ready"
        BY <2>1, <2>3 DEF MarkRunning, Succeed, IInv, TypeOK
      <3>2. QED
        BY <1>3, <3>1 DEF Sole, SoleAlone, SoleRegistered, SoleLease, OthersFree, IInv
    <2>4. CASE Acquire(r)
      <3>1. /\ \A s \in Runs : s # r => pc'[s] = "free"
            /\ registry' = registry
            /\ pc[r] = "marked" /\ pc'[r] = "working"
            /\ key'[r] = attempt' /\ lease' = "running" /\ left' = TTL /\ quiet' = 0 /\ beat'[r] = 0
        BY <2>1, <2>4 DEF Acquire, IInv, TypeOK
      <3>2. left' + beat'[r] = TTL /\ quiet' <= beat'[r]
        BY <3>1, TimeAssumption
      <3>3. QED
        BY <1>3, <3>1, <3>2 DEF Sole, SoleAlone, SoleRegistered, SoleLease, OthersFree, IInv
    <2>5. CASE Heartbeat(r)
      <3>1. /\ pc' = pc /\ registry' = registry /\ key' = key /\ attempt' = attempt
            /\ row' = row /\ lease' = lease /\ beat'[r] = 0
            /\ lease = "running" => left' = TTL /\ quiet' = 0
        BY <2>5 DEF Heartbeat, IInv, TypeOK
      <3>2. lease = "running" => left' + beat'[r] = TTL /\ quiet' <= beat'[r]
        BY <3>1, TimeAssumption
      <3>3. QED
        BY <1>1, <1>3, <2>1, <3>1, <3>2 DEF Sole, SoleAlone, SoleRegistered, SoleLease,
                                            OthersFree, IInv
    <2>6. QED
      BY <2>2, <2>3, <2>4, <2>5
  <1>4. QED
    BY <1>2, <1>3

\* The operator, the daemon, crashes and time keep a sole run's lease.
LEMMA OtherSole ==
  ASSUME IInv,
         \/ \E p \in Processes : Cancel(p) \/ Crash(p)
         \/ Tick \/ DaemonStart \/ Elapse \/ UNCHANGED vars
  PROVE  Sole'
  <1> USE DEF IInv, Sole, SoleAlone, SoleRegistered, SoleLease, OthersFree
  <1>1. CASE \E p \in Processes : Cancel(p)
    BY <1>1 DEF Cancel
  <1>2. ASSUME NEW p \in Processes, Crash(p)
        PROVE  Sole'
    <2>1. /\ UNCHANGED <<row, lease, attempt, left, quiet, shared>>
          /\ \A r \in Runs : /\ Home[r] = p => pc'[r] = "free"
                             /\ Home[r] # p => /\ pc'[r] = pc[r] /\ key'[r] = key[r]
                                               /\ beat'[r] = beat[r]
                                               /\ registry'[Home[r]] = registry[Home[r]]
      BY <1>2, RunAssumption DEF Crash, dbVars, TypeOK
    <2>2. QED
      BY <2>1
  <1>3. CASE Tick \/ DaemonStart
    <2>1. ASSUME NEW r \in Runs, ~shared, pc[r] = "working", row = "running"
          PROVE  left > 0
      BY <2>1, TimeAssumption DEF TypeOK
    <2>2. QED
      BY <1>3, <2>1 DEF Tick, DaemonStart, ExpiredNow, memVars
  <1>4. CASE Elapse
    <2>1. /\ UNCHANGED <<row, lease, attempt, pc, key, registry, shared>>
          /\ left' = IF left > 0 THEN left - 1 ELSE 0
          /\ quiet' = IF quiet <= Stale THEN quiet + 1 ELSE quiet
      BY <1>4 DEF Elapse
    <2>2. ASSUME NEW r \in Runs, pc[r] = "working"
          PROVE  beat'[r] = beat[r] + 1 /\ beat[r] < Interval + Lag
      BY <1>4, <2>2 DEF Elapse, Beating
    <2>3. ASSUME NEW r \in Runs, ~shared, pc[r] = "working", row = "running"
          PROVE  left' + beat'[r] = TTL /\ quiet' <= beat'[r]
      <3>1. /\ left \in Nat /\ quiet \in Nat /\ beat[r] \in Nat
            /\ left + beat[r] = TTL /\ quiet <= beat[r]
        BY <2>3 DEF TypeOK
      <3>2. QED
        BY <2>1, <2>2, <2>3, <3>1, TimeAssumption
    <2>4. QED
      BY <2>1, <2>3
  <1>5. CASE UNCHANGED vars
    BY <1>5 DEF vars, dbVars, memVars
  <1>6. QED
    BY <1>1, <1>2, <1>3, <1>4, <1>5

---------------------------------------------------------------------------

\* Every step keeps the inductive invariant.
LEMMA NextIInv == IInv /\ [Next]_vars => IInv'
  <1> SUFFICES ASSUME IInv, [Next]_vars
               PROVE  IInv'
    OBVIOUS
  <1>1. TypeOK'
    <2>1. CASE UNCHANGED vars
      BY <2>1 DEF IInv, TypeOK, vars, dbVars, memVars
    <2>2. QED
      BY <2>1, EnterType, RunType, OtherType DEF IInv, Next, RunStep
  <1>2. KeysBelow' /\ KeysUnique'
    BY KeysStep
  <1>3. Sole'
    BY EnterSole, RunSole, OtherSole DEF Next, RunStep
  <1>4. QED
    BY <1>1, <1>2, <1>3 DEF IInv, Sole

\* The inductive invariant holds throughout.
LEMMA Inductive == Spec => []IInv
  BY InitIInv, NextIInv, PTL DEF Spec

\* Every variable keeps its type.
THEOREM TypeCorrect == Spec => []TypeOK
  BY Inductive, PTL DEF IInv

\* No two runs under way carry one idempotency key.
THEOREM UniqueKeys == Spec => []KeysUnique
  BY Inductive, PTL DEF IInv

\* A run nobody overlaps holds its lease and its registry entry.
THEOREM SoleHoldsLease == Spec => []SoleRunHoldsLease
  <1>1. IInv => SoleRunHoldsLease
    BY TimeAssumption DEF IInv, TypeOK, SoleRegistered, SoleLease, SoleRunHoldsLease
  <1>2. QED
    BY <1>1, Inductive, PTL

\* The tick never fails nor reports the task of such a run.
THEOREM TickLeavesAlone == Spec => LiveRunLeftAlone
  <1>1. IInv => (Tick => \A r \in Runs : pc[r] = "working" /\ ~shared =>
                                            row' = row /\ hung' = hung)
    <2> SUFFICES ASSUME IInv, Tick, NEW r \in Runs, pc[r] = "working", ~shared
                 PROVE  row' = row /\ hung' = hung
      OBVIOUS
    <2>1. ASSUME row = "running" PROVE left > 0 /\ quiet <= Stale
      <3>1. /\ left \in Nat /\ quiet \in Nat /\ beat[r] \in 0 .. Interval + Lag
            /\ left + beat[r] = TTL /\ quiet <= beat[r]
        BY <2>1 DEF IInv, TypeOK, SoleLease
      <3>2. QED
        BY <3>1, TimeAssumption
    <2>2. ~HungNow /\ ~ExpiredNow
      BY <2>1, TimeAssumption DEF HungNow, ExpiredNow, IInv, TypeOK
    <2>3. QED
      BY <2>2 DEF Tick, IInv, TypeOK
  <1>2. QED
    BY <1>1, Inductive, PTL DEF LiveRunLeftAlone
=============================================================================
