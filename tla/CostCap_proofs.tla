--------------------------- MODULE CostCap_proofs ---------------------------
(***************************************************************************)
(* What holds of the reservations for any tasks, estimates and cap.        *)
(* CommittedWithinCap speaks of sums: the first half of the module shows   *)
(* what SumFunctionOnSet computes on every finite set, by induction over   *)
(* its subsets, the second half uses it.                                   *)
(***************************************************************************)
EXTENDS CostCap, FiniteSetTheorems, TLAPS

---------------------------------------------------------------------------
(* Induction over finite sets *)

\* Induction over the subsets of a finite set: a set that takes in each of them
\* when it holds all the smaller ones holds them all.
LEMMA SubsetInduction ==
    ASSUME NEW S, IsFiniteSet(S), NEW Good,
           \A s \in SUBSET S : (\A u \in SUBSET s : u # s => u \in Good) => s \in Good
    PROVE  SUBSET S \subseteq Good
<1> DEFINE Bad == (SUBSET S) \ Good
<1> SUFFICES ASSUME Bad # {}
             PROVE  FALSE
  OBVIOUS
<1>1. IsWellFoundedOn(StrictSubsetOrdering(S), SUBSET S)
  <2>1. FiniteSubsetsOf(S) = SUBSET S
    BY FS_FiniteSubsetsOfFinite
  <2>2. IsWellFoundedOn(StrictSubsetOrdering(S), FiniteSubsetsOf(S))
    BY FS_StrictSubsetOrderingWellFounded
  <2> QED
    BY <2>1, <2>2
<1>2. PICK s \in Bad : \A u \in Bad : <<u, s>> \notin StrictSubsetOrdering(S)
  <2>1. Bad \subseteq SUBSET S
    OBVIOUS
  <2> HIDE DEF Bad
  <2> QED
    BY <1>1, <2>1, WFMin
<1>3. \A u \in SUBSET s : u # s => u \in Good
  BY <1>2 DEF StrictSubsetOrdering
<1> QED
  BY <1>3

---------------------------------------------------------------------------
(* The fold behind SumFunctionOnSet *)

\* The element a fold takes next.
Taken(s) == CHOOSE x \in s : TRUE

\* It is one of the set's.
LEMMA TakenIn == ASSUME NEW s, s # {} PROVE Taken(s) \in s
BY DEF Taken

\* g tabulates the sums of f over the subsets of S.
Tabulates(g, f, S) ==
    g = [s \in SUBSET S |-> IF s = {} THEN 0 ELSE f[Taken(s)] + g[s \ {Taken(s)}]]

\* The sum of the community modules is the entry of S in a table, should there be one.
LEMMA SumIsEntry ==
    ASSUME NEW f, NEW S
    PROVE  SumFunctionOnSet(f, S) = (CHOOSE g : Tabulates(g, f, S))[S]
BY DEF SumFunctionOnSet, FoldFunctionOnSet, MapThenFoldSet, Tabulates, Taken

\* An entry of a table.
LEMMA Entry ==
    ASSUME NEW f, NEW S, NEW g, Tabulates(g, f, S), NEW s \in SUBSET S
    PROVE  g[s] = IF s = {} THEN 0 ELSE f[Taken(s)] + g[s \ {Taken(s)}]
BY DEF Tabulates

\* Two tables agree where both are defined.
LEMMA TablesAgree ==
    ASSUME NEW f, NEW S, NEW T, NEW g, NEW h, Tabulates(g, f, S), Tabulates(h, f, T),
           NEW u, IsFiniteSet(u), u \subseteq S, u \subseteq T
    PROVE  g[u] = h[u]
<1> DEFINE Good == {s \in SUBSET u : g[s] = h[s]}
<1>1. ASSUME NEW s \in SUBSET u, \A v \in SUBSET s : v # s => v \in Good
      PROVE  s \in Good
  <2>1. /\ g[s] = IF s = {} THEN 0 ELSE f[Taken(s)] + g[s \ {Taken(s)}]
        /\ h[s] = IF s = {} THEN 0 ELSE f[Taken(s)] + h[s \ {Taken(s)}]
    <3>1. s \in SUBSET S /\ s \in SUBSET T
      OBVIOUS
    <3> QED
      BY <3>1, Entry
  <2>2. s # {} => g[s \ {Taken(s)}] = h[s \ {Taken(s)}]
    BY <1>1, TakenIn
  <2> QED
    BY <2>1, <2>2
<1>2. SUBSET u \subseteq Good
  <2> HIDE DEF Good
  <2> QED
    BY <1>1, SubsetInduction
<1> QED
  BY <1>2

\* Every finite set has a table: the one made of the last entries of the tables of
\* its subsets.
LEMMA TableExists ==
    ASSUME NEW f, NEW S, IsFiniteSet(S)
    PROVE  \E g : Tabulates(g, f, S)
<1> DEFINE Good    == {s \in SUBSET S : \E g : Tabulates(g, f, s)}
           G(v)    == CHOOSE g : Tabulates(g, f, v)
           Rest(u) == u \ {Taken(u)}
<1>1. ASSUME NEW s \in SUBSET S, \A v \in SUBSET s : v # s => v \in Good
      PROVE  s \in Good
  <2> DEFINE h == [u \in SUBSET s |-> IF u = {} THEN 0 ELSE f[Taken(u)] + G(Rest(u))[Rest(u)]]
  <2>1. ASSUME NEW v \in SUBSET s, v # s
        PROVE  Tabulates(G(v), f, v)
    BY <1>1, <2>1
  <2>2. ASSUME NEW u \in SUBSET s, u # {}
        PROVE  h[Rest(u)] = G(Rest(u))[Rest(u)]
    <3> DEFINE v == Rest(u)
    <3>1. v \in SUBSET s /\ v # s
      BY <2>2, TakenIn
    <3>2. Tabulates(G(v), f, v)
      BY <2>1, <3>1
    <3>3. G(v)[v] = IF v = {} THEN 0 ELSE f[Taken(v)] + G(v)[Rest(v)]
      <4> HIDE DEF v, G
      <4> QED
        BY <3>2, Entry
    <3>4. CASE v = {}
      BY <3>1, <3>3, <3>4
    <3>5. CASE v # {}
      <4>1. Rest(v) \in SUBSET s /\ Rest(v) # s /\ Rest(v) \subseteq v /\ IsFiniteSet(Rest(v))
        BY <3>1, FS_Subset
      <4>2. Tabulates(G(Rest(v)), f, Rest(v))
        BY <2>1, <4>1
      <4>3. G(Rest(v))[Rest(v)] = G(v)[Rest(v)]
        <5> HIDE DEF v, G, Rest
        <5> QED
          BY <3>2, <4>1, <4>2, TablesAgree
      <4>4. h[v] = f[Taken(v)] + G(Rest(v))[Rest(v)]
        BY <3>1, <3>5
      <4> QED
        BY <3>3, <3>5, <4>3, <4>4
    <3> QED
      BY <3>4, <3>5
  <2>3. ASSUME NEW u \in SUBSET s
        PROVE  h[u] = IF u = {} THEN 0 ELSE f[Taken(u)] + h[Rest(u)]
    <3>1. CASE u = {}
      BY <3>1
    <3>2. CASE u # {}
      <4>1. h[u] = f[Taken(u)] + G(Rest(u))[Rest(u)]
        BY <3>2
      <4>2. h[Rest(u)] = G(Rest(u))[Rest(u)]
        BY <2>2, <3>2
      <4> HIDE DEF h, G, Rest
      <4> QED
        BY <3>2, <4>1, <4>2
    <3> QED
      BY <3>1, <3>2
  <2>4. h = [u \in SUBSET s |-> h[u]]
    OBVIOUS
  <2>5. Tabulates(h, f, s)
    <3> HIDE DEF h
    <3> QED
      BY <2>3, <2>4 DEF Tabulates
  <2> QED
    BY <2>5
<1>2. SUBSET S \subseteq Good
  <2> HIDE DEF Good
  <2> QED
    BY <1>1, SubsetInduction
<1> QED
  BY <1>2

---------------------------------------------------------------------------
(* Sums *)

\* The equation of the sum over a finite set.
LEMMA SumUnfolds ==
    ASSUME NEW f, NEW S, IsFiniteSet(S)
    PROVE  SumFunctionOnSet(f, S) =
               IF S = {} THEN 0 ELSE f[Taken(S)] + SumFunctionOnSet(f, S \ {Taken(S)})
<1> DEFINE G(T) == CHOOSE g : Tabulates(g, f, T)
           R    == S \ {Taken(S)}
<1>1. IsFiniteSet(R) /\ R \in SUBSET S
  BY FS_Subset
<1>2. Tabulates(G(S), f, S) /\ Tabulates(G(R), f, R)
  BY <1>1, TableExists
<1>3. SumFunctionOnSet(f, S) = G(S)[S] /\ SumFunctionOnSet(f, R) = G(R)[R]
  BY SumIsEntry
<1> HIDE DEF G
<1>4. G(S)[S] = IF S = {} THEN 0 ELSE f[Taken(S)] + G(S)[R]
  BY <1>2, Entry
<1>5. G(S)[R] = G(R)[R]
  <2> HIDE DEF R
  <2> QED
    BY <1>1, <1>2, TablesAgree
<1> QED
  BY <1>3, <1>4, <1>5

\* A sum of natural numbers is one.
LEMMA SumType ==
    ASSUME NEW S, IsFiniteSet(S), NEW f, \A x \in S : f[x] \in Nat
    PROVE  SumFunctionOnSet(f, S) \in Nat
<1> DEFINE Good == {s \in SUBSET S : SumFunctionOnSet(f, s) \in Nat}
<1>1. ASSUME NEW s \in SUBSET S, \A v \in SUBSET s : v # s => v \in Good
      PROVE  s \in Good
  <2>1. IsFiniteSet(s)
    BY FS_Subset
  <2>2. SumFunctionOnSet(f, s) =
            IF s = {} THEN 0 ELSE f[Taken(s)] + SumFunctionOnSet(f, s \ {Taken(s)})
    BY <2>1, SumUnfolds
  <2>3. s # {} => f[Taken(s)] \in Nat /\ SumFunctionOnSet(f, s \ {Taken(s)}) \in Nat
    BY <1>1, TakenIn
  <2> QED
    BY <2>2, <2>3
<1>2. SUBSET S \subseteq Good
  <2> HIDE DEF Good
  <2> QED
    BY <1>1, SubsetInduction
<1> QED
  BY <1>2

\* Any element may be taken out of a sum, whatever the order of the fold.
LEMMA SumTakes ==
    ASSUME NEW S, IsFiniteSet(S), NEW f, \A x \in S : f[x] \in Nat
    PROVE  \A e \in S : SumFunctionOnSet(f, S) = f[e] + SumFunctionOnSet(f, S \ {e})
<1> DEFINE Good == {s \in SUBSET S : \A e \in s :
                       SumFunctionOnSet(f, s) = f[e] + SumFunctionOnSet(f, s \ {e})}
<1>1. ASSUME NEW s \in SUBSET S, \A v \in SUBSET s : v # s => v \in Good
      PROVE  s \in Good
  <2> SUFFICES ASSUME NEW e \in s
               PROVE  SumFunctionOnSet(f, s) = f[e] + SumFunctionOnSet(f, s \ {e})
    OBVIOUS
  <2> DEFINE c    == Taken(s)
             Both == s \ {c, e}
  <2>1. c \in s /\ IsFiniteSet(s) /\ IsFiniteSet(Both)
    BY FS_Subset, TakenIn
  <2>2. SumFunctionOnSet(f, s) = f[c] + SumFunctionOnSet(f, s \ {c})
    BY <2>1, SumUnfolds
  <2>3. CASE c = e
    BY <2>2, <2>3
  <2>4. CASE c # e
    <3>1. /\ s \ {c} \in Good /\ e \in s \ {c} /\ (s \ {c}) \ {e} = Both
          /\ s \ {e} \in Good /\ c \in s \ {e} /\ (s \ {e}) \ {c} = Both
      BY <1>1, <2>1, <2>4
    <3>2. /\ SumFunctionOnSet(f, s \ {c}) = f[e] + SumFunctionOnSet(f, Both)
          /\ SumFunctionOnSet(f, s \ {e}) = f[c] + SumFunctionOnSet(f, Both)
      BY <3>1
    <3>3. f[c] \in Nat /\ f[e] \in Nat /\ SumFunctionOnSet(f, Both) \in Nat
      BY <2>1, SumType
    <3> HIDE DEF Good, c, Both
    <3> QED
      BY <2>2, <3>2, <3>3
  <2> QED
    BY <2>3, <2>4
<1>2. SUBSET S \subseteq Good
  <2> HIDE DEF Good
  <2> QED
    BY <1>1, SubsetInduction
<1> QED
  BY <1>2

\* The sum of the larger values is larger.
LEMMA SumMonotone ==
    ASSUME NEW S, IsFiniteSet(S), NEW f, NEW g,
           \A x \in S : f[x] \in Nat /\ g[x] \in Nat /\ f[x] <= g[x]
    PROVE  SumFunctionOnSet(f, S) <= SumFunctionOnSet(g, S)
<1> DEFINE Good == {s \in SUBSET S : SumFunctionOnSet(f, s) <= SumFunctionOnSet(g, s)}
<1>1. ASSUME NEW s \in SUBSET S, \A v \in SUBSET s : v # s => v \in Good
      PROVE  s \in Good
  <2> DEFINE c == Taken(s)
             R == s \ {c}
  <2>1. IsFiniteSet(s) /\ IsFiniteSet(R)
    BY FS_Subset
  <2>2. /\ SumFunctionOnSet(f, s) = IF s = {} THEN 0 ELSE f[c] + SumFunctionOnSet(f, R)
        /\ SumFunctionOnSet(g, s) = IF s = {} THEN 0 ELSE g[c] + SumFunctionOnSet(g, R)
    BY <2>1, SumUnfolds
  <2>3. CASE s = {}
    BY <2>2, <2>3
  <2>4. CASE s # {}
    <3>1. c \in S /\ SumFunctionOnSet(f, R) <= SumFunctionOnSet(g, R)
      BY <1>1, <2>4, TakenIn
    <3>2. SumFunctionOnSet(f, R) \in Nat /\ SumFunctionOnSet(g, R) \in Nat
      BY <2>1, SumType
    <3> HIDE DEF c, R
    <3>3. f[c] \in Nat /\ g[c] \in Nat /\ f[c] <= g[c]
      BY <3>1
    <3> QED
      BY <2>2, <2>4, <3>1, <3>2, <3>3
  <2> QED
    BY <2>3, <2>4
<1>2. SUBSET S \subseteq Good
  <2> HIDE DEF Good
  <2> QED
    BY <1>1, SubsetInduction
<1> QED
  BY <1>2

\* The sum over a larger set is larger.
LEMMA SumSubset ==
    ASSUME NEW S, IsFiniteSet(S), NEW f, \A x \in S : f[x] \in Nat, NEW T \in SUBSET S
    PROVE  SumFunctionOnSet(f, T) <= SumFunctionOnSet(f, S)
<1> DEFINE Good == {s \in SUBSET S : T \subseteq s =>
                       SumFunctionOnSet(f, T) <= SumFunctionOnSet(f, s)}
<1>1. ASSUME NEW s \in SUBSET S, \A v \in SUBSET s : v # s => v \in Good
      PROVE  s \in Good
  <2> SUFFICES ASSUME T \subseteq s, T # s
               PROVE  SumFunctionOnSet(f, T) <= SumFunctionOnSet(f, s)
    <3>1. IsFiniteSet(T)
      BY FS_Subset
    <3>2. SumFunctionOnSet(f, T) \in Nat
      BY <3>1, SumType
    <3> QED
      BY <3>2
  <2>1. PICK e \in s : e \notin T
    OBVIOUS
  <2>2. IsFiniteSet(s) /\ IsFiniteSet(s \ {e}) /\ IsFiniteSet(T)
    BY FS_Subset
  <2>3. SumFunctionOnSet(f, s) = f[e] + SumFunctionOnSet(f, s \ {e})
    BY <2>2, SumTakes
  <2>4. SumFunctionOnSet(f, T) <= SumFunctionOnSet(f, s \ {e})
    BY <1>1, <2>1
  <2>5. /\ f[e] \in Nat /\ SumFunctionOnSet(f, T) \in Nat
        /\ SumFunctionOnSet(f, s \ {e}) \in Nat
    BY <2>2, SumType
  <2> QED
    BY <2>3, <2>4, <2>5
<1>2. SUBSET S \subseteq Good
  <2> HIDE DEF Good
  <2> QED
    BY <1>1, SubsetInduction
<1> QED
  BY <1>2

---------------------------------------------------------------------------
(* Types and reservations *)

\* The first state is well typed and nothing is in flight.
LEMMA InitHolds == Init => TypeOK /\ InFlightReserved
<1> SUFFICES ASSUME Init
             PROVE  TypeOK /\ InFlightReserved
  OBVIOUS
<1>1. TypeOK
  BY DEF Init, TypeOK, NoneReserved
<1>2. InFlightReserved
  BY DEF Init, InFlightReserved, InFlight
<1> QED
  BY <1>1, <1>2

\* Every step keeps the types, and a reservation to be the estimate or nothing.
LEMMA TypeStep == TypeOK /\ [Next]_vars => TypeOK'
<1> SUFFICES ASSUME TypeOK, [Next]_vars
             PROVE  TypeOK'
  OBVIOUS
<1> USE CostAssumption DEF TypeOK
<1>1. CASE TakeUp
  BY <1>1 DEF TakeUp
<1>2. ASSUME NEW t \in Tasks, TaskStep(t)
      PROVE  TypeOK'
  <2>1. CASE Admit(t)
    BY <2>1 DEF Admit
  <2>2. CASE Halt(t)
    BY <2>2 DEF Halt, Pending, NoneReserved
  <2>3. CASE Stop(t)
    BY <2>3 DEF Stop
  <2>4. CASE Begin(t)
    BY <2>4 DEF Begin
  <2>5. CASE Abandon(t)
    BY <2>5 DEF Abandon, Charged
  <2>6. CASE Fail(t)
    BY <2>6 DEF Fail, Charged
  <2>7. CASE Succeed(t)
    BY <2>7 DEF Succeed, Charged
  <2>8. CASE Reviewed(t)
    BY <2>8 DEF Reviewed
  <2> QED
    BY <1>2, <2>1, <2>2, <2>3, <2>4, <2>5, <2>6, <2>7, <2>8 DEF TaskStep
<1>3. CASE BatchSucceeds
  BY <1>3 DEF BatchSucceeds
<1>4. CASE RunThrows
  BY <1>4 DEF RunThrows, EndRun, NoneReserved
<1>5. CASE RunCompletes
  BY <1>5 DEF RunCompletes, EndRun, NoneReserved
<1>6. CASE DeadlineFires
  BY <1>6 DEF DeadlineFires, NoneReserved
<1>7. CASE Resume
  BY <1>7 DEF Resume
<1>8. CASE Restart
  BY <1>8 DEF Restart, NoneReserved
<1>9. CASE UNCHANGED vars
  BY <1>9 DEF vars
<1> QED
  BY <1>1, <1>2, <1>3, <1>4, <1>5, <1>6, <1>7, <1>8, <1>9 DEF Next

\* Every step leaves what is in flight covered, or ends the claim.
LEMMA ReservedStep == TypeOK /\ InFlightReserved /\ [Next]_vars => InFlightReserved'
<1> SUFFICES ASSUME TypeOK, InFlightReserved, [Next]_vars
             PROVE  InFlightReserved'
  OBVIOUS
<1> USE DEF TypeOK, InFlightReserved, InFlight
<1>1. CASE TakeUp
  BY <1>1 DEF TakeUp
<1>2. ASSUME NEW t \in Tasks, TaskStep(t)
      PROVE  InFlightReserved'
  <2>1. CASE Admit(t)
    BY <2>1 DEF Admit
  <2>2. CASE Halt(t)
    BY <2>2 DEF Halt
  <2>3. CASE Stop(t)
    BY <2>3 DEF Stop
  <2>4. CASE Begin(t)
    BY <2>4 DEF Begin
  <2>5. CASE Abandon(t)
    BY <2>5 DEF Abandon
  <2>6. CASE Fail(t)
    BY <2>6 DEF Fail
  <2>7. CASE Succeed(t)
    BY <2>7 DEF Succeed
  <2>8. CASE Reviewed(t)
    BY <2>8 DEF Reviewed
  <2> QED
    BY <1>2, <2>1, <2>2, <2>3, <2>4, <2>5, <2>6, <2>7, <2>8 DEF TaskStep
<1>3. CASE BatchSucceeds
  BY <1>3 DEF BatchSucceeds
<1>4. CASE RunThrows
  BY <1>4 DEF RunThrows, EndRun
<1>5. CASE RunCompletes
  BY <1>5 DEF RunCompletes, EndRun
<1>6. CASE DeadlineFires
  BY <1>6 DEF DeadlineFires
<1>7. CASE Resume
  BY <1>7 DEF Resume
<1>8. CASE Restart
  BY <1>8 DEF Restart
<1>9. CASE UNCHANGED vars
  BY <1>9 DEF vars
<1> QED
  BY <1>1, <1>2, <1>3, <1>4, <1>5, <1>6, <1>7, <1>8, <1>9 DEF Next

\* A reservation never accumulates, over any retries, resumes and restarts.
THEOREM ReservationsTyped == Spec => []TypeOK
BY InitHolds, TypeStep, PTL DEF Spec

\* What is in flight keeps its reservation until a clear ends the claim.
THEOREM InFlightAlwaysReserved == Spec => []InFlightReserved
<1>1. Init => TypeOK /\ InFlightReserved
  BY InitHolds
<1>2. TypeOK /\ InFlightReserved /\ [Next]_vars => (TypeOK /\ InFlightReserved)'
  BY TypeStep, ReservedStep
<1> QED
  BY <1>1, <1>2, PTL DEF Spec

---------------------------------------------------------------------------
(* What is committed *)

\* The tasks whose calls are under way.
UnderWay == {t \in Tasks : pc[t] \in {"admitted", "working"}}

\* The sums of the cap are natural numbers, and billed is summed over the tasks.
LEMMA CapSums ==
    ASSUME TypeOK
    PROVE  /\ SumFunction(billed) = SumFunctionOnSet(billed, Tasks)
           /\ SumFunction(billed) \in Nat
           /\ \A S \in SUBSET Tasks :
                /\ IsFiniteSet(S)
                /\ SumFunctionOnSet(Est, S) \in Nat
                /\ SumFunctionOnSet(reserved, S) \in Nat
<1>1. DOMAIN billed = Tasks
  BY DEF TypeOK
<1>2. SumFunction(billed) = SumFunctionOnSet(billed, Tasks)
  BY <1>1 DEF SumFunction
<1>3. SumFunctionOnSet(billed, Tasks) \in Nat
  BY CostAssumption, SumType DEF TypeOK
<1>4. ASSUME NEW S \in SUBSET Tasks
      PROVE  /\ IsFiniteSet(S)
             /\ SumFunctionOnSet(Est, S) \in Nat
             /\ SumFunctionOnSet(reserved, S) \in Nat
  <2>1. IsFiniteSet(S)
    BY CostAssumption, FS_Subset
  <2>2. \A x \in S : Est[x] \in Nat /\ reserved[x] \in Nat
    BY CostAssumption DEF TypeOK
  <2> QED
    BY <2>1, <2>2, SumType
<1> QED
  BY <1>2, <1>3, <1>4

\* A task that passes the check commits no more than is left: its siblings' estimates
\* are among the reservations the check has counted.
LEMMA AdmitCommitted ==
    ASSUME TypeOK, TypeOK', InFlightReserved, NEW t \in Tasks, Admit(t), ~halted, ~raced
    PROVE  SumFunction(billed) + SumFunctionOnSet(Est, UnderWay') <= Cap
<1> DEFINE others == Tasks \ {t}
<1>1. /\ UnderWay \in SUBSET others /\ UnderWay' = UnderWay \cup {t}
      /\ UnderWay' \in SUBSET Tasks /\ UnderWay' \ {t} = UnderWay
  BY DEF UnderWay, Admit, TypeOK
<1>2. /\ IsFiniteSet(others) /\ IsFiniteSet(UnderWay) /\ IsFiniteSet(UnderWay')
      /\ SumFunctionOnSet(Est, UnderWay) \in Nat
      /\ SumFunctionOnSet(reserved, UnderWay) \in Nat
      /\ SumFunctionOnSet(reserved, others) \in Nat
  BY <1>1, CapSums
<1>3. \A x \in Tasks : Est[x] \in Nat /\ reserved[x] \in Nat
  BY CostAssumption DEF TypeOK
<1>4. \A u \in UnderWay : Est[u] <= reserved[u]
  BY <1>3 DEF InFlightReserved, InFlight, UnderWay
<1>5. SumFunctionOnSet(Est, UnderWay) <= SumFunctionOnSet(reserved, UnderWay)
  BY <1>1, <1>2, <1>3, <1>4, SumMonotone
<1>6. SumFunctionOnSet(reserved, UnderWay) <= SumFunctionOnSet(reserved, others)
  BY <1>1, <1>2, <1>3, SumSubset
<1>7. SumFunctionOnSet(Est, UnderWay') = Est[t] + SumFunctionOnSet(Est, UnderWay)
  <2>1. t \in UnderWay' /\ \A x \in UnderWay' : Est[x] \in Nat
    BY <1>1, <1>3
  <2> QED
    BY <1>1, <1>2, <2>1, SumTakes
<1>8. SumFunction(billed) + reviews + SumFunctionOnSet(reserved, others) + Est[t] <= Cap
  BY DEF Admit, Fits, Used, Others
<1>9. SumFunction(billed) \in Nat /\ reviews \in Nat /\ Est[t] \in Nat /\ Cap \in Nat
  BY CapSums, CostAssumption DEF TypeOK
<1> HIDE DEF others
<1> QED
  BY <1>2, <1>5, <1>6, <1>7, <1>8, <1>9

\* The call of a task that succeeds is recorded at no more than its estimate, which is
\* no longer counted.
LEMMA SucceedCommitted ==
    ASSUME TypeOK, TypeOK', CommittedWithinCap, NEW t \in Tasks, Succeed(t), ~halted, ~raced
    PROVE  SumFunction(billed') + SumFunctionOnSet(Est, UnderWay') <= Cap
<1> DEFINE others == Tasks \ {t}
<1>1. /\ t \in UnderWay /\ UnderWay' = UnderWay \ {t}
      /\ UnderWay \in SUBSET Tasks /\ UnderWay' \in SUBSET Tasks
  BY DEF UnderWay, Succeed, TypeOK
<1>2. \A x \in Tasks : Est[x] \in Nat /\ billed[x] \in Nat /\ billed'[x] \in Nat
  BY CostAssumption DEF TypeOK
<1>3. billed'[t] <= billed[t] + Est[t]
  BY <1>2, CostAssumption DEF Succeed, TypeOK
<1>4. \A x \in others : billed'[x] = billed[x]
  BY DEF Succeed, TypeOK
<1>5. /\ SumFunctionOnSet(billed, Tasks) = billed[t] + SumFunctionOnSet(billed, others)
      /\ SumFunctionOnSet(billed', Tasks) = billed'[t] + SumFunctionOnSet(billed', others)
  BY <1>2, CostAssumption, SumTakes
<1>6. SumFunctionOnSet(billed', others) <= SumFunctionOnSet(billed, others)
  <2>1. IsFiniteSet(others)
    BY CapSums
  <2>2. \A x \in others : billed[x] \in Nat /\ billed'[x] \in Nat /\ billed'[x] <= billed[x]
    BY <1>2, <1>4
  <2> HIDE DEF others
  <2> QED
    BY <2>1, <2>2, SumMonotone
<1>7. SumFunctionOnSet(Est, UnderWay) = Est[t] + SumFunctionOnSet(Est, UnderWay')
  <2>1. IsFiniteSet(UnderWay) /\ \A x \in UnderWay : Est[x] \in Nat
    BY <1>1, <1>2, CapSums
  <2> QED
    BY <1>1, <2>1, SumTakes
<1>8. SumFunction(billed) + SumFunctionOnSet(Est, UnderWay) <= Cap
  BY <1>1 DEF CommittedWithinCap, UnderWay
<1>9. /\ SumFunction(billed) = SumFunctionOnSet(billed, Tasks)
      /\ SumFunction(billed') = SumFunctionOnSet(billed', Tasks)
  BY DEF SumFunction, TypeOK
<1>10. /\ SumFunctionOnSet(billed, others) \in Nat /\ SumFunctionOnSet(billed', others) \in Nat
       /\ SumFunctionOnSet(Est, UnderWay') \in Nat
       /\ Est[t] \in Nat /\ billed[t] \in Nat /\ billed'[t] \in Nat /\ Cap \in Nat
  <2>1. IsFiniteSet(others) /\ \A x \in others : billed[x] \in Nat /\ billed'[x] \in Nat
    BY <1>2, CapSums
  <2>2. SumFunctionOnSet(billed, others) \in Nat /\ SumFunctionOnSet(billed', others) \in Nat
    <3> HIDE DEF others
    <3> QED
      BY <2>1, SumType
  <2> QED
    BY <1>1, <1>2, <2>2, CapSums, CostAssumption
<1> HIDE DEF others
<1> QED
  BY <1>3, <1>5, <1>6, <1>7, <1>8, <1>9, <1>10

\* A step that bills nothing and starts no call commits nothing.
LEMMA CommittedStays ==
    ASSUME TypeOK, CommittedWithinCap, UNCHANGED billed, UnderWay' \subseteq UnderWay,
           ~halted' /\ ~raced' /\ UnderWay' # {} => ~halted /\ ~raced
    PROVE  CommittedWithinCap'
<1> SUFFICES ASSUME ~halted', ~raced', UnderWay' # {}
             PROVE  SumFunction(billed) + SumFunctionOnSet(Est, UnderWay') <= Cap
  BY DEF CommittedWithinCap, UnderWay
<1>1. SumFunction(billed) + SumFunctionOnSet(Est, UnderWay) <= Cap
  BY DEF CommittedWithinCap, UnderWay
<1>2. UnderWay \in SUBSET Tasks /\ UnderWay' \in SUBSET UnderWay /\ UnderWay' \in SUBSET Tasks
  BY DEF UnderWay
<1>3. /\ IsFiniteSet(UnderWay) /\ \A x \in UnderWay : Est[x] \in Nat
      /\ SumFunctionOnSet(Est, UnderWay) \in Nat /\ SumFunctionOnSet(Est, UnderWay') \in Nat
      /\ SumFunction(billed) \in Nat /\ Cap \in Nat
  BY <1>2, CapSums, CostAssumption
<1>4. SumFunctionOnSet(Est, UnderWay') <= SumFunctionOnSet(Est, UnderWay)
  BY <1>2, <1>3, SumSubset
<1> QED
  BY <1>1, <1>3, <1>4

\* Every step keeps what is committed within the cap: only a check that passes commits
\* more, and only a success bills.
LEMMA CommittedStep ==
    ASSUME TypeOK, TypeOK', InFlightReserved, CommittedWithinCap, [Next]_vars
    PROVE  CommittedWithinCap'
<1>1. ASSUME NEW t \in Tasks, TaskStep(t)
      PROVE  CommittedWithinCap'
  <2>1. CASE Admit(t)
    <3>1. billed' = billed /\ halted' = halted /\ raced' = raced
      BY <2>1 DEF Admit
    <3> QED
      BY <2>1, <3>1, AdmitCommitted DEF CommittedWithinCap, UnderWay
  <2>2. CASE Succeed(t)
    <3>1. halted' = halted /\ raced' = raced
      BY <2>2 DEF Succeed
    <3> QED
      BY <2>2, <3>1, SucceedCommitted DEF CommittedWithinCap, UnderWay
  <2>3. CASE Halt(t)
    BY <2>3 DEF Halt, CommittedWithinCap
  <2>4. CASE Stop(t) \/ Begin(t) \/ Abandon(t) \/ Fail(t) \/ Reviewed(t)
    <3>1. UNCHANGED <<billed, halted, raced>> /\ UnderWay' \subseteq UnderWay
      BY <2>4 DEF Stop, Begin, Abandon, Fail, Reviewed, UnderWay, TypeOK
    <3> QED
      BY <3>1, CommittedStays
  <2> QED
    BY <1>1, <2>1, <2>2, <2>3, <2>4 DEF TaskStep
<1>2. CASE TakeUp \/ BatchSucceeds \/ RunThrows \/ RunCompletes \/ Restart
  <2>1. UNCHANGED billed /\ UnderWay' = {}
    BY <1>2 DEF TakeUp, BatchSucceeds, RunThrows, RunCompletes, Restart, EndRun, UnderWay
  <2> QED
    BY <2>1, CommittedStays
<1>3. CASE DeadlineFires
  BY <1>3 DEF DeadlineFires, CommittedWithinCap
<1>4. CASE Resume \/ UNCHANGED vars
  <2>1. UNCHANGED <<billed, halted, raced, pc>>
    BY <1>4 DEF Resume, vars
  <2> QED
    BY <2>1, CommittedStays DEF UnderWay
<1> QED
  BY <1>1, <1>2, <1>3, <1>4 DEF Next

\* Until a run hits the cap or loses its race, what its tasks were recorded to cost and
\* the estimates of the calls under way are within the cap, for any number of tasks in
\* flight together and whatever earlier runs have left in the map.  (The synchronous
\* read-check-reserve of enforceWorkflowCostCapBeforeTask.)
THEOREM CommittedAlwaysWithinCap == Spec => []CommittedWithinCap
<1>1. Init => TypeOK /\ InFlightReserved /\ CommittedWithinCap
  <2>1. Init => CommittedWithinCap
    BY DEF Init, CommittedWithinCap
  <2> QED
    BY <2>1, InitHolds
<1>2. /\ TypeOK /\ InFlightReserved /\ CommittedWithinCap /\ [Next]_vars
      => (TypeOK /\ InFlightReserved /\ CommittedWithinCap)'
  BY TypeStep, ReservedStep, CommittedStep
<1> QED
  BY <1>1, <1>2, PTL DEF Spec

---------------------------------------------------------------------------
(* What a call leaves behind *)

\* In every run, resumed ones included, a call that is over has given its reservation
\* back, unless its task was abandoned.  (The releases of finalizeFailure and
\* finalizeSuccess, against the throws of executeTaskWithRetry around them.)
THEOREM CallsReleaseTheirs == Spec => ReleasedWithCall
<1>1. ASSUME TypeOK, [Next]_vars, NEW t \in Tasks, t \in InFlight, t \notin InFlight'
      PROVE  reserved'[t] = 0 \/ Abandon(t)
  <2>1. ASSUME NEW u \in Tasks, TaskStep(u)
        PROVE  reserved'[t] = 0 \/ Abandon(t)
    <3>1. \E p : pc' = [pc EXCEPT ![u] = p]
      BY <2>1 DEF TaskStep, Admit, Halt, Stop, Begin, Abandon, Fail, Succeed, Reviewed
    <3>2. u = t
      BY <1>1, <3>1 DEF InFlight, TypeOK
    <3>3. CASE Fail(t) \/ Reviewed(t)
      BY <1>1, <3>3 DEF Fail, Reviewed, TypeOK
    <3>4. CASE Admit(t) \/ Halt(t) \/ Stop(t)
      BY <1>1, <3>4 DEF Admit, Halt, Stop, InFlight
    <3>5. CASE Begin(t) \/ Succeed(t)
      BY <1>1, <3>5 DEF Begin, Succeed, InFlight, TypeOK
    <3> QED
      BY <2>1, <3>2, <3>3, <3>4, <3>5 DEF TaskStep
  <2>2. CASE TakeUp \/ BatchSucceeds \/ RunThrows \/ RunCompletes
    BY <1>1, <2>2 DEF TakeUp, BatchSucceeds, RunThrows, RunCompletes, InFlight, Busy
  <2>3. CASE Restart
    BY <2>3 DEF Restart, NoneReserved
  <2>4. CASE DeadlineFires \/ Resume \/ UNCHANGED vars
    BY <1>1, <2>4 DEF DeadlineFires, Resume, vars, InFlight
  <2> QED
    BY <1>1, <2>1, <2>2, <2>3, <2>4 DEF Next
<1>2. TypeOK /\ [Next]_vars
      => [\A t \in Tasks :
            t \in InFlight /\ t \notin InFlight' => reserved'[t] = 0 \/ Abandon(t)]_vars
  BY <1>1
<1> QED
  BY <1>2, ReservationsTyped, PTL DEF Spec, ReleasedWithCall
=============================================================================
