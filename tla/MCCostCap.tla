----------------------------- MODULE MCCostCap -----------------------------
(* Instances of CostCap: three tasks that do not all fit under the cap. *)
EXTENDS CostCap

CONSTANTS x, y, z

MCTasks == {x, y, z}

\* x and z fit together, y fits with neither.
MixedEst == [t \in MCTasks |-> IF t = y THEN 2 ELSE 1]

\* Any one fits, no two do.
UnitEst == [t \in MCTasks |-> 1]
=============================================================================
