-------------------------- MODULE MCWorkflowEngine --------------------------
(* Instances of WorkflowEngine for TLC. *)
EXTENDS WorkflowEngine, TLC

CONSTANTS r, a, b, w, x, y, z, f

\* A router with two branches, next to a task that may fail its batch.
RoutingTasks == {r, a, b, w}
RoutingDeps  == (r :> {}) @@ (a :> {r}) @@ (b :> {r}) @@ (w :> {})
RoutingScope == [t \in RoutingTasks |-> {}]

\* Graphs whose branch b does not depend on its router alone.
JointDeps == (r :> {}) @@ (a :> {r}) @@ (b :> {r, w}) @@ (w :> {})
ChainDeps == (r :> {}) @@ (a :> {r}) @@ (b :> {r, a}) @@ (w :> {})

\* Two tasks on the same file, a third behind a gate that needs one of them.
SharingTasks == {x, y, z}
SharingDeps  == (x :> {}) @@ (y :> {}) @@ (z :> {x})
SharingScope == (x :> {f}) @@ (y :> {f}) @@ (z :> {})
=============================================================================
