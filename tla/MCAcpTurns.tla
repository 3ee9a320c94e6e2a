----------------------------- MODULE MCAcpTurns -----------------------------
(* A task with two attempts: the turn of the first may go on beside the second. *)
EXTENDS AcpTurns, TLC

CONSTANTS x

MCAttempts == (x :> 2)
=============================================================================
