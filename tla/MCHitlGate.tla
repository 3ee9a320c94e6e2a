----------------------------- MODULE MCHitlGate -----------------------------
(* One flagged task asked twice, with a decider in another process beside  *)
(* those of the executor's own.                                            *)
EXTENDS HitlGate

CONSTANTS g1, g2, dashboard
=============================================================================
