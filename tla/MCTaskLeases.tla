---------------------------- MODULE MCTaskLeases ----------------------------
(* Two runs in the daemon and one at a terminal; a time unit is 20 seconds. *)
EXTENDS TaskLeases, TLC

CONSTANTS d1, d2, c1, daemon, terminal

MCRuns == {d1, d2, c1}
MCHome == (d1 :> daemon) @@ (d2 :> daemon) @@ (c1 :> terminal)
=============================================================================
