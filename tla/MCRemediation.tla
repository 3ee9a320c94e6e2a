--------------------------- MODULE MCRemediation ---------------------------
(* One source task, two children and two executors: the second child comes  *)
(* with the retry of the source after a resume, a pickup may run beside a   *)
(* resume, and one child outlives another.                                  *)
EXTENDS Remediation

=============================================================================
