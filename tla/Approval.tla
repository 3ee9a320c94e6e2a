------------------------------ MODULE Approval ------------------------------
(***************************************************************************)
(* What a human-in-the-loop flag promises: a flagged task works only after *)
(* somebody has consented to it at one of the gates opened for it.         *)
(***************************************************************************)
CONSTANT Gates

VARIABLES
    consents,   \* the gates at which somebody has consented
    working     \* the task's body is running

Init == consents = {} /\ working = FALSE

Consent == \E g \in Gates : consents' = consents \cup {g} /\ UNCHANGED working

Work == consents # {} /\ working' = TRUE /\ UNCHANGED consents

Stop == working' = FALSE /\ UNCHANGED consents

Next == Consent \/ Work \/ Stop

Spec == Init /\ [][Next]_<<consents, working>>
=============================================================================
