------------------------------ MODULE Schedule ------------------------------
(***************************************************************************)
(* What the executor promises to whoever reads the database: it schedules  *)
(* the graph as if it remembered nothing but the rows.  A batch is chosen  *)
(* among pending rows whose dependencies' rows have settled, while nobody  *)
(* holds the run; a run goes on only after a batch that is all completed;  *)
(* a workflow is finished when every row is over; and what the operator    *)
(* does between runs never takes completed work back unasked.              *)
(***************************************************************************)
CONSTANTS
    Tasks,
    Deps,       \* what each task depends on
    SideBySide  \* the sets of tasks that may be in flight together

VARIABLES
    row,        \* the status of each task
    inFlight,   \* the tasks of the batch under way
    held,       \* an operator's pause or cancel stands
    resumed,    \* the first run is over
    finished    \* the workflow is completed

Status  == {"pending", "running", "completed", "failed", "cancelled", "skipped"}
Over    == {"completed", "skipped", "cancelled"}
\* A resumed run goes on past what an earlier one left failed.
Settled == {"completed", "skipped"} \cup IF resumed THEN {"failed"} ELSE {}

Init ==
    /\ row = [t \in Tasks |-> "pending"]
    /\ inFlight = {}
    /\ held = FALSE
    /\ resumed = FALSE
    /\ finished = FALSE

---------------------------------------------------------------------------
(* A batch *)

Ready(t) == row[t] = "pending" /\ \A d \in Deps[t] : row[d] \in Settled

TakeUp ==
    /\ ~held
    /\ ~finished
    /\ inFlight = {}
    /\ \E B \in SideBySide : (\A t \in B : Ready(t)) /\ inFlight' = B
    /\ UNCHANGED <<row, held, resumed, finished>>

\* A task of the batch starts, ends well or fails; only a review fails a completed one.
Work ==
    /\ \E t \in inFlight :
         \/ row[t] # "completed" /\ row' = [row EXCEPT ![t] = "running"]
         \/ row[t] # "completed" /\ row' = [row EXCEPT ![t] = "completed"]
         \/ row' = [row EXCEPT ![t] = "failed"]
    /\ UNCHANGED <<inFlight, held, resumed, finished>>

Skipped(S) ==
    /\ \A t \in S : row[t] # "completed"
    /\ row' = [t \in Tasks |-> IF t \in S THEN "skipped" ELSE row[t]]

\* A task of the batch meets a cap that skips it and others.
Halt ==
    /\ \E S \in SUBSET Tasks : S \cap inFlight # {} /\ Skipped(S)
    /\ UNCHANGED <<inFlight, held, resumed, finished>>

\* The batch is over, with the branches its routers did not choose.  The run goes on
\* only if the whole batch is completed.
Settle ==
    /\ inFlight # {}
    /\ \E S \in SUBSET Tasks :
         Skipped(S) /\ \A t \in S : \E d \in Deps[t] : row[d] = "completed"
    /\ inFlight' = {}
    /\ \/ resumed' = TRUE
       \/ resumed' = resumed /\ \A t \in inFlight : row[t] = "completed"
    /\ UNCHANGED <<held, finished>>

---------------------------------------------------------------------------
(* The end of a run, and what happens between runs *)

\* It fails, is cancelled, or its process dies.
End ==
    /\ ~finished
    /\ inFlight' = {}
    /\ resumed' = TRUE
    /\ UNCHANGED <<row, held, finished>>

Finish ==
    /\ inFlight = {}
    /\ \A t \in Tasks : row[t] \in Over
    /\ finished' = TRUE
    /\ resumed' = TRUE
    /\ UNCHANGED <<row, inFlight, held>>

\* A resume: what was interrupted, failed or cancelled is pending again, or, failed,
\* skipped.
Resume ==
    /\ ~finished
    /\ resumed
    /\ inFlight = {}
    /\ row' \in [Tasks -> Status]
    /\ \A t \in Tasks :
         \/ row'[t] = row[t] /\ row[t] # "running"
         \/ row'[t] = "pending" /\ row[t] \in {"running", "failed", "cancelled"}
         \/ row'[t] = "skipped" /\ row[t] = "failed"
    /\ UNCHANGED <<inFlight, held, resumed, finished>>

\* A retry: the tasks asked for are pending again, and the workflow is open.
Retry ==
    /\ resumed
    /\ inFlight = {}
    /\ row' \in [Tasks -> Status]
    /\ \A t \in Tasks : row'[t] = "pending" \/ (row'[t] = row[t] /\ row[t] # "running")
    /\ finished' = FALSE
    /\ UNCHANGED <<inFlight, held, resumed>>

\* A refused resume fails the workflow all the same.
Refuse ==
    /\ finished
    /\ finished' = FALSE
    /\ UNCHANGED <<row, inFlight, held, resumed>>

---------------------------------------------------------------------------
(* The operator and the clock, at any time *)

Hold    == held' = TRUE  /\ UNCHANGED <<row, inFlight, resumed, finished>>
Release == held' = FALSE /\ ~finished /\ UNCHANGED <<row, inFlight, resumed, finished>>

Cancel ==
    /\ ~finished
    /\ held' = TRUE
    /\ row' = [t \in Tasks |-> IF row[t] \in {"pending", "running"} THEN "cancelled" ELSE row[t]]
    /\ UNCHANGED <<inFlight, resumed, finished>>

Expire ==
    /\ \E t \in Tasks : row[t] = "running" /\ row' = [row EXCEPT ![t] = "failed"]
    /\ UNCHANGED <<inFlight, held, resumed, finished>>

Next ==
    \/ TakeUp \/ Work   \/ Halt    \/ Settle
    \/ End    \/ Finish \/ Resume  \/ Retry  \/ Refuse
    \/ Hold   \/ Release \/ Cancel \/ Expire

Spec == Init /\ [][Next]_<<row, inFlight, held, resumed, finished>>
=============================================================================
