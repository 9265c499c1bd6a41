------------------------- MODULE EnrollmentSequence -------------------------
(***************************************************************************)
(* What an enrollment is meant to go through (campaigns/state_machine.py,  *)
(* advance_enrollment), as if nothing ever overlapped: one touch after the *)
(* other until the last step's, or a stop by an allowed move, after which  *)
(* nothing happens to it any more.  Outreach is shown to implement it when *)
(* its runs do not overlap.                                                *)
(***************************************************************************)
EXTENDS EnrollmentGate

CONSTANTS
    Enrollments,   \* ids of the primary enrollment rows of the campaign
    MaxSteps       \* the campaign's steps

VARIABLES
    status,        \* enrollment.status
    current_step   \* enrollment.current_step

rows == <<status, current_step>>

Init ==
    /\ status = [e \in Enrollments |-> "enrolled"]
    /\ current_step = [e \in Enrollments |-> 0]

\* The next touch went out; it was the last one, or there is another.
Advance(e) ==
    /\ status[e] \in SCHEDULABLE_STATUSES
    /\ current_step[e] < MaxSteps
    /\ current_step' = [current_step EXCEPT ![e] = @ + 1]
    /\ \E to \in {"in_progress", "completed"} : status' = [status EXCEPT ![e] = to]

\* The enrollment is stopped by a move the state machine allows.
Stop(e) ==
    /\ \E to \in ALLOWED_TRANSITIONS[status[e]] \cap (StoppedStatuses \cup {"excluded"}) :
        status' = [status EXCEPT ![e] = to]
    /\ UNCHANGED current_step

Next == \E e \in Enrollments : Advance(e) \/ Stop(e)

Spec == Init /\ [][Next]_rows
=============================================================================
