-------------------------- MODULE OutreachPromise --------------------------
(***************************************************************************)
(* What a campaign promises of its touches, without runs, requests or      *)
(* failures: the steps of an enrollment are taken one after the other,     *)
(* what reaches a client was approved by a reviewer, and nothing that      *)
(* happened to a touch is taken back.  Outreach is shown to implement it.  *)
(***************************************************************************)
EXTENDS Naturals

CONSTANTS
    Enrollments,   \* ids of the primary enrollment rows of the campaign
    MaxSteps       \* the campaign's steps

VARIABLES
    logged,    \* touches with a touch_log row
    approved,  \* touches whose message a reviewer approved
    closed,    \* touches with sent_at set
    got        \* touches the client was given

touches == <<logged, approved, closed, got>>

PromisedTouches == Enrollments \X (1..MaxSteps)

Init == logged = {} /\ approved = {} /\ closed = {} /\ got = {}

\* The touch of a step is logged once every earlier one of its enrollment is closed.
Log(e, s) ==
    /\ <<e, s>> \notin logged
    /\ \A u \in 1..(s - 1) : <<e, u>> \in closed
    /\ logged' = logged \cup {<<e, s>>}
    /\ UNCHANGED <<approved, closed, got>>

\* A reviewer approves a touch that was logged.
Approve(t) ==
    /\ t \in logged
    /\ approved' = approved \cup {t}
    /\ UNCHANGED <<logged, closed, got>>

\* An approved touch is closed; the client has been given it, or will be when
\* the claimed batch is returned.
Close(t) ==
    /\ t \in approved
    /\ closed' = closed \cup {t}
    /\ got' \in {got, got \cup {t}}
    /\ UNCHANGED <<logged, approved>>

\* Approved touches reach the client: a claimed batch is returned, or a message
\* the provider took although the run failed.
Receive(T) ==
    /\ T \subseteq approved
    /\ got' = got \cup T
    /\ UNCHANGED <<logged, approved, closed>>

Next ==
    \/ \E e \in Enrollments, s \in 1..MaxSteps : Log(e, s)
    \/ \E t \in PromisedTouches : Approve(t) \/ Close(t)
    \/ \E T \in SUBSET PromisedTouches : Receive(T)

Spec == Init /\ [][Next]_touches
=============================================================================
