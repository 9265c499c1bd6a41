--------------------------- MODULE EnrollmentGate ---------------------------
(***************************************************************************)
(* The enrollment state machine (campaigns/state_machine.py) and the       *)
(* ordered skip conditions of the eligibility gate                         *)
(* (campaigns/eligibility.py), as constant definitions.  A condition is    *)
(* named by the reason string the gate records when it applies.            *)
(***************************************************************************)
EXTENDS Naturals, Sequences

SCHEDULABLE_STATUSES == {"enrolled", "in_progress"}

\* The stop statuses an enrollment that has been touched can land on.
StoppedStatuses ==
    {"stopped_reply", "stopped_optout", "stopped_bounce", "stopped_reengaged"}

EnrollmentStatuses ==
    SCHEDULABLE_STATUSES \cup {"excluded", "completed"} \cup StoppedStatuses

\* Mutant: a sequence under way may be excluded.
AllowsLateExclusion ==
    [st \in EnrollmentStatuses |->
        IF st = "enrolled" THEN {"in_progress", "excluded"}
        ELSE IF st = "in_progress" THEN EnrollmentStatuses \ {"enrolled"}
        ELSE {}]

\* ALLOWED_TRANSITIONS: what transition_enrollment accepts from each status.
ALLOWED_TRANSITIONS ==
    [st \in EnrollmentStatuses |->
        IF st = "enrolled" THEN {"in_progress", "excluded"}
        ELSE IF st = "in_progress" THEN {"in_progress", "completed"} \cup StoppedStatuses
        ELSE {}]

TERMINAL_STATUSES ==
    {st \in EnrollmentStatuses : ALLOWED_TRANSITIONS[st] = {}}

-----------------------------------------------------------------------------
\* The permanent stop signals of _stop_reason, in the order it looks at them.
\* The one suppression row of a client reads as a bounce or as anything else.
StopOrder ==
    <<"suppressed_bounce", "suppressed", "opted_out", "no_deliverable_contact",
      "bounce", "replied", "reengaged">>

\* The status each terminal skip asks for.
TerminalStatus ==
    [ suppressed_bounce      |-> "stopped_bounce",
      suppressed             |-> "stopped_optout",
      opted_out              |-> "stopped_optout",
      no_deliverable_contact |-> "excluded",
      bounce                 |-> "stopped_bounce",
      replied                |-> "stopped_reply",
      reengaged              |-> "stopped_reengaged",
      no_visible_history     |-> "excluded" ]

TerminalReasons == DOMAIN TerminalStatus

\* Mutant: the stop signals are looked at before the touch log.
StopsBeforeTouchLog ==
    <<"campaign_inactive", "moved_to_active", "no_next_step",
      "no_visible_history">>
    \o StopOrder \o <<"already_touched", "previous_touch_pending", "cooldown">>

\* The conditions of check_eligibility, in order: the first that applies wins.
EligibilityOrder ==
    <<"campaign_inactive", "moved_to_active", "no_next_step",
      "no_visible_history", "already_touched", "previous_touch_pending">>
    \o StopOrder \o <<"cooldown">>

\* The conditions send_touch re-checks: the delivery mode, then those of
\* check_stop_conditions.
SendOrder ==
    <<"campaign_mode_mismatch", "campaign_inactive", "moved_to_active",
      "angle_held">>
    \o StopOrder

\* What can be true of a client, apart from the enrollment's own rows.
ClientSignals ==
    {StopOrder[i] : i \in DOMAIN StopOrder}
        \cup {"moved_to_active", "no_visible_history", "angle_held", "cooldown"}

\* r is the reason the gate gives when the conditions in S hold.
IsFirstReason(order, S, r) ==
    \E i \in DOMAIN order :
        /\ order[i] = r
        /\ r \in S
        /\ \A j \in 1..(i - 1) : order[j] \notin S

\* No condition of the gate applies.
Passes(order, S) == \A i \in DOMAIN order : order[i] \notin S

\* _skip: before the first touch every terminal skip lands on excluded.
SkipStatus(current_step, r) ==
    IF current_step = 0 THEN "excluded" ELSE TerminalStatus[r]
=============================================================================
