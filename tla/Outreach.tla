------------------------------ MODULE Outreach ------------------------------
(***************************************************************************)
(* One campaign's outreach, from a due enrollment to a delivered touch:    *)
(* generation runs (run_due_enrollments), review (decide), dispatch runs   *)
(* (dispatch_campaign / send_due_touches / send_touch) and the events that *)
(* stop a sequence.  Every run is a process of its own: the code takes no  *)
(* row lock, so runs, reviewers and client events interleave between a     *)
(* row's read and its commit.                                              *)
(*                                                                         *)
(* A touch is <<enrollment, step_no>>, the unique key of touch_log.  A     *)
(* database transaction that contains no call to the outside (a model or a *)
(* delivery provider) is one step; those calls are where a step ends.      *)
(***************************************************************************)
EXTENDS EnrollmentGate, FiniteSets

CONSTANTS
    Enrollments,      \* ids of the primary enrollment rows of the campaign
    MaxSteps,         \* bound on the campaign's steps
    Generators,       \* concurrent generation runs
    Dispatchers,      \* concurrent dispatch runs
    Reviewers,        \* concurrent review requests
    Signals,          \* the client signals that may arise
    Limit,            \* the limit of a generation or dispatch run
    MaxDelivered,     \* bound on the deliveries of one touch that are counted
    MaxUndone,        \* bound on the hand-overs of one touch whose transaction is lost
    DirectSend,       \* settings.dispatch_direct_send
    RequireContact,   \* settings.require_deliverable_contact
    ModeMatches,      \* campaign.is_test agrees with settings.delivery_mode
    FromProposal,     \* the campaign was made by an agent proposal
    Failures          \* which may happen: "crash"; "error", before the sender has
                      \* taken the message; "ack_lost", an error after it has

ASSUME OutreachAssumption ==
    /\ Enrollments \subseteq Nat \ {0}
    /\ MaxSteps \in Nat \ {0}
    /\ Limit \in Nat \ {0}
    /\ {MaxDelivered, MaxUndone} \subseteq Nat \ {0}
    /\ Signals \subseteq ClientSignals
    /\ Failures \subseteq {"crash", "ack_lost", "error"}
    /\ {DirectSend, RequireContact, ModeMatches, FromProposal} \subseteq BOOLEAN

VARIABLES
    campaign,      \* campaign.status
    numSteps,      \* the number of campaign_step rows
    status, current_step, due,      \* enrollment rows; due: next_due_at has come
    message,       \* the touch's message status, "null" without one, "none" without a row
    sent,          \* touch_log.sent_at is set
    signals,       \* what currently holds of each client
    gpc, gdue, gseen, gcur,         \* generation runs
    dpc, dpage, dcampaign, dcur, drow, dsent, dclaimed,   \* dispatch runs
    rcur,          \* the touch whose message a reviewer's request has read
    delivered,     \* how often the touch was handed over to its recipient
    undone,        \* how often it was handed over in a transaction that was lost
    approvedEver   \* touches whose message a reviewer approved at some time

rowVars == <<status, current_step, due>>
touchVars == <<message, sent>>
genVars == <<gpc, gdue, gseen, gcur>>
dispVars == <<dpc, dpage, dcampaign, dcur, drow, dsent, dclaimed>>
history == <<delivered, undone, approvedEver>>
vars == <<campaign, numSteps, rowVars, touchVars, signals, genVars, dispVars,
          rcur, history>>

-----------------------------------------------------------------------------
Steps == 1..MaxSteps
Touches == Enrollments \X Steps
NoTouch == <<0, 0>>

UNRESOLVED_MESSAGE_STATUSES == {"pending_review", "escalated", "held"}
MessageStatuses == UNRESOLVED_MESSAGE_STATUSES \cup {"approved", "rejected"}
CampaignStatuses == {"draft", "running", "paused", "completed"}

Rows == [status : EnrollmentStatuses, step : 0..MaxSteps]
\* An ORM object whose attributes a rollback expired: the next use reads the row.
Expired == [status |-> "expired", step |-> 0]

TypeOK ==
    /\ campaign \in CampaignStatuses
    /\ numSteps \in Steps
    /\ status \in [Enrollments -> EnrollmentStatuses]
    /\ current_step \in [Enrollments -> 0..MaxSteps]
    /\ due \in [Enrollments -> BOOLEAN]
    /\ message \in [Touches -> MessageStatuses \cup {"none", "null"}]
    /\ sent \in [Touches -> BOOLEAN]
    /\ signals \in [Enrollments -> SUBSET Signals]
    /\ gpc \in [Generators -> {"idle", "loop", "logging", "generating"}]
    /\ gdue \in [Generators -> SUBSET Enrollments]
    /\ gseen \in [Generators -> [Enrollments -> Rows \cup {Expired}]]
    /\ gcur \in [Generators -> Touches \cup {NoTouch}]
    /\ dpc \in [Dispatchers -> {"idle", "loop", "sending"}]
    /\ dpage \in [Dispatchers -> SUBSET Touches]
    /\ dcampaign \in [Dispatchers -> CampaignStatuses \cup {"expired"}]
    /\ dcur \in [Dispatchers -> Touches \cup {NoTouch}]
    /\ drow \in [Dispatchers -> Rows \cup {Expired}]
    /\ dsent \in [Dispatchers -> Nat]
    /\ dclaimed \in [Dispatchers -> SUBSET Touches]
    /\ rcur \in [Reviewers -> Touches \cup {NoTouch}]
    /\ delivered \in [Touches -> Nat]
    /\ undone \in [Touches -> Nat]
    /\ approvedEver \subseteq Touches

\* A campaign starts with at least its first step, as a draft when a person
\* made it and running when an approved proposal did.
Init ==
    /\ campaign = IF FromProposal THEN "running" ELSE "draft"
    /\ numSteps = 1
    /\ status = [e \in Enrollments |-> "enrolled"]
    /\ current_step = [e \in Enrollments |-> 0]
    /\ due = [e \in Enrollments |-> TRUE]
    /\ message = [t \in Touches |-> "none"]
    /\ sent = [t \in Touches |-> FALSE]
    /\ signals = [e \in Enrollments |-> {}]
    /\ gpc = [g \in Generators |-> "idle"]
    /\ gdue = [g \in Generators |-> {}]
    /\ gseen = [g \in Generators |-> [e \in Enrollments |-> Expired]]
    /\ gcur = [g \in Generators |-> NoTouch]
    /\ dpc = [d \in Dispatchers |-> "idle"]
    /\ dpage = [d \in Dispatchers |-> {}]
    /\ dcampaign = [d \in Dispatchers |-> "expired"]
    /\ dcur = [d \in Dispatchers |-> NoTouch]
    /\ drow = [d \in Dispatchers |-> Expired]
    /\ dsent = [d \in Dispatchers |-> 0]
    /\ dclaimed = [d \in Dispatchers |-> {}]
    /\ rcur = [r \in Reviewers |-> NoTouch]
    /\ delivered = [t \in Touches |-> 0]
    /\ undone = [t \in Touches |-> 0]
    /\ approvedEver = {}

-----------------------------------------------------------------------------
(* The eligibility gate against the current rows.                           *)

Row(e) == [status |-> status[e], step |-> current_step[e]]

MessageAt(e, s) == IF s \in Steps THEN message[<<e, s>>] ELSE "none"

InactiveStatuses == {"paused", "completed"}

\* _has_unresolved_touch: the latest touch still waits for a decision or a send.
HasUnresolvedTouch(e) ==
    \E s \in Steps :
        /\ message[<<e, s>>] # "none"
        /\ \A u \in Steps : u > s => message[<<e, u>>] = "none"
        /\ \/ message[<<e, s>>] \in UNRESOLVED_MESSAGE_STATUSES \cup {"null"}
           \/ message[<<e, s>>] = "approved" /\ ~sent[<<e, s>>]

\* What check_eligibility finds to hold for the touch after step.
EligibilityConditions(e, step) ==
    {r \in {"campaign_inactive"} : campaign \in InactiveStatuses}
    \cup {r \in {"no_next_step"} : step + 1 > numSteps}
    \cup {r \in {"already_touched"} : MessageAt(e, step + 1) # "none"}
    \cup {r \in {"previous_touch_pending"} : HasUnresolvedTouch(e)}
    \cup (signals[e] \ IF RequireContact THEN {} ELSE {"no_deliverable_contact"})

\* What send_touch and check_stop_conditions find; camp is the campaign status
\* the run's session holds.
SendConditions(e, camp) ==
    {r \in {"campaign_mode_mismatch"} : ~ModeMatches}
    \cup {r \in {"campaign_inactive"} : camp \in InactiveStatuses}
    \cup signals[e]

-----------------------------------------------------------------------------
(* Generation runs: run_due_enrollments.                                    *)

DueEnrollments ==
    {e \in Enrollments :
        /\ status[e] \in SCHEDULABLE_STATUSES
        /\ due[e]
        /\ MessageAt(e, current_step[e] + 1) = "none"}

\* The rows selected, lowest ids first, stay in the session for the whole run.
select_due_enrollments(g) ==
    /\ gpc[g] = "idle"
    /\ \E S \in SUBSET DueEnrollments :
        /\ S # {}
        /\ \A e \in S, f \in DueEnrollments \ S : e < f
        /\ \/ Cardinality(S) = Limit
           \/ S = DueEnrollments /\ Cardinality(S) < Limit
        /\ gdue' = [gdue EXCEPT ![g] = S]
        /\ gseen' = [gseen EXCEPT ![g] =
                        [e \in Enrollments |-> IF e \in S THEN Row(e) ELSE Expired]]
    /\ gpc' = [gpc EXCEPT ![g] = "loop"]
    /\ UNCHANGED <<campaign, numSteps, rowVars, touchVars, signals, gcur,
                   dispVars, rcur, history>>

NextInRun(g, e) ==
    /\ gpc[g] = "loop"
    /\ e \in gdue[g]
    /\ \A f \in gdue[g] : e <= f

SeenRow(g, e) == IF gseen[g][e] = Expired THEN Row(e) ELSE gseen[g][e]

\* The run is done with e and goes on with the others.
LeaveInRun(g, e) ==
    /\ gdue' = [gdue EXCEPT ![g] = @ \ {e}]
    /\ gpc' = [gpc EXCEPT ![g] = IF gdue[g] \subseteq {e} THEN "idle" ELSE "loop"]
    /\ gcur' = [gcur EXCEPT ![g] = NoTouch]

\* The run is over; its session is closed.
EndRun(g) ==
    /\ gdue' = [gdue EXCEPT ![g] = {}]
    /\ gpc' = [gpc EXCEPT ![g] = "idle"]
    /\ gcur' = [gcur EXCEPT ![g] = NoTouch]
    /\ gseen' = [gseen EXCEPT ![g] = [e \in Enrollments |-> Expired]]

\* check_eligibility skips e for a reason that may pass: e stays as it is.
GenerateSkip(g, e) ==
    /\ NextInRun(g, e)
    /\ \E r \in {EligibilityOrder[i] : i \in DOMAIN EligibilityOrder} \ TerminalReasons :
        IsFirstReason(EligibilityOrder, EligibilityConditions(e, SeenRow(g, e).step), r)
    /\ LeaveInRun(g, e)
    /\ gseen' = [gseen EXCEPT ![g][e] = Expired]
    /\ UNCHANGED <<campaign, numSteps, rowVars, touchVars, signals, dispVars,
                   rcur, history>>

\* check_eligibility stops e for good; the move is checked against the status
\* the session holds and written over whatever the row has by now.
GenerateStop(g, e) ==
    /\ NextInRun(g, e)
    /\ \E r \in TerminalReasons :
        /\ IsFirstReason(EligibilityOrder, EligibilityConditions(e, SeenRow(g, e).step), r)
        /\ LET to == SkipStatus(SeenRow(g, e).step, r) IN
            /\ to \in ALLOWED_TRANSITIONS[SeenRow(g, e).status]
            /\ status' = [status EXCEPT ![e] = to]
    /\ LeaveInRun(g, e)
    /\ gseen' = [gseen EXCEPT ![g][e] = Expired]
    /\ UNCHANGED <<campaign, numSteps, current_step, due, touchVars, signals,
                   dispVars, rcur, history>>

\* The stop is not an allowed move: InvalidTransition leaves check_eligibility
\* and run_due_enrollments, which calls it outside its try.
GenerateAbort(g, e) ==
    /\ NextInRun(g, e)
    /\ \E r \in TerminalReasons :
        /\ IsFirstReason(EligibilityOrder, EligibilityConditions(e, SeenRow(g, e).step), r)
        /\ SkipStatus(SeenRow(g, e).step, r) \notin ALLOWED_TRANSITIONS[SeenRow(g, e).status]
    /\ EndRun(g)
    /\ UNCHANGED <<campaign, numSteps, rowVars, touchVars, signals, dispVars,
                   rcur, history>>

\* Mutant: off by one, the step the enrollment is at instead of the next one.
GenerateSeenStep(g, e) ==
    /\ NextInRun(g, e)
    /\ Passes(EligibilityOrder, EligibilityConditions(e, SeenRow(g, e).step))
    /\ gpc' = [gpc EXCEPT ![g] = "logging"]
    /\ gcur' = [gcur EXCEPT ![g] = <<e, SeenRow(g, e).step>>]
    /\ UNCHANGED <<campaign, numSteps, rowVars, touchVars, signals, gdue, gseen,
                   dispVars, rcur, history>>

\* e is eligible: generate_touch is called for the step after the seen one.
GenerateEligible(g, e) ==
    /\ NextInRun(g, e)
    /\ Passes(EligibilityOrder, EligibilityConditions(e, SeenRow(g, e).step))
    /\ gpc' = [gpc EXCEPT ![g] = "logging"]
    /\ gcur' = [gcur EXCEPT ![g] = <<e, SeenRow(g, e).step + 1>>]
    /\ UNCHANGED <<campaign, numSteps, rowVars, touchVars, signals, gdue, gseen,
                   dispVars, rcur, history>>

\* The unique index makes record_touch wait for a concurrent insert of the
\* same key to commit or roll back.
InsertPending(g, t) ==
    \E h \in Generators \ {g} :
        gpc[h] = "generating" /\ gcur[h] = t /\ message[t] = "none"

\* record_touch, then: a touch that already has its message is returned as is.
record_touch(g) ==
    /\ gpc[g] = "logging"
    /\ ~InsertPending(g, gcur[g])
    /\ IF message[gcur[g]] \in MessageStatuses
         THEN LeaveInRun(g, gcur[g][1]) /\ gseen' = [gseen EXCEPT ![g][gcur[g][1]] = Expired]
         ELSE gpc' = [gpc EXCEPT ![g] = "generating"] /\ UNCHANGED <<gdue, gseen, gcur>>
    /\ UNCHANGED <<campaign, numSteps, rowVars, touchVars, signals, dispVars,
                   rcur, history>>

\* Mutant: the enrollment advances when its message is generated.
GenerateAdvances(g) ==
    /\ gpc[g] = "generating"
    /\ message' = [message EXCEPT ![gcur[g]] = "pending_review"]
    /\ current_step' = [current_step EXCEPT ![gcur[g][1]] = gcur[g][2]]
    /\ LeaveInRun(g, gcur[g][1])
    /\ gseen' = [gseen EXCEPT ![g][gcur[g][1]] = Expired]
    /\ UNCHANGED <<campaign, numSteps, status, due, sent, signals, dispVars, rcur,
                   history>>

\* Mutant: a generated message needs no review.
GenerateApproved(g) ==
    /\ gpc[g] = "generating"
    /\ message' = [message EXCEPT ![gcur[g]] = "approved"]
    /\ LeaveInRun(g, gcur[g][1])
    /\ gseen' = [gseen EXCEPT ![g][gcur[g][1]] = Expired]
    /\ UNCHANGED <<campaign, numSteps, rowVars, sent, signals, dispVars, rcur,
                   history>>

\* Mutant: a touch no message could be generated for leaves the log again.
GenerateForgets(g) ==
    /\ gpc[g] = "generating"
    /\ \/ message' = [message EXCEPT ![gcur[g]] = "pending_review"]
       \/ message' = [message EXCEPT ![gcur[g]] = IF @ = "none" THEN "null" ELSE "none"]
    /\ LeaveInRun(g, gcur[g][1])
    /\ gseen' = [gseen EXCEPT ![g][gcur[g][1]] = Expired]
    /\ UNCHANGED <<campaign, numSteps, rowVars, sent, signals, dispVars, rcur,
                   history>>

\* generate returned a message, or None after every guardrail retry; the touch
\* and the message become visible with the commit.
GenerateCommit(g) ==
    /\ gpc[g] = "generating"
    /\ \/ message' = [message EXCEPT ![gcur[g]] = "pending_review"]
       \/ message' = [message EXCEPT ![gcur[g]] = IF @ = "none" THEN "null" ELSE @]
    /\ LeaveInRun(g, gcur[g][1])
    /\ gseen' = [gseen EXCEPT ![g][gcur[g][1]] = Expired]
    /\ UNCHANGED <<campaign, numSteps, rowVars, sent, signals, dispVars, rcur,
                   history>>

\* generate raised: the rollback takes the touch row with it and expires every
\* row the session holds.
GenerateError(g) ==
    /\ "error" \in Failures
    /\ gpc[g] = "generating"
    /\ LeaveInRun(g, gcur[g][1])
    /\ gseen' = [gseen EXCEPT ![g] = [e \in Enrollments |-> Expired]]
    /\ UNCHANGED <<campaign, numSteps, rowVars, touchVars, signals, dispVars,
                   rcur, history>>

GenerateCrash(g) ==
    /\ "crash" \in Failures
    /\ gpc[g] # "idle"
    /\ EndRun(g)
    /\ UNCHANGED <<campaign, numSteps, rowVars, touchVars, signals, dispVars,
                   rcur, history>>

-----------------------------------------------------------------------------
(* Review: decide, one request per reviewer.                                *)

\* The statuses the outcomes approve/edit_approve, reject, escalate, hold give.
StatusForOutcome == {"approved", "rejected", "escalated", "held"}

\* Mutant: a decided message may be decided again.
DecideReadAnything(r, t) ==
    /\ rcur[r] = NoTouch
    /\ message[t] \in MessageStatuses
    /\ rcur' = [rcur EXCEPT ![r] = t]
    /\ UNCHANGED <<campaign, numSteps, rowVars, touchVars, signals, genVars,
                   dispVars, history>>

\* decide has read the message and found it undecided.
DecideRead(r, t) ==
    /\ rcur[r] = NoTouch
    /\ message[t] \in UNRESOLVED_MESSAGE_STATUSES
    /\ rcur' = [rcur EXCEPT ![r] = t]
    /\ UNCHANGED <<campaign, numSteps, rowVars, touchVars, signals, genVars,
                   dispVars, history>>

\* decide commits the outcome's status, whatever the row holds by then.
DecideCommit(r, outcome) ==
    /\ rcur[r] # NoTouch
    /\ message' = [message EXCEPT ![rcur[r]] = outcome]
    /\ approvedEver' = IF outcome = "approved" THEN approvedEver \cup {rcur[r]}
                                               ELSE approvedEver
    /\ rcur' = [rcur EXCEPT ![r] = NoTouch]
    /\ UNCHANGED <<campaign, numSteps, rowVars, sent, signals, genVars,
                   dispVars, delivered, undone>>

-----------------------------------------------------------------------------
(* Dispatch runs: send_campaign, send_due_touches and send_touch.           *)

\* Mutants: touches already sent, or of stopped enrollments, are selected too.
SendableOrSent ==
    {t \in Touches : message[t] = "approved" /\ status[t[1]] \in SCHEDULABLE_STATUSES}

SendableOrStopped == {t \in Touches : message[t] = "approved" /\ ~sent[t]}

SendableTouches ==
    {t \in Touches :
        /\ message[t] = "approved"
        /\ ~sent[t]
        /\ status[t[1]] \in SCHEDULABLE_STATUSES}

\* send_campaign loads the campaign, which stays in the session, and
\* send_due_touches selects its page of touches.
DispatchSelect(d) ==
    /\ dpc[d] = "idle"
    /\ SendableTouches # {}
    /\ dpc' = [dpc EXCEPT ![d] = "loop"]
    /\ dpage' = [dpage EXCEPT ![d] = SendableTouches]
    /\ dcampaign' = [dcampaign EXCEPT ![d] = campaign]
    /\ UNCHANGED <<campaign, numSteps, rowVars, touchVars, signals, genVars,
                   dcur, drow, dsent, dclaimed, rcur, history>>

SeenCampaign(d) == IF dcampaign[d] = "expired" THEN campaign ELSE dcampaign[d]

\* The loop has another touch to try.
NextInPage(d, t) ==
    /\ dpc[d] = "loop"
    /\ t \in dpage[d]
    /\ dsent[d] < Limit

\* The touch is left unsent with its transaction committed.
LeaveUnsent(d, t) ==
    /\ dpage' = [dpage EXCEPT ![d] = @ \ {t}]
    /\ dcampaign' = [dcampaign EXCEPT ![d] = SeenCampaign(d)]

\* The touch is left unsent with its transaction rolled back: send_error.
LeaveRolledBack(d, t) ==
    /\ dpage' = [dpage EXCEPT ![d] = @ \ {t}]
    /\ dcampaign' = [dcampaign EXCEPT ![d] = "expired"]

\* authorize_send refuses a message that is no longer approved.  send_touch
\* commits the audit of it, so the rollback that follows expires nothing.
SendDenied(d, t) ==
    /\ NextInPage(d, t)
    /\ message[t] # "approved"
    /\ dpage' = [dpage EXCEPT ![d] = @ \ {t}]
    /\ UNCHANGED <<campaign, numSteps, rowVars, touchVars, signals, genVars, dpc,
                   dcampaign, dcur, drow, dsent, dclaimed, rcur, history>>

\* The recheck finds a reason that may pass: SendBlocked, nothing changes.
SendSkip(d, t) ==
    /\ NextInPage(d, t)
    /\ message[t] = "approved"
    /\ \E r \in {SendOrder[i] : i \in DOMAIN SendOrder} \ TerminalReasons :
        IsFirstReason(SendOrder, SendConditions(t[1], SeenCampaign(d)), r)
    /\ LeaveUnsent(d, t)
    /\ UNCHANGED <<campaign, numSteps, rowVars, touchVars, signals, genVars, dpc,
                   dcur, drow, dsent, dclaimed, rcur, history>>

\* The recheck stops the enrollment for good, or fails on a move the state
\* machine does not allow, which is rolled back as a send_error.
SendStop(d, t) ==
    /\ NextInPage(d, t)
    /\ message[t] = "approved"
    /\ \E r \in TerminalReasons :
        /\ IsFirstReason(SendOrder, SendConditions(t[1], SeenCampaign(d)), r)
        /\ LET to == SkipStatus(current_step[t[1]], r) IN
            IF to \in ALLOWED_TRANSITIONS[status[t[1]]]
              THEN status' = [status EXCEPT ![t[1]] = to] /\ LeaveUnsent(d, t)
              ELSE UNCHANGED status /\ LeaveRolledBack(d, t)
    /\ UNCHANGED <<campaign, numSteps, current_step, due, touchVars, signals,
                   genVars, dpc, dcur, drow, dsent, dclaimed, rcur, history>>

\* Nothing stops the touch: the sender is called with the enrollment row read.
SendStart(d, t) ==
    /\ NextInPage(d, t)
    /\ message[t] = "approved"
    /\ Passes(SendOrder, SendConditions(t[1], SeenCampaign(d)))
    /\ dpc' = [dpc EXCEPT ![d] = "sending"]
    /\ dcur' = [dcur EXCEPT ![d] = t]
    /\ drow' = [drow EXCEPT ![d] = Row(t[1])]
    /\ dcampaign' = [dcampaign EXCEPT ![d] = SeenCampaign(d)]
    /\ UNCHANGED <<campaign, numSteps, rowVars, touchVars, signals, genVars,
                   dpage, dsent, dclaimed, rcur, history>>

\* Handing the touch over: to the provider now, or into the batch of claimed
\* messages the request will return.  No rollback takes it back.
HandOver(d, t) ==
    IF DirectSend
      THEN /\ delivered[t] < MaxDelivered
           /\ delivered' = [delivered EXCEPT ![t] = @ + 1]
           /\ UNCHANGED dclaimed
      ELSE /\ dclaimed' = [dclaimed EXCEPT ![d] = @ \cup {t}]
           /\ UNCHANGED delivered

\* The touch log forgets that t was handed over.
HandOverUndone(t) ==
    /\ undone[t] < MaxUndone
    /\ undone' = [undone EXCEPT ![t] = @ + 1]

\* Mutant: the last step leaves the enrollment in progress.
NeverCompleted(t) == "in_progress"

\* The status advance_enrollment ends on, from the status it read.
AdvancedStatus(t) == IF t[2] + 1 <= numSteps THEN "in_progress" ELSE "completed"

\* Its transitions are allowed from the status it read.
CanAdvance(row, t) ==
    IF AdvancedStatus(t) = "completed" /\ row.status # "enrolled"
      THEN "completed" \in ALLOWED_TRANSITIONS[row.status]
      ELSE "in_progress" \in ALLOWED_TRANSITIONS[row.status]

\* Mutant: the step sent is not written back.
AdvanceKeepsStep(row, t) ==
    IF row.step >= t[2]
      THEN UNCHANGED rowVars
      ELSE /\ status' = [status EXCEPT ![t[1]] = AdvancedStatus(t)]
           /\ UNCHANGED <<current_step, due>>

\* advance_enrollment on the row read before the send; only the columns it
\* changed are written back.
advance_enrollment(row, t) ==
    IF row.step >= t[2]
      THEN UNCHANGED rowVars
      ELSE /\ current_step' = [current_step EXCEPT ![t[1]] = t[2]]
           /\ status' = IF AdvancedStatus(t) = row.status THEN status
                        ELSE [status EXCEPT ![t[1]] = AdvancedStatus(t)]
           /\ \E b \in BOOLEAN :
                /\ AdvancedStatus(t) = "completed" => b
                /\ due' = [due EXCEPT ![t[1]] = b]

\* The sender returns: sent_at is set, the enrollment advances, the touch commits.
SendCommit(d) ==
    LET t == dcur[d] IN
    /\ dpc[d] = "sending"
    /\ drow[d].step < t[2] => CanAdvance(drow[d], t)
    /\ HandOver(d, t)
    /\ sent' = [sent EXCEPT ![t] = TRUE]
    /\ advance_enrollment(drow[d], t)
    /\ signals' = [signals EXCEPT ![t[1]] = (@ \ {"replied"}) \cup ({"cooldown"} \cap Signals)]
    /\ dpc' = [dpc EXCEPT ![d] = "loop"]
    /\ dpage' = [dpage EXCEPT ![d] = @ \ {t}]
    /\ dcur' = [dcur EXCEPT ![d] = NoTouch]
    /\ drow' = [drow EXCEPT ![d] = Expired]
    /\ dsent' = [dsent EXCEPT ![d] = @ + 1]
    /\ UNCHANGED <<campaign, numSteps, message, genVars, dcampaign, rcur,
                   undone, approvedEver>>

\* Mutant: a refused touch advances its enrollment all the same.
RefusedAdvances(d) ==
    /\ dpc[d] = "sending"
    /\ advance_enrollment(drow[d], dcur[d])
    /\ dpc' = [dpc EXCEPT ![d] = "loop"]
    /\ LeaveUnsent(d, dcur[d])
    /\ dcur' = [dcur EXCEPT ![d] = NoTouch]
    /\ drow' = [drow EXCEPT ![d] = Expired]
    /\ UNCHANGED <<campaign, numSteps, touchVars, signals, genVars, dsent, dclaimed,
                   rcur, history>>

\* The sender refuses (no contact, no content): SendBlocked after the recheck.
SendRefused(d) ==
    /\ dpc[d] = "sending"
    /\ dpc' = [dpc EXCEPT ![d] = "loop"]
    /\ LeaveUnsent(d, dcur[d])
    /\ dcur' = [dcur EXCEPT ![d] = NoTouch]
    /\ drow' = [drow EXCEPT ![d] = Expired]
    /\ UNCHANGED <<campaign, numSteps, rowVars, touchVars, signals, genVars,
                   dsent, dclaimed, rcur, history>>

\* The touch's transaction is rolled back: the sender raised before it had taken
\* the message, or something failed after (the answer of the provider, the audit,
\* an advance that is no allowed move from the row that was read).
SendError(d) ==
    LET t == dcur[d]
        advanceFails == drow[d].step < t[2] /\ ~CanAdvance(drow[d], t)
    IN
    /\ dpc[d] = "sending"
    /\ \/ "error" \in Failures /\ UNCHANGED <<delivered, undone, dclaimed>>
       \/ /\ "ack_lost" \in Failures \/ advanceFails
          /\ HandOver(d, t)
          /\ HandOverUndone(t)
    /\ dpc' = [dpc EXCEPT ![d] = "loop"]
    /\ LeaveRolledBack(d, t)
    /\ dcur' = [dcur EXCEPT ![d] = NoTouch]
    /\ drow' = [drow EXCEPT ![d] = Expired]
    /\ UNCHANGED <<campaign, numSteps, rowVars, touchVars, signals, genVars,
                   dsent, rcur, approvedEver>>

\* What a finished or dead run leaves behind.
EndDispatch(d) ==
    /\ dpc' = [dpc EXCEPT ![d] = "idle"]
    /\ dpage' = [dpage EXCEPT ![d] = {}]
    /\ dcampaign' = [dcampaign EXCEPT ![d] = "expired"]
    /\ dcur' = [dcur EXCEPT ![d] = NoTouch]
    /\ drow' = [drow EXCEPT ![d] = Expired]
    /\ dsent' = [dsent EXCEPT ![d] = 0]
    /\ dclaimed' = [dclaimed EXCEPT ![d] = {}]

\* The loop is over: a draft campaign that sent something is running, and the
\* response carries the claimed messages to Ticketing.
DispatchReturn(d) ==
    /\ dpc[d] = "loop"
    /\ dpage[d] = {} \/ dsent[d] >= Limit
    /\ campaign' = IF SeenCampaign(d) = "draft" /\ dsent[d] > 0 THEN "running" ELSE campaign
    /\ \A t \in dclaimed[d] : delivered[t] < MaxDelivered
    /\ delivered' = [t \in Touches |-> IF t \in dclaimed[d] THEN delivered[t] + 1
                                                            ELSE delivered[t]]
    /\ EndDispatch(d)
    /\ UNCHANGED <<numSteps, rowVars, touchVars, signals, genVars, rcur,
                   undone, approvedEver>>

\* The process dies, before or after the provider took the message in hand.
DispatchCrash(d) ==
    /\ "crash" \in Failures
    /\ dpc[d] # "idle"
    /\ \/ UNCHANGED <<delivered, undone>>
       \/ /\ DirectSend /\ dpc[d] = "sending" /\ delivered[dcur[d]] < MaxDelivered
          /\ delivered' = [delivered EXCEPT ![dcur[d]] = @ + 1]
          /\ HandOverUndone(dcur[d])
    /\ EndDispatch(d)
    /\ UNCHANGED <<campaign, numSteps, rowVars, touchVars, signals, genVars, rcur,
                   approvedEver>>

-----------------------------------------------------------------------------
(* What happens around the runs.                                            *)

\* record_sms_reply, its reply event.
record_sms_reply(e) ==
    /\ "replied" \in Signals
    /\ signals' = [signals EXCEPT ![e] = @ \cup {"replied"}]
    /\ UNCHANGED <<campaign, numSteps, rowVars, touchVars, genVars, dispVars,
                   rcur, history>>

SuppressionSignals == {"suppressed", "suppressed_bounce"}

\* record_suppression: the client's one suppression row gets the new reason.
record_suppression(e) ==
    /\ \E x \in SuppressionSignals \cap Signals :
        signals' = [signals EXCEPT ![e] = (@ \ SuppressionSignals) \cup {x}]
    /\ UNCHANGED <<campaign, numSteps, rowVars, touchVars, genVars, dispVars,
                   rcur, history>>

\* The signals of the client record, the vault, the event log and the routing.
LastingSignals == SuppressionSignals \cup {"bounce", "replied"}

SignalArrives(e) ==
    /\ \E x \in (Signals \ (SuppressionSignals \cup {"replied", "cooldown"})) \ signals[e] :
        signals' = [signals EXCEPT ![e] = @ \cup {x}]
    /\ UNCHANGED <<campaign, numSteps, rowVars, touchVars, genVars, dispVars,
                   rcur, history>>

SignalLeaves(e) ==
    /\ \E x \in signals[e] \ LastingSignals : signals' = [signals EXCEPT ![e] = @ \ {x}]
    /\ UNCHANGED <<campaign, numSteps, rowVars, touchVars, genVars, dispVars,
                   rcur, history>>

\* next_due_at comes.
BecomesDue(e) ==
    /\ ~due[e]
    /\ due' = [due EXCEPT ![e] = TRUE]
    /\ UNCHANGED <<campaign, numSteps, status, current_step, touchVars, signals,
                   genVars, dispVars, rcur, history>>

add_campaign_step ==
    /\ numSteps < MaxSteps
    /\ numSteps' = numSteps + 1
    /\ UNCHANGED <<campaign, rowVars, touchVars, signals, genVars, dispVars, rcur,
                   history>>

\* stop_proposal pauses the campaign its proposal made.
PauseCampaign ==
    /\ FromProposal
    /\ campaign \notin InactiveStatuses
    /\ campaign' = "paused"
    /\ UNCHANGED <<numSteps, rowVars, touchVars, signals, genVars, dispVars, rcur,
                   history>>

-----------------------------------------------------------------------------
Generate(g) ==
    \/ select_due_enrollments(g)
    \/ \E e \in Enrollments :
        \/ GenerateSkip(g, e) \/ GenerateStop(g, e)
        \/ GenerateAbort(g, e) \/ GenerateEligible(g, e)
    \/ record_touch(g) \/ GenerateCommit(g)

Dispatch(d) ==
    \/ DispatchSelect(d)
    \/ \E t \in Touches :
        SendDenied(d, t) \/ SendSkip(d, t) \/ SendStop(d, t) \/ SendStart(d, t)
    \/ SendCommit(d) \/ SendRefused(d) \/ SendError(d) \/ DispatchReturn(d)

Review(r) ==
    \/ \E t \in Touches : DecideRead(r, t)
    \/ \E outcome \in StatusForOutcome : DecideCommit(r, outcome)

ClientEvent(e) ==
    \/ record_sms_reply(e) \/ record_suppression(e)
    \/ SignalArrives(e) \/ SignalLeaves(e)
    \/ BecomesDue(e)

Next ==
    \/ \E g \in Generators : Generate(g) \/ GenerateError(g) \/ GenerateCrash(g)
    \/ \E d \in Dispatchers : Dispatch(d) \/ DispatchCrash(d)
    \/ \E r \in Reviewers : Review(r)
    \/ \E e \in Enrollments : ClientEvent(e)
    \/ add_campaign_step
    \/ PauseCampaign

Spec == Init /\ [][Next]_vars

\* Generation and dispatch runs are started again and again and run to their
\* end, a provider does not refuse the same touch for ever, time passes, and a
\* reviewer who keeps reading messages ends up approving or rejecting them.
Fairness ==
    /\ \A g \in Generators : WF_vars(Generate(g))
    /\ \A d \in Dispatchers : WF_vars(Dispatch(d)) /\ SF_vars(SendCommit(d))
    /\ \A r \in Reviewers :
        /\ WF_vars(\E t \in Touches : DecideRead(r, t))
        /\ SF_vars(DecideCommit(r, "approved") \/ DecideCommit(r, "rejected"))
    /\ \A e \in Enrollments : WF_vars(BecomesDue(e)) /\ SF_vars(SignalLeaves(e))

FairSpec == Spec /\ Fairness

-----------------------------------------------------------------------------
(* What holds however many runs and reviewers work at once.                 *)

\* A step's touch is logged only after the touches of all the steps before it
\* went out, whichever runs generate and send: previous_touch_pending, the
\* already_touched check and the seen current_step together keep the order.
TouchesInOrder ==
    \A e \in Enrollments, s \in Steps :
        message[<<e, s>>] # "none" => \A u \in 1..(s - 1) : sent[<<e, u>>]

\* Nothing reaches a recipient, or a claimed batch, without a reviewer having
\* approved that touch's message (the invariant delivery/gate.py is there for).
OnlyApprovedDelivered ==
    \A t \in Touches :
        (delivered[t] > 0 \/ \E d \in Dispatchers : t \in dclaimed[d]) => t \in approvedEver

\* An enrollment is never completed without a touch having been sent in it.
CompletedWasTouched ==
    \A e \in Enrollments : status[e] = "completed" => sent[<<e, 1>>]

(* What holds when runs do not overlap: one generation run, one dispatch    *)
(* run and one review request at a time.                                    *)

\* current_step is the number of touches sent, even across failed and dead
\* runs, so the repair in reconcile_enrollment never has anything to do.
StepMatchesTouchLog ==
    \A e \in Enrollments, s \in Steps : sent[<<e, s>>] <=> s <= current_step[e]

\* Only an enrollment nobody was touched in is enrolled or excluded.
UntouchedStatuses ==
    \A e \in Enrollments : current_step[e] = 0 <=> status[e] \in {"enrolled", "excluded"}

\* A client gets a touch again only for a hand-over that the touch log forgot: the
\* sender had the message and then the transaction was rolled back, or the process
\* died (send_due_touches keeps what the sender captured and selects the touch anew).
CopiesAreUndoneSends == \A t \in Touches : delivered[t] <= 1 + undone[t]

\* What touch.py says of a crash between generating and sending: it "cannot turn
\* into a second copy of the same touch on retry".
AtMostOnce == \A t \in Touches : delivered[t] <= 1

\* No send begins for an enrollment that has already been stopped.
NoSendAfterStop ==
    \A d \in Dispatchers :
        dpc[d] = "sending" => status[dcur[d][1]] \in SCHEDULABLE_STATUSES

\* A terminal status is never left (state_machine.py: "A terminal state has no
\* outgoing transitions at all").
TerminalStays ==
    [][\A e \in Enrollments : status[e] \in TERMINAL_STATUSES => status'[e] = status[e]]_vars

\* approve and reject are final (services/review.py refuses to decide again).
DecisionsFinal ==
    [][\A t \in Touches :
        message[t] \in {"approved", "rejected"} => message'[t] = message[t]]_vars

\* Under that fairness every enrollment ends: in a terminal status, or at a
\* touch the reviewer rejected or no message could be generated for.
EveryEnrollmentSettles ==
    \A e \in Enrollments :
        <>[](\/ status[e] \in TERMINAL_STATUSES
             \/ MessageAt(e, current_step[e] + 1) \in {"rejected", "null"})

(* What a client sees of a campaign.                                        *)

Promise == INSTANCE OutreachPromise WITH
    logged   <- {t \in Touches : message[t] # "none"},
    approved <- approvedEver,
    closed   <- {t \in Touches : sent[t]},
    got      <- {t \in Touches : delivered[t] > 0}

\* Runs, requests and client events, however they overlap, fail and are repeated,
\* amount to what OutreachPromise allows: touches are logged in the order of the
\* steps, each once the one before has gone out, what goes out was approved, and
\* the touch log forgets nothing.
KeepsPromise == Promise!Spec

Sequence == INSTANCE EnrollmentSequence

\* With one dispatch run at a time, what runs and requests write into the rows
\* from the copies they hold amounts to one sequence for each enrollment: a step
\* forward per touch sent, only allowed moves of status, and nothing after the end.
FollowsSequence == Sequence!Spec
=============================================================================
