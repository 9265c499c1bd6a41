--------------------------- MODULE OutreachProofs ---------------------------
(***************************************************************************)
(* Proofs about Outreach for every set of enrollments, generation runs,    *)
(* dispatch runs and review requests.                                      *)
(***************************************************************************)
EXTENDS Outreach, Integers, TLAPS

\* transition_enrollment only ever lands on a status of the state machine.
LEMMA TransitionTargets ==
    \A st \in EnrollmentStatuses : ALLOWED_TRANSITIONS[st] \subseteq EnrollmentStatuses
BY DEF ALLOWED_TRANSITIONS, EnrollmentStatuses, SCHEDULABLE_STATUSES, StoppedStatuses

\* no_next_step is a condition of check_eligibility.
LEMMA NoNextStepInOrder ==
    3 \in DOMAIN EligibilityOrder /\ EligibilityOrder[3] = "no_next_step"
BY DEF EligibilityOrder, StopOrder

\* The touch an eligible enrollment is generated for is a touch of the campaign.
LEMMA EligibleStep ==
    ASSUME TypeOK, NEW e \in Enrollments, NEW step \in 0..MaxSteps,
           Passes(EligibilityOrder, EligibilityConditions(e, step))
    PROVE  step + 1 \in Steps /\ MessageAt(e, step + 1) = message[<<e, step + 1>>]
<1>1. "no_next_step" \notin EligibilityConditions(e, step)
  BY NoNextStepInOrder DEF Passes
<1>2. step + 1 <= numSteps
  BY <1>1, OutreachAssumption DEF EligibilityConditions, TypeOK, Steps
<1> QED BY <1>2, OutreachAssumption DEF TypeOK, Steps, MessageAt

\* The row a generation run works with is a row.
LEMMA SeenRowType ==
    ASSUME TypeOK, NEW g \in Generators, NEW e \in Enrollments
    PROVE  SeenRow(g, e) \in Rows
BY DEF TypeOK, SeenRow, Row, Rows

\* A run that is logging, generating or sending has its touch in hand.
RunsHoldTouch ==
    /\ \A g \in Generators : gpc[g] \in {"logging", "generating"} => gcur[g] \in Touches
    /\ \A d \in Dispatchers : dpc[d] = "sending" => dcur[d] \in Touches

TypeInv == TypeOK /\ RunsHoldTouch

\* Handing a touch over keeps the counts and the claimed batches well typed.
LEMMA HandOverType ==
    ASSUME TypeOK, NEW d \in Dispatchers, NEW t \in Touches, HandOver(d, t)
    PROVE  delivered' \in [Touches -> Nat] /\ dclaimed' \in [Dispatchers -> SUBSET Touches]
<1>1. delivered \in [Touches -> Nat] /\ dclaimed \in [Dispatchers -> SUBSET Touches]
  BY DEF TypeOK
<1> QED BY <1>1 DEF HandOver

\* So does forgetting that it was handed over.
LEMMA HandOverUndoneType ==
    ASSUME TypeOK, NEW t \in Touches, HandOverUndone(t) PROVE undone' \in [Touches -> Nat]
<1>1. undone \in [Touches -> Nat]
  BY DEF TypeOK
<1> QED BY <1>1 DEF HandOverUndone

-----------------------------------------------------------------------------
\* Type correctness: every row, every run's position and every count keeps its
\* type through all the handlers.
LEMMA TypeStep == TypeInv /\ [Next]_vars => TypeInv'
<1> SUFFICES ASSUME TypeInv, [Next]_vars PROVE TypeInv'
  OBVIOUS
<1> USE OutreachAssumption DEF TypeInv, rowVars, touchVars, genVars, dispVars, history
<1>1. ASSUME NEW g \in Generators, select_due_enrollments(g) PROVE TypeInv'
  <2>1. PICK S \in SUBSET DueEnrollments :
            /\ gdue' = [gdue EXCEPT ![g] = S]
            /\ gseen' = [gseen EXCEPT ![g] =
                          [e \in Enrollments |-> IF e \in S THEN Row(e) ELSE Expired]]
    BY <1>1 DEF select_due_enrollments
  <2>2. S \subseteq Enrollments
    BY DEF DueEnrollments
  <2>3. \A e \in Enrollments : Row(e) \in Rows
    BY DEF TypeOK, RunsHoldTouch, Row, Rows
  <2>4. gseen' \in [Generators -> [Enrollments -> Rows \cup {Expired}]]
    BY <2>1, <2>3 DEF TypeOK
  <2> QED BY <1>1, <2>1, <2>2, <2>4 DEF TypeOK, RunsHoldTouch, select_due_enrollments
<1>2. ASSUME NEW g \in Generators, NEW e \in Enrollments, GenerateSkip(g, e) PROVE TypeInv'
  BY <1>2 DEF TypeOK, RunsHoldTouch, GenerateSkip, LeaveInRun
<1>3. ASSUME NEW g \in Generators, NEW e \in Enrollments, GenerateStop(g, e) PROVE TypeInv'
  <2>1. PICK to \in ALLOWED_TRANSITIONS[SeenRow(g, e).status] :
            status' = [status EXCEPT ![e] = to]
    BY <1>3 DEF GenerateStop
  <2>2. to \in EnrollmentStatuses
    BY <2>1, SeenRowType, TransitionTargets DEF Rows
  <2>3. status' \in [Enrollments -> EnrollmentStatuses]
    BY <2>1, <2>2 DEF TypeOK
  <2> QED BY <1>3, <2>3 DEF TypeOK, RunsHoldTouch, GenerateStop, LeaveInRun
<1>4. ASSUME NEW g \in Generators, NEW e \in Enrollments, GenerateAbort(g, e) PROVE TypeInv'
  BY <1>4 DEF TypeOK, RunsHoldTouch, GenerateAbort, EndRun
<1>5. ASSUME NEW g \in Generators, NEW e \in Enrollments, GenerateEligible(g, e) PROVE TypeInv'
  <2>1. SeenRow(g, e).step \in 0..MaxSteps
    BY SeenRowType DEF Rows
  <2>2. <<e, SeenRow(g, e).step + 1>> \in Touches
    BY <1>5, <2>1, EligibleStep DEF GenerateEligible, Touches
  <2> QED BY <1>5, <2>2 DEF TypeOK, RunsHoldTouch, GenerateEligible
<1>6. ASSUME NEW g \in Generators, record_touch(g) PROVE TypeInv'
  <2>1. gcur[g] \in Touches /\ gcur[g][1] \in Enrollments
    BY <1>6 DEF record_touch, RunsHoldTouch, Touches
  <2>2. CASE message[gcur[g]] \in MessageStatuses
    <3>0. LeaveInRun(g, gcur[g][1]) /\ gseen' = [gseen EXCEPT ![g][gcur[g][1]] = Expired]
      BY <1>6, <2>2 DEF record_touch
    <3>1. /\ gdue' \in [Generators -> SUBSET Enrollments]
          /\ gpc' \in [Generators -> {"idle", "loop", "logging", "generating"}]
          /\ gcur' = [gcur EXCEPT ![g] = NoTouch]
          /\ gpc'[g] \in {"idle", "loop"} /\ \A h \in Generators \ {g} : gpc'[h] = gpc[h]
      BY <3>0 DEF TypeOK, LeaveInRun
    <3>2. gseen' \in [Generators -> [Enrollments -> Rows \cup {Expired}]]
      BY <3>0, <2>1 DEF TypeOK
    <3> QED BY <1>6, <3>1, <3>2 DEF TypeOK, RunsHoldTouch, record_touch
  <2>3. CASE message[gcur[g]] \notin MessageStatuses
    BY <1>6, <2>1, <2>3 DEF TypeOK, RunsHoldTouch, record_touch
  <2> QED BY <2>2, <2>3
<1>7. ASSUME NEW g \in Generators, GenerateCommit(g) PROVE TypeInv'
  <2>1. gcur[g] \in Touches /\ gcur[g][1] \in Enrollments
    BY <1>7 DEF GenerateCommit, RunsHoldTouch, Touches
  <2>2. message' \in [Touches -> MessageStatuses \cup {"none", "null"}]
    <3>1. \E m \in MessageStatuses \cup {"none", "null"} :
              message' = [message EXCEPT ![gcur[g]] = m]
      <4>1. CASE message' = [message EXCEPT ![gcur[g]] = "pending_review"]
        BY <4>1 DEF MessageStatuses, UNRESOLVED_MESSAGE_STATUSES
      <4>2. CASE message' = [message EXCEPT ![gcur[g]] = IF @ = "none" THEN "null" ELSE @]
        BY <4>2, <2>1 DEF TypeOK
      <4> QED BY <1>7, <4>1, <4>2 DEF GenerateCommit
    <3> QED BY <3>1 DEF TypeOK
  <2>3. /\ gdue' \in [Generators -> SUBSET Enrollments]
        /\ gpc' \in [Generators -> {"idle", "loop", "logging", "generating"}]
        /\ gcur' = [gcur EXCEPT ![g] = NoTouch]
        /\ gpc'[g] \in {"idle", "loop"} /\ \A h \in Generators \ {g} : gpc'[h] = gpc[h]
    BY <1>7, <2>1 DEF TypeOK, GenerateCommit, LeaveInRun
  <2>4. gseen' \in [Generators -> [Enrollments -> Rows \cup {Expired}]]
    BY <1>7, <2>1 DEF TypeOK, GenerateCommit
  <2> QED BY <1>7, <2>2, <2>3, <2>4 DEF TypeOK, RunsHoldTouch, GenerateCommit
<1>8. ASSUME NEW g \in Generators, GenerateError(g) PROVE TypeInv'
  BY <1>8 DEF TypeOK, RunsHoldTouch, GenerateError, LeaveInRun
<1>9. ASSUME NEW g \in Generators, GenerateCrash(g) PROVE TypeInv'
  BY <1>9 DEF TypeOK, RunsHoldTouch, GenerateCrash, EndRun
<1>10. ASSUME NEW d \in Dispatchers, DispatchSelect(d) PROVE TypeInv'
  <2>1. SendableTouches \subseteq Touches
    BY DEF SendableTouches
  <2> QED BY <1>10, <2>1 DEF TypeOK, RunsHoldTouch, DispatchSelect
<1>11. ASSUME NEW d \in Dispatchers PROVE SeenCampaign(d) \in CampaignStatuses
  BY DEF TypeOK, RunsHoldTouch, SeenCampaign
<1>12. ASSUME NEW d \in Dispatchers, NEW t \in Touches, SendDenied(d, t) PROVE TypeInv'
  BY <1>12 DEF TypeOK, RunsHoldTouch, SendDenied
<1>13. ASSUME NEW d \in Dispatchers, NEW t \in Touches, SendSkip(d, t) PROVE TypeInv'
  BY <1>11, <1>13 DEF TypeOK, RunsHoldTouch, SendSkip, LeaveUnsent
<1>14. ASSUME NEW d \in Dispatchers, NEW t \in Touches, SendStop(d, t) PROVE TypeInv'
  <2>1. t[1] \in Enrollments
    BY DEF Touches
  <2>2. PICK to : IF to \in ALLOWED_TRANSITIONS[status[t[1]]]
                    THEN status' = [status EXCEPT ![t[1]] = to] /\ LeaveUnsent(d, t)
                    ELSE UNCHANGED status /\ LeaveRolledBack(d, t)
    BY <1>14 DEF SendStop
  <2>3. status' \in [Enrollments -> EnrollmentStatuses]
    <3>1. CASE to \in ALLOWED_TRANSITIONS[status[t[1]]]
      <4>1. status' = [status EXCEPT ![t[1]] = to]
        BY <2>2, <3>1
      <4>2. to \in EnrollmentStatuses
        BY <2>1, <3>1, TransitionTargets DEF TypeOK
      <4> QED BY <4>1, <4>2 DEF TypeOK
    <3>2. CASE to \notin ALLOWED_TRANSITIONS[status[t[1]]]
      BY <2>2, <3>2 DEF TypeOK
    <3> QED BY <3>1, <3>2
  <2>4. /\ dpage' \in [Dispatchers -> SUBSET Touches]
        /\ dcampaign' \in [Dispatchers -> CampaignStatuses \cup {"expired"}]
    <3>1. LeaveUnsent(d, t) \/ LeaveRolledBack(d, t)
      BY <2>2
    <3>2. CASE LeaveUnsent(d, t)
      BY <1>11, <3>2 DEF TypeOK, LeaveUnsent
    <3>3. CASE LeaveRolledBack(d, t)
      BY <3>3 DEF TypeOK, LeaveRolledBack
    <3> QED BY <3>1, <3>2, <3>3
  <2> QED BY <1>14, <2>3, <2>4 DEF TypeOK, RunsHoldTouch, SendStop
<1>15. ASSUME NEW d \in Dispatchers, NEW t \in Touches, SendStart(d, t) PROVE TypeInv'
  <2>1. Row(t[1]) \in Rows
    BY DEF TypeOK, RunsHoldTouch, Row, Rows, Touches
  <2> QED BY <1>11, <1>15, <2>1 DEF TypeOK, RunsHoldTouch, SendStart
<1>16. ASSUME NEW d \in Dispatchers, SendCommit(d) PROVE TypeInv'
  <2>1. dcur[d] \in Touches /\ dcur[d][1] \in Enrollments /\ dcur[d][2] \in 0..MaxSteps
    BY <1>16 DEF SendCommit, RunsHoldTouch, Touches, Steps
  <2>2. AdvancedStatus(dcur[d]) \in EnrollmentStatuses
    BY DEF AdvancedStatus, EnrollmentStatuses, SCHEDULABLE_STATUSES
  <2>3. /\ status' \in [Enrollments -> EnrollmentStatuses]
        /\ current_step' \in [Enrollments -> 0..MaxSteps]
    <3>1. advance_enrollment(drow[d], dcur[d])
      BY <1>16 DEF SendCommit
    <3>2. CASE drow[d].step >= dcur[d][2]
      BY <3>1, <3>2 DEF TypeOK, advance_enrollment
    <3>3. CASE ~(drow[d].step >= dcur[d][2])
      <4>1. /\ current_step' = [current_step EXCEPT ![dcur[d][1]] = dcur[d][2]]
            /\ \/ status' = status
               \/ status' = [status EXCEPT ![dcur[d][1]] = AdvancedStatus(dcur[d])]
        BY <3>1, <3>3 DEF advance_enrollment
      <4> QED BY <4>1, <2>1, <2>2 DEF TypeOK
    <3> QED BY <3>2, <3>3
  <2>6. due' \in [Enrollments -> BOOLEAN]
    <3>1. due' = due \/ \E b \in BOOLEAN : due' = [due EXCEPT ![dcur[d][1]] = b]
      BY <1>16 DEF SendCommit, advance_enrollment
    <3> QED BY <3>1 DEF TypeOK
  <2>7. sent' \in [Touches -> BOOLEAN]
    BY <1>16 DEF TypeOK, SendCommit
  <2>8. /\ dpc' \in [Dispatchers -> {"idle", "loop", "sending"}]
        /\ dpage' \in [Dispatchers -> SUBSET Touches]
        /\ dcur' \in [Dispatchers -> Touches \cup {NoTouch}]
        /\ drow' \in [Dispatchers -> Rows \cup {Expired}]
        /\ dsent' \in [Dispatchers -> Nat]
        /\ \A c \in Dispatchers : dpc'[c] = "sending" => dcur'[c] \in Touches
    BY <1>16 DEF TypeOK, RunsHoldTouch, SendCommit
  <2>4. delivered' \in [Touches -> Nat] /\ dclaimed' \in [Dispatchers -> SUBSET Touches]
    BY <1>16, <2>1, HandOverType DEF SendCommit
  <2>5. signals' \in [Enrollments -> SUBSET Signals]
    BY <1>16, <2>1 DEF TypeOK, SendCommit
  <2> QED BY <1>16, <2>3, <2>4, <2>5, <2>6, <2>7, <2>8 DEF TypeOK, RunsHoldTouch, SendCommit
<1>17. ASSUME NEW d \in Dispatchers, SendRefused(d) PROVE TypeInv'
  BY <1>11, <1>17 DEF TypeOK, RunsHoldTouch, SendRefused, LeaveUnsent
<1>18. ASSUME NEW d \in Dispatchers, SendError(d) PROVE TypeInv'
  <2>1. dcur[d] \in Touches
    BY <1>18 DEF SendError, RunsHoldTouch
  <2>2. delivered' \in [Touches -> Nat] /\ dclaimed' \in [Dispatchers -> SUBSET Touches]
    BY <1>18, <2>1, HandOverType DEF SendError, TypeOK
  <2>3. undone' \in [Touches -> Nat]
    BY <1>18, <2>1, HandOverUndoneType DEF SendError, TypeOK
  <2> QED BY <1>18, <2>2, <2>3 DEF TypeOK, RunsHoldTouch, SendError, LeaveRolledBack
<1>19. ASSUME NEW d \in Dispatchers, DispatchReturn(d) PROVE TypeInv'
  <2>1. delivered' \in [Touches -> Nat]
    BY <1>19 DEF TypeOK, DispatchReturn
  <2>2. campaign' \in CampaignStatuses
    BY <1>19 DEF TypeOK, DispatchReturn, CampaignStatuses
  <2> QED BY <1>19, <2>1, <2>2 DEF TypeOK, RunsHoldTouch, DispatchReturn, EndDispatch
<1>20. ASSUME NEW d \in Dispatchers, DispatchCrash(d) PROVE TypeInv'
  <2>1. delivered \in [Touches -> Nat] /\ undone \in [Touches -> Nat]
    BY DEF TypeOK
  <2>2. delivered' \in [Touches -> Nat]
    BY <1>20, <2>1 DEF DispatchCrash
  <2>3. undone' \in [Touches -> Nat]
    BY <1>20, <2>1 DEF DispatchCrash, HandOverUndone
  <2> QED BY <1>20, <2>2, <2>3 DEF TypeOK, RunsHoldTouch, DispatchCrash, EndDispatch
<1>21. ASSUME NEW r \in Reviewers, NEW t \in Touches, DecideRead(r, t) PROVE TypeInv'
  BY <1>21 DEF TypeOK, RunsHoldTouch, DecideRead
<1>22. ASSUME NEW r \in Reviewers, NEW o \in StatusForOutcome, DecideCommit(r, o) PROVE TypeInv'
  BY <1>22 DEF TypeOK, RunsHoldTouch, DecideCommit, StatusForOutcome, MessageStatuses,
      UNRESOLVED_MESSAGE_STATUSES
<1>23. ASSUME NEW e \in Enrollments, ClientEvent(e) PROVE TypeInv'
  <2>1. CASE record_sms_reply(e)
    BY <2>1 DEF TypeOK, RunsHoldTouch, record_sms_reply
  <2>2. CASE record_suppression(e)
    BY <2>2 DEF TypeOK, RunsHoldTouch, record_suppression
  <2>3. CASE SignalArrives(e)
    BY <2>3 DEF TypeOK, RunsHoldTouch, SignalArrives
  <2>4. CASE SignalLeaves(e)
    <3>1. PICK x \in signals[e] : signals' = [signals EXCEPT ![e] = @ \ {x}]
      BY <2>4 DEF SignalLeaves
    <3>2. signals' \in [Enrollments -> SUBSET Signals]
      BY <3>1 DEF TypeOK
    <3> QED BY <2>4, <3>2 DEF TypeOK, RunsHoldTouch, SignalLeaves
  <2>5. CASE BecomesDue(e)
    BY <2>5 DEF TypeOK, RunsHoldTouch, BecomesDue
  <2> QED BY <1>23, <2>1, <2>2, <2>3, <2>4, <2>5 DEF ClientEvent
<1>24. ASSUME add_campaign_step PROVE TypeInv'
  BY <1>24 DEF TypeOK, RunsHoldTouch, add_campaign_step, Steps
<1>25. ASSUME PauseCampaign PROVE TypeInv'
  BY <1>25 DEF TypeOK, RunsHoldTouch, PauseCampaign, CampaignStatuses
<1>26. ASSUME UNCHANGED vars PROVE TypeInv'
  BY <1>26 DEF TypeOK, RunsHoldTouch, vars
<1> QED
  BY <1>1, <1>2, <1>3, <1>4, <1>5, <1>6, <1>7, <1>8, <1>9, <1>10, <1>12, <1>13, <1>14,
     <1>15, <1>16, <1>17, <1>18, <1>19, <1>20, <1>21, <1>22, <1>23, <1>24, <1>25, <1>26
     DEF Next, Generate, Dispatch, Review

\* Every reachable state is well typed, however many runs and reviewers there
\* are: no handler writes a status, a step or a touch the schema does not have.
THEOREM TypeCorrect == Spec => []TypeOK
<1>1. Init => TypeInv
  BY OutreachAssumption DEF Init, TypeInv, TypeOK, RunsHoldTouch, CampaignStatuses, Steps,
      EnrollmentStatuses, SCHEDULABLE_STATUSES
<1> QED BY <1>1, TypeStep, PTL DEF Spec, TypeInv

-----------------------------------------------------------------------------
(* The order of touches.  Rows are read long before they are used, so the  *)
(* invariant speaks of every copy of current_step there is: in the row, in *)
(* the sessions of generation runs, and in the touch a run has in hand.    *)

SentUpTo(e, k) == \A u \in 1..k : sent[<<e, u>>]

OrderInv ==
    /\ TouchesInOrder
    /\ \A e \in Enrollments : SentUpTo(e, current_step[e])
    /\ \A g \in Generators, e \in Enrollments : SentUpTo(e, gseen[g][e].step)
    /\ \A g \in Generators :
        gpc[g] \in {"logging", "generating"} => SentUpTo(gcur[g][1], gcur[g][2] - 1)
    /\ \A r \in Reviewers : rcur[r] # NoTouch => message[rcur[r]] # "none"
    /\ \A d \in Dispatchers : dpc[d] = "sending" => message[dcur[d]] # "none"
    /\ CompletedWasTouched

\* No handler takes a touch's sent_at or its touch_log row away again.
LEMMA TouchesPersist ==
    ASSUME TypeInv, [Next]_vars
    PROVE  \A t \in Touches : /\ sent[t] => sent'[t]
                              /\ message[t] # "none" => message'[t] # "none"
<1> USE DEF TypeInv, TypeOK, rowVars, touchVars, genVars, dispVars, history
<1>1. ASSUME NEW g \in Generators, GenerateCommit(g) PROVE
        \A t \in Touches : sent'[t] = sent[t] /\ (message[t] # "none" => message'[t] # "none")
  <2>1. CASE message' = [message EXCEPT ![gcur[g]] = "pending_review"]
    BY <1>1, <2>1 DEF GenerateCommit
  <2>2. CASE message' = [message EXCEPT ![gcur[g]] = IF @ = "none" THEN "null" ELSE @]
    BY <1>1, <2>2 DEF GenerateCommit
  <2> QED BY <1>1, <2>1, <2>2 DEF GenerateCommit
<1>2. ASSUME NEW r \in Reviewers, NEW o \in StatusForOutcome, DecideCommit(r, o) PROVE
        \A t \in Touches : sent'[t] = sent[t] /\ (message[t] # "none" => message'[t] # "none")
  BY <1>2 DEF DecideCommit, StatusForOutcome
<1>3. ASSUME NEW d \in Dispatchers, SendCommit(d) PROVE
        \A t \in Touches : (sent[t] => sent'[t]) /\ message'[t] = message[t]
  BY <1>3 DEF SendCommit
<1>4. ASSUME NEW g \in Generators, Generate(g) \/ GenerateError(g) \/ GenerateCrash(g),
             ~GenerateCommit(g)
      PROVE  UNCHANGED <<message, sent>>
  BY <1>4 DEF Generate, GenerateError, GenerateCrash, select_due_enrollments, GenerateSkip,
      GenerateStop, GenerateAbort, GenerateEligible, record_touch
<1>5. ASSUME NEW d \in Dispatchers, Dispatch(d) \/ DispatchCrash(d), ~SendCommit(d)
      PROVE  UNCHANGED <<message, sent>>
  BY <1>5 DEF Dispatch, DispatchCrash, DispatchSelect, SendDenied, SendSkip, SendStop,
      SendStart, SendRefused, SendError, DispatchReturn
<1>6. ASSUME NEW r \in Reviewers, NEW t \in Touches, DecideRead(r, t)
      PROVE  UNCHANGED <<message, sent>>
  BY <1>6 DEF DecideRead
<1>7. ASSUME NEW e \in Enrollments, ClientEvent(e)
      PROVE  UNCHANGED <<message, sent>>
  BY <1>7 DEF ClientEvent, record_sms_reply, record_suppression, SignalArrives,
      SignalLeaves, BecomesDue
<1>8. ASSUME add_campaign_step \/ PauseCampaign \/ UNCHANGED vars
      PROVE  UNCHANGED <<message, sent>>
  BY <1>8 DEF add_campaign_step, PauseCampaign, vars
<1> QED BY <1>1, <1>2, <1>3, <1>4, <1>5, <1>6, <1>7, <1>8 DEF Next, Review

\* A skip never completes an enrollment.
LEMMA SkipNeverCompletes ==
    \A step \in 0..MaxSteps, r \in TerminalReasons : SkipStatus(step, r) # "completed"
BY DEF SkipStatus, TerminalReasons, TerminalStatus

\* What was sent in an enrollment up to a step stays sent.
LEMMA SentUpToPersists ==
    ASSUME TypeInv, [Next]_vars, NEW e \in Enrollments, NEW k \in Int, k <= MaxSteps,
           SentUpTo(e, k)
    PROVE  SentUpTo(e, k)'
<1>1. \A u \in 1..k : <<e, u>> \in Touches
  BY OutreachAssumption DEF Touches, Steps
<1> QED BY <1>1, TouchesPersist DEF SentUpTo

LEMMA OrderStep ==
    ASSUME TypeInv, TypeInv', OrderInv, [Next]_vars
    PROVE  OrderInv'
<1> USE OutreachAssumption DEF rowVars, touchVars, genVars, dispVars, history
<1> DEFINE
      RowsSent == \A e \in Enrollments : SentUpTo(e, current_step[e])
      SeenSent == \A g \in Generators, e \in Enrollments : SentUpTo(e, gseen[g][e].step)
      CurSent  == \A g \in Generators :
        gpc[g] \in {"logging", "generating"} => SentUpTo(gcur[g][1], gcur[g][2] - 1)
      Reviewed == \A r \in Reviewers : rcur[r] # NoTouch => message[rcur[r]] # "none"
      Sending  == \A d \in Dispatchers : dpc[d] = "sending" => message[dcur[d]] # "none"
<1>a. \A e \in Enrollments : current_step[e] \in Int /\ current_step[e] <= MaxSteps
  BY DEF TypeInv, TypeOK
<1>b. \A g \in Generators, e \in Enrollments :
        gseen[g][e].step \in Int /\ gseen[g][e].step <= MaxSteps
  BY DEF TypeInv, TypeOK, Rows, Expired
<1>c. \A g \in Generators : gpc[g] \in {"logging", "generating"} =>
        /\ gcur[g] = <<gcur[g][1], gcur[g][2]>> /\ gcur[g] \in Touches
        /\ gcur[g][1] \in Enrollments /\ gcur[g][2] \in Steps
  BY DEF TypeInv, RunsHoldTouch, Touches
<1>d. \A d \in Dispatchers : dpc[d] = "sending" =>
        /\ dcur[d] = <<dcur[d][1], dcur[d][2]>> /\ dcur[d] \in Touches
        /\ dcur[d][1] \in Enrollments /\ dcur[d][2] \in Steps
  BY DEF TypeInv, RunsHoldTouch, Touches
\* What an unchanged copy of a step says remains true.
<1>1. UNCHANGED current_step => RowsSent'
  BY <1>a, SentUpToPersists DEF OrderInv
<1>2. ASSUME UNCHANGED gseen \/ \A g \in Generators, e \in Enrollments :
                gseen'[g][e] \in {gseen[g][e], Expired}
      PROVE  SeenSent'
  <2> SUFFICES ASSUME NEW g \in Generators, NEW e \in Enrollments, NEW u \in 1..(gseen'[g][e].step)
               PROVE  sent'[<<e, u>>]
    BY DEF SentUpTo
  <2>1. gseen'[g][e] = gseen[g][e]
    <3>1. gseen'[g][e].step # 0
      OBVIOUS
    <3>2. gseen'[g][e] # Expired
      BY <3>1 DEF Expired
    <3> QED BY <1>2, <3>2
  <2>2. SentUpTo(e, gseen[g][e].step)
    BY DEF OrderInv
  <2>3. \A v \in 1..(gseen[g][e].step) : sent'[<<e, v>>]
    BY <2>2, <1>b, SentUpToPersists DEF SentUpTo
  <2> QED BY <2>1, <2>3
<1>3. ASSUME \A g \in Generators : gpc'[g] \in {"logging", "generating"} =>
                gpc[g] \in {"logging", "generating"} /\ gcur'[g] = gcur[g]
      PROVE  CurSent'
  <2> SUFFICES ASSUME NEW g \in Generators, gpc'[g] \in {"logging", "generating"}
               PROVE  SentUpTo(gcur[g][1], gcur[g][2] - 1)'
    BY <1>3
  <2>1. SentUpTo(gcur[g][1], gcur[g][2] - 1) /\ gcur'[g] = gcur[g]
    BY <1>3 DEF OrderInv
  <2>2. gcur[g][2] - 1 \in Int /\ gcur[g][2] - 1 <= MaxSteps /\ gcur[g][1] \in Enrollments
    BY <1>3, <1>c DEF Steps
  <2>3. \A u \in 1..(gcur[g][2] - 1) : sent'[<<gcur[g][1], u>>]
    BY <2>1, <2>2, SentUpToPersists DEF SentUpTo
  <2> QED BY <2>1, <2>3 DEF SentUpTo
<1>4. (UNCHANGED message \/ \A t \in Touches : message'[t] # "none" => message[t] # "none")
        => TouchesInOrder'
  <2> SUFFICES ASSUME UNCHANGED message \/ \A t \in Touches : message'[t] # "none" => message[t] # "none",
                      NEW e \in Enrollments, NEW s \in Steps, message'[<<e, s>>] # "none",
                      NEW u \in 1..(s - 1)
               PROVE  sent'[<<e, u>>]
    BY DEF TouchesInOrder
  <2>1. <<e, s>> \in Touches /\ <<e, u>> \in Touches
    BY DEF Touches, Steps
  <2> QED BY <2>1, TouchesPersist DEF OrderInv, TouchesInOrder
<1>5. UNCHANGED rcur => Reviewed'
  BY TouchesPersist DEF OrderInv, TypeInv, TypeOK
<1>6. UNCHANGED <<dpc, dcur>> => Sending'
  BY TouchesPersist, <1>d DEF OrderInv
<1>7. (\A e \in Enrollments : status'[e] = "completed" => status[e] = "completed")
        => CompletedWasTouched'
  <2>1. \A e \in Enrollments : <<e, 1>> \in Touches
    BY DEF Touches, Steps
  <2> QED BY <2>1, TouchesPersist DEF OrderInv, CompletedWasTouched
<1> HIDE DEF RowsSent, SeenSent, CurSent, Reviewed, Sending
<1>8. TouchesInOrder' /\ RowsSent' /\ SeenSent' /\ CurSent' /\ Reviewed' /\ Sending'
        /\ CompletedWasTouched' => OrderInv'
  BY DEF OrderInv, RowsSent, SeenSent, CurSent, Reviewed, Sending
<1>11. ASSUME NEW g \in Generators, select_due_enrollments(g) PROVE OrderInv'
  <2>1. SeenSent'
    <3> SUFFICES ASSUME NEW h \in Generators, NEW e \in Enrollments,
                        NEW u \in 1..(gseen'[h][e].step)
                 PROVE  sent'[<<e, u>>]
      BY DEF SeenSent, SentUpTo
    <3>1. sent' = sent
      BY <1>11 DEF select_due_enrollments
    <3>2. gseen'[h][e] \in {gseen[h][e], Row(e), Expired}
      BY <1>11 DEF select_due_enrollments, TypeInv, TypeOK
    <3>3. SentUpTo(e, gseen[h][e].step) /\ SentUpTo(e, current_step[e])
      BY DEF OrderInv
    <3> QED BY <3>1, <3>2, <3>3 DEF Row, Expired, SentUpTo
  <2>2. \A h \in Generators : gpc'[h] \in {"logging", "generating"} =>
                gpc[h] \in {"logging", "generating"} /\ gcur'[h] = gcur[h]
    BY <1>11 DEF select_due_enrollments, TypeInv, TypeOK
  <2> QED BY <1>11, <2>1, <2>2, <1>1, <1>3, <1>4, <1>5, <1>6, <1>7, <1>8 DEF select_due_enrollments
\* A run that leaves an enrollment, or ends, forgets what it has seen.
<1>12. ASSUME NEW g \in Generators, NEW e \in Enrollments, LeaveInRun(g, e),
              \/ gseen' = [gseen EXCEPT ![g][e] = Expired]
              \/ gseen' = [gseen EXCEPT ![g] = [f \in Enrollments |-> Expired]]
       PROVE  SeenSent' /\ CurSent'
  <2>1. \A h \in Generators, f \in Enrollments : gseen'[h][f] \in {gseen[h][f], Expired}
    <3>1. CASE gseen' = [gseen EXCEPT ![g][e] = Expired]
      BY <3>1 DEF TypeInv, TypeOK
    <3>2. CASE gseen' = [gseen EXCEPT ![g] = [f \in Enrollments |-> Expired]]
      BY <3>2 DEF TypeInv, TypeOK
    <3> QED BY <1>12, <3>1, <3>2
  <2>2. \A h \in Generators : gpc'[h] \in {"logging", "generating"} =>
                gpc[h] \in {"logging", "generating"} /\ gcur'[h] = gcur[h]
    BY <1>12 DEF LeaveInRun, TypeInv, TypeOK
  <2> QED BY <2>1, <2>2, <1>2, <1>3
<1>13. ASSUME NEW g \in Generators, EndRun(g) PROVE SeenSent' /\ CurSent'
  <2>1. \A h \in Generators, f \in Enrollments : gseen'[h][f] \in {gseen[h][f], Expired}
    BY <1>13 DEF EndRun, TypeInv, TypeOK
  <2>2. \A h \in Generators : gpc'[h] \in {"logging", "generating"} =>
                gpc[h] \in {"logging", "generating"} /\ gcur'[h] = gcur[h]
    BY <1>13 DEF EndRun, TypeInv, TypeOK
  <2> QED BY <2>1, <2>2, <1>2, <1>3
<1>14. ASSUME NEW g \in Generators, NEW e \in Enrollments, GenerateSkip(g, e) PROVE OrderInv'
  BY <1>14, <1>12, <1>1, <1>4, <1>5, <1>6, <1>7, <1>8 DEF GenerateSkip
<1>15. ASSUME NEW g \in Generators, NEW e \in Enrollments, GenerateStop(g, e) PROVE OrderInv'
  <2>1. \A f \in Enrollments : status'[f] = "completed" => status[f] = "completed"
    <3>1. PICK r \in TerminalReasons : status' = [status EXCEPT ![e] = SkipStatus(SeenRow(g, e).step, r)]
      BY <1>15 DEF GenerateStop
    <3>2. SkipStatus(SeenRow(g, e).step, r) # "completed"
      BY SkipNeverCompletes, SeenRowType DEF TypeInv, Rows
    <3> QED BY <3>1, <3>2 DEF TypeInv, TypeOK
  <2> QED BY <1>15, <2>1, <1>12, <1>1, <1>4, <1>5, <1>6, <1>7, <1>8 DEF GenerateStop
<1>16. ASSUME NEW g \in Generators, NEW e \in Enrollments, GenerateAbort(g, e) PROVE OrderInv'
  BY <1>16, <1>13, <1>1, <1>4, <1>5, <1>6, <1>7, <1>8 DEF GenerateAbort
<1>17. ASSUME NEW g \in Generators, GenerateCrash(g) PROVE OrderInv'
  BY <1>17, <1>13, <1>1, <1>4, <1>5, <1>6, <1>7, <1>8 DEF GenerateCrash
<1>18. ASSUME NEW g \in Generators, GenerateError(g) PROVE OrderInv'
  BY <1>18, <1>c, <1>12, <1>1, <1>4, <1>5, <1>6, <1>7, <1>8 DEF GenerateError
<1>19. ASSUME NEW g \in Generators, NEW e \in Enrollments, GenerateEligible(g, e) PROVE OrderInv'
  <2>1. SeenRow(g, e).step \in 0..MaxSteps /\ SentUpTo(e, SeenRow(g, e).step)
    BY SeenRowType DEF TypeInv, Rows, OrderInv, SeenRow, Row
  <2>2. CurSent'
    <3> SUFFICES ASSUME NEW h \in Generators, gpc'[h] \in {"logging", "generating"},
                        NEW u \in 1..(gcur'[h][2] - 1)
                 PROVE  sent'[<<gcur'[h][1], u>>]
      BY DEF CurSent, SentUpTo
    <3>1. sent' = sent
      BY <1>19 DEF GenerateEligible
    <3>2. CASE h = g
      BY <1>19, <2>1, <3>1, <3>2 DEF GenerateEligible, TypeInv, TypeOK, SentUpTo
    <3>3. CASE h # g
      BY <1>19, <3>1, <3>3 DEF GenerateEligible, TypeInv, TypeOK, SentUpTo, OrderInv
    <3> QED BY <3>2, <3>3
  <2> QED BY <1>19, <2>2, <1>1, <1>2, <1>4, <1>5, <1>6, <1>7, <1>8 DEF GenerateEligible
<1>20. ASSUME NEW g \in Generators, record_touch(g) PROVE OrderInv'
  <2>1. CASE message[gcur[g]] \in MessageStatuses
    BY <1>20, <2>1, <1>c, <1>12, <1>1, <1>4, <1>5, <1>6, <1>7, <1>8 DEF record_touch
  <2>2. CASE message[gcur[g]] \notin MessageStatuses
    <3>1. \A h \in Generators : gpc'[h] \in {"logging", "generating"} =>
                gpc[h] \in {"logging", "generating"} /\ gcur'[h] = gcur[h]
      BY <1>20, <2>2 DEF record_touch, TypeInv, TypeOK
    <3> QED BY <1>20, <2>2, <3>1, <1>1, <1>2, <1>3, <1>4, <1>5, <1>6, <1>7, <1>8 DEF record_touch
  <2> QED BY <2>1, <2>2
<1>21. ASSUME NEW g \in Generators, GenerateCommit(g) PROVE OrderInv'
  <2>1. gcur[g] \in Touches /\ SentUpTo(gcur[g][1], gcur[g][2] - 1)
    BY <1>21, <1>c DEF GenerateCommit, OrderInv
  <2>2. sent' = sent /\ \A t \in Touches : t # gcur[g] => message'[t] = message[t]
    BY <1>21 DEF GenerateCommit, TypeInv, TypeOK
  <2>3. TouchesInOrder'
    <3> SUFFICES ASSUME NEW e \in Enrollments, NEW s \in Steps, message'[<<e, s>>] # "none",
                        NEW u \in 1..(s - 1)
                 PROVE  sent'[<<e, u>>]
      BY DEF TouchesInOrder
    <3>1. <<e, s>> \in Touches
      BY DEF Touches
    <3>2. CASE <<e, s>> = gcur[g]
      BY <2>1, <2>2, <3>2 DEF SentUpTo
    <3>3. CASE <<e, s>> # gcur[g]
      BY <2>2, <3>1, <3>3 DEF OrderInv, TouchesInOrder
    <3> QED BY <3>2, <3>3
  <2> QED BY <1>21, <2>3, <1>c, <1>12, <1>1, <1>5, <1>6, <1>7, <1>8 DEF GenerateCommit
<1>22. ASSUME NEW r \in Reviewers, NEW t \in Touches, DecideRead(r, t) PROVE OrderInv'
  <2>1. Reviewed'
    BY <1>22 DEF DecideRead, Reviewed, OrderInv, UNRESOLVED_MESSAGE_STATUSES, TypeInv, TypeOK
  <2>2. UNCHANGED <<gpc, gcur>>
    BY <1>22 DEF DecideRead
  <2> QED BY <1>22, <2>1, <2>2, <1>1, <1>2, <1>3, <1>4, <1>6, <1>7, <1>8 DEF DecideRead
<1>23. ASSUME NEW r \in Reviewers, NEW o \in StatusForOutcome, DecideCommit(r, o) PROVE OrderInv'
  <2>1. \A t \in Touches : message'[t] # "none" => message[t] # "none"
    BY <1>23 DEF DecideCommit, OrderInv, TypeInv, TypeOK
  <2>2. Reviewed'
    BY <1>23, TouchesPersist DEF DecideCommit, Reviewed, OrderInv, TypeInv, TypeOK
  <2>3. UNCHANGED <<gpc, gcur>>
    BY <1>23 DEF DecideCommit
  <2> QED BY <1>23, <2>1, <2>2, <2>3, <1>1, <1>2, <1>3, <1>4, <1>6, <1>7, <1>8 DEF DecideCommit
\* A dispatch step other than a start or a commit touches none of this but,
\* for a stop, the status.
<1>24. ASSUME UNCHANGED <<current_step, message, gseen, gpc, gcur, rcur>>,
              \A d \in Dispatchers : dpc'[d] = "sending" => dpc[d] = "sending" /\ dcur'[d] = dcur[d],
              \A f \in Enrollments : status'[f] = "completed" => status[f] = "completed"
       PROVE  OrderInv'
  <2>1. Sending'
    BY <1>24 DEF Sending, OrderInv
  <2> QED BY <1>24, <2>1, <1>1, <1>2, <1>3, <1>4, <1>5, <1>7, <1>8
<1>25. ASSUME NEW d \in Dispatchers, DispatchSelect(d) PROVE OrderInv'
  BY <1>25, <1>24 DEF DispatchSelect, TypeInv, TypeOK
<1>26. ASSUME NEW d \in Dispatchers, NEW t \in Touches, SendDenied(d, t) \/ SendSkip(d, t)
       PROVE  OrderInv'
  BY <1>26, <1>24 DEF SendDenied, SendSkip
<1>27. ASSUME NEW d \in Dispatchers, NEW t \in Touches, SendStop(d, t) PROVE OrderInv'
  <2>1. \A f \in Enrollments : status'[f] = "completed" => status[f] = "completed"
    <3>1. PICK r \in TerminalReasons :
            \/ status' = [status EXCEPT ![t[1]] = SkipStatus(current_step[t[1]], r)]
            \/ status' = status
      BY <1>27 DEF SendStop
    <3>2. SkipStatus(current_step[t[1]], r) # "completed"
      BY SkipNeverCompletes DEF TypeInv, TypeOK, Touches
    <3> QED BY <3>1, <3>2 DEF TypeInv, TypeOK
  <2> QED BY <1>27, <2>1, <1>24 DEF SendStop
<1>28. ASSUME NEW d \in Dispatchers, NEW t \in Touches, SendStart(d, t) PROVE OrderInv'
  <2>1. Sending'
    BY <1>28 DEF SendStart, Sending, OrderInv, TypeInv, TypeOK
  <2>2. UNCHANGED <<current_step, message, gseen, gpc, gcur, rcur, status>>
    BY <1>28 DEF SendStart
  <2> QED BY <2>1, <2>2, <1>1, <1>2, <1>3, <1>4, <1>5, <1>7, <1>8
<1>29. ASSUME NEW d \in Dispatchers, SendCommit(d) PROVE OrderInv'
  <2>1. dcur[d] \in Touches /\ dcur[d] = <<dcur[d][1], dcur[d][2]>>
        /\ dcur[d][1] \in Enrollments /\ dcur[d][2] \in Steps /\ message[dcur[d]] # "none"
    BY <1>29, <1>d DEF SendCommit, OrderInv
  <2>2. sent' = [sent EXCEPT ![dcur[d]] = TRUE]
    BY <1>29 DEF SendCommit
  <2>3. \A u \in 1..(dcur[d][2]) : sent'[<<dcur[d][1], u>>]
    <3> SUFFICES ASSUME NEW u \in 1..(dcur[d][2]) PROVE sent'[<<dcur[d][1], u>>]
      OBVIOUS
    <3>1. <<dcur[d][1], u>> \in Touches
      BY <2>1 DEF Touches, Steps
    <3>2. CASE u = dcur[d][2]
      <4>1. sent'[dcur[d]] = TRUE
        BY <2>1, <2>2 DEF TypeInv, TypeOK
      <4> QED BY <2>1, <3>2, <4>1
    <3>3. CASE u # dcur[d][2]
      <4>1. u \in 1..(dcur[d][2] - 1)
        BY <2>1, <3>3 DEF Steps
      <4>2. sent[<<dcur[d][1], u>>]
        BY <2>1, <4>1 DEF OrderInv, TouchesInOrder
      <4> QED BY <4>2, <3>1, TouchesPersist
    <3> QED BY <3>2, <3>3
  <2>4. /\ \A e \in Enrollments : current_step'[e] = current_step[e]
                                   \/ (e = dcur[d][1] /\ current_step'[e] = dcur[d][2])
        /\ \A e \in Enrollments : status'[e] = status[e] \/ e = dcur[d][1]
    <3>1. \/ current_step' = current_step /\ status' = status
          \/ /\ current_step' = [current_step EXCEPT ![dcur[d][1]] = dcur[d][2]]
             /\ \/ status' = status
                \/ status' = [status EXCEPT ![dcur[d][1]] = AdvancedStatus(dcur[d])]
      BY <1>29 DEF SendCommit, advance_enrollment
    <3> QED BY <3>1, <2>1 DEF TypeInv, TypeOK
  <2>5. RowsSent'
    <3> SUFFICES ASSUME NEW e \in Enrollments, NEW u \in 1..(current_step'[e]) PROVE sent'[<<e, u>>]
      BY DEF RowsSent, SentUpTo
    <3>1. CASE current_step'[e] = current_step[e]
      BY <3>1, <1>a, SentUpToPersists DEF OrderInv, SentUpTo
    <3>2. CASE e = dcur[d][1] /\ current_step'[e] = dcur[d][2]
      BY <3>2, <2>3
    <3> QED BY <2>4, <3>1, <3>2
  <2>6. CompletedWasTouched'
    <3> SUFFICES ASSUME NEW e \in Enrollments, status'[e] = "completed" PROVE sent'[<<e, 1>>]
      BY DEF CompletedWasTouched
    <3>1. <<e, 1>> \in Touches
      BY DEF Touches, Steps
    <3>2. CASE status'[e] = status[e]
      BY <3>1, <3>2, TouchesPersist DEF OrderInv, CompletedWasTouched
    <3>3. CASE e = dcur[d][1]
      BY <3>3, <2>1, <2>3 DEF Steps
    <3> QED BY <2>4, <3>2, <3>3
  <2>7. Sending'
    BY <1>29 DEF SendCommit, Sending, OrderInv, TypeInv, TypeOK
  <2>8. UNCHANGED <<message, gseen, gpc, gcur, rcur>>
    BY <1>29 DEF SendCommit
  <2> QED BY <2>5, <2>6, <2>7, <2>8, <1>2, <1>3, <1>4, <1>5, <1>8
<1>30. ASSUME NEW d \in Dispatchers, SendRefused(d) \/ SendError(d) PROVE OrderInv'
  BY <1>30, <1>24 DEF SendRefused, SendError, TypeInv, TypeOK
<1>31. ASSUME NEW d \in Dispatchers, DispatchReturn(d) \/ DispatchCrash(d) PROVE OrderInv'
  BY <1>31, <1>24 DEF DispatchReturn, DispatchCrash, EndDispatch, TypeInv, TypeOK
<1>32. ASSUME NEW e \in Enrollments, ClientEvent(e) PROVE OrderInv'
  BY <1>32, <1>24 DEF ClientEvent, record_sms_reply, record_suppression, SignalArrives,
      SignalLeaves, BecomesDue
<1>33. ASSUME add_campaign_step \/ PauseCampaign \/ UNCHANGED vars PROVE OrderInv'
  BY <1>33, <1>24 DEF add_campaign_step, PauseCampaign, vars
<1> QED
  BY <1>11, <1>14, <1>15, <1>16, <1>17, <1>18, <1>19, <1>20, <1>21, <1>22, <1>23, <1>25,
     <1>26, <1>27, <1>28, <1>29, <1>30, <1>31, <1>32, <1>33 DEF Next, Generate, Dispatch, Review

LEMMA OrderInvariant == Spec => [](TypeInv /\ OrderInv)
<1>1. Init => TypeInv
  BY OutreachAssumption DEF Init, TypeInv, TypeOK, RunsHoldTouch, CampaignStatuses, Steps,
      EnrollmentStatuses, SCHEDULABLE_STATUSES
<1>2. Init => OrderInv
  BY OutreachAssumption DEF Init, OrderInv, TouchesInOrder, Touches, SentUpTo, Expired,
      CompletedWasTouched
<1>3. TypeInv /\ OrderInv /\ [Next]_vars => (TypeInv /\ OrderInv)'
  BY TypeStep, OrderStep
<1> QED BY <1>1, <1>2, <1>3, PTL DEF Spec

\* However many generation and dispatch runs overlap, and whatever fails, a
\* step's touch is only logged once every earlier step's touch has gone out.
THEOREM TouchOrder == Spec => []TouchesInOrder
<1>1. OrderInv => TouchesInOrder
  BY DEF OrderInv
<1> QED BY <1>1, OrderInvariant, PTL

\* No enrollment is completed without a touch having gone out in it.
THEOREM CompletionNeedsTouch == Spec => []CompletedWasTouched
<1>1. OrderInv => CompletedWasTouched
  BY DEF OrderInv
<1> QED BY <1>1, OrderInvariant, PTL

-----------------------------------------------------------------------------
(* The approval gate.                                                       *)

ApprovalInv ==
    /\ OnlyApprovedDelivered
    /\ \A t \in Touches : message[t] = "approved" => t \in approvedEver
    /\ \A d \in Dispatchers : dpc[d] = "sending" => dcur[d] \in approvedEver

\* delivered and dclaimed only grow by the touch a dispatch run has in hand, or
\* by what it had claimed.
LEMMA ApprovalStep ==
    ASSUME TypeInv, TypeInv', ApprovalInv, [Next]_vars
    PROVE  ApprovalInv'
<1> USE DEF TypeInv, TypeOK, rowVars, touchVars, genVars, dispVars, history
<1>1. ASSUME UNCHANGED <<message, delivered, dclaimed, approvedEver, dpc, dcur>> PROVE ApprovalInv'
  BY <1>1 DEF ApprovalInv, OnlyApprovedDelivered
<1>2. ASSUME NEW g \in Generators, Generate(g) \/ GenerateError(g) \/ GenerateCrash(g),
             ~GenerateCommit(g) PROVE ApprovalInv'
  BY <1>1, <1>2 DEF Generate, GenerateError, GenerateCrash, select_due_enrollments,
      GenerateSkip, GenerateStop, GenerateAbort, GenerateEligible, record_touch
<1>3. ASSUME NEW g \in Generators, GenerateCommit(g) PROVE ApprovalInv'
  <2>1. \A t \in Touches : message'[t] = "approved" => message[t] = "approved"
    BY <1>3 DEF GenerateCommit
  <2>2. UNCHANGED <<delivered, dclaimed, approvedEver, dpc, dcur>>
    BY <1>3 DEF GenerateCommit
  <2> QED BY <2>1, <2>2 DEF ApprovalInv, OnlyApprovedDelivered
<1>4. ASSUME NEW r \in Reviewers, NEW t \in Touches, DecideRead(r, t) PROVE ApprovalInv'
  BY <1>1, <1>4 DEF DecideRead
<1>5. ASSUME NEW r \in Reviewers, NEW o \in StatusForOutcome, DecideCommit(r, o) PROVE ApprovalInv'
  <2>1. approvedEver \subseteq approvedEver'
    BY <1>5 DEF DecideCommit
  <2>2. \A t \in Touches : message'[t] = "approved" => t \in approvedEver'
    BY <1>5, <2>1 DEF DecideCommit, ApprovalInv
  <2>3. UNCHANGED <<delivered, dclaimed, dpc, dcur>>
    BY <1>5 DEF DecideCommit
  <2> QED BY <2>1, <2>2, <2>3 DEF ApprovalInv, OnlyApprovedDelivered
\* A dispatch step that hands nothing over.
<1>6. ASSUME UNCHANGED <<message, delivered, approvedEver>>,
             \A d \in Dispatchers : dclaimed'[d] \subseteq dclaimed[d],
             \A d \in Dispatchers : dpc'[d] = "sending" =>
                (dpc[d] = "sending" /\ dcur'[d] = dcur[d]) \/ dcur'[d] \in approvedEver
      PROVE  ApprovalInv'
  BY <1>6 DEF ApprovalInv, OnlyApprovedDelivered
<1>7. ASSUME NEW d \in Dispatchers, DispatchSelect(d) PROVE ApprovalInv'
  BY <1>6, <1>7 DEF DispatchSelect
<1>8. ASSUME NEW d \in Dispatchers, NEW t \in Touches,
             SendDenied(d, t) \/ SendSkip(d, t) \/ SendStop(d, t) PROVE ApprovalInv'
  BY <1>1, <1>8 DEF SendDenied, SendSkip, SendStop
<1>9. ASSUME NEW d \in Dispatchers, NEW t \in Touches, SendStart(d, t) PROVE ApprovalInv'
  BY <1>6, <1>9 DEF SendStart, ApprovalInv
<1>10. ASSUME NEW d \in Dispatchers, SendRefused(d) PROVE ApprovalInv'
  BY <1>6, <1>10 DEF SendRefused
\* Handing over the approved touch in hand.
<1>11. ASSUME NEW d \in Dispatchers, dpc[d] = "sending",
              HandOver(d, dcur[d]) \/ UNCHANGED <<delivered, dclaimed>>,
              UNCHANGED <<message, approvedEver>>,
              dpc' = [dpc EXCEPT ![d] = "loop"], dcur' = [dcur EXCEPT ![d] = NoTouch]
       PROVE  ApprovalInv'
  <2>1. dcur[d] \in approvedEver
    BY <1>11 DEF ApprovalInv
  <2>2. \A t \in Touches : delivered'[t] > 0 => delivered[t] > 0 \/ t = dcur[d]
    BY <1>11 DEF HandOver
  <2>3. \A c \in Dispatchers : dclaimed'[c] \subseteq dclaimed[c] \cup {dcur[d]}
    <3>1. dclaimed' = dclaimed \/ dclaimed' = [dclaimed EXCEPT ![d] = @ \cup {dcur[d]}]
      BY <1>11 DEF HandOver
    <3>2. dclaimed \in [Dispatchers -> SUBSET Touches]
      OBVIOUS
    <3> TAKE c \in Dispatchers
    <3>3. dclaimed'[c] = dclaimed[c] \/ dclaimed'[c] = dclaimed[c] \cup {dcur[d]}
      BY <3>1, <3>2
    <3> QED BY <3>3
  <2>4. OnlyApprovedDelivered'
    BY <1>11, <2>1, <2>2, <2>3 DEF ApprovalInv, OnlyApprovedDelivered
  <2> QED BY <1>11, <2>4 DEF ApprovalInv
<1>12. ASSUME NEW d \in Dispatchers, SendCommit(d) PROVE ApprovalInv'
  BY <1>11, <1>12 DEF SendCommit
<1>13. ASSUME NEW d \in Dispatchers, SendError(d) PROVE ApprovalInv'
  BY <1>11, <1>13 DEF SendError
<1>14. ASSUME NEW d \in Dispatchers, DispatchReturn(d) PROVE ApprovalInv'
  <2>1. \A t \in Touches : delivered'[t] > 0 => delivered[t] > 0 \/ t \in dclaimed[d]
    BY <1>14 DEF DispatchReturn
  <2>2. \A c \in Dispatchers : dclaimed'[c] \subseteq dclaimed[c] /\ (dpc'[c] = "sending" => dpc[c] = "sending" /\ dcur'[c] = dcur[c])
    BY <1>14 DEF DispatchReturn, EndDispatch
  <2>3. UNCHANGED <<message, approvedEver>>
    BY <1>14 DEF DispatchReturn
  <2> QED BY <2>1, <2>2, <2>3 DEF ApprovalInv, OnlyApprovedDelivered
<1>15. ASSUME NEW d \in Dispatchers, DispatchCrash(d) PROVE ApprovalInv'
  <2>1. \A t \in Touches : delivered'[t] > 0 => delivered[t] > 0 \/ (dpc[d] = "sending" /\ t = dcur[d])
    BY <1>15 DEF DispatchCrash
  <2>2. \A c \in Dispatchers : dclaimed'[c] \subseteq dclaimed[c] /\ (dpc'[c] = "sending" => dpc[c] = "sending" /\ dcur'[c] = dcur[c])
    BY <1>15 DEF DispatchCrash, EndDispatch
  <2>3. UNCHANGED <<message, approvedEver>>
    BY <1>15 DEF DispatchCrash
  <2> QED BY <2>1, <2>2, <2>3 DEF ApprovalInv, OnlyApprovedDelivered
<1>16. ASSUME NEW e \in Enrollments, ClientEvent(e) PROVE ApprovalInv'
  BY <1>1, <1>16 DEF ClientEvent, record_sms_reply, record_suppression, SignalArrives,
      SignalLeaves, BecomesDue
<1>17. ASSUME add_campaign_step \/ PauseCampaign \/ UNCHANGED vars PROVE ApprovalInv'
  BY <1>1, <1>17 DEF add_campaign_step, PauseCampaign, vars
<1> QED
  BY <1>2, <1>3, <1>4, <1>5, <1>7, <1>8, <1>9, <1>10, <1>12, <1>13, <1>14, <1>15, <1>16, <1>17
     DEF Next, Dispatch, Review

\* However many runs and reviewers overlap, and whatever crashes or is lost,
\* nothing is handed over that no reviewer ever approved.
THEOREM NothingUnapprovedGoesOut == Spec => []OnlyApprovedDelivered
<1>1. Init => TypeInv
  BY OutreachAssumption DEF Init, TypeInv, TypeOK, RunsHoldTouch, CampaignStatuses, Steps,
      EnrollmentStatuses, SCHEDULABLE_STATUSES
<1>2. Init => ApprovalInv
  BY DEF Init, ApprovalInv, OnlyApprovedDelivered
<1>3. TypeInv /\ ApprovalInv /\ [Next]_vars => (TypeInv /\ ApprovalInv)'
  BY TypeStep, ApprovalStep
<1>4. ApprovalInv => OnlyApprovedDelivered
  BY DEF ApprovalInv
<1> QED BY <1>1, <1>2, <1>3, <1>4, PTL DEF Spec

-----------------------------------------------------------------------------
(* The refinement.  The abstract variables are sets of touches, so a step is *)
(* mapped by saying which touch joins which set.                             *)

Logged == {t \in Touches : message[t] # "none"}
Closed == {t \in Touches : sent[t]}
Got == {t \in Touches : delivered[t] > 0}

\* A step that leaves the touch log and the deliveries alone is a stutter.
LEMMA PromiseStutter ==
    ASSUME UNCHANGED <<message, sent, delivered, approvedEver>>
    PROVE  UNCHANGED Promise!touches
BY DEF Promise!touches

\* A step that only hands approved touches over is a Receive.
LEMMA PromiseReceive ==
    ASSUME TypeInv, UNCHANGED <<message, sent, approvedEver>>,
           NEW T \in SUBSET approvedEver, Got' = Got \cup T
    PROVE  Promise!Next
<1>1. T \in SUBSET Promise!PromisedTouches
  BY DEF TypeInv, TypeOK, Promise!PromisedTouches, Touches, Steps
<1>2. Promise!Receive(T)
  BY DEF Promise!Receive, Got
<1> QED BY <1>1, <1>2 DEF Promise!Next

\* What handing over the touch in hand does to what the client was given.
LEMMA HandOverGot ==
    ASSUME TypeInv, NEW d \in Dispatchers, NEW t \in Touches, HandOver(d, t)
    PROVE  Got' \in {Got, Got \cup {t}}
<1>1. CASE DirectSend
  <2>1. delivered' = [delivered EXCEPT ![t] = @ + 1]
    BY <1>1 DEF HandOver
  <2>2. delivered \in [Touches -> Nat]
    BY DEF TypeInv, TypeOK
  <2>3. \A u \in Touches : delivered'[u] > 0 <=> (delivered[u] > 0 \/ u = t)
    BY <2>1, <2>2
  <2>4. Got' = Got \cup {t}
    BY <2>3 DEF Got
  <2> QED BY <2>4
<1>2. CASE ~DirectSend
  BY <1>2 DEF HandOver, Got
<1> QED BY <1>1, <1>2

LEMMA PromiseStep ==
    ASSUME TypeInv, TypeInv', OrderInv, OrderInv', ApprovalInv, [Next]_vars
    PROVE  [Promise!Next]_(Promise!touches)
<1> USE DEF rowVars, touchVars, genVars, dispVars, history
<1>1. ASSUME NEW g \in Generators, Generate(g) \/ GenerateError(g) \/ GenerateCrash(g),
             ~GenerateCommit(g)
      PROVE  UNCHANGED Promise!touches
  <2>1. UNCHANGED <<message, sent, delivered, approvedEver>>
    BY <1>1 DEF Generate, GenerateError, GenerateCrash, select_due_enrollments, GenerateSkip,
        GenerateStop, GenerateAbort, GenerateEligible, record_touch
  <2> QED BY <2>1, PromiseStutter
<1>2. ASSUME NEW g \in Generators, GenerateCommit(g)
      PROVE  [Promise!Next]_(Promise!touches)
  <2>1. gcur[g] \in Touches
    BY <1>2 DEF GenerateCommit, TypeInv, RunsHoldTouch
  <2>2. PICK e \in Enrollments, k \in Steps : gcur[g] = <<e, k>>
    BY <2>1 DEF Touches
  <2>3. UNCHANGED <<sent, delivered, approvedEver>>
    BY <1>2 DEF GenerateCommit
  <2>4. /\ message'[gcur[g]] # "none"
        /\ \A t \in Touches \ {gcur[g]} : message'[t] = message[t]
    <3>1. message \in [Touches -> MessageStatuses \cup {"none", "null"}]
      BY DEF TypeInv, TypeOK
    <3>2. CASE message' = [message EXCEPT ![gcur[g]] = "pending_review"]
      BY <3>1, <3>2, <2>1
    <3>3. CASE message' = [message EXCEPT ![gcur[g]] = IF @ = "none" THEN "null" ELSE @]
      BY <3>1, <3>3, <2>1
    <3> QED BY <1>2, <3>2, <3>3 DEF GenerateCommit
  <2>5. Logged' = Logged \cup {gcur[g]}
    BY <2>1, <2>4 DEF Logged
  <2>6. CASE gcur[g] \in Logged
    <3>1. Logged' = Logged
      BY <2>5, <2>6
    <3> QED BY <2>3, <3>1 DEF Promise!touches, Logged
  <2>7. CASE gcur[g] \notin Logged
    <3>1. \A u \in 1..(k - 1) : <<e, u>> \in Closed
      <4>1. SentUpTo(e, k - 1)
        BY <1>2, <2>2 DEF GenerateCommit, OrderInv
      <4>2. \A u \in 1..(k - 1) : <<e, u>> \in Touches
        BY OutreachAssumption DEF Touches, Steps
      <4> QED BY <4>1, <4>2 DEF SentUpTo, Closed
    <3>2. Promise!Log(e, k)
      BY <2>2, <2>3, <2>5, <2>7, <3>1 DEF Promise!Log, Logged, Closed
    <3> QED BY <3>2 DEF Promise!Next, Steps
  <2> QED BY <2>6, <2>7
<1>3. ASSUME NEW r \in Reviewers, NEW t \in Touches, DecideRead(r, t)
      PROVE  UNCHANGED Promise!touches
  BY <1>3, PromiseStutter DEF DecideRead
<1>4. ASSUME NEW r \in Reviewers, NEW o \in StatusForOutcome, DecideCommit(r, o)
      PROVE  [Promise!Next]_(Promise!touches)
  <2> DEFINE t == rcur[r]
  <2>1. t \in Touches /\ message[t] # "none"
    BY <1>4 DEF DecideCommit, OrderInv, TypeInv, TypeOK
  <2>2. message' = [message EXCEPT ![t] = o] /\ UNCHANGED <<sent, delivered>>
    BY <1>4 DEF DecideCommit
  <2>3. Logged' = Logged
    BY <2>1, <2>2 DEF Logged, StatusForOutcome, TypeInv, TypeOK
  <2>4. CASE approvedEver' = approvedEver
    BY <2>2, <2>3, <2>4 DEF Promise!touches, Logged
  <2>5. CASE approvedEver' = approvedEver \cup {t}
    <3>1. Promise!Approve(t)
      BY <2>1, <2>2, <2>3, <2>5 DEF Promise!Approve, Logged
    <3>2. t \in Promise!PromisedTouches
      BY <2>1 DEF Promise!PromisedTouches, Touches, Steps
    <3> QED BY <3>1, <3>2 DEF Promise!Next
  <2> QED BY <1>4, <2>4, <2>5 DEF DecideCommit
<1>5. ASSUME NEW d \in Dispatchers, NEW t \in Touches,
             DispatchSelect(d) \/ SendDenied(d, t) \/ SendSkip(d, t) \/ SendStop(d, t)
             \/ SendStart(d, t) \/ SendRefused(d)
      PROVE  UNCHANGED Promise!touches
  <2>1. UNCHANGED <<message, sent, delivered, approvedEver>>
    BY <1>5 DEF DispatchSelect, SendDenied, SendSkip, SendStop, SendStart, SendRefused
  <2> QED BY <2>1, PromiseStutter
<1>6. ASSUME NEW d \in Dispatchers, DispatchSelect(d) \/ SendRefused(d)
      PROVE  UNCHANGED Promise!touches
  BY <1>6, PromiseStutter DEF DispatchSelect, SendRefused
<1>7. ASSUME NEW d \in Dispatchers, dpc[d] = "sending"
      PROVE  dcur[d] \in Touches /\ dcur[d] \in approvedEver
  BY <1>7 DEF TypeInv, RunsHoldTouch, ApprovalInv
<1>8. ASSUME NEW d \in Dispatchers, SendCommit(d)
      PROVE  [Promise!Next]_(Promise!touches)
  <2> DEFINE t == dcur[d]
  <2>1. t \in Touches /\ t \in approvedEver
    BY <1>7, <1>8 DEF SendCommit
  <2>2. sent' = [sent EXCEPT ![t] = TRUE] /\ UNCHANGED <<message, approvedEver>>
    BY <1>8 DEF SendCommit
  <2>3. Closed' = Closed \cup {t}
    BY <2>1, <2>2 DEF Closed, TypeInv, TypeOK
  <2>4. Got' \in {Got, Got \cup {t}}
    BY <1>8, <2>1, HandOverGot DEF SendCommit
  <2>5. Promise!Close(t)
    BY <2>1, <2>2, <2>3, <2>4 DEF Promise!Close, Closed, Got
  <2>6. t \in Promise!PromisedTouches
    BY <2>1 DEF Promise!PromisedTouches, Touches, Steps
  <2>7. \E u \in Promise!PromisedTouches : Promise!Close(u)
    BY <2>5, <2>6 DEF Promise!Close
  <2> QED BY <2>7 DEF Promise!Next
<1>9. ASSUME NEW d \in Dispatchers, SendError(d)
      PROVE  [Promise!Next]_(Promise!touches)
  <2> DEFINE t == dcur[d]
  <2>1. t \in Touches /\ t \in approvedEver
    BY <1>7, <1>9 DEF SendError
  <2>2. UNCHANGED <<message, sent, approvedEver>>
    BY <1>9 DEF SendError
  <2>3. UNCHANGED delivered \/ HandOver(d, t)
    BY <1>9 DEF SendError
  <2>4. Got' = Got \/ Got' = Got \cup {t}
    <3>1. CASE UNCHANGED delivered
      BY <3>1 DEF Got
    <3>2. CASE HandOver(d, t)
      BY <3>2, <2>1, HandOverGot
    <3> QED BY <2>3, <3>1, <3>2
  <2>5. \E T \in SUBSET approvedEver : Got' = Got \cup T
    <3>1. {} \in SUBSET approvedEver /\ {t} \in SUBSET approvedEver /\ Got \cup {} = Got
      BY <2>1
    <3> QED BY <2>4, <3>1
  <2> QED BY <2>2, <2>5, PromiseReceive
<1>10. ASSUME NEW d \in Dispatchers, DispatchReturn(d)
       PROVE  [Promise!Next]_(Promise!touches)
  <2>1. dclaimed[d] \subseteq Touches /\ dclaimed[d] \subseteq approvedEver
    BY DEF TypeInv, TypeOK, ApprovalInv, OnlyApprovedDelivered
  <2>2. UNCHANGED <<message, sent, approvedEver>>
    BY <1>10 DEF DispatchReturn
  <2>3. delivered' = [t \in Touches |-> IF t \in dclaimed[d] THEN delivered[t] + 1
                                                             ELSE delivered[t]]
    BY <1>10 DEF DispatchReturn
  <2>4. delivered \in [Touches -> Nat]
    BY DEF TypeInv, TypeOK
  <2>5. \A t \in Touches : delivered'[t] > 0 <=> (delivered[t] > 0 \/ t \in dclaimed[d])
    BY <2>3, <2>4
  <2>6. Got' = Got \cup dclaimed[d]
    BY <2>1, <2>5 DEF Got
  <2> QED BY <2>1, <2>2, <2>6, PromiseReceive
<1>11. ASSUME NEW d \in Dispatchers, DispatchCrash(d)
       PROVE  [Promise!Next]_(Promise!touches)
  <2>1. UNCHANGED <<message, sent, approvedEver>>
    BY <1>11 DEF DispatchCrash
  <2>2. CASE UNCHANGED delivered
    BY <2>1, <2>2, PromiseStutter
  <2>3. CASE dpc[d] = "sending" /\ delivered' = [delivered EXCEPT ![dcur[d]] = @ + 1]
    <3>1. dcur[d] \in Touches /\ dcur[d] \in approvedEver
      BY <1>7, <2>3
    <3>2. delivered \in [Touches -> Nat]
      BY DEF TypeInv, TypeOK
    <3>3. \A t \in Touches : delivered'[t] > 0 <=> (delivered[t] > 0 \/ t = dcur[d])
      BY <2>3, <3>1, <3>2
    <3>4. Got' = Got \cup {dcur[d]}
      BY <3>1, <3>3 DEF Got
    <3>5. {dcur[d]} \in SUBSET approvedEver
      BY <3>1
    <3> QED BY <2>1, <3>4, <3>5, PromiseReceive
  <2> QED BY <1>11, <2>2, <2>3 DEF DispatchCrash
<1>12. ASSUME NEW e \in Enrollments, ClientEvent(e)
       PROVE  UNCHANGED Promise!touches
  BY <1>12, PromiseStutter DEF ClientEvent, record_sms_reply, record_suppression,
      SignalArrives, SignalLeaves, BecomesDue
<1>13. ASSUME add_campaign_step \/ PauseCampaign \/ UNCHANGED vars
       PROVE  UNCHANGED Promise!touches
  BY <1>13, PromiseStutter DEF add_campaign_step, PauseCampaign, vars
<1> QED
  BY <1>1, <1>2, <1>3, <1>4, <1>5, <1>6, <1>8, <1>9, <1>10, <1>11, <1>12, <1>13
     DEF Next, Dispatch, Review

\* Outreach implements OutreachPromise, for every set of enrollments, runs and
\* reviewers, in both delivery modes and with every failure.
THEOREM OutreachKeepsPromise == Spec => KeepsPromise
<1>1. Init => Promise!Init
  BY DEF Init, Promise!Init
<1>2. Init => TypeInv
  BY OutreachAssumption DEF Init, TypeInv, TypeOK, RunsHoldTouch, CampaignStatuses, Steps,
      EnrollmentStatuses, SCHEDULABLE_STATUSES
<1>3. Init => ApprovalInv
  BY DEF Init, ApprovalInv, OnlyApprovedDelivered
<1>4. TypeInv /\ ApprovalInv /\ [Next]_vars => (TypeInv /\ ApprovalInv)'
  BY TypeStep, ApprovalStep
<1>5. TypeInv /\ TypeInv' /\ OrderInv /\ OrderInv' /\ ApprovalInv /\ [Next]_vars
        => [Promise!Next]_(Promise!touches)
  BY PromiseStep
<1> QED BY <1>1, <1>2, <1>3, <1>4, <1>5, OrderInvariant, PTL DEF Spec, KeepsPromise, Promise!Spec
=============================================================================
