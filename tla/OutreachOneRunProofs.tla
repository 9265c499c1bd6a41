------------------------ MODULE OutreachOneRunProofs ------------------------
(***************************************************************************)
(* Proofs about Outreach when its runs do not overlap.  The code takes no  *)
(* row lock, so what follows is not true of every number of processes: the *)
(* hypotheses below say how many runs and requests there are at a time and *)
(* which signals arise, and a theorem names those it needs.  Enrollments,  *)
(* steps, limits and failures stay arbitrary.                              *)
(***************************************************************************)
EXTENDS OutreachProofs

\* One process of a kind at a time.
OneDispatch == \A c, d \in Dispatchers : c = d
OneGenerator == \A g, h \in Generators : g = h
OneReviewer == \A q, r \in Reviewers : q = r

TwoGenerators == \A f, g, h \in Generators : f = g \/ g = h \/ f = h

\* No client loses its visible history, the one stop reason that
\* check_eligibility looks at before the touch log.
HistoryStays == "no_visible_history" \notin Signals

\* Whatever stops an enrollment that was touched, it stops in the same status.
StopsAgree ==
    \A q, r \in Signals \cap TerminalReasons : TerminalStatus[q] = TerminalStatus[r]

-----------------------------------------------------------------------------
(* The step counter and the touch log.                                      *)

StepInv ==
    /\ StepMatchesTouchLog
    /\ \A t \in Touches : sent[t] => message[t] # "none"
    /\ \A d \in Dispatchers : \A t \in dpage[d] : ~sent[t] /\ message[t] # "none"
    /\ \A d \in Dispatchers :
        dpc[d] = "sending" => ~sent[dcur[d]] /\ drow[d].step = current_step[dcur[d][1]]

(* The statuses that runs hold.                                             *)

IsUntouchedStatus(st) == st \in {"enrolled", "excluded"}

NextLogged(e) == MessageAt(e, current_step[e] + 1) # "none"

\* The only generation run has fresh rows in its session and works on
\* enrollments whose next touch nobody else logs.
SessionInv ==
    /\ \A g \in Generators : \A e \in gdue[g] :
        /\ gseen[g][e] \in {Expired, Row(e)}
        /\ ~NextLogged(e)
    /\ \A g \in Generators :
        gpc[g] \in {"logging", "generating"} =>
            /\ gcur[g][1] \in gdue[g]
            /\ gcur[g][2] = current_step[gcur[g][1]] + 1

\* Touches on a page belong to enrollments that may still be sent to.
PagesSchedulable ==
    \A d \in Dispatchers : \A t \in dpage[d] : status[t[1]] \in SCHEDULABLE_STATUSES

\* The row in a send's hand is the row.
SendsFromRow ==
    \A d \in Dispatchers :
        dpc[d] = "sending" =>
            drow[d] = Row(dcur[d][1]) /\ status[dcur[d][1]] \in SCHEDULABLE_STATUSES

\* What UntouchedStatuses says of a row holds of every copy of it.
CopiesUntouched ==
    \A g \in Generators, e \in Enrollments :
        gseen[g][e] # Expired =>
            (gseen[g][e].step = 0 <=> IsUntouchedStatus(gseen[g][e].status))

StatusInv ==
    /\ PagesSchedulable
    /\ SendsFromRow
    /\ UntouchedStatuses
    /\ CopiesUntouched
    /\ OneGenerator => SessionInv

\* A touch's copies on their way in a claimed batch, and its committed sends.
Claimed(t) == IF \E d \in Dispatchers : t \in dclaimed[d] THEN 1 ELSE 0
Committed(t) == IF sent[t] THEN 1 ELSE 0

\* Every copy goes back to a hand-over, which was committed once or undone.
OnceInv == \A t \in Touches : delivered[t] + Claimed(t) <= Committed(t) + undone[t]

\* e was stopped at its present step.
StoppedHere(e) ==
    \E r \in Signals \cap TerminalReasons : status[e] = SkipStatus(current_step[e], r)

\* A session's copy of a row that is still at its step differs from the row at
\* most in that another run has stopped the enrollment.
CopiesInv ==
    \A g \in Generators, e \in Enrollments :
        gseen[g][e] # Expired /\ gseen[g][e].step = current_step[e] =>
            status[e] = gseen[g][e].status \/ StoppedHere(e)

DecisionInv ==
    /\ \A g \in Generators :
        gpc[g] = "generating" => message[gcur[g]] \in {"none", "null"}
    /\ \A g, h \in Generators :
        gpc[g] = "generating" /\ gpc[h] = "generating" /\ gcur[g] = gcur[h] => g = h
    /\ \A g, h \in Generators :
        /\ gpc[g] \in {"logging", "generating"} /\ gpc[h] \in {"logging", "generating"}
        /\ gcur[g] = gcur[h] /\ message[gcur[g]] = "null"
        => g = h
    /\ \A r \in Reviewers :
        rcur[r] # NoTouch => message[rcur[r]] \in UNRESOLVED_MESSAGE_STATUSES

-----------------------------------------------------------------------------
\* A touch that is logged and not sent is the next one of its enrollment.
LEMMA NextTouch ==
    ASSUME TypeInv, OrderInv, StepMatchesTouchLog,
           NEW t \in Touches, message[t] # "none", ~sent[t]
    PROVE  t[2] = current_step[t[1]] + 1
<1>1. PICK e \in Enrollments, s \in Steps : t = <<e, s>>
  BY DEF Touches
<1>a. current_step[e] \in 0..MaxSteps /\ MaxSteps \in Nat
  BY OutreachAssumption DEF TypeInv, TypeOK
<1>2. ~(s <= current_step[e])
  BY <1>1 DEF StepMatchesTouchLog
<1>3. CASE s > 1
  <2>1. s - 1 \in Steps /\ s - 1 \in 1..(s - 1)
    BY <1>3, <1>a DEF Steps
  <2>2. sent[<<e, s - 1>>]
    BY <1>1, <2>1 DEF OrderInv, TouchesInOrder
  <2>3. s - 1 <= current_step[e]
    BY <2>1, <2>2 DEF StepMatchesTouchLog
  <2> QED BY <1>1, <1>2, <1>a, <2>3 DEF Steps
<1>4. CASE s = 1
  BY <1>1, <1>2, <1>a, <1>4
<1> QED BY <1>1, <1>3, <1>4 DEF Steps

\* A session's copy of current_step is never ahead of the row.
LEMMA SeenStepBehind ==
    ASSUME TypeInv, OrderInv, StepMatchesTouchLog, NEW g \in Generators, NEW e \in Enrollments
    PROVE  SeenRow(g, e).step \in 0..current_step[e] /\ gseen[g][e].step \in 0..current_step[e]
<1> DEFINE k == gseen[g][e].step
<1>1. k \in 0..MaxSteps /\ current_step[e] \in 0..MaxSteps
  BY OutreachAssumption DEF TypeInv, TypeOK, Rows, Expired
<1>2. k <= current_step[e]
  <2>1. CASE k = 0
    BY <1>1, <2>1, OutreachAssumption
  <2>2. CASE k # 0
    <3>1. k \in Steps /\ k \in 1..k
      BY <1>1, <2>2, OutreachAssumption DEF Steps
    <3>2. sent[<<e, k>>]
      BY <3>1 DEF OrderInv, SentUpTo
    <3> QED BY <3>1, <3>2 DEF StepMatchesTouchLog
  <2> QED BY <2>1, <2>2
<1> QED BY <1>1, <1>2, OutreachAssumption DEF SeenRow, Row

\* A run that is done with a touch has no other touches on its page than before.
LEMMA PageShrinks ==
    ASSUME TypeOK, NEW d \in Dispatchers, NEW t,
           \/ LeaveUnsent(d, t)
           \/ LeaveRolledBack(d, t)
           \/ dpage' = [dpage EXCEPT ![d] = @ \ {t}]
           \/ dpage' = [dpage EXCEPT ![d] = {}]
    PROVE  \A c \in Dispatchers : dpage'[c] \subseteq dpage[c]
<1>1. dpage \in [Dispatchers -> SUBSET Touches]
  BY DEF TypeOK
<1>2. \E S \in SUBSET dpage[d] : dpage' = [dpage EXCEPT ![d] = S]
  <2>1. CASE dpage' = [dpage EXCEPT ![d] = {}]
    BY <2>1
  <2>2. CASE dpage' = [dpage EXCEPT ![d] = dpage[d] \ {t}]
    <3>1. dpage[d] \ {t} \in SUBSET dpage[d]
      OBVIOUS
    <3> QED BY <2>2, <3>1
  <2> QED BY <2>1, <2>2 DEF LeaveUnsent, LeaveRolledBack
<1>3. PICK S \in SUBSET dpage[d] : dpage' = [dpage EXCEPT ![d] = S]
  BY <1>2
<1> QED BY <1>1, <1>3

\* With one dispatch run at a time the step counter follows the touch log: the
\* run sends the touch that comes next, from the row as it is.
LEMMA StepStep ==
    ASSUME OneDispatch, TypeInv, TypeInv', OrderInv, StepInv, [Next]_vars
    PROVE  StepInv'
<1> USE DEF rowVars, touchVars, genVars, dispVars, history
\* A step that sends nothing.
<1>1. ASSUME UNCHANGED <<sent, current_step>>,
             \A d \in Dispatchers : \A t \in dpage'[d] :
                t \in dpage[d] \/ (~sent[t] /\ message[t] # "none"),
             \A d \in Dispatchers : dpc'[d] = "sending" =>
                \/ dpc[d] = "sending" /\ dcur'[d] = dcur[d] /\ drow'[d] = drow[d]
                \/ ~sent[dcur'[d]] /\ drow'[d].step = current_step[dcur'[d][1]]
      PROVE  StepInv'
  <2>1. StepMatchesTouchLog'
    BY <1>1 DEF StepInv, StepMatchesTouchLog
  <2>2. \A t \in Touches : sent'[t] => message'[t] # "none"
    BY <1>1, TouchesPersist DEF StepInv
  <2>3. \A d \in Dispatchers : \A t \in dpage'[d] : ~sent'[t] /\ message'[t] # "none"
    BY <1>1, TouchesPersist DEF StepInv, TypeInv, TypeOK
  <2>4. \A d \in Dispatchers : dpc'[d] = "sending" =>
            ~sent'[dcur'[d]] /\ drow'[d].step = current_step'[dcur'[d][1]]
    BY <1>1 DEF StepInv
  <2> QED BY <2>1, <2>2, <2>3, <2>4 DEF StepInv
<1>2. ASSUME UNCHANGED <<sent, current_step, dpc, dpage, dcur, drow>> PROVE StepInv'
  BY <1>1, <1>2
<1>3. ASSUME NEW g \in Generators, Generate(g) \/ GenerateError(g) \/ GenerateCrash(g)
      PROVE  StepInv'
  BY <1>2, <1>3 DEF Generate, GenerateError, GenerateCrash, select_due_enrollments,
      GenerateSkip, GenerateStop, GenerateAbort, GenerateEligible, record_touch, GenerateCommit
<1>4. ASSUME NEW r \in Reviewers, Review(r) PROVE StepInv'
  BY <1>2, <1>4 DEF Review, DecideRead, DecideCommit
<1>5. ASSUME NEW d \in Dispatchers, DispatchSelect(d) PROVE StepInv'
  <2>1. \A c \in Dispatchers : dpc'[c] = "sending" =>
            dpc[c] = "sending" /\ dcur'[c] = dcur[c] /\ drow'[c] = drow[c]
    BY <1>5 DEF DispatchSelect, TypeInv, TypeOK
  <2>2. \A c \in Dispatchers : \A t \in dpage'[c] :
            t \in dpage[c] \/ (~sent[t] /\ message[t] # "none")
    BY <1>5 DEF DispatchSelect, SendableTouches, TypeInv, TypeOK
  <2> QED BY <1>1, <1>5, <2>1, <2>2 DEF DispatchSelect
<1>6. ASSUME NEW d \in Dispatchers, NEW t \in Touches,
             SendDenied(d, t) \/ SendSkip(d, t) \/ SendStop(d, t)
      PROVE  StepInv'
  <2>1. \A c \in Dispatchers : dpage'[c] \subseteq dpage[c]
    BY <1>6, PageShrinks DEF SendDenied, SendSkip, SendStop, TypeInv
  <2>2. UNCHANGED <<sent, current_step, dpc, dcur, drow>>
    BY <1>6 DEF SendDenied, SendSkip, SendStop
  <2> QED BY <1>1, <2>1, <2>2
<1>7. ASSUME NEW d \in Dispatchers, NEW t \in Touches, SendStart(d, t) PROVE StepInv'
  <2>1. ~sent[t]
    BY <1>7 DEF SendStart, NextInPage, StepInv
  <2>2. \A c \in Dispatchers : dpc'[c] = "sending" =>
            \/ dpc[c] = "sending" /\ dcur'[c] = dcur[c] /\ drow'[c] = drow[c]
            \/ ~sent[dcur'[c]] /\ drow'[c].step = current_step[dcur'[c][1]]
    BY <1>7, <2>1 DEF SendStart, Row, TypeInv, TypeOK
  <2> QED BY <1>1, <1>7, <2>2 DEF SendStart
<1>8. ASSUME NEW d \in Dispatchers, SendRefused(d) \/ SendError(d) PROVE StepInv'
  <2>1. \A c \in Dispatchers : dpage'[c] \subseteq dpage[c]
    BY <1>8, PageShrinks DEF SendRefused, SendError, TypeInv
  <2>2. \A c \in Dispatchers : dpc'[c] = "sending" =>
            dpc[c] = "sending" /\ dcur'[c] = dcur[c] /\ drow'[c] = drow[c]
    BY <1>8 DEF SendRefused, SendError, TypeInv, TypeOK
  <2>3. UNCHANGED <<sent, current_step>>
    BY <1>8 DEF SendRefused, SendError
  <2> QED BY <1>1, <2>1, <2>2, <2>3
<1>9. ASSUME NEW d \in Dispatchers, DispatchReturn(d) \/ DispatchCrash(d) PROVE StepInv'
  <2>1. \A c \in Dispatchers : dpage'[c] \subseteq dpage[c]
    BY <1>9, PageShrinks DEF DispatchReturn, DispatchCrash, EndDispatch, TypeInv
  <2>2. \A c \in Dispatchers : dpc'[c] = "sending" =>
            dpc[c] = "sending" /\ dcur'[c] = dcur[c] /\ drow'[c] = drow[c]
    BY <1>9 DEF DispatchReturn, DispatchCrash, EndDispatch, TypeInv, TypeOK
  <2>3. UNCHANGED <<sent, current_step>>
    BY <1>9 DEF DispatchReturn, DispatchCrash
  <2> QED BY <1>1, <2>1, <2>2, <2>3
<1>10. ASSUME NEW d \in Dispatchers, SendCommit(d) PROVE StepInv'
  <2> DEFINE t == dcur[d]
  <2>1. PICK e \in Enrollments, k \in Steps : t = <<e, k>>
    BY <1>10 DEF SendCommit, TypeInv, RunsHoldTouch, Touches
  <2>2. t \in Touches /\ ~sent[t] /\ message[t] # "none" /\ drow[d].step = current_step[e]
    BY <1>10, <2>1 DEF SendCommit, StepInv, OrderInv, Touches
  <2>3. k = current_step[e] + 1
    BY <2>1, <2>2, NextTouch DEF StepInv
  <2>4. ~(drow[d].step >= t[2])
    BY <2>1, <2>2, <2>3, OutreachAssumption DEF TypeInv, TypeOK
  <2>5. current_step' = [current_step EXCEPT ![e] = k] /\ sent' = [sent EXCEPT ![t] = TRUE]
    BY <1>10, <2>1, <2>4 DEF SendCommit, advance_enrollment
  <2>6. UNCHANGED message /\ dpc' = [dpc EXCEPT ![d] = "loop"]
        /\ dpage' = [dpage EXCEPT ![d] = @ \ {t}]
    BY <1>10 DEF SendCommit
  <2>7. StepMatchesTouchLog'
    <3> SUFFICES ASSUME NEW f \in Enrollments, NEW s \in Steps
                 PROVE  sent'[<<f, s>>] <=> s <= current_step'[f]
      BY DEF StepMatchesTouchLog
    <3>1. sent[<<f, s>>] <=> s <= current_step[f]
      BY DEF StepInv, StepMatchesTouchLog
    <3>2. sent'[<<f, s>>] <=> sent[<<f, s>>] \/ <<f, s>> = t
      BY <2>5 DEF TypeInv, TypeOK, Touches
    <3>3. CASE f # e
      BY <2>1, <2>5, <3>1, <3>2, <3>3 DEF TypeInv, TypeOK
    <3>4. CASE f = e
      <4>1. current_step'[e] = k /\ current_step[e] \in Nat /\ s \in Nat
        BY <2>5, OutreachAssumption DEF TypeInv, TypeOK, Steps
      <4> QED BY <2>1, <2>3, <3>1, <3>2, <3>4, <4>1
    <3> QED BY <3>3, <3>4
  <2>8. \A u \in Touches : sent'[u] => message'[u] # "none"
    BY <2>2, <2>5, <2>6 DEF StepInv, TypeInv, TypeOK
  <2>9. \A c \in Dispatchers : \A u \in dpage'[c] : ~sent'[u] /\ message'[u] # "none"
    <3> SUFFICES ASSUME NEW u \in dpage'[d] PROVE ~sent'[u] /\ message'[u] # "none"
      BY DEF OneDispatch
    <3>1. u \in dpage[d] /\ u # t /\ u \in Touches
      BY <2>6 DEF TypeInv, TypeOK
    <3> QED BY <2>5, <2>6, <3>1 DEF StepInv, TypeInv, TypeOK
  <2>10. \A c \in Dispatchers : dpc'[c] # "sending"
    BY <2>6 DEF OneDispatch, TypeInv, TypeOK
  <2> QED BY <2>7, <2>8, <2>9, <2>10 DEF StepInv
<1>11. ASSUME NEW e \in Enrollments, ClientEvent(e) PROVE StepInv'
  BY <1>2, <1>11 DEF ClientEvent, record_sms_reply, record_suppression, SignalArrives,
      SignalLeaves, BecomesDue
<1>12. ASSUME add_campaign_step \/ PauseCampaign \/ UNCHANGED vars PROVE StepInv'
  BY <1>2, <1>12 DEF add_campaign_step, PauseCampaign, vars
<1> QED
  BY <1>3, <1>4, <1>5, <1>6, <1>7, <1>8, <1>9, <1>10, <1>11, <1>12 DEF Next, Dispatch

LEMMA StepInvariant ==
    ASSUME OneDispatch PROVE Spec => [](TypeInv /\ OrderInv /\ StepInv)
<1>1. Init => StepInv
  BY OutreachAssumption DEF Init, StepInv, StepMatchesTouchLog, Touches, Steps
<1>2. TypeInv /\ TypeInv' /\ OrderInv /\ StepInv /\ [Next]_vars => StepInv'
  BY StepStep
<1> QED BY <1>1, <1>2, OrderInvariant, PTL DEF Spec

\* With one dispatch run at a time, current_step is the number of touches sent
\* in every enrollment, whatever fails or dies and however many generation runs
\* and reviewers there are: reconcile_enrollment finds nothing to repair.
THEOREM StepCounterIsTouchLog == ASSUME OneDispatch PROVE Spec => []StepMatchesTouchLog
<1>1. StepInv => StepMatchesTouchLog
  BY DEF StepInv
<1> QED BY <1>1, StepInvariant, PTL

-----------------------------------------------------------------------------
(* What a stop does.                                                        *)

\* The conditions check_eligibility looks at up to the touch log.
LEMMA EligibilityOrderStarts ==
    /\ DOMAIN EligibilityOrder = 1..14
    /\ EligibilityOrder[1] = "campaign_inactive"
    /\ EligibilityOrder[2] = "moved_to_active"
    /\ EligibilityOrder[3] = "no_next_step"
    /\ EligibilityOrder[4] = "no_visible_history"
    /\ EligibilityOrder[5] = "already_touched"
<1>1. DOMAIN EligibilityOrder = 1..14
  BY DEF EligibilityOrder, StopOrder
<1>2. /\ EligibilityOrder[1] = "campaign_inactive"
      /\ EligibilityOrder[2] = "moved_to_active"
      /\ EligibilityOrder[3] = "no_next_step"
      /\ EligibilityOrder[4] = "no_visible_history"
      /\ EligibilityOrder[5] = "already_touched"
  BY DEF EligibilityOrder, StopOrder
<1> QED BY <1>1, <1>2

\* Every stop but no_visible_history comes after the look at the touch log.
LEMMA StopAfterTouchLog ==
    ASSUME NEW S, NEW r \in TerminalReasons, r # "no_visible_history",
           IsFirstReason(EligibilityOrder, S, r)
    PROVE  "already_touched" \notin S
<1>1. PICK i \in DOMAIN EligibilityOrder :
        EligibilityOrder[i] = r /\ \A j \in 1..(i - 1) : EligibilityOrder[j] \notin S
  BY DEF IsFirstReason
<1>2. i \in 1..14
  BY EligibilityOrderStarts
<1>3. i \notin 1..5
  BY <1>1, EligibilityOrderStarts DEF TerminalReasons, TerminalStatus
<1>4. 5 \in 1..(i - 1) /\ EligibilityOrder[5] = "already_touched"
  BY <1>2, <1>3, EligibilityOrderStarts
<1> QED BY <1>1, <1>4

\* A terminal reason is a signal of the client.
LEMMA StopReasonIsSignal ==
    ASSUME TypeOK, NEW e \in Enrollments, NEW r \in TerminalReasons
    PROVE  /\ \A step \in 0..MaxSteps : r \in EligibilityConditions(e, step) => r \in Signals
           /\ \A camp : r \in SendConditions(e, camp) => r \in Signals
BY DEF TypeOK, EligibilityConditions, SendConditions, TerminalReasons, TerminalStatus

\* A stop leaves a schedulable status for one that is not, and the statuses of
\* an untouched enrollment stay apart from those of a touched one.
LEMMA StopEffect ==
    ASSUME NEW st \in EnrollmentStatuses, NEW step \in Nat, NEW r \in TerminalReasons,
           SkipStatus(step, r) \in ALLOWED_TRANSITIONS[st]
    PROVE  /\ st \in SCHEDULABLE_STATUSES
           /\ SkipStatus(step, r) \in TERMINAL_STATUSES
           /\ (step = 0 <=> IsUntouchedStatus(st))
                => (step = 0 <=> IsUntouchedStatus(SkipStatus(step, r)))
<1>1. st \in {"enrolled", "in_progress"}
  BY DEF ALLOWED_TRANSITIONS, EnrollmentStatuses
<1>2. SkipStatus(step, r) \in {"excluded"} \cup StoppedStatuses
  BY DEF SkipStatus, TerminalReasons, TerminalStatus, StoppedStatuses
<1>3. SkipStatus(step, r) \in TERMINAL_STATUSES
  BY <1>2 DEF TERMINAL_STATUSES, ALLOWED_TRANSITIONS, EnrollmentStatuses, StoppedStatuses,
      SCHEDULABLE_STATUSES
<1>4. (step = 0 <=> IsUntouchedStatus(st)) => (step = 0 <=> IsUntouchedStatus(SkipStatus(step, r)))
  <2>1. CASE st = "enrolled"
    BY <2>1, <1>2 DEF IsUntouchedStatus, SkipStatus
  <2>2. CASE st = "in_progress"
    <3>1. SkipStatus(step, r) \in {"in_progress", "completed"} \cup StoppedStatuses
      BY <2>2 DEF ALLOWED_TRANSITIONS, EnrollmentStatuses, SCHEDULABLE_STATUSES
    <3> QED BY <2>2, <3>1 DEF IsUntouchedStatus, StoppedStatuses
  <2> QED BY <1>1, <2>1, <2>2
<1> QED BY <1>1, <1>3, <1>4 DEF SCHEDULABLE_STATUSES

\* A generation run never stops an enrollment whose next touch is logged, and
\* the copy of the row it decides from is then at the row's step.
LEMMA StopMeansUnlogged ==
    ASSUME OneGenerator \/ HistoryStays, TypeInv, OrderInv, StepInv, StatusInv,
           NEW g \in Generators, NEW e \in Enrollments, GenerateStop(g, e)
    PROVE  SeenRow(g, e).step = current_step[e] /\ ~NextLogged(e)
<1> DEFINE k == SeenRow(g, e).step
<1>1. e \in gdue[g]
  BY DEF GenerateStop, NextInRun
<1>2. CASE OneGenerator
  BY <1>1, <1>2 DEF StatusInv, SessionInv, SeenRow, Row
<1>3. CASE HistoryStays
  <2>1. PICK r \in TerminalReasons :
            IsFirstReason(EligibilityOrder, EligibilityConditions(e, k), r)
    BY DEF GenerateStop
  <2>2. k \in 0..current_step[e] /\ k \in 0..MaxSteps /\ current_step[e] \in 0..MaxSteps
    BY SeenStepBehind, SeenRowType DEF StepInv, TypeInv, TypeOK, Rows
  <2>3. r \in EligibilityConditions(e, k)
    BY <2>1 DEF IsFirstReason
  <2>4. r # "no_visible_history"
    BY <1>3, <2>2, <2>3, StopReasonIsSignal DEF TypeInv, HistoryStays
  <2>5. "already_touched" \notin EligibilityConditions(e, k)
    BY <2>1, <2>4, StopAfterTouchLog
  <2>6. MessageAt(e, k + 1) = "none"
    BY <2>5 DEF EligibilityConditions
  <2>7. k = current_step[e]
    <3> SUFFICES ASSUME k # current_step[e] PROVE FALSE
      OBVIOUS
    <3>1. k + 1 \in Steps /\ k + 1 <= current_step[e]
      BY <2>2, OutreachAssumption DEF Steps
    <3>2. sent[<<e, k + 1>>] /\ <<e, k + 1>> \in Touches
      BY <3>1 DEF StepInv, StepMatchesTouchLog, Touches
    <3> QED BY <2>6, <3>1, <3>2 DEF StepInv, MessageAt
  <2> QED BY <2>6, <2>7 DEF NextLogged
<1> QED BY <1>2, <1>3

\* The touch a dispatch run tries or has in hand is the next one of its
\* enrollment, and it is logged.
LEMMA PageHoldsNext ==
    ASSUME TypeInv, OrderInv, StepInv, NEW d \in Dispatchers, NEW t,
           t \in dpage[d] \/ (dpc[d] = "sending" /\ t = dcur[d])
    PROVE  /\ t \in Touches /\ t[1] \in Enrollments
           /\ t = <<t[1], current_step[t[1]] + 1>>
           /\ NextLogged(t[1])
<1>1. t \in Touches /\ ~sent[t] /\ message[t] # "none"
  BY DEF TypeInv, TypeOK, RunsHoldTouch, StepInv, OrderInv
<1>2. PICK e \in Enrollments, s \in Steps : t = <<e, s>>
  BY <1>1 DEF Touches
<1>3. s = current_step[e] + 1
  BY <1>1, <1>2, NextTouch DEF StepInv
<1> QED BY <1>1, <1>2, <1>3 DEF NextLogged, MessageAt

-----------------------------------------------------------------------------
(* What a step must leave alone to keep the parts of StatusInv.             *)

\* Rows of enrollments outside E stay as they are, the touch log too.
OnlyRowsOf(E) ==
    /\ \A f \in Enrollments \ E : status'[f] = status[f] /\ current_step'[f] = current_step[f]
    /\ UNCHANGED message

\* A dispatch step that changes at most the row of an enrollment whose next
\* touch is logged leaves what the generation runs hold true.
LEMMA SessionKept ==
    ASSUME TypeInv, StatusInv, OneGenerator, UNCHANGED genVars,
           NEW E \in SUBSET {e \in Enrollments : NextLogged(e)}, OnlyRowsOf(E)
    PROVE  SessionInv'
<1> USE DEF genVars
<1>1. \A g \in Generators : gdue[g] \subseteq Enrollments \ E
  BY DEF StatusInv, SessionInv, TypeInv, TypeOK
<1>2. \A e \in Enrollments \ E :
        /\ Row(e)' = Row(e) /\ current_step'[e] = current_step[e]
        /\ NextLogged(e)' <=> NextLogged(e)
  BY DEF OnlyRowsOf, Row, NextLogged, MessageAt
<1>3. \A g \in Generators : \A e \in gdue[g] :
        gseen[g][e] \in {Expired, Row(e)} /\ ~NextLogged(e)
  BY DEF StatusInv, SessionInv
<1>4. \A g \in Generators : \A e \in gdue'[g] :
        gseen'[g][e] \in {Expired, Row(e)'} /\ ~NextLogged(e)'
  BY <1>1, <1>2, <1>3
<1>5. \A g \in Generators : gpc'[g] \in {"logging", "generating"} =>
        /\ gcur'[g][1] \in gdue'[g]
        /\ gcur'[g][2] = current_step'[gcur'[g][1]] + 1
  BY <1>1, <1>2 DEF StatusInv, SessionInv
<1> QED BY <1>4, <1>5 DEF SessionInv

\* A generation run that leaves e has changed nothing of the others it has due.
LEMMA SessionLeft ==
    ASSUME TypeInv, StatusInv, OneGenerator, NEW g \in Generators, NEW e \in Enrollments,
           LeaveInRun(g, e),
           \/ gseen' = [gseen EXCEPT ![g][e] = Expired]
           \/ gseen' = [gseen EXCEPT ![g] = [f \in Enrollments |-> Expired]],
           \A f \in Enrollments \ {e} : Row(f)' = Row(f) /\ (NextLogged(f)' <=> NextLogged(f))
    PROVE  SessionInv'
<1>1. gdue'[g] = gdue[g] \ {e} /\ gpc'[g] \in {"idle", "loop"}
  BY DEF LeaveInRun, TypeInv, TypeOK
<1>2. \A f \in gdue[g] \ {e} : gseen'[g][f] \in {gseen[g][f], Expired}
  BY DEF TypeInv, TypeOK
<1>3. \A f \in gdue'[g] : gseen'[g][f] \in {Expired, Row(f)'} /\ ~NextLogged(f)'
  <2> TAKE f \in gdue'[g]
  <2>1. f \in gdue[g] /\ f \in Enrollments \ {e}
    BY <1>1 DEF TypeInv, TypeOK
  <2>2. gseen[g][f] \in {Expired, Row(f)} /\ ~NextLogged(f)
    BY <2>1 DEF StatusInv, SessionInv
  <2> QED BY <1>2, <2>1, <2>2
<1>4. \A h \in Generators : h = g
  BY DEF OneGenerator
<1> QED BY <1>1, <1>3, <1>4 DEF SessionInv

\* Copies of rows that are forgotten or kept stay as they were.
LEMMA CopiesKept ==
    ASSUME CopiesUntouched,
           \A g \in Generators, e \in Enrollments : gseen'[g][e] \in {gseen[g][e], Expired}
    PROVE  CopiesUntouched'
BY DEF CopiesUntouched, Expired

LEMMA CopiesForgotten ==
    ASSUME TypeInv, NEW g \in Generators, NEW e \in Enrollments,
           \/ gseen' = [gseen EXCEPT ![g][e] = Expired]
           \/ gseen' = [gseen EXCEPT ![g] = [f \in Enrollments |-> Expired]]
           \/ UNCHANGED gseen
    PROVE  \A h \in Generators, f \in Enrollments : gseen'[h][f] \in {gseen[h][f], Expired}
<1>1. gseen \in [Generators -> [Enrollments -> Rows \cup {Expired}]]
  BY DEF TypeInv, TypeOK
<1> QED BY <1>1

\* Dispatch runs whose enrollments' rows are left alone keep their places.
LEMMA PlacesKept ==
    ASSUME TypeInv, PagesSchedulable, SendsFromRow, NEW E,
           \A f \in Enrollments \ E : status'[f] = status[f] /\ current_step'[f] = current_step[f],
           \A d \in Dispatchers : dpage'[d] \subseteq dpage[d],
           \A d \in Dispatchers : \A t \in dpage'[d] : t[1] \notin E,
           \A d \in Dispatchers : dpc'[d] = "sending" =>
              /\ dpc[d] = "sending" /\ dcur'[d] = dcur[d] /\ drow'[d] = drow[d]
              /\ dcur[d][1] \notin E
    PROVE  PagesSchedulable' /\ SendsFromRow'
<1>1. \A d \in Dispatchers : \A t \in dpage[d] : t[1] \in Enrollments
  BY DEF TypeInv, TypeOK, Touches
<1>2. \A d \in Dispatchers : dpc[d] = "sending" => dcur[d][1] \in Enrollments
  BY DEF TypeInv, RunsHoldTouch, Touches
<1>3. PagesSchedulable'
  BY <1>1 DEF PagesSchedulable
<1>4. SendsFromRow'
  BY <1>2 DEF SendsFromRow, Row
<1> QED BY <1>3, <1>4

\* A generation step that changes no row and logs nothing.
LEMMA GenerateKeepsStatus ==
    ASSUME TypeInv, OrderInv, StepInv, StatusInv, NEW g \in Generators,
           UNCHANGED <<rowVars, message, dispVars>>,
           CopiesUntouched', OneGenerator => SessionInv'
    PROVE  StatusInv'
<1> USE DEF rowVars, dispVars
<1>1. PagesSchedulable' /\ SendsFromRow'
  BY DEF StatusInv, PagesSchedulable, SendsFromRow, Row
<1>2. UntouchedStatuses'
  BY DEF StatusInv, UntouchedStatuses
<1> QED BY <1>1, <1>2 DEF StatusInv

LEMMA GenerateStatusStep ==
    ASSUME OneGenerator \/ HistoryStays, TypeInv, TypeInv', OrderInv, StepInv, StatusInv,
           NEW g \in Generators, Generate(g) \/ GenerateError(g) \/ GenerateCrash(g)
    PROVE  StatusInv'
<1> USE DEF rowVars, touchVars, genVars, dispVars
<1>a. CopiesUntouched /\ UntouchedStatuses /\ PagesSchedulable /\ SendsFromRow
  BY DEF StatusInv
\* A step after which the run holds no more than it did.
<1>1. ASSUME select_due_enrollments(g) PROVE StatusInv'
  <2>1. PICK S \in SUBSET DueEnrollments :
            /\ gdue' = [gdue EXCEPT ![g] = S]
            /\ gseen' = [gseen EXCEPT ![g] =
                          [e \in Enrollments |-> IF e \in S THEN Row(e) ELSE Expired]]
    BY <1>1 DEF select_due_enrollments
  <2>2. UNCHANGED <<rowVars, message, dispVars>> /\ gpc' = [gpc EXCEPT ![g] = "loop"]
    BY <1>1 DEF select_due_enrollments
  <2>3. \A h \in Generators, e \in Enrollments : gseen'[h][e] \in {gseen[h][e], Row(e), Expired}
    BY <2>1 DEF TypeInv, TypeOK
  <2>4. \A e \in Enrollments : Row(e).step = 0 <=> IsUntouchedStatus(Row(e).status)
    BY <1>a DEF UntouchedStatuses, Row, IsUntouchedStatus
  <2>5. CopiesUntouched'
    BY <1>a, <2>3, <2>4 DEF CopiesUntouched
  <2>6. ASSUME OneGenerator PROVE SessionInv'
    <3>1. \A e \in S : e \in Enrollments /\ ~NextLogged(e)
      BY DEF DueEnrollments, NextLogged
    <3>2. gdue'[g] = S /\ gpc'[g] = "loop" /\ \A e \in S : gseen'[g][e] = Row(e)
      BY <2>1, <2>2, <3>1 DEF TypeInv, TypeOK
    <3>3. \A e \in S : Row(e)' = Row(e) /\ ~NextLogged(e)'
      BY <2>2, <3>1 DEF Row, NextLogged, MessageAt
    <3>4. \A h \in Generators : h = g
      BY <2>6 DEF OneGenerator
    <3> QED BY <3>2, <3>3, <3>4 DEF SessionInv
  <2> QED BY <2>2, <2>5, <2>6, GenerateKeepsStatus
\* The run leaves e, nothing has changed.
<1>2. ASSUME NEW e \in Enrollments, LeaveInRun(g, e), UNCHANGED <<rowVars, message, dispVars>>,
             \/ gseen' = [gseen EXCEPT ![g][e] = Expired]
             \/ gseen' = [gseen EXCEPT ![g] = [f \in Enrollments |-> Expired]]
      PROVE  StatusInv'
  <2>1. CopiesUntouched'
    BY <1>a, <1>2, CopiesForgotten, CopiesKept
  <2>2. \A f \in Enrollments : Row(f)' = Row(f) /\ (NextLogged(f)' <=> NextLogged(f))
    BY <1>2 DEF Row, NextLogged, MessageAt
  <2>3. OneGenerator => SessionInv'
    BY <1>2, <2>2, SessionLeft
  <2> QED BY <1>2, <2>1, <2>3, GenerateKeepsStatus
<1>3. ASSUME NEW e \in Enrollments, GenerateSkip(g, e) PROVE StatusInv'
  BY <1>2, <1>3 DEF GenerateSkip
<1>4. ASSUME EndRun(g), UNCHANGED <<rowVars, message, dispVars>> PROVE StatusInv'
  <2>1. \A h \in Generators, f \in Enrollments : gseen'[h][f] \in {gseen[h][f], Expired}
    BY <1>4 DEF EndRun, TypeInv, TypeOK
  <2>2. gdue'[g] = {} /\ gpc'[g] = "idle"
    BY <1>4 DEF EndRun, TypeInv, TypeOK
  <2>3. OneGenerator => SessionInv'
    BY <2>2 DEF SessionInv, OneGenerator
  <2> QED BY <1>4, <1>a, <2>1, <2>3, CopiesKept, GenerateKeepsStatus
<1>5. ASSUME NEW e \in Enrollments, GenerateAbort(g, e) PROVE StatusInv'
  BY <1>4, <1>5 DEF GenerateAbort
<1>6. ASSUME GenerateCrash(g) PROVE StatusInv'
  BY <1>4, <1>6 DEF GenerateCrash
<1>7. gpc[g] \in {"logging", "generating"} => gcur[g] \in Touches /\ gcur[g][1] \in Enrollments
  BY DEF TypeInv, RunsHoldTouch, Touches
<1>8. ASSUME GenerateError(g) PROVE StatusInv'
  BY <1>2, <1>7, <1>8 DEF GenerateError
<1>9. ASSUME NEW e \in Enrollments, GenerateEligible(g, e) PROVE StatusInv'
  <2>1. /\ UNCHANGED <<rowVars, message, dispVars, gseen, gdue>>
        /\ gpc' = [gpc EXCEPT ![g] = "logging"]
        /\ gcur' = [gcur EXCEPT ![g] = <<e, SeenRow(g, e).step + 1>>]
        /\ e \in gdue[g]
    BY <1>9 DEF GenerateEligible, NextInRun
  <2>2. CopiesUntouched'
    BY <1>a, <2>1 DEF CopiesUntouched
  <2>3. ASSUME OneGenerator PROVE SessionInv'
    <3>1. SessionInv
      BY <2>3 DEF StatusInv
    <3>2. SeenRow(g, e).step = current_step[e]
      BY <2>1, <3>1 DEF SessionInv, SeenRow, Row
    <3>3. \A f \in gdue[g] : Row(f)' = Row(f) /\ (NextLogged(f)' <=> NextLogged(f))
      BY <2>1 DEF Row, NextLogged, MessageAt
    <3>4. gcur'[g] = <<e, current_step'[e] + 1>>
      BY <2>1, <3>2 DEF TypeInv, TypeOK
    <3>5. \A h \in Generators : h = g
      BY <2>3 DEF OneGenerator
    <3> QED BY <2>1, <3>1, <3>3, <3>4, <3>5 DEF SessionInv
  <2> QED BY <2>1, <2>2, <2>3, GenerateKeepsStatus
<1>10. ASSUME record_touch(g) PROVE StatusInv'
  <2>1. CASE message[gcur[g]] \in MessageStatuses
    BY <1>2, <1>7, <1>10, <2>1 DEF record_touch
  <2>2. CASE message[gcur[g]] \notin MessageStatuses
    <3>1. /\ UNCHANGED <<rowVars, message, dispVars, gseen, gdue, gcur>>
          /\ gpc[g] = "logging" /\ gpc' = [gpc EXCEPT ![g] = "generating"]
      BY <1>10, <2>2 DEF record_touch
    <3>2. CopiesUntouched'
      BY <1>a, <3>1 DEF CopiesUntouched
    <3>3. ASSUME OneGenerator PROVE SessionInv'
      <4>1. SessionInv
        BY <3>3 DEF StatusInv
      <4>2. \A f \in gdue[g] : Row(f)' = Row(f) /\ (NextLogged(f)' <=> NextLogged(f))
        BY <3>1 DEF Row, NextLogged, MessageAt
      <4>3. \A h \in Generators : h = g
        BY <3>3 DEF OneGenerator
      <4> QED BY <3>1, <4>1, <4>2, <4>3 DEF SessionInv
    <3> QED BY <3>1, <3>2, <3>3, GenerateKeepsStatus
  <2> QED BY <2>1, <2>2
<1>11. ASSUME GenerateCommit(g) PROVE StatusInv'
  <2> DEFINE e == gcur[g][1]
  <2>1. gcur[g] \in Touches /\ e \in Enrollments
    BY <1>7, <1>11 DEF GenerateCommit
  <2>2. /\ UNCHANGED <<rowVars, dispVars>> /\ LeaveInRun(g, e)
        /\ gseen' = [gseen EXCEPT ![g][e] = Expired]
    BY <1>11 DEF GenerateCommit
  <2>3. \A t \in Touches : t # gcur[g] => message'[t] = message[t]
    BY <1>11 DEF GenerateCommit, TypeInv, TypeOK
  <2>4. \A f \in Enrollments \ {e} : Row(f)' = Row(f) /\ (NextLogged(f)' <=> NextLogged(f))
    <3> TAKE f \in Enrollments \ {e}
    <3>1. \A s \in Steps : <<f, s>> \in Touches /\ <<f, s>> # gcur[g]
      BY DEF Touches
    <3> QED BY <2>2, <2>3, <3>1 DEF Row, NextLogged, MessageAt
  <2>5. OneGenerator => SessionInv'
    BY <2>1, <2>2, <2>4, SessionLeft
  <2>6. CopiesUntouched'
    BY <1>a, <2>1, <2>2, CopiesForgotten, CopiesKept
  <2>7. PagesSchedulable' /\ SendsFromRow' /\ UntouchedStatuses'
    BY <1>a, <2>2 DEF PagesSchedulable, SendsFromRow, Row, UntouchedStatuses
  <2> QED BY <2>5, <2>6, <2>7 DEF StatusInv
<1>12. ASSUME NEW e \in Enrollments, GenerateStop(g, e) PROVE StatusInv'
  <2> DEFINE seen == SeenRow(g, e)
  <2>1. PICK r \in TerminalReasons :
            /\ SkipStatus(seen.step, r) \in ALLOWED_TRANSITIONS[seen.status]
            /\ status' = [status EXCEPT ![e] = SkipStatus(seen.step, r)]
    BY <1>12 DEF GenerateStop
  <2>2. /\ UNCHANGED <<current_step, message, dispVars>> /\ LeaveInRun(g, e)
        /\ gseen' = [gseen EXCEPT ![g][e] = Expired]
    BY <1>12 DEF GenerateStop
  <2>3. seen.step = current_step[e] /\ ~NextLogged(e)
    BY <1>12, StopMeansUnlogged
  <2>4. seen.status \in EnrollmentStatuses /\ seen.step \in Nat
    BY SeenRowType, OutreachAssumption DEF TypeInv, Rows
  <2>5. seen.step = 0 <=> IsUntouchedStatus(seen.status)
    BY <1>a DEF CopiesUntouched, UntouchedStatuses, SeenRow, Row, IsUntouchedStatus
  <2>6. seen.step = 0 <=> IsUntouchedStatus(SkipStatus(seen.step, r))
    BY <2>1, <2>4, <2>5, StopEffect
  <2>7. UntouchedStatuses'
    <3> SUFFICES ASSUME NEW f \in Enrollments
                 PROVE  current_step'[f] = 0 <=> IsUntouchedStatus(status'[f])
      BY DEF UntouchedStatuses, IsUntouchedStatus
    <3>1. CASE f = e
      BY <2>1, <2>2, <2>3, <2>6, <3>1 DEF TypeInv, TypeOK
    <3>2. CASE f # e
      BY <1>a, <2>1, <2>2, <3>2 DEF TypeInv, TypeOK, UntouchedStatuses, IsUntouchedStatus
    <3> QED BY <3>1, <3>2
  <2>8. \A f \in Enrollments \ {e} :
            status'[f] = status[f] /\ current_step'[f] = current_step[f]
    BY <2>1, <2>2 DEF TypeInv, TypeOK
  <2>9. \A f \in Enrollments \ {e} : Row(f)' = Row(f) /\ (NextLogged(f)' <=> NextLogged(f))
    BY <2>2, <2>8 DEF Row, NextLogged, MessageAt
  <2>10. OneGenerator => SessionInv'
    BY <2>2, <2>9, SessionLeft
  <2>11. CopiesUntouched'
    BY <1>a, <2>2, CopiesForgotten, CopiesKept
  <2>12. PagesSchedulable' /\ SendsFromRow'
    <3>1. \A d \in Dispatchers : \A t \in dpage[d] : t[1] \notin {e}
      BY <2>3, PageHoldsNext
    <3>2. \A d \in Dispatchers : dpc[d] = "sending" => dcur[d][1] \notin {e}
      BY <2>3, PageHoldsNext
    <3> QED BY <1>a, <2>2, <2>8, <3>1, <3>2, PlacesKept
  <2> QED BY <2>7, <2>10, <2>11, <2>12 DEF StatusInv
<1> QED
  BY <1>1, <1>3, <1>5, <1>6, <1>8, <1>9, <1>10, <1>11, <1>12 DEF Generate

\* A dispatch step that leaves the rows outside E alone, where E holds no
\* enrollment of a touch still on a page or in hand.
LEMMA DispatchKeepsStatus ==
    ASSUME TypeInv, OrderInv, StepInv, StatusInv, UNCHANGED <<message, genVars>>,
           NEW E \in SUBSET {e \in Enrollments : NextLogged(e)}, OnlyRowsOf(E),
           \A e \in E : current_step'[e] = 0 <=> IsUntouchedStatus(status'[e]),
           PagesSchedulable' /\ SendsFromRow'
    PROVE  StatusInv'
<1>1. CopiesUntouched'
  BY DEF StatusInv, CopiesUntouched, genVars
<1>2. OneGenerator => SessionInv'
  BY SessionKept
<1>3. UntouchedStatuses'
  <2> SUFFICES ASSUME NEW f \in Enrollments
               PROVE  current_step'[f] = 0 <=> IsUntouchedStatus(status'[f])
    BY DEF UntouchedStatuses, IsUntouchedStatus
  <2>1. CASE f \in E
    BY <2>1
  <2>2. CASE f \notin E
    BY <2>2 DEF OnlyRowsOf, StatusInv, UntouchedStatuses, IsUntouchedStatus
  <2> QED BY <2>1, <2>2
<1> QED BY <1>1, <1>2, <1>3 DEF StatusInv

\* The same for a step that changes no row at all.
LEMMA DispatchKeepsRows ==
    ASSUME TypeInv, OrderInv, StepInv, StatusInv,
           UNCHANGED <<status, current_step, message, genVars>>,
           \A d \in Dispatchers : \A t \in dpage'[d] :
              t \in dpage[d] \/ status[t[1]] \in SCHEDULABLE_STATUSES,
           \A d \in Dispatchers : dpc'[d] = "sending" =>
              \/ dpc[d] = "sending" /\ dcur'[d] = dcur[d] /\ drow'[d] = drow[d]
              \/ drow'[d] = Row(dcur'[d][1]) /\ status[dcur'[d][1]] \in SCHEDULABLE_STATUSES
    PROVE  StatusInv'
<1>1. PagesSchedulable'
  BY DEF StatusInv, PagesSchedulable
<1>2. SendsFromRow'
  BY DEF StatusInv, SendsFromRow, Row
<1>3. {} \in SUBSET {e \in Enrollments : NextLogged(e)} /\ OnlyRowsOf({})
  BY DEF OnlyRowsOf
<1>4. \A e \in {} : current_step'[e] = 0 <=> IsUntouchedStatus(status'[e])
  OBVIOUS
<1> QED BY <1>1, <1>2, <1>3, <1>4, DispatchKeepsStatus

LEMMA DispatchStatusStep ==
    ASSUME OneDispatch, TypeInv, TypeInv', OrderInv, StepInv, StatusInv,
           NEW d \in Dispatchers, Dispatch(d) \/ DispatchCrash(d)
    PROVE  StatusInv'
<1> USE DEF rowVars, touchVars, dispVars
<1>a. \A c \in Dispatchers : c = d
  BY DEF OneDispatch
<1>b. \A e \in Enrollments : current_step[e] \in Nat
  <2>1. current_step \in [Enrollments -> 0..MaxSteps]
    BY DEF TypeInv, TypeOK
  <2> QED BY <2>1
<1>1. ASSUME DispatchSelect(d) PROVE StatusInv'
  <2>1. /\ \A t \in dpage'[d] : status[t[1]] \in SCHEDULABLE_STATUSES
        /\ dpc'[d] = "loop"
    BY <1>1 DEF DispatchSelect, SendableTouches, TypeInv, TypeOK
  <2>2. UNCHANGED <<status, current_step, message, genVars>>
    BY <1>1 DEF DispatchSelect
  <2> QED BY <1>a, <2>1, <2>2, DispatchKeepsRows
\* Nothing happens to a row.
<1>2. ASSUME UNCHANGED <<status, current_step, message, genVars>>, dpage'[d] \subseteq dpage[d],
             dpc'[d] = "sending" =>
                dpc[d] = "sending" /\ dcur'[d] = dcur[d] /\ drow'[d] = drow[d]
      PROVE  StatusInv'
  BY <1>a, <1>2, DispatchKeepsRows
<1>3. ASSUME NEW t \in Touches, SendDenied(d, t) \/ SendSkip(d, t) PROVE StatusInv'
  <2>1. dpage'[d] \subseteq dpage[d]
    BY <1>3, PageShrinks DEF SendDenied, SendSkip, TypeInv
  <2> QED BY <1>2, <1>3, <2>1 DEF SendDenied, SendSkip
<1>4. ASSUME NEW t \in Touches, SendStart(d, t) PROVE StatusInv'
  <2>1. status[t[1]] \in SCHEDULABLE_STATUSES
    BY <1>4 DEF SendStart, NextInPage, StatusInv, PagesSchedulable
  <2>2. dcur'[d] = t /\ drow'[d] = Row(t[1]) /\ dpage'[d] = dpage[d]
    BY <1>4 DEF SendStart, TypeInv, TypeOK
  <2>3. UNCHANGED <<status, current_step, message, genVars>>
    BY <1>4 DEF SendStart
  <2> QED BY <1>a, <2>1, <2>2, <2>3, DispatchKeepsRows
<1>5. ASSUME SendRefused(d) \/ SendError(d) PROVE StatusInv'
  <2>1. dpage'[d] \subseteq dpage[d]
    BY <1>5, PageShrinks DEF SendRefused, SendError, TypeInv
  <2>2. dpc'[d] = "loop"
    BY <1>5 DEF SendRefused, SendError, TypeInv, TypeOK
  <2>3. UNCHANGED <<status, current_step, message, genVars>>
    BY <1>5 DEF SendRefused, SendError
  <2> QED BY <1>2, <2>1, <2>2, <2>3
<1>6. ASSUME DispatchReturn(d) \/ DispatchCrash(d) PROVE StatusInv'
  <2>1. dpage'[d] = {} /\ dpc'[d] = "idle"
    BY <1>6 DEF DispatchReturn, DispatchCrash, EndDispatch, TypeInv, TypeOK
  <2>2. UNCHANGED <<status, current_step, message, genVars>>
    BY <1>6 DEF DispatchReturn, DispatchCrash
  <2> QED BY <1>2, <2>1, <2>2
\* The two steps that change the row of the touch at hand, and take the touch
\* off the page: no other touch of that enrollment is there.
<1>7. ASSUME NEW t, t \in dpage[d] \/ (dpc[d] = "sending" /\ t = dcur[d]),
             dpage'[d] = dpage[d] \ {t}, dpc'[d] # "sending", UNCHANGED <<message, genVars>>,
             \A f \in Enrollments \ {t[1]} :
                status'[f] = status[f] /\ current_step'[f] = current_step[f],
             current_step'[t[1]] = 0 <=> IsUntouchedStatus(status'[t[1]])
      PROVE  StatusInv'
  <2>1. /\ t[1] \in Enrollments /\ NextLogged(t[1])
        /\ t = <<t[1], current_step[t[1]] + 1>>
    BY <1>7, PageHoldsNext
  <2>2. \A u \in dpage[d] : u[1] = t[1] => u = t
    BY <2>1, PageHoldsNext
  <2>3. \A c \in Dispatchers : \A u \in dpage'[c] : u[1] \notin {t[1]}
    BY <1>a, <1>7, <2>2
  <2>4. \A c \in Dispatchers : dpage'[c] \subseteq dpage[c] /\ dpc'[c] # "sending"
    BY <1>a, <1>7
  <2>5. PagesSchedulable' /\ SendsFromRow'
    BY <1>7, <2>3, <2>4, PlacesKept DEF StatusInv
  <2>6. {t[1]} \in SUBSET {e \in Enrollments : NextLogged(e)} /\ OnlyRowsOf({t[1]})
    BY <1>7, <2>1 DEF OnlyRowsOf
  <2> QED BY <1>7, <2>5, <2>6, DispatchKeepsStatus
<1>8. ASSUME NEW t \in Touches, SendStop(d, t) PROVE StatusInv'
  <2>1. PICK r \in TerminalReasons :
            LET to == SkipStatus(current_step[t[1]], r) IN
            IF to \in ALLOWED_TRANSITIONS[status[t[1]]]
              THEN status' = [status EXCEPT ![t[1]] = to] /\ LeaveUnsent(d, t)
              ELSE UNCHANGED status /\ LeaveRolledBack(d, t)
    BY <1>8 DEF SendStop
  <2> DEFINE to == SkipStatus(current_step[t[1]], r)
  <2>2. /\ t \in dpage[d] /\ dpc[d] = "loop"
        /\ UNCHANGED <<current_step, message, genVars, dpc, dcur, drow>>
    BY <1>8 DEF SendStop, NextInPage
  <2>3. dpage'[d] = dpage[d] \ {t}
    <3>1. dpage' = [dpage EXCEPT ![d] = @ \ {t}]
      BY <2>1 DEF LeaveUnsent, LeaveRolledBack
    <3> QED BY <3>1 DEF TypeInv, TypeOK
  <2>4. CASE to \in ALLOWED_TRANSITIONS[status[t[1]]]
    <3>1. status' = [status EXCEPT ![t[1]] = to]
      BY <2>1, <2>4
    <3>2. t[1] \in Enrollments /\ status[t[1]] \in EnrollmentStatuses
          /\ current_step[t[1]] \in Nat
      BY <1>b DEF Touches, TypeInv, TypeOK
    <3>3. current_step[t[1]] = 0 <=> IsUntouchedStatus(status[t[1]])
      BY <3>2 DEF StatusInv, UntouchedStatuses, IsUntouchedStatus
    <3>4. current_step[t[1]] = 0 <=> IsUntouchedStatus(to)
      BY <2>4, <3>2, <3>3, StopEffect
    <3>5. status'[t[1]] = to /\ \A f \in Enrollments \ {t[1]} : status'[f] = status[f]
      BY <3>1, <3>2 DEF TypeInv, TypeOK
    <3>6. current_step'[t[1]] = 0 <=> IsUntouchedStatus(status'[t[1]])
      BY <2>2, <3>4, <3>5
    <3> QED BY <1>7, <2>2, <2>3, <3>5, <3>6
  <2>5. CASE to \notin ALLOWED_TRANSITIONS[status[t[1]]]
    BY <1>2, <2>1, <2>2, <2>3, <2>5
  <2> QED BY <2>4, <2>5
<1>9. ASSUME SendCommit(d) PROVE StatusInv'
  <2> DEFINE t == dcur[d]
             e == t[1]
  <2>1. /\ t \in Touches /\ e \in Enrollments /\ t[2] = current_step[e] + 1
        /\ drow[d] = Row(e) /\ status[e] \in SCHEDULABLE_STATUSES
    BY <1>9, PageHoldsNext DEF SendCommit, StatusInv, SendsFromRow
  <2>2. current_step[e] \in Nat /\ t[2] \in Nat /\ t[2] # 0 /\ drow[d].step = current_step[e]
        /\ drow[d].status = status[e]
    BY <1>b, <2>1 DEF Row
  <2>3. ~(drow[d].step >= t[2])
    BY <2>1, <2>2
  <2>4. /\ current_step' = [current_step EXCEPT ![e] = t[2]]
        /\ status' = IF AdvancedStatus(t) = drow[d].status THEN status
                     ELSE [status EXCEPT ![e] = AdvancedStatus(t)]
    BY <1>9, <2>3 DEF SendCommit, advance_enrollment
  <2>5. status' = [status EXCEPT ![e] = AdvancedStatus(t)]
    BY <2>1, <2>2, <2>4 DEF TypeInv, TypeOK
  <2>6. ~IsUntouchedStatus(AdvancedStatus(t))
    BY DEF IsUntouchedStatus, AdvancedStatus
  <2>7. current_step'[e] # 0 /\ ~IsUntouchedStatus(status'[e])
    BY <2>1, <2>2, <2>4, <2>5, <2>6 DEF TypeInv, TypeOK
  <2>8. \A f \in Enrollments \ {e} :
            status'[f] = status[f] /\ current_step'[f] = current_step[f]
    BY <2>4, <2>5 DEF TypeInv, TypeOK
  <2>9. /\ dpc[d] = "sending" /\ dpage'[d] = dpage[d] \ {t} /\ dpc'[d] # "sending"
        /\ UNCHANGED <<message, genVars>>
    BY <1>9 DEF SendCommit, TypeInv, TypeOK
  <2> QED BY <1>7, <2>7, <2>8, <2>9
<1> QED BY <1>1, <1>3, <1>4, <1>5, <1>6, <1>8, <1>9 DEF Dispatch

\* What runs hold of a row, and what a row says, agrees.
LEMMA StatusStep ==
    ASSUME OneDispatch, OneGenerator \/ HistoryStays,
           TypeInv, TypeInv', OrderInv, StepInv, StatusInv, [Next]_vars
    PROVE  StatusInv'
<1>1. ASSUME UNCHANGED <<status, current_step, message, genVars, dispVars>> PROVE StatusInv'
  BY <1>1, DispatchKeepsRows DEF dispVars
<1>2. ASSUME NEW r \in Reviewers, NEW t \in Touches, DecideRead(r, t) PROVE StatusInv'
  BY <1>1, <1>2 DEF DecideRead, rowVars, touchVars
<1>3. ASSUME NEW r \in Reviewers, NEW o \in StatusForOutcome, DecideCommit(r, o) PROVE StatusInv'
  <2>1. UNCHANGED <<status, current_step, genVars, dispVars>>
    BY <1>3 DEF DecideCommit, rowVars
  <2>2. \A t \in Touches : message'[t] = "none" <=> message[t] = "none"
    BY <1>3 DEF DecideCommit, OrderInv, TypeInv, TypeOK, StatusForOutcome
  <2>3. \A e \in Enrollments : Row(e)' = Row(e) /\ (NextLogged(e)' <=> NextLogged(e))
    BY <2>1, <2>2 DEF Row, NextLogged, MessageAt, Touches
  <2>4. OneGenerator => SessionInv'
    BY <2>1, <2>3 DEF StatusInv, SessionInv, genVars, TypeInv, TypeOK
  <2>5. PagesSchedulable' /\ SendsFromRow' /\ UntouchedStatuses' /\ CopiesUntouched'
    BY <2>1 DEF StatusInv, PagesSchedulable, SendsFromRow, UntouchedStatuses, CopiesUntouched,
        Row, genVars, dispVars
  <2> QED BY <2>4, <2>5 DEF StatusInv
<1>4. ASSUME NEW e \in Enrollments, ClientEvent(e) PROVE StatusInv'
  BY <1>1, <1>4 DEF ClientEvent, record_sms_reply, record_suppression, SignalArrives,
      SignalLeaves, BecomesDue, rowVars, touchVars
<1>5. ASSUME add_campaign_step \/ PauseCampaign \/ UNCHANGED vars PROVE StatusInv'
  BY <1>1, <1>5 DEF add_campaign_step, PauseCampaign, vars, rowVars, touchVars
<1> QED
  BY <1>2, <1>3, <1>4, <1>5, GenerateStatusStep, DispatchStatusStep DEF Next, Review

LEMMA StatusInvariant ==
    ASSUME OneDispatch, OneGenerator \/ HistoryStays
    PROVE  Spec => [](TypeInv /\ OrderInv /\ StepInv /\ StatusInv)
<1>1. Init => StatusInv
  BY DEF Init, StatusInv, PagesSchedulable, SendsFromRow, UntouchedStatuses, CopiesUntouched,
      SessionInv, IsUntouchedStatus
<1>2. TypeInv /\ TypeInv' /\ OrderInv /\ StepInv /\ StatusInv /\ [Next]_vars => StatusInv'
  BY StatusStep
<1> QED BY <1>1, <1>2, StepInvariant, PTL DEF Spec

\* With one dispatch run at a time, and one generation run or no client that
\* loses its history, no send is under way for an enrollment that a stop has
\* closed: neither the run's own recheck nor a generation run's gate stops the
\* enrollment of a touch in hand.
THEOREM NoSendIntoStop ==
    ASSUME OneDispatch, OneGenerator \/ HistoryStays PROVE Spec => []NoSendAfterStop
<1>1. StatusInv => NoSendAfterStop
  BY DEF StatusInv, SendsFromRow, NoSendAfterStop
<1> QED BY <1>1, StatusInvariant, PTL

\* Under the same hypotheses, with every signal there is, enrolled and excluded
\* are the statuses of the enrollments nobody was touched in, and of no others:
\* a stop after the first touch never lands on excluded.
THEOREM ExclusionIsUntouched ==
    ASSUME OneDispatch, OneGenerator \/ HistoryStays PROVE Spec => []UntouchedStatuses
<1>1. StatusInv => UntouchedStatuses
  BY DEF StatusInv
<1> QED BY <1>1, StatusInvariant, PTL

-----------------------------------------------------------------------------
(* Deliveries.                                                              *)

\* A send that starts from a schedulable row can always be written back.
LEMMA AdvanceNeverFails ==
    ASSUME NEW row, row.status \in SCHEDULABLE_STATUSES, NEW t
    PROVE  CanAdvance(row, t)
BY DEF CanAdvance, AdvancedStatus, ALLOWED_TRANSITIONS, EnrollmentStatuses,
    SCHEDULABLE_STATUSES, StoppedStatuses

\* Handing a touch over makes one copy more of it and none of the others.
LEMMA HandOverCopies ==
    ASSUME TypeInv, NEW d \in Dispatchers, NEW t \in Touches, HandOver(d, t)
    PROVE  /\ \A u \in Touches \ {t} : delivered'[u] = delivered[u] /\ Claimed(u)' = Claimed(u)
           /\ delivered'[t] + Claimed(t)' <= delivered[t] + Claimed(t) + 1
<1>1. delivered \in [Touches -> Nat] /\ dclaimed \in [Dispatchers -> SUBSET Touches]
  BY DEF TypeInv, TypeOK
<1>2. CASE DirectSend
  <2>1. delivered' = [delivered EXCEPT ![t] = @ + 1] /\ UNCHANGED dclaimed
    BY <1>2 DEF HandOver
  <2>2. \A u \in Touches : Claimed(u)' = Claimed(u) /\ Claimed(u) \in 0..1
    BY <2>1 DEF Claimed
  <2> QED BY <1>1, <2>1, <2>2
<1>3. CASE ~DirectSend
  <2>1. dclaimed' = [dclaimed EXCEPT ![d] = @ \cup {t}] /\ UNCHANGED delivered
    BY <1>3 DEF HandOver
  <2>2. \A u \in Touches \ {t} : \A c \in Dispatchers : u \in dclaimed'[c] <=> u \in dclaimed[c]
    BY <1>1, <2>1
  <2>3. \A u \in Touches \ {t} : Claimed(u)' = Claimed(u)
    BY <2>2 DEF Claimed
  <2>4. Claimed(t)' \in 0..1 /\ Claimed(t) \in 0..1
    BY DEF Claimed
  <2> QED BY <1>1, <2>1, <2>3, <2>4
<1> QED BY <1>2, <1>3

\* A hand-over either commits, for a touch that was unsent until then, or is
\* counted as undone in the step that loses its transaction.
LEMMA OnceStep ==
    ASSUME OneDispatch, TypeInv, StepInv, OnceInv, [Next]_vars
    PROVE  OnceInv'
<1> USE DEF rowVars, touchVars, genVars, dispVars, history
<1>a. delivered \in [Touches -> Nat] /\ dclaimed \in [Dispatchers -> SUBSET Touches]
      /\ sent \in [Touches -> BOOLEAN] /\ undone \in [Touches -> Nat]
  BY DEF TypeInv, TypeOK
<1>b. \A t \in Touches : Claimed(t) \in 0..1 /\ Claimed(t)' \in 0..1 /\ Committed(t) \in 0..1
  BY DEF Claimed, Committed
<1>1. ASSUME UNCHANGED <<delivered, undone, sent>>,
             \A d \in Dispatchers : dclaimed'[d] \subseteq dclaimed[d]
      PROVE  OnceInv'
  <2>1. \A t \in Touches : Claimed(t)' <= Claimed(t) /\ Committed(t)' = Committed(t)
    BY <1>1 DEF Claimed, Committed
  <2> QED BY <1>a, <1>b, <1>1, <2>1 DEF OnceInv
<1>2. ASSUME UNCHANGED <<delivered, undone, sent, dclaimed>> PROVE OnceInv'
  BY <1>1, <1>2
<1>3. ASSUME NEW g \in Generators, Generate(g) \/ GenerateError(g) \/ GenerateCrash(g)
      PROVE  OnceInv'
  BY <1>2, <1>3 DEF Generate, GenerateError, GenerateCrash, select_due_enrollments,
      GenerateSkip, GenerateStop, GenerateAbort, GenerateEligible, record_touch, GenerateCommit
<1>4. ASSUME NEW r \in Reviewers, Review(r) PROVE OnceInv'
  BY <1>2, <1>4 DEF Review, DecideRead, DecideCommit
<1>5. ASSUME NEW d \in Dispatchers, NEW t \in Touches,
             SendDenied(d, t) \/ SendSkip(d, t) \/ SendStop(d, t) \/ SendStart(d, t)
      PROVE  OnceInv'
  BY <1>2, <1>5 DEF SendDenied, SendSkip, SendStop, SendStart
<1>6. ASSUME NEW d \in Dispatchers, DispatchSelect(d) \/ SendRefused(d) PROVE OnceInv'
  BY <1>2, <1>6 DEF DispatchSelect, SendRefused
<1>7. ASSUME NEW d \in Dispatchers, SendError(d) PROVE OnceInv'
  <2>1. PICK t \in Touches : t = dcur[d]
    BY <1>7 DEF SendError, TypeInv, RunsHoldTouch
  <2>4. UNCHANGED sent
    BY <1>7 DEF SendError
  <2>2. CASE UNCHANGED <<delivered, undone, dclaimed>>
    BY <1>2, <2>2, <2>4
  <2>3. CASE HandOver(d, t) /\ HandOverUndone(t)
    <3>1. \A u \in Touches : undone'[u] = IF u = t THEN undone[u] + 1 ELSE undone[u]
      BY <1>a, <2>1, <2>3 DEF HandOverUndone
    <3>2. \A u \in Touches : Committed(u)' = Committed(u)
      BY <2>4 DEF Committed
    <3>3. delivered' \in [Touches -> Nat]
      BY <2>1, <2>3, HandOverType DEF TypeInv
    <3>4. /\ \A u \in Touches \ {t} : delivered'[u] = delivered[u] /\ Claimed(u)' = Claimed(u)
          /\ delivered'[t] + Claimed(t)' <= delivered[t] + Claimed(t) + 1
      BY <2>1, <2>3, HandOverCopies
    <3> QED BY <1>a, <1>b, <2>1, <3>1, <3>2, <3>3, <3>4 DEF OnceInv
  <2> QED BY <1>7, <2>1, <2>2, <2>3 DEF SendError
<1>8. ASSUME NEW d \in Dispatchers, SendCommit(d) PROVE OnceInv'
  <2>1. PICK t \in Touches : t = dcur[d] /\ ~sent[t]
    BY <1>8 DEF SendCommit, TypeInv, RunsHoldTouch, StepInv
  <2>2. sent' = [sent EXCEPT ![t] = TRUE] /\ HandOver(d, t) /\ UNCHANGED undone
    BY <1>8, <2>1 DEF SendCommit
  <2>3. /\ \A u \in Touches \ {t} : Committed(u)' = Committed(u)
        /\ Committed(t) = 0 /\ Committed(t)' = 1
    BY <1>a, <2>1, <2>2 DEF Committed
  <2>4. /\ \A u \in Touches \ {t} : delivered'[u] = delivered[u] /\ Claimed(u)' = Claimed(u)
        /\ delivered'[t] + Claimed(t)' <= delivered[t] + Claimed(t) + 1
    BY <2>1, <2>2, HandOverCopies
  <2>5. delivered' \in [Touches -> Nat]
    BY <2>1, <2>2, HandOverType DEF TypeInv
  <2>6. \A u \in Touches \ {t} : delivered'[u] + Claimed(u)' <= Committed(u)' + undone'[u]
    BY <2>2, <2>3, <2>4 DEF OnceInv
  <2>7. delivered[t] + Claimed(t) <= undone[t]
    BY <1>a, <2>1, <2>3 DEF OnceInv
  <2>8. delivered'[t] + Claimed(t)' <= 1 + undone[t]
    BY <1>a, <1>b, <2>1, <2>4, <2>5, <2>7
  <2>9. delivered'[t] + Claimed(t)' <= Committed(t)' + undone'[t]
    BY <2>2, <2>3, <2>8
  <2> QED BY <2>1, <2>6, <2>9 DEF OnceInv
<1>9. ASSUME NEW d \in Dispatchers, DispatchReturn(d) PROVE OnceInv'
  <2>1. \A t \in Touches :
            delivered'[t] = IF t \in dclaimed[d] THEN delivered[t] + 1 ELSE delivered[t]
    BY <1>9 DEF DispatchReturn
  <2>2. UNCHANGED <<sent, undone>> /\ \A c \in Dispatchers : dclaimed'[c] = {}
    BY <1>a, <1>9 DEF DispatchReturn, EndDispatch, OneDispatch
  <2>3. \A t \in Touches : Claimed(t)' = 0 /\ Committed(t)' = Committed(t)
    BY <2>2 DEF Claimed, Committed
  <2>4. \A t \in Touches : t \in dclaimed[d] => Claimed(t) = 1
    BY DEF Claimed
  <2> QED BY <1>a, <1>b, <2>1, <2>2, <2>3, <2>4 DEF OnceInv
<1>10. ASSUME NEW d \in Dispatchers, DispatchCrash(d) PROVE OnceInv'
  <2>1. UNCHANGED sent /\ \A c \in Dispatchers : dclaimed'[c] = {}
    BY <1>a, <1>10 DEF DispatchCrash, EndDispatch, OneDispatch
  <2>2. CASE UNCHANGED <<delivered, undone>>
    BY <1>1, <2>1, <2>2
  <2>3. CASE /\ dpc[d] = "sending"
             /\ delivered' = [delivered EXCEPT ![dcur[d]] = @ + 1]
             /\ HandOverUndone(dcur[d])
    <3>1. dcur[d] \in Touches
      BY <2>3 DEF TypeInv, RunsHoldTouch
    <3>2. \A u \in Touches :
              /\ delivered'[u] = IF u = dcur[d] THEN delivered[u] + 1 ELSE delivered[u]
              /\ undone'[u] = IF u = dcur[d] THEN undone[u] + 1 ELSE undone[u]
      BY <1>a, <2>3, <3>1 DEF HandOverUndone
    <3>3. \A t \in Touches : Claimed(t)' = 0 /\ Committed(t)' = Committed(t)
      BY <2>1 DEF Claimed, Committed
    <3> QED BY <1>a, <1>b, <3>2, <3>3 DEF OnceInv
  <2> QED BY <1>10, <2>2, <2>3 DEF DispatchCrash
<1>11. ASSUME NEW e \in Enrollments, ClientEvent(e) PROVE OnceInv'
  BY <1>2, <1>11 DEF ClientEvent, record_sms_reply, record_suppression, SignalArrives,
      SignalLeaves, BecomesDue
<1>12. ASSUME add_campaign_step \/ PauseCampaign \/ UNCHANGED vars PROVE OnceInv'
  BY <1>2, <1>12 DEF add_campaign_step, PauseCampaign, vars
<1> QED
  BY <1>3, <1>4, <1>5, <1>6, <1>7, <1>8, <1>9, <1>10, <1>11, <1>12 DEF Next, Dispatch

\* With one dispatch run at a time a touch reaches its recipient once, and again
\* only for a hand-over the touch log forgot: the transaction of send_touch was
\* rolled back after the sender had the message, or the process died.
THEOREM CopiesComeOfUndoneSends ==
    ASSUME OneDispatch PROVE Spec => []CopiesAreUndoneSends
<1>1. Init => OnceInv
  BY DEF Init, OnceInv, Claimed, Committed
<1>2. TypeInv /\ StepInv /\ OnceInv /\ [Next]_vars => OnceInv'
  BY OnceStep
<1>3. TypeInv /\ OnceInv => CopiesAreUndoneSends
  <2>1. ASSUME TypeInv, OnceInv, NEW t \in Touches PROVE delivered[t] <= 1 + undone[t]
    <3>1. delivered[t] \in Nat /\ undone[t] \in Nat
      BY <2>1 DEF TypeInv, TypeOK
    <3>2. Claimed(t) \in 0..1 /\ Committed(t) \in 0..1
      BY DEF Claimed, Committed
    <3> QED BY <2>1, <3>1, <3>2 DEF OnceInv
  <2> QED BY <2>1 DEF CopiesAreUndoneSends
<1> QED BY <1>1, <1>2, <1>3, StepInvariant, PTL DEF Spec

-----------------------------------------------------------------------------
(* Terminal statuses.                                                       *)

\* A step that stops an enrollment, or writes back a send, finds what it needs
\* in the row: only a generation run works from an older copy.
LEMMA StatusChanges ==
    ASSUME OneDispatch, OneGenerator \/ HistoryStays,
           TypeInv, OrderInv, StepInv, StatusInv, [Next]_vars,
           NEW e \in Enrollments, status'[e] # status[e]
    PROVE  \/ /\ status[e] \in SCHEDULABLE_STATUSES
              /\ status'[e] \in SCHEDULABLE_STATUSES \cup TERMINAL_STATUSES
              /\ current_step'[e] = current_step[e] =>
                    \E r \in Signals \cap TerminalReasons :
                        status'[e] = SkipStatus(current_step[e], r)
           \/ \E g \in Generators, r \in Signals \cap TerminalReasons :
                /\ gseen[g][e] # Expired /\ gseen[g][e].step = current_step[e]
                /\ gseen[g][e].status \in SCHEDULABLE_STATUSES
                /\ ~OneGenerator
                /\ UNCHANGED current_step
                /\ status'[e] = SkipStatus(current_step[e], r)
                /\ status'[e] \in TERMINAL_STATUSES
<1> USE DEF rowVars
<1>a. \A f \in Enrollments : status[f] \in EnrollmentStatuses /\ current_step[f] \in 0..MaxSteps
  BY DEF TypeInv, TypeOK
<1>b. \A k \in 0..MaxSteps : k \in Nat
  BY OutreachAssumption
<1>1. ASSUME NEW g \in Generators, NEW f \in Enrollments, GenerateStop(g, f)
      PROVE  \/ /\ status[e] \in SCHEDULABLE_STATUSES
                /\ status'[e] \in TERMINAL_STATUSES
                /\ \E r \in Signals \cap TerminalReasons :
                        status'[e] = SkipStatus(current_step[e], r)
             \/ \E r \in Signals \cap TerminalReasons :
                  /\ gseen[g][e] # Expired /\ gseen[g][e].step = current_step[e]
                  /\ gseen[g][e].status \in SCHEDULABLE_STATUSES
                  /\ ~OneGenerator
                  /\ UNCHANGED current_step
                  /\ status'[e] = SkipStatus(current_step[e], r)
                  /\ status'[e] \in TERMINAL_STATUSES
  <2> DEFINE seen == SeenRow(g, f)
  <2>1. PICK r \in TerminalReasons :
            /\ r \in EligibilityConditions(f, seen.step)
            /\ SkipStatus(seen.step, r) \in ALLOWED_TRANSITIONS[seen.status]
            /\ status' = [status EXCEPT ![f] = SkipStatus(seen.step, r)]
    BY <1>1 DEF GenerateStop, IsFirstReason
  <2>2. f = e /\ status'[e] = SkipStatus(seen.step, r) /\ UNCHANGED current_step
    BY <1>1, <2>1 DEF GenerateStop, TypeInv, TypeOK
  <2>3. seen.step = current_step[e]
    BY <1>1, <2>2, StopMeansUnlogged
  <2>4. seen.status \in EnrollmentStatuses /\ seen.step \in 0..MaxSteps
    BY SeenRowType DEF TypeInv, Rows
  <2>5. r \in Signals
    BY <2>1, <2>4, StopReasonIsSignal DEF TypeInv
  <2>6. seen.status \in SCHEDULABLE_STATUSES /\ status'[e] \in TERMINAL_STATUSES
    BY <1>b, <2>1, <2>2, <2>4, StopEffect
  <2>7. CASE seen = Row(e)
    BY <2>2, <2>3, <2>5, <2>6, <2>7 DEF Row
  <2>8. CASE seen # Row(e)
    <3>1. gseen[g][e] # Expired /\ gseen[g][e] = seen
      BY <2>2, <2>8 DEF SeenRow
    <3>2. ~OneGenerator
      BY <1>1, <2>2, <2>8, <3>1 DEF StatusInv, SessionInv, GenerateStop, NextInRun
    <3> QED BY <2>2, <2>3, <2>5, <2>6, <3>1, <3>2
  <2> QED BY <2>7, <2>8
<1>2. ASSUME NEW d \in Dispatchers, NEW t \in Touches, SendStop(d, t)
      PROVE  /\ status[e] \in SCHEDULABLE_STATUSES
             /\ status'[e] \in TERMINAL_STATUSES
             /\ \E r \in Signals \cap TerminalReasons :
                        status'[e] = SkipStatus(current_step[e], r)
  <2>1. PICK r \in TerminalReasons :
            /\ r \in SendConditions(t[1], SeenCampaign(d))
            /\ LET to == SkipStatus(current_step[t[1]], r) IN
                IF to \in ALLOWED_TRANSITIONS[status[t[1]]]
                  THEN status' = [status EXCEPT ![t[1]] = to] /\ LeaveUnsent(d, t)
                  ELSE UNCHANGED status /\ LeaveRolledBack(d, t)
    BY <1>2 DEF SendStop, IsFirstReason
  <2> DEFINE to == SkipStatus(current_step[t[1]], r)
  <2>2. to \in ALLOWED_TRANSITIONS[status[t[1]]] /\ status' = [status EXCEPT ![t[1]] = to]
    BY <2>1
  <2>3. t[1] \in Enrollments
    BY DEF Touches
  <2>4. t[1] = e /\ status'[e] = to
    BY <2>2, <2>3 DEF TypeInv, TypeOK
  <2>5. r \in Signals
    BY <2>1, <2>3, StopReasonIsSignal DEF TypeInv
  <2>6. status[e] \in SCHEDULABLE_STATUSES /\ to \in TERMINAL_STATUSES
    BY <1>a, <1>b, <2>2, <2>3, <2>4, StopEffect
  <2> QED BY <2>4, <2>5, <2>6
<1>3. ASSUME NEW d \in Dispatchers, SendCommit(d)
      PROVE  /\ status[e] \in SCHEDULABLE_STATUSES
             /\ status'[e] \in SCHEDULABLE_STATUSES \cup TERMINAL_STATUSES
             /\ current_step'[e] # current_step[e]
  <2> DEFINE t == dcur[d]
  <2>1. t[1] \in Enrollments /\ t[2] = current_step[t[1]] + 1
        /\ status[t[1]] \in SCHEDULABLE_STATUSES
    BY <1>3, PageHoldsNext DEF SendCommit, StatusInv, SendsFromRow
  <2>2. /\ current_step' = [current_step EXCEPT ![t[1]] = t[2]]
        /\ status' = [status EXCEPT ![t[1]] = AdvancedStatus(t)]
    BY <1>3 DEF SendCommit, advance_enrollment
  <2>3. t[1] = e /\ status'[e] = AdvancedStatus(t) /\ current_step'[e] = current_step[e] + 1
    BY <2>1, <2>2 DEF TypeInv, TypeOK
  <2>4. current_step'[e] # current_step[e]
    BY <1>a, <1>b, <2>3
  <2>5. AdvancedStatus(t) \in SCHEDULABLE_STATUSES \cup TERMINAL_STATUSES
    BY DEF AdvancedStatus, TERMINAL_STATUSES, ALLOWED_TRANSITIONS, EnrollmentStatuses,
        SCHEDULABLE_STATUSES, StoppedStatuses
  <2> QED BY <2>1, <2>3, <2>4, <2>5
<1>4. ASSUME NEW g \in Generators, Generate(g) \/ GenerateError(g) \/ GenerateCrash(g)
      PROVE  \E f \in Enrollments : GenerateStop(g, f)
  BY <1>4 DEF Generate, GenerateError, GenerateCrash, select_due_enrollments,
      GenerateSkip, GenerateAbort, GenerateEligible, record_touch, GenerateCommit
<1>5. ASSUME NEW d \in Dispatchers, Dispatch(d) \/ DispatchCrash(d)
      PROVE  SendCommit(d) \/ \E t \in Touches : SendStop(d, t)
  BY <1>5 DEF Dispatch, DispatchCrash, DispatchSelect, SendDenied, SendSkip, SendStart,
      SendRefused, SendError, DispatchReturn
<1>6. ASSUME \/ \E r \in Reviewers : Review(r)
             \/ \E f \in Enrollments : ClientEvent(f)
             \/ add_campaign_step \/ PauseCampaign \/ UNCHANGED vars
      PROVE  FALSE
  BY <1>6 DEF Review, DecideRead, DecideCommit, ClientEvent, record_sms_reply,
      record_suppression, SignalArrives, SignalLeaves, BecomesDue, add_campaign_step,
      PauseCampaign, vars
<1>7. CASE \E g \in Generators : Generate(g) \/ GenerateError(g) \/ GenerateCrash(g)
  BY <1>1, <1>4, <1>7
<1>8. CASE \E d \in Dispatchers : Dispatch(d) \/ DispatchCrash(d)
  BY <1>2, <1>3, <1>5, <1>8
<1> QED BY <1>6, <1>7, <1>8 DEF Next

\* A session's copy is kept, forgotten, or read from the row.
LEMMA CopiesChange ==
    ASSUME TypeInv, [Next]_vars, NEW g \in Generators, NEW e \in Enrollments
    PROVE  \/ gseen'[g][e] \in {gseen[g][e], Expired}
           \/ gseen'[g][e] = Row(e) /\ UNCHANGED rowVars
<1> USE DEF rowVars
<1>1. ASSUME NEW h \in Generators, select_due_enrollments(h)
      PROVE  gseen'[g][e] \in {gseen[g][e], Expired, Row(e)} /\ UNCHANGED rowVars
  BY <1>1 DEF select_due_enrollments, TypeInv, TypeOK
<1>2. ASSUME NEW h \in Generators, Generate(h) \/ GenerateError(h) \/ GenerateCrash(h),
             ~select_due_enrollments(h)
      PROVE  \/ UNCHANGED gseen
             \/ gseen' = [gseen EXCEPT ![h] = [f \in Enrollments |-> Expired]]
             \/ \E f : gseen' = [gseen EXCEPT ![h][f] = Expired]
  BY <1>2 DEF Generate, GenerateError, GenerateCrash, GenerateSkip, GenerateStop, GenerateAbort,
      GenerateEligible, record_touch, GenerateCommit, EndRun
<1>3. ASSUME NEW h \in Generators,
             \/ UNCHANGED gseen
             \/ gseen' = [gseen EXCEPT ![h] = [f \in Enrollments |-> Expired]]
             \/ \E f : gseen' = [gseen EXCEPT ![h][f] = Expired]
      PROVE  gseen'[g][e] \in {gseen[g][e], Expired}
  <2>1. gseen \in [Generators -> [Enrollments -> Rows \cup {Expired}]]
    BY DEF TypeInv, TypeOK
  <2>2. CASE UNCHANGED gseen
    BY <2>2
  <2>3. CASE gseen' = [gseen EXCEPT ![h] = [f \in Enrollments |-> Expired]]
    BY <2>1, <2>3
  <2>4. ASSUME NEW f, gseen' = [gseen EXCEPT ![h][f] = Expired]
        PROVE  gseen'[g][e] \in {gseen[g][e], Expired}
    BY <2>1, <2>4
  <2> QED BY <1>3, <2>2, <2>3, <2>4
<1>4. ASSUME \/ \E d \in Dispatchers : Dispatch(d) \/ DispatchCrash(d)
             \/ \E r \in Reviewers : Review(r)
             \/ \E f \in Enrollments : ClientEvent(f)
             \/ add_campaign_step \/ PauseCampaign \/ UNCHANGED vars
      PROVE  UNCHANGED gseen
  <2> USE DEF genVars
  <2>1. ASSUME NEW d \in Dispatchers, Dispatch(d) \/ DispatchCrash(d) PROVE UNCHANGED gseen
    BY <2>1 DEF Dispatch, DispatchCrash, DispatchSelect, SendDenied, SendSkip, SendStop,
        SendStart, SendCommit, SendRefused, SendError, DispatchReturn
  <2>2. ASSUME NEW r \in Reviewers, Review(r) PROVE UNCHANGED gseen
    BY <2>2 DEF Review, DecideRead, DecideCommit
  <2>3. ASSUME NEW f \in Enrollments, ClientEvent(f) PROVE UNCHANGED gseen
    BY <2>3 DEF ClientEvent, record_sms_reply, record_suppression, SignalArrives,
        SignalLeaves, BecomesDue
  <2>4. ASSUME add_campaign_step \/ PauseCampaign \/ UNCHANGED vars PROVE UNCHANGED gseen
    BY <2>4 DEF add_campaign_step, PauseCampaign, vars
  <2> QED BY <1>4, <2>1, <2>2, <2>3, <2>4
<1> QED BY <1>1, <1>2, <1>3, <1>4 DEF Next

\* No step takes current_step back.
LEMMA StepNeverBack ==
    ASSUME TypeInv, TypeInv', StepInv, StepInv', [Next]_vars, NEW e \in Enrollments
    PROVE  current_step[e] <= current_step'[e]
<1>1. current_step[e] \in 0..MaxSteps /\ current_step'[e] \in 0..MaxSteps
  BY DEF TypeInv, TypeOK
<1>2. CASE current_step[e] = 0
  BY <1>1, <1>2, OutreachAssumption
<1>3. CASE current_step[e] # 0
  <2>1. current_step[e] \in Steps /\ <<e, current_step[e]>> \in Touches
    BY <1>1, <1>3, OutreachAssumption DEF Steps, Touches
  <2>2. sent'[<<e, current_step[e]>>]
    BY <1>1, <2>1, TouchesPersist, OutreachAssumption DEF StepInv, StepMatchesTouchLog
  <2> QED BY <2>1, <2>2 DEF StepInv, StepMatchesTouchLog
<1> QED BY <1>2, <1>3

LEMMA CopiesStep ==
    ASSUME OneDispatch, OneGenerator \/ HistoryStays, TypeInv, TypeInv', OrderInv,
           StepInv, StepInv', StatusInv, CopiesInv, [Next]_vars
    PROVE  CopiesInv'
<1> SUFFICES ASSUME NEW g \in Generators, NEW e \in Enrollments,
                    gseen'[g][e] # Expired, gseen'[g][e].step = current_step'[e]
             PROVE  status'[e] = gseen'[g][e].status \/ StoppedHere(e)'
  BY DEF CopiesInv
<1>1. CASE gseen'[g][e] = Row(e) /\ UNCHANGED rowVars
  BY <1>1 DEF Row, rowVars
<1>2. CASE gseen'[g][e] = gseen[g][e]
  <2>1. current_step'[e] = current_step[e]
    <3>1. gseen[g][e].step \in 0..current_step[e] /\ current_step[e] <= current_step'[e]
          /\ current_step[e] \in 0..MaxSteps /\ current_step'[e] \in 0..MaxSteps
      BY SeenStepBehind, StepNeverBack DEF StepInv, TypeInv, TypeOK
    <3> QED BY <1>2, <3>1, OutreachAssumption
  <2>2. CASE status'[e] = status[e]
    BY <1>2, <2>1, <2>2 DEF CopiesInv, StoppedHere
  <2>3. CASE status'[e] # status[e]
    <3>1. \E r \in Signals \cap TerminalReasons : status'[e] = SkipStatus(current_step[e], r)
      BY <2>1, <2>3, StatusChanges
    <3> QED BY <2>1, <3>1 DEF StoppedHere
  <2> QED BY <2>2, <2>3
<1> QED BY <1>1, <1>2, CopiesChange

\* A status that is terminal is not schedulable.
LEMMA TerminalNotSchedulable ==
    \A st \in EnrollmentStatuses : st \in TERMINAL_STATUSES => st \notin SCHEDULABLE_STATUSES
BY DEF TERMINAL_STATUSES, ALLOWED_TRANSITIONS, EnrollmentStatuses, SCHEDULABLE_STATUSES

\* With one dispatch run at a time, and one generation run or no client that
\* loses its history, a terminal status never becomes schedulable again: a run
\* that stops an enrollment from an old copy of its row may give it another stop
\* status, but no run revives it.
THEOREM StoppedForGood ==
    ASSUME OneDispatch, OneGenerator \/ HistoryStays
    PROVE  Spec => [][\A e \in Enrollments :
                        status[e] \in TERMINAL_STATUSES => status'[e] \in TERMINAL_STATUSES]_vars
<1> DEFINE A == \A e \in Enrollments :
                    status[e] \in TERMINAL_STATUSES => status'[e] \in TERMINAL_STATUSES
<1>1. TypeInv /\ OrderInv /\ StepInv /\ StatusInv /\ [Next]_vars => [A]_vars
  <2> SUFFICES ASSUME TypeInv, OrderInv, StepInv, StatusInv, [Next]_vars,
                      NEW e \in Enrollments, status[e] \in TERMINAL_STATUSES
               PROVE  status'[e] \in TERMINAL_STATUSES
    OBVIOUS
  <2>1. status[e] \notin SCHEDULABLE_STATUSES
    BY TerminalNotSchedulable DEF TypeInv, TypeOK
  <2> QED BY <2>1, StatusChanges
<1> HIDE DEF A
<1>2. Spec => [][A]_vars
  BY <1>1, StatusInvariant, PTL DEF Spec
<1> QED BY <1>2 DEF A

\* With one dispatch run at a time, a terminal status is never left when there
\* is also one generation run, or when all that may stop a touched enrollment
\* stops it in the same status.
THEOREM TerminalIsFinal ==
    ASSUME OneDispatch, OneGenerator \/ (HistoryStays /\ StopsAgree)
    PROVE  Spec => TerminalStays
<1> DEFINE A == \A e \in Enrollments :
                    status[e] \in TERMINAL_STATUSES => status'[e] = status[e]
<1>1. Init => CopiesInv
  BY DEF Init, CopiesInv
<1>2. TypeInv /\ TypeInv' /\ OrderInv /\ StepInv /\ StepInv' /\ StatusInv /\ CopiesInv
        /\ [Next]_vars => CopiesInv'
  BY CopiesStep
<1>3. TypeInv /\ OrderInv /\ StepInv /\ StatusInv /\ CopiesInv /\ [Next]_vars => [A]_vars
  <2> SUFFICES ASSUME TypeInv, OrderInv, StepInv, StatusInv, CopiesInv, [Next]_vars,
                      NEW e \in Enrollments, status[e] \in TERMINAL_STATUSES,
                      status'[e] # status[e]
               PROVE  FALSE
    OBVIOUS
  <2>1. status[e] \notin SCHEDULABLE_STATUSES
    BY TerminalNotSchedulable DEF TypeInv, TypeOK
  <2>2. PICK g \in Generators, r \in Signals \cap TerminalReasons :
            /\ gseen[g][e] # Expired /\ gseen[g][e].step = current_step[e]
            /\ gseen[g][e].status \in SCHEDULABLE_STATUSES
            /\ ~OneGenerator
            /\ status'[e] = SkipStatus(current_step[e], r)
    BY <2>1, StatusChanges
  <2>3. PICK q \in Signals \cap TerminalReasons : status[e] = SkipStatus(current_step[e], q)
    BY <2>1, <2>2 DEF CopiesInv, StoppedHere
  <2>4. SkipStatus(current_step[e], q) = SkipStatus(current_step[e], r)
    BY <2>2 DEF StopsAgree, SkipStatus
  <2> QED BY <2>2, <2>3, <2>4
<1> HIDE DEF A
<1>4. Spec => [][A]_vars
  BY <1>1, <1>2, <1>3, StatusInvariant, PTL DEF Spec
<1> QED BY <1>4 DEF A, TerminalStays

-----------------------------------------------------------------------------
(* Decisions.                                                               *)

\* A generation run sets out only for a touch that is not logged.
LEMMA EligibleUnlogged ==
    ASSUME TypeOK, NEW e \in Enrollments, NEW step \in 0..MaxSteps,
           Passes(EligibilityOrder, EligibilityConditions(e, step))
    PROVE  <<e, step + 1>> \in Touches /\ message[<<e, step + 1>>] = "none"
<1>1. "already_touched" \notin EligibilityConditions(e, step)
  <2>1. 5 \in DOMAIN EligibilityOrder
    BY EligibilityOrderStarts
  <2> QED BY <2>1, EligibilityOrderStarts DEF Passes
<1>2. MessageAt(e, step + 1) = "none"
  BY <1>1 DEF EligibilityConditions
<1> QED BY <1>2, EligibleStep DEF Touches

\* No run generates for a touch whose message is decided, and no request decides
\* a message that is: the unique key of touch_log keeps two inserts apart, and
\* of two runs only one can come upon a touch logged without a message.
LEMMA DecisionStep ==
    ASSUME TwoGenerators, OneReviewer, TypeInv, TypeInv', DecisionInv, [Next]_vars
    PROVE  DecisionInv'
<1> USE DEF rowVars, touchVars, genVars, dispVars, history
<1> DEFINE Working(g) == gpc[g] \in {"logging", "generating"}
<1>1. ASSUME UNCHANGED <<message, rcur>>,
             \A g \in Generators : Working(g)' => gpc'[g] = gpc[g] /\ gcur'[g] = gcur[g]
      PROVE  DecisionInv'
  BY <1>1 DEF DecisionInv
<1>2. ASSUME UNCHANGED <<message, rcur, gpc, gcur>> PROVE DecisionInv'
  BY <1>1, <1>2
<1>3. ASSUME NEW g \in Generators, select_due_enrollments(g) PROVE DecisionInv'
  <2>1. \A h \in Generators : Working(h)' => gpc'[h] = gpc[h] /\ gcur'[h] = gcur[h]
    BY <1>3 DEF select_due_enrollments, TypeInv, TypeOK
  <2> QED BY <1>1, <1>3, <2>1 DEF select_due_enrollments
\* A run that leaves its touch without committing a message for it.
<1>4. ASSUME NEW g \in Generators, EndRun(g) \/ \E e : LeaveInRun(g, e), UNCHANGED <<message, rcur>>
      PROVE  DecisionInv'
  <2>1. \A h \in Generators : Working(h)' => gpc'[h] = gpc[h] /\ gcur'[h] = gcur[h]
    BY <1>4 DEF EndRun, LeaveInRun, TypeInv, TypeOK
  <2> QED BY <1>1, <1>4, <2>1
<1>5. ASSUME NEW g \in Generators, NEW e \in Enrollments,
             GenerateSkip(g, e) \/ GenerateStop(g, e) \/ GenerateAbort(g, e)
      PROVE  DecisionInv'
  <2>1. EndRun(g) \/ \E f : LeaveInRun(g, f)
    BY <1>5 DEF GenerateSkip, GenerateStop, GenerateAbort
  <2>2. UNCHANGED <<message, rcur>>
    BY <1>5 DEF GenerateSkip, GenerateStop, GenerateAbort
  <2> QED BY <1>4, <2>1, <2>2
<1>6. ASSUME NEW g \in Generators, GenerateError(g) \/ GenerateCrash(g) PROVE DecisionInv'
  <2>1. EndRun(g) \/ \E f : LeaveInRun(g, f)
    BY <1>6 DEF GenerateError, GenerateCrash
  <2>2. UNCHANGED <<message, rcur>>
    BY <1>6 DEF GenerateError, GenerateCrash
  <2> QED BY <1>4, <2>1, <2>2
<1>7. ASSUME NEW g \in Generators, NEW e \in Enrollments, GenerateEligible(g, e) PROVE DecisionInv'
  <2> DEFINE t == <<e, SeenRow(g, e).step + 1>>
  <2>1. message[t] = "none"
    BY <1>7, SeenRowType, EligibleUnlogged DEF GenerateEligible, TypeInv, Rows
  <2>2. /\ UNCHANGED <<message, rcur>> /\ gpc' = [gpc EXCEPT ![g] = "logging"]
        /\ gcur' = [gcur EXCEPT ![g] = t]
    BY <1>7 DEF GenerateEligible
  <2>3. /\ gpc'[g] = "logging" /\ gcur'[g] = t
        /\ \A h \in Generators \ {g} : gpc'[h] = gpc[h] /\ gcur'[h] = gcur[h]
    BY <2>2 DEF TypeInv, TypeOK
  <2> HIDE DEF t
  <2> QED BY <2>1, <2>2, <2>3 DEF DecisionInv
<1>8. ASSUME NEW g \in Generators, record_touch(g) PROVE DecisionInv'
  <2>1. CASE message[gcur[g]] \in MessageStatuses
    <3>1. LeaveInRun(g, gcur[g][1])
      BY <1>8, <2>1 DEF record_touch
    <3>2. UNCHANGED <<message, rcur>>
      BY <1>8 DEF record_touch
    <3> QED BY <1>4, <3>1, <3>2
  <2>2. CASE message[gcur[g]] \notin MessageStatuses
    <3>1. /\ UNCHANGED <<message, rcur, gcur>> /\ gpc[g] = "logging"
          /\ ~InsertPending(g, gcur[g]) /\ gpc' = [gpc EXCEPT ![g] = "generating"]
      BY <1>8, <2>2 DEF record_touch
    <3>2. gpc'[g] = "generating" /\ \A h \in Generators \ {g} : gpc'[h] = gpc[h]
      BY <3>1 DEF TypeInv, TypeOK
    <3>3. message[gcur[g]] \in {"none", "null"}
      BY <2>2, <3>1 DEF TypeInv, TypeOK, RunsHoldTouch
    <3>4. \A h \in Generators \ {g} : gpc[h] = "generating" => gcur[h] # gcur[g]
      BY <3>1, <3>3 DEF InsertPending, DecisionInv
    <3> QED BY <3>1, <3>2, <3>3, <3>4 DEF DecisionInv
  <2> QED BY <2>1, <2>2
<1>9. ASSUME NEW g \in Generators, GenerateCommit(g) PROVE DecisionInv'
  <2> DEFINE t == gcur[g]
  <2>1. t \in Touches /\ message[t] \in {"none", "null"} /\ gpc[g] = "generating"
    BY <1>9 DEF GenerateCommit, TypeInv, RunsHoldTouch, DecisionInv
  <2>2. UNCHANGED rcur /\ \A u \in Touches \ {t} : message'[u] = message[u]
    BY <1>9 DEF GenerateCommit, TypeInv, TypeOK
  <2>3. /\ gpc'[g] \in {"idle", "loop"}
        /\ \A h \in Generators \ {g} : gpc'[h] = gpc[h] /\ gcur'[h] = gcur[h]
    BY <1>9 DEF GenerateCommit, LeaveInRun, TypeInv, TypeOK
  <2>4. \A h \in Generators \ {g} : gpc[h] = "generating" => gcur[h] \in Touches \ {t}
    BY <2>1 DEF DecisionInv, TypeInv, RunsHoldTouch
  <2>5. \A h \in Generators : gpc'[h] = "generating" => message'[gcur'[h]] \in {"none", "null"}
    BY <2>2, <2>3, <2>4 DEF DecisionInv
  <2>6. ASSUME NEW f \in Generators, NEW h \in Generators, Working(f)', Working(h)',
               gcur'[f] = gcur'[h], message'[gcur'[f]] = "null"
        PROVE  f = h
    <3>1. f # g /\ h # g
      BY <2>3, <2>6
    <3> QED BY <3>1 DEF TwoGenerators
  <2>7. \A r \in Reviewers : rcur'[r] # NoTouch =>
            message'[rcur'[r]] \in UNRESOLVED_MESSAGE_STATUSES
    <3> SUFFICES ASSUME NEW r \in Reviewers, rcur[r] # NoTouch
                 PROVE  message'[rcur[r]] \in UNRESOLVED_MESSAGE_STATUSES
      BY <2>2
    <3>1. rcur[r] \in Touches /\ message[rcur[r]] \in UNRESOLVED_MESSAGE_STATUSES
      BY DEF DecisionInv, TypeInv, TypeOK
    <3>2. rcur[r] # t
      BY <2>1, <3>1 DEF UNRESOLVED_MESSAGE_STATUSES
    <3> QED BY <2>2, <3>1, <3>2
  <2>8. \A f, h \in Generators :
            gpc'[f] = "generating" /\ gpc'[h] = "generating" /\ gcur'[f] = gcur'[h] => f = h
    BY <2>3 DEF DecisionInv
  <2> QED BY <2>5, <2>6, <2>7, <2>8 DEF DecisionInv
<1>10. ASSUME NEW r \in Reviewers, NEW t \in Touches, DecideRead(r, t) PROVE DecisionInv'
  <2>1. UNCHANGED <<message, gpc, gcur>> /\ rcur' = [rcur EXCEPT ![r] = t]
        /\ message[t] \in UNRESOLVED_MESSAGE_STATUSES
    BY <1>10 DEF DecideRead
  <2>2. \A q \in Reviewers : rcur'[q] # NoTouch =>
            message'[rcur'[q]] \in UNRESOLVED_MESSAGE_STATUSES
    BY <2>1 DEF DecisionInv, TypeInv, TypeOK
  <2> QED BY <2>1, <2>2 DEF DecisionInv
<1>11. ASSUME NEW r \in Reviewers, NEW o \in StatusForOutcome, DecideCommit(r, o) PROVE DecisionInv'
  <2> DEFINE t == rcur[r]
  <2>1. t \in Touches /\ message[t] \in UNRESOLVED_MESSAGE_STATUSES
    BY <1>11 DEF DecideCommit, DecisionInv, TypeInv, TypeOK
  <2>2. UNCHANGED <<gpc, gcur>> /\ message' = [message EXCEPT ![t] = o]
        /\ rcur' = [rcur EXCEPT ![r] = NoTouch]
    BY <1>11 DEF DecideCommit
  <2>3. message'[t] = o /\ o # "null" /\ \A u \in Touches \ {t} : message'[u] = message[u]
    BY <2>1, <2>2 DEF TypeInv, TypeOK, StatusForOutcome
  <2>4. \A g \in Generators : Working(g) => gcur[g] \in Touches
    BY DEF TypeInv, RunsHoldTouch
  <2>5. \A g \in Generators : gpc[g] = "generating" => gcur[g] # t
    BY <2>1 DEF DecisionInv, UNRESOLVED_MESSAGE_STATUSES
  <2>6. \A q \in Reviewers : rcur'[q] = NoTouch
    BY <2>2 DEF OneReviewer, TypeInv, TypeOK
  <2>7. \A g \in Generators : gpc'[g] = "generating" => message'[gcur'[g]] \in {"none", "null"}
    BY <2>2, <2>3, <2>4, <2>5 DEF DecisionInv
  <2>8. ASSUME NEW f \in Generators, NEW h \in Generators, Working(f)', Working(h)',
               gcur'[f] = gcur'[h], message'[gcur'[f]] = "null"
        PROVE  f = h
    <3>1. message[gcur[f]] = "null"
      BY <2>2, <2>3, <2>4, <2>8
    <3> QED BY <2>2, <2>8, <3>1 DEF DecisionInv
  <2> QED BY <2>2, <2>6, <2>7, <2>8 DEF DecisionInv
<1>12. ASSUME NEW d \in Dispatchers, Dispatch(d) \/ DispatchCrash(d) PROVE DecisionInv'
  BY <1>2, <1>12 DEF Dispatch, DispatchCrash, DispatchSelect, SendDenied, SendSkip, SendStop,
      SendStart, SendCommit, SendRefused, SendError, DispatchReturn
<1>13. ASSUME NEW e \in Enrollments, ClientEvent(e) PROVE DecisionInv'
  BY <1>2, <1>13 DEF ClientEvent, record_sms_reply, record_suppression, SignalArrives,
      SignalLeaves, BecomesDue
<1>14. ASSUME add_campaign_step \/ PauseCampaign \/ UNCHANGED vars PROVE DecisionInv'
  BY <1>2, <1>14 DEF add_campaign_step, PauseCampaign, vars
<1> QED
  BY <1>3, <1>5, <1>6, <1>7, <1>8, <1>9, <1>10, <1>11, <1>12, <1>13, <1>14
     DEF Next, Generate, Review

\* With at most two generation runs and one review request at a time, an
\* approved or rejected message is never written again, by a decision or by a
\* generation run, whatever the dispatch runs do and whatever fails.
THEOREM DecisionIsFinal ==
    ASSUME TwoGenerators, OneReviewer PROVE Spec => DecisionsFinal
<1> DEFINE A == \A t \in Touches :
                    message[t] \in {"approved", "rejected"} => message'[t] = message[t]
<1>1. Init => TypeInv /\ DecisionInv
  <2>1. Init => TypeInv
    BY OutreachAssumption DEF Init, TypeInv, TypeOK, RunsHoldTouch, CampaignStatuses, Steps,
        EnrollmentStatuses, SCHEDULABLE_STATUSES
  <2>2. Init => DecisionInv
    BY DEF Init, DecisionInv
  <2> QED BY <2>1, <2>2
<1>2. TypeInv /\ DecisionInv /\ [Next]_vars => (TypeInv /\ DecisionInv)'
  BY TypeStep, DecisionStep
<1>3. TypeInv /\ DecisionInv /\ [Next]_vars => [A]_vars
  <2> SUFFICES ASSUME TypeInv, DecisionInv, [Next]_vars, NEW t \in Touches,
                      message[t] \in {"approved", "rejected"}, message'[t] # message[t]
               PROVE  FALSE
    OBVIOUS
  <2> USE DEF rowVars, touchVars, genVars, dispVars, history
  <2>1. ASSUME NEW g \in Generators, GenerateCommit(g) PROVE FALSE
    <3>1. message[gcur[g]] \in {"none", "null"}
      BY <2>1 DEF GenerateCommit, DecisionInv
    <3>2. t # gcur[g]
      BY <3>1
    <3> QED BY <2>1, <3>2 DEF GenerateCommit, TypeInv, TypeOK
  <2>2. ASSUME NEW r \in Reviewers, NEW o \in StatusForOutcome, DecideCommit(r, o) PROVE FALSE
    <3>1. message[rcur[r]] \in UNRESOLVED_MESSAGE_STATUSES
      BY <2>2 DEF DecideCommit, DecisionInv
    <3>2. t # rcur[r]
      BY <3>1 DEF UNRESOLVED_MESSAGE_STATUSES
    <3> QED BY <2>2, <3>2 DEF DecideCommit, TypeInv, TypeOK
  <2>3. ASSUME NEW g \in Generators, Generate(g) \/ GenerateError(g) \/ GenerateCrash(g),
               ~GenerateCommit(g)
        PROVE  FALSE
    BY <2>3 DEF Generate, GenerateError, GenerateCrash, select_due_enrollments, GenerateSkip,
        GenerateStop, GenerateAbort, GenerateEligible, record_touch
  <2>4. ASSUME NEW d \in Dispatchers, Dispatch(d) \/ DispatchCrash(d) PROVE FALSE
    BY <2>4 DEF Dispatch, DispatchCrash, DispatchSelect, SendDenied, SendSkip, SendStop,
        SendStart, SendCommit, SendRefused, SendError, DispatchReturn
  <2>5. ASSUME NEW r \in Reviewers, NEW u \in Touches, DecideRead(r, u) PROVE FALSE
    BY <2>5 DEF DecideRead
  <2>6. ASSUME NEW e \in Enrollments, ClientEvent(e) PROVE FALSE
    BY <2>6 DEF ClientEvent, record_sms_reply, record_suppression, SignalArrives,
        SignalLeaves, BecomesDue
  <2>7. ASSUME add_campaign_step \/ PauseCampaign \/ UNCHANGED vars PROVE FALSE
    BY <2>7 DEF add_campaign_step, PauseCampaign, vars
  <2> QED BY <2>1, <2>2, <2>3, <2>4, <2>5, <2>6, <2>7 DEF Next, Review
<1> HIDE DEF A
<1>4. Spec => [][A]_vars
  BY <1>1, <1>2, <1>3, PTL DEF Spec
<1> QED BY <1>4 DEF A, DecisionsFinal

-----------------------------------------------------------------------------
(* The refinement of EnrollmentSequence.                                    *)

\* The moves a sequence knows are the moves the gate knows.
LEMMA SequenceGate ==
    /\ Sequence!ALLOWED_TRANSITIONS = ALLOWED_TRANSITIONS
    /\ Sequence!StoppedStatuses = StoppedStatuses
    /\ Sequence!SCHEDULABLE_STATUSES = SCHEDULABLE_STATUSES
BY DEF Sequence!ALLOWED_TRANSITIONS, ALLOWED_TRANSITIONS,
    Sequence!EnrollmentStatuses, EnrollmentStatuses,
    Sequence!StoppedStatuses, StoppedStatuses,
    Sequence!SCHEDULABLE_STATUSES, SCHEDULABLE_STATUSES

LEMMA SkipIsStop ==
    ASSUME NEW step, NEW r \in TerminalReasons
    PROVE  SkipStatus(step, r) \in StoppedStatuses \cup {"excluded"}
BY DEF SkipStatus, TerminalReasons, TerminalStatus, StoppedStatuses

\* A row that is written with an allowed stop status is a stop of its sequence.
LEMMA SequenceStop ==
    ASSUME NEW e \in Enrollments, NEW r \in TerminalReasons, NEW step,
           SkipStatus(step, r) \in ALLOWED_TRANSITIONS[status[e]],
           status' = [status EXCEPT ![e] = SkipStatus(step, r)], UNCHANGED current_step
    PROVE  Sequence!Next
<1>1. SkipStatus(step, r) \in
        Sequence!ALLOWED_TRANSITIONS[status[e]] \cap (Sequence!StoppedStatuses \cup {"excluded"})
  BY SequenceGate, SkipIsStop
<1>2. Sequence!Stop(e)
  BY <1>1 DEF Sequence!Stop
<1> QED BY <1>2 DEF Sequence!Next

LEMMA SequenceStep ==
    ASSUME OneDispatch, OneGenerator \/ (HistoryStays /\ StopsAgree),
           TypeInv, OrderInv, StepInv, StatusInv, CopiesInv, [Next]_vars
    PROVE  [Sequence!Next]_(Sequence!rows)
<1> USE DEF rowVars
<1>1. ASSUME UNCHANGED <<status, current_step>> PROVE UNCHANGED Sequence!rows
  BY <1>1 DEF Sequence!rows
<1>2. ASSUME NEW g \in Generators, NEW e \in Enrollments, GenerateStop(g, e)
      PROVE  [Sequence!Next]_(Sequence!rows)
  <2> DEFINE seen == SeenRow(g, e)
  <2>1. PICK r \in TerminalReasons :
            /\ r \in EligibilityConditions(e, seen.step)
            /\ SkipStatus(seen.step, r) \in ALLOWED_TRANSITIONS[seen.status]
            /\ status' = [status EXCEPT ![e] = SkipStatus(seen.step, r)]
    BY <1>2 DEF GenerateStop, IsFirstReason
  <2>2. UNCHANGED current_step /\ e \in gdue[g]
    BY <1>2 DEF GenerateStop, NextInRun
  <2>3. seen.step = current_step[e]
    BY <1>2, StopMeansUnlogged
  \* The copy says what the row says: the stop is an allowed move of the row.
  <2>4. CASE seen.status = status[e]
    BY <2>1, <2>2, <2>4, SequenceStop
  \* Another run has stopped e meanwhile: the row is written with what it holds.
  <2>5. CASE seen.status # status[e]
    <3>1. gseen[g][e] # Expired /\ seen = gseen[g][e]
      BY <2>5 DEF SeenRow, Row
    <3>2. ~OneGenerator
      BY <2>2, <2>5, <3>1 DEF StatusInv, SessionInv, Row
    <3>3. PICK q \in Signals \cap TerminalReasons :
            status[e] = SkipStatus(current_step[e], q)
      BY <2>3, <2>5, <3>1 DEF CopiesInv, StoppedHere
    <3>4. r \in Signals
      <4>1. seen.step \in 0..MaxSteps
        BY SeenRowType DEF TypeInv, Rows
      <4> QED BY <2>1, <4>1, StopReasonIsSignal DEF TypeInv
    <3>5. SkipStatus(seen.step, r) = status[e]
      BY <2>3, <3>2, <3>3, <3>4 DEF StopsAgree, SkipStatus
    <3>6. status' = status
      BY <2>1, <3>5 DEF TypeInv, TypeOK
    <3> QED BY <1>1, <2>2, <3>6
  <2> QED BY <2>4, <2>5
<1>3. ASSUME NEW d \in Dispatchers, NEW t \in Touches, SendStop(d, t)
      PROVE  [Sequence!Next]_(Sequence!rows)
  <2>1. PICK r \in TerminalReasons :
            LET to == SkipStatus(current_step[t[1]], r) IN
            IF to \in ALLOWED_TRANSITIONS[status[t[1]]]
              THEN status' = [status EXCEPT ![t[1]] = to] /\ LeaveUnsent(d, t)
              ELSE UNCHANGED status /\ LeaveRolledBack(d, t)
    BY <1>3 DEF SendStop
  <2>2. UNCHANGED current_step /\ t[1] \in Enrollments
    BY <1>3 DEF SendStop, Touches
  <2>3. CASE SkipStatus(current_step[t[1]], r) \in ALLOWED_TRANSITIONS[status[t[1]]]
    BY <2>1, <2>2, <2>3, SequenceStop
  <2>4. CASE SkipStatus(current_step[t[1]], r) \notin ALLOWED_TRANSITIONS[status[t[1]]]
    BY <1>1, <2>1, <2>2, <2>4
  <2> QED BY <2>3, <2>4
<1>4. ASSUME NEW d \in Dispatchers, SendCommit(d)
      PROVE  [Sequence!Next]_(Sequence!rows)
  <2> DEFINE t == dcur[d]
             e == t[1]
  <2>1. /\ t \in Touches /\ e \in Enrollments /\ t[2] = current_step[e] + 1
        /\ drow[d] = Row(e) /\ status[e] \in SCHEDULABLE_STATUSES
    BY <1>4, PageHoldsNext DEF SendCommit, StatusInv, SendsFromRow
  <2>2. current_step[e] \in 0..MaxSteps /\ t[2] \in Steps
    BY <2>1 DEF TypeInv, TypeOK, Touches
  <2>3. current_step[e] < MaxSteps /\ ~(drow[d].step >= t[2])
    BY <2>1, <2>2, OutreachAssumption DEF Steps, Row
  <2>4. /\ current_step' = [current_step EXCEPT ![e] = t[2]]
        /\ status' = IF AdvancedStatus(t) = drow[d].status THEN status
                     ELSE [status EXCEPT ![e] = AdvancedStatus(t)]
    BY <1>4, <2>3 DEF SendCommit, advance_enrollment
  <2>5. status' = [status EXCEPT ![e] = AdvancedStatus(t)]
    <3>1. drow[d].status = status[e]
      BY <2>1 DEF Row
    <3>2. status \in [Enrollments -> EnrollmentStatuses]
      BY DEF TypeInv, TypeOK
    <3>3. CASE AdvancedStatus(t) = status[e]
      BY <2>1, <2>4, <3>1, <3>2, <3>3
    <3>4. CASE AdvancedStatus(t) # status[e]
      BY <2>4, <3>1, <3>4
    <3> QED BY <3>3, <3>4
  <2>6. current_step' = [current_step EXCEPT ![e] = @ + 1]
    BY <2>1, <2>4
  <2>7. AdvancedStatus(t) \in {"in_progress", "completed"}
    BY DEF AdvancedStatus
  <2>8. Sequence!Advance(e)
    BY <2>1, <2>3, <2>5, <2>6, <2>7, SequenceGate DEF Sequence!Advance
  <2> QED BY <2>1, <2>8 DEF Sequence!Next
<1>5. ASSUME NEW g \in Generators, Generate(g) \/ GenerateError(g) \/ GenerateCrash(g)
      PROVE  UNCHANGED <<status, current_step>> \/ \E e \in Enrollments : GenerateStop(g, e)
  BY <1>5 DEF Generate, GenerateError, GenerateCrash, select_due_enrollments,
      GenerateSkip, GenerateAbort, GenerateEligible, record_touch, GenerateCommit
<1>6. ASSUME NEW d \in Dispatchers, Dispatch(d) \/ DispatchCrash(d)
      PROVE  \/ UNCHANGED <<status, current_step>>
             \/ SendCommit(d) \/ \E t \in Touches : SendStop(d, t)
  BY <1>6 DEF Dispatch, DispatchCrash, DispatchSelect, SendDenied, SendSkip, SendStart,
      SendRefused, SendError, DispatchReturn
<1>7. ASSUME \/ \E r \in Reviewers : Review(r)
             \/ \E f \in Enrollments : ClientEvent(f)
             \/ add_campaign_step \/ PauseCampaign \/ UNCHANGED vars
      PROVE  UNCHANGED <<status, current_step>>
  BY <1>7 DEF Review, DecideRead, DecideCommit, ClientEvent, record_sms_reply,
      record_suppression, SignalArrives, SignalLeaves, BecomesDue, add_campaign_step,
      PauseCampaign, vars
<1>8. CASE \E g \in Generators : Generate(g) \/ GenerateError(g) \/ GenerateCrash(g)
  BY <1>1, <1>2, <1>5, <1>8
<1>9. CASE \E d \in Dispatchers : Dispatch(d) \/ DispatchCrash(d)
  BY <1>1, <1>3, <1>4, <1>6, <1>9
<1> QED BY <1>1, <1>7, <1>8, <1>9 DEF Next

\* With one dispatch run at a time, Outreach implements EnrollmentSequence when
\* there is also one generation run, or when all that may stop a touched
\* enrollment stops it in the same status: although a run decides from copies it
\* read long before, every write it makes is an allowed move of the row itself.
THEOREM OutreachFollowsSequence ==
    ASSUME OneDispatch, OneGenerator \/ (HistoryStays /\ StopsAgree)
    PROVE  Spec => FollowsSequence
<1>1. Init => Sequence!Init
  BY DEF Init, Sequence!Init
<1>2. Init => CopiesInv
  BY DEF Init, CopiesInv
<1>3. TypeInv /\ TypeInv' /\ OrderInv /\ StepInv /\ StepInv' /\ StatusInv /\ CopiesInv
        /\ [Next]_vars => CopiesInv'
  BY CopiesStep
<1>4. TypeInv /\ OrderInv /\ StepInv /\ StatusInv /\ CopiesInv /\ [Next]_vars
        => [Sequence!Next]_(Sequence!rows)
  BY SequenceStep
<1> QED BY <1>1, <1>2, <1>3, <1>4, StatusInvariant, PTL
        DEF Spec, FollowsSequence, Sequence!Spec
=============================================================================
