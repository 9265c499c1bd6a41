---------------------------- MODULE InsightsProofs ----------------------------
(***************************************************************************)
(* Proofs about Insights for every number of findings, funds, groups,      *)
(* requests and agents.                                                    *)
(***************************************************************************)
EXTENDS Insights, TLAPS, FiniteSetTheorems

\* The rules have read f and not committed.
RuleHas(f) == f \in rtodo \/ rout[f] # "none"

\* An actor holds one committed finding; what it settles is a change of label.
ActorInv ==
    \A a \in Actors :
        /\ \A f, h \in find[a] : f = h
        /\ \A f \in find[a] : insight[f] # "none"
        /\ pc[a] = "settled" => \A f \in find[a] : kind[f] = "lifecycle"
        /\ plan[a] # {} => pc[a] = "settled"

\* The rules hold committed changes of label, settled in id order.
RuleInv ==
    /\ \A f \in Findings : RuleHas(f) => insight[f] # "none" /\ kind[f] = "lifecycle"
    /\ \A f \in rtodo : rout[f] = "none" /\ \A h \in Findings : rout[h] # "none" => h < f
    /\ \A f \in Findings : rplan[f] # {} => rout[f] = "applied"

\* What a group has written is not committed and its own.
GroupInv ==
    \A g, i \in Groups : \A f \in gwrote[g] : insight[f] = "none" /\ (f \in gwrote[i] => g = i)

\* Whoever has a finding in hand knows of the others.
ClashInv ==
    /\ \A a, b \in Actors : a # b => find[a] \cap find[b] \subseteq clashed
    /\ \A a \in Actors : \A f \in find[a] : RuleHas(f) => f \in clashed

\* The state of a finding that one transaction has in hand is the one it read.
StateInv ==
    /\ \A a \in Actors : \A f \in find[a] \ clashed :
        /\ pc[a] \in {"loaded", "locked"} => Allowed(insight[f], verb[a])
        /\ pc[a] = "settled" => insight[f] = "new"
        /\ pc[a] \in {"accepted", "chosen"} => insight[f] = "accepted"
    /\ \A f \in Findings \ clashed : RuleHas(f) => insight[f] = "new"

HandInv == ClashInv /\ StateInv

\* Proposals and applied changes belong to findings that were acted on.
AnswerInv ==
    /\ \A f \in Findings \ clashed :
        /\ outcome[f] = "applied" => insight[f] = "acted_on"
        /\ insight[f] # "acted_on" => proposals[f] = 0
    /\ WorkedOnce /\ AppliedIsActedOn

\* The findings that are written, committed or not.
Written == {f \in Findings : ~Unwritten(f)}

BudgetInv == Cardinality(Written) <= taken

\* The label the rules will find on x when they come to f.
LabelBefore(x, f) == LabelAfter(x, {h \in Findings : x \in rplan[h] /\ h < f})

\* A fund in one plan has the label that plan leaves.
PlanInv ==
    /\ \A a, b \in Actors : a # b => plan[a] \cap plan[b] \subseteq raced
    /\ \A a \in Actors, f \in Findings : plan[a] \cap rplan[f] \subseteq raced
    /\ \A a \in Actors : \A f \in find[a] : \A x \in plan[a] \ raced : label[x] = FromLabel(target[f])
    /\ \A f \in Findings : \A x \in rplan[f] \ raced : LabelBefore(x, f) = FromLabel(target[f])
    /\ FlaggedOncePerMove

BookInv == ActorInv /\ RuleInv /\ GroupInv

-----------------------------------------------------------------------------
\* Findings are finite in number, so they can be counted.
LEMMA CountFindings ==
    ASSUME NEW S \in SUBSET Findings
    PROVE  IsFiniteSet(S) /\ Cardinality(S) \in Nat
<1>1. IsFiniteSet(S)
  BY InsightsAssumption, FS_Subset
<1> QED BY <1>1, FS_CardinalityType

\* Settling a finding comes to one of the outcomes.
LEMMA VerdictType ==
    ASSUME TypeOK, NEW f \in Findings, NEW e, NEW b \in BOOLEAN PROVE Verdict(f, e, b) \in Outcomes
<1>1. policy[target[f]] \in {"none", "automatic", "needs_a_person"}
  BY DEF TypeOK
<1> QED BY <1>1 DEF Verdict, Outcomes, OPEN_OUTCOMES

\* The labels and the notes stay well typed when states are changed.
LEMMA ChangeTypes ==
    ASSUME TypeOK, NEW plans, ChangeStates(plans)
    PROVE  label' \in [Funds -> Labels] /\ flags' \in [Funds -> Nat] /\ moves' \in [Funds -> Nat]
<1> DEFINE Of(x) == {f \in Findings : x \in plans[f]}
           Dormant(x) == {f \in Of(x) : target[f] = "dormant"}
           Real(x) == {f \in Dormant(x) : LabelAfter(x, {h \in Of(x) : h < f}) = "active"}
<1>1. /\ label' = [x \in Funds |-> LabelAfter(x, Of(x))]
      /\ flags' = [x \in Funds |-> flags[x] + Cardinality(Dormant(x))]
      /\ moves' = [x \in Funds |-> moves[x] + Cardinality(Real(x))]
  BY DEF ChangeStates
<1>2. ASSUME NEW x \in Funds PROVE Cardinality(Dormant(x)) \in Nat /\ Cardinality(Real(x)) \in Nat
  <2>1. Dormant(x) \in SUBSET Findings /\ Real(x) \in SUBSET Findings
    OBVIOUS
  <2> HIDE DEF Dormant, Real
  <2> QED BY <2>1, CountFindings
<1>3. \A x \in Funds : LabelAfter(x, Of(x)) \in Labels
  BY DEF LabelAfter, Labels, TypeOK
<1>4. \A x \in Funds : flags[x] \in Nat /\ moves[x] \in Nat
  BY DEF TypeOK
<1> HIDE DEF Of, Dormant, Real
<1>5. \A x \in Funds : flags[x] + Cardinality(Dormant(x)) \in Nat /\ moves[x] + Cardinality(Real(x)) \in Nat
  BY <1>2, <1>4
<1> QED BY <1>1, <1>3, <1>5

\* An actor that leaves is well typed.
LEMMA LeaveTypes ==
    ASSUME TypeOK, NEW a \in Actors, Leave(a)
    PROVE  /\ pc' \in [Actors -> {"idle", "loaded", "locked", "settled", "accepted", "chosen"}]
           /\ find' \in [Actors -> SUBSET Findings]
           /\ verb' \in [Actors -> {"none", "accept", "dismiss"}]
           /\ plan' \in [Actors -> SUBSET Funds]
           /\ read' \in [Actors -> Outcomes]
BY DEF TypeOK, Leave, Outcomes

\* The rules' own state is well typed when they are done.
LEMMA EndRulesTypes ==
    EndRules => rtodo' \subseteq Findings /\ rplan' \in [Findings -> SUBSET Funds] /\ rout' \in [Findings -> Outcomes]
BY DEF EndRules, Outcomes

LEMMA TypeStep == TypeOK /\ [Next]_vars => TypeOK'
<1> SUFFICES ASSUME TypeOK, [Next]_vars PROVE TypeOK'
  OBVIOUS
<1> USE InsightsAssumption DEF findings, labels, ruleVars, actorVars
<1>1. ASSUME NEW g \in Groups, NEW f \in Findings, write_insight(g, f) PROVE TypeOK'
  <2>1. taken' \in 0 .. Cap
    BY <1>1 DEF write_insight, TakePlace, TypeOK
  <2> QED BY <1>1, <2>1 DEF write_insight, TakePlace, TypeOK
<1>2. ASSUME NEW g \in Groups, NEW f \in Findings, write_lifecycle_change(g, f) PROVE TypeOK'
  <2>1. taken' \in 0 .. Cap
    BY <1>2 DEF write_lifecycle_change, TakePlace, TypeOK
  <2>2. PICK t \in Targets, funds \in SUBSET Funds :
            target' = [target EXCEPT ![f] = t] /\ members' = [members EXCEPT ![f] = funds]
    BY <1>2 DEF write_lifecycle_change
  <2>3. t \in Labels
    BY DEF Labels
  <2> QED BY <1>2, <2>1, <2>2, <2>3 DEF write_lifecycle_change, TakePlace, TypeOK
<1>3. ASSUME NEW g \in Groups, GroupCommit(g) PROVE TypeOK'
  <2>1. /\ insight' \in [Findings -> TERMINAL_STATES \cup {"none", "new", "accepted"}]
        /\ outcome' \in [Findings -> Outcomes]
    BY <1>3 DEF GroupCommit, TypeOK, Outcomes, OPEN_OUTCOMES
  <2> QED BY <1>3, <2>1 DEF GroupCommit, TypeOK
<1>4. ASSUME NEW g \in Groups, GroupFail(g) PROVE TypeOK'
  <2>1. kind' \in [Findings -> {"none", "action", "lifecycle"}]
        /\ target' \in [Findings -> Labels] /\ members' \in [Findings -> SUBSET Funds]
    BY <1>4 DEF GroupFail, TypeOK, Labels
  <2> QED BY <1>4, <2>1 DEF GroupFail, TypeOK
<1>5. ASSUME NEW t \in Targets, NEW mode \in {"none", "automatic", "needs_a_person"}, SetPolicy(t, mode)
      PROVE  TypeOK'
  BY <1>5 DEF SetPolicy, TypeOK, Labels
<1>6. CASE RulesRead
  <2>1. rtodo' \subseteq Findings /\ clashed' \subseteq Findings
    BY <1>6 DEF RulesRead, TypeOK
  <2> QED BY <1>6, <2>1 DEF RulesRead, TypeOK
<1>7. CASE RulesCommit
  <2>1. ChangeStates(rplan) /\ EndRules
    BY <1>7 DEF RulesCommit
  <2>2. /\ insight' \in [Findings -> TERMINAL_STATES \cup {"none", "new", "accepted"}]
        /\ outcome' \in [Findings -> Outcomes]
    BY <1>7 DEF RulesCommit, TypeOK, TERMINAL_STATES
  <2> QED BY <1>7, <2>1, <2>2, ChangeTypes, EndRulesTypes DEF RulesCommit, TypeOK
<1>8. CASE RulesFail
  BY <1>8, EndRulesTypes DEF RulesFail, TypeOK
<1>9. ASSUME NEW f \in Findings, RulesSettle(f) PROVE TypeOK'
  <2>1. PICK e \in SUBSET members[f] :
            /\ rout' = [rout EXCEPT ![f] = Verdict(f, e, FALSE)]
            /\ rplan' = [rplan EXCEPT ![f] = IF Verdict(f, e, FALSE) = "applied" THEN e ELSE {}]
            /\ raced' = IF Verdict(f, e, FALSE) = "applied" THEN raced \cup (e \cap UNION {plan[a] : a \in Actors})
                        ELSE raced
    BY <1>9 DEF RulesSettle
  <2>2. e \subseteq Funds
    BY <2>1 DEF TypeOK
  <2>3. rout' \in [Findings -> Outcomes]
    BY <2>1, VerdictType DEF TypeOK
  <2>4. rplan' \in [Findings -> SUBSET Funds] /\ raced' \subseteq Funds
    BY <2>1, <2>2 DEF TypeOK
  <2> QED BY <1>9, <2>3, <2>4 DEF RulesSettle, TypeOK
<1>10. ASSUME NEW a \in Actors, DecideLock(a) PROVE TypeOK'
  BY <1>10 DEF DecideLock, TypeOK
<1>11. ASSUME NEW a \in Actors, ActorFail(a) PROVE TypeOK'
  BY <1>11, LeaveTypes DEF ActorFail, TypeOK
<1>12. ASSUME NEW a \in Actors, NEW f \in Findings, NEW v \in {"accept", "dismiss"}, DecideRead(a, f, v)
       PROVE  TypeOK'
  <2>1. clashed' \subseteq Findings
    BY <1>12 DEF DecideRead, Enter, TypeOK
  <2> QED BY <1>12, <2>1 DEF DecideRead, Enter, TypeOK
<1>13. ASSUME NEW a \in Actors, NEW f \in Findings, ToolRead(a, f) PROVE TypeOK'
  <2>1. clashed' \subseteq Findings
    BY <1>13 DEF ToolRead, Enter, TypeOK
  <2> QED BY <1>13, <2>1 DEF ToolRead, Enter, TypeOK
<1>14. ASSUME NEW a \in Actors, NEW f \in Findings, DecideSettle(a, f) PROVE TypeOK'
  <2>1. PICK e \in SUBSET members[f] :
            /\ read' = [read EXCEPT ![a] = Verdict(f, e, TRUE)]
            /\ plan' = [plan EXCEPT ![a] = IF Verdict(f, e, TRUE) = "applied" THEN e ELSE {}]
            /\ raced' = IF Verdict(f, e, TRUE) = "applied" THEN raced \cup (e \cap (Planned(a) \cup RulePlanned))
                        ELSE raced
    BY <1>14 DEF DecideSettle
  <2>2. e \subseteq Funds
    BY <2>1 DEF TypeOK
  <2>3. read' \in [Actors -> Outcomes]
    BY <2>1, VerdictType DEF TypeOK
  <2>4. plan' \in [Actors -> SUBSET Funds] /\ raced' \subseteq Funds
    BY <2>1, <2>2 DEF TypeOK
  <2> QED BY <1>14, <2>3, <2>4 DEF DecideSettle, TypeOK
<1>15. ASSUME NEW a \in Actors, NEW f \in Findings, SettleCommit(a, f) PROVE TypeOK'
  <2>1. ChangeStates([h \in Findings |-> IF h = f THEN plan[a] ELSE {}]) /\ Leave(a)
    BY <1>15 DEF SettleCommit
  <2>2. /\ insight' \in [Findings -> TERMINAL_STATES \cup {"none", "new", "accepted"}]
        /\ outcome' \in [Findings -> Outcomes]
    BY <1>15 DEF SettleCommit, TypeOK, TERMINAL_STATES
  <2> QED BY <1>15, <2>1, <2>2, ChangeTypes, LeaveTypes DEF SettleCommit, TypeOK
<1>16. ASSUME NEW a \in Actors, NEW f \in Findings, DecideCommit(a, f) PROVE TypeOK'
  <2>1. insight' \in [Findings -> TERMINAL_STATES \cup {"none", "new", "accepted"}]
    BY <1>16 DEF DecideCommit, TypeOK, TERMINAL_STATES
  <2>2. CASE Leave(a)
    BY <1>16, <2>1, <2>2, LeaveTypes DEF DecideCommit, TypeOK
  <2>3. CASE pc' = [pc EXCEPT ![a] = "accepted"] /\ UNCHANGED <<find, verb, plan, read>>
    BY <1>16, <2>1, <2>3 DEF DecideCommit, TypeOK
  <2> QED BY <1>16, <2>2, <2>3 DEF DecideCommit
<1>17. ASSUME NEW a \in Actors, NEW f \in Findings, ActionRead(a, f) PROVE TypeOK'
  <2>1. CASE Leave(a)
    BY <1>17, <2>1, LeaveTypes DEF ActionRead, TypeOK
  <2>2. CASE pc' = [pc EXCEPT ![a] = "chosen"] /\ UNCHANGED <<find, verb, plan, read>>
    BY <1>17, <2>2 DEF ActionRead, TypeOK
  <2> QED BY <1>17, <2>1, <2>2 DEF ActionRead
<1>18. ASSUME NEW a \in Actors, NEW f \in Findings, Propose(a, f) PROVE TypeOK'
  <2>1. insight' \in [Findings -> TERMINAL_STATES \cup {"none", "new", "accepted"}]
    BY <1>18 DEF Propose, TypeOK, TERMINAL_STATES
  <2>2. proposals' \in [Findings -> Nat]
    BY <1>18 DEF Propose, TypeOK
  <2> QED BY <1>18, <2>1, <2>2, LeaveTypes DEF Propose, TypeOK
<1>19. CASE UNCHANGED vars
  BY <1>19 DEF vars, TypeOK
<1> HIDE DEF TypeOK
<1> QED BY <1>1, <1>2, <1>3, <1>4, <1>5, <1>6, <1>7, <1>8, <1>9, <1>10, <1>11, <1>12, <1>13,
        <1>14, <1>15, <1>16, <1>17, <1>18, <1>19 DEF Next

LEMMA InitTypes == Init => TypeOK
<1> USE InsightsAssumption
<1>1. 0 \in 0 .. Cap
  OBVIOUS
<1> QED BY <1>1 DEF Init, TypeOK, Labels, Outcomes

\* Insights is type correct.
THEOREM InsightTypes == Spec => []TypeOK
BY InitTypes, TypeStep, PTL DEF Spec

-----------------------------------------------------------------------------
\* A committed finding stays committed and says what it said.
LEMMA CommittedStep ==
    ASSUME TypeOK, BookInv, [Next]_vars, NEW f \in Findings, insight[f] # "none"
    PROVE  insight'[f] # "none" /\ kind'[f] = kind[f] /\ target'[f] = target[f]
<1> DEFINE Goal == insight'[f] # "none" /\ kind'[f] = kind[f] /\ target'[f] = target[f]
<1> SUFFICES Goal
  OBVIOUS
<1>1. ASSUME NEW g \in Groups, NEW h \in Findings, write_insight(g, h) \/ write_lifecycle_change(g, h) PROVE Goal
  <2>1. h # f /\ insight' = insight /\ \E k : kind' = [kind EXCEPT ![h] = k]
    BY <1>1 DEF write_insight, write_lifecycle_change, TakePlace, Unwritten
  <2>2. target' = target \/ \E t : target' = [target EXCEPT ![h] = t]
    BY <1>1 DEF write_insight, write_lifecycle_change
  <2> QED BY <2>1, <2>2 DEF TypeOK
<1>2. ASSUME NEW g \in Groups, GroupCommit(g) PROVE Goal
  BY <1>2 DEF GroupCommit
<1>3. ASSUME NEW g \in Groups, GroupFail(g) PROVE Goal
  <2>1. f \notin gwrote[g]
    BY DEF BookInv, GroupInv
  <2> QED BY <1>3, <2>1 DEF GroupFail
<1>4. CASE RulesCommit
  BY <1>4 DEF RulesCommit
<1>5. ASSUME NEW a \in Actors, NEW h \in Findings,
             SettleCommit(a, h) \/ DecideCommit(a, h) \/ Propose(a, h)
      PROVE  Goal
  <2>1. UNCHANGED <<kind, target>> /\ \E i : insight' = [insight EXCEPT ![h] = i] /\ (h = f => i # "none")
    BY <1>5 DEF SettleCommit, DecideCommit, Propose
  <2> QED BY <2>1 DEF TypeOK
<1>6. CASE UNCHANGED <<insight, kind, target>>
  BY <1>6
<1> HIDE DEF Goal
<1> QED BY <1>1, <1>2, <1>3, <1>4, <1>5, <1>6
      DEF Next, vars, findings, SetPolicy, RulesRead, RulesFail, RulesSettle, DecideLock, ActorFail, DecideRead,
          DecideSettle, ToolRead, ActionRead

\* What actors hold.
LEMMA ActorStep == TypeOK /\ BookInv /\ [Next]_vars => ActorInv'
<1> SUFFICES ASSUME TypeOK, BookInv, [Next]_vars PROVE ActorInv'
  OBVIOUS
<1> DEFINE Quiet(a) == \/ find'[a] = {} /\ plan'[a] = {}
                       \/ find'[a] = find[a] /\ plan'[a] = plan[a] /\ pc'[a] = pc[a]
           Holds(a) == /\ \A f, h \in find'[a] : f = h
                       /\ \A f \in find'[a] : insight'[f] # "none"
                       /\ pc'[a] = "settled" => \A f \in find'[a] : kind'[f] = "lifecycle"
                       /\ plan'[a] # {} => pc'[a] = "settled"
<1>a. \A f \in Findings : insight[f] # "none" => insight'[f] # "none" /\ kind'[f] = kind[f]
  BY CommittedStep
<1>b. \A a \in Actors : \A f \in find[a] : f \in Findings /\ insight[f] # "none"
  BY DEF TypeOK, BookInv, ActorInv
<1>c. ASSUME NEW a \in Actors, Quiet(a) PROVE Holds(a)
  BY <1>a, <1>b, <1>c DEF BookInv, ActorInv
<1>d. ASSUME \A a \in Actors : Holds(a) PROVE ActorInv'
  BY <1>d DEF ActorInv
<1>1. CASE \A a \in Actors : Quiet(a)
  BY <1>1, <1>c, <1>d
<1>2. ASSUME NEW a \in Actors, Leave(a) PROVE ActorInv'
  <2>1. \A b \in Actors : Quiet(b)
    BY <1>2 DEF Leave, TypeOK
  <2> QED BY <1>1, <2>1
<1>3. ASSUME NEW a \in Actors, NEW f \in Findings, NEW l \in {"loaded", "chosen"}, Enter(a, f, l), pc[a] = "idle",
             UNCHANGED plan, insight[f] # "none"
      PROVE  ActorInv'
  <2>1. \A b \in Actors \ {a} : Quiet(b)
    BY <1>3 DEF Enter, TypeOK
  <2>2. find'[a] = {f} /\ pc'[a] = l /\ plan'[a] = {}
    BY <1>3 DEF Enter, TypeOK, BookInv, ActorInv
  <2>3. Holds(a)
    BY <1>3, <1>a, <2>2
  <2> QED BY <1>c, <1>d, <2>1, <2>3
<1>4. ASSUME NEW a \in Actors, NEW l \in {"locked", "accepted", "chosen"}, pc' = [pc EXCEPT ![a] = l],
             pc[a] # "settled", UNCHANGED <<find, plan>>
      PROVE  ActorInv'
  <2>1. \A b \in Actors \ {a} : Quiet(b)
    BY <1>4 DEF TypeOK
  <2>2. find'[a] = find[a] /\ pc'[a] = l /\ plan'[a] = {}
    BY <1>4 DEF TypeOK, BookInv, ActorInv
  <2>3. Holds(a)
    BY <1>a, <1>b, <2>2 DEF BookInv, ActorInv
  <2> QED BY <1>c, <1>d, <2>1, <2>3
<1>5. ASSUME NEW a \in Actors, NEW f \in Findings, NEW v \in {"accept", "dismiss"}, DecideRead(a, f, v)
      PROVE  ActorInv'
  <2>1. Enter(a, f, "loaded") /\ pc[a] = "idle" /\ UNCHANGED plan /\ insight[f] # "none"
    BY <1>5 DEF DecideRead, Allowed
  <2> QED BY <1>3, <2>1
<1>6. ASSUME NEW a \in Actors, NEW f \in Findings, ToolRead(a, f) PROVE ActorInv'
  <2>1. Enter(a, f, "chosen") /\ pc[a] = "idle" /\ UNCHANGED plan /\ insight[f] # "none"
    BY <1>6 DEF ToolRead
  <2> QED BY <1>3, <2>1
<1>7. ASSUME NEW a \in Actors, DecideLock(a) PROVE ActorInv'
  BY <1>4, <1>7 DEF DecideLock
<1>8. ASSUME NEW a \in Actors, NEW f \in Findings, DecideCommit(a, f) \/ ActionRead(a, f) PROVE ActorInv'
  <2>1. CASE Leave(a)
    BY <1>2, <2>1
  <2>2. CASE ~Leave(a)
    <3>1. pc[a] # "settled" /\ UNCHANGED <<find, plan>>
          /\ \E l \in {"accepted", "chosen"} : pc' = [pc EXCEPT ![a] = l]
      BY <1>8, <2>2 DEF DecideCommit, ActionRead
    <3> QED BY <1>4, <3>1
  <2> QED BY <2>1, <2>2
<1>9. ASSUME NEW a \in Actors, NEW f \in Findings, DecideSettle(a, f) PROVE ActorInv'
  <2>1. /\ pc' = [pc EXCEPT ![a] = "settled"] /\ find' = find
        /\ f \in find[a] /\ kind[f] = "lifecycle"
        /\ \E P : plan' = [plan EXCEPT ![a] = P]
    BY <1>9 DEF DecideSettle
  <2>2. \A b \in Actors \ {a} : Quiet(b)
    BY <2>1 DEF TypeOK
  <2>3. find'[a] = find[a] /\ pc'[a] = "settled" /\ \A h \in find[a] : h = f
    BY <2>1 DEF TypeOK, BookInv, ActorInv
  <2>4. Holds(a)
    BY <1>a, <1>b, <2>1, <2>3
  <2> QED BY <1>c, <1>d, <2>2, <2>4
<1>10. ASSUME NEW a \in Actors, NEW f \in Findings, SettleCommit(a, f) \/ Propose(a, f) PROVE ActorInv'
  BY <1>2, <1>10 DEF SettleCommit, Propose
<1>11. ASSUME NEW a \in Actors, ActorFail(a) PROVE ActorInv'
  BY <1>2, <1>11 DEF ActorFail
<1>12. CASE UNCHANGED <<pc, find, plan>>
  BY <1>1, <1>12
<1> HIDE DEF Quiet, Holds
<1> QED BY <1>5, <1>6, <1>7, <1>8, <1>9, <1>10, <1>11, <1>12
      DEF Next, vars, actorVars, write_insight, write_lifecycle_change, GroupCommit, GroupFail, SetPolicy, RulesRead,
          RulesCommit, RulesFail, RulesSettle

\* What the rules hold.
LEMMA RuleStep == TypeOK /\ BookInv /\ [Next]_vars => RuleInv'
<1> SUFFICES ASSUME TypeOK, BookInv, [Next]_vars PROVE RuleInv'
  OBVIOUS
<1>a. \A f \in Findings : insight[f] # "none" => insight'[f] # "none" /\ kind'[f] = kind[f]
  BY CommittedStep
<1>1. CASE UNCHANGED ruleVars
  BY <1>1, <1>a DEF ruleVars, BookInv, RuleInv, RuleHas, TypeOK
<1>2. CASE EndRules
  BY <1>2 DEF EndRules, RuleInv, RuleHas
<1>3. CASE RulesRead
  <2>1. /\ rtodo' = {f \in Findings : kind[f] = "lifecycle" /\ insight[f] = "new" /\ outcome[f] = "pending"}
        /\ UNCHANGED <<rout, rplan, insight, kind>> /\ \A f \in Findings : rout[f] = "none"
    BY <1>3 DEF RulesRead, findings
  <2> QED BY <2>1 DEF BookInv, RuleInv, RuleHas
<1>4. ASSUME NEW f \in Findings, RulesSettle(f) PROVE RuleInv'
  <2>1. PICK e, v :
            /\ rout' = [rout EXCEPT ![f] = v]
            /\ rplan' = [rplan EXCEPT ![f] = IF v = "applied" THEN e ELSE {}]
    BY <1>4 DEF RulesSettle
  <2>2. /\ f \in rtodo /\ (\A h \in rtodo : f <= h) /\ rtodo' = rtodo \ {f} /\ UNCHANGED <<insight, kind>>
    BY <1>4 DEF RulesSettle, findings
  <2>3. /\ \A h \in Findings : rout'[h] = IF h = f THEN v ELSE rout[h]
        /\ \A h \in Findings : rplan'[h] = IF h = f THEN (IF v = "applied" THEN e ELSE {}) ELSE rplan[h]
    BY <2>1 DEF TypeOK
  <2>4. \A h \in Findings : RuleHas(h)' => RuleHas(h)
    BY <2>2, <2>3 DEF RuleHas
  <2>5. \A h \in Findings : RuleHas(h)' => insight'[h] # "none" /\ kind'[h] = "lifecycle"
    BY <2>2, <2>4 DEF BookInv, RuleInv
  <2>6. \A h \in Findings : rplan'[h] # {} => rout'[h] = "applied"
    BY <2>3 DEF BookInv, RuleInv
  <2>7. ASSUME NEW h \in rtodo' PROVE rout'[h] = "none" /\ \A i \in Findings : rout'[i] # "none" => i < h
    <3>1. h \in rtodo /\ h # f /\ h \in Findings /\ h \in Nat /\ f \in Nat
      BY <2>2, InsightsAssumption DEF TypeOK
    <3>2. f < h
      BY <2>2, <3>1
    <3>3. rout'[h] = "none" /\ \A i \in Findings : rout[i] # "none" => i < h
      BY <2>3, <3>1 DEF BookInv, RuleInv
    <3> QED BY <2>3, <3>2, <3>3
  <2> QED BY <2>5, <2>6, <2>7 DEF RuleInv
<1>5. ASSUME NEW g \in Groups, GroupCommit(g) \/ GroupFail(g)
             \/ (\E f \in Findings : write_insight(g, f) \/ write_lifecycle_change(g, f))
      PROVE  RuleInv'
  BY <1>1, <1>5 DEF GroupCommit, GroupFail, write_insight, write_lifecycle_change
<1>6. ASSUME NEW a \in Actors, DecideLock(a) \/ ActorFail(a) PROVE RuleInv'
  BY <1>1, <1>6 DEF DecideLock, ActorFail
<1>7. ASSUME NEW a \in Actors, NEW f \in Findings,
             (\E v \in {"accept", "dismiss"} : DecideRead(a, f, v)) \/ DecideSettle(a, f) \/ SettleCommit(a, f)
             \/ DecideCommit(a, f) \/ ToolRead(a, f) \/ ActionRead(a, f) \/ Propose(a, f)
      PROVE  RuleInv'
  BY <1>1, <1>7 DEF DecideRead, DecideSettle, SettleCommit, DecideCommit, ToolRead, ActionRead, Propose
<1>8. ASSUME NEW t, NEW mode, SetPolicy(t, mode) PROVE RuleInv'
  BY <1>1, <1>8 DEF SetPolicy
<1>9. CASE RulesCommit \/ RulesFail
  BY <1>2, <1>9 DEF RulesCommit, RulesFail
<1>10. CASE UNCHANGED vars
  BY <1>1, <1>10 DEF vars
<1> QED BY <1>3, <1>4, <1>5, <1>6, <1>7, <1>8, <1>9, <1>10 DEF Next

\* What groups have written.
LEMMA GroupStep == TypeOK /\ BookInv /\ [Next]_vars => GroupInv'
<1> SUFFICES ASSUME TypeOK, BookInv, [Next]_vars PROVE GroupInv'
  OBVIOUS
<1>a. \A g \in Groups : gwrote[g] \subseteq Findings
  BY DEF TypeOK
<1>1. ASSUME UNCHANGED gwrote, \A f \in Findings : insight[f] = "none" => insight'[f] = "none" PROVE GroupInv'
  BY <1>1, <1>a DEF BookInv, GroupInv
<1>2. ASSUME NEW g \in Groups, NEW f \in Findings, TakePlace(g, f), UNCHANGED insight PROVE GroupInv'
  BY <1>2 DEF TakePlace, Unwritten, BookInv, GroupInv, TypeOK
<1>3. ASSUME NEW g \in Groups, GroupCommit(g) \/ GroupFail(g) PROVE GroupInv'
  <2>1. /\ gwrote' = [gwrote EXCEPT ![g] = {}]
        /\ \A f \in Findings \ gwrote[g] : insight'[f] = insight[f]
    BY <1>3 DEF GroupCommit, GroupFail
  <2> QED BY <1>a, <2>1 DEF BookInv, GroupInv, TypeOK
<1>4. CASE RulesCommit
  <2>1. \A f \in Findings : rout[f] = "applied" => insight[f] # "none"
    BY DEF BookInv, RuleInv, RuleHas
  <2> QED BY <1>1, <1>4, <2>1 DEF RulesCommit
<1>5. ASSUME NEW a \in Actors, NEW f \in Findings,
             SettleCommit(a, f) \/ DecideCommit(a, f) \/ Propose(a, f)
      PROVE  GroupInv'
  <2>1. f \in find[a] /\ UNCHANGED gwrote /\ \E i : insight' = [insight EXCEPT ![f] = i]
    BY <1>5 DEF SettleCommit, DecideCommit, Propose
  <2>2. insight[f] # "none"
    BY <2>1 DEF BookInv, ActorInv
  <2> QED BY <1>1, <2>1, <2>2 DEF TypeOK
<1>6. CASE UNCHANGED <<insight, gwrote>>
  BY <1>1, <1>6
<1> QED BY <1>2, <1>3, <1>4, <1>5, <1>6
      DEF Next, vars, findings, write_insight, write_lifecycle_change, SetPolicy, RulesRead, RulesFail, RulesSettle,
          DecideLock, ActorFail, DecideRead, DecideSettle, ToolRead, ActionRead

LEMMA InitBook == Init => BookInv
BY DEF Init, BookInv, ActorInv, RuleInv, RuleHas, GroupInv

LEMMA BookStep == TypeOK /\ BookInv /\ [Next]_vars => BookInv'
BY ActorStep, RuleStep, GroupStep DEF BookInv

-----------------------------------------------------------------------------
\* No more findings are written than places were taken.
LEMMA CapStep == TypeOK /\ BookInv /\ BudgetInv /\ [Next]_vars => BudgetInv'
<1> SUFFICES ASSUME TypeOK, BookInv, Cardinality(Written) <= taken, [Next]_vars
             PROVE  Cardinality(Written') <= taken'
  BY DEF BudgetInv
<1>a. Written \in SUBSET Findings /\ taken \in Nat
  BY InsightsAssumption DEF Written, TypeOK
<1>b. IsFiniteSet(Written) /\ Cardinality(Written) \in Nat
  BY <1>a, CountFindings
<1>1. ASSUME taken' = taken, Written' \subseteq Written PROVE Cardinality(Written') <= taken'
  <2>1. IsFiniteSet(Written') /\ Cardinality(Written') <= Cardinality(Written) /\ Cardinality(Written') \in Nat
    BY <1>b, <1>1, FS_Subset, FS_CardinalityType
  <2> QED BY <1>a, <1>b, <1>1, <2>1
<1>2. ASSUME UNCHANGED <<taken, gwrote>>, \A f \in Findings : insight[f] = "none" => insight'[f] = "none"
      PROVE  Cardinality(Written') <= taken'
  BY <1>1, <1>2 DEF Written, Unwritten
<1>3. ASSUME NEW g \in Groups, NEW f \in Findings, TakePlace(g, f), UNCHANGED insight
      PROVE  Cardinality(Written') <= taken'
  <2>1. f \notin Written /\ Written' = Written \cup {f}
    BY <1>3 DEF TakePlace, Written, Unwritten, TypeOK
  <2>2. taken' = taken + 1
    BY <1>3 DEF TakePlace, PlaceLeft
  <2>3. Cardinality(Written') = Cardinality(Written) + 1
    BY <1>b, <2>1, FS_AddElement
  <2> QED BY <1>a, <1>b, <2>2, <2>3
<1>4. ASSUME NEW g \in Groups, GroupCommit(g) \/ GroupFail(g) PROVE Cardinality(Written') <= taken'
  <2>1. /\ gwrote' = [gwrote EXCEPT ![g] = {}] /\ taken' = taken
        /\ \A f \in Findings \ gwrote[g] : insight'[f] = insight[f]
    BY <1>4 DEF GroupCommit, GroupFail
  <2>2. \A i \in Groups : gwrote'[i] \subseteq gwrote[i]
    BY <2>1 DEF TypeOK
  <2>3. Written' \subseteq Written
    BY <2>1, <2>2 DEF Written, Unwritten
  <2> QED BY <1>1, <2>1, <2>3
<1>5. CASE RulesCommit
  <2>1. \A f \in Findings : rout[f] = "applied" => insight[f] # "none"
    BY DEF BookInv, RuleInv, RuleHas
  <2> QED BY <1>2, <1>5, <2>1 DEF RulesCommit
<1>6. ASSUME NEW a \in Actors, NEW f \in Findings,
             SettleCommit(a, f) \/ DecideCommit(a, f) \/ Propose(a, f)
      PROVE  Cardinality(Written') <= taken'
  <2>1. f \in find[a] /\ UNCHANGED <<taken, gwrote>> /\ \E i : insight' = [insight EXCEPT ![f] = i]
    BY <1>6 DEF SettleCommit, DecideCommit, Propose
  <2>2. insight[f] # "none"
    BY <2>1 DEF BookInv, ActorInv
  <2> QED BY <1>2, <2>1, <2>2 DEF TypeOK
<1>7. CASE UNCHANGED <<insight, taken, gwrote>>
  BY <1>2, <1>7
<1> QED BY <1>3, <1>4, <1>5, <1>6, <1>7
      DEF Next, vars, findings, write_insight, write_lifecycle_change, SetPolicy, RulesRead, RulesFail, RulesSettle,
          DecideLock, ActorFail, DecideRead, DecideSettle, ToolRead, ActionRead

\* The groups of a run together keep to the cap.
THEOREM BudgetHolds == Spec => []CapKept
<1>1. Init => BudgetInv
  <2> SUFFICES ASSUME Init PROVE Cardinality(Written) <= taken
    BY DEF BudgetInv
  <2>1. Written = {} /\ taken = 0
    BY DEF Init, Written, Unwritten
  <2> QED BY <2>1, FS_EmptySet
<1>2. TypeOK /\ BudgetInv => CapKept
  <2>1. Written \in SUBSET Findings
    BY DEF Written
  <2>2. Cardinality(Written) \in Nat
    BY <2>1, CountFindings
  <2> QED BY <2>2, InsightsAssumption DEF TypeOK, BudgetInv, CapKept, Written
<1> QED BY <1>1, <1>2, InitTypes, InitBook, TypeStep, BookStep, CapStep, PTL DEF Spec

-----------------------------------------------------------------------------
\* Who has what in hand, and in which state.
LEMMA HandStep == TypeOK /\ BookInv /\ HandInv /\ [Next]_vars => HandInv'
<1> SUFFICES ASSUME TypeOK, BookInv, HandInv, [Next]_vars PROVE HandInv'
  OBVIOUS
<1> DEFINE Same(a) == find'[a] = find[a] /\ pc'[a] = pc[a] /\ verb'[a] = verb[a]
           Free(f) == (\A a \in Actors : f \notin find'[a]) /\ ~RuleHas(f)'
<1>a. \A a \in Actors : find[a] \subseteq Findings
  BY DEF TypeOK
\* Nothing is taken in hand, and a finding that moves is out of hand or clashed.
<1>1. ASSUME clashed \subseteq clashed',
             \A a \in Actors : find'[a] = {} \/ Same(a),
             \A f \in Findings : RuleHas(f)' => RuleHas(f),
             \A f \in Findings \ clashed' : insight'[f] = insight[f] \/ Free(f)
      PROVE  HandInv'
  <2>1. ClashInv'
    BY <1>1, <1>a DEF HandInv, ClashInv
  <2>2. StateInv'
    BY <1>1, <1>a DEF HandInv, StateInv
  <2> QED BY <2>1, <2>2 DEF HandInv
<1>2. ASSUME NEW g \in Groups, GroupCommit(g) \/ GroupFail(g)
             \/ (\E f \in Findings : write_insight(g, f) \/ write_lifecycle_change(g, f))
      PROVE  HandInv'
  <2>1. /\ UNCHANGED <<clashed, find, pc, verb, rtodo, rout>>
        /\ \A f \in Findings \ gwrote[g] : insight'[f] = insight[f]
    BY <1>2 DEF GroupCommit, GroupFail, write_insight, write_lifecycle_change, ruleVars, actorVars
  <2>2. \A f \in gwrote[g] : Free(f)
    BY <2>1 DEF BookInv, ActorInv, RuleInv, GroupInv, RuleHas, TypeOK
  <2>3. \A f \in Findings : RuleHas(f)' => RuleHas(f)
    BY <2>1 DEF RuleHas
  <2> QED BY <1>1, <2>1, <2>2, <2>3
<1>3. CASE RulesRead
  <2>1. /\ rtodo' = {f \in Findings : kind[f] = "lifecycle" /\ insight[f] = "new" /\ outcome[f] = "pending"}
        /\ UNCHANGED <<rout, insight, find, pc, verb>> /\ \A f \in Findings : rout[f] = "none"
        /\ clashed' = clashed \cup (rtodo' \cap UNION {find[a] : a \in Actors})
    BY <1>3 DEF RulesRead, findings, actorVars
  <2>2. ClashInv'
    BY <1>a, <2>1 DEF HandInv, ClashInv, RuleHas
  <2>3. StateInv'
    BY <2>1 DEF HandInv, StateInv, RuleHas
  <2> QED BY <2>2, <2>3 DEF HandInv
<1>4. CASE RulesCommit
  <2>1. /\ UNCHANGED <<clashed, find, pc, verb>> /\ EndRules
        /\ \A f \in Findings : rout[f] # "applied" => insight'[f] = insight[f]
    BY <1>4 DEF RulesCommit, actorVars
  <2>2. \A f \in Findings : ~RuleHas(f)'
    BY <2>1 DEF EndRules, RuleHas
  <2>3. \A f \in Findings \ clashed : rout[f] = "applied" => Free(f)
    BY <2>1, <2>2 DEF HandInv, ClashInv, RuleHas
  <2> QED BY <1>1, <2>1, <2>2, <2>3
<1>5. CASE RulesFail
  <2>1. UNCHANGED <<clashed, find, pc, verb, insight>> /\ EndRules
    BY <1>5 DEF RulesFail, findings, actorVars
  <2>2. \A f \in Findings : ~RuleHas(f)'
    BY <2>1 DEF EndRules, RuleHas
  <2> QED BY <1>1, <2>1, <2>2
<1>6. ASSUME NEW f \in Findings, RulesSettle(f) PROVE HandInv'
  <2>1. /\ UNCHANGED <<clashed, find, pc, verb, insight>> /\ f \in rtodo /\ rtodo' = rtodo \ {f}
        /\ \E v : rout' = [rout EXCEPT ![f] = v]
    BY <1>6 DEF RulesSettle, findings, actorVars
  <2>2. \A h \in Findings : RuleHas(h)' => RuleHas(h)
    BY <2>1 DEF RuleHas, TypeOK
  <2> QED BY <1>1, <2>1, <2>2
\* A finding is taken in hand.
<1>7. ASSUME NEW a \in Actors, NEW f \in Findings, NEW l \in {"loaded", "chosen"}, Enter(a, f, l),
             UNCHANGED <<insight, rtodo, rout>>, \A b \in Actors \ {a} : verb'[b] = verb[b],
             l = "loaded" => Allowed(insight[f], verb'[a]), l = "chosen" => insight[f] = "accepted"
      PROVE  HandInv'
  <2>1. /\ \A b \in Actors \ {a} : Same(b)
        /\ find'[a] = {f} /\ pc'[a] = l
        /\ clashed \subseteq clashed' /\ (f \in InHand(a) \/ RuleHas(f) => f \in clashed')
    BY <1>7 DEF Enter, RuleHas, TypeOK
  <2>2. \A h \in Findings : RuleHas(h)' <=> RuleHas(h)
    BY <1>7 DEF RuleHas
  <2>3. \A b \in Actors \ {a} : f \in find[b] => f \in clashed'
    BY <2>1 DEF InHand
  <2>4. ClashInv'
    <3>1. ASSUME NEW b \in Actors, NEW c \in Actors, b # c, NEW h \in find'[b], h \in find'[c] PROVE h \in clashed'
      BY <2>1, <2>3, <3>1 DEF HandInv, ClashInv
    <3>2. ASSUME NEW b \in Actors, NEW h \in find'[b], RuleHas(h)' PROVE h \in clashed'
      <4>1. h \in Findings /\ RuleHas(h)
        BY <1>a, <2>1, <2>2, <3>2
      <4> QED BY <2>1, <4>1 DEF HandInv, ClashInv
    <3> QED BY <3>1, <3>2 DEF ClashInv
  <2>5. StateInv'
    <3>1. \A h \in Findings \ clashed' : RuleHas(h)' => insight'[h] = "new"
      BY <1>7, <2>1, <2>2 DEF HandInv, StateInv
    <3>2. ASSUME NEW b \in Actors, NEW h \in find'[b] \ clashed'
          PROVE  /\ pc'[b] \in {"loaded", "locked"} => Allowed(insight'[h], verb'[b])
                 /\ pc'[b] = "settled" => insight'[h] = "new"
                 /\ pc'[b] \in {"accepted", "chosen"} => insight'[h] = "accepted"
      <4>1. CASE b = a
        BY <1>7, <2>1, <3>2, <4>1
      <4>2. CASE b # a
        BY <1>7, <2>1, <3>2, <4>2 DEF HandInv, StateInv
      <4> QED BY <4>1, <4>2
    <3> QED BY <3>1, <3>2 DEF StateInv
  <2> QED BY <2>4, <2>5 DEF HandInv
<1>8. ASSUME NEW a \in Actors, NEW f \in Findings, NEW v \in {"accept", "dismiss"}, DecideRead(a, f, v)
      PROVE  HandInv'
  <2>1. /\ Enter(a, f, "loaded") /\ UNCHANGED <<insight, rtodo, rout>>
        /\ Allowed(insight[f], v) /\ verb' = [verb EXCEPT ![a] = v]
    BY <1>8 DEF DecideRead, findings, ruleVars
  <2>2. verb'[a] = v /\ \A b \in Actors \ {a} : verb'[b] = verb[b]
    BY <2>1 DEF TypeOK
  <2> QED BY <1>7, <2>1, <2>2
<1>9. ASSUME NEW a \in Actors, NEW f \in Findings, ToolRead(a, f) PROVE HandInv'
  <2>1. /\ Enter(a, f, "chosen") /\ UNCHANGED <<insight, rtodo, rout, verb>> /\ insight[f] = "accepted"
    BY <1>9 DEF ToolRead, findings, ruleVars
  <2> QED BY <1>7, <2>1
\* An actor goes on with what it has.
<1>10. ASSUME NEW a \in Actors, NEW l \in {"locked", "settled", "accepted", "chosen"}, pc' = [pc EXCEPT ![a] = l],
              UNCHANGED <<find, verb, rtodo, rout, clashed>>,
              \A f \in find[a] \ clashed : /\ l = "locked" => Allowed(insight'[f], verb[a])
                                           /\ l = "settled" => insight'[f] = "new"
                                           /\ l \in {"accepted", "chosen"} => insight'[f] = "accepted",
              \A f \in Findings \ find[a] : insight'[f] = insight[f]
       PROVE  HandInv'
  <2>1. ClashInv'
    BY <1>10 DEF HandInv, ClashInv, RuleHas
  <2>2. \A h \in Findings \ clashed : RuleHas(h)' => insight'[h] = "new"
    BY <1>10 DEF HandInv, ClashInv, StateInv, RuleHas
  <2>3. ASSUME NEW b \in Actors, NEW h \in find[b] \ clashed
        PROVE  /\ pc'[b] \in {"loaded", "locked"} => Allowed(insight'[h], verb[b])
               /\ pc'[b] = "settled" => insight'[h] = "new"
               /\ pc'[b] \in {"accepted", "chosen"} => insight'[h] = "accepted"
    <3>1. CASE b = a
      BY <1>10, <2>3, <3>1 DEF TypeOK
    <3>2. CASE b # a
      <4>1. h \in Findings \ find[a] /\ pc'[b] = pc[b]
        BY <1>a, <1>10, <2>3, <3>2 DEF HandInv, ClashInv, TypeOK
      <4> QED BY <1>10, <2>3, <4>1 DEF HandInv, StateInv
    <3> QED BY <3>1, <3>2
  <2>4. StateInv'
    BY <1>10, <2>2, <2>3 DEF StateInv
  <2> QED BY <2>1, <2>4 DEF HandInv
\* An actor is done with what it has.
<1>11. ASSUME NEW a \in Actors, Leave(a), UNCHANGED <<rtodo, rout, clashed>>,
              \A f \in Findings \ find[a] : insight'[f] = insight[f]
       PROVE  HandInv'
  <2>1. \A b \in Actors : find'[b] = {} \/ Same(b)
    BY <1>11 DEF Leave, TypeOK
  <2>2. \A h \in Findings : RuleHas(h)' <=> RuleHas(h)
    BY <1>11 DEF RuleHas
  <2>3. find'[a] = {} /\ \A b \in Actors \ {a} : find'[b] = find[b]
    BY <1>11 DEF Leave, TypeOK
  <2>4. \A f \in find[a] \ clashed : Free(f)
    BY <1>a, <2>2, <2>3 DEF HandInv, ClashInv
  <2> QED BY <1>1, <1>11, <2>1, <2>2, <2>4
<1>12. ASSUME NEW a \in Actors, DecideLock(a) PROVE HandInv'
  <2>1. pc[a] = "loaded" /\ pc' = [pc EXCEPT ![a] = "locked"] /\ UNCHANGED <<find, verb, rtodo, rout, clashed, insight>>
    BY <1>12 DEF DecideLock, findings, ruleVars
  <2>2. \A f \in find[a] \ clashed : Allowed(insight[f], verb[a])
    BY <2>1 DEF HandInv, StateInv
  <2> QED BY <1>10, <2>1, <2>2
<1>13. ASSUME NEW a \in Actors, NEW f \in Findings, DecideSettle(a, f) PROVE HandInv'
  <2>1. /\ pc[a] = "locked" /\ pc' = [pc EXCEPT ![a] = "settled"] /\ verb[a] = "accept"
        /\ UNCHANGED <<find, verb, rtodo, rout, clashed, insight>>
    BY <1>13 DEF DecideSettle, findings, ruleVars
  <2>2. \A h \in find[a] \ clashed : insight[h] = "new"
    BY <2>1 DEF HandInv, StateInv, Allowed
  <2> QED BY <1>10, <2>1, <2>2
<1>14. ASSUME NEW a \in Actors, NEW f \in Findings, SettleCommit(a, f) \/ Propose(a, f) PROVE HandInv'
  <2>1. /\ Leave(a) /\ UNCHANGED <<rtodo, rout, clashed>> /\ f \in find[a]
        /\ \E i : insight' = [insight EXCEPT ![f] = i]
    BY <1>14 DEF SettleCommit, Propose, ruleVars
  <2>2. \A h \in Findings \ find[a] : insight'[h] = insight[h]
    BY <2>1 DEF TypeOK
  <2> QED BY <1>11, <2>1, <2>2
<1>15. ASSUME NEW a \in Actors, NEW f \in Findings, DecideCommit(a, f) PROVE HandInv'
  <2>1. /\ UNCHANGED <<rtodo, rout, clashed>> /\ f \in find[a]
        /\ \E i : insight' = [insight EXCEPT ![f] = i]
    BY <1>15 DEF DecideCommit, ruleVars
  <2>2. \A h \in Findings \ find[a] : insight'[h] = insight[h]
    BY <2>1 DEF TypeOK
  <2>3. CASE Leave(a)
    BY <1>11, <2>1, <2>2, <2>3
  <2>4. CASE ~Leave(a)
    <3>1. /\ pc' = [pc EXCEPT ![a] = "accepted"] /\ UNCHANGED <<find, verb>>
          /\ insight' = [insight EXCEPT ![f] = "accepted"]
      BY <1>15, <2>4 DEF DecideCommit
    <3>2. \A h \in find[a] : insight'[h] = "accepted"
      BY <2>1, <3>1 DEF BookInv, ActorInv, TypeOK
    <3> QED BY <1>10, <2>1, <2>2, <3>1, <3>2
  <2> QED BY <2>3, <2>4
<1>16. ASSUME NEW a \in Actors, NEW f \in Findings, ActionRead(a, f) PROVE HandInv'
  <2>1. UNCHANGED <<rtodo, rout, clashed, insight>> /\ f \in find[a]
    BY <1>16 DEF ActionRead, ruleVars, findings
  <2>2. CASE Leave(a)
    BY <1>11, <2>1, <2>2
  <2>3. CASE ~Leave(a)
    <3>1. /\ pc' = [pc EXCEPT ![a] = "chosen"] /\ UNCHANGED <<find, verb>> /\ insight[f] = "accepted"
      BY <1>16, <2>3 DEF ActionRead
    <3>2. \A h \in find[a] : insight'[h] = "accepted"
      BY <2>1, <3>1 DEF BookInv, ActorInv
    <3> QED BY <1>10, <2>1, <3>1, <3>2
  <2> QED BY <2>2, <2>3
<1>17. ASSUME NEW a \in Actors, ActorFail(a) PROVE HandInv'
  BY <1>11, <1>17 DEF ActorFail, ruleVars, findings
<1>18. CASE UNCHANGED <<clashed, find, pc, verb, rtodo, rout, insight>>
  <2>1. \A h \in Findings : RuleHas(h)' <=> RuleHas(h)
    BY <1>18 DEF RuleHas
  <2> QED BY <1>1, <1>18, <2>1
<1> HIDE DEF Same, Free
<1> QED BY <1>2, <1>3, <1>4, <1>5, <1>6, <1>8, <1>9, <1>12, <1>13, <1>14, <1>15, <1>16, <1>17, <1>18
      DEF Next, vars, findings, ruleVars, actorVars, SetPolicy

LEMMA InitHand == Init => HandInv
BY DEF Init, HandInv, ClashInv, StateInv, RuleHas

\* A decided finding stays decided unless two transactions had it in hand.
THEOREM DecidedStays == Spec => TerminalStays
<1>1. TypeOK /\ BookInv /\ HandInv /\ [Next]_vars =>
        [\A f \in Findings \ clashed : insight[f] \in TERMINAL_STATES => insight'[f] = insight[f]]_vars
  <2> SUFFICES ASSUME TypeOK, BookInv, HandInv, [Next]_vars, NEW f \in Findings \ clashed,
                      insight[f] \in TERMINAL_STATES
               PROVE  insight'[f] = insight[f]
    OBVIOUS
  <2>a. insight[f] \notin {"none", "new", "accepted"}
    BY DEF TERMINAL_STATES
  <2>1. ASSUME NEW g \in Groups, GroupCommit(g) PROVE insight'[f] = insight[f]
    <3>1. f \notin gwrote[g]
      BY <2>a DEF BookInv, GroupInv
    <3> QED BY <2>1, <3>1 DEF GroupCommit
  <2>2. CASE RulesCommit
    <3>1. rout[f] = "none"
      BY <2>a DEF HandInv, StateInv, RuleHas
    <3> QED BY <2>2, <3>1 DEF RulesCommit
  <2>3. ASSUME NEW a \in Actors, NEW h \in Findings,
               SettleCommit(a, h) \/ DecideCommit(a, h) \/ Propose(a, h)
        PROVE  insight'[f] = insight[f]
    <3>1. h \in find[a] /\ pc[a] \in {"settled", "locked", "chosen"} /\ \E i : insight' = [insight EXCEPT ![h] = i]
      BY <2>3 DEF SettleCommit, DecideCommit, Propose
    <3>2. h # f
      BY <2>a, <3>1 DEF HandInv, StateInv, Allowed
    <3> QED BY <3>1, <3>2 DEF TypeOK
  <2>4. CASE UNCHANGED insight
    BY <2>4
  <2> QED BY <2>1, <2>2, <2>3, <2>4
        DEF Next, vars, findings, write_insight, write_lifecycle_change, GroupFail, SetPolicy, RulesRead, RulesFail,
            RulesSettle, DecideLock, ActorFail, DecideRead, DecideSettle, ToolRead, ActionRead
<1> QED BY <1>1, InitTypes, InitBook, InitHand, TypeStep, BookStep, HandStep, PTL DEF Spec, TerminalStays

-----------------------------------------------------------------------------
\* How findings are answered.
LEMMA AnswerStep == TypeOK /\ BookInv /\ HandInv /\ AnswerInv /\ [Next]_vars => AnswerInv'
<1> SUFFICES ASSUME TypeOK, BookInv, HandInv, AnswerInv, [Next]_vars PROVE AnswerInv'
  OBVIOUS
<1> DEFINE Answered(f) ==
             /\ outcome[f] = "applied" => insight[f] = "acted_on"
             /\ insight[f] # "acted_on" => proposals[f] = 0
             /\ proposals[f] <= IF outcome[f] = "applied" THEN 0 ELSE 1
             /\ kind[f] = "lifecycle" => (insight[f] = "acted_on" <=> (outcome[f] = "applied" \/ proposals[f] > 0))
<1>a. \A f \in Findings \ clashed : Answered(f)
  BY DEF AnswerInv, WorkedOnce, AppliedIsActedOn
<1>b. ASSUME \A f \in Findings \ clashed' : Answered(f)' PROVE AnswerInv'
  BY <1>b DEF AnswerInv, WorkedOnce, AppliedIsActedOn
<1>c. \A f \in Findings \ clashed : insight[f] # "acted_on" => outcome[f] # "applied" /\ proposals[f] = 0
  BY <1>a
<1>d. clashed \subseteq clashed'
  <2>1. CASE RulesRead
    BY <2>1 DEF RulesRead
  <2>2. ASSUME NEW a, NEW f, NEW l, Enter(a, f, l) PROVE clashed \subseteq clashed'
    BY <2>2 DEF Enter
  <2>3. ASSUME NEW a \in Actors, NEW f \in Findings, ToolRead(a, f) \/ \E v \in {"accept", "dismiss"} : DecideRead(a, f, v)
        PROVE  clashed \subseteq clashed'
    BY <2>2, <2>3 DEF ToolRead, DecideRead
  <2>4. CASE UNCHANGED clashed
    BY <2>4
  <2> QED BY <2>1, <2>3, <2>4
        DEF Next, vars, write_insight, write_lifecycle_change, GroupCommit, GroupFail, SetPolicy, RulesCommit, RulesFail,
            RulesSettle, DecideLock, ActorFail, DecideSettle, SettleCommit, DecideCommit, ActionRead, Propose
<1>1. ASSUME \A f \in Findings \ clashed : /\ insight'[f] = insight[f] /\ outcome'[f] = outcome[f]
                                           /\ proposals'[f] = proposals[f]
                                           /\ kind'[f] = kind[f] \/ insight[f] = "none"
      PROVE  AnswerInv'
  <2>1. ASSUME NEW f \in Findings \ clashed PROVE Answered(f)'
    <3>1. Answered(f)
      BY <1>a
    <3>2. CASE kind'[f] = kind[f]
      BY <1>1, <3>1, <3>2
    <3>3. CASE insight[f] = "none"
      BY <1>1, <3>1, <3>3
    <3> QED BY <1>1, <3>2, <3>3
  <2> QED BY <1>b, <1>d, <2>1
<1>2. ASSUME NEW g \in Groups, NEW f \in Findings, write_insight(g, f) \/ write_lifecycle_change(g, f)
      PROVE  AnswerInv'
  <2>1. insight[f] = "none" /\ UNCHANGED <<insight, outcome, proposals>> /\ \E k : kind' = [kind EXCEPT ![f] = k]
    BY <1>2 DEF write_insight, write_lifecycle_change, TakePlace, Unwritten
  <2> QED BY <1>1, <2>1 DEF TypeOK
<1>3. ASSUME NEW g \in Groups, GroupFail(g) PROVE AnswerInv'
  BY <1>1, <1>3 DEF GroupFail, BookInv, GroupInv
<1>4. ASSUME NEW g \in Groups, GroupCommit(g) PROVE AnswerInv'
  <2>1. ASSUME NEW f \in Findings \ clashed PROVE Answered(f)'
    <3>1. UNCHANGED <<proposals, kind>> /\ insight'[f] = (IF f \in gwrote[g] THEN "new" ELSE insight[f])
          /\ outcome'[f] = (IF f \in gwrote[g] /\ kind[f] = "lifecycle" THEN "pending" ELSE outcome[f])
      BY <1>4 DEF GroupCommit
    <3>2. CASE f \in gwrote[g]
      <4>1. insight[f] = "none"
        BY <3>2 DEF BookInv, GroupInv
      <4>2. outcome[f] # "applied" /\ proposals[f] = 0
        BY <1>c, <4>1
      <4> QED BY <3>1, <3>2, <4>2
    <3>3. CASE f \notin gwrote[g]
      <4>1. Answered(f)
        BY <1>a
      <4> QED BY <3>1, <3>3, <4>1
    <3> QED BY <3>2, <3>3
  <2> QED BY <1>b, <1>d, <2>1
<1>5. CASE RulesCommit
  <2>1. ASSUME NEW f \in Findings \ clashed PROVE Answered(f)'
    <3>1. UNCHANGED <<proposals, kind>> /\ insight'[f] = (IF rout[f] = "applied" THEN "acted_on" ELSE insight[f])
          /\ outcome'[f] = (IF rout[f] # "none" THEN rout[f] ELSE outcome[f])
      BY <1>5 DEF RulesCommit
    <3>2. CASE rout[f] # "none"
      <4>1. insight[f] = "new"
        BY <3>2 DEF HandInv, StateInv, RuleHas
      <4>2. proposals[f] = 0
        BY <1>c, <4>1
      <4> QED BY <3>1, <3>2, <4>1, <4>2
    <3>3. CASE rout[f] = "none"
      <4>1. Answered(f)
        BY <1>a
      <4> QED BY <3>1, <3>3, <4>1
    <3> QED BY <3>2, <3>3
  <2> QED BY <1>b, <1>d, <2>1
<1>6. ASSUME NEW a \in Actors, NEW h \in Findings, SettleCommit(a, h) PROVE AnswerInv'
  <2>1. ASSUME NEW f \in Findings \ clashed PROVE Answered(f)'
    <3>1. /\ UNCHANGED <<proposals, kind>> /\ h \in find[a] /\ pc[a] = "settled"
          /\ insight'[f] = (IF f = h THEN (IF read[a] = "applied" THEN "acted_on" ELSE "accepted") ELSE insight[f])
          /\ outcome'[f] = (IF f = h THEN read[a] ELSE outcome[f])
      BY <1>6 DEF SettleCommit, TypeOK
    <3>2. CASE f = h
      <4>1. insight[f] = "new"
        BY <3>1, <3>2 DEF HandInv, StateInv
      <4>2. proposals[f] = 0
        BY <1>c, <4>1
      <4> QED BY <3>1, <3>2, <4>2
    <3>3. CASE f # h
      <4>1. Answered(f)
        BY <1>a
      <4> QED BY <3>1, <3>3, <4>1
    <3> QED BY <3>2, <3>3
  <2> QED BY <1>b, <1>d, <2>1
<1>7. ASSUME NEW a \in Actors, NEW h \in Findings, DecideCommit(a, h) PROVE AnswerInv'
  <2>1. ASSUME NEW f \in Findings \ clashed PROVE Answered(f)'
    <3>1. /\ UNCHANGED <<proposals, kind, outcome>> /\ h \in find[a] /\ pc[a] = "locked"
          /\ f # h => insight'[f] = insight[f]
          /\ f = h => insight'[f] \in {"accepted", "dismissed"}
      BY <1>7 DEF DecideCommit, TypeOK
    <3>2. CASE f = h
      <4>1. insight[f] # "acted_on"
        BY <3>1, <3>2 DEF HandInv, StateInv, Allowed
      <4>2. outcome[f] # "applied" /\ proposals[f] = 0
        BY <1>c, <4>1
      <4> QED BY <3>1, <3>2, <4>2
    <3>3. CASE f # h
      <4>1. Answered(f)
        BY <1>a
      <4> QED BY <3>1, <3>3, <4>1
    <3> QED BY <3>2, <3>3
  <2> QED BY <1>b, <1>d, <2>1
<1>8. ASSUME NEW a \in Actors, NEW h \in Findings, Propose(a, h) PROVE AnswerInv'
  <2>1. ASSUME NEW f \in Findings \ clashed PROVE Answered(f)'
    <3>1. /\ UNCHANGED <<kind, outcome>> /\ h \in find[a] /\ pc[a] = "chosen"
          /\ insight'[f] = (IF f = h /\ insight[f] = "accepted" THEN "acted_on" ELSE insight[f])
          /\ proposals'[f] = (IF f = h THEN proposals[f] + 1 ELSE proposals[f])
      BY <1>8 DEF Propose, TypeOK
    <3>2. CASE f = h
      <4>1. insight[f] = "accepted"
        BY <3>1, <3>2 DEF HandInv, StateInv
      <4>2. outcome[f] # "applied" /\ proposals[f] = 0
        BY <1>c, <4>1
      <4> QED BY <3>1, <3>2, <4>1, <4>2
    <3>3. CASE f # h
      <4>1. Answered(f)
        BY <1>a
      <4> QED BY <3>1, <3>3, <4>1
    <3> QED BY <3>2, <3>3
  <2> QED BY <1>b, <1>d, <2>1
<1>9. CASE UNCHANGED <<insight, outcome, proposals, kind>>
  BY <1>1, <1>9
<1> HIDE DEF Answered
<1> QED BY <1>2, <1>3, <1>4, <1>5, <1>6, <1>7, <1>8, <1>9
      DEF Next, vars, findings, SetPolicy, RulesRead, RulesFail, RulesSettle, DecideLock, ActorFail, DecideRead,
          DecideSettle, ToolRead, ActionRead

LEMMA InitAnswer == Init => AnswerInv
BY DEF Init, AnswerInv, WorkedOnce, AppliedIsActedOn

\* A finding is answered once unless two transactions had it in hand.
THEOREM AnsweredOnce == Spec => []WorkedOnce
<1>1. AnswerInv => WorkedOnce
  BY DEF AnswerInv
<1> QED BY <1>1, InitTypes, InitBook, InitHand, InitAnswer, TypeStep, BookStep, HandStep, AnswerStep, PTL DEF Spec

\* A change of label is acted on exactly when it was applied or answered.
THEOREM ChangesAppliedAreClosed == Spec => []AppliedIsActedOn
<1>1. AnswerInv => AppliedIsActedOn
  BY DEF AnswerInv
<1> QED BY <1>1, InitTypes, InitBook, InitHand, InitAnswer, TypeStep, BookStep, HandStep, AnswerStep, PTL DEF Spec

-----------------------------------------------------------------------------
\* A change of states tells of exactly the funds that became dormant, when every
\* plan starts from the label it leaves; a fund in no plan keeps its label.
LEMMA ChangeTold ==
    ASSUME TypeOK, NEW plans \in [Findings -> SUBSET Funds], ChangeStates(plans), NEW x \in Funds, flags[x] = moves[x],
           \A f \in Findings : x \in plans[f] =>
              LabelAfter(x, {h \in Findings : x \in plans[h] /\ h < f}) = FromLabel(target[f])
    PROVE  flags'[x] = moves'[x] /\ ((\A f \in Findings : x \notin plans[f]) => label'[x] = label[x])
<1> DEFINE Of == {f \in Findings : x \in plans[f]}
           Dormant == {f \in Of : target[f] = "dormant"}
           Real == {f \in Dormant : LabelAfter(x, {h \in Of : h < f}) = "active"}
<1>1. /\ label'[x] = LabelAfter(x, Of)
      /\ flags'[x] = flags[x] + Cardinality(Dormant)
      /\ moves'[x] = moves[x] + Cardinality(Real)
  BY DEF ChangeStates
<1>2. ASSUME NEW f \in Dormant PROVE f \in Real
  <2>1. {h \in Findings : x \in plans[h] /\ h < f} = {h \in Of : h < f}
    OBVIOUS
  <2>2. LabelAfter(x, {h \in Of : h < f}) = FromLabel(target[f])
    BY <2>1
  <2> QED BY <2>2 DEF FromLabel
<1>3. Dormant = Real
  BY <1>2
<1>4. (\A f \in Findings : x \notin plans[f]) => label'[x] = label[x]
  BY <1>1 DEF LabelAfter
<1> HIDE DEF Dormant, Real
<1> QED BY <1>1, <1>3, <1>4

LEMMA PlanStep == TypeOK /\ BookInv /\ PlanInv /\ [Next]_vars => PlanInv'
<1> SUFFICES ASSUME TypeOK, BookInv, PlanInv, [Next]_vars PROVE PlanInv'
  OBVIOUS
<1>a. \A f \in Findings : insight[f] # "none" => target'[f] = target[f]
  BY CommittedStep
<1>b. \A a \in Actors : \A f \in find[a] : f \in Findings /\ target'[f] = target[f]
  BY <1>a DEF TypeOK, BookInv, ActorInv
<1>c. \A f \in Findings : rplan[f] # {} => rout[f] = "applied" /\ target'[f] = target[f]
  BY <1>a DEF BookInv, RuleInv, RuleHas
<1>d. (\A a \in Actors : plan[a] \subseteq Funds) /\ (\A f \in Findings : rplan[f] \subseteq Funds)
  BY DEF TypeOK
\* The rules' plans and the label of x stay.
<1>e. ASSUME NEW x \in Funds, NEW f \in Findings, label'[x] = label[x], UNCHANGED rplan, x \in rplan[f]
      PROVE  LabelBefore(x, f)' = LabelBefore(x, f)
  <2> DEFINE S == {h \in Findings : x \in rplan[h] /\ h < f}
  <2>1. LabelBefore(x, f)' = LabelAfter(x, S)' /\ LabelBefore(x, f) = LabelAfter(x, S)
    BY <1>e DEF LabelBefore
  <2>2. \A h \in S : target'[h] = target[h]
    BY <1>c
  <2> QED BY <1>e, <2>1, <2>2 DEF LabelAfter
\* No label changes and no plan is made.
<1>1. ASSUME raced \subseteq raced', UNCHANGED labels,
             \A a \in Actors : plan'[a] = {} \/ (plan'[a] = plan[a] /\ find'[a] = find[a]),
             rplan' = rplan \/ \A f \in Findings : rplan'[f] = {}
      PROVE  PlanInv'
  <2>1. \A a, b \in Actors : a # b => plan'[a] \cap plan'[b] \subseteq raced'
    BY <1>1 DEF PlanInv
  <2>2. \A a \in Actors, f \in Findings : plan'[a] \cap rplan'[f] \subseteq raced'
    BY <1>1 DEF PlanInv
  <2>3. \A a \in Actors : \A f \in find'[a] : \A x \in plan'[a] \ raced' : label'[x] = FromLabel(target'[f])
    BY <1>1, <1>b DEF PlanInv, labels
  <2>4. ASSUME NEW f \in Findings, NEW x \in rplan'[f] \ raced' PROVE LabelBefore(x, f)' = FromLabel(target'[f])
    <3>1. rplan' = rplan /\ x \in rplan[f] \ raced /\ x \in Funds
      BY <1>1, <1>d, <2>4
    <3>2. LabelBefore(x, f)' = LabelBefore(x, f)
      BY <1>1, <1>e, <3>1 DEF labels
    <3> QED BY <1>c, <3>1, <3>2 DEF PlanInv
  <2>5. FlaggedOncePerMove'
    BY <1>1 DEF PlanInv, FlaggedOncePerMove, labels
  <2> QED BY <2>1, <2>2, <2>3, <2>4, <2>5 DEF PlanInv
<1>2. ASSUME NEW f \in Findings, RulesSettle(f) PROVE PlanInv'
  <2>1. PICK e, v :
            /\ e \in SUBSET {x \in members[f] : LabelAfter(x, {h \in Findings : x \in rplan[h]}) = FromLabel(target[f])}
            /\ rplan' = [rplan EXCEPT ![f] = IF v = "applied" THEN e ELSE {}]
            /\ raced' = IF v = "applied" THEN raced \cup (e \cap UNION {plan[a] : a \in Actors}) ELSE raced
    BY <1>2 DEF RulesSettle
  <2>2. UNCHANGED <<find, plan, label, flags, moves, target>> /\ f \in rtodo
    BY <1>2 DEF RulesSettle, findings, labels, actorVars
  <2>3. \A h \in Findings : rplan'[h] = IF h = f THEN (IF v = "applied" THEN e ELSE {}) ELSE rplan[h]
    BY <2>1 DEF TypeOK
  <2>4. rplan[f] = {} /\ \A h \in Findings : rplan[h] # {} => h < f /\ ~(f < h) /\ h # f
    <3>1. rout[f] = "none" /\ \A h \in Findings : rout[h] # "none" => h < f
      BY <2>2 DEF BookInv, RuleInv
    <3>2. \A h \in Findings : h < f => ~(f < h) /\ h # f
      BY InsightsAssumption
    <3> QED BY <1>c, <3>1, <3>2
  <2>5. raced \subseteq raced' /\ \A a \in Actors : v = "applied" => e \cap plan[a] \subseteq raced'
    BY <2>1
  <2>6. \A a, b \in Actors : a # b => plan'[a] \cap plan'[b] \subseteq raced'
    BY <2>2, <2>5 DEF PlanInv
  <2>7. \A a \in Actors, h \in Findings : plan'[a] \cap rplan'[h] \subseteq raced'
    BY <2>2, <2>3, <2>5 DEF PlanInv
  <2>8. \A a \in Actors : \A h \in find'[a] : \A x \in plan'[a] \ raced' : label'[x] = FromLabel(target'[h])
    BY <2>2, <2>5 DEF PlanInv
  <2>9. ASSUME NEW g \in Findings, NEW x \in rplan'[g] \ raced' PROVE LabelBefore(x, g)' = FromLabel(target'[g])
    <3>1. LabelBefore(x, g)' = LabelAfter(x, {h \in Findings : x \in rplan'[h] /\ h < g})
      BY <2>2 DEF LabelBefore, LabelAfter
    <3>2. CASE g = f
      <4>1. x \in e /\ v = "applied"
        BY <2>3, <2>9, <3>2
      <4>2. {h \in Findings : x \in rplan'[h] /\ h < g} = {h \in Findings : x \in rplan[h]}
        <5>1. ~(f < f)
          BY InsightsAssumption
        <5> QED BY <2>3, <2>4, <3>2, <5>1
      <4> QED BY <2>1, <2>2, <3>1, <3>2, <4>1, <4>2
    <3>3. CASE g # f
      <4>1. x \in rplan[g] \ raced
        BY <2>3, <2>5, <2>9, <3>3
      <4>2. {h \in Findings : x \in rplan'[h] /\ h < g} = {h \in Findings : x \in rplan[h] /\ h < g}
        BY <2>3, <2>4, <4>1
      <4> QED BY <2>2, <3>1, <4>1, <4>2 DEF PlanInv, LabelBefore
    <3> QED BY <3>2, <3>3
  <2>10. FlaggedOncePerMove'
    BY <2>2, <2>5 DEF PlanInv, FlaggedOncePerMove
  <2> QED BY <2>6, <2>7, <2>8, <2>9, <2>10 DEF PlanInv
<1>3. ASSUME NEW a \in Actors, NEW f \in Findings, DecideSettle(a, f) PROVE PlanInv'
  <2>1. PICK e, v :
            /\ e \in SUBSET {x \in members[f] : label[x] = FromLabel(target[f])}
            /\ plan' = [plan EXCEPT ![a] = IF v = "applied" THEN e ELSE {}]
            /\ raced' = IF v = "applied" THEN raced \cup (e \cap (Planned(a) \cup RulePlanned)) ELSE raced
    BY <1>3 DEF DecideSettle
  <2>2. UNCHANGED <<find, rplan, label, flags, moves, target>> /\ f \in find[a]
    BY <1>3 DEF DecideSettle, findings, labels, ruleVars
  <2>3. /\ \A b \in Actors \ {a} : plan'[b] = plan[b]
        /\ plan'[a] = IF v = "applied" THEN e ELSE {}
    BY <2>1 DEF TypeOK
  <2>4. raced \subseteq raced' /\ (v = "applied" => e \cap (Planned(a) \cup RulePlanned) \subseteq raced')
    BY <2>1
  <2>5. /\ \A b \in Actors \ {a} : plan[b] \subseteq Planned(a)
        /\ \A h \in Findings : rplan[h] \subseteq RulePlanned
    BY DEF Planned, RulePlanned
  <2>6. \A b, c \in Actors : b # c => plan'[b] \cap plan'[c] \subseteq raced'
    BY <2>3, <2>4, <2>5 DEF PlanInv
  <2>7. \A b \in Actors, h \in Findings : plan'[b] \cap rplan'[h] \subseteq raced'
    BY <2>2, <2>3, <2>4, <2>5 DEF PlanInv
  <2>8. ASSUME NEW b \in Actors, NEW h \in find'[b], NEW x \in plan'[b] \ raced' PROVE label'[x] = FromLabel(target'[h])
    <3>1. CASE b = a
      <4>1. h = f
        BY <2>2, <2>8, <3>1 DEF BookInv, ActorInv
      <4> QED BY <2>1, <2>2, <2>3, <2>8, <3>1, <4>1
    <3>2. CASE b # a
      BY <2>2, <2>3, <2>4, <2>8, <3>2 DEF PlanInv
    <3> QED BY <3>1, <3>2
  <2>9. \A g \in Findings : \A x \in rplan'[g] \ raced' : LabelBefore(x, g)' = FromLabel(target'[g])
    <3> SUFFICES ASSUME NEW g \in Findings, NEW x \in rplan[g] \ raced PROVE LabelBefore(x, g)' = FromLabel(target[g])
      BY <2>2, <2>4
    <3>1. LabelBefore(x, g)' = LabelBefore(x, g)
      BY <1>d, <1>e, <2>2
    <3> QED BY <3>1 DEF PlanInv
  <2>10. FlaggedOncePerMove'
    BY <2>2, <2>4 DEF PlanInv, FlaggedOncePerMove
  <2> QED BY <2>6, <2>7, <2>8, <2>9, <2>10 DEF PlanInv
<1>4. CASE RulesCommit
  <2>1. ChangeStates(rplan) /\ EndRules /\ UNCHANGED <<find, plan, target, raced>>
    BY <1>4 DEF RulesCommit, actorVars
  <2>2. \A f \in Findings : rplan'[f] = {}
    BY <2>1 DEF EndRules
  <2>3. rplan \in [Findings -> SUBSET Funds]
    BY DEF TypeOK
  <2>4. ASSUME NEW x \in Funds \ raced
        PROVE  flags'[x] = moves'[x] /\ ((\A f \in Findings : x \notin rplan[f]) => label'[x] = label[x])
    <3>1. flags[x] = moves[x]
      BY DEF PlanInv, FlaggedOncePerMove
    <3>2. \A f \in Findings : x \in rplan[f] =>
              LabelAfter(x, {h \in Findings : x \in rplan[h] /\ h < f}) = FromLabel(target[f])
      BY DEF PlanInv, LabelBefore
    <3> QED BY <2>1, <2>3, <3>1, <3>2, ChangeTold
  <2>5. \A a \in Actors : \A f \in find'[a] : \A x \in plan'[a] \ raced' : label'[x] = FromLabel(target'[f])
    <3> SUFFICES ASSUME NEW a \in Actors, NEW f \in find[a], NEW x \in plan[a] \ raced
                 PROVE  label'[x] = FromLabel(target[f])
      BY <2>1
    <3>1. x \in Funds /\ \A h \in Findings : x \notin rplan[h]
      BY <1>d DEF PlanInv
    <3> QED BY <2>4, <3>1 DEF PlanInv
  <2>6. FlaggedOncePerMove'
    BY <2>1, <2>4 DEF FlaggedOncePerMove
  <2> QED BY <2>1, <2>2, <2>5, <2>6 DEF PlanInv
<1>5. ASSUME NEW a \in Actors, NEW f \in Findings, SettleCommit(a, f) PROVE PlanInv'
  <2> DEFINE plans == [h \in Findings |-> IF h = f THEN plan[a] ELSE {}]
  <2>1. ChangeStates(plans) /\ Leave(a) /\ UNCHANGED <<rplan, target, raced>> /\ f \in find[a]
    BY <1>5 DEF SettleCommit, ruleVars
  <2>2. plan'[a] = {} /\ \A b \in Actors \ {a} : plan'[b] = plan[b] /\ find'[b] = find[b]
    BY <2>1 DEF Leave, TypeOK
  <2>3. plans \in [Findings -> SUBSET Funds]
    BY <1>d
  <2>4. ASSUME NEW x \in Funds \ raced PROVE flags'[x] = moves'[x] /\ (x \notin plan[a] => label'[x] = label[x])
    <3>1. flags[x] = moves[x]
      BY DEF PlanInv, FlaggedOncePerMove
    <3>2. ASSUME NEW h \in Findings, x \in plans[h]
          PROVE  LabelAfter(x, {g \in Findings : x \in plans[g] /\ g < h}) = FromLabel(target[h])
      <4>1. h = f /\ x \in plan[a]
        BY <3>2
      <4>2. {g \in Findings : x \in plans[g] /\ g < h} = {}
        <5>1. ~(f < f)
          BY InsightsAssumption
        <5> QED BY <4>1, <5>1
      <4>3. label[x] = FromLabel(target[f])
        BY <2>1, <4>1 DEF PlanInv
      <4> QED BY <4>1, <4>2, <4>3 DEF LabelAfter
    <3>3. (\A h \in Findings : x \notin plans[h]) <=> x \notin plan[a]
      OBVIOUS
    <3> HIDE DEF plans
    <3>4. flags'[x] = moves'[x] /\ ((\A h \in Findings : x \notin plans[h]) => label'[x] = label[x])
      BY <2>1, <2>3, <3>1, <3>2, ChangeTold
    <3> QED BY <3>3, <3>4
  <2>5. \A b, c \in Actors : b # c => plan'[b] \cap plan'[c] \subseteq raced'
    BY <2>1, <2>2 DEF PlanInv
  <2>6. \A b \in Actors, h \in Findings : plan'[b] \cap rplan'[h] \subseteq raced'
    BY <2>1, <2>2 DEF PlanInv
  <2>7. ASSUME NEW b \in Actors, NEW h \in find'[b], NEW x \in plan'[b] \ raced' PROVE label'[x] = FromLabel(target'[h])
    <3>1. b # a /\ h \in find[b] /\ x \in plan[b] \ raced
      BY <2>1, <2>2, <2>7
    <3>2. x \in Funds /\ x \notin plan[a]
      BY <1>d, <3>1 DEF PlanInv
    <3> QED BY <2>1, <2>4, <3>1, <3>2 DEF PlanInv
  <2>8. ASSUME NEW g \in Findings, NEW x \in rplan'[g] \ raced' PROVE LabelBefore(x, g)' = FromLabel(target'[g])
    <3>1. x \in rplan[g] \ raced /\ x \in Funds
      BY <1>d, <2>1, <2>8
    <3>2. x \notin plan[a]
      BY <3>1 DEF PlanInv
    <3>3. label'[x] = label[x]
      BY <2>4, <3>1, <3>2
    <3>4. LabelBefore(x, g)' = LabelBefore(x, g)
      BY <1>e, <2>1, <3>1, <3>3
    <3> QED BY <2>1, <3>1, <3>4 DEF PlanInv
  <2>9. FlaggedOncePerMove'
    BY <2>1, <2>4 DEF FlaggedOncePerMove
  <2> QED BY <2>5, <2>6, <2>7, <2>8, <2>9 DEF PlanInv
<1>6. ASSUME NEW a \in Actors, NEW f \in Findings,
             ToolRead(a, f) \/ \E v \in {"accept", "dismiss"} : DecideRead(a, f, v)
      PROVE  PlanInv'
  <2>1. /\ UNCHANGED <<raced, labels, plan, rplan>> /\ pc[a] = "idle"
        /\ find' = [find EXCEPT ![a] = {f}]
    BY <1>6 DEF ToolRead, DecideRead, Enter, ruleVars
  <2>2. \A b \in Actors : plan'[b] = {} \/ (plan'[b] = plan[b] /\ find'[b] = find[b])
    BY <2>1 DEF TypeOK, BookInv, ActorInv
  <2> QED BY <1>1, <2>1, <2>2
<1>7. ASSUME NEW a \in Actors, NEW f \in Findings, DecideCommit(a, f) \/ ActionRead(a, f) \/ Propose(a, f)
      PROVE  PlanInv'
  <2>1. UNCHANGED <<raced, labels, rplan>> /\ (Leave(a) \/ UNCHANGED <<plan, find>>)
    BY <1>7 DEF DecideCommit, ActionRead, Propose, ruleVars
  <2>2. \A b \in Actors : plan'[b] = {} \/ (plan'[b] = plan[b] /\ find'[b] = find[b])
    BY <2>1 DEF Leave, TypeOK
  <2> QED BY <1>1, <2>1, <2>2
<1>8. CASE RulesFail
  BY <1>1, <1>8 DEF RulesFail, EndRules, actorVars
<1>9. CASE UNCHANGED <<raced, labels, plan, find, rplan>>
  BY <1>1, <1>9
<1>10. ASSUME NEW a \in Actors, ActorFail(a) PROVE PlanInv'
  <2>1. UNCHANGED <<raced, labels, rplan>> /\ Leave(a)
    BY <1>10 DEF ActorFail, ruleVars
  <2>2. \A b \in Actors : plan'[b] = {} \/ (plan'[b] = plan[b] /\ find'[b] = find[b])
    BY <2>1 DEF Leave, TypeOK
  <2> QED BY <1>1, <2>1, <2>2
<1> QED BY <1>2, <1>3, <1>4, <1>5, <1>6, <1>7, <1>8, <1>9, <1>10
      DEF Next, vars, ruleVars, actorVars, write_insight, write_lifecycle_change, GroupCommit, GroupFail, SetPolicy,
          RulesRead, DecideLock

\* The account manager is told once per move unless two settlements raced.
THEOREM ToldOncePerMove == Spec => []FlaggedOncePerMove
<1>1. Init => PlanInv
  BY DEF Init, PlanInv, FlaggedOncePerMove
<1>2. PlanInv => FlaggedOncePerMove
  BY DEF PlanInv
<1> QED BY <1>1, <1>2, InitTypes, InitBook, TypeStep, BookStep, PlanStep, PTL DEF Spec
=============================================================================
