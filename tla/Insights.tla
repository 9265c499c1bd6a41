------------------------------ MODULE Insights ------------------------------
(***************************************************************************)
(* The findings of an intelligence run and what becomes of them.  The      *)
(* groups of one run are investigated side by side, each in a transaction  *)
(* of its own, and share one budget of findings.  A finding is accepted or *)
(* dismissed by a person; an accepted one is answered by an action run in  *)
(* the background, or by an agent's write tool, with one proposal.  A      *)
(* finding that names a change of label is settled by a written policy: by *)
(* the rules, or by the person who accepts it.  insight_state writes the   *)
(* state by its key and looks at what its own session has loaded.          *)
(***************************************************************************)
EXTENDS Naturals, FiniteSets

CONSTANTS
    Findings,  \* the ids of agent_insight
    Funds,     \* client funds, labelled active until a row says otherwise
    Targets,   \* the labels a finding may ask for
    Groups,    \* the groups of the run
    Cap,       \* InsightWriteBudget.cap
    AutoMax,   \* lifecycle_auto_max_clients
    Deciders,  \* requests that decide a finding, and the run an acceptance starts
    Tools,     \* agents with the write_proposal tool
    MaxFlags   \* bound: how often a fund changes its label

ASSUME InsightsAssumption ==
    /\ Findings \subseteq Nat /\ IsFiniteSet(Findings)
    /\ Targets \subseteq {"active", "dormant"}
    /\ Cap \in Nat /\ AutoMax \in Nat /\ MaxFlags \in Nat
    /\ Deciders \cap Tools = {}

Actors == Deciders \cup Tools
FromLabel(t) == IF t = "dormant" THEN "active" ELSE "dormant"

VARIABLES
    insight,   \* agent_insight.state, "none" before it is committed
    kind,      \* agent_insight.kind: "lifecycle", "action" or "none"
    target,    \* agent_insight_lifecycle.to_state
    members,   \* agent_insight_client
    outcome,   \* agent_insight_lifecycle.outcome
    label,     \* client_lifecycle.state
    flags,     \* how often the account manager was told of the fund
    proposals, \* agent_proposal rows of the finding
    policy,    \* lifecycle_policy.mode of the active policy, "none" without one
    taken,     \* InsightWriteBudget._taken
    gwrote,    \* the findings a group has written and not committed
    rtodo, rplan, rout,      \* a run of the rules: findings, funds and outcomes so far
    pc, find, verb, plan, read,  \* where an actor is, and with what
    clashed,   \* findings two transactions had in hand at once
    raced,     \* funds two settlements had in hand at once
    moves      \* how often a fund's label really became dormant

findings == <<insight, kind, target, members, outcome>>
labels == <<label, flags, moves>>
ruleVars == <<rtodo, rplan, rout>>
actorVars == <<pc, find, verb, plan, read>>
vars == <<findings, labels, proposals, policy, taken, gwrote, ruleVars, actorVars,
          clashed, raced>>

-----------------------------------------------------------------------------
\* Nothing in the code moves a finding to "expired" yet; the state is a final one.
TERMINAL_STATES == {"acted_on", "dismissed", "expired"}
OPEN_OUTCOMES == {"pending", "waiting_for_a_person", "no_policy"}
Outcomes == OPEN_OUTCOMES \cup {"none", "evidence_not_met", "applied"}
Labels == {"active", "dormant"}

TypeOK ==
    /\ insight \in [Findings -> TERMINAL_STATES \cup {"none", "new", "accepted"}]
    /\ kind \in [Findings -> {"none", "action", "lifecycle"}]
    /\ target \in [Findings -> Labels]
    /\ members \in [Findings -> SUBSET Funds]
    /\ outcome \in [Findings -> Outcomes]
    /\ label \in [Funds -> Labels]
    /\ flags \in [Funds -> Nat] /\ moves \in [Funds -> Nat]
    /\ proposals \in [Findings -> Nat]
    /\ policy \in [Labels -> {"none", "automatic", "needs_a_person"}]
    /\ taken \in 0 .. Cap
    /\ gwrote \in [Groups -> SUBSET Findings]
    /\ rtodo \subseteq Findings
    /\ rplan \in [Findings -> SUBSET Funds]
    /\ rout \in [Findings -> Outcomes]
    /\ pc \in [Actors -> {"idle", "loaded", "locked", "settled", "accepted", "chosen"}]
    /\ find \in [Actors -> SUBSET Findings]
    /\ verb \in [Actors -> {"none", "accept", "dismiss"}]
    /\ plan \in [Actors -> SUBSET Funds]
    /\ read \in [Actors -> Outcomes]
    /\ clashed \subseteq Findings /\ raced \subseteq Funds

Init ==
    /\ insight = [f \in Findings |-> "none"]
    /\ kind = [f \in Findings |-> "none"]
    /\ target = [f \in Findings |-> "dormant"]
    /\ members = [f \in Findings |-> {}]
    /\ outcome = [f \in Findings |-> "none"]
    /\ label = [x \in Funds |-> "active"]
    /\ flags = [x \in Funds |-> 0] /\ moves = [x \in Funds |-> 0]
    /\ proposals = [f \in Findings |-> 0]
    /\ policy = [t \in Labels |-> "none"]
    /\ taken = 0
    /\ gwrote = [g \in Groups |-> {}]
    /\ rtodo = {}
    /\ rplan = [f \in Findings |-> {}]
    /\ rout = [f \in Findings |-> "none"]
    /\ pc = [a \in Actors |-> "idle"]
    /\ find = [a \in Actors |-> {}]
    /\ verb = [a \in Actors |-> "none"]
    /\ plan = [a \in Actors |-> {}]
    /\ read = [a \in Actors |-> "none"]
    /\ clashed = {} /\ raced = {}

-----------------------------------------------------------------------------
(* investigate_group and its write tools.                                   *)

\* funds_already_raised: in a committed, open finding for the same change.
Raised(t) ==
    UNION {members[f] : f \in {h \in Findings :
        insight[h] = "new" /\ target[h] = t /\ outcome[h] \in OPEN_OUTCOMES}}

Unwritten(f) == insight[f] = "none" /\ \A g \in Groups : f \notin gwrote[g]

\* Mutant: the cap is counted from the run's rows, as it is without a budget.
PlaceInRows == Cardinality({f \in Findings : insight[f] # "none"}) < Cap

\* InsightWriteBudget.take.
PlaceLeft == taken < Cap

\* A group writes a finding in its own transaction, and has taken a place for it;
\* ids are given in order.
TakePlace(g, f) ==
    /\ Unwritten(f) /\ \A h \in Findings : h < f => ~Unwritten(h)
    /\ PlaceLeft
    /\ taken' = IF taken < Cap THEN taken + 1 ELSE taken
    /\ gwrote' = [gwrote EXCEPT ![g] = @ \cup {f}]

write_insight(g, f) ==
    /\ TakePlace(g, f)
    /\ kind' = [kind EXCEPT ![f] = "action"]
    /\ UNCHANGED <<insight, target, members, outcome, labels, proposals, policy, ruleVars,
                   actorVars, clashed, raced>>

\* The funds that have the label to leave and are in no open finding for it.
write_lifecycle_change(g, f) ==
    /\ TakePlace(g, f)
    /\ kind' = [kind EXCEPT ![f] = "lifecycle"]
    /\ \E t \in Targets :
       \E funds \in SUBSET ({x \in Funds : label[x] = FromLabel(t)} \ Raised(t)) :
        /\ funds # {}
        /\ target' = [target EXCEPT ![f] = t]
        /\ members' = [members EXCEPT ![f] = funds]
    /\ UNCHANGED <<insight, outcome, labels, proposals, policy, ruleVars, actorVars,
                   clashed, raced>>

\* The group's conversation ends and its findings are committed.
GroupCommit(g) ==
    /\ gwrote[g] # {}
    /\ insight' = [f \in Findings |-> IF f \in gwrote[g] THEN "new" ELSE insight[f]]
    /\ outcome' = [f \in Findings |-> IF f \in gwrote[g] /\ kind[f] = "lifecycle"
                                      THEN "pending" ELSE outcome[f]]
    /\ gwrote' = [gwrote EXCEPT ![g] = {}]
    /\ UNCHANGED <<kind, target, members, labels, proposals, policy, taken, ruleVars,
                   actorVars, clashed, raced>>

\* The conversation raises: what the group wrote is rolled back, and the places
\* it took stay taken.
GroupFail(g) ==
    /\ gwrote[g] # {}
    /\ kind' = [f \in Findings |-> IF f \in gwrote[g] THEN "none" ELSE kind[f]]
    /\ target' = [f \in Findings |-> IF f \in gwrote[g] THEN "dormant" ELSE target[f]]
    /\ members' = [f \in Findings |-> IF f \in gwrote[g] THEN {} ELSE members[f]]
    /\ gwrote' = [gwrote EXCEPT ![g] = {}]
    /\ UNCHANGED <<insight, outcome, labels, proposals, policy, taken, ruleVars, actorVars,
                   clashed, raced>>

\* set_policy.
SetPolicy(t, mode) ==
    /\ policy[t] # mode
    /\ policy' = [policy EXCEPT ![t] = mode]
    /\ UNCHANGED <<findings, labels, proposals, taken, gwrote, ruleVars, actorVars,
                   clashed, raced>>

-----------------------------------------------------------------------------
(* settle_lifecycle_insight.                                                *)

\* What settling f comes to, for funds whose evidence holds; approved says
\* whether a person has accepted it.
Verdict(f, eligible, approved) ==
    LET mode == policy[target[f]] IN
    CASE mode = "none" -> "no_policy"
      [] mode = "needs_a_person" /\ ~approved -> "waiting_for_a_person"
      [] ~approved /\ Cardinality(eligible) > AutoMax -> "waiting_for_a_person"
      [] eligible = {} -> "evidence_not_met"
      [] OTHER -> "applied"

\* The label of a fund once the findings in done have been applied, in id order.
LabelAfter(x, done) ==
    IF done = {} THEN label[x]
    ELSE IF \E f \in done : target[f] = "dormant" /\ \A h \in done : h <= f
           THEN "dormant" ELSE "active"

\* change_state of every fund: the label, and a note to the account manager
\* each time it is set to dormant.
ChangeStates(plans) ==
    LET Of(x) == {f \in Findings : x \in plans[f]}
        Dormant(x) == {f \in Of(x) : target[f] = "dormant"}
        Real(x) == {f \in Dormant(x) : LabelAfter(x, {h \in Of(x) : h < f}) = "active"} IN
    /\ label' = [x \in Funds |-> LabelAfter(x, Of(x))]
    /\ flags' = [x \in Funds |-> flags[x] + Cardinality(Dormant(x))]
    /\ moves' = [x \in Funds |-> moves[x] + Cardinality(Real(x))]

\* What other transactions have in hand.
InHand(a) == UNION {find[b] : b \in Actors \ {a}}
Planned(a) == UNION {plan[b] : b \in Actors \ {a}}
RulePlanned == UNION {rplan[f] : f \in Findings}

\* run_lifecycle_rules, one transaction: the pending findings are read.  The rules
\* that the script run_lifecycle_rules.py may run at the same time are left out.
RulesRead ==
    /\ rtodo = {} /\ \A f \in Findings : rout[f] = "none"
    /\ rtodo' = {f \in Findings : kind[f] = "lifecycle" /\ insight[f] = "new"
                                  /\ outcome[f] = "pending"}
    /\ rtodo' # {}
    /\ clashed' = clashed \cup (rtodo' \cap UNION {find[a] : a \in Actors})
    /\ UNCHANGED <<findings, labels, proposals, policy, taken, gwrote, rplan, rout, actorVars,
                   raced>>

\* Mutant: the labels are looked at as they were before this run of the rules.
RulesSettleStale(f) ==
    /\ f \in rtodo /\ \A h \in rtodo : f <= h
    /\ \A a \in Actors : f \in find[a] => pc[a] \notin {"locked", "settled"}
    /\ \E eligible \in SUBSET {x \in members[f] : label[x] = FromLabel(target[f])} :
        LET v == Verdict(f, eligible, FALSE) IN
        /\ rout' = [rout EXCEPT ![f] = v]
        /\ rplan' = [rplan EXCEPT ![f] = IF v = "applied" THEN eligible ELSE {}]
        /\ raced' = IF v = "applied" THEN raced \cup (eligible \cap UNION {plan[a] : a \in Actors})
                    ELSE raced
    /\ rtodo' = rtodo \ {f}
    /\ UNCHANGED <<findings, labels, proposals, policy, taken, gwrote, actorVars, clashed>>

\* The next finding is settled, against the labels with this transaction's own
\* changes; whether the evidence holds for a fund is client data.
RulesSettle(f) ==
    /\ f \in rtodo /\ \A h \in rtodo : f <= h
    /\ \A a \in Actors : f \in find[a] => pc[a] \notin {"locked", "settled"}
    /\ \E eligible \in SUBSET {x \in members[f] : LabelAfter(x, {h \in Findings : x \in rplan[h]}) = FromLabel(target[f])} :
        LET v == Verdict(f, eligible, FALSE) IN
        /\ rout' = [rout EXCEPT ![f] = v]
        /\ rplan' = [rplan EXCEPT ![f] = IF v = "applied" THEN eligible ELSE {}]
        /\ raced' = IF v = "applied" THEN raced \cup (eligible \cap UNION {plan[a] : a \in Actors})
                    ELSE raced
    /\ rtodo' = rtodo \ {f}
    /\ UNCHANGED <<findings, labels, proposals, policy, taken, gwrote, actorVars, clashed>>

EndRules ==
    /\ rtodo' = {}
    /\ rplan' = [f \in Findings |-> {}]
    /\ rout' = [f \in Findings |-> "none"]

\* Everything is committed: labels, outcomes, and the applied findings closed.
RulesCommit ==
    /\ rtodo = {} /\ \E f \in Findings : rout[f] # "none"
    /\ \A x \in RulePlanned : flags[x] < MaxFlags
    /\ ChangeStates(rplan)
    /\ outcome' = [f \in Findings |-> IF rout[f] # "none" THEN rout[f] ELSE outcome[f]]
    /\ insight' = [f \in Findings |-> IF rout[f] = "applied" THEN "acted_on" ELSE insight[f]]
    /\ EndRules
    /\ UNCHANGED <<kind, target, members, proposals, policy, taken, gwrote, actorVars,
                   clashed, raced>>

\* The transaction is rolled back: a conflict, an error, or the process dies.
RulesFail ==
    /\ rtodo # {} \/ \E f \in Findings : rout[f] # "none"
    /\ EndRules
    /\ UNCHANGED <<findings, labels, proposals, policy, taken, gwrote, actorVars, clashed,
                   raced>>

-----------------------------------------------------------------------------
(* decide_agent_insight: one transaction, then the start of an action run.  *)

Allowed(state, v) ==
    \/ v = "accept" /\ state = "new"
    \/ v = "dismiss" /\ state \in {"new", "accepted"}

Enter(a, f, l) ==
    /\ pc' = [pc EXCEPT ![a] = l]
    /\ find' = [find EXCEPT ![a] = {f}]
    /\ clashed' = IF f \in InHand(a) \cup rtodo \/ rout[f] # "none" THEN clashed \cup {f}
                  ELSE clashed

Leave(a) ==
    /\ pc' = [pc EXCEPT ![a] = "idle"]
    /\ find' = [find EXCEPT ![a] = {}]
    /\ verb' = [verb EXCEPT ![a] = "none"]
    /\ plan' = [plan EXCEPT ![a] = {}]
    /\ read' = [read EXCEPT ![a] = "none"]

\* Mutant: any state may be left.
DecideAnything(a, f, v) ==
    /\ a \in Deciders /\ pc[a] = "idle"
    /\ insight[f] # "none"
    /\ Enter(a, f, "loaded")
    /\ verb' = [verb EXCEPT ![a] = v]
    /\ UNCHANGED <<findings, labels, proposals, policy, taken, gwrote, ruleVars, plan, read,
                   raced>>

\* The finding is loaded and the move is allowed.
DecideRead(a, f, v) ==
    /\ a \in Deciders /\ pc[a] = "idle"
    /\ Allowed(insight[f], v)
    /\ Enter(a, f, "loaded")
    /\ verb' = [verb EXCEPT ![a] = v]
    /\ UNCHANGED <<findings, labels, proposals, policy, taken, gwrote, ruleVars, plan, read,
                   raced>>

\* transition_insight flushes: the row is locked against other transactions.
DecideLock(a) ==
    /\ pc[a] = "loaded"
    /\ \A f \in find[a] : rout[f] # "applied" /\ \A b \in Actors \ {a} :
            f \in find[b] => pc[b] \notin {"locked", "settled"}
    /\ pc' = [pc EXCEPT ![a] = "locked"]
    /\ UNCHANGED <<findings, labels, proposals, policy, taken, gwrote, ruleVars, find, verb, plan,
                   read, clashed, raced>>

\* An accepted change of label is settled: the policy and the funds are read.
DecideSettle(a, f) ==
    /\ pc[a] = "locked" /\ f \in find[a]
    /\ verb[a] = "accept" /\ kind[f] = "lifecycle"
    /\ \E eligible \in SUBSET {x \in members[f] : label[x] = FromLabel(target[f])} :
        LET v == Verdict(f, eligible, TRUE) IN
        /\ read' = [read EXCEPT ![a] = v]
        /\ plan' = [plan EXCEPT ![a] = IF v = "applied" THEN eligible ELSE {}]
        /\ raced' = IF v = "applied" THEN raced \cup (eligible \cap (Planned(a) \cup RulePlanned))
                    ELSE raced
    /\ pc' = [pc EXCEPT ![a] = "settled"]
    /\ UNCHANGED <<findings, labels, proposals, policy, taken, gwrote, ruleVars, find, verb,
                   clashed>>

\* Mutant: the finding is closed whatever settling it came to.
SettleCommitClosing(a, f) ==
    /\ pc[a] = "settled" /\ f \in find[a]
    /\ \A x \in plan[a] : flags[x] < MaxFlags
    /\ ChangeStates([h \in Findings |-> IF h = f THEN plan[a] ELSE {}])
    /\ outcome' = [outcome EXCEPT ![f] = read[a]]
    /\ insight' = [insight EXCEPT ![f] = "accepted"]
    /\ Leave(a)
    /\ UNCHANGED <<kind, target, members, proposals, policy, taken, gwrote, ruleVars,
                   clashed, raced>>

\* The settlement, the label changes and the state are committed together.
SettleCommit(a, f) ==
    /\ pc[a] = "settled" /\ f \in find[a]
    /\ \A x \in plan[a] : flags[x] < MaxFlags
    /\ ChangeStates([h \in Findings |-> IF h = f THEN plan[a] ELSE {}])
    /\ outcome' = [outcome EXCEPT ![f] = read[a]]
    /\ insight' = [insight EXCEPT ![f] = IF read[a] = "applied" THEN "acted_on" ELSE "accepted"]
    /\ Leave(a)
    /\ UNCHANGED <<kind, target, members, proposals, policy, taken, gwrote, ruleVars,
                   clashed, raced>>

\* A dismissal, or the acceptance of a finding that is answered by an action.
DecideCommit(a, f) ==
    /\ pc[a] = "locked" /\ f \in find[a]
    /\ \/ /\ verb[a] = "dismiss"
          /\ insight' = [insight EXCEPT ![f] = "dismissed"]
          /\ Leave(a)
       \/ /\ verb[a] = "accept" /\ kind[f] = "action"
          /\ insight' = [insight EXCEPT ![f] = "accepted"]
          /\ pc' = [pc EXCEPT ![a] = "accepted"]
          /\ UNCHANGED <<find, verb, plan, read>>
    /\ UNCHANGED <<kind, target, members, outcome, labels, proposals, policy, taken, gwrote,
                   ruleVars, clashed, raced>>

-----------------------------------------------------------------------------
(* The action run and the write tool.                                       *)

\* start_action_run opens the run, on the finding its session has loaded, and the
\* graph's read step, in another session, refuses a finding that is not accepted
\* any more; choose and check follow.
ActionRead(a, f) ==
    /\ pc[a] = "accepted" /\ f \in find[a]
    /\ IF insight[f] = "accepted"
         THEN pc' = [pc EXCEPT ![a] = "chosen"] /\ UNCHANGED <<find, verb, plan, read>>
         ELSE Leave(a)
    /\ UNCHANGED <<findings, labels, proposals, policy, taken, gwrote, ruleVars, clashed,
                   raced>>

\* Mutant: a finding that was acted on may be taken up again.
ToolReadDecided(a, f) ==
    /\ a \in Tools /\ pc[a] = "idle"
    /\ insight[f] \in {"accepted", "acted_on"}
    /\ Enter(a, f, "chosen")
    /\ UNCHANGED <<findings, labels, proposals, policy, taken, gwrote, ruleVars, verb, plan, read,
                   raced>>

\* An agent's write_proposal or record_no_action takes up an accepted finding.
ToolRead(a, f) ==
    /\ a \in Tools /\ pc[a] = "idle"
    /\ insight[f] = "accepted"
    /\ Enter(a, f, "chosen")
    /\ UNCHANGED <<findings, labels, proposals, policy, taken, gwrote, ruleVars, verb, plan, read,
                   raced>>

\* save_insight_proposal: the proposal, and the finding is acted on when it is
\* still accepted.
Propose(a, f) ==
    /\ pc[a] = "chosen" /\ f \in find[a]
    /\ proposals' = [proposals EXCEPT ![f] = @ + 1]
    /\ insight' = [insight EXCEPT ![f] = IF @ = "accepted" THEN "acted_on" ELSE @]
    /\ Leave(a)
    /\ UNCHANGED <<kind, target, members, outcome, labels, policy, taken, gwrote, ruleVars,
                   clashed, raced>>

\* A step raises or the process dies; what was not committed is rolled back.
ActorFail(a) ==
    /\ pc[a] # "idle"
    /\ Leave(a)
    /\ UNCHANGED <<findings, labels, proposals, policy, taken, gwrote, ruleVars, clashed, raced>>

-----------------------------------------------------------------------------
Next ==
    \/ \E g \in Groups : GroupCommit(g) \/ GroupFail(g)
    \/ \E g \in Groups, f \in Findings : write_insight(g, f) \/ write_lifecycle_change(g, f)
    \/ \E t \in Targets, mode \in {"none", "automatic", "needs_a_person"} : SetPolicy(t, mode)
    \/ RulesRead \/ RulesCommit \/ RulesFail
    \/ \E f \in Findings : RulesSettle(f)
    \/ \E a \in Actors : DecideLock(a) \/ ActorFail(a)
    \/ \E a \in Actors, f \in Findings :
        \/ \E v \in {"accept", "dismiss"} : DecideRead(a, f, v)
        \/ DecideSettle(a, f) \/ SettleCommit(a, f) \/ DecideCommit(a, f)
        \/ ToolRead(a, f) \/ ActionRead(a, f) \/ Propose(a, f)

Spec == Init /\ [][Next]_vars

-----------------------------------------------------------------------------
\* The groups of a run together write no more findings than the cap, although
\* none sees what another has written and not committed, and whichever fails.
CapKept ==
    Cardinality({f \in Findings : ~Unwritten(f)}) <= Cap

\* A finding is answered once ("so the same finding is not worked twice"): by one
\* proposal, or by one change of label and none, unless two of a request, a
\* background run, the rules and an agent's tool had it in hand at once.
WorkedOnce ==
    \A f \in Findings \ clashed : proposals[f] <= IF outcome[f] = "applied" THEN 0 ELSE 1

\* A finding on a change of label is acted on exactly when the change was applied
\* or an agent's tool answered it, over every rollback of a settlement and every
\* retry.
AppliedIsActedOn ==
    \A f \in Findings \ clashed : kind[f] = "lifecycle" =>
        (insight[f] = "acted_on" <=> (outcome[f] = "applied" \/ proposals[f] > 0))

\* The account manager is told once for every time a client became dormant, also
\* when several findings name the client, unless two settlements changed it at once.
FlaggedOncePerMove == \A x \in Funds \ raced : flags[x] = moves[x]

\* A finding that was dismissed or acted on stays so ("a terminal state has no
\* outgoing transitions"), unless two transactions had it in hand at once.
TerminalStays ==
    [][\A f \in Findings \ clashed :
        insight[f] \in TERMINAL_STATES => insight'[f] = insight[f]]_vars
=============================================================================
