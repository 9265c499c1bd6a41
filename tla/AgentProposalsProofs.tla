------------------------ MODULE AgentProposalsProofs ------------------------
(***************************************************************************)
(* Proofs about AgentProposals, for any proposals, runs, requests and      *)
(* workers, and any number of campaigns.                                   *)
(***************************************************************************)
EXTENDS AgentProposals, TLAPS

USE ProposalsAssumption DEF Campaigns, Actors

-----------------------------------------------------------------------------
(* Types.                                                                   *)

\* A request that found its move allowed holds the proposal it read.
TypeInv ==
    /\ TypeOK
    /\ \A q \in Requests : qpc[q] # "idle" => qcur[q] # None

\* What a commit of a run makes visible is still a table of statuses.
LEMMA CommittedType ==
    ASSUME TypeOK, NEW r \in Runs
    PROVE  Committed(r) \in [Proposals -> ProposalStatuses \cup {"none"}]
BY DEF TypeOK, Committed, ProposalStatuses

\* Every step of the runs, the requests and the workers keeps the types.
LEMMA TypeStep ==
    ASSUME TypeInv, [Next]_vars
    PROVE  TypeInv'
<1> USE DEF TypeInv, TypeOK, ProposalStatuses, proposalVars, campaignVars, runVars, requestVars
<1>1. CASE UNCHANGED vars
  BY <1>1 DEF vars
<1>2. ASSUME NEW S \in SUBSET Runs, fail_stale_runs(S) PROVE TypeInv'
  BY <1>2 DEF fail_stale_runs, Failing
<1>3. ASSUME NEW S \in SUBSET Runs, NEW r \in Runs, StartRead(r, S) PROVE TypeInv'
  BY <1>3 DEF StartRead, Failing
<1>4. ASSUME NEW r \in Runs, RunStep(r) PROVE TypeInv'
  <2>1. CASE StartCommit(r)
    BY <2>1 DEF StartCommit
  <2>2. ASSUME NEW p \in Proposals, ProposeForApproval(r, p) PROVE TypeInv'
    BY <2>2 DEF ProposeForApproval
  <2>3. ASSUME NEW p \in Proposals, ProposeAlone(r, p) PROVE TypeInv'
    <3>1. status' \in [Proposals -> ProposalStatuses \cup {"none"}]
      BY <2>3, CommittedType DEF ProposeAlone
    <3> QED BY <2>3, <3>1 DEF ProposeAlone
  <2>4. CASE ProposeEnd(r)
    <3>1. status' \in [Proposals -> ProposalStatuses \cup {"none"}]
      BY <2>4, CommittedType DEF ProposeEnd
    <3> QED BY <2>4, <3>1 DEF ProposeEnd
  <2>5. CASE Complete(r)
    BY <2>5 DEF Complete, LeaveRun
  <2>6. CASE FailRun(r)
    BY <2>6 DEF FailRun, LeaveRun
  <2> HIDE DEF TypeInv
  <2> QED BY <1>4, <2>1, <2>2, <2>3, <2>4, <2>5, <2>6 DEF RunStep
<1>5. ASSUME NEW r \in Runs, CrashRun(r) PROVE TypeInv'
  BY <1>5 DEF CrashRun, LeaveRun
<1>6. ASSUME NEW p \in Proposals, write_proposal(p) PROVE TypeInv'
  BY <1>6 DEF write_proposal
<1>7. ASSUME NEW p \in Proposals, TaskGone(p) PROVE TypeInv'
  <2>1. tasks' \in [Proposals -> Nat]
    BY <1>7 DEF TaskGone
  <2> QED BY <1>7, <2>1 DEF TaskGone
<1>8. ASSUME NEW q \in Requests, Request(q) PROVE TypeInv'
  <2>1. ASSUME NEW p \in Proposals, NEW to \in ProposalStatuses, RequestRead(q, p, to)
        PROVE  TypeInv'
    <3>1. to \in {"approved", "rejected", "stopped"}
      BY <2>1 DEF RequestRead, ALLOWED_TRANSITIONS
    <3> QED BY <2>1, <3>1 DEF RequestRead
  <2>2. CASE decide_proposal(q)
    <3>1. qcur[q] \in Proposals
      BY <2>2 DEF decide_proposal
    <3>2. tasks' \in [Proposals -> Nat]
      BY <2>2, <3>1 DEF decide_proposal
    <3>3. status' \in [Proposals -> ProposalStatuses \cup {"none"}]
          /\ approvedEver' \subseteq Proposals
      BY <2>2, <3>1 DEF decide_proposal
    <3> QED BY <2>2, <3>2, <3>3 DEF decide_proposal, EndRequest
  <2>3. CASE stop_proposal(q)
    BY <2>3 DEF stop_proposal, EndRequest
  <2> HIDE DEF TypeInv, ProposalStatuses
  <2> QED BY <1>8, <2>1, <2>2, <2>3 DEF Request
<1>9. ASSUME NEW w \in Workers, NEW p \in Proposals, RunRead(w, p) PROVE TypeInv'
  <2>1. CASE tasks[p] > 0 /\ tasks' = [tasks EXCEPT ![p] = @ - 1]
    <3>1. tasks' \in [Proposals -> Nat]
      BY <2>1
    <3> QED BY <1>9, <3>1 DEF RunRead
  <2>2. CASE UNCHANGED tasks
    BY <1>9, <2>2 DEF RunRead
  <2> QED BY <1>9, <2>1, <2>2 DEF RunRead
<1>10. ASSUME NEW a \in Actors, RunProposal(a) PROVE TypeInv'
  <2>1. CASE RunCommit(a)
    <3>1. PICK c \in Campaigns :
            /\ cstatus' = [cstatus EXCEPT ![c] = "running"]
            /\ owner' = [owner EXCEPT ![c] = running[a]]
            /\ campaign_id' = [campaign_id EXCEPT ![running[a]] = c]
      BY <2>1 DEF RunCommit
    <3>2. running[a] \in Proposals
      BY <2>1 DEF RunCommit
    <3>3. /\ cstatus' \in [Campaigns -> {"none", "running", "paused", "completed"}]
          /\ owner' \in [Campaigns -> Proposals \cup {None}]
          /\ campaign_id' \in [Proposals -> Campaigns \cup {0}]
      BY <3>1, <3>2
    <3>4. status' \in [Proposals -> ProposalStatuses \cup {"none"}]
          /\ running' \in [Actors -> Proposals \cup {None}]
      BY <2>1, <3>2 DEF RunCommit
    <3>5. UNCHANGED <<rstate, rpc, staged, qpc, qcur, qcamp, tasks, approvedEver>>
      BY <2>1 DEF RunCommit
    <3> QED BY <3>3, <3>4, <3>5
  <2>2. CASE RunRefused(a)
    BY <2>2 DEF RunRefused
  <2> QED BY <1>10, <2>1, <2>2 DEF RunProposal
<1>11. ASSUME NEW c \in Campaigns, CampaignCompleted(c) PROVE TypeInv'
  BY <1>11 DEF CampaignCompleted
<1> QED BY <1>1, <1>2, <1>3, <1>4, <1>5, <1>6, <1>7, <1>8, <1>9, <1>10, <1>11 DEF Next

LEMMA TypeInvariant == Spec => []TypeInv
<1>1. Init => TypeInv
  BY DEF Init, TypeInv, TypeOK
<1>2. TypeInv /\ [Next]_vars => TypeInv'
  BY TypeStep
<1> QED BY <1>1, <1>2, PTL DEF Spec

\* The rows of proposals, campaigns and runs, and what the sessions hold of them,
\* always have the types the schema and the code give them; in particular a
\* background task is never taken that was not added.
THEOREM ProposalTypeCorrect == Spec => []TypeOK
<1>1. TypeInv => TypeOK
  BY DEF TypeInv
<1> QED BY <1>1, TypeInvariant, PTL

-----------------------------------------------------------------------------
(* Campaigns and the proposals they were started for.                       *)

\* An approval comes before everything that leads to a campaign, the campaign a
\* proposal or a stop request knows is one created for that proposal, and a
\* proposal that has started knows one.
StartInv ==
    /\ CampaignWasApproved
    /\ \A p \in Proposals :
        /\ status[p] \in {"approved", "running", "stopped"} => p \in approvedEver
        /\ campaign_id[p] # 0 => owner[campaign_id[p]] = p
        /\ status[p] \in {"running", "stopped"} => campaign_id[p] # 0
    /\ \A a \in Actors : running[a] # None => running[a] \in approvedEver
    /\ \A c \in Campaigns : cstatus[c] = "none" <=> owner[c] = None
    /\ \A q \in Requests : qpc[q] = "stopped" =>
        /\ qcur[q] \in approvedEver
        /\ qcamp[q] # 0 /\ owner[qcamp[q]] = qcur[q]
        /\ campaign_id[qcur[q]] # 0
    /\ StopPausesACampaign

\* A commit of a run adds proposals that wait for a decision and no other.
LEMMA CommittedStatus ==
    ASSUME TypeOK, NEW r \in Runs, NEW p \in Proposals,
           Committed(r)[p] \in {"approved", "running", "stopped"}
    PROVE  Committed(r)[p] = status[p]
BY DEF TypeOK, Committed

LEMMA StartStep ==
    ASSUME TypeInv, StartInv, [Next]_vars
    PROVE  StartInv'
<1> USE DEF TypeInv, TypeOK, ProposalStatuses, proposalVars, campaignVars, runVars, requestVars,
        StartInv, CampaignWasApproved, StopPausesACampaign
<1>1. CASE UNCHANGED vars
  BY <1>1 DEF vars
<1>2. ASSUME NEW S \in SUBSET Runs, fail_stale_runs(S) PROVE StartInv'
  BY <1>2 DEF fail_stale_runs
<1>3. ASSUME NEW S \in SUBSET Runs, NEW r \in Runs, StartRead(r, S) PROVE StartInv'
  BY <1>3 DEF StartRead
<1>4. ASSUME NEW r \in Runs, RunStep(r) PROVE StartInv'
  <2>1. ASSUME StartCommit(r) \/ Complete(r) \/ FailRun(r) PROVE StartInv'
    <3>1. UNCHANGED <<status, campaign_id, cstatus, owner, qpc, qcur, qcamp, running, approvedEver>>
      BY <2>1 DEF StartCommit, Complete, FailRun
    <3> QED BY <3>1
  <2>2. ASSUME NEW p \in Proposals, ProposeForApproval(r, p) PROVE StartInv'
    BY <2>2 DEF ProposeForApproval
  <2>3. ASSUME NEW p \in Proposals, ProposeAlone(r, p) PROVE StartInv'
    <3>1. \A x \in Proposals : x # p /\ status'[x] \in {"approved", "running", "stopped"}
            => status'[x] = status[x]
      BY <2>3, CommittedStatus, CommittedType DEF ProposeAlone
    <3>2. status'[p] = "approved"
      BY <2>3, CommittedType DEF ProposeAlone
    <3>3. /\ approvedEver' = approvedEver \cup {p}
          /\ running' = [running EXCEPT ![r] = p]
          /\ UNCHANGED <<campaign_id, cstatus, owner, qpc, qcur, qcamp>>
      BY <2>3 DEF ProposeAlone
    <3>4. CampaignWasApproved'
      BY <3>3
    <3>5. StopPausesACampaign'
      <4>1. \A x \in Proposals : status'[x] = "stopped" => status[x] = "stopped"
        BY <3>1, <3>2
      <4> QED BY <4>1, <3>3
    <3>6. \A x \in Proposals :
            /\ status'[x] \in {"approved", "running", "stopped"} => x \in approvedEver'
            /\ campaign_id'[x] # 0 => owner'[campaign_id'[x]] = x
            /\ status'[x] \in {"running", "stopped"} => campaign_id'[x] # 0
      BY <3>1, <3>2, <3>3
    <3>7. \A b \in Actors : running'[b] # None => running'[b] \in approvedEver'
      BY <3>3
    <3> QED BY <3>3, <3>4, <3>5, <3>6, <3>7
  <2>4. CASE ProposeEnd(r)
    <3>1. \A x \in Proposals : status'[x] \in {"approved", "running", "stopped"}
            => status'[x] = status[x]
      BY <2>4, CommittedStatus DEF ProposeEnd
    <3> QED BY <2>4, <3>1 DEF ProposeEnd
  <2> QED BY <1>4, <2>1, <2>2, <2>3, <2>4 DEF RunStep
<1>5. ASSUME NEW r \in Runs, CrashRun(r) PROVE StartInv'
  BY <1>5 DEF CrashRun
<1>6. ASSUME NEW p \in Proposals, write_proposal(p) PROVE StartInv'
  BY <1>6 DEF write_proposal
<1>7. ASSUME NEW p \in Proposals, TaskGone(p) PROVE StartInv'
  BY <1>7 DEF TaskGone
<1>8. ASSUME NEW q \in Requests, Request(q) PROVE StartInv'
  <2>1. ASSUME NEW p \in Proposals, NEW to \in ProposalStatuses, RequestRead(q, p, to)
        PROVE  StartInv'
    <3>1. to = "stopped" => status[p] = "running"
      BY <2>1 DEF RequestRead, ALLOWED_TRANSITIONS
    <3> QED BY <2>1, <3>1 DEF RequestRead
  <2>2. CASE decide_proposal(q)
    <3>1. qcur[q] \in Proposals /\ qpc[q] \in {"approved", "rejected"}
      BY <2>2 DEF decide_proposal
    <3>2. /\ status' = [status EXCEPT ![qcur[q]] = qpc[q]]
          /\ approvedEver \subseteq approvedEver'
          /\ qpc[q] = "approved" => qcur[q] \in approvedEver'
          /\ UNCHANGED <<campaign_id, cstatus, owner, running>>
      BY <2>2 DEF decide_proposal
    <3>3. \A s \in Requests : qpc'[s] = "stopped" =>
            /\ qpc[s] = "stopped"
            /\ qcur'[s] = qcur[s] /\ qcamp'[s] = qcamp[s]
      BY <2>2 DEF decide_proposal, EndRequest
    <3> QED BY <3>1, <3>2, <3>3
  <2>3. CASE stop_proposal(q)
    <3>1. qcur[q] \in Proposals /\ qcamp[q] \in Campaigns /\ owner[qcamp[q]] = qcur[q]
      BY <2>3 DEF stop_proposal
    <3>2. /\ status' = [status EXCEPT ![qcur[q]] = "stopped"]
          /\ UNCHANGED <<campaign_id, owner, running, approvedEver>>
      BY <2>3 DEF stop_proposal
    <3>3. \A c \in Campaigns :
            cstatus'[c] = IF c = qcamp[q] /\ cstatus[c] # "completed" THEN "paused" ELSE cstatus[c]
      BY <2>3 DEF stop_proposal
    <3>4. \A s \in Requests : qpc'[s] = "stopped" =>
            /\ qpc[s] = "stopped"
            /\ qcur'[s] = qcur[s] /\ qcamp'[s] = qcamp[s]
      BY <2>3 DEF stop_proposal, EndRequest
    <3>5. StopPausesACampaign'
      <4>1. owner'[qcamp[q]] = qcur[q] /\ cstatus'[qcamp[q]] \in {"paused", "completed"}
        BY <3>1, <3>2, <3>3
      <4>2. ASSUME NEW x \in Proposals, x # qcur[q], status'[x] = "stopped"
            PROVE  \E c \in Campaigns : owner'[c] = x /\ cstatus'[c] \in {"paused", "completed"}
        <5>1. PICK c \in Campaigns : owner[c] = x /\ cstatus[c] \in {"paused", "completed"}
          BY <3>2, <4>2
        <5> QED BY <5>1, <3>2, <3>3
      <4> QED BY <3>1, <4>1, <4>2
    <3>6. \A c \in Campaigns : cstatus'[c] = "none" <=> owner'[c] = None
      BY <3>1, <3>2, <3>3
    <3> QED BY <2>3, <3>1, <3>2, <3>4, <3>5, <3>6 DEF stop_proposal
  <2> QED BY <1>8, <2>1, <2>2, <2>3 DEF Request
<1>9. ASSUME NEW w \in Workers, NEW p \in Proposals, RunRead(w, p) PROVE StartInv'
  BY <1>9 DEF RunRead
<1>10. ASSUME NEW a \in Actors, RunRefused(a) PROVE StartInv'
  BY <1>10 DEF RunRefused
<1>11. ASSUME NEW a \in Actors, RunCommit(a) PROVE StartInv'
  <2> DEFINE p == running[a]
  <2>1. p \in Proposals /\ p \in approvedEver
    BY <1>11 DEF RunCommit
  <2>2. PICK c \in Campaigns :
          /\ cstatus[c] = "none"
          /\ cstatus' = [cstatus EXCEPT ![c] = "running"]
          /\ owner' = [owner EXCEPT ![c] = p]
          /\ campaign_id' = [campaign_id EXCEPT ![p] = c]
    BY <1>11 DEF RunCommit
  <2>3. /\ status' = [status EXCEPT ![p] = "running"]
        /\ running' = [running EXCEPT ![a] = None]
        /\ UNCHANGED <<qpc, qcur, qcamp, approvedEver>>
    BY <1>11 DEF RunCommit
  <2> HIDE DEF p
  <2>4. owner[c] = None
    BY <2>2
  <2>5. CampaignWasApproved' /\ StopPausesACampaign'
    BY <2>1, <2>2, <2>3, <2>4
  <2>6. \A x \in Proposals : campaign_id'[x] # 0 => owner'[campaign_id'[x]] = x
    BY <2>1, <2>2, <2>4
  <2>7. \A d \in Campaigns : cstatus'[d] = "none" <=> owner'[d] = None
    BY <2>1, <2>2
  <2>8. \A q \in Requests : qpc'[q] = "stopped" =>
          /\ qcur'[q] \in approvedEver'
          /\ qcamp'[q] # 0 /\ owner'[qcamp'[q]] = qcur'[q]
          /\ campaign_id'[qcur'[q]] # 0
    BY <2>1, <2>2, <2>3, <2>4
  <2> QED BY <2>1, <2>2, <2>3, <2>5, <2>6, <2>7, <2>8
<1>12. ASSUME NEW c \in Campaigns, CampaignCompleted(c) PROVE StartInv'
  <2>1. \A d \in Campaigns :
          \/ cstatus'[d] = cstatus[d]
          \/ cstatus[d] # "none" /\ cstatus'[d] = "completed"
    <3>1. cstatus[c] # "none" /\ cstatus' = [cstatus EXCEPT ![c] = "completed"]
      BY <1>12 DEF CampaignCompleted
    <3>2. cstatus'[c] = "completed" /\ \A d \in Campaigns \ {c} : cstatus'[d] = cstatus[d]
      BY <3>1
    <3> QED BY <3>1, <3>2
  <2>2. UNCHANGED <<status, campaign_id, owner, qpc, qcur, qcamp, running, approvedEver>>
    BY <1>12 DEF CampaignCompleted
  <2>3. StopPausesACampaign'
    <3>1. ASSUME NEW x \in Proposals, status'[x] = "stopped"
          PROVE  \E d \in Campaigns : owner'[d] = x /\ cstatus'[d] \in {"paused", "completed"}
      <4>1. PICK d \in Campaigns : owner[d] = x /\ cstatus[d] \in {"paused", "completed"}
        BY <2>2, <3>1
      <4> QED BY <4>1, <2>1, <2>2
    <3> QED BY <3>1
  <2>4. \A d \in Campaigns : cstatus'[d] = "none" <=> owner'[d] = None
    BY <2>1, <2>2
  <2> QED BY <2>2, <2>3, <2>4
<1> QED BY <1>1, <1>2, <1>3, <1>4, <1>5, <1>6, <1>7, <1>8, <1>9, <1>10, <1>11, <1>12
        DEF Next, RunProposal

LEMMA StartInvariant == Spec => []StartInv
<1>1. Init => StartInv
  BY DEF Init, StartInv, CampaignWasApproved, StopPausesACampaign
<1>2. TypeInv /\ StartInv /\ [Next]_vars => StartInv'
  BY StartStep
<1> QED BY <1>1, <1>2, TypeInvariant, PTL DEF Spec

\* Nothing is started for a proposal nobody approved, however the calls of
\* run_proposal and the decisions are interleaved.
THEOREM NothingStartsUnapproved == Spec => []CampaignWasApproved
<1>1. StartInv => CampaignWasApproved
  BY DEF StartInv
<1> QED BY <1>1, StartInvariant, PTL

\* A proposal that is running or stopped knows a campaign created for it: the
\* row a stop looks for is always there.
THEOREM StartedKnowsItsCampaign == Spec => []StartedHasItsCampaign
<1>1. StartInv => StartedHasItsCampaign
  BY DEF StartInv, StartedHasItsCampaign
<1> QED BY <1>1, StartInvariant, PTL

\* A stop that is committed leaves a campaign of the proposal paused or completed,
\* whatever run_proposal committed since the stop read it.
THEOREM StopPauses == Spec => []StopPausesACampaign
<1>1. StartInv => StopPausesACampaign
  BY DEF StartInv
<1> QED BY <1>1, StartInvariant, PTL
=============================================================================
