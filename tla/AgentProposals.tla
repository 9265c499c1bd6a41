--------------------------- MODULE AgentProposals ---------------------------
(***************************************************************************)
(* The agent's book-wide runs (agents/agent_loop.py start_agent_run,       *)
(* execute_agent_run, fail_stale_runs), the proposals they write, the      *)
(* decisions people take on them (services/agent_proposals.py), and the    *)
(* campaigns run_proposal starts for them (agents/write_tools.py).         *)
(*                                                                         *)
(* A session reads a row once and keeps the object: transition_proposal    *)
(* compares the status of the object, and the UPDATE it leads to names the *)
(* row by its key alone.  Reading and committing are therefore two steps,  *)
(* and nothing that is committed between them is seen.                     *)
(***************************************************************************)
EXTENDS Naturals

CONSTANTS
    Proposals,     \* proposals the runs and the chat may write
    ActsAlone,     \* those whose action may act without an approval
    DoNothing,     \* those that are a decision to do nothing
    Runs,          \* agent_run rows
    Requests,      \* decision and stop requests of reviewers
    Workers,       \* background tasks and chat turns that call run_proposal
    MaxCampaigns,  \* bound on the campaigns ever created
    None           \* no proposal

ASSUME ProposalsAssumption ==
    /\ ActsAlone \subseteq Proposals
    /\ DoNothing \subseteq Proposals \ ActsAlone
    /\ None \notin Proposals
    /\ Runs \cap Workers = {}
    /\ MaxCampaigns \in Nat \ {0}

VARIABLES
    status,        \* agent_proposal.status, "none" before the row is committed
    campaign_id,   \* agent_proposal.campaign_id, 0 for null
    cstatus,       \* campaign.status, "none" before the row exists
    owner,         \* the proposal each campaign was created for
    rstate,        \* agent_run.state, "none" before the row exists
    rpc,           \* what the process executing a run does
    staged,        \* proposals a run has flushed and not committed
    qpc, qcur, qcamp,   \* requests; qcur: the proposal, qcamp: the campaign_id read
    tasks,         \* background tasks waiting, a number for each proposal
    running,       \* the proposal a run or a worker found approved and prepares
    approvedEver   \* proposals whose approval was committed

proposalVars == <<status, campaign_id>>
campaignVars == <<cstatus, owner>>
runVars == <<rstate, rpc, staged>>
requestVars == <<qpc, qcur, qcamp>>
vars == <<proposalVars, campaignVars, runVars, requestVars, tasks, running, approvedEver>>

-----------------------------------------------------------------------------
Campaigns == 1..MaxCampaigns
Actors == Runs \cup Workers

\* The statuses the code writes; expired, blocked, sent and measured are in the
\* table and nothing moves a proposal there.
ProposalStatuses == {"proposed", "rejected", "approved", "running", "stopped"}

ALLOWED_TRANSITIONS ==
    [s \in ProposalStatuses |->
        IF s = "proposed" THEN {"rejected", "approved"}
        ELSE IF s = "approved" THEN {"running"}
        ELSE IF s = "running" THEN {"stopped"}
        ELSE {}]

TypeOK ==
    /\ status \in [Proposals -> ProposalStatuses \cup {"none"}]
    /\ campaign_id \in [Proposals -> Campaigns \cup {0}]
    /\ cstatus \in [Campaigns -> {"none", "running", "paused", "completed"}]
    /\ owner \in [Campaigns -> Proposals \cup {None}]
    /\ rstate \in [Runs -> {"none", "running", "completed", "failed"}]
    /\ rpc \in [Runs -> {"idle", "starting", "proposing", "reporting"}]
    /\ staged \in [Runs -> SUBSET Proposals]
    /\ qpc \in [Requests -> {"idle", "approved", "rejected", "stopped"}]
    /\ qcur \in [Requests -> Proposals \cup {None}]
    /\ qcamp \in [Requests -> Campaigns \cup {0}]
    /\ tasks \in [Proposals -> Nat]
    /\ running \in [Actors -> Proposals \cup {None}]
    /\ approvedEver \subseteq Proposals

Init ==
    /\ status = [p \in Proposals |-> "none"]
    /\ campaign_id = [p \in Proposals |-> 0]
    /\ cstatus = [c \in Campaigns |-> "none"]
    /\ owner = [c \in Campaigns |-> None]
    /\ rstate = [r \in Runs |-> "none"]
    /\ rpc = [r \in Runs |-> "idle"]
    /\ staged = [r \in Runs |-> {}]
    /\ qpc = [q \in Requests |-> "idle"]
    /\ qcur = [q \in Requests |-> None]
    /\ qcamp = [q \in Requests |-> 0]
    /\ tasks = [p \in Proposals |-> 0]
    /\ running = [a \in Actors |-> None]
    /\ approvedEver = {}

-----------------------------------------------------------------------------
(* Book-wide runs.                                                          *)

InProgress == {r \in Runs : rstate[r] = "running"}

\* The state of the runs once those in S were found older than the limit.
Failing(S) == [r \in Runs |-> IF r \in S THEN "failed" ELSE rstate[r]]

\* fail_stale_runs, when the application starts or a start is then refused.  Only
\* the age of a run is known: its process may be gone, or slow.
fail_stale_runs(S) ==
    /\ S # {} /\ S \subseteq InProgress
    /\ rstate' = Failing(S)
    /\ UNCHANGED <<proposalVars, campaignVars, rpc, staged, requestVars,
                   tasks, running, approvedEver>>

\* start_agent_run: the runs in S are failed as stale, and no other is found under
\* way.  Nothing makes two starts wait for each other: both may find none.
StartRead(r, S) ==
    /\ rstate[r] = "none" /\ rpc[r] = "idle"
    /\ S = InProgress
    /\ rstate' = Failing(S)
    /\ rpc' = [rpc EXCEPT ![r] = "starting"]
    /\ UNCHANGED <<proposalVars, campaignVars, staged, requestVars, tasks,
                   running, approvedEver>>

\* start_agent_run commits the new row, and the run is executed.
StartCommit(r) ==
    /\ rpc[r] = "starting"
    /\ rstate' = [rstate EXCEPT ![r] = "running"]
    /\ rpc' = [rpc EXCEPT ![r] = "proposing"]
    /\ UNCHANGED <<proposalVars, campaignVars, staged, requestVars, tasks,
                   running, approvedEver>>

\* The run goes on with its next group: it is not in a call of run_proposal.
Proposing(r, p) ==
    /\ rpc[r] = "proposing"
    /\ running[r] = None
    /\ status[p] = "none"
    /\ \A s \in Runs : p \notin staged[s]

\* The rows a commit of run r makes visible.
Committed(r) == [p \in Proposals |-> IF p \in staged[r] THEN "proposed" ELSE status[p]]

\* propose: the proposal is flushed and waits for a person.
ProposeForApproval(r, p) ==
    /\ Proposing(r, p)
    /\ p \notin ActsAlone
    /\ staged' = [staged EXCEPT ![r] = @ \cup {p}]
    /\ UNCHANGED <<proposalVars, campaignVars, rstate, rpc, requestVars, tasks, running,
                   approvedEver>>

\* propose: an act_alone proposal is approved, committed with all that is
\* flushed, and run at once.
ProposeAlone(r, p) ==
    /\ Proposing(r, p)
    /\ p \in ActsAlone
    /\ status' = [Committed(r) EXCEPT ![p] = "approved"]
    /\ approvedEver' = approvedEver \cup {p}
    /\ staged' = [staged EXCEPT ![r] = {}]
    /\ running' = [running EXCEPT ![r] = p]
    /\ UNCHANGED <<campaign_id, campaignVars, rstate, rpc, requestVars, tasks>>

\* The end of propose: the proposals still flushed are committed.
ProposeEnd(r) ==
    /\ rpc[r] = "proposing"
    /\ running[r] = None
    /\ status' = Committed(r)
    /\ staged' = [staged EXCEPT ![r] = {}]
    /\ rpc' = [rpc EXCEPT ![r] = "reporting"]
    /\ UNCHANGED <<campaign_id, campaignVars, rstate, requestVars, tasks, running,
                   approvedEver>>

\* The process is done with the run; what was flushed is rolled back.
LeaveRun(r) ==
    /\ rpc' = [rpc EXCEPT ![r] = "idle"]
    /\ staged' = [staged EXCEPT ![r] = {}]

\* The run's row is written without another look at its state.
Complete(r) ==
    /\ rpc[r] = "reporting"
    /\ rstate' = [rstate EXCEPT ![r] = "completed"]
    /\ LeaveRun(r)
    /\ UNCHANGED <<proposalVars, campaignVars, requestVars, tasks, running, approvedEver>>

\* A step raised: the rest is rolled back and the run marked failed.
FailRun(r) ==
    /\ rpc[r] \in {"proposing", "reporting"}
    /\ running[r] = None
    /\ rstate' = [rstate EXCEPT ![r] = "failed"]
    /\ LeaveRun(r)
    /\ UNCHANGED <<proposalVars, campaignVars, requestVars, tasks, running, approvedEver>>

\* The process dies, in a call of run_proposal or out of one.
CrashRun(r) ==
    /\ rpc[r] # "idle"
    /\ LeaveRun(r)
    /\ running' = [running EXCEPT ![r] = None]
    /\ UNCHANGED <<proposalVars, campaignVars, rstate, requestVars, tasks, approvedEver>>

-----------------------------------------------------------------------------
(* Decisions, stops and the proposals of chat turns.                        *)

\* write_proposal and save_insight_proposal: a chat turn writes a proposal.
write_proposal(p) ==
    /\ status[p] = "none"
    /\ \A r \in Runs : p \notin staged[r]
    /\ status' = [status EXCEPT ![p] = "proposed"]
    /\ UNCHANGED <<campaign_id, campaignVars, runVars, requestVars, tasks, running,
                   approvedEver>>

\* Mutant: a stop of a proposal that was approved and has not started yet.
ReadApprovedToo(q, p, to) ==
    /\ qpc[q] = "idle"
    /\ status[p] # "none"
    /\ to \in ALLOWED_TRANSITIONS[status[p]] \ {"running"}
        \/ (to = "stopped" /\ status[p] = "approved")
    /\ qpc' = [qpc EXCEPT ![q] = to]
    /\ qcur' = [qcur EXCEPT ![q] = p]
    /\ qcamp' = [qcamp EXCEPT ![q] = campaign_id[p]]
    /\ UNCHANGED <<proposalVars, campaignVars, runVars, tasks, running, approvedEver>>

\* A decision or stop request reads the proposal and finds the move allowed.
RequestRead(q, p, to) ==
    /\ qpc[q] = "idle"
    /\ status[p] # "none"
    /\ to \in ALLOWED_TRANSITIONS[status[p]] \ {"running"}
    /\ qpc' = [qpc EXCEPT ![q] = to]
    /\ qcur' = [qcur EXCEPT ![q] = p]
    /\ qcamp' = [qcamp EXCEPT ![q] = campaign_id[p]]
    /\ UNCHANGED <<proposalVars, campaignVars, runVars, tasks, running, approvedEver>>

EndRequest(q) ==
    /\ qpc' = [qpc EXCEPT ![q] = "idle"]
    /\ qcur' = [qcur EXCEPT ![q] = None]
    /\ qcamp' = [qcamp EXCEPT ![q] = 0]

\* decide_proposal commits; an approval of something to run adds its task.
decide_proposal(q) ==
    /\ qpc[q] \in {"approved", "rejected"}
    /\ status' = [status EXCEPT ![qcur[q]] = qpc[q]]
    /\ approvedEver' = IF qpc[q] = "approved" THEN approvedEver \cup {qcur[q]}
                                              ELSE approvedEver
    /\ tasks' = [tasks EXCEPT ![qcur[q]] =
                    IF qpc[q] = "approved" /\ qcur[q] \notin DoNothing THEN @ + 1 ELSE @]
    /\ EndRequest(q)
    /\ UNCHANGED <<campaign_id, campaignVars, runVars, running>>

\* Mutant: the campaign is left as it is.
StopKeepsCampaign(q) ==
    /\ qpc[q] = "stopped"
    /\ status' = [status EXCEPT ![qcur[q]] = "stopped"]
    /\ EndRequest(q)
    /\ UNCHANGED <<campaign_id, campaignVars, runVars, tasks, running, approvedEver>>

\* stop_proposal commits: the campaign it read on the proposal is paused, or left
\* alone when it is completed.
stop_proposal(q) ==
    /\ qpc[q] = "stopped"
    /\ status' = [status EXCEPT ![qcur[q]] = "stopped"]
    /\ cstatus' = [c \in Campaigns |-> IF c = qcamp[q] /\ cstatus[c] # "completed"
                                       THEN "paused" ELSE cstatus[c]]
    /\ EndRequest(q)
    /\ UNCHANGED <<campaign_id, owner, runVars, tasks, running, approvedEver>>

\* External: a campaign is set completed in the database.  The code reads that
\* status and writes it nowhere.
CampaignCompleted(c) ==
    /\ cstatus[c] \in {"running", "paused"}
    /\ cstatus' = [cstatus EXCEPT ![c] = "completed"]
    /\ UNCHANGED <<proposalVars, owner, runVars, requestVars, tasks, running, approvedEver>>

-----------------------------------------------------------------------------
(* run_proposal, called by a run, a background task or a chat turn.         *)

\* Mutant: any proposal that is not rejected may be started.
RunReadUndecided(w, p) ==
    /\ running[w] = None
    /\ \/ tasks[p] > 0 /\ tasks' = [tasks EXCEPT ![p] = @ - 1]
       \/ UNCHANGED tasks
    /\ status[p] \in {"proposed", "approved"}
    /\ p \notin DoNothing
    /\ running' = [running EXCEPT ![w] = p]
    /\ UNCHANGED <<proposalVars, campaignVars, runVars, requestVars, approvedEver>>

\* The proposal is found approved; its members are gated and prepared.
RunRead(w, p) ==
    /\ running[w] = None
    /\ \/ tasks[p] > 0 /\ tasks' = [tasks EXCEPT ![p] = @ - 1]
       \/ UNCHANGED tasks
    /\ status[p] = "approved"
    /\ p \notin DoNothing
    /\ running' = [running EXCEPT ![w] = p]
    /\ UNCHANGED <<proposalVars, campaignVars, runVars, requestVars, approvedEver>>

\* Mutant: a task is taken off the queue twice.
TaskTakenTwice(p) ==
    /\ tasks' = [tasks EXCEPT ![p] = @ - 1]
    /\ UNCHANGED <<proposalVars, campaignVars, runVars, requestVars, running, approvedEver>>

\* The task finds the proposal no longer approved, or is lost with its process.
TaskGone(p) ==
    /\ tasks[p] > 0
    /\ tasks' = [tasks EXCEPT ![p] = @ - 1]
    /\ UNCHANGED <<proposalVars, campaignVars, runVars, requestVars, running, approvedEver>>

\* The campaign is created, the group enrolled and the proposal set running.
RunCommit(a) ==
    /\ running[a] # None
    /\ \E c \in Campaigns :
        /\ cstatus[c] = "none"
        /\ \A d \in 1..(c - 1) : cstatus[d] # "none"
        /\ cstatus' = [cstatus EXCEPT ![c] = "running"]
        /\ owner' = [owner EXCEPT ![c] = running[a]]
        /\ campaign_id' = [campaign_id EXCEPT ![running[a]] = c]
    /\ status' = [status EXCEPT ![running[a]] = "running"]
    /\ running' = [running EXCEPT ![a] = None]
    /\ UNCHANGED <<runVars, requestVars, tasks, approvedEver>>

\* Every client was left out, nobody is left, or an error: no campaign is created
\* and the proposal stays as it is.
RunRefused(a) ==
    /\ running[a] # None
    /\ running' = [running EXCEPT ![a] = None]
    /\ UNCHANGED <<proposalVars, campaignVars, runVars, requestVars, tasks, approvedEver>>

-----------------------------------------------------------------------------
RunStep(r) ==
    \/ StartCommit(r)
    \/ \E p \in Proposals : ProposeForApproval(r, p) \/ ProposeAlone(r, p)
    \/ ProposeEnd(r) \/ Complete(r) \/ FailRun(r)

Request(q) ==
    \/ \E p \in Proposals, to \in ProposalStatuses : RequestRead(q, p, to)
    \/ decide_proposal(q) \/ stop_proposal(q)

RunProposal(a) == RunCommit(a) \/ RunRefused(a)

Next ==
    \/ \E S \in SUBSET Runs : fail_stale_runs(S) \/ \E r \in Runs : StartRead(r, S)
    \/ \E r \in Runs : RunStep(r) \/ CrashRun(r)
    \/ \E p \in Proposals : write_proposal(p) \/ TaskGone(p)
    \/ \E q \in Requests : Request(q)
    \/ \E c \in Campaigns : CampaignCompleted(c)
    \/ \E w \in Workers, p \in Proposals : RunRead(w, p)
    \/ \E a \in Actors : RunProposal(a)

Spec == Init /\ [][Next]_vars

-----------------------------------------------------------------------------
\* Nothing is started for a proposal nobody approved ("only an approved proposal
\* may be started", write_tools.py), whatever is decided while it is prepared.
CampaignWasApproved == \A c \in Campaigns : owner[c] # None => owner[c] \in approvedEver

\* A proposal that has started knows the campaign that was created for it, so
\* that a stop finds it.
StartedHasItsCampaign ==
    \A p \in Proposals : status[p] \in {"running", "stopped"} =>
        campaign_id[p] # 0 /\ owner[campaign_id[p]] = p

\* A proposal is not stopped while all that was started for it goes on: a campaign
\* of its own was paused or is completed, also when another call of run_proposal
\* gives it a new campaign meanwhile.
StopPausesACampaign ==
    \A p \in Proposals : status[p] = "stopped" =>
        \E c \in Campaigns : owner[c] = p /\ cstatus[c] \in {"paused", "completed"}
=============================================================================
