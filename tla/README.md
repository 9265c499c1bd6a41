# Verification of the client engagement service

The repository is a Python service (FastAPI, SQLAlchemy, PostgreSQL) that finds
clients who went quiet, drafts messages to them with language models, has people
review the drafts, and sends what was approved. This directory holds TLA+ models
of the parts of it where several processes work on the same rows, the TLC runs
that check them on small instances, and TLAPS proofs for instances of any size.
Paths below are relative to `src/src/app/`.

## 1. The system

### 1.1 Components

**Enrollments** (`campaigns/state_machine.py`, `eligibility.py`, `scheduler.py`).
State: `enrollment.status`, `current_step`, `next_due_at`. Operations:
`transition_enrollment` (the only writer of the status), `check_eligibility`
before a draft, `check_stop_conditions` before a send, `select_due_enrollments`,
`advance_enrollment`. Correct means: a terminal status is final, the gate's
reasons are applied in their order, an enrollment advances exactly with its
touches.

**Touches** (`campaigns/touch.py`). State: `touch_log` (unique per enrollment and
step; message, `sent_at`) and the message's status. Operations:
`run_due_enrollments` logs a touch, asks the model for a draft and stores it for
review; `send_due_touches`/`send_touch` send approved, unsent touches and advance
the enrollment. Hard: each enrollment is several transactions with a provider
call between them; a run works with rows read at its start; runs may overlap;
a process may die anywhere; the provider may refuse, fail, or accept and lose the
answer. Correct means: touches in order, each approved, each handed over once,
none after a stop.

**Delivery** (`delivery/gate.py`, `dispatch.py`, `services/campaigns.py`).
`send_campaign` dispatches one campaign, either sending directly or claiming a
batch that is returned to an external sender.

**Review** (`services/review.py`, `campaigns/cohorts.py`,
`campaigns/generation.py`). State: message status, `review_cohort.status` and
`assigned_count`, `is_sample`. Operations: `decide`, `decide_batch`,
`check_cohort_ready`, `approve_cohort_remainder`, `regenerate_message`, and the
claim of a slot when a message is stored. Correct means: nobody's message rides
on a cohort no one read, slots keep the configured spacing, decisions are final,
and what was kept out of the queue can still be released.

**Agent runs and proposals** (`agents/agent_loop.py`, `proposal_state.py`,
`write_tools.py`, `insight_proposal.py`, `services/agent_proposals.py`). State:
`agent_run.state`, `agent_proposal.status` and `campaign_id`, and the background
tasks of the web process. Operations: `start_agent_run`, `fail_stale_runs`, the
propose step, `decide_proposal`, `stop_proposal`, `run_proposal`. Hard:
`run_proposal` is called by runs, background tasks and chat turns, and reads the
proposal long before it commits. Correct means: nothing starts unapproved, a stop
reaches the campaign, only table moves happen.

**Client events** (`services/integration.py`): replies, suppressions, opt-outs,
bounces; they arrive at any time and stop or pause sequences.

**Drafting** (`campaigns/batch_generation.py`, `workers/batch_ingest.py`,
`campaigns/instantiation.py`, `workers/instantiation.py`, and `touch.py` above).
State: the touch row and its message, `generation_batch` and its items, and the
provider's batch. A touch gets its message from a generation run, from a batch
that is submitted, polled and ingested, or from an approved template. Hard: the
submission is one long transaction with a provider call in it; a poll, a tick and
requests all ingest the same batch; the results come hours later. Correct means:
one message per touch, an accepted result keeps its message, no result is
forgotten, an approved message is not replaced.

**Nightly detection** (`workers/risk_detection.py`, `workers/ingestion.py`,
`workers/digest.py`, `workers/digest_email.py`, `retention.py`). State:
`risk_run`, `ingestion_status` with cursor and counters, `raw_staging`,
`ingestion_reject`, `risk_snapshot`, `digest_run`, `digest_email_send`.
Operations: open or resume a run, pull and checkpoint pages, score and build the
digest, mail the advisors, prune. Hard: a run may die anywhere and is resumed by
its id, also by a second worker; an email cannot be rolled back; retention works
on the tables a resumed run will read. Correct means: counters agree with the
cursor, a run is scored from the whole book, one digest and one email each, what
is read next is kept.

**Insights and lifecycle** (`agents/intelligence.py`, `insight_state.py`,
`insight_tools.py`, `lifecycle_state.py`, `lifecycle_tools.py`,
`lifecycle_rules.py`, `action_agent.py`, `services/agent_insights.py`). State:
`agent_insight.state`, its settlement in `agent_insight_lifecycle`,
`client_lifecycle.state`, the policies, the shared `InsightWriteBudget`.
Operations: groups write findings side by side, people accept or dismiss them,
the rules settle changes of label, action runs and write tools answer them with
proposals. Correct means: the cap holds across groups, a finding is answered once,
its state agrees with its settlement, the account manager is told once per change.

Section 6 says what is not modelled and why; `PROJECT.json` lists every part with
its status.

### 1.2 How they interact

All interaction goes through the database. PostgreSQL runs at READ COMMITTED and
the code takes no explicit row lock except the `UPDATE` of `assign_cohort_slot`;
sessions are created with `expire_on_commit=False`, so an object read once keeps
its values until a rollback expires it. The models rest on these two facts: a
read and the later write of the same row are two steps, and a row read at the
start of a loop is the row the loop works with.

    run_proposal --creates--> campaign, enrollments
    run_due_enrollments --logs--> touch --stores--> message (in a cohort)
    reviewer --decides--> message; cohort --> rest of the messages
    send_due_touches --sends--> touch --advances--> enrollment
    client events, stop_proposal --stop or pause--> enrollment, campaign
    ingest_batch, instantiate_template --store--> message of a logged touch
    intelligence run --writes--> finding --accepted--> action run --> proposal
    nightly run --stages, scores--> snapshots, digest --mails--> advisors

The hazards in `PROJECT.json` give the lines where these steps may meet badly.

## 2. The modules

| module | models | extended by |
|---|---|---|
| `EnrollmentGate` | statuses, allowed moves, ordered reasons of the gate | `EnrollmentSequence`, `Outreach` |
| `EnrollmentSequence` | what an enrollment is meant to go through; implemented by `Outreach` | (instance in `Outreach`) |
| `Outreach` | generation, review and dispatch of one campaign | `MCOutreach`, `OutreachProofs`, `OutreachOneRunProofs` |
| `OutreachPromise` | what a campaign promises of its touches; implemented by `Outreach` | (instance in `Outreach`) |
| `ReviewCohort` | one review cohort, its writers and its review requests | `MCReviewCohort`, `ReviewCohortProofs` |
| `AgentProposals` | agent runs, proposals, decisions, starts of campaigns | `MCAgentProposals`, `AgentProposalsProofs` |
| `Drafting` | the three ways a touch gets its message | `DraftingProofs` |
| `Nightly` | pulls, scoring, digests, their emails and retention | `MCNightly`, `NightlyProofs` |
| `Insights` | findings, their decisions and settlements, labels of clients | `MCInsights`, `InsightsProofs` |

Where a property can only hold when certain requests do not overlap, or certain
failures do not happen, the model does not forbid them: it records them in a history
variable (`overlapped`, `undone`, `shared`, `capped`, `died`, `resent`, `broken`,
`pruned`, `clashed`, `raced`) and the property is stated for everything outside that
record, so what the exception covers is exact.

### 2.1 EnrollmentGate

`ALLOWED_TRANSITIONS` is the table of `state_machine.py`. `EligibilityOrder` and
`SendOrder` are the sequences of reasons `check_eligibility` and
`check_stop_conditions` go through; `IsFirstReason` picks the one they return,
`SkipStatus` what `_skip` does with it.

### 2.2 Outreach

One campaign; a touch is `<<enrollment, step>>`. `message[t]` is `"none"` before
the `touch_log` row, `"null"` for a row without a message, otherwise the message's
status. Each generation run (`gpc`), dispatch run (`dpc`) and review request
(`rcur`) is a process.

* Generation: `select_due_enrollments` reads the due rows; per enrollment
  `GenerateSkip`, `GenerateStop` or `GenerateAbort` (the move is refused and the
  exception ends the run), or `GenerateEligible`, `record_touch`, and after the
  model call `GenerateCommit` or `GenerateError`. `gseen` holds the rows as the
  session read them, or `"expired"` after a rollback.
* Review: `DecideRead`, `DecideCommit`.
* Dispatch: `DispatchSelect`, then per touch `SendSkip`, `SendStop` or `SendStart`
  (handing over in direct mode ends in `SendCommit`, `SendRefused` or
  `SendError`), `EndDispatch` and `DispatchReturn`. In the claiming mode the sender
  only captures the message (`dclaimed`); what it captured stays in the batch when a
  later error rolls the touch back. `SendError` is therefore an error before the
  sender has the message or after it, and `undone[t]` counts the handovers of a
  touch whose transaction was lost, by an error or a death. `dcampaign` is the
  campaign row the session holds.
* Events: `record_sms_reply`, `record_suppression`, `SignalArrives`,
  `SignalLeaves`, `BecomesDue`, `add_campaign_step`, `PauseCampaign`, crashes.

Decisions of abstraction: the enrollments are the primary rows of their clients;
runs take them in the order of their ids; a run's page holds all its touches (the
page size is ten or more) and the touches of one page come in any order;
`next_due_at` is reduced to whether it has come; a check and the write it leads
to are one transaction and one step; the replacement of a pending draft leaves a
pending draft (its own races are in `ReviewCohort`); the other two ways a touch
gets its message are in `Drafting`; `reconcile_enrollment` is left
out because nothing calls it.

`OutreachPromise` has four sets of touches and four actions (`Log`, `Approve`,
`Close`, `Receive`) and no runs, requests or failures. `Outreach` instantiates it
with `logged` = the touches with a row, `approved` = those ever approved, `closed`
= those with `sent_at`, `got` = those delivered at least once; `KeepsPromise` says
that every step of `Outreach` is one of its steps or none. A second delivery of a
touch maps to a stutter: the code does deliver a touch twice, and
`CopiesAreUndoneSends` says when a lone dispatch run does.

`EnrollmentSequence` has only the columns `status` and `current_step` of the rows
and two actions: `Advance` (one touch further, `advance_enrollment`) and `Stop` (an
allowed move into a stop, `transition_enrollment`). `Outreach` instantiates it with
its own variables of those names. Its runs write from copies and at times write a
status over another, so `FollowsSequence` is no matter of course: it says that each
such write is an allowed move of the row as it is at that moment. It is checked and
proved for runs that do not overlap in the ways section 4 names.

### 2.3 ReviewCohort

Messages 1..`MaxMessages` of one campaign and tier. A writer creates or finds the
cohort, claims a slot (and then keeps the row locked, `CohortLocked`) and stores
its message. A request reads, flushes (and then keeps the message locked,
`MessageLocked`) and commits; what `check_cohort_ready` counts between flush and
commit is in `rflip`. Messages of a cohort may only be approved
(`_COHORT_DISALLOWED_OUTCOMES`), so there is no rejected status. `decide_batch`
makes no call between reading and writing and is one step.

### 2.4 AgentProposals

A run stages proposals (`staged`) until a commit makes them visible: the end of
propose, or an act-alone proposal, which commits everything flushed so far and is
run at once. A request (`qpc`, `qcur`, `qcamp`) holds the proposal it read until
it commits. `running[a]` is the proposal an actor's `run_proposal` found approved;
`RunCommit` creates the campaign, enrolls the group and sets the proposal running
in one transaction. `tasks` counts the background tasks of approvals; `TaskGone`
covers a task that finds the proposal moved on and one that is lost with its
process. The members of a proposal are abstracted to whether anybody is left.
`owner` and `approvedEver` are history: the proposal a campaign was created for,
and the proposals whose approval was committed. `StartRead` and `StartCommit` are
two steps and starts may overlap. `CampaignCompleted` is external: `stop_proposal`
leaves a completed campaign alone, and nothing in the code completes one.

### 2.5 Drafting

A touch is named by its enrollment; one step is enough, since each way works on
the step after `current_step`. `locker[e]` is the transaction whose insert of the
touch row is not committed: the row is unique per enrollment and step, so another
insert waits for it and then finds the row (`GenerateLog`, `SubmitLog`,
`InstantiateMember`).

* Generation run: `GenerateCheck`, `GenerateLog`, `GenerateCommit`,
  `GenerateError`; the row is held open during the model call.
* `submit_batch`: `SubmitSelect`, per touch `SubmitSkip` or `SubmitCheck` and
  `SubmitLog`, then `SubmitCreate` at the provider and `SubmitCommit`; or
  `SubmitError` anywhere, also after the provider has taken the requests.
* `ingest_batch`: `IngestRead`, `IngestAsk`, then `IngestInProgress` or
  `IngestStore`. The generation run's key is derived from the item, so a second
  insert of it fails (`Conflicts`) and the whole ingestion is rolled back
  (`IngestError`). The provider may end a batch without a result for some of the
  items (`unanswered`); the batch is set ingested all the same. The poll and the
  tick stop when `POLL_WINDOW` has passed (`WindowElapses`); a request does not.
* Templates: `InstantiateSelect`, `InstantiateMember`, `InstantiateError`.

A request that is built or not, and a draft the guardrails accept or not, are
choices; so are the reasons of the gate other than `already_touched`.

### 2.6 Nightly

`pc` is where each worker or sender is; its `w*` variables are what it holds in
memory and loses when it ends (`Leave`). A page is staged in one commit
(`StoreRaw`), and counted with the move of the cursor in the next (`ProcessPage`);
the counters are those of the worker's own session. `CompletePull` ends the pull, at
the last page or when the worker has used up its page limit (`wleft`, one of
`PageLimits`; a run it completes with pages missing goes into `capped`). Scoring
reads the staged pages (`ScoreRead`) and commits snapshots, features, digest and
state at once (`ScoreCommit`), unless a snapshot of the run was written meanwhile.
`MailRead`, `MailSend`, `MailMark` and `MailFail` are `send_digest_emails`;
`OpenSend` is the script that calls it by hand. `Prune` is the retention at the end
of a run. No state is checked and written in one step: a run that had failed is read
(`OpenRun`) and then set running (`OpenCommit`), a pull likewise (`OpenPull`,
`ReopenPull`); an exception reads the state (`FailPull`, `Fail`, `PassOn`) and then
writes failed, whatever has been written since (`MarkPull`, `MarkRun`). `Crash` is a
death: nothing is marked. What a page says is left out: the model follows which
pages were staged, counted and scored. The advisors' order is left free.

### 2.7 Insights

Groups of one run write findings in their own transactions (`write_insight`,
`write_lifecycle_change`, `GroupCommit`, `GroupFail`) and share `InsightWriteBudget`
(`taken`). `RulesRead`, `RulesSettle` and `RulesCommit` are `run_lifecycle_rules`,
one transaction over all the pending findings; a settlement sees the labels its own
transaction has changed (`LabelAfter`). One such transaction is under way at a time:
those of `scripts/agents/run_lifecycle_rules.py` beside those of an intelligence run
(`agents/intelligence.py:659`) are left out. A person's decision is `DecideRead`,
`DecideLock` (the flush that locks the row), then `DecideCommit`, or for a change of
label `DecideSettle` and `SettleCommit`; `ActionRead` and `Propose` are the action
run an acceptance starts, `ToolRead` and `Propose` the write tool of an agent.
`Verdict` is the order of reasons of `settle_lifecycle_insight`. Whether the
evidence holds for a client is data and free. Two kinds of finding are told apart,
those that name a change of label and those answered by an action; a refusal because
a change touches more clients than `AutoMax` comes to the same as a policy that asks
for a person.

## 3. The runs

| run | instance | shows |
|---|---|---|
| `one_dispatch` | 2 enrollments, 2 steps, 2 generation runs, 1 claiming dispatch run, 1 reviewer, suppression, crashes, errors | `StepMatchesTouchLog`, `NoSendAfterStop`, `DecisionsFinal`, the refinement `FollowsSequence` |
| `signals` | 1 enrollment, one process of each kind, claiming, every client signal, pause, crashes, errors before and after the handover | `UntouchedStatuses`, `CopiesAreUndoneSends` |
| `concurrent` | 1 enrollment, 2 steps, two of every process | `TouchesInOrder`, `OnlyApprovedDelivered`, `CompletedWasTouched`, the refinement `KeepsPromise` |
| `live` | 2 enrollments, limit 1, fair processes | `EveryEnrollmentSettles` |
| `cohort` | 4 messages, 2 writers, 2 requests, every second message sampled, cap 2 | `RestRidesOnReadSample`, `SlotsContiguous`, `SlotsTakenOnce`, `ApprovedStays` |
| `proposals` | 2 proposals (one acts alone), 2 runs, 2 requests, 1 worker, 2 campaigns | `CampaignWasApproved`, `StartedHasItsCampaign`, `StopPausesACampaign` |
| `drafting` | 1 touch, 2 batches, one process of each way, the tick and a request that ingest | `AcceptedHasMessage`, `PendingItemAwaited`, `OneDraftPerTouch`, `ApprovedDraftKept`, `EndedIsIngested` |
| `nightly` | 2 workers, 2 nights, 2 pages, page limits 1 and 2, one run kept | `CountsMatchCursor`, `RejectsOnce`, `ScoredFromEveryPage`, `OneDigest`, `NewestKept`, `CompletedStays` |
| `nightly_mail` | 1 worker, 2 senders, 1 night, 2 advisors, fair processes | `EmailOnce`, `AdvisorsMailed` |
| `insights` | 3 findings, 1 client, 2 groups, cap 2, 1 decider, 1 tool, the rules | `CapKept`, `WorkedOnce`, `AppliedIsActedOn`, `FlaggedOncePerMove`, `TerminalStays` |

Two further runs show where the code does not do what its comments say; each is a
finding in `PROJECT.json`:

* `direct_crash` (`AtMostOnce`): one dispatch run that sends directly hands a
  message over and dies before `sent_at` is committed; the next run sends the touch
  again, although `touch.py:5-8` says that a crash "between generating and sending,
  cannot turn into a second copy of the same touch on retry".
* `nightly_pruned` (`ResumedRunIsWhole`): retention deletes the staged pages of a
  failed pull once a newer one completed and leaves its cursor; a run resumed by
  its id goes on after the cursor and is scored from the rest of the book only.

Other disagreements and gaps met while modelling. The models contain the
behaviours; no run is kept for them, because the passing runs state the part that
does hold:

* Two dispatch requests for one campaign send the same touch: the selection takes no
  lock, and `send_touch` does not look at `sent_at` again.
* In the claiming mode an error after the sender captured the message
  (`delivery/dispatch.py:50-62`, 73) rolls `sent_at` back and leaves the message in
  the batch that is returned: the touch is claimed again by the next run.
* Two starts of book-wide runs at the same moment both find none in progress and
  both insert one, although `agent_loop.py:1003-1004` says that a second start is
  refused while another is under way; and a run failed as stale may still be
  working beside its successor.
* A rules transaction of the script beside that of an intelligence run settles the
  same findings, and the later one overwrites the outcome of the earlier
  (`lifecycle_rules.py:73-89`); this one the model does not contain.
* A pause is not seen by a dispatch that is under way: the recheck reads the
  campaign object the session holds (`eligibility.py:133-136` says otherwise).
* A reply between the recheck and `sent_at` is older than the touch it should stop
  and is never seen.
* `check_eligibility` is outside the `try` of a generation run: an enrollment whose
  contact vanished in mid-sequence asks for a move the table refuses, and the
  exception ends the run for all behind it.
* A cohort can stay in `sampling` for ever with every sample decided:
  `decide_batch` never flips it, two reviewers deciding the last two samples at
  once each count the other's as open, and a writer that read `sampling` late adds
  to a cohort already released.
* Two decisions that both read `proposed` both commit; a rejected proposal becomes
  approved and is then run. Two calls of `run_proposal` may each create a campaign
  for one proposal, which then knows the newer one only.
* Drafting requests that overlap can give a touch two messages, the later of which
  the touch points at, also after the earlier was approved.
* The poll and the tick give up a batch after six hours, while
  `batch_generation.py:13-14` says that a batch may take up to a day; after that
  only a request ingests it. A submission that dies after the provider took the
  requests leaves a batch nobody ingests. A late `in_progress` written by a slow
  caller reopens an ingested batch, which is harmless: it has no pending item but
  those the provider returned nothing for. These stay pending for ever: the batch
  is set ingested whatever the results were (`batch_generation.py:713-726`).
* Two processes that mail one digest at once mail the advisors twice, and so does a
  resend after a marker that could not be committed, although
  `digest_email.py:320-322` says a resend is safe. A worker that dies after its
  commit sends nothing, and nothing sends it later but the script.
* Two workers that share a run may build two digests and store rejects twice, and
  one that read its state before the other completed it may write failed or running
  over it (`_mark_failed`, `_open_run`); an older run resumed late overwrites the
  features of a newer one.
* A pull that reaches `max_pages` (`ingestion.py:118`) is completed like one that
  reached the last page, and its run is scored without the rest of the book.
* Two acceptances of one finding at once each start an action run, and a finding
  dismissed after its action run read it still gets a proposal; the write tool also
  answers a finding on a change of label.
* The places a failed group took from the budget are not given back: the cap
  holds, but fewer findings than it allows may be written.
* Work that a request leaves to its process is lost with it: the process that dies
  after an approval, or after the acceptance of a finding, and before its background
  task ran leaves a proposal approved or a finding accepted that nothing takes up.
  A STOP whose reply is committed and whose suppression is not is forgotten.
* A retry sent while the first call with its key still runs is applied twice;
  `idempotency.py:10-13` says so.

### 3.1 Bounds

Two processes of a kind are the least that can overlap, and every property speaks of
at most two rows at once. Two steps are the least with an order and with a last step
that is not the first; two enrollments the least in which one is behind another.
`MaxDelivered = 2` counts up to the second delivery, which is all `AtMostOnce` looks
at; in `signals` `MaxUndone = 2` and `MaxDelivered = 3` let two handovers of a touch
be lost and a third one stay. Four messages with every second one sampled give two
samples and two others, so the cap is reached. Two campaigns allow a second start
for the same proposal; `MaxCampaigns` only stops further starts.

In `drafting` one touch is at stake, since no property relates two; two batches
allow a second submission after one that died at the provider. In `nightly` two
pages are the least with a resume between them, two nights with `RawKeep = 1` the
least in which retention deletes something; `PageLimits` has a limit before the last
page and one at it; `MaxStarts = 4` lets each of the two runs be resumed once, or
shared, or one of them fail and be resumed three times; `MaxTimes = 2` counts to the
second reject or email. `Advisors` is empty there and the emails are left to
`nightly_mail`, whose one night is enough because a digest's emails depend on no
other digest. `nightly_pruned` uses the repository's own number of pulls kept. In
`insights` three findings exceed the cap of two, and allow two for the same client
and label; `MaxFlags = 2` is a second change of the same client.

Symmetry is used for processes only, in runs without liveness; enrollments,
findings and proposals are not interchangeable. The safety properties of
`concurrent`, `cohort`, `proposals`, `drafting`, `nightly`, `nightly_mail` and
`insights` are also proved without bounds (section 4), and those of
`one_dispatch` and `signals` for any instance whose processes are restricted as there.

Deadlock is not checked: bounded steps, messages, batches, starts or findings leave a
finished system with nothing to do.

### 3.2 Fairness

`live` assumes weak fairness of generation and dispatch runs and of the clock:
both are started by a schedule and run to their end. It assumes strong fairness of
`SendCommit` (a provider does not refuse one touch for ever), of the decision of a
reviewer who keeps reading messages (escalating and holding are not final), and of
the end of a cooldown. No fairness is assumed of signals arriving, failures,
pauses or crashes, and the run has no crashes: a dead process is restarted by
nothing in the code. Even so an enrollment may end at a touch that was rejected or
that no draft could be made for; the property says so.

`drafting` assumes of the tick alone that it takes up every batch in flight again
and again and that its calls for a batch do not fail every time (strong fairness of
reading, asking and storing, per batch), and that a call which cannot go on ends
(weak fairness of writing `in_progress` and of the failure on a conflict). The tick
is a scheduled job over all batches in flight. Nothing is assumed of the provider
ending, of requests or of submissions, and the property excepts batches whose
window has passed. `nightly_mail` assumes that a process which is up takes its next
step and fails on a conflict of snapshots (weak fairness); a send that fails and a
process that dies are excepted by the property.

## 4. The proofs

All theorems hold for every value of the constants that satisfies the named
assumptions `OutreachAssumption`, `CohortAssumption`, `ProposalsAssumption`,
`DraftingAssumption`, `NightlyAssumption` and `InsightsAssumption` (ranges of
numbers and sets, and processes of different kinds being different; TLC evaluates
them in every run). The types of `Drafting`, `Nightly` and `Insights` are proved
here and not repeated in a run.

**OutreachProofs.** `TypeCorrect` needs in addition that a run in mid-touch holds
a touch (`RunsHoldTouch`). `TouchOrder` and `CompletionNeedsTouch` follow from
`OrderInv`: the current step of a row, and of every row a run has read, counts
touches that have been sent. The runs' copies must be part of it, because a stale
row decides which touch is logged next; it is kept since `sent_at` and touch rows
never go away (`TouchesPersist`). `NothingUnapprovedGoesOut` follows from
`ApprovalInv`: a message with status approved, a touch a dispatch run is sending
and a touch in a claimed batch were all approved at some time.
`OutreachKeepsPromise` is the refinement: the initial states are mapped to the
abstract one, and under `OrderInv` and `ApprovalInv` every action is mapped to
`Log`, `Approve`, `Close`, `Receive` or a stutter.

**OutreachOneRunProofs.** No row is locked and no version is checked, so the rest of
what `Outreach` should do depends on how many processes of a kind there are at a
time. The theorems say so in hypotheses of their own, and leave enrollments, steps,
limits, failures and all other processes arbitrary:

| hypothesis | meaning | what fails without it (found by TLC) |
|---|---|---|
| `OneDispatch` | one dispatch run at a time | a touch is sent twice, `current_step` is written from a stale row |
| `OneGenerator` or `HistoryStays` | one generation run at a time, or no client loses its visible history | the one stop the gate looks at before the touch log: a second run stops an enrollment whose touch the dispatch has on its page, and `NoSendAfterStop` fails |
| `StopsAgree` | all stops of a touched enrollment end in one status | two generation runs stop it for different reasons, the later overwrites the terminal status of the earlier |
| `TwoGenerators` | two generation runs at most | three: one logs a touch and fails, the two others generate it, and the later store replaces an approved message |
| `OneReviewer` | one review request at a time | two requests read `pending` and decide differently |

The repository guarantees none of them: they are what has to hold of its schedule
and of those who call it. The instance of `one_dispatch` satisfies `OneDispatch`,
`HistoryStays`, `StopsAgree`, `TwoGenerators` and `OneReviewer`, that of
`signals` has one process of each kind and every signal.

The invariants build on one another. `StepInv` (with `OneDispatch` alone): a touch
logged and not sent is the next one of its enrollment (`NextTouch`), what is on a
page is unsent, and the row a send holds has the step of the row; so
`StepCounterIsTouchLog`. `StatusInv`: touches on a page belong to enrollments that
may still be sent to, the row in a send's hand is the row, and every copy a session
holds satisfies what `UntouchedStatuses` says of a row. It is kept because a
generation run stops an enrollment only if its next touch is not logged
(`StopMeansUnlogged`): `already_touched` comes first in the gate's order, except
before `no_visible_history`, for which a lone run's page is needed (`SessionInv`:
its rows are fresh and nobody else logs their touches). Hence `NoSendIntoStop`,
`ExclusionIsUntouched` and `StoppedForGood`. `CopiesComeOfUndoneSends` from `OnceInv`:
what was delivered and what is in claimed batches together are no more than the
handovers whose `sent_at` was committed and those that were undone.
`TerminalIsFinal` from `CopiesInv`: a copy at the row's step differs from the row at
most in that another run has stopped the enrollment. `DecisionIsFinal` from
`DecisionInv`: a touch that is being generated has no message, and only one run
generates it. `OutreachFollowsSequence` is the refinement: `GenerateStop`,
`SendStop` and `SendCommit` are `Stop` and `Advance`, or write what is there already;
every other action leaves both columns alone. Each
invariant was first checked by TLC on instances that satisfy the hypotheses of its
theorem, among them that of `one_dispatch` and one generation run with every signal.

**ReviewCohortProofs.** `CohortTypeCorrect`. `NoRestWithoutReadSample` from
`ReadInv`: a cohort past sampling, and a request about to move it or release its
rest, come after an approved sample. `SlotsAreContiguous` and `NoSlotTakenTwice`
from `SlotInv`: between claim and commit there is one writer at most, and its slot
is the one after all the committed ones. `ApprovalIsFinal`: the row lock and the
condition of the replacement keep an approval.

**AgentProposalsProofs.** `ProposalTypeCorrect`. `NothingStartsUnapproved`,
`StartedKnowsItsCampaign` and `StopPauses` from `StartInv`: whatever leads to a
campaign (the status, an actor's `run_proposal`, a stop request) comes after an
approval; the campaign a proposal or a stop request knows was created for that
proposal; a campaign row exists exactly when it has an owner. The invariant cannot
speak of the present status alone, since a stale decision may overwrite it; that is
why it refers to approvals ever committed.

**DraftingProofs.** `DraftingTypes` (with what each process holds at each step).
`NoResultLost` from `AwaitInv`: a batch with a pending item is in flight and known
to the provider, also for a submission that has not committed and for the copy a
slow ingestion will write back, but for items the provider ended without a result
for. `ItemInv`: an item's generation run is stored exactly when the item is accepted
or rejected, so the key conflict stops a second ingestion of it.
`AcceptedResultKept` from `RowInv`: a touch with an item, in a submission or in a
generation run has its row, committed or held by that process, so nobody else's
insert and no late error takes the row or its message away. `TouchDraftedOnce` and
`ApprovedDraftStays` from `SoloInv`, which holds while nothing has overlapped: one
drafting request at most is under way, a touch with a pending item has no message,
no two batches have a pending item for one touch, and a touch that is being drafted
has no row yet.

**NightlyProofs.** `NightlyTypes`; the rest use `HoldInv`, what a process holds at
each `pc`. `CompletedRunStays` from `DigestInv`: while a worker that has its run for
itself is before its last commit, or about to write failed, the run is not
completed. `CountersFollowCursor` and `RejectsStoredOnce`
from `CountInv`: a worker's counter is its page, and in a run only one worker has
worked on, no page behind the cursor is still to be counted. `DigestBuiltOnce` from
`DigestInv` and `SnapInv` (an unshared run has snapshots only once it is completed).
`RunsScoredWhole` and `NewestAreKept` from `StagedInv`, the latter also from `PullInv`
(an unshared pull somebody works on is not completed): the pages up to
the cursor, and up to the page of every worker, are staged unless they were pruned
while they were still to be read; that is why it speaks of workers that have passed
a page which another worker's cursor has not. `EmailSentOnce` from `MailInv`: who
mails a digest alone knows all its markers, and an email without a marker is the
one in hand or accounted for as broken.

**InsightsProofs.** `InsightTypes`. `BudgetHolds` from `BudgetInv`: the findings
committed and written are no more than the places taken, over group failures.
`BookInv` says what groups, rules and actors hold; `HandInv` that a finding two
transactions have in hand is in `clashed`, and that outside it a transaction's copy
is the row. From it `DecidedStays`, and with `AnswerInv` (a finding is open with no
answer, or closed with one) `AnsweredOnce` and `ChangesAppliedAreClosed`.
`ToldOncePerMove` from `PlanInv`: outside `raced`, a client a settlement plans to
change still has the label it was read with.

Only model-checked: liveness (`EveryEnrollmentSettles`, `EndedIsIngested`,
`AdvisorsMailed`), which is outside the prover's reach. Every safety property of a
passing run is stated by a theorem. `TerminalIsFinal` and `StoppedForGood` state
properties no run lists; `FollowsSequence`, which one does, implies the first.

To repeat: `tlc -config X.cfg M` for a run, `tlapm M.tla` for the proofs.

## 5. Plan

Done, in this order: the outreach pipeline, review cohorts, agent proposals;
drafting, the nightly run, insights, the promise of a campaign; the proofs of all
of their safety properties, those of `Outreach` that need a schedule last; the
sequence of an enrollment and its refinement.

1. A second rules transaction in `Insights`, and the findings two of them settle.
2. Abstract specifications of proposals and of review cohorts, with the refinement
   by `AgentProposals` and `ReviewCohort`.
3. The composition of `Outreach` with `ReviewCohort` and `Drafting` over one message
   table, with the second draft that two regenerates of one message leave behind.
4. Templates: their drafting, review and policy.
5. The allowances of agents: two runs against one daily allowance.

## 6. Not modelled

The map covers about 6% of the implementation's lines, and nearly all of the lines
in which several processes change the same rows. The rest is what a model of
states and steps has little to say about:

* More than two fifths of it is migrations, declarations of tables and schemas,
  scripts, the HTTP routers and the admin console: declaration, reading, listing,
  validation and presentation around the services that are modelled.
* Scoring, rules, routing, bucketing, cost estimates and the conversion of staged
  payloads are sequential calculations over client data, with the repository's own
  unit tests; nothing of theirs depends on interleaving or failure.
* Prompts, model calls, guardrails, privacy filters and retrieval work on text; the
  models need only whether a draft or a finding comes back.
* Providers and the HTTP clients are network calls; the models use what they may do:
  accept, refuse, fail, or accept and lose the answer.
* Database sessions, audit, authentication and settings are infrastructure; the
  isolation level and the unique keys are built into the modules.
* `run_bulk`, check-in enrollment, narratives and signal snapshots follow the same
  pattern as the modelled parts of the nightly run and are left out; so are the
  counters of an instantiation batch and the facts of a finding.
