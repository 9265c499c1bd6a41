------------------------------ MODULE Drafting ------------------------------
(***************************************************************************)
(* How the due touches of one campaign get their messages, by the three    *)
(* ways the code has for it, which may all be under way at once:           *)
(*   - a generation run drafts one touch at a time (generate_touch);       *)
(*   - submit_batch sends the due touches to the provider's batch endpoint *)
(*     in one long transaction, and ingest_batch, called by a poll, a tick *)
(*     and a request, stores the results once the provider is done;        *)
(*   - an approved template is instantiated for the due touches.           *)
(* A touch_log row is unique per touch: an INSERT waits for the transaction*)
(* that inserted the row and has not ended (locker), then finds the row.   *)
(* A touch is named by its enrollment; one step of the campaign is enough, *)
(* since each of the three ways works on the step after current_step.      *)
(***************************************************************************)
EXTENDS Naturals, FiniteSets

CONSTANTS
    Enrollments,   \* the enrollments whose next touch is due
    Batches,       \* the ids submissions may take
    Generators,    \* generation runs
    Submitters,    \* submit_batch requests
    Instantiators, \* instantiation requests and background runs
    Ingesters,     \* callers of ingest_batch
    Manual,        \* the ingesters that are requests, not the poll or the tick
    Nobody         \* no transaction

ASSUME DraftingAssumption ==
    /\ Enrollments \subseteq Nat
    /\ Manual \subseteq Ingesters
    /\ Nobody \notin Enrollments \cup Batches \cup Generators \cup Submitters
    /\ Generators \cap Submitters = {}

VARIABLES
    message,   \* the touch's message: "none" without a row, "null" without a message
    locker,    \* the transaction whose insert of the touch row is not committed
    item,      \* generation_batch_item per batch and touch, "none" without one
    batch,     \* generation_batch.status, "none" without a row
    stored,    \* generation_run: the items of each batch whose run is in the table
    provider,  \* the provider's batch
    unanswered,\* the touches its results leave out
    open,      \* less than POLL_WINDOW has passed since the submission
    gpc, gcur,                \* generation runs
    spc, sbatch, stodo, scur, sitems,   \* submissions
    itodo,                    \* the members an instantiation still has to serve
    npc, nbatch, nread, nitems,         \* ingestions
    drafted,   \* how many messages were ever stored for the touch
    overlapped \* two drafting requests have been under way at once

tables == <<message, locker, item, batch, stored>>
outside == <<provider, unanswered, open>>
genVars == <<gpc, gcur>>
subVars == <<spc, sbatch, stodo, scur, sitems>>
ingVars == <<npc, nbatch, nread, nitems>>
history == <<drafted, overlapped>>
vars == <<tables, outside, genVars, subVars, itodo, ingVars, history>>

-----------------------------------------------------------------------------
IN_FLIGHT_STATUSES == {"submitted", "in_progress"}
ItemStatuses == {"none", "pending", "accepted", "rejected"}

TypeOK ==
    /\ message \in [Enrollments -> {"none", "null", "pending_review", "approved"}]
    /\ locker \in [Enrollments -> Generators \cup Submitters \cup {Nobody}]
    /\ item \in [Batches -> [Enrollments -> ItemStatuses]]
    /\ batch \in [Batches -> IN_FLIGHT_STATUSES \cup {"none", "no_eligible_clients", "ingested"}]
    /\ provider \in [Batches -> {"none", "processing", "ended"}]
    /\ unanswered \in [Batches -> SUBSET Enrollments]
    /\ open \in [Batches -> BOOLEAN]
    /\ gpc \in [Generators -> {"idle", "logging", "generating"}]
    /\ gcur \in [Generators -> Enrollments \cup {Nobody}]
    /\ spc \in [Submitters -> {"idle", "loop", "logging", "created"}]
    /\ sbatch \in [Submitters -> Batches \cup {Nobody}]
    /\ stodo \in [Submitters -> SUBSET Enrollments]
    /\ scur \in [Submitters -> Enrollments \cup {Nobody}]
    /\ sitems \in [Submitters -> SUBSET Enrollments]
    /\ itodo \in [Instantiators -> SUBSET Enrollments]
    /\ npc \in [Ingesters -> {"idle", "asking", "waiting", "storing"}]
    /\ nbatch \in [Ingesters -> Batches \cup {Nobody}]
    /\ nread \in [Ingesters -> IN_FLIGHT_STATUSES \cup {"none"}]
    /\ nitems \in [Ingesters -> SUBSET Enrollments]
    /\ drafted \in [Enrollments -> Nat]
    /\ stored \in [Batches -> SUBSET Enrollments]
    /\ overlapped \in BOOLEAN

Init ==
    /\ message = [e \in Enrollments |-> "none"]
    /\ locker = [e \in Enrollments |-> Nobody]
    /\ item = [b \in Batches |-> [e \in Enrollments |-> "none"]]
    /\ batch = [b \in Batches |-> "none"]
    /\ provider = [b \in Batches |-> "none"]
    /\ unanswered = [b \in Batches |-> {}]
    /\ open = [b \in Batches |-> TRUE]
    /\ gpc = [g \in Generators |-> "idle"]
    /\ gcur = [g \in Generators |-> Nobody]
    /\ spc = [s \in Submitters |-> "idle"]
    /\ sbatch = [s \in Submitters |-> Nobody]
    /\ stodo = [s \in Submitters |-> {}]
    /\ scur = [s \in Submitters |-> Nobody]
    /\ sitems = [s \in Submitters |-> {}]
    /\ itodo = [i \in Instantiators |-> {}]
    /\ npc = [n \in Ingesters |-> "idle"]
    /\ nbatch = [n \in Ingesters |-> Nobody]
    /\ nread = [n \in Ingesters |-> "none"]
    /\ nitems = [n \in Ingesters |-> {}]
    /\ drafted = [e \in Enrollments |-> 0]
    /\ stored = [b \in Batches |-> {}]
    /\ overlapped = FALSE

-----------------------------------------------------------------------------
(* What the three ways share.                                               *)

\* Mutant: already_touched counts only touches that have a message.
WithoutMessage(e) == message[e] \in {"none", "null"}

\* check_eligibility, as far as it depends on the touch: no row is committed
\* for it.  Its other reasons are client data and may hold at any time.
Untouched(e) == message[e] = "none"

\* A drafting request begins while another one is under way.
Overlaps ==
    \/ \E g \in Generators : gpc[g] # "idle"
    \/ \E s \in Submitters : spc[s] # "idle"
    \/ \E i \in Instantiators : itodo[i] # {}

BeginDrafting == overlapped' = (overlapped \/ Overlaps)

\* A message is stored and the touch points at it, whatever it pointed at.
Draft(e) ==
    /\ message' = [message EXCEPT ![e] = "pending_review"]
    /\ drafted' = [drafted EXCEPT ![e] = @ + 1]

-----------------------------------------------------------------------------
(* Generation runs: run_due_enrollments and generate_touch.                 *)

\* The gate lets e pass.
GenerateCheck(g, e) ==
    /\ gpc[g] = "idle"
    /\ Untouched(e)
    /\ gpc' = [gpc EXCEPT ![g] = "logging"]
    /\ gcur' = [gcur EXCEPT ![g] = e]
    /\ BeginDrafting
    /\ UNCHANGED <<tables, outside, subVars, itodo, ingVars, drafted>>

EndGenerate(g) ==
    /\ gpc' = [gpc EXCEPT ![g] = "idle"]
    /\ gcur' = [gcur EXCEPT ![g] = Nobody]

\* record_touch: the row is inserted, or somebody else's is found.
GenerateLog(g) ==
    LET e == gcur[g] IN
    /\ gpc[g] = "logging"
    /\ locker[e] = Nobody
    /\ CASE message[e] = "none" ->
              /\ locker' = [locker EXCEPT ![e] = g]
              /\ gpc' = [gpc EXCEPT ![g] = "generating"] /\ UNCHANGED gcur
         [] message[e] = "null" ->
              gpc' = [gpc EXCEPT ![g] = "generating"] /\ UNCHANGED <<gcur, locker>>
         [] OTHER -> EndGenerate(g) /\ UNCHANGED locker
    /\ UNCHANGED <<message, item, batch, stored, outside, subVars, itodo, ingVars, history>>

\* Mutant: a rejected draft sets message_id to null in a row it only found.
GenerateClears(g) ==
    LET e == gcur[g] IN
    /\ gpc[g] = "generating"
    /\ \/ Draft(e)
       \/ message' = [message EXCEPT ![e] = "null"] /\ UNCHANGED drafted
    /\ locker' = [locker EXCEPT ![e] = IF @ = g THEN Nobody ELSE @]
    /\ EndGenerate(g)
    /\ UNCHANGED <<item, batch, stored, outside, subVars, itodo, ingVars, overlapped>>

\* The model has answered: the message is stored, or every draft was rejected
\* and the row is committed without one.
GenerateCommit(g) ==
    LET e == gcur[g] IN
    /\ gpc[g] = "generating"
    /\ \/ Draft(e)
       \/ /\ message' = [message EXCEPT ![e] = IF locker[e] = g THEN "null" ELSE @]
          /\ UNCHANGED drafted
    /\ locker' = [locker EXCEPT ![e] = IF @ = g THEN Nobody ELSE @]
    /\ EndGenerate(g)
    /\ UNCHANGED <<item, batch, stored, outside, subVars, itodo, ingVars, overlapped>>

\* The call fails or the process dies: the row is rolled back.
GenerateError(g) ==
    /\ gpc[g] # "idle"
    /\ locker' = [e \in Enrollments |-> IF locker[e] = g THEN Nobody ELSE locker[e]]
    /\ EndGenerate(g)
    /\ UNCHANGED <<message, item, batch, stored, outside, subVars, itodo, ingVars, history>>

-----------------------------------------------------------------------------
(* submit_batch, one transaction from the batch row to the commit.          *)

\* The due enrollments are read; the id is new.
SubmitSelect(s) ==
    /\ spc[s] = "idle"
    /\ \E b \in Batches :
        /\ batch[b] = "none" /\ provider[b] = "none"
        /\ \A t \in Submitters : sbatch[t] # b
        /\ sbatch' = [sbatch EXCEPT ![s] = b]
    /\ {e \in Enrollments : Untouched(e)} # {}
    /\ stodo' = [stodo EXCEPT ![s] = {e \in Enrollments : Untouched(e)}]
    /\ spc' = [spc EXCEPT ![s] = "loop"]
    /\ BeginDrafting
    /\ UNCHANGED <<tables, outside, genVars, scur, sitems, itodo, ingVars, drafted>>

NextDue(s, e) ==
    /\ spc[s] = "loop"
    /\ e \in stodo[s]
    /\ \A f \in stodo[s] : e <= f

\* Some batch that has not failed has an item for the touch.
already_batched(e) ==
    \E b \in Batches : batch[b] # "failed" /\ item[b][e] # "none"

\* e is skipped: the gate, or an item of another batch.
SubmitSkip(s, e) ==
    /\ NextDue(s, e)
    /\ stodo' = [stodo EXCEPT ![s] = @ \ {e}]
    /\ UNCHANGED <<tables, outside, genVars, spc, sbatch, scur, sitems, itodo,
                   ingVars, history>>

\* e passes the gate and is in no batch.
SubmitCheck(s, e) ==
    /\ NextDue(s, e)
    /\ Untouched(e)
    /\ ~already_batched(e)
    /\ stodo' = [stodo EXCEPT ![s] = @ \ {e}]
    /\ scur' = [scur EXCEPT ![s] = e]
    /\ spc' = [spc EXCEPT ![s] = "logging"]
    /\ UNCHANGED <<tables, outside, genVars, sbatch, sitems, itodo, ingVars, history>>

\* record_touch, then _build_request: a request and its item, or neither when
\* the client has no facts or they may not leave.  The row stays either way.
SubmitLog(s) ==
    LET e == scur[s] IN
    /\ spc[s] = "logging"
    /\ locker[e] = Nobody
    /\ locker' = [locker EXCEPT ![e] = IF Untouched(e) THEN s ELSE @]
    /\ \/ message[e] \in {"none", "null"} /\ sitems' = [sitems EXCEPT ![s] = @ \cup {e}]
       \/ UNCHANGED sitems
    /\ scur' = [scur EXCEPT ![s] = Nobody]
    /\ spc' = [spc EXCEPT ![s] = "loop"]
    /\ UNCHANGED <<message, item, batch, stored, outside, genVars, sbatch, stodo, itodo,
                   ingVars, history>>

\* The provider takes the requests.
SubmitCreate(s) ==
    /\ spc[s] = "loop"
    /\ stodo[s] = {} /\ sitems[s] # {}
    /\ provider' = [provider EXCEPT ![sbatch[s]] = "processing"]
    /\ spc' = [spc EXCEPT ![s] = "created"]
    /\ UNCHANGED <<tables, unanswered, open, genVars, sbatch, stodo, scur, sitems, itodo,
                   ingVars, history>>

EndSubmit(s) ==
    /\ spc' = [spc EXCEPT ![s] = "idle"]
    /\ sbatch' = [sbatch EXCEPT ![s] = Nobody]
    /\ stodo' = [stodo EXCEPT ![s] = {}]
    /\ scur' = [scur EXCEPT ![s] = Nobody]
    /\ sitems' = [sitems EXCEPT ![s] = {}]
    /\ locker' = [e \in Enrollments |-> IF locker[e] = s THEN Nobody ELSE locker[e]]

\* The commit makes the batch, its items and its touch rows visible.
SubmitCommit(s) ==
    LET b == sbatch[s] IN
    /\ \/ spc[s] = "created"
       \/ spc[s] = "loop" /\ stodo[s] = {} /\ sitems[s] = {}
    /\ batch' = [batch EXCEPT ![b] = IF spc[s] = "created" THEN "submitted"
                                     ELSE "no_eligible_clients"]
    /\ item' = [item EXCEPT ![b] = [e \in Enrollments |->
                    IF e \in sitems[s] THEN "pending" ELSE "none"]]
    /\ message' = [e \in Enrollments |-> IF locker[e] = s THEN "null" ELSE message[e]]
    /\ EndSubmit(s)
    /\ UNCHANGED <<stored, outside, genVars, itodo, ingVars, history>>

\* The provider refuses, or the process dies, before or after the provider took
\* the requests: nothing of the submission is kept.
SubmitError(s) ==
    /\ spc[s] # "idle"
    /\ EndSubmit(s)
    /\ UNCHANGED <<message, item, batch, stored, outside, genVars, itodo, ingVars, history>>

-----------------------------------------------------------------------------
(* ingest_batch: read, ask the provider, store, commit.                     *)

\* The provider's batch ends, with a result for each request or for some; six
\* hours pass.
ProviderEnds(b) ==
    /\ provider[b] = "processing"
    /\ provider' = [provider EXCEPT ![b] = "ended"]
    /\ \E silent \in SUBSET Enrollments : unanswered' = [unanswered EXCEPT ![b] = silent]
    /\ UNCHANGED <<tables, open, genVars, subVars, itodo, ingVars, history>>

WindowElapses(b) ==
    /\ batch[b] \in IN_FLIGHT_STATUSES
    /\ open[b]
    /\ open' = [open EXCEPT ![b] = FALSE]
    /\ UNCHANGED <<tables, provider, unanswered, genVars, subVars, itodo, ingVars, history>>

\* Mutant: the tick forgets the batches it has already seen in progress.
IngestReadSubmitted(n, b) ==
    /\ npc[n] = "idle"
    /\ batch[b] = "submitted"
    /\ open[b] \/ n \in Manual
    /\ npc' = [npc EXCEPT ![n] = "asking"]
    /\ nbatch' = [nbatch EXCEPT ![n] = b]
    /\ nread' = [nread EXCEPT ![n] = batch[b]]
    /\ UNCHANGED <<tables, outside, genVars, subVars, itodo, nitems, history>>

\* The poll and the tick take up a batch in flight while its window is open, a
\* request at any time; the row stays in the session as it was read.
IngestRead(n, b) ==
    /\ npc[n] = "idle"
    /\ batch[b] \in IN_FLIGHT_STATUSES
    /\ open[b] \/ n \in Manual
    /\ npc' = [npc EXCEPT ![n] = "asking"]
    /\ nbatch' = [nbatch EXCEPT ![n] = b]
    /\ nread' = [nread EXCEPT ![n] = batch[b]]
    /\ UNCHANGED <<tables, outside, genVars, subVars, itodo, nitems, history>>

\* The provider answers; when the batch has ended the pending items are read.
IngestAsk(n) ==
    /\ npc[n] = "asking"
    /\ IF provider[nbatch[n]] = "ended"
         THEN /\ npc' = [npc EXCEPT ![n] = "storing"]
              /\ nitems' = [nitems EXCEPT ![n] =
                              {e \in Enrollments : item[nbatch[n]][e] = "pending"}]
         ELSE npc' = [npc EXCEPT ![n] = "waiting"] /\ UNCHANGED nitems
    /\ UNCHANGED <<tables, outside, genVars, subVars, itodo, nbatch, nread, history>>

EndIngest(n) ==
    /\ npc' = [npc EXCEPT ![n] = "idle"]
    /\ nbatch' = [nbatch EXCEPT ![n] = Nobody]
    /\ nread' = [nread EXCEPT ![n] = "none"]
    /\ nitems' = [nitems EXCEPT ![n] = {}]

\* Not ended: the status is written when it differs from the one read.
IngestInProgress(n) ==
    /\ npc[n] = "waiting"
    /\ batch' = IF nread[n] = "in_progress" THEN batch
                ELSE [batch EXCEPT ![nbatch[n]] = "in_progress"]
    /\ EndIngest(n)
    /\ UNCHANGED <<message, locker, item, stored, outside, genVars, subVars, itodo, history>>

\* The items read as pending that the provider has a result for.
Results(n) == {e \in nitems[n] : e \notin unanswered[nbatch[n]]}

\* Those whose generation run is stored already: its key is the run id, and a
\* second insert of it fails.
Conflicts(n) == {e \in Results(n) : e \in stored[nbatch[n]]}

\* Mutant: the batch is ingested although some results were not read.
StoreSome(n) ==
    LET b == nbatch[n] IN
    /\ npc[n] = "storing"
    /\ Conflicts(n) = {}
    /\ \E some \in SUBSET Results(n) :
        /\ item' = [item EXCEPT ![b] = [e \in Enrollments |->
                        IF e \in some THEN "rejected" ELSE item[b][e]]]
        /\ stored' = [stored EXCEPT ![b] = @ \cup some]
    /\ batch' = [batch EXCEPT ![b] = "ingested"]
    /\ EndIngest(n)
    /\ UNCHANGED <<message, locker, drafted, outside, genVars, subVars, itodo, overlapped>>

\* Mutant: results stored by an earlier call are not passed over, and put the
\* touch's message back to where it started.
StoreAgain(n) ==
    LET b == nbatch[n] IN
    /\ npc[n] = "storing"
    /\ Conflicts(n) = {}
    /\ item' = [item EXCEPT ![b] = [e \in Enrollments |->
                    IF e \in Results(n) THEN "accepted" ELSE item[b][e]]]
    /\ message' = [e \in Enrollments |->
                    IF item[b][e] # "none" THEN "pending_review" ELSE message[e]]
    /\ drafted' = [e \in Enrollments |->
                    IF e \in Results(n) THEN drafted[e] + 1 ELSE drafted[e]]
    /\ stored' = [stored EXCEPT ![b] = @ \cup Results(n)]
    /\ batch' = [batch EXCEPT ![b] = "ingested"]
    /\ EndIngest(n)
    /\ UNCHANGED <<locker, outside, genVars, subVars, itodo, overlapped>>

\* Every result is stored: a message the touch now points at, or a rejection.  The
\* batch is ingested then, whether or not each item had its result.
IngestStore(n) ==
    LET b == nbatch[n] IN
    /\ npc[n] = "storing"
    /\ Conflicts(n) = {}
    /\ \E accepted \in SUBSET Results(n) :
        /\ item' = [item EXCEPT ![b] = [e \in Enrollments |->
                        IF e \in accepted THEN "accepted"
                        ELSE IF e \in Results(n) THEN "rejected" ELSE item[b][e]]]
        /\ message' = [e \in Enrollments |->
                        IF e \in accepted THEN "pending_review" ELSE message[e]]
        /\ drafted' = [e \in Enrollments |->
                        IF e \in accepted THEN drafted[e] + 1 ELSE drafted[e]]
    /\ stored' = [stored EXCEPT ![b] = @ \cup Results(n)]
    /\ batch' = [batch EXCEPT ![b] = "ingested"]
    /\ EndIngest(n)
    /\ UNCHANGED <<locker, outside, genVars, subVars, itodo, overlapped>>

\* A call to the provider fails, an insert conflicts, or the process dies.
IngestError(n) ==
    /\ npc[n] # "idle"
    /\ EndIngest(n)
    /\ UNCHANGED <<tables, outside, genVars, subVars, itodo, history>>

-----------------------------------------------------------------------------
(* Instantiation of an approved template: instantiate_template and          *)
(* instantiate_many_templates.                                              *)

\* derive_buckets: the members are the due clients that pass the gate now.
InstantiateSelect(i) ==
    /\ itodo[i] = {}
    /\ \E members \in SUBSET {e \in Enrollments : Untouched(e)} :
        /\ members # {}
        /\ itodo' = [itodo EXCEPT ![i] = members]
    /\ BeginDrafting
    /\ UNCHANGED <<tables, outside, genVars, subVars, ingVars, drafted>>

\* A member: the touch is logged and gets its message unless it has one; a
\* draft the guardrails reject leaves the touch without.
InstantiateMember(i, e) ==
    /\ e \in itodo[i]
    /\ locker[e] = Nobody
    /\ IF message[e] \in {"none", "null"}
         THEN \/ Draft(e)
              \/ message' = [message EXCEPT ![e] = "null"] /\ UNCHANGED drafted
         ELSE UNCHANGED <<message, drafted>>
    /\ itodo' = [itodo EXCEPT ![i] = @ \ {e}]
    /\ UNCHANGED <<locker, item, batch, stored, outside, genVars, subVars, ingVars, overlapped>>

\* A member fails and is rolled back, or the run ends early.
InstantiateError(i) ==
    /\ \E rest \in SUBSET itodo[i] :
        /\ rest # itodo[i]
        /\ itodo' = [itodo EXCEPT ![i] = rest]
    /\ UNCHANGED <<tables, outside, genVars, subVars, ingVars, history>>

-----------------------------------------------------------------------------
\* A reviewer approves the message the touch points at.
Approve(e) ==
    /\ message[e] = "pending_review"
    /\ message' = [message EXCEPT ![e] = "approved"]
    /\ UNCHANGED <<locker, item, batch, stored, outside, genVars, subVars, itodo, ingVars,
                   history>>

Generate(g) ==
    \/ \E e \in Enrollments : GenerateCheck(g, e)
    \/ GenerateLog(g) \/ GenerateCommit(g) \/ GenerateError(g)

Submit(s) ==
    \/ SubmitSelect(s)
    \/ \E e \in Enrollments : SubmitSkip(s, e) \/ SubmitCheck(s, e)
    \/ SubmitLog(s) \/ SubmitCreate(s) \/ SubmitCommit(s) \/ SubmitError(s)

Ingest(n) ==
    \/ \E b \in Batches : IngestRead(n, b)
    \/ IngestAsk(n) \/ IngestInProgress(n) \/ IngestStore(n) \/ IngestError(n)

Instantiate(i) ==
    \/ InstantiateSelect(i) \/ InstantiateError(i)
    \/ \E e \in Enrollments : InstantiateMember(i, e)

Next ==
    \/ \E g \in Generators : Generate(g)
    \/ \E s \in Submitters : Submit(s)
    \/ \E n \in Ingesters : Ingest(n)
    \/ \E i \in Instantiators : Instantiate(i)
    \/ \E b \in Batches : ProviderEnds(b) \/ WindowElapses(b)
    \/ \E e \in Enrollments : Approve(e)

Spec == Init /\ [][Next]_vars

\* The tick takes up every batch in flight, again and again; a call that is under
\* way goes on or fails on its conflict, and neither the provider nor the database
\* fails for ever for the same batch.
Fairness ==
    \A n \in Ingesters \ Manual :
        /\ \A b \in Batches :
            /\ SF_vars(IngestRead(n, b))
            /\ SF_vars(nbatch[n] = b /\ IngestAsk(n))
            /\ SF_vars(nbatch[n] = b /\ IngestStore(n))
        /\ WF_vars(IngestInProgress(n))
        /\ WF_vars(Conflicts(n) # {} /\ IngestError(n))

FairSpec == Spec /\ Fairness

-----------------------------------------------------------------------------
(* What holds whatever overlaps, fails and is called again.                 *)

\* A result that was accepted is not lost to its touch: whatever the other ways do
\* with the touch row meanwhile, a draft of theirs that is rejected or rolled back
\* does not leave the touch without a message.
AcceptedHasMessage ==
    \A b \in Batches, e \in Enrollments :
        item[b][e] = "accepted" => message[e] \in {"pending_review", "approved"}

\* No result is lost: the batch of an item that still waits for its result is one
\* that ingest_batch takes up, and the provider knows it; after every crash of a
\* submission or an ingestion, and after a late status write.  Only an item that
\* the provider left out of the results waits in a batch that is ingested.
PendingItemAwaited ==
    \A b \in Batches, e \in Enrollments :
        item[b][e] = "pending" =>
            /\ provider[b] # "none"
            /\ \/ batch[b] \in IN_FLIGHT_STATUSES
               \/ batch[b] = "ingested" /\ e \in unanswered[b]

(* What holds as long as no two drafting requests were under way at once;   *)
(* ingestions may overlap with everything.                                  *)

\* A touch gets one message (_already_batched is there so as not to "risk two
\* outreach_messages for one touch"), also when a submission dies after the
\* provider took its requests and the touches are submitted again.
OneDraftPerTouch == ~overlapped => \A e \in Enrollments : drafted[e] <= 1

\* What a reviewer approved is what the touch will send: no late result takes
\* the place of an approved message.
ApprovedDraftKept ==
    [][~overlapped => \A e \in Enrollments :
            message[e] = "approved" => message'[e] = "approved"]_vars

\* A batch the provider has ended is ingested, unless its polling window passes.
EndedIsIngested ==
    \A b \in Batches :
        (provider[b] = "ended" /\ batch[b] \in IN_FLIGHT_STATUSES)
            ~> (batch[b] = "ingested" \/ ~open[b])
=============================================================================
