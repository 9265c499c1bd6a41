---------------------------- MODULE ReviewCohort ----------------------------
(***************************************************************************)
(* Review sampling for one campaign and tier: the messages of a cohort     *)
(* (campaigns/cohorts.py), the decisions of reviewers (services/review.py  *)
(* decide, decide_batch, check_cohort_ready, approve_cohort_remainder) and *)
(* the replacement of a draft (campaigns/generation.py                     *)
(* regenerate_message).                                                    *)
(*                                                                         *)
(* Transactions run at READ COMMITTED: a statement sees what is committed  *)
(* when it runs and what its own transaction wrote.  A writer keeps the    *)
(* cohort's row locked from the UPDATE that claims its slot to its commit, *)
(* a reviewer keeps the message's row locked from the flush of decide.     *)
(***************************************************************************)
EXTENDS Naturals, FiniteSets

CONSTANTS
    Writers,       \* generation transactions that store a message of the cohort
    Reviewers,     \* review requests
    MaxMessages,   \* bound on the messages ever stored
    SampleAll,     \* sample_rate is null
    SampleEvery,   \* round(1 / sample_rate), 0 for a rate that is not positive
    SampleCap      \* sample_cap

ASSUME CohortAssumption ==
    /\ MaxMessages \in Nat \ {0}
    /\ SampleEvery \in Nat
    /\ SampleCap \in Nat
    /\ SampleAll \in BOOLEAN

VARIABLES
    cohort,        \* review_cohort.status, "none" before the row exists
    assigned,      \* review_cohort.assigned_count
    mstatus,       \* outreach_message.status, "none" before, "deleted" after
    slot,          \* the slot the message claimed
    sample,        \* outreach_message.is_sample
    wpc, wseen, wslot,     \* writers; wseen: the cohort status read
    rpc, rcur, rflip, rrest,   \* requests; rflip: the status to write, rrest: ids read
    read,          \* samples a reviewer approved as a request of its own
    bulk           \* messages approved by approve_cohort_remainder

messageVars == <<mstatus, slot, sample>>
writerVars == <<wpc, wseen, wslot>>
requestVars == <<rpc, rcur, rflip, rrest>>
vars == <<cohort, assigned, messageVars, writerVars, requestVars, read, bulk>>

-----------------------------------------------------------------------------
Messages == 1..MaxMessages
CohortStatuses == {"sampling", "ready_to_approve_rest", "completed"}

TypeOK ==
    /\ cohort \in CohortStatuses \cup {"none"}
    /\ assigned \in Nat
    /\ mstatus \in [Messages -> {"none", "pending_review", "approved", "deleted"}]
    /\ slot \in [Messages -> Nat]
    /\ sample \in [Messages -> BOOLEAN]
    /\ wpc \in [Writers -> {"idle", "creating", "read", "assigned"}]
    /\ wseen \in [Writers -> CohortStatuses \cup {"none"}]
    /\ wslot \in [Writers -> Nat]
    /\ rpc \in [Reviewers -> {"idle", "read", "flushed", "remainder", "regenerating"}]
    /\ rcur \in [Reviewers -> Messages \cup {0}]
    /\ rflip \in [Reviewers -> CohortStatuses \cup {"none"}]
    /\ rrest \in [Reviewers -> SUBSET Messages]
    /\ read \subseteq Messages
    /\ bulk \subseteq Messages

Init ==
    /\ cohort = "none"
    /\ assigned = 0
    /\ mstatus = [m \in Messages |-> "none"]
    /\ slot = [m \in Messages |-> 0]
    /\ sample = [m \in Messages |-> FALSE]
    /\ wpc = [w \in Writers |-> "idle"]
    /\ wseen = [w \in Writers |-> "none"]
    /\ wslot = [w \in Writers |-> 0]
    /\ rpc = [r \in Reviewers |-> "idle"]
    /\ rcur = [r \in Reviewers |-> 0]
    /\ rflip = [r \in Reviewers |-> "none"]
    /\ rrest = [r \in Reviewers |-> {}]
    /\ read = {}
    /\ bulk = {}

-----------------------------------------------------------------------------
(* Storing a message: get_or_create_cohort, assign_cohort_slot, commit.     *)

Pending == {m \in Messages : mstatus[m] = "pending_review"}

\* The slots that messages were stored in.
Slots == {slot[m] : m \in {n \in Messages : mstatus[n] # "none"}}

is_sample_slot(s) ==
    \/ SampleAll
    \/ s = 1
    \/ /\ s > 1
       /\ SampleEvery > 0
       /\ (s - 1) % SampleEvery = 0
       /\ 1 + (s - 1) \div SampleEvery <= SampleCap

\* The cohort's row is locked, or being inserted, by a transaction under way.
CohortLocked == \E w \in Writers : wpc[w] = "assigned"

\* The message row is locked by a decision under way.
MessageLocked(m) == \E r \in Reviewers : rpc[r] = "flushed" /\ rcur[r] = m

\* The transaction is over.
EndWrite(w) ==
    /\ wpc' = [wpc EXCEPT ![w] = "idle"]
    /\ wseen' = [wseen EXCEPT ![w] = "none"]
    /\ wslot' = [wslot EXCEPT ![w] = 0]

\* get_or_create_cohort finds the cohort, or none and goes on to insert it.
get_or_create_cohort(w) ==
    /\ wpc[w] = "idle"
    /\ wseen' = [wseen EXCEPT ![w] = cohort]
    /\ wpc' = [wpc EXCEPT ![w] = IF cohort = "none" THEN "creating" ELSE "read"]
    /\ UNCHANGED <<cohort, assigned, messageVars, wslot, requestVars, read, bulk>>

\* The insert, once no concurrent insert of the same campaign and tier is under
\* way, and the first slot of the new cohort.
CreateCohort(w) ==
    /\ wpc[w] = "creating"
    /\ cohort = "none"
    /\ ~CohortLocked
    /\ wpc' = [wpc EXCEPT ![w] = "assigned"]
    /\ wseen' = [wseen EXCEPT ![w] = "sampling"]
    /\ wslot' = [wslot EXCEPT ![w] = 1]
    /\ UNCHANGED <<cohort, assigned, messageVars, requestVars, read, bulk>>

\* The unique constraint refuses a second cohort: the transaction is rolled back.
CreateCohortFails(w) ==
    /\ wpc[w] = "creating"
    /\ cohort # "none"
    /\ EndWrite(w)
    /\ UNCHANGED <<cohort, assigned, messageVars, requestVars, read, bulk>>

\* Mutant: count, then write back, without the row lock.
AssignWithoutLock(w) ==
    /\ wpc[w] = "read"
    /\ wpc' = [wpc EXCEPT ![w] = "assigned"]
    /\ wslot' = [wslot EXCEPT ![w] = assigned + 1]
    /\ UNCHANGED <<cohort, assigned, messageVars, wseen, requestVars, read, bulk>>

\* UPDATE ... RETURNING waits for the row and takes the next slot.
assign_cohort_slot(w) ==
    /\ wpc[w] = "read"
    /\ ~CohortLocked
    /\ wpc' = [wpc EXCEPT ![w] = "assigned"]
    /\ wslot' = [wslot EXCEPT ![w] = assigned + 1]
    /\ UNCHANGED <<cohort, assigned, messageVars, wseen, requestVars, read, bulk>>

\* The next message id.
IsFresh(m) == mstatus[m] = "none" /\ \A n \in 1..(m - 1) : mstatus[n] # "none"

\* The message is stored; a cohort no longer sampling when it was read makes it
\* a message reviewed on its own.
StoreMessage(w) ==
    /\ wpc[w] = "assigned"
    /\ \E m \in Messages :
        /\ IsFresh(m)
        /\ mstatus' = [mstatus EXCEPT ![m] = "pending_review"]
        /\ slot' = [slot EXCEPT ![m] = wslot[w]]
        /\ sample' = [sample EXCEPT ![m] =
                        wseen[w] # "sampling" \/ is_sample_slot(wslot[w])]
    /\ assigned' = wslot[w]
    /\ cohort' = IF cohort = "none" THEN "sampling" ELSE cohort
    /\ EndWrite(w)
    /\ UNCHANGED <<requestVars, read, bulk>>

\* Mutant: the slot counter is not part of the transaction that fails.
StoreFailsKeepsSlot(w) ==
    /\ wpc[w] \in {"read", "assigned"}
    /\ assigned' = IF wpc[w] = "assigned" THEN wslot[w] ELSE assigned
    /\ EndWrite(w)
    /\ UNCHANGED <<cohort, messageVars, requestVars, read, bulk>>

\* The transaction is rolled back, and the slot it claimed with it.
StoreFails(w) ==
    /\ wpc[w] \in {"read", "assigned"}
    /\ EndWrite(w)
    /\ UNCHANGED <<cohort, assigned, messageVars, requestVars, read, bulk>>

-----------------------------------------------------------------------------
(* Review requests.                                                         *)

EndRequest(r) ==
    /\ rpc' = [rpc EXCEPT ![r] = "idle"]
    /\ rcur' = [rcur EXCEPT ![r] = 0]
    /\ rflip' = [rflip EXCEPT ![r] = "none"]
    /\ rrest' = [rrest EXCEPT ![r] = {}]

\* decide finds the message undecided; approving is all a cohort allows.
DecideRead(r, m) ==
    /\ rpc[r] = "idle"
    /\ m \in Pending
    /\ rpc' = [rpc EXCEPT ![r] = "read"]
    /\ rcur' = [rcur EXCEPT ![r] = m]
    /\ UNCHANGED <<cohort, assigned, messageVars, writerVars, rflip, rrest, read, bulk>>

\* The status check_cohort_ready gives the cohort after m is decided, "none" for
\* no change: it counts what is committed, and m as decided.
check_cohort_ready(m) ==
    IF ~sample[m] \/ cohort # "sampling" \/ \E n \in Pending \ {m} : sample[n]
      THEN "none"
      ELSE IF \E n \in Pending \ {m} : ~sample[n] THEN "ready_to_approve_rest"
                                                  ELSE "completed"

\* decide flushes the new status and check_cohort_ready counts.
DecideFlush(r) ==
    /\ rpc[r] = "read"
    /\ mstatus[rcur[r]] # "deleted"
    /\ ~MessageLocked(rcur[r])
    /\ rpc' = [rpc EXCEPT ![r] = "flushed"]
    /\ rflip' = [rflip EXCEPT ![r] = check_cohort_ready(rcur[r])]
    /\ UNCHANGED <<cohort, assigned, messageVars, writerVars, rcur, rrest, read, bulk>>

\* A regenerate deleted the message: the update finds no row.
DecideFails(r) ==
    /\ rpc[r] = "read"
    /\ mstatus[rcur[r]] = "deleted"
    /\ EndRequest(r)
    /\ UNCHANGED <<cohort, assigned, messageVars, writerVars, read, bulk>>

\* Mutant: a message of a cohort may be rejected.
DecideRejects(r) ==
    /\ rpc[r] = "flushed"
    /\ rflip[r] # "none" => ~CohortLocked
    /\ \E st \in {"approved", "rejected"} : mstatus' = [mstatus EXCEPT ![rcur[r]] = st]
    /\ cohort' = IF rflip[r] = "none" THEN cohort ELSE rflip[r]
    /\ read' = IF sample[rcur[r]] THEN read \cup {rcur[r]} ELSE read
    /\ EndRequest(r)
    /\ UNCHANGED <<assigned, slot, sample, writerVars, bulk>>

\* The cohort's row is written, when it has to be, and the request commits.
DecideCommit(r) ==
    /\ rpc[r] = "flushed"
    /\ rflip[r] # "none" => ~CohortLocked
    /\ mstatus' = [mstatus EXCEPT ![rcur[r]] = "approved"]
    /\ cohort' = IF rflip[r] = "none" THEN cohort ELSE rflip[r]
    /\ read' = IF sample[rcur[r]] THEN read \cup {rcur[r]} ELSE read
    /\ EndRequest(r)
    /\ UNCHANGED <<assigned, slot, sample, writerVars, bulk>>

\* decide_batch: the same decision for several messages, and nothing more.
decide_batch(S) ==
    /\ S # {} /\ S \subseteq Pending
    /\ \A m \in S : ~MessageLocked(m)
    /\ mstatus' = [m \in Messages |-> IF m \in S THEN "approved" ELSE mstatus[m]]
    /\ read' = read \cup {m \in S : sample[m]}
    /\ UNCHANGED <<cohort, assigned, slot, sample, writerVars, requestVars, bulk>>

\* Mutant: CohortNotReady is not raised.
RemainderOfAnyCohort(r) ==
    /\ rpc[r] = "idle"
    /\ cohort # "none"
    /\ rpc' = [rpc EXCEPT ![r] = "remainder"]
    /\ rrest' = [rrest EXCEPT ![r] = {m \in Pending : ~sample[m]}]
    /\ UNCHANGED <<cohort, assigned, messageVars, writerVars, rcur, rflip, read, bulk>>

\* approve_cohort_remainder reads the status and the ids still waiting.
RemainderRead(r) ==
    /\ rpc[r] = "idle"
    /\ cohort = "ready_to_approve_rest"
    /\ rpc' = [rpc EXCEPT ![r] = "remainder"]
    /\ rrest' = [rrest EXCEPT ![r] = {m \in Pending : ~sample[m]}]
    /\ UNCHANGED <<cohort, assigned, messageVars, writerVars, rcur, rflip, read, bulk>>

\* It decides each of them, skipping those decided or deleted by now, and
\* completes the cohort.
RemainderCommit(r) ==
    /\ rpc[r] = "remainder"
    /\ ~CohortLocked
    /\ \A m \in rrest[r] : ~MessageLocked(m)
    /\ mstatus' = [m \in Messages |-> IF m \in rrest[r] \cap Pending THEN "approved"
                                                                     ELSE mstatus[m]]
    /\ bulk' = bulk \cup (rrest[r] \cap Pending)
    /\ cohort' = "completed"
    /\ EndRequest(r)
    /\ UNCHANGED <<assigned, slot, sample, writerVars, read>>

\* regenerate_message finds the message undecided and asks for a fresh draft.
RegenerateRead(r, m) ==
    /\ rpc[r] = "idle"
    /\ m \in Pending
    /\ rpc' = [rpc EXCEPT ![r] = "regenerating"]
    /\ rcur' = [rcur EXCEPT ![r] = m]
    /\ UNCHANGED <<cohort, assigned, messageVars, writerVars, rflip, rrest, read, bulk>>

\* Mutant: the old message is deleted even when it has been decided.
RegenerateDecided(r) ==
    /\ rpc[r] = "regenerating"
    /\ ~MessageLocked(rcur[r])
    /\ \E m \in Messages :
        /\ IsFresh(m)
        /\ mstatus' = [mstatus EXCEPT ![rcur[r]] = "deleted", ![m] = "pending_review"]
        /\ slot' = [slot EXCEPT ![m] = slot[rcur[r]]]
        /\ sample' = [sample EXCEPT ![m] = sample[rcur[r]]]
    /\ EndRequest(r)
    /\ UNCHANGED <<cohort, assigned, writerVars, read, bulk>>

\* The draft replaces the message in its slot.  The review_action of a decided
\* message refuses its deletion; a message deleted before is deleted again.
RegenerateCommit(r) ==
    /\ rpc[r] = "regenerating"
    /\ ~MessageLocked(rcur[r])
    /\ mstatus[rcur[r]] # "approved"
    /\ \E m \in Messages :
        /\ IsFresh(m)
        /\ mstatus' = [mstatus EXCEPT ![rcur[r]] = "deleted", ![m] = "pending_review"]
        /\ slot' = [slot EXCEPT ![m] = slot[rcur[r]]]
        /\ sample' = [sample EXCEPT ![m] = sample[rcur[r]]]
    /\ EndRequest(r)
    /\ UNCHANGED <<cohort, assigned, writerVars, read, bulk>>

\* RegenerationRejected, or the deletion was refused: nothing changes.
RegenerateFails(r) ==
    /\ rpc[r] = "regenerating"
    /\ EndRequest(r)
    /\ UNCHANGED <<cohort, assigned, messageVars, writerVars, read, bulk>>

-----------------------------------------------------------------------------
Write(w) ==
    \/ get_or_create_cohort(w) \/ CreateCohort(w) \/ CreateCohortFails(w)
    \/ assign_cohort_slot(w) \/ StoreMessage(w) \/ StoreFails(w)

Request(r) ==
    \/ \E m \in Messages : DecideRead(r, m) \/ RegenerateRead(r, m)
    \/ DecideFlush(r) \/ DecideFails(r) \/ DecideCommit(r)
    \/ RemainderRead(r) \/ RemainderCommit(r)
    \/ RegenerateCommit(r) \/ RegenerateFails(r)

Next ==
    \/ \E w \in Writers : Write(w)
    \/ \E r \in Reviewers : Request(r)
    \/ \E S \in SUBSET Messages : decide_batch(S)

Spec == Init /\ [][Next]_vars

-----------------------------------------------------------------------------
\* No message goes out on the cohort's strength before a reviewer has approved
\* one of its samples ("so no cohort ever goes out with nobody having read
\* anything", cohorts.py), whatever is being generated or decided meanwhile.
RestRidesOnReadSample == bulk # {} => read # {}

\* Failed transactions and regenerations never leave a slot empty, so the spacing
\* of the samples is the one configured.
SlotsContiguous == Slots = 1..assigned

\* Messages generated for the cohort at once never claim the same slot: one that
\* is stored (no request replaces a message in that step) has a slot of its own.
SlotsTakenOnce ==
    [][\A m \in Messages :
        mstatus[m] = "none" /\ mstatus'[m] # "none" /\ UNCHANGED rpc
            => slot'[m] \notin Slots]_vars

\* A decision is never undone: not by a regenerate that read the message before
\* it was decided, nor by another request that decides it.
ApprovedStays ==
    [][\A m \in Messages : mstatus[m] = "approved" => mstatus'[m] = "approved"]_vars
=============================================================================
