------------------------- MODULE ReviewCohortProofs -------------------------
(***************************************************************************)
(* Proofs about ReviewCohort, for any number of writers, requests and      *)
(* messages and any sampling parameters.                                   *)
(***************************************************************************)
EXTENDS ReviewCohort, TLAPS

USE CohortAssumption DEF Messages

-----------------------------------------------------------------------------
(* Types.                                                                   *)

\* A request that holds a message holds one that exists.
TypeInv ==
    /\ TypeOK
    /\ \A r \in Reviewers : rpc[r] \in {"read", "flushed", "regenerating"} => rcur[r] \in Messages

\* Every step of the writers and the requests keeps the types.
LEMMA TypeStep ==
    ASSUME TypeInv, [Next]_vars
    PROVE  TypeInv'
<1> USE DEF TypeInv, TypeOK, CohortStatuses, messageVars, writerVars, requestVars
<1>1. CASE UNCHANGED vars
  BY <1>1 DEF vars
<1>2. ASSUME NEW w \in Writers, Write(w) PROVE TypeInv'
  <2>1. CASE get_or_create_cohort(w)
    BY <2>1 DEF get_or_create_cohort
  <2>2. CASE CreateCohort(w)
    BY <2>2 DEF CreateCohort
  <2>3. CASE CreateCohortFails(w)
    BY <2>3 DEF CreateCohortFails, EndWrite
  <2>4. CASE assign_cohort_slot(w)
    BY <2>4 DEF assign_cohort_slot
  <2>5. CASE StoreMessage(w)
    <3>1. PICK m \in Messages :
            /\ mstatus' = [mstatus EXCEPT ![m] = "pending_review"]
            /\ slot' = [slot EXCEPT ![m] = wslot[w]]
            /\ sample' = [sample EXCEPT ![m] = wseen[w] # "sampling" \/ is_sample_slot(wslot[w])]
      BY <2>5 DEF StoreMessage
    <3>2. sample' \in [Messages -> BOOLEAN]
      BY <3>1 DEF is_sample_slot
    <3>3. mstatus' \in [Messages -> {"none", "pending_review", "approved", "deleted"}]
          /\ slot' \in [Messages -> Nat]
      BY <3>1
    <3> QED BY <2>5, <3>2, <3>3 DEF StoreMessage, EndWrite
  <2>6. CASE StoreFails(w)
    BY <2>6 DEF StoreFails, EndWrite
  <2> QED BY <1>2, <2>1, <2>2, <2>3, <2>4, <2>5, <2>6 DEF Write
<1>3. ASSUME NEW r \in Reviewers, Request(r) PROVE TypeInv'
  <2> USE DEF EndRequest, Pending
  <2>1. ASSUME NEW m \in Messages, DecideRead(r, m) PROVE TypeInv'
    BY <2>1 DEF DecideRead
  <2>2. ASSUME NEW m \in Messages, RegenerateRead(r, m) PROVE TypeInv'
    BY <2>2 DEF RegenerateRead
  <2>3. CASE DecideFlush(r)
    <3>1. check_cohort_ready(rcur[r]) \in CohortStatuses \cup {"none"}
      BY DEF check_cohort_ready
    <3> QED BY <2>3, <3>1 DEF DecideFlush
  <2>4. CASE DecideFails(r)
    BY <2>4 DEF DecideFails
  <2>5. CASE DecideCommit(r)
    BY <2>5 DEF DecideCommit
  <2>6. CASE RemainderRead(r)
    BY <2>6 DEF RemainderRead
  <2>7. CASE RemainderCommit(r)
    BY <2>7 DEF RemainderCommit
  <2>8. CASE RegenerateCommit(r)
    <3>1. PICK m \in Messages :
            /\ mstatus' = [mstatus EXCEPT ![rcur[r]] = "deleted", ![m] = "pending_review"]
            /\ slot' = [slot EXCEPT ![m] = slot[rcur[r]]]
            /\ sample' = [sample EXCEPT ![m] = sample[rcur[r]]]
      BY <2>8 DEF RegenerateCommit
    <3>2. rcur[r] \in Messages
      BY <2>8 DEF RegenerateCommit
    <3>3. mstatus' \in [Messages -> {"none", "pending_review", "approved", "deleted"}]
      BY <3>1
    <3>4. slot' \in [Messages -> Nat] /\ sample' \in [Messages -> BOOLEAN]
      BY <3>1, <3>2
    <3>5. /\ rpc' = [rpc EXCEPT ![r] = "idle"] /\ rcur' = [rcur EXCEPT ![r] = 0]
          /\ rflip' = [rflip EXCEPT ![r] = "none"] /\ rrest' = [rrest EXCEPT ![r] = {}]
          /\ UNCHANGED <<cohort, assigned, wpc, wseen, wslot, read, bulk>>
      BY <2>8 DEF RegenerateCommit
    <3> QED BY <3>3, <3>4, <3>5
  <2>9. CASE RegenerateFails(r)
    BY <2>9 DEF RegenerateFails
  <2> QED BY <1>3, <2>1, <2>2, <2>3, <2>4, <2>5, <2>6, <2>7, <2>8, <2>9 DEF Request
<1>4. ASSUME NEW S \in SUBSET Messages, decide_batch(S) PROVE TypeInv'
  BY <1>4 DEF decide_batch, Pending
<1> QED BY <1>1, <1>2, <1>3, <1>4 DEF Next

\* The rows of the cohort and its messages, and what the transactions hold of
\* them, always have the types the schema and the code give them.
THEOREM CohortTypeCorrect == Spec => []TypeOK
<1>1. Init => TypeInv
  BY DEF Init, TypeInv, TypeOK, CohortStatuses
<1>2. TypeInv /\ [Next]_vars => TypeInv'
  BY TypeStep
<1>3. TypeInv => TypeOK
  BY DEF TypeInv
<1> QED BY <1>1, <1>2, <1>3, PTL DEF Spec

LEMMA TypeInvariant == Spec => []TypeInv
<1>1. Init => TypeInv
  BY DEF Init, TypeInv, TypeOK, CohortStatuses
<1>2. TypeInv /\ [Next]_vars => TypeInv'
  BY TypeStep
<1> QED BY <1>1, <1>2, PTL DEF Spec

-----------------------------------------------------------------------------
(* Nothing is released on the strength of a sample nobody read.             *)

\* A cohort that left sampling, and a request about to release its rest, come
\* after the approval of a sample; a request about to move it on holds one.
ReadInv ==
    /\ RestRidesOnReadSample
    /\ cohort \in {"ready_to_approve_rest", "completed"} => read # {}
    /\ \A r \in Reviewers :
        /\ rpc[r] = "remainder" => read # {}
        /\ rpc[r] \in {"read", "flushed", "regenerating"} => mstatus[rcur[r]] # "none"
        /\ rflip[r] # "none" => rpc[r] = "flushed" /\ sample[rcur[r]]

LEMMA ReadStep ==
    ASSUME TypeInv, ReadInv, [Next]_vars
    PROVE  ReadInv'
<1> USE DEF TypeInv, TypeOK, CohortStatuses, messageVars, writerVars, requestVars, ReadInv,
        RestRidesOnReadSample
<1>1. CASE UNCHANGED vars
  BY <1>1 DEF vars
<1>2. ASSUME NEW w \in Writers, Write(w) PROVE ReadInv'
  <2>1. CASE get_or_create_cohort(w) \/ CreateCohort(w) \/ CreateCohortFails(w)
             \/ assign_cohort_slot(w) \/ StoreFails(w)
    BY <2>1 DEF get_or_create_cohort, CreateCohort, CreateCohortFails, assign_cohort_slot,
       StoreFails
  <2>2. CASE StoreMessage(w)
    <3>1. PICK m \in Messages :
            /\ mstatus[m] = "none"
            /\ mstatus' = [mstatus EXCEPT ![m] = "pending_review"]
            /\ sample' = [sample EXCEPT ![m] = wseen[w] # "sampling" \/ is_sample_slot(wslot[w])]
      BY <2>2 DEF StoreMessage, IsFresh
    <3>2. \A r \in Reviewers : rpc[r] \in {"read", "flushed", "regenerating"} =>
            /\ rcur[r] \in Messages /\ rcur[r] # m
      BY <3>1
    <3>3. \A r \in Reviewers : rpc[r] \in {"read", "flushed", "regenerating"} =>
            /\ sample'[rcur[r]] = sample[rcur[r]] /\ mstatus'[rcur[r]] = mstatus[rcur[r]]
      BY <3>1, <3>2
    <3>4. UNCHANGED <<rpc, rcur, rflip, read, bulk>>
          /\ cohort' \in {cohort, "sampling"}
      BY <2>2 DEF StoreMessage
    <3> QED BY <3>3, <3>4
  <2> QED BY <1>2, <2>1, <2>2 DEF Write
<1>3. ASSUME NEW r \in Reviewers, Request(r) PROVE ReadInv'
  <2> USE DEF EndRequest, Pending
  <2>1. ASSUME NEW m \in Messages, DecideRead(r, m) \/ RegenerateRead(r, m) PROVE ReadInv'
    <3>1. /\ rpc' = [rpc EXCEPT ![r] = "read"] \/ rpc' = [rpc EXCEPT ![r] = "regenerating"]
          /\ rpc[r] = "idle" /\ rcur' = [rcur EXCEPT ![r] = m] /\ mstatus[m] = "pending_review"
          /\ UNCHANGED <<cohort, mstatus, sample, rflip, read, bulk>>
      BY <2>1 DEF DecideRead, RegenerateRead
    <3>2. rflip[r] = "none"
      BY <3>1
    <3> QED BY <3>1, <3>2
  <2>3. CASE DecideFlush(r)
    <3>1. check_cohort_ready(rcur[r]) # "none" => sample[rcur[r]]
      BY DEF check_cohort_ready
    <3>2. rpc[r] = "read" /\ rpc' = [rpc EXCEPT ![r] = "flushed"]
          /\ rflip' = [rflip EXCEPT ![r] = check_cohort_ready(rcur[r])]
          /\ UNCHANGED <<cohort, mstatus, sample, rcur, read, bulk>>
      BY <2>3 DEF DecideFlush
    <3> QED BY <3>1, <3>2
  <2>4. CASE DecideFails(r) \/ RegenerateFails(r)
    <3>1. rpc' = [rpc EXCEPT ![r] = "idle"] /\ rflip' = [rflip EXCEPT ![r] = "none"]
          /\ rcur' = [rcur EXCEPT ![r] = 0]
          /\ UNCHANGED <<cohort, mstatus, sample, read, bulk>>
      BY <2>4 DEF DecideFails, RegenerateFails
    <3> QED BY <3>1
  <2>5. CASE DecideCommit(r)
    <3>1. /\ rpc[r] = "flushed" /\ rcur[r] \in Messages
          /\ mstatus' = [mstatus EXCEPT ![rcur[r]] = "approved"]
          /\ rpc' = [rpc EXCEPT ![r] = "idle"] /\ rflip' = [rflip EXCEPT ![r] = "none"]
          /\ rcur' = [rcur EXCEPT ![r] = 0]
          /\ UNCHANGED <<sample, bulk>>
      BY <2>5 DEF DecideCommit
    <3>2. read \subseteq read' /\ (sample[rcur[r]] => read' # {})
      BY <2>5 DEF DecideCommit
    <3>3. cohort' = cohort \/ rflip[r] # "none"
      BY <2>5 DEF DecideCommit
    <3>4. cohort' \in {"ready_to_approve_rest", "completed"} => read' # {}
      BY <3>2, <3>3
    <3>5. \A q \in Reviewers : rpc'[q] # "idle" =>
            q # r /\ rpc'[q] = rpc[q] /\ rflip'[q] = rflip[q] /\ rcur'[q] = rcur[q]
      BY <3>1
    <3>6. \A m \in Messages : mstatus[m] # "none" => mstatus'[m] # "none"
      BY <3>1
    <3>7. RestRidesOnReadSample'
      BY <3>1, <3>2
    <3>8. \A q \in Reviewers : rpc'[q] = "remainder" => read' # {}
      BY <3>2, <3>5
    <3>9. \A q \in Reviewers : rpc'[q] \in {"read", "flushed", "regenerating"}
            => mstatus'[rcur'[q]] # "none"
      BY <3>5, <3>6
    <3>10. \A q \in Reviewers : rflip'[q] # "none" => rpc'[q] = "flushed" /\ sample'[rcur'[q]]
      <4> SUFFICES ASSUME NEW q \in Reviewers, rflip'[q] # "none"
                   PROVE  rpc'[q] = "flushed" /\ sample'[rcur'[q]]
        OBVIOUS
      <4>1. q # r /\ rflip'[q] = rflip[q] /\ rpc'[q] = rpc[q] /\ rcur'[q] = rcur[q]
        BY <3>1
      <4> QED BY <4>1, <3>1
    <3> QED BY <3>4, <3>7, <3>8, <3>9, <3>10
  <2>6. CASE RemainderRead(r)
    BY <2>6 DEF RemainderRead
  <2>7. CASE RemainderCommit(r)
    BY <2>7 DEF RemainderCommit
  <2>8. CASE RegenerateCommit(r)
    BY <2>8 DEF RegenerateCommit, IsFresh
  <2> QED BY <1>3, <2>1, <2>3, <2>4, <2>5, <2>6, <2>7, <2>8 DEF Request
<1>4. ASSUME NEW S \in SUBSET Messages, decide_batch(S) PROVE ReadInv'
  BY <1>4 DEF decide_batch, Pending
<1> QED BY <1>1, <1>2, <1>3, <1>4 DEF Next

\* approve_cohort_remainder never approves a message of a cohort none of whose
\* samples a reviewer has approved, in any interleaving of any number of requests
\* and writers.
THEOREM NoRestWithoutReadSample == Spec => []RestRidesOnReadSample
<1>1. Init => ReadInv
  BY DEF Init, ReadInv, RestRidesOnReadSample
<1>2. TypeInv /\ ReadInv /\ [Next]_vars => ReadInv'
  BY ReadStep
<1>3. ReadInv => RestRidesOnReadSample
  BY DEF ReadInv
<1> QED BY <1>1, <1>2, <1>3, TypeInvariant, PTL DEF Spec

LEMMA ReadInvariant == Spec => []ReadInv
<1>1. Init => ReadInv
  BY DEF Init, ReadInv, RestRidesOnReadSample
<1>2. TypeInv /\ ReadInv /\ [Next]_vars => ReadInv'
  BY ReadStep
<1> QED BY <1>1, <1>2, TypeInvariant, PTL DEF Spec

-----------------------------------------------------------------------------
(* The slots.                                                               *)

\* One writer at a time is between the UPDATE that claims a slot and its commit,
\* and the slot it claimed is the one after all the committed ones.
SlotInv ==
    /\ SlotsContiguous
    /\ cohort = "none" => assigned = 0
    /\ \A w \in Writers : wpc[w] = "assigned" => wslot[w] = assigned + 1
    /\ \A v, w \in Writers : wpc[v] = "assigned" /\ wpc[w] = "assigned" => v = w

\* A step that stores no message and moves none leaves the slots as they are.
LEMMA SlotsSame ==
    ASSUME slot' = slot, \A m \in Messages : mstatus'[m] = "none" <=> mstatus[m] = "none"
    PROVE  Slots' = Slots
BY DEF Slots

LEMMA SlotStep ==
    ASSUME TypeInv, ReadInv, SlotInv, [Next]_vars
    PROVE  SlotInv'
<1> USE DEF TypeInv, TypeOK, CohortStatuses, messageVars, writerVars, requestVars
<1>1. CASE UNCHANGED vars
  BY <1>1, SlotsSame DEF vars, SlotInv, SlotsContiguous
<1>2. ASSUME NEW w \in Writers, Write(w) PROVE SlotInv'
  <2>1. CASE get_or_create_cohort(w)
    BY <2>1, SlotsSame DEF get_or_create_cohort, SlotInv, SlotsContiguous
  <2>2. CASE CreateCohort(w) \/ assign_cohort_slot(w)
    <3>1. Slots' = Slots
      BY <2>2, SlotsSame DEF CreateCohort, assign_cohort_slot
    <3>2. /\ wslot' = [wslot EXCEPT ![w] = assigned + 1]
          /\ wpc' = [wpc EXCEPT ![w] = "assigned"]
          /\ UNCHANGED <<cohort, assigned>>
      BY <2>2 DEF CreateCohort, assign_cohort_slot, SlotInv
    <3>3. \A v \in Writers : wpc[v] # "assigned"
      BY <2>2 DEF CreateCohort, assign_cohort_slot, CohortLocked
    <3> QED BY <3>1, <3>2, <3>3 DEF SlotInv, SlotsContiguous
  <2>3. CASE CreateCohortFails(w) \/ StoreFails(w)
    <3>1. Slots' = Slots
      BY <2>3, SlotsSame DEF CreateCohortFails, StoreFails
    <3>2. /\ wpc' = [wpc EXCEPT ![w] = "idle"] /\ wslot' = [wslot EXCEPT ![w] = 0]
          /\ UNCHANGED <<cohort, assigned>>
      BY <2>3 DEF CreateCohortFails, StoreFails, EndWrite
    <3> QED BY <3>1, <3>2 DEF SlotInv, SlotsContiguous
  <2>4. CASE StoreMessage(w)
    <3>1. PICK m \in Messages :
            /\ mstatus[m] = "none"
            /\ mstatus' = [mstatus EXCEPT ![m] = "pending_review"]
            /\ slot' = [slot EXCEPT ![m] = wslot[w]]
      BY <2>4 DEF StoreMessage, IsFresh
    <3>2. Slots' = Slots \cup {wslot[w]}
      BY <3>1 DEF Slots
    <3>3. wslot[w] = assigned + 1 /\ assigned' = assigned + 1
      BY <2>4 DEF StoreMessage, SlotInv
    <3>4. SlotsContiguous'
      BY <3>2, <3>3 DEF SlotInv, SlotsContiguous
    <3>5. /\ wpc[w] = "assigned" /\ wpc' = [wpc EXCEPT ![w] = "idle"] /\ cohort' # "none"
      BY <2>4 DEF StoreMessage, EndWrite
    <3> QED BY <3>4, <3>5 DEF SlotInv
  <2> QED BY <1>2, <2>1, <2>2, <2>3, <2>4 DEF Write
<1>3. ASSUME NEW r \in Reviewers, Request(r) PROVE SlotInv'
  <2> USE DEF EndRequest, Pending
  <2>1. ASSUME Slots' = Slots, UNCHANGED <<assigned, wpc, wslot>>,
               cohort' = "none" => cohort = "none"
        PROVE  SlotInv'
    BY <2>1 DEF SlotInv, SlotsContiguous
  <2>2. ASSUME NEW m \in Messages, DecideRead(r, m) \/ RegenerateRead(r, m) PROVE SlotInv'
    BY <2>1, <2>2, SlotsSame DEF DecideRead, RegenerateRead
  <2>3. CASE DecideFlush(r) \/ DecideFails(r) \/ RegenerateFails(r) \/ RemainderRead(r)
    BY <2>1, <2>3, SlotsSame DEF DecideFlush, DecideFails, RegenerateFails, RemainderRead
  <2>4. CASE DecideCommit(r)
    <3>1. mstatus[rcur[r]] # "none" /\ rcur[r] \in Messages
      BY <2>4 DEF DecideCommit, ReadInv
    <3>2. Slots' = Slots
      BY <2>4, <3>1, SlotsSame DEF DecideCommit
    <3> QED BY <2>1, <2>4, <3>2 DEF DecideCommit
  <2>5. CASE RemainderCommit(r)
    <3>1. Slots' = Slots
      BY <2>5, SlotsSame DEF RemainderCommit
    <3> QED BY <2>1, <2>5, <3>1 DEF RemainderCommit
  <2>6. CASE RegenerateCommit(r)
    <3>1. PICK m \in Messages :
            /\ mstatus[m] = "none"
            /\ mstatus' = [mstatus EXCEPT ![rcur[r]] = "deleted", ![m] = "pending_review"]
            /\ slot' = [slot EXCEPT ![m] = slot[rcur[r]]]
      BY <2>6 DEF RegenerateCommit, IsFresh
    <3>2. mstatus[rcur[r]] # "none" /\ rcur[r] \in Messages
      BY <2>6 DEF RegenerateCommit, ReadInv
    <3>3. Slots' = Slots \cup {slot[rcur[r]]}
      BY <3>1, <3>2 DEF Slots
    <3>4. slot[rcur[r]] \in Slots
      BY <3>2 DEF Slots
    <3> QED BY <2>1, <2>6, <3>3, <3>4 DEF RegenerateCommit
  <2> QED BY <1>3, <2>2, <2>3, <2>4, <2>5, <2>6 DEF Request
<1>4. ASSUME NEW S \in SUBSET Messages, decide_batch(S) PROVE SlotInv'
  <2>1. Slots' = Slots
    BY <1>4, SlotsSame DEF decide_batch, Pending
  <2> QED BY <1>4, <2>1 DEF decide_batch, SlotInv, SlotsContiguous
<1> QED BY <1>1, <1>2, <1>3, <1>4 DEF Next

\* Messages stored by concurrent transactions, some of which fail, and drafts
\* replaced by regenerate_message fill the slots 1..assigned_count without a gap.
THEOREM SlotsAreContiguous == Spec => []SlotsContiguous
<1>1. Init => SlotInv
  BY DEF Init, SlotInv, SlotsContiguous, Slots
<1>2. TypeInv /\ ReadInv /\ SlotInv /\ [Next]_vars => SlotInv'
  BY SlotStep
<1>3. SlotInv => SlotsContiguous
  BY DEF SlotInv
<1> QED BY <1>1, <1>2, <1>3, TypeInvariant, ReadInvariant, PTL DEF Spec

LEMMA SlotInvariant == Spec => []SlotInv
<1>1. Init => SlotInv
  BY DEF Init, SlotInv, SlotsContiguous, Slots
<1>2. TypeInv /\ ReadInv /\ SlotInv /\ [Next]_vars => SlotInv'
  BY SlotStep
<1> QED BY <1>1, <1>2, TypeInvariant, ReadInvariant, PTL DEF Spec

\* assign_cohort_slot never gives two stored messages one slot, however many
\* transactions store messages of the cohort at once.
THEOREM NoSlotTakenTwice == Spec => SlotsTakenOnce
<1> DEFINE Own == \A m \in Messages :
                    mstatus[m] = "none" /\ mstatus'[m] # "none" /\ UNCHANGED rpc
                        => slot'[m] \notin Slots
<1>1. ASSUME TypeInv, ReadInv, SlotInv, [Next]_vars PROVE [Own]_vars
  <2> USE DEF messageVars, writerVars, requestVars
  <2>1. ASSUME NEW w \in Writers, Write(w) PROVE Own
    <3>1. CASE StoreMessage(w)
      <4>1. PICK m \in Messages :
              /\ mstatus' = [mstatus EXCEPT ![m] = "pending_review"]
              /\ slot' = [slot EXCEPT ![m] = wslot[w]]
        BY <3>1 DEF StoreMessage
      <4>2. wslot[w] = assigned + 1 /\ Slots = 1..assigned /\ assigned \in Nat
        BY <1>1, <3>1 DEF StoreMessage, SlotInv, SlotsContiguous, TypeInv, TypeOK
      <4>3. slot'[m] = wslot[w]
        BY <1>1, <4>1 DEF TypeInv, TypeOK
      <4>4. \A n \in Messages : n # m => mstatus'[n] = mstatus[n]
        BY <1>1, <4>1 DEF TypeInv, TypeOK
      <4> QED BY <4>2, <4>3, <4>4
    <3>2. CASE ~StoreMessage(w)
      <4>1. UNCHANGED mstatus
        BY <2>1, <3>2 DEF Write, get_or_create_cohort, CreateCohort, CreateCohortFails,
            assign_cohort_slot, StoreFails
      <4> QED BY <4>1
    <3> QED BY <3>1, <3>2
  <2>2. ASSUME NEW r \in Reviewers, Request(r) PROVE Own
    <3>1. rpc'[r] # rpc[r]
      BY <1>1, <2>2 DEF Request, DecideRead, RegenerateRead, DecideFlush, DecideFails,
          DecideCommit, RemainderRead, RemainderCommit, RegenerateCommit, RegenerateFails,
          EndRequest, TypeInv, TypeOK
    <3> QED BY <3>1
  <2>3. ASSUME NEW S \in SUBSET Messages, decide_batch(S) PROVE Own
    BY <2>3 DEF decide_batch, Pending
  <2> QED BY <1>1, <2>1, <2>2, <2>3 DEF Next, vars
<1>2. TypeInv /\ ReadInv /\ SlotInv /\ [Next]_vars => [Own]_vars
  BY <1>1
<1> QED BY <1>2, TypeInvariant, ReadInvariant, SlotInvariant, PTL DEF Spec, SlotsTakenOnce

-----------------------------------------------------------------------------
(* Decisions.                                                               *)

\* A regenerate, a decision or a bulk approval that read the message before it was
\* approved never takes the approval back.
THEOREM ApprovalIsFinal == Spec => ApprovedStays
<1> DEFINE Stays == \A m \in Messages : mstatus[m] = "approved" => mstatus'[m] = "approved"
<1>1. ASSUME TypeInv, [Next]_vars PROVE [Stays]_vars
  <2> USE DEF TypeInv, TypeOK, messageVars, writerVars, requestVars, EndRequest
  <2>1. ASSUME NEW w \in Writers, Write(w) PROVE Stays
    <3>1. CASE StoreMessage(w)
      <4>1. PICK m \in Messages :
              mstatus[m] = "none" /\ mstatus' = [mstatus EXCEPT ![m] = "pending_review"]
        BY <3>1 DEF StoreMessage, IsFresh
      <4> QED BY <4>1
    <3>2. CASE ~StoreMessage(w)
      <4>1. UNCHANGED mstatus
        BY <2>1, <3>2 DEF Write, get_or_create_cohort, CreateCohort, CreateCohortFails,
            assign_cohort_slot, StoreFails
      <4> QED BY <4>1
    <3> QED BY <3>1, <3>2
  <2>2. ASSUME NEW r \in Reviewers, Request(r) PROVE Stays
    <3>1. CASE RegenerateCommit(r)
      <4>1. PICK m \in Messages :
              /\ mstatus[m] = "none"
              /\ mstatus' = [mstatus EXCEPT ![rcur[r]] = "deleted", ![m] = "pending_review"]
        BY <3>1 DEF RegenerateCommit, IsFresh
      <4>2. mstatus[rcur[r]] # "approved"
        BY <3>1 DEF RegenerateCommit
      <4>3. \A n \in Messages : n # rcur[r] /\ n # m => mstatus'[n] = mstatus[n]
        BY <1>1, <4>1
      <4> QED BY <4>1, <4>2, <4>3
    <3>2. CASE DecideCommit(r)
      BY <3>2 DEF DecideCommit
    <3>3. CASE RemainderCommit(r)
      BY <3>3 DEF RemainderCommit
    <3>4. CASE ~RegenerateCommit(r) /\ ~DecideCommit(r) /\ ~RemainderCommit(r)
      <4>1. UNCHANGED mstatus
        BY <2>2, <3>4 DEF Request, DecideRead, RegenerateRead, DecideFlush, DecideFails,
            RemainderRead, RegenerateFails
      <4> QED BY <4>1
    <3> QED BY <3>1, <3>2, <3>3, <3>4
  <2>3. ASSUME NEW S \in SUBSET Messages, decide_batch(S) PROVE Stays
    BY <2>3 DEF decide_batch
  <2> QED BY <1>1, <2>1, <2>2, <2>3 DEF Next, vars
<1>2. TypeInv /\ [Next]_vars => [Stays]_vars
  BY <1>1
<1> QED BY <1>2, TypeInvariant, PTL DEF Spec, ApprovedStays
=============================================================================
