--------------------------- MODULE DraftingProofs ---------------------------
(***************************************************************************)
(* Proofs about Drafting for every set of enrollments, batches, runs and   *)
(* requests.                                                               *)
(***************************************************************************)
EXTENDS Drafting, TLAPS

\* A request or a run that is not idle knows what it works on, and no two
\* submissions build the same batch.
HoldInv ==
    /\ \A g \in Generators : gpc[g] # "idle" => gcur[g] \in Enrollments
    /\ \A s \in Submitters :
        /\ spc[s] # "idle" => sbatch[s] \in Batches
        /\ spc[s] = "logging" => scur[s] \in Enrollments
        /\ spc[s] = "created" => provider[sbatch[s]] # "none"
    /\ \A n \in Ingesters : npc[n] # "idle" => nbatch[n] \in Batches

\* The batch of a submission is not visible yet, the one of an ingestion is; the
\* provider is done with a batch whose results are stored, and an ingestion that
\* stores has read every item that still waits.
BatchInv ==
    /\ \A s \in Submitters : spc[s] # "idle" => batch[sbatch[s]] = "none"
    /\ \A s, t \in Submitters : s # t /\ spc[s] # "idle" => sbatch[s] # sbatch[t]
    /\ \A n \in Ingesters : npc[n] # "idle" => batch[nbatch[n]] # "none"
    /\ \A n \in Ingesters, e \in Enrollments :
        npc[n] = "storing" /\ item[nbatch[n]][e] = "pending" => e \in nitems[n]
    /\ \A b \in Batches : batch[b] = "ingested" => provider[b] = "ended"
    /\ \A n \in Ingesters : npc[n] = "storing" => provider[nbatch[n]] = "ended"

\* A result is stored exactly when its item is settled.
ItemInv ==
    /\ \A b \in Batches, e \in Enrollments :
        e \in stored[b] <=> item[b][e] \in {"accepted", "rejected"}
    /\ \A n \in Ingesters, e \in Enrollments :
        npc[n] = "storing" /\ e \in nitems[n] => item[nbatch[n]][e] # "none"
    /\ \A b \in Batches, e \in Enrollments : batch[b] = "none" => item[b][e] = "none"

(* While drafting requests come one at a time: a touch has one message or    *)
(* none, an item waits for a touch without message, and what a request has   *)
(* in hand is still untouched.                                               *)

DraftCounted ==
    \A e \in Enrollments : drafted[e] = IF message[e] \in {"none", "null"} THEN 0 ELSE 1

ItemWaits ==
    /\ \A b \in Batches, e \in Enrollments : item[b][e] = "pending" => message[e] = "null"
    /\ \A b, c \in Batches, e \in Enrollments :
        item[b][e] = "pending" /\ item[c][e] = "pending" => b = c

LockedUntouched == \A e \in Enrollments : locker[e] # Nobody => message[e] = "none"

GeneratorUntouched ==
    \A g \in Generators :
        /\ gpc[g] # "idle" => message[gcur[g]] = "none"
        /\ gpc[g] = "generating" => locker[gcur[g]] = g

SubmitUntouched ==
    \A s \in Submitters :
        /\ \A e \in stodo[s] : message[e] = "none"
        /\ spc[s] = "logging" => message[scur[s]] = "none"
        /\ \A e \in sitems[s] : message[e] = "none" /\ locker[e] = s

MembersUntouched == \A i \in Instantiators : \A e \in itodo[i] : message[e] = "none"

DraftInv ==
    /\ DraftCounted /\ ItemWaits /\ LockedUntouched
    /\ GeneratorUntouched /\ SubmitUntouched /\ MembersUntouched

\* At most one drafting request is under way.
AloneInv ==
    /\ \A g, h \in Generators : gpc[g] # "idle" /\ gpc[h] # "idle" => g = h
    /\ \A s, t \in Submitters : spc[s] # "idle" /\ spc[t] # "idle" => s = t
    /\ \A i, j \in Instantiators : itodo[i] # {} /\ itodo[j] # {} => i = j
    /\ \A g \in Generators, s \in Submitters : gpc[g] = "idle" \/ spc[s] = "idle"
    /\ \A g \in Generators, i \in Instantiators : gpc[g] = "idle" \/ itodo[i] = {}
    /\ \A s \in Submitters, i \in Instantiators : spc[s] = "idle" \/ itodo[i] = {}
    /\ \A s \in Submitters : spc[s] = "idle" => stodo[s] = {} /\ sitems[s] = {}


TypeInv == TypeOK /\ HoldInv

-----------------------------------------------------------------------------
\* One more of what is counted is a count.
LEMMA CountOneMore ==
    ASSUME NEW S, NEW f \in [S -> Nat], NEW x \in S
    PROVE  [f EXCEPT ![x] = @ + 1] \in [S -> Nat]
OBVIOUS

\* Type correctness of every action, and what each one has in hand.
LEMMA TypeStep == TypeInv /\ [Next]_vars => TypeInv'
<1> SUFFICES ASSUME TypeInv, [Next]_vars PROVE TypeInv'
  OBVIOUS
<1> USE DraftingAssumption
    DEF TypeInv, TypeOK, HoldInv, tables, outside, genVars, subVars, ingVars, history,
        IN_FLIGHT_STATUSES, ItemStatuses
<1>1. ASSUME NEW g \in Generators, NEW e \in Enrollments, GenerateCheck(g, e) PROVE TypeInv'
  BY <1>1 DEF GenerateCheck, BeginDrafting
<1>2. ASSUME NEW g \in Generators, GenerateLog(g) PROVE TypeInv'
  <2>1. gcur[g] \in Enrollments
    BY <1>2 DEF GenerateLog
  <2>2. CASE message[gcur[g]] = "none"
    <3>1. /\ locker' = [locker EXCEPT ![gcur[g]] = g]
          /\ gpc' = [gpc EXCEPT ![g] = "generating"] /\ UNCHANGED gcur
      BY <1>2, <2>2 DEF GenerateLog
    <3> QED BY <1>2, <2>1, <3>1 DEF GenerateLog
  <2>3. CASE message[gcur[g]] = "null"
    <3>1. gpc' = [gpc EXCEPT ![g] = "generating"] /\ UNCHANGED <<gcur, locker>>
      BY <1>2, <2>3 DEF GenerateLog
    <3> QED BY <1>2, <2>1, <3>1 DEF GenerateLog
  <2>4. CASE message[gcur[g]] \notin {"none", "null"}
    <3>1. EndGenerate(g) /\ UNCHANGED locker
      BY <1>2, <2>4 DEF GenerateLog
    <3> QED BY <1>2, <3>1 DEF GenerateLog, EndGenerate
  <2> QED BY <2>2, <2>3, <2>4
<1>3. ASSUME NEW g \in Generators, GenerateCommit(g) PROVE TypeInv'
  <2>1. gcur[g] \in Enrollments
    BY <1>3 DEF GenerateCommit
  <2>2. PICK m \in {"none", "null", "pending_review", "approved"} :
            message' = [message EXCEPT ![gcur[g]] = m]
    <3>1. CASE Draft(gcur[g])
      BY <3>1 DEF Draft
    <3>2. CASE message' = [message EXCEPT ![gcur[g]] = IF locker[gcur[g]] = g THEN "null" ELSE @]
      <4>1. CASE locker[gcur[g]] = g
        BY <3>2, <4>1
      <4>2. CASE locker[gcur[g]] # g
        <5>1. message[gcur[g]] \in {"none", "null", "pending_review", "approved"}
          BY <2>1
        <5>2. message' = [message EXCEPT ![gcur[g]] = message[gcur[g]]]
          BY <2>1, <3>2, <4>2
        <5> QED BY <5>1, <5>2
      <4> QED BY <4>1, <4>2
    <3> QED BY <1>3, <3>1, <3>2 DEF GenerateCommit
  <2>3. drafted' \in [Enrollments -> Nat]
    <3>1. CASE drafted' = drafted
      BY <3>1
    <3>2. CASE drafted' = [drafted EXCEPT ![gcur[g]] = @ + 1]
      <4>1. drafted \in [Enrollments -> Nat]
        OBVIOUS
      <4> QED BY <2>1, <3>2, <4>1, CountOneMore
    <3> QED BY <1>3, <3>1, <3>2 DEF GenerateCommit, Draft
  <2>4. locker' \in [Enrollments -> Generators \cup Submitters \cup {Nobody}]
    BY <1>3, <2>1 DEF GenerateCommit
  <2> QED BY <1>3, <2>2, <2>3, <2>4 DEF GenerateCommit, EndGenerate
<1>4. ASSUME NEW g \in Generators, GenerateError(g) PROVE TypeInv'
  BY <1>4 DEF GenerateError, EndGenerate
<1>5. ASSUME NEW s \in Submitters, SubmitSelect(s) PROVE TypeInv'
  <2>1. PICK b \in Batches : sbatch' = [sbatch EXCEPT ![s] = b]
    BY <1>5 DEF SubmitSelect
  <2> QED BY <1>5, <2>1 DEF SubmitSelect, BeginDrafting
<1>6. ASSUME NEW s \in Submitters, NEW e \in Enrollments, SubmitSkip(s, e) PROVE TypeInv'
  BY <1>6 DEF SubmitSkip, NextDue
<1>7. ASSUME NEW s \in Submitters, NEW e \in Enrollments, SubmitCheck(s, e) PROVE TypeInv'
  BY <1>7 DEF SubmitCheck, NextDue
<1>8. ASSUME NEW s \in Submitters, SubmitLog(s) PROVE TypeInv'
  <2>1. scur[s] \in Enrollments
    BY <1>8 DEF SubmitLog
  <2>2. sitems' \in [Submitters -> SUBSET Enrollments]
    <3>1. CASE sitems' = sitems
      BY <3>1
    <3>2. CASE sitems' = [sitems EXCEPT ![s] = @ \cup {scur[s]}]
      BY <2>1, <3>2
    <3> QED BY <1>8, <3>1, <3>2 DEF SubmitLog
  <2>3. locker' \in [Enrollments -> Generators \cup Submitters \cup {Nobody}]
    BY <1>8, <2>1 DEF SubmitLog
  <2>4. /\ scur' = [scur EXCEPT ![s] = Nobody] /\ spc' = [spc EXCEPT ![s] = "loop"]
        /\ UNCHANGED <<message, item, batch, stored, outside, genVars, sbatch, stodo, itodo, ingVars,
                       history>>
        /\ spc[s] # "idle"
    BY <1>8 DEF SubmitLog
  <2> HIDE <1>8
  <2> QED BY <2>2, <2>3, <2>4
<1>9. ASSUME NEW s \in Submitters, SubmitCreate(s) PROVE TypeInv'
  <2>1. sbatch[s] \in Batches
    BY <1>9 DEF SubmitCreate
  <2> QED BY <1>9, <2>1 DEF SubmitCreate
<1>10. ASSUME NEW s \in Submitters, SubmitCommit(s) PROVE TypeInv'
  <2>1. sbatch[s] \in Batches
    BY <1>10 DEF SubmitCommit
  <2>2. batch' \in [Batches -> IN_FLIGHT_STATUSES \cup {"none", "no_eligible_clients", "ingested"}]
    BY <1>10, <2>1 DEF SubmitCommit
  <2>3. item' \in [Batches -> [Enrollments -> ItemStatuses]]
    <3>1. [e \in Enrollments |-> IF e \in sitems[s] THEN "pending" ELSE "none"]
            \in [Enrollments -> ItemStatuses]
      OBVIOUS
    <3> QED BY <1>10, <2>1, <3>1 DEF SubmitCommit
  <2>4. message' \in [Enrollments -> {"none", "null", "pending_review", "approved"}]
    BY <1>10 DEF SubmitCommit
  <2> QED BY <1>10, <2>2, <2>3, <2>4 DEF SubmitCommit, EndSubmit
<1>11. ASSUME NEW s \in Submitters, SubmitError(s) PROVE TypeInv'
  BY <1>11 DEF SubmitError, EndSubmit
<1>12. ASSUME NEW b \in Batches, ProviderEnds(b) \/ WindowElapses(b) PROVE TypeInv'
  <2>1. CASE ProviderEnds(b)
    <3>1. PICK silent \in SUBSET Enrollments : unanswered' = [unanswered EXCEPT ![b] = silent]
      BY <2>1 DEF ProviderEnds
    <3> QED BY <2>1, <3>1 DEF ProviderEnds
  <2>2. CASE WindowElapses(b)
    BY <2>2 DEF WindowElapses
  <2> QED BY <1>12, <2>1, <2>2
<1>13. ASSUME NEW n \in Ingesters, NEW b \in Batches, IngestRead(n, b) PROVE TypeInv'
  BY <1>13 DEF IngestRead
<1>14. ASSUME NEW n \in Ingesters, IngestAsk(n) PROVE TypeInv'
  <2>1. CASE provider[nbatch[n]] = "ended"
    <3>1. /\ npc' = [npc EXCEPT ![n] = "storing"]
          /\ nitems' = [nitems EXCEPT ![n] = {e \in Enrollments : item[nbatch[n]][e] = "pending"}]
          /\ npc[n] = "asking"
      BY <1>14, <2>1 DEF IngestAsk
    <3>2. nitems' \in [Ingesters -> SUBSET Enrollments]
      BY <3>1
    <3> QED BY <1>14, <3>1, <3>2 DEF IngestAsk
  <2>2. CASE provider[nbatch[n]] # "ended"
    BY <1>14, <2>2 DEF IngestAsk
  <2> QED BY <2>1, <2>2
<1>15. ASSUME NEW n \in Ingesters, IngestInProgress(n) PROVE TypeInv'
  <2>1. batch' = batch \/ batch' = [batch EXCEPT ![nbatch[n]] = "in_progress"]
    BY <1>15 DEF IngestInProgress
  <2>2. batch' \in [Batches -> IN_FLIGHT_STATUSES \cup {"none", "no_eligible_clients", "ingested"}]
    BY <2>1
  <2> QED BY <1>15, <2>2 DEF IngestInProgress, EndIngest
<1>16. ASSUME NEW n \in Ingesters, IngestStore(n) PROVE TypeInv'
  <2>1. nbatch[n] \in Batches
    BY <1>16 DEF IngestStore
  <2>2. PICK accepted \in SUBSET Results(n) :
        /\ item' = [item EXCEPT ![nbatch[n]] = [e \in Enrollments |->
                        IF e \in accepted THEN "accepted"
                        ELSE IF e \in Results(n) THEN "rejected" ELSE item[nbatch[n]][e]]]
        /\ message' = [e \in Enrollments |->
                        IF e \in accepted THEN "pending_review" ELSE message[e]]
        /\ drafted' = [e \in Enrollments |->
                        IF e \in accepted THEN drafted[e] + 1 ELSE drafted[e]]
    BY <1>16 DEF IngestStore
  <2>3. item' \in [Batches -> [Enrollments -> ItemStatuses]]
    <3>1. [e \in Enrollments |-> IF e \in accepted THEN "accepted"
              ELSE IF e \in Results(n) THEN "rejected" ELSE item[nbatch[n]][e]]
            \in [Enrollments -> ItemStatuses]
      BY <2>1
    <3> QED BY <2>1, <2>2, <3>1
  <2>4. /\ message' \in [Enrollments -> {"none", "null", "pending_review", "approved"}]
        /\ drafted' \in [Enrollments -> Nat]
    BY <2>2
  <2>5. stored' \in [Batches -> SUBSET Enrollments]
    <3>1. Results(n) \subseteq Enrollments
      BY DEF Results
    <3>2. stored' = [stored EXCEPT ![nbatch[n]] = @ \cup Results(n)]
      BY <1>16 DEF IngestStore
    <3> QED BY <2>1, <3>1, <3>2
  <2>6. batch' \in [Batches -> IN_FLIGHT_STATUSES \cup {"none", "no_eligible_clients", "ingested"}]
    BY <1>16, <2>1 DEF IngestStore
  <2> QED BY <1>16, <2>3, <2>4, <2>5, <2>6 DEF IngestStore, EndIngest
<1>17. ASSUME NEW n \in Ingesters, IngestError(n) PROVE TypeInv'
  BY <1>17 DEF IngestError, EndIngest
<1>18. ASSUME NEW i \in Instantiators, InstantiateSelect(i) PROVE TypeInv'
  <2>1. PICK m \in SUBSET Enrollments : itodo' = [itodo EXCEPT ![i] = m]
    BY <1>18 DEF InstantiateSelect
  <2> QED BY <1>18, <2>1 DEF InstantiateSelect, BeginDrafting
<1>19. ASSUME NEW i \in Instantiators, NEW e \in Enrollments, InstantiateMember(i, e) PROVE TypeInv'
  <2>1. /\ message' \in [Enrollments -> {"none", "null", "pending_review", "approved"}]
        /\ drafted' \in [Enrollments -> Nat]
    <3>1. \/ Draft(e)
          \/ message' = [message EXCEPT ![e] = "null"] /\ UNCHANGED drafted
          \/ UNCHANGED <<message, drafted>>
      BY <1>19 DEF InstantiateMember
    <3>2. CASE Draft(e)
      BY <3>2 DEF Draft
    <3> QED BY <3>1, <3>2
  <2> QED BY <1>19, <2>1 DEF InstantiateMember
<1>20. ASSUME NEW i \in Instantiators, InstantiateError(i) PROVE TypeInv'
  <2>1. PICK m \in SUBSET itodo[i] : itodo' = [itodo EXCEPT ![i] = m]
    BY <1>20 DEF InstantiateError
  <2> QED BY <1>20, <2>1 DEF InstantiateError
<1>21. ASSUME NEW e \in Enrollments, Approve(e) PROVE TypeInv'
  BY <1>21 DEF Approve
<1>22. ASSUME UNCHANGED vars PROVE TypeInv'
  BY <1>22 DEF vars
<1> QED
  BY <1>1, <1>2, <1>3, <1>4, <1>5, <1>6, <1>7, <1>8, <1>9, <1>10, <1>11, <1>12, <1>13, <1>14,
     <1>15, <1>16, <1>17, <1>18, <1>19, <1>20, <1>21, <1>22
     DEF Next, Generate, Submit, Ingest, Instantiate

LEMMA TypeInit == Init => TypeInv
<1> SUFFICES ASSUME Init PROVE TypeInv
  OBVIOUS
<1>1. TypeOK
  BY DEF Init, TypeOK, ItemStatuses
<1>2. HoldInv
  BY DEF Init, HoldInv
<1> QED BY <1>1, <1>2 DEF TypeInv

\* Every row, request and count keeps its type through all three ways of drafting.
THEOREM DraftingTypes == Spec => []TypeOK
<1>1. TypeInv => TypeOK
  BY DEF TypeInv
<1> QED BY <1>1, TypeInit, TypeStep, PTL DEF Spec

-----------------------------------------------------------------------------
(* No result is lost.                                                       *)

AwaitInv == BatchInv /\ PendingItemAwaited

LEMMA AwaitStep ==
    ASSUME TypeInv, TypeInv', AwaitInv, [Next]_vars
    PROVE  AwaitInv'
<1> USE DEF tables, outside, genVars, subVars, ingVars, history, IN_FLIGHT_STATUSES
<1>1. ASSUME UNCHANGED <<batch, item, provider, unanswered, spc, sbatch, npc, nbatch, nitems>>
      PROVE  AwaitInv'
  BY <1>1 DEF AwaitInv, BatchInv, PendingItemAwaited
\* Submissions that stay under way, or end without a commit.
<1>2. ASSUME UNCHANGED <<batch, item, npc, nbatch, nitems>>,
             \A b \in Batches : provider[b] # "none" => provider'[b] # "none",
             \A b \in Batches : batch[b] # "none" /\ provider[b] = "ended" =>
                                    provider'[b] = "ended" /\ unanswered'[b] = unanswered[b],
             \A s \in Submitters : spc'[s] # "idle" => spc[s] # "idle" /\ sbatch'[s] = sbatch[s],
             \A s, t \in Submitters : s # t /\ spc'[s] # "idle" => sbatch'[s] # sbatch'[t]
      PROVE  AwaitInv'
  <2>1. BatchInv'
    BY <1>2 DEF AwaitInv, BatchInv, TypeInv, HoldInv
  <2>2. PendingItemAwaited'
    BY <1>2 DEF AwaitInv, BatchInv, PendingItemAwaited
  <2> QED BY <2>1, <2>2 DEF AwaitInv
<1>3. ASSUME NEW g \in Generators, Generate(g) PROVE AwaitInv'
  BY <1>1, <1>3 DEF Generate, GenerateCheck, GenerateLog, GenerateCommit, GenerateError
<1>4. ASSUME NEW i \in Instantiators, Instantiate(i) PROVE AwaitInv'
  BY <1>1, <1>4 DEF Instantiate, InstantiateSelect, InstantiateMember, InstantiateError
<1>5. ASSUME NEW e \in Enrollments, Approve(e) PROVE AwaitInv'
  BY <1>1, <1>5 DEF Approve
<1>6. ASSUME NEW b \in Batches, ProviderEnds(b) PROVE AwaitInv'
  <2>1. PICK silent : unanswered' = [unanswered EXCEPT ![b] = silent]
    BY <1>6 DEF ProviderEnds
  <2>2. provider[b] = "processing" /\ provider' = [provider EXCEPT ![b] = "ended"]
    BY <1>6 DEF ProviderEnds
  <2>3. \A c \in Batches : provider[c] # "none" => provider'[c] # "none"
    BY <2>2 DEF TypeInv, TypeOK
  <2>4. \A c \in Batches : provider[c] = "ended" =>
            provider'[c] = "ended" /\ unanswered'[c] = unanswered[c]
    BY <2>1, <2>2 DEF TypeInv, TypeOK
  <2>5. UNCHANGED <<batch, item, npc, nbatch, nitems, spc, sbatch>>
    BY <1>6 DEF ProviderEnds
  <2> QED BY <1>2, <2>3, <2>4, <2>5 DEF AwaitInv, BatchInv
<1>7. ASSUME NEW b \in Batches, WindowElapses(b) PROVE AwaitInv'
  BY <1>1, <1>7 DEF WindowElapses
<1>8. ASSUME NEW s \in Submitters, SubmitSelect(s) PROVE AwaitInv'
  <2>1. PICK b \in Batches :
            /\ batch[b] = "none" /\ \A t \in Submitters : sbatch[t] # b
            /\ sbatch' = [sbatch EXCEPT ![s] = b]
    BY <1>8 DEF SubmitSelect
  <2>2. spc' = [spc EXCEPT ![s] = "loop"] /\ UNCHANGED <<batch, item, provider, unanswered, npc, nbatch, nitems>>
    BY <1>8 DEF SubmitSelect
  <2>3. \A t \in Submitters : spc'[t] # "idle" => batch'[sbatch'[t]] = "none"
    BY <2>1, <2>2 DEF TypeInv, TypeOK, AwaitInv, BatchInv
  <2>4. \A t, u \in Submitters : t # u /\ spc'[t] # "idle" => sbatch'[t] # sbatch'[u]
    BY <2>1, <2>2 DEF TypeInv, TypeOK, AwaitInv, BatchInv
  <2> QED BY <2>2, <2>3, <2>4 DEF AwaitInv, BatchInv, PendingItemAwaited
<1>9. ASSUME NEW s \in Submitters, NEW e \in Enrollments, SubmitSkip(s, e) PROVE AwaitInv'
  BY <1>1, <1>9 DEF SubmitSkip
<1>10. ASSUME NEW s \in Submitters, NEW e \in Enrollments, SubmitCheck(s, e) PROVE AwaitInv'
  <2>1. /\ spc' = [spc EXCEPT ![s] = "logging"] /\ spc[s] # "idle"
        /\ UNCHANGED <<batch, item, npc, nbatch, nitems, provider, unanswered, sbatch>>
    BY <1>10 DEF SubmitCheck, NextDue
  <2> QED BY <1>2, <2>1 DEF TypeInv, TypeOK, AwaitInv, BatchInv
<1>11. ASSUME NEW s \in Submitters, SubmitLog(s) PROVE AwaitInv'
  <2>1. /\ spc' = [spc EXCEPT ![s] = "loop"] /\ spc[s] # "idle"
        /\ UNCHANGED <<batch, item, npc, nbatch, nitems, provider, unanswered, sbatch>>
    BY <1>11 DEF SubmitLog
  <2> QED BY <1>2, <2>1 DEF TypeInv, TypeOK, AwaitInv, BatchInv
<1>12. ASSUME NEW s \in Submitters, SubmitCreate(s) PROVE AwaitInv'
  <2>1. /\ spc' = [spc EXCEPT ![s] = "created"] /\ spc[s] # "idle"
        /\ provider' = [provider EXCEPT ![sbatch[s]] = "processing"]
        /\ UNCHANGED <<batch, item, npc, nbatch, nitems, unanswered, sbatch>>
    BY <1>12 DEF SubmitCreate
  <2>2. \A b \in Batches : provider[b] # "none" => provider'[b] # "none"
    BY <2>1 DEF TypeInv, TypeOK
  <2>3. batch[sbatch[s]] = "none"
    BY <2>1 DEF AwaitInv, BatchInv
  <2>4. \A b \in Batches : batch[b] # "none" => provider'[b] = provider[b]
    BY <2>1, <2>3 DEF TypeInv, TypeOK
  <2> QED BY <1>2, <2>1, <2>2, <2>4 DEF TypeInv, TypeOK, AwaitInv, BatchInv
<1>13. ASSUME NEW s \in Submitters, EndSubmit(s), spc[s] # "idle"
       PROVE  /\ \A t \in Submitters : spc'[t] # "idle" =>
                    t # s /\ spc[t] # "idle" /\ sbatch'[t] = sbatch[t]
              /\ \A t, u \in Submitters : t # u /\ spc'[t] # "idle" => sbatch'[t] # sbatch'[u]
  <2>1. spc' = [spc EXCEPT ![s] = "idle"] /\ sbatch' = [sbatch EXCEPT ![s] = Nobody]
    BY <1>13 DEF EndSubmit
  <2>2. \A t \in Submitters : spc'[t] # "idle" => t # s /\ spc[t] # "idle" /\ sbatch'[t] = sbatch[t]
    BY <2>1 DEF TypeInv, TypeOK
  <2>3. \A t \in Submitters : spc[t] # "idle" => sbatch[t] # Nobody
    BY DraftingAssumption DEF TypeInv, HoldInv
  <2> QED BY <2>1, <2>2, <2>3 DEF TypeInv, TypeOK, AwaitInv, BatchInv
<1>14. ASSUME NEW s \in Submitters, SubmitError(s) PROVE AwaitInv'
  <2>1. /\ UNCHANGED <<batch, item, npc, nbatch, nitems, provider, unanswered>>
        /\ EndSubmit(s) /\ spc[s] # "idle"
    BY <1>14 DEF SubmitError
  <2> QED BY <1>2, <1>13, <2>1
<1>15. ASSUME NEW s \in Submitters, SubmitCommit(s) PROVE AwaitInv'
  <2> DEFINE b == sbatch[s]
  <2>1. b \in Batches /\ spc[s] # "idle" /\ batch[b] = "none"
    BY <1>15 DEF SubmitCommit, TypeInv, HoldInv, AwaitInv, BatchInv
  <2>2. /\ UNCHANGED <<npc, nbatch, nitems, provider, unanswered>>
        /\ EndSubmit(s)
        /\ batch' = [batch EXCEPT ![b] = IF spc[s] = "created" THEN "submitted"
                                         ELSE "no_eligible_clients"]
        /\ item' = [item EXCEPT ![b] = [e \in Enrollments |->
                        IF e \in sitems[s] THEN "pending" ELSE "none"]]
        /\ spc[s] = "created" \/ sitems[s] = {}
    BY <1>15 DEF SubmitCommit
  <2>3. /\ batch'[b] \notin {"none", "ingested"}
        /\ \A c \in Batches \ {b} : batch'[c] = batch[c] /\ item'[c] = item[c]
        /\ \A e \in Enrollments : item'[b][e] = "pending" => e \in sitems[s]
    BY <2>1, <2>2 DEF TypeInv, TypeOK
  <2>4. \A t \in Submitters : spc'[t] # "idle" => batch'[sbatch'[t]] = "none"
    <3> SUFFICES ASSUME NEW t \in Submitters, spc'[t] # "idle" PROVE batch'[sbatch'[t]] = "none"
      OBVIOUS
    <3>1. t # s /\ spc[t] # "idle" /\ sbatch'[t] = sbatch[t]
      BY <1>13, <2>1, <2>2
    <3>2. sbatch[t] # b /\ sbatch[t] \in Batches /\ batch[sbatch[t]] = "none"
      BY <2>1, <3>1 DEF AwaitInv, BatchInv, TypeInv, HoldInv
    <3> QED BY <2>3, <3>1, <3>2
  <2>5. \A n \in Ingesters : npc'[n] # "idle" =>
            nbatch'[n] # b /\ nbatch'[n] \in Batches /\ batch'[nbatch'[n]] # "none"
    BY <2>1, <2>2, <2>3 DEF AwaitInv, BatchInv, TypeInv, HoldInv
  <2>6. \A n \in Ingesters, e \in Enrollments :
            npc'[n] = "storing" /\ item'[nbatch'[n]][e] = "pending" => e \in nitems'[n]
    BY <2>2, <2>3, <2>5 DEF AwaitInv, BatchInv
  <2>7. PendingItemAwaited'
    <3> SUFFICES ASSUME NEW c \in Batches, NEW e \in Enrollments, item'[c][e] = "pending"
                 PROVE  /\ provider'[c] # "none"
                        /\ \/ batch'[c] \in IN_FLIGHT_STATUSES
                           \/ batch'[c] = "ingested" /\ e \in unanswered'[c]
      BY DEF PendingItemAwaited
    <3>1. CASE c # b
      BY <2>2, <2>3, <3>1 DEF AwaitInv, PendingItemAwaited
    <3>2. CASE c = b
      <4>1. spc[s] = "created"
        BY <2>2, <2>3, <3>2
      <4> QED BY <2>1, <2>2, <3>2, <4>1 DEF TypeInv, TypeOK, HoldInv
    <3> QED BY <3>1, <3>2
  <2>8. \A t, u \in Submitters : t # u /\ spc'[t] # "idle" => sbatch'[t] # sbatch'[u]
    BY <1>13, <2>1, <2>2
  <2>9. /\ \A c \in Batches : batch'[c] = "ingested" => provider'[c] = "ended"
        /\ \A n \in Ingesters : npc'[n] = "storing" => provider'[nbatch'[n]] = "ended"
    BY <2>2, <2>3 DEF AwaitInv, BatchInv
  <2> QED BY <2>4, <2>5, <2>6, <2>7, <2>8, <2>9 DEF AwaitInv, BatchInv
<1>16. ASSUME NEW n \in Ingesters, NEW b \in Batches, IngestRead(n, b) PROVE AwaitInv'
  <2>1. /\ npc' = [npc EXCEPT ![n] = "asking"] /\ nbatch' = [nbatch EXCEPT ![n] = b]
        /\ batch[b] # "none" /\ UNCHANGED <<batch, item, provider, unanswered, spc, sbatch, nitems>>
    BY <1>16 DEF IngestRead
  <2> QED BY <2>1 DEF AwaitInv, BatchInv, PendingItemAwaited, TypeInv, TypeOK
<1>17. ASSUME NEW n \in Ingesters, IngestAsk(n) PROVE AwaitInv'
  <2>1. npc[n] # "idle" /\ UNCHANGED <<batch, item, provider, unanswered, spc, sbatch, nbatch>>
    BY <1>17 DEF IngestAsk
  <2>2. CASE /\ provider[nbatch[n]] = "ended"
             /\ npc' = [npc EXCEPT ![n] = "storing"]
             /\ nitems' = [nitems EXCEPT ![n] =
                              {e \in Enrollments : item[nbatch[n]][e] = "pending"}]
    BY <2>1, <2>2 DEF AwaitInv, BatchInv, PendingItemAwaited, TypeInv, TypeOK
  <2>3. CASE npc' = [npc EXCEPT ![n] = "waiting"] /\ UNCHANGED nitems
    BY <2>1, <2>3 DEF AwaitInv, BatchInv, PendingItemAwaited, TypeInv, TypeOK
  <2> QED BY <1>17, <2>2, <2>3 DEF IngestAsk
<1>18. ASSUME NEW n \in Ingesters, EndIngest(n)
       PROVE  \A m \in Ingesters : npc'[m] # "idle" =>
                m # n /\ npc'[m] = npc[m] /\ nbatch'[m] = nbatch[m] /\ nitems'[m] = nitems[m]
  BY <1>18 DEF EndIngest, TypeInv, TypeOK
<1>19. ASSUME NEW n \in Ingesters, IngestError(n) PROVE AwaitInv'
  <2>1. UNCHANGED <<batch, item, provider, unanswered, spc, sbatch>> /\ EndIngest(n)
    BY <1>19 DEF IngestError
  <2> QED BY <1>18, <2>1 DEF AwaitInv, BatchInv, PendingItemAwaited
<1>20. ASSUME NEW n \in Ingesters, IngestInProgress(n) PROVE AwaitInv'
  <2>1. UNCHANGED <<item, provider, unanswered, spc, sbatch>> /\ EndIngest(n) /\ npc[n] # "idle"
    BY <1>20 DEF IngestInProgress
  <2>2. nbatch[n] \in Batches /\ batch[nbatch[n]] # "none"
    BY <2>1 DEF TypeInv, HoldInv, AwaitInv, BatchInv
  <2>3. /\ \A c \in Batches : batch'[c] = batch[c] \/ (batch'[c] = "in_progress" /\ batch[c] # "none")
        /\ \A c \in Batches : batch[c] = "none" => batch'[c] = "none"
    <3>1. CASE batch' = batch
      BY <3>1
    <3>2. CASE batch' = [batch EXCEPT ![nbatch[n]] = "in_progress"]
      BY <2>2, <3>2 DEF TypeInv, TypeOK
    <3> QED BY <1>20, <3>1, <3>2 DEF IngestInProgress
  <2>4. \A t \in Submitters : spc'[t] # "idle" => batch'[sbatch'[t]] = "none"
    BY <2>1, <2>3 DEF AwaitInv, BatchInv, TypeInv, HoldInv
  <2>5. \A m \in Ingesters : npc'[m] # "idle" => batch'[nbatch'[m]] # "none"
    BY <1>18, <2>1, <2>3 DEF AwaitInv, BatchInv, TypeInv, HoldInv
  <2>6. \A m \in Ingesters, e \in Enrollments :
            npc'[m] = "storing" /\ item'[nbatch'[m]][e] = "pending" => e \in nitems'[m]
    BY <1>18, <2>1 DEF AwaitInv, BatchInv
  <2>7. PendingItemAwaited'
    BY <2>1, <2>3 DEF AwaitInv, PendingItemAwaited
  <2>8. /\ \A c \in Batches : batch'[c] = "ingested" => provider'[c] = "ended"
        /\ \A m \in Ingesters : npc'[m] = "storing" => provider'[nbatch'[m]] = "ended"
    BY <1>18, <2>1, <2>3 DEF AwaitInv, BatchInv
  <2> QED BY <2>1, <2>4, <2>5, <2>6, <2>7, <2>8 DEF AwaitInv, BatchInv
<1>21. ASSUME NEW n \in Ingesters, IngestStore(n) PROVE AwaitInv'
  <2> DEFINE b == nbatch[n]
  <2>1. /\ UNCHANGED <<provider, unanswered, spc, sbatch>> /\ EndIngest(n) /\ npc[n] = "storing"
        /\ batch' = [batch EXCEPT ![b] = "ingested"]
    BY <1>21 DEF IngestStore
  <2>2. b \in Batches /\ batch[b] # "none" /\ provider[b] = "ended"
    BY <2>1 DEF TypeInv, HoldInv, AwaitInv, BatchInv
  <2>3. \A c \in Batches, e \in Enrollments :
            item'[c][e] = "pending" => item[c][e] = "pending" /\ (c = b => e \in unanswered[b])
    <3>1. PICK accepted \in SUBSET Results(n) :
              item' = [item EXCEPT ![b] = [e \in Enrollments |->
                        IF e \in accepted THEN "accepted"
                        ELSE IF e \in Results(n) THEN "rejected" ELSE item[b][e]]]
      BY <1>21 DEF IngestStore
    <3>2. \A e \in Enrollments : item[b][e] = "pending" => e \in nitems[n]
      BY <2>1 DEF AwaitInv, BatchInv
    <3>3. \A e \in Enrollments : item'[b][e] = "pending" =>
                item[b][e] = "pending" /\ e \notin Results(n)
      BY <2>2, <3>1, <3>2 DEF TypeInv, TypeOK
    <3>4. \A e \in Enrollments : item'[b][e] = "pending" => e \in unanswered[b]
      BY <3>2, <3>3 DEF Results
    <3>5. \A c \in Batches : c # b => item'[c] = item[c]
      BY <2>2, <3>1 DEF TypeInv, TypeOK
    <3> QED BY <3>3, <3>4, <3>5
  <2>4. /\ \A c \in Batches : c # b => batch'[c] = batch[c]
        /\ batch'[b] = "ingested"
    BY <2>1, <2>2 DEF TypeInv, TypeOK
  <2>5. \A t \in Submitters : spc'[t] # "idle" => batch'[sbatch'[t]] = "none"
    BY <2>1, <2>2, <2>4 DEF AwaitInv, BatchInv, TypeInv, HoldInv
  <2>6. \A m \in Ingesters : npc'[m] # "idle" => batch'[nbatch'[m]] # "none"
    BY <1>18, <2>1, <2>4 DEF AwaitInv, BatchInv, TypeInv, HoldInv
  <2>7. \A m \in Ingesters, e \in Enrollments :
            npc'[m] = "storing" /\ item'[nbatch'[m]][e] = "pending" => e \in nitems'[m]
    BY <1>18, <2>1, <2>3 DEF AwaitInv, BatchInv, TypeInv, HoldInv
  <2>8. PendingItemAwaited'
    <3> SUFFICES ASSUME NEW c \in Batches, NEW e \in Enrollments, item'[c][e] = "pending"
                 PROVE  /\ provider'[c] # "none"
                        /\ \/ batch'[c] \in IN_FLIGHT_STATUSES
                           \/ batch'[c] = "ingested" /\ e \in unanswered'[c]
      BY DEF PendingItemAwaited
    <3>1. CASE c = b
      BY <2>1, <2>2, <2>3, <2>4, <3>1
    <3>2. CASE c # b
      BY <2>1, <2>3, <2>4, <3>2 DEF AwaitInv, PendingItemAwaited
    <3> QED BY <3>1, <3>2
  <2>9. /\ \A c \in Batches : batch'[c] = "ingested" => provider'[c] = "ended"
        /\ \A m \in Ingesters : npc'[m] = "storing" => provider'[nbatch'[m]] = "ended"
    BY <1>18, <2>1, <2>2, <2>4 DEF AwaitInv, BatchInv
  <2> QED BY <2>1, <2>5, <2>6, <2>7, <2>8, <2>9 DEF AwaitInv, BatchInv
<1>22. ASSUME UNCHANGED vars PROVE AwaitInv'
  BY <1>1, <1>22 DEF vars
<1> QED
  BY <1>3, <1>4, <1>5, <1>6, <1>7, <1>8, <1>9, <1>10, <1>11, <1>12, <1>14, <1>15, <1>16, <1>17,
     <1>19, <1>20, <1>21, <1>22 DEF Next, Submit, Ingest

LEMMA AwaitInvariant == Spec => [](TypeInv /\ AwaitInv)
<1>1. Init => AwaitInv
  BY DEF Init, AwaitInv, BatchInv, PendingItemAwaited
<1>2. TypeInv /\ AwaitInv /\ [Next]_vars => (TypeInv /\ AwaitInv)'
  BY TypeStep, AwaitStep
<1> QED BY <1>1, <1>2, TypeInit, PTL DEF Spec

\* However submissions and ingestions overlap and die, an item that waits for its
\* result is in a batch that is still taken up.
THEOREM NoResultLost == Spec => []PendingItemAwaited
<1>1. AwaitInv => PendingItemAwaited
  BY DEF AwaitInv
<1> QED BY <1>1, AwaitInvariant, PTL

-----------------------------------------------------------------------------
(* What is stored was waiting.                                              *)

\* What an ingestion stores is still waiting: the key of the generation run
\* refuses a second insert.
LEMMA StoresWaiting ==
    ASSUME TypeInv, ItemInv, NEW n \in Ingesters, IngestStore(n), NEW e \in Results(n)
    PROVE  nbatch[n] \in Batches /\ e \in Enrollments /\ item[nbatch[n]][e] = "pending"
<1>1. nbatch[n] \in Batches /\ e \in Enrollments /\ e \in nitems[n] /\ npc[n] = "storing"
  BY DEF IngestStore, Results, TypeInv, TypeOK, HoldInv
<1>2. e \notin stored[nbatch[n]]
  BY DEF IngestStore, Conflicts
<1>3. item[nbatch[n]][e] \notin {"none", "accepted", "rejected"}
  BY <1>1, <1>2 DEF ItemInv
<1>4. item[nbatch[n]][e] \in ItemStatuses
  BY <1>1 DEF TypeInv, TypeOK
<1> QED BY <1>1, <1>3, <1>4 DEF ItemStatuses

LEMMA ItemStep ==
    ASSUME TypeInv, TypeInv', AwaitInv, ItemInv, [Next]_vars
    PROVE  ItemInv'
<1> USE DEF tables, outside, genVars, subVars, ingVars, history
<1>1. ASSUME UNCHANGED <<batch, item, stored, npc, nbatch, nitems>> PROVE ItemInv'
  BY <1>1 DEF ItemInv
<1>2. ASSUME NEW g \in Generators, Generate(g) PROVE ItemInv'
  BY <1>1, <1>2 DEF Generate, GenerateCheck, GenerateLog, GenerateCommit, GenerateError
<1>3. ASSUME NEW i \in Instantiators, Instantiate(i) PROVE ItemInv'
  BY <1>1, <1>3 DEF Instantiate, InstantiateSelect, InstantiateMember, InstantiateError
<1>4. ASSUME NEW s \in Submitters, Submit(s), ~SubmitCommit(s) PROVE ItemInv'
  BY <1>1, <1>4 DEF Submit, SubmitSelect, SubmitSkip, SubmitCheck, SubmitLog, SubmitCreate,
      SubmitError
<1>5. ASSUME NEW e \in Enrollments, Approve(e) PROVE ItemInv'
  BY <1>1, <1>5 DEF Approve
<1>6. ASSUME NEW b \in Batches, ProviderEnds(b) \/ WindowElapses(b) PROVE ItemInv'
  BY <1>1, <1>6 DEF ProviderEnds, WindowElapses
<1>7. ASSUME NEW s \in Submitters, SubmitCommit(s) PROVE ItemInv'
  <2> DEFINE b == sbatch[s]
  <2>1. b \in Batches /\ batch[b] = "none"
    BY <1>7 DEF SubmitCommit, TypeInv, HoldInv, AwaitInv, BatchInv
  <2>2. /\ UNCHANGED <<npc, nbatch, nitems, stored>>
        /\ batch' = [batch EXCEPT ![b] = IF spc[s] = "created" THEN "submitted"
                                         ELSE "no_eligible_clients"]
        /\ item' = [item EXCEPT ![b] = [e \in Enrollments |->
                        IF e \in sitems[s] THEN "pending" ELSE "none"]]
    BY <1>7 DEF SubmitCommit
  <2>3. /\ batch'[b] # "none"
        /\ \A c \in Batches \ {b} : batch'[c] = batch[c] /\ item'[c] = item[c]
        /\ \A e \in Enrollments : item'[b][e] \in {"pending", "none"}
    BY <2>1, <2>2 DEF TypeInv, TypeOK
  <2>4. \A e \in Enrollments : e \notin stored[b]
    BY <2>1 DEF ItemInv
  <2>5. \A n \in Ingesters : npc[n] = "storing" => nbatch[n] \in Batches \ {b}
    BY <2>1 DEF AwaitInv, BatchInv, TypeInv, HoldInv
  <2> QED BY <2>2, <2>3, <2>4, <2>5 DEF ItemInv
<1>8. ASSUME NEW n \in Ingesters, NEW b \in Batches, IngestRead(n, b) PROVE ItemInv'
  <2>1. /\ npc' = [npc EXCEPT ![n] = "asking"] /\ nbatch' = [nbatch EXCEPT ![n] = b]
        /\ UNCHANGED <<batch, item, stored, nitems>>
    BY <1>8 DEF IngestRead
  <2> QED BY <2>1 DEF ItemInv, TypeInv, TypeOK
<1>9. ASSUME NEW n \in Ingesters, IngestAsk(n) PROVE ItemInv'
  <2>1. UNCHANGED <<batch, item, stored, nbatch>>
    BY <1>9 DEF IngestAsk
  <2>2. CASE /\ npc' = [npc EXCEPT ![n] = "storing"]
             /\ nitems' = [nitems EXCEPT ![n] =
                              {e \in Enrollments : item[nbatch[n]][e] = "pending"}]
    BY <2>1, <2>2 DEF ItemInv, TypeInv, TypeOK
  <2>3. CASE npc' = [npc EXCEPT ![n] = "waiting"] /\ UNCHANGED nitems
    BY <2>1, <2>3 DEF ItemInv, TypeInv, TypeOK
  <2> QED BY <1>9, <2>2, <2>3 DEF IngestAsk
<1>10. ASSUME NEW n \in Ingesters, EndIngest(n)
       PROVE  \A m \in Ingesters : npc'[m] # "idle" =>
                m # n /\ npc'[m] = npc[m] /\ nbatch'[m] = nbatch[m] /\ nitems'[m] = nitems[m]
  BY <1>10 DEF EndIngest, TypeInv, TypeOK
<1>11. ASSUME NEW n \in Ingesters, IngestError(n) PROVE ItemInv'
  <2>1. UNCHANGED <<batch, item, stored>> /\ EndIngest(n)
    BY <1>11 DEF IngestError
  <2> QED BY <1>10, <2>1 DEF ItemInv
<1>12. ASSUME NEW n \in Ingesters, IngestInProgress(n) PROVE ItemInv'
  <2>1. UNCHANGED <<item, stored>> /\ EndIngest(n)
    BY <1>12 DEF IngestInProgress
  <2>2. \A c \in Batches : batch'[c] = "none" => batch[c] = "none"
    BY <1>12 DEF IngestInProgress, TypeInv, TypeOK
  <2> QED BY <1>10, <2>1, <2>2 DEF ItemInv
<1>13. ASSUME NEW n \in Ingesters, IngestStore(n) PROVE ItemInv'
  <2> DEFINE b == nbatch[n]
  <2>1. EndIngest(n) /\ batch' = [batch EXCEPT ![b] = "ingested"] /\ b \in Batches
    BY <1>13 DEF IngestStore, TypeInv, HoldInv
  <2>2. PICK accepted \in SUBSET Results(n) :
            item' = [item EXCEPT ![b] = [e \in Enrollments |->
                        IF e \in accepted THEN "accepted"
                        ELSE IF e \in Results(n) THEN "rejected" ELSE item[b][e]]]
    BY <1>13 DEF IngestStore
  <2>3. stored' = [stored EXCEPT ![b] = @ \cup Results(n)]
    BY <1>13 DEF IngestStore
  <2>4. /\ \A c \in Batches : c # b => item'[c] = item[c] /\ stored'[c] = stored[c]
        /\ stored'[b] = stored[b] \cup Results(n)
        /\ \A e \in Enrollments :
            IF e \in Results(n) THEN item'[b][e] \in {"accepted", "rejected"}
                                ELSE item'[b][e] = item[b][e]
    BY <2>1, <2>2, <2>3 DEF TypeInv, TypeOK
  <2>5. \A e \in Results(n) : item[b][e] = "pending"
    BY <1>13, <2>1, StoresWaiting
  <2>6. \A c \in Batches, e \in Enrollments :
            e \in stored'[c] <=> item'[c][e] \in {"accepted", "rejected"}
    BY <2>4, <2>5 DEF ItemInv
  <2>7. \A c \in Batches, e \in Enrollments : item[c][e] # "none" => item'[c][e] # "none"
    BY <2>4, <2>5
  <2>8. \A m \in Ingesters, e \in Enrollments :
            npc'[m] = "storing" /\ e \in nitems'[m] => item'[nbatch'[m]][e] # "none"
    BY <1>10, <2>1, <2>7 DEF ItemInv, TypeInv, HoldInv
  <2>9. \A c \in Batches, e \in Enrollments : batch'[c] = "none" => item'[c][e] = "none"
    BY <2>1, <2>4 DEF ItemInv, TypeInv, TypeOK
  <2> QED BY <2>6, <2>8, <2>9 DEF ItemInv
<1>14. ASSUME UNCHANGED vars PROVE ItemInv'
  BY <1>1, <1>14 DEF vars
<1> QED
  BY <1>2, <1>3, <1>4, <1>5, <1>6, <1>7, <1>8, <1>9, <1>11, <1>12, <1>13, <1>14 DEF Next, Ingest

LEMMA ItemInvariant == Spec => [](TypeInv /\ AwaitInv /\ ItemInv)
<1>1. Init => AwaitInv /\ ItemInv
  BY DEF Init, AwaitInv, BatchInv, PendingItemAwaited, ItemInv
<1>2. TypeInv /\ AwaitInv /\ ItemInv /\ [Next]_vars => (TypeInv /\ AwaitInv /\ ItemInv)'
  BY TypeStep, AwaitStep, ItemStep
<1> QED BY <1>1, <1>2, TypeInit, PTL DEF Spec

-----------------------------------------------------------------------------
(* Accepted results and the touches they belong to.                         *)

\* An accepted result has a touch with a message; a row that is not committed is
\* invisible to everybody else, so that a touch with an item, or one a generation
\* run found, has a committed row that no rollback takes away.
RowInv ==
    /\ AcceptedHasMessage
    /\ LockedUntouched
    /\ \A b \in Batches, e \in Enrollments : item[b][e] # "none" => message[e] # "none"
    /\ \A s \in Submitters : \A e \in sitems[s] : message[e] # "none" \/ locker[e] = s
    /\ \A g \in Generators :
        gpc[g] = "generating" => message[gcur[g]] # "none" \/ locker[gcur[g]] = g

\* A step that stores no item: the rows that are there stay, those that were
\* drafted stay so, and what a request holds it still holds.
LEMMA RowKept ==
    ASSUME TypeInv, RowInv, UNCHANGED item,
           \A e \in Enrollments : message'[e] = "none" => message[e] = "none",
           \A e \in Enrollments : message[e] \in {"pending_review", "approved"} =>
                                    message'[e] \in {"pending_review", "approved"},
           LockedUntouched',
           \A s \in Submitters : \A e \in sitems'[s] :
                e \in sitems[s] /\ (locker[e] = s => message'[e] # "none" \/ locker'[e] = s),
           \A g \in Generators : gpc'[g] = "generating" =>
                \/ message'[gcur'[g]] # "none" \/ locker'[gcur'[g]] = g
    PROVE  RowInv'
<1>1. AcceptedHasMessage'
  BY DEF RowInv, AcceptedHasMessage
<1>2. \A b \in Batches, e \in Enrollments : item'[b][e] # "none" => message'[e] # "none"
  BY DEF RowInv
<1>3. \A s \in Submitters : \A e \in sitems'[s] : message'[e] # "none" \/ locker'[e] = s
  BY DEF RowInv, TypeInv, TypeOK
<1> QED BY <1>1, <1>2, <1>3 DEF RowInv

LEMMA RowStep ==
    ASSUME TypeInv, TypeInv', ItemInv, RowInv, [Next]_vars
    PROVE  RowInv'
<1> USE DraftingAssumption DEF tables, outside, genVars, subVars, ingVars, history
<1>1. ASSUME UNCHANGED <<message, item, locker, gpc, gcur, sitems>> PROVE RowInv'
  BY <1>1 DEF RowInv, AcceptedHasMessage, LockedUntouched
<1>2. ASSUME NEW g \in Generators, NEW e \in Enrollments, GenerateCheck(g, e) PROVE RowInv'
  <2>1. /\ gpc' = [gpc EXCEPT ![g] = "logging"] /\ gcur' = [gcur EXCEPT ![g] = e]
        /\ UNCHANGED <<message, item, locker, sitems>>
    BY <1>2 DEF GenerateCheck
  <2>2. \A h \in Generators : gpc'[h] = "generating" =>
            message'[gcur'[h]] # "none" \/ locker'[gcur'[h]] = h
    BY <2>1 DEF RowInv, TypeInv, TypeOK
  <2> QED BY <2>1, <2>2 DEF RowInv, AcceptedHasMessage, LockedUntouched
<1>3. ASSUME NEW g \in Generators, GenerateLog(g) PROVE RowInv'
  <2> DEFINE e == gcur[g]
  <2>1. e \in Enrollments /\ locker[e] = Nobody /\ UNCHANGED <<message, item, sitems>>
    BY <1>3 DEF GenerateLog, TypeInv, HoldInv
  <2>2. CASE message[e] = "none"
    <3>1. /\ locker' = [locker EXCEPT ![e] = g]
          /\ gpc' = [gpc EXCEPT ![g] = "generating"] /\ UNCHANGED gcur
      BY <1>3, <2>2 DEF GenerateLog
    <3>2. LockedUntouched'
      BY <2>1, <2>2, <3>1 DEF RowInv, LockedUntouched, TypeInv, TypeOK
    <3>3. \A f \in Enrollments : f # e => locker'[f] = locker[f]
      BY <3>1 DEF TypeInv, TypeOK
    <3>4. \A h \in Generators : gpc'[h] = "generating" =>
              message'[gcur'[h]] # "none" \/ locker'[gcur'[h]] = h
      <4> SUFFICES ASSUME NEW h \in Generators, gpc'[h] = "generating"
                   PROVE  message[gcur[h]] # "none" \/ locker'[gcur[h]] = h
        BY <2>1, <3>1
      <4>1. CASE h = g
        BY <2>1, <3>1, <4>1 DEF TypeInv, TypeOK
      <4>2. CASE h # g
        <5>1. gpc[h] = "generating" /\ gcur[h] \in Enrollments
          BY <3>1, <4>2 DEF TypeInv, TypeOK, HoldInv
        <5>2. message[gcur[h]] # "none" \/ locker[gcur[h]] = h
          BY <5>1 DEF RowInv
        <5> QED BY <2>1, <3>3, <4>2, <5>1, <5>2
      <4> QED BY <4>1, <4>2
    <3>5. \A s \in Submitters : \A f \in sitems'[s] :
              f \in sitems[s] /\ (locker[f] = s => message'[f] # "none" \/ locker'[f] = s)
      <4> SUFFICES ASSUME NEW s \in Submitters, NEW f \in sitems[s], locker[f] = s
                   PROVE  locker'[f] = s
        BY <2>1
      <4>1. f \in Enrollments /\ f # e
        BY <2>1 DEF TypeInv, TypeOK
      <4> QED BY <3>3, <4>1
    <3> QED BY <2>1, <3>2, <3>4, <3>5, RowKept
  <2>3. CASE message[e] # "none"
    <3>1. UNCHANGED locker
      BY <1>3, <2>3 DEF GenerateLog
    <3>2. \A h \in Generators : gpc'[h] = "generating" =>
              gcur'[h] = gcur[h] /\ (gpc[h] = "generating" \/ h = g)
      BY <1>3, <2>3 DEF GenerateLog, EndGenerate, TypeInv, TypeOK
    <3>3. \A h \in Generators : gpc'[h] = "generating" =>
              message'[gcur'[h]] # "none" \/ locker'[gcur'[h]] = h
      BY <2>1, <2>3, <3>1, <3>2 DEF RowInv
    <3> QED BY <2>1, <3>1, <3>3 DEF RowInv, AcceptedHasMessage, LockedUntouched
  <2> QED BY <2>2, <2>3
<1>4. ASSUME NEW g \in Generators, GenerateCommit(g) PROVE RowInv'
  <2> DEFINE e == gcur[g]
  <2>1. /\ e \in Enrollments /\ gpc[g] = "generating" /\ UNCHANGED <<item, sitems>>
        /\ locker' = [locker EXCEPT ![e] = IF @ = g THEN Nobody ELSE @]
        /\ gpc' = [gpc EXCEPT ![g] = "idle"] /\ gcur' = [gcur EXCEPT ![g] = Nobody]
    BY <1>4 DEF GenerateCommit, EndGenerate, TypeInv, HoldInv
  <2>2. /\ message'[e] # "none"
        /\ message[e] \in {"pending_review", "approved"} =>
                message'[e] \in {"pending_review", "approved"}
        /\ \A f \in Enrollments : f # e => message'[f] = message[f]
    <3>1. message[e] # "none" \/ locker[e] = g
      BY <2>1 DEF RowInv
    <3>2. locker[e] = g => message[e] = "none"
      BY <2>1 DEF RowInv, LockedUntouched
    <3>3. CASE Draft(e)
      BY <2>1, <3>3 DEF Draft, TypeInv, TypeOK
    <3>4. CASE message' = [message EXCEPT ![e] = IF locker[e] = g THEN "null" ELSE @]
      BY <2>1, <3>1, <3>2, <3>4 DEF TypeInv, TypeOK
    <3> QED BY <1>4, <3>3, <3>4 DEF GenerateCommit
  <2>3. /\ \A f \in Enrollments : f # e => locker'[f] = locker[f]
        /\ locker'[e] = Nobody
    <3>1. locker[e] # Nobody /\ locker[e] # g => message[e] = "none"
      BY <2>1 DEF RowInv, LockedUntouched
    <3>2. message[e] # "none" \/ locker[e] = g
      BY <2>1 DEF RowInv
    <3> QED BY <2>1, <3>1, <3>2 DEF TypeInv, TypeOK
  <2>4. LockedUntouched'
    BY <2>2, <2>3 DEF RowInv, LockedUntouched
  <2>5. \A h \in Generators : gpc'[h] = "generating" =>
            /\ gpc[h] = "generating" /\ gcur'[h] = gcur[h] /\ gcur[h] \in Enrollments
            /\ message'[gcur'[h]] # "none" \/ locker'[gcur'[h]] = h
    <3> SUFFICES ASSUME NEW h \in Generators, gpc'[h] = "generating"
                 PROVE  /\ gpc[h] = "generating" /\ gcur'[h] = gcur[h] /\ gcur[h] \in Enrollments
                        /\ message'[gcur[h]] # "none" \/ locker'[gcur[h]] = h
      OBVIOUS
    <3>1. h # g /\ gpc[h] = "generating" /\ gcur'[h] = gcur[h] /\ gcur[h] \in Enrollments
      BY <2>1 DEF TypeInv, TypeOK, HoldInv
    <3>2. message[gcur[h]] # "none" \/ locker[gcur[h]] = h
      BY <3>1 DEF RowInv
    <3> QED BY <2>2, <2>3, <3>1, <3>2
  <2>6. \A s \in Submitters : \A f \in sitems'[s] :
            f \in sitems[s] /\ (locker[f] = s => message'[f] # "none" \/ locker'[f] = s)
    BY <2>1, <2>2, <2>3 DEF TypeInv, TypeOK
  <2> QED BY <2>1, <2>2, <2>4, <2>5, <2>6, RowKept
<1>5. ASSUME NEW g \in Generators, GenerateError(g) PROVE RowInv'
  <2>1. /\ UNCHANGED <<message, item, sitems>>
        /\ locker' = [e \in Enrollments |-> IF locker[e] = g THEN Nobody ELSE locker[e]]
        /\ gpc' = [gpc EXCEPT ![g] = "idle"] /\ gcur' = [gcur EXCEPT ![g] = Nobody]
    BY <1>5 DEF GenerateError, EndGenerate
  <2>2. LockedUntouched'
    BY <2>1 DEF RowInv, LockedUntouched
  <2>3. \A h \in Generators : gpc'[h] = "generating" =>
            message'[gcur'[h]] # "none" \/ locker'[gcur'[h]] = h
    BY <2>1 DEF RowInv, TypeInv, TypeOK, HoldInv
  <2>4. \A s \in Submitters : \A f \in sitems'[s] :
            f \in sitems[s] /\ (locker[f] = s => message'[f] # "none" \/ locker'[f] = s)
    BY <2>1 DEF TypeInv, TypeOK
  <2> QED BY <2>1, <2>2, <2>3, <2>4, RowKept
<1>6. ASSUME NEW s \in Submitters, SubmitLog(s) PROVE RowInv'
  <2> DEFINE e == scur[s]
  <2>1. /\ e \in Enrollments /\ locker[e] = Nobody /\ UNCHANGED <<message, item, gpc, gcur>>
        /\ locker' = [locker EXCEPT ![e] = IF message[e] = "none" THEN s ELSE @]
    BY <1>6 DEF SubmitLog, Untouched, TypeInv, HoldInv
  <2>2. /\ \A f \in Enrollments : f # e => locker'[f] = locker[f]
        /\ locker'[e] = IF message[e] = "none" THEN s ELSE Nobody
    BY <2>1 DEF TypeInv, TypeOK
  <2>3. LockedUntouched'
    BY <2>1, <2>2 DEF RowInv, LockedUntouched
  <2>4. \A g \in Generators : gpc'[g] = "generating" =>
            message'[gcur'[g]] # "none" \/ locker'[gcur'[g]] = g
    BY <2>1, <2>2 DEF RowInv, TypeInv, HoldInv
  <2>5. \A t \in Submitters : sitems'[t] \subseteq sitems[t] \cup (IF t = s THEN {e} ELSE {})
    BY <1>6 DEF SubmitLog, TypeInv, TypeOK
  <2>6. \A t \in Submitters : \A f \in sitems'[t] : message'[f] # "none" \/ locker'[f] = t
    <3> SUFFICES ASSUME NEW t \in Submitters, NEW f \in sitems'[t]
                 PROVE  message[f] # "none" \/ locker'[f] = t
      BY <2>1
    <3>1. CASE f \in sitems[t]
      <4>1. f \in Enrollments /\ (message[f] # "none" \/ locker[f] = t)
        BY <3>1 DEF RowInv, TypeInv, TypeOK
      <4> QED BY <2>1, <2>2, <4>1
    <3>2. CASE f = e /\ t = s
      BY <2>2, <3>2
    <3> QED BY <2>5, <3>1, <3>2
  <2> QED BY <2>1, <2>3, <2>4, <2>6 DEF RowInv, AcceptedHasMessage
<1>7. ASSUME NEW s \in Submitters, SubmitError(s) PROVE RowInv'
  <2>1. /\ UNCHANGED <<message, item, gpc, gcur>>
        /\ locker' = [e \in Enrollments |-> IF locker[e] = s THEN Nobody ELSE locker[e]]
        /\ sitems' = [sitems EXCEPT ![s] = {}]
    BY <1>7 DEF SubmitError, EndSubmit
  <2>2. LockedUntouched'
    BY <2>1 DEF RowInv, LockedUntouched
  <2>3. \A g \in Generators : gpc'[g] = "generating" =>
            message'[gcur'[g]] # "none" \/ locker'[gcur'[g]] = g
    BY <2>1 DEF RowInv, TypeInv, HoldInv
  <2>4. \A t \in Submitters : \A f \in sitems'[t] :
            f \in sitems[t] /\ (locker[f] = t => message'[f] # "none" \/ locker'[f] = t)
    BY <2>1 DEF TypeInv, TypeOK
  <2> QED BY <2>1, <2>2, <2>3, <2>4, RowKept
<1>8. ASSUME NEW s \in Submitters, SubmitCommit(s) PROVE RowInv'
  <2> DEFINE b == sbatch[s]
  <2>1. /\ b \in Batches /\ UNCHANGED <<gpc, gcur>>
        /\ item' = [item EXCEPT ![b] = [e \in Enrollments |->
                        IF e \in sitems[s] THEN "pending" ELSE "none"]]
        /\ message' = [e \in Enrollments |-> IF locker[e] = s THEN "null" ELSE message[e]]
        /\ locker' = [e \in Enrollments |-> IF locker[e] = s THEN Nobody ELSE locker[e]]
        /\ sitems' = [sitems EXCEPT ![s] = {}]
    BY <1>8 DEF SubmitCommit, EndSubmit, TypeInv, HoldInv
  <2>2. \A e \in Enrollments : locker[e] = s => message[e] = "none"
    BY DEF RowInv, LockedUntouched
  <2>3. /\ \A c \in Batches : c # b => item'[c] = item[c]
        /\ \A e \in Enrollments : item'[b][e] = IF e \in sitems[s] THEN "pending" ELSE "none"
    BY <2>1 DEF TypeInv, TypeOK
  <2>4. AcceptedHasMessage'
    <3> SUFFICES ASSUME NEW c \in Batches, NEW e \in Enrollments, item'[c][e] = "accepted"
                 PROVE  message'[e] \in {"pending_review", "approved"}
      BY DEF AcceptedHasMessage
    <3>1. c # b /\ item[c][e] = "accepted"
      BY <2>3
    <3>2. message[e] \in {"pending_review", "approved"}
      BY <3>1 DEF RowInv, AcceptedHasMessage
    <3> QED BY <2>1, <2>2, <3>2
  <2>5. LockedUntouched'
    BY <2>1 DEF RowInv, LockedUntouched
  <2>6. \A c \in Batches, e \in Enrollments : item'[c][e] # "none" => message'[e] # "none"
    <3> SUFFICES ASSUME NEW c \in Batches, NEW e \in Enrollments, item'[c][e] # "none"
                 PROVE  message'[e] # "none"
      OBVIOUS
    <3>1. CASE c = b
      <4>1. e \in sitems[s]
        BY <2>3, <3>1
      <4>2. message[e] # "none" \/ locker[e] = s
        BY <4>1 DEF RowInv
      <4> QED BY <2>1, <4>2
    <3>2. CASE c # b
      BY <2>1, <2>3, <3>2 DEF RowInv
    <3> QED BY <3>1, <3>2
  <2>7. \A t \in Submitters : \A e \in sitems'[t] : message'[e] # "none" \/ locker'[e] = t
    BY <2>1 DEF RowInv, TypeInv, TypeOK
  <2>8. \A g \in Generators : gpc'[g] = "generating" =>
            message'[gcur'[g]] # "none" \/ locker'[gcur'[g]] = g
    BY <2>1 DEF RowInv, TypeInv, HoldInv
  <2> QED BY <2>4, <2>5, <2>6, <2>7, <2>8 DEF RowInv
<1>9. ASSUME NEW n \in Ingesters, IngestStore(n) PROVE RowInv'
  <2> DEFINE b == nbatch[n]
  <2>1. b \in Batches /\ UNCHANGED <<locker, gpc, gcur, sitems>>
    BY <1>9 DEF IngestStore, TypeInv, HoldInv
  <2>2. PICK accepted \in SUBSET Results(n) :
        /\ item' = [item EXCEPT ![b] = [e \in Enrollments |->
                        IF e \in accepted THEN "accepted"
                        ELSE IF e \in Results(n) THEN "rejected" ELSE item[b][e]]]
        /\ message' = [e \in Enrollments |->
                        IF e \in accepted THEN "pending_review" ELSE message[e]]
    BY <1>9 DEF IngestStore
  <2>3. \A e \in Results(n) : e \in Enrollments /\ item[b][e] = "pending" /\ message[e] # "none"
    BY <1>9, <2>1, StoresWaiting DEF RowInv
  <2>4. /\ \A c \in Batches : c # b => item'[c] = item[c]
        /\ \A e \in Enrollments :
            IF e \in accepted THEN item'[b][e] = "accepted"
            ELSE IF e \in Results(n) THEN item'[b][e] = "rejected" ELSE item'[b][e] = item[b][e]
    BY <2>1, <2>2 DEF TypeInv, TypeOK
  <2>5. /\ \A e \in Enrollments : message'[e] = "none" <=> message[e] = "none"
        /\ \A e \in Enrollments : message'[e] = message[e] \/ message'[e] = "pending_review"
    BY <2>2, <2>3
  <2>6. AcceptedHasMessage'
    <3> SUFFICES ASSUME NEW c \in Batches, NEW e \in Enrollments, item'[c][e] = "accepted"
                 PROVE  message'[e] \in {"pending_review", "approved"}
      BY DEF AcceptedHasMessage
    <3>1. CASE c = b /\ e \in accepted
      BY <2>2, <3>1
    <3>2. CASE c # b \/ e \notin accepted
      <4>1. item[c][e] = "accepted"
        BY <2>4, <3>2
      <4>2. message[e] \in {"pending_review", "approved"}
        BY <4>1 DEF RowInv, AcceptedHasMessage
      <4> QED BY <2>5, <4>2
    <3> QED BY <3>1, <3>2
  <2>7. \A c \in Batches, e \in Enrollments : item'[c][e] # "none" => item[c][e] # "none"
    BY <2>2, <2>3, <2>4
  <2>8. LockedUntouched'
    BY <2>1, <2>5 DEF RowInv, LockedUntouched
  <2>9. \A s \in Submitters : \A e \in sitems'[s] : message'[e] # "none" \/ locker'[e] = s
    BY <2>1, <2>5 DEF RowInv, TypeInv, TypeOK
  <2>10. \A g \in Generators : gpc'[g] = "generating" =>
            message'[gcur'[g]] # "none" \/ locker'[gcur'[g]] = g
    BY <2>1, <2>5 DEF RowInv, TypeInv, HoldInv
  <2> QED BY <2>5, <2>6, <2>7, <2>8, <2>9, <2>10 DEF RowInv
<1>10. ASSUME NEW i \in Instantiators, NEW e \in Enrollments, InstantiateMember(i, e)
       PROVE  RowInv'
  <2>1. UNCHANGED <<item, locker, gpc, gcur, sitems>> /\ locker[e] = Nobody
    BY <1>10 DEF InstantiateMember
  <2>2. \/ message' = [message EXCEPT ![e] = "pending_review"]
        \/ message[e] \in {"none", "null"} /\ message' = [message EXCEPT ![e] = "null"]
        \/ UNCHANGED message
    BY <1>10 DEF InstantiateMember, Draft
  <2>3. /\ \A f \in Enrollments : message'[f] = "none" => message[f] = "none"
        /\ \A f \in Enrollments : message[f] \in {"pending_review", "approved"} =>
                                    message'[f] \in {"pending_review", "approved"}
        /\ \A f \in Enrollments : f # e => message'[f] = message[f]
    BY <2>2 DEF TypeInv, TypeOK
  <2>4. LockedUntouched'
    BY <2>1, <2>3 DEF RowInv, LockedUntouched
  <2>5. \A g \in Generators : gpc'[g] = "generating" =>
            message'[gcur'[g]] # "none" \/ locker'[gcur'[g]] = g
    BY <2>1, <2>3 DEF RowInv, TypeInv, HoldInv
  <2> QED BY <2>1, <2>3, <2>4, <2>5, RowKept
<1>11. ASSUME NEW e \in Enrollments, Approve(e) PROVE RowInv'
  <2>1. /\ UNCHANGED <<item, locker, gpc, gcur, sitems>>
        /\ message[e] = "pending_review" /\ message' = [message EXCEPT ![e] = "approved"]
    BY <1>11 DEF Approve
  <2>2. /\ \A f \in Enrollments : message'[f] = "none" <=> message[f] = "none"
        /\ \A f \in Enrollments : message[f] \in {"pending_review", "approved"} =>
                                    message'[f] \in {"pending_review", "approved"}
    BY <2>1 DEF TypeInv, TypeOK
  <2>3. LockedUntouched'
    BY <2>1, <2>2 DEF RowInv, LockedUntouched
  <2>4. \A g \in Generators : gpc'[g] = "generating" =>
            message'[gcur'[g]] # "none" \/ locker'[gcur'[g]] = g
    BY <2>1, <2>2 DEF RowInv, TypeInv, HoldInv
  <2> QED BY <2>1, <2>2, <2>3, <2>4, RowKept
\* The steps that touch no row, item or lock.
<1>12. ASSUME NEW s \in Submitters, Submit(s), ~SubmitLog(s), ~SubmitCommit(s), ~SubmitError(s)
       PROVE  RowInv'
  BY <1>1, <1>12 DEF Submit, SubmitSelect, SubmitSkip, SubmitCheck, SubmitCreate
<1>13. ASSUME NEW n \in Ingesters, Ingest(n), ~IngestStore(n) PROVE RowInv'
  BY <1>1, <1>13 DEF Ingest, IngestRead, IngestAsk, IngestInProgress, IngestError
<1>14. ASSUME NEW i \in Instantiators, InstantiateSelect(i) \/ InstantiateError(i) PROVE RowInv'
  BY <1>1, <1>14 DEF InstantiateSelect, InstantiateError
<1>15. ASSUME NEW b \in Batches, ProviderEnds(b) \/ WindowElapses(b) PROVE RowInv'
  BY <1>1, <1>15 DEF ProviderEnds, WindowElapses
<1>16. ASSUME UNCHANGED vars PROVE RowInv'
  BY <1>1, <1>16 DEF vars
<1> QED
  BY <1>2, <1>3, <1>4, <1>5, <1>6, <1>7, <1>8, <1>9, <1>10, <1>11, <1>12, <1>13, <1>14, <1>15,
     <1>16 DEF Next, Generate, Instantiate

\* An accepted result leaves its touch with a message for good, however generation
\* runs, submissions and instantiations of the touch overlap, are rejected and die.
THEOREM AcceptedResultKept == Spec => []AcceptedHasMessage
<1>1. Init => RowInv
  BY DEF Init, RowInv, AcceptedHasMessage, LockedUntouched
<1>2. TypeInv /\ TypeInv' /\ ItemInv /\ RowInv /\ [Next]_vars => RowInv'
  BY RowStep
<1>3. RowInv => AcceptedHasMessage
  BY DEF RowInv
<1> QED BY <1>1, <1>2, <1>3, ItemInvariant, PTL DEF Spec

-----------------------------------------------------------------------------
(* One message per touch while drafting requests come one at a time.        *)

SoloInv == ~overlapped => DraftInv /\ AloneInv

\* A step that changes no message, and what it takes in hand is untouched.
LEMMA HandsStep ==
    ASSUME DraftInv, UNCHANGED <<message, drafted, item>>,
           LockedUntouched', GeneratorUntouched', SubmitUntouched', MembersUntouched'
    PROVE  DraftInv'
BY DEF DraftInv, DraftCounted, ItemWaits

\* The only request under way leaves nothing in hand but what stays untouched.
LEMMA AloneStep ==
    ASSUME TypeInv, SoloInv, [Next]_vars, ~overlapped'
    PROVE  ~overlapped /\ DraftInv /\ AloneInv /\ AloneInv'
<1> USE DEF tables, outside, genVars, subVars, ingVars, history
<1>1. ASSUME UNCHANGED <<overlapped, gpc, spc, stodo, sitems, itodo>>
      PROVE  ~overlapped /\ AloneInv'
  BY <1>1 DEF AloneInv, SoloInv
<1>2. ASSUME UNCHANGED overlapped,
             \A g \in Generators : gpc[g] = "idle" => gpc'[g] = "idle",
             \A t \in Submitters : spc[t] = "idle" => spc'[t] = "idle",
             \A t \in Submitters : spc'[t] = "idle" => stodo'[t] = {} /\ sitems'[t] = {},
             \A i \in Instantiators : itodo'[i] \subseteq itodo[i]
      PROVE  ~overlapped /\ AloneInv'
  <2>1. AloneInv /\ \A i \in Instantiators : itodo[i] = {} => itodo'[i] = {}
    BY <1>2 DEF SoloInv
  <2> QED BY <1>2, <2>1 DEF AloneInv
<1>3. ASSUME BeginDrafting
      PROVE  /\ ~overlapped
             /\ \A g \in Generators : gpc[g] = "idle"
             /\ \A t \in Submitters : spc[t] = "idle" /\ stodo[t] = {} /\ sitems[t] = {}
             /\ \A i \in Instantiators : itodo[i] = {}
  BY <1>3 DEF BeginDrafting, Overlaps, SoloInv, AloneInv
<1>4. ASSUME NEW g \in Generators, Generate(g) PROVE ~overlapped /\ AloneInv'
  <2>1. CASE \E e \in Enrollments : GenerateCheck(g, e)
    <3>1. /\ BeginDrafting /\ gpc' = [gpc EXCEPT ![g] = "logging"]
          /\ UNCHANGED <<spc, stodo, sitems, itodo>>
      BY <2>1 DEF GenerateCheck
    <3> QED BY <1>3, <3>1 DEF AloneInv, TypeInv, TypeOK
  <2>2. CASE GenerateLog(g) \/ GenerateCommit(g) \/ GenerateError(g)
    <3>1. UNCHANGED <<overlapped, spc, stodo, sitems, itodo>> /\ gpc[g] # "idle"
      BY <2>2 DEF GenerateLog, GenerateCommit, GenerateError
    <3>2. \E p \in {"idle", "generating"} : gpc' = [gpc EXCEPT ![g] = p]
      BY <2>2 DEF GenerateLog, GenerateCommit, GenerateError, EndGenerate
    <3>3. \A h \in Generators : gpc[h] = "idle" => gpc'[h] = "idle"
      BY <3>1, <3>2 DEF TypeInv, TypeOK
    <3> QED BY <1>2, <3>1, <3>3 DEF SoloInv, AloneInv
  <2> QED BY <1>4, <2>1, <2>2 DEF Generate
<1>5. ASSUME NEW t \in Submitters, Submit(t) PROVE ~overlapped /\ AloneInv'
  <2>1. CASE SubmitSelect(t)
    <3>1. /\ BeginDrafting /\ spc' = [spc EXCEPT ![t] = "loop"] /\ UNCHANGED <<gpc, sitems, itodo>>
          /\ stodo' = [stodo EXCEPT ![t] = {e \in Enrollments : Untouched(e)}]
      BY <2>1 DEF SubmitSelect
    <3> QED BY <1>3, <3>1 DEF AloneInv, TypeInv, TypeOK
  <2>2. CASE SubmitCommit(t) \/ SubmitError(t)
    <3>1. UNCHANGED <<overlapped, gpc, itodo>> /\ EndSubmit(t)
      BY <2>2 DEF SubmitCommit, SubmitError
    <3>2. AloneInv
      BY <3>1 DEF SoloInv
    <3>3. \A u \in Submitters : (spc[u] = "idle" => spc'[u] = "idle")
                                /\ (spc'[u] = "idle" => stodo'[u] = {} /\ sitems'[u] = {})
      BY <3>1, <3>2 DEF EndSubmit, TypeInv, TypeOK, AloneInv
    <3> QED BY <1>2, <3>1, <3>3
  <2>3. CASE \/ \E e \in Enrollments : SubmitSkip(t, e) \/ SubmitCheck(t, e)
             \/ SubmitLog(t) \/ SubmitCreate(t)
    <3>1. UNCHANGED <<overlapped, gpc, itodo>> /\ spc[t] # "idle"
      BY <2>3 DEF SubmitSkip, SubmitCheck, SubmitLog, SubmitCreate, NextDue
    <3>2. AloneInv
      BY <3>1 DEF SoloInv
    <3>3. \A u \in Submitters : u # t => spc'[u] = spc[u] /\ stodo'[u] = stodo[u]
                                         /\ sitems'[u] = sitems[u]
      BY <2>3 DEF SubmitSkip, SubmitCheck, SubmitLog, SubmitCreate, TypeInv, TypeOK
    <3>4. spc'[t] # "idle"
      BY <2>3, <3>1 DEF SubmitSkip, SubmitCheck, SubmitLog, SubmitCreate, TypeInv, TypeOK
    <3> QED BY <1>2, <3>1, <3>2, <3>3, <3>4 DEF AloneInv
  <2> QED BY <1>5, <2>1, <2>2, <2>3 DEF Submit
<1>6. ASSUME NEW i \in Instantiators, Instantiate(i) PROVE ~overlapped /\ AloneInv'
  <2>1. CASE InstantiateSelect(i)
    <3>1. BeginDrafting /\ UNCHANGED <<gpc, spc, stodo, sitems>>
      BY <2>1 DEF InstantiateSelect
    <3>2. \A j \in Instantiators : j # i => itodo'[j] = itodo[j]
      BY <2>1 DEF InstantiateSelect, TypeInv, TypeOK
    <3> QED BY <1>3, <3>1, <3>2 DEF AloneInv
  <2>2. CASE InstantiateError(i)
    <3>1. UNCHANGED <<overlapped, gpc, spc, stodo, sitems>>
      BY <2>2 DEF InstantiateError
    <3>2. PICK rest \in SUBSET itodo[i] : itodo' = [itodo EXCEPT ![i] = rest]
      BY <2>2 DEF InstantiateError
    <3>3. \A j \in Instantiators : itodo'[j] \subseteq itodo[j]
      BY <3>2 DEF TypeInv, TypeOK
    <3> QED BY <1>2, <3>1, <3>3 DEF SoloInv, AloneInv
  <2>3. CASE \E e \in Enrollments : InstantiateMember(i, e)
    <3>1. UNCHANGED <<overlapped, gpc, spc, stodo, sitems>>
      BY <2>3 DEF InstantiateMember
    <3>2. PICK e \in Enrollments : itodo' = [itodo EXCEPT ![i] = @ \ {e}]
      BY <2>3 DEF InstantiateMember
    <3>3. \A j \in Instantiators : itodo'[j] \subseteq itodo[j]
      BY <3>2 DEF TypeInv, TypeOK
    <3> QED BY <1>2, <3>1, <3>3 DEF SoloInv, AloneInv
  <2> QED BY <1>6, <2>1, <2>2, <2>3 DEF Instantiate
<1>7. ASSUME NEW n \in Ingesters, Ingest(n) PROVE ~overlapped /\ AloneInv'
  BY <1>1, <1>7 DEF Ingest, IngestRead, IngestAsk, IngestInProgress, IngestStore, IngestError
<1>8. ASSUME NEW b \in Batches, ProviderEnds(b) \/ WindowElapses(b) PROVE ~overlapped /\ AloneInv'
  BY <1>1, <1>8 DEF ProviderEnds, WindowElapses
<1>9. ASSUME NEW e \in Enrollments, Approve(e) PROVE ~overlapped /\ AloneInv'
  BY <1>1, <1>9 DEF Approve
<1>10. ASSUME UNCHANGED vars PROVE ~overlapped /\ AloneInv'
  BY <1>1, <1>10 DEF vars
<1>11. ~overlapped /\ AloneInv'
  BY <1>4, <1>5, <1>6, <1>7, <1>8, <1>9, <1>10 DEF Next
<1> QED BY <1>11 DEF SoloInv

\* A request that holds e is the only one: nobody else has anything in hand, and
\* no item waits for e, so e may get its message or stay without.
LEMMA TouchGetsMessage ==
    ASSUME TypeInv, DraftInv, NEW e \in Enrollments, message[e] = "none",
           NEW m \in {"null", "pending_review"},
           message' = [message EXCEPT ![e] = m],
           drafted' = IF m = "null" THEN drafted ELSE [drafted EXCEPT ![e] = @ + 1],
           UNCHANGED item
    PROVE  DraftCounted' /\ ItemWaits'
<1>1. /\ message'[e] = m
      /\ \A f \in Enrollments : f # e => message'[f] = message[f] /\ drafted'[f] = drafted[f]
  BY DEF TypeInv, TypeOK
<1>2. drafted'[e] = IF m = "null" THEN 0 ELSE 1
  BY DEF TypeInv, TypeOK, DraftInv, DraftCounted
<1>3. \A b \in Batches : item[b][e] # "pending"
  BY DEF DraftInv, ItemWaits
<1>4. DraftCounted'
  BY <1>1, <1>2 DEF DraftInv, DraftCounted
<1>5. ItemWaits'
  BY <1>1, <1>3 DEF DraftInv, ItemWaits
<1> QED BY <1>4, <1>5

LEMMA DraftStep ==
    ASSUME TypeInv, TypeInv', AwaitInv, ItemInv, DraftInv, AloneInv, AloneInv', [Next]_vars,
           ~overlapped, ~overlapped'
    PROVE  DraftInv'
<1> USE DraftingAssumption DEF tables, outside, genVars, subVars, ingVars, history
<1>1. ASSUME UNCHANGED <<message, drafted, item, locker, genVars, spc, stodo, scur, sitems, itodo>>
      PROVE  DraftInv'
  BY <1>1 DEF DraftInv, DraftCounted, ItemWaits, LockedUntouched, GeneratorUntouched,
      SubmitUntouched, MembersUntouched
<1>2. ASSUME UNCHANGED <<message, spc, stodo, scur, sitems>>,
             \A s \in Submitters, e \in Enrollments : locker[e] = s => locker'[e] = s
      PROVE  SubmitUntouched'
  BY <1>2 DEF DraftInv, SubmitUntouched, TypeInv, TypeOK
<1>3. ASSUME UNCHANGED <<message, itodo>> PROVE MembersUntouched'
  BY <1>3 DEF DraftInv, MembersUntouched
<1>4. ASSUME UNCHANGED <<message, gpc, gcur>>,
             \A g \in Generators, e \in Enrollments : locker[e] = g => locker'[e] = g
      PROVE  GeneratorUntouched'
  <2>1. \A g \in Generators : gpc[g] # "idle" => gcur[g] \in Enrollments
    BY DEF TypeInv, HoldInv
  <2> QED BY <1>4, <2>1 DEF DraftInv, GeneratorUntouched
\* Generation runs.
<1>5. ASSUME NEW g \in Generators, NEW e \in Enrollments, GenerateCheck(g, e) PROVE DraftInv'
  <2>1. /\ gpc' = [gpc EXCEPT ![g] = "logging"] /\ gcur' = [gcur EXCEPT ![g] = e]
        /\ message[e] = "none"
        /\ UNCHANGED <<message, drafted, item, locker, spc, stodo, scur, sitems, itodo>>
    BY <1>5 DEF GenerateCheck, Untouched
  <2>2. GeneratorUntouched'
    BY <2>1 DEF DraftInv, GeneratorUntouched, TypeInv, TypeOK
  <2>3. LockedUntouched'
    BY <2>1 DEF DraftInv, LockedUntouched
  <2> QED BY <1>2, <1>3, <2>1, <2>2, <2>3, HandsStep
<1>6. ASSUME NEW g \in Generators, GenerateLog(g) PROVE DraftInv'
  <2>1. gcur[g] \in Enrollments /\ message[gcur[g]] = "none" /\ locker[gcur[g]] = Nobody
    BY <1>6 DEF GenerateLog, TypeInv, HoldInv, DraftInv, GeneratorUntouched
  <2>2. /\ locker' = [locker EXCEPT ![gcur[g]] = g]
        /\ gpc' = [gpc EXCEPT ![g] = "generating"]
        /\ UNCHANGED <<gcur, message, drafted, item, spc, stodo, scur, sitems, itodo>>
    BY <1>6, <2>1 DEF GenerateLog
  <2>3. LockedUntouched'
    BY <2>1, <2>2 DEF DraftInv, LockedUntouched, TypeInv, TypeOK
  <2>4. GeneratorUntouched'
    <3> SUFFICES ASSUME NEW h \in Generators
                 PROVE  /\ gpc'[h] # "idle" => message'[gcur'[h]] = "none"
                        /\ gpc'[h] = "generating" => locker'[gcur'[h]] = h
      BY DEF GeneratorUntouched
    <3>1. CASE h = g
      BY <2>1, <2>2, <3>1 DEF TypeInv, TypeOK
    <3>2. CASE h # g
      <4>1. gpc'[h] = gpc[h] /\ gpc'[g] # "idle"
        BY <2>2, <3>2 DEF TypeInv, TypeOK
      <4>2. gpc'[h] = "idle"
        BY <3>2, <4>1 DEF AloneInv
      <4> QED BY <4>2
    <3> QED BY <3>1, <3>2
  <2>5. \A s \in Submitters, e \in Enrollments : locker[e] = s => locker'[e] = s
    BY <2>1, <2>2 DEF TypeInv, TypeOK
  <2> QED BY <1>2, <1>3, <2>2, <2>3, <2>4, <2>5, HandsStep
<1>7. ASSUME NEW g \in Generators, gpc[g] # "idle"
      PROVE  /\ \A h \in Generators : h # g => gpc[h] = "idle"
             /\ \A s \in Submitters : spc[s] = "idle" /\ stodo[s] = {} /\ sitems[s] = {}
             /\ \A i \in Instantiators : itodo[i] = {}
  BY <1>7 DEF AloneInv
<1>8. ASSUME NEW g \in Generators, GenerateCommit(g) PROVE DraftInv'
  <2> DEFINE e == gcur[g]
  <2>1. e \in Enrollments /\ message[e] = "none" /\ locker[e] = g /\ gpc[g] # "idle"
    BY <1>8 DEF GenerateCommit, TypeInv, HoldInv, DraftInv, GeneratorUntouched
  <2>2. /\ UNCHANGED <<item, spc, stodo, scur, sitems, itodo>>
        /\ locker' = [locker EXCEPT ![e] = Nobody]
        /\ gpc' = [gpc EXCEPT ![g] = "idle"]
    BY <1>8, <2>1 DEF GenerateCommit, EndGenerate
  <2>3. \E m \in {"null", "pending_review"} :
            /\ message' = [message EXCEPT ![e] = m]
            /\ drafted' = IF m = "null" THEN drafted ELSE [drafted EXCEPT ![e] = @ + 1]
    <3>1. CASE Draft(e)
      BY <3>1 DEF Draft
    <3>2. CASE message' = [message EXCEPT ![e] = "null"] /\ UNCHANGED drafted
      BY <3>2
    <3> QED BY <1>8, <2>1, <3>1, <3>2 DEF GenerateCommit
  <2>4. DraftCounted' /\ ItemWaits'
    BY <2>1, <2>2, <2>3, TouchGetsMessage
  <2>5. LockedUntouched'
    BY <2>1, <2>2, <2>3 DEF DraftInv, LockedUntouched, TypeInv, TypeOK
  <2>6. GeneratorUntouched'
    <3>1. \A h \in Generators : gpc'[h] = "idle"
      BY <1>7, <2>1, <2>2 DEF TypeInv, TypeOK
    <3> QED BY <3>1 DEF GeneratorUntouched
  <2>7. SubmitUntouched' /\ MembersUntouched'
    BY <1>7, <2>1, <2>2 DEF SubmitUntouched, MembersUntouched
  <2> QED BY <2>4, <2>5, <2>6, <2>7 DEF DraftInv
<1>9. ASSUME NEW g \in Generators, GenerateError(g) PROVE DraftInv'
  <2>1. /\ UNCHANGED <<message, drafted, item, spc, stodo, scur, sitems, itodo>>
        /\ locker' = [e \in Enrollments |-> IF locker[e] = g THEN Nobody ELSE locker[e]]
        /\ gpc' = [gpc EXCEPT ![g] = "idle"] /\ gpc[g] # "idle"
    BY <1>9 DEF GenerateError, EndGenerate
  <2>2. LockedUntouched'
    BY <2>1 DEF DraftInv, LockedUntouched
  <2>3. GeneratorUntouched'
    <3>1. \A h \in Generators : gpc'[h] = "idle"
      BY <1>7, <2>1 DEF TypeInv, TypeOK
    <3> QED BY <3>1 DEF GeneratorUntouched
  <2>4. \A s \in Submitters, e \in Enrollments : locker[e] = s => locker'[e] = s
    BY <2>1
  <2> QED BY <1>2, <1>3, <2>1, <2>2, <2>3, <2>4, HandsStep
\* Submissions.
<1>10. ASSUME NEW s \in Submitters, spc[s] # "idle" \/ spc'[s] # "idle", UNCHANGED <<gpc, itodo>>
       PROVE  /\ \A g \in Generators : gpc'[g] = "idle"
              /\ \A i \in Instantiators : itodo'[i] = {}
  BY <1>10 DEF AloneInv
<1>11. ASSUME NEW s \in Submitters, SubmitSelect(s) PROVE DraftInv'
  <2>1. /\ UNCHANGED <<message, drafted, item, locker, gpc, gcur, scur, sitems, itodo>>
        /\ stodo' = [stodo EXCEPT ![s] = {e \in Enrollments : message[e] = "none"}]
        /\ spc' = [spc EXCEPT ![s] = "loop"]
    BY <1>11 DEF SubmitSelect, Untouched
  <2>2. SubmitUntouched'
    BY <2>1 DEF DraftInv, SubmitUntouched, TypeInv, TypeOK
  <2>3. LockedUntouched'
    BY <2>1 DEF DraftInv, LockedUntouched
  <2> QED BY <1>3, <1>4, <2>1, <2>2, <2>3, HandsStep
<1>12. ASSUME NEW s \in Submitters, NEW e \in Enrollments, SubmitSkip(s, e) PROVE DraftInv'
  <2>1. /\ UNCHANGED <<message, drafted, item, locker, gpc, gcur, spc, scur, sitems, itodo>>
        /\ stodo' = [stodo EXCEPT ![s] = @ \ {e}]
    BY <1>12 DEF SubmitSkip
  <2>2. SubmitUntouched'
    BY <2>1 DEF DraftInv, SubmitUntouched, TypeInv, TypeOK
  <2>3. LockedUntouched'
    BY <2>1 DEF DraftInv, LockedUntouched
  <2> QED BY <1>3, <1>4, <2>1, <2>2, <2>3, HandsStep
<1>13. ASSUME NEW s \in Submitters, NEW e \in Enrollments, SubmitCheck(s, e) PROVE DraftInv'
  <2>1. /\ UNCHANGED <<message, drafted, item, locker, gpc, gcur, sitems, itodo>>
        /\ stodo' = [stodo EXCEPT ![s] = @ \ {e}]
        /\ scur' = [scur EXCEPT ![s] = e] /\ spc' = [spc EXCEPT ![s] = "logging"]
        /\ message[e] = "none"
    BY <1>13 DEF SubmitCheck, Untouched
  <2>2. SubmitUntouched'
    BY <2>1 DEF DraftInv, SubmitUntouched, TypeInv, TypeOK
  <2>3. LockedUntouched'
    BY <2>1 DEF DraftInv, LockedUntouched
  <2> QED BY <1>3, <1>4, <2>1, <2>2, <2>3, HandsStep
<1>14. ASSUME NEW s \in Submitters, SubmitLog(s) PROVE DraftInv'
  <2> DEFINE e == scur[s]
  <2>1. e \in Enrollments /\ message[e] = "none" /\ locker[e] = Nobody /\ spc[s] # "idle"
    BY <1>14 DEF SubmitLog, TypeInv, HoldInv, DraftInv, SubmitUntouched
  <2>2. /\ UNCHANGED <<message, drafted, item, gpc, gcur, stodo, itodo>>
        /\ locker' = [locker EXCEPT ![e] = s]
        /\ spc' = [spc EXCEPT ![s] = "loop"]
    BY <1>14, <2>1 DEF SubmitLog, Untouched
  <2>3. LockedUntouched'
    BY <2>1, <2>2 DEF DraftInv, LockedUntouched, TypeInv, TypeOK
  <2>4. GeneratorUntouched' /\ MembersUntouched'
    BY <1>10, <2>1, <2>2 DEF GeneratorUntouched, MembersUntouched
  <2>5. SubmitUntouched'
    <3> SUFFICES ASSUME NEW t \in Submitters
                 PROVE  /\ \A f \in stodo'[t] : message'[f] = "none"
                        /\ spc'[t] = "logging" => message'[scur'[t]] = "none"
                        /\ \A f \in sitems'[t] : message'[f] = "none" /\ locker'[f] = t
      BY DEF SubmitUntouched
    <3>1. \A f \in stodo'[t] : message'[f] = "none"
      BY <2>2 DEF DraftInv, SubmitUntouched
    <3>2. CASE t # s
      <4>1. spc[t] = "idle" /\ sitems[t] = {}
        BY <2>1, <3>2 DEF AloneInv
      <4>2. sitems'[t] = sitems[t]
        BY <1>14, <3>2 DEF SubmitLog, TypeInv, TypeOK
      <4>3. spc'[t] = spc[t]
        BY <2>2, <3>2 DEF TypeInv, TypeOK
      <4> QED BY <3>1, <4>1, <4>2, <4>3
    <3>3. CASE t = s
      <4>1. sitems'[s] \subseteq sitems[s] \cup {e}
        BY <1>14 DEF SubmitLog, TypeInv, TypeOK
      <4>2. \A f \in sitems[s] : f \in Enrollments /\ message[f] = "none" /\ locker[f] = s
        BY DEF DraftInv, SubmitUntouched, TypeInv, TypeOK
      <4>3. \A f \in sitems'[s] : message'[f] = "none" /\ locker'[f] = s
        BY <2>1, <2>2, <4>1, <4>2 DEF TypeInv, TypeOK
      <4>4. spc'[s] = "loop"
        BY <2>2 DEF TypeInv, TypeOK
      <4> QED BY <3>1, <3>3, <4>3, <4>4
    <3> QED BY <3>2, <3>3
  <2> QED BY <2>2, <2>3, <2>4, <2>5, HandsStep
<1>15. ASSUME NEW s \in Submitters, SubmitCreate(s) PROVE DraftInv'
  <2>1. /\ UNCHANGED <<message, drafted, item, locker, gpc, gcur, stodo, scur, sitems, itodo>>
        /\ spc' = [spc EXCEPT ![s] = "created"]
    BY <1>15 DEF SubmitCreate
  <2>2. SubmitUntouched'
    BY <2>1 DEF DraftInv, SubmitUntouched, TypeInv, TypeOK
  <2>3. LockedUntouched'
    BY <2>1 DEF DraftInv, LockedUntouched
  <2> QED BY <1>3, <1>4, <2>1, <2>2, <2>3, HandsStep
<1>16. ASSUME NEW s \in Submitters, EndSubmit(s), spc[s] # "idle", UNCHANGED <<gpc, itodo>>
       PROVE  GeneratorUntouched' /\ SubmitUntouched' /\ MembersUntouched'
  <2>1. \A t \in Submitters : spc'[t] = "idle" /\ stodo'[t] = {} /\ sitems'[t] = {}
    BY <1>16 DEF EndSubmit, AloneInv, TypeInv, TypeOK
  <2> QED BY <1>10, <1>16, <2>1 DEF GeneratorUntouched, SubmitUntouched, MembersUntouched
<1>17. ASSUME NEW s \in Submitters, SubmitError(s) PROVE DraftInv'
  <2>1. /\ UNCHANGED <<message, drafted, item, gpc, itodo>> /\ EndSubmit(s) /\ spc[s] # "idle"
    BY <1>17 DEF SubmitError
  <2>2. LockedUntouched'
    BY <2>1 DEF DraftInv, LockedUntouched, EndSubmit
  <2> QED BY <1>16, <2>1, <2>2, HandsStep
<1>18. ASSUME NEW s \in Submitters, SubmitCommit(s) PROVE DraftInv'
  <2> DEFINE b == sbatch[s]
  <2>1. /\ UNCHANGED <<drafted, gpc, itodo>> /\ EndSubmit(s) /\ spc[s] # "idle" /\ b \in Batches
        /\ item' = [item EXCEPT ![b] = [e \in Enrollments |->
                        IF e \in sitems[s] THEN "pending" ELSE "none"]]
        /\ message' = [e \in Enrollments |-> IF locker[e] = s THEN "null" ELSE message[e]]
    BY <1>18 DEF SubmitCommit, TypeInv, HoldInv
  <2>2. \A e \in Enrollments : locker[e] = s => message[e] = "none"
    BY DEF DraftInv, LockedUntouched
  <2>3. DraftCounted'
    BY <2>1, <2>2 DEF DraftInv, DraftCounted
  <2>4. LockedUntouched'
    BY <2>1 DEF DraftInv, LockedUntouched, EndSubmit
  <2>5. /\ \A c \in Batches : c # b => item'[c] = item[c]
        /\ \A e \in Enrollments : item'[b][e] = "pending" => e \in sitems[s]
    BY <2>1 DEF TypeInv, TypeOK
  <2>6. \A e \in sitems[s] : message[e] = "none" /\ locker[e] = s
    BY DEF DraftInv, SubmitUntouched
  <2>7. \A c \in Batches, e \in Enrollments :
            item'[c][e] = "pending" => IF c = b THEN locker[e] = s
                                       ELSE item[c][e] = "pending" /\ message[e] = "null"
    BY <2>5, <2>6 DEF DraftInv, ItemWaits
  <2>8. ItemWaits'
    <3>1. \A c \in Batches, e \in Enrollments : item'[c][e] = "pending" => message'[e] = "null"
      BY <2>1, <2>7
    <3>2. \A c, d \in Batches, e \in Enrollments :
            item'[c][e] = "pending" /\ item'[d][e] = "pending" => c = d
      <4> SUFFICES ASSUME NEW c \in Batches, NEW d \in Batches, NEW e \in Enrollments,
                          item'[c][e] = "pending", item'[d][e] = "pending", c # d
                   PROVE  FALSE
        OBVIOUS
      <4>1. CASE c = b
        BY <2>2, <2>7, <4>1
      <4>2. CASE d = b
        BY <2>2, <2>7, <4>2
      <4>3. CASE c # b /\ d # b
        BY <2>7, <4>3 DEF DraftInv, ItemWaits
      <4> QED BY <4>1, <4>2, <4>3
    <3> QED BY <3>1, <3>2 DEF ItemWaits
  <2> QED BY <1>16, <2>1, <2>3, <2>4, <2>8 DEF DraftInv
\* Instantiations.
<1>19. ASSUME NEW i \in Instantiators, InstantiateSelect(i) PROVE DraftInv'
  <2>1. UNCHANGED <<message, drafted, item, locker, gpc, gcur, spc, stodo, scur, sitems>>
    BY <1>19 DEF InstantiateSelect
  <2>2. PICK members \in SUBSET {e \in Enrollments : message[e] = "none"} :
            itodo' = [itodo EXCEPT ![i] = members]
    BY <1>19 DEF InstantiateSelect, Untouched
  <2>3. MembersUntouched'
    BY <2>1, <2>2 DEF DraftInv, MembersUntouched, TypeInv, TypeOK
  <2>4. LockedUntouched'
    BY <2>1 DEF DraftInv, LockedUntouched
  <2> QED BY <1>2, <1>4, <2>1, <2>3, <2>4, HandsStep
<1>20. ASSUME NEW i \in Instantiators, InstantiateError(i) PROVE DraftInv'
  <2>1. UNCHANGED <<message, drafted, item, locker, gpc, gcur, spc, stodo, scur, sitems>>
    BY <1>20 DEF InstantiateError
  <2>2. PICK rest \in SUBSET itodo[i] : itodo' = [itodo EXCEPT ![i] = rest]
    BY <1>20 DEF InstantiateError
  <2>3. MembersUntouched'
    BY <2>1, <2>2 DEF DraftInv, MembersUntouched, TypeInv, TypeOK
  <2>4. LockedUntouched'
    BY <2>1 DEF DraftInv, LockedUntouched
  <2> QED BY <1>2, <1>4, <2>1, <2>3, <2>4, HandsStep
<1>21. ASSUME NEW i \in Instantiators, NEW e \in Enrollments, InstantiateMember(i, e)
       PROVE  DraftInv'
  <2>1. /\ UNCHANGED <<locker, item, gpc, gcur, spc, stodo, scur, sitems>>
        /\ e \in itodo[i] /\ locker[e] = Nobody /\ itodo' = [itodo EXCEPT ![i] = @ \ {e}]
    BY <1>21 DEF InstantiateMember
  <2>2. message[e] = "none"
    BY <2>1 DEF DraftInv, MembersUntouched
  <2>3. \E m \in {"null", "pending_review"} :
            /\ message' = [message EXCEPT ![e] = m]
            /\ drafted' = IF m = "null" THEN drafted ELSE [drafted EXCEPT ![e] = @ + 1]
    <3>1. CASE Draft(e)
      BY <3>1 DEF Draft
    <3>2. CASE message' = [message EXCEPT ![e] = "null"] /\ UNCHANGED drafted
      BY <3>2
    <3> QED BY <1>21, <2>2, <3>1, <3>2 DEF InstantiateMember
  <2>4. DraftCounted' /\ ItemWaits'
    BY <2>1, <2>2, <2>3, TouchGetsMessage
  <2>5. \A f \in Enrollments : f # e => message'[f] = message[f]
    BY <2>3 DEF TypeInv, TypeOK
  <2>6. LockedUntouched'
    BY <2>1, <2>5 DEF DraftInv, LockedUntouched
  <2>7. /\ \A g \in Generators : gpc[g] = "idle"
        /\ \A t \in Submitters : spc[t] = "idle" /\ stodo[t] = {} /\ sitems[t] = {}
        /\ \A j \in Instantiators : j # i => itodo[j] = {}
    BY <2>1 DEF AloneInv
  <2>8. GeneratorUntouched' /\ SubmitUntouched'
    BY <2>1, <2>7 DEF GeneratorUntouched, SubmitUntouched
  <2>9. \A j \in Instantiators : \A f \in itodo'[j] : j = i /\ f \in itodo[i] /\ f # e
    BY <2>1, <2>7 DEF TypeInv, TypeOK
  <2>10. MembersUntouched'
    BY <2>5, <2>9 DEF DraftInv, MembersUntouched, TypeInv, TypeOK
  <2> QED BY <2>4, <2>6, <2>8, <2>10 DEF DraftInv
\* Ingestions.
<1>22. ASSUME NEW n \in Ingesters, Ingest(n), ~IngestStore(n) PROVE DraftInv'
  BY <1>1, <1>22 DEF Ingest, IngestRead, IngestAsk, IngestInProgress, IngestError
<1>23. ASSUME NEW n \in Ingesters, IngestStore(n) PROVE DraftInv'
  <2> DEFINE b == nbatch[n]
  <2>1. b \in Batches /\ UNCHANGED <<locker, gpc, gcur, spc, stodo, scur, sitems, itodo>>
    BY <1>23 DEF IngestStore, TypeInv, HoldInv
  <2>2. PICK accepted \in SUBSET Results(n) :
        /\ item' = [item EXCEPT ![b] = [e \in Enrollments |->
                        IF e \in accepted THEN "accepted"
                        ELSE IF e \in Results(n) THEN "rejected" ELSE item[b][e]]]
        /\ message' = [e \in Enrollments |->
                        IF e \in accepted THEN "pending_review" ELSE message[e]]
        /\ drafted' = [e \in Enrollments |->
                        IF e \in accepted THEN drafted[e] + 1 ELSE drafted[e]]
    BY <1>23 DEF IngestStore
  <2>3. \A e \in accepted : e \in Enrollments /\ item[b][e] = "pending" /\ message[e] = "null"
    BY <1>23, <2>1, <2>2, StoresWaiting DEF DraftInv, ItemWaits
  <2>4. DraftCounted'
    <3> SUFFICES ASSUME NEW e \in Enrollments
                 PROVE  drafted'[e] = IF message'[e] \in {"none", "null"} THEN 0 ELSE 1
      BY DEF DraftCounted
    <3>1. CASE e \in accepted
      <4>1. drafted[e] = 0
        BY <2>3, <3>1 DEF DraftInv, DraftCounted
      <4>2. drafted'[e] = 0 + 1 /\ message'[e] = "pending_review"
        BY <2>2, <3>1, <4>1
      <4> QED BY <4>2
    <3>2. CASE e \notin accepted
      <4>1. drafted'[e] = drafted[e] /\ message'[e] = message[e]
        BY <2>2, <3>2
      <4> QED BY <4>1 DEF DraftInv, DraftCounted
    <3> QED BY <3>1, <3>2
  <2>5. \A e \in Enrollments : message[e] = "none" => message'[e] = "none"
    BY <2>2, <2>3
  <2>6. /\ \A c \in Batches : c # b => item'[c] = item[c]
        /\ \A e \in Enrollments : item'[b][e] = "pending" => item[b][e] = "pending" /\ e \notin accepted
    BY <2>1, <2>2 DEF TypeInv, TypeOK
  <2>7. \A c \in Batches, e \in Enrollments :
            item'[c][e] = "pending" => item[c][e] = "pending" /\ e \notin accepted
    <3> SUFFICES ASSUME NEW c \in Batches, NEW e \in Enrollments, item'[c][e] = "pending"
                 PROVE  item[c][e] = "pending" /\ e \notin accepted
      OBVIOUS
    <3>1. CASE c = b
      BY <2>6, <3>1
    <3>2. CASE c # b
      <4>1. item[c][e] = "pending"
        BY <2>6, <3>2
      <4>2. e \notin accepted
        BY <2>1, <2>3, <3>2, <4>1 DEF DraftInv, ItemWaits
      <4> QED BY <4>1, <4>2
    <3> QED BY <3>1, <3>2
  <2>8. ItemWaits'
    <3>1. \A c \in Batches, e \in Enrollments : item'[c][e] = "pending" => message'[e] = "null"
      BY <2>2, <2>7 DEF DraftInv, ItemWaits
    <3> QED BY <2>7, <3>1 DEF DraftInv, ItemWaits
  <2>9. LockedUntouched'
    BY <2>1, <2>5 DEF DraftInv, LockedUntouched
  <2>10. GeneratorUntouched'
    BY <2>1, <2>5 DEF DraftInv, GeneratorUntouched, TypeInv, HoldInv
  <2>11. SubmitUntouched'
    <3>1. \A s \in Submitters : /\ stodo[s] \subseteq Enrollments /\ sitems[s] \subseteq Enrollments
                                /\ spc[s] = "logging" => scur[s] \in Enrollments
      BY DEF TypeInv, TypeOK, HoldInv
    <3>2. \A s \in Submitters : \A e \in stodo'[s] : message'[e] = "none"
      BY <2>1, <2>5, <3>1 DEF DraftInv, SubmitUntouched
    <3>3. \A s \in Submitters : spc'[s] = "logging" => message'[scur'[s]] = "none"
      BY <2>1, <2>5, <3>1 DEF DraftInv, SubmitUntouched
    <3>4. \A s \in Submitters : \A e \in sitems'[s] : message'[e] = "none" /\ locker'[e] = s
      BY <2>1, <2>5, <3>1 DEF DraftInv, SubmitUntouched
    <3> QED BY <3>2, <3>3, <3>4 DEF SubmitUntouched
  <2>12. MembersUntouched'
    BY <2>1, <2>5 DEF DraftInv, MembersUntouched, TypeInv, TypeOK
  <2> QED BY <2>4, <2>8, <2>9, <2>10, <2>11, <2>12 DEF DraftInv
<1>24. ASSUME NEW e \in Enrollments, Approve(e) PROVE DraftInv'
  <2>1. /\ message' = [message EXCEPT ![e] = "approved"] /\ message[e] = "pending_review"
        /\ UNCHANGED <<drafted, item, locker, gpc, gcur, spc, stodo, scur, sitems, itodo>>
    BY <1>24 DEF Approve
  <2>2. \A f \in Enrollments :
            /\ message[f] \in {"none", "null"} <=> message'[f] \in {"none", "null"}
            /\ message[f] \in {"none", "null"} => message'[f] = message[f]
    BY <2>1 DEF TypeInv, TypeOK
  <2>3. DraftCounted' /\ ItemWaits'
    BY <2>1, <2>2 DEF DraftInv, DraftCounted, ItemWaits
  <2>4. LockedUntouched' /\ GeneratorUntouched'
    BY <2>1, <2>2 DEF DraftInv, LockedUntouched, GeneratorUntouched, TypeInv, HoldInv
  <2>5. SubmitUntouched'
    BY <2>1, <2>2 DEF DraftInv, SubmitUntouched, TypeInv, TypeOK, HoldInv
  <2>6. MembersUntouched'
    BY <2>1, <2>2 DEF DraftInv, MembersUntouched, TypeInv, TypeOK
  <2> QED BY <2>3, <2>4, <2>5, <2>6 DEF DraftInv
<1>25. ASSUME NEW b \in Batches, ProviderEnds(b) \/ WindowElapses(b) PROVE DraftInv'
  BY <1>1, <1>25 DEF ProviderEnds, WindowElapses
<1>26. ASSUME UNCHANGED vars PROVE DraftInv'
  BY <1>1, <1>26 DEF vars
<1> QED
  BY <1>5, <1>6, <1>8, <1>9, <1>11, <1>12, <1>13, <1>14, <1>15, <1>17, <1>18, <1>19, <1>20, <1>21,
     <1>22, <1>23, <1>24, <1>25, <1>26 DEF Next, Generate, Submit, Instantiate

LEMMA SoloInvariant == Spec => [](TypeInv /\ AwaitInv /\ ItemInv /\ SoloInv)
<1>1. Init => SoloInv
  BY DEF Init, SoloInv, DraftInv, AloneInv, DraftCounted, ItemWaits, LockedUntouched,
      GeneratorUntouched, SubmitUntouched, MembersUntouched
<1>2. TypeInv /\ TypeInv' /\ AwaitInv /\ ItemInv /\ SoloInv /\ [Next]_vars => SoloInv'
  BY AloneStep, DraftStep DEF SoloInv
<1> QED BY <1>1, <1>2, ItemInvariant, PTL DEF Spec

\* While drafting requests do not overlap, no touch ever gets a second message,
\* whatever dies and however often batches are submitted and ingested again.
THEOREM TouchDraftedOnce == Spec => []OneDraftPerTouch
<1>1. SoloInv => OneDraftPerTouch
  BY DEF SoloInv, DraftInv, DraftCounted, OneDraftPerTouch
<1> QED BY <1>1, SoloInvariant, PTL

\* While drafting requests do not overlap, no late draft or result replaces a
\* message a reviewer approved.
THEOREM ApprovedDraftStays == Spec => ApprovedDraftKept
<1> DEFINE Kept == ~overlapped => \A e \in Enrollments :
                        message[e] = "approved" => message'[e] = "approved"
<1>1. TypeInv /\ ItemInv /\ SoloInv /\ [Next]_vars => Kept
  <2> SUFFICES ASSUME TypeInv, ItemInv, SoloInv, [Next]_vars, ~overlapped,
                      NEW e \in Enrollments, message[e] = "approved"
               PROVE  message'[e] = "approved"
    OBVIOUS
  <2> USE DEF tables, outside, genVars, subVars, ingVars, history
  <2>1. DraftInv
    BY DEF SoloInv
  <2>2. ASSUME UNCHANGED message PROVE message'[e] = "approved"
    BY <2>2
  <2>3. ASSUME NEW f \in Enrollments, message[f] = "none", NEW m,
               message' = [message EXCEPT ![f] = m]
        PROVE  message'[e] = "approved"
    BY <2>3 DEF TypeInv, TypeOK
  <2>4. ASSUME NEW g \in Generators, Generate(g) PROVE message'[e] = "approved"
    <3>1. CASE GenerateCommit(g)
      <4>1. gcur[g] \in Enrollments /\ message[gcur[g]] = "none"
        BY <2>1, <3>1 DEF GenerateCommit, TypeInv, HoldInv, DraftInv, GeneratorUntouched
      <4>2. \E m : message' = [message EXCEPT ![gcur[g]] = m]
        BY <3>1 DEF GenerateCommit, Draft
      <4> QED BY <2>3, <4>1, <4>2
    <3>2. CASE ~GenerateCommit(g)
      BY <2>2, <2>4, <3>2 DEF Generate, GenerateCheck, GenerateLog, GenerateError
    <3> QED BY <3>1, <3>2
  <2>5. ASSUME NEW s \in Submitters, Submit(s) PROVE message'[e] = "approved"
    <3>1. CASE SubmitCommit(s)
      <4>1. locker[e] # s
        BY <2>1, DraftingAssumption DEF DraftInv, LockedUntouched
      <4> QED BY <3>1, <4>1 DEF SubmitCommit
    <3>2. CASE ~SubmitCommit(s)
      BY <2>2, <2>5, <3>2 DEF Submit, SubmitSelect, SubmitSkip, SubmitCheck, SubmitLog,
          SubmitCreate, SubmitError
    <3> QED BY <3>1, <3>2
  <2>6. ASSUME NEW n \in Ingesters, Ingest(n) PROVE message'[e] = "approved"
    <3>1. CASE IngestStore(n)
      <4>1. PICK accepted \in SUBSET Results(n) :
                message' = [f \in Enrollments |->
                                IF f \in accepted THEN "pending_review" ELSE message[f]]
        BY <3>1 DEF IngestStore
      <4>2. e \notin Results(n)
        BY <2>1, <3>1, StoresWaiting DEF DraftInv, ItemWaits
      <4> QED BY <4>1, <4>2
    <3>2. CASE ~IngestStore(n)
      BY <2>2, <2>6, <3>2 DEF Ingest, IngestRead, IngestAsk, IngestInProgress, IngestError
    <3> QED BY <3>1, <3>2
  <2>7. ASSUME NEW i \in Instantiators, Instantiate(i) PROVE message'[e] = "approved"
    <3>1. ASSUME NEW f \in Enrollments, InstantiateMember(i, f) PROVE message'[e] = "approved"
      <4>1. message[f] = "none"
        BY <2>1, <3>1 DEF InstantiateMember, DraftInv, MembersUntouched
      <4>2. \E m : message' = [message EXCEPT ![f] = m]
        BY <3>1, <4>1 DEF InstantiateMember, Draft
      <4> QED BY <2>3, <4>1, <4>2
    <3>2. CASE InstantiateSelect(i) \/ InstantiateError(i)
      BY <2>2, <3>2 DEF InstantiateSelect, InstantiateError
    <3> QED BY <2>7, <3>1, <3>2 DEF Instantiate
  <2>8. ASSUME NEW f \in Enrollments, Approve(f) PROVE message'[e] = "approved"
    BY <2>8 DEF Approve, TypeInv, TypeOK
  <2>9. ASSUME NEW b \in Batches, ProviderEnds(b) \/ WindowElapses(b) PROVE message'[e] = "approved"
    BY <2>2, <2>9 DEF ProviderEnds, WindowElapses
  <2>10. ASSUME UNCHANGED vars PROVE message'[e] = "approved"
    BY <2>2, <2>10 DEF vars
  <2> QED BY <2>4, <2>5, <2>6, <2>7, <2>8, <2>9, <2>10 DEF Next
<1> HIDE DEF Kept
<1>2. Spec => [][Kept]_vars
  BY <1>1, SoloInvariant, PTL DEF Spec
<1> QED BY <1>2 DEF Kept, ApprovedDraftKept
=============================================================================
