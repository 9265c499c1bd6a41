---------------------------- MODULE NightlyProofs ----------------------------
(***************************************************************************)
(* Proofs about Nightly for every number of workers, senders, runs, pages  *)
(* and advisors.                                                           *)
(***************************************************************************)
EXTENDS Nightly, TLAPS, FiniteSetTheorems

\* Before the scores are committed.
Working ==
    {"open", "pull", "reopen", "page", "stored", "score", "scoring", "markpull", "failing", "markrun"}

\* A worker at work knows its run, one that has stored a page was within its
\* limit, and whoever mails mails one digest.
HoldInv ==
    \A p \in Procs :
        /\ pc[p] \in WorkerPCs => p \in Workers
        /\ p \in Workers /\ pc[p] # "idle" => wrun[p] \in Runs
        /\ pc[p] = "stored" => wleft[p] > 0
        /\ pc[p] \in MailPCs => \E d \in Digests : wdigest[p] = {d}

TypeInv == TypeOK /\ HoldInv

\* Two workers on one run share it.
ShareInv ==
    \A p, q \in Workers : p # q /\ wrun[p] = wrun[q] /\ wrun[p] \in Runs => wrun[p] \in shared

\* A cursor c and a count n of run r agree.
Agrees(r, c, n) == IF c <= LastPage THEN n = c ELSE r \in shared \/ n = LastPage

\* The counts of a worker agree with its own cursor; alone on its run, it knows
\* the run's cursor.
WorkerCounts ==
    \A p \in Workers : pc[p] \in {"reopen", "page", "stored"} =>
        /\ Agrees(wrun[p], wafter[p], wseen[p])
        /\ wrun[p] \notin shared => wafter[p] = cursor[wrun[p]]

\* No page after the cursor has rejects.
RejectsBehind ==
    \A r \in Runs \ shared : \A k \in Pages : k > cursor[r] => rejects[r][k] = 0

CountInv == ShareInv /\ WorkerCounts /\ CountsMatchCursor /\ RejectsOnce /\ RejectsBehind

\* A digest belongs to a completed run; a worker alone on its run has not
\* completed it before it commits.
DigestInv ==
    /\ \A d \in built : risk[d[1]] = "completed" \/ d[1] \in shared
    /\ \A p \in Workers : pc[p] \in Working /\ wrun[p] \notin shared => risk[wrun[p]] # "completed"

\* A worker alone on its run found no snapshots of it.
SnapInv ==
    /\ \A r \in Runs \ shared : snap[r] => risk[r] = "completed"
    /\ \A p \in Workers : pc[p] = "scoring" /\ wrun[p] \notin shared => ~wsnap[p]

InPull == {"reopen", "page", "stored", "markpull"}

\* A worker alone on its run has not completed the pull it is in, and a pull that
\* was never opened has no place in the order.
PullInv ==
    /\ \A p \in Workers :
          pc[p] \in InPull /\ wrun[p] \notin shared => pull[wrun[p]] # "completed"
    /\ \A r \in Runs : pull[r] = "none" => pulledAt[r] = 0

\* Somebody will still read the staged pages of r.
Needed(r) == risk[r] # "completed" \/ \E p \in Workers : pc[p] \in Working /\ wrun[p] = r

\* The pages up to c are staged, unless they were deleted too early or never pulled.
Staged(r, c) == r \in pruned \cup capped \/ \A k \in Pages : k <= c => k \in raw[r]

RunStaged(r) ==
    Needed(r) => Staged(r, cursor[r]) /\ (pull[r] = "completed" => Staged(r, LastPage))

WorkerStaged(p) ==
    /\ pc[p] \in {"reopen", "page"} => Staged(wrun[p], wafter[p])
    /\ pc[p] = "stored" => Staged(wrun[p], NextPage(p))
    /\ pc[p] \in {"score", "scoring"} => Staged(wrun[p], LastPage)
    /\ pc[p] = "scoring" => wrun[p] \in pruned \cup capped \/ wpages[p] = Pages

\* What a run or one of its workers has passed is staged, as long as it is read again.
StagedInv == (\A r \in Runs : RunStaged(r)) /\ (\A p \in Workers : WorkerStaged(p))

Mailing(p) == pc[p] \in {"mailing", "marking"}

\* Two processes that mail one digest have resent it.
Alone ==
    \A p, q \in Procs : p # q /\ Mailing(p) /\ Mailing(q) /\ wdigest[p] = wdigest[q] => wdigest[p] \subseteq resent

\* Who mails a digest alone knows every marker of it.
KnowsMarkers ==
    \A p \in Procs : Mailing(p) =>
        \A d \in wdigest[p] \ resent : \A a \in Advisors : <<d, a>> \in marker => a \in wdone[p]

\* The one advisor just mailed is not done with.
MarkingOne ==
    \A p \in Procs : pc[p] = "marking" => \E a \in Advisors \ wdone[p] : wcur[p] = {a}

\* The email of digest d to a is out and has its marker or is about to get it.
OutOnce(d, a) ==
    mailed[d][a] = 1 /\ (<<d, a>> \in marker \/ \E p \in Procs : pc[p] = "marking" /\ d \in wdigest[p] /\ a \in wcur[p])

Accounted ==
    \A d \in Digests, a \in Advisors :
        d \in resent \/ <<d, a>> \in broken \/ mailed[d][a] = 0 \/ OutOnce(d, a)

MailInv == Alone /\ KnowsMarkers /\ MarkingOne /\ Accounted

-----------------------------------------------------------------------------
\* Runs are finite in number, so they can be counted.
LEMMA CountRuns ==
    ASSUME NEW S \in SUBSET Runs
    PROVE  IsFiniteSet(S) /\ Cardinality(S) \in Nat /\ (Cardinality(S) = 0 <=> S = {})
<1>1. IsFiniteSet(Runs)
  BY NightlyAssumption, FS_Interval DEF Runs
<1>2. IsFiniteSet(S)
  BY <1>1, FS_Subset
<1> QED BY <1>2, FS_CardinalityType, FS_EmptySet

\* A process that leaves is well typed.
LEMMA LeaveTypes ==
    ASSUME TypeInv, NEW p \in Procs, Leave(p)
    PROVE  /\ pc' \in [Procs -> WorkerPCs \cup MailPCs \cup {"idle"}]
           /\ wrun' \in [Procs -> 0 .. Nights]
           /\ wafter' \in [Procs -> 0 .. LastPage + 1]
           /\ wknown' \in [Procs -> BOOLEAN]
           /\ wseen' \in [Procs -> Nat]
           /\ wleft' \in [Procs -> Nat]
           /\ wpages' \in [Procs -> SUBSET Pages]
           /\ wsnap' \in [Procs -> BOOLEAN]
           /\ wdigest' \in [Procs -> SUBSET Digests]
           /\ wdone' \in [Procs -> SUBSET Advisors]
           /\ wcur' \in [Procs -> SUBSET Advisors]
           /\ HoldInv'
<1> USE NightlyAssumption DEF TypeInv, TypeOK
<1>1. 0 \in 0 .. Nights /\ 0 \in 0 .. LastPage + 1
  OBVIOUS
<1>2. HoldInv'
  BY DEF Leave, Goto, HoldInv, WorkerPCs, MailPCs
<1> QED BY <1>1, <1>2 DEF Leave, Goto

\* Every action keeps the types, and a process in mid-work what it holds.
LEMMA TypeStep == TypeInv /\ [Next]_vars => TypeInv'
<1> SUFFICES ASSUME TypeInv, [Next]_vars PROVE TypeInv'
  OBVIOUS
<1> USE NightlyAssumption
    DEF pullVars, scoreVars, pageVars, mailVars, history
<1>1. ASSUME NEW p \in Procs, NEW r \in Runs, OpenRun(p, r) PROVE TypeInv'
  <2>1. r \in 0 .. Nights
    BY DEF Runs
  <2>2. shared' \subseteq Runs /\ starts' \in Nat
    BY <1>1 DEF OpenRun, TakesOn, TypeInv, TypeOK
  <2>3. HoldInv'
    BY <1>1 DEF OpenRun, TakesOn, Goto, TypeInv, TypeOK, HoldInv, WorkerPCs, MailPCs
  <2> QED BY <1>1, <2>1, <2>2, <2>3 DEF OpenRun, TakesOn, Goto, TypeInv, TypeOK, WorkerPCs, States
<1>2. ASSUME NEW p \in Procs, NEW d \in Digests, OpenSend(p, d) PROVE TypeInv'
  BY <1>2 DEF OpenSend, Goto, TypeInv, TypeOK, HoldInv, WorkerPCs, MailPCs
<1>3. ASSUME NEW p \in Procs, OpenPull(p) PROVE TypeInv'
  <2>1. wrun[p] \in Runs /\ p \in Workers
    BY <1>3 DEF OpenPull, TypeInv, HoldInv, WorkerPCs
  <2>2. CASE pull[wrun[p]] = "completed"
    <3>1. Goto(p, "score") /\ UNCHANGED <<pull, pulledAt, pageVars>>
      BY <1>3, <2>2 DEF OpenPull
    <3> QED BY <1>3, <2>1, <3>1 DEF OpenPull, Goto, TypeInv, TypeOK, HoldInv, WorkerPCs, MailPCs
  <2>3. CASE pull[wrun[p]] # "completed"
    <3>1. Cardinality({q \in Runs : pulledAt[q] # 0}) \in Nat
      BY CountRuns
    <3>2. pulledAt' \in [Runs -> Nat] /\ pull' \in [Runs -> States]
      <4>1. CASE UNCHANGED <<pull, pulledAt>>
        BY <4>1 DEF TypeInv, TypeOK
      <4>2. CASE ~UNCHANGED <<pull, pulledAt>>
        <5>1. pulledAt' = [pulledAt EXCEPT ![wrun[p]] =
                             1 + Cardinality({q \in Runs : pulledAt[q] # 0})]
          BY <1>3, <4>2 DEF OpenPull
        <5>2. PICK n \in Nat : pulledAt' = [pulledAt EXCEPT ![wrun[p]] = n]
          <6>1. 1 + Cardinality({q \in Runs : pulledAt[q] # 0}) \in Nat
            BY <3>1
          <6> QED BY <5>1, <6>1
        <5>3. pull' = [pull EXCEPT ![wrun[p]] = "running"]
          BY <1>3, <4>2 DEF OpenPull
        <5> QED BY <2>1, <5>2, <5>3 DEF TypeInv, TypeOK, States
      <4> QED BY <4>1, <4>2
    <3>3. /\ wafter' = [wafter EXCEPT ![p] = cursor[wrun[p]]]
          /\ wseen' = [wseen EXCEPT ![p] = seen[wrun[p]]]
          /\ UNCHANGED wknown
          /\ \E n \in PageLimits : wleft' = [wleft EXCEPT ![p] = n]
          /\ \E l \in {"page", "reopen"} : Goto(p, l)
      BY <1>3, <2>3 DEF OpenPull, TakeUpPull
    <3>4. cursor[wrun[p]] \in 0 .. LastPage + 1 /\ seen[wrun[p]] \in Nat
      BY <2>1 DEF TypeInv, TypeOK
    <3>5. HoldInv'
      BY <1>3, <2>1, <3>3 DEF OpenPull, Goto, TypeInv, TypeOK, HoldInv, WorkerPCs, MailPCs
    <3>6. wleft' \in [Procs -> Nat] /\ pc' \in [Procs -> WorkerPCs \cup MailPCs \cup {"idle"}]
      BY <3>3 DEF Goto, TypeInv, TypeOK, WorkerPCs
    <3> QED BY <1>3, <3>2, <3>3, <3>4, <3>5, <3>6 DEF OpenPull, TypeInv, TypeOK
  <2> QED BY <2>2, <2>3
<1>4. ASSUME NEW p \in Procs, StoreRaw(p) PROVE TypeInv'
  <2>1. wrun[p] \in Runs /\ p \in Workers
    BY <1>4 DEF StoreRaw, TypeInv, HoldInv, WorkerPCs
  <2> QED BY <1>4, <2>1 DEF StoreRaw, HasNext, Goto, TypeInv, TypeOK, HoldInv, WorkerPCs, MailPCs
<1>5. ASSUME NEW p \in Procs, ProcessPage(p) PROVE TypeInv'
  <2>1. wrun[p] \in Runs /\ p \in Workers /\ wleft[p] > 0
    BY <1>5 DEF ProcessPage, TypeInv, HoldInv, WorkerPCs
  <2>2. NextPage(p) \in 0 .. LastPage + 1
    BY DEF NextPage, TypeInv, TypeOK
  <2>3. seen' \in [Runs -> Nat] /\ wseen' \in [Procs -> Nat]
    <3>1. wseen[p] + 1 \in Nat /\ seen[wrun[p]] \in Nat
      BY <2>1 DEF TypeInv, TypeOK
    <3>2. CASE NextPage(p) \in Pages
      BY <1>5, <2>1, <3>1, <3>2 DEF ProcessPage, TypeInv, TypeOK
    <3>3. CASE NextPage(p) \notin Pages
      BY <1>5, <2>1, <3>1, <3>3 DEF ProcessPage, TypeInv, TypeOK
    <3> QED BY <3>2, <3>3
  <2>4. rejects' \in [Runs -> [Pages -> Nat]]
    <3>1. rejects[wrun[p]] \in [Pages -> Nat]
      BY <2>1 DEF TypeInv, TypeOK
    <3>2. [j \in Pages |-> IF j = NextPage(p) THEN rejects[wrun[p]][j] + 1
                           ELSE rejects[wrun[p]][j]] \in [Pages -> Nat]
      BY <3>1
    <3> QED BY <1>5, <2>1, <3>2 DEF ProcessPage, TypeInv, TypeOK
  <2>5. cursor' \in [Runs -> 0 .. LastPage + 1] /\ wafter' \in [Procs -> 0 .. LastPage + 1]
    BY <1>5, <2>1, <2>2 DEF ProcessPage, TypeInv, TypeOK
  <2>6. wleft' \in [Procs -> Nat]
    <3>1. wleft[p] - 1 \in Nat
      BY <2>1 DEF TypeInv, TypeOK
    <3> QED BY <1>5, <3>1 DEF ProcessPage, TypeInv, TypeOK
  <2>7. HoldInv'
    BY <1>5, <2>1 DEF ProcessPage, Goto, TypeInv, TypeOK, HoldInv, WorkerPCs, MailPCs
  <2> QED BY <1>5, <2>1, <2>3, <2>4, <2>5, <2>6, <2>7 DEF ProcessPage, Goto, TypeInv, TypeOK, WorkerPCs
<1>6. ASSUME NEW p \in Procs, CompletePull(p) PROVE TypeInv'
  <2>1. wrun[p] \in Runs /\ p \in Workers
    BY <1>6 DEF CompletePull, TypeInv, HoldInv, WorkerPCs
  <2>2. 0 \in 0 .. LastPage + 1
    OBVIOUS
  <2> QED BY <1>6, <2>1, <2>2
        DEF CompletePull, Goto, TypeInv, TypeOK, HoldInv, WorkerPCs, MailPCs, States
<1>7. ASSUME NEW p \in Procs, ScoreRead(p) PROVE TypeInv'
  <2>1. wrun[p] \in Runs /\ p \in Workers
    BY <1>7 DEF ScoreRead, TypeInv, HoldInv, WorkerPCs
  <2>2. raw[wrun[p]] \in SUBSET Pages /\ snap[wrun[p]] \in BOOLEAN
    BY <2>1 DEF TypeInv, TypeOK
  <2> QED BY <1>7, <2>1, <2>2 DEF ScoreRead, Goto, TypeInv, TypeOK, HoldInv, WorkerPCs, MailPCs
<1>8. ASSUME NEW p \in Procs, ScoreCommit(p) PROVE TypeInv'
  <2>1. wrun[p] \in Runs /\ p \in Workers
    BY <1>8 DEF ScoreCommit, TypeInv, HoldInv, WorkerPCs
  <2>2. <<wrun[p], p>> \in Digests
    BY <2>1 DEF Digests
  <2>3. wpages[p] \in SUBSET Pages
    BY DEF TypeInv, TypeOK
  <2>4. snap' \in [Runs -> BOOLEAN]
    BY <1>8, <2>1 DEF ScoreCommit, TypeInv, TypeOK
  <2>5. HoldInv'
    BY <1>8, <2>1, <2>2 DEF ScoreCommit, Goto, TypeInv, TypeOK, HoldInv, WorkerPCs, MailPCs
  <2>6. pc' \in [Procs -> WorkerPCs \cup MailPCs \cup {"idle"}]
    BY <1>8 DEF ScoreCommit, Goto, TypeInv, TypeOK, WorkerPCs, MailPCs
  <2>7. risk' \in [Runs -> States] /\ scored' \in [Runs -> SUBSET Pages] /\ built' \subseteq Digests
    BY <1>8, <2>1, <2>2, <2>3 DEF ScoreCommit, TypeInv, TypeOK, States
  <2> QED BY <1>8, <2>2, <2>4, <2>5, <2>6, <2>7 DEF ScoreCommit, TypeInv, TypeOK
<1>9. ASSUME NEW p \in Procs, Fail(p) \/ PassOn(p) PROVE TypeInv'
  <2>1. wrun[p] \in Runs /\ p \in Workers
    BY <1>9 DEF Fail, PassOn, TypeInv, HoldInv, WorkerPCs
  <2>2. CASE Leave(p)
    BY <1>9, <2>2, LeaveTypes DEF Fail, PassOn, TypeInv, TypeOK
  <2>3. CASE ~Leave(p)
    <3>1. 0 \in 0 .. LastPage + 1
      OBVIOUS
    <3>2. ReadRunFailed(p) /\ UNCHANGED <<pullVars, scoreVars, marker, history>>
      BY <1>9 DEF Fail, PassOn
    <3>3. /\ Goto(p, "markrun")
          /\ wafter' = [wafter EXCEPT ![p] = 0] /\ wknown' = [wknown EXCEPT ![p] = FALSE]
          /\ wseen' = [wseen EXCEPT ![p] = 0] /\ wleft' = [wleft EXCEPT ![p] = 0]
          /\ wpages' = [wpages EXCEPT ![p] = {}] /\ wsnap' = [wsnap EXCEPT ![p] = FALSE]
          /\ UNCHANGED <<wrun, mailVars>>
      BY <2>3, <3>2, ZenonT(30) DEF ReadRunFailed
    <3>4. HoldInv'
      BY <2>1, <3>3 DEF Goto, TypeInv, TypeOK, HoldInv, WorkerPCs, MailPCs
    <3> QED BY <3>1, <3>2, <3>3, <3>4 DEF Goto, TypeInv, TypeOK, WorkerPCs
  <2> QED BY <2>2, <2>3
<1>10. ASSUME NEW p \in Procs, MailRead(p) PROVE TypeInv'
  <2>1. wdigest[p] \in SUBSET Digests
    BY DEF TypeInv, TypeOK
  <2>2. resent' \subseteq Digests
    BY <1>10, <2>1 DEF MailRead, TypeInv, TypeOK
  <2> QED BY <1>10, <2>2 DEF MailRead, Goto, TypeInv, TypeOK, HoldInv, WorkerPCs, MailPCs
<1>11. ASSUME NEW p \in Procs, NEW a \in Advisors, MailSend(p, a) PROVE TypeInv'
  <2>1. mailed' \in [Digests -> [Advisors -> Nat]]
    <3>1. \A d \in Digests : mailed[d] \in [Advisors -> Nat]
      BY DEF TypeInv, TypeOK
    <3>2. \A d \in Digests : [mailed[d] EXCEPT ![a] = @ + 1] \in [Advisors -> Nat]
      BY <3>1
    <3> QED BY <1>11, <3>1, <3>2 DEF MailSend
  <2> QED BY <1>11, <2>1 DEF MailSend, Goto, TypeInv, TypeOK, HoldInv, WorkerPCs, MailPCs
<1>12. ASSUME NEW p \in Procs, MailMark(p) PROVE TypeInv'
  BY <1>12 DEF MailMark, Goto, TypeInv, TypeOK, HoldInv, WorkerPCs, MailPCs
<1>13. ASSUME NEW p \in Procs, NEW a \in Advisors, MailFail(p, a) PROVE TypeInv'
  <2>1. pc[p] \in MailPCs
    BY <1>13 DEF MailFail, MailPCs
  <2> QED BY <1>13, <2>1 DEF MailFail, Goto, TypeInv, TypeOK, HoldInv, WorkerPCs, MailPCs
<1>14. ASSUME NEW p \in Procs, MailDone(p) PROVE TypeInv'
  <2>1. CASE p \in Workers
    BY <1>14, <2>1 DEF MailDone, Goto, TypeInv, TypeOK, HoldInv, WorkerPCs, MailPCs
  <2>2. CASE p \notin Workers
    <3>1. Leave(p)
      BY <1>14, <2>2 DEF MailDone
    <3> QED BY <1>14, <3>1, LeaveTypes DEF MailDone, TypeInv, TypeOK
  <2> QED BY <2>1, <2>2
<1>15. ASSUME NEW p \in Procs, Prune(p) PROVE TypeInv'
  <2>1. Leave(p)
    BY <1>15 DEF Prune
  <2>2. raw' \in [Runs -> SUBSET Pages] /\ snap' \in [Runs -> BOOLEAN] /\ pruned' \subseteq Runs
    BY <1>15 DEF Prune, StalePulls, TypeInv, TypeOK
  <2> QED BY <1>15, <2>1, <2>2, LeaveTypes DEF Prune, TypeInv, TypeOK
<1>16. ASSUME NEW p \in Procs, Crash(p) PROVE TypeInv'
  <2>1. Leave(p)
    BY <1>16 DEF Crash
  <2>2. broken' \subseteq Digests \X Advisors
    BY <1>16 DEF Crash, TypeInv, TypeOK
  <2> QED BY <1>16, <2>1, <2>2, LeaveTypes DEF Crash, TypeInv, TypeOK
<1>17. ASSUME NEW p \in Procs, OpenCommit(p) PROVE TypeInv'
  <2>1. wrun[p] \in Runs /\ p \in Workers
    BY <1>17 DEF OpenCommit, TypeInv, HoldInv, WorkerPCs
  <2> QED BY <1>17, <2>1 DEF OpenCommit, Goto, TypeInv, TypeOK, HoldInv, WorkerPCs, MailPCs, States
<1>18. ASSUME NEW p \in Procs, ReopenPull(p) \/ MarkPull(p) PROVE TypeInv'
  <2>1. wrun[p] \in Runs /\ p \in Workers
    BY <1>18 DEF ReopenPull, MarkPull, TypeInv, HoldInv, WorkerPCs
  <2>2. /\ \E s \in States : pull' = [pull EXCEPT ![wrun[p]] = s]
        /\ \E l \in {"page", "failing"} : Goto(p, l)
        /\ UNCHANGED <<pulledAt, cursor, seen, rejects, raw, scoreVars, marker, wrun, pageVars, wpages,
                       wsnap, mailVars, history>>
    BY <1>18 DEF ReopenPull, MarkPull, States
  <2> QED BY <2>1, <2>2 DEF Goto, TypeInv, TypeOK, HoldInv, WorkerPCs, MailPCs
<1>19. ASSUME NEW p \in Procs, FailPull(p) PROVE TypeInv'
  <2>1. wrun[p] \in Runs /\ p \in Workers /\ 0 \in 0 .. LastPage + 1
    BY <1>19 DEF FailPull, TypeInv, HoldInv, WorkerPCs
  <2>2. \E l \in {"markpull", "failing"} : Goto(p, l)
    BY <1>19 DEF FailPull
  <2> QED BY <1>19, <2>1, <2>2 DEF FailPull, Goto, TypeInv, TypeOK, HoldInv, WorkerPCs, MailPCs
<1>20. ASSUME NEW p \in Procs, MarkRun(p) PROVE TypeInv'
  <2>1. wrun[p] \in Runs
    BY <1>20 DEF MarkRun, TypeInv, HoldInv, WorkerPCs
  <2>2. risk' \in [Runs -> States] /\ Leave(p)
    BY <1>20, <2>1 DEF MarkRun, TypeInv, TypeOK, States
  <2> QED BY <1>20, <2>2, LeaveTypes DEF MarkRun, TypeInv, TypeOK
<1>21. CASE UNCHANGED vars
  BY <1>21 DEF vars, TypeInv, TypeOK, HoldInv
<1> HIDE DEF TypeInv
<1> QED BY <1>1, <1>2, <1>3, <1>4, <1>5, <1>6, <1>7, <1>8, <1>9, <1>10, <1>11, <1>12, <1>13,
        <1>14, <1>15, <1>16, <1>17, <1>18, <1>19, <1>20, <1>21 DEF Next, Step

LEMMA InitTypes == Init => TypeInv
<1> USE NightlyAssumption
<1>1. 0 \in 0 .. LastPage + 1 /\ 0 \in 0 .. Nights
  OBVIOUS
<1> QED BY <1>1 DEF Init, TypeInv, TypeOK, HoldInv, States, WorkerPCs, MailPCs

\* Nightly is type correct.
THEOREM NightlyTypes == Spec => []TypeOK
<1>1. TypeInv => TypeOK
  BY DEF TypeInv
<1> QED BY <1>1, InitTypes, TypeStep, PTL DEF Spec

-----------------------------------------------------------------------------
\* Counters, cursors and rejects.
LEMMA CountStep == TypeInv /\ CountInv /\ [Next]_vars => CountInv'
<1> SUFFICES ASSUME TypeInv, CountInv, [Next]_vars PROVE CountInv'
  OBVIOUS
<1> USE NightlyAssumption
\* A process goes somewhere else than to the pages.
<1>1. ASSUME NEW p \in Procs, NEW l \in WorkerPCs \cup MailPCs, Goto(p, l), l \notin {"reopen", "page", "stored"},
             UNCHANGED <<wrun, cursor, seen, rejects, shared>>,
             \A q \in Procs \ {p} : wafter'[q] = wafter[q] /\ wseen'[q] = wseen[q]
      PROVE  CountInv'
  <2>1. ShareInv' /\ CountsMatchCursor' /\ RejectsOnce' /\ RejectsBehind'
    BY <1>1 DEF CountInv, ShareInv, CountsMatchCursor, RejectsOnce, RejectsBehind
  <2>2. WorkerCounts'
    BY <1>1 DEF CountInv, WorkerCounts, Agrees, Goto, TypeInv, TypeOK, Procs
  <2> QED BY <2>1, <2>2 DEF CountInv
<1>2. ASSUME NEW p \in Procs, Leave(p), UNCHANGED <<cursor, seen, rejects, shared>>
      PROVE  CountInv'
  <2>1. CountsMatchCursor' /\ RejectsOnce' /\ RejectsBehind'
    BY <1>2 DEF CountInv, CountsMatchCursor, RejectsOnce, RejectsBehind
  <2>2. ShareInv'
    BY <1>2 DEF CountInv, ShareInv, Leave, TypeInv, TypeOK, Procs, Runs
  <2>3. WorkerCounts'
    BY <1>2 DEF CountInv, WorkerCounts, Agrees, Leave, Goto, TypeInv, TypeOK, Procs
  <2> QED BY <2>1, <2>2, <2>3 DEF CountInv
<1>3. ASSUME NEW p \in Procs, NEW r \in Runs, OpenRun(p, r) PROVE CountInv'
  <2>1. shared \subseteq shared' /\ UNCHANGED <<cursor, seen, rejects, wafter, wseen>>
    BY <1>3 DEF OpenRun, TakesOn, pullVars, pageVars
  <2>2. CountsMatchCursor' /\ RejectsOnce' /\ RejectsBehind'
    BY <2>1 DEF CountInv, CountsMatchCursor, RejectsOnce, RejectsBehind
  <2>3. ShareInv'
    BY <1>3 DEF OpenRun, TakesOn, CountInv, ShareInv, TypeInv, TypeOK, Procs
  <2>4. WorkerCounts'
    BY <1>3, <2>1 DEF OpenRun, TakesOn, Goto, CountInv, WorkerCounts, Agrees, TypeInv, TypeOK, Procs
  <2> QED BY <2>2, <2>3, <2>4 DEF CountInv
<1>4. ASSUME NEW p \in Procs, OpenPull(p) PROVE CountInv'
  <2>1. wrun[p] \in Runs /\ p \in Workers
    BY <1>4 DEF OpenPull, TypeInv, HoldInv, WorkerPCs
  <2>2. CASE pull[wrun[p]] = "completed"
    <3>1. Goto(p, "score") /\ UNCHANGED <<wrun, cursor, seen, rejects, shared, wafter, wseen>>
      BY <1>4, <2>2 DEF OpenPull, pageVars, history
    <3> QED BY <1>1, <3>1 DEF WorkerPCs
  <2>3. CASE pull[wrun[p]] # "completed"
    <3>1. /\ wafter' = [wafter EXCEPT ![p] = cursor[wrun[p]]]
          /\ wseen' = [wseen EXCEPT ![p] = seen[wrun[p]]]
          /\ \E l \in {"page", "reopen"} : Goto(p, l)
          /\ UNCHANGED <<wrun, cursor, seen, rejects, shared>>
      BY <1>4, <2>3 DEF OpenPull, TakeUpPull, history
    <3>2. ShareInv' /\ CountsMatchCursor' /\ RejectsOnce' /\ RejectsBehind'
      BY <3>1 DEF CountInv, ShareInv, CountsMatchCursor, RejectsOnce, RejectsBehind
    <3>3. Agrees(wrun[p], cursor[wrun[p]], seen[wrun[p]])
      BY <2>1 DEF CountInv, CountsMatchCursor, Agrees
    <3>4. WorkerCounts'
      BY <2>1, <3>1, <3>3 DEF CountInv, WorkerCounts, Agrees, Goto, TypeInv, TypeOK, Procs
    <3> QED BY <3>2, <3>4 DEF CountInv
  <2> QED BY <2>2, <2>3
<1>5. ASSUME NEW p \in Procs, StoreRaw(p) \/ ReopenPull(p) PROVE CountInv'
  <2>1. /\ UNCHANGED <<wrun, cursor, seen, rejects, shared, wafter, wseen>>
        /\ pc[p] \in {"reopen", "page"} /\ \E l \in {"page", "stored"} : Goto(p, l)
    BY <1>5 DEF StoreRaw, ReopenPull, pageVars, history
  <2>2. ShareInv' /\ CountsMatchCursor' /\ RejectsOnce' /\ RejectsBehind'
    BY <2>1 DEF CountInv, ShareInv, CountsMatchCursor, RejectsOnce, RejectsBehind
  <2>3. WorkerCounts'
    BY <2>1 DEF CountInv, WorkerCounts, Agrees, Goto, TypeInv, TypeOK, Procs
  <2> QED BY <2>2, <2>3 DEF CountInv
<1>6. ASSUME NEW p \in Procs, ProcessPage(p) PROVE CountInv'
  <2> DEFINE r == wrun[p]
             k == NextPage(p)
  <2>1. r \in Runs /\ p \in Workers
    BY <1>6 DEF ProcessPage, TypeInv, HoldInv, WorkerPCs
  <2>2. /\ wafter[p] \in 0 .. LastPage + 1 /\ wseen[p] \in Nat
        /\ cursor[r] \in 0 .. LastPage + 1 /\ seen[r] \in Nat
    BY <2>1 DEF TypeInv, TypeOK
  <2>3. Agrees(r, wafter[p], wseen[p]) /\ (r \notin shared => wafter[p] = cursor[r])
    BY <1>6, <2>1 DEF ProcessPage, CountInv, WorkerCounts
  <2>4. Agrees(r, cursor[r], seen[r])
    BY <2>1 DEF CountInv, CountsMatchCursor, Agrees
  <2>5. k \in 0 .. LastPage + 1 /\ (k \in Pages <=> wafter[p] < LastPage)
        /\ (k \in Pages => k = wafter[p] + 1) /\ (k \notin Pages => k = LastPage + 1)
        /\ k >= wafter[p]
    BY <2>2 DEF NextPage, Pages
  <2>6. /\ wafter' = [wafter EXCEPT ![p] = k]
        /\ cursor' = [cursor EXCEPT ![r] = k]
        /\ Goto(p, "page")
        /\ UNCHANGED <<wrun, shared>>
    BY <1>6 DEF ProcessPage, history
  <2>7. /\ wseen' = [wseen EXCEPT ![p] = IF k \in Pages THEN wseen[p] + 1 ELSE wseen[p]]
        /\ seen' = [seen EXCEPT ![r] = IF k \in Pages THEN wseen[p] + 1 ELSE seen[r]]
    BY <1>6 DEF ProcessPage
  <2>8. /\ cursor'[r] = k /\ \A q \in Runs \ {r} : cursor'[q] = cursor[q]
        /\ seen'[r] = (IF k \in Pages THEN wseen[p] + 1 ELSE seen[r])
        /\ \A q \in Runs \ {r} : seen'[q] = seen[q]
        /\ wafter'[p] = k /\ wseen'[p] = (IF k \in Pages THEN wseen[p] + 1 ELSE wseen[p])
        /\ \A q \in Procs \ {p} : wafter'[q] = wafter[q] /\ wseen'[q] = wseen[q]
    BY <2>1, <2>6, <2>7 DEF TypeInv, TypeOK
  <2>9. Agrees(r, k, seen'[r]) /\ Agrees(r, k, wseen'[p])
    <3> HIDE DEF k, r
    <3>1. CASE k \in Pages
      <4>1. wseen[p] = wafter[p]
        BY <2>2, <2>3, <2>5, <3>1 DEF Agrees
      <4>2. seen'[r] = k /\ wseen'[p] = k /\ k <= LastPage
        BY <2>2, <2>5, <2>8, <3>1, <4>1
      <4> QED BY <4>2 DEF Agrees
    <3>2. CASE k \notin Pages
      <4>1. seen'[r] = seen[r] /\ wseen'[p] = wseen[p] /\ ~(k <= LastPage)
        BY <2>2, <2>5, <2>8, <3>2
      <4>2. r \in shared \/ wseen[p] = LastPage
        BY <2>2, <2>3, <2>5, <3>2 DEF Agrees
      <4>3. r \in shared \/ seen[r] = LastPage
        BY <2>2, <2>3, <2>4, <2>5, <3>2 DEF Agrees
      <4> QED BY <4>1, <4>2, <4>3 DEF Agrees
    <3> QED BY <3>1, <3>2
  <2>10. CountsMatchCursor'
    BY <2>6, <2>8, <2>9 DEF CountInv, CountsMatchCursor, Agrees
  <2>11. ShareInv'
    BY <2>6 DEF CountInv, ShareInv
  <2>12. WorkerCounts'
    <3> SUFFICES ASSUME NEW q \in Workers, pc'[q] \in {"reopen", "page", "stored"}
                 PROVE  Agrees(wrun[q], wafter'[q], wseen'[q])
                        /\ (wrun[q] \notin shared => wafter'[q] = cursor'[wrun[q]])
      BY <2>6 DEF WorkerCounts, Agrees
    <3>1. CASE q = p
      BY <2>8, <2>9, <3>1
    <3>2. CASE q # p
      <4>1. q \in Procs /\ pc[q] \in {"reopen", "page", "stored"}
        BY <2>6, <3>2 DEF Goto, TypeInv, TypeOK, Procs
      <4>2. wrun[q] \in Runs
        BY <4>1 DEF TypeInv, HoldInv
      <4>3. wrun[q] \notin shared => wrun[q] # r
        BY <2>1, <3>2 DEF CountInv, ShareInv
      <4> QED BY <2>8, <3>2, <4>1, <4>2, <4>3 DEF CountInv, WorkerCounts
    <3> QED BY <3>1, <3>2
  <2>13. /\ \A q \in Runs \ {r} : rejects'[q] = rejects[q]
         /\ \A j \in Pages : rejects'[r][j] = IF j = k THEN rejects[r][j] + 1 ELSE rejects[r][j]
    BY <1>6, <2>1 DEF ProcessPage, TypeInv, TypeOK
  <2>14. r \notin shared => \A j \in Pages :
            rejects[r][j] \in Nat /\ rejects[r][j] <= 1 /\ (j > wafter[p] => rejects[r][j] = 0)
    BY <2>1, <2>3 DEF CountInv, RejectsOnce, RejectsBehind, TypeInv, TypeOK
  <2>15. r \notin shared => \A j \in Pages :
            rejects'[r][j] <= 1 /\ (j > k => rejects'[r][j] = 0)
    <3> SUFFICES ASSUME r \notin shared, NEW j \in Pages
                 PROVE  rejects'[r][j] <= 1 /\ (j > k => rejects'[r][j] = 0)
      OBVIOUS
    <3>1. j \in Nat /\ rejects[r][j] \in Nat
      BY <2>14 DEF Pages
    <3>2. CASE j = k
      BY <2>2, <2>5, <2>13, <2>14, <3>1, <3>2
    <3>3. CASE j # k
      <4>1. j > k => j > wafter[p]
        BY <2>2, <2>5, <3>1 DEF Pages
      <4> QED BY <2>13, <2>14, <3>3, <4>1
    <3> QED BY <3>2, <3>3
  <2>16. RejectsOnce' /\ RejectsBehind'
    BY <2>6, <2>8, <2>13, <2>15 DEF CountInv, RejectsOnce, RejectsBehind
  <2> QED BY <2>10, <2>11, <2>12, <2>16 DEF CountInv
<1>7. ASSUME NEW p \in Procs, CompletePull(p) PROVE CountInv'
  <2>1. /\ Goto(p, "score") /\ UNCHANGED <<wrun, cursor, seen, rejects, shared>>
        /\ \A q \in Procs \ {p} : wafter'[q] = wafter[q] /\ wseen'[q] = wseen[q]
    BY <1>7 DEF CompletePull, history, TypeInv, TypeOK
  <2> QED BY <1>1, <2>1 DEF WorkerPCs
<1>8. ASSUME NEW p \in Procs,
             OpenCommit(p) \/ MarkPull(p) \/ ScoreRead(p) \/ ScoreCommit(p) \/ MailRead(p) \/ MailMark(p)
             \/ (\E d \in Digests : OpenSend(p, d)) \/ (\E a \in Advisors : MailSend(p, a) \/ MailFail(p, a))
      PROVE  CountInv'
  <2>1. /\ UNCHANGED <<wrun, cursor, seen, rejects, shared, wafter, wseen>>
        /\ \E l \in WorkerPCs \cup MailPCs : Goto(p, l) /\ l \notin {"reopen", "page", "stored"}
    BY <1>8 DEF OpenCommit, MarkPull, ScoreRead, ScoreCommit, MailRead, MailMark, OpenSend, MailSend, MailFail, pullVars,
        pageVars, history, WorkerPCs, MailPCs
  <2> QED BY <1>1, <2>1
<1>9. ASSUME NEW p \in Procs, MarkRun(p) \/ Prune(p) \/ Crash(p) PROVE CountInv'
  <2>1. Leave(p) /\ UNCHANGED <<cursor, seen, rejects, shared>>
    BY <1>9 DEF MarkRun, Prune, Crash, pullVars, history
  <2> QED BY <1>2, <2>1
<1>10. ASSUME NEW p \in Procs, MailDone(p) PROVE CountInv'
  <2>1. CASE p \in Workers
    <3>1. Goto(p, "prune") /\ UNCHANGED <<wrun, cursor, seen, rejects, shared, wafter, wseen>>
      BY <1>10, <2>1 DEF MailDone, pullVars, pageVars, history
    <3> QED BY <1>1, <3>1 DEF WorkerPCs
  <2>2. CASE p \notin Workers
    <3>1. Leave(p) /\ UNCHANGED <<cursor, seen, rejects, shared>>
      BY <1>10, <2>2 DEF MailDone, pullVars, history
    <3> QED BY <1>2, <3>1
  <2> QED BY <2>1, <2>2
<1>11. ASSUME NEW p \in Procs, FailPull(p) PROVE CountInv'
  <2>1. /\ \E l \in {"markpull", "failing"} : Goto(p, l)
        /\ UNCHANGED <<wrun, cursor, seen, rejects, shared>>
        /\ \A q \in Procs \ {p} : wafter'[q] = wafter[q] /\ wseen'[q] = wseen[q]
    BY <1>11 DEF FailPull, pullVars, history, TypeInv, TypeOK
  <2> QED BY <1>1, <2>1 DEF WorkerPCs
<1>12. ASSUME NEW p \in Procs, Fail(p) \/ PassOn(p) PROVE CountInv'
  <2>1. ReadRunFailed(p) /\ UNCHANGED <<cursor, seen, rejects, shared>>
    BY <1>12 DEF Fail, PassOn, pullVars, history
  <2>2. CASE Leave(p)
    BY <1>2, <2>1, <2>2
  <2>3. CASE ~Leave(p)
    <3>1. /\ Goto(p, "markrun") /\ UNCHANGED wrun
          /\ wafter' = [wafter EXCEPT ![p] = 0] /\ wseen' = [wseen EXCEPT ![p] = 0]
      BY <2>1, <2>3, ZenonT(30) DEF ReadRunFailed
    <3>2. \A q \in Procs \ {p} : wafter'[q] = wafter[q] /\ wseen'[q] = wseen[q]
      BY <3>1 DEF TypeInv, TypeOK
    <3> QED BY <1>1, <2>1, <3>1, <3>2 DEF WorkerPCs
  <2> QED BY <2>2, <2>3
<1>13. CASE UNCHANGED vars
  BY <1>13 DEF vars, pullVars, pageVars, history, CountInv, ShareInv, WorkerCounts, Agrees,
      CountsMatchCursor, RejectsOnce, RejectsBehind
<1> HIDE DEF CountInv
<1> QED BY <1>3, <1>4, <1>5, <1>6, <1>7, <1>8, <1>9, <1>10, <1>11, <1>12, <1>13 DEF Next, Step

LEMMA InitCounts == Init => CountInv
BY NightlyAssumption DEF Init, CountInv, ShareInv, WorkerCounts, CountsMatchCursor, RejectsOnce,
   RejectsBehind, Runs, Pages, Procs

\* The counters of a pull agree with its cursor, however many workers there are.
THEOREM CountersFollowCursor == Spec => []CountsMatchCursor
<1>1. CountInv => CountsMatchCursor
  BY DEF CountInv
<1> QED BY <1>1, InitTypes, InitCounts, TypeStep, CountStep, PTL DEF Spec

\* A page's rejects are stored once unless its run is shared.
THEOREM RejectsStoredOnce == Spec => []RejectsOnce
<1>1. CountInv => RejectsOnce
  BY DEF CountInv
<1> QED BY <1>1, InitTypes, InitCounts, TypeStep, CountStep, PTL DEF Spec

-----------------------------------------------------------------------------
\* Digests, snapshots and the completion of runs.
LEMMA DigestStep ==
    TypeInv /\ CountInv /\ DigestInv /\ SnapInv /\ OneDigest /\ [Next]_vars
        => /\ DigestInv' /\ SnapInv' /\ OneDigest'
           /\ \A r \in Runs \ shared : risk[r] = "completed" => risk'[r] = "completed"
<1> DEFINE Good == /\ DigestInv' /\ SnapInv' /\ OneDigest'
                   /\ \A r \in Runs \ shared : risk[r] = "completed" => risk'[r] = "completed"
<1> SUFFICES ASSUME TypeInv, CountInv, DigestInv, SnapInv, OneDigest, [Next]_vars
             PROVE  Good
  OBVIOUS
<1> USE NightlyAssumption
<1>a. \A d \in built : d[1] \in Runs
  BY DEF TypeInv, TypeOK, Digests
<1>b. \A q \in Workers : q \in Procs /\ (pc[q] \in Working => wrun[q] \in Runs)
  BY DEF Procs, TypeInv, HoldInv, Working, WorkerPCs
\* No run completes, no worker begins and nobody comes to score.
<1>1. ASSUME UNCHANGED <<built, risk>>, shared \subseteq shared',
             \A r \in Runs : snap'[r] => snap[r],
             \A q \in Workers : pc'[q] \in Working => pc[q] \in Working /\ wrun'[q] = wrun[q],
             \A q \in Workers : pc'[q] = "scoring" => pc[q] = "scoring" /\ wsnap'[q] = wsnap[q]
      PROVE  Good
  <2>1. DigestInv' /\ OneDigest'
    BY <1>1, <1>a, <1>b DEF DigestInv, OneDigest
  <2>2. SnapInv'
    BY <1>1, <1>a, <1>b DEF SnapInv, Working
  <2> QED BY <1>1, <2>1, <2>2
\* Somebody who works on run r sets it running or failed.
<1>2. ASSUME NEW p \in Workers, NEW r \in Runs, pc[p] \in Working, wrun[p] = r,
             NEW s \in States \ {"completed"}, risk' = [risk EXCEPT ![r] = s],
             UNCHANGED <<built, snap, shared>>,
             \A q \in Workers : pc'[q] \in Working => pc[q] \in Working /\ wrun'[q] = wrun[q],
             \A q \in Workers : pc'[q] = "scoring" => pc[q] = "scoring" /\ wsnap'[q] = wsnap[q]
      PROVE  Good
  <2>1. r \in shared \/ risk[r] # "completed"
    BY <1>2 DEF DigestInv
  <2>2. \A q \in Runs : risk'[q] = IF q = r THEN s ELSE risk[q]
    BY <1>2 DEF TypeInv, TypeOK
  <2>3. \A q \in Runs \ shared : risk'[q] = "completed" <=> risk[q] = "completed"
    BY <1>2, <2>1, <2>2
  <2>4. DigestInv' /\ OneDigest'
    BY <1>2, <2>3, <1>a, <1>b DEF DigestInv, OneDigest
  <2>5. SnapInv'
    BY <1>2, <2>3, <1>b DEF SnapInv, Working
  <2> QED BY <2>3, <2>4, <2>5
<1>3. ASSUME NEW p \in Procs, NEW r \in Runs, OpenRun(p, r) PROVE Good
  <2>1. /\ p \in Workers /\ UNCHANGED <<built, snap, wsnap>> /\ shared \subseteq shared'
        /\ risk[r] # "completed" /\ wrun' = [wrun EXCEPT ![p] = r]
        /\ risk' = risk \/ risk' = [risk EXCEPT ![r] = "running"]
        /\ \E l \in {"open", "pull"} : Goto(p, l)
    BY <1>3 DEF OpenRun, TakesOn
  <2>2. \A q \in Runs : risk'[q] = "completed" <=> risk[q] = "completed"
    BY <2>1 DEF TypeInv, TypeOK
  <2>3. \A q \in Workers : IF q = p THEN wrun'[q] = r /\ pc'[q] # "scoring"
                           ELSE pc'[q] = pc[q] /\ wrun'[q] = wrun[q]
    BY <1>b, <2>1 DEF Goto, TypeInv, TypeOK
  <2>4. \A d \in built' : risk'[d[1]] = "completed" \/ d[1] \in shared'
    BY <1>a, <2>1, <2>2 DEF DigestInv
  <2>5. ASSUME NEW q \in Workers, pc'[q] \in Working, wrun'[q] \notin shared'
        PROVE  risk'[wrun'[q]] # "completed"
    BY <1>b, <2>1, <2>2, <2>3, <2>5 DEF DigestInv
  <2>6. SnapInv'
    BY <1>b, <2>1, <2>2, <2>3 DEF SnapInv, Working
  <2>7. OneDigest'
    BY <2>1 DEF OneDigest
  <2> QED BY <2>2, <2>4, <2>5, <2>6, <2>7 DEF DigestInv
<1>4. ASSUME NEW p \in Procs, OpenCommit(p) \/ MarkRun(p) PROVE Good
  <2>1. wrun[p] \in Runs /\ p \in Workers /\ pc[p] \in Working
    BY <1>4 DEF OpenCommit, MarkRun, TypeInv, HoldInv, WorkerPCs, Working
  <2>2. /\ \E s \in States \ {"completed"} : risk' = [risk EXCEPT ![wrun[p]] = s]
        /\ UNCHANGED <<built, snap, shared>>
    BY <1>4 DEF OpenCommit, MarkRun, history, States
  <2>3. \A q \in Workers : /\ pc'[q] \in Working => pc[q] \in Working /\ wrun'[q] = wrun[q]
                           /\ pc'[q] = "scoring" => pc[q] = "scoring" /\ wsnap'[q] = wsnap[q]
    BY <1>4, <1>b, <2>1 DEF OpenCommit, MarkRun, Leave, Goto, Working, TypeInv, TypeOK
  <2> QED BY <1>2, <2>1, <2>2, <2>3
<1>5. ASSUME NEW p \in Procs, ScoreRead(p) PROVE Good
  <2>1. wrun[p] \in Runs /\ p \in Workers /\ pc[p] \in Working
    BY <1>5 DEF ScoreRead, TypeInv, HoldInv, WorkerPCs, Working
  <2>2. /\ UNCHANGED <<built, shared, risk, snap, wrun>>
        /\ wsnap' = [wsnap EXCEPT ![p] = snap[wrun[p]]] /\ Goto(p, "scoring")
    BY <1>5 DEF ScoreRead, scoreVars, history
  <2>3. \A q \in Workers : /\ pc'[q] \in Working => pc[q] \in Working
                           /\ q # p => pc'[q] = pc[q] /\ wsnap'[q] = wsnap[q]
    BY <1>b, <2>1, <2>2 DEF Goto, TypeInv, TypeOK
  <2>4. DigestInv' /\ OneDigest'
    BY <2>2, <2>3 DEF DigestInv, OneDigest
  <2>5. wrun[p] \notin shared => ~snap[wrun[p]]
    BY <2>1 DEF DigestInv, SnapInv
  <2>6. wsnap'[p] = snap[wrun[p]]
    BY <1>b, <2>1, <2>2 DEF TypeInv, TypeOK
  <2>7. SnapInv'
    BY <2>2, <2>3, <2>5, <2>6 DEF SnapInv
  <2> QED BY <2>2, <2>4, <2>7
<1>6. ASSUME NEW p \in Procs, ScoreCommit(p) PROVE Good
  <2>1. wrun[p] \in Runs /\ p \in Workers /\ pc[p] \in Working
    BY <1>6 DEF ScoreCommit, TypeInv, HoldInv, WorkerPCs, Working
  <2>2. /\ built' = built \cup {<<wrun[p], p>>} /\ UNCHANGED <<shared, wrun>>
        /\ risk' = [risk EXCEPT ![wrun[p]] = "completed"]
        /\ \E l \in {"prune", "mail"} : Goto(p, l)
        /\ wsnap' = [wsnap EXCEPT ![p] = FALSE]
        /\ \E b \in BOOLEAN : snap' = [snap EXCEPT ![wrun[p]] = b]
    BY <1>6 DEF ScoreCommit, TypeInv, TypeOK
  <2>3. \A r \in Runs : /\ risk'[r] = IF r = wrun[p] THEN "completed" ELSE risk[r]
                        /\ r # wrun[p] => snap'[r] = snap[r]
    BY <2>2 DEF TypeInv, TypeOK
  <2>4. \A d \in built' : risk'[d[1]] = "completed" \/ d[1] \in shared'
    BY <1>a, <2>1, <2>2, <2>3 DEF DigestInv
  <2>5. \A q \in Workers : pc'[q] \in Working => q # p /\ pc[q] = pc'[q] /\ wsnap'[q] = wsnap[q]
    BY <1>b, <2>1, <2>2 DEF Goto, TypeInv, TypeOK, Working
  <2>6. ASSUME NEW q \in Workers, pc'[q] \in Working, wrun[q] \notin shared
        PROVE  risk'[wrun[q]] # "completed"
    <3>1. q # p /\ pc[q] \in Working
      BY <2>5, <2>6
    <3>2. wrun[q] # wrun[p]
      BY <2>1, <2>6, <3>1 DEF CountInv, ShareInv
    <3> QED BY <1>b, <2>3, <2>6, <3>1, <3>2 DEF DigestInv
  <2>7. \A d \in built : d[1] = wrun[p] => wrun[p] \in shared
    BY <2>1 DEF DigestInv
  <2>8. OneDigest'
    BY <2>2, <2>7 DEF OneDigest
  <2>9. SnapInv'
    BY <2>2, <2>3, <2>5 DEF SnapInv, Working
  <2> QED BY <2>2, <2>3, <2>4, <2>6, <2>8, <2>9 DEF DigestInv
<1>7. ASSUME NEW p \in Procs,
             OpenPull(p) \/ ReopenPull(p) \/ StoreRaw(p) \/ ProcessPage(p) \/ CompletePull(p)
             \/ FailPull(p) \/ MarkPull(p)
             \/ MailRead(p) \/ MailMark(p) \/ (\E d \in Digests : OpenSend(p, d))
             \/ (\E a \in Advisors : MailSend(p, a) \/ MailFail(p, a))
      PROVE  Good
  <2>1. /\ UNCHANGED <<built, shared, risk, snap, wrun, wsnap>>
        /\ \E l \in WorkerPCs \cup MailPCs :
              Goto(p, l) /\ (l \in Working => pc[p] \in Working) /\ l # "scoring"
    BY <1>7 DEF OpenPull, ReopenPull, StoreRaw, ProcessPage, CompletePull, FailPull, MarkPull, MailRead,
        MailMark, OpenSend, MailSend, MailFail, scoreVars, history, Working, WorkerPCs, MailPCs
  <2>2. \A q \in Workers : /\ pc'[q] \in Working => pc[q] \in Working
                           /\ pc'[q] = "scoring" => pc[q] = "scoring"
    BY <1>b, <2>1 DEF Goto, TypeInv, TypeOK
  <2> QED BY <1>1, <2>1, <2>2
<1>8. ASSUME NEW p \in Procs, MailDone(p) \/ Prune(p) \/ Crash(p) PROVE Good
  <2>1. /\ UNCHANGED <<built, shared, risk>>
        /\ \A r \in Runs : snap'[r] => snap[r]
        /\ Leave(p) \/ (Goto(p, "prune") /\ UNCHANGED <<wrun, wsnap>>)
    BY <1>8 DEF MailDone, Prune, Crash, scoreVars, history
  <2>2. \A q \in Workers : /\ pc'[q] \in Working => pc[q] \in Working /\ wrun'[q] = wrun[q]
                           /\ pc'[q] = "scoring" => pc[q] = "scoring" /\ wsnap'[q] = wsnap[q]
    BY <1>b, <2>1 DEF Leave, Goto, Working, TypeInv, TypeOK
  <2> QED BY <1>1, <2>1, <2>2
<1>9. ASSUME NEW p \in Procs, Fail(p) \/ PassOn(p) PROVE Good
  <2>1. /\ ReadRunFailed(p) /\ UNCHANGED <<built, shared, risk, snap>> /\ pc[p] \in Working
    BY <1>9 DEF Fail, PassOn, scoreVars, history, Working
  <2>2. Leave(p) \/ (Goto(p, "markrun") /\ UNCHANGED wrun /\ wsnap' = [wsnap EXCEPT ![p] = FALSE])
    BY <2>1, ZenonT(30) DEF ReadRunFailed
  <2>3. \A q \in Workers : /\ pc'[q] \in Working => pc[q] \in Working /\ wrun'[q] = wrun[q]
                           /\ pc'[q] = "scoring" => pc[q] = "scoring" /\ wsnap'[q] = wsnap[q]
    BY <1>b, <2>1, <2>2 DEF Leave, Goto, Working, TypeInv, TypeOK
  <2> QED BY <1>1, <2>1, <2>3
<1>10. CASE UNCHANGED vars
  BY <1>1, <1>10 DEF vars, scoreVars, history
<1> HIDE DEF Good
<1> QED BY <1>3, <1>4, <1>5, <1>6, <1>7, <1>8, <1>9, <1>10 DEF Next, Step

LEMMA InitDigests == Init => DigestInv /\ SnapInv /\ OneDigest
BY DEF Init, DigestInv, SnapInv, OneDigest, Working, Procs

\* A run has one digest unless two workers shared it.
THEOREM DigestBuiltOnce == Spec => []OneDigest
BY InitTypes, InitCounts, InitDigests, TypeStep, CountStep, DigestStep, PTL DEF Spec

\* A run that completed is never opened or failed again, unless two workers shared
\* it: who alone works on a run holds what it read of the run's state to its write.
THEOREM CompletedRunStays == Spec => CompletedStays
<1>1. Init => TypeInv /\ CountInv /\ DigestInv /\ SnapInv /\ OneDigest
  BY InitTypes, InitCounts, InitDigests
<1>2. TypeInv /\ CountInv /\ DigestInv /\ SnapInv /\ OneDigest /\ [Next]_vars
        => [\A r \in Runs \ shared : risk[r] = "completed" => risk'[r] = "completed"]_vars
  BY DigestStep
<1> QED BY <1>1, <1>2, TypeStep, CountStep, DigestStep, PTL DEF Spec, CompletedStays

-----------------------------------------------------------------------------
\* The staged pages of a run that is not scored yet.
LEMMA StagedStep ==
    TypeInv /\ StagedInv /\ ScoredFromEveryPage /\ [Next]_vars => StagedInv' /\ ScoredFromEveryPage'
<1> SUFFICES ASSUME TypeInv, StagedInv, ScoredFromEveryPage, [Next]_vars
             PROVE  StagedInv' /\ ScoredFromEveryPage'
  OBVIOUS
<1> USE NightlyAssumption
<1> DEFINE Kept(r) == r \in pruned' \cup capped' \/ raw[r] \subseteq raw'[r]
           Same(q) == pc'[q] = pc[q] /\ wrun'[q] = wrun[q] /\ wafter'[q] = wafter[q]
                      /\ wpages'[q] = wpages[q]
           Past(q) == pc'[q] \notin {"reopen", "page", "stored", "score", "scoring"}
<1>a. \A q \in Workers : q \in Procs /\ (pc[q] \in Working => wrun[q] \in Runs)
  BY DEF Procs, TypeInv, HoldInv, Working, WorkerPCs
\* A worker that does nothing, or is past the pages.
<1>b. ASSUME NEW q \in Workers, Same(q) \/ Past(q), pruned \subseteq pruned', capped \subseteq capped',
             pc[q] \in Working => Kept(wrun[q])
      PROVE  WorkerStaged(q)'
  <2>1. CASE Past(q)
    BY <2>1 DEF WorkerStaged
  <2>2. CASE Same(q)
    BY <1>b, <2>2 DEF StagedInv, WorkerStaged, Staged, Working, NextPage
  <2> QED BY <1>b, <2>1, <2>2
\* A run whose pull and cursor stay and whose pages are kept.
<1>c. ASSUME NEW r \in Runs, Needed(r)' => Needed(r) /\ Kept(r), pruned \subseteq pruned', capped \subseteq capped',
             cursor'[r] = cursor[r], pull'[r] = "completed" => pull[r] = "completed"
      PROVE  RunStaged(r)'
  BY <1>c DEF StagedInv, RunStaged, Staged
<1>d. ASSUME pruned \subseteq pruned', capped \subseteq capped', UNCHANGED scored,
             \A r \in Runs : risk'[r] = "completed" => risk[r] = "completed"
      PROVE  ScoredFromEveryPage'
  BY <1>d DEF ScoredFromEveryPage
\* A step that leaves runs and pages alone; whoever moves is past the pages.
<1>1. ASSUME UNCHANGED <<cursor, raw, pruned, capped, scored>>,
             \A r \in Runs : risk'[r] = "completed" => risk[r] = "completed",
             \A r \in Runs : risk'[r] # "completed" => Needed(r),
             \A r \in Runs : pull'[r] = "completed" => pull[r] = "completed",
             \A q \in Workers : Same(q) \/ (Past(q) /\ (pc'[q] \in Working => pc[q] \in Working /\ wrun'[q] = wrun[q]))
      PROVE  StagedInv' /\ ScoredFromEveryPage'
  <2>1. \A r \in Runs : Needed(r)' => Needed(r)
    BY <1>1 DEF Needed
  <2>2. \A r \in Runs : RunStaged(r)'
    BY <1>1, <1>c, <2>1
  <2>3. \A q \in Workers : WorkerStaged(q)'
    BY <1>1, <1>b
  <2>4. ScoredFromEveryPage'
    BY <1>1, <1>d
  <2> QED BY <2>2, <2>3, <2>4 DEF StagedInv
<1>2. ASSUME NEW p \in Procs, NEW r \in Runs, OpenRun(p, r) PROVE StagedInv' /\ ScoredFromEveryPage'
  <2>1. /\ UNCHANGED <<cursor, pull, raw, pruned, capped, scored, wafter, wpages>>
        /\ risk[r] # "completed" /\ (risk' = risk \/ risk' = [risk EXCEPT ![r] = "running"])
        /\ wrun' = [wrun EXCEPT ![p] = r] /\ \E l \in {"open", "pull"} : pc' = [pc EXCEPT ![p] = l]
    BY <1>2 DEF OpenRun, TakesOn, Goto, pullVars, pageVars
  <2>2. \A q \in Runs : risk'[q] = "completed" <=> risk[q] = "completed"
    BY <2>1 DEF TypeInv, TypeOK
  <2>3. \A q \in Workers : IF q = p THEN pc'[q] \in {"open", "pull"} /\ wrun'[q] = r ELSE Same(q)
    BY <1>a, <2>1 DEF TypeInv, TypeOK
  <2>4. \A q \in Runs : Needed(q)' => Needed(q)
    BY <2>1, <2>2, <2>3 DEF Needed
  <2>5. \A q \in Runs : RunStaged(q)'
    BY <1>c, <2>1, <2>4
  <2>6. \A q \in Workers : WorkerStaged(q)'
    BY <1>b, <2>1, <2>3
  <2>7. ScoredFromEveryPage'
    BY <1>d, <2>1, <2>2
  <2> QED BY <2>5, <2>6, <2>7 DEF StagedInv
<1>3. ASSUME NEW p \in Procs, OpenPull(p) PROVE StagedInv' /\ ScoredFromEveryPage'
  <2>1. wrun[p] \in Runs /\ p \in Workers /\ pc[p] \in Working
    BY <1>3 DEF OpenPull, TypeInv, HoldInv, WorkerPCs, Working
  <2>2. /\ UNCHANGED <<cursor, risk, raw, pruned, capped, scored, wrun, wpages>>
        /\ pull' = pull \/ pull' = [pull EXCEPT ![wrun[p]] = "running"]
        /\ \A q \in Procs \ {p} : pc'[q] = pc[q] /\ wafter'[q] = wafter[q]
        /\ pc'[p] \in {"page", "reopen", "score"}
    BY <1>3 DEF OpenPull, TakeUpPull, Goto, scoreVars, pageVars, history, TypeInv, TypeOK
  <2>3. \A r \in Runs : pull'[r] = "completed" => pull[r] = "completed"
    BY <2>1, <2>2 DEF TypeInv, TypeOK
  <2>4. \A r \in Runs : Needed(r)' => Needed(r)
    BY <2>1, <2>2, <1>a DEF Needed, Working
  <2>5. \A r \in Runs : RunStaged(r)'
    BY <1>c, <2>2, <2>3, <2>4
  <2>6. Staged(wrun[p], cursor[wrun[p]]) /\ (pull[wrun[p]] = "completed" => Staged(wrun[p], LastPage))
    BY <2>1 DEF StagedInv, RunStaged, Needed
  <2>7. WorkerStaged(p)'
    <3>1. CASE pull[wrun[p]] = "completed"
      <4>1. pc'[p] = "score"
        BY <1>3, <3>1 DEF OpenPull, Goto, TypeInv, TypeOK
      <4> QED BY <2>2, <2>6, <3>1, <4>1 DEF WorkerStaged, Staged
    <3>2. CASE pull[wrun[p]] # "completed"
      <4>1. pc'[p] \in {"page", "reopen"} /\ wafter'[p] = cursor[wrun[p]]
        BY <1>3, <3>2 DEF OpenPull, TakeUpPull, Goto, TypeInv, TypeOK
      <4> QED BY <2>2, <2>6, <4>1 DEF WorkerStaged, Staged
    <3> QED BY <3>1, <3>2
  <2>8. \A q \in Workers \ {p} : WorkerStaged(q)'
    BY <1>a, <1>b, <2>2
  <2>9. ScoredFromEveryPage'
    BY <1>d, <2>2
  <2> QED BY <2>5, <2>7, <2>8, <2>9 DEF StagedInv
<1>4. ASSUME NEW p \in Procs, StoreRaw(p) PROVE StagedInv' /\ ScoredFromEveryPage'
  <2>1. wrun[p] \in Runs /\ p \in Workers /\ pc[p] \in Working /\ pc[p] = "page"
    BY <1>4 DEF StoreRaw, TypeInv, HoldInv, WorkerPCs, Working
  <2>2. /\ UNCHANGED <<cursor, pull, risk, pruned, capped, scored, wrun, wafter, wpages>>
        /\ raw' = [raw EXCEPT ![wrun[p]] = @ \cup ({NextPage(p)} \cap Pages)]
        /\ pc' = [pc EXCEPT ![p] = "stored"]
    BY <1>4 DEF StoreRaw, Goto, scoreVars, history
  <2>3. /\ \A q \in Procs : pc'[q] = IF q = p THEN "stored" ELSE pc[q]
        /\ \A r \in Runs : raw'[r] = IF r = wrun[p] THEN raw[r] \cup ({NextPage(p)} \cap Pages) ELSE raw[r]
    BY <2>2 DEF TypeInv, TypeOK
  <2>4. \A r \in Runs : Kept(r) /\ (Needed(r)' => Needed(r))
    BY <2>1, <2>2, <2>3, <1>a DEF Needed, Working
  <2>5. \A r \in Runs : RunStaged(r)'
    BY <1>c, <2>2, <2>4
  <2>6. WorkerStaged(p)'
    <3>1. Staged(wrun[p], wafter[p])
      BY <2>1 DEF StagedInv, WorkerStaged
    <3>2. \A k \in Pages : k <= NextPage(p) => k <= wafter[p] \/ k = NextPage(p)
      BY DEF NextPage, Pages, TypeInv, TypeOK
    <3>3. NextPage(p)' = NextPage(p)
      BY <2>2 DEF NextPage
    <3> HIDE DEF Kept
    <3>4. Staged(wrun[p], NextPage(p))'
      BY <2>1, <2>2, <2>3, <3>1, <3>2, <3>3 DEF Staged
    <3> QED BY <2>1, <2>2, <2>3, <3>4 DEF WorkerStaged
  <2>7. \A q \in Workers \ {p} : WorkerStaged(q)'
    BY <1>a, <1>b, <2>2, <2>3, <2>4
  <2>8. ScoredFromEveryPage'
    BY <1>d, <2>2
  <2> QED BY <2>5, <2>6, <2>7, <2>8 DEF StagedInv
<1>5. ASSUME NEW p \in Procs, ProcessPage(p) PROVE StagedInv' /\ ScoredFromEveryPage'
  <2>1. wrun[p] \in Runs /\ p \in Workers /\ pc[p] \in Working /\ pc[p] = "stored"
    BY <1>5 DEF ProcessPage, TypeInv, HoldInv, WorkerPCs, Working
  <2>2. /\ UNCHANGED <<pull, risk, raw, pruned, capped, scored, wrun, wpages>>
        /\ cursor' = [cursor EXCEPT ![wrun[p]] = NextPage(p)]
        /\ wafter' = [wafter EXCEPT ![p] = NextPage(p)]
        /\ pc' = [pc EXCEPT ![p] = "page"]
    BY <1>5 DEF ProcessPage, Goto, scoreVars, history
  <2>3. /\ \A q \in Procs \ {p} : pc'[q] = pc[q] /\ wafter'[q] = wafter[q]
        /\ pc'[p] = "page" /\ wafter'[p] = NextPage(p)
        /\ \A r \in Runs : cursor'[r] = IF r = wrun[p] THEN NextPage(p) ELSE cursor[r]
    BY <2>1, <2>2 DEF TypeInv, TypeOK
  <2>4. \A r \in Runs : Needed(r)' => Needed(r)
    BY <2>1, <2>2, <2>3, <1>a DEF Needed, Working
  <2>5. Staged(wrun[p], NextPage(p))
    BY <2>1 DEF StagedInv, WorkerStaged
  <2>6. \A r \in Runs : RunStaged(r)'
    <3> SUFFICES ASSUME NEW r \in Runs PROVE RunStaged(r)'
      OBVIOUS
    <3>1. CASE r # wrun[p]
      BY <1>c, <2>2, <2>3, <2>4, <3>1
    <3>2. CASE r = wrun[p]
      BY <2>2, <2>3, <2>4, <2>5, <3>2 DEF StagedInv, RunStaged, Staged
    <3> QED BY <3>1, <3>2
  <2>7. WorkerStaged(p)'
    BY <2>2, <2>3, <2>5 DEF WorkerStaged, Staged
  <2>8. \A q \in Workers \ {p} : WorkerStaged(q)'
    BY <1>a, <1>b, <2>2, <2>3
  <2>9. ScoredFromEveryPage'
    BY <1>d, <2>2
  <2> QED BY <2>6, <2>7, <2>8, <2>9 DEF StagedInv
<1>6. ASSUME NEW p \in Procs, CompletePull(p) PROVE StagedInv' /\ ScoredFromEveryPage'
  <2>1. wrun[p] \in Runs /\ p \in Workers /\ pc[p] \in Working /\ pc[p] = "page"
    BY <1>6 DEF CompletePull, TypeInv, HoldInv, WorkerPCs, Working
  <2>2. /\ UNCHANGED <<cursor, risk, raw, pruned, scored, wrun, wpages>> /\ capped \subseteq capped'
        /\ pull' = [pull EXCEPT ![wrun[p]] = "completed"]
        /\ wafter' = [wafter EXCEPT ![p] = 0]
        /\ pc' = [pc EXCEPT ![p] = "score"]
    BY <1>6 DEF CompletePull, Goto, scoreVars, history
  <2>3. /\ \A q \in Procs \ {p} : pc'[q] = pc[q] /\ wafter'[q] = wafter[q]
        /\ pc'[p] = "score"
        /\ \A r \in Runs \ {wrun[p]} : pull'[r] = pull[r]
    BY <2>1, <2>2 DEF TypeInv, TypeOK
  <2>4. \A r \in Runs : Needed(r)' => Needed(r)
    BY <2>1, <2>2, <2>3, <1>a DEF Needed, Working
  <2>5. wrun[p] \in pruned \cup capped' \/ \A k \in Pages : k \in raw[wrun[p]]
    <3>1. Staged(wrun[p], wafter[p])
      BY <2>1 DEF StagedInv, WorkerStaged
    <3>2. CASE wafter[p] < LastPage
      BY <1>6, <3>2 DEF CompletePull
    <3>3. CASE ~(wafter[p] < LastPage)
      <4>1. \A k \in Pages : k <= wafter[p]
        BY <3>3 DEF Pages, TypeInv, TypeOK
      <4> QED BY <2>2, <3>1, <4>1 DEF Staged
    <3> QED BY <3>2, <3>3
  <2>6. \A r \in Runs : RunStaged(r)'
    <3> SUFFICES ASSUME NEW r \in Runs PROVE RunStaged(r)'
      OBVIOUS
    <3>1. CASE r # wrun[p]
      BY <1>c, <2>2, <2>3, <2>4, <3>1
    <3>2. CASE r = wrun[p]
      BY <2>2, <2>3, <2>4, <2>5, <3>2 DEF StagedInv, RunStaged, Staged
    <3> QED BY <3>1, <3>2
  <2>7. WorkerStaged(p)'
    BY <2>2, <2>3, <2>5 DEF WorkerStaged, Staged
  <2>8. \A q \in Workers \ {p} : WorkerStaged(q)'
    BY <1>a, <1>b, <2>2, <2>3
  <2>9. ScoredFromEveryPage'
    BY <1>d, <2>2
  <2> QED BY <2>6, <2>7, <2>8, <2>9 DEF StagedInv
<1>7. ASSUME NEW p \in Procs, ScoreRead(p) PROVE StagedInv' /\ ScoredFromEveryPage'
  <2>1. wrun[p] \in Runs /\ p \in Workers /\ pc[p] \in Working /\ pc[p] = "score"
    BY <1>7 DEF ScoreRead, TypeInv, HoldInv, WorkerPCs, Working
  <2>2. /\ UNCHANGED <<cursor, pull, risk, raw, pruned, capped, scored, wrun, wafter>>
        /\ wpages' = [wpages EXCEPT ![p] = raw[wrun[p]]]
        /\ pc' = [pc EXCEPT ![p] = "scoring"]
    BY <1>7 DEF ScoreRead, Goto, pullVars, scoreVars, pageVars, history
  <2>3. /\ \A q \in Procs \ {p} : pc'[q] = pc[q] /\ wpages'[q] = wpages[q]
        /\ pc'[p] = "scoring" /\ wpages'[p] = raw[wrun[p]]
    BY <2>1, <2>2 DEF TypeInv, TypeOK
  <2>4. \A r \in Runs : Needed(r)' => Needed(r)
    BY <2>1, <2>2, <2>3, <1>a DEF Needed, Working
  <2>5. \A r \in Runs : RunStaged(r)'
    BY <1>c, <2>2, <2>4
  <2>6. WorkerStaged(p)'
    <3>1. Staged(wrun[p], LastPage)
      BY <2>1 DEF StagedInv, WorkerStaged
    <3>2. wrun[p] \in pruned \cup capped \/ raw[wrun[p]] = Pages
      <4>1. raw[wrun[p]] \subseteq Pages
        BY <2>1 DEF TypeInv, TypeOK
      <4>2. \A k \in Pages : k <= LastPage
        BY DEF Pages
      <4> QED BY <3>1, <4>1, <4>2 DEF Staged
    <3> QED BY <2>2, <2>3, <3>1, <3>2 DEF WorkerStaged, Staged
  <2>7. \A q \in Workers \ {p} : WorkerStaged(q)'
    BY <1>a, <1>b, <2>2, <2>3
  <2>8. ScoredFromEveryPage'
    BY <1>d, <2>2
  <2> QED BY <2>5, <2>6, <2>7, <2>8 DEF StagedInv
<1>8. ASSUME NEW p \in Procs, ScoreCommit(p) PROVE StagedInv' /\ ScoredFromEveryPage'
  <2>1. wrun[p] \in Runs /\ p \in Workers /\ pc[p] = "scoring"
    BY <1>8 DEF ScoreCommit, TypeInv, HoldInv, WorkerPCs
  <2>2. /\ UNCHANGED <<cursor, pull, raw, pruned, capped, wrun, wafter>>
        /\ risk' = [risk EXCEPT ![wrun[p]] = "completed"]
        /\ scored' = [scored EXCEPT ![wrun[p]] = wpages[p]]
        /\ wpages' = [wpages EXCEPT ![p] = {}]
        /\ \E l \in {"prune", "mail"} : pc' = [pc EXCEPT ![p] = l]
    BY <1>8 DEF ScoreCommit, Goto, pullVars, pageVars
  <2>3. /\ \A q \in Procs \ {p} : pc'[q] = pc[q] /\ wpages'[q] = wpages[q]
        /\ pc'[p] \in {"prune", "mail"}
        /\ \A r \in Runs : risk'[r] = IF r = wrun[p] THEN "completed" ELSE risk[r]
        /\ \A r \in Runs : scored'[r] = IF r = wrun[p] THEN wpages[p] ELSE scored[r]
    BY <2>1, <2>2 DEF TypeInv, TypeOK
  <2>4. \A r \in Runs : Needed(r)' => Needed(r)
    BY <2>1, <2>2, <2>3, <1>a DEF Needed, Working
  <2>5. \A r \in Runs : RunStaged(r)'
    BY <1>c, <2>2, <2>4
  <2>6. \A q \in Workers : WorkerStaged(q)'
    BY <1>a, <1>b, <2>2, <2>3
  <2>7. wrun[p] \in pruned \cup capped \/ wpages[p] = Pages
    BY <2>1 DEF StagedInv, WorkerStaged
  <2>8. ScoredFromEveryPage'
    BY <2>2, <2>3, <2>7 DEF ScoredFromEveryPage
  <2> QED BY <2>5, <2>6, <2>8 DEF StagedInv
<1>9. ASSUME NEW p \in Procs, Fail(p) \/ PassOn(p) \/ FailPull(p) \/ MarkPull(p) \/ OpenCommit(p) \/ MarkRun(p)
      PROVE  StagedInv' /\ ScoredFromEveryPage'
  <2>1. wrun[p] \in Runs /\ p \in Workers /\ pc[p] \in Working
    BY <1>9 DEF Fail, PassOn, FailPull, MarkPull, OpenCommit, MarkRun, TypeInv, HoldInv, WorkerPCs, Working
  <2>2. /\ UNCHANGED <<cursor, raw, pruned, capped, scored>>
        /\ risk' = risk \/ \E t \in {"running", "failed"} : risk' = [risk EXCEPT ![wrun[p]] = t]
        /\ pull' = pull \/ pull' = [pull EXCEPT ![wrun[p]] = "failed"]
    BY <1>9 DEF Fail, PassOn, FailPull, MarkPull, OpenCommit, MarkRun, pullVars, scoreVars, history
  <2>3. Leave(p) \/ (UNCHANGED wrun /\ \E l \in {"pull", "markpull", "failing", "markrun"} : Goto(p, l))
    BY <1>9, ZenonT(30) DEF Fail, PassOn, FailPull, MarkPull, OpenCommit, MarkRun, ReadRunFailed
  <2>4. \A q \in Workers \ {p} : wafter'[q] = wafter[q] /\ wpages'[q] = wpages[q]
    <3>1. CASE Fail(p) \/ PassOn(p)
      <4>1. wafter' = [wafter EXCEPT ![p] = 0] /\ wpages' = [wpages EXCEPT ![p] = {}]
        BY <3>1 DEF Fail, PassOn, ReadRunFailed, Leave
      <4> QED BY <1>a, <4>1 DEF TypeInv, TypeOK
    <3>2. CASE FailPull(p) \/ MarkPull(p) \/ OpenCommit(p) \/ MarkRun(p)
      BY <1>a, <3>2 DEF FailPull, MarkPull, OpenCommit, MarkRun, Leave, pageVars, TypeInv, TypeOK
    <3> QED BY <1>9, <3>1, <3>2
  <2>5. /\ \A r \in Runs : risk'[r] = "completed" => risk[r] = "completed"
        /\ \A r \in Runs : risk'[r] # "completed" => Needed(r)
        /\ \A r \in Runs : pull'[r] = "completed" => pull[r] = "completed"
    BY <2>1, <2>2 DEF Needed, TypeInv, TypeOK
  <2>6. \A q \in Workers \ {p} : Same(q)
    BY <2>3, <2>4, <1>a DEF Leave, Goto, TypeInv, TypeOK
  <2>7. Past(p) /\ (pc'[p] \in Working => wrun'[p] = wrun[p])
    BY <2>1, <2>3, <1>a DEF Leave, Goto, Working, TypeInv, TypeOK
  <2>8. \A q \in Workers : Same(q) \/ (Past(q) /\ (pc'[q] \in Working => pc[q] \in Working /\ wrun'[q] = wrun[q]))
    BY <2>1, <2>6, <2>7
  <2> HIDE DEF Same, Past
  <2> QED BY <1>1, <2>2, <2>5, <2>8
<1>10. ASSUME NEW p \in Procs, Prune(p) PROVE StagedInv' /\ ScoredFromEveryPage'
  <2>1. /\ UNCHANGED <<cursor, pull, risk, capped, scored>> /\ Leave(p) /\ pc[p] = "prune"
        /\ raw' = [r \in Runs |-> IF r \in StalePulls THEN {} ELSE raw[r]]
        /\ pruned' = pruned \cup {r \in StalePulls :
                    raw[r] # {} /\ (risk[r] # "completed" \/ \E q \in Workers \ {p} : wrun[q] = r)}
    BY <1>10 DEF Prune
  <2>2. \A q \in Workers : IF q = p THEN pc'[q] = "idle" ELSE Same(q)
    BY <2>1, <1>a DEF Leave, Goto, TypeInv, TypeOK
  <2>3. \A r \in Runs : Needed(r)' => Needed(r)
    BY <2>1, <2>2 DEF Needed, Working
  <2>4. \A r \in Runs : (risk[r] # "completed" \/ \E q \in Workers \ {p} : wrun[q] = r) => Kept(r)
    BY <2>1
  <2>5. \A r \in Runs : Needed(r)' => Kept(r)
    BY <2>1, <2>2, <2>4 DEF Needed, Working
  <2>6. \A r \in Runs : RunStaged(r)'
    BY <1>c, <2>1, <2>3, <2>5
  <2>7. \A q \in Workers : WorkerStaged(q)'
    <3>1. \A q \in Workers : pc[q] \in Working => Kept(wrun[q])
      BY <1>a, <2>1, <2>4 DEF Working
    <3> QED BY <1>b, <2>1, <2>2, <3>1
  <2>8. ScoredFromEveryPage'
    BY <1>d, <2>1
  <2> QED BY <2>6, <2>7, <2>8 DEF StagedInv
<1>11. ASSUME NEW p \in Procs,
              MailRead(p) \/ MailMark(p) \/ MailDone(p) \/ Crash(p) \/ (\E d \in Digests : OpenSend(p, d))
              \/ (\E a \in Advisors : MailSend(p, a) \/ MailFail(p, a))
       PROVE  StagedInv' /\ ScoredFromEveryPage'
  <2>1. /\ UNCHANGED <<cursor, pull, risk, raw, pruned, capped, scored>>
        /\ \/ Leave(p)
           \/ /\ UNCHANGED <<wrun, wafter, wpages>>
              /\ \E l \in MailPCs \cup {"prune"} : Goto(p, l)
    BY <1>11 DEF MailRead, MailMark, MailDone, Crash, OpenSend, MailSend, MailFail, pullVars, scoreVars,
        pageVars, history, MailPCs
  <2>2. \A q \in Workers : Same(q) \/ (Past(q) /\ pc'[q] \notin Working)
    BY <2>1, <1>a DEF Leave, Goto, Working, MailPCs, TypeInv, TypeOK
  <2>3. \A r \in Runs : risk'[r] # "completed" => Needed(r)
    BY <2>1 DEF Needed
  <2> QED BY <1>1, <2>1, <2>2, <2>3
<1>12. CASE UNCHANGED vars
  <2>1. /\ UNCHANGED <<cursor, pull, risk, raw, pruned, capped, scored>>
        /\ \A q \in Workers : Same(q)
        /\ \A r \in Runs : risk'[r] # "completed" => Needed(r)
    BY <1>12 DEF vars, pullVars, scoreVars, pageVars, history, Needed
  <2> QED BY <1>1, <2>1
<1>13. ASSUME NEW p \in Procs, ReopenPull(p) PROVE StagedInv' /\ ScoredFromEveryPage'
  <2>1. wrun[p] \in Runs /\ p \in Workers /\ pc[p] \in Working /\ pc[p] = "reopen"
    BY <1>13 DEF ReopenPull, TypeInv, HoldInv, WorkerPCs, Working
  <2>2. /\ UNCHANGED <<cursor, risk, raw, pruned, capped, scored, wrun, wafter, wpages>>
        /\ pull' = [pull EXCEPT ![wrun[p]] = "running"]
        /\ pc' = [pc EXCEPT ![p] = "page"]
    BY <1>13 DEF ReopenPull, Goto, scoreVars, pageVars, history
  <2>3. /\ \A q \in Procs \ {p} : pc'[q] = pc[q]
        /\ pc'[p] = "page"
        /\ \A r \in Runs : pull'[r] = "completed" => pull[r] = "completed"
    BY <2>1, <2>2 DEF TypeInv, TypeOK
  <2>4. \A r \in Runs : Needed(r)' => Needed(r)
    BY <2>1, <2>2, <2>3, <1>a DEF Needed, Working
  <2>5. \A r \in Runs : RunStaged(r)'
    BY <1>c, <2>2, <2>3, <2>4
  <2>6. WorkerStaged(p)'
    <3>1. Staged(wrun[p], wafter[p])
      BY <2>1 DEF StagedInv, WorkerStaged
    <3> QED BY <2>2, <2>3, <3>1 DEF WorkerStaged, Staged
  <2>7. \A q \in Workers \ {p} : WorkerStaged(q)'
    BY <1>a, <1>b, <2>2, <2>3
  <2>8. ScoredFromEveryPage'
    BY <1>d, <2>2
  <2> QED BY <2>5, <2>6, <2>7, <2>8 DEF StagedInv
<1> QED BY <1>2, <1>3, <1>4, <1>5, <1>6, <1>7, <1>8, <1>9, <1>10, <1>11, <1>12, <1>13 DEF Next, Step

LEMMA InitStaged == Init => StagedInv /\ ScoredFromEveryPage
BY NightlyAssumption
   DEF Init, StagedInv, RunStaged, WorkerStaged, Staged, ScoredFromEveryPage, Pages, Procs

\* A completed run was scored from every page unless retention took some first or
\* its pull was completed at the page limit.
THEOREM RunsScoredWhole == Spec => []ScoredFromEveryPage
BY InitTypes, InitStaged, TypeStep, StagedStep, PTL DEF Spec

-----------------------------------------------------------------------------
\* What retention keeps.
LEMMA HistoryGrows ==
    [Next]_vars => shared \subseteq shared' /\ pruned \subseteq pruned' /\ capped \subseteq capped'
<1> SUFFICES ASSUME [Next]_vars
             PROVE  shared \subseteq shared' /\ pruned \subseteq pruned' /\ capped \subseteq capped'
  OBVIOUS
<1> USE DEF history
<1>1. ASSUME NEW p \in Procs, NEW r \in Runs, OpenRun(p, r)
      PROVE  shared \subseteq shared' /\ UNCHANGED <<pruned, capped>>
  BY <1>1 DEF OpenRun, TakesOn
<1>2. ASSUME NEW p \in Procs, CompletePull(p)
      PROVE  capped \subseteq capped' /\ UNCHANGED <<pruned, shared>>
  BY <1>2 DEF CompletePull
<1>3. ASSUME NEW p \in Procs, Prune(p)
      PROVE  pruned \subseteq pruned' /\ UNCHANGED <<capped, shared>>
  BY <1>3 DEF Prune
<1>4. ASSUME NEW p \in Procs,
             OpenCommit(p) \/ OpenPull(p) \/ ReopenPull(p) \/ StoreRaw(p) \/ ProcessPage(p)
             \/ ScoreRead(p) \/ ScoreCommit(p) \/ MarkPull(p) \/ PassOn(p) \/ MarkRun(p) \/ Fail(p) \/ FailPull(p)
      PROVE  UNCHANGED <<pruned, capped, shared>>
  BY <1>4 DEF OpenCommit, OpenPull, ReopenPull, StoreRaw, ProcessPage, ScoreRead, ScoreCommit, MarkPull,
      PassOn, MarkRun, Fail, FailPull
<1>5. ASSUME NEW p \in Procs,
             MailRead(p) \/ MailMark(p) \/ MailDone(p) \/ Crash(p) \/ (\E d \in Digests : OpenSend(p, d))
             \/ (\E a \in Advisors : MailSend(p, a) \/ MailFail(p, a))
      PROVE  UNCHANGED <<pruned, capped, shared>>
  BY <1>5 DEF MailRead, MailMark, MailDone, Crash, OpenSend, MailSend, MailFail
<1>6. CASE UNCHANGED vars
  BY <1>6 DEF vars
<1> QED BY <1>1, <1>2, <1>3, <1>4, <1>5, <1>6 DEF Next, Step

\* Which pulls are completed, and in which order they started.
LEMMA PullStep ==
    TypeInv /\ CountInv /\ PullInv /\ [Next]_vars
        => /\ PullInv'
           /\ \A r \in Runs \ shared : pull[r] = "completed" => pull'[r] = "completed"
           /\ \A r \in Runs : pulledAt'[r] = pulledAt[r] \/ (pulledAt[r] = 0 /\ pull'[r] # "completed")
<1> DEFINE Good == /\ PullInv'
                   /\ \A r \in Runs \ shared : pull[r] = "completed" => pull'[r] = "completed"
                   /\ \A r \in Runs : pulledAt'[r] = pulledAt[r] \/ (pulledAt[r] = 0 /\ pull'[r] # "completed")
<1> SUFFICES ASSUME TypeInv, CountInv, PullInv, [Next]_vars PROVE Good
  OBVIOUS
<1>a. \A q \in Workers : q \in Procs /\ (pc[q] \in InPull => wrun[q] \in Runs)
  BY DEF Procs, TypeInv, HoldInv, InPull, WorkerPCs
<1>b. shared \subseteq shared'
  BY HistoryGrows
\* The pulls stay; who comes into a pull has found it not completed.
<1>1. ASSUME UNCHANGED <<pull, pulledAt>>,
             \A q \in Workers : pc'[q] \in InPull =>
                 /\ wrun'[q] = wrun[q] /\ wrun[q] \in Runs
                 /\ pc[q] \in InPull \/ pull[wrun[q]] # "completed"
      PROVE  Good
  BY <1>1, <1>b DEF PullInv
\* Somebody in the pull of run r sets it running or failed.
<1>2. ASSUME NEW p \in Workers, pc[p] \in InPull, NEW t \in {"running", "failed"},
             pull' = [pull EXCEPT ![wrun[p]] = t], UNCHANGED <<pulledAt, wrun>>,
             \A q \in Workers : pc'[q] \in InPull => pc[q] \in InPull
      PROVE  Good
  <2>1. wrun[p] \in Runs /\ (wrun[p] \in shared \/ pull[wrun[p]] # "completed")
    BY <1>2, <1>a DEF PullInv
  <2>2. \A r \in Runs : pull'[r] = IF r = wrun[p] THEN t ELSE pull[r]
    BY <1>2 DEF TypeInv, TypeOK
  <2>3. PullInv'
    BY <1>2, <2>2, <1>a, <1>b DEF PullInv
  <2> QED BY <1>2, <2>1, <2>2, <2>3
<1>3. ASSUME NEW p \in Procs, NEW r \in Runs, OpenRun(p, r) PROVE Good
  <2>1. /\ UNCHANGED <<pull, pulledAt>> /\ wrun' = [wrun EXCEPT ![p] = r]
        /\ \E l \in {"open", "pull"} : Goto(p, l)
    BY <1>3 DEF OpenRun, TakesOn, pullVars
  <2>2. \A q \in Workers : pc'[q] \in InPull => wrun'[q] = wrun[q] /\ wrun[q] \in Runs /\ pc[q] \in InPull
    BY <2>1, <1>a DEF Goto, InPull, TypeInv, TypeOK
  <2> QED BY <1>1, <2>1, <2>2
<1>4. ASSUME NEW p \in Procs, OpenPull(p) PROVE Good
  <2>1. wrun[p] \in Runs /\ p \in Workers /\ UNCHANGED wrun
    BY <1>4 DEF OpenPull, TypeInv, HoldInv, WorkerPCs
  <2>2. CASE pull[wrun[p]] # "none"
    <3>1. /\ UNCHANGED <<pull, pulledAt>>
          /\ \E l \in {"page", "reopen", "score"} :
                Goto(p, l) /\ (l # "score" => pull[wrun[p]] # "completed")
      BY <1>4, <2>2 DEF OpenPull
    <3>2. \A q \in Workers : pc'[q] \in InPull =>
              wrun[q] \in Runs /\ (pc[q] \in InPull \/ pull[wrun[q]] # "completed")
      BY <2>1, <3>1, <1>a DEF Goto, InPull, TypeInv, TypeOK
    <3> QED BY <1>1, <2>1, <3>1, <3>2
  <2>3. CASE pull[wrun[p]] = "none"
    <3>1. /\ pull' = [pull EXCEPT ![wrun[p]] = "running"] /\ Goto(p, "page")
          /\ \A r \in Runs \ {wrun[p]} : pulledAt'[r] = pulledAt[r]
      BY <1>4, <2>3 DEF OpenPull, TypeInv, TypeOK
    <3>2. pulledAt[wrun[p]] = 0
      BY <2>1, <2>3 DEF PullInv
    <3>3. \A r \in Runs : pull'[r] = IF r = wrun[p] THEN "running" ELSE pull[r]
      BY <3>1 DEF TypeInv, TypeOK
    <3>4. \A q \in Workers : pc'[q] \in InPull => q = p \/ pc[q] \in InPull
      BY <3>1, <1>a DEF Goto, TypeInv, TypeOK
    <3>5. PullInv'
      BY <2>1, <3>1, <3>3, <3>4, <1>a, <1>b DEF PullInv
    <3> QED BY <2>3, <3>1, <3>2, <3>3, <3>5
  <2> QED BY <2>2, <2>3
<1>5. ASSUME NEW p \in Procs, ReopenPull(p) \/ MarkPull(p) PROVE Good
  <2>1. p \in Workers /\ pc[p] \in InPull
    BY <1>5 DEF ReopenPull, MarkPull, TypeInv, HoldInv, WorkerPCs, InPull
  <2>2. /\ \E t \in {"running", "failed"} : pull' = [pull EXCEPT ![wrun[p]] = t]
        /\ UNCHANGED <<pulledAt, wrun>> /\ \E l \in {"page", "failing"} : Goto(p, l)
    BY <1>5 DEF ReopenPull, MarkPull
  <2>3. \A q \in Workers : pc'[q] \in InPull => pc[q] \in InPull
    BY <2>1, <2>2, <1>a DEF Goto, TypeInv, TypeOK
  <2> QED BY <1>2, <2>1, <2>2, <2>3
<1>6. ASSUME NEW p \in Procs, CompletePull(p) PROVE Good
  <2>1. wrun[p] \in Runs /\ p \in Workers
    BY <1>6 DEF CompletePull, TypeInv, HoldInv, WorkerPCs
  <2>2. /\ pull' = [pull EXCEPT ![wrun[p]] = "completed"] /\ Goto(p, "score")
        /\ UNCHANGED <<pulledAt, wrun, shared>>
    BY <1>6 DEF CompletePull
  <2>3. \A r \in Runs : pull'[r] = IF r = wrun[p] THEN "completed" ELSE pull[r]
    BY <2>2 DEF TypeInv, TypeOK
  <2>4. \A q \in Workers : pc'[q] \in InPull => q # p /\ pc[q] \in InPull
    BY <2>2, <1>a DEF Goto, InPull, TypeInv, TypeOK
  <2>5. \A q \in Workers : q # p /\ wrun[q] = wrun[p] => wrun[p] \in shared
    BY <2>1 DEF CountInv, ShareInv
  <2>6. PullInv'
    BY <2>2, <2>3, <2>4, <2>5, <1>a DEF PullInv
  <2> QED BY <2>2, <2>3, <2>6
<1>7. ASSUME NEW p \in Procs, FailPull(p) PROVE Good
  <2>1. wrun[p] \in Runs /\ p \in Workers
    BY <1>7 DEF FailPull, TypeInv, HoldInv, WorkerPCs
  <2>2. /\ UNCHANGED <<pull, pulledAt, wrun>>
        /\ \E l \in {"markpull", "failing"} :
              Goto(p, l) /\ (l = "markpull" => pull[wrun[p]] = "running")
    BY <1>7 DEF FailPull, pullVars
  <2>3. \A q \in Workers : pc'[q] \in InPull =>
            wrun[q] \in Runs /\ (pc[q] \in InPull \/ pull[wrun[q]] # "completed")
    BY <2>1, <2>2, <1>a DEF Goto, InPull, TypeInv, TypeOK
  <2> QED BY <1>1, <2>2, <2>3
<1>8. ASSUME NEW p \in Procs,
             OpenCommit(p) \/ StoreRaw(p) \/ ProcessPage(p) \/ ScoreRead(p) \/ ScoreCommit(p)
             \/ MailRead(p) \/ MailMark(p) \/ (\E d \in Digests : OpenSend(p, d))
             \/ (\E a \in Advisors : MailSend(p, a) \/ MailFail(p, a))
      PROVE  Good
  <2>1. /\ UNCHANGED <<pull, pulledAt, wrun>>
        /\ \E l \in WorkerPCs \cup MailPCs : Goto(p, l) /\ (l \in InPull => pc[p] \in InPull)
    BY <1>8 DEF OpenCommit, StoreRaw, ProcessPage, ScoreRead, ScoreCommit, MailRead, MailMark, OpenSend,
        MailSend, MailFail, pullVars, InPull, WorkerPCs, MailPCs
  <2>2. \A q \in Workers : pc'[q] \in InPull => pc[q] \in InPull
    BY <2>1, <1>a DEF Goto, TypeInv, TypeOK
  <2> QED BY <1>1, <1>a, <2>1, <2>2
<1>9. ASSUME NEW p \in Procs, Fail(p) \/ PassOn(p) \/ MarkRun(p) \/ MailDone(p) \/ Prune(p) \/ Crash(p)
      PROVE  Good
  <2>1. UNCHANGED <<pull, pulledAt>>
    BY <1>9 DEF Fail, PassOn, MarkRun, MailDone, Prune, Crash, pullVars
  <2>2. Leave(p) \/ (UNCHANGED wrun /\ \E l \in {"markrun", "prune"} : Goto(p, l))
    BY <1>9 DEF Fail, PassOn, MarkRun, MailDone, Prune, Crash, ReadRunFailed
  <2>3. \A q \in Workers : pc'[q] \in InPull => wrun'[q] = wrun[q] /\ wrun[q] \in Runs /\ pc[q] \in InPull
    BY <2>2, <1>a DEF Leave, Goto, InPull, TypeInv, TypeOK
  <2> QED BY <1>1, <2>1, <2>3
<1>10. CASE UNCHANGED vars
  BY <1>1, <1>10, <1>a DEF vars, pullVars
<1> HIDE DEF Good
<1> QED BY <1>3, <1>4, <1>5, <1>6, <1>7, <1>8, <1>9, <1>10 DEF Next, Step

LEMMA KeptStep ==
    ASSUME TypeInv, CountInv, DigestInv, SnapInv, OneDigest, PullInv, StagedInv, NewestKept, [Next]_vars
    PROVE  NewestKept'
<1> USE NightlyAssumption
<1> DEFINE Pulled(r) == /\ pull[r] = "completed" /\ r \notin pruned \cup capped
                        /\ \A q \in Runs : pulledAt[q] > pulledAt[r] =>
                              pull[q] # "completed" /\ q \notin shared
           Scored(r) == /\ risk[r] = "completed" /\ scored[r] # {} /\ r \notin shared
                        /\ \A q \in Runs : q > r => risk[q] # "completed" /\ q \notin shared
<1>a. \A r \in Runs : (Pulled(r) => raw[r] = Pages) /\ (Scored(r) => snap[r])
  BY DEF NewestKept
<1>b. ASSUME \A r \in Runs : Pulled(r)' => raw'[r] = Pages, \A r \in Runs : Scored(r)' => snap'[r]
      PROVE  NewestKept'
  BY <1>b DEF NewestKept
<1>c. shared \subseteq shared' /\ pruned \subseteq pruned' /\ capped \subseteq capped'
  BY HistoryGrows
<1>d. \A r \in Runs \ shared : risk[r] = "completed" => risk'[r] = "completed"
  BY DigestStep
<1>e. /\ \A r \in Runs \ shared : pull[r] = "completed" => pull'[r] = "completed"
      /\ \A r \in Runs : pulledAt'[r] = pulledAt[r] \/ (pulledAt[r] = 0 /\ pull'[r] # "completed")
  BY PullStep
\* A pull that is not completed just now was the newest before.
<1>f. ASSUME NEW r \in Runs, pull'[r] = "completed" => pull[r] = "completed", Pulled(r)'
      PROVE  Pulled(r)
  <2>1. pulledAt[r] \in Nat /\ pulledAt'[r] = pulledAt[r]
    BY <1>e, <1>f DEF TypeInv, TypeOK
  <2>2. ASSUME NEW q \in Runs, pulledAt[q] > pulledAt[r]
        PROVE  pull[q] # "completed" /\ q \notin shared
    <3>1. pulledAt'[q] = pulledAt[q]
      BY <1>e, <2>1, <2>2 DEF TypeInv, TypeOK
    <3>2. pull'[q] # "completed" /\ q \notin shared'
      BY <1>f, <2>1, <2>2, <3>1
    <3> QED BY <1>c, <1>e, <3>2
  <2> QED BY <1>c, <1>f, <2>2
\* A run that is not scored just now was the newest before.
<1>g. ASSUME NEW r \in Runs, risk'[r] = "completed" => risk[r] = "completed", scored'[r] = scored[r], Scored(r)'
      PROVE  Scored(r)
  BY <1>c, <1>d, <1>g
<1> HIDE DEF Pulled, Scored
\* Nothing is staged, scored, completed or deleted.
<1>1. ASSUME UNCHANGED <<raw, snap, scored>>,
             \A r \in Runs : pull'[r] = "completed" => pull[r] = "completed",
             \A r \in Runs : risk'[r] = "completed" => risk[r] = "completed"
      PROVE  NewestKept'
  BY <1>1, <1>a, <1>b, <1>f, <1>g
<1>2. ASSUME NEW p \in Procs,
             (\E r \in Runs : OpenRun(p, r)) \/ OpenCommit(p) \/ OpenPull(p) \/ ReopenPull(p) \/ ProcessPage(p)
             \/ ScoreRead(p) \/ Fail(p) \/ FailPull(p) \/ MarkPull(p) \/ PassOn(p) \/ MarkRun(p)
      PROVE  NewestKept'
  <2>1. /\ UNCHANGED <<raw, snap, scored>>
        /\ pull' = pull \/ \E r \in Runs, t \in {"running", "failed"} : pull' = [pull EXCEPT ![r] = t]
        /\ risk' = risk \/ \E r \in Runs, t \in {"running", "failed"} : risk' = [risk EXCEPT ![r] = t]
    <3>1. pc[p] \in WorkerPCs => wrun[p] \in Runs
      BY DEF TypeInv, HoldInv, WorkerPCs
    <3>2. CASE \E r \in Runs : OpenRun(p, r)
      BY <3>2 DEF OpenRun, TakesOn, pullVars
    <3>3. CASE OpenCommit(p) \/ OpenPull(p) \/ ReopenPull(p) \/ ProcessPage(p) \/ ScoreRead(p)
      BY <3>1, <3>3 DEF OpenCommit, OpenPull, ReopenPull, ProcessPage, ScoreRead, pullVars, scoreVars, history,
          WorkerPCs
    <3>4. CASE Fail(p) \/ FailPull(p) \/ MarkPull(p) \/ PassOn(p) \/ MarkRun(p)
      BY <3>1, <3>4 DEF Fail, FailPull, MarkPull, PassOn, MarkRun, pullVars, scoreVars, history, WorkerPCs
    <3> QED BY <1>2, <3>2, <3>3, <3>4
  <2>2. /\ \A r \in Runs : pull'[r] = "completed" => pull[r] = "completed"
        /\ \A r \in Runs : risk'[r] = "completed" => risk[r] = "completed"
    BY <2>1 DEF TypeInv, TypeOK
  <2> QED BY <1>1, <2>1, <2>2
<1>3. ASSUME NEW p \in Procs, StoreRaw(p) PROVE NewestKept'
  <2>1. /\ UNCHANGED <<pull, snap, scored, risk>>
        /\ raw' = [raw EXCEPT ![wrun[p]] = @ \cup ({NextPage(p)} \cap Pages)]
    BY <1>3 DEF StoreRaw, scoreVars, history
  <2>2. \A r \in Runs : raw[r] = Pages => raw'[r] = Pages
    BY <2>1 DEF TypeInv, TypeOK
  <2> QED BY <1>a, <1>b, <1>f, <1>g, <2>1, <2>2
<1>4. ASSUME NEW p \in Procs, CompletePull(p) PROVE NewestKept'
  <2>1. wrun[p] \in Runs /\ p \in Workers /\ pc[p] = "page"
    BY <1>4 DEF CompletePull, TypeInv, HoldInv, WorkerPCs
  <2>2. /\ UNCHANGED <<raw, snap, scored, risk, pruned>>
        /\ pull' = [pull EXCEPT ![wrun[p]] = "completed"]
        /\ wafter[p] < LastPage => wrun[p] \in capped'
    BY <1>4 DEF CompletePull, scoreVars, history
  <2>3. \A r \in Runs : pull'[r] = IF r = wrun[p] THEN "completed" ELSE pull[r]
    BY <2>2 DEF TypeInv, TypeOK
  <2>4. wrun[p] \in pruned' \cup capped' \/ raw[wrun[p]] = Pages
    <3>1. Staged(wrun[p], wafter[p])
      BY <2>1 DEF StagedInv, WorkerStaged
    <3>2. raw[wrun[p]] \subseteq Pages
      BY <2>1 DEF TypeInv, TypeOK
    <3>3. CASE ~(wafter[p] < LastPage)
      <4>1. \A k \in Pages : k <= wafter[p]
        BY <3>3 DEF Pages, TypeInv, TypeOK
      <4> QED BY <1>c, <3>1, <3>2, <4>1 DEF Staged
    <3> QED BY <2>2, <3>3
  <2>5. \A r \in Runs : Pulled(r)' => raw'[r] = Pages
    <3> SUFFICES ASSUME NEW r \in Runs, Pulled(r)' PROVE raw[r] = Pages
      BY <2>2
    <3>1. CASE r = wrun[p]
      BY <2>4, <3>1 DEF Pulled
    <3>2. CASE r # wrun[p]
      BY <1>a, <1>f, <2>3, <3>2
    <3> QED BY <3>1, <3>2
  <2> QED BY <1>a, <1>b, <1>g, <2>2, <2>5
<1>5. ASSUME NEW p \in Procs, ScoreCommit(p) PROVE NewestKept'
  <2>1. wrun[p] \in Runs /\ p \in Workers /\ pc[p] = "scoring"
    BY <1>5 DEF ScoreCommit, TypeInv, HoldInv, WorkerPCs
  <2>2. /\ UNCHANGED <<pull, raw>>
        /\ snap' = [snap EXCEPT ![wrun[p]] = @ \/ (wpages[p] # {} /\ ~wsnap[p])]
        /\ scored' = [scored EXCEPT ![wrun[p]] = wpages[p]]
        /\ risk' = [risk EXCEPT ![wrun[p]] = "completed"]
    BY <1>5 DEF ScoreCommit, pullVars
  <2>3. /\ scored'[wrun[p]] = wpages[p] /\ (wpages[p] # {} /\ ~wsnap[p] => snap'[wrun[p]])
        /\ \A r \in Runs \ {wrun[p]} : /\ scored'[r] = scored[r] /\ snap'[r] = snap[r]
                                        /\ risk'[r] = risk[r]
    BY <2>1, <2>2 DEF TypeInv, TypeOK
  <2>4. wrun[p] \notin shared' => ~wsnap[p]
    BY <1>c, <2>1 DEF SnapInv
  <2>5. \A r \in Runs : Scored(r)' => snap'[r]
    <3> SUFFICES ASSUME NEW r \in Runs, Scored(r)' PROVE snap'[r]
      OBVIOUS
    <3>1. CASE r = wrun[p]
      BY <2>3, <2>4, <3>1 DEF Scored
    <3>2. CASE r # wrun[p]
      BY <1>a, <1>g, <2>3, <3>2
    <3> QED BY <3>1, <3>2
  <2> QED BY <1>a, <1>b, <1>f, <2>2, <2>5
<1>6. ASSUME NEW p \in Procs, Prune(p) PROVE NewestKept'
  <2>1. /\ UNCHANGED <<pull, risk, scored>>
        /\ \A r \in Runs : raw'[r] = IF r \in StalePulls THEN {} ELSE raw[r]
        /\ \A r \in Runs : snap'[r] = (snap[r] /\ r \notin StaleRuns)
    BY <1>6 DEF Prune
  <2>2. \A r \in Runs : Pulled(r)' => Pulled(r) /\ r \notin StalePulls
    <3> SUFFICES ASSUME NEW r \in Runs, Pulled(r)' PROVE Pulled(r) /\ r \notin StalePulls
      OBVIOUS
    <3>1. Pulled(r)
      BY <1>f, <2>1
    <3>2. pull[r] = "completed" /\ NewerPulls(r) = {}
      BY <3>1 DEF Pulled, NewerPulls
    <3>3. Cardinality(NewerPulls(r)) = 0
      BY <3>2, CountRuns DEF NewerPulls
    <3> QED BY <3>1, <3>2, <3>3 DEF StalePulls
  <2>3. \A r \in Runs : Scored(r)' => Scored(r) /\ r \notin StaleRuns
    <3> SUFFICES ASSUME NEW r \in Runs, Scored(r)' PROVE Scored(r) /\ r \notin StaleRuns
      OBVIOUS
    <3>1. Scored(r)
      BY <1>g, <2>1
    <3>2. risk[r] = "completed" /\ {q \in Runs : risk[q] = "completed" /\ q > r} = {}
      BY <3>1 DEF Scored
    <3>3. Cardinality({q \in Runs : risk[q] = "completed" /\ q > r}) = 0
      BY <3>2, CountRuns
    <3> QED BY <3>1, <3>2, <3>3 DEF StaleRuns
  <2> QED BY <1>a, <1>b, <2>1, <2>2, <2>3
<1>7. ASSUME NEW p \in Procs,
             MailRead(p) \/ MailMark(p) \/ MailDone(p) \/ Crash(p)
             \/ (\E d \in Digests : OpenSend(p, d)) \/ (\E a \in Advisors : MailSend(p, a) \/ MailFail(p, a))
      PROVE  NewestKept'
  <2>1. UNCHANGED <<pull, raw, snap, scored, risk>>
    BY <1>7 DEF MailRead, MailMark, MailDone, Crash, OpenSend, MailSend, MailFail, pullVars, scoreVars, history
  <2> QED BY <1>1, <2>1
<1>8. CASE UNCHANGED vars
  BY <1>1, <1>8 DEF vars, pullVars, scoreVars, history
<1> QED BY <1>2, <1>3, <1>4, <1>5, <1>6, <1>7, <1>8 DEF Next, Step

\* Retention keeps the newest pull's pages and the newest run's snapshots.
THEOREM NewestAreKept == Spec => []NewestKept
<1>1. Init => NewestKept /\ PullInv
  BY DEF Init, NewestKept, PullInv, InPull, Procs
<1>2. TypeInv /\ CountInv /\ DigestInv /\ SnapInv /\ OneDigest /\ PullInv /\ StagedInv /\ NewestKept
        /\ [Next]_vars => NewestKept'
  BY KeptStep
<1> QED BY <1>1, <1>2, InitTypes, InitCounts, InitDigests, InitStaged, TypeStep, CountStep, DigestStep, PullStep,
        StagedStep, PTL DEF Spec

-----------------------------------------------------------------------------
\* Emails and their markers.
LEMMA MailStep == TypeInv /\ MailInv /\ [Next]_vars => MailInv'
<1> SUFFICES ASSUME TypeInv, MailInv, [Next]_vars PROVE MailInv'
  OBVIOUS
<1> DEFINE Same(q) == pc'[q] = pc[q] /\ wdigest'[q] = wdigest[q] /\ wdone'[q] = wdone[q] /\ wcur'[q] = wcur[q]
           Out(q) == pc[q] # "marking" /\ pc'[q] \notin {"mailing", "marking"}
<1>a. \A q \in Procs : Mailing(q) => \E d \in Digests : wdigest[q] = {d}
  BY DEF TypeInv, HoldInv, Mailing, MailPCs
\* Nobody sends or marks.
<1>1. ASSUME UNCHANGED <<marker, mailed, resent>>, broken \subseteq broken',
             \A q \in Procs : Same(q) \/ Out(q)
      PROVE  MailInv'
  <2>1. Alone'
    BY <1>1 DEF MailInv, Alone, Mailing
  <2>2. KnowsMarkers'
    BY <1>1 DEF MailInv, KnowsMarkers, Mailing
  <2>3. MarkingOne'
    BY <1>1 DEF MailInv, MarkingOne
  <2>4. Accounted'
    BY <1>1 DEF MailInv, Accounted, OutOnce
  <2> QED BY <2>1, <2>2, <2>3, <2>4 DEF MailInv
<1>2. ASSUME NEW p \in Procs,
             (\E r \in Runs : OpenRun(p, r)) \/ OpenCommit(p) \/ OpenPull(p) \/ ReopenPull(p) \/ StoreRaw(p)
             \/ ProcessPage(p) \/ CompletePull(p) \/ ScoreRead(p) \/ FailPull(p) \/ MarkPull(p)
      PROVE  MailInv'
  <2>1. /\ UNCHANGED <<marker, mailed, resent, broken, wdigest, wdone, wcur>> /\ pc[p] # "marking"
        /\ \E l \in WorkerPCs : Goto(p, l)
    BY <1>2 DEF OpenRun, TakesOn, OpenCommit, OpenPull, ReopenPull, StoreRaw, ProcessPage, CompletePull, ScoreRead,
        FailPull, MarkPull, mailVars, history, WorkerPCs
  <2>2. \A q \in Procs : Same(q) \/ Out(q)
    BY <2>1 DEF Goto, WorkerPCs, TypeInv, TypeOK
  <2> QED BY <1>1, <2>1, <2>2
<1>3. ASSUME NEW p \in Procs, ScoreCommit(p) \/ (\E d \in Digests : OpenSend(p, d)) PROVE MailInv'
  <2>1. /\ UNCHANGED <<marker, mailed, resent, broken, wdone, wcur>> /\ pc[p] # "marking"
        /\ \E l \in {"mail", "prune"} : Goto(p, l)
        /\ \E D : wdigest' = [wdigest EXCEPT ![p] = D]
    BY <1>3 DEF ScoreCommit, OpenSend, history
  <2>2. \A q \in Procs : Same(q) \/ Out(q)
    BY <2>1 DEF Goto, TypeInv, TypeOK
  <2> QED BY <1>1, <2>1, <2>2
<1>4. ASSUME NEW p \in Procs, Fail(p) \/ PassOn(p) \/ MarkRun(p) \/ Prune(p) \/ MailDone(p) PROVE MailInv'
  <2>1. /\ UNCHANGED <<marker, mailed, resent, broken>> /\ pc[p] # "marking"
        /\ Leave(p) \/ (UNCHANGED mailVars /\ \E l \in {"markrun", "prune"} : Goto(p, l))
    BY <1>4 DEF Fail, PassOn, MarkRun, ReadRunFailed, Prune, MailDone, history
  <2>2. \A q \in Procs : Same(q) \/ Out(q)
    BY <2>1 DEF Leave, Goto, mailVars, TypeInv, TypeOK
  <2> QED BY <1>1, <2>1, <2>2
<1>5. ASSUME NEW p \in Procs, MailRead(p) PROVE MailInv'
  <2>1. /\ UNCHANGED <<marker, mailed, broken, wdigest, wcur>> /\ pc[p] = "mail"
        /\ wdone' = [wdone EXCEPT ![p] = {a \in Advisors : \E d \in wdigest[p] : <<d, a>> \in marker}]
        /\ pc' = [pc EXCEPT ![p] = "mailing"]
        /\ resent \subseteq resent'
        /\ (\E q \in Procs \ {p} : Mailing(q) /\ wdigest[q] = wdigest[p]) => wdigest[p] \subseteq resent'
    BY <1>5 DEF MailRead, Goto, Mailing, MailPCs
  <2>2. /\ \A q \in Procs \ {p} : Same(q)
        /\ pc'[p] = "mailing" /\ wdone'[p] = {a \in Advisors : \E d \in wdigest[p] : <<d, a>> \in marker}
    BY <2>1 DEF TypeInv, TypeOK
  <2>3. Alone'
    BY <2>1, <2>2 DEF MailInv, Alone, Mailing
  <2>4. KnowsMarkers'
    BY <2>1, <2>2 DEF MailInv, KnowsMarkers, Mailing
  <2>5. MarkingOne'
    BY <2>1, <2>2 DEF MailInv, MarkingOne
  <2>6. Accounted'
    <3> SUFFICES ASSUME NEW d \in Digests, NEW b \in Advisors, d \notin resent', <<d, b>> \notin broken',
                        mailed'[d][b] # 0
                 PROVE  OutOnce(d, b)'
      BY DEF Accounted
    <3>1. OutOnce(d, b)
      BY <2>1, <2>2 DEF MailInv, Accounted
    <3>2. CASE <<d, b>> \in marker
      BY <2>1, <2>2, <3>1, <3>2 DEF OutOnce
    <3>3. CASE <<d, b>> \notin marker
      <4>1. PICK q \in Procs : pc[q] = "marking" /\ d \in wdigest[q] /\ b \in wcur[q]
        BY <3>1, <3>3 DEF OutOnce
      <4>2. CASE q = p
        BY <2>1, <2>2, <3>1, <4>1, <4>2 DEF OutOnce
      <4>3. CASE q # p
        BY <2>1, <2>2, <3>1, <4>1, <4>3 DEF OutOnce
      <4> QED BY <4>2, <4>3
    <3> QED BY <3>2, <3>3
  <2> QED BY <2>3, <2>4, <2>5, <2>6 DEF MailInv
<1>6. ASSUME NEW p \in Procs, NEW a \in Advisors, MailSend(p, a) PROVE MailInv'
  <2>1. /\ UNCHANGED <<marker, broken, resent, wdigest, wdone>> /\ pc[p] = "mailing" /\ a \notin wdone[p]
        /\ wcur' = [wcur EXCEPT ![p] = {a}]
        /\ pc' = [pc EXCEPT ![p] = "marking"]
    BY <1>6 DEF MailSend, Goto
  <2>2. /\ \A q \in Procs \ {p} : Same(q)
        /\ pc'[p] = "marking" /\ wcur'[p] = {a}
    BY <2>1 DEF TypeInv, TypeOK
  <2>3. Alone'
    BY <2>1, <2>2 DEF MailInv, Alone, Mailing
  <2>4. KnowsMarkers'
    BY <2>1, <2>2 DEF MailInv, KnowsMarkers, Mailing
  <2>5. MarkingOne'
    BY <2>1, <2>2 DEF MailInv, MarkingOne
  <2>6. PICK e \in Digests : wdigest[p] = {e}
    BY <1>a, <2>1 DEF Mailing
  <2>7. \A d \in Digests, b \in Advisors :
            mailed'[d][b] = IF d = e /\ b = a THEN mailed[d][b] + 1 ELSE mailed[d][b]
    BY <1>6, <2>6 DEF MailSend, TypeInv, TypeOK
  <2>8. e \in resent \/ <<e, a>> \in broken \/ mailed[e][a] = 0
    <3> SUFFICES ASSUME e \notin resent, OutOnce(e, a) PROVE FALSE
      BY DEF MailInv, Accounted
    <3>1. <<e, a>> \notin marker
      BY <2>1, <2>6 DEF MailInv, KnowsMarkers, Mailing
    <3>2. PICK q \in Procs : pc[q] = "marking" /\ e \in wdigest[q]
      BY <3>1 DEF OutOnce
    <3>3. wdigest[q] = wdigest[p]
      BY <1>a, <2>6, <3>2 DEF Mailing
    <3> QED BY <2>1, <2>6, <3>2, <3>3 DEF MailInv, Alone, Mailing
  <2>9. Accounted'
    <3> SUFFICES ASSUME NEW d \in Digests, NEW b \in Advisors, d \notin resent, <<d, b>> \notin broken
                 PROVE  mailed'[d][b] = 0 \/ OutOnce(d, b)'
      BY <2>1 DEF Accounted
    <3>1. CASE d = e /\ b = a
      BY <2>1, <2>2, <2>6, <2>7, <2>8, <3>1 DEF OutOnce
    <3>2. CASE ~(d = e /\ b = a)
      <4>1. mailed'[d][b] = mailed[d][b]
        BY <2>7, <3>2
      <4> QED BY <2>1, <2>2, <4>1 DEF MailInv, Accounted, OutOnce
    <3> QED BY <3>1, <3>2
  <2> QED BY <2>3, <2>4, <2>5, <2>9 DEF MailInv
<1>7. ASSUME NEW p \in Procs, MailMark(p) PROVE MailInv'
  <2>1. /\ UNCHANGED <<mailed, broken, resent, wdigest>> /\ pc[p] = "marking"
        /\ marker' = marker \cup (wdigest[p] \X wcur[p])
        /\ wdone' = [wdone EXCEPT ![p] = @ \cup wcur[p]]
        /\ wcur' = [wcur EXCEPT ![p] = {}]
        /\ pc' = [pc EXCEPT ![p] = "mailing"]
    BY <1>7 DEF MailMark, Goto, history
  <2>2. /\ \A q \in Procs \ {p} : Same(q)
        /\ pc'[p] = "mailing" /\ wdone'[p] = wdone[p] \cup wcur[p]
    BY <2>1 DEF TypeInv, TypeOK
  <2>3. Alone'
    BY <2>1, <2>2 DEF MailInv, Alone, Mailing
  <2>4. KnowsMarkers'
    <3> SUFFICES ASSUME NEW q \in Procs, Mailing(q)', NEW d \in wdigest[q] \ resent, NEW a \in Advisors,
                        <<d, a>> \in marker'
                 PROVE  a \in wdone'[q]
      BY <2>1 DEF KnowsMarkers
    <3>1. CASE q = p
      BY <2>1, <2>2, <3>1 DEF MailInv, KnowsMarkers, Mailing
    <3>2. CASE q # p
      <4>1. Mailing(q) /\ Mailing(p)
        BY <2>1, <2>2, <3>2 DEF Mailing
      <4>2. d \notin wdigest[p]
        BY <1>a, <3>2, <4>1 DEF MailInv, Alone
      <4>3. <<d, a>> \in marker
        BY <2>1, <4>2
      <4> QED BY <2>2, <3>2, <4>1, <4>3 DEF MailInv, KnowsMarkers
    <3> QED BY <3>1, <3>2
  <2>5. MarkingOne'
    BY <2>1, <2>2 DEF MailInv, MarkingOne
  <2>6. Accounted'
    <3> SUFFICES ASSUME NEW d \in Digests, NEW b \in Advisors, d \notin resent', <<d, b>> \notin broken',
                        mailed'[d][b] # 0
                 PROVE  OutOnce(d, b)'
      BY DEF Accounted
    <3>1. OutOnce(d, b)
      BY <2>1, <2>2 DEF MailInv, Accounted
    <3>2. CASE <<d, b>> \in marker
      BY <2>1, <2>2, <3>1, <3>2 DEF OutOnce
    <3>3. CASE <<d, b>> \notin marker
      <4>1. PICK q \in Procs : pc[q] = "marking" /\ d \in wdigest[q] /\ b \in wcur[q]
        BY <3>1, <3>3 DEF OutOnce
      <4>2. CASE q = p
        BY <2>1, <2>2, <3>1, <4>1, <4>2 DEF OutOnce
      <4>3. CASE q # p
        BY <2>1, <2>2, <3>1, <4>1, <4>3 DEF OutOnce
      <4> QED BY <4>2, <4>3
    <3> QED BY <3>2, <3>3
  <2> QED BY <2>3, <2>4, <2>5, <2>6 DEF MailInv
<1>8. ASSUME NEW p \in Procs, NEW a \in Advisors, MailFail(p, a) PROVE MailInv'
  <2>1. /\ UNCHANGED <<marker, mailed, resent, wdigest>> /\ Mailing(p)
        /\ pc[p] = "marking" => a \in wcur[p]
        /\ broken' = broken \cup (wdigest[p] \X {a})
        /\ wdone' = [wdone EXCEPT ![p] = @ \cup {a}]
        /\ wcur' = [wcur EXCEPT ![p] = {}]
        /\ pc' = [pc EXCEPT ![p] = "mailing"]
    BY <1>8 DEF MailFail, Goto, Mailing
  <2>2. /\ \A q \in Procs \ {p} : Same(q)
        /\ pc'[p] = "mailing" /\ wdone'[p] = wdone[p] \cup {a}
    BY <2>1 DEF TypeInv, TypeOK
  <2>3. Alone'
    BY <2>1, <2>2 DEF MailInv, Alone, Mailing
  <2>4. KnowsMarkers'
    BY <2>1, <2>2 DEF MailInv, KnowsMarkers, Mailing
  <2>5. MarkingOne'
    BY <2>1, <2>2 DEF MailInv, MarkingOne
  <2>6. pc[p] = "marking" => wcur[p] = {a}
    BY <2>1 DEF MailInv, MarkingOne
  <2>7. Accounted'
    <3> SUFFICES ASSUME NEW d \in Digests, NEW b \in Advisors, d \notin resent', <<d, b>> \notin broken',
                        mailed'[d][b] # 0
                 PROVE  OutOnce(d, b)'
      BY DEF Accounted
    <3>1. OutOnce(d, b)
      BY <2>1, <2>2 DEF MailInv, Accounted
    <3>2. CASE <<d, b>> \in marker
      BY <2>1, <2>2, <3>1, <3>2 DEF OutOnce
    <3>3. CASE <<d, b>> \notin marker
      <4>1. PICK q \in Procs : pc[q] = "marking" /\ d \in wdigest[q] /\ b \in wcur[q]
        BY <3>1, <3>3 DEF OutOnce
      <4>2. CASE q = p
        BY <2>1, <2>2, <2>6, <3>1, <4>1, <4>2 DEF OutOnce
      <4>3. CASE q # p
        BY <2>1, <2>2, <3>1, <4>1, <4>3 DEF OutOnce
      <4> QED BY <4>2, <4>3
    <3> QED BY <3>2, <3>3
  <2> QED BY <2>3, <2>4, <2>5, <2>7 DEF MailInv
<1>9. ASSUME NEW p \in Procs, Crash(p) PROVE MailInv'
  <2>1. /\ UNCHANGED <<marker, mailed, resent>> /\ broken \subseteq broken' /\ Leave(p)
        /\ broken' = broken \cup (wdigest[p] \X wcur[p])
    BY <1>9 DEF Crash
  <2>2. pc'[p] = "idle" /\ \A q \in Procs \ {p} : Same(q)
    BY <2>1 DEF Leave, Goto, TypeInv, TypeOK
  <2>3. CASE pc[p] # "marking"
    BY <1>1, <2>1, <2>2, <2>3
  <2>4. CASE pc[p] = "marking"
    <3>1. PICK a \in Advisors \ wdone[p] : wcur[p] = {a}
      BY <2>4 DEF MailInv, MarkingOne
    <3>2. \A d \in wdigest[p] : <<d, a>> \in broken'
      BY <2>1, <3>1
    <3>3. Alone'
      BY <2>1, <2>2 DEF MailInv, Alone, Mailing
    <3>4. KnowsMarkers'
      BY <2>1, <2>2 DEF MailInv, KnowsMarkers, Mailing
    <3>5. MarkingOne'
      BY <2>2 DEF MailInv, MarkingOne
    <3>6. Accounted'
      <4> SUFFICES ASSUME NEW d \in Digests, NEW b \in Advisors, d \notin resent', <<d, b>> \notin broken',
                          mailed'[d][b] # 0
                   PROVE  OutOnce(d, b)'
        BY DEF Accounted
      <4>1. OutOnce(d, b)
        BY <2>1, <2>2 DEF MailInv, Accounted
      <4>2. CASE <<d, b>> \in marker
        BY <2>1, <2>2, <4>1, <4>2 DEF OutOnce
      <4>3. CASE <<d, b>> \notin marker
        <5>1. PICK q \in Procs : pc[q] = "marking" /\ d \in wdigest[q] /\ b \in wcur[q]
          BY <4>1, <4>3 DEF OutOnce
        <5>2. CASE q = p
          BY <2>1, <2>2, <3>1, <3>2, <4>1, <5>1, <5>2 DEF OutOnce
        <5>3. CASE q # p
          BY <2>1, <2>2, <4>1, <5>1, <5>3 DEF OutOnce
        <5> QED BY <5>2, <5>3
      <4> QED BY <4>2, <4>3
    <3> QED BY <3>3, <3>4, <3>5, <3>6 DEF MailInv
  <2> QED BY <2>3, <2>4
<1>10. CASE UNCHANGED vars
  BY <1>1, <1>10 DEF vars, mailVars, history
<1> QED BY <1>2, <1>3, <1>4, <1>5, <1>6, <1>7, <1>8, <1>9, <1>10 DEF Next, Step

\* An advisor gets a digest's email once unless it was sent twice at once or failed.
THEOREM EmailSentOnce == Spec => []EmailOnce
<1>1. Init => MailInv
  BY DEF Init, MailInv, Alone, KnowsMarkers, MarkingOne, Accounted, Mailing
<1>2. MailInv => EmailOnce
  <2> SUFFICES ASSUME Accounted, NEW d \in Digests, NEW a \in Advisors, d \notin resent, <<d, a>> \notin broken
               PROVE  mailed[d][a] <= 1
    BY DEF MailInv, EmailOnce
  <2>1. mailed[d][a] = 0 \/ mailed[d][a] = 1
    BY DEF Accounted, OutOnce
  <2> QED BY <2>1
<1> QED BY <1>1, <1>2, InitTypes, TypeStep, MailStep, PTL DEF Spec
=============================================================================
