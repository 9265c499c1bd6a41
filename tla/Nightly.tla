------------------------------- MODULE Nightly -------------------------------
(***************************************************************************)
(* The nightly risk detection: a worker opens or resumes a risk_run, pulls *)
(* the source's pages into raw_staging under the run's own id, scores the  *)
(* clients from the staged pages in one transaction that also builds the   *)
(* digest, mails every advisor, and deletes what retention no longer keeps.*)
(* Workers are processes: the cron job's, and whoever resumes a run by its *)
(* id; senders are the script that mails a digest by hand.  Each may die   *)
(* between any two of its commits.  The code takes no row lock, so a state *)
(* that is read and then written is two steps.  What a page says is left   *)
(* out: the model follows which pages a run has staged, counted and scored.*)
(***************************************************************************)
EXTENDS Naturals, FiniteSets

CONSTANTS
    Workers,   \* processes that run RiskDetectionWorker.run
    Senders,   \* processes that run scripts/digest/send_email.py
    Nights,    \* how many runs are started
    LastPage,  \* the source's last page
    PageLimits,\* the max_pages a worker may be given
    Advisors,  \* the roster
    RawKeep,   \* RAW_STAGING_RUNS_TO_KEEP
    RiskKeep,  \* RISK_RUNS_TO_KEEP
    MaxTimes,  \* bound: how often a page is processed or an email is sent
    MaxStarts  \* bound: how often a worker starts

ASSUME NightlyAssumption ==
    /\ Workers \cap Senders = {}
    /\ Nights \in Nat /\ LastPage \in Nat \ {0} /\ PageLimits \subseteq Nat
    /\ RawKeep \in Nat \ {0} /\ RiskKeep \in Nat \ {0} /\ MaxTimes \in Nat /\ MaxStarts \in Nat

Procs == Workers \cup Senders
Runs == 1 .. Nights
Pages == 1 .. LastPage
Digests == Runs \X Workers   \* a worker builds a run's digest at most once

VARIABLES
    risk,      \* risk_run.state, "none" before the run is started
    pull,      \* ingestion_status.state of the run, "none" without a row
    pulledAt,  \* the order of ingestion_status.started_at, 0 without a row
    cursor,    \* ingestion_status.page_cursor
    seen,      \* ingestion_status.records_seen, in pages
    rejects,   \* ingestion_reject rows of the run, per page
    raw,       \* the pages of the run in raw_staging
    snap,      \* risk_snapshot has the run's rows
    built,     \* digest_run
    marker,    \* digest_email_send
    pc,        \* where each process is
    wrun,      \* the run it works on, 0 for none
    wafter,    \* IngestionWorker.run's after: the page checkpointed last
    wknown,    \* _known_last_page is set
    wseen,     \* the counters in its ingestion session
    wleft,     \* how many pages its call may still pull
    wpages,    \* the pages flatten_active_run has read
    wsnap,     \* whether it found the run's snapshots written
    wdigest,   \* the digest it mails
    wdone,     \* the advisors it is done with
    wcur,      \* the advisor just mailed
    mailed,    \* how many emails went out per digest and advisor
    starts,    \* how often a worker has started
    scored,    \* the pages the run was last scored from
    shared,    \* the runs two workers have worked on at once
    pruned,    \* the runs whose pages were deleted before they were scored
    capped,    \* the runs whose pull a call completed at its page limit
    resent,    \* the digests two processes mailed at once
    broken,    \* the digest and advisor pairs whose send or marker failed
    died       \* the digests whose worker died before it was done mailing

pullVars == <<pull, pulledAt, cursor, seen, rejects, raw>>
scoreVars == <<risk, snap, built>>
pageVars == <<wafter, wknown, wseen, wleft>>
mailVars == <<wdigest, wdone, wcur>>
history == <<starts, mailed, scored, shared, pruned, capped, resent, broken, died>>
vars == <<pullVars, scoreVars, marker, pc, wrun, pageVars, wpages, wsnap, mailVars,
          history>>

-----------------------------------------------------------------------------
States == {"none", "running", "failed", "completed"}
WorkerPCs == {"open", "pull", "reopen", "page", "stored", "score", "scoring", "markpull",
              "failing", "markrun", "prune"}
MailPCs == {"mail", "mailing", "marking"}

TypeOK ==
    /\ risk \in [Runs -> States] /\ pull \in [Runs -> States]
    /\ pulledAt \in [Runs -> Nat]
    /\ cursor \in [Runs -> 0 .. LastPage + 1]
    /\ seen \in [Runs -> Nat]
    /\ rejects \in [Runs -> [Pages -> Nat]]
    /\ raw \in [Runs -> SUBSET Pages]
    /\ snap \in [Runs -> BOOLEAN]
    /\ built \subseteq Digests
    /\ marker \subseteq Digests \X Advisors
    /\ pc \in [Procs -> WorkerPCs \cup MailPCs \cup {"idle"}]
    /\ wrun \in [Procs -> 0 .. Nights]
    /\ wafter \in [Procs -> 0 .. LastPage + 1]
    /\ wknown \in [Procs -> BOOLEAN]
    /\ wseen \in [Procs -> Nat]
    /\ wleft \in [Procs -> Nat]
    /\ wpages \in [Procs -> SUBSET Pages]
    /\ wsnap \in [Procs -> BOOLEAN]
    /\ wdigest \in [Procs -> SUBSET Digests]
    /\ wdone \in [Procs -> SUBSET Advisors]
    /\ wcur \in [Procs -> SUBSET Advisors]
    /\ mailed \in [Digests -> [Advisors -> Nat]]
    /\ starts \in Nat
    /\ scored \in [Runs -> SUBSET Pages]
    /\ shared \subseteq Runs /\ pruned \subseteq Runs /\ capped \subseteq Runs
    /\ resent \subseteq Digests /\ broken \subseteq Digests \X Advisors
    /\ died \subseteq Digests

Init ==
    /\ risk = [r \in Runs |-> "none"] /\ pull = [r \in Runs |-> "none"]
    /\ pulledAt = [r \in Runs |-> 0]
    /\ cursor = [r \in Runs |-> 0]
    /\ seen = [r \in Runs |-> 0]
    /\ rejects = [r \in Runs |-> [k \in Pages |-> 0]]
    /\ raw = [r \in Runs |-> {}]
    /\ snap = [r \in Runs |-> FALSE]
    /\ built = {} /\ marker = {}
    /\ pc = [p \in Procs |-> "idle"]
    /\ wrun = [p \in Procs |-> 0]
    /\ wafter = [p \in Procs |-> 0]
    /\ wknown = [p \in Procs |-> FALSE]
    /\ wseen = [p \in Procs |-> 0]
    /\ wleft = [p \in Procs |-> 0]
    /\ wpages = [p \in Procs |-> {}]
    /\ wsnap = [p \in Procs |-> FALSE]
    /\ wdigest = [p \in Procs |-> {}]
    /\ wdone = [p \in Procs |-> {}]
    /\ wcur = [p \in Procs |-> {}]
    /\ mailed = [d \in Digests |-> [a \in Advisors |-> 0]]
    /\ starts = 0
    /\ scored = [r \in Runs |-> {}]
    /\ shared = {} /\ pruned = {} /\ capped = {}
    /\ resent = {} /\ broken = {} /\ died = {}

Goto(p, l) == pc' = [pc EXCEPT ![p] = l]

\* The process is done; what it had in memory is gone.
Leave(p) ==
    /\ Goto(p, "idle")
    /\ wrun' = [wrun EXCEPT ![p] = 0]
    /\ wafter' = [wafter EXCEPT ![p] = 0]
    /\ wknown' = [wknown EXCEPT ![p] = FALSE]
    /\ wseen' = [wseen EXCEPT ![p] = 0]
    /\ wleft' = [wleft EXCEPT ![p] = 0]
    /\ wpages' = [wpages EXCEPT ![p] = {}]
    /\ wsnap' = [wsnap EXCEPT ![p] = FALSE]
    /\ wdigest' = [wdigest EXCEPT ![p] = {}]
    /\ wdone' = [wdone EXCEPT ![p] = {}]
    /\ wcur' = [wcur EXCEPT ![p] = {}]

-----------------------------------------------------------------------------
(* RiskDetectionWorker._open_run and IngestionWorker.run.                   *)

TakesOn(p, r) ==
    /\ starts < MaxStarts /\ starts' = starts + 1
    /\ wrun' = [wrun EXCEPT ![p] = r]
    /\ shared' = IF \E q \in Workers : wrun[q] = r THEN shared \cup {r} ELSE shared
    /\ UNCHANGED <<pullVars, snap, built, marker, pageVars, wpages, wsnap, mailVars,
                   mailed, scored, pruned, capped, resent, broken, died>>

\* Mutant: a run that completed is opened again.
OpenAnyRun(p, r) ==
    /\ p \in Workers /\ pc[p] = "idle"
    /\ risk[r] # "none" \/ \A q \in Runs : q < r => risk[q] # "none"
    /\ risk' = [risk EXCEPT ![r] = "running"] /\ Goto(p, "pull")
    /\ TakesOn(p, r)

\* A new run is inserted, or one that has not completed is read by its id; the
\* run of another worker that still goes too, for nothing but the cron job's lock
\* forbids it.  Of a run that is running nothing is written.
OpenRun(p, r) ==
    /\ p \in Workers /\ pc[p] = "idle"
    /\ \/ /\ risk[r] = "none" /\ \A q \in Runs : q < r => risk[q] # "none"
          /\ risk' = [risk EXCEPT ![r] = "running"] /\ Goto(p, "pull")
       \/ risk[r] = "running" /\ UNCHANGED risk /\ Goto(p, "pull")
       \/ risk[r] = "failed" /\ UNCHANGED risk /\ Goto(p, "open")
    /\ TakesOn(p, r)

\* The failed run is set running, whatever its row says by now.
OpenCommit(p) ==
    /\ pc[p] = "open"
    /\ risk' = [risk EXCEPT ![wrun[p]] = "running"]
    /\ Goto(p, "pull")
    /\ UNCHANGED <<pullVars, snap, built, marker, wrun, pageVars, wpages, wsnap, mailVars,
                   history>>

\* The pull goes on after the cursor and with the counters that were read, for
\* as many pages as the caller allows.
TakeUpPull(p) ==
    /\ wafter' = [wafter EXCEPT ![p] = cursor[wrun[p]]]
    /\ wseen' = [wseen EXCEPT ![p] = seen[wrun[p]]]
    /\ \E n \in PageLimits : wleft' = [wleft EXCEPT ![p] = n]
    /\ UNCHANGED wknown

\* Mutant: a pull that was started is not repeated, completed or not.
OpenPullOnce(p) ==
    LET r == wrun[p] IN
    /\ pc[p] = "pull"
    /\ IF pull[r] # "none"
         THEN Goto(p, "score") /\ UNCHANGED <<pull, pulledAt, pageVars>>
         ELSE /\ pull' = [pull EXCEPT ![r] = "running"]
              /\ pulledAt' = [pulledAt EXCEPT ![r] = 1]
              /\ TakeUpPull(p)
              /\ Goto(p, "page")
    /\ UNCHANGED <<cursor, seen, rejects, raw, scoreVars, marker, wrun, wpages,
                   wsnap, mailVars, history>>

\* The pull's row is made or read; a pull that completed is not repeated.
OpenPull(p) ==
    LET r == wrun[p] IN
    /\ pc[p] = "pull"
    /\ \/ /\ pull[r] = "none"
          /\ pull' = [pull EXCEPT ![r] = "running"]
          /\ pulledAt' = [pulledAt EXCEPT ![r] =
                            1 + Cardinality({q \in Runs : pulledAt[q] # 0})]
          /\ TakeUpPull(p) /\ Goto(p, "page")
       \/ pull[r] = "running" /\ TakeUpPull(p) /\ Goto(p, "page") /\ UNCHANGED <<pull, pulledAt>>
       \/ pull[r] = "failed" /\ TakeUpPull(p) /\ Goto(p, "reopen") /\ UNCHANGED <<pull, pulledAt>>
       \/ pull[r] = "completed" /\ Goto(p, "score") /\ UNCHANGED <<pull, pulledAt, pageVars>>
    /\ UNCHANGED <<cursor, seen, rejects, raw, scoreVars, marker, wrun, wpages, wsnap,
                   mailVars, history>>

\* The failed pull is set running, whatever its row says by now.
ReopenPull(p) ==
    /\ pc[p] = "reopen"
    /\ pull' = [pull EXCEPT ![wrun[p]] = "running"]
    /\ Goto(p, "page")
    /\ UNCHANGED <<pulledAt, cursor, seen, rejects, raw, scoreVars, marker, wrun, pageVars,
                   wpages, wsnap, mailVars, history>>

\* The page _fetch_page asks for; past the last one the source sends an empty
\* page, whose number is not told apart here.
NextPage(p) == IF wafter[p] > LastPage THEN wafter[p] ELSE wafter[p] + 1

\* The page limit of the call is not reached, and _fetch_page finds a page: a
\* worker that has not seen last_page yet asks in any case.
HasNext(p) == wleft[p] > 0 /\ (~wknown[p] \/ wafter[p] < LastPage)

\* Mutant: the rejects are stored with the payload too, before the cursor moves.
RejectWithPayload(p) ==
    /\ pc[p] = "page"
    /\ HasNext(p)
    /\ raw' = [raw EXCEPT ![wrun[p]] = @ \cup ({NextPage(p)} \cap Pages)]
    /\ rejects' = [rejects EXCEPT ![wrun[p]] = [k \in Pages |->
                        IF k = NextPage(p) THEN @[k] + 1 ELSE @[k]]]
    /\ wknown' = [wknown EXCEPT ![p] = TRUE]
    /\ Goto(p, "stored")
    /\ UNCHANGED <<pull, pulledAt, cursor, seen, scoreVars, marker, wrun, wafter, wseen, wleft,
                   wpages, wsnap, mailVars, history>>

\* The page is fetched, staged and committed.
StoreRaw(p) ==
    /\ pc[p] = "page"
    /\ HasNext(p)
    /\ raw' = [raw EXCEPT ![wrun[p]] = @ \cup ({NextPage(p)} \cap Pages)]
    /\ wknown' = [wknown EXCEPT ![p] = TRUE]
    /\ Goto(p, "stored")
    /\ UNCHANGED <<pull, pulledAt, cursor, seen, rejects, scoreVars, marker, wrun, wafter,
                   wseen, wleft, wpages, wsnap, mailVars, history>>

\* Mutant: the cursor is not saved with the counts.
ProcessKeepCursor(p) ==
    /\ pc[p] = "stored"
    /\ NextPage(p) \in Pages => rejects[wrun[p]][NextPage(p)] < MaxTimes
    /\ wseen' = [wseen EXCEPT ![p] = @ + 1]
    /\ seen' = [seen EXCEPT ![wrun[p]] = wseen[p] + 1]
    /\ wafter' = [wafter EXCEPT ![p] = NextPage(p)]
    /\ wleft' = [wleft EXCEPT ![p] = @ - 1]
    /\ Goto(p, "page")
    /\ UNCHANGED <<pull, pulledAt, raw, cursor, rejects, scoreVars, marker, wrun, wknown,
                   wpages, wsnap, mailVars, history>>

\* The page is counted, its rejects are stored and the cursor moves, in one
\* commit; the counters are the session's own, as it first read them.
ProcessPage(p) ==
    LET r == wrun[p]  k == NextPage(p) IN
    /\ pc[p] = "stored"
    /\ k \in Pages => rejects[r][k] < MaxTimes
    /\ wseen' = [wseen EXCEPT ![p] = IF k \in Pages THEN @ + 1 ELSE @]
    /\ seen' = [seen EXCEPT ![r] = IF k \in Pages THEN wseen[p] + 1 ELSE @]
    /\ rejects' = [rejects EXCEPT ![r] = [j \in Pages |-> IF j = k THEN @[j] + 1 ELSE @[j]]]
    /\ cursor' = [cursor EXCEPT ![r] = k]
    /\ wafter' = [wafter EXCEPT ![p] = k]
    /\ wleft' = [wleft EXCEPT ![p] = @ - 1]
    /\ Goto(p, "page")
    /\ UNCHANGED <<pull, pulledAt, raw, scoreVars, marker, wrun, wknown, wpages, wsnap,
                   mailVars, history>>

\* The loop ends, at the last page or at the limit: the pull is completed either
\* way, and its worker object goes.
CompletePull(p) ==
    LET r == wrun[p] IN
    /\ pc[p] = "page"
    /\ ~HasNext(p)
    /\ pull' = [pull EXCEPT ![r] = "completed"]
    /\ capped' = IF wafter[p] < LastPage THEN capped \cup {r} ELSE capped
    /\ wafter' = [wafter EXCEPT ![p] = 0]
    /\ wknown' = [wknown EXCEPT ![p] = FALSE]
    /\ wseen' = [wseen EXCEPT ![p] = 0]
    /\ wleft' = [wleft EXCEPT ![p] = 0]
    /\ Goto(p, "score")
    /\ UNCHANGED <<pulledAt, cursor, seen, rejects, raw, scoreVars, marker, wrun, wpages,
                   wsnap, mailVars, starts, mailed, scored, shared, pruned, resent, broken, died>>

-----------------------------------------------------------------------------
(* Scoring: RiskDetectionWorker.run from flatten_active_run to its commit.  *)

\* Mutant: the digest is built in a transaction of its own.
ScoreReadAndBuild(p) ==
    /\ pc[p] = "score"
    /\ wpages' = [wpages EXCEPT ![p] = raw[wrun[p]]]
    /\ wsnap' = [wsnap EXCEPT ![p] = snap[wrun[p]]]
    /\ built' = built \cup {<<wrun[p], p>>}
    /\ Goto(p, "scoring")
    /\ UNCHANGED <<pullVars, risk, snap, marker, wrun, pageVars, mailVars, history>>

\* The staged pages and the run's snapshots are read.
ScoreRead(p) ==
    /\ pc[p] = "score"
    /\ wpages' = [wpages EXCEPT ![p] = raw[wrun[p]]]
    /\ wsnap' = [wsnap EXCEPT ![p] = snap[wrun[p]]]
    /\ Goto(p, "scoring")
    /\ UNCHANGED <<pullVars, scoreVars, marker, wrun, pageVars, mailVars, history>>

\* A snapshot is unique per run and client: writing it fails when another
\* worker has written it since.
SnapshotConflict(p) == snap[wrun[p]] /\ ~wsnap[p] /\ wpages[p] # {}

\* Snapshots, features, the digest and the state are committed together; without
\* a roster there is nobody to mail.
ScoreCommit(p) ==
    LET r == wrun[p] IN
    /\ pc[p] = "scoring"
    /\ ~SnapshotConflict(p)
    /\ snap' = [snap EXCEPT ![r] = @ \/ (wpages[p] # {} /\ ~wsnap[p])]
    /\ built' = built \cup {<<r, p>>}
    /\ risk' = [risk EXCEPT ![r] = "completed"]
    /\ scored' = [scored EXCEPT ![r] = wpages[p]]
    /\ wdigest' = [wdigest EXCEPT ![p] = {<<r, p>>}]
    /\ wpages' = [wpages EXCEPT ![p] = {}] /\ wsnap' = [wsnap EXCEPT ![p] = FALSE]
    /\ Goto(p, IF Advisors = {} THEN "prune" ELSE "mail")
    /\ UNCHANGED <<pullVars, marker, wrun, pageVars, wdone, wcur, starts, mailed,
                   shared, pruned, capped, resent, broken, died>>

(* An exception: IngestionWorker._mark_failed and, once it has passed on,   *)
(* RiskDetectionWorker._mark_failed, each a read and then a write.          *)

\* RiskDetectionWorker._mark_failed reads the run; one that has completed or
\* failed is left so.
ReadRunFailed(p) ==
    IF risk[wrun[p]] = "running"
      THEN /\ Goto(p, "markrun")
           /\ wafter' = [wafter EXCEPT ![p] = 0]
           /\ wknown' = [wknown EXCEPT ![p] = FALSE]
           /\ wseen' = [wseen EXCEPT ![p] = 0]
           /\ wleft' = [wleft EXCEPT ![p] = 0]
           /\ wpages' = [wpages EXCEPT ![p] = {}]
           /\ wsnap' = [wsnap EXCEPT ![p] = FALSE]
           /\ UNCHANGED <<wrun, mailVars>>
      ELSE Leave(p)

\* An exception outside the pull; the probe of the source fails before the
\* pull's handler is in force.
Fail(p) ==
    /\ pc[p] \in {"open", "pull", "score", "scoring"}
    /\ ReadRunFailed(p)
    /\ UNCHANGED <<pullVars, scoreVars, marker, history>>

\* An exception in the pull: its handler reads the pull.
FailPull(p) ==
    /\ pc[p] \in {"pull", "reopen", "page", "stored"}
    /\ Goto(p, IF pull[wrun[p]] = "running" THEN "markpull" ELSE "failing")
    /\ wafter' = [wafter EXCEPT ![p] = 0]
    /\ wknown' = [wknown EXCEPT ![p] = FALSE]
    /\ wseen' = [wseen EXCEPT ![p] = 0]
    /\ wleft' = [wleft EXCEPT ![p] = 0]
    /\ UNCHANGED <<pullVars, scoreVars, marker, wrun, wpages, wsnap, mailVars, history>>

\* The pull is set failed, whatever its row says by now.
MarkPull(p) ==
    /\ pc[p] = "markpull"
    /\ pull' = [pull EXCEPT ![wrun[p]] = "failed"]
    /\ Goto(p, "failing")
    /\ UNCHANGED <<pulledAt, cursor, seen, rejects, raw, scoreVars, marker, wrun, pageVars, wpages,
                   wsnap, mailVars, history>>

\* The exception has left the pull.
PassOn(p) ==
    /\ pc[p] = "failing"
    /\ ReadRunFailed(p)
    /\ UNCHANGED <<pullVars, scoreVars, marker, history>>

\* The run is set failed, whatever its row says by now.
MarkRun(p) ==
    /\ pc[p] = "markrun"
    /\ risk' = [risk EXCEPT ![wrun[p]] = "failed"]
    /\ Leave(p)
    /\ UNCHANGED <<pullVars, snap, built, marker, history>>

-----------------------------------------------------------------------------
(* send_digest_emails, of a worker after its commit and of a sender.        *)

\* The script is told a digest.
OpenSend(p, d) ==
    /\ p \in Senders /\ pc[p] = "idle"
    /\ d \in built
    /\ wdigest' = [wdigest EXCEPT ![p] = {d}]
    /\ Goto(p, "mail")
    /\ UNCHANGED <<pullVars, scoreVars, marker, wrun, pageVars, wpages, wsnap, wdone, wcur,
                   history>>

\* Mutant: the markers of an earlier call are not looked at.
MailReadNothing(p) ==
    /\ pc[p] = "mail"
    /\ wdone' = [wdone EXCEPT ![p] = {}]
    /\ Goto(p, "mailing")
    /\ UNCHANGED <<pullVars, scoreVars, marker, wrun, pageVars, wpages, wsnap, wdigest, wcur,
                   history>>

\* _already_sent.
MailRead(p) ==
    /\ pc[p] = "mail"
    /\ wdone' = [wdone EXCEPT ![p] = {a \in Advisors : \E d \in wdigest[p] : <<d, a>> \in marker}]
    /\ Goto(p, "mailing")
    /\ resent' = IF \E q \in Procs \ {p} : pc[q] \in MailPCs \ {"mail"} /\ wdigest[q] = wdigest[p]
                   THEN resent \cup wdigest[p] ELSE resent
    /\ UNCHANGED <<pullVars, scoreVars, marker, wrun, pageVars, wpages, wsnap, wdigest, wcur,
                   starts, mailed, scored, shared, pruned, capped, broken, died>>

\* mailer.send returns: the email is out.
MailSend(p, a) ==
    /\ pc[p] = "mailing"
    /\ a \notin wdone[p]
    /\ \A d \in wdigest[p] : mailed[d][a] < MaxTimes
    /\ mailed' = [d \in Digests |-> IF d \in wdigest[p]
                    THEN [mailed[d] EXCEPT ![a] = @ + 1] ELSE mailed[d]]
    /\ wcur' = [wcur EXCEPT ![p] = {a}]
    /\ Goto(p, "marking")
    /\ UNCHANGED <<pullVars, scoreVars, marker, wrun, pageVars, wpages, wsnap, wdigest, wdone,
                   starts, scored, shared, pruned, capped, resent, broken, died>>

\* The marker is committed, or found to be there.
MailMark(p) ==
    /\ pc[p] = "marking"
    /\ marker' = marker \cup (wdigest[p] \X wcur[p])
    /\ wdone' = [wdone EXCEPT ![p] = @ \cup wcur[p]]
    /\ wcur' = [wcur EXCEPT ![p] = {}]
    /\ Goto(p, "mailing")
    /\ UNCHANGED <<pullVars, scoreVars, wrun, pageVars, wpages, wsnap, wdigest, history>>

\* mailer.send raises, or the marker cannot be committed: the failure is
\* recorded and the next advisor's turn comes.
MailFail(p, a) ==
    /\ \/ pc[p] = "mailing" /\ a \notin wdone[p]
       \/ pc[p] = "marking" /\ a \in wcur[p]
    /\ broken' = broken \cup (wdigest[p] \X {a})
    /\ wdone' = [wdone EXCEPT ![p] = @ \cup {a}]
    /\ wcur' = [wcur EXCEPT ![p] = {}]
    /\ Goto(p, "mailing")
    /\ UNCHANGED <<pullVars, scoreVars, marker, wrun, pageVars, wpages, wsnap, wdigest,
                   starts, mailed, scored, shared, pruned, capped, resent, died>>

\* Mutant: the loop ends with the first advisor.
MailFirstOnly(p) ==
    /\ pc[p] = "mailing"
    /\ wdone[p] # {}
    /\ Leave(p)
    /\ UNCHANGED <<pullVars, scoreVars, marker, history>>

\* Every advisor has had a turn; the worker goes on to the retention.
MailDone(p) ==
    /\ pc[p] = "mailing"
    /\ wdone[p] = Advisors
    /\ IF p \in Workers
         THEN Goto(p, "prune") /\ UNCHANGED <<wrun, pageVars, wpages, wsnap, mailVars>>
         ELSE Leave(p)
    /\ UNCHANGED <<pullVars, scoreVars, marker, history>>

-----------------------------------------------------------------------------
(* retention.                                                               *)

\* The completed pulls that started after r's.
NewerPulls(r) == {q \in Runs : pull[q] = "completed" /\ pulledAt[q] > pulledAt[r]}

\* Mutant: the pulls are ordered by started_at ascending.
StalePullsAscending ==
    {r \in Runs : pull[r] = "completed" /\
        Cardinality({q \in Runs : pull[q] = "completed" /\ pulledAt[q] < pulledAt[r]}) >= RawKeep}

\* _stale_pull_run_ids: completed pulls with RawKeep newer ones, and failed
\* pulls older than the newest completed one.
StalePulls ==
    {r \in Runs : \/ pull[r] = "completed" /\ Cardinality(NewerPulls(r)) >= RawKeep
                  \/ pull[r] = "failed" /\ NewerPulls(r) # {}}

\* _delete_snapshots_of_older_runs: not running, not among the RiskKeep newest
\* completed ones.
StaleRuns ==
    {r \in Runs :
        /\ risk[r] \notin {"none", "running"}
        /\ risk[r] = "completed" =>
             Cardinality({q \in Runs : risk[q] = "completed" /\ q > r}) >= RiskKeep}

Prune(p) ==
    /\ pc[p] = "prune"
    /\ raw' = [r \in Runs |-> IF r \in StalePulls THEN {} ELSE raw[r]]
    /\ snap' = [r \in Runs |-> snap[r] /\ r \notin StaleRuns]
    /\ pruned' = pruned \cup {r \in StalePulls :
                    raw[r] # {} /\ (risk[r] # "completed" \/ \E q \in Workers \ {p} : wrun[q] = r)}
    /\ Leave(p)
    /\ UNCHANGED <<pull, pulledAt, cursor, seen, rejects, risk, built, marker, starts, mailed, scored,
                   shared, capped, resent, broken, died>>

\* The process dies; a transaction that was open is rolled back.
Crash(p) ==
    /\ pc[p] # "idle"
    /\ broken' = broken \cup (wdigest[p] \X wcur[p])
    /\ died' = IF p \in Workers /\ pc[p] \in MailPCs THEN died \cup wdigest[p] ELSE died
    /\ Leave(p)
    /\ UNCHANGED <<pullVars, scoreVars, marker, starts, mailed, scored, shared, pruned, capped, resent>>

-----------------------------------------------------------------------------
\* What a process does of itself once it is started.
Step(p) ==
    \/ OpenCommit(p) \/ OpenPull(p) \/ ReopenPull(p)
    \/ StoreRaw(p) \/ ProcessPage(p) \/ CompletePull(p)
    \/ ScoreRead(p) \/ ScoreCommit(p)
    \/ MarkPull(p) \/ PassOn(p) \/ MarkRun(p)
    \/ MailRead(p) \/ MailMark(p) \/ MailDone(p) \/ Prune(p)
    \/ \E a \in Advisors : MailSend(p, a) \/ MailFail(p, a)

Next ==
    \E p \in Procs :
        \/ \E r \in Runs : OpenRun(p, r)
        \/ \E d \in Digests : OpenSend(p, d)
        \/ Step(p) \/ Fail(p) \/ FailPull(p) \/ Crash(p)

Spec == Init /\ [][Next]_vars

\* A process that is up takes its next step, or fails on a conflict.
Fairness ==
    \A p \in Procs :
        WF_vars(Step(p)) /\ WF_vars(pc[p] = "scoring" /\ SnapshotConflict(p) /\ Fail(p))

FairSpec == Spec /\ Fairness

-----------------------------------------------------------------------------
(* What holds whatever dies, is resumed or shared.                          *)

\* The counters of a pull agree with its cursor at every commit: no page is
\* counted twice or passed over by a resume, even when two workers run at once
\* and each writes the counters its own session holds; only the empty page a
\* resume may ask for at the end moves a shared run's cursor without them.
CountsMatchCursor ==
    \A r \in Runs :
        IF cursor[r] <= LastPage THEN seen[r] = cursor[r]
        ELSE r \in shared \/ seen[r] = LastPage

\* The rejects of a page are stored once, over every crash and resume, unless
\* two workers worked on the run at once (ingestion_reject has no unique key).
RejectsOnce ==
    \A r \in Runs \ shared : \A k \in Pages : rejects[r][k] <= 1

\* A completed run was scored from every page of the source, whichever worker
\* pulled which page and wherever a worker died, unless retention deleted staged
\* pages of the run before it was scored, or its pull was completed at max_pages.
ScoredFromEveryPage ==
    \A r \in Runs : risk[r] = "completed" => scored[r] = Pages \/ r \in pruned \cup capped

\* A run has one digest, and so its advisors one morning email, unless two
\* workers worked on the run at once (digest_run has no unique key).
OneDigest ==
    \A d, e \in built : d[1] = e[1] => d = e \/ d[1] \in shared

\* An advisor gets the email of a digest once, unless two processes mailed the
\* digest at once or a process failed between an email and its marker.
EmailOnce ==
    \A d \in Digests, a \in Advisors :
        mailed[d][a] <= 1 \/ d \in resent \/ <<d, a>> \in broken

\* Retention keeps what is read next: the pages of the pull that completed last
\* in start order, and the snapshots of the newest completed run.  A worker that
\* shares a run may take back that a newer one has completed.
NewestKept ==
    \A r \in Runs :
        /\ /\ pull[r] = "completed" /\ r \notin pruned \cup capped
           /\ \A q \in Runs : pulledAt[q] > pulledAt[r] => pull[q] # "completed" /\ q \notin shared
           => raw[r] = Pages
        /\ /\ risk[r] = "completed" /\ scored[r] # {} /\ r \notin shared
           /\ \A q \in Runs : q > r => risk[q] # "completed" /\ q \notin shared
           => snap[r]

\* A run that completed stays completed: no resume opens it again and no failure
\* marks it.  Only a worker that shared it may, for it writes what it decided on
\* a state it read before (_open_run and _mark_failed take no lock).
CompletedStays ==
    [][\A r \in Runs \ shared : risk[r] = "completed" => risk'[r] = "completed"]_vars

\* Every advisor of a digest is mailed, unless a send failed or the worker that
\* built the digest died before it was done.
AdvisorsMailed ==
    \A d \in Digests, a \in Advisors :
        d \in built ~> (<<d, a>> \in marker \cup broken \/ d \in died)

(* What the documentation promises and the code does not keep.              *)

\* A run that stopped is resumed where it stopped, and scored from everything
\* it pulled (IngestionWorker: "Raw payloads are saved before parsing, so
\* re-processing never calls the source again").
ResumedRunIsWhole == \A r \in Runs : risk[r] = "completed" => scored[r] = Pages
=============================================================================
