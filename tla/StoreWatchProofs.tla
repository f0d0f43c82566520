--------------------------- MODULE StoreWatchProofs ---------------------------
(***************************************************************************)
(* Proofs about StoreWatch: for any number of missions, any length of the  *)
(* source's log and any page size.                                         *)
(*                                                                         *)
(* SyncInv is inductive for the source alone.  For the checks, what is     *)
(* promised of an ended check (asked for: answered) is owed by the running *)
(* one as a recheck; Owes says so for the three things a running check may *)
(* have missed: a request, a manual request, the recovery of the source.   *)
(***************************************************************************)
EXTENDS StoreWatch, TLAPS

-----------------------------------------------------------------------------
(* The source *)

LEMMA NoPageFacts ==
  /\ NoPage \in Pages
  /\ NoPage.got = "nothing" /\ NoPage.after = 0 /\ NoPage.upto = 0 /\ NoPage.more = FALSE
<1>1. 0 \in Sequences
  BY SourceSyncAssumption DEF Sequences
<1> QED
  BY <1>1 DEF NoPage, Pages

\* What a running sync owes, and that finished ones paid, holds at first.
LEMMA SyncInitInv == SyncInit => SyncInv
<1> SUFFICES ASSUME SyncInit PROVE SyncInv
  OBVIOUS
<1>0. 0 \in Sequences
  BY SourceSyncAssumption DEF Sequences
<1>1. SyncTypeOK
  BY <1>0, NoPageFacts DEF SyncInit, SyncTypeOK, JobStatus
<1>2. WithinLog /\ OwedByRunningSync /\ RequestedSyncsAreRead
  BY NoPageFacts DEF SyncInit, WithinLog, OwedByRunningSync, RequestedSyncsAreRead
<1> QED
  BY <1>1, <1>2 DEF SyncInv

\* queue_source() leaves no job SUCCEEDED, and repeats a running one if asked.
LEMMA MergedFacts ==
  ASSUME NEW status \in JobStatus, NEW again \in BOOLEAN, NEW interval \in BOOLEAN
  PROVE  /\ Merged(status, again, interval).status \in {"WAITING", "RUNNING"}
         /\ Merged(status, again, interval).rerun \in BOOLEAN
         /\ Merged(status, again, interval).status = "RUNNING" <=> status = "RUNNING"
         /\ status = "RUNNING" /\ again => Merged(status, again, interval).rerun
         /\ status = "RUNNING" /\ ~interval => Merged(status, again, interval).rerun
  BY DEF Merged, JobStatus

\* The range of the numbers in a page.
LEMMA PageFacts ==
  ASSUME NEW p \in Pages
  PROVE  p.after \in Sequences /\ p.upto \in Sequences /\ p.more \in BOOLEAN
  BY DEF Pages

\* Every step of the source alone keeps SyncInv.
LEMMA SyncStepInv == SyncInv /\ SyncStep => SyncInv'
<1> SUFFICES ASSUME SyncInv, SyncStep PROVE SyncInv'
  OBVIOUS
<1>a. page.after \in Sequences /\ page.upto \in Sequences /\ page.more \in BOOLEAN
  BY PageFacts DEF SyncInv, SyncTypeOK
<1> USE SourceSyncAssumption, <1>a
    DEF SyncInv, SyncTypeOK, WithinLog, OwedByRunningSync, RequestedSyncsAreRead,
        Sequences, JobStatus
<1>1. CASE RequestSync
  <2>0. /\ sync' \in {"WAITING", "RUNNING"} /\ rerun' \in BOOLEAN
        /\ sync' = "RUNNING" => sync = "RUNNING" /\ rerun'
    BY <1>1, MergedFacts DEF RequestSync, QueueSource
  <2>1. SyncTypeOK'
    BY <1>1, <2>0 DEF RequestSync
  <2>2. WithinLog'
    BY <1>1, <2>0 DEF RequestSync
  <2>3. OwedByRunningSync'
    BY <1>1, <2>0 DEF RequestSync
  <2>4. RequestedSyncsAreRead'
    BY <1>1, <2>0 DEF RequestSync
  <2> QED
    BY <2>1, <2>2, <2>3, <2>4
<1>2. CASE IntervalSync
  <2>0. /\ sync' \in {"WAITING", "RUNNING"} /\ rerun' \in BOOLEAN
        /\ sync' = "RUNNING" => sync = "RUNNING" /\ (rerun => rerun')
    BY <1>2, MergedFacts DEF IntervalSync, QueueSource
  <2>1. SyncTypeOK'
    BY <1>2, <2>0 DEF IntervalSync
  <2>2. WithinLog'
    BY <1>2, <2>0 DEF IntervalSync
  <2>3. OwedByRunningSync'
    BY <1>2, <2>0 DEF IntervalSync
  <2>4. RequestedSyncsAreRead'
    BY <1>2, <2>0 DEF IntervalSync
  <2> QED
    BY <2>1, <2>2, <2>3, <2>4
<1>3. CASE SourceLogs
  BY <1>3 DEF SourceLogs
<1>4. CASE GoesStale
  BY <1>4 DEF GoesStale
<1>5. CASE ClaimSync
  BY <1>5, NoPageFacts DEF ClaimSync
<1>6. CASE ReadCursor
  BY <1>6 DEF ReadCursor, Pages
<1>7. CASE SyncFails
  <2>1. SyncTypeOK'
    BY <1>7, NoPageFacts DEF SyncFails
  <2>2. WithinLog'
    BY <1>7, NoPageFacts DEF SyncFails
  <2>3. OwedByRunningSync'
    BY <1>7, NoPageFacts DEF SyncFails
  <2>4. RequestedSyncsAreRead'
    BY <1>7, NoPageFacts DEF SyncFails
  <2> QED
    BY <2>1, <2>2, <2>3, <2>4
<1>8. CASE SyncLeaseLost
  <2>1. SyncTypeOK'
    BY <1>8, NoPageFacts DEF SyncLeaseLost
  <2>2. WithinLog'
    BY <1>8, NoPageFacts DEF SyncLeaseLost
  <2>3. OwedByRunningSync'
    BY <1>8, NoPageFacts DEF SyncLeaseLost
  <2>4. RequestedSyncsAreRead'
    BY <1>8, NoPageFacts DEF SyncLeaseLost
  <2> QED
    BY <2>1, <2>2, <2>3, <2>4
<1>9. ASSUME NEW n \in Sequences, FetchPage(n) PROVE SyncInv'
  <2> DEFINE more == n < log
  <2>0. more \in BOOLEAN
    OBVIOUS
  <2> HIDE DEF more
  <2>1. page' = [page EXCEPT !.got = "page", !.upto = n, !.more = more]
    BY <1>9 DEF FetchPage, more
  <2>2. /\ page' \in Pages /\ page'.upto = n /\ page'.more = more
    BY <2>0, <2>1 DEF Pages
  <2>3. n <= log /\ (~more => n = log)
    BY <1>9 DEF FetchPage, more
  <2>4. UNCHANGED <<log, cursor, fresh, sync, rerun, wanted>>
    BY <1>9 DEF FetchPage
  <2> QED
    BY <2>2, <2>3, <2>4
<1> QED
  BY <1>1, <1>2, <1>3, <1>4, <1>5, <1>6, <1>7, <1>8, <1>9 DEF SyncStep

\* So does the publication of a page, which pays what the job owed.
LEMMA ApplyPageInv == SyncInv /\ ApplyPage => SyncInv'
<1> SUFFICES ASSUME SyncInv, ApplyPage PROVE SyncInv'
  OBVIOUS
<1>a. page.after \in Sequences /\ page.upto \in Sequences /\ page.more \in BOOLEAN
  BY PageFacts DEF SyncInv, SyncTypeOK
<1> USE SourceSyncAssumption, <1>a
    DEF SyncInv, SyncTypeOK, WithinLog, OwedByRunningSync, RequestedSyncsAreRead,
        Sequences, JobStatus
<1>1. AfterPage \in Sequences /\ AfterPage >= page.upto /\ AfterPage >= cursor /\ AfterPage <= log
  BY DEF AfterPage
<1>2. cursor' = AfterPage /\ page' = NoPage /\ UNCHANGED <<log, wanted>> /\ fresh' \in BOOLEAN
  BY DEF ApplyPage
<1>3. /\ sync' \in JobStatus \ {"RUNNING"} /\ rerun' \in BOOLEAN
      /\ sync' = "SUCCEEDED" => ~rerun /\ ~page.more
  BY DEF ApplyPage, Followup, Merged
<1>4. sync' = "SUCCEEDED" => page.upto >= wanted
  BY <1>3 DEF ApplyPage
<1> QED
  BY <1>1, <1>2, <1>3, <1>4, NoPageFacts

\* And a pushed batch.
LEMMA PushInv == ASSUME NEW n \in Sequences, SyncInv, Push(n) PROVE SyncInv'
  BY SourceSyncAssumption
  DEF Push, SyncInv, SyncTypeOK, WithinLog, OwedByRunningSync, RequestedSyncsAreRead,
      Sequences, Pages, NoPage, JobStatus

\* No requested sync is swallowed by one that was already running, for the
\* source and its job alone (scheduling.py 70-73).
THEOREM SyncsAreRead == SyncSpec => []RequestedSyncsAreRead
<1>1. SyncInv /\ [SyncNext]_syncVars => SyncInv'
  <2> SUFFICES ASSUME SyncInv, [SyncNext]_syncVars PROVE SyncInv'
    OBVIOUS
  <2>1. CASE UNCHANGED syncVars
    BY <2>1 DEF syncVars, SyncInv, SyncTypeOK, WithinLog, OwedByRunningSync,
                RequestedSyncsAreRead
  <2> QED
    BY <2>1, SyncStepInv, ApplyPageInv, PushInv DEF SyncNext
<1> QED
  BY <1>1, SyncInitInv, PTL DEF SyncSpec, SyncInv

-----------------------------------------------------------------------------
(* The checks *)

\* What holds of one mission: nothing is prepared unless its check runs; a
\* running check owes a recheck for what it cannot have seen; an ended one
\* leaves nothing open.
Sound(m) ==
    /\ check[m] # "RUNNING" => prep[m].read = "no"
    /\ check[m] = "RUNNING" /\ prep[m].read # "no" /\ mission[m].status = "ACTIVE" =>
          /\ asked[m] => mission[m].recheck
          /\ fresh /\ ~prep[m].fresh => mission[m].recheck
          /\ mission[m].manual /\ ~prep[m].manual => mission[m].recheck
    /\ check[m] = "SUCCEEDED" /\ mission[m].status = "ACTIVE" =>
          /\ asked[m] => skipped[m]
          /\ alert[m] /\ fresh => skipped[m]

CheckInv == CheckTypeOK /\ \A m \in Missions : Sound(m)

WatchInv == SyncInv /\ CheckInv

\* Two snapshots of which a check makes the same, but for its being in force.
SamePrep(p, q) ==
    /\ (q.read = "no") <=> (p.read = "no")
    /\ q.manual = p.manual
    /\ q.fresh = p.fresh

\* What a check goes by in two rows of one mission.
SameRow(r, q) ==
    q.status = r.status /\ q.recheck = r.recheck /\ q.manual = r.manual

\* A step does to a mission one of three things: it keeps what a check goes
\* by, it asks for a check, or it makes the mission inactive.
Kept(m) ==
    /\ mission'[m].status = mission[m].status
    /\ mission'[m].recheck = mission[m].recheck
    /\ mission'[m].manual = mission[m].manual
    /\ check'[m] = check[m] /\ SamePrep(prep[m], prep'[m])
    /\ asked'[m] = asked[m] /\ skipped'[m] = skipped[m]
    /\ alert'[m] = alert[m] \/ fresh' = FALSE
    /\ fresh' => fresh \/ mission[m].status # "ACTIVE"

AskedFor(m) ==
    /\ check'[m] \in {"WAITING", "RUNNING"}
    /\ check'[m] = "RUNNING" => check[m] = "RUNNING" /\ mission'[m].recheck
    /\ check'[m] = "WAITING" => prep'[m].read = "no"

Inactive(m) ==
    /\ mission'[m].status # "ACTIVE"
    /\ check'[m] # "RUNNING" => prep'[m].read = "no"

LEMMA KeptIsSound ==
  ASSUME NEW m \in Missions, Sound(m), Kept(m) PROVE Sound(m)'
  BY DEF Sound, Kept, SamePrep

LEMMA AskedForIsSound ==
  ASSUME NEW m \in Missions, AskedFor(m) PROVE Sound(m)'
  BY DEF Sound, AskedFor

LEMMA InactiveIsSound ==
  ASSUME NEW m \in Missions, Inactive(m) PROVE Sound(m)'
  BY DEF Sound, Inactive

LEMMA CheckInitInv == Init => CheckInv
<1> SUFFICES ASSUME Init PROVE CheckInv
  OBVIOUS
<1>1. Created \in MissionRows /\ NotPrepared \in Prepared /\ NotPrepared.read = "no"
  BY DEF Created, MissionRows, NotPrepared, Prepared
<1>2. CheckTypeOK
  BY <1>1 DEF Init, CheckInit, CheckTypeOK, CheckStatus
<1>3. \A m \in Missions : Sound(m)
  BY <1>1 DEF Init, CheckInit, Sound
<1> QED
  BY <1>2, <1>3 DEF CheckInv

-----------------------------------------------------------------------------
(* Asking for checks *)

\* queue_check() keeps the rows' types and, of the missions not asked about,
\* the rows and the jobs; the others' checks wait or are to be repeated.
LEMMA QueuedFacts ==
  ASSUME NEW rows \in [Missions -> MissionRows], NEW jobs \in [Missions -> CheckStatus],
         NEW M \in SUBSET Missions, NEW manual \in BOOLEAN
  PROVE  /\ Queued(rows, jobs, M, manual) \in [Missions -> MissionRows]
         /\ QueuedJobs(jobs, M) \in [Missions -> CheckStatus]
         /\ \A m \in Missions \ M : /\ Queued(rows, jobs, M, manual)[m] = rows[m]
                                    /\ QueuedJobs(jobs, M)[m] = jobs[m]
         /\ \A m \in M :
               /\ Queued(rows, jobs, M, manual)[m].status = rows[m].status
               /\ Queued(rows, jobs, M, manual)[m].manual = (rows[m].manual \/ manual)
               /\ QueuedJobs(jobs, M)[m] = IF jobs[m] = "RUNNING" THEN "RUNNING" ELSE "WAITING"
               /\ jobs[m] = "RUNNING" => Queued(rows, jobs, M, manual)[m].recheck
<1> DEFINE row(m) == [rows[m] EXCEPT !.manual = @ \/ manual,
                                     !.recheck = @ \/ jobs[m] = "RUNNING"]
<1>1. ASSUME NEW m \in Missions
      PROVE  /\ row(m) \in MissionRows
             /\ row(m).status = rows[m].status
             /\ row(m).manual = (rows[m].manual \/ manual)
             /\ jobs[m] = "RUNNING" => row(m).recheck
  <2>1. rows[m] \in MissionRows
    OBVIOUS
  <2> QED
    BY <2>1 DEF MissionRows
<1>2. Queued(rows, jobs, M, manual) = [m \in Missions |-> IF m \in M THEN row(m) ELSE rows[m]]
  BY DEF Queued
<1> HIDE DEF row
<1>3. Queued(rows, jobs, M, manual) \in [Missions -> MissionRows]
  BY <1>1, <1>2
<1>4. QueuedJobs(jobs, M) \in [Missions -> CheckStatus]
  BY DEF QueuedJobs, CheckStatus
<1> QED
  BY <1>1, <1>2, <1>3, <1>4 DEF QueuedJobs

\* A version that moves outdates plans and snapshots and nothing else.
LEMMA MovedFacts ==
  ASSUME NEW rows \in [Missions -> MissionRows]
  PROVE  /\ StateMoves(rows) \in [Missions -> MissionRows]
         /\ \A m \in Missions : SameRow(rows[m], StateMoves(rows)[m])
<1>1. \A r \in MissionRows : OutdatedPlan(r) \in MissionRows /\ SameRow(r, OutdatedPlan(r))
  BY DEF OutdatedPlan, MissionRows, SameRow
<1> QED
  BY <1>1 DEF StateMoves, SameRow

LEMMA PrepsFacts ==
  ASSUME CheckTypeOK, NEW M \in SUBSET Missions
  PROVE  /\ PrepsOutdated(M) \in [Missions -> Prepared]
         /\ \A m \in Missions : SamePrep(prep[m], PrepsOutdated(M)[m])
<1>1. \A p \in Prepared : OutdatedPrep(p) \in Prepared /\ SamePrep(p, OutdatedPrep(p))
  BY DEF OutdatedPrep, Prepared, SamePrep
<1>2. \A m \in Missions : prep[m] \in Prepared
  BY DEF CheckTypeOK
<1> QED
  BY <1>1, <1>2 DEF PrepsOutdated, SamePrep


\* queue_check() for M keeps CheckInv, if the rows it starts from differ only
\* for missions in M and the source did not become fresh for any other.
LEMMA AskingInv ==
  ASSUME CheckInv,
         NEW rows \in [Missions -> MissionRows], NEW M \in SUBSET Missions,
         NEW manual \in BOOLEAN, QueueChecks(rows, M, manual),
         prep' \in [Missions -> Prepared],
         \A m \in Missions : SamePrep(prep[m], prep'[m]),
         UNCHANGED <<alert, skipped>>,
         \A m \in Missions \ M : /\ SameRow(mission[m], rows[m])
                                 /\ fresh' => fresh \/ mission[m].status # "ACTIVE"
  PROVE  CheckInv'
<1> USE DEF CheckInv
<1>0. check \in [Missions -> CheckStatus]
  BY DEF CheckTypeOK
<1>1. /\ mission' \in [Missions -> MissionRows]
      /\ check' \in [Missions -> CheckStatus]
      /\ \A m \in Missions \ M : mission'[m] = rows[m] /\ check'[m] = check[m]
      /\ \A m \in M : /\ check'[m] = IF check[m] = "RUNNING" THEN "RUNNING" ELSE "WAITING"
                      /\ check[m] = "RUNNING" => mission'[m].recheck
  BY <1>0, QueuedFacts DEF QueueChecks
<1>2. /\ asked' \in [Missions -> BOOLEAN]
      /\ \A m \in Missions \ M : asked'[m] = asked[m]
  BY DEF QueueChecks, Asked, CheckTypeOK
<1>3. CheckTypeOK'
  BY <1>1, <1>2 DEF CheckTypeOK
<1>4. ASSUME NEW m \in Missions \ M PROVE Sound(m)'
  <2>1. Kept(m)
    BY <1>1, <1>2 DEF Kept, SameRow
  <2> QED
    BY <2>1, KeptIsSound
<1>5. ASSUME NEW m \in M PROVE Sound(m)'
  <2>1. Sound(m) /\ SamePrep(prep[m], prep'[m])
    OBVIOUS
  <2>2. AskedFor(m)
    BY <1>1, <2>1 DEF AskedFor, Sound, SamePrep
  <2> QED
    BY <2>2, AskedForIsSound
<1> QED
  BY <1>3, <1>4, <1>5

\* So does a step that rewrites rows without asking for anything.
LEMMA RowsInv ==
  ASSUME CheckInv,
         mission' \in [Missions -> MissionRows], prep' \in [Missions -> Prepared],
         \A m \in Missions : SameRow(mission[m], mission'[m]),
         \A m \in Missions : SamePrep(prep[m], prep'[m]),
         UNCHANGED <<check, alert, asked, skipped>>, fresh' => fresh
  PROVE  CheckInv'
<1>1. CheckTypeOK'
  BY DEF CheckInv, CheckTypeOK
<1>2. \A m \in Missions : Sound(m)'
  BY KeptIsSound DEF CheckInv, Kept, SameRow
<1> QED
  BY <1>1, <1>2 DEF CheckInv

\* wake_store_missions() asks every ACTIVE mission.
LEMMA WakeInv ==
  ASSUME CheckInv, NEW moved \in BOOLEAN, Wake(moved), UNCHANGED <<alert, skipped>>
  PROVE  CheckInv'
<1> DEFINE rows == IF moved THEN StateMoves(mission) ELSE mission
<1>0. mission \in [Missions -> MissionRows] /\ prep \in [Missions -> Prepared]
  BY DEF CheckInv, CheckTypeOK
<1>a. /\ StateMoves(mission) \in [Missions -> MissionRows]
      /\ \A m \in Missions : SameRow(mission[m], StateMoves(mission)[m])
  BY <1>0, MovedFacts
<1>1. rows \in [Missions -> MissionRows] /\ \A m \in Missions : SameRow(mission[m], rows[m])
  BY <1>0, <1>a DEF SameRow
<1>2. QueueChecks(rows, Active, FALSE) /\ Active \in SUBSET Missions
  BY DEF Wake, Active
<1>3. /\ prep' \in [Missions -> Prepared]
      /\ \A m \in Missions : SamePrep(prep[m], prep'[m])
  BY <1>0, PrepsFacts DEF Wake, CheckInv, SamePrep
<1> HIDE DEF rows
<1>4. \A m \in Missions \ Active : mission[m].status # "ACTIVE"
  BY DEF Active
<1> QED
  BY <1>1, <1>2, <1>3, <1>4, AskingInv

-----------------------------------------------------------------------------
(* The steps of the missions *)

\* Leaving ACTIVE.
LEMMA SuspendInv ==
  ASSUME CheckInv, NEW m \in Missions, NEW row \in MissionRows,
         row.status # "ACTIVE", Suspend(m, row), UNCHANGED fresh
  PROVE  CheckInv'
<1>0. /\ mission \in [Missions -> MissionRows] /\ check \in [Missions -> CheckStatus]
      /\ prep \in [Missions -> Prepared]
  BY DEF CheckInv, CheckTypeOK
<1>1. /\ prep' \in [Missions -> Prepared]
      /\ \A k \in Missions : SamePrep(prep[k], prep'[k])
  BY PrepsFacts DEF Suspend, CheckInv
<1>2. /\ mission' \in [Missions -> MissionRows] /\ check' \in [Missions -> CheckStatus]
      /\ mission'[m] = row
      /\ check'[m] = IF check[m] = "WAITING" THEN "CANCELLED" ELSE check[m]
      /\ \A k \in Missions \ {m} : mission'[k] = mission[k] /\ check'[k] = check[k]
  BY <1>0 DEF Suspend, CheckStatus
<1>3. CheckTypeOK'
  BY <1>1, <1>2 DEF Suspend, CheckInv, CheckTypeOK
<1>4. \A k \in Missions \ {m} : Kept(k)
  BY <1>1, <1>2 DEF Suspend, Kept
<1>5. Inactive(m)
  BY <1>1, <1>2 DEF Inactive, CheckInv, Sound, SamePrep
<1>6. \A k \in Missions : Sound(k)'
  BY <1>4, <1>5, KeptIsSound, InactiveIsSound DEF CheckInv
<1> QED
  BY <1>3, <1>6 DEF CheckInv


\* What every step on a mission's row starts from.
LEMMA RowFacts ==
  ASSUME CheckInv, NEW m \in Missions
  PROVE  /\ mission \in [Missions -> MissionRows] /\ mission[m] \in MissionRows
         /\ prep \in [Missions -> Prepared]
         /\ {m} \in SUBSET Missions /\ Active \in SUBSET Missions
         /\ \A k \in Missions : SameRow(mission[k], mission[k])
         /\ \A k \in Missions : SamePrep(prep[k], prep[k])
         /\ \A k \in Missions : SamePrep(prep[k], PrepsOutdated({m})[k])
         /\ \A k \in Missions : SamePrep(prep[k], PrepsOutdated(Missions)[k])
         /\ PrepsOutdated({m}) \in [Missions -> Prepared]
         /\ PrepsOutdated(Missions) \in [Missions -> Prepared]
<1>1. CheckTypeOK /\ {m} \in SUBSET Missions /\ Missions \in SUBSET Missions
  BY DEF CheckInv
<1>2. /\ PrepsOutdated({m}) \in [Missions -> Prepared]
      /\ \A k \in Missions : SamePrep(prep[k], PrepsOutdated({m})[k])
  BY <1>1, PrepsFacts
<1>3. /\ PrepsOutdated(Missions) \in [Missions -> Prepared]
      /\ \A k \in Missions : SamePrep(prep[k], PrepsOutdated(Missions)[k])
  BY <1>1, PrepsFacts
<1> QED
  BY <1>1, <1>2, <1>3 DEF CheckTypeOK, Active, SameRow, SamePrep

LEMMA ControlledFacts ==
  ASSUME NEW r \in MissionRows, NEW st \in {"ACTIVE", "PAUSED", "ENDED"}
  PROVE  Controlled(r, st) \in MissionRows /\ Controlled(r, st).status = st
  BY DEF Controlled, MissionRows

\* The steps that ask for nothing and leave every mission as it was.
LEMMA QuietInv ==
  ASSUME CheckInv, UNCHANGED fresh, NEW m \in Missions,
         \/ StoreMoves \/ RevisePlan(m, fresh) \/ OpenCase(m) \/ DecideCase(m)
         \/ Approve(m) \/ Reject(m) \/ SendPurchase(m)
  PROVE  CheckInv'
<1> USE RowFacts
<1> DEFINE Fits(rows) == /\ rows \in [Missions -> MissionRows]
                         /\ \A k \in Missions : SameRow(mission[k], rows[k])
<1>1. Fits(StateMoves(mission))
  BY MovedFacts
<1>2. ASSUME NEW r \in MissionRows, SameRow(mission[m], r)
      PROVE  Fits([mission EXCEPT ![m] = r]) /\ Fits(StateMoves([mission EXCEPT ![m] = r]))
  <2>1. Fits([mission EXCEPT ![m] = r])
    BY <1>2 DEF SameRow
  <2>2. Fits(StateMoves([mission EXCEPT ![m] = r]))
    BY <2>1, MovedFacts DEF SameRow
  <2> QED
    BY <2>1, <2>2
<1>3. CASE StoreMoves
  BY <1>1, <1>3, RowsInv DEF StoreMoves
<1>4. CASE RevisePlan(m, fresh)
  BY <1>4, RowsInv DEF RevisePlan
<1>5. CASE OpenCase(m)
  <2> DEFINE r == [mission[m] EXCEPT !.case = "open",
                      !.plan = IF @ \in {"pending", "outdated"} THEN "none" ELSE @]
  <2>1. r \in MissionRows /\ SameRow(mission[m], r)
    BY DEF MissionRows, SameRow
  <2>2. mission' = [mission EXCEPT ![m] = r]
    BY <1>5 DEF OpenCase
  <2> HIDE DEF r
  <2> QED
    BY <1>2, <1>5, <2>1, <2>2, RowsInv DEF OpenCase
<1>6. CASE DecideCase(m)
  <2> DEFINE r == [mission[m] EXCEPT !.case = "decided"]
  <2>1. r \in MissionRows /\ SameRow(mission[m], r)
    BY DEF MissionRows, SameRow
  <2>2. mission' = [mission EXCEPT ![m] = r]
    BY <1>6 DEF DecideCase
  <2> HIDE DEF r
  <2> QED
    BY <1>2, <1>6, <2>1, <2>2, RowsInv DEF DecideCase
<1>7. CASE Approve(m)
  <2> DEFINE r == [mission[m] EXCEPT !.action = "queued", !.plan = "none"]
  <2>1. r \in MissionRows /\ SameRow(mission[m], r)
    BY DEF MissionRows, SameRow
  <2>2. mission' = [mission EXCEPT ![m] = r]
    BY <1>7 DEF Approve
  <2> HIDE DEF r
  <2> QED
    BY <1>2, <1>7, <2>1, <2>2, RowsInv DEF Approve
<1>8. CASE Reject(m)
  <2> DEFINE r == [mission[m] EXCEPT !.plan = "rejected"]
  <2>1. r \in MissionRows /\ SameRow(mission[m], r)
    BY DEF MissionRows, SameRow
  <2>2. mission' = [mission EXCEPT ![m] = r]
    BY <1>8 DEF Reject
  <2> HIDE DEF r
  <2> QED
    BY <1>2, <1>8, <2>1, <2>2, RowsInv DEF Reject
<1>9. CASE SendPurchase(m)
  <2> DEFINE r == [mission[m] EXCEPT !.action = "sent"]
  <2>1. r \in MissionRows /\ SameRow(mission[m], r)
    BY DEF MissionRows, SameRow
  <2>2. mission' = StateMoves([mission EXCEPT ![m] = r])
    BY <1>9 DEF SendPurchase
  <2> HIDE DEF r
  <2> QED
    BY <1>2, <1>9, <2>1, <2>2, RowsInv DEF SendPurchase
<1> QED
  BY <1>3, <1>4, <1>5, <1>6, <1>7, <1>8, <1>9

\* The steps that ask for checks: by hand, by the timer, on resuming, at the
\* end of a case or of a purchase.
LEMMA AsksInv ==
  ASSUME CheckInv, UNCHANGED fresh, NEW m \in Missions,
         \/ RequestCheck(m) \/ IntervalCheck(m) \/ ResumeMission(m)
         \/ EndCase(m) \/ EndPurchase(m)
  PROVE  CheckInv'
<1> USE RowFacts
<1>1. CASE RequestCheck(m)
  BY <1>1, AskingInv DEF RequestCheck
<1>2. CASE IntervalCheck(m)
  BY <1>2, AskingInv DEF IntervalCheck
<1>3. CASE ResumeMission(m)
  <2> DEFINE r == Controlled(mission[m], "ACTIVE")
             rows == [mission EXCEPT ![m] = r]
  <2>1. rows \in [Missions -> MissionRows]
    BY ControlledFacts
  <2>2. \A k \in Missions \ {m} : SameRow(mission[k], rows[k])
    OBVIOUS
  <2>3. QueueChecks(rows, {m}, TRUE)
    BY <1>3 DEF ResumeMission
  <2> HIDE DEF rows
  <2> QED
    BY <1>3, <2>1, <2>2, <2>3, AskingInv DEF ResumeMission
<1>4. CASE EndCase(m)
  <2> DEFINE r == [mission[m] EXCEPT !.case = "none"]
             rows == [mission EXCEPT ![m].case = "none"]
  <2>0. r \in MissionRows /\ SameRow(mission[m], r)
    BY DEF MissionRows, SameRow
  <2>a. rows = [mission EXCEPT ![m] = r]
    OBVIOUS
  <2>b. UNCHANGED <<prep, alert, skipped>>
        /\ (QueueChecks(rows, {m}, FALSE) \/ (mission' = rows /\ UNCHANGED <<check, asked>>))
    BY <1>4 DEF EndCase
  <2> HIDE DEF r, rows
  <2>1. rows \in [Missions -> MissionRows]
    BY <2>0, <2>a
  <2>2. \A k \in Missions : SameRow(mission[k], rows[k])
    BY <2>0, <2>a
  <2>3. CASE QueueChecks(rows, {m}, FALSE)
    BY <2>1, <2>2, <2>3, <2>b, AskingInv
  <2>4. CASE mission' = rows /\ UNCHANGED <<check, asked>>
    BY <2>1, <2>2, <2>4, <2>b, RowsInv
  <2> QED
    BY <2>3, <2>4, <2>b
<1>5. CASE EndPurchase(m)
  <2> DEFINE r == [mission[m] EXCEPT !.action = "none"]
             plain == [mission EXCEPT ![m].action = "none"]
             rows == IF mission[m].action = "sent" THEN StateMoves(plain) ELSE plain
  <2>0. r \in MissionRows /\ SameRow(mission[m], r)
    BY DEF MissionRows, SameRow
  <2>a. plain = [mission EXCEPT ![m] = r]
    OBVIOUS
  <2>b. /\ QueueChecks(rows, Active \cap {m}, FALSE)
        /\ prep' = PrepsOutdated(Missions) \/ prep' = prep
        /\ UNCHANGED <<alert, skipped>>
    BY <1>5 DEF EndPurchase
  <2> HIDE DEF r
  <2>1. plain \in [Missions -> MissionRows] /\ \A k \in Missions : SameRow(mission[k], plain[k])
    BY <2>0, <2>a
  <2> HIDE DEF plain
  <2>2. /\ StateMoves(plain) \in [Missions -> MissionRows]
        /\ \A k \in Missions : SameRow(plain[k], StateMoves(plain)[k])
    BY <2>1, MovedFacts
  <2>3. rows \in [Missions -> MissionRows] /\ \A k \in Missions : SameRow(mission[k], rows[k])
    BY <2>1, <2>2 DEF SameRow
  <2> HIDE DEF rows
  <2>4. Active \cap {m} \in SUBSET Missions
    OBVIOUS
  <2> QED
    BY <2>3, <2>4, <2>b, AskingInv
<1> QED
  BY <1>1, <1>2, <1>3, <1>4, <1>5


\* The steps that make a mission inactive.
LEMMA LeavesInv ==
  ASSUME CheckInv, UNCHANGED fresh, NEW m \in Missions,
         Pause(m) \/ Complete(m) \/ CancelMission(m)
  PROVE  CheckInv'
<1> USE RowFacts
<1>1. CASE Pause(m)
  BY <1>1, ControlledFacts, SuspendInv DEF Pause
<1>2. CASE Complete(m)
  BY <1>2, ControlledFacts, SuspendInv DEF Complete
<1>3. CASE CancelMission(m)
  <2> DEFINE c == Controlled(mission[m], "ENDED")
             row == [c EXCEPT !.action = IF @ = "queued" THEN "none" ELSE @]
  <2>1. c \in MissionRows /\ c.status = "ENDED"
    BY ControlledFacts
  <2>2. Suspend(m, row)
    BY <1>3 DEF CancelMission
  <2> HIDE DEF c
  <2>3. row \in MissionRows /\ row.status = "ENDED"
    BY <2>1 DEF MissionRows
  <2> HIDE DEF row
  <2> QED
    BY <2>2, <2>3, SuspendInv
<1> QED
  BY <1>1, <1>2, <1>3

-----------------------------------------------------------------------------
(* The steps of a check *)

\* A claim, its snapshot and its failure: the snapshot sees all there is.
LEMMA ClaimInv ==
  ASSUME CheckInv, UNCHANGED fresh, fresh \in BOOLEAN, NEW m \in Missions,
         ClaimCheck(m) \/ PrepareCheck(m, fresh) \/ CheckFails(m)
  PROVE  CheckInv'
<1>0. /\ mission[m] \in MissionRows /\ Sound(m)
      /\ check \in [Missions -> CheckStatus] /\ prep \in [Missions -> Prepared]
      /\ asked \in [Missions -> BOOLEAN]
  BY RowFacts DEF CheckInv, CheckTypeOK
<1>a. NotPrepared \in Prepared /\ NotPrepared.read = "no"
  BY DEF NotPrepared, Prepared
<1>1. CASE ClaimCheck(m)
  <2>1. /\ check' \in [Missions -> CheckStatus]
        /\ check'[m] = "RUNNING" /\ prep'[m].read = "no"
        /\ \A k \in Missions \ {m} : check'[k] = check[k]
    BY <1>0, <1>1 DEF ClaimCheck, CheckStatus, Sound
  <2>2. CheckTypeOK'
    BY <1>1, <2>1 DEF ClaimCheck, CheckInv, CheckTypeOK
  <2>3. Sound(m)'
    BY <2>1 DEF Sound
  <2>4. \A k \in Missions \ {m} : Sound(k)'
    BY <1>1, <2>1, KeptIsSound DEF ClaimCheck, Kept, SamePrep, CheckInv
  <2> QED
    BY <2>2, <2>3, <2>4 DEF CheckInv
<1>2. CASE PrepareCheck(m, fresh)
  <2> DEFINE p == [read |-> "current", fresh |-> fresh, manual |-> mission[m].manual]
  <2>1. p \in Prepared /\ p.fresh = fresh /\ p.manual = mission[m].manual
    BY <1>0 DEF Prepared, MissionRows
  <2>2. prep' = [prep EXCEPT ![m] = p]
    BY <1>2 DEF PrepareCheck
  <2> HIDE DEF p
  <2>3. /\ prep' \in [Missions -> Prepared] /\ asked' \in [Missions -> BOOLEAN]
        /\ asked'[m] = FALSE /\ prep'[m].fresh = fresh /\ prep'[m].manual = mission[m].manual
        /\ \A k \in Missions \ {m} : prep'[k] = prep[k] /\ asked'[k] = asked[k]
    BY <1>0, <1>2, <2>1, <2>2 DEF PrepareCheck
  <2>4. CheckTypeOK'
    BY <1>2, <2>3 DEF PrepareCheck, CheckInv, CheckTypeOK
  <2>5. Sound(m)'
    BY <1>2, <2>3 DEF PrepareCheck, Sound
  <2>6. \A k \in Missions \ {m} : Sound(k)'
    BY <1>2, <2>3, KeptIsSound DEF PrepareCheck, Kept, SamePrep, CheckInv
  <2> QED
    BY <2>4, <2>5, <2>6 DEF CheckInv
<1>3. CASE CheckFails(m)
  <2>1. /\ prep' \in [Missions -> Prepared] /\ check' \in [Missions -> CheckStatus]
        /\ check'[m] \in {"WAITING", "FAILED"} /\ prep'[m].read = "no"
        /\ \A k \in Missions \ {m} : prep'[k] = prep[k] /\ check'[k] = check[k]
    BY <1>0, <1>a, <1>3 DEF CheckFails, CheckStatus
  <2>2. CheckTypeOK'
    BY <1>3, <2>1 DEF CheckFails, CheckInv, CheckTypeOK
  <2>3. Sound(m)'
    BY <2>1 DEF Sound
  <2>4. \A k \in Missions \ {m} : Sound(k)'
    BY <1>3, <2>1, KeptIsSound DEF CheckFails, Kept, SamePrep, CheckInv
  <2> QED
    BY <2>2, <2>3, <2>4 DEF CheckInv
<1> QED
  BY <1>1, <1>2, <1>3

\* What Conclude does to the mission whose check ended and to the others.
LEMMA ConcludeFacts ==
  ASSUME CheckInv, NEW m \in Missions, NEW row \in MissionRows,
         NEW rows \in [Missions -> MissionRows], Conclude(m, row, rows)
  PROVE  /\ mission' \in [Missions -> MissionRows]
         /\ check' \in [Missions -> CheckStatus]
         /\ asked' \in [Missions -> BOOLEAN]
         /\ mission'[m].status = row.status /\ mission'[m].manual = row.manual
         /\ IF row.status = "ACTIVE" /\ row.recheck
            THEN check'[m] = "WAITING"
            ELSE check'[m] = "SUCCEEDED" /\ asked'[m] = asked[m]
         /\ \A k \in Missions \ {m} :
               /\ mission'[k] = rows[k] /\ check'[k] = check[k] /\ asked'[k] = asked[k]
<1> DEFINE done  == [check EXCEPT ![m] = "SUCCEEDED"]
           again == row.status = "ACTIVE" /\ row.recheck
           M     == IF again THEN {m} ELSE {}
           r     == IF again THEN [row EXCEPT !.recheck = FALSE] ELSE row
           base  == [rows EXCEPT ![m] = r]
<1>1. r \in MissionRows /\ r.status = row.status /\ r.manual = row.manual
  BY DEF MissionRows
<1>2. base = [rows EXCEPT ![m] = IF again THEN [row EXCEPT !.recheck = FALSE] ELSE row]
  OBVIOUS
<1>3. /\ mission' = Queued(base, done, M, FALSE) /\ check' = QueuedJobs(done, M)
      /\ asked' = Asked(M)
  BY <1>2 DEF Conclude
<1> HIDE DEF r
<1>4. /\ base \in [Missions -> MissionRows] /\ base[m] = r
      /\ \A k \in Missions \ {m} : base[k] = rows[k]
  BY <1>1
<1>5. /\ done \in [Missions -> CheckStatus] /\ done[m] = "SUCCEEDED"
      /\ \A k \in Missions \ {m} : done[k] = check[k]
  BY DEF CheckInv, CheckTypeOK, CheckStatus
<1>6. M \in SUBSET Missions /\ (again => M = {m}) /\ (~again => M = {})
  OBVIOUS
<1> HIDE DEF base, done, M
<1>7. /\ mission' \in [Missions -> MissionRows] /\ check' \in [Missions -> CheckStatus]
      /\ \A k \in Missions \ M : mission'[k] = base[k] /\ check'[k] = done[k]
      /\ \A k \in M : /\ mission'[k].status = base[k].status
                      /\ mission'[k].manual = (base[k].manual \/ FALSE)
                      /\ check'[k] = IF done[k] = "RUNNING" THEN "RUNNING" ELSE "WAITING"
  <2>0. PICK no \in BOOLEAN : no = FALSE
    OBVIOUS
  <2> DEFINE q == Queued(base, done, M, no)
  <2>1. /\ q \in [Missions -> MissionRows] /\ QueuedJobs(done, M) \in [Missions -> CheckStatus]
        /\ \A k \in Missions \ M : q[k] = base[k] /\ QueuedJobs(done, M)[k] = done[k]
        /\ \A k \in M : /\ q[k].status = base[k].status
                        /\ q[k].manual = (base[k].manual \/ no)
                        /\ QueuedJobs(done, M)[k] = IF done[k] = "RUNNING" THEN "RUNNING" ELSE "WAITING"
    BY <1>4, <1>5, <1>6, QueuedFacts
  <2> HIDE DEF q
  <2>2. mission' = q
    BY <1>3, <2>0 DEF q
  <2> QED
    BY <1>3, <2>0, <2>1, <2>2
<1>8. asked' \in [Missions -> BOOLEAN] /\ \A k \in Missions \ M : asked'[k] = asked[k]
  BY <1>3, <1>6 DEF Asked, CheckInv, CheckTypeOK
<1>9. CASE again
  <2>1. base[m].manual \in BOOLEAN
    BY <1>1, <1>4 DEF MissionRows
  <2>2. mission'[m].manual = base[m].manual
    BY <1>6, <1>7, <1>9, <2>1
  <2> QED
    BY <1>1, <1>4, <1>5, <1>6, <1>7, <1>8, <1>9, <2>2
<1>10. CASE ~again
  BY <1>1, <1>4, <1>5, <1>6, <1>7, <1>8, <1>10
<1> QED
  BY <1>9, <1>10


\* A check that ends keeps CheckInv if it is to be repeated, or was kept from
\* looking, or nothing was asked meanwhile and its alert fits the source.
LEMMA ConcludeInv ==
  ASSUME CheckInv, UNCHANGED fresh, NEW m \in Missions, NEW row \in MissionRows,
         NEW rows \in [Missions -> MissionRows], Conclude(m, row, rows),
         \A k \in Missions \ {m} : SameRow(mission[k], rows[k]),
         NEW renewal \in BOOLEAN, prep' = AfterCheck(m, renewal),
         NEW a \in BOOLEAN, alert' = [alert EXCEPT ![m] = a],
         NEW s \in BOOLEAN, skipped' = [skipped EXCEPT ![m] = s],
         \/ s
         \/ row.status = "ACTIVE" => row.recheck
         \/ ~asked[m] /\ ~(a /\ fresh)
  PROVE  CheckInv'
<1>1. /\ mission' \in [Missions -> MissionRows]
      /\ check' \in [Missions -> CheckStatus]
      /\ asked' \in [Missions -> BOOLEAN]
      /\ mission'[m].status = row.status
      /\ IF row.status = "ACTIVE" /\ row.recheck
         THEN check'[m] = "WAITING"
         ELSE check'[m] = "SUCCEEDED" /\ asked'[m] = asked[m]
      /\ \A k \in Missions \ {m} :
            /\ mission'[k] = rows[k] /\ check'[k] = check[k] /\ asked'[k] = asked[k]
  BY ConcludeFacts
<1>2. /\ alert' \in [Missions -> BOOLEAN] /\ skipped' \in [Missions -> BOOLEAN]
      /\ alert'[m] = a /\ skipped'[m] = s
      /\ \A k \in Missions \ {m} : alert'[k] = alert[k] /\ skipped'[k] = skipped[k]
  BY DEF CheckInv, CheckTypeOK
<1>3. NotPrepared \in Prepared /\ NotPrepared.read = "no"
  BY DEF NotPrepared, Prepared
<1>4. /\ prep' \in [Missions -> Prepared] /\ prep'[m].read = "no"
      /\ \A k \in Missions \ {m} : SamePrep(prep[k], prep'[k])
  BY <1>3, RowFacts DEF AfterCheck, SamePrep
<1>5. CheckTypeOK'
  BY <1>1, <1>2, <1>4 DEF CheckTypeOK
<1>6. Sound(m)'
  BY <1>1, <1>2, <1>4 DEF Sound
<1>7. ASSUME NEW k \in Missions \ {m} PROVE Sound(k)'
  <2>1. mission'[k] = rows[k] /\ SameRow(mission[k], rows[k])
    BY <1>1
  <2>2. Kept(k)
    BY <1>1, <1>2, <1>4, <2>1 DEF Kept, SameRow
  <2> QED
    BY <2>2, KeptIsSound DEF CheckInv
<1> QED
  BY <1>5, <1>6, <1>7 DEF CheckInv

\* The mission's row as a check finds it: its state and flags are untouched.
LEMMA RetiredFacts ==
  ASSUME CheckInv, NEW m \in Missions, NEW settled \in BOOLEAN, NEW expired \in BOOLEAN
  PROVE  LET row == IF settled /\ mission[m].case = "decided"
                    THEN [mission[m] EXCEPT !.case = "none"] ELSE mission[m]
             r   == Retired(row, expired)
         IN  /\ r \in MissionRows /\ SameRow(mission[m], r)
             /\ r.action = mission[m].action
             /\ r.case # "none" => mission[m].case # "none"
<1> DEFINE row == IF settled /\ mission[m].case = "decided"
                  THEN [mission[m] EXCEPT !.case = "none"] ELSE mission[m]
           r   == Retired(row, expired)
<1>0. mission[m] \in MissionRows
  BY RowFacts
<1>1. /\ row \in MissionRows /\ SameRow(mission[m], row) /\ row.action = mission[m].action
      /\ row.case # "none" => mission[m].case # "none"
  BY <1>0 DEF MissionRows, SameRow
<1> HIDE DEF row
<1>2. r \in MissionRows /\ SameRow(row, r) /\ r.action = row.action /\ r.case = row.case
  BY <1>1 DEF Retired, MissionRows, SameRow
<1> QED
  BY <1>1, <1>2 DEF SameRow, row

\* The publication of a check: what it cannot have seen is owed by it, so it is
\* repeated.  Of a manual request the check did not know of it says as much.
LEMMA ApplyCheckInv ==
  ASSUME CheckInv, UNCHANGED fresh, fresh \in BOOLEAN, NEW m \in Missions,
         ApplyCheck(m, fresh)
  PROVE  /\ CheckInv'
         /\ \A k \in Missions : mission[k].manual /\ ~mission'[k].manual =>
               \/ prep[k].manual
               \/ mission'[k].status # "ACTIVE"
               \/ mission[k].case # "none"
               \/ mission[k].action # "none"
<1>0. /\ mission \in [Missions -> MissionRows] /\ mission[m] \in MissionRows /\ Sound(m)
      /\ prep[m] \in Prepared /\ check[m] = "RUNNING" /\ prep[m].read # "no"
      /\ asked \in [Missions -> BOOLEAN] /\ alert \in [Missions -> BOOLEAN]
  BY RowFacts DEF CheckInv, CheckTypeOK, ApplyCheck
<1>1. PICK settled \in BOOLEAN, expired \in BOOLEAN, renewal \in BOOLEAN :
         LET row == IF settled /\ mission[m].case = "decided"
                    THEN [mission[m] EXCEPT !.case = "none"] ELSE mission[m]
             r   == Retired(row, expired)
         IN  \/ /\ Held(r) /\ ~renewal
                /\ SkipCheck(m, r)
                /\ prep' = AfterCheck(m, FALSE)
             \/ /\ ~Held(r) /\ prep[m].read = "outdated" /\ ~renewal
                /\ LookAgain(m, r)
                /\ prep' = AfterCheck(m, FALSE)
             \/ /\ ~Held(r) /\ prep[m].read = "current" /\ ~renewal
                /\ Inconclusive(m, r, ~(prep[m].fresh /\ fresh))
                /\ prep' = AfterCheck(m, FALSE)
             \/ /\ ~Held(r) /\ prep[m].read = "current" /\ prep[m].fresh /\ fresh
                /\ Evaluate(m, r, renewal)
                /\ prep' = AfterCheck(m, renewal)
  BY DEF ApplyCheck
<1> DEFINE row == IF settled /\ mission[m].case = "decided"
                  THEN [mission[m] EXCEPT !.case = "none"] ELSE mission[m]
           r   == Retired(row, expired)
<1>2. /\ r \in MissionRows /\ SameRow(mission[m], r)
      /\ r.action = mission[m].action
      /\ r.case # "none" => mission[m].case # "none"
  BY RetiredFacts
<1>3. \/ /\ Held(r) /\ SkipCheck(m, r) /\ prep' = AfterCheck(m, FALSE)
      \/ /\ ~Held(r) /\ LookAgain(m, r) /\ prep' = AfterCheck(m, FALSE)
      \/ /\ ~Held(r) /\ Inconclusive(m, r, ~(prep[m].fresh /\ fresh))
         /\ prep' = AfterCheck(m, FALSE)
      \/ /\ ~Held(r) /\ prep[m].fresh /\ fresh /\ Evaluate(m, r, renewal)
         /\ prep' = AfterCheck(m, renewal)
  BY <1>1
<1> HIDE DEF r
<1>4. \A k \in Missions \ {m} : SameRow(mission[k], mission[k])
  BY DEF SameRow
<1>5. ~Held(r) => mission[m].status = "ACTIVE"
  BY <1>2 DEF Held, SameRow
<1> DEFINE Ticked(rw) == mission[m].manual /\ ~rw.manual =>
                            \/ prep[m].manual
                            \/ rw.status # "ACTIVE"
                            \/ mission[m].case # "none"
                            \/ mission[m].action # "none"
           Goal == /\ CheckInv'
                   /\ \A k \in Missions : mission[k].manual /\ ~mission'[k].manual =>
                         \/ prep[k].manual
                         \/ mission'[k].status # "ACTIVE"
                         \/ mission[k].case # "none"
                         \/ mission[k].action # "none"
<1>6. ASSUME NEW rw \in MissionRows, NEW rows \in [Missions -> MissionRows],
             \A k \in Missions \ {m} : SameRow(mission[k], rows[k]),
             Conclude(m, rw, rows), Ticked(rw), CheckInv'
      PROVE  Goal
  <2>1. /\ mission'[m].status = rw.status /\ mission'[m].manual = rw.manual
        /\ \A k \in Missions \ {m} : mission'[k] = rows[k]
    BY <1>6, ConcludeFacts
  <2> QED
    BY <1>6, <2>1 DEF SameRow
<1>7. CASE Held(r) /\ SkipCheck(m, r) /\ prep' = AfterCheck(m, FALSE)
  <2> DEFINE reopened == [Answered(r) EXCEPT !.case = "open"]
  <2>0. PICK rw \in {Answered(r), r, reopened} : Conclude(m, rw, mission)
    BY <1>7 DEF SkipCheck
  <2>1. rw \in MissionRows /\ rw.status = r.status
    <3>1. Answered(r) \in MissionRows /\ Answered(r).status = r.status
      BY <1>2 DEF Answered, MissionRows
    <3>2. reopened \in MissionRows /\ reopened.status = r.status
      BY <1>2 DEF Answered, MissionRows
    <3> HIDE DEF reopened
    <3> QED
      BY <1>2, <2>0, <3>1, <3>2
  <2>2. Ticked(rw)
    BY <1>2, <1>7, <2>1 DEF Held, SameRow
  <2>3. /\ Conclude(m, rw, mission) /\ skipped' = [skipped EXCEPT ![m] = TRUE]
        /\ alert' = [alert EXCEPT ![m] = alert[m]] /\ alert[m] \in BOOLEAN
    BY <1>0, <1>7, <2>0 DEF SkipCheck
  <2>4. CheckInv'
    BY <1>0, <1>4, <1>7, <2>1, <2>3, ConcludeInv
  <2> QED
    BY <1>0, <1>4, <1>6, <2>1, <2>2, <2>3, <2>4
<1>8. CASE ~Held(r) /\ LookAgain(m, r) /\ prep' = AfterCheck(m, FALSE)
  <2> DEFINE rw == [r EXCEPT !.recheck = TRUE]
  <2>1. rw \in MissionRows /\ rw.manual = r.manual /\ rw.recheck
    BY <1>2 DEF MissionRows
  <2>2. Ticked(rw)
    BY <1>2, <2>1 DEF SameRow
  <2>3. /\ Conclude(m, rw, mission) /\ skipped' = [skipped EXCEPT ![m] = FALSE]
        /\ alert' = [alert EXCEPT ![m] = alert[m]] /\ alert[m] \in BOOLEAN
    BY <1>0, <1>8 DEF LookAgain
  <2> HIDE DEF rw
  <2>4. CheckInv'
    BY <1>0, <1>4, <1>8, <2>1, <2>3, ConcludeInv
  <2> QED
    BY <1>0, <1>4, <1>6, <2>1, <2>2, <2>3, <2>4
<1>9. CASE ~Held(r) /\ Inconclusive(m, r, ~(prep[m].fresh /\ fresh)) /\ prep' = AfterCheck(m, FALSE)
  <2>1. PICK a \in BOOLEAN : a = ~(prep[m].fresh /\ fresh)
    OBVIOUS
  <2>2. /\ Conclude(m, r, mission) /\ skipped' = [skipped EXCEPT ![m] = FALSE]
        /\ alert' = [alert EXCEPT ![m] = a]
    BY <1>9, <2>1 DEF Inconclusive
  <2>3. Ticked(r)
    BY <1>2 DEF SameRow
  <2>4. ~r.recheck => ~asked[m] /\ ~(a /\ fresh)
    BY <1>0, <1>2, <1>5, <1>9, <2>1 DEF Sound, SameRow
  <2>5. CheckInv'
    BY <1>0, <1>2, <1>4, <1>9, <2>2, <2>4, ConcludeInv
  <2> QED
    BY <1>0, <1>2, <1>4, <1>6, <2>2, <2>3, <2>5
<1>10. CASE /\ ~Held(r) /\ prep[m].fresh /\ fresh /\ Evaluate(m, r, renewal)
            /\ prep' = AfterCheck(m, renewal)
  <2> DEFINE rows == IF renewal THEN StateMoves(mission) ELSE mission
             done == [r EXCEPT !.manual = StillManual(r)]
             rw   == [done EXCEPT !.plan = "pending"]
  <2>1. /\ rows \in [Missions -> MissionRows]
        /\ \A k \in Missions \ {m} : SameRow(mission[k], rows[k])
    BY <1>0, MovedFacts DEF SameRow
  <2>2. /\ Conclude(m, r, rows) \/ Conclude(m, rw, rows)
        /\ skipped' = [skipped EXCEPT ![m] = FALSE] /\ alert' = [alert EXCEPT ![m] = FALSE]
    BY <1>10 DEF Evaluate
  <2> HIDE DEF rows
  <2>3. r.manual \in BOOLEAN /\ r.recheck \in BOOLEAN
    BY <1>2 DEF MissionRows
  <2>4. StillManual(r) \in BOOLEAN /\ (StillManual(r) <=> (r.manual /\ r.recheck))
    BY <2>3 DEF StillManual
  <2>5. /\ rw \in MissionRows /\ rw.recheck = r.recheck /\ rw.status = r.status
        /\ rw.manual = StillManual(r)
    BY <1>2, <2>4 DEF MissionRows
  <2> HIDE DEF rw
  <2>6. ~r.recheck => ~asked[m]
    BY <1>0, <1>2, <1>5, <1>10 DEF Sound, SameRow
  <2>7. CASE Conclude(m, r, rows)
    <3>1. Ticked(r)
      BY <1>2 DEF SameRow
    <3>2. CheckInv'
      BY <1>2, <1>10, <2>1, <2>2, <2>6, <2>7, ConcludeInv
    <3> QED
      BY <1>2, <1>6, <2>1, <2>7, <3>1, <3>2
  <2>8. CASE Conclude(m, rw, rows)
    <3>1. Ticked(rw)
      BY <1>0, <1>2, <1>5, <1>10, <2>3, <2>4, <2>5 DEF Sound, SameRow
    <3>2. CheckInv'
      BY <1>2, <1>10, <2>1, <2>2, <2>5, <2>6, <2>8, ConcludeInv
    <3> QED
      BY <1>6, <2>1, <2>5, <2>8, <3>1, <3>2
  <2> QED
    BY <2>2, <2>7, <2>8
<1> QED
  BY <1>3, <1>7, <1>8, <1>9, <1>10


-----------------------------------------------------------------------------
(* The composition *)

\* Every step of the checks.
LEMMA CheckStepInv ==
  ASSUME CheckInv, UNCHANGED fresh, fresh \in BOOLEAN, CheckStep(fresh)
  PROVE  CheckInv'
<1>1. CASE StoreMoves
  <2>1. CASE Missions = {}
    BY <1>1, <2>1 DEF CheckInv, CheckTypeOK, StoreMoves, StateMoves, PrepsOutdated
  <2>2. CASE Missions # {}
    BY <1>1, <2>2, QuietInv
  <2> QED
    BY <2>1, <2>2
<1>2. ASSUME NEW m \in Missions,
             \/ RequestCheck(m) \/ IntervalCheck(m) \/ RevisePlan(m, fresh)
             \/ Pause(m) \/ Complete(m) \/ CancelMission(m) \/ ResumeMission(m)
             \/ OpenCase(m) \/ DecideCase(m) \/ EndCase(m)
             \/ Approve(m) \/ Reject(m) \/ SendPurchase(m) \/ EndPurchase(m)
             \/ ClaimCheck(m) \/ PrepareCheck(m, fresh) \/ ApplyCheck(m, fresh)
             \/ CheckFails(m)
      PROVE  CheckInv'
  <2>1. CASE \/ RevisePlan(m, fresh) \/ OpenCase(m) \/ DecideCase(m)
             \/ Approve(m) \/ Reject(m) \/ SendPurchase(m)
    BY <2>1, QuietInv
  <2>2. CASE \/ RequestCheck(m) \/ IntervalCheck(m) \/ ResumeMission(m)
             \/ EndCase(m) \/ EndPurchase(m)
    BY <2>2, AsksInv
  <2>3. CASE Pause(m) \/ Complete(m) \/ CancelMission(m)
    BY <2>3, LeavesInv
  <2>4. CASE ClaimCheck(m) \/ PrepareCheck(m, fresh) \/ CheckFails(m)
    BY <2>4, ClaimInv
  <2>5. CASE ApplyCheck(m, fresh)
    BY <2>5, ApplyCheckInv
  <2> QED
    BY <1>2, <2>1, <2>2, <2>3, <2>4, <2>5
<1> QED
  BY <1>1, <1>2 DEF CheckStep

\* The source alone never becomes fresh: that takes the publication of a page.
LEMMA SourceKeepsChecks ==
  ASSUME CheckInv, SyncStep, UNCHANGED checkVars
  PROVE  CheckInv'
<1>1. fresh' => fresh
  BY DEF SyncStep, RequestSync, IntervalSync, SourceLogs, GoesStale, ClaimSync,
         ReadCursor, SyncFails, SyncLeaseLost, FetchPage
<1>2. CheckTypeOK'
  BY DEF CheckInv, CheckTypeOK, checkVars
<1>3. \A m \in Missions : Kept(m)
  BY <1>1 DEF Kept, SamePrep, checkVars
<1> QED
  BY <1>2, <1>3, KeptIsSound DEF CheckInv

\* The publication of a page: what it brings, and the recovery of the source,
\* wakes every mission a running check of which might have missed it.
LEMMA PublicationInv ==
  ASSUME SyncTypeOK, CheckInv, SyncPublishes \/ BatchPushed
  PROVE  CheckInv'
<1>1. CASE SyncPublishes
  <2>1. CASE cursor' # cursor
    BY <1>1, <2>1, WakeInv DEF SyncPublishes, TakenIn, Ingested
  <2>2. CASE cursor' = cursor /\ ~fresh /\ ~page.more
    BY <1>1, <2>2, WakeInv DEF SyncPublishes, TakenIn
  <2>3. CASE cursor' = cursor /\ (fresh \/ page.more)
    <3>1. UNCHANGED <<mission, check, prep, asked, alert, skipped>>
      BY <1>1, <2>3 DEF SyncPublishes, TakenIn
    <3>2. fresh' => fresh
      BY <1>1, <2>3 DEF SyncPublishes, ApplyPage, CaughtUp, SyncTypeOK
    <3>3. CheckTypeOK' /\ \A m \in Missions : Kept(m)
      BY <3>1, <3>2 DEF CheckInv, CheckTypeOK, Kept, SamePrep
    <3> QED
      BY <3>3, KeptIsSound DEF CheckInv
  <2> QED
    BY <1>1, <2>1, <2>2, <2>3 DEF SyncPublishes, TakenIn
<1>2. CASE BatchPushed
  BY <1>2, WakeInv DEF BatchPushed, Ingested
<1> QED
  BY <1>1, <1>2

\* The alert of a stale source is raised while it is stale.
LEMMA FreshnessInv ==
  ASSUME CheckInv, FreshnessChecked, UNCHANGED syncVars, fresh \in BOOLEAN
  PROVE  CheckInv'
<1>1. fresh' = FALSE
  BY DEF FreshnessChecked, syncVars
<1>2. CheckTypeOK'
  BY DEF FreshnessChecked, RaiseStale, CheckInv, CheckTypeOK, MissionRows
<1>3. \A m \in Missions : Kept(m)
  BY <1>1 DEF FreshnessChecked, RaiseStale, Kept, SamePrep
<1> QED
  BY <1>2, <1>3, KeptIsSound DEF CheckInv

LEMMA WatchInitInv == Init => WatchInv
  BY SyncInitInv, CheckInitInv DEF Init, WatchInv

LEMMA WatchStepInv == WatchInv /\ [Next]_vars => WatchInv'
<1> SUFFICES ASSUME WatchInv, [Next]_vars PROVE WatchInv'
  OBVIOUS
<1>0. SyncInv /\ CheckInv /\ SyncTypeOK /\ fresh \in BOOLEAN
  BY DEF WatchInv, SyncInv, SyncTypeOK
<1>a. ASSUME UNCHANGED syncVars PROVE SyncInv' /\ UNCHANGED fresh
  BY <1>0, <1>a DEF syncVars, SyncInv, SyncTypeOK, WithinLog, OwedByRunningSync,
                    RequestedSyncsAreRead
<1>1. CASE SyncStep /\ UNCHANGED checkVars
  BY <1>0, <1>1, SyncStepInv, SourceKeepsChecks DEF WatchInv
<1>2. CASE SyncPublishes
  BY <1>0, <1>2, ApplyPageInv, PublicationInv DEF WatchInv, SyncPublishes
<1>3. CASE BatchPushed
  BY <1>0, <1>3, PushInv, PublicationInv DEF WatchInv, BatchPushed
<1>4. CASE CheckStep(fresh) /\ UNCHANGED syncVars
  BY <1>0, <1>4, <1>a, CheckStepInv DEF WatchInv
<1>5. CASE FreshnessChecked /\ UNCHANGED syncVars
  BY <1>0, <1>5, <1>a, FreshnessInv DEF WatchInv
<1>6. CASE UNCHANGED vars
  <2>1. UNCHANGED syncVars /\ UNCHANGED checkVars
    BY <1>6 DEF vars
  <2>2. CheckInv'
    BY <1>0, <2>1 DEF CheckInv, CheckTypeOK, Sound, checkVars, syncVars
  <2> QED
    BY <1>a, <2>1, <2>2 DEF WatchInv
<1> QED
  BY <1>1, <1>2, <1>3, <1>4, <1>5, <1>6 DEF Next

\* Every variable keeps its type, for every store.
THEOREM WatchTypes == Spec => []WatchTypeOK
<1>1. WatchInv => WatchTypeOK
  BY DEF WatchInv, SyncInv, CheckInv, WatchTypeOK
<1> QED
  BY <1>1, WatchInitInv, WatchStepInv, PTL DEF Spec

\* A sync asked for while one runs is not lost, with pushed batches moving the
\* cursor and checks publishing meanwhile (scheduling.py 70-73).
THEOREM WatchedSyncsAreRead == Spec => []RequestedSyncsAreRead
<1>1. WatchInv => RequestedSyncsAreRead
  BY DEF WatchInv, SyncInv
<1> QED
  BY <1>1, WatchInitInv, WatchStepInv, PTL DEF Spec

\* A check asked for while one runs is not lost either (missions/repository.py
\* 142-143, planning/jobs.py 259-273).
THEOREM ChecksAreAnswered == Spec => []RequestsAreAnswered
<1>1. WatchInv => RequestsAreAnswered
  BY DEF WatchInv, CheckInv, Sound, RequestsAreAnswered
<1> QED
  BY <1>1, WatchInitInv, WatchStepInv, PTL DEF Spec

\* The alert of a stale source does not outlive the staleness: a mission that
\* shows it has a check under way (operations/jobs.py 94-101).
THEOREM RecoveriesAreChecked == Spec => []StaleAlertIsChecked
<1>1. WatchInv => StaleAlertIsChecked
  BY DEF WatchInv, CheckInv, Sound, StaleAlertIsChecked
<1> QED
  BY <1>1, WatchInitInv, WatchStepInv, PTL DEF Spec


-----------------------------------------------------------------------------
(* Manual requests *)

\* How a step may tick off what was asked for by hand.
Known(m) ==
    mission[m].manual /\ ~mission'[m].manual =>
       \/ prep[m].manual
       \/ mission'[m].status # "ACTIVE"
       \/ mission[m].case # "none"
       \/ mission[m].action # "none"

\* queue_check() ticks off nothing, and takes note of what is asked by hand.
LEMMA AskingKnows ==
  ASSUME CheckInv, NEW rows \in [Missions -> MissionRows], NEW M \in SUBSET Missions,
         NEW manual \in BOOLEAN, QueueChecks(rows, M, manual),
         \A m \in Missions : rows[m].manual = mission[m].manual \/ (manual /\ m \in M)
  PROVE  \A m \in Missions : Known(m)
<1>1. check \in [Missions -> CheckStatus]
  BY DEF CheckInv, CheckTypeOK
<1>2. /\ \A m \in Missions \ M : mission'[m] = rows[m]
      /\ \A m \in M : mission'[m].manual = (rows[m].manual \/ manual)
  BY <1>1, QueuedFacts DEF QueueChecks
<1>3. \A m \in Missions : rows[m] \in MissionRows
  OBVIOUS
<1>4. \A m \in Missions : rows[m].manual \in BOOLEAN
  BY <1>3 DEF MissionRows
<1>5. ASSUME NEW m \in M PROVE Known(m)
  BY <1>2, <1>4 DEF Known
<1> QED
  BY <1>2, <1>5 DEF Known

LEMMA WakeKnows ==
  ASSUME CheckInv, NEW moved \in BOOLEAN, Wake(moved)
  PROVE  \A m \in Missions : Known(m)
<1> DEFINE rows == IF moved THEN StateMoves(mission) ELSE mission
<1>0. mission \in [Missions -> MissionRows]
  BY DEF CheckInv, CheckTypeOK
<1>1. /\ StateMoves(mission) \in [Missions -> MissionRows]
      /\ \A m \in Missions : SameRow(mission[m], StateMoves(mission)[m])
  BY <1>0, MovedFacts
<1>2. rows \in [Missions -> MissionRows] /\ \A m \in Missions : rows[m].manual = mission[m].manual
  BY <1>0, <1>1 DEF SameRow
<1>3. QueueChecks(rows, Active, FALSE) /\ Active \in SUBSET Missions
  BY DEF Wake, Active
<1> HIDE DEF rows
<1> QED
  BY <1>2, <1>3, AskingKnows

\* Every step of one mission.
LEMMA MissionStepKnows ==
  ASSUME CheckInv, UNCHANGED fresh, fresh \in BOOLEAN, NEW m \in Missions,
         \/ RequestCheck(m) \/ IntervalCheck(m) \/ RevisePlan(m, fresh)
         \/ Pause(m) \/ Complete(m) \/ CancelMission(m) \/ ResumeMission(m)
         \/ OpenCase(m) \/ DecideCase(m) \/ EndCase(m)
         \/ Approve(m) \/ Reject(m) \/ SendPurchase(m) \/ EndPurchase(m)
         \/ ClaimCheck(m) \/ PrepareCheck(m, fresh) \/ ApplyCheck(m, fresh)
         \/ CheckFails(m)
  PROVE  \A k \in Missions : Known(k)
<1> USE RowFacts
<1>1. CASE RequestCheck(m)
  BY <1>1, AskingKnows DEF RequestCheck
<1>2. CASE IntervalCheck(m)
  BY <1>2, AskingKnows DEF IntervalCheck
<1>3. CASE ResumeMission(m)
  <2> DEFINE r == Controlled(mission[m], "ACTIVE")
             rows == [mission EXCEPT ![m] = r]
  <2>1. rows \in [Missions -> MissionRows]
    BY ControlledFacts
  <2>2. \A k \in Missions : rows[k].manual = mission[k].manual \/ k \in {m}
    OBVIOUS
  <2>3. QueueChecks(rows, {m}, TRUE)
    BY <1>3 DEF ResumeMission
  <2> HIDE DEF rows
  <2> QED
    BY <2>1, <2>2, <2>3, AskingKnows
<1>4. CASE EndCase(m)
  <2>1. mission[m].case # "none" /\ \A k \in Missions \ {m} :
           [mission EXCEPT ![m].case = "none"][k] = mission[k]
    BY <1>4 DEF EndCase
  <2> DEFINE rows == [mission EXCEPT ![m].case = "none"]
  <2>2. rows \in [Missions -> MissionRows] /\ \A k \in Missions : rows[k].manual = mission[k].manual
    BY DEF MissionRows
  <2>3. QueueChecks(rows, {m}, FALSE) \/ mission' = rows
    BY <1>4 DEF EndCase
  <2> HIDE DEF rows
  <2> QED
    BY <2>2, <2>3, AskingKnows DEF Known
<1>5. CASE EndPurchase(m)
  <2> DEFINE plain == [mission EXCEPT ![m].action = "none"]
             rows == IF mission[m].action = "sent" THEN StateMoves(plain) ELSE plain
  <2>1. plain \in [Missions -> MissionRows] /\ \A k \in Missions : plain[k].manual = mission[k].manual
    BY DEF MissionRows
  <2>2. QueueChecks(rows, Active \cap {m}, FALSE)
    BY <1>5 DEF EndPurchase
  <2> HIDE DEF plain
  <2>3. /\ StateMoves(plain) \in [Missions -> MissionRows]
        /\ \A k \in Missions : SameRow(plain[k], StateMoves(plain)[k])
    BY <2>1, MovedFacts
  <2>4. rows \in [Missions -> MissionRows] /\ \A k \in Missions : rows[k].manual = mission[k].manual
    BY <2>1, <2>3 DEF SameRow
  <2> HIDE DEF rows
  <2>5. Active \cap {m} \in SUBSET Missions
    OBVIOUS
  <2> QED
    BY <2>2, <2>4, <2>5, AskingKnows
<1>6. CASE Pause(m) \/ Complete(m) \/ CancelMission(m)
  <2> DEFINE c == Controlled(mission[m], "ENDED")
             given == [c EXCEPT !.action = IF @ = "queued" THEN "none" ELSE @]
             paused == Controlled(mission[m], "PAUSED")
  <2>1. /\ c \in MissionRows /\ c.status = "ENDED"
        /\ paused \in MissionRows /\ paused.status = "PAUSED"
    BY ControlledFacts
  <2>2. Suspend(m, paused) \/ Suspend(m, c) \/ Suspend(m, given)
    BY <1>6 DEF Pause, Complete, CancelMission
  <2> HIDE DEF c, paused
  <2>3. given.status = "ENDED"
    BY <2>1 DEF MissionRows
  <2> HIDE DEF given
  <2>4. PICK row \in {paused, c, given} : Suspend(m, row) /\ row.status # "ACTIVE"
    BY <2>1, <2>2, <2>3
  <2> QED
    BY <2>4 DEF Suspend, Known
<1>7. CASE SendPurchase(m)
  <2> DEFINE plain == [mission EXCEPT ![m].action = "sent"]
  <2>1. plain \in [Missions -> MissionRows] /\ \A k \in Missions : plain[k].manual = mission[k].manual
    BY DEF MissionRows
  <2>2. mission' = StateMoves(plain)
    BY <1>7 DEF SendPurchase
  <2> HIDE DEF plain
  <2> QED
    BY <2>1, <2>2, MovedFacts DEF SameRow, Known
<1>8. CASE OpenCase(m) \/ DecideCase(m) \/ Approve(m) \/ Reject(m)
  <2>1. /\ \A k \in Missions \ {m} : mission'[k] = mission[k]
        /\ mission'[m].manual = mission[m].manual
    <3>1. CASE OpenCase(m)
      BY <3>1 DEF OpenCase, MissionRows
    <3>2. CASE DecideCase(m)
      BY <3>2 DEF DecideCase, MissionRows
    <3>3. CASE Approve(m)
      BY <3>3 DEF Approve, MissionRows
    <3>4. CASE Reject(m)
      BY <3>4 DEF Reject, MissionRows
    <3> QED
      BY <1>8, <3>1, <3>2, <3>3, <3>4
  <2> QED
    BY <2>1 DEF Known
<1>9. CASE RevisePlan(m, fresh) \/ ClaimCheck(m) \/ PrepareCheck(m, fresh) \/ CheckFails(m)
  BY <1>9 DEF RevisePlan, ClaimCheck, PrepareCheck, CheckFails, Known
<1>10. CASE ApplyCheck(m, fresh)
  BY <1>10, ApplyCheckInv DEF Known
<1> QED
  BY <1>1, <1>2, <1>3, <1>4, <1>5, <1>6, <1>7, <1>8, <1>9, <1>10

\* A check asked for by hand is not ticked off by one that did not know of it
\* (planning/jobs.py 216-219 and 238-239).
THEOREM ManualChecksAreSeen == Spec => ManualRequestsAreSeen
<1>1. ASSUME WatchInv, [Next]_vars
      PROVE  (\A m \in Missions : Known(m)) \/ UNCHANGED checkVars
  <2>0. CheckInv /\ fresh \in BOOLEAN /\ mission \in [Missions -> MissionRows]
    BY <1>1 DEF WatchInv, SyncInv, SyncTypeOK, CheckInv, CheckTypeOK
  <2>1. CASE SyncStep /\ UNCHANGED checkVars
    BY <2>1
  <2>2. CASE SyncPublishes \/ BatchPushed
    <3>1. (\E moved \in BOOLEAN : Wake(moved)) \/ mission' = mission
      BY <2>2 DEF SyncPublishes, BatchPushed, TakenIn, Ingested
    <3> QED
      BY <2>0, <3>1, WakeKnows DEF Known
  <2>3. CASE CheckStep(fresh) /\ UNCHANGED syncVars
    <3>0. UNCHANGED fresh
      BY <2>3 DEF syncVars
    <3>1. CASE StoreMoves
      BY <2>0, <3>1, MovedFacts DEF StoreMoves, SameRow, Known
    <3>2. CASE ~StoreMoves
      BY <2>0, <2>3, <3>0, <3>2, MissionStepKnows DEF CheckStep
    <3> QED
      BY <3>1, <3>2
  <2>4. CASE FreshnessChecked /\ UNCHANGED syncVars
    BY <2>4 DEF FreshnessChecked, RaiseStale, Known
  <2>5. CASE UNCHANGED vars
    BY <2>5 DEF vars
  <2> QED
    BY <1>1, <2>1, <2>2, <2>3, <2>4, <2>5 DEF Next
<1>2. WatchInv /\ [Next]_vars =>
        [\A m \in Missions :
           mission[m].manual /\ ~mission'[m].manual =>
             \/ prep[m].manual
             \/ mission'[m].status # "ACTIVE"
             \/ mission[m].case # "none"
             \/ mission[m].action # "none"]_checkVars
  BY <1>1 DEF Known
<1> QED
  BY <1>2, WatchInitInv, WatchStepInv, PTL DEF Spec, ManualRequestsAreSeen
=============================================================================
