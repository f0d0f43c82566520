---------------------------- MODULE MissionChecks ----------------------------
(***************************************************************************)
(* Asking for and carrying out the checks of a mission (backend/app:       *)
(* missions/repository.py, planning/jobs.py, planning/snapshot.py).        *)
(*                                                                         *)
(* A check reads everything it needs in one REPEATABLE READ snapshot,      *)
(* computes a plan in no transaction, and publishes it under the store and *)
(* mission locks if the versions it read are still in force.  A check      *)
(* asked for while one runs sets recheck_required, and the running one     *)
(* queues its successor in its own publication.                            *)
(*                                                                         *)
(* state_version, mission_version and plan_counter only ever grow and are  *)
(* only compared for equality with a value read earlier.  The model keeps  *)
(* the result of that comparison instead: a snapshot or a proposal is      *)
(* current until one of the numbers it carries moves, then it is outdated. *)
(*                                                                         *)
(* Purchases and recovery cases appear as far as checks notice them: an    *)
(* action that holds the mission, a case that holds the item.  Modules     *)
(* Purchasing and RecoveryCases model them in full.  READY and RETRY_WAIT  *)
(* are one status, WAITING; leases are those of JobRuns.                   *)
(***************************************************************************)

CONSTANT Missions    \* the missions of one store

VARIABLES
    mission,   \* MissionRow with what holds it, see MissionRows
    check,     \* status of the mission's newest check_mission JobRun
    prep,      \* Prepared: what the running claim read
    alert,     \* an open DATA_STALE alert that says the source is stale
    asked,     \* history: a check was asked for since the newest snapshot
    skipped    \* history: the newest check ended SKIPPED, for what held it

checkVars == <<mission, check, prep, alert, asked, skipped>>

\* plan: the proposal current_plan_id points to.  "pending" and "outdated" are
\* PENDING_APPROVAL, with versions in force or not; "none" is also a plan that
\* was approved, which checks leave alone.
MissionRows ==
    [status  : {"ACTIVE", "PAUSED", "ENDED"},   \* ENDED: COMPLETED, CANCELLED
     plan    : {"none", "pending", "outdated", "rejected"},
     action  : {"none", "queued", "sent"},      \* current_action_id
     case    : {"none", "open", "decided"},     \* owning_case()
     recheck : BOOLEAN,                         \* recheck_required
     manual  : BOOLEAN]                         \* manual_check_requested

\* The snapshot: whether it was taken and its versions are still in force,
\* whether a manual request was open and the source was fresh.
Prepared == [read : {"no", "current", "outdated"}, manual : BOOLEAN, fresh : BOOLEAN]

NotPrepared == [read |-> "no", manual |-> FALSE, fresh |-> FALSE]

CheckStatus == {"WAITING", "RUNNING", "SUCCEEDED", "FAILED", "CANCELLED"}

CheckTypeOK ==
    /\ mission \in [Missions -> MissionRows]
    /\ check   \in [Missions -> CheckStatus]
    /\ prep    \in [Missions -> Prepared]
    /\ alert   \in [Missions -> BOOLEAN]
    /\ asked   \in [Missions -> BOOLEAN]
    /\ skipped \in [Missions -> BOOLEAN]

\* create_mission(): the mission is ACTIVE and its first check is queued.
Created == [status |-> "ACTIVE", plan |-> "none", action |-> "none",
            case |-> "none", recheck |-> FALSE, manual |-> FALSE]

CheckInit ==
    /\ mission = [m \in Missions |-> Created]
    /\ check   = [m \in Missions |-> "WAITING"]
    /\ prep    = [m \in Missions |-> NotPrepared]
    /\ alert   = [m \in Missions |-> FALSE]
    /\ asked   = [m \in Missions |-> TRUE]
    /\ skipped = [m \in Missions |-> FALSE]

-----------------------------------------------------------------------------
(* Versions move *)

OutdatedPlan(r) ==
    IF r.plan = "pending" THEN [r EXCEPT !.plan = "outdated"] ELSE r

OutdatedPrep(p) ==
    IF p.read = "current" THEN [p EXCEPT !.read = "outdated"] ELSE p

\* state_version moves: what any mission of the store has read is outdated.
StateMoves(rows) == [m \in Missions |-> OutdatedPlan(rows[m])]
PrepsOutdated(M) == [m \in Missions |-> IF m \in M THEN OutdatedPrep(prep[m])
                                        ELSE prep[m]]

-----------------------------------------------------------------------------
(* queue_check() for the missions M, whose rows are by now rows *)

\* Mutant: a check already running is taken for an answer to the request.
QueuedIgnoring(rows, jobs, M, manual) ==
    [m \in Missions |->
        IF m \in M THEN [rows[m] EXCEPT !.manual = @ \/ manual] ELSE rows[m]]

Queued(rows, jobs, M, manual) ==
    [m \in Missions |->
        IF m \in M THEN [rows[m] EXCEPT !.manual = @ \/ manual,
                                        !.recheck = @ \/ jobs[m] = "RUNNING"]
        ELSE rows[m]]

QueuedJobs(jobs, M) ==
    [m \in Missions |->
        IF m \in M /\ jobs[m] # "RUNNING" THEN "WAITING" ELSE jobs[m]]

Asked(M) == [m \in Missions |-> m \in M \/ asked[m]]

QueueChecks(rows, M, manual) ==
    /\ mission' = Queued(rows, check, M, manual)
    /\ check' = QueuedJobs(check, M)
    /\ asked' = Asked(M)

Active == {m \in Missions : mission[m].status = "ACTIVE"}

\* wake_store_missions(), after the store's version moved or without that.
Wake(moved) ==
    /\ QueueChecks(IF moved THEN StateMoves(mission) ELSE mission, Active, FALSE)
    /\ prep' = IF moved THEN PrepsOutdated(Missions) ELSE prep

\* request_check(): refused unless the mission is ACTIVE.
RequestCheck(m) ==
    /\ m \in Active
    /\ QueueChecks(mission, {m}, TRUE)
    /\ UNCHANGED <<prep, alert, skipped>>

\* dispatch_due(): the next occurrence of the mission's enabled schedule.
IntervalCheck(m) ==
    /\ m \in Active
    /\ QueueChecks(mission, {m}, FALSE)
    /\ UNCHANGED <<prep, alert, skipped>>

-----------------------------------------------------------------------------
(* What changes the inputs of a check *)

\* A purchase or renewal of a mission elsewhere in the store, or a refreshed
\* model forecast: state_version moves and nobody is told (accounting.py 46
\* and 172, planning/jobs.py 169, forecast_v6/repository.py 279).
StoreMoves ==
    /\ mission' = StateMoves(mission)
    /\ prep' = PrepsOutdated(Missions)
    /\ UNCHANGED <<check, alert, asked, skipped>>

\* revise_plan(): new constraints, a new version and a proposal made for it.
RevisePlan(m, fresh) ==
    /\ fresh
    /\ mission[m].status = "ACTIVE" /\ mission[m].action = "none"
    /\ mission[m].plan = "pending"
    /\ prep' = PrepsOutdated({m})
    /\ UNCHANGED <<mission, check, alert, asked, skipped>>

\* control_mission() on the row itself: flags and the current plan are cleared.
Controlled(r, status) ==
    [r EXCEPT !.status = status, !.plan = "none",
              !.recheck = FALSE, !.manual = FALSE]

\* Leaving ACTIVE cancels the check that waits, not the one that runs.
Suspend(m, row) ==
    /\ mission' = [mission EXCEPT ![m] = row]
    /\ check' = [check EXCEPT ![m] = IF @ = "WAITING" THEN "CANCELLED" ELSE @]
    /\ prep' = PrepsOutdated({m})
    /\ UNCHANGED <<alert, asked, skipped>>

Pause(m) ==
    /\ mission[m].status = "ACTIVE"
    /\ Suspend(m, Controlled(mission[m], "PAUSED"))

Complete(m) ==
    /\ mission[m].status \in {"ACTIVE", "PAUSED"}
    /\ mission[m].action = "none"
    /\ Suspend(m, Controlled(mission[m], "ENDED"))

\* An action not sent yet is withdrawn with the mission, a sent one goes on.
CancelMission(m) ==
    /\ mission[m].status \in {"ACTIVE", "PAUSED"}
    /\ Suspend(m, [Controlled(mission[m], "ENDED") EXCEPT
                      !.action = IF @ = "queued" THEN "none" ELSE @])

ResumeMission(m) ==
    /\ mission[m].status = "PAUSED"
    /\ QueueChecks([mission EXCEPT ![m] = Controlled(@, "ACTIVE")], {m}, TRUE)
    /\ prep' = PrepsOutdated({m})
    /\ UNCHANGED <<alert, skipped>>

\* An emergency case takes the item: its routine proposal is retired.
OpenCase(m) ==
    /\ mission[m].status = "ACTIVE" /\ mission[m].case = "none"
    /\ mission' = [mission EXCEPT
          ![m].case = "open",
          ![m].plan = IF @ \in {"pending", "outdated"} THEN "none" ELSE @]
    /\ UNCHANGED <<check, prep, alert, asked, skipped>>

\* Its owner waits, or adopts a plan: then the mission gets a new version.
DecideCase(m) ==
    /\ mission[m].case = "open" /\ mission[m].action = "none"
    /\ mission' = [mission EXCEPT ![m].case = "decided"]
    /\ \/ prep' = prep
       \/ prep' = PrepsOutdated({m})
    /\ UNCHANGED <<check, alert, asked, skipped>>

\* It ends.  A check is asked for when its goods arrived or a decision was
\* given up, not when the follow-up closes it or nothing was decided.
EndCase(m) ==
    /\ mission[m].case # "none"
    /\ LET rows == [mission EXCEPT ![m].case = "none"]
       IN  \/ /\ mission[m].case = "decided" /\ mission[m].status = "ACTIVE"
              /\ QueueChecks(rows, {m}, FALSE)
           \/ mission' = rows /\ UNCHANGED <<check, asked>>
    /\ UNCHANGED <<prep, alert, skipped>>

\* decide(): the proposal, or the plan of a decided case, becomes the store's
\* one open purchase.
Approve(m) ==
    /\ mission[m].status = "ACTIVE"
    /\ \A k \in Missions : mission[k].action = "none"
    /\ mission[m].plan = "pending" \/ mission[m].case = "decided"
    /\ mission' = [mission EXCEPT ![m].action = "queued", ![m].plan = "none"]
    /\ UNCHANGED <<check, prep, alert, asked, skipped>>

Reject(m) ==
    /\ mission[m].plan \in {"pending", "outdated"}
    /\ mission' = [mission EXCEPT ![m].plan = "rejected"]
    /\ UNCHANGED <<check, prep, alert, asked, skipped>>

\* The purchase is registered with the store: nobody is told.
SendPurchase(m) ==
    /\ mission[m].action = "queued"
    /\ mission' = StateMoves([mission EXCEPT ![m].action = "sent"])
    /\ prep' = PrepsOutdated(Missions)
    /\ UNCHANGED <<check, alert, asked, skipped>>

\* It is refused before it is sent (STALE), or it was sent and has an outcome:
\* the mission, if still ACTIVE, is checked again.
EndPurchase(m) ==
    /\ mission[m].action # "none"
    /\ LET rows == [mission EXCEPT ![m].action = "none"]
           sent == mission[m].action = "sent"
       IN  /\ QueueChecks(IF sent THEN StateMoves(rows) ELSE rows,
                          Active \cap {m}, FALSE)
           /\ prep' = IF sent THEN PrepsOutdated(Missions) ELSE prep
    /\ UNCHANGED <<alert, skipped>>

-----------------------------------------------------------------------------
(* The check job.  fresh is source_fresh() at that moment. *)

ClaimCheck(m) ==
    /\ check[m] = "WAITING"
    /\ check' = [check EXCEPT ![m] = "RUNNING"]
    /\ UNCHANGED <<mission, prep, alert, asked, skipped>>

\* prepare(), in its read-only snapshot.
PrepareCheck(m, fresh) ==
    /\ check[m] = "RUNNING" /\ prep[m].read = "no"
    /\ prep' = [prep EXCEPT ![m] = [read |-> "current", fresh |-> fresh,
                                    manual |-> mission[m].manual]]
    /\ asked' = [asked EXCEPT ![m] = FALSE]
    /\ UNCHANGED <<mission, check, alert, skipped>>

\* complete() and after_complete(): m's row is row, the others' are rows, the
\* job is SUCCEEDED, and a recheck requested meanwhile becomes its successor.
Conclude(m, row, rows) ==
    LET done  == [check EXCEPT ![m] = "SUCCEEDED"]
        again == row.status = "ACTIVE" /\ row.recheck
        M     == IF again THEN {m} ELSE {}
    IN  /\ mission' = Queued([rows EXCEPT ![m] =
                                IF again THEN [row EXCEPT !.recheck = FALSE]
                                ELSE row], done, M, FALSE)
        /\ check' = QueuedJobs(done, M)
        /\ asked' = Asked(M)

\* The old proposal when the check looks at it: gone if it expired, its
\* versions are no longer in force, or a case holds the item.
Retired(r, expired) ==
    IF r.plan = "outdated" \/ (r.plan = "pending" /\ (expired \/ r.case # "none"))
    THEN [r EXCEPT !.plan = "none"] ELSE r

\* A case, an action or the mission's own state keeps the check from looking:
\* whatever was asked for is answered with that.
Held(r) == r.case # "none" \/ r.status # "ACTIVE" \/ r.action # "none"

Answered(r) == [r EXCEPT !.recheck = FALSE, !.manual = FALSE]

\* The plan a decided case adopted may be waiting for its owner.
MayAwaitApproval(r) ==
    r.case = "decided" /\ r.status = "ACTIVE" /\ r.action = "none"

\* While that plan fits, what was asked for stays asked for; when it expired
\* or no longer fits, it goes and the case is to be decided again.
SkipCheck(m, r) ==
    /\ \/ Conclude(m, Answered(r), mission)
       \/ /\ MayAwaitApproval(r)
          /\ \/ Conclude(m, r, mission)
             \/ Conclude(m, [Answered(r) EXCEPT !.case = "open"], mission)
    /\ skipped' = [skipped EXCEPT ![m] = TRUE]
    /\ UNCHANGED alert

\* The inputs moved between the snapshot and the publication: look again.
LookAgain(m, r) ==
    /\ Conclude(m, [r EXCEPT !.recheck = TRUE], mission)
    /\ skipped' = [skipped EXCEPT ![m] = FALSE]
    /\ UNCHANGED alert

\* A DATA_STALE finding instead of a plan, about the source or, when that is
\* fresh, about another input; a manual request stays open.
Inconclusive(m, r, stale) ==
    /\ Conclude(m, r, mission)
    /\ alert' = [alert EXCEPT ![m] = stale]
    /\ skipped' = [skipped EXCEPT ![m] = FALSE]

\* Mutant: a manual request is ticked off by whatever check ends first.
NeverManual(r) == FALSE

\* A manual request stays open when the check is to be repeated.
StillManual(r) == r.manual /\ r.recheck

\* A usable snapshot: a rejected intent is not proposed again, a proposal made
\* of the same input is kept, else a new one is made.  Renewing an expired
\* forecast moves the store first.
Evaluate(m, r, renewal) ==
    LET rows == IF renewal THEN StateMoves(mission) ELSE mission
        done == [r EXCEPT !.manual = StillManual(r)]
    IN  /\ \/ /\ r.plan = "rejected" /\ ~prep[m].manual
              /\ Conclude(m, r, rows)
           \/ Conclude(m, [done EXCEPT !.plan = "pending"], rows)
        /\ alert' = [alert EXCEPT ![m] = FALSE]
        /\ skipped' = [skipped EXCEPT ![m] = FALSE]

\* The other claims' snapshots after m's publication.
AfterCheck(m, renewal) ==
    [IF renewal THEN PrepsOutdated(Missions) ELSE prep EXCEPT ![m] = NotPrepared]

\* apply(), complete() and after_complete() in the publication transaction.
\* A decided case may turn out to be settled: then the check goes on.
ApplyCheck(m, fresh) ==
    /\ check[m] = "RUNNING" /\ prep[m].read # "no"
    /\ \E settled, expired, renewal \in BOOLEAN :
       LET row == IF settled /\ mission[m].case = "decided"
                  THEN [mission[m] EXCEPT !.case = "none"] ELSE mission[m]
           r   == Retired(row, expired)
       IN  \/ /\ Held(r) /\ ~renewal
              /\ SkipCheck(m, r)
              /\ prep' = AfterCheck(m, FALSE)
           \/ /\ ~Held(r) /\ prep[m].read = "outdated" /\ ~renewal
              /\ LookAgain(m, r)
              /\ prep' = AfterCheck(m, FALSE)
           \/ /\ ~Held(r) /\ prep[m].read = "current" /\ ~renewal
              /\ Inconclusive(m, r, ~(prep[m].fresh /\ fresh))
              /\ prep' = AfterCheck(m, FALSE)
           \/ /\ ~Held(r) /\ prep[m].read = "current" /\ prep[m].fresh /\ fresh
              /\ Evaluate(m, r, renewal)
              /\ prep' = AfterCheck(m, renewal)

\* The handler has no on_error: a check that fails, or a claim that expired,
\* leaves the mission alone; the row is retried or FAILED for good.
CheckFails(m) ==
    /\ check[m] = "RUNNING"
    /\ \E st \in {"WAITING", "FAILED"} : check' = [check EXCEPT ![m] = st]
    /\ prep' = [prep EXCEPT ![m] = NotPrepared]
    /\ UNCHANGED <<mission, alert, asked, skipped>>

\* check_freshness: a stale source raises the alert of every open mission.
RaiseStale ==
    /\ alert' = [m \in Missions |-> alert[m] \/ mission[m].status # "ENDED"]
    /\ UNCHANGED <<mission, check, prep, asked, skipped>>

-----------------------------------------------------------------------------
CheckStep(fresh) ==
    \/ StoreMoves
    \/ \E m \in Missions :
          \/ RequestCheck(m) \/ IntervalCheck(m) \/ RevisePlan(m, fresh)
          \/ Pause(m) \/ Complete(m) \/ CancelMission(m) \/ ResumeMission(m)
          \/ OpenCase(m) \/ DecideCase(m) \/ EndCase(m)
          \/ Approve(m) \/ Reject(m) \/ SendPurchase(m) \/ EndPurchase(m)
          \/ ClaimCheck(m) \/ PrepareCheck(m, fresh) \/ ApplyCheck(m, fresh)
          \/ CheckFails(m)

-----------------------------------------------------------------------------
(* Properties *)

\* A request for a check is not lost between a running check and its end: when
\* the newest check SUCCEEDED, with nothing queued behind it, no check was asked
\* for since it read its inputs, unless what holds the mission was its answer
\* (queue_check 142-143, planning/jobs.py 141-147 and 259-273).
RequestsAreAnswered ==
    \A m \in Missions :
       check[m] = "SUCCEEDED" /\ mission[m].status = "ACTIVE" /\ asked[m]
       => skipped[m]

\* A check somebody asked for by hand is carried out by a check that knew of
\* it, or given up because the mission was controlled, is inactive, or a case
\* or an action holds it: an older check that ends meanwhile cannot tick it
\* off (planning/jobs.py 216-219 and 238-239).
ManualRequestsAreSeen ==
    [][\A m \in Missions :
          mission[m].manual /\ ~mission'[m].manual =>
             \/ prep[m].manual
             \/ mission'[m].status # "ACTIVE"
             \/ mission[m].case # "none"
             \/ mission[m].action # "none"]_checkVars
=============================================================================
