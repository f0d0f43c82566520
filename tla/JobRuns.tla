------------------------------- MODULE JobRuns -------------------------------
(***************************************************************************)
(* The durable job queue of the backend workers                            *)
(* (backend/app/scheduling/repository.py and runner.py).                   *)
(*                                                                         *)
(* A JobRun row is claimed under a lease by one coroutine of some worker   *)
(* process, here a "slot".  The slot runs the handler outside every        *)
(* transaction, then publishes the handler's business writes and the row's *)
(* final status in one transaction that is fenced by the lease token.      *)
(* A slot may lose its lease at any moment, die, or be told that a         *)
(* transaction failed although it had committed.                           *)
(*                                                                         *)
(* claim() draws a fresh uuid4 as lease token and increments attempt_count *)
(* of the row, so <<row, attempt_count>> names a claim exactly as the      *)
(* token does.  The model uses the attempt number as the token, 0 for NULL.*)
(***************************************************************************)
EXTENDS Naturals, FiniteSets

CONSTANTS
    Jobs,         \* dedup keys: one JobRun row each
    Slots,        \* run_once coroutines, of one or of several worker processes
    RetrySafe,    \* the jobs whose Handler has retry_safe=True
    NoJob,        \* the job of a slot that holds none
    MaxAttempts   \* the literal 3 of fail() and recover_expired()

ASSUME JobRunsAssumption ==
    /\ NoJob \notin Jobs
    /\ RetrySafe \subseteq Jobs
    /\ MaxAttempts \in Nat \ {0}

VARIABLES
    status,     \* JobRun.status, "ABSENT" while no row has the dedup key
    attempts,   \* JobRun.attempt_count
    token,      \* JobRun.lease_token
    live,       \* lease_until > clock_timestamp()
    due,        \* available_at <= clock_timestamp()
    run,        \* what each slot holds in memory, see Runs
    published,  \* history: the attempts whose result transaction committed
    failed      \* history: the attempts whose on_error transaction committed

row     == <<status, attempts, token, live, due>>
history == <<published, failed>>
vars    == <<row, run, history>>

Waiting  == {"READY", "RETRY_WAIT"}
Open     == Waiting \cup {"RUNNING"}
Terminal == {"SUCCEEDED", "FAILED", "CANCELLED"}
Tokens   == 0 .. MaxAttempts

\* A slot: where it is in run_once, its job with the lease token that object
\* carries, the asyncio.Event lost, and whether the exception it is handling
\* is a retryable AppError.
Idle == [pc |-> "idle", job |-> NoJob, tok |-> 0, lost |-> FALSE, again |-> FALSE]

Working ==
    [pc    : {"running", "publishing", "raised"},
     job   : Jobs,
     tok   : Tokens,
     lost  : BOOLEAN,
     again : BOOLEAN]

Runs == {Idle} \cup Working

Claimed(j, t) ==
    [pc |-> "running", job |-> j, tok |-> t, lost |-> FALSE, again |-> FALSE]

TypeOK ==
    /\ status    \in [Jobs -> {"ABSENT"} \cup Open \cup Terminal]
    /\ attempts  \in [Jobs -> Tokens]
    /\ token     \in [Jobs -> Tokens]
    /\ live      \in [Jobs -> BOOLEAN]
    /\ due       \in [Jobs -> BOOLEAN]
    /\ run       \in [Slots -> Runs]
    /\ published \in [Jobs -> SUBSET Tokens]
    /\ failed    \in [Jobs -> SUBSET Tokens]

Init ==
    /\ status    = [j \in Jobs |-> "ABSENT"]
    /\ attempts  = [j \in Jobs |-> 0]
    /\ token     = [j \in Jobs |-> 0]
    /\ live      = [j \in Jobs |-> FALSE]
    /\ due       = [j \in Jobs |-> FALSE]
    /\ run       = [s \in Slots |-> Idle]
    /\ published = [j \in Jobs |-> {}]
    /\ failed    = [j \in Jobs |-> {}]

-----------------------------------------------------------------------------
(* Rows *)

\* Mutant: the fence forgets the lease token.
OwnedByAnyClaim(j, t) == status[j] = "RUNNING" /\ live[j]

\* owned(): the predicate every fenced UPDATE carries.
Owned(j, t) == status[j] = "RUNNING" /\ token[j] = t /\ live[j]

\* The slot's own claim still holds the row.
Holds(s) == Owned(run[s].job, run[s].tok)

\* enqueue(): a key already present returns its row unchanged.  queue_action
\* moves available_at into the future, every other caller leaves it at now.
Enqueue(j) ==
    /\ status[j] = "ABSENT"
    /\ status' = [status EXCEPT ![j] = "READY"]
    /\ \E now \in BOOLEAN : due' = [due EXCEPT ![j] = now]
    /\ UNCHANGED <<attempts, token, live, run, history>>

\* control_mission() cancels the check jobs nobody is running.
Cancel(j) ==
    /\ status[j] \in Waiting
    /\ status' = [status EXCEPT ![j] = "CANCELLED"]
    /\ UNCHANGED <<attempts, token, live, due, run, history>>

\* The clock reaches available_at, or queue_check / queue_source pull it in.
BecomesDue(j) ==
    /\ status[j] \in Waiting
    /\ ~due[j]
    /\ due' = [due EXCEPT ![j] = TRUE]
    /\ UNCHANGED <<status, attempts, token, live, run, history>>

\* The clock passes lease_until before a renewal moved it.
LeaseExpires(j) ==
    /\ status[j] = "RUNNING"
    /\ live[j]
    /\ live' = [live EXCEPT ![j] = FALSE]
    /\ UNCHANGED <<status, attempts, token, due, run, history>>

-----------------------------------------------------------------------------
(* The claim transaction: recover_expired(), then claim() *)

\* Mutant: a row whose attempts are used up is not looked at any more.
ExpiredWithBudget ==
    {j \in RetrySafe :
        status[j] = "RUNNING" /\ ~live[j] /\ attempts[j] < MaxAttempts}

Expired == {j \in RetrySafe : status[j] = "RUNNING" /\ ~live[j]}

\* Mutant: the retry budget compares with <= instead of <.
RecoveredStatusOffByOne(R) ==
    [j \in Jobs |-> IF j \notin R THEN status[j]
                    ELSE IF attempts[j] <= MaxAttempts THEN "RETRY_WAIT"
                    ELSE "FAILED"]

\* recover_expired() on the rows R; SKIP LOCKED and LIMIT make R any subset.
RecoveredStatus(R) ==
    [j \in Jobs |-> IF j \notin R THEN status[j]
                    ELSE IF attempts[j] < MaxAttempts THEN "RETRY_WAIT"
                    ELSE "FAILED"]
RecoveredToken(R) == [j \in Jobs |-> IF j \in R THEN 0 ELSE token[j]]
RecoveredDue(R)   == [j \in Jobs |-> j \in R \/ due[j]]

\* The pass found nothing it may claim, or was told to stop.
RecoverOnly(s, R) ==
    /\ run[s].pc = "idle"
    /\ R # {}
    /\ status' = RecoveredStatus(R)
    /\ token'  = RecoveredToken(R)
    /\ due'    = RecoveredDue(R)
    /\ UNCHANGED <<attempts, live, run, history>>

RecoverAndClaim(s, R, j) ==
    /\ run[s].pc = "idle"
    /\ RecoveredStatus(R)[j] \in Waiting
    /\ RecoveredDue(R)[j]
    /\ status'   = [RecoveredStatus(R) EXCEPT ![j] = "RUNNING"]
    /\ attempts' = [attempts EXCEPT ![j] = @ + 1]
    /\ token'    = [RecoveredToken(R) EXCEPT ![j] = attempts[j] + 1]
    /\ live'     = [live EXCEPT ![j] = TRUE]
    /\ due'      = RecoveredDue(R)
    /\ run'      = [run EXCEPT ![s] = Claimed(j, attempts[j] + 1)]
    /\ UNCHANGED history

-----------------------------------------------------------------------------
(* A claimed job *)

\* _renew() found the row no longer owned, or its own transaction failed.
\* A renewal that succeeds leaves the lease live: no step of the model.
RenewalFails(s) ==
    /\ run[s].pc # "idle"
    /\ ~run[s].lost
    /\ run' = [run EXCEPT ![s].lost = TRUE]
    /\ UNCHANGED <<row, history>>

\* The handler's run() returned; a slot that knows it lost the lease stops.
RunReturns(s) ==
    /\ run[s].pc = "running"
    /\ run' = [run EXCEPT ![s] = IF @.lost THEN Idle
                                ELSE [@ EXCEPT !.pc = "publishing"]]
    /\ UNCHANGED <<row, history>>

\* Where an exception leads: only a retry-safe handler of a slot that still
\* believes in its lease records it; every other row is left RUNNING.
Raised(r, retryable) ==
    IF r.job \in RetrySafe /\ ~r.lost
    THEN [r EXCEPT !.pc = "raised", !.again = retryable]
    ELSE Idle

\* run(), apply() or after_complete() raised, or the job timeout fired: the
\* transaction, if one was open, is rolled back.
HandlerRaises(s) ==
    /\ run[s].pc \in {"running", "publishing"}
    /\ \E retryable \in BOOLEAN :
          run' = [run EXCEPT ![s] = Raised(@, retryable)]
    /\ UNCHANGED <<row, history>>

\* apply(), complete() and after_complete() in one transaction.
CommitResult(j, t) ==
    /\ status'    = [status EXCEPT ![j] = "SUCCEEDED"]
    /\ token'     = [token EXCEPT ![j] = 0]
    /\ live'      = [live EXCEPT ![j] = FALSE]
    /\ published' = [published EXCEPT ![j] = @ \cup {t}]
    /\ UNCHANGED <<attempts, due, failed>>

Publish(s) ==
    /\ run[s].pc = "publishing"
    /\ run' = [run EXCEPT ![s] = Idle]
    /\ \/ Holds(s) /\ CommitResult(run[s].job, run[s].tok)
       \/ ~Holds(s) /\ UNCHANGED <<row, history>>

\* The commit reached the database, its acknowledgement did not reach the
\* slot (connection error, or the job timeout inside the commit): the except
\* branch runs for a job that has in fact succeeded.
PublishUnacknowledged(s) ==
    /\ run[s].pc = "publishing"
    /\ Holds(s)
    /\ CommitResult(run[s].job, run[s].tok)
    /\ run' = [run EXCEPT ![s] = Raised(@, FALSE)]

\* fail(): back to RETRY_WAIT with a delay, or FAILED for good.
FailRow(j, t, retryable) ==
    /\ IF retryable /\ attempts[j] < MaxAttempts
       THEN /\ status' = [status EXCEPT ![j] = "RETRY_WAIT"]
            /\ due'    = [due EXCEPT ![j] = FALSE]
       ELSE /\ status' = [status EXCEPT ![j] = "FAILED"]
            /\ due'    = due
    /\ token'  = [token EXCEPT ![j] = 0]
    /\ live'   = [live EXCEPT ![j] = FALSE]
    /\ failed' = [failed EXCEPT ![j] = @ \cup {t}]
    /\ UNCHANGED <<attempts, published>>

\* Mutant: the failure is recorded without asking who holds the row.
RecordFailureUnfenced(s) ==
    /\ run[s].pc = "raised"
    /\ run' = [run EXCEPT ![s] = Idle]
    /\ FailRow(run[s].job, run[s].tok, run[s].again)

\* Mutant: on_error's writes are kept although fail() was not accepted.
RecordFailureKeepsHook(s) ==
    /\ run[s].pc = "raised"
    /\ run' = [run EXCEPT ![s] = Idle]
    /\ \/ Holds(s) /\ FailRow(run[s].job, run[s].tok, run[s].again)
       \/ /\ ~Holds(s)
          /\ failed' = [failed EXCEPT ![run[s].job] = @ \cup {run[s].tok}]
          /\ UNCHANGED <<row, published>>

\* on_error() and fail() in one transaction, rolled back when not accepted.
RecordFailure(s) ==
    /\ run[s].pc = "raised"
    /\ run' = [run EXCEPT ![s] = Idle]
    /\ \/ Holds(s) /\ FailRow(run[s].job, run[s].tok, run[s].again)
       \/ ~Holds(s) /\ UNCHANGED <<row, history>>

\* The process dies or is cancelled, or the failure transaction itself fails.
Crash(s) ==
    /\ run[s].pc # "idle"
    /\ run' = [run EXCEPT ![s] = Idle]
    /\ UNCHANGED <<row, history>>

-----------------------------------------------------------------------------
Progress(s) ==
    RunReturns(s) \/ HandlerRaises(s) \/ Publish(s) \/ RecordFailure(s)

Next ==
    \/ \E j \in Jobs :
          Enqueue(j) \/ Cancel(j) \/ BecomesDue(j) \/ LeaseExpires(j)
    \/ \E s \in Slots, R \in SUBSET Expired : RecoverOnly(s, R)
    \/ \E s \in Slots, R \in SUBSET Expired, j \in Jobs :
          RecoverAndClaim(s, R, j)
    \/ \E s \in Slots :
          \/ RenewalFails(s)
          \/ RunReturns(s)
          \/ HandlerRaises(s)
          \/ Publish(s)
          \/ PublishUnacknowledged(s)
          \/ RecordFailure(s)
          \/ Crash(s)

Spec == Init /\ [][Next]_vars

\* No slot is working on the claim the row records.
Orphaned(j) ==
    \A s \in Slots : ~(run[s].job = j /\ run[s].tok = token[j])

Recovers(j) ==
    \E s \in Slots, R \in SUBSET Expired :
       j \in R /\ (RecoverOnly(s, R) \/ \E k \in Jobs : RecoverAndClaim(s, R, k))

Claims(j) == \E s \in Slots, R \in SUBSET Expired : RecoverAndClaim(s, R, j)

(***************************************************************************)
(* A handler ends because run_once bounds it with job_timeout_seconds; a   *)
(* delay and an unrenewed lease end because the clock advances.  A claim   *)
(* takes the row with the oldest available_at first and a recovery takes   *)
(* every expired row it can lock, so a row that is due, or expired, again  *)
(* and again is not passed over for ever: strong fairness.                 *)
(***************************************************************************)
Fairness ==
    /\ \A s \in Slots : WF_vars(Progress(s))
    /\ \A j \in Jobs :
          /\ WF_vars(BecomesDue(j))
          /\ WF_vars(LeaseExpires(j) /\ Orphaned(j))
          /\ SF_vars(Recovers(j))
          /\ SF_vars(Claims(j))

FairSpec == Spec /\ Fairness

-----------------------------------------------------------------------------
(* What the queue promises *)

PhaseOf(st) ==
    IF st = "ABSENT" THEN "absent"
    ELSE IF st = "SUCCEEDED" THEN "published"
    ELSE IF st = "FAILED" THEN "failed"
    ELSE IF st = "CANCELLED" THEN "cancelled"
    ELSE "open"

phaseBar   == [j \in Jobs |-> PhaseOf(status[j])]
visibleBar == [j \in Jobs |-> published[j] # {}]

Outcome == INSTANCE JobOutcome WITH phase <- phaseBar, visible <- visibleBar

\* The queue with its leases, retries and crashes implements the abstract
\* job: a result becomes visible exactly when its job is announced as done,
\* and recovery, retries and lost workers are invisible.
ImplementsOutcome == Outcome!Spec

-----------------------------------------------------------------------------
(* Properties *)

\* A row's business result is published at most once, by the claim that holds
\* the row at that moment and never by an older one, and exactly when the row
\* becomes SUCCEEDED (runner.py 78-87: one transaction, fenced by complete()).
OnlyNewestAttemptPublishes ==
    \A j \in Jobs :
       published[j] = IF status[j] = "SUCCEEDED" THEN {attempts[j]} ELSE {}

\* An attempt leaves at most one business outcome behind: the error hook of a
\* publication that committed but was reported as failed writes nothing
\* (runner.py 99-113), and no attempt reports a failure after a later claim.
OneOutcomePerAttempt ==
    \A j \in Jobs :
       /\ published[j] \cap failed[j] = {}
       /\ status[j] = "RUNNING" => attempts[j] \notin published[j] \cup failed[j]

\* The retry budget (attempt_count < 3 in fail() and recover_expired()): a row
\* that may yet be claimed has a claim left, and no row is claimed more often.
AttemptBudget ==
    \A j \in Jobs :
       /\ attempts[j] <= MaxAttempts
       /\ status[j] \in Waiting \cup {"ABSENT"} => attempts[j] < MaxAttempts

\* The strengthening the proofs need: the token of a RUNNING row is its newest
\* attempt, and failures are older than the attempt that runs or succeeded.
TokenNamesAttempt ==
    \A j \in Jobs : status[j] = "RUNNING" => token[j] = attempts[j]

FailuresAreOlder ==
    \A j \in Jobs : \A t \in failed[j] :
       /\ t <= attempts[j]
       /\ status[j] \in {"RUNNING", "SUCCEEDED"} => t < attempts[j]

IInv ==
    /\ TypeOK
    /\ TokenNamesAttempt
    /\ FailuresAreOlder
    /\ OnlyNewestAttemptPublishes
    /\ AttemptBudget

\* A finished row is never taken up again, however late a slot, a lease or a
\* recovery pass comes back to it.
FinishedStaysFinished ==
    [][\A j \in Jobs : status[j] \in Terminal => status'[j] = status[j]]_vars

\* What an on_error hook commits always belongs to the claim that holds the
\* row: a slot that lost its lease cannot record a failure over its successor.
FailuresAreCurrent ==
    [][\A j \in Jobs : failed'[j] \ failed[j] \subseteq
          (IF status[j] = "RUNNING" THEN {attempts[j]} ELSE {})]_vars

\* A retry-safe job that was enqueued ends, whatever crashes: published,
\* failed after its attempts, or cancelled.
RetrySafeJobsEnd ==
    \A j \in RetrySafe : status[j] \in Open ~> status[j] \in Terminal
=============================================================================
