------------------------------ MODULE AgentRuns ------------------------------
(***************************************************************************)
(* The runs of one Agent conversation (backend/app/agent_bridge: jobs.py,  *)
(* repository.py, triggers.py, router.py).                                 *)
(*                                                                         *)
(* A conversation carries out one run at a time, for a message of its user *)
(* or as a follow-up of a business change; the others queue.  A run is     *)
(* executed by a job of the queue (JobRuns), of which a worker holds the   *)
(* lease; its user may cancel it, a worker may die, and the hook that runs *)
(* before each claim closes what a dead job left and starts follow-ups.    *)
(*                                                                         *)
(* Every operation is one transaction under the conversation's row lock.   *)
(* The hook that starts follow-ups reads the mission and the rest of what  *)
(* a fingerprint covers, and then the triggers, each statement in a        *)
(* snapshot of its own.  Business changes committed between fingerprint    *)
(* and triggers are a step; the statements of a fingerprint (mission,      *)
(* plan, action, goods, alerts) are one reading here, so a fingerprint of  *)
(* two states does not occur.  What it covers is a number that every       *)
(* change moves on; waiting for the interval to be due is left out, as a   *)
(* follow-up is due again and again.                                       *)
(***************************************************************************)
EXTENDS Naturals, FiniteSets

CONSTANTS Workers, NoWorker,
          AttemptLimit,  \* max_attempts of an Agent job
          FailureLimit,  \* FOLLOWUP_FAILURE_LIMIT
          MaxMessages,   \* bound: messages the user sends
          MaxChanges     \* bound: business changes

ASSUME AgentAssumption == NoWorker \notin Workers
                          /\ AttemptLimit \in Nat \ {0} /\ FailureLimit \in Nat \ {0}
                          /\ MaxMessages \in Nat /\ MaxChanges \in Nat

\* Enough for every message and for one follow-up of each business state.
Runs    == 1 .. MaxMessages + MaxChanges + 1
NoRun   == 0
States  == 0 .. MaxChanges
Nothing == MaxChanges + 1        \* no fingerprint yet

VARIABLES
    run,       \* AgentRun
    job,       \* the JobRun of AgentRun.job_id
    conv,      \* Conversation
    worker,    \* what each worker executes
    business,  \* what a fingerprint reads, the triggers recorded of it, and
               \* the state since which the mission is over
    reading    \* a follow-up hook between its two reads, with its fingerprint

vars == <<run, job, conv, worker, business, reading>>

Finished == {"SUCCEEDED", "FAILED", "CANCELLED"}

RunRows ==
    [status  : {"NONE", "QUEUED", "RUNNING", "WAITING_INPUT"} \cup Finished,
     trigger : {"USER", "FOLLOWUP"},
     mark    : States,                     \* trigger_watermark
     print   : States \cup {Nothing}]      \* trigger_fingerprint

\* WAITING: READY and RETRY_WAIT.  The owner of the lease is who claimed it last.
JobRows ==
    [status   : {"NONE", "WAITING", "RUNNING"} \cup Finished,
     attempts : 0 .. AttemptLimit,
     owner    : Workers \cup {NoWorker}]

ConvRows ==
    [active   : Runs \cup {NoRun},         \* active_run_id
     enabled  : BOOLEAN,                   \* followup_enabled
     last     : States \cup {Nothing},     \* last_fingerprint
     consumed : States]                    \* consumed_trigger

WorkerStates ==
    [run : Runs \cup {NoRun}, phase : {"idle", "claimed", "working"}]

TypeOK ==
    /\ run \in [Runs -> RunRows]
    /\ job \in [Runs -> JobRows]
    /\ conv \in ConvRows
    /\ worker \in [Workers -> WorkerStates]
    /\ business \in [state : States, recorded : States, ended : States \cup {Nothing}]
    /\ reading \in States \cup {Nothing}

NoJob  == [status |-> "NONE", attempts |-> 0, owner |-> NoWorker]
NewJob == [NoJob EXCEPT !.status = "WAITING"]
Over(status) == [NoJob EXCEPT !.status = status]   \* attempts no longer matter
Idle   == [run |-> NoRun, phase |-> "idle"]
NotCreated == [status |-> "NONE", trigger |-> "USER", mark |-> 0, print |-> Nothing]

Init ==
    /\ run = [r \in Runs |-> NotCreated]
    /\ job = [r \in Runs |-> NoJob]
    /\ conv = [active |-> NoRun, enabled |-> TRUE, last |-> Nothing, consumed |-> 0]
    /\ worker = [w \in Workers |-> Idle]
    /\ business = [state |-> 0, recorded |-> 0, ended |-> Nothing]
    /\ reading = Nothing

-----------------------------------------------------------------------------
(* Operators *)

Later(a, b) == IF a > b THEN a ELSE b

Created   == {r \in Runs : run[r].status # "NONE"}
Followups == {r \in Runs : run[r].trigger = "FOLLOWUP"}
Unlocked  == reading = Nothing
Holds(w)  == job[worker[w].run].status = "RUNNING" /\ job[worker[w].run].owner = w

\* The next AgentRun: ids are given in the order of created_at.
NewRun(r) == r \in Runs /\ Created = 1 .. r - 1

\* promote(): an idle conversation takes its oldest queued run.
Oldest(rows) ==
    IF \E r \in Runs : rows[r].status = "QUEUED"
    THEN CHOOSE r \in Runs : rows[r].status = "QUEUED"
                             /\ \A q \in 1 .. r - 1 : rows[q].status # "QUEUED"
    ELSE NoRun

\* The conversation, by now c, and the jobs after that.
Promote(c, jobs, rows) ==
    LET next == IF c.active = NoRun THEN Oldest(rows) ELSE NoRun
    IN  /\ run' = rows
        /\ conv' = IF next = NoRun THEN c ELSE [c EXCEPT !.active = next]
        /\ job' = IF next = NoRun THEN jobs ELSE [jobs EXCEPT ![next] = NewJob]

\* What an ended run leaves in its conversation: its triggers and its
\* fingerprint count as handled.
Handled(c, r) ==
    [c EXCEPT !.consumed = Later(@, run[r].mark),
              !.last = IF run[r].print # Nothing THEN run[r].print ELSE @]

\* Mutant: only a follow-up that failed is not redone, one that was cancelled is.
FollowupFailed(c, r, status) == IF status = "FAILED" THEN Handled(c, r) ELSE c

\* followup_closed(): FailureLimit failures in a row pause the follow-up.
FollowupClosed(c, r, status) ==
    LET recent == {q \in Followups :
                     Cardinality({p \in Followups : p > q}) < FailureLimit}
        paused == /\ status = "FAILED"
                  /\ Cardinality(recent) = FailureLimit
                  /\ \A q \in recent \ {r} : run[q].status = "FAILED"
    IN  [Handled(c, r) EXCEPT !.enabled = @ /\ ~paused]

\* Mutant: the conversation is left without a run although some are queued.
CloseOnly(r, status, c, jobs) ==
    /\ run' = [run EXCEPT ![r].status = status]
    /\ conv' = [c EXCEPT !.active = IF @ = r THEN NoRun ELSE @]
    /\ job' = jobs

\* close_run()
CloseRun(r, status, c, jobs) ==
    LET closed == IF run[r].trigger = "FOLLOWUP" /\ status # "SUCCEEDED"
                  THEN FollowupClosed(c, r, status) ELSE c
    IN  Promote([closed EXCEPT !.active = IF @ = r THEN NoRun ELSE @], jobs,
                [run EXCEPT ![r].status = status])

-----------------------------------------------------------------------------
(* The user *)

\* send_message()
SendMessage(r) ==
    /\ Unlocked /\ NewRun(r) /\ Cardinality(Created \ Followups) < MaxMessages
    /\ Promote(conv, job, [run EXCEPT ![r].status = "QUEUED"])
    /\ UNCHANGED <<worker, business, reading>>

\* resume(): an answer queues the run with a new job, "stop" cancels it.
Resume(r) ==
    /\ Unlocked /\ run[r].status = "WAITING_INPUT"
    /\ \/ CloseRun(r, "CANCELLED", conv, job)
       \/ /\ run' = [run EXCEPT ![r].status = "QUEUED"]
          /\ conv' = [conv EXCEPT !.active = r]
          /\ job' = [job EXCEPT ![r] = NewJob]
    /\ UNCHANGED <<worker, business, reading>>

\* cancel(): the job goes with the run, whoever executes it.
CancelRun(r) ==
    /\ Unlocked /\ run[r].status \in {"QUEUED", "RUNNING", "WAITING_INPUT"}
    /\ CloseRun(r, "CANCELLED", conv,
          IF job[r].status \in {"WAITING", "RUNNING"}
          THEN [job EXCEPT ![r] = Over("CANCELLED")] ELSE job)
    /\ UNCHANGED <<worker, business, reading>>

\* configure_agent_followup
SetFollowup ==
    /\ Unlocked
    /\ conv' = [conv EXCEPT !.enabled = ~@]
    /\ UNCHANGED <<run, job, worker, business, reading>>

\* Something a follow-up would explain changes, with or without an event of the
\* kinds that timeline() records for conversations that follow up.
BusinessChanges(event) ==
    /\ business.state < MaxChanges
    /\ business' = [business EXCEPT !.state = @ + 1,
                       !.recorded = IF event /\ conv.enabled THEN @ + 1 ELSE @]
    /\ UNCHANGED <<run, job, conv, worker, reading>>

\* control_mission(): no event of a kind that is recorded.
MissionEnds ==
    /\ business.ended = Nothing /\ business.state < MaxChanges
    /\ business' = [business EXCEPT !.state = @ + 1, !.ended = business.state + 1]
    /\ UNCHANGED <<run, job, conv, worker, reading>>

-----------------------------------------------------------------------------
(* A worker and the lease of its job *)

Claim(w, r) ==
    /\ worker[w] = Idle /\ job[r].status = "WAITING"
    /\ job' = [job EXCEPT ![r] = [status |-> "RUNNING", owner |-> w, attempts |-> @.attempts + 1]]
    /\ worker' = [worker EXCEPT ![w] = [run |-> r, phase |-> "claimed"]]
    /\ UNCHANGED <<run, conv, business, reading>>

\* run() and apply() go on only with the conversation's active run.
MayStart(r) == conv.active = r /\ run[r].status \in {"QUEUED", "RUNNING"}
MayPublish(r) == conv.active = r /\ run[r].status = "RUNNING"

\* run(): the run is this execution's from here on, if it still has the lease.
Start(w) ==
    /\ Unlocked /\ worker[w].phase = "claimed" /\ Holds(w) /\ MayStart(worker[w].run)
    /\ run' = [run EXCEPT ![worker[w].run].status = "RUNNING"]
    /\ worker' = [worker EXCEPT ![w].phase = "working"]
    /\ UNCHANGED <<job, conv, business, reading>>

JobDone(r) == [job EXCEPT ![r] = Over("SUCCEEDED")]

\* Mutant: the publication is not fenced by the lease and the run's status.
PublishAnyway(w) ==
    /\ Unlocked /\ worker[w].phase = "working"
    /\ CloseRun(worker[w].run, "SUCCEEDED", Handled(conv, worker[w].run), JobDone(worker[w].run))
    /\ worker' = [worker EXCEPT ![w] = Idle]
    /\ UNCHANGED <<business, reading>>

\* apply() and complete(): the answer or the question, unless the lease is lost.
Publish(w) ==
    LET r == worker[w].run
    IN  /\ Unlocked /\ worker[w].phase = "working" /\ Holds(w) /\ MayPublish(r)
        /\ \/ CloseRun(r, "SUCCEEDED", Handled(conv, r), JobDone(r))
           \/ /\ run' = [run EXCEPT ![r].status = "WAITING_INPUT"]
              /\ job' = JobDone(r)
              /\ UNCHANGED conv
        /\ worker' = [worker EXCEPT ![w] = Idle]
        /\ UNCHANGED <<business, reading>>

\* The job waits for its next attempt.
Again(r) == [job[r] EXCEPT !.status = "WAITING", !.owner = NoWorker]

\* on_error() and fail() in one transaction: an error that may pass is retried,
\* any other ends the run with its job.
Fail(w, retryable) ==
    LET r     == worker[w].run
        again == retryable /\ job[r].attempts < AttemptLimit
        over  == [job EXCEPT ![r] = IF again THEN Again(r) ELSE Over("FAILED")]
    IN  /\ Unlocked /\ worker[w].phase # "idle" /\ Holds(w)
        /\ IF again \/ run[r].status = "CANCELLED"
           THEN job' = over /\ UNCHANGED <<run, conv>>
           ELSE CloseRun(r, "FAILED", conv, over)
        /\ worker' = [worker EXCEPT ![w] = Idle]
        /\ UNCHANGED <<business, reading>>

\* A worker without the lease publishes and records nothing; one that dies or
\* that saw its lease go leaves the job as it is.
GiveUp(w) ==
    /\ worker[w] # Idle
    /\ worker' = [worker EXCEPT ![w] = Idle]
    /\ UNCHANGED <<run, job, conv, business, reading>>

\* recover_expired(): the lease of a worker that died, or is late, runs out.
Expire(r) ==
    /\ job[r].status = "RUNNING"
    /\ job' = [job EXCEPT ![r] = IF @.attempts < AttemptLimit THEN Again(r) ELSE Over("FAILED")]
    /\ UNCHANGED <<run, conv, worker, business, reading>>

-----------------------------------------------------------------------------
(* The hook before each claim *)

\* Mutant: only a job that was cancelled is looked at, not one that died.
ReconcileCancelled ==
    LET r == conv.active
    IN  /\ Unlocked /\ r # NoRun
        /\ run[r].status \in {"QUEUED", "RUNNING"}
        /\ job[r].status = "CANCELLED"
        /\ CloseRun(r, "FAILED", conv, job)
        /\ UNCHANGED <<worker, business, reading>>

\* reconcile(): the active run of a job that ended without it.
Reconcile ==
    LET r == conv.active
    IN  /\ Unlocked /\ r # NoRun
        /\ run[r].status \in {"QUEUED", "RUNNING"}
        /\ job[r].status \in {"FAILED", "CANCELLED"}
        /\ CloseRun(r, "FAILED", conv, job)
        /\ UNCHANGED <<worker, business, reading>>

\* Mutant: a change is only looked at when an event of it was recorded.
ReadTriggered ==
    /\ Unlocked /\ conv.enabled /\ conv.active = NoRun
    /\ business.recorded > conv.consumed
    /\ reading' = business.state
    /\ UNCHANGED <<run, job, conv, worker, business>>

\* dispatch_followups() locks an idle conversation and reads the business.
ReadBusiness ==
    /\ Unlocked /\ conv.enabled /\ conv.active = NoRun
    /\ reading' = business.state
    /\ UNCHANGED <<run, job, conv, worker, business>>

\* It reads the triggers, and starts a follow-up of what was not explained yet.
Watermark == IF business.recorded > conv.consumed THEN business.recorded ELSE 0

\* mission.status as it was read with the fingerprint, before the triggers.
OverWhenRead == business.ended # Nothing /\ business.ended <= reading

Dispatch(r) ==
    /\ ~Unlocked /\ NewRun(r)
    /\ \/ /\ reading = conv.last
          /\ conv' = [conv EXCEPT !.consumed = Later(@, Watermark)]
          /\ UNCHANGED <<run, job>>
       \/ /\ reading # conv.last /\ OverWhenRead /\ Watermark = 0
          /\ UNCHANGED <<run, job, conv>>
       \/ /\ reading # conv.last /\ (~OverWhenRead \/ Watermark # 0)
          /\ Promote(conv, job, [run EXCEPT ![r] =
                [status |-> "QUEUED", trigger |-> "FOLLOWUP", mark |-> Watermark,
                 print |-> reading]])
    /\ reading' = Nothing
    /\ UNCHANGED <<worker, business>>

-----------------------------------------------------------------------------
WorkerStep(w) ==
    \/ \E r \in Runs : Claim(w, r)
    \/ Start(w) \/ Publish(w) \/ GiveUp(w)
    \/ \E retryable \in BOOLEAN : Fail(w, retryable)

Next ==
    \/ \E r \in Runs : SendMessage(r) \/ Resume(r) \/ CancelRun(r) \/ Expire(r) \/ Dispatch(r)
    \/ SetFollowup
    \/ \E event \in BOOLEAN : BusinessChanges(event)
    \/ MissionEnds
    \/ \E w \in Workers : WorkerStep(w)
    \/ Reconcile \/ ReadBusiness

Spec == Init /\ [][Next]_vars

\* The loop of the worker process: hooks, recovery, a claim, and a handler that
\* its timeout ends; whatever it does, the lease of a job runs out.
Fairness ==
    /\ \A w \in Workers : WF_vars(WorkerStep(w))
    /\ WF_vars(\E r \in Runs : Expire(r)) /\ WF_vars(\E r \in Runs : Dispatch(r))
    /\ WF_vars(Reconcile) /\ WF_vars(ReadBusiness)

FairSpec == Spec /\ Fairness

-----------------------------------------------------------------------------
(* Properties *)

\* No message waits beside an idle conversation: whatever ends a run, its user,
\* its worker or the hook, the oldest queued one takes its place
\* (repository.py 95-106 and 129-150).
IdleMeansNoneQueued ==
    conv.active = NoRun => \A r \in Runs : run[r].status # "QUEUED"

\* A run that ended is never published, asked about or ended again, though its
\* worker may not know yet (jobs.py 140-147 and 191-203).
EndedRunsStay ==
    [][\A r \in Runs : run[r].status \in Finished => run'[r] = run[r]]_vars

\* A follow-up that ended, with or without an answer, is not made again for the
\* same state of the business (triggers.py 57-67).
FollowupsDiffer ==
    \A q, r \in Followups : q # r => run[q].print # run[r].print

\* A run ends, or its user is asked something, whichever workers die.
RunsEnd ==
    \A r \in Runs :
       run[r].status \in {"QUEUED", "RUNNING"} ~>
          \/ run[r].status \in Finished \cup {"WAITING_INPUT"}
          \/ \E q \in Runs : run[q].status = "WAITING_INPUT"

\* As long as the mission is ACTIVE, a change is followed up however it was
\* recorded, unless follow-up is off or the user was asked something.
FollowupCatchesUp ==
    []<>(\/ conv.last = business.state
         \/ business.ended # Nothing \/ ~conv.enabled
         \/ \E q \in Runs : run[q].status = "WAITING_INPUT")
=============================================================================
