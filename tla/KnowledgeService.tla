---------------------------- MODULE KnowledgeService ----------------------------
(***************************************************************************)
(* The knowledge service for one version of a document                     *)
(* (knowledge/src/shopsteward_knowledge: ingestion.py, worker.py,          *)
(* publication.py).                                                        *)
(*                                                                         *)
(* The service keeps the newest metadata projection it was sent and one    *)
(* ingestion job for each request.  Every attempt of a job builds an index *)
(* generation of its own, which is READY or FAILED for good; a failed job  *)
(* may be retried by a command with a key of its own.  A builder is one    *)
(* execution of the worker process, fenced by the lease of its job.        *)
(*                                                                         *)
(* A revision of the metadata stands for the payload of that revision.     *)
(* PENDING covers RETRY_WAIT (waiting for time to pass is left out), the   *)
(* original, its chunks and the manifest are left to the generation.       *)
(***************************************************************************)
EXTENDS Naturals

CONSTANTS Requests,       \* requests to index, by idempotency key
          Builders, NoBuilder,
          Window,         \* max_attempts of a job, and of each retry of it
          Total,          \* max_total_attempts
          MaxRevision,    \* bound: revisions of the metadata
          MaxRetries      \* bound: manual retries of a request

ASSUME ServiceAssumption ==
    /\ NoBuilder \notin Builders
    /\ Window \in Nat \ {0} /\ Total \in Nat /\ Window <= Total
    /\ MaxRevision \in Nat \ {0} /\ MaxRetries \in Nat

VARIABLES
    projection,   \* ProjectionRecord.metadata_revision, 0 without a record
    job,          \* knowledge_jobs
    gens,         \* knowledge_index_generations, of each job and attempt
    answers,      \* knowledge_job_retries: the attempt of each saved receipt
    builder       \* the job, attempt and projection each builder claimed

serviceVars == <<projection, job, gens, answers, builder>>

Revisions == 1 .. MaxRevision
Attempts  == 1 .. Total
Keys      == 1 .. MaxRetries

Jobs ==
    [state   : {"NONE", "PENDING", "RUNNING", "SUCCEEDED", "FAILED"},
     rev     : {0} \cup Revisions,        \* of the request's projection
     attempt : {0} \cup Attempts,
     limit   : {0} \cup Attempts,
     lease   : Builders \cup {NoBuilder}]

Generations == [state : {"NONE", "BUILDING", "READY", "FAILED"}, rev : {0} \cup Revisions]

NoJob        == [state |-> "NONE", rev |-> 0, attempt |-> 0, limit |-> 0, lease |-> NoBuilder]
NoGeneration == [state |-> "NONE", rev |-> 0]
Resting      == [claimed |-> FALSE]
Building     == [claimed : {TRUE}, job : Requests, attempt : Attempts, rev : Revisions]

ServiceTypeOK ==
    /\ projection \in {0} \cup Revisions
    /\ job \in [Requests -> Jobs]
    /\ gens \in [Requests -> [Attempts -> Generations]]
    /\ answers \in [Requests -> [Keys -> {0} \cup Attempts]]
    /\ builder \in [Builders -> Building \cup {Resting}]

ServiceInit ==
    /\ projection = 0
    /\ job = [q \in Requests |-> NoJob]
    /\ gens = [q \in Requests |-> [n \in Attempts |-> NoGeneration]]
    /\ answers = [q \in Requests |-> [k \in Keys |-> 0]]
    /\ builder = [b \in Builders |-> Resting]

Later(a, b)   == IF a > b THEN a ELSE b
Earlier(a, b) == IF a < b THEN a ELSE b

\* Job.generation_id: the first attempt builds the generation of the request.
GenerationOf(attempt) == Later(attempt, 1)

\* job_receipt(), of a job as it is
Receipt(j) == [state |-> j.state, attempt |-> j.attempt, gen |-> GenerationOf(j.attempt)]

-----------------------------------------------------------------------------
(* Requests of the backend *)

\* apply_projection(): only a newer revision is applied.
Project(rev) == projection' = Later(projection, rev)

\* accept(): the request's projection and a job, once for each request.
AcceptIngestion(q, rev) ==
    IF job[q].state # "NONE"
    THEN UNCHANGED serviceVars
    ELSE /\ Project(rev)
         /\ job' = [job EXCEPT ![q] = [NoJob EXCEPT !.state = "PENDING", !.rev = rev,
                                                    !.limit = Window]]
         /\ gens' = [gens EXCEPT ![q][1] = [state |-> "BUILDING", rev |-> rev]]
         /\ UNCHANGED <<answers, builder>>

\* retry(): what is retried is failed, current, active and within its budget.
MayRetry(q, active) ==
    /\ job[q].state = "FAILED"
    /\ projection = job[q].rev /\ active
    /\ gens[q][GenerationOf(job[q].attempt)].state # "READY"
    /\ job[q].attempt < Total

RetryJob(q, k, active) ==
    \/ answers[q][k] # 0 /\ UNCHANGED serviceVars
    \/ /\ answers[q][k] = 0 /\ MayRetry(q, active)
       /\ answers' = [answers EXCEPT ![q][k] = job[q].attempt]
       /\ job' = [job EXCEPT ![q] = [@ EXCEPT !.state = "PENDING",
                     !.limit = Earlier(job[q].attempt + Window, Total), !.lease = NoBuilder]]
       /\ UNCHANGED <<projection, gens, builder>>

\* RetryCommand.receipt, which is what a retry sent again answers
SavedReceipt(attempt) ==
    [state |-> "PENDING", attempt |-> attempt, gen |-> GenerationOf(attempt)]

-----------------------------------------------------------------------------
(* The worker *)

\* claim_job(): a due job, or one whose lease ran out.
Due(q) ==
    \/ job[q].state = "PENDING"
    \/ job[q].state = "RUNNING" /\ job[q].lease = NoBuilder

Exhausted(q) == job[q].attempt >= Earlier(job[q].limit, Total)

ClaimJob(b, q) ==
    LET now == job[q].attempt
        new == now + 1
    IN  /\ builder[b] = Resting /\ Due(q) /\ ~Exhausted(q)
        /\ job' = [job EXCEPT ![q] = [@ EXCEPT !.state = "RUNNING", !.attempt = new, !.lease = b]]
        /\ gens' = [gens EXCEPT ![q] = [n \in Attempts |->
              CASE n = new -> [state |-> "BUILDING", rev |-> projection]
                [] n = now -> [gens[q][n] EXCEPT !.state = "FAILED"]
                [] OTHER   -> gens[q][n]]]
        /\ builder' = [builder EXCEPT ![b] =
              [claimed |-> TRUE, job |-> q, attempt |-> new, rev |-> projection]]
        /\ UNCHANGED <<projection, answers>>

\* claim_job() at the attempt limit
GiveUpJob(q) ==
    /\ Due(q) /\ Exhausted(q)
    /\ job' = [job EXCEPT ![q] = [@ EXCEPT !.state = "FAILED", !.lease = NoBuilder]]
    /\ gens' = [gens EXCEPT ![q][GenerationOf(job[q].attempt)].state = "FAILED"]
    /\ UNCHANGED <<projection, answers, builder>>

\* lease_predicate()
HasLease(b) ==
    /\ builder[b].claimed
    /\ job[builder[b].job].state = "RUNNING" /\ job[builder[b].job].lease = b
    /\ job[builder[b].job].attempt = builder[b].attempt

\* complete_job(): the generation is READY if its metadata still is the newest.
CompleteJob(b) ==
    LET q == builder[b].job  n == builder[b].attempt
    IN  /\ HasLease(b) /\ projection = builder[b].rev /\ gens[q][n].state = "BUILDING"
        /\ gens' = [gens EXCEPT ![q][n].state = "READY"]
        /\ job' = [job EXCEPT ![q] = [@ EXCEPT !.state = "SUCCEEDED", !.lease = NoBuilder]]
        /\ builder' = [builder EXCEPT ![b] = Resting]
        /\ UNCHANGED <<projection, answers>>

\* fail_job(): an original that cannot be indexed, or an error that may pass.
FailJob(b, permanent) ==
    LET q == builder[b].job
        over == permanent \/ Exhausted(q)
    IN  /\ HasLease(b)
        /\ job' = [job EXCEPT ![q] = [@ EXCEPT !.state = IF over THEN "FAILED" ELSE "PENDING",
                                               !.lease = NoBuilder]]
        /\ gens' = [gens EXCEPT ![q][GenerationOf(job[q].attempt)].state = "FAILED"]
        /\ builder' = [builder EXCEPT ![b] = Resting]
        /\ UNCHANGED <<projection, answers>>

\* A worker that died, or whose lease was gone when it was done.
LeaveJob(b) ==
    /\ builder[b].claimed
    /\ builder' = [builder EXCEPT ![b] = Resting]
    /\ UNCHANGED <<projection, job, gens, answers>>

\* The lease runs out: the heartbeat of renew_lease() stopped or came too late.
JobLeaseEnds(q) ==
    /\ job[q].state = "RUNNING" /\ job[q].lease # NoBuilder
    /\ job' = [job EXCEPT ![q].lease = NoBuilder]
    /\ UNCHANGED <<projection, gens, answers, builder>>

BuilderStep(b) ==
    \/ \E q \in Requests : ClaimJob(b, q)
    \/ CompleteJob(b) \/ \E permanent \in BOOLEAN : FailJob(b, permanent)
    \/ LeaveJob(b)

ServiceStep ==
    \/ \E b \in Builders : BuilderStep(b)
    \/ \E q \in Requests : GiveUpJob(q) \/ JobLeaseEnds(q)
=============================================================================
