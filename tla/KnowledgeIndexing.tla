---------------------------- MODULE KnowledgeIndexing ----------------------------
(***************************************************************************)
(* Indexing and publishing one version of a document                       *)
(* (backend/app/knowledge: repository.py, indexing.py, publisher.py,       *)
(* router.py) with the knowledge service (KnowledgeService).               *)
(*                                                                         *)
(* The backend owns the document, whose metadata has revisions, and what   *)
(* of it is published.  Requests to index it and new revisions are rows of *)
(* a delivery outbox.  A publisher claims a row with a lease, calls the    *)
(* service outside any transaction and acknowledges the answer in another; *)
(* the call may be lost, the answer may be lost, and the publisher may     *)
(* die.  A call that takes effect after its time-out is one of a publisher *)
(* whose lease ran out.  An operator publishes a generation in two         *)
(* transactions with the READY proof of the service in between.            *)
(*                                                                         *)
(* The document has one version, published without bounds in time, so a    *)
(* publication replaces the one before it; indexing_status, which nothing  *)
(* reads, is left out.  A generation is named by its request and attempt.  *)
(***************************************************************************)
EXTENDS KnowledgeService

CONSTANTS Publishers, NoPublisher,
          ErrorLimit      \* failed deliveries in a row that end a row

ASSUME IndexingAssumption ==
    /\ NoPublisher \notin Publishers /\ ErrorLimit \in Nat \ {0}
    /\ Requests \cap (2 .. MaxRevision) = {}   \* their keys are not revisions

VARIABLES
    doc,          \* KnowledgeDocument and its active Publication
    outbox,       \* knowledge_delivery_outbox
    publisher,    \* what each publisher executes
    activation    \* a publication between its proof and its transaction

indexingVars == <<doc, outbox, publisher, activation>>
vars == <<serviceVars, indexingVars>>

\* A row of the outbox is a request, or the projection of a later revision.
Projections == 2 .. MaxRevision
Deliveries  == Requests \cup Projections

Unseen == Total + 1      \* no receipt of the service is saved
NoGen  == 0

NotPublished == [published |-> FALSE]
Publications == [published : {TRUE}, req : Requests, gen : Attempts, rev : Revisions]

Rows ==
    [state   : {"NONE", "PENDING", "RUNNING", "SUCCEEDED", "FAILED"},
     rev     : {0} \cup Revisions,                  \* metadata_revision
     errors  : 0 .. ErrorLimit,                     \* retry_count
     lease   : Publishers \cup {NoPublisher},
     seen    : {0, Unseen} \cup Attempts,           \* attempt of the saved receipt
     gen     : {NoGen} \cup Attempts,               \* generation_id
     key     : {0} \cup Keys,                       \* remote_retry_key
     retries : {0} \cup Keys,                       \* manual retries so far
     invalid : BOOLEAN]                             \* error is INVALID_RECEIPT

\* A call in progress: what it will ask, and how it was answered.
Off == [kind |-> "off"]
Calls ==
    [kind : {"claimed"}, row : Deliveries, ask : {"project", "ingest", "poll", "retry"},
     key : {0} \cup Keys]
Answers == [kind : {"done", "refused", "down"}, row : Deliveries]
Receipts ==
    [kind : {"receipt"}, row : Requests, attempt : {0} \cup Attempts, gen : Attempts,
     state : {"PENDING", "RUNNING", "SUCCEEDED", "FAILED"}]

TypeOK ==
    /\ ServiceTypeOK
    /\ doc \in [rev : Revisions, archived : SUBSET Revisions,
                pub : Publications \cup {NotPublished}]
    /\ outbox \in [Deliveries -> Rows]
    /\ publisher \in [Publishers -> Calls \cup Answers \cup Receipts \cup {Off}]
    /\ activation \in [proven : {TRUE}, req : Requests, gen : Attempts] \cup {[proven |-> FALSE]}

NoRow == [state |-> "NONE", rev |-> 0, errors |-> 0, lease |-> NoPublisher, seen |-> Unseen,
          gen |-> NoGen, key |-> 0, retries |-> 0, invalid |-> FALSE]
NewRow(rev) == [NoRow EXCEPT !.state = "PENDING", !.rev = rev]

Init ==
    /\ ServiceInit
    /\ doc = [rev |-> 1, archived |-> {}, pub |-> NotPublished]
    /\ outbox = [d \in Deliveries |-> NoRow]
    /\ publisher = [p \in Publishers |-> Off]
    /\ activation = [proven |-> FALSE]

\* The status that a revision of the metadata carries.
ActiveAt(rev) == rev \notin doc.archived

-----------------------------------------------------------------------------
(* The operator *)

\* request_index()
RequestIndex(q) ==
    /\ outbox[q].state = "NONE" /\ ActiveAt(doc.rev)
    /\ outbox' = [outbox EXCEPT ![q] = NewRow(doc.rev)]
    /\ UNCHANGED <<serviceVars, doc, publisher, activation>>

\* patch() and control(): a new revision, whose projection is sent.
ChangeMetadata(archived) ==
    LET rev == doc.rev + 1
    IN  /\ rev \in Revisions
        /\ doc' = [doc EXCEPT !.rev = rev,
                              !.archived = IF archived THEN @ \cup {rev} ELSE @]
        /\ outbox' = [outbox EXCEPT ![rev] = NewRow(rev)]
        /\ UNCHANGED <<serviceVars, publisher, activation>>

\* retry_request(): the service is asked to retry if it knows the request.
RetryRequest(q) ==
    LET k == outbox[q].retries + 1
    IN  /\ outbox[q].state = "FAILED" /\ ActiveAt(doc.rev) /\ k \in Keys
        /\ outbox' = [outbox EXCEPT ![q] = [@ EXCEPT !.state = "PENDING", !.errors = 0,
                         !.retries = k, !.invalid = FALSE,
                         !.key = IF outbox[q].seen # Unseen THEN k ELSE outbox[q].key]]
        /\ UNCHANGED <<serviceVars, doc, publisher, activation>>

\* publish(): a finished request, and the READY proof of its generation.
ProveReady(q) ==
    /\ ~activation.proven /\ ActiveAt(doc.rev)
    /\ outbox[q].state = "SUCCEEDED"
    /\ Receipt(job[q]).state = "SUCCEEDED" /\ Receipt(job[q]).gen = outbox[q].gen
    /\ activation' = [proven |-> TRUE, req |-> q, gen |-> outbox[q].gen]
    /\ UNCHANGED <<serviceVars, doc, outbox, publisher>>

\* Mutant: the metadata may have changed since the proof.
StillCurrentRow(row) == row.state = "SUCCEEDED" /\ row.gen = activation.gen

\* What activate_generation() checks again under the document's lock.
StillCurrent(row) ==
    row.state = "SUCCEEDED" /\ row.gen = activation.gen /\ row.rev = doc.rev

\* activate_generation()
Activate ==
    /\ activation.proven
    /\ doc' = IF ActiveAt(doc.rev) /\ StillCurrent(outbox[activation.req])
              THEN [doc EXCEPT !.pub = [published |-> TRUE, req |-> activation.req,
                                        gen |-> activation.gen, rev |-> doc.rev]]
              ELSE doc
    /\ activation' = [proven |-> FALSE]
    /\ UNCHANGED <<serviceVars, outbox, publisher>>

-----------------------------------------------------------------------------
(* A publisher *)

Ask(d) ==
    IF d \in Projections THEN "project"
    ELSE IF outbox[d].seen = Unseen THEN "ingest"
    ELSE IF outbox[d].key # 0 THEN "retry"
    ELSE "poll"

\* A due row, or one whose lease ran out.
DueRow(d) ==
    \/ outbox[d].state = "PENDING"
    \/ outbox[d].state = "RUNNING" /\ outbox[d].lease = NoPublisher

\* claim()
Claim(p, d) ==
    /\ publisher[p] = Off /\ DueRow(d)
    /\ outbox' = [outbox EXCEPT ![d].state = "RUNNING", ![d].lease = p]
    /\ publisher' = [publisher EXCEPT ![p] =
          [kind |-> "claimed", row |-> d, ask |-> Ask(d), key |-> outbox[d].key]]
    /\ UNCHANGED <<serviceVars, doc, activation>>

AnsweredBy(p, receipt) ==
    publisher' = [publisher EXCEPT ![p] =
        [kind |-> "receipt", row |-> publisher[p].row, state |-> receipt.state,
         attempt |-> receipt.attempt, gen |-> receipt.gen]]

Answered(p, kind) ==
    publisher' = [publisher EXCEPT ![p] = [kind |-> kind, row |-> publisher[p].row]]

\* deliver(): what the service does, and its answer.
Serve(p) ==
    LET c == publisher[p]
    IN  \/ /\ c.ask = "project"
           /\ Project(c.row) /\ UNCHANGED <<job, gens, answers, builder>>
           /\ Answered(p, "done")
        \/ /\ c.ask = "ingest"
           /\ AcceptIngestion(c.row, outbox[c.row].rev)
           /\ AnsweredBy(p, Receipt(job'[c.row]))
        \/ /\ c.ask = "poll"
           /\ UNCHANGED serviceVars
           /\ AnsweredBy(p, Receipt(job[c.row]))
        \/ /\ c.ask = "retry"
           /\ RetryJob(c.row, c.key, ActiveAt(projection))
           /\ AnsweredBy(p, SavedReceipt(answers'[c.row][c.key]))
        \/ /\ c.ask = "retry" /\ answers[c.row][c.key] = 0
           /\ ~MayRetry(c.row, ActiveAt(projection))
           /\ UNCHANGED serviceVars /\ Answered(p, "refused")

\* The service does as asked but its answer is lost.
ServeUnheard(p) ==
    LET c == publisher[p]
    IN  /\ \/ c.ask = "project" /\ Project(c.row) /\ UNCHANGED <<job, gens, answers, builder>>
           \/ c.ask = "ingest" /\ AcceptIngestion(c.row, outbox[c.row].rev)
           \/ c.ask = "retry" /\ RetryJob(c.row, c.key, ActiveAt(projection))
        /\ Answered(p, "down")

\* The call of a claimed row; it may also not reach the service, or fail before
\* it is made because the original is not what was uploaded.
Call(p) ==
    /\ publisher[p].kind = "claimed"
    /\ \/ Serve(p) \/ ServeUnheard(p)
       \/ UNCHANGED serviceVars /\ Answered(p, "down")
       \/ publisher[p].ask = "ingest" /\ UNCHANGED serviceVars /\ Answered(p, "refused")
    /\ UNCHANGED <<doc, outbox, activation>>

\* A receipt may not be older than the one before, nor of another generation
\* without a later attempt.
Fits(row, receipt) ==
    /\ row.seen # Unseen => receipt.attempt >= row.seen
    /\ row.gen # NoGen /\ row.gen # receipt.gen => row.seen # Unseen /\ receipt.attempt > row.seen

Answer(row, a) ==
    LET free == [row EXCEPT !.lease = NoPublisher]
        erred == row.errors + 1
    IN  CASE a.kind = "down" ->
                [free EXCEPT !.errors = erred,
                             !.state = IF erred >= ErrorLimit THEN "FAILED" ELSE "PENDING"]
          [] a.kind = "refused" ->
                [free EXCEPT !.errors = erred, !.state = "FAILED"]
          [] a.kind = "done" -> [free EXCEPT !.state = "SUCCEEDED"]
          [] a.kind = "receipt" ->
                IF Fits(row, a)
                THEN [free EXCEPT !.seen = a.attempt, !.gen = a.gen, !.key = 0,
                        !.state = IF a.state \in {"SUCCEEDED", "FAILED"} THEN a.state
                                  ELSE "PENDING"]
                ELSE [free EXCEPT !.state = "FAILED", !.invalid = TRUE]

Holds(p) ==
    LET d == publisher[p].row IN outbox[d].state = "RUNNING" /\ outbox[d].lease = p

Heard(p) == publisher[p].kind \in {"done", "refused", "down", "receipt"}

\* Mutant: an answer counts although the lease is lost.
AcknowledgeAnyway(p) ==
    /\ Heard(p)
    /\ outbox' = [outbox EXCEPT ![publisher[p].row] = Answer(@, publisher[p])]
    /\ publisher' = [publisher EXCEPT ![p] = Off]
    /\ UNCHANGED <<serviceVars, doc, activation>>

\* acknowledge()
Acknowledge(p) ==
    /\ Heard(p) /\ Holds(p)
    /\ outbox' = [outbox EXCEPT ![publisher[p].row] = Answer(@, publisher[p])]
    /\ publisher' = [publisher EXCEPT ![p] = Off]
    /\ UNCHANGED <<serviceVars, doc, activation>>

\* A publisher that died, or whose lease was gone when it had its answer.
Leave(p) ==
    /\ publisher[p] # Off
    /\ publisher' = [publisher EXCEPT ![p] = Off]
    /\ UNCHANGED <<serviceVars, doc, outbox, activation>>

LeaseEnds(d) ==
    /\ outbox[d].state = "RUNNING" /\ outbox[d].lease # NoPublisher
    /\ outbox' = [outbox EXCEPT ![d].lease = NoPublisher]
    /\ UNCHANGED <<serviceVars, doc, publisher, activation>>

-----------------------------------------------------------------------------
OperatorStep ==
    \/ \E q \in Requests : RequestIndex(q) \/ RetryRequest(q) \/ ProveReady(q)
    \/ \E archived \in BOOLEAN : ChangeMetadata(archived)
    \/ Activate

PublisherStep(p) ==
    \/ \E d \in Deliveries : Claim(p, d)
    \/ Call(p) \/ Acknowledge(p) \/ Leave(p)

Next ==
    \/ OperatorStep
    \/ \E p \in Publishers : PublisherStep(p)
    \/ \E d \in Deliveries : LeaseEnds(d)
    \/ ServiceStep /\ UNCHANGED indexingVars

Spec == Init /\ [][Next]_vars

-----------------------------------------------------------------------------
(* Properties *)

\* What is published under the current metadata can be found: its generation is
\* READY at exactly the revision that the service's projection has, however the
\* deliveries, attempts and changes were interleaved (indexing.py 313-330,
\* knowledge/src/shopsteward_knowledge/db.py 56-70).
PublishedIsFound ==
    doc.pub.published /\ doc.pub.rev = doc.rev =>
       /\ gens[doc.pub.req][doc.pub.gen] = [state |-> "READY", rev |-> doc.rev]
       /\ projection = doc.rev

\* No receipt that the service gave is ever taken for a forged one, whatever was
\* sent twice, lost or answered late (publisher.py 104-122).
NoReceiptIsInvalid == \A q \in Requests : ~outbox[q].invalid
=============================================================================
