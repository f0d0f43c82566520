----------------------- MODULE KnowledgeIndexingProofs -----------------------
(***************************************************************************)
(* Proofs that the properties of indexing hold for any number of requests, *)
(* publishers, builders, attempts, revisions and retries.                  *)
(*                                                                         *)
(* The service and the backend keep each other's facts as of some earlier  *)
(* moment: an answer, a row's receipt, a publication.  What makes them     *)
(* safe to use is that the service only moves forward (Moves): attempts    *)
(* and the projection only grow, and a job that succeeded stays as it is.  *)
(***************************************************************************)
EXTENDS KnowledgeIndexing, TLAPS

-----------------------------------------------------------------------------
(* The inductive invariant *)

\* A job, its generations and the receipts of its retries.
JobOK(q) ==
    /\ job[q].state = "NONE" =>
          job[q].attempt = 0 /\ \A n \in Attempts : gens[q][n].state = "NONE"
    /\ job[q].state # "NONE" => job[q].rev > 0 /\ job[q].rev <= projection /\ job[q].limit > 0
    /\ job[q].state = "SUCCEEDED" => job[q].attempt > 0
    /\ \A n \in Attempts :
          /\ gens[q][n].state = "READY" <=> job[q].state = "SUCCEEDED" /\ job[q].attempt = n
          /\ gens[q][n].state \in {"BUILDING", "READY"} =>
                job[q].rev <= gens[q][n].rev /\ gens[q][n].rev <= projection
    /\ \A k \in Keys : answers[q][k] <= job[q].attempt

SInv == ServiceTypeOK /\ \A q \in Requests : JobOK(q)

\* The job was made for the row's revision, and the row knows of it what was true.
RowKnows(q) ==
    /\ job[q].state # "NONE" => outbox[q].state # "NONE" /\ job[q].rev = outbox[q].rev
    /\ outbox[q].seen # Unseen => /\ job[q].state # "NONE" /\ outbox[q].seen <= job[q].attempt
                                  /\ outbox[q].gen = GenerationOf(outbox[q].seen)
    /\ outbox[q].seen = Unseen => outbox[q].gen = NoGen /\ outbox[q].key = 0
    /\ outbox[q].state = "SUCCEEDED" => /\ outbox[q].seen # Unseen
                                        /\ job[q].state = "SUCCEEDED"
                                        /\ outbox[q].seen = job[q].attempt
    /\ outbox[q].key <= outbox[q].retries
    /\ \A k \in Keys : k > outbox[q].retries => answers[q][k] = 0
    /\ outbox[q].key # 0 /\ answers[q][outbox[q].key] # 0 =>
          outbox[q].seen <= answers[q][outbox[q].key]

RowOK(d) ==
    /\ outbox[d] \in Rows
    /\ outbox[d].state = "NONE" => outbox[d] = NoRow
    /\ outbox[d].state # "NONE" => outbox[d].rev \in 1 .. doc.rev
    /\ outbox[d].state # "NONE" /\ d \in Projections => d <= doc.rev
    /\ outbox[d].state \in {"PENDING", "RUNNING"} => outbox[d].errors < ErrorLimit

\* A call or an answer of a publisher is about a row that exists, and says of
\* its job what was true.
CallOK(c) ==
    /\ outbox[c.row].state # "NONE"
    /\ c.kind = "done" => c.row \in Projections
    /\ c.kind = "claimed" =>
          /\ c.ask = "project" <=> c.row \in Projections
          /\ c.ask \in {"poll", "retry"} => job[c.row].state # "NONE"
          /\ c.ask = "retry" => c.key # 0
          /\ c.row \in Requests => c.key <= outbox[c.row].retries
    /\ c.kind = "receipt" =>
          /\ job[c.row].state # "NONE" /\ c.attempt <= job[c.row].attempt
          /\ c.gen = GenerationOf(c.attempt)
          /\ c.state = "SUCCEEDED" =>
                job[c.row].state = "SUCCEEDED" /\ c.attempt = job[c.row].attempt

\* Whoever holds the row will not say less than the row knows.
Fresh(c) ==
    /\ c.kind = "claimed" => c.key = outbox[c.row].key
    /\ c.kind = "receipt" /\ outbox[c.row].seen # Unseen => outbox[c.row].seen <= c.attempt

PublisherOK(p) ==
    publisher[p] # Off => CallOK(publisher[p]) /\ (Holds(p) => Fresh(publisher[p]))

PublisherStates == Calls \cup Answers \cup Receipts \cup {Off}

\* What is published under the newest revision is found, and none is newer.
Found == PublishedIsFound /\ (doc.pub.published => doc.pub.rev <= doc.rev)

BInv ==
    /\ doc \in [rev : Revisions, archived : SUBSET Revisions,
                pub : Publications \cup {NotPublished}]
    /\ activation \in [proven : {TRUE}, req : Requests, gen : Attempts] \cup {[proven |-> FALSE]}
    /\ outbox = [d \in Deliveries |-> outbox[d]]
    /\ publisher \in [Publishers -> PublisherStates]
    /\ projection <= doc.rev
    /\ \A d \in Deliveries : RowOK(d)
    /\ \A q \in Requests : RowKnows(q) /\ ~outbox[q].invalid
    /\ \A p \in Publishers : PublisherOK(p)
    /\ Found

IInv == SInv /\ BInv

-----------------------------------------------------------------------------
(* The knowledge service *)

\* The service only moves forward.
Moves ==
    /\ projection <= projection'
    /\ \A q \in Requests :
          /\ job[q].state # "NONE" => job'[q].state # "NONE" /\ job'[q].rev = job[q].rev
          /\ job[q].attempt <= job'[q].attempt
          /\ job[q].state = "SUCCEEDED" => job'[q] = job[q] /\ gens'[q] = gens[q]

LEMMA Numbers ==
  /\ Total \in Nat \ {0} /\ Window \in Nat \ {0} /\ Window <= Total
  /\ MaxRevision \in Nat \ {0} /\ MaxRetries \in Nat /\ ErrorLimit \in Nat \ {0}
  /\ Attempts \subseteq Nat /\ Revisions \subseteq Nat /\ Keys \subseteq Nat
  /\ 1 \in Attempts /\ 0 \notin Attempts /\ Unseen \in Nat /\ Unseen \notin Attempts
  /\ Unseen # 0
  /\ \A n : n \in Attempts \/ n \in Revisions \/ n \in Keys => n \in Nat
  BY ServiceAssumption, IndexingAssumption DEF Attempts, Revisions, Keys, Unseen

LEMMA ServiceRows ==
  ASSUME SInv, NEW q \in Requests
  PROVE  /\ job[q] \in Jobs /\ gens[q] \in [Attempts -> Generations]
         /\ answers[q] \in [Keys -> {0} \cup Attempts]
         /\ projection \in Nat /\ job[q].attempt \in Nat /\ job[q].attempt <= Total
         /\ job[q].rev \in Nat /\ job[q].limit \in Nat /\ job[q].limit <= Total
         /\ \A n \in Attempts : gens[q][n].rev \in Nat
         /\ GenerationOf(job[q].attempt) \in Attempts
  <1>1. /\ job[q] \in Jobs /\ gens[q] \in [Attempts -> Generations]
        /\ answers[q] \in [Keys -> {0} \cup Attempts] /\ projection \in {0} \cup Revisions
    BY DEF SInv, ServiceTypeOK
  <1>2. /\ job[q].attempt \in {0} \cup Attempts /\ job[q].rev \in {0} \cup Revisions
        /\ job[q].limit \in {0} \cup Attempts
        /\ \A n \in Attempts : gens[q][n].rev \in {0} \cup Revisions
    BY <1>1 DEF Jobs, Generations
  <1>3. GenerationOf(job[q].attempt) \in Attempts
    BY <1>2, Numbers DEF GenerationOf, Later, Attempts
  <1> QED  BY <1>1, <1>2, <1>3, Numbers DEF Attempts, Revisions

\* A job that nothing touches.
LEMMA JobStays ==
  ASSUME SInv, projection <= projection', projection' \in Nat, NEW q \in Requests,
         job'[q] = job[q], gens'[q] = gens[q], answers'[q] = answers[q]
  PROVE  JobOK(q)'
  <1>1. JobOK(q)
    BY DEF SInv
  <1>2. /\ projection \in Nat /\ job[q].rev \in Nat
        /\ \A n \in Attempts : gens[q][n].rev \in Nat
    BY ServiceRows
  <1> QED  BY <1>1, <1>2 DEF JobOK

LEMMA OneJobMoves ==
  ASSUME SInv, ServiceTypeOK', projection <= projection', NEW q \in Requests,
         \A r \in Requests \ {q} : /\ job'[r] = job[r] /\ gens'[r] = gens[r]
                                   /\ answers'[r] = answers[r],
         JobOK(q)',
         job[q].state # "NONE" => job'[q].state # "NONE" /\ job'[q].rev = job[q].rev,
         job[q].attempt <= job'[q].attempt,
         job[q].state # "SUCCEEDED"
  PROVE  SInv' /\ Moves
  <1>1. projection' \in Nat
    BY Numbers DEF ServiceTypeOK
  <1>2. \A r \in Requests : JobOK(r)'
    <2>1. ASSUME NEW r \in Requests \ {q}
          PROVE  JobOK(r)'
      BY <1>1, JobStays
    <2> QED  BY <2>1
  <1>3. Moves
    <2>1. \A r \in Requests \ {q} : job[r].attempt <= job'[r].attempt
      BY ServiceRows
    <2> QED  BY <2>1 DEF Moves
  <1> QED  BY <1>2, <1>3 DEF SInv

\* The service, with everything else, is left alone.
LEMMA ServiceRests ==
  ASSUME SInv, UNCHANGED serviceVars
  PROVE  SInv' /\ Moves
  <1>1. ServiceTypeOK'
    BY DEF SInv, ServiceTypeOK, serviceVars
  <1>2. Moves
    <2>1. projection \in Nat
      BY Numbers DEF SInv, ServiceTypeOK
    <2> QED  BY <2>1, ServiceRows DEF Moves, serviceVars
  <1>3. ASSUME NEW q \in Requests PROVE JobOK(q)'
    BY DEF SInv, JobOK, serviceVars
  <1> QED  BY <1>1, <1>2, <1>3 DEF SInv

LEMMA ProjectKeeps ==
  ASSUME SInv, NEW rev \in Revisions, Project(rev), UNCHANGED <<job, gens, answers, builder>>
  PROVE  SInv' /\ Moves /\ (projection' = projection \/ projection' = rev)
  <1>1. projection \in {0} \cup Revisions
    BY DEF SInv, ServiceTypeOK
  <1>2. /\ projection' \in {0} \cup Revisions /\ projection <= projection'
        /\ projection' = projection \/ projection' = rev
    BY <1>1, Numbers DEF Project, Later
  <1>3. ServiceTypeOK'
    BY <1>2 DEF SInv, ServiceTypeOK
  <1>4. ASSUME NEW q \in Requests PROVE JobOK(q)'
    BY <1>2, JobStays, Numbers
  <1>5. Moves
    BY <1>2, ServiceRows DEF Moves
  <1> QED  BY <1>2, <1>3, <1>4, <1>5 DEF SInv

LEMMA AcceptKeeps ==
  ASSUME SInv, NEW q \in Requests, NEW rev \in Revisions, AcceptIngestion(q, rev)
  PROVE  /\ SInv' /\ Moves
         /\ projection' = projection \/ projection' = rev
         /\ \A r \in Requests \ {q} : job'[r] = job[r]
         /\ job'[q].state # "NONE" /\ (job[q].state = "NONE" => job'[q].rev = rev)
         /\ answers' = answers
  <1>1. CASE job[q].state # "NONE"
    <2>1. UNCHANGED serviceVars
      BY <1>1 DEF AcceptIngestion
    <2> QED  BY <1>1, <2>1, ServiceRests DEF serviceVars
  <1>2. CASE job[q].state = "NONE"
    <2> DEFINE new == [state |-> "PENDING", rev |-> rev, attempt |-> 0, limit |-> Window,
                       lease |-> NoBuilder]
               gen == [state |-> "BUILDING", rev |-> rev]
    <2>1. /\ projection' = Later(projection, rev) /\ job' = [job EXCEPT ![q] = new]
          /\ gens' = [gens EXCEPT ![q] = [gens[q] EXCEPT ![1] = gen]]
          /\ UNCHANGED <<answers, builder>>
      BY <1>2 DEF AcceptIngestion, Project, NoJob, SInv, ServiceTypeOK
    <2>2. /\ new \in Jobs /\ gen \in Generations /\ rev \in Nat /\ rev > 0
      BY Numbers DEF Jobs, Generations, Revisions, Attempts
    <2>3. /\ projection' \in {0} \cup Revisions /\ projection <= projection'
          /\ projection' = projection \/ projection' = rev
          /\ rev <= projection'
      BY <2>1, <2>2, Numbers DEF Later, SInv, ServiceTypeOK
    <2>4. ServiceTypeOK'
      <3>1. gens[q] \in [Attempts -> Generations]
        BY ServiceRows
      <3>2. [gens[q] EXCEPT ![1] = gen] \in [Attempts -> Generations]
        BY <3>1, <2>2
      <3> QED  BY <2>1, <2>2, <2>3, <3>2 DEF SInv, ServiceTypeOK
    <2>5. /\ job'[q] = new /\ gens'[q][1] = gen /\ answers'[q] = answers[q]
          /\ \A n \in Attempts \ {1} : gens'[q][n] = gens[q][n]
          /\ \A r \in Requests \ {q} : /\ job'[r] = job[r] /\ gens'[r] = gens[r]
                                       /\ answers'[r] = answers[r]
      BY <2>1, Numbers, ServiceRows DEF SInv, ServiceTypeOK
    <2>6. /\ job[q].attempt = 0 /\ \A n \in Attempts : gens[q][n].state = "NONE"
          /\ \A k \in Keys : answers[q][k] <= job[q].attempt
      BY <1>2 DEF SInv, JobOK
    <2>7. JobOK(q)'
      <3>1. \A n \in Attempts : gens'[q][n] = IF n = 1 THEN gen ELSE gens[q][n]
        BY <2>5
      <3>2. \A n \in Attempts : /\ gens'[q][n].state # "READY"
                                /\ gens'[q][n].state = "BUILDING" => gens'[q][n].rev = rev
        BY <3>1, <2>6
      <3>3. \A n \in Attempts : gens'[q][n].state = "BUILDING" => gens'[q][n].rev <= projection'
        BY <3>2, <2>3
      <3>4. /\ job'[q].state = "PENDING" /\ job'[q].rev = rev /\ job'[q].attempt = 0
            /\ job'[q].limit > 0
        BY <2>5, Numbers
      <3>5. \A i \in Keys : answers'[q][i] <= 0
        BY <2>5, <2>6
      <3> HIDE DEF new, gen
      <3> QED  BY <3>2, <3>3, <3>4, <3>5, <2>2, <2>3 DEF JobOK
    <2>8. SInv' /\ Moves
      BY <1>2, <2>3, <2>4, <2>5, <2>6, <2>7, Numbers, OneJobMoves
    <2> QED  BY <2>1, <2>3, <2>5, <2>8
  <1> QED  BY <1>1, <1>2

LEMMA RetryKeeps ==
  ASSUME SInv, NEW q \in Requests, NEW k \in Keys, NEW active \in BOOLEAN, RetryJob(q, k, active)
  PROVE  /\ SInv' /\ Moves /\ projection' = projection
         /\ \A r \in Requests : job[r].state = "NONE" => job'[r] = job[r]
         /\ \A r \in Requests \ {q} : answers'[r] = answers[r]
         /\ \A i \in Keys \ {k} : answers'[q][i] = answers[q][i]
         /\ \/ answers[q][k] # 0 /\ answers'[q][k] = answers[q][k]
            \/ answers'[q][k] = job[q].attempt
         /\ job[q].state # "NONE" \/ answers[q][k] # 0
  <1>1. CASE answers[q][k] # 0 /\ UNCHANGED serviceVars
    BY <1>1, ServiceRests DEF serviceVars
  <1>2. CASE answers[q][k] = 0 /\ ~(answers[q][k] # 0 /\ UNCHANGED serviceVars)
    <2> DEFINE new == [job[q] EXCEPT !.state = "PENDING",
                         !.limit = Earlier(job[q].attempt + Window, Total), !.lease = NoBuilder]
    <2>1. /\ job[q].state = "FAILED" /\ projection = job[q].rev /\ job[q].attempt < Total
          /\ answers' = [answers EXCEPT ![q][k] = job[q].attempt]
          /\ job' = [job EXCEPT ![q] = new]
          /\ UNCHANGED <<projection, gens, builder>>
      BY <1>2 DEF RetryJob, MayRetry
    <2>2. job[q] \in Jobs /\ job[q].attempt \in Nat
      BY ServiceRows
    <2>3. JobOK(q) /\ job[q].limit \in Nat /\ answers[q] \in [Keys -> {0} \cup Attempts]
      BY ServiceRows DEF SInv
    <2>4. Earlier(job[q].attempt + Window, Total) \in Attempts
      BY <2>1, <2>2, Numbers DEF Attempts, Earlier
    <2>5. /\ new \in Jobs /\ new.limit > 0 /\ new.attempt = job[q].attempt
          /\ new.rev = job[q].rev /\ new.state = "PENDING"
      <3>1. new.limit > 0
        BY <2>2, <2>4, Numbers DEF Jobs, Attempts
      <3> QED  BY <2>2, <2>4, <3>1 DEF Jobs
    <2> HIDE DEF new
    <2>6. job[q].attempt \in {0} \cup Attempts
      BY <2>2 DEF Jobs
    <2>7. ServiceTypeOK'
      <3>1. job' \in [Requests -> Jobs]
        BY <2>1, <2>5 DEF SInv, ServiceTypeOK
      <3>2. answers' \in [Requests -> [Keys -> {0} \cup Attempts]]
        <4>1. [answers[q] EXCEPT ![k] = job[q].attempt] \in [Keys -> {0} \cup Attempts]
          BY <2>3, <2>6
        <4>2. answers' = [answers EXCEPT ![q] = [answers[q] EXCEPT ![k] = job[q].attempt]]
          BY <2>1
        <4> QED  BY <4>1, <4>2 DEF SInv, ServiceTypeOK
      <3> QED  BY <2>1, <3>1, <3>2 DEF SInv, ServiceTypeOK
    <2>8. /\ job'[q] = new /\ gens' = gens /\ projection' = projection
          /\ answers'[q][k] = job[q].attempt
          /\ \A i \in Keys \ {k} : answers'[q][i] = answers[q][i]
          /\ \A r \in Requests \ {q} : job'[r] = job[r] /\ answers'[r] = answers[r]
      BY <2>1, <2>3 DEF SInv, ServiceTypeOK
    <2>9. JobOK(q)'
      <3>1. \A i \in Keys : answers'[q][i] <= job[q].attempt
        BY <2>2, <2>3, <2>8 DEF JobOK
      <3> QED  BY <2>1, <2>2, <2>3, <2>5, <2>8, <3>1 DEF JobOK
    <2>10. /\ \A r \in Requests \ {q} : /\ job'[r] = job[r] /\ gens'[r] = gens[r]
                                         /\ answers'[r] = answers[r]
           /\ projection <= projection'
      BY <2>8, ServiceRows
    <2>11. SInv' /\ Moves
      BY <2>1, <2>2, <2>5, <2>7, <2>8, <2>9, <2>10, OneJobMoves
    <2> QED  BY <2>1, <2>8, <2>11
  <1> QED  BY <1>1, <1>2 DEF RetryJob

\* What every step of a builder leaves alone.
LEMMA JobStepTypes ==
  ASSUME SInv, NEW q \in Requests, NEW j \in Jobs, NEW g \in [Attempts -> Generations],
         job' = [job EXCEPT ![q] = j], gens' = [gens EXCEPT ![q] = g],
         builder' \in [Builders -> Building \cup {Resting}],
         UNCHANGED <<projection, answers>>,
         job[q].state \notin {"NONE", "SUCCEEDED"},
         j.state \in {"PENDING", "RUNNING", "FAILED"}, j.rev = job[q].rev,
         j.limit = job[q].limit, job[q].attempt <= j.attempt,
         \A n \in Attempts : g[n].state # "READY",
         \A n \in Attempts : g[n].state = "BUILDING" =>
            g[n] = gens[q][n] \/ g[n].rev = projection
  PROVE  SInv' /\ Moves
  <1>1. /\ job'[q] = j /\ gens'[q] = g /\ answers' = answers /\ projection' = projection
        /\ \A r \in Requests \ {q} : job'[r] = job[r] /\ gens'[r] = gens[r]
    BY DEF SInv, ServiceTypeOK
  <1>2. ServiceTypeOK'
    BY DEF SInv, ServiceTypeOK
  <1>3. JobOK(q) /\ projection \in Nat
    BY ServiceRows DEF SInv
  <1>4. /\ job[q].attempt \in Nat /\ j.attempt \in Nat /\ job[q].rev \in Nat
        /\ \A k \in Keys : answers[q][k] \in Nat
    <2>1. answers[q] \in [Keys -> {0} \cup Attempts] /\ j.attempt \in {0} \cup Attempts
      BY ServiceRows DEF Jobs
    <2>2. job[q].attempt \in Nat /\ job[q].rev \in Nat
      BY ServiceRows
    <2>3. \A k \in Keys : answers[q][k] \in {0} \cup Attempts
      BY <2>1
    <2>4. \A n \in {0} \cup Attempts : n \in Nat
      BY Numbers
    <2>5. j.attempt \in Nat
      BY <2>1, <2>4
    <2> QED  BY <2>2, <2>3, <2>4, <2>5
  <1>5. \A n \in Attempts : g[n].state = "BUILDING" =>
           job[q].rev <= g[n].rev /\ g[n].rev <= projection
    BY <1>3 DEF JobOK
  <1>6. \A k \in Keys : answers[q][k] <= j.attempt
    BY <1>3, <1>4 DEF JobOK
  <1>7. JobOK(q)'
    BY <1>1, <1>3, <1>5, <1>6 DEF JobOK
  <1>8. /\ projection <= projection'
        /\ \A r \in Requests \ {q} : /\ job'[r] = job[r] /\ gens'[r] = gens[r]
                                     /\ answers'[r] = answers[r]
        /\ job[q].state # "NONE" => job'[q].state # "NONE" /\ job'[q].rev = job[q].rev
        /\ job[q].attempt <= job'[q].attempt
    BY <1>1, <1>3
  <1> QED  BY <1>2, <1>7, <1>8, OneJobMoves

\* What a builder is building, and of which job.
LEMMA BuilderRows ==
  ASSUME SInv, NEW b \in Builders, HasLease(b)
  PROVE  /\ builder[b].job \in Requests /\ builder[b].attempt \in Attempts
         /\ builder[b].rev \in Revisions
         /\ job[builder[b].job].state = "RUNNING"
         /\ job[builder[b].job].attempt = builder[b].attempt
         /\ [builder EXCEPT ![b] = Resting] \in [Builders -> Building \cup {Resting}]
  <1>1. builder \in [Builders -> Building \cup {Resting}] /\ Resting.claimed = FALSE
    BY DEF SInv, ServiceTypeOK, Resting
  <1>2. builder[b] # Resting
    BY <1>1 DEF HasLease
  <1>3. builder[b] \in Building
    BY <1>1, <1>2
  <1>4. /\ builder[b].job \in Requests /\ builder[b].attempt \in Attempts
        /\ builder[b].rev \in Revisions
    BY <1>3 DEF Building
  <1> QED  BY <1>1, <1>4 DEF HasLease

LEMMA ClaimJobKeeps ==
  ASSUME SInv, NEW b \in Builders, NEW q \in Requests, ClaimJob(b, q)
  PROVE  SInv' /\ Moves
  <1> DEFINE j == [job[q] EXCEPT !.state = "RUNNING", !.attempt = job[q].attempt + 1, !.lease = b]
             g == [n \in Attempts |->
                     CASE n = job[q].attempt + 1 -> [state |-> "BUILDING", rev |-> projection]
                       [] n = job[q].attempt -> [gens[q][n] EXCEPT !.state = "FAILED"]
                       [] OTHER -> gens[q][n]]
  <1>1. /\ Due(q) /\ ~Exhausted(q)
        /\ job' = [job EXCEPT ![q] = j] /\ gens' = [gens EXCEPT ![q] = g]
        /\ builder' = [builder EXCEPT ![b] = [claimed |-> TRUE, job |-> q,
              attempt |-> job[q].attempt + 1, rev |-> projection]]
        /\ UNCHANGED <<projection, answers>>
    BY DEF ClaimJob
  <1>2. /\ JobOK(q) /\ job[q] \in Jobs /\ job[q].attempt \in Nat /\ job[q].limit \in Nat
        /\ gens[q] \in [Attempts -> Generations] /\ projection \in {0} \cup Revisions
    BY ServiceRows DEF SInv, ServiceTypeOK
  <1>3. job[q].state \in {"PENDING", "RUNNING"}
    BY <1>1 DEF Due
  <1>4. job[q].attempt + 1 \in Attempts
    BY <1>1, <1>2, Numbers DEF Exhausted, Earlier, Attempts
  <1>5. projection \in Revisions
    BY <1>2, <1>3, Numbers, ServiceRows DEF JobOK, Revisions
  <1>6. /\ j \in Jobs /\ j.state = "RUNNING" /\ j.rev = job[q].rev /\ j.limit = job[q].limit
        /\ j.attempt = job[q].attempt + 1
    BY <1>2, <1>4 DEF Jobs
  <1>7. ASSUME NEW n \in Attempts
        PROVE  /\ g[n] \in Generations /\ g[n].state # "READY"
               /\ g[n].state = "BUILDING" => g[n] = gens[q][n] \/ g[n].rev = projection
    <2>1. gens[q][n] \in Generations /\ gens[q][n].state # "READY"
      BY <1>2, <1>3 DEF JobOK
    <2>2. CASE n = job[q].attempt + 1
      BY <2>2, <1>2, <1>5 DEF Generations
    <2>3. CASE n # job[q].attempt + 1 /\ n = job[q].attempt
      BY <2>1, <2>3, <1>2 DEF Generations
    <2>4. CASE n # job[q].attempt + 1 /\ n # job[q].attempt
      BY <2>1, <2>4, <1>2 DEF Generations
    <2> QED  BY <2>2, <2>3, <2>4
  <1>8. builder' \in [Builders -> Building \cup {Resting}]
    BY <1>1, <1>4, <1>5 DEF SInv, ServiceTypeOK, Building
  <1>9. g \in [Attempts -> Generations]
    BY <1>7
  <1>10. job[q].attempt <= j.attempt
    BY <1>2, <1>6
  <1> HIDE DEF j, g
  <1>11. job[q].state \notin {"NONE", "SUCCEEDED"} /\ j.state \in {"PENDING", "RUNNING", "FAILED"}
    BY <1>3, <1>6
  <1>12. /\ \A n \in Attempts : g[n].state # "READY"
         /\ \A n \in Attempts : g[n].state = "BUILDING" => g[n] = gens[q][n] \/ g[n].rev = projection
    BY <1>7
  <1> QED  BY <1>1, <1>6, <1>8, <1>9, <1>10, <1>11, <1>12, JobStepTypes

\* An attempt that ends without a generation.
LEMMA FailedAttemptKeeps ==
  ASSUME SInv, NEW q \in Requests, job[q].state \in {"PENDING", "RUNNING"},
         NEW state \in {"PENDING", "FAILED"},
         job' = [job EXCEPT ![q] = [@ EXCEPT !.state = state, !.lease = NoBuilder]],
         gens' = [gens EXCEPT ![q][GenerationOf(job[q].attempt)].state = "FAILED"],
         builder' \in [Builders -> Building \cup {Resting}],
         UNCHANGED <<projection, answers>>
  PROVE  SInv' /\ Moves
  <1> DEFINE m == GenerationOf(job[q].attempt)
             j == [job[q] EXCEPT !.state = state, !.lease = NoBuilder]
             g == [gens[q] EXCEPT ![m] = [gens[q][m] EXCEPT !.state = "FAILED"]]
  <1>1. /\ JobOK(q) /\ job[q] \in Jobs /\ m \in Attempts /\ job[q].attempt \in Nat
        /\ gens[q] \in [Attempts -> Generations]
    BY ServiceRows DEF SInv
  <1>2. /\ j \in Jobs /\ j.state = state /\ j.rev = job[q].rev /\ j.limit = job[q].limit
        /\ j.attempt = job[q].attempt
    BY <1>1 DEF Jobs
  <1>3. gens[q][m] \in Generations
    BY <1>1
  <1>4. /\ [gens[q][m] EXCEPT !.state = "FAILED"] \in Generations
        /\ [gens[q][m] EXCEPT !.state = "FAILED"].state = "FAILED"
    BY <1>3 DEF Generations
  <1>5. job' = [job EXCEPT ![q] = j] /\ gens' = [gens EXCEPT ![q] = g]
    OBVIOUS
  <1>6. g \in [Attempts -> Generations]
    BY <1>1, <1>4
  <1>7. \A n \in Attempts : /\ g[n].state # "READY"
                            /\ g[n].state = "BUILDING" => g[n] = gens[q][n]
    <2>1. \A n \in Attempts : gens[q][n].state # "READY"
      BY <1>1 DEF JobOK
    <2> QED  BY <1>1, <1>4, <2>1
  <1>8. job[q].attempt <= j.attempt
    BY <1>1, <1>2
  <1> HIDE DEF m, j, g
  <1>9. job[q].state \notin {"NONE", "SUCCEEDED"} /\ j.state \in {"PENDING", "RUNNING", "FAILED"}
    BY <1>2
  <1>10. /\ \A n \in Attempts : g[n].state # "READY"
         /\ \A n \in Attempts : g[n].state = "BUILDING" => g[n] = gens[q][n] \/ g[n].rev = projection
    BY <1>7
  <1>11. builder' \in [Builders -> Building \cup {Resting}] /\ UNCHANGED <<projection, answers>>
    OBVIOUS
  <1> QED  BY ONLY SInv, q \in Requests, <1>2, <1>5, <1>6, <1>8, <1>9, <1>10, <1>11, JobStepTypes

LEMMA GiveUpKeeps ==
  ASSUME SInv, NEW q \in Requests, GiveUpJob(q)
  PROVE  SInv' /\ Moves
  <1>1. /\ job[q].state \in {"PENDING", "RUNNING"}
        /\ job' = [job EXCEPT ![q] = [@ EXCEPT !.state = "FAILED", !.lease = NoBuilder]]
        /\ gens' = [gens EXCEPT ![q][GenerationOf(job[q].attempt)].state = "FAILED"]
        /\ UNCHANGED <<projection, answers>>
    BY DEF GiveUpJob, Due
  <1>2. builder' \in [Builders -> Building \cup {Resting}]
    BY DEF GiveUpJob, SInv, ServiceTypeOK
  <1> QED  BY <1>1, <1>2, FailedAttemptKeeps

LEMMA FailKeeps ==
  ASSUME SInv, NEW b \in Builders, NEW permanent \in BOOLEAN, FailJob(b, permanent)
  PROVE  SInv' /\ Moves
  <1> DEFINE q == builder[b].job
  <1>1. PICK state \in {"PENDING", "FAILED"} :
           job' = [job EXCEPT ![q] = [@ EXCEPT !.state = state, !.lease = NoBuilder]]
    BY DEF FailJob
  <1>2. /\ HasLease(b)
        /\ gens' = [gens EXCEPT ![q][GenerationOf(job[q].attempt)].state = "FAILED"]
        /\ builder' = [builder EXCEPT ![b] = Resting]
        /\ UNCHANGED <<projection, answers>>
    BY DEF FailJob
  <1>3. /\ q \in Requests /\ job[q].state \in {"PENDING", "RUNNING"}
        /\ builder' \in [Builders -> Building \cup {Resting}]
    BY <1>2, BuilderRows
  <1> HIDE DEF q
  <1> QED  BY <1>1, <1>2, <1>3, FailedAttemptKeeps

LEMMA CompleteKeeps ==
  ASSUME SInv, NEW b \in Builders, CompleteJob(b)
  PROVE  SInv' /\ Moves
  <1>0. PICK q \in Requests, n \in Attempts : q = builder[b].job /\ n = builder[b].attempt
    BY BuilderRows DEF CompleteJob
  <1> DEFINE j == [job[q] EXCEPT !.state = "SUCCEEDED", !.lease = NoBuilder]
             g == [gens[q] EXCEPT ![n] = [gens[q][n] EXCEPT !.state = "READY"]]
  <1>1. /\ HasLease(b) /\ gens[q][n].state = "BUILDING"
        /\ gens' = [gens EXCEPT ![q] = g] /\ job' = [job EXCEPT ![q] = j]
        /\ builder' = [builder EXCEPT ![b] = Resting]
        /\ UNCHANGED <<projection, answers>>
    BY <1>0 DEF CompleteJob
  <1>2. /\ job[q].state = "RUNNING" /\ job[q].attempt = n
        /\ builder' \in [Builders -> Building \cup {Resting}]
    BY <1>0, <1>1, BuilderRows
  <1>3. /\ JobOK(q) /\ job[q] \in Jobs /\ gens[q] \in [Attempts -> Generations]
        /\ projection \in Nat /\ n \in Nat
    BY <1>2, ServiceRows, Numbers DEF SInv
  <1>4. /\ j \in Jobs /\ j.state = "SUCCEEDED" /\ j.rev = job[q].rev /\ j.limit = job[q].limit
        /\ j.attempt = job[q].attempt
    BY <1>3 DEF Jobs
  <1>5. gens[q][n] \in Generations
    BY <1>2, <1>3
  <1>6. /\ [gens[q][n] EXCEPT !.state = "READY"] \in Generations
        /\ [gens[q][n] EXCEPT !.state = "READY"].state = "READY"
        /\ [gens[q][n] EXCEPT !.state = "READY"].rev = gens[q][n].rev
    BY <1>5 DEF Generations
  <1>7. g \in [Attempts -> Generations]
    BY <1>3, <1>6
  <1>8. \A i \in Attempts : /\ g[i].state = "READY" <=> i = n
                            /\ g[i].state = "BUILDING" => gens[q][i].state = "BUILDING"
                            /\ g[i].rev = gens[q][i].rev
    <2>1. \A i \in Attempts : gens[q][i].state # "READY"
      BY <1>2, <1>3 DEF JobOK
    <2> QED  BY <1>2, <1>3, <1>6, <2>1
  <1> HIDE DEF j, g
  <1>9. /\ job'[q] = j /\ gens'[q] = g /\ answers' = answers /\ projection' = projection
        /\ \A r \in Requests \ {q} : job'[r] = job[r] /\ gens'[r] = gens[r]
    BY <1>1, <1>2 DEF SInv, ServiceTypeOK
  <1>10. ServiceTypeOK'
    BY <1>1, <1>2, <1>4, <1>7 DEF SInv, ServiceTypeOK
  <1>11. JobOK(q)'
    <2>1. \A i \in Attempts : g[i].state \in {"BUILDING", "READY"} =>
             job[q].rev <= g[i].rev /\ g[i].rev <= projection
      BY <1>1, <1>3, <1>8 DEF JobOK
    <2>2. /\ job[q].rev > 0 /\ job[q].rev <= projection /\ job[q].limit > 0 /\ n > 0
          /\ \A k \in Keys : answers[q][k] <= job[q].attempt
      BY <1>2, <1>3, Numbers DEF JobOK
    <2>3. \A i \in Attempts : g[i].state = "READY" <=> j.state = "SUCCEEDED" /\ j.attempt = i
      BY <1>2, <1>4, <1>8
    <2> QED  BY <1>2, <1>4, <1>9, <2>1, <2>2, <2>3 DEF JobOK
  <1>12. /\ projection <= projection' /\ job[q].state # "SUCCEEDED"
         /\ \A r \in Requests \ {q} : /\ job'[r] = job[r] /\ gens'[r] = gens[r]
                                      /\ answers'[r] = answers[r]
         /\ job[q].state # "NONE" => job'[q].state # "NONE" /\ job'[q].rev = job[q].rev
         /\ job[q].attempt <= job'[q].attempt
    BY <1>2, <1>3, <1>4, <1>9
  <1> QED  BY <1>2, <1>10, <1>11, <1>12, OneJobMoves

LEMMA LeaseEndKeeps ==
  ASSUME SInv, NEW q \in Requests, JobLeaseEnds(q)
  PROVE  SInv' /\ Moves
  <1> DEFINE j == [job[q] EXCEPT !.lease = NoBuilder]
  <1>1. /\ job[q].state = "RUNNING" /\ job' = [job EXCEPT ![q] = j]
        /\ UNCHANGED <<projection, gens, answers, builder>>
    BY DEF JobLeaseEnds
  <1>2. /\ JobOK(q) /\ job[q] \in Jobs /\ job[q].attempt \in Nat
        /\ gens[q] \in [Attempts -> Generations]
    BY ServiceRows DEF SInv
  <1>3. /\ j \in Jobs /\ j.state = job[q].state /\ j.rev = job[q].rev /\ j.limit = job[q].limit
        /\ j.attempt = job[q].attempt
    BY <1>2 DEF Jobs
  <1> HIDE DEF j
  <1>4. gens' = [gens EXCEPT ![q] = gens[q]] /\ builder' \in [Builders -> Building \cup {Resting}]
    BY <1>1 DEF SInv, ServiceTypeOK
  <1>5. /\ \A n \in Attempts : gens[q][n].state # "READY"
        /\ \A n \in Attempts : gens[q][n].state = "BUILDING" =>
              gens[q][n] = gens[q][n] \/ gens[q][n].rev = projection
        /\ job[q].state \notin {"NONE", "SUCCEEDED"} /\ j.state \in {"PENDING", "RUNNING", "FAILED"}
        /\ job[q].attempt <= j.attempt
    BY <1>1, <1>2, <1>3 DEF JobOK
  <1>6. UNCHANGED <<projection, answers>>
    BY <1>1
  <1> QED  BY <1>1, <1>2, <1>3, <1>4, <1>5, <1>6, JobStepTypes

LEMMA ServiceKeeps ==
  ASSUME SInv, ServiceStep
  PROVE  SInv' /\ Moves /\ projection' = projection /\ answers' = answers
         /\ \A q \in Requests : job[q].state = "NONE" => job'[q] = job[q]
  <1>1. projection' = projection /\ answers' = answers
    BY DEF ServiceStep, BuilderStep, ClaimJob, GiveUpJob, CompleteJob, FailJob, LeaveJob,
           JobLeaseEnds
  <1>2. ASSUME NEW b \in Builders, BuilderStep(b)
        PROVE  /\ SInv' /\ Moves
               /\ \A q \in Requests : job[q].state = "NONE" => job'[q] = job[q]
    <2>1. ASSUME NEW q \in Requests, ClaimJob(b, q)
          PROVE  \A r \in Requests : job[r].state = "NONE" => job'[r] = job[r]
      BY <2>1 DEF ClaimJob, Due, SInv, ServiceTypeOK
    <2>2. CASE CompleteJob(b)
      <3>1. HasLease(b) /\ \A r \in Requests \ {builder[b].job} : job'[r] = job[r]
        BY <2>2 DEF CompleteJob, SInv, ServiceTypeOK
      <3> QED  BY <2>2, <3>1, CompleteKeeps, BuilderRows
    <2>3. ASSUME NEW permanent \in BOOLEAN, FailJob(b, permanent)
          PROVE  \A r \in Requests : job[r].state = "NONE" => job'[r] = job[r]
      <3>1. HasLease(b) /\ \A r \in Requests \ {builder[b].job} : job'[r] = job[r]
        BY <2>3 DEF FailJob, SInv, ServiceTypeOK
      <3> QED  BY <3>1, BuilderRows
    <2>4. CASE LeaveJob(b)
      <3>1. ServiceTypeOK'
        BY <2>4 DEF LeaveJob, SInv, ServiceTypeOK
      <3>2. UNCHANGED <<projection, job, gens, answers>>
        BY <2>4 DEF LeaveJob
      <3>3. ASSUME NEW q \in Requests PROVE JobOK(q)'
        BY <3>2 DEF SInv, JobOK
      <3>4. projection \in Nat
        BY Numbers DEF SInv, ServiceTypeOK
      <3>5. Moves
        BY <3>2, <3>4, ServiceRows DEF Moves
      <3> QED  BY <3>1, <3>2, <3>3, <3>5 DEF SInv
    <2> QED  BY <1>2, <2>1, <2>2, <2>3, <2>4, ClaimJobKeeps, FailKeeps DEF BuilderStep
  <1>3. ASSUME NEW q \in Requests, GiveUpJob(q) \/ JobLeaseEnds(q)
        PROVE  /\ SInv' /\ Moves
               /\ \A r \in Requests : job[r].state = "NONE" => job'[r] = job[r]
    <2>1. \A r \in Requests : job[r].state = "NONE" => job'[r] = job[r]
      BY <1>3 DEF GiveUpJob, JobLeaseEnds, Due, SInv, ServiceTypeOK
    <2> QED  BY <1>3, <2>1, GiveUpKeeps, LeaseEndKeeps
  <1> QED  BY <1>1, <1>2, <1>3 DEF ServiceStep

-----------------------------------------------------------------------------
(* Rows and calls *)

LEMMA RowTypes ==
  ASSUME IInv, NEW d \in Deliveries
  PROVE  /\ outbox[d] \in Rows /\ outbox \in [Deliveries -> Rows]
         /\ outbox[d].rev \in Nat /\ outbox[d].errors \in Nat /\ outbox[d].retries \in Nat
         /\ outbox[d].key \in Nat /\ outbox[d].seen \in Nat /\ outbox[d].gen \in Nat
  <1>1. \A e \in Deliveries : outbox[e] \in Rows
    BY DEF IInv, BInv, RowOK
  <1>2. outbox \in [Deliveries -> Rows]
    BY <1>1 DEF IInv, BInv
  <1>3. /\ outbox[d].rev \in {0} \cup Revisions /\ outbox[d].errors \in 0 .. ErrorLimit
        /\ outbox[d].retries \in {0} \cup Keys /\ outbox[d].key \in {0} \cup Keys
        /\ outbox[d].seen \in {0, Unseen} \cup Attempts /\ outbox[d].gen \in {0} \cup Attempts
    BY <1>1 DEF Rows, NoGen
  <1>4. outbox[d].errors \in Nat
    BY <1>3, Numbers
  <1> QED  BY <1>1, <1>2, <1>3, <1>4, Numbers

\* Requests are not revisions, so a row is of one sort.
LEMMA RowSorts ==
  /\ Requests \subseteq Deliveries /\ Projections \subseteq Deliveries
  /\ \A d \in Deliveries : d \in Requests <=> d \notin Projections
  /\ Projections \subseteq Revisions
  BY IndexingAssumption, Numbers DEF Deliveries, Projections, Revisions

LEMMA CallTypes ==
  ASSUME NEW c \in PublisherStates, c # Off
  PROVE  /\ c.row \in Deliveries
         /\ c.kind \in {"claimed", "done", "refused", "down", "receipt"}
         /\ c.kind = "claimed" => /\ c.ask \in {"project", "ingest", "poll", "retry"}
                                  /\ c.key \in {0} \cup Keys
         /\ c.kind = "receipt" => /\ c.row \in Requests /\ c.attempt \in {0} \cup Attempts
                                  /\ c.gen \in Attempts
                                  /\ c.state \in {"PENDING", "RUNNING", "SUCCEEDED", "FAILED"}
  <1>1. CASE c \in Calls
    <2>1. c.kind = "claimed"
      BY <1>1 DEF Calls
    <2> QED  BY <1>1, <2>1 DEF Calls
  <1>2. CASE c \in Answers
    <2>1. c.kind \in {"done", "refused", "down"}
      BY <1>2 DEF Answers
    <2> QED  BY <1>2, <2>1 DEF Answers
  <1>3. CASE c \in Receipts
    <2>1. c.kind = "receipt"
      BY <1>3 DEF Receipts
    <2> QED  BY <1>3, <2>1, RowSorts DEF Receipts
  <1> QED  BY <1>1, <1>2, <1>3 DEF PublisherStates

\* What is said of a job stays true while the service moves forward.
LEMMA CallStays ==
  ASSUME IInv, Moves, SInv', NEW c \in PublisherStates, c # Off, CallOK(c),
         outbox'[c.row].state # "NONE", outbox[c.row].retries <= outbox'[c.row].retries,
         outbox'[c.row].retries \in Nat
  PROVE  CallOK(c)'
  <1>1. /\ c.row \in Deliveries
        /\ c.kind = "claimed" => c.key \in {0} \cup Keys
        /\ c.kind = "receipt" => c.row \in Requests /\ c.attempt \in {0} \cup Attempts
    BY CallTypes
  <1>2. outbox[c.row].retries \in Nat
    BY <1>1, RowTypes
  <1>3. ASSUME c.kind = "claimed"
        PROVE  /\ c.ask = "project" <=> c.row \in Projections
               /\ c.ask \in {"poll", "retry"} => job'[c.row].state # "NONE"
               /\ c.ask = "retry" => c.key # 0
               /\ c.row \in Requests => c.key <= outbox'[c.row].retries
    <2>1. /\ c.ask = "project" <=> c.row \in Projections
          /\ c.ask \in {"poll", "retry"} => job[c.row].state # "NONE"
          /\ c.ask = "retry" => c.key # 0
          /\ c.row \in Requests => c.key <= outbox[c.row].retries
      BY <1>3 DEF CallOK
    <2>2. c.ask \in {"poll", "retry"} => c.row \in Requests
      BY <1>1, <2>1, RowSorts
    <2>3. c.key \in Nat
      BY <1>1, <1>3, Numbers
    <2>4. c.ask \in {"poll", "retry"} => job'[c.row].state # "NONE"
      BY <2>1, <2>2 DEF Moves
    <2> QED  BY <2>1, <2>3, <2>4, <1>2
  <1>4. ASSUME c.kind = "receipt"
        PROVE  /\ job'[c.row].state # "NONE" /\ c.attempt <= job'[c.row].attempt
               /\ c.state = "SUCCEEDED" =>
                     job'[c.row].state = "SUCCEEDED" /\ c.attempt = job'[c.row].attempt
    <2>1. c.row \in Requests /\ c.attempt \in Nat
      BY <1>1, <1>4, Numbers
    <2>2. job[c.row].attempt \in Nat /\ job'[c.row].attempt \in Nat
      <3>1. ServiceTypeOK'
        BY DEF SInv
      <3>2. job'[c.row].attempt \in {0} \cup Attempts
        BY <2>1, <3>1 DEF ServiceTypeOK, Jobs
      <3> QED  BY <2>1, <3>2, ServiceRows, Numbers DEF IInv
    <2>3. /\ job[c.row].state # "NONE" /\ c.attempt <= job[c.row].attempt
          /\ c.state = "SUCCEEDED" =>
                job[c.row].state = "SUCCEEDED" /\ c.attempt = job[c.row].attempt
      BY <1>4 DEF CallOK
    <2>4. /\ job'[c.row].state # "NONE" /\ job[c.row].attempt <= job'[c.row].attempt
          /\ job[c.row].state = "SUCCEEDED" => job'[c.row] = job[c.row]
      BY <2>1, <2>3 DEF Moves
    <2> QED  BY <2>1, <2>2, <2>3, <2>4
  <1> QED  BY <1>3, <1>4 DEF CallOK

-----------------------------------------------------------------------------
(* A step of the service, heard by a publisher or not *)

LEMMA RowStillKnows ==
  ASSUME IInv, SInv', Moves, NEW q \in Requests, outbox'[q] = outbox[q],
         job[q].state = "NONE" /\ job'[q].state # "NONE" =>
            outbox[q].state # "NONE" /\ job'[q].rev = outbox[q].rev,
         \A k \in Keys : \/ answers'[q][k] = answers[q][k]
                         \/ k <= outbox[q].retries /\ answers'[q][k] = job[q].attempt
  PROVE  RowKnows(q)'
  <1>1. /\ RowKnows(q) /\ q \in Deliveries /\ outbox[q].seen \in Nat /\ outbox[q].retries \in Nat
        /\ outbox[q].key \in {0} \cup Keys
    BY RowTypes, RowSorts DEF IInv, BInv, Rows
  <1>2. job[q].attempt \in Nat /\ job'[q].attempt \in Nat
    <2>1. job'[q].attempt \in {0} \cup Attempts
      BY DEF SInv, ServiceTypeOK, Jobs
    <2> QED  BY <2>1, ServiceRows, Numbers DEF IInv
  <1>3. /\ job[q].state # "NONE" => job'[q].state # "NONE" /\ job'[q].rev = job[q].rev
        /\ job[q].attempt <= job'[q].attempt
        /\ job[q].state = "SUCCEEDED" => job'[q] = job[q]
    BY DEF Moves
  <1>4. job'[q].state # "NONE" => outbox[q].state # "NONE" /\ job'[q].rev = outbox[q].rev
    BY <1>1, <1>3 DEF RowKnows
  <1>5. outbox[q].seen # Unseen => /\ job'[q].state # "NONE" /\ outbox[q].seen <= job'[q].attempt
                                   /\ outbox[q].gen = GenerationOf(outbox[q].seen)
    BY <1>1, <1>2, <1>3 DEF RowKnows
  <1>6. outbox[q].state = "SUCCEEDED" => /\ outbox[q].seen # Unseen
                                         /\ job'[q].state = "SUCCEEDED"
                                         /\ outbox[q].seen = job'[q].attempt
    BY <1>1, <1>3 DEF RowKnows
  <1>7. \A k \in Keys : k > outbox[q].retries => answers'[q][k] = 0
    BY <1>1, Numbers DEF RowKnows
  <1>8. outbox[q].key # 0 /\ answers'[q][outbox[q].key] # 0 =>
           outbox[q].seen <= answers'[q][outbox[q].key]
    BY <1>1, <1>2 DEF RowKnows
  <1> QED  BY <1>1, <1>4, <1>5, <1>6, <1>7, <1>8 DEF RowKnows

LEMMA FoundStays ==
  ASSUME IInv, Moves, projection' <= doc.rev, projection' \in Nat, UNCHANGED doc
  PROVE  Found'
  <1> SUFFICES ASSUME doc.pub.published, doc.pub.rev = doc.rev
               PROVE  /\ gens'[doc.pub.req][doc.pub.gen] = [state |-> "READY", rev |-> doc.rev]
                      /\ projection' = doc.rev
    BY DEF IInv, BInv, Found, PublishedIsFound
  <1>1. doc.pub \in Publications \cup {NotPublished} /\ doc.rev \in Nat
    BY Numbers DEF IInv, BInv
  <1>2. doc.pub # NotPublished
    BY DEF NotPublished
  <1>3. doc.pub.req \in Requests /\ doc.pub.gen \in Attempts
    BY <1>1, <1>2 DEF Publications
  <1>4. /\ gens[doc.pub.req][doc.pub.gen] = [state |-> "READY", rev |-> doc.rev]
        /\ projection = doc.rev
    BY DEF IInv, BInv, Found, PublishedIsFound
  <1>5. job[doc.pub.req].state = "SUCCEEDED"
    BY <1>3, <1>4 DEF IInv, SInv, JobOK
  <1>6. gens'[doc.pub.req] = gens[doc.pub.req] /\ projection <= projection'
    BY <1>3, <1>5 DEF Moves
  <1> QED  BY <1>1, <1>4, <1>6

LEMMA ServiceSide ==
  ASSUME IInv, SInv', Moves, UNCHANGED <<doc, outbox, activation>>, projection' <= doc.rev,
         \A q \in Requests : job[q].state = "NONE" /\ job'[q].state # "NONE" =>
            outbox[q].state # "NONE" /\ job'[q].rev = outbox[q].rev,
         \A q \in Requests : \A k \in Keys :
            \/ answers'[q][k] = answers[q][k]
            \/ k <= outbox[q].retries /\ answers'[q][k] = job[q].attempt,
         publisher' \in [Publishers -> PublisherStates],
         \A p \in Publishers : publisher'[p] = publisher[p] \/ PublisherOK(p)'
  PROVE  IInv'
  <1>1. projection' \in Nat
    BY Numbers DEF SInv, ServiceTypeOK
  <1>2. \A d \in Deliveries : RowOK(d)'
    BY DEF IInv, BInv, RowOK
  <1>3. \A q \in Requests : RowKnows(q)' /\ ~outbox'[q].invalid
    <2>1. ASSUME NEW q \in Requests PROVE RowKnows(q)'
      BY RowStillKnows
    <2> QED  BY <2>1 DEF IInv, BInv
  <1>4. ASSUME NEW p \in Publishers PROVE PublisherOK(p)'
    <2> SUFFICES ASSUME publisher'[p] = publisher[p], publisher[p] # Off
                 PROVE  CallOK(publisher[p])' /\ (Holds(p)' => Fresh(publisher[p])')
      BY DEF PublisherOK
    <2>1. /\ publisher[p] \in PublisherStates /\ CallOK(publisher[p])
          /\ Holds(p) => Fresh(publisher[p])
      BY DEF IInv, BInv, PublisherOK
    <2>2. publisher[p].row \in Deliveries /\ outbox[publisher[p].row].retries \in Nat
      BY <2>1, CallTypes, RowTypes
    <2>3. /\ outbox'[publisher[p].row].state # "NONE"
          /\ outbox[publisher[p].row].retries <= outbox'[publisher[p].row].retries
          /\ outbox'[publisher[p].row].retries \in Nat
      BY <2>1, <2>2 DEF CallOK
    <2>4. \A c \in PublisherStates : c = publisher[p] => CallOK(c)'
      BY <2>1, <2>3, CallStays
    <2>5. Holds(p)' => Fresh(publisher[p])'
      BY <2>1 DEF Holds, Fresh
    <2>6. CallOK(publisher[p])'
      BY <2>1, <2>4
    <2> QED  BY <2>5, <2>6
  <1>5. Found'
    BY <1>1, FoundStays
  <1> QED  BY <1>1, <1>2, <1>3, <1>4, <1>5 DEF IInv, BInv

\* What the service may do when it is called.
Effect(p) ==
    LET c == publisher[p]
    IN  \/ c.ask = "project" /\ Project(c.row) /\ UNCHANGED <<job, gens, answers, builder>>
        \/ c.ask = "ingest" /\ AcceptIngestion(c.row, outbox[c.row].rev)
        \/ c.ask = "retry" /\ RetryJob(c.row, c.key, ActiveAt(projection))
        \/ UNCHANGED serviceVars

LEMMA ClaimedCalls ==
  ASSUME IInv, NEW p \in Publishers, publisher[p].kind = "claimed"
  PROVE  /\ publisher[p] # Off /\ CallOK(publisher[p]) /\ (Holds(p) => Fresh(publisher[p]))
         /\ publisher[p].row \in Deliveries
         /\ publisher[p].ask \in {"project", "ingest", "poll", "retry"}
         /\ publisher[p].ask = "project" <=> publisher[p].row \in Projections
         /\ publisher[p].ask # "project" => publisher[p].row \in Requests
         /\ publisher[p].ask = "retry" => publisher[p].key \in Keys
         /\ outbox[publisher[p].row].state # "NONE"
         /\ publisher[p].row \in Requests => publisher[p].key <= outbox[publisher[p].row].retries
  <1>1. publisher[p] # Off /\ publisher[p] \in PublisherStates
    BY DEF Off, IInv, BInv
  <1>2. CallOK(publisher[p]) /\ (Holds(p) => Fresh(publisher[p]))
    BY <1>1 DEF IInv, BInv, PublisherOK
  <1>3. /\ publisher[p].row \in Deliveries
        /\ publisher[p].ask \in {"project", "ingest", "poll", "retry"}
        /\ publisher[p].key \in {0} \cup Keys
    BY <1>1, CallTypes
  <1> QED  BY <1>1, <1>2, <1>3, RowSorts DEF CallOK

LEMMA EffectKeeps ==
  ASSUME IInv, NEW p \in Publishers, publisher[p].kind = "claimed", Effect(p)
  PROVE  /\ SInv' /\ Moves /\ projection' <= doc.rev
         /\ \A q \in Requests : job[q].state = "NONE" /\ job'[q].state # "NONE" =>
               outbox[q].state # "NONE" /\ job'[q].rev = outbox[q].rev
         /\ \A q \in Requests : \A k \in Keys :
               \/ answers'[q][k] = answers[q][k]
               \/ k <= outbox[q].retries /\ answers'[q][k] = job[q].attempt
  <1>1. /\ SInv /\ projection <= doc.rev /\ doc.rev \in Nat
        /\ \A d \in Deliveries : RowOK(d)
    BY Numbers DEF IInv, BInv
  <1> DEFINE d == publisher[p].row
  <1>2. CASE /\ publisher[p].ask = "project" /\ Project(d)
             /\ UNCHANGED <<job, gens, answers, builder>>
    <2>1. d \in Projections /\ d \in Deliveries /\ outbox[d].state # "NONE" /\ d \in Revisions
      BY <1>2, ClaimedCalls, RowSorts
    <2>2. d <= doc.rev
      BY <1>1, <2>1 DEF RowOK
    <2>3. SInv' /\ Moves /\ (projection' = projection \/ projection' = d)
      BY <1>1, <1>2, <2>1, ProjectKeeps
    <2> QED  BY <1>1, <1>2, <2>2, <2>3
  <1>3. CASE publisher[p].ask = "ingest" /\ AcceptIngestion(d, outbox[d].rev)
    <2>1. d \in Requests /\ d \in Deliveries /\ outbox[d].state # "NONE"
      BY <1>3, ClaimedCalls, RowSorts
    <2>2. outbox[d].rev \in Revisions /\ outbox[d].rev <= doc.rev
      <3>1. outbox[d].rev \in 1 .. doc.rev /\ doc.rev \in Revisions
        BY <1>1, <2>1 DEF RowOK, IInv, BInv
      <3> QED  BY <3>1, Numbers DEF Revisions
    <2>3. /\ SInv' /\ Moves
          /\ projection' = projection \/ projection' = outbox[d].rev
          /\ \A r \in Requests \ {d} : job'[r] = job[r]
          /\ job[d].state = "NONE" => job'[d].rev = outbox[d].rev
          /\ answers' = answers
      BY <1>1, <1>3, <2>1, <2>2, AcceptKeeps
    <2> HIDE DEF d
    <2> QED  BY <1>1, <2>1, <2>2, <2>3
  <1>4. CASE publisher[p].ask = "retry" /\ RetryJob(d, publisher[p].key, ActiveAt(projection))
    <2>1. d \in Requests /\ publisher[p].key \in Keys /\ publisher[p].key <= outbox[d].retries
      BY <1>4, ClaimedCalls
    <2>2. ActiveAt(projection) \in BOOLEAN
      BY DEF ActiveAt
    <2>3. /\ SInv' /\ Moves /\ projection' = projection
          /\ \A r \in Requests : job[r].state = "NONE" => job'[r] = job[r]
          /\ \A r \in Requests \ {d} : answers'[r] = answers[r]
          /\ \A i \in Keys \ {publisher[p].key} : answers'[d][i] = answers[d][i]
          /\ \/ answers'[d][publisher[p].key] = answers[d][publisher[p].key]
             \/ answers'[d][publisher[p].key] = job[d].attempt
      BY <1>1, <1>4, <2>1, <2>2, RetryKeeps
    <2> HIDE DEF d
    <2> QED  BY <1>1, <2>1, <2>3
  <1>5. CASE UNCHANGED serviceVars
    <2>1. SInv' /\ Moves
      BY <1>1, <1>5, ServiceRests
    <2> QED  BY <1>1, <1>5, <2>1 DEF serviceVars
  <1> QED  BY <1>2, <1>3, <1>4, <1>5 DEF Effect

LEMMA AnswerHeard ==
  ASSUME IInv, NEW p \in Publishers, publisher[p].kind = "claimed", UNCHANGED outbox,
         NEW kind \in {"done", "refused", "down"}, Answered(p, kind),
         kind = "done" => publisher[p].row \in Projections
  PROVE  /\ publisher' \in [Publishers -> PublisherStates]
         /\ \A r \in Publishers : publisher'[r] = publisher[r] \/ PublisherOK(r)'
  <1> DEFINE a == [kind |-> kind, row |-> publisher[p].row]
  <1>1. publisher[p].row \in Deliveries /\ outbox[publisher[p].row].state # "NONE"
    BY ClaimedCalls
  <1>2. a \in PublisherStates
    BY <1>1 DEF PublisherStates, Answers
  <1>3. publisher' = [publisher EXCEPT ![p] = a] /\ publisher \in [Publishers -> PublisherStates]
    BY DEF Answered, IInv, BInv
  <1>4. publisher'[p].kind = kind /\ publisher'[p].row = publisher[p].row
    BY <1>3
  <1>5. PublisherOK(p)'
    BY <1>1, <1>4 DEF PublisherOK, CallOK, Fresh
  <1> QED  BY <1>2, <1>3, <1>5

LEMMA ReceiptHeard ==
  ASSUME IInv, NEW p \in Publishers, publisher[p].kind = "claimed", UNCHANGED outbox,
         publisher[p].row \in Requests, job'[publisher[p].row].state # "NONE",
         NEW attempt \in {0} \cup Attempts, NEW state \in {"PENDING", "RUNNING", "SUCCEEDED", "FAILED"},
         AnsweredBy(p, [state |-> state, attempt |-> attempt, gen |-> GenerationOf(attempt)]),
         attempt <= job'[publisher[p].row].attempt,
         state = "SUCCEEDED" => /\ job'[publisher[p].row].state = "SUCCEEDED"
                                /\ attempt = job'[publisher[p].row].attempt,
         Holds(p) /\ outbox[publisher[p].row].seen # Unseen =>
            outbox[publisher[p].row].seen <= attempt
  PROVE  /\ publisher' \in [Publishers -> PublisherStates]
         /\ \A r \in Publishers : publisher'[r] = publisher[r] \/ PublisherOK(r)'
  <1> DEFINE a == [kind |-> "receipt", row |-> publisher[p].row, state |-> state,
                   attempt |-> attempt, gen |-> GenerationOf(attempt)]
  <1>1. outbox[publisher[p].row].state # "NONE"
    BY ClaimedCalls
  <1>2. a \in PublisherStates
    <2>1. GenerationOf(attempt) \in Attempts
      BY Numbers DEF GenerationOf, Later, Attempts
    <2> QED  BY <2>1 DEF PublisherStates, Receipts
  <1>3. publisher' = [publisher EXCEPT ![p] = a] /\ publisher \in [Publishers -> PublisherStates]
    BY DEF AnsweredBy, IInv, BInv
  <1>4. /\ publisher'[p].kind = "receipt" /\ publisher'[p].row = publisher[p].row
        /\ publisher'[p].state = state /\ publisher'[p].attempt = attempt
        /\ publisher'[p].gen = GenerationOf(attempt)
    BY <1>3
  <1>5. Holds(p)' => Holds(p)
    BY <1>4 DEF Holds
  <1>6. CallOK(publisher[p])' /\ (Holds(p)' => Fresh(publisher[p])')
    BY <1>1, <1>4, <1>5 DEF CallOK, Fresh
  <1> QED  BY <1>2, <1>3, <1>6 DEF PublisherOK

LEMMA CallKeeps ==
  ASSUME IInv, NEW p \in Publishers, Call(p)
  PROVE  IInv'
  <1> DEFINE d == publisher[p].row
             Told == /\ publisher' \in [Publishers -> PublisherStates]
                       /\ \A r \in Publishers : publisher'[r] = publisher[r] \/ PublisherOK(r)'
  <1>1. publisher[p].kind = "claimed" /\ UNCHANGED <<doc, outbox, activation>>
    BY DEF Call
  <1>2. Effect(p) /\ Told
    <2>1. \A kind \in {"done", "refused", "down"} :
             Answered(p, kind) /\ (kind = "done" => d \in Projections) => Told
      BY <1>1, AnswerHeard
    <2>2. \A attempt \in {0} \cup Attempts, state \in {"PENDING", "RUNNING", "SUCCEEDED", "FAILED"} :
             /\ d \in Requests /\ job'[d].state # "NONE" /\ attempt <= job'[d].attempt
             /\ AnsweredBy(p, [state |-> state, attempt |-> attempt,
                               gen |-> GenerationOf(attempt)])
             /\ state = "SUCCEEDED" => job'[d].state = "SUCCEEDED" /\ attempt = job'[d].attempt
             /\ Holds(p) /\ outbox[d].seen # Unseen => outbox[d].seen <= attempt
             => Told
      BY <1>1, ReceiptHeard
    <2>3. /\ d \in Deliveries /\ CallOK(publisher[p]) /\ (Holds(p) => Fresh(publisher[p]))
          /\ publisher[p].ask = "project" => d \in Projections
          /\ publisher[p].ask # "project" => d \in Requests
          /\ publisher[p].ask \in {"poll", "retry"} => job[d].state # "NONE"
          /\ publisher[p].ask = "retry" => publisher[p].key \in Keys
      BY <1>1, ClaimedCalls DEF CallOK
    <2>4. ASSUME d \in Requests, SInv', Moves, job'[d].state # "NONE",
                 AnsweredBy(p, Receipt(job'[d]))
          PROVE  Told
      <3>1. /\ job'[d].state \in {"PENDING", "RUNNING", "SUCCEEDED", "FAILED"}
            /\ job'[d].attempt \in {0} \cup Attempts
        BY <2>4 DEF SInv, ServiceTypeOK, Jobs
      <3>2. job'[d].attempt \in Nat /\ job[d].attempt \in Nat /\ outbox[d].seen \in Nat
        BY <2>3, <2>4, <3>1, Numbers, ServiceRows, RowTypes DEF IInv
      <3>3. outbox[d].seen # Unseen => outbox[d].seen <= job[d].attempt
        BY <2>4 DEF IInv, BInv, RowKnows
      <3>4. job[d].attempt <= job'[d].attempt
        BY <2>4 DEF Moves
      <3>5. AnsweredBy(p, [state |-> job'[d].state, attempt |-> job'[d].attempt,
                           gen |-> GenerationOf(job'[d].attempt)])
        BY <2>4 DEF Receipt
      <3>6. /\ job'[d].state = "SUCCEEDED" => job'[d].state = "SUCCEEDED"
            /\ job'[d].attempt <= job'[d].attempt
            /\ outbox[d].seen # Unseen => outbox[d].seen <= job'[d].attempt
        BY <3>2, <3>3, <3>4
      <3> HIDE DEF Told, d
      <3> QED  BY <2>2, <2>4, <3>1, <3>5, <3>6
    <2>5. CASE Serve(p)
      <3>1. CASE /\ publisher[p].ask = "project" /\ Project(d)
                 /\ UNCHANGED <<job, gens, answers, builder>> /\ Answered(p, "done")
        BY <2>1, <2>3, <3>1 DEF Effect
      <3>2. CASE /\ publisher[p].ask = "ingest" /\ AcceptIngestion(d, outbox[d].rev)
                 /\ AnsweredBy(p, Receipt(job'[d]))
        <4>1. Effect(p)
          BY <3>2 DEF Effect
        <4>2. SInv' /\ Moves
          BY <1>1, <4>1, EffectKeeps
        <4>3. job'[d].state # "NONE"
          <5>1. CASE job[d].state # "NONE"
            BY <2>3, <3>2, <4>2, <5>1 DEF Moves
          <5>2. CASE job[d].state = "NONE"
            <6>1. job' = [job EXCEPT ![d] = [NoJob EXCEPT !.state = "PENDING",
                              !.rev = outbox[d].rev, !.limit = Window]]
              BY <3>2, <5>2 DEF AcceptIngestion
            <6>2. d \in Requests /\ job \in [Requests -> Jobs]
              BY <2>3, <3>2 DEF IInv, SInv, ServiceTypeOK
            <6> QED  BY <6>1, <6>2 DEF NoJob
          <5> QED  BY <5>1, <5>2
        <4> QED  BY <2>3, <2>4, <3>2, <4>1, <4>2, <4>3
      <3>3. CASE publisher[p].ask = "poll" /\ UNCHANGED serviceVars /\ AnsweredBy(p, Receipt(job[d]))
        <4>1. Effect(p) /\ job' = job
          BY <3>3 DEF Effect, serviceVars
        <4>2. SInv' /\ Moves
          BY <1>1, <4>1, EffectKeeps
        <4> QED  BY <2>3, <2>4, <3>3, <4>1, <4>2
      <3>4. CASE /\ publisher[p].ask = "retry" /\ RetryJob(d, publisher[p].key, ActiveAt(projection))
                 /\ AnsweredBy(p, SavedReceipt(answers'[d][publisher[p].key]))
        <4> DEFINE k == publisher[p].key
                   n == answers'[d][publisher[p].key]
        <4>1. Effect(p) /\ d \in Requests /\ k \in Keys /\ job[d].state # "NONE"
          BY <2>3, <3>4 DEF Effect
        <4>2. SInv /\ SInv' /\ Moves
          BY <1>1, <4>1, EffectKeeps DEF IInv
        <4>3. answers' \in [Requests -> [Keys -> {0} \cup Attempts]] /\ RowKnows(d)
          BY <4>1, <4>2 DEF SInv, ServiceTypeOK, IInv, BInv
        <4>4. n \in {0} \cup Attempts /\ n <= job'[d].attempt /\ job'[d].state # "NONE"
          <5>1. n \in {0} \cup Attempts
            BY <4>1, <4>3
          <5>2. job'[d].state # "NONE"
            BY <4>1, <4>2 DEF Moves
          <5>3. \A q \in Requests : JobOK(q)' => \A i \in Keys : answers'[q][i] <= job'[q].attempt
            BY DEF JobOK
          <5>4. \A q \in Requests : JobOK(q)'
            BY <4>2 DEF SInv
          <5> QED  BY <4>1, <5>1, <5>2, <5>3, <5>4
        <4>5. ASSUME Holds(p), outbox[d].seen # Unseen
              PROVE  outbox[d].seen <= n
          <5>1. k = outbox[d].key /\ k # 0
            BY <1>1, <2>3, <3>4, <4>5 DEF Fresh, CallOK
          <5>2. \/ answers[d][k] # 0 /\ answers'[d][k] = answers[d][k]
                \/ n = job[d].attempt
            <6>1. ActiveAt(projection) \in BOOLEAN
              BY DEF ActiveAt
            <6> QED  BY <3>4, <4>1, <4>2, <6>1, RetryKeeps
          <5> QED  BY <4>3, <4>5, <5>1, <5>2 DEF RowKnows
        <4>6. AnsweredBy(p, [state |-> "PENDING", attempt |-> n, gen |-> GenerationOf(n)])
          BY <3>4 DEF SavedReceipt
        <4> HIDE DEF Told, d, n, k
        <4> QED  BY <2>2, <4>1, <4>4, <4>5, <4>6
      <3>5. CASE UNCHANGED serviceVars /\ Answered(p, "refused")
        BY <2>1, <3>5 DEF Effect
      <3> QED  BY <2>5, <3>1, <3>2, <3>3, <3>4, <3>5 DEF Serve
    <2>6. CASE ServeUnheard(p)
      <3>1. Effect(p)
        BY <2>6 DEF ServeUnheard, Effect
      <3>2. Answered(p, "down")
        BY <2>6 DEF ServeUnheard
      <3> QED  BY <2>1, <3>1, <3>2
    <2>7. CASE UNCHANGED serviceVars /\ (Answered(p, "down") \/ Answered(p, "refused"))
      BY <2>1, <2>7 DEF Effect
    <2> QED  BY <2>5, <2>6, <2>7 DEF Call
  <1>3. /\ SInv' /\ Moves /\ projection' <= doc.rev
        /\ \A q \in Requests : job[q].state = "NONE" /\ job'[q].state # "NONE" =>
              outbox[q].state # "NONE" /\ job'[q].rev = outbox[q].rev
        /\ \A q \in Requests : \A k \in Keys :
              \/ answers'[q][k] = answers[q][k]
              \/ k <= outbox[q].retries /\ answers'[q][k] = job[q].attempt
    BY <1>1, <1>2, EffectKeeps
  <1> QED  BY <1>1, <1>2, <1>3, ServiceSide

LEMMA ServiceStepKeeps ==
  ASSUME IInv, ServiceStep, UNCHANGED indexingVars
  PROVE  IInv'
  <1>1. /\ SInv' /\ Moves /\ projection' = projection /\ answers' = answers
        /\ \A q \in Requests : job[q].state = "NONE" => job'[q] = job[q]
    BY ServiceKeeps DEF IInv
  <1>2. /\ UNCHANGED <<doc, outbox, activation>> /\ projection' <= doc.rev
        /\ publisher' \in [Publishers -> PublisherStates]
        /\ \A p \in Publishers : publisher'[p] = publisher[p] \/ PublisherOK(p)'
    BY <1>1 DEF indexingVars, IInv, BInv
  <1>3. \A q \in Requests : job[q].state = "NONE" /\ job'[q].state # "NONE" =>
           outbox[q].state # "NONE" /\ job'[q].rev = outbox[q].rev
    BY <1>1
  <1> QED  BY <1>1, <1>2, <1>3, ServiceSide

-----------------------------------------------------------------------------
(* A step of the backend *)

\* A step that writes one row, and perhaps the publisher that holds it.
LEMMA OneRowChanges ==
  ASSUME IInv, UNCHANGED serviceVars, NEW d \in Deliveries, NEW r \in Rows,
         outbox' = [outbox EXCEPT ![d] = r], UNCHANGED activation,
         doc' \in [rev : Revisions, archived : SUBSET Revisions,
                   pub : Publications \cup {NotPublished}],
         doc.rev <= doc'.rev, Found',
         r.state # "NONE", r.rev \in 1 .. doc'.rev, d \in Projections => d <= doc'.rev,
         r.state \in {"PENDING", "RUNNING"} => r.errors < ErrorLimit,
         outbox[d].retries <= r.retries \/ outbox[d].state = "NONE",
         d \in Requests => RowKnows(d)' /\ ~r.invalid,
         publisher' \in [Publishers -> PublisherStates],
         \A p \in Publishers : \/ PublisherOK(p)'
                               \/ publisher'[p] = publisher[p] /\ ~(r.state = "RUNNING" /\ r.lease = p)
  PROVE  IInv'
  <1>1. SInv' /\ Moves
    BY ServiceRests DEF IInv
  <1>2. /\ outbox \in [Deliveries -> Rows] /\ outbox' \in [Deliveries -> Rows] /\ outbox'[d] = r
        /\ \A e \in Deliveries \ {d} : outbox'[e] = outbox[e]
    BY RowTypes
  <1>3. projection' <= doc'.rev
    <2>1. projection \in Nat /\ doc.rev \in Nat /\ doc'.rev \in Nat /\ projection <= doc.rev
      BY Numbers DEF IInv, BInv, SInv, ServiceTypeOK
    <2> QED  BY <2>1 DEF serviceVars
  <1>4. \A e \in Deliveries : RowOK(e)'
    <2>1. RowOK(d)'
      BY <1>2 DEF RowOK
    <2>2. ASSUME NEW e \in Deliveries \ {d} PROVE RowOK(e)'
      <3>1. RowOK(e) /\ outbox'[e] = outbox[e] /\ doc.rev \in Nat /\ doc'.rev \in Nat
        BY <1>2, Numbers DEF IInv, BInv
      <3>2. e \in Projections => e \in Nat
        BY RowSorts, Numbers
      <3> QED  BY <3>1, <3>2 DEF RowOK
    <2> QED  BY <2>1, <2>2
  <1>5. \A q \in Requests : RowKnows(q)' /\ ~outbox'[q].invalid
    <2>1. ASSUME NEW q \in Requests \ {d} PROVE RowKnows(q)' /\ ~outbox'[q].invalid
      <3>1. RowKnows(q) /\ ~outbox[q].invalid /\ outbox'[q] = outbox[q]
        BY <1>2, RowSorts DEF IInv, BInv
      <3> QED  BY <3>1 DEF RowKnows, serviceVars
    <2> QED  BY <1>2, <2>1
  <1>6. \A p \in Publishers : PublisherOK(p)'
    <2> SUFFICES ASSUME NEW p \in Publishers, publisher'[p] = publisher[p], publisher[p] # Off,
                        ~(r.state = "RUNNING" /\ r.lease = p)
                 PROVE  CallOK(publisher[p])' /\ (Holds(p)' => Fresh(publisher[p])')
      BY DEF PublisherOK
    <2>1. /\ publisher[p] \in PublisherStates /\ CallOK(publisher[p])
          /\ Holds(p) => Fresh(publisher[p])
      BY DEF IInv, BInv, PublisherOK
    <2>2. publisher[p].row \in Deliveries /\ outbox[publisher[p].row].state # "NONE"
      BY <2>1, CallTypes DEF CallOK
    <2>3. /\ outbox'[publisher[p].row].state # "NONE"
          /\ outbox[publisher[p].row].retries <= outbox'[publisher[p].row].retries
          /\ outbox'[publisher[p].row].retries \in Nat
      <3>1. outbox'[publisher[p].row].retries \in {0} \cup Keys
        BY <1>2, <2>2 DEF Rows
      <3> QED  BY <1>2, <2>2, <3>1, RowTypes, Numbers
    <2>4. \A c \in PublisherStates : c = publisher[p] => CallOK(c)'
      BY <1>1, <2>1, <2>3, CallStays
    <2>5. CallOK(publisher[p])'
      BY <2>1, <2>4
    <2>6. Holds(p)' => publisher[p].row # d
      BY <1>2 DEF Holds
    <2>7. Holds(p)' => Fresh(publisher[p])'
      BY <1>2, <2>1, <2>2, <2>6 DEF Holds, Fresh
    <2> QED  BY <2>5, <2>7
  <1> QED  BY <1>1, <1>2, <1>3, <1>4, <1>5, <1>6 DEF IInv, BInv

\* A step that writes no row; publishers at most forget their calls.
LEMMA RowsRest ==
  ASSUME IInv, UNCHANGED <<serviceVars, outbox>>,
         doc' \in [rev : Revisions, archived : SUBSET Revisions,
                   pub : Publications \cup {NotPublished}],
         doc'.rev = doc.rev, Found',
         activation' \in [proven : {TRUE}, req : Requests, gen : Attempts] \cup {[proven |-> FALSE]},
         publisher' \in [Publishers -> PublisherStates],
         \A p \in Publishers : publisher'[p] \in {publisher[p], Off}
  PROVE  IInv'
  <1>1. SInv' /\ Moves
    BY ServiceRests DEF IInv
  <1>2. /\ projection' <= doc'.rev /\ outbox' = [d \in Deliveries |-> outbox'[d]]
        /\ \A d \in Deliveries : RowOK(d)'
    BY DEF IInv, BInv, RowOK, serviceVars
  <1>3. \A q \in Requests : RowKnows(q)' /\ ~outbox'[q].invalid
    BY DEF IInv, BInv, RowKnows, serviceVars
  <1>4. ASSUME NEW p \in Publishers PROVE PublisherOK(p)'
    BY DEF IInv, BInv, PublisherOK, CallOK, Fresh, Holds, serviceVars
  <1> QED  BY <1>1, <1>2, <1>3, <1>4 DEF IInv, BInv

LEMMA FoundAsBefore ==
  ASSUME IInv, UNCHANGED serviceVars, doc'.rev = doc.rev /\ doc'.pub = doc.pub
  PROVE  Found'
  BY DEF IInv, BInv, Found, PublishedIsFound, serviceVars

\* A row that has just been added.
LEMMA NewRows ==
  ASSUME NEW rev \in Revisions
  PROVE  /\ NewRow(rev) \in Rows /\ NewRow(rev).state = "PENDING" /\ NewRow(rev).rev = rev
         /\ NewRow(rev).errors = 0 /\ NewRow(rev).retries = 0 /\ NewRow(rev).key = 0
         /\ NewRow(rev).seen = Unseen /\ NewRow(rev).gen = NoGen /\ ~NewRow(rev).invalid
  <1>1. 0 \in 0 .. ErrorLimit
    BY Numbers
  <1>2. /\ NoRow \in Rows /\ NoRow.errors = 0 /\ NoRow.retries = 0 /\ NoRow.key = 0
        /\ NoRow.seen = Unseen /\ NoRow.gen = NoGen /\ ~NoRow.invalid
    BY <1>1 DEF NoRow, Rows
  <1> QED  BY <1>2 DEF NewRow, Rows

LEMMA RequestIndexKeeps ==
  ASSUME IInv, NEW q \in Requests, RequestIndex(q)
  PROVE  IInv'
  <1> DEFINE r == NewRow(doc.rev)
  <1>1. /\ outbox[q].state = "NONE" /\ outbox' = [outbox EXCEPT ![q] = r]
        /\ UNCHANGED <<serviceVars, doc, publisher, activation>>
    BY DEF RequestIndex
  <1>2. /\ doc.rev \in Revisions /\ doc.rev \in Nat /\ q \in Deliveries
        /\ doc \in [rev : Revisions, archived : SUBSET Revisions,
                    pub : Publications \cup {NotPublished}]
        /\ publisher \in [Publishers -> PublisherStates]
    BY Numbers, RowSorts DEF IInv, BInv
  <1>3. /\ r \in Rows /\ r.state = "PENDING" /\ r.rev = doc.rev /\ r.errors = 0 /\ r.retries = 0
        /\ r.key = 0 /\ r.seen = Unseen /\ r.gen = NoGen /\ ~r.invalid
    BY <1>2, NewRows
  <1> HIDE DEF r
  <1>4. RowKnows(q)'
    <2>1. RowKnows(q) /\ outbox[q] = NoRow
      BY <1>1, <1>2 DEF IInv, BInv, RowOK
    <2>2. job[q].state = "NONE" /\ \A k \in Keys : answers[q][k] = 0
      <3>1. outbox[q].retries = 0
        BY <2>1 DEF NoRow
      <3>2. \A k \in Keys : k > 0
        BY DEF Keys
      <3> QED  BY <1>1, <2>1, <3>1, <3>2 DEF RowKnows
    <2>3. outbox'[q] = r
      BY <1>1, <1>2, RowTypes
    <2> QED  BY <1>1, <1>3, <2>2, <2>3 DEF RowKnows, serviceVars
  <1>5. Found'
    BY <1>1, FoundAsBefore
  <1>6. /\ UNCHANGED serviceVars /\ UNCHANGED activation /\ doc.rev <= doc'.rev
        /\ doc' \in [rev : Revisions, archived : SUBSET Revisions,
                     pub : Publications \cup {NotPublished}]
        /\ r.rev \in 1 .. doc'.rev /\ r.state # "NONE"
        /\ q \in Projections => q <= doc'.rev
        /\ r.state \in {"PENDING", "RUNNING"} => r.errors < ErrorLimit
        /\ publisher' \in [Publishers -> PublisherStates]
        /\ \A p \in Publishers : \/ PublisherOK(p)'
                                 \/ publisher'[p] = publisher[p] /\ ~(r.state = "RUNNING" /\ r.lease = p)
    BY <1>1, <1>2, <1>3, Numbers, RowSorts DEF Revisions
  <1> QED  BY <1>1, <1>2, <1>3, <1>4, <1>5, <1>6, OneRowChanges

LEMMA ChangeMetadataKeeps ==
  ASSUME IInv, NEW archived \in BOOLEAN, ChangeMetadata(archived)
  PROVE  IInv'
  <1>1. PICK d : d = doc.rev + 1
    OBVIOUS
  <1> DEFINE r == NewRow(d)
  <1>2. /\ d \in Revisions /\ outbox' = [outbox EXCEPT ![d] = r]
        /\ doc' = [doc EXCEPT !.rev = d, !.archived = IF archived THEN @ \cup {d} ELSE @]
        /\ UNCHANGED <<serviceVars, publisher, activation>>
    BY <1>1 DEF ChangeMetadata
  <1>3. /\ doc.rev \in Revisions /\ doc.rev \in Nat /\ doc.rev > 0
        /\ doc \in [rev : Revisions, archived : SUBSET Revisions,
                    pub : Publications \cup {NotPublished}]
        /\ publisher \in [Publishers -> PublisherStates]
    BY Numbers DEF IInv, BInv, Revisions
  <1>4. d \in Projections /\ d \in Deliveries /\ d \notin Requests /\ d \in Nat
    BY <1>1, <1>2, <1>3, RowSorts, Numbers DEF Projections, Revisions
  <1>5. /\ r \in Rows /\ r.state = "PENDING" /\ r.rev = d /\ r.errors = 0 /\ r.retries = 0
    BY <1>2, NewRows
  <1> HIDE DEF r
  <1>6. /\ doc'.rev = d /\ doc'.pub = doc.pub
        /\ doc' \in [rev : Revisions, archived : SUBSET Revisions,
                     pub : Publications \cup {NotPublished}]
    BY <1>2, <1>3
  <1>7. Found'
    <2>1. doc.pub \in Publications \cup {NotPublished}
      BY <1>3
    <2>2. doc.pub.published => doc.pub.rev <= doc.rev /\ doc.pub.rev \in Revisions
      <3>1. doc.pub = NotPublished => ~doc.pub.published
        BY DEF NotPublished
      <3>2. doc.pub \in Publications => doc.pub.rev \in Revisions
        BY DEF Publications
      <3> QED  BY <2>1, <3>1, <3>2 DEF IInv, BInv, Found
    <2>3. doc.pub.published => doc.pub.rev \in Nat
      BY <2>2, Numbers
    <2> QED  BY <1>1, <1>3, <1>6, <2>2, <2>3 DEF Found, PublishedIsFound
  <1>8. outbox[d].state = "NONE"
    BY <1>1, <1>3, <1>4 DEF IInv, BInv, RowOK
  <1>9. /\ UNCHANGED serviceVars /\ UNCHANGED activation /\ doc.rev <= doc'.rev
        /\ r.rev \in 1 .. doc'.rev /\ r.state # "NONE"
        /\ d \in Projections => d <= doc'.rev
        /\ d \in Requests => RowKnows(d)' /\ ~r.invalid
        /\ r.state \in {"PENDING", "RUNNING"} => r.errors < ErrorLimit
        /\ publisher' \in [Publishers -> PublisherStates]
        /\ \A p \in Publishers : \/ PublisherOK(p)'
                                 \/ publisher'[p] = publisher[p] /\ ~(r.state = "RUNNING" /\ r.lease = p)
    BY <1>1, <1>2, <1>3, <1>4, <1>5, <1>6, Numbers
  <1> QED  BY <1>2, <1>4, <1>5, <1>6, <1>7, <1>8, <1>9, OneRowChanges

LEMMA RetryRequestKeeps ==
  ASSUME IInv, NEW q \in Requests, RetryRequest(q)
  PROVE  IInv'
  <1> DEFINE n == outbox[q].retries + 1
             r == [outbox[q] EXCEPT !.state = "PENDING", !.errors = 0,
                     !.retries = n, !.invalid = FALSE,
                     !.key = IF outbox[q].seen # Unseen THEN n ELSE outbox[q].key]
  <1>1. /\ outbox[q].state = "FAILED" /\ n \in Keys /\ outbox' = [outbox EXCEPT ![q] = r]
        /\ UNCHANGED <<serviceVars, doc, publisher, activation>>
    <2>1. outbox' = [outbox EXCEPT ![q] = r]
      BY DEF RetryRequest
    <2> QED  BY <2>1 DEF RetryRequest
  <1>2. /\ q \in Deliveries /\ outbox[q] \in Rows /\ RowOK(q) /\ RowKnows(q) /\ doc.rev \in Nat
        /\ publisher \in [Publishers -> PublisherStates]
        /\ doc \in [rev : Revisions, archived : SUBSET Revisions,
                    pub : Publications \cup {NotPublished}]
    BY RowSorts, RowTypes, Numbers DEF IInv, BInv
  <1>3. outbox[q].retries \in Nat /\ outbox[q].key \in Nat /\ outbox[q].seen \in Nat
    BY <1>2, RowTypes
  <1>4. /\ r \in Rows /\ r.state = "PENDING" /\ r.rev = outbox[q].rev /\ r.errors = 0
        /\ r.retries = n /\ ~r.invalid /\ r.seen = outbox[q].seen /\ r.gen = outbox[q].gen
        /\ r.key = IF outbox[q].seen # Unseen THEN n ELSE outbox[q].key
    <2>1. 0 \in 0 .. ErrorLimit
      BY Numbers
    <2> QED  BY <1>1, <1>2, <2>1 DEF Rows
  <1>5. outbox[q].retries <= n /\ n > outbox[q].retries
    BY <1>3
  <1>6. outbox'[q] = r
    BY <1>1, <1>2, RowTypes
  <1>7. RowKnows(q)'
    <2>1. /\ job[q].state # "NONE" => job[q].rev = outbox[q].rev
          /\ outbox[q].seen # Unseen => /\ job[q].state # "NONE"
                                        /\ outbox[q].seen <= job[q].attempt
                                        /\ outbox[q].gen = GenerationOf(outbox[q].seen)
          /\ outbox[q].seen = Unseen => outbox[q].gen = NoGen /\ outbox[q].key = 0
          /\ \A k \in Keys : k > outbox[q].retries => answers[q][k] = 0
      BY <1>2 DEF RowKnows
    <2>2. n # 0 /\ n \in Nat /\ answers[q][n] = 0
      BY <1>1, <1>3, <1>5, <2>1
    <2>3. r.key <= n
      BY <1>2, <1>4, <1>3, <2>2 DEF RowKnows
    <2>4. \A k \in Keys : k > n => answers[q][k] = 0
      BY <1>3, <2>1, Numbers
    <2> HIDE DEF r, n
    <2>5. r.key # 0 => answers[q][r.key] = 0
      BY <1>4, <2>1, <2>2
    <2> QED  BY <1>1, <1>4, <1>6, <2>1, <2>3, <2>4, <2>5 DEF RowKnows, serviceVars
  <1> HIDE DEF r, n
  <1>8. Found'
    BY <1>1, FoundAsBefore
  <1>9. /\ UNCHANGED serviceVars /\ UNCHANGED activation /\ doc.rev <= doc'.rev
        /\ doc' \in [rev : Revisions, archived : SUBSET Revisions,
                     pub : Publications \cup {NotPublished}]
        /\ r.rev \in 1 .. doc'.rev /\ r.state # "NONE"
        /\ q \in Projections => q <= doc'.rev
        /\ r.state \in {"PENDING", "RUNNING"} => r.errors < ErrorLimit
        /\ outbox[q].retries <= r.retries
        /\ publisher' \in [Publishers -> PublisherStates]
        /\ \A p \in Publishers : \/ PublisherOK(p)'
                                 \/ publisher'[p] = publisher[p] /\ ~(r.state = "RUNNING" /\ r.lease = p)
    BY <1>1, <1>2, <1>4, <1>5, Numbers DEF RowOK
  <1> QED  BY <1>1, <1>2, <1>4, <1>7, <1>8, <1>9, OneRowChanges

\* A row that only changes hands.
LEMMA RowChangesHands ==
  ASSUME IInv, UNCHANGED <<serviceVars, doc, activation>>, NEW d \in Deliveries,
         outbox[d].state \in {"PENDING", "RUNNING"}, NEW h \in Publishers \cup {NoPublisher},
         outbox' = [outbox EXCEPT ![d] = [outbox[d] EXCEPT !.state = "RUNNING", !.lease = h]],
         publisher' \in [Publishers -> PublisherStates],
         \A p \in Publishers : PublisherOK(p)' \/ (publisher'[p] = publisher[p] /\ p # h)
  PROVE  IInv'
  <1> DEFINE r == [outbox[d] EXCEPT !.state = "RUNNING", !.lease = h]
  <1>1. outbox[d] \in Rows /\ RowOK(d) /\ outbox[d].retries \in Nat /\ doc.rev \in Nat
    BY RowTypes, Numbers DEF IInv, BInv
  <1>2. /\ r \in Rows /\ r.state = "RUNNING" /\ r.lease = h /\ r.rev = outbox[d].rev
        /\ r.errors = outbox[d].errors /\ r.seen = outbox[d].seen /\ r.gen = outbox[d].gen
        /\ r.key = outbox[d].key /\ r.retries = outbox[d].retries
        /\ r.invalid = outbox[d].invalid
    BY <1>1 DEF Rows
  <1>3. outbox' = [outbox EXCEPT ![d] = r]
    OBVIOUS
  <1> HIDE DEF r
  <1>4. d \in Requests => RowKnows(d)' /\ ~r.invalid
    <2>1. outbox'[d] = r
      BY <1>3, RowTypes
    <2>2. d \in Requests => RowKnows(d) /\ ~outbox[d].invalid
      BY DEF IInv, BInv
    <2> QED  BY <1>2, <2>1, <2>2 DEF RowKnows, serviceVars
  <1>5. Found'
    BY FoundAsBefore
  <1>6. /\ UNCHANGED serviceVars /\ UNCHANGED activation /\ doc.rev <= doc'.rev
        /\ doc' \in [rev : Revisions, archived : SUBSET Revisions,
                     pub : Publications \cup {NotPublished}]
        /\ r.rev \in 1 .. doc'.rev /\ r.state # "NONE"
        /\ d \in Projections => d <= doc'.rev
        /\ r.state \in {"PENDING", "RUNNING"} => r.errors < ErrorLimit
        /\ outbox[d].retries <= r.retries
        /\ \A p \in Publishers : \/ PublisherOK(p)'
                                 \/ publisher'[p] = publisher[p] /\ ~(r.state = "RUNNING" /\ r.lease = p)
    BY <1>1, <1>2 DEF RowOK, IInv, BInv
  <1>7. publisher' \in [Publishers -> PublisherStates]
    OBVIOUS
  <1> QED  BY <1>2, <1>3, <1>4, <1>5, <1>6, <1>7, OneRowChanges

LEMMA LeaseEndsKeeps ==
  ASSUME IInv, NEW d \in Deliveries, LeaseEnds(d)
  PROVE  IInv'
  <1>1. /\ outbox[d].state = "RUNNING" /\ outbox[d] \in Rows
        /\ outbox' = [outbox EXCEPT ![d] = [outbox[d] EXCEPT !.lease = NoPublisher]]
        /\ UNCHANGED <<serviceVars, doc, activation>> /\ publisher' = publisher
    BY RowTypes DEF LeaseEnds
  <1>2. outbox' = [outbox EXCEPT ![d] = [outbox[d] EXCEPT !.state = "RUNNING",
                                                          !.lease = NoPublisher]]
    BY <1>1 DEF Rows
  <1>3. /\ publisher' \in [Publishers -> PublisherStates]
        /\ \A p \in Publishers : publisher'[p] = publisher[p] /\ p # NoPublisher
    BY <1>1, IndexingAssumption DEF IInv, BInv
  <1>4. /\ outbox[d].state \in {"PENDING", "RUNNING"} /\ NoPublisher \in Publishers \cup {NoPublisher}
        /\ \A p \in Publishers : PublisherOK(p)' \/ (publisher'[p] = publisher[p] /\ p # NoPublisher)
    BY <1>1, <1>3
  <1> QED  BY <1>1, <1>2, <1>3, <1>4, RowChangesHands

LEMMA ClaimKeeps ==
  ASSUME IInv, NEW p \in Publishers, NEW d \in Deliveries, Claim(p, d)
  PROVE  IInv'
  <1> DEFINE c == [kind |-> "claimed", row |-> d, ask |-> Ask(d), key |-> outbox[d].key]
             r == [outbox[d] EXCEPT !.state = "RUNNING", !.lease = p]
  <1>1. /\ outbox[d].state \in {"PENDING", "RUNNING"} /\ outbox' = [outbox EXCEPT ![d] = r]
        /\ publisher' = [publisher EXCEPT ![p] = c]
        /\ UNCHANGED <<serviceVars, doc, activation>>
    <2>1. outbox' = [outbox EXCEPT ![d] = r]
      BY DEF Claim
    <2> QED  BY <2>1 DEF Claim, DueRow
  <1>2. /\ outbox[d] \in Rows /\ outbox \in [Deliveries -> Rows]
        /\ publisher \in [Publishers -> PublisherStates]
        /\ d \in Requests => RowKnows(d)
    BY RowTypes DEF IInv, BInv
  <1>3. /\ r.state = "RUNNING" /\ r.retries = outbox[d].retries /\ r.key = outbox[d].key
    BY <1>2 DEF Rows
  <1>4. /\ Ask(d) \in {"project", "ingest", "poll", "retry"}
        /\ Ask(d) = "project" <=> d \in Projections
        /\ Ask(d) \in {"poll", "retry"} => d \in Requests /\ outbox[d].seen # Unseen
        /\ Ask(d) = "retry" => outbox[d].key # 0
    BY RowSorts DEF Ask
  <1>5. c \in PublisherStates
    BY <1>2, <1>4 DEF PublisherStates, Calls, Rows
  <1> HIDE DEF r
  <1>6. PublisherOK(p)'
    <2>1. outbox'[d] = r /\ publisher'[p] = c
      BY <1>1, <1>2
    <2>2. /\ d \in Requests => outbox[d].key <= outbox[d].retries
          /\ d \in Requests /\ outbox[d].seen # Unseen => job[d].state # "NONE"
      BY <1>2 DEF RowKnows
    <2>3. CallOK(publisher[p])'
      BY <1>1, <1>3, <1>4, <2>1, <2>2 DEF CallOK, serviceVars
    <2>4. Fresh(publisher[p])'
      BY <1>3, <2>1 DEF Fresh
    <2> QED  BY <2>3, <2>4 DEF PublisherOK
  <1> HIDE DEF c
  <1>7. /\ publisher' \in [Publishers -> PublisherStates]
        /\ \A i \in Publishers : PublisherOK(i)' \/ (publisher'[i] = publisher[i] /\ i # p)
    <2>1. \A i \in Publishers \ {p} : publisher'[i] = publisher[i]
      BY <1>1, <1>2
    <2>2. publisher' \in [Publishers -> PublisherStates]
      BY <1>1, <1>2, <1>5
    <2>3. ASSUME NEW i \in Publishers
          PROVE  PublisherOK(i)' \/ (publisher'[i] = publisher[i] /\ i # p)
      <3>1. CASE i = p
        BY <1>6, <3>1
      <3>2. CASE i # p
        BY <2>1, <3>2
      <3> QED  BY <3>1, <3>2
    <2> QED  BY <2>2, <2>3
  <1> QED  BY <1>1, <1>7, RowChangesHands DEF r

\* An answer is never refused as a forged one: whoever holds the row heard of
\* an attempt that is no older than the one the row knows.
LEMMA ReceiptsFit ==
  ASSUME IInv, NEW p \in Publishers, publisher[p].kind = "receipt", Holds(p)
  PROVE  Fits(outbox[publisher[p].row], publisher[p])
  <1> DEFINE c == publisher[p]
             row == outbox[c.row]
  <1>1. c # Off /\ c \in PublisherStates
    BY DEF Off, IInv, BInv
  <1>2. CallOK(c) /\ Fresh(c)
    BY <1>1 DEF IInv, BInv, PublisherOK
  <1>3. c.row \in Requests /\ c.row \in Deliveries /\ c.attempt \in {0} \cup Attempts
    BY <1>1, CallTypes
  <1>4. RowKnows(c.row) /\ row.seen \in Nat /\ c.attempt \in Nat
    <2>1. c.attempt \in Nat
      BY <1>3, Numbers
    <2>2. RowKnows(c.row)
      BY <1>3 DEF IInv, BInv
    <2> QED  BY <1>3, <2>1, <2>2, RowTypes
  <1>5. row.seen # Unseen => row.seen <= c.attempt /\ row.gen = GenerationOf(row.seen)
    BY <1>2, <1>4 DEF Fresh, RowKnows
  <1>6. row.seen = Unseen => row.gen = NoGen
    BY <1>4 DEF RowKnows
  <1>7. c.gen = GenerationOf(c.attempt)
    BY <1>2 DEF CallOK
  <1>8. row.gen # NoGen /\ row.gen # c.gen => row.seen # Unseen /\ c.attempt > row.seen
    BY <1>4, <1>5, <1>6, <1>7
  <1> HIDE DEF c, row
  <1>9. Fits(row, c)
    BY <1>4, <1>5, <1>8 DEF Fits
  <1> QED  BY <1>9 DEF c, row

\* What acknowledging an answer writes.
LEMMA AcknowledgedRows ==
  ASSUME IInv, NEW p \in Publishers, Heard(p), Holds(p), NEW d, d = publisher[p].row,
         NEW r, r = Answer(outbox[d], publisher[p])
  PROVE  /\ d \in Deliveries /\ outbox[d].state = "RUNNING"
         /\ r \in Rows /\ r.rev = outbox[d].rev /\ r.retries = outbox[d].retries
         /\ r.invalid = outbox[d].invalid
         /\ r.state \in {"PENDING", "SUCCEEDED", "FAILED"}
         /\ r.state = "PENDING" => r.errors < ErrorLimit
         /\ publisher[p].kind # "receipt" =>
               /\ r.seen = outbox[d].seen /\ r.gen = outbox[d].gen /\ r.key = outbox[d].key
               /\ r.state = "SUCCEEDED" => d \in Projections
         /\ publisher[p].kind = "receipt" =>
               /\ d \in Requests
               /\ r.seen = publisher[p].attempt /\ r.gen = publisher[p].gen /\ r.key = 0
               /\ r.state = "SUCCEEDED" => publisher[p].state = "SUCCEEDED"
  <1> DEFINE c == publisher[p]
             row == outbox[d]
  <1>1. c # Off /\ c \in PublisherStates
    BY DEF Heard, Off, IInv, BInv
  <1>2. /\ CallOK(c) /\ d \in Deliveries
        /\ c.kind \in {"done", "refused", "down", "receipt"}
        /\ c.kind = "receipt" => /\ d \in Requests /\ c.attempt \in {0} \cup Attempts
                                 /\ c.gen \in Attempts
                                 /\ c.state \in {"PENDING", "RUNNING", "SUCCEEDED", "FAILED"}
    BY <1>1, CallTypes DEF IInv, BInv, PublisherOK, Heard
  <1>3. row \in Rows /\ row.state = "RUNNING" /\ RowOK(d) /\ row.errors \in Nat
    BY <1>2, RowTypes DEF IInv, BInv, Holds
  <1>4. row.errors < ErrorLimit
    BY <1>3 DEF RowOK
  <1>5. c.kind = "done" => d \in Projections
    BY <1>2 DEF CallOK
  <1> DEFINE free == [row EXCEPT !.lease = NoPublisher]
  <1> HIDE DEF c, row
  <1>6. /\ free \in Rows /\ free.rev = row.rev /\ free.retries = row.retries
        /\ free.invalid = row.invalid /\ free.seen = row.seen /\ free.gen = row.gen
        /\ free.key = row.key
    BY <1>3 DEF Rows
  <1>7. r = Answer(row, c)
    BY DEF row, c
  <1> HIDE DEF free
  <1>8. CASE c.kind \in {"down", "refused"}
    <2>1. PICK s \in {"PENDING", "FAILED"} :
            /\ r = [free EXCEPT !.errors = row.errors + 1, !.state = s]
            /\ s = "PENDING" => row.errors + 1 < ErrorLimit
      <3>1. CASE c.kind = "refused"
        BY <1>7, <3>1 DEF Answer, free
      <3>2. CASE c.kind = "down" /\ row.errors + 1 >= ErrorLimit
        BY <1>7, <3>2 DEF Answer, free
      <3>3. CASE c.kind = "down" /\ ~(row.errors + 1 >= ErrorLimit)
        <4>1. r = [free EXCEPT !.errors = row.errors + 1, !.state = "PENDING"]
          BY <1>7, <3>3 DEF Answer, free
        <4> QED  BY <1>3, <3>3, <4>1, Numbers
      <3> QED  BY <1>8, <3>1, <3>2, <3>3
    <2>2. row.errors + 1 \in 0 .. ErrorLimit
      BY <1>3, <1>4, Numbers
    <2>3. /\ r \in Rows /\ r.rev = free.rev /\ r.retries = free.retries /\ r.state = s
          /\ r.invalid = free.invalid /\ r.seen = free.seen /\ r.gen = free.gen
          /\ r.key = free.key /\ r.errors = row.errors + 1
      BY <1>6, <2>1, <2>2 DEF Rows
    <2> QED  BY <1>2, <1>3, <1>6, <1>8, <2>1, <2>3 DEF row, c
  <1>9. CASE c.kind = "done"
    <2>1. r = [free EXCEPT !.state = "SUCCEEDED"]
      BY <1>7, <1>9 DEF Answer, free
    <2>2. /\ r \in Rows /\ r.rev = free.rev /\ r.retries = free.retries /\ r.state = "SUCCEEDED"
          /\ r.invalid = free.invalid /\ r.seen = free.seen /\ r.gen = free.gen
          /\ r.key = free.key
      BY <1>6, <2>1 DEF Rows
    <2> QED  BY <1>2, <1>3, <1>5, <1>6, <1>9, <2>2 DEF row, c
  <1>10. CASE c.kind = "receipt"
    <2>1. Fits(row, c)
      BY <1>10, ReceiptsFit DEF row, c
    <2> DEFINE s == IF c.state \in {"SUCCEEDED", "FAILED"} THEN c.state ELSE "PENDING"
    <2>2. r = [free EXCEPT !.seen = c.attempt, !.gen = c.gen, !.key = 0, !.state = s]
      BY <1>7, <1>10, <2>1 DEF Answer, free
    <2>3. /\ s \in {"PENDING", "SUCCEEDED", "FAILED"}
          /\ s = "SUCCEEDED" => c.state = "SUCCEEDED"
      BY <1>2, <1>10
    <2> HIDE DEF s
    <2>4. /\ r \in Rows /\ r.rev = free.rev /\ r.retries = free.retries /\ r.state = s
          /\ r.invalid = free.invalid /\ r.seen = c.attempt /\ r.gen = c.gen
          /\ r.key = 0 /\ r.errors = free.errors
      BY <1>2, <1>6, <1>10, <2>2, <2>3 DEF Rows
    <2>5. free.errors = row.errors
      BY <1>3 DEF free, Rows
    <2> QED  BY <1>2, <1>3, <1>4, <1>6, <1>10, <2>3, <2>4, <2>5 DEF row, c
  <1> QED  BY <1>2, <1>8, <1>9, <1>10

LEMMA LeaveKeeps ==
  ASSUME IInv, NEW p \in Publishers, Leave(p)
  PROVE  IInv'
  <1>1. /\ publisher' = [publisher EXCEPT ![p] = Off] /\ publisher \in [Publishers -> PublisherStates]
        /\ UNCHANGED <<serviceVars, doc, outbox, activation>>
    BY DEF Leave, IInv, BInv
  <1>2. /\ publisher' \in [Publishers -> PublisherStates]
        /\ \A i \in Publishers : publisher'[i] \in {publisher[i], Off}
    BY <1>1 DEF PublisherStates
  <1>3. Found'
    BY <1>1, FoundAsBefore
  <1>4. /\ doc' \in [rev : Revisions, archived : SUBSET Revisions,
                     pub : Publications \cup {NotPublished}]
        /\ activation' \in [proven : {TRUE}, req : Requests, gen : Attempts] \cup {[proven |-> FALSE]}
        /\ doc'.rev = doc.rev /\ UNCHANGED <<serviceVars, outbox>>
    BY <1>1 DEF IInv, BInv
  <1> QED  BY <1>2, <1>3, <1>4, RowsRest

LEMMA ProveReadyKeeps ==
  ASSUME IInv, NEW q \in Requests, ProveReady(q)
  PROVE  IInv'
  <1>1. /\ outbox[q].state = "SUCCEEDED" /\ Receipt(job[q]).gen = outbox[q].gen
        /\ activation' = [proven |-> TRUE, req |-> q, gen |-> outbox[q].gen]
        /\ UNCHANGED <<serviceVars, doc, outbox, publisher>>
    BY DEF ProveReady
  <1>2. outbox[q].gen \in Attempts
    BY <1>1, ServiceRows DEF Receipt, IInv
  <1>3. activation' \in [proven : {TRUE}, req : Requests, gen : Attempts] \cup {[proven |-> FALSE]}
    BY <1>1, <1>2
  <1>4. Found'
    BY <1>1, FoundAsBefore
  <1>5. /\ doc' \in [rev : Revisions, archived : SUBSET Revisions,
                     pub : Publications \cup {NotPublished}]
        /\ doc'.rev = doc.rev /\ UNCHANGED <<serviceVars, outbox>>
        /\ publisher' \in [Publishers -> PublisherStates]
        /\ \A i \in Publishers : publisher'[i] \in {publisher[i], Off}
    BY <1>1 DEF IInv, BInv
  <1> QED  BY <1>3, <1>4, <1>5, RowsRest

LEMMA ActivateKeeps ==
  ASSUME IInv, Activate
  PROVE  IInv'
  <1> DEFINE q == activation.req
  <1>1. /\ activation.proven /\ activation' = [proven |-> FALSE]
        /\ UNCHANGED <<serviceVars, outbox, publisher>>
        /\ \/ doc' = doc
           \/ /\ StillCurrent(outbox[q])
              /\ doc' = [doc EXCEPT !.pub = [published |-> TRUE, req |-> q,
                                             gen |-> activation.gen, rev |-> doc.rev]]
    BY DEF Activate
  <1>2. /\ doc \in [rev : Revisions, archived : SUBSET Revisions,
                    pub : Publications \cup {NotPublished}]
        /\ activation \in [proven : {TRUE}, req : Requests, gen : Attempts] \cup {[proven |-> FALSE]}
        /\ doc.rev \in Nat
    BY Numbers DEF IInv, BInv
  <1>3. q \in Requests /\ activation.gen \in Attempts
    <2>1. activation # [proven |-> FALSE]
      BY <1>1
    <2> QED  BY <1>2, <2>1
  <1>4. /\ doc'.rev = doc.rev
        /\ doc' \in [rev : Revisions, archived : SUBSET Revisions,
                     pub : Publications \cup {NotPublished}]
    <2>1. [published |-> TRUE, req |-> q, gen |-> activation.gen, rev |-> doc.rev] \in Publications
      BY <1>2, <1>3 DEF Publications
    <2> HIDE DEF q
    <2> QED  BY <1>1, <1>2, <2>1
  <1>5. Found'
    <2>1. CASE doc' = doc
      BY <1>1, <2>1, FoundAsBefore
    <2>2. CASE /\ StillCurrent(outbox[q])
               /\ doc' = [doc EXCEPT !.pub = [published |-> TRUE, req |-> q,
                                              gen |-> activation.gen, rev |-> doc.rev]]
      <3>1. /\ outbox[q].state = "SUCCEEDED" /\ outbox[q].gen = activation.gen
            /\ outbox[q].rev = doc.rev
        BY <2>2 DEF StillCurrent
      <3>2. /\ RowKnows(q) /\ JobOK(q) /\ projection <= doc.rev /\ job[q].attempt \in Nat
            /\ gens[q] \in [Attempts -> Generations] /\ projection \in Nat
        BY <1>3, ServiceRows DEF IInv, SInv, BInv
      <3>3. /\ job[q].state = "SUCCEEDED" /\ job[q].rev = doc.rev
            /\ activation.gen = GenerationOf(job[q].attempt) /\ job[q].attempt > 0
        BY <3>1, <3>2 DEF RowKnows, JobOK
      <3>4. activation.gen = job[q].attempt
        BY <3>2, <3>3 DEF GenerationOf, Later
      <3>5. /\ gens[q][activation.gen].state = "READY"
            /\ doc.rev <= gens[q][activation.gen].rev /\ gens[q][activation.gen].rev <= projection
        BY <1>3, <3>2, <3>3, <3>4 DEF JobOK
      <3>6. gens[q][activation.gen] \in Generations /\ gens[q][activation.gen].rev \in Nat
        BY <1>3, <3>2, ServiceRows DEF IInv
      <3>7. projection = doc.rev /\ gens[q][activation.gen].rev = doc.rev
        BY <1>2, <3>2, <3>5, <3>6
      <3>8. gens[q][activation.gen] = [state |-> "READY", rev |-> doc.rev]
        BY <3>5, <3>6, <3>7 DEF Generations
      <3>9. /\ doc'.pub.req = q /\ doc'.pub.gen = activation.gen /\ doc'.rev = doc.rev
            /\ doc'.pub.rev = doc.rev
        BY <1>2, <2>2
      <3> HIDE DEF q
      <3> QED  BY <1>1, <1>2, <3>7, <3>8, <3>9 DEF Found, PublishedIsFound, serviceVars
    <2> QED  BY <1>1, <2>1, <2>2
  <1>6. /\ UNCHANGED <<serviceVars, outbox>>
        /\ activation' \in [proven : {TRUE}, req : Requests, gen : Attempts] \cup {[proven |-> FALSE]}
        /\ publisher' \in [Publishers -> PublisherStates]
        /\ \A i \in Publishers : publisher'[i] \in {publisher[i], Off}
    BY <1>1 DEF IInv, BInv
  <1> QED  BY <1>4, <1>5, <1>6, RowsRest

LEMMA AcknowledgeKeeps ==
  ASSUME IInv, NEW p \in Publishers, Acknowledge(p)
  PROVE  IInv'
  <1>1. PICK d, r : d = publisher[p].row /\ r = Answer(outbox[d], publisher[p])
    OBVIOUS
  <1>2. /\ Heard(p) /\ Holds(p) /\ outbox' = [outbox EXCEPT ![d] = r]
        /\ publisher' = [publisher EXCEPT ![p] = Off]
        /\ UNCHANGED <<serviceVars, doc, activation>>
    BY <1>1 DEF Acknowledge
  <1>3. /\ d \in Deliveries /\ outbox[d].state = "RUNNING"
        /\ r \in Rows /\ r.rev = outbox[d].rev /\ r.retries = outbox[d].retries
        /\ r.invalid = outbox[d].invalid
        /\ r.state \in {"PENDING", "SUCCEEDED", "FAILED"}
        /\ r.state = "PENDING" => r.errors < ErrorLimit
        /\ publisher[p].kind # "receipt" =>
              /\ r.seen = outbox[d].seen /\ r.gen = outbox[d].gen /\ r.key = outbox[d].key
              /\ r.state = "SUCCEEDED" => d \in Projections
        /\ publisher[p].kind = "receipt" =>
              /\ d \in Requests
              /\ r.seen = publisher[p].attempt /\ r.gen = publisher[p].gen /\ r.key = 0
              /\ r.state = "SUCCEEDED" => publisher[p].state = "SUCCEEDED"
    BY <1>1, <1>2, AcknowledgedRows
  <1>4. /\ RowOK(d) /\ outbox[d].retries \in Nat /\ doc.rev \in Nat
        /\ outbox \in [Deliveries -> Rows]
        /\ publisher \in [Publishers -> PublisherStates]
        /\ publisher[p] # Off /\ CallOK(publisher[p])
    <2>1. publisher[p] # Off
      BY <1>2 DEF Heard, Off
    <2>2. CallOK(publisher[p]) /\ publisher \in [Publishers -> PublisherStates]
      BY <2>1 DEF IInv, BInv, PublisherOK
    <2>3. RowOK(d) /\ doc.rev \in Revisions
      BY <1>3 DEF IInv, BInv
    <2> QED  BY <1>3, <2>1, <2>2, <2>3, RowTypes, Numbers
  <1>5. outbox'[d] = r
    BY <1>2, <1>4, <1>3
  <1>6. d \in Requests => RowKnows(d)' /\ ~r.invalid
    <2> SUFFICES ASSUME d \in Requests PROVE RowKnows(d)' /\ ~r.invalid
      OBVIOUS
    <2>1. RowKnows(d) /\ ~outbox[d].invalid /\ d \notin Projections
      BY <1>3, RowSorts DEF IInv, BInv
    <2>2. CASE publisher[p].kind # "receipt"
      BY <1>2, <1>3, <1>5, <2>1, <2>2 DEF RowKnows, serviceVars
    <2>3. CASE publisher[p].kind = "receipt"
      <3>1. /\ job[d].state # "NONE" /\ r.seen <= job[d].attempt
            /\ r.gen = GenerationOf(r.seen)
            /\ r.state = "SUCCEEDED" => job[d].state = "SUCCEEDED" /\ r.seen = job[d].attempt
        BY <1>1, <1>3, <1>4, <2>3 DEF CallOK
      <3>2. r.seen # Unseen
        <4>1. publisher[p].attempt \in {0} \cup Attempts
          BY <1>4, <2>3, CallTypes
        <4> QED  BY <1>3, <2>3, <4>1, Numbers
      <3> QED  BY <1>2, <1>3, <1>4, <1>5, <2>1, <2>3, <3>1, <3>2 DEF RowKnows, serviceVars
    <2> QED  BY <2>2, <2>3
  <1>7. Found'
    BY <1>2, FoundAsBefore
  <1>8. PublisherOK(p)'
    BY <1>2, <1>4 DEF PublisherOK
  <1>9. /\ UNCHANGED serviceVars /\ UNCHANGED activation /\ doc.rev <= doc'.rev
        /\ doc' \in [rev : Revisions, archived : SUBSET Revisions,
                     pub : Publications \cup {NotPublished}]
        /\ r.rev \in 1 .. doc'.rev /\ r.state # "NONE"
        /\ d \in Projections => d <= doc'.rev
        /\ r.state \in {"PENDING", "RUNNING"} => r.errors < ErrorLimit
        /\ outbox[d].retries <= r.retries
        /\ publisher' \in [Publishers -> PublisherStates]
    BY <1>2, <1>3, <1>4 DEF RowOK, IInv, BInv, PublisherStates
  <1>10. \A i \in Publishers : \/ PublisherOK(i)'
                               \/ publisher'[i] = publisher[i] /\ ~(r.state = "RUNNING" /\ r.lease = i)
    BY <1>2, <1>3, <1>4, <1>8
  <1> QED  BY <1>2, <1>3, <1>5, <1>6, <1>7, <1>9, <1>10, OneRowChanges

-----------------------------------------------------------------------------
(* The whole *)

LEMMA InitIInv == Init => IInv
  <1> SUFFICES ASSUME Init PROVE IInv
    OBVIOUS
  <1> USE DEF Init, ServiceInit
  <1>1. SInv
    <2>1. ServiceTypeOK
      BY Numbers DEF ServiceTypeOK, Jobs, NoJob, Generations, NoGeneration
    <2>2. \A q \in Requests : JobOK(q)
      <3>1. \A q \in Requests : /\ job[q].state = "NONE" /\ job[q].attempt = 0
                                /\ \A n \in Attempts : gens[q][n].state = "NONE"
                                /\ \A k \in Keys : answers[q][k] = 0
        BY DEF NoJob, NoGeneration
      <3> HIDE DEF Init, ServiceInit
      <3>2. \A q \in Requests : /\ \A n \in Attempts : gens[q][n].state \notin {"BUILDING", "READY"}
                                /\ \A k \in Keys : answers[q][k] <= job[q].attempt
        <4>1. \A m, n : m = 0 /\ n = 0 => m <= n
          OBVIOUS
        <4> QED  BY <3>1, <4>1
      <3> QED  BY <3>1, <3>2 DEF JobOK
    <2> QED  BY <2>1, <2>2 DEF SInv
  <1>2. BInv
    <2>1. NoRow \in Rows
      <3>1. 0 \in 0 .. ErrorLimit
        BY Numbers
      <3> QED  BY <3>1 DEF NoRow, Rows
    <2>2. 1 \in Revisions
      BY Numbers DEF Revisions
    <2>3. \A d \in Deliveries : outbox[d] = NoRow
      OBVIOUS
    <2>4. \A d \in Deliveries : RowOK(d)
      BY <2>1, <2>3 DEF RowOK, NoRow
    <2>5. \A q \in Requests : RowKnows(q) /\ ~outbox[q].invalid
      <3>1. ASSUME NEW q \in Requests
            PROVE  /\ outbox[q].state = "NONE" /\ outbox[q].seen = Unseen /\ outbox[q].gen = NoGen
                   /\ outbox[q].key = 0 /\ outbox[q].retries = 0 /\ ~outbox[q].invalid
                   /\ job[q].state = "NONE" /\ \A k \in Keys : answers[q][k] = 0
        BY <2>3, RowSorts DEF NoRow, NoJob
      <3> HIDE DEF Init, ServiceInit
      <3>2. \A q \in Requests : outbox[q].key <= outbox[q].retries
        <4>1. \A m, n : m = 0 /\ n = 0 => m <= n
          OBVIOUS
        <4> QED  BY <3>1, <4>1
      <3>3. \A q \in Requests : RowKnows(q)
        BY <3>1, <3>2 DEF RowKnows
      <3> QED  BY <3>1, <3>3
    <2>6. \A p \in Publishers : PublisherOK(p)
      BY DEF PublisherOK
    <2>7. Found
      BY DEF Found, PublishedIsFound, NotPublished
    <2> QED  BY <2>2, <2>3, <2>4, <2>5, <2>6, <2>7 DEF BInv, PublisherStates
  <1> QED  BY <1>1, <1>2 DEF IInv

LEMMA NextIInv == IInv /\ [Next]_vars => IInv'
  <1> SUFFICES ASSUME IInv, [Next]_vars PROVE IInv'
    OBVIOUS
  <1>1. ASSUME NEW q \in Requests, RequestIndex(q) \/ RetryRequest(q) \/ ProveReady(q)
        PROVE  IInv'
    BY <1>1, RequestIndexKeeps, RetryRequestKeeps, ProveReadyKeeps
  <1>2. ASSUME NEW archived \in BOOLEAN, ChangeMetadata(archived)
        PROVE  IInv'
    BY <1>2, ChangeMetadataKeeps
  <1>3. ASSUME NEW p \in Publishers, PublisherStep(p)
        PROVE  IInv'
    BY <1>3, ClaimKeeps, CallKeeps, AcknowledgeKeeps, LeaveKeeps DEF PublisherStep
  <1>4. CASE UNCHANGED vars
    <2>1. UNCHANGED <<serviceVars, doc, outbox, publisher, activation>>
      BY <1>4 DEF vars, indexingVars
    <2>2. Found'
      BY <2>1, FoundAsBefore
    <2>3. /\ doc' \in [rev : Revisions, archived : SUBSET Revisions,
                       pub : Publications \cup {NotPublished}]
          /\ activation' \in [proven : {TRUE}, req : Requests, gen : Attempts] \cup {[proven |-> FALSE]}
          /\ doc'.rev = doc.rev /\ UNCHANGED <<serviceVars, outbox>>
          /\ publisher' \in [Publishers -> PublisherStates]
          /\ \A i \in Publishers : publisher'[i] \in {publisher[i], Off}
      BY <2>1 DEF IInv, BInv
    <2> QED  BY <2>2, <2>3, RowsRest
  <1> QED  BY <1>1, <1>2, <1>3, <1>4, ActivateKeeps, LeaseEndsKeeps, ServiceStepKeeps
           DEF Next, OperatorStep

THEOREM IndexingInvariant == Spec => []IInv
  BY InitIInv, NextIInv, PTL DEF Spec

THEOREM IndexingTypes == Spec => []TypeOK
  <1>1. IInv => TypeOK
    <2> SUFFICES ASSUME IInv PROVE TypeOK
      OBVIOUS
    <2>1. outbox \in [Deliveries -> Rows]
      BY DEF IInv, BInv, RowOK
    <2> QED  BY <2>1 DEF IInv, SInv, BInv, TypeOK, PublisherStates
  <1> QED  BY <1>1, IndexingInvariant, PTL

THEOREM PublicationsAreFound == Spec => []PublishedIsFound
  <1>1. IInv => PublishedIsFound
    BY DEF IInv, BInv, Found
  <1> QED  BY <1>1, IndexingInvariant, PTL

THEOREM ReceiptsAreGenuine == Spec => []NoReceiptIsInvalid
  <1>1. IInv => NoReceiptIsInvalid
    BY DEF IInv, BInv, NoReceiptIsInvalid
  <1> QED  BY <1>1, IndexingInvariant, PTL
=============================================================================
