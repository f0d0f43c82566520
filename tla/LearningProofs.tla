--------------------------- MODULE LearningProofs ----------------------------
(***************************************************************************)
(* Proofs that the properties of Learning hold for any number of events,   *)
(* episodes, concepts, workers and runs, and any bounds.                   *)
(*                                                                         *)
(* None of the properties is inductive.  What they rest on is that all     *)
(* evidence was kept under a consent that its row still names: a batch is  *)
(* of one consent, and what the learner or the owner binds is looked up    *)
(* there.                                                                  *)
(***************************************************************************)
EXTENDS Learning, TLAPS

-----------------------------------------------------------------------------
(* The inductive invariant *)

\* What a skill or an episode rests on was collected.
EvidenceIsKept ==
    /\ \A k \in Skills : rev[k].evidence \subseteq Collected
    /\ \A p \in Episodes : episode[p].events \subseteq Collected

\* A batch holds evidence of the consent it is named by.
BatchesKeepConsent ==
    \A b \in Batches : batch[b].status # "none" =>
       /\ b.evidence \subseteq Collected
       /\ \A e \in b.evidence : outbox[e].ver = b.ver

\* A job exists for a batch that was made, and asks nothing before it runs.
JobsAreOfBatches ==
    \A b \in Batches :
       /\ batch[b].open \/ batch[b].holder # None => batch[b].status # "none"
       /\ batch[b].status \in {"none", "QUEUED"} => batch[b].asks = 0

\* Revisions are counted by their asset.
RevisionsAreCounted ==
    /\ \A k \in Skills : rev[k].status # "none" => k[2] <= latest[k[1]]
    /\ \A c \in Concepts : active[c] <= latest[c]

CancelledIsOver == \A p \in Episodes : episode[p].cancelled => ~episode[p].eligible

LInv ==
    /\ LearningTypeOK
    /\ EvidenceIsKept /\ BatchesKeepConsent /\ JobsAreOfBatches
    /\ RevisionsAreCounted /\ CancelledIsOver /\ ActiveOnConsent

-----------------------------------------------------------------------------
LEMMA Start == Init => LInv
  <1> SUFFICES ASSUME Init PROVE LInv
    OBVIOUS
  <1>1. LearningTypeOK
    BY LearningAssumption
       DEF Init, LearningTypeOK, Modes, Versions, Numbers, EpisodeRows, BatchRows,
           RevRows, RunRows
  <1>2. EvidenceIsKept /\ BatchesKeepConsent /\ JobsAreOfBatches
        /\ RevisionsAreCounted /\ CancelledIsOver
    BY DEF Init, EvidenceIsKept, BatchesKeepConsent, JobsAreOfBatches,
           RevisionsAreCounted, CancelledIsOver
  <1>3. ActiveOnConsent
    BY DEF Init, ActiveOnConsent, IsActive, Skills
  <1> QED  BY <1>1, <1>2, <1>3 DEF LInv

\* Steps that neither collect nor learn: what they switch on is all there is to
\* show of them.
LEMMA SkillsOnly ==
  ASSUME LInv, UNCHANGED <<outbox, episode, batch, work, latest>>,
         mode' \in Modes, version' \in Versions,
         blocked' \in SUBSET (Concepts \cup Events),
         rev' \in [Skills -> RevRows], active' \in [Concepts -> Numbers],
         run' \in [Runs -> RunRows],
         \A k \in Skills : /\ rev'[k].evidence = rev[k].evidence
                           /\ rev'[k].status # "none" => rev[k].status # "none",
         \A c \in Concepts : active'[c] <= latest[c],
         ActiveOnConsent'
  PROVE  LInv'
  <1>1. LearningTypeOK'
    BY DEF LInv, LearningTypeOK
  <1>2. Collected' = Collected
    BY DEF Collected
  <1>3. EvidenceIsKept' /\ BatchesKeepConsent' /\ JobsAreOfBatches'
        /\ RevisionsAreCounted' /\ CancelledIsOver'
    BY <1>2 DEF LInv, EvidenceIsKept, BatchesKeepConsent, JobsAreOfBatches,
                RevisionsAreCounted, CancelledIsOver
  <1> QED  BY <1>1, <1>3 DEF LInv

\* What becomes of a revision when the consent ends.
LEMMA Suspension ==
  ASSUME LearningTypeOK, SuspendScope, NEW k \in Skills
  PROVE  rev'[k] = [status   |-> IF active[k[1]] = k[2] THEN "SUSPENDED" ELSE rev[k].status,
                    evidence |-> rev[k].evidence, report |-> FALSE]
  <1>1. rev[k] \in RevRows
    BY DEF LearningTypeOK
  <1>2. rev'[k] = [rev[k] EXCEPT !.status = IF active[k[1]] = k[2] THEN "SUSPENDED" ELSE @,
                                 !.report = FALSE]
    BY DEF SuspendScope
  <1> QED  BY <1>1, <1>2 DEF RevRows

\* A new consent switches everything off.
LEMMA ConsentKeeps ==
  ASSUME LInv, NewConsent, mode' \in Modes, run' \in [Runs -> RunRows]
  PROVE  LInv'
  <1> USE LearningAssumption
  <1>1. LearningTypeOK /\ SuspendScope
    BY DEF LInv, NewConsent
  <1>2. version' \in Versions
    BY <1>1 DEF LearningTypeOK, NewConsent, Versions
  <1>3. active' = [c \in Concepts |-> 0]
    BY <1>1, Zenon DEF SuspendScope
  <1>4. active' \in [Concepts -> Numbers] /\ \A c \in Concepts : active'[c] <= latest[c]
    BY <1>1, <1>3 DEF LearningTypeOK, Numbers
  <1>5. \A k \in Skills : rev[k] \in RevRows
    BY <1>1 DEF LearningTypeOK
  <1>6. ASSUME NEW k \in Skills
        PROVE  /\ rev'[k] \in RevRows /\ rev'[k].evidence = rev[k].evidence
               /\ rev'[k].status # "none" => rev[k].status # "none"
    <2>1. rev'[k] = [status   |-> IF active[k[1]] = k[2] THEN "SUSPENDED" ELSE rev[k].status,
                     evidence |-> rev[k].evidence, report |-> FALSE]
      BY <1>1, Suspension
    <2>2. active[k[1]] = k[2] => rev[k].status = "ACTIVE"
      BY DEF LInv, ActiveOnConsent, IsActive
    <2> QED  BY <1>5, <2>1, <2>2 DEF RevRows
  <1>7. rev' = [k \in Skills |-> rev'[k]]
    BY <1>1, Zenon DEF SuspendScope
  <1>8. rev' \in [Skills -> RevRows]
    BY <1>6, <1>7
  <1>9. ActiveOnConsent'
    BY <1>3 DEF ActiveOnConsent, IsActive, Skills
  <1>10. /\ UNCHANGED <<outbox, episode, batch, work, latest>>
         /\ blocked' \in SUBSET (Concepts \cup Events)
    BY <1>1 DEF NewConsent, LearningTypeOK
  <1> QED
    BY <1>2, <1>4, <1>6, <1>8, <1>9, <1>10, SkillsOnly

\* Steps of the learning jobs that store nothing.
LEMMA JobsOnly ==
  ASSUME LInv,
         UNCHANGED <<mode, version, blocked, outbox, episode, latest, active, rev, run>>,
         batch' \in [Batches -> BatchRows],
         work' \in [Workers -> [batch : Batches, asked : BOOLEAN] \cup {None}],
         \A b \in Batches : batch'[b].status # "none" => batch[b].status # "none",
         JobsAreOfBatches'
  PROVE  LInv'
  <1>1. LearningTypeOK'
    BY DEF LInv, LearningTypeOK
  <1>2. Collected' = Collected
    BY DEF Collected
  <1>3. EvidenceIsKept' /\ BatchesKeepConsent' /\ RevisionsAreCounted' /\ CancelledIsOver'
    BY <1>2 DEF LInv, EvidenceIsKept, BatchesKeepConsent, RevisionsAreCounted, CancelledIsOver
  <1>4. ActiveOnConsent'
    BY DEF LInv, ActiveOnConsent, IsActive, Consented
  <1> QED  BY <1>1, <1>3, <1>4 DEF LInv

LEMMA ClaimKeeps ==
  ASSUME LInv, NEW w \in Workers, NEW b \in Batches, Claim(w, b)
  PROVE  LInv'
  <1> USE DEF Claim
  <1>1. batch[b] \in BatchRows
    BY DEF LInv, LearningTypeOK
  <1>2. batch'[b] = [status |-> batch[b].status, open |-> batch[b].open,
                     holder |-> w, asks |-> batch[b].asks]
    BY <1>1 DEF LInv, LearningTypeOK, BatchRows
  <1>3. batch'[b] \in BatchRows /\ batch[b].status # "none"
    BY <1>1, <1>2 DEF BatchRows, LInv, JobsAreOfBatches
  <1>4. \A a \in Batches \ {b} : batch'[a] = batch[a]
    BY DEF LInv, LearningTypeOK
  <1>5. batch' \in [Batches -> BatchRows]
    BY <1>3 DEF LInv, LearningTypeOK
  <1>6. work' \in [Workers -> [batch : Batches, asked : BOOLEAN] \cup {None}]
    BY DEF LInv, LearningTypeOK
  <1>7. JobsAreOfBatches'
    BY <1>2, <1>3, <1>4 DEF LInv, JobsAreOfBatches
  <1> QED  BY <1>3, <1>4, <1>5, <1>6, <1>7, JobsOnly

\* A batch that is being asked was not asked before.
LEMMA AskTakesQueued ==
  ASSUME LInv, NEW w \in Workers, Ask(w)
  PROVE  \E b \in Batches :
            /\ MayAsk(b) /\ batch[b].asks = 0 /\ batch[b] \in BatchRows
            /\ work' = [work EXCEPT ![w].asked = TRUE]
            /\ batch'[b] = [status |-> "RUNNING", open |-> batch[b].open,
                            holder |-> batch[b].holder, asks |-> 1]
            /\ batch' = [batch EXCEPT ![b] = batch'[b]]
            /\ work[w].batch = b /\ work[w] \in [batch : Batches, asked : BOOLEAN]
  <1> DEFINE b == work[w].batch
  <1>1. work[w] \in [batch : Batches, asked : BOOLEAN]
    BY DEF LInv, LearningTypeOK, Ask
  <1>2. b \in Batches
    BY <1>1
  <1>3. batch[b] \in BatchRows
    BY <1>2 DEF LInv, LearningTypeOK
  <1>4. MayAsk(b) /\ work' = [work EXCEPT ![w].asked = TRUE]
        /\ batch' = [batch EXCEPT ![b].status = "RUNNING", ![b].asks = @ + 1]
    BY DEF Ask
  <1>5. batch[b].asks = 0
    BY <1>2, <1>4 DEF LInv, JobsAreOfBatches, MayAsk
  <1>6. batch'[b] = [batch[b] EXCEPT !.status = "RUNNING", !.asks = @ + 1]
        /\ batch' = [batch EXCEPT ![b] = batch'[b]]
    BY <1>2, <1>4 DEF LInv, LearningTypeOK
  <1>7. batch'[b] = [status |-> "RUNNING", open |-> batch[b].open,
                     holder |-> batch[b].holder, asks |-> 1]
    <2>1. batch[b].asks + 1 = 1
      BY <1>5
    <2>2. batch'[b] = [batch[b] EXCEPT !.status = "RUNNING", !.asks = 1]
      BY <1>6, <2>1
    <2> HIDE DEF b
    <2> QED  BY <1>3, <2>2 DEF BatchRows
  <1> QED  BY <1>1, <1>2, <1>3, <1>4, <1>5, <1>6, <1>7

LEMMA AskKeeps ==
  ASSUME LInv, NEW w \in Workers, Ask(w)
  PROVE  LInv'
  <1>1. PICK b \in Batches :
            /\ MayAsk(b) /\ batch[b].asks = 0 /\ batch[b] \in BatchRows
            /\ work' = [work EXCEPT ![w].asked = TRUE]
            /\ batch'[b] = [status |-> "RUNNING", open |-> batch[b].open,
                            holder |-> batch[b].holder, asks |-> 1]
            /\ batch' = [batch EXCEPT ![b] = batch'[b]]
            /\ work[w].batch = b /\ work[w] \in [batch : Batches, asked : BOOLEAN]
    BY AskTakesQueued
  <1>2. batch'[b] \in BatchRows
    BY <1>1 DEF BatchRows
  <1>3. \A a \in Batches \ {b} : batch'[a] = batch[a]
    BY <1>1 DEF LInv, LearningTypeOK
  <1>4. batch' \in [Batches -> BatchRows]
    BY <1>1, <1>2 DEF LInv, LearningTypeOK
  <1>5. work' \in [Workers -> [batch : Batches, asked : BOOLEAN] \cup {None}]
    BY <1>1 DEF LInv, LearningTypeOK
  <1>6. JobsAreOfBatches'
    BY <1>1, <1>3 DEF LInv, JobsAreOfBatches
  <1>7. batch[b].status # "none"
    BY <1>1 DEF MayAsk
  <1>8. UNCHANGED <<mode, version, blocked, outbox, episode, latest, active, rev, run>>
    BY DEF Ask
  <1> QED  BY <1>3, <1>4, <1>5, <1>6, <1>7, <1>8, JobsOnly

\* What a worker that holds the lease is at.
LEMMA HeldBatch ==
  ASSUME LInv, NEW w \in Workers, Holds(w)
  PROVE  /\ work[w] \in [batch : Batches, asked : BOOLEAN] /\ work[w].batch \in Batches
         /\ batch[work[w].batch] \in BatchRows /\ batch[work[w].batch].status # "none"
  <1>1. work[w] \in [batch : Batches, asked : BOOLEAN] /\ work[w].batch \in Batches
    BY DEF LInv, LearningTypeOK, Holds
  <1> QED
    BY <1>1, LearningAssumption DEF LInv, LearningTypeOK, Holds, JobsAreOfBatches

\* An attempt that ends leaves the job closed, or open for another.
LEMMA EndKeepsJobs ==
  ASSUME LInv, NEW b \in Batches, batch[b].status # "none",
         NEW st \in {"SUCCEEDED", "FAILED"}, NEW again \in BOOLEAN,
         batch' = Ended(b, st, again)
  PROVE  /\ batch' \in [Batches -> BatchRows] /\ JobsAreOfBatches'
         /\ \A a \in Batches : batch'[a].status # "none" => batch[a].status # "none"
  <1>1. batch[b] \in BatchRows
    BY DEF LInv, LearningTypeOK
  <1>2. batch'[b] = [batch[b] EXCEPT !.status = st, !.open = again, !.holder = None]
        /\ batch' = [batch EXCEPT ![b] = batch'[b]]
    BY DEF LInv, LearningTypeOK, Ended
  <1>3. batch'[b] = [status |-> st, open |-> again, holder |-> None, asks |-> batch[b].asks]
    BY <1>1, <1>2 DEF BatchRows
  <1>4. batch'[b] \in BatchRows
    BY <1>1, <1>3 DEF BatchRows
  <1>5. \A a \in Batches \ {b} : batch'[a] = batch[a]
    BY <1>2 DEF LInv, LearningTypeOK
  <1>6. batch' \in [Batches -> BatchRows]
    BY <1>2, <1>4 DEF LInv, LearningTypeOK
  <1> QED  BY <1>3, <1>5, <1>6 DEF LInv, JobsAreOfBatches

LEMMA FailKeeps ==
  ASSUME LInv, NEW w \in Workers, Fail(w)
  PROVE  LInv'
  <1> DEFINE b == work[w].batch
  <1>1. b \in Batches /\ batch[b].status # "none"
    BY HeldBatch DEF Fail
  <1>2. PICK again \in BOOLEAN : batch' = Ended(b, "FAILED", again)
    BY DEF Fail
  <1>3. /\ batch' \in [Batches -> BatchRows] /\ JobsAreOfBatches'
        /\ \A a \in Batches : batch'[a].status # "none" => batch[a].status # "none"
    BY <1>1, <1>2, EndKeepsJobs
  <1>4. work' \in [Workers -> [batch : Batches, asked : BOOLEAN] \cup {None}]
        /\ UNCHANGED <<mode, version, blocked, outbox, episode, latest, active, rev, run>>
    BY DEF Fail, LInv, LearningTypeOK
  <1> QED  BY <1>3, <1>4, JobsOnly

LEMMA LeaseEndsKeeps ==
  ASSUME LInv, NEW b \in Batches, LeaseEnds(b)
  PROVE  LInv'
  <1>1. PICK again \in BOOLEAN :
           batch' = [batch EXCEPT ![b].holder = None, ![b].open = again]
    BY DEF LeaseEnds
  <1>2. batch[b] \in BatchRows /\ batch[b].status # "none"
    BY DEF LInv, LearningTypeOK, JobsAreOfBatches, LeaseEnds
  <1>3. batch'[b] = [batch[b] EXCEPT !.holder = None, !.open = again]
        /\ batch' = [batch EXCEPT ![b] = batch'[b]]
    BY <1>1 DEF LInv, LearningTypeOK
  <1>4. batch'[b] = [status |-> batch[b].status, open |-> again, holder |-> None,
                     asks |-> batch[b].asks]
    BY <1>2, <1>3 DEF BatchRows
  <1>5. batch'[b] \in BatchRows
    BY <1>2, <1>4 DEF BatchRows
  <1>6. \A a \in Batches \ {b} : batch'[a] = batch[a]
    BY <1>3 DEF LInv, LearningTypeOK
  <1>7. batch' \in [Batches -> BatchRows]
    BY <1>3, <1>5 DEF LInv, LearningTypeOK
  <1>8. JobsAreOfBatches'
    BY <1>2, <1>4, <1>6 DEF LInv, JobsAreOfBatches
  <1>9. work' \in [Workers -> [batch : Batches, asked : BOOLEAN] \cup {None}]
        /\ UNCHANGED <<mode, version, blocked, outbox, episode, latest, active, rev, run>>
    BY DEF LeaseEnds, LInv, LearningTypeOK
  <1> QED  BY <1>2, <1>6, <1>7, <1>8, <1>9, JobsOnly

LEMMA LeaveKeeps ==
  ASSUME LInv, NEW w \in Workers, Leave(w)
  PROVE  LInv'
  <1>1. work' \in [Workers -> [batch : Batches, asked : BOOLEAN] \cup {None}]
    BY DEF Leave, LInv, LearningTypeOK
  <1>2. batch' \in [Batches -> BatchRows] /\ JobsAreOfBatches'
    BY DEF Leave, LInv, LearningTypeOK, JobsAreOfBatches
  <1> QED  BY <1>1, <1>2, JobsOnly DEF Leave

-----------------------------------------------------------------------------
(* What the owner decides, and what runs find no longer valid               *)

\* Nothing is switched on that was not.
LEMMA SwitchingOff ==
  ASSUME LInv, UNCHANGED <<mode, version, outbox, episode, batch, work, latest>>,
         blocked' \in SUBSET (Concepts \cup Events),
         run' \in [Runs -> RunRows],
         rev' = [k \in Skills |-> rev'[k]],
         \A k \in Skills : /\ rev'[k] \in RevRows /\ rev'[k].evidence = rev[k].evidence
                           /\ rev'[k].status # "none" => rev[k].status # "none",
         active' = [c \in Concepts |-> active'[c]],
         \A c \in Concepts : active'[c] \in {0, active[c]},
         \A k \in Skills : IsActive(k)' => rev'[k].status = rev[k].status
  PROVE  LInv'
  <1>1. \A c \in Concepts : /\ active[c] \in Numbers /\ active[c] <= latest[c]
                            /\ latest[c] \in Numbers
    BY DEF LInv, LearningTypeOK, RevisionsAreCounted
  <1>2. \A c \in Concepts : active'[c] \in Numbers /\ active'[c] <= latest[c]
    BY <1>1, LearningAssumption DEF Numbers
  <1>3. active' \in [Concepts -> Numbers] /\ rev' \in [Skills -> RevRows]
    BY <1>2
  <1>4. mode' \in Modes /\ version' \in Versions
    BY DEF LInv, LearningTypeOK
  <1>5. ActiveOnConsent'
    <2> SUFFICES ASSUME NEW k \in Skills, IsActive(k)'
                 PROVE  mode' # "off" /\ rev'[k].status = "ACTIVE" /\ Consented(rev[k].evidence)'
      BY DEF ActiveOnConsent, Consented
    <2>1. k[1] \in Concepts /\ k[2] \in 1 .. MaxRevision
      BY DEF Skills
    <2>2. IsActive(k)
      BY <2>1 DEF IsActive
    <2> QED  BY <2>2 DEF LInv, ActiveOnConsent, Consented
  <1> QED  BY <1>2, <1>3, <1>4, <1>5, SkillsOnly

LEMMA EvaluateKeeps ==
  ASSUME LInv, NEW k \in Skills, NEW b \in BOOLEAN,
         rev' = [rev EXCEPT ![k].report = b], UNCHANGED <<blocked, active>>, Rest
  PROVE  LInv'
  <1> USE DEF Rest
  <1>1. rev[k] \in RevRows
    BY DEF LInv, LearningTypeOK
  <1>2. rev'[k] = [rev[k] EXCEPT !.report = b] /\ rev' = [rev EXCEPT ![k] = rev'[k]]
    BY DEF LInv, LearningTypeOK
  <1>3. rev'[k] = [status |-> rev[k].status, evidence |-> rev[k].evidence, report |-> b]
    BY <1>1, <1>2 DEF RevRows
  <1>4. \A j \in Skills : j # k => rev'[j] = rev[j] /\ rev[j] \in RevRows
    BY <1>2 DEF LInv, LearningTypeOK
  <1>5. rev'[k] \in RevRows
    BY <1>1, <1>3 DEF RevRows
  <1>6. rev' = [j \in Skills |-> rev'[j]]
    BY <1>2 DEF LInv, LearningTypeOK
  <1>7. active' = [c \in Concepts |-> active'[c]]
    BY DEF LInv, LearningTypeOK
  <1>8. /\ blocked' \in SUBSET (Concepts \cup Events) /\ run' \in [Runs -> RunRows]
    BY DEF LInv, LearningTypeOK
  <1> QED  BY <1>3, <1>4, <1>5, <1>6, <1>7, <1>8, SwitchingOff

LEMMA SetAsideKeeps ==
  ASSUME LInv, NEW k \in Skills, Exists(k), NEW st \in {"SHADOW", "SUSPENDED", "ARCHIVED"},
         rev' = [rev EXCEPT ![k].status = st],
         active' = [active EXCEPT ![k[1]] = IF IsActive(k) THEN 0 ELSE @],
         UNCHANGED blocked, Rest
  PROVE  LInv'
  <1> USE DEF Rest
  <1>0. k[1] \in Concepts /\ k[2] \in 1 .. MaxRevision
    BY DEF Skills
  <1>1. rev[k] \in RevRows
    BY DEF LInv, LearningTypeOK
  <1>2. rev'[k] = [rev[k] EXCEPT !.status = st] /\ rev' = [rev EXCEPT ![k] = rev'[k]]
    BY DEF LInv, LearningTypeOK
  <1>3. rev'[k] = [status |-> st, evidence |-> rev[k].evidence, report |-> rev[k].report]
    BY <1>1, <1>2 DEF RevRows
  <1>4. \A j \in Skills : j # k => rev'[j] = rev[j] /\ rev[j] \in RevRows
    BY <1>2 DEF LInv, LearningTypeOK
  <1>5. rev'[k] \in RevRows /\ rev[k].status # "none"
    BY <1>1, <1>3 DEF RevRows, Exists
  <1>6. rev' = [j \in Skills |-> rev'[j]]
    BY <1>2 DEF LInv, LearningTypeOK
  <1>7. active' = [c \in Concepts |-> active'[c]]
        /\ \A c \in Concepts : active'[c] \in {0, active[c]}
    BY DEF LInv, LearningTypeOK
  <1>8. ~IsActive(k)'
    BY <1>0 DEF LInv, LearningTypeOK, IsActive
  <1>9. /\ blocked' \in SUBSET (Concepts \cup Events) /\ run' \in [Runs -> RunRows]
    BY DEF LInv, LearningTypeOK
  <1>10. ASSUME NEW j \in Skills
         PROVE  /\ rev'[j] \in RevRows /\ rev'[j].evidence = rev[j].evidence
                /\ rev'[j].status # "none" => rev[j].status # "none"
                /\ IsActive(j)' => rev'[j].status = rev[j].status
    BY <1>3, <1>4, <1>5, <1>8
  <1> QED  BY <1>6, <1>7, <1>9, <1>10, SwitchingOff

LEMMA ForgottenKeeps ==
  ASSUME LInv, NEW c \in Concepts, Forgotten(c)
  PROVE  LInv'
  <1> USE DEF Rest
  <1>1. \A k \in Skills : rev[k] \in RevRows
    BY DEF LInv, LearningTypeOK
  <1>2. rev' = [k \in Skills |-> rev'[k]]
    BY Zenon DEF Forgotten
  <1>3. ASSUME NEW k \in Skills
        PROVE  /\ rev'[k] \in RevRows /\ rev'[k].evidence = rev[k].evidence
               /\ rev'[k].status # "none" => rev[k].status # "none"
               /\ IsActive(k)' => rev'[k].status = rev[k].status
    <2>1. rev'[k] = IF k[1] = c /\ Exists(k)
                      THEN [rev[k] EXCEPT !.status = "REVOKED"] ELSE rev[k]
      BY DEF Forgotten
    <2>2. rev[k] \in RevRows
      BY <1>1
    <2>3. k[1] = c => ~IsActive(k)'
      BY DEF Forgotten, LInv, LearningTypeOK, IsActive, Skills
    <2> QED  BY <2>1, <2>2, <2>3 DEF RevRows, Exists
  <1>4. /\ active' = [a \in Concepts |-> active'[a]]
        /\ \A a \in Concepts : active'[a] \in {0, active[a]}
    BY DEF Forgotten, LInv, LearningTypeOK
  <1>5. UNION {rev[k].evidence : k \in {j \in Skills : j[1] = c}} \subseteq Events
    BY <1>1 DEF RevRows
  <1>6. /\ blocked' \in SUBSET (Concepts \cup Events) /\ run' \in [Runs -> RunRows]
    BY <1>5 DEF Forgotten, LInv, LearningTypeOK
  <1> QED  BY <1>2, <1>3, <1>4, <1>6, SwitchingOff DEF Forgotten

LEMMA SelectKeeps ==
  ASSUME LInv, NEW r \in Runs, Select(r)
  PROVE  LInv'
  <1> DEFINE actives == {k \in Skills : IsActive(k) /\ mode # "off"}
  <1>1. PICK pinned \in SUBSET actives, bad \in SUBSET actives :
           /\ rev' = [k \in Skills |-> IF k \in bad THEN [rev[k] EXCEPT !.status = "SUSPENDED"]
                                                    ELSE rev[k]]
           /\ active' = [c \in Concepts |-> IF <<c, active[c]>> \in bad THEN 0 ELSE active[c]]
           /\ run' = [run EXCEPT ![r] = [status |-> "open", ver |-> version,
                                         skills |-> pinned, calls |-> {}]]
    BY DEF Select
  <1>2. rev' = [k \in Skills |-> rev'[k]] /\ active' = [c \in Concepts |-> active'[c]]
    BY <1>1, Zenon
  <1>3. \A c \in Concepts : active'[c] \in {0, active[c]}
    BY <1>1
  <1>4. ASSUME NEW k \in Skills
        PROVE  /\ rev'[k] \in RevRows /\ rev'[k].evidence = rev[k].evidence
               /\ rev'[k].status # "none" => rev[k].status # "none"
               /\ IsActive(k)' => rev'[k].status = rev[k].status
    <2>1. rev'[k] = IF k \in bad THEN [rev[k] EXCEPT !.status = "SUSPENDED"] ELSE rev[k]
      BY <1>1
    <2>2. rev[k] \in RevRows
      BY DEF LInv, LearningTypeOK
    <2>3. k \in bad => rev[k].status = "ACTIVE"
      BY DEF LInv, ActiveOnConsent
    <2>4. /\ k[1] \in Concepts /\ k[2] # 0 /\ k = <<k[1], k[2]>>
      BY DEF Skills
    <2>5. k \in bad => active[k[1]] = k[2] /\ <<k[1], active[k[1]]>> \in bad
      BY <2>4 DEF IsActive
    <2>6. k \in bad => ~IsActive(k)'
      BY <1>1, <2>4, <2>5 DEF IsActive
    <2> QED  BY <2>1, <2>2, <2>3, <2>6 DEF RevRows
  <1>5. run' \in [Runs -> RunRows]
    BY <1>1 DEF LInv, LearningTypeOK, RunRows
  <1>6. blocked' \in SUBSET (Concepts \cup Events)
    BY DEF Select, LInv, LearningTypeOK
  <1> QED  BY <1>2, <1>3, <1>4, <1>5, <1>6, SwitchingOff DEF Select

\* Only a skill that binds the consent in force is switched on.
LEMMA ActivateKeeps ==
  ASSUME LInv, NEW k \in Skills, Activate(k)
  PROVE  LInv'
  <1> USE DEF Rest, Activate
  <1>1. k[1] \in Concepts /\ k[2] \in 1 .. MaxRevision
    BY DEF Skills
  <1>2. rev' = [j \in Skills |-> rev'[j]]
    BY Zenon
  <1>3. ASSUME NEW j \in Skills
        PROVE  /\ rev'[j] \in RevRows /\ rev'[j].evidence = rev[j].evidence
               /\ rev'[j].status # "none" => rev[j].status # "none"
               /\ j = k => rev'[j].status = "ACTIVE"
               /\ j[1] # k[1] => rev'[j] = rev[j]
    <2>1. rev'[j] = IF j = k THEN [rev[j] EXCEPT !.status = "ACTIVE"]
                    ELSE IF j[1] = k[1] /\ IsActive(j)
                      THEN [rev[j] EXCEPT !.status = "SUPERSEDED"] ELSE rev[j]
      OBVIOUS
    <2>2. rev[j] \in RevRows
      BY DEF LInv, LearningTypeOK
    <2>3. j = k => rev[j].status # "none"
      BY DEF Open, Exists
    <2>4. IsActive(j) => rev[j].status # "none"
      BY DEF LInv, ActiveOnConsent
    <2> QED  BY <2>1, <2>2, <2>3, <2>4 DEF RevRows
  <1>4. rev' \in [Skills -> RevRows]
    BY <1>2, <1>3
  <1>5. active' \in [Concepts -> Numbers] /\ \A c \in Concepts : active'[c] <= latest[c]
    BY <1>1, LearningAssumption
       DEF LInv, LearningTypeOK, Numbers, RevisionsAreCounted, Open, Exists
  <1>6. ActiveOnConsent'
    <2> SUFFICES ASSUME NEW j \in Skills, IsActive(j)'
                 PROVE  mode # "off" /\ rev'[j].status = "ACTIVE" /\ Consented(rev[j].evidence)
      BY <1>3 DEF ActiveOnConsent, Consented
    <2>1. j[1] \in Concepts /\ j = <<j[1], j[2]>> /\ k = <<k[1], k[2]>>
      BY DEF Skills
    <2>2. CASE j[1] = k[1]
      <3>1. j = k
        BY <1>1, <2>1, <2>2 DEF IsActive, LInv, LearningTypeOK
      <3> QED  BY <1>3, <3>1 DEF Binds
    <2>3. CASE j[1] # k[1]
      <3>1. IsActive(j) /\ rev'[j] = rev[j]
        BY <1>3, <2>1, <2>3 DEF IsActive, LInv, LearningTypeOK
      <3> QED  BY <3>1 DEF LInv, ActiveOnConsent
    <2> QED  BY <2>2, <2>3
  <1>7. /\ mode' \in Modes /\ version' \in Versions /\ run' \in [Runs -> RunRows]
        /\ blocked' \in SUBSET (Concepts \cup Events)
    BY DEF LInv, LearningTypeOK
  <1> QED  BY <1>3, <1>4, <1>5, <1>6, <1>7, SkillsOnly

-----------------------------------------------------------------------------
(* Collecting and learning *)

LEMMA CaptureKeeps ==
  ASSUME LInv, NEW e \in Events, Capture(e)
  PROVE  LInv'
  <1>1. PICK p \in Episodes, kd \in {"ready", "noted", "cancelled"} :
           outbox' = [outbox EXCEPT ![e] = [ver |-> version, episode |-> p,
                                            kind |-> kd, processed |-> FALSE]]
    BY DEF Capture
  <1> DEFINE row == [ver |-> version, episode |-> p, kind |-> kd, processed |-> FALSE]
  <1>2. row \in EventRows
    BY DEF EventRows, LInv, LearningTypeOK
  <1>3. row # None
    BY <1>2, NoRowAssumption
  <1> HIDE DEF row
  <1>4. outbox'[e] = row /\ \A x \in Events \ {e} : outbox'[x] = outbox[x]
    BY <1>1 DEF LInv, LearningTypeOK, row
  <1>5. LearningTypeOK'
    BY <1>1, <1>2 DEF Capture, LInv, LearningTypeOK, row
  <1>6. e \notin Collected /\ Collected \subseteq Events
    BY DEF Capture, Collected
  <1>7. Collected \subseteq Collected' /\ \A x \in Collected : outbox'[x] = outbox[x]
    BY <1>4, <1>6 DEF Collected
  <1>8. EvidenceIsKept'
    BY <1>7 DEF Capture, LInv, EvidenceIsKept
  <1>9. BatchesKeepConsent'
    BY <1>7 DEF Capture, LInv, BatchesKeepConsent
  <1>10. JobsAreOfBatches' /\ RevisionsAreCounted' /\ CancelledIsOver'
    BY DEF Capture, LInv, JobsAreOfBatches, RevisionsAreCounted, CancelledIsOver
  <1>11. ActiveOnConsent'
    BY <1>7 DEF Capture, LInv, EvidenceIsKept, ActiveOnConsent, IsActive, Consented
  <1> QED  BY <1>5, <1>8, <1>9, <1>10, <1>11 DEF LInv

\* What an episode is told was collected, and it stays cancelled.
LEMMA ToldKeeps ==
  ASSUME LInv, NEW p \in Episodes, NEW S \in SUBSET Waiting
  PROVE  /\ Told(p, S) \in EpisodeRows /\ Told(p, S).events \subseteq Collected
         /\ Told(p, S).cancelled => ~Told(p, S).eligible
  <1>1. episode[p] \in EpisodeRows /\ episode[p].events \subseteq Collected
        /\ Collected \subseteq Events
    BY DEF LInv, LearningTypeOK, EvidenceIsKept, Collected
  <1>2. S \subseteq Collected
    BY DEF Waiting
  <1> QED  BY <1>1, <1>2 DEF Told, EpisodeRows

\* A batch is made of what was collected under the consent it is named by.
LEMMA DueKeeps ==
  ASSUME LInv, NEW S \in SUBSET Waiting
  PROVE  LET b == Due([p \in Episodes |-> Told(p, S)])
         IN  /\ b \in Batches /\ b.evidence \subseteq Collected
             /\ \A e \in b.evidence : outbox[e].ver = b.ver
  <1> DEFINE told == [p \in Episodes |-> Told(p, S)]
             E    == UNION {Sources(told, p) : p \in Usable(told)}
  <1>1. \A p \in Usable(told) : Sources(told, p) \subseteq Collected
    BY ToldKeeps DEF Usable, Sources
  <1>2. E \subseteq Collected /\ \A e \in E : outbox[e].ver = version
    BY <1>1 DEF Sources
  <1>3. Due(told) = [ver |-> version, evidence |-> E]
    BY DEF Due
  <1>4. Collected \subseteq Events /\ version \in Versions
    BY DEF Collected, LInv, LearningTypeOK
  <1> HIDE DEF E, told
  <1>5. Due(told) \in Batches /\ Due(told).evidence = E /\ Due(told).ver = version
    BY <1>2, <1>3, <1>4 DEF Batches
  <1> QED  BY <1>2, <1>5 DEF told

LEMMA DrainKeeps ==
  ASSUME LInv, NEW S \in SUBSET Waiting, Drain(S)
  PROVE  LInv'
  <1> DEFINE told == [p \in Episodes |-> Told(p, S)]
             b    == Due(told)
  <1>1. /\ episode' = told
        /\ outbox' = [e \in Events |-> IF e \in S THEN [outbox[e] EXCEPT !.processed = TRUE]
                                                  ELSE outbox[e]]
        /\ rev' = [k \in Skills |-> [rev[k] EXCEPT !.report = @ /\ ~Concerns(k, Retold(S))]]
        /\ UNCHANGED <<mode, version, blocked, work, latest, active, run>>
    BY DEF Drain
  <1>2. \/ UNCHANGED batch
        \/ /\ batch[b].status = "none"
           /\ batch' = [batch EXCEPT ![b].status = "QUEUED", ![b].open = TRUE]
    BY DEF Drain, MayEnqueue
  <1>3. b \in Batches /\ b.evidence \subseteq Collected
        /\ \A e \in b.evidence : outbox[e].ver = b.ver
    BY DueKeeps
  <1>4. episode' \in [Episodes -> EpisodeRows]
        /\ \A p \in Episodes : /\ episode'[p].events \subseteq Collected
                               /\ episode'[p].cancelled => ~episode'[p].eligible
    BY <1>1, ToldKeeps
  <1> HIDE DEF told, b
  <1>5. ASSUME NEW e \in Events
        PROVE  /\ outbox'[e] \in EventRows \cup {None}
               /\ outbox[e] # None => outbox'[e] # None /\ outbox'[e].ver = outbox[e].ver
    <2>1. outbox'[e] = IF e \in S THEN [outbox[e] EXCEPT !.processed = TRUE] ELSE outbox[e]
      BY <1>1
    <2>2. e \in S => outbox[e] \in EventRows
      BY DEF LInv, LearningTypeOK, Waiting, Collected
    <2>3. e \in S => outbox'[e] \in EventRows /\ outbox'[e].ver = outbox[e].ver
      BY <2>1, <2>2 DEF EventRows
    <2> QED  BY <2>1, <2>3, NoRowAssumption DEF LInv, LearningTypeOK
  <1>6. outbox' = [e \in Events |-> outbox'[e]]
    BY <1>1, Zenon
  <1>7. outbox' \in [Events -> EventRows \cup {None}]
    BY <1>5, <1>6
  <1>8. Collected \subseteq Collected' /\ \A e \in Collected : outbox'[e].ver = outbox[e].ver
    BY <1>5 DEF Collected
  <1>9. ASSUME NEW k \in Skills
        PROVE  /\ rev'[k] \in RevRows /\ rev'[k].status = rev[k].status
               /\ rev'[k].evidence = rev[k].evidence
    <2>1. rev'[k] = [rev[k] EXCEPT !.report = @ /\ ~Concerns(k, Retold(S))]
      BY <1>1
    <2>2. rev[k] \in RevRows
      BY DEF LInv, LearningTypeOK
    <2> QED  BY <2>1, <2>2 DEF RevRows
  <1>10. rev' = [k \in Skills |-> rev'[k]]
    BY <1>1, Zenon
  <1>11. rev' \in [Skills -> RevRows]
    BY <1>9, <1>10
  <1>12. /\ batch' \in [Batches -> BatchRows] /\ JobsAreOfBatches'
         /\ \A a \in Batches : a # b => batch'[a] = batch[a]
    <2>1. CASE UNCHANGED batch
      BY <2>1 DEF LInv, LearningTypeOK, JobsAreOfBatches
    <2>2. CASE /\ batch[b].status = "none"
               /\ batch' = [batch EXCEPT ![b].status = "QUEUED", ![b].open = TRUE]
      <3>1. batch[b] \in BatchRows /\ batch[b].asks = 0
        BY <1>3, <2>2 DEF LInv, LearningTypeOK, JobsAreOfBatches
      <3>2. batch'[b] = [batch[b] EXCEPT !.status = "QUEUED", !.open = TRUE]
            /\ batch' = [batch EXCEPT ![b] = batch'[b]]
        BY <1>3, <2>2 DEF LInv, LearningTypeOK
      <3>3. batch'[b] = [status |-> "QUEUED", open |-> TRUE, holder |-> batch[b].holder,
                         asks |-> batch[b].asks]
        BY <3>1, <3>2 DEF BatchRows
      <3>4. batch'[b] \in BatchRows
        BY <3>1, <3>3 DEF BatchRows
      <3>5. \A a \in Batches : a # b => batch'[a] = batch[a]
        BY <3>2 DEF LInv, LearningTypeOK
      <3>6. batch' \in [Batches -> BatchRows]
        BY <3>2, <3>4 DEF LInv, LearningTypeOK
      <3> QED  BY <3>1, <3>3, <3>5, <3>6 DEF LInv, JobsAreOfBatches
    <2> QED  BY <1>2, <2>1, <2>2
  <1>13. LearningTypeOK'
    BY <1>1, <1>4, <1>7, <1>11, <1>12 DEF LInv, LearningTypeOK
  <1>14. EvidenceIsKept'
    BY <1>4, <1>8, <1>9 DEF LInv, EvidenceIsKept
  <1>15. BatchesKeepConsent'
    BY <1>3, <1>8, <1>12 DEF LInv, BatchesKeepConsent
  <1>16. RevisionsAreCounted' /\ CancelledIsOver'
    BY <1>1, <1>4, <1>9 DEF LInv, RevisionsAreCounted, CancelledIsOver
  <1>17. ActiveOnConsent'
    BY <1>1, <1>8, <1>9 DEF LInv, EvidenceIsKept, ActiveOnConsent, IsActive, Consented
  <1> QED  BY <1>12, <1>13, <1>14, <1>15, <1>16, <1>17 DEF LInv

\* A candidate rests on evidence of the consent in force, and takes the number
\* of the latest revision only to repeat it.
LEMMA StoreKeeps ==
  ASSUME LInv, NEW c \in Concepts, NEW S \in SUBSET Collected, NEW i \in 1 .. MaxRevision,
         NEW good \in BOOLEAN, Store(c, S, i, good)
  PROVE  /\ latest' \in [Concepts -> Numbers] /\ rev' \in [Skills -> RevRows]
         /\ \A a \in Concepts : latest[a] <= latest'[a]
         /\ i <= latest'[c]
         /\ \A k \in Skills : k # <<c, i>> => rev'[k] = rev[k]
         /\ rev'[<<c, i>>].evidence = S
         /\ \A k \in Skills : IsActive(k) => rev'[k].status = rev[k].status
         /\ Consented(S) /\ S \cap blocked = {} /\ c \notin blocked
         /\ rev'[<<c, i>>].status \in {"DRAFT", rev[<<c, i>>].status}
  <1> DEFINE n == <<c, i>>
  <1>1. n \in Skills /\ Collected \subseteq Events
    BY DEF Skills, Collected
  <1>2. rev[n] \in RevRows
    BY <1>1 DEF LInv, LearningTypeOK
  <1>3. /\ i = latest[c] \/ i = latest[c] + 1
        /\ latest' = [latest EXCEPT ![c] = i]
        /\ rev' = [rev EXCEPT ![n] = [status   |-> IF i = latest[c] THEN @.status ELSE "DRAFT",
                                      evidence |-> S, report |-> @.report \/ good]]
        /\ Binds(c, S)
    BY DEF Store, Number
  <1>4. rev'[n] = [status   |-> IF i = latest[c] THEN rev[n].status ELSE "DRAFT",
                   evidence |-> S, report |-> rev[n].report \/ good]
    BY <1>1, <1>3 DEF LInv, LearningTypeOK
  <1>5. rev' = [rev EXCEPT ![n] = rev'[n]]
    BY <1>1, <1>3 DEF LInv, LearningTypeOK
  <1>6. rev'[n] \in RevRows
    BY <1>1, <1>2, <1>4 DEF RevRows
  <1> HIDE DEF n
  <1>7. rev' \in [Skills -> RevRows] /\ \A k \in Skills : k # n => rev'[k] = rev[k]
    BY <1>1, <1>5, <1>6 DEF LInv, LearningTypeOK
  <1>8. \A a \in Concepts : latest[a] \in Numbers /\ active[a] \in Numbers
    BY DEF LInv, LearningTypeOK
  <1>9. latest' \in [Concepts -> Numbers] /\ \A a \in Concepts : latest[a] <= latest'[a]
    BY <1>3, <1>8, LearningAssumption DEF LInv, LearningTypeOK, Numbers
  <1>10. latest'[c] = i
    BY <1>3 DEF LInv, LearningTypeOK
  <1>11. IsActive(n) => i = latest[c]
    <2>1. active[c] <= latest[c] /\ latest[c] \in Int /\ active[c] \in Int
      BY <1>8 DEF LInv, RevisionsAreCounted, Numbers
    <2> QED  BY <1>3, <2>1 DEF IsActive, n
  <1>12. \A k \in Skills : IsActive(k) => rev'[k].status = rev[k].status
    BY <1>4, <1>7, <1>11
  <1>13. rev'[n].evidence = S /\ rev'[n].status \in {"DRAFT", rev[n].status}
    BY <1>4
  <1> QED  BY <1>3, <1>7, <1>9, <1>10, <1>12, <1>13 DEF Binds, n

LEMMA ApplyKeeps ==
  ASSUME LInv, NEW w \in Workers, Apply(w)
  PROVE  LInv'
  <1> DEFINE b == work[w].batch
  <1>1. b \in Batches /\ batch[b].status # "none"
    BY HeldBatch DEF Apply
  <1>2. b.evidence \subseteq Collected
    BY <1>1 DEF LInv, BatchesKeepConsent
  <1>3. batch' = Ended(b, "SUCCEEDED", FALSE) /\ mode # "off"
        /\ UNCHANGED <<mode, version, blocked, outbox, episode, active, run>>
    BY DEF Apply
  <1>4. \/ UNCHANGED <<latest, rev>>
        \/ \E c \in Concepts : \E S \in SUBSET b.evidence \ {{}} :
              \E i \in 1 .. MaxRevision : \E good \in BOOLEAN : Store(c, S, i, good)
    BY DEF Apply
  <1>5. /\ batch' \in [Batches -> BatchRows] /\ JobsAreOfBatches'
        /\ \A a \in Batches : batch'[a].status # "none" => batch[a].status # "none"
    BY <1>1, <1>3, EndKeepsJobs
  <1>6. work' \in [Workers -> [batch : Batches, asked : BOOLEAN] \cup {None}]
    BY DEF Apply, LInv, LearningTypeOK
  <1>7. Collected' = Collected /\ \A e \in Events : outbox'[e] = outbox[e]
    BY <1>3 DEF Collected
  <1> HIDE DEF b
  <1>8. BatchesKeepConsent'
    BY <1>3, <1>5, <1>7 DEF LInv, BatchesKeepConsent
  <1>9. CancelledIsOver'
    BY <1>3 DEF LInv, CancelledIsOver
  <1>10. CASE UNCHANGED <<latest, rev>>
    <2>1. LearningTypeOK'
      BY <1>3, <1>5, <1>6, <1>10 DEF LInv, LearningTypeOK
    <2>2. EvidenceIsKept' /\ RevisionsAreCounted'
      BY <1>3, <1>7, <1>10 DEF LInv, EvidenceIsKept, RevisionsAreCounted
    <2>3. ActiveOnConsent'
      BY <1>3, <1>10 DEF LInv, ActiveOnConsent, IsActive, Consented
    <2> QED  BY <1>5, <1>8, <1>9, <2>1, <2>2, <2>3 DEF LInv
  <1>11. ASSUME NEW c \in Concepts, NEW S \in SUBSET b.evidence, NEW i \in 1 .. MaxRevision,
                NEW good \in BOOLEAN, Store(c, S, i, good)
         PROVE  LInv'
    <2>1. S \in SUBSET Collected
      BY <1>2
    <2>2. /\ latest' \in [Concepts -> Numbers] /\ rev' \in [Skills -> RevRows]
          /\ \A a \in Concepts : latest[a] <= latest'[a]
          /\ i <= latest'[c]
          /\ \A k \in Skills : k # <<c, i>> => rev'[k] = rev[k]
          /\ rev'[<<c, i>>].evidence = S
          /\ \A k \in Skills : IsActive(k) => rev'[k].status = rev[k].status
          /\ Consented(S)
      BY <1>11, <2>1, StoreKeeps
    <2>3. LearningTypeOK'
      BY <1>3, <1>5, <1>6, <2>2 DEF LInv, LearningTypeOK
    <2>4. EvidenceIsKept'
      BY <1>3, <1>7, <2>1, <2>2 DEF LInv, EvidenceIsKept
    <2>5. \A a \in Concepts : /\ latest[a] \in Int /\ latest'[a] \in Int /\ active[a] \in Int
                              /\ active[a] <= latest[a] /\ latest[a] <= latest'[a]
      BY <2>2 DEF LInv, LearningTypeOK, Numbers, RevisionsAreCounted
    <2>6. \A k \in Skills : k[1] \in Concepts /\ k[2] \in Int
      BY DEF Skills
    <2>7. \A k \in Skills : rev'[k].status # "none" => k[2] <= latest'[k[1]]
      <3> SUFFICES ASSUME NEW k \in Skills, rev'[k].status # "none"
                   PROVE  k[2] <= latest'[k[1]]
        OBVIOUS
      <3>1. CASE k = <<c, i>>
        BY <2>2, <3>1
      <3>2. CASE k # <<c, i>>
        <4>1. k[2] <= latest[k[1]]
          BY <2>2, <3>2 DEF LInv, RevisionsAreCounted
        <4> QED  BY <2>5, <2>6, <4>1
      <3> QED  BY <3>1, <3>2
    <2>8. RevisionsAreCounted'
      BY <1>3, <2>5, <2>7 DEF RevisionsAreCounted
    <2>9. ActiveOnConsent'
      <3> SUFFICES ASSUME NEW k \in Skills, IsActive(k)
                   PROVE  rev'[k].status = "ACTIVE" /\ Consented(rev'[k].evidence)
        BY <1>3 DEF ActiveOnConsent, IsActive, Consented
      <3> QED  BY <2>2 DEF LInv, ActiveOnConsent
    <2> QED  BY <1>5, <1>8, <1>9, <2>3, <2>4, <2>8, <2>9 DEF LInv
  <1> QED  BY <1>4, <1>10, <1>11

-----------------------------------------------------------------------------
(* Every step *)

LEMMA OwnerKeeps ==
  ASSUME LInv, OwnerStep
  PROVE  LInv'
  <1>1. ASSUME NEW m \in Modes, ChangePolicy(m)
        PROVE  LInv'
    <2>1. mode' \in Modes /\ run' \in [Runs -> RunRows] /\ NewConsent
      BY <1>1 DEF ChangePolicy, LInv, LearningTypeOK
    <2> QED  BY <2>1, ConsentKeeps
  <1>2. CASE EditMemory
    <2>1. mode' \in Modes /\ run' \in [Runs -> RunRows] /\ NewConsent
      BY <1>2 DEF EditMemory, LInv, LearningTypeOK
    <2> QED  BY <2>1, ConsentKeeps
  <1>3. ASSUME NEW k \in Skills, Evaluate(k)
        PROVE  LInv'
    BY <1>3, EvaluateKeeps DEF Evaluate
  <1>4. ASSUME NEW k \in Skills, Activate(k)
        PROVE  LInv'
    BY <1>4, ActivateKeeps
  <1>5. ASSUME NEW k \in Skills, Revoke(k)
        PROVE  LInv'
    BY <1>5, ForgottenKeeps DEF Revoke, Skills
  <1>6. ASSUME NEW k \in Skills, Drifts(k)
        PROVE  LInv'
    <2>1. Exists(k)
      BY <1>6 DEF Drifts, Exists, LInv, ActiveOnConsent
    <2>2. active' = [active EXCEPT ![k[1]] = IF IsActive(k) THEN 0 ELSE @]
      BY <1>6 DEF Drifts
    <2> QED  BY <1>6, <2>1, <2>2, SetAsideKeeps DEF Drifts
  <1>7. ASSUME NEW k \in Skills, NEW st \in {"SHADOW", "SUSPENDED", "ARCHIVED"},
               SetAside(k, st)
        PROVE  LInv'
    BY <1>7, SetAsideKeeps DEF SetAside, Open
  <1>8. ASSUME NEW c \in Concepts, Forget(c)
        PROVE  LInv'
    BY <1>8, ForgottenKeeps DEF Forget
  <1> QED  BY <1>1, <1>2, <1>3, <1>4, <1>5, <1>6, <1>7, <1>8 DEF OwnerStep

LEMMA RunKeeps ==
  ASSUME LInv, NEW r \in Runs, RunStep(r)
  PROVE  LInv'
  <1>1. CASE Select(r)
    BY <1>1, SelectKeeps
  <1>2. CASE EditInRun(r)
    <2>1. run' = [run EXCEPT ![r].ver = version + 1, ![r].skills = {}, ![r].calls = {}]
          /\ version' = version + 1 /\ NewConsent /\ mode' = mode
      BY <1>2 DEF EditInRun, NewConsent
    <2>2. version + 1 \in Versions
      BY <2>1, LearningAssumption DEF LInv, LearningTypeOK, NewConsent, Versions
    <2>3. run' = [run EXCEPT ![r] = [run[r] EXCEPT !.ver = version + 1,
                                                   !.skills = {}, !.calls = {}]]
          /\ run[r] \in RunRows
      BY <2>1 DEF LInv, LearningTypeOK
    <2>4. [run[r] EXCEPT !.ver = version + 1, !.skills = {}, !.calls = {}] \in RunRows
      BY <2>2, <2>3 DEF RunRows
    <2>5. run' \in [Runs -> RunRows] /\ mode' \in Modes
      BY <2>1, <2>3, <2>4 DEF LInv, LearningTypeOK
    <2> QED  BY <2>1, <2>5, ConsentKeeps
  <1>3. ASSUME UNCHANGED <<mode, version, blocked, outbox, episode, batch, work, latest,
                           active, rev>>,
               NEW row \in RunRows, run' = [run EXCEPT ![r] = row]
        PROVE  LInv'
    <2>1. run' \in [Runs -> RunRows]
      BY <1>3 DEF LInv, LearningTypeOK
    <2>2. \A c \in Concepts : active'[c] <= latest[c]
      BY <1>3 DEF LInv, RevisionsAreCounted
    <2>3. ActiveOnConsent'
      BY <1>3 DEF LInv, ActiveOnConsent, IsActive, Consented
    <2>4. /\ mode' \in Modes /\ version' \in Versions
          /\ blocked' \in SUBSET (Concepts \cup Events)
          /\ rev' \in [Skills -> RevRows] /\ active' \in [Concepts -> Numbers]
      BY <1>3 DEF LInv, LearningTypeOK
    <2> QED  BY <1>3, <2>1, <2>2, <2>3, <2>4, SkillsOnly
  <1>4. ASSUME NEW path \in {"core", "documents"}, Called(r, path)
        PROVE  LInv'
    <2>1. /\ run' = [run EXCEPT ![r] = [run[r] EXCEPT !.calls = @ \cup {path}]]
          /\ run[r] \in RunRows
      BY <1>4 DEF Called, LInv, LearningTypeOK
    <2>2. [run[r] EXCEPT !.calls = @ \cup {path}] \in RunRows
      BY <2>1 DEF RunRows
    <2> QED  BY <1>3, <1>4, <2>1, <2>2 DEF Called
  <1>5. CASE Answer(r) \/ RunFails(r)
    <2>1. Over("answered") \in RunRows /\ Over("failed") \in RunRows
      BY LearningAssumption DEF Over, RunRows, Versions
    <2> QED  BY <1>3, <1>5, <2>1 DEF Answer, RunFails
  <1> QED  BY <1>1, <1>2, <1>4, <1>5 DEF RunStep, Tool, SearchDocuments

LEMMA StepKeeps ==
  ASSUME LInv, Next
  PROVE  LInv'
  <1>1. ASSUME NEW e \in Events, Capture(e)
        PROVE  LInv'
    BY <1>1, CaptureKeeps
  <1>2. CASE OwnerStep
    BY <1>2, OwnerKeeps
  <1>3. CASE LearnerStep
    <2>1. ASSUME NEW S \in SUBSET Waiting, Drain(S)
          PROVE  LInv'
      BY <2>1, DrainKeeps
    <2>2. ASSUME NEW w \in Workers, Ask(w) \/ Apply(w) \/ Fail(w) \/ Leave(w)
          PROVE  LInv'
      BY <2>2, AskKeeps, ApplyKeeps, FailKeeps, LeaveKeeps
    <2>3. ASSUME NEW w \in Workers, NEW b \in Batches, Claim(w, b)
          PROVE  LInv'
      BY <2>3, ClaimKeeps
    <2>4. ASSUME NEW b \in Batches, LeaseEnds(b)
          PROVE  LInv'
      BY <2>4, LeaseEndsKeeps
    <2> QED  BY <1>3, <2>1, <2>2, <2>3, <2>4 DEF LearnerStep
  <1>4. ASSUME NEW r \in Runs, RunStep(r)
        PROVE  LInv'
    BY <1>4, RunKeeps
  <1>5. ASSUME NEW k \in Skills, ReportLapses(k)
        PROVE  LInv'
    BY <1>5, EvaluateKeeps DEF ReportLapses
  <1> QED  BY <1>1, <1>2, <1>3, <1>4, <1>5 DEF Next

\* Every state of learning satisfies the invariant.
THEOREM LearningInvariant == Spec => []LInv
  <1>1. LInv /\ UNCHANGED vars => LInv'
    <2> SUFFICES ASSUME LInv, UNCHANGED vars PROVE LInv'
      OBVIOUS
    <2> QED
      BY DEF vars, LInv, LearningTypeOK, EvidenceIsKept, BatchesKeepConsent,
             JobsAreOfBatches, RevisionsAreCounted, CancelledIsOver, ActiveOnConsent,
             Collected, IsActive, Consented
  <1> QED  BY Start, StepKeeps, <1>1, PTL DEF Spec

\* The state of learning keeps its types.
THEOREM LearningTypes == Spec => []LearningTypeOK
  <1>1. LInv => LearningTypeOK
    BY DEF LInv
  <1> QED  BY LearningInvariant, <1>1, PTL

\* A skill is only switched on while the consent is in force under which all
\* its evidence was collected (lifecycle.py suspend_scope, binding): a change of
\* the consent switches all skills off, and what is switched on or learned
\* after it is bound again.
THEOREM ActiveSkillsAreConsented == Spec => []ActiveOnConsent
  <1>1. LInv => ActiveOnConsent
    BY DEF LInv
  <1> QED  BY LearningInvariant, <1>1, PTL

-----------------------------------------------------------------------------
(* What a step may never do *)

\* Evidence that was kept and is checked now may be used now.
LEMMA CheckedIsAllowed ==
  ASSUME LInv, NEW S \in SUBSET Collected, Consented(S), Eligible(S), S \cap blocked = {}
  PROVE  Allowed(S)
  <1> SUFFICES ASSUME NEW e \in S PROVE ~episode[outbox[e].episode].cancelled
    BY DEF Allowed
  <1>1. outbox[e] \in EventRows
    BY DEF LInv, LearningTypeOK, Collected
  <1>2. outbox[e].episode \in Episodes
    BY <1>1 DEF EventRows
  <1> QED  BY <1>2 DEF LInv, CancelledIsOver, Eligible

\* Nothing but the call of the model counts as one.
LEMMA AsksAreCounted ==
  ASSUME LInv, Next, \A w \in Workers : ~Ask(w), NEW b \in Batches
  PROVE  batch'[b].asks = batch[b].asks
  <1> USE DEF LInv, LearningTypeOK
  <1>0. batch[b] \in BatchRows
    OBVIOUS
  <1>1. ASSUME UNCHANGED batch PROVE batch'[b].asks = batch[b].asks
    BY <1>1
  <1>2. ASSUME NEW a \in Batches, NEW w \in Workers, Claim(w, a)
        PROVE  batch'[b].asks = batch[b].asks
    BY <1>0, <1>2 DEF Claim, BatchRows
  <1>3. ASSUME NEW a \in Batches, NEW st \in {"SUCCEEDED", "FAILED"}, NEW again \in BOOLEAN,
               batch' = Ended(a, st, again)
        PROVE  batch'[b].asks = batch[b].asks
    BY <1>0, <1>3 DEF Ended, BatchRows
  <1>4. ASSUME NEW a \in Batches, LeaseEnds(a)
        PROVE  batch'[b].asks = batch[b].asks
    BY <1>0, <1>4 DEF LeaseEnds, BatchRows
  <1>5. ASSUME NEW S \in SUBSET Waiting, Drain(S)
        PROVE  batch'[b].asks = batch[b].asks
    <2> DEFINE a == Due([p \in Episodes |-> Told(p, S)])
    <2>1. \/ UNCHANGED batch
          \/ batch' = [batch EXCEPT ![a].status = "QUEUED", ![a].open = TRUE]
      BY <1>5 DEF Drain
    <2> HIDE DEF a
    <2> QED  BY <1>0, <2>1 DEF BatchRows
  <1>6. ASSUME NEW w \in Workers, Apply(w) \/ Fail(w)
        PROVE  batch'[b].asks = batch[b].asks
    <2>1. work[w].batch \in Batches
      BY <1>6, HeldBatch DEF Apply, Fail
    <2> QED  BY <1>3, <1>6, <2>1 DEF Apply, Fail
  <1>7. CASE LearnerStep
    BY <1>1, <1>2, <1>4, <1>5, <1>6, <1>7 DEF LearnerStep, Leave
  <1>8. CASE OwnerStep
    <2>1. UNCHANGED batch
      BY <1>8 DEF OwnerStep, ChangePolicy, EditMemory, NewConsent, Evaluate, Activate,
                  Revoke, Forget, Forgotten, Drifts, SetAside, Rest
    <2> QED  BY <2>1
  <1>9. ASSUME NEW r \in Runs, RunStep(r) PROVE batch'[b].asks = batch[b].asks
    <2>1. UNCHANGED batch
      BY <1>9 DEF RunStep, Select, Tool, SearchDocuments, Called, EditInRun, NewConsent,
                 Answer, RunFails
    <2> QED  BY <2>1
  <1> QED  BY <1>1, <1>7, <1>8, <1>9 DEF Next, Capture, ReportLapses, Rest

\* A batch is given to the model at most once, whatever becomes of its attempts,
\* and only with evidence that may be used at that moment (jobs.py run): only a
\* QUEUED batch is asked about, and none was asked about before.
THEOREM AskedOnce == Spec => ModelAskedOnce
  <1>1. ASSUME LInv, [Next]_vars, NEW b \in Batches, batch'[b].asks # batch[b].asks
        PROVE  batch[b].asks = 0 /\ mode # "off" /\ Allowed(b.evidence)
    <2>1. PICK w \in Workers : Ask(w)
      BY <1>1, AsksAreCounted DEF vars
    <2>2. PICK a \in Batches :
             /\ MayAsk(a) /\ batch[a].asks = 0
             /\ batch' = [batch EXCEPT ![a] = batch'[a]]
      BY <1>1, <2>1, AskTakesQueued
    <2>3. a = b
      BY <1>1, <2>2 DEF LInv, LearningTypeOK
    <2>4. MayAsk(b) /\ batch[b].asks = 0 /\ batch[b].status # "none"
      BY <2>2, <2>3 DEF MayAsk
    <2>5. b.evidence \in SUBSET Collected /\ Consented(b.evidence)
      BY <1>1, <2>4 DEF MayAsk, LInv, BatchesKeepConsent, Consented
    <2>6. Allowed(b.evidence)
      BY <1>1, <2>4, <2>5, CheckedIsAllowed DEF MayAsk
    <2> QED  BY <2>4, <2>6 DEF MayAsk
  <1>2. LInv /\ [Next]_vars
          => [\A b \in Batches : batch'[b].asks # batch[b].asks
                => batch[b].asks = 0 /\ mode # "off" /\ Allowed(b.evidence)]_vars
    BY <1>1
  <1> QED  BY LearningInvariant, <1>2, PTL DEF Spec, ModelAskedOnce

\* Time goes one way: consents are numbered upwards, and what is forgotten or
\* called off stays so.
LEMMA WithdrawnStaysSo ==
  ASSUME LInv, Next
  PROVE  /\ version <= version' /\ (mode' # mode => version < version')
         /\ blocked \subseteq blocked'
         /\ \A p \in Episodes : episode[p].cancelled => episode'[p].cancelled
         /\ \A e \in Collected : /\ outbox'[e].ver = outbox[e].ver
                                 /\ outbox'[e].episode = outbox[e].episode
         /\ \A e \in Collected' \ Collected : outbox'[e].ver = version /\ version' = version
  <1> DEFINE Goal ==
         /\ version <= version' /\ (mode' # mode => version < version')
         /\ blocked \subseteq blocked'
         /\ \A p \in Episodes : episode[p].cancelled => episode'[p].cancelled
         /\ \A e \in Collected : /\ outbox'[e].ver = outbox[e].ver
                                 /\ outbox'[e].episode = outbox[e].episode
         /\ \A e \in Collected' \ Collected : outbox'[e].ver = version /\ version' = version
  <1>0. version \in Int
    BY LearningAssumption DEF LInv, LearningTypeOK, Versions
  <1>1. ASSUME UNCHANGED <<outbox, episode>>, blocked \subseteq blocked',
               \/ UNCHANGED <<mode, version>> \/ version' = version + 1
        PROVE  Goal
    <2>1. Collected' = Collected
      BY <1>1 DEF Collected
    <2> QED  BY <1>0, <1>1, <2>1
  <1>2. ASSUME NEW e \in Events, Capture(e)
        PROVE  Goal
    <2>1. PICK p \in Episodes, kd \in {"ready", "noted", "cancelled"} :
             outbox' = [outbox EXCEPT ![e] = [ver |-> version, episode |-> p,
                                              kind |-> kd, processed |-> FALSE]]
      BY <1>2 DEF Capture
    <2> DEFINE row == [ver |-> version, episode |-> p, kind |-> kd, processed |-> FALSE]
    <2>2. \A d \in Events : d # e => outbox'[d] = outbox[d]
      BY <2>1 DEF LInv, LearningTypeOK
    <2>3. outbox'[e] = row /\ Collected' \subseteq Events /\ Collected \subseteq Events
      BY <2>1 DEF LInv, LearningTypeOK, Collected
    <2>4. \A d \in Collected : d # e
      BY <1>2 DEF Capture, Collected
    <2>5. \A d \in Collected' \ Collected : d = e
      BY <2>2, <2>3 DEF Collected
    <2> QED  BY <1>0, <1>2, <2>1, <2>2, <2>3, <2>4, <2>5 DEF Capture
  <1>3. ASSUME NEW S \in SUBSET Waiting, Drain(S)
        PROVE  Goal
    <2>1. /\ episode' = [p \in Episodes |-> Told(p, S)]
          /\ outbox' = [e \in Events |-> IF e \in S THEN [outbox[e] EXCEPT !.processed = TRUE]
                                                    ELSE outbox[e]]
          /\ UNCHANGED <<mode, version, blocked>>
      BY <1>3 DEF Drain
    <2>2. ASSUME NEW p \in Episodes, episode[p].cancelled PROVE episode'[p].cancelled
      BY <2>1, <2>2 DEF Told
    <2>3. S \subseteq Collected
      BY DEF Waiting
    <2>4. \A e \in Collected : e \in Events /\ outbox[e] \in EventRows
      BY DEF Collected, LInv, LearningTypeOK
    <2>5. \A e \in Collected : /\ outbox'[e].ver = outbox[e].ver
                               /\ outbox'[e].episode = outbox[e].episode
      BY <2>1, <2>4 DEF EventRows
    <2>6. Collected' \subseteq Collected
      <3> SUFFICES ASSUME NEW e \in Collected' PROVE e \in Collected
        OBVIOUS
      <3> QED  BY <2>1, <2>3 DEF Collected
    <2> QED  BY <1>0, <2>1, <2>2, <2>5, <2>6
  <1>4. CASE OwnerStep
    BY <1>1, <1>4 DEF OwnerStep, ChangePolicy, EditMemory, NewConsent, Evaluate, Activate,
                      Revoke, Forget, Forgotten, Drifts, SetAside, Rest
  <1>5. ASSUME NEW r \in Runs, RunStep(r)
        PROVE  Goal
    BY <1>1, <1>5 DEF RunStep, Select, Tool, SearchDocuments, Called, EditInRun, NewConsent,
                      Answer, RunFails
  <1>6. CASE LearnerStep
    BY <1>1, <1>3, <1>6 DEF LearnerStep, Ask, Apply, Fail, Leave, Claim, LeaseEnds
  <1> QED  BY <1>1, <1>2, <1>4, <1>5, <1>6 DEF Next, ReportLapses, Rest

\* A revision that goes on existing, with the evidence it has, and a revoked one
\* is never brought back.
LEMMA RevisionsStay ==
  ASSUME LInv, Next, NEW k \in Skills, Exists(k)
  PROVE  /\ rev'[k].evidence = rev[k].evidence /\ rev'[k].status # "none"
         /\ rev[k].status = "REVOKED" => rev'[k].status = "REVOKED"
  <1> DEFINE Goal == /\ rev'[k].evidence = rev[k].evidence /\ rev'[k].status # "none"
                     /\ rev[k].status = "REVOKED" => rev'[k].status = "REVOKED"
  <1> USE DEF Exists
  <1>0. rev[k] \in RevRows /\ rev \in [Skills -> RevRows]
    BY DEF LInv, LearningTypeOK
  <1>a. \A j \in Skills : IsActive(j) => rev[j].status = "ACTIVE"
    BY DEF LInv, ActiveOnConsent
  <1>1. ASSUME UNCHANGED rev PROVE Goal
    BY <1>1
  <1>2. ASSUME NEW j \in Skills, Evaluate(j) \/ ReportLapses(j) \/ Drifts(j)
        PROVE  Goal
    BY <1>0, <1>a, <1>2 DEF Evaluate, ReportLapses, Drifts, RevRows
  <1>3. ASSUME NEW j \in Skills, Activate(j)
        PROVE  Goal
    <2>1. rev'[k] = IF k = j THEN [rev[k] EXCEPT !.status = "ACTIVE"]
                    ELSE IF k[1] = j[1] /\ IsActive(k)
                      THEN [rev[k] EXCEPT !.status = "SUPERSEDED"] ELSE rev[k]
      BY <1>3 DEF Activate
    <2> QED  BY <1>0, <1>a, <1>3, <2>1 DEF Activate, Open, RevRows
  <1>4. ASSUME NEW j \in Skills, NEW st \in {"SHADOW", "SUSPENDED", "ARCHIVED"}, SetAside(j, st)
        PROVE  Goal
    BY <1>0, <1>4 DEF SetAside, Open, RevRows
  <1>5. ASSUME NEW c \in Concepts, Forgotten(c)
        PROVE  Goal
    BY <1>0, <1>5 DEF Forgotten, RevRows
  <1>6. ASSUME NewConsent
        PROVE  Goal
    <2>1. LearningTypeOK /\ SuspendScope
      BY <1>6 DEF NewConsent, LInv
    <2>2. rev'[k] = [status   |-> IF active[k[1]] = k[2] THEN "SUSPENDED" ELSE rev[k].status,
                     evidence |-> rev[k].evidence, report |-> FALSE]
      BY <2>1, Suspension
    <2> QED  BY <1>a, <2>2 DEF IsActive
  <1>7. ASSUME NEW r \in Runs, Select(r)
        PROVE  Goal
    <2>1. PICK bad \in SUBSET {j \in Skills : IsActive(j) /\ mode # "off"} :
             rev' = [j \in Skills |-> IF j \in bad THEN [rev[j] EXCEPT !.status = "SUSPENDED"]
                                                   ELSE rev[j]]
      BY <1>7 DEF Select
    <2>2. rev'[k] = IF k \in bad THEN [rev[k] EXCEPT !.status = "SUSPENDED"] ELSE rev[k]
      BY <2>1
    <2> QED  BY <1>0, <1>a, <2>2 DEF RevRows
  <1>8. ASSUME NEW S \in SUBSET Waiting, Drain(S)
        PROVE  Goal
    <2>1. rev'[k] = [rev[k] EXCEPT !.report = @ /\ ~Concerns(k, Retold(S))]
      BY <1>8 DEF Drain
    <2> QED  BY <1>0, <2>1 DEF RevRows
  <1>9. ASSUME NEW w \in Workers, Apply(w)
        PROVE  Goal
    <2> DEFINE b == work[w].batch
    <2>1. ASSUME NEW c \in Concepts, NEW S \in SUBSET b.evidence, NEW i \in 1 .. MaxRevision,
                 NEW good \in BOOLEAN, Store(c, S, i, good)
          PROVE  Goal
      <3>1. k # <<c, i>> => rev'[k] = rev[k]
        BY <1>0, <2>1 DEF Store
      <3>2. CASE k = <<c, i>>
        <4>1. rev[k].status # "none" => i <= latest[c]
          BY <3>2 DEF LInv, RevisionsAreCounted
        <4>2. latest[c] \in Int
          BY LearningAssumption DEF LInv, LearningTypeOK, Numbers
        <4>3. i = latest[c] /\ rev[k].evidence = S
          BY <2>1, <3>2, <4>1, <4>2 DEF Store, Number
        <4>4. rev'[k] = [status   |-> IF i = latest[c] THEN rev[k].status ELSE "DRAFT",
                         evidence |-> S, report |-> rev[k].report \/ good]
          BY <1>0, <2>1, <3>2 DEF Store
        <4> QED  BY <4>3, <4>4
      <3> QED  BY <1>1, <3>1, <3>2
    <2> QED  BY <1>1, <1>9, <2>1 DEF Apply
  <1>10. CASE OwnerStep
    <2>1. ASSUME NEW j \in Skills, Revoke(j) PROVE Goal
      BY <1>5, <2>1 DEF Revoke, Skills
    <2>2. ASSUME NEW j \in Skills, NEW st \in {"SHADOW", "SUSPENDED", "ARCHIVED"},
                 SetAside(j, st)
          PROVE  Goal
      BY <1>4, <2>2
    <2> QED  BY <1>2, <1>3, <1>5, <1>6, <1>10, <2>1, <2>2
             DEF OwnerStep, ChangePolicy, EditMemory, Forget
  <1>11. CASE LearnerStep
    BY <1>1, <1>8, <1>9, <1>11 DEF LearnerStep, Ask, Fail, Leave, Claim, LeaseEnds
  <1>12. ASSUME NEW r \in Runs, RunStep(r)
         PROVE  Goal
    BY <1>1, <1>6, <1>7, <1>12 DEF RunStep, Tool, SearchDocuments, Called, EditInRun,
                                   Answer, RunFails
  <1>13. ASSUME NEW e \in Events, Capture(e) PROVE Goal
    BY <1>1, <1>13 DEF Capture
  <1> QED  BY <1>2, <1>10, <1>11, <1>12, <1>13 DEF Next

\* What a step does to a run.
LEMMA RunsMove ==
  ASSUME LInv, Next, NEW r \in Runs
  PROVE  \/ run'[r].ver = run[r].ver /\ run'[r].skills = run[r].skills
            /\ run'[r].status = run[r].status
            /\ ("core" \in NewCalls(r) => Validated(r))
         \/ run'[r] = Over("failed")
         \/ run'[r] = Over("answered") /\ Validated(r)
         \/ /\ run[r].status = "none" /\ run'[r].calls = {}
            /\ run'[r].ver = version /\ version' = version /\ run'[r].status = "open"
            /\ \A k \in run'[r].skills : k \in Skills /\ Exists(k)
         \/ /\ Validated(r)
            /\ run'[r].ver = version' /\ run'[r].skills = {} /\ run'[r].calls = {}
            /\ run'[r].status = "open"
  <1> DEFINE Goal ==
         \/ run'[r].ver = run[r].ver /\ run'[r].skills = run[r].skills
            /\ run'[r].status = run[r].status
            /\ ("core" \in NewCalls(r) => Validated(r))
         \/ run'[r] = Over("failed")
         \/ run'[r] = Over("answered") /\ Validated(r)
         \/ /\ run[r].status = "none" /\ run'[r].calls = {}
            /\ run'[r].ver = version /\ version' = version /\ run'[r].status = "open"
            /\ \A k \in run'[r].skills : k \in Skills /\ Exists(k)
         \/ /\ Validated(r)
            /\ run'[r].ver = version' /\ run'[r].skills = {} /\ run'[r].calls = {}
            /\ run'[r].status = "open"
  <1>0. run[r] \in RunRows /\ run \in [Runs -> RunRows]
    BY DEF LInv, LearningTypeOK
  <1>1. ASSUME run'[r] = run[r] PROVE Goal
    BY <1>1 DEF NewCalls
  <1>2. ASSUME NEW q \in Runs, RunStep(q)
        PROVE  Goal
    <2>1. CASE q # r
      <3>1. run' = [run EXCEPT ![q] = run'[q]]
        BY <1>0, <1>2 DEF RunStep, Select, Tool, SearchDocuments, Called, EditInRun,
                          Answer, RunFails
      <3> QED  BY <1>0, <1>1, <2>1, <3>1
    <2>2. CASE q = r /\ (Tool(r) \/ SearchDocuments(r))
      <3>1. PICK path \in {"core", "documents"} :
               /\ run' = [run EXCEPT ![r].calls = @ \cup {path}]
               /\ path = "core" => Validated(r)
        BY <2>2 DEF Tool, SearchDocuments, Called
      <3>2. run'[r] = [run[r] EXCEPT !.calls = @ \cup {path}]
        BY <1>0, <3>1
      <3> QED  BY <1>0, <3>1, <3>2 DEF NewCalls, RunRows
    <2>3. CASE q = r /\ Select(r)
      <3>1. PICK pinned \in SUBSET {k \in Skills : IsActive(k) /\ mode # "off"} :
               run' = [run EXCEPT ![r] = [status |-> "open", ver |-> version,
                                          skills |-> pinned, calls |-> {}]]
        BY <2>3 DEF Select
      <3>2. run'[r] = [status |-> "open", ver |-> version, skills |-> pinned, calls |-> {}]
        BY <1>0, <3>1
      <3>3. \A k \in pinned : k \in Skills /\ Exists(k)
        BY DEF LInv, ActiveOnConsent, Exists
      <3> QED  BY <2>3, <3>2, <3>3 DEF Select
    <2>4. CASE q = r /\ EditInRun(r)
      <3>1. run'[r] = [run[r] EXCEPT !.ver = version + 1, !.skills = {}, !.calls = {}]
        BY <1>0, <2>4 DEF EditInRun
      <3> QED  BY <1>0, <2>4, <3>1 DEF EditInRun, NewConsent, Validated, RunRows
    <2>5. CASE q = r /\ (Answer(r) \/ RunFails(r))
      BY <1>0, <2>5 DEF Answer, RunFails
    <2> QED  BY <1>2, <2>1, <2>2, <2>3, <2>4, <2>5 DEF RunStep
  <1>3. CASE OwnerStep
    <2>1. UNCHANGED run
      BY <1>3 DEF OwnerStep, ChangePolicy, EditMemory, Evaluate, Activate,
                  Revoke, Forget, Forgotten, Drifts, SetAside, Rest
    <2> QED  BY <1>1, <2>1
  <1>4. CASE LearnerStep
    <2>1. UNCHANGED run
      BY <1>4 DEF LearnerStep, Drain, Ask, Apply, Fail, Leave, Claim, LeaseEnds
    <2> QED  BY <1>1, <2>1
  <1> QED  BY <1>1, <1>2, <1>3, <1>4 DEF Next, Capture, ReportLapses, Rest

\* Nothing is of a consent that was not yet given, and what a run was given exists.
PinsAreOfThePast ==
    /\ \A e \in Collected : outbox[e].ver <= version
    /\ \A r \in Runs : /\ run[r].ver <= version
                       /\ \A k \in run[r].skills : Exists(k)

LEMMA PinsStayOld ==
  ASSUME LInv, PinsAreOfThePast, Next
  PROVE  PinsAreOfThePast'
  <1>0. version \in Nat
    BY LearningAssumption DEF LInv, LearningTypeOK, Versions
  <1>1. version <= version' /\ version' \in Int
    <2>1. LInv'
      BY StepKeeps
    <2> QED  BY <2>1, WithdrawnStaysSo, LearningAssumption DEF LInv, LearningTypeOK, Versions
  <1>2. ASSUME NEW e \in Collected'
        PROVE  outbox'[e].ver <= version'
    <2>1. CASE e \in Collected
      <3>1. outbox[e] \in EventRows
        BY <2>1 DEF Collected, LInv, LearningTypeOK
      <3>2. outbox[e].ver \in Int
        BY <3>1, LearningAssumption DEF EventRows, Versions
      <3> QED  BY <1>0, <1>1, <2>1, <3>2, WithdrawnStaysSo DEF PinsAreOfThePast
    <2>2. CASE e \notin Collected
      BY <1>0, <1>1, <1>2, <2>2, WithdrawnStaysSo
    <2> QED  BY <2>1, <2>2
  <1>3. ASSUME NEW r \in Runs
        PROVE  run'[r].ver <= version' /\ \A k \in run'[r].skills : Exists(k)'
    <2>1. run[r] \in RunRows
      BY DEF LInv, LearningTypeOK
    <2>2. run[r].ver \in Int /\ run[r].skills \subseteq Skills /\ run[r].ver <= version
      BY <2>1, LearningAssumption DEF RunRows, Versions, PinsAreOfThePast
    <2>3. \A k \in Skills : Exists(k) => Exists(k)'
      BY RevisionsStay DEF Exists
    <2>4. ASSUME run'[r] = Over("failed") \/ run'[r] = Over("answered")
          PROVE  run'[r].ver <= version' /\ \A k \in run'[r].skills : Exists(k)'
      BY <1>0, <1>1, <2>4 DEF Over
    <2>5. \A k \in run[r].skills : Exists(k)
      BY DEF PinsAreOfThePast
    <2>6. \/ run'[r].ver = run[r].ver /\ run'[r].skills = run[r].skills
          \/ run'[r] = Over("failed") \/ run'[r] = Over("answered")
          \/ /\ run'[r].ver = version /\ version' = version
             /\ \A k \in run'[r].skills : k \in Skills /\ Exists(k)
          \/ run'[r].ver = version' /\ run'[r].skills = {}
      BY RunsMove
    <2> QED  BY <1>0, <1>1, <2>2, <2>3, <2>4, <2>5, <2>6
  <1> QED  BY <1>2, <1>3 DEF PinsAreOfThePast

\* What a run was given may be withdrawn, forgotten or called off while its model
\* is answering.  From then on the run calls no core tool and does not answer
\* (run_binding.py assert_current): the pin is checked at the step itself, and
\* consents are numbered upwards, so what was lost does not come back.
THEOREM PinnedSkillsAreAllowed == Spec => RunsUseWhatIsAllowed
  <1> DEFINE Kept(r) ==
         /\ "core" \in NewCalls(r) \/ Answered(r) => MayStillUse(r)
         /\ run[r].status = "open" /\ ~MayStillUse(r)
               => run'[r].status # "open" \/ ~MayStillUse(r)'
  <1>1. ASSUME LInv, NEW r \in Runs, Validated(r)
        PROVE  MayStillUse(r)
    <2> SUFFICES ASSUME run[r].skills # {}, NEW k \in run[r].skills
                 PROVE  rev[k].status # "REVOKED" /\ Allowed(rev[k].evidence)
      BY <1>1 DEF MayStillUse, Validated
    <2>1. run[r] \in RunRows
      BY <1>1 DEF LInv, LearningTypeOK
    <2>2. k \in Skills
      BY <2>1 DEF RunRows
    <2>3. rev[k].evidence \in SUBSET Collected
      BY <1>1, <2>2 DEF LInv, EvidenceIsKept
    <2>4. /\ rev[k].status \in {"ACTIVE", "SUPERSEDED"}
          /\ Binds(k[1], rev[k].evidence)
      BY <1>1 DEF Validated, Valid
    <2> QED  BY <1>1, <2>3, <2>4, CheckedIsAllowed DEF Binds
  <1>2. ASSUME LInv, PinsAreOfThePast, Next, NEW r \in Runs, ~MayStillUse(r),
               run'[r].ver = run[r].ver, run'[r].skills = run[r].skills
        PROVE  ~MayStillUse(r)'
    <2>0. version \in Int /\ version' \in Int
      <3>1. LInv'
        BY <1>2, StepKeeps
      <3> QED  BY <1>2, <3>1, LearningAssumption DEF LInv, LearningTypeOK, Versions
    <2>1. run[r] \in RunRows
      BY <1>2 DEF LInv, LearningTypeOK
    <2>2. run[r].ver \in Int /\ run[r].skills \subseteq Skills /\ run[r].ver <= version
      BY <1>2, <2>1, LearningAssumption DEF RunRows, Versions, PinsAreOfThePast
    <2>3. /\ version <= version' /\ (mode' # mode => version < version')
          /\ blocked \subseteq blocked'
      BY <1>2, WithdrawnStaysSo
    <2>4. CASE run[r].ver # version \/ mode = "off"
      BY <1>2, <2>0, <2>2, <2>3, <2>4 DEF MayStillUse
    <2>5. CASE \E k \in run[r].skills : rev[k].status = "REVOKED" \/ ~Allowed(rev[k].evidence)
      <3>1. PICK k \in run[r].skills :
               rev[k].status = "REVOKED" \/ ~Allowed(rev[k].evidence)
        BY <2>5
      <3>2. k \in Skills /\ Exists(k)
        BY <1>2, <2>2 DEF PinsAreOfThePast
      <3>3. /\ rev'[k].evidence = rev[k].evidence
            /\ rev[k].status = "REVOKED" => rev'[k].status = "REVOKED"
        BY <1>2, <3>2, RevisionsStay
      <3>4. ASSUME ~Allowed(rev[k].evidence)
            PROVE  ~Allowed(rev[k].evidence)' \/ version # version'
        <4>1. rev[k].evidence \subseteq Collected
          BY <1>2, <3>2 DEF LInv, EvidenceIsKept
        <4>2. CASE ~Consented(rev[k].evidence)
          <5>1. PICK e \in rev[k].evidence : outbox[e].ver # version
            BY <4>2 DEF Consented
          <5>2. outbox'[e].ver = outbox[e].ver /\ e \in rev'[k].evidence
            BY <1>2, <3>3, <4>1, <5>1, WithdrawnStaysSo
          <5>3. version = version' => ~Consented(rev[k].evidence)'
            BY <5>1, <5>2 DEF Consented
          <5> QED  BY <5>3 DEF Allowed
        <4>3. CASE rev[k].evidence \cap blocked # {}
          BY <2>3, <3>3, <4>3 DEF Allowed
        <4>4. CASE \E e \in rev[k].evidence : episode[outbox[e].episode].cancelled
          <5>1. PICK e \in rev[k].evidence : episode[outbox[e].episode].cancelled
            BY <4>4
          <5>2. outbox[e] \in EventRows
            BY <1>2, <4>1 DEF Collected, LInv, LearningTypeOK
          <5>3. outbox[e].episode \in Episodes
            BY <5>2 DEF EventRows
          <5>4. outbox'[e].episode = outbox[e].episode /\ e \in rev'[k].evidence
            BY <1>2, <3>3, <4>1, WithdrawnStaysSo
          <5>5. episode'[outbox'[e].episode].cancelled
            BY <1>2, <5>1, <5>3, <5>4, WithdrawnStaysSo
          <5> QED  BY <5>4, <5>5 DEF Allowed
        <4> QED  BY <3>4, <4>2, <4>3, <4>4 DEF Allowed
      <3>5. k \in run'[r].skills /\ run'[r].ver = run[r].ver
        BY <1>2
      <3>6. version # version' => run[r].ver # version'
        BY <2>0, <2>2, <2>3
      <3>7. MayStillUse(r)' => /\ run'[r].ver = version'
                               /\ rev'[k].status # "REVOKED" /\ Allowed(rev[k].evidence)'
        BY <3>5 DEF MayStillUse
      <3> QED  BY <3>1, <3>3, <3>4, <3>5, <3>6, <3>7
    <2> QED  BY <1>2, <2>4, <2>5 DEF MayStillUse
  <1>3. ASSUME LInv, PinsAreOfThePast, Next, NEW r \in Runs
        PROVE  Kept(r)
    <2>1. CASE /\ run'[r].ver = run[r].ver /\ run'[r].skills = run[r].skills
               /\ run'[r].status = run[r].status
               /\ ("core" \in NewCalls(r) => Validated(r))
      BY <1>1, <1>2, <1>3, <2>1 DEF Answered
    <2>2. CASE run'[r] = Over("failed")
      BY <2>2 DEF Over, NewCalls, Answered
    <2>3. CASE run'[r] = Over("answered") /\ Validated(r)
      BY <1>1, <1>3, <2>3 DEF Over, NewCalls, Answered
    <2>4. CASE run[r].status = "none" /\ run'[r].calls = {} /\ run'[r].status = "open"
      BY <2>4 DEF NewCalls, Answered
    <2>5. CASE Validated(r)
      BY <1>1, <1>3, <2>5
    <2> QED  BY <1>3, <2>1, <2>2, <2>3, <2>4, <2>5, RunsMove
  <1>4. Init => PinsAreOfThePast
    BY DEF Init, PinsAreOfThePast, Collected
  <1>5. LInv /\ PinsAreOfThePast /\ [Next]_vars => PinsAreOfThePast'
    <2>1. PinsAreOfThePast /\ UNCHANGED vars => PinsAreOfThePast'
      BY DEF vars, PinsAreOfThePast, Collected, Exists
    <2> QED  BY <2>1, PinsStayOld
  <1>6. LInv /\ PinsAreOfThePast /\ [Next]_vars => [\A r \in Runs : Kept(r)]_vars
    BY <1>3
  <1> HIDE DEF Kept
  <1>7. Spec => [][\A r \in Runs : Kept(r)]_vars
    BY LearningInvariant, <1>4, <1>5, <1>6, PTL DEF Spec
  <1> QED  BY <1>7 DEF RunsUseWhatIsAllowed, Kept

\* What was forgotten is neither learned nor switched on again, not even by a
\* batch that was under way, nor as a part of another skill (lifecycle.py forget,
\* binding): nothing leaves the blocked set, and whatever is stored or switched
\* on is bound against it in the same step.
THEOREM ForgottenIsOver == Spec => ForgottenStaysForgotten
  <1> DEFINE Learned(k) ==
               \/ rev[k].status = "none" /\ rev'[k].status # "none"
               \/ rev[k].status # "ACTIVE" /\ rev'[k].status = "ACTIVE"
             Keeps == /\ blocked \subseteq blocked'
                      /\ \A k \in Skills : Learned(k)
                            => k[1] \notin blocked /\ rev'[k].evidence \cap blocked = {}
  <1>1. ASSUME LInv, blocked' = blocked, \A k \in Skills : rev'[k].status \in
                 {rev[k].status, "SHADOW", "SUSPENDED", "ARCHIVED", "SUPERSEDED", "REVOKED"},
               \A k \in Skills : rev'[k].status # "none" => rev[k].status # "none"
        PROVE  Keeps
    BY <1>1
  <1>2. ASSUME LInv, UNCHANGED <<blocked, rev>>
        PROVE  Keeps
    BY <1>2
  <1>3. ASSUME LInv, NEW w \in Workers, Apply(w)
        PROVE  Keeps
    <2> DEFINE b == work[w].batch
    <2>1. b.evidence \subseteq Collected
      BY <1>3, HeldBatch DEF Apply, LInv, BatchesKeepConsent
    <2>2. ASSUME NEW c \in Concepts, NEW S \in SUBSET b.evidence, NEW i \in 1 .. MaxRevision,
                 NEW good \in BOOLEAN, Store(c, S, i, good)
          PROVE  Keeps
      <3>1. S \in SUBSET Collected
        BY <2>1
      <3>2. /\ \A k \in Skills : k # <<c, i>> => rev'[k] = rev[k]
            /\ rev'[<<c, i>>].evidence = S
            /\ S \cap blocked = {} /\ c \notin blocked
        BY <1>3, <2>2, <3>1, StoreKeeps
      <3> QED  BY <1>3, <3>2 DEF Apply
    <2> QED  BY <1>2, <1>3, <2>2 DEF Apply
  <1>4. ASSUME LInv, Next
        PROVE  Keeps
    <2>1. ASSUME NEW k \in Skills, Evaluate(k) \/ ReportLapses(k)
          PROVE  Keeps
      <3>1. \A j \in Skills : rev'[j].status = rev[j].status
        <4> SUFFICES ASSUME NEW j \in Skills PROVE rev'[j].status = rev[j].status
          OBVIOUS
        <4>1. rev[j] \in RevRows /\ rev \in [Skills -> RevRows]
          BY <1>4 DEF LInv, LearningTypeOK
        <4> QED  BY <2>1, <4>1 DEF Evaluate, ReportLapses, RevRows
      <3> QED  BY <1>1, <1>4, <2>1, <3>1 DEF Evaluate, ReportLapses
    <2>2. ASSUME NEW k \in Skills, Activate(k)
          PROVE  Keeps
      <3>1. ASSUME NEW j \in Skills, Learned(j)
            PROVE  j[1] \notin blocked /\ rev'[j].evidence \cap blocked = {}
        <4>1. rev'[j] = IF j = k THEN [rev[j] EXCEPT !.status = "ACTIVE"]
                        ELSE IF j[1] = k[1] /\ IsActive(j)
                          THEN [rev[j] EXCEPT !.status = "SUPERSEDED"] ELSE rev[j]
          BY <2>2 DEF Activate
        <4>2. rev[j] \in RevRows
          BY <1>4 DEF LInv, LearningTypeOK
        <4>3. IsActive(j) => rev[j].status = "ACTIVE"
          BY <1>4 DEF LInv, ActiveOnConsent
        <4>4. j = k /\ rev'[j].evidence = rev[k].evidence
          BY <3>1, <4>1, <4>2, <4>3 DEF RevRows
        <4> QED  BY <2>2, <4>4 DEF Activate, Binds
      <3> QED  BY <2>2, <3>1 DEF Activate
    <2>3. ASSUME NEW k \in Skills, Drifts(k)
          PROVE  Keeps
      <3>1. \A j \in Skills : rev'[j].status \in {rev[j].status, "SUSPENDED"}
        <4> SUFFICES ASSUME NEW j \in Skills PROVE rev'[j].status \in {rev[j].status, "SUSPENDED"}
          OBVIOUS
        <4>1. rev[j] \in RevRows /\ rev \in [Skills -> RevRows]
          BY <1>4 DEF LInv, LearningTypeOK
        <4> QED  BY <2>3, <4>1 DEF Drifts, RevRows
      <3>2. rev[k].status # "none" /\ \A j \in Skills : j # k => rev'[j] = rev[j]
        BY <1>4, <2>3 DEF Drifts, LInv, LearningTypeOK, ActiveOnConsent
      <3> QED  BY <1>1, <1>4, <2>3, <3>1, <3>2 DEF Drifts
    <2>4. ASSUME NEW k \in Skills, NEW st \in {"SHADOW", "SUSPENDED", "ARCHIVED"},
                 SetAside(k, st)
          PROVE  Keeps
      <3>1. \A j \in Skills : rev'[j].status \in {rev[j].status, st}
        <4> SUFFICES ASSUME NEW j \in Skills PROVE rev'[j].status \in {rev[j].status, st}
          OBVIOUS
        <4>1. rev[j] \in RevRows /\ rev \in [Skills -> RevRows]
          BY <1>4 DEF LInv, LearningTypeOK
        <4> QED  BY <2>4, <4>1 DEF SetAside, RevRows
      <3>2. rev[k].status # "none" /\ \A j \in Skills : j # k => rev'[j] = rev[j]
        BY <1>4, <2>4 DEF SetAside, LInv, LearningTypeOK, Open, Exists
      <3> QED  BY <1>1, <1>4, <2>4, <3>1, <3>2 DEF SetAside
    <2>5. ASSUME NEW c \in Concepts, Forgotten(c)
          PROVE  Keeps
      <3>1. ASSUME NEW k \in Skills, Learned(k)
            PROVE  FALSE
        <4>1. rev'[k] = IF k[1] = c /\ Exists(k)
                          THEN [rev[k] EXCEPT !.status = "REVOKED"] ELSE rev[k]
          BY <2>5 DEF Forgotten
        <4>2. rev[k] \in RevRows
          BY <1>4 DEF LInv, LearningTypeOK
        <4> QED  BY <3>1, <4>1, <4>2 DEF RevRows, Exists
      <3>2. blocked \subseteq blocked'
        BY <2>5 DEF Forgotten
      <3> QED  BY <3>1, <3>2
    <2>6. ASSUME NewConsent
          PROVE  Keeps
      <3>1. ASSUME NEW k \in Skills, Learned(k)
            PROVE  FALSE
        <4>1. rev'[k].status = IF active[k[1]] = k[2] THEN "SUSPENDED" ELSE rev[k].status
          <5>1. LearningTypeOK /\ SuspendScope
            BY <1>4, <2>6 DEF NewConsent, LInv
          <5>2. rev'[k] = [status   |-> IF active[k[1]] = k[2] THEN "SUSPENDED" ELSE rev[k].status,
                           evidence |-> rev[k].evidence, report |-> FALSE]
            BY <5>1, Suspension
          <5> QED  BY <5>2
        <4>2. active[k[1]] = k[2] => rev[k].status = "ACTIVE"
          BY <1>4 DEF LInv, ActiveOnConsent, IsActive
        <4> QED  BY <3>1, <4>1, <4>2
      <3> QED  BY <2>6, <3>1 DEF NewConsent
    <2>7. ASSUME NEW r \in Runs, Select(r)
          PROVE  Keeps
      <3> DEFINE actives == {k \in Skills : IsActive(k) /\ mode # "off"}
      <3>1. PICK bad \in SUBSET actives :
               rev' = [k \in Skills |-> IF k \in bad THEN [rev[k] EXCEPT !.status = "SUSPENDED"]
                                                       ELSE rev[k]]
        BY <2>7 DEF Select
      <3>2. ASSUME NEW k \in Skills, Learned(k)
            PROVE  FALSE
        <4>1. rev'[k] = IF k \in bad THEN [rev[k] EXCEPT !.status = "SUSPENDED"] ELSE rev[k]
          BY <3>1
        <4>2. rev[k] \in RevRows
          BY <1>4 DEF LInv, LearningTypeOK
        <4>3. k \in bad => rev[k].status = "ACTIVE"
          BY <1>4 DEF LInv, ActiveOnConsent
        <4> QED  BY <3>2, <4>1, <4>2, <4>3 DEF RevRows
      <3> QED  BY <2>7, <3>2 DEF Select
    <2>8. ASSUME NEW S \in SUBSET Waiting, Drain(S)
          PROVE  Keeps
      <3>1. ASSUME NEW k \in Skills
            PROVE  rev'[k].status = rev[k].status
        <4>1. rev'[k] = [rev[k] EXCEPT !.report = @ /\ ~Concerns(k, Retold(S))]
          BY <2>8 DEF Drain
        <4>2. rev[k] \in RevRows
          BY <1>4 DEF LInv, LearningTypeOK
        <4> QED  BY <4>1, <4>2 DEF RevRows
      <3> QED  BY <1>1, <1>4, <2>8, <3>1 DEF Drain
    <2>9. CASE OwnerStep
      <3>1. CASE EditMemory \/ \E m \in Modes : ChangePolicy(m)
        BY <2>6, <3>1 DEF EditMemory, ChangePolicy
      <3>2. ASSUME NEW k \in Skills, Revoke(k)
            PROVE  Keeps
        BY <2>5, <3>2 DEF Revoke, Skills
      <3> QED  BY <2>1, <2>2, <2>3, <2>4, <2>5, <2>9, <3>1, <3>2 DEF OwnerStep, Forget
    <2>10. CASE LearnerStep
      BY <1>2, <1>3, <1>4, <2>8, <2>10 DEF LearnerStep, Ask, Fail, Leave, Claim, LeaseEnds
    <2>11. ASSUME NEW r \in Runs, RunStep(r)
           PROVE  Keeps
      BY <1>2, <1>4, <2>6, <2>7, <2>11 DEF RunStep, Tool, SearchDocuments, Called, EditInRun,
         Answer, RunFails
    <2>12. ASSUME NEW e \in Events, Capture(e)
           PROVE  Keeps
      BY <1>2, <1>4, <2>12 DEF Capture
    <2> QED  BY <1>4, <2>1, <2>9, <2>10, <2>11, <2>12 DEF Next
  <1>5. LInv /\ [Next]_vars => [Keeps]_vars
    BY <1>4
  <1> HIDE DEF Keeps
  <1>6. Spec => [][Keeps]_vars
    BY LearningInvariant, <1>5, PTL DEF Spec
  <1> QED  BY <1>6 DEF ForgottenStaysForgotten, Keeps
=============================================================================
