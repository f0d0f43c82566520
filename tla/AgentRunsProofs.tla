--------------------------- MODULE AgentRunsProofs ---------------------------
(***************************************************************************)
(* Proofs that the invariants of a conversation's runs hold for any number *)
(* of workers, messages, business changes and attempts.                    *)
(*                                                                         *)
(* What they rest on is that a conversation has one run under way: its     *)
(* active run alone has a live job, and a follow-up is active from its     *)
(* start to its end.  So when a follow-up starts every earlier one has     *)
(* been counted in the conversation, and the business was read since.      *)
(***************************************************************************)
EXTENDS AgentRuns, WellFoundedInduction, TLAPS

-----------------------------------------------------------------------------
(* The inductive invariant, of given rows of runs and jobs, conversation,   *)
(* business and fingerprint just read: a step ends by promoting a queued    *)
(* run, and what it promotes from is no state.                              *)

Live == {"WAITING", "RUNNING"}
Open == {"QUEUED", "RUNNING", "WAITING_INPUT"}

Typed(rows, jobs, c) ==
    rows \in [Runs -> RunRows] /\ jobs \in [Runs -> JobRows] /\ c \in ConvRows

\* A live job is of the active run, and has an attempt left.
JobsFollowRuns(rows, jobs, c) ==
    \A r \in Runs :
       /\ jobs[r].status \in Live => c.active = r /\ rows[r].status \in {"QUEUED", "RUNNING"}
       /\ jobs[r].status = "WAITING" => jobs[r].attempts < AttemptLimit

\* A run that was started and has not ended is the active one.
OneIsActive(rows, c) ==
    /\ \A r \in Runs : rows[r].status \in {"RUNNING", "WAITING_INPUT"} => c.active = r
    /\ c.active # NoRun => rows[c.active].status \in Open

\* A message covers no change; a follow-up covers one there was.
CoverageIsMarked(rows, b) ==
    \A r \in Runs :
       /\ rows[r].trigger = "USER" => rows[r].print = Nothing
       /\ rows[r].trigger = "FOLLOWUP" =>
             rows[r].status # "NONE" /\ rows[r].print \in 0 .. b.state

\* A follow-up under way is the active run and covers more than all others; one
\* that ended is counted in the conversation.
FollowupsAreCounted(rows, c) ==
    \A r \in Runs : rows[r].trigger = "FOLLOWUP" =>
       IF rows[r].status \in Finished
       THEN c.last # Nothing /\ rows[r].print <= c.last
       ELSE /\ c.active = r
            /\ c.last = Nothing \/ c.last < rows[r].print
            /\ \A q \in Runs \ {r} :
                  rows[q].trigger = "FOLLOWUP" => rows[q].print < rows[r].print

PrintsDiffer(rows) ==
    \A q, r \in Runs : q # r /\ rows[q].trigger = "FOLLOWUP" /\ rows[r].trigger = "FOLLOWUP"
       => rows[q].print # rows[r].print

\* The hook holds an idle conversation, and what it read is not older than what
\* the conversation counts.
HookIsCurrent(c, b, g) ==
    /\ c.last # Nothing => c.last <= b.state
    /\ g # Nothing => /\ c.active = NoRun /\ g <= b.state
                      /\ c.last # Nothing => c.last <= g

Sound(rows, jobs, c, b, g) ==
    /\ Typed(rows, jobs, c)
    /\ JobsFollowRuns(rows, jobs, c) /\ OneIsActive(rows, c)
    /\ CoverageIsMarked(rows, b) /\ FollowupsAreCounted(rows, c) /\ PrintsDiffer(rows)
    /\ HookIsCurrent(c, b, g)

AInv ==
    /\ TypeOK
    /\ Sound(run, job, conv, business, reading)
    /\ IdleMeansNoneQueued
    /\ business.recorded <= business.state
    /\ \A w \in Workers : worker[w].phase # "idle" => worker[w].run \in Runs

-----------------------------------------------------------------------------
(* Promotion *)

\* Of any messages there is a first one.
LEMMA Least ==
  ASSUME NEW Q \in SUBSET Nat, Q # {}
  PROVE  \E m \in Q : \A k \in Q : m <= k
  <1> DEFINE R == OpToRel(<, Nat)
  <1>1. \A x, y \in Nat : x < y => <<x, y>> \in R
    BY DEF OpToRel
  <1>2. IsWellFoundedOn(R, Nat)
    BY NatLessThanWellFounded, Zenon
  <1> HIDE DEF R
  <1>3. PICK m \in Q : \A k \in Q : ~ (<<k, m>> \in R)
    BY <1>2, WFMin, Zenon
  <1>4. ASSUME NEW k \in Q
        PROVE  m <= k
    <2>1. ~(k < m)
      BY <1>1, <1>3
    <2> QED  BY <2>1
  <1> QED  BY <1>4

\* The oldest queued run is one, if any run is queued.
LEMMA OldestIsQueued ==
  ASSUME NEW rows
  PROVE  \/ Oldest(rows) = NoRun /\ \A r \in Runs : rows[r].status # "QUEUED"
         \/ Oldest(rows) \in Runs /\ rows[Oldest(rows)].status = "QUEUED"
  <1> DEFINE Q == {r \in Runs : rows[r].status = "QUEUED"}
  <1>1. CASE Q = {}
    BY <1>1 DEF Oldest
  <1>2. CASE Q # {}
    <2>1. Q \in SUBSET Nat
      BY DEF Runs
    <2>2. PICK m \in Q : \A k \in Q : m <= k
      BY <1>2, <2>1, Least
    <2>3. ASSUME NEW q \in 1 .. m - 1
          PROVE  rows[q].status # "QUEUED"
      <3>1. m \in Runs /\ q \in Runs /\ ~(m <= q)
        BY AgentAssumption DEF Runs
      <3> QED  BY <2>2, <3>1
    <2>4. \E r \in Runs : rows[r].status = "QUEUED"
                          /\ \A q \in 1 .. r - 1 : rows[q].status # "QUEUED"
      BY <2>3
    <2> DEFINE P(r) == rows[r].status = "QUEUED"
                       /\ \A q \in 1 .. r - 1 : rows[q].status # "QUEUED"
    <2>5. Oldest(rows) = CHOOSE r \in Runs : P(r)
      BY <2>4 DEF Oldest
    <2>6. \E r \in Runs : P(r)
      BY <2>4
    <2> HIDE DEF P
    <2>7. Oldest(rows) \in Runs /\ P(Oldest(rows))
      BY <2>5, <2>6, Zenon
    <2> QED  BY <2>7 DEF P
  <1> QED  BY <1>1, <1>2

\* Promotion leaves things alone, or gives an idle conversation a queued run.
LEMMA Promotion ==
  ASSUME NEW c \in ConvRows, NEW jobs, NEW rows, Promote(c, jobs, rows)
  PROVE  /\ run' = rows
         /\ \/ /\ conv' = c /\ job' = jobs
               /\ c.active # NoRun \/ \A r \in Runs : rows[r].status # "QUEUED"
            \/ /\ c.active = NoRun
               /\ \E n \in Runs : /\ rows[n].status = "QUEUED"
                                  /\ conv' = [c EXCEPT !.active = n]
                                  /\ job' = [jobs EXCEPT ![n] = NewJob]
  <1> DEFINE next == IF c.active = NoRun THEN Oldest(rows) ELSE NoRun
  <1>1. /\ run' = rows
        /\ conv' = IF next = NoRun THEN c ELSE [c EXCEPT !.active = next]
        /\ job' = IF next = NoRun THEN jobs ELSE [jobs EXCEPT ![next] = NewJob]
    BY DEF Promote
  <1>2. 0 \notin Runs /\ NoRun = 0
    BY DEF Runs, NoRun
  <1>3. CASE next = NoRun
    <2>1. c.active # NoRun \/ \A r \in Runs : rows[r].status # "QUEUED"
      BY <1>2, <1>3, OldestIsQueued
    <2> QED  BY <1>1, <1>3, <2>1
  <1>4. CASE next # NoRun
    <2>1. c.active = NoRun /\ next \in Runs /\ rows[next].status = "QUEUED"
      BY <1>4, OldestIsQueued
    <2> HIDE DEF next
    <2> QED  BY <1>1, <1>4, <2>1
  <1> QED  BY <1>3, <1>4

LEMMA NewJobIsTyped == NewJob \in JobRows /\ NewJob.status = "WAITING" /\ NewJob.attempts = 0
  BY AgentAssumption DEF NewJob, NoJob, JobRows

LEMMA OverIsTyped ==
  ASSUME NEW status \in Finished
  PROVE  Over(status) \in JobRows /\ Over(status).status = status
  BY AgentAssumption DEF Over, NoJob, JobRows, Finished

\* Every transaction that ends by promoting leaves a sound conversation, if
\* what it promotes from is sound and no hook is between its reads.
LEMMA PromotionKeeps ==
  ASSUME NEW c, NEW jobs, NEW rows, NEW b,
         Sound(rows, jobs, c, b, Nothing), Promote(c, jobs, rows)
  PROVE  Sound(run', job', conv', b, Nothing) /\ IdleMeansNoneQueued'
  <1> USE DEF Sound, Typed
  <1>1. c \in ConvRows
    OBVIOUS
  <1>2. run' = rows
    BY <1>1, Promotion
  <1>3. CASE /\ conv' = c /\ job' = jobs
             /\ c.active # NoRun \/ \A r \in Runs : rows[r].status # "QUEUED"
    BY <1>2, <1>3 DEF IdleMeansNoneQueued
  <1>4. ASSUME c.active = NoRun, NEW n \in Runs, rows[n].status = "QUEUED",
               conv' = [c EXCEPT !.active = n], job' = [jobs EXCEPT ![n] = NewJob]
        PROVE  Sound(run', job', conv', b, Nothing) /\ IdleMeansNoneQueued'
    <2>1. /\ conv' \in ConvRows /\ conv'.active = n /\ conv'.last = c.last
      BY <1>1, <1>4 DEF ConvRows
    <2>2. job' \in [Runs -> JobRows] /\ job'[n] = NewJob
          /\ \A r \in Runs \ {n} : job'[r] = jobs[r]
      BY <1>4, NewJobIsTyped
    <2>3. n # NoRun /\ \A r \in Runs : r # NoRun
      BY DEF Runs, NoRun
    <2>4. JobsFollowRuns(run', job', conv')
      BY <1>2, <1>4, <2>1, <2>2, <2>3, NewJobIsTyped, AgentAssumption DEF JobsFollowRuns, Live
    <2>5. OneIsActive(run', conv') /\ IdleMeansNoneQueued'
      BY <1>2, <1>4, <2>1, <2>3 DEF OneIsActive, IdleMeansNoneQueued, Open
    <2>6. FollowupsAreCounted(run', conv')
      BY <1>2, <1>4, <2>1, <2>3 DEF FollowupsAreCounted
    <2>7. HookIsCurrent(conv', b, Nothing)
      BY <2>1 DEF HookIsCurrent
    <2> QED  BY <1>2, <2>1, <2>2, <2>4, <2>5, <2>6, <2>7
  <1> QED  BY <1>1, <1>3, <1>4, Promotion

-----------------------------------------------------------------------------
(* A run that ends *)

\* What an ended run leaves: nothing else of the conversation's fingerprint.
LEMMA HandledIsTyped ==
  ASSUME NEW c \in ConvRows, NEW r \in Runs, run[r] \in RunRows
  PROVE  /\ Handled(c, r) \in ConvRows /\ Handled(c, r).active = c.active
         /\ Handled(c, r).last = IF run[r].print # Nothing THEN run[r].print ELSE c.last
  <1> DEFINE u == Later(c.consumed, run[r].mark)
             v == IF run[r].print # Nothing THEN run[r].print ELSE c.last
  <1>1. u \in States
    BY DEF Later, ConvRows, RunRows
  <1>2. v \in States \cup {Nothing}
    BY DEF ConvRows, RunRows
  <1>3. Handled(c, r) = [c EXCEPT !.consumed = u, !.last = v]
    BY DEF Handled
  <1> HIDE DEF u, v
  <1>4. Handled(c, r) \in ConvRows /\ Handled(c, r).active = c.active /\ Handled(c, r).last = v
    BY <1>1, <1>2, <1>3 DEF ConvRows
  <1> QED  BY <1>4 DEF v

\* What promotion starts from when a run ends.
LEMMA Closing ==
  ASSUME NEW c \in ConvRows, NEW jobs, NEW r \in Runs, run[r] \in RunRows,
         NEW status \in Finished, CloseRun(r, status, c, jobs)
  PROVE  \E d \in ConvRows :
            /\ Promote(d, jobs, [run EXCEPT ![r].status = status])
            /\ d.active = IF c.active = r THEN NoRun ELSE c.active
            /\ d.last = IF run[r].trigger = "FOLLOWUP" /\ status # "SUCCEEDED"
                           /\ run[r].print # Nothing
                        THEN run[r].print ELSE c.last
  <1> DEFINE h == IF run[r].trigger = "FOLLOWUP" /\ status # "SUCCEEDED"
                  THEN FollowupClosed(c, r, status) ELSE c
             d == [h EXCEPT !.active = IF @ = r THEN NoRun ELSE @]
  <1>1. Promote(d, jobs, [run EXCEPT ![r].status = status])
    BY DEF CloseRun
  <1>2. /\ FollowupClosed(c, r, status) \in ConvRows
        /\ FollowupClosed(c, r, status).active = c.active
        /\ FollowupClosed(c, r, status).last =
              IF run[r].print # Nothing THEN run[r].print ELSE c.last
    <2>1. PICK p : FollowupClosed(c, r, status) = [Handled(c, r) EXCEPT !.enabled = @ /\ ~p]
      BY Zenon DEF FollowupClosed
    <2> DEFINE k == Handled(c, r)
    <2>2. k \in ConvRows /\ k.active = c.active
          /\ k.last = IF run[r].print # Nothing THEN run[r].print ELSE c.last
      BY HandledIsTyped
    <2> HIDE DEF k
    <2>3. (k.enabled /\ ~p) \in BOOLEAN
      OBVIOUS
    <2>4. [k EXCEPT !.enabled = k.enabled /\ ~p] \in ConvRows
          /\ [k EXCEPT !.enabled = k.enabled /\ ~p].active = k.active
          /\ [k EXCEPT !.enabled = k.enabled /\ ~p].last = k.last
      BY <2>2, <2>3 DEF ConvRows
    <2> QED  BY <2>1, <2>2, <2>4 DEF k
  <1>3. /\ h \in ConvRows /\ h.active = c.active
        /\ h.last = IF run[r].trigger = "FOLLOWUP" /\ status # "SUCCEEDED"
                       /\ run[r].print # Nothing
                    THEN run[r].print ELSE c.last
    BY <1>2
  <1> HIDE DEF h
  <1>4. d \in ConvRows /\ d.last = h.last
        /\ d.active = IF h.active = r THEN NoRun ELSE h.active
    BY <1>3 DEF ConvRows
  <1> QED  BY <1>1, <1>3, <1>4

\* Whoever ends a run: its user, its worker or the hook.
LEMMA CloseKeeps ==
  ASSUME AInv, Unlocked, NEW r \in Runs, run[r].status \in Open,
         NEW status \in Finished, NEW c \in {conv, Handled(conv, r)},
         status = "SUCCEEDED" => c = Handled(conv, r),
         NEW jobs \in [Runs -> JobRows], jobs[r].status \notin Live,
         \A q \in Runs \ {r} : jobs[q] = job[q],
         CloseRun(r, status, c, jobs)
  PROVE  /\ Sound(run', job', conv', business, reading) /\ IdleMeansNoneQueued'
         /\ \A q \in Runs \ {r} : run'[q] = run[q]
  <1> DEFINE rows == [run EXCEPT ![r].status = status]
  <1>0. /\ Typed(run, job, conv) /\ reading = Nothing
        /\ JobsFollowRuns(run, job, conv) /\ OneIsActive(run, conv)
        /\ CoverageIsMarked(run, business) /\ FollowupsAreCounted(run, conv)
        /\ PrintsDiffer(run) /\ HookIsCurrent(conv, business, reading)
        /\ business.state \in States
    BY DEF AInv, Sound, Unlocked, TypeOK
  <1>1. run[r] \in RunRows /\ conv \in ConvRows
    BY <1>0 DEF Typed
  <1>2. /\ c \in ConvRows /\ c.active = conv.active
        /\ c.last = conv.last \/ c.last = IF run[r].print # Nothing THEN run[r].print ELSE conv.last
        /\ status = "SUCCEEDED" =>
              c.last = IF run[r].print # Nothing THEN run[r].print ELSE conv.last
    BY <1>1, HandledIsTyped
  <1>3. PICK d \in ConvRows :
            /\ Promote(d, jobs, rows)
            /\ d.active = IF c.active = r THEN NoRun ELSE c.active
            /\ d.last = IF run[r].trigger = "FOLLOWUP" /\ status # "SUCCEEDED"
                           /\ run[r].print # Nothing
                        THEN run[r].print ELSE c.last
    BY <1>1, <1>2, Closing
  <1>4. run[r].trigger = "FOLLOWUP" => run[r].print # Nothing /\ run[r].print <= business.state
    BY <1>0, AgentAssumption DEF CoverageIsMarked, Nothing, States
  <1>5. run[r].trigger = "USER" => run[r].print = Nothing
    BY <1>0 DEF CoverageIsMarked
  <1>6. run[r].trigger \in {"USER", "FOLLOWUP"}
    BY <1>1 DEF RunRows
  <1>7. /\ d.last = IF run[r].trigger = "FOLLOWUP" THEN run[r].print ELSE conv.last
        /\ d.active = IF conv.active = r THEN NoRun ELSE conv.active
    BY <1>2, <1>3, <1>4, <1>5, <1>6
  <1>8. rows = [run EXCEPT ![r] = [run[r] EXCEPT !.status = status]]
    BY <1>0 DEF Typed
  <1>9. [run[r] EXCEPT !.status = status] =
           [status |-> status, trigger |-> run[r].trigger, mark |-> run[r].mark,
            print |-> run[r].print]
    BY <1>1 DEF RunRows
  <1>10. [run[r] EXCEPT !.status = status] \in RunRows
    BY <1>1, <1>9 DEF RunRows
  <1>11. /\ rows \in [Runs -> RunRows] /\ rows[r].status = status
         /\ \A q \in Runs \ {r} : rows[q] = run[q]
         /\ \A q \in Runs : rows[q].trigger = run[q].trigger /\ rows[q].print = run[q].print
    BY <1>0, <1>8, <1>9, <1>10 DEF Typed
  <1>12. \A q \in Runs : q # NoRun
    BY DEF Runs, NoRun
  <1> HIDE DEF rows
  <1>13. JobsFollowRuns(rows, jobs, d)
    BY <1>0, <1>7, <1>11 DEF JobsFollowRuns, Live
  <1>14. OneIsActive(rows, d)
    <2>1. status \notin Open
      BY DEF Finished, Open
    <2>2. d.active # NoRun => d.active \in Runs \ {r} /\ d.active = conv.active
      BY <1>1, <1>7 DEF ConvRows
    <2> QED  BY <1>0, <1>7, <1>11, <2>1, <2>2 DEF OneIsActive, Open
  <1>15. CoverageIsMarked(rows, business)
    BY <1>0, <1>11 DEF CoverageIsMarked, Finished
  <1>16. PrintsDiffer(rows)
    BY <1>0, <1>11 DEF PrintsDiffer
  <1>17. run[r].status \notin Finished
    BY DEF Open, Finished
  <1>18. \A q \in Runs : run[q].trigger = "FOLLOWUP" => run[q].print \in Nat
    BY <1>0 DEF CoverageIsMarked, States
  <1>19. FollowupsAreCounted(rows, d)
    <2> SUFFICES ASSUME NEW q \in Runs, rows[q].trigger = "FOLLOWUP"
                 PROVE  IF rows[q].status \in Finished
                        THEN d.last # Nothing /\ rows[q].print <= d.last
                        ELSE /\ d.active = q
                             /\ d.last = Nothing \/ d.last < rows[q].print
                             /\ \A p \in Runs \ {q} :
                                   rows[p].trigger = "FOLLOWUP" => rows[p].print < rows[q].print
      BY DEF FollowupsAreCounted
    <2>1. CASE run[r].trigger = "FOLLOWUP"
      <3>1. d.last = run[r].print /\ d.last # Nothing /\ conv.active = r
            /\ \A p \in Runs \ {r} : run[p].trigger = "FOLLOWUP" => run[p].print < run[r].print
        BY <1>0, <1>4, <1>7, <1>17, <2>1 DEF FollowupsAreCounted
      <3>2. rows[q].status \in Finished
        BY <1>0, <1>11, <3>1 DEF FollowupsAreCounted
      <3>3. rows[q].print <= d.last
        BY <1>11, <1>18, <2>1, <3>1
      <3> QED  BY <3>1, <3>2, <3>3
    <2>2. CASE run[r].trigger = "USER"
      <3>1. q # r /\ d.last = conv.last /\ rows[q] = run[q]
        BY <1>7, <1>11, <2>2
      <3>2. conv.active = q => d.active = q
        BY <1>7, <3>1
      <3> QED  BY <1>0, <1>11, <3>1, <3>2 DEF FollowupsAreCounted
    <2> QED  BY <1>6, <2>1, <2>2
  <1>20. HookIsCurrent(d, business, Nothing)
    BY <1>0, <1>4, <1>7 DEF HookIsCurrent
  <1>21. Sound(rows, jobs, d, business, Nothing)
    BY <1>11, <1>13, <1>14, <1>15, <1>16, <1>19, <1>20 DEF Sound, Typed
  <1>22. Sound(run', job', conv', business, Nothing) /\ IdleMeansNoneQueued'
    BY <1>3, <1>21, PromotionKeeps
  <1>23. run' = rows
    BY <1>3, Promotion
  <1> QED  BY <1>0, <1>11, <1>22, <1>23

-----------------------------------------------------------------------------
(* A run that goes on *)

\* The active run takes another status, and its job with it.
LEMMA StatusKeeps ==
  ASSUME AInv, Unlocked, NEW r \in Runs, conv.active = r, NEW st \in Open,
         run' = [run EXCEPT ![r].status = st], conv' = conv,
         NEW row \in JobRows, job' = [job EXCEPT ![r] = row],
         row.status \in Live => st \in {"QUEUED", "RUNNING"},
         row.status = "WAITING" => row.attempts < AttemptLimit
  PROVE  /\ Sound(run', job', conv', business, reading) /\ IdleMeansNoneQueued'
         /\ \A q \in Runs \ {r} : run'[q] = run[q]
  <1>0. /\ Typed(run, job, conv) /\ reading = Nothing
        /\ JobsFollowRuns(run, job, conv) /\ OneIsActive(run, conv)
        /\ CoverageIsMarked(run, business) /\ FollowupsAreCounted(run, conv)
        /\ PrintsDiffer(run) /\ HookIsCurrent(conv, business, reading)
    BY DEF AInv, Sound, Unlocked
  <1>1. run[r] \in RunRows
    BY <1>0 DEF Typed
  <1>2. r # NoRun
    BY DEF Runs, NoRun
  <1>3. run[r].status \in Open
    BY <1>0, <1>2 DEF OneIsActive
  <1>4. run' = [run EXCEPT ![r] = [run[r] EXCEPT !.status = st]]
    BY <1>0 DEF Typed
  <1>5. [run[r] EXCEPT !.status = st] =
           [status |-> st, trigger |-> run[r].trigger, mark |-> run[r].mark,
            print |-> run[r].print]
    BY <1>1 DEF RunRows
  <1>6. [run[r] EXCEPT !.status = st] \in RunRows
    BY <1>1, <1>5 DEF RunRows, Open
  <1>7. /\ run' \in [Runs -> RunRows] /\ run'[r].status = st
        /\ \A q \in Runs \ {r} : run'[q] = run[q]
        /\ \A q \in Runs : run'[q].trigger = run[q].trigger /\ run'[q].print = run[q].print
    BY <1>0, <1>4, <1>5, <1>6 DEF Typed
  <1>8. /\ job' \in [Runs -> JobRows] /\ job'[r] = row
        /\ \A q \in Runs \ {r} : job'[q] = job[q]
    BY <1>0 DEF Typed
  <1>9. JobsFollowRuns(run', job', conv')
    BY <1>0, <1>7, <1>8 DEF JobsFollowRuns
  <1>10. OneIsActive(run', conv') /\ IdleMeansNoneQueued'
    BY <1>0, <1>2, <1>7 DEF OneIsActive, IdleMeansNoneQueued
  <1>11. CoverageIsMarked(run', business)
    BY <1>0, <1>7 DEF CoverageIsMarked, Open
  <1>12. PrintsDiffer(run')
    BY <1>0, <1>7 DEF PrintsDiffer
  <1>13. \A q \in Runs : run'[q].status \in Finished <=> run[q].status \in Finished
    BY <1>3, <1>7 DEF Open, Finished
  <1>14. FollowupsAreCounted(run', conv')
    BY <1>0, <1>7, <1>13 DEF FollowupsAreCounted
  <1> QED
    BY <1>0, <1>7, <1>8, <1>9, <1>10, <1>11, <1>12, <1>14 DEF Sound, Typed

\* A job is claimed, or given back.
LEMMA JobKeeps ==
  ASSUME AInv, NEW r \in Runs, job[r].status \in Live, UNCHANGED <<run, conv>>,
         NEW row \in JobRows, job' = [job EXCEPT ![r] = row],
         row.status = "WAITING" => row.attempts < AttemptLimit
  PROVE  Sound(run', job', conv', business, reading) /\ IdleMeansNoneQueued'
  <1>1. Sound(run, job, conv, business, reading) /\ IdleMeansNoneQueued
    BY DEF AInv
  <1>2. /\ job' \in [Runs -> JobRows] /\ job'[r] = row
        /\ \A q \in Runs \ {r} : job'[q] = job[q]
    BY <1>1 DEF Sound, Typed
  <1>3. JobsFollowRuns(run', job', conv')
    BY <1>1, <1>2 DEF Sound, JobsFollowRuns
  <1> QED  BY <1>1, <1>2, <1>3 DEF Sound, Typed, IdleMeansNoneQueued

\* An invariant conversation with workers and business that stay in order.
LEMMA Together ==
  ASSUME AInv, Sound(run', job', conv', business', reading'), IdleMeansNoneQueued',
         \/ worker' = worker
         \/ \E w \in Workers : worker' = [worker EXCEPT ![w] = Idle]
         \/ \E w \in Workers, r \in Runs :
               worker' = [worker EXCEPT ![w] = [run |-> r, phase |-> "claimed"]]
         \/ \E w \in Workers : /\ worker[w].phase = "claimed"
                               /\ worker' = [worker EXCEPT ![w].phase = "working"],
         business' \in [state : States, recorded : States, ended : States \cup {Nothing}],
         business'.recorded <= business'.state,
         reading' \in States \cup {Nothing}
  PROVE  AInv'
  <1>1. worker \in [Workers -> WorkerStates]
        /\ \A w \in Workers : worker[w].phase # "idle" => worker[w].run \in Runs
    BY DEF AInv, TypeOK
  <1>2. worker' \in [Workers -> WorkerStates]
        /\ \A w \in Workers : worker'[w].phase # "idle" => worker'[w].run \in Runs
    <2>1. CASE worker' = worker
      BY <1>1, <2>1
    <2>2. ASSUME NEW w \in Workers, worker' = [worker EXCEPT ![w] = Idle]
          PROVE  worker' \in [Workers -> WorkerStates]
                 /\ \A v \in Workers : worker'[v].phase # "idle" => worker'[v].run \in Runs
      <3>1. Idle \in WorkerStates /\ Idle.phase = "idle"
        BY DEF Idle, WorkerStates
      <3> QED  BY <1>1, <2>2, <3>1
    <2>3. ASSUME NEW w \in Workers, NEW r \in Runs,
                 worker' = [worker EXCEPT ![w] = [run |-> r, phase |-> "claimed"]]
          PROVE  worker' \in [Workers -> WorkerStates]
                 /\ \A v \in Workers : worker'[v].phase # "idle" => worker'[v].run \in Runs
      BY <1>1, <2>3 DEF WorkerStates
    <2>4. ASSUME NEW w \in Workers, worker[w].phase = "claimed",
                 worker' = [worker EXCEPT ![w].phase = "working"]
          PROVE  worker' \in [Workers -> WorkerStates]
                 /\ \A v \in Workers : worker'[v].phase # "idle" => worker'[v].run \in Runs
      <3>1. worker[w] \in WorkerStates /\ worker[w].run \in Runs
        BY <1>1, <2>4
      <3>2. worker' = [worker EXCEPT ![w] = [worker[w] EXCEPT !.phase = "working"]]
        BY <1>1, <2>4
      <3>3. [worker[w] EXCEPT !.phase = "working"] = [run |-> worker[w].run, phase |-> "working"]
        BY <3>1 DEF WorkerStates
      <3> QED  BY <1>1, <3>1, <3>2, <3>3 DEF WorkerStates
    <2> QED  BY <2>1, <2>2, <2>3, <2>4
  <1> QED  BY <1>2 DEF AInv, TypeOK, Sound, Typed

-----------------------------------------------------------------------------
(* The user *)

LEMMA BusinessStays ==
  ASSUME AInv, UNCHANGED <<business, reading>>
  PROVE  /\ business' \in [state : States, recorded : States, ended : States \cup {Nothing}]
         /\ business'.recorded <= business'.state /\ reading' \in States \cup {Nothing}
  BY DEF AInv, TypeOK

LEMMA SendKeeps ==
  ASSUME AInv, NEW r \in Runs, SendMessage(r)
  PROVE  AInv' /\ \A q \in Runs \ {r} : run'[q] = run[q]
  <1> DEFINE rows == [run EXCEPT ![r].status = "QUEUED"]
  <1>0. /\ Sound(run, job, conv, business, Nothing) /\ reading = Nothing
        /\ Promote(conv, job, rows) /\ UNCHANGED <<worker, business, reading>>
    BY DEF AInv, SendMessage, Unlocked
  <1>1. r \notin 1 .. r - 1 /\ r # NoRun
    BY DEF Runs, NoRun
  <1>2. run[r].status = "NONE"
    BY <1>1 DEF SendMessage, NewRun, Created
  <1>3. run[r] \in RunRows /\ run[r].trigger = "USER"
    BY <1>0, <1>2 DEF Sound, Typed, CoverageIsMarked, RunRows
  <1>4. rows = [run EXCEPT ![r] = [run[r] EXCEPT !.status = "QUEUED"]]
    BY <1>0 DEF Sound, Typed
  <1>5. [run[r] EXCEPT !.status = "QUEUED"] =
           [status |-> "QUEUED", trigger |-> "USER", mark |-> run[r].mark,
            print |-> run[r].print]
    BY <1>3 DEF RunRows
  <1>6. [run[r] EXCEPT !.status = "QUEUED"] \in RunRows
    BY <1>3, <1>5 DEF RunRows
  <1>7. /\ rows \in [Runs -> RunRows] /\ rows[r].status = "QUEUED"
        /\ \A q \in Runs \ {r} : rows[q] = run[q]
        /\ \A q \in Runs : rows[q].trigger = run[q].trigger /\ rows[q].print = run[q].print
    BY <1>0, <1>3, <1>4, <1>5, <1>6 DEF Sound, Typed
  <1> HIDE DEF rows
  <1>8. JobsFollowRuns(rows, job, conv)
    BY <1>0, <1>2, <1>7 DEF Sound, JobsFollowRuns
  <1>9. OneIsActive(rows, conv)
    BY <1>0, <1>1, <1>2, <1>7 DEF Sound, Typed, ConvRows, OneIsActive, Open
  <1>10. CoverageIsMarked(rows, business) /\ PrintsDiffer(rows) /\ FollowupsAreCounted(rows, conv)
    BY <1>0, <1>3, <1>7 DEF Sound, CoverageIsMarked, PrintsDiffer, FollowupsAreCounted
  <1>11. Sound(rows, job, conv, business, Nothing)
    BY <1>0, <1>7, <1>8, <1>9, <1>10 DEF Sound, Typed
  <1>12. Sound(run', job', conv', business, Nothing) /\ IdleMeansNoneQueued'
    BY <1>0, <1>11, PromotionKeeps
  <1>13. run' = rows
    BY <1>0, Promotion DEF Sound, Typed
  <1> QED  BY <1>0, <1>7, <1>12, <1>13, BusinessStays, Together

LEMMA ResumeKeeps ==
  ASSUME AInv, NEW r \in Runs, Resume(r)
  PROVE  AInv' /\ \A q \in Runs \ {r} : run'[q] = run[q]
  <1>0. /\ Sound(run, job, conv, business, reading) /\ Unlocked
        /\ run[r].status = "WAITING_INPUT" /\ UNCHANGED <<worker, business, reading>>
    BY DEF AInv, Resume
  <1>1. job[r].status \notin Live /\ conv.active = r /\ job \in [Runs -> JobRows]
    BY <1>0 DEF Sound, Typed, JobsFollowRuns, OneIsActive
  <1>2. CASE CloseRun(r, "CANCELLED", conv, job)
    <2>1. run[r].status \in Open /\ "CANCELLED" \in Finished
      BY <1>0 DEF Open, Finished
    <2>2. /\ Sound(run', job', conv', business, reading) /\ IdleMeansNoneQueued'
          /\ \A q \in Runs \ {r} : run'[q] = run[q]
      BY <1>0, <1>1, <1>2, <2>1, CloseKeeps
    <2> QED  BY <1>0, <2>2, BusinessStays, Together
  <1>3. CASE /\ run' = [run EXCEPT ![r].status = "QUEUED"]
             /\ conv' = [conv EXCEPT !.active = r]
             /\ job' = [job EXCEPT ![r] = NewJob]
    <2>1. conv' = conv
      BY <1>0, <1>1, <1>3 DEF Sound, Typed, ConvRows
    <2>2. /\ Sound(run', job', conv', business, reading) /\ IdleMeansNoneQueued'
          /\ \A q \in Runs \ {r} : run'[q] = run[q]
      <3>1. /\ "QUEUED" \in Open /\ NewJob \in JobRows /\ NewJob.attempts < AttemptLimit
        BY NewJobIsTyped, AgentAssumption DEF Open
      <3> QED  BY <1>0, <1>1, <1>3, <2>1, <3>1, StatusKeeps
    <2> QED  BY <1>0, <2>2, BusinessStays, Together
  <1> QED  BY <1>2, <1>3 DEF Resume

LEMMA CancelKeeps ==
  ASSUME AInv, NEW r \in Runs, CancelRun(r)
  PROVE  AInv' /\ run[r].status \in Open /\ \A q \in Runs \ {r} : run'[q] = run[q]
  <1> DEFINE jobs == IF job[r].status \in {"WAITING", "RUNNING"}
                     THEN [job EXCEPT ![r] = Over("CANCELLED")] ELSE job
  <1>0. /\ Sound(run, job, conv, business, reading) /\ Unlocked
        /\ run[r].status \in Open /\ UNCHANGED <<worker, business, reading>>
        /\ CloseRun(r, "CANCELLED", conv, jobs)
    BY DEF AInv, CancelRun, Open
  <1>1. "CANCELLED" \in Finished /\ "CANCELLED" \notin Live
    BY DEF Finished, Live
  <1>2. /\ jobs \in [Runs -> JobRows] /\ jobs[r].status \notin Live
        /\ \A q \in Runs \ {r} : jobs[q] = job[q]
    BY <1>0, <1>1, OverIsTyped DEF Sound, Typed, Live
  <1> HIDE DEF jobs
  <1>3. /\ Sound(run', job', conv', business, reading) /\ IdleMeansNoneQueued'
        /\ \A q \in Runs \ {r} : run'[q] = run[q]
    BY <1>0, <1>1, <1>2, CloseKeeps
  <1> QED  BY <1>0, <1>3, BusinessStays, Together

LEMMA SetFollowupKeeps ==
  ASSUME AInv, SetFollowup
  PROVE  AInv'
  <1>0. Sound(run, job, conv, business, reading) /\ IdleMeansNoneQueued
    BY DEF AInv
  <1>1. conv' \in ConvRows /\ conv'.active = conv.active /\ conv'.last = conv.last
    BY <1>0 DEF SetFollowup, Sound, Typed, ConvRows
  <1>2. Sound(run', job', conv', business', reading') /\ IdleMeansNoneQueued'
    BY <1>0, <1>1 DEF SetFollowup, Sound, Typed, JobsFollowRuns, OneIsActive,
                      FollowupsAreCounted, HookIsCurrent, IdleMeansNoneQueued
  <1> QED  BY <1>2, BusinessStays, Together DEF SetFollowup

\* A change of the business moves its state on, and records at most one trigger.
LEMMA ChangeKeeps ==
  ASSUME AInv, (\E event \in BOOLEAN : BusinessChanges(event)) \/ MissionEnds
  PROVE  AInv'
  <1> USE AgentAssumption
  <1>0. /\ Sound(run, job, conv, business, reading) /\ IdleMeansNoneQueued
        /\ business \in [state : States, recorded : States, ended : States \cup {Nothing}]
        /\ business.recorded <= business.state /\ reading \in States \cup {Nothing}
        /\ business.state < MaxChanges /\ UNCHANGED <<run, job, conv, worker, reading>>
    BY DEF AInv, TypeOK, BusinessChanges, MissionEnds
  <1>1. PICK u, v : /\ u \in {business.recorded, business.recorded + 1} /\ v \in States \cup {Nothing}
                    /\ business' = [state |-> business.state + 1, recorded |-> u, ended |-> v]
    <2>1. CASE MissionEnds
      <3>1. business.state + 1 \in States
        BY <1>0 DEF States
      <3>2. business' = [state |-> business.state + 1, recorded |-> business.recorded,
                         ended |-> business.state + 1]
        BY <1>0, <2>1 DEF MissionEnds
      <3> QED  BY <3>1, <3>2
    <2>2. ASSUME NEW event \in BOOLEAN, BusinessChanges(event)
          PROVE  \E u, v : /\ u \in {business.recorded, business.recorded + 1} /\ v \in States \cup {Nothing}
                           /\ business' = [state |-> business.state + 1, recorded |-> u, ended |-> v]
      <3> DEFINE u == IF event /\ conv.enabled THEN business.recorded + 1 ELSE business.recorded
      <3>1. business' = [business EXCEPT !.state = business.state + 1, !.recorded = u]
        BY <2>2 DEF BusinessChanges
      <3>2. u \in {business.recorded, business.recorded + 1}
        OBVIOUS
      <3> HIDE DEF u
      <3>3. business' = [state |-> business.state + 1, recorded |-> u, ended |-> business.ended]
        BY <1>0, <3>1
      <3> QED  BY <1>0, <3>2, <3>3
    <2> QED  BY <2>1, <2>2
  <1>2. /\ business' \in [state : States, recorded : States, ended : States \cup {Nothing}]
        /\ business'.recorded <= business'.state /\ business'.state = business.state + 1
    BY <1>0, <1>1 DEF States
  <1>3. business.state \in Nat
    BY <1>0 DEF States
  <1>4. CoverageIsMarked(run', business')
    <2> SUFFICES ASSUME NEW r \in Runs
                 PROVE  /\ run[r].trigger = "USER" => run[r].print = Nothing
                        /\ run[r].trigger = "FOLLOWUP" =>
                              run[r].status # "NONE" /\ run[r].print \in 0 .. business'.state
      BY <1>0 DEF CoverageIsMarked
    <2>1. \A p : p \in 0 .. business.state => p \in 0 .. business'.state
      BY <1>2, <1>3
    <2> QED  BY <1>0, <2>1 DEF Sound, CoverageIsMarked
  <1>5. HookIsCurrent(conv', business', reading')
    <2>1. \A p \in States : p <= business.state => p <= business'.state
      BY <1>2, <1>3 DEF States
    <2>2. conv.last \in States \cup {Nothing}
      BY <1>0 DEF Sound, Typed, ConvRows
    <2> QED  BY <1>0, <2>1, <2>2 DEF Sound, HookIsCurrent
  <1>6. Sound(run', job', conv', business', reading') /\ IdleMeansNoneQueued'
    BY <1>0, <1>4, <1>5 DEF Sound, Typed, IdleMeansNoneQueued
  <1> QED  BY <1>0, <1>2, <1>6, Together

-----------------------------------------------------------------------------
(* A worker and the lease *)

\* What a worker that holds the lease is at.
LEMMA HeldRun ==
  ASSUME AInv, NEW w \in Workers, worker[w].phase # "idle", Holds(w)
  PROVE  /\ worker[w].run \in Runs /\ job[worker[w].run].status = "RUNNING"
         /\ job[worker[w].run] \in JobRows
         /\ conv.active = worker[w].run
         /\ run[worker[w].run].status \in {"QUEUED", "RUNNING"}
         /\ run[worker[w].run].status \in Open
  <1>1. worker[w].run \in Runs /\ job[worker[w].run].status = "RUNNING"
    BY DEF AInv, Holds
  <1> QED  BY <1>1 DEF AInv, Sound, Typed, JobsFollowRuns, Live, Open

\* A job that is given back, with the attempts it had.
LEMMA AgainIsTyped ==
  ASSUME NEW r \in Runs, job[r] \in JobRows
  PROVE  Again(r) \in JobRows /\ Again(r).status = "WAITING" /\ Again(r).attempts = job[r].attempts
  BY DEF Again, JobRows

LEMMA ClaimKeeps ==
  ASSUME AInv, NEW w \in Workers, NEW r \in Runs, Claim(w, r)
  PROVE  AInv'
  <1>1. job[r].status \in Live /\ job[r] \in JobRows /\ job[r].attempts < AttemptLimit
    BY DEF AInv, Sound, Typed, JobsFollowRuns, Live, Claim
  <1> DEFINE row == [status |-> "RUNNING", owner |-> w, attempts |-> job[r].attempts + 1]
  <1>2. job' = [job EXCEPT ![r] = row]
    BY DEF Claim, AInv, Sound, Typed
  <1>3. row \in JobRows /\ row.status # "WAITING"
    BY <1>1, AgentAssumption DEF JobRows
  <1> HIDE DEF row
  <1>4. Sound(run', job', conv', business, reading) /\ IdleMeansNoneQueued'
    BY <1>1, <1>2, <1>3, JobKeeps DEF Claim
  <1> QED  BY <1>4, BusinessStays, Together DEF Claim

LEMMA StartKeeps ==
  ASSUME AInv, NEW w \in Workers, Start(w)
  PROVE  AInv' /\ run[worker[w].run].status \in Open
         /\ \A q \in Runs \ {worker[w].run} : run'[q] = run[q]
  <1> DEFINE r == worker[w].run
  <1>1. /\ r \in Runs /\ job[r].status = "RUNNING" /\ job[r] \in JobRows /\ conv.active = r
        /\ run[r].status \in Open
    BY HeldRun DEF Start
  <1>2. /\ Unlocked /\ run' = [run EXCEPT ![r].status = "RUNNING"]
        /\ UNCHANGED <<job, conv, business, reading>>
        /\ worker[w].phase = "claimed" /\ worker' = [worker EXCEPT ![w].phase = "working"]
    BY DEF Start
  <1>3. job' = [job EXCEPT ![r] = job[r]]
    BY <1>2 DEF AInv, Sound, Typed
  <1>4. "RUNNING" \in Open
    BY DEF Open
  <1> HIDE DEF r
  <1>5. /\ Sound(run', job', conv', business, reading) /\ IdleMeansNoneQueued'
        /\ \A q \in Runs \ {r} : run'[q] = run[q]
    BY <1>1, <1>2, <1>3, <1>4, StatusKeeps
  <1>6. AInv'
    BY <1>2, <1>5, BusinessStays, Together
  <1> QED  BY <1>1, <1>5, <1>6 DEF r

LEMMA PublishKeeps ==
  ASSUME AInv, NEW w \in Workers, Publish(w)
  PROVE  AInv' /\ run[worker[w].run].status \in Open
         /\ \A q \in Runs \ {worker[w].run} : run'[q] = run[q]
  <1> DEFINE r == worker[w].run
  <1>1. /\ r \in Runs /\ job[r].status = "RUNNING" /\ conv.active = r
        /\ run[r].status \in Open
    BY HeldRun DEF Publish
  <1>2. /\ Unlocked /\ UNCHANGED <<business, reading>> /\ worker' = [worker EXCEPT ![w] = Idle]
        /\ \/ CloseRun(r, "SUCCEEDED", Handled(conv, r), JobDone(r))
           \/ /\ run' = [run EXCEPT ![r].status = "WAITING_INPUT"]
              /\ job' = JobDone(r) /\ UNCHANGED conv
    BY DEF Publish
  <1>3. "SUCCEEDED" \in Finished /\ "SUCCEEDED" \notin Live /\ "WAITING_INPUT" \in Open
        /\ "WAITING" \in Live
    BY DEF Finished, Live, Open
  <1> HIDE DEF r
  <1>4. /\ JobDone(r) = [job EXCEPT ![r] = Over("SUCCEEDED")]
        /\ Over("SUCCEEDED") \in JobRows /\ Over("SUCCEEDED").status = "SUCCEEDED"
    BY <1>3, OverIsTyped DEF JobDone
  <1>5. /\ JobDone(r) \in [Runs -> JobRows] /\ JobDone(r)[r].status \notin Live
        /\ \A q \in Runs \ {r} : JobDone(r)[q] = job[q]
    BY <1>1, <1>3, <1>4 DEF AInv, Sound, Typed
  <1>6. /\ Sound(run', job', conv', business, reading) /\ IdleMeansNoneQueued'
        /\ \A q \in Runs \ {r} : run'[q] = run[q]
    <2>1. CASE CloseRun(r, "SUCCEEDED", Handled(conv, r), JobDone(r))
      BY <1>1, <1>2, <1>3, <1>5, <2>1, CloseKeeps
    <2>2. CASE /\ run' = [run EXCEPT ![r].status = "WAITING_INPUT"]
               /\ job' = JobDone(r) /\ UNCHANGED conv
      <3> DEFINE row == Over("SUCCEEDED")
      <3>1. row \in JobRows /\ row.status \notin Live /\ row.status # "WAITING"
        BY <1>3, <1>4
      <3>2. job' = [job EXCEPT ![r] = row] /\ conv' = conv
        BY <1>4, <2>2
      <3> HIDE DEF row
      <3> QED  BY <1>1, <1>2, <1>3, <2>2, <3>1, <3>2, StatusKeeps
    <2> QED  BY <1>2, <2>1, <2>2
  <1>7. AInv'
    BY <1>2, <1>6, BusinessStays, Together
  <1> QED  BY <1>1, <1>6, <1>7 DEF r

LEMMA FailKeeps ==
  ASSUME AInv, NEW w \in Workers, NEW retryable \in BOOLEAN, Fail(w, retryable)
  PROVE  AInv' /\ run[worker[w].run].status \in Open
         /\ \A q \in Runs \ {worker[w].run} : run'[q] = run[q]
  <1> DEFINE r     == worker[w].run
             again == retryable /\ job[r].attempts < AttemptLimit
             over  == [job EXCEPT ![r] = IF again THEN Again(r) ELSE Over("FAILED")]
  <1>1. /\ r \in Runs /\ job[r].status = "RUNNING" /\ job[r] \in JobRows
        /\ run[r].status \in {"QUEUED", "RUNNING"} /\ run[r].status \in Open
    BY HeldRun DEF Fail
  <1>2. /\ Unlocked /\ UNCHANGED <<business, reading>> /\ worker' = [worker EXCEPT ![w] = Idle]
        /\ IF again \/ run[r].status = "CANCELLED"
           THEN job' = over /\ UNCHANGED <<run, conv>>
           ELSE CloseRun(r, "FAILED", conv, over)
    BY DEF Fail
  <1> HIDE DEF r
  <1>3. /\ Sound(run', job', conv', business, reading) /\ IdleMeansNoneQueued'
        /\ \A q \in Runs \ {r} : run'[q] = run[q]
    <2>1. CASE again
      <3>1. job' = [job EXCEPT ![r] = Again(r)] /\ UNCHANGED <<run, conv>>
        BY <1>2, <2>1
      <3>2. Again(r) \in JobRows /\ Again(r).attempts < AttemptLimit
        BY <1>1, <2>1, AgainIsTyped
      <3> QED  BY <1>1, <3>1, <3>2, JobKeeps DEF Live
    <2>2. CASE ~again
      <3>1. CloseRun(r, "FAILED", conv, over) /\ over = [job EXCEPT ![r] = Over("FAILED")]
        BY <1>1, <1>2, <2>2
      <3>2. "FAILED" \in Finished /\ "FAILED" \notin Live
        BY DEF Finished, Live
      <3>3. /\ over \in [Runs -> JobRows] /\ over[r].status \notin Live
            /\ \A q \in Runs \ {r} : over[q] = job[q]
        BY <1>1, <3>1, <3>2, OverIsTyped DEF AInv, Sound, Typed
      <3> HIDE DEF over
      <3> QED  BY <1>1, <1>2, <3>1, <3>2, <3>3, CloseKeeps
    <2> QED  BY <2>1, <2>2
  <1>4. AInv'
    BY <1>2, <1>3, BusinessStays, Together
  <1> QED  BY <1>1, <1>3, <1>4 DEF r

LEMMA GiveUpKeeps ==
  ASSUME AInv, NEW w \in Workers, GiveUp(w)
  PROVE  AInv'
  <1>1. Sound(run', job', conv', business', reading') /\ IdleMeansNoneQueued'
    BY DEF AInv, GiveUp, IdleMeansNoneQueued
  <1> QED  BY <1>1, BusinessStays, Together DEF GiveUp

LEMMA ExpireKeeps ==
  ASSUME AInv, NEW r \in Runs, Expire(r)
  PROVE  AInv'
  <1> DEFINE row == IF job[r].attempts < AttemptLimit THEN Again(r) ELSE Over("FAILED")
  <1>1. job[r] \in JobRows /\ job[r].status \in Live
    BY DEF AInv, Sound, Typed, Expire, Live
  <1>2. job' = [job EXCEPT ![r] = row]
    BY DEF Expire, AInv, Sound, Typed
  <1>3. row \in JobRows /\ (row.status = "WAITING" => row.attempts < AttemptLimit)
    <2>1. "FAILED" \in Finished /\ "FAILED" # "WAITING"
      BY DEF Finished
    <2>2. CASE job[r].attempts < AttemptLimit
      BY <1>1, <2>2, AgainIsTyped
    <2>3. CASE ~(job[r].attempts < AttemptLimit)
      BY <2>1, <2>3, OverIsTyped
    <2> QED  BY <2>2, <2>3
  <1> HIDE DEF row
  <1>4. Sound(run', job', conv', business, reading) /\ IdleMeansNoneQueued'
    BY <1>1, <1>2, <1>3, JobKeeps DEF Expire
  <1> QED  BY <1>4, BusinessStays, Together DEF Expire

-----------------------------------------------------------------------------
(* The hook *)

LEMMA ReconcileKeeps ==
  ASSUME AInv, Reconcile
  PROVE  AInv' /\ conv.active \in Runs /\ run[conv.active].status \in Open
         /\ \A q \in Runs \ {conv.active} : run'[q] = run[q]
  <1> DEFINE r == conv.active
  <1>1. /\ Unlocked /\ r # NoRun /\ run[r].status \in {"QUEUED", "RUNNING"}
        /\ job[r].status \in {"FAILED", "CANCELLED"} /\ CloseRun(r, "FAILED", conv, job)
        /\ UNCHANGED <<worker, business, reading>>
    BY DEF Reconcile
  <1>2. r \in Runs /\ job \in [Runs -> JobRows]
    BY <1>1 DEF AInv, Sound, Typed, ConvRows
  <1>3. run[r].status \in Open /\ job[r].status \notin Live /\ "FAILED" \in Finished
    BY <1>1 DEF Open, Live, Finished
  <1> HIDE DEF r
  <1>4. /\ Sound(run', job', conv', business, reading) /\ IdleMeansNoneQueued'
        /\ \A q \in Runs \ {r} : run'[q] = run[q]
    BY <1>1, <1>2, <1>3, CloseKeeps
  <1>5. AInv'
    BY <1>1, <1>4, BusinessStays, Together
  <1> QED  BY <1>2, <1>3, <1>4, <1>5 DEF r

LEMMA ReadKeeps ==
  ASSUME AInv, ReadBusiness
  PROVE  AInv'
  <1>1. /\ Sound(run, job, conv, business, Nothing) /\ IdleMeansNoneQueued
        /\ conv.active = NoRun /\ reading' = business.state
        /\ UNCHANGED <<run, job, conv, worker, business>>
        /\ business.state \in States
    BY DEF AInv, TypeOK, ReadBusiness, Unlocked
  <1>2. HookIsCurrent(conv, business, business.state)
    BY <1>1 DEF Sound, HookIsCurrent, States
  <1>3. Sound(run', job', conv', business', reading') /\ IdleMeansNoneQueued'
    BY <1>1, <1>2 DEF Sound, IdleMeansNoneQueued
  <1>4. /\ business' \in [state : States, recorded : States, ended : States \cup {Nothing}]
        /\ business'.recorded <= business'.state
    BY <1>1 DEF AInv, TypeOK
  <1> QED  BY <1>1, <1>3, <1>4, Together

\* The follow-up that starts covers more than any before: the conversation is
\* idle, so each of them ended and was counted, and the business was read since.
LEMMA FollowupKeeps ==
  ASSUME AInv, ~Unlocked, NEW r \in Runs, NewRun(r), reading # conv.last,
         Promote(conv, job, [run EXCEPT ![r] = [status |-> "QUEUED", trigger |-> "FOLLOWUP",
                                                mark |-> Watermark, print |-> reading]])
  PROVE  /\ Sound(run', job', conv', business, Nothing) /\ IdleMeansNoneQueued'
         /\ \A q \in Runs \ {r} : run'[q] = run[q]
  <1> DEFINE row  == [status |-> "QUEUED", trigger |-> "FOLLOWUP",
                      mark |-> Watermark, print |-> reading]
             rows == [run EXCEPT ![r] = row]
  <1>0. /\ Typed(run, job, conv) /\ JobsFollowRuns(run, job, conv) /\ OneIsActive(run, conv)
        /\ CoverageIsMarked(run, business) /\ FollowupsAreCounted(run, conv)
        /\ PrintsDiffer(run) /\ HookIsCurrent(conv, business, reading)
        /\ reading \in States /\ reading # Nothing
        /\ business \in [state : States, recorded : States, ended : States \cup {Nothing}]
    BY DEF AInv, TypeOK, Sound, Unlocked
  <1>1. conv.active = NoRun /\ \A q \in Runs : run[q].status # "QUEUED"
    BY <1>0 DEF AInv, HookIsCurrent, IdleMeansNoneQueued
  <1>2. Watermark \in States
    BY <1>0, AgentAssumption DEF Watermark, States
  <1>3. row \in RunRows
    BY <1>0, <1>2 DEF RunRows
  <1>4. row.status = "QUEUED" /\ row.trigger = "FOLLOWUP" /\ row.print = reading
    OBVIOUS
  <1> HIDE DEF row
  <1>5. /\ rows \in [Runs -> RunRows] /\ rows[r] = row
        /\ \A q \in Runs \ {r} : rows[q] = run[q]
    BY <1>0, <1>3 DEF Typed
  <1>6. Promote(conv, job, rows)
    BY DEF row
  <1> HIDE DEF rows
  <1>7. \A q \in Runs : q # NoRun
    BY DEF Runs, NoRun
  <1>8. /\ run' = rows /\ conv' = [conv EXCEPT !.active = r]
        /\ job' = [job EXCEPT ![r] = NewJob]
    BY <1>0, <1>1, <1>4, <1>5, <1>6, Promotion DEF Typed
  <1>9. conv' \in ConvRows /\ conv'.active = r /\ conv'.last = conv.last
    BY <1>0, <1>8 DEF Typed, ConvRows
  <1>10. /\ job' \in [Runs -> JobRows] /\ job'[r] = NewJob
         /\ \A q \in Runs \ {r} : job'[q] = job[q]
    BY <1>0, <1>8, NewJobIsTyped DEF Typed
  <1>11. JobsFollowRuns(run', job', conv')
    BY <1>0, <1>1, <1>4, <1>5, <1>7, <1>8, <1>9, <1>10, NewJobIsTyped, AgentAssumption
       DEF JobsFollowRuns
  <1>12. OneIsActive(run', conv') /\ IdleMeansNoneQueued'
    BY <1>0, <1>1, <1>4, <1>5, <1>7, <1>8, <1>9
       DEF OneIsActive, IdleMeansNoneQueued, Open
  <1>13. \A q \in Runs \ {r} : run[q].trigger = "FOLLOWUP" =>
            run[q].status \in Finished /\ run[q].print < reading
    <2> SUFFICES ASSUME NEW q \in Runs \ {r}, run[q].trigger = "FOLLOWUP"
                 PROVE  run[q].status \in Finished /\ run[q].print < reading
      OBVIOUS
    <2>1. run[q].status \in Finished /\ conv.last # Nothing /\ run[q].print <= conv.last
      BY <1>0, <1>1, <1>7 DEF FollowupsAreCounted
    <2>2. conv.last <= reading /\ conv.last \in Nat /\ reading \in Nat
      BY <1>0, <2>1 DEF HookIsCurrent, Typed, ConvRows, States
    <2>3. run[q].print \in Nat
      BY <1>0 DEF CoverageIsMarked
    <2> QED  BY <2>1, <2>2, <2>3
  <1>14. CoverageIsMarked(run', business)
    <2>1. reading \in 0 .. business.state
      BY <1>0 DEF HookIsCurrent, States
    <2> QED  BY <1>0, <1>4, <1>5, <1>8, <2>1 DEF CoverageIsMarked
  <1>15. PrintsDiffer(run')
    <2>1. \A q \in Runs \ {r} : run[q].trigger = "FOLLOWUP" => run[q].print # reading
      BY <1>0, <1>13 DEF States
    <2> QED  BY <1>0, <1>4, <1>5, <1>8, <2>1 DEF PrintsDiffer
  <1>16. FollowupsAreCounted(run', conv')
    <2>1. conv.last = Nothing \/ conv.last < reading
      BY <1>0 DEF HookIsCurrent, Typed, ConvRows, States
    <2>2. "QUEUED" \notin Finished
      BY DEF Finished
    <2>3. ASSUME NEW q \in Runs \ {r}, run[q].trigger = "FOLLOWUP"
          PROVE  run[q].status \in Finished /\ conv.last # Nothing /\ run[q].print <= conv.last
      BY <1>0, <1>13, <2>3 DEF FollowupsAreCounted
    <2> QED
      BY <1>4, <1>5, <1>8, <1>9, <1>13, <2>1, <2>2, <2>3 DEF FollowupsAreCounted
  <1>17. HookIsCurrent(conv', business, Nothing)
    BY <1>0, <1>9 DEF HookIsCurrent
  <1> QED
    BY <1>5, <1>8, <1>9, <1>10, <1>11, <1>12, <1>14, <1>15, <1>16, <1>17 DEF Sound, Typed

LEMMA DispatchKeeps ==
  ASSUME AInv, NEW r \in Runs, Dispatch(r)
  PROVE  AInv' /\ \A q \in Runs \ {r} : run'[q] = run[q]
  <1>0. /\ Sound(run, job, conv, business, reading) /\ IdleMeansNoneQueued
        /\ ~Unlocked /\ NewRun(r) /\ reading' = Nothing /\ UNCHANGED <<worker, business>>
        /\ business \in [state : States, recorded : States, ended : States \cup {Nothing}]
        /\ business.recorded <= business.state /\ conv \in ConvRows
    BY DEF AInv, TypeOK, Dispatch
  <1>1. /\ Sound(run', job', conv', business, Nothing) /\ IdleMeansNoneQueued'
        /\ \A q \in Runs \ {r} : run'[q] = run[q]
    <2>1. CASE /\ conv' = [conv EXCEPT !.consumed = Later(@, Watermark)]
               /\ UNCHANGED <<run, job>>
      <3>1. Later(conv.consumed, Watermark) \in States
        BY <1>0, AgentAssumption DEF Later, Watermark, ConvRows, States
      <3>2. conv' \in ConvRows /\ conv'.active = conv.active /\ conv'.last = conv.last
        BY <1>0, <2>1, <3>1 DEF ConvRows
      <3> QED
        BY <1>0, <2>1, <3>2 DEF Sound, Typed, JobsFollowRuns, OneIsActive,
                                FollowupsAreCounted, HookIsCurrent, IdleMeansNoneQueued
    <2>2. CASE UNCHANGED <<run, job, conv>>
      BY <1>0, <2>2 DEF Sound, HookIsCurrent, IdleMeansNoneQueued
    <2>3. CASE /\ reading # conv.last
               /\ Promote(conv, job, [run EXCEPT ![r] =
                     [status |-> "QUEUED", trigger |-> "FOLLOWUP", mark |-> Watermark,
                      print |-> reading]])
      BY <1>0, <2>3, FollowupKeeps
    <2> QED  BY <2>1, <2>2, <2>3 DEF Dispatch
  <1>2. Sound(run', job', conv', business', reading')
    BY <1>0, <1>1
  <1> QED  BY <1>0, <1>1, <1>2, Together

-----------------------------------------------------------------------------
(* Every step *)

LEMMA InitIsSound == Init => AInv
  <1> SUFFICES ASSUME Init PROVE AInv
    OBVIOUS
  <1> USE AgentAssumption
  <1>1. NotCreated \in RunRows /\ NoJob \in JobRows /\ Idle \in WorkerStates
    BY DEF NotCreated, RunRows, States, NoJob, JobRows, Idle, WorkerStates
  <1>2. conv \in ConvRows
    BY DEF Init, ConvRows, States
  <1>3. Typed(run, job, conv)
    BY <1>1, <1>2 DEF Init, Typed
  <1>4. business \in [state : States, recorded : States, ended : States \cup {Nothing}]
        /\ reading \in States \cup {Nothing} /\ business.recorded <= business.state
    BY DEF Init, States
  <1>5. Sound(run, job, conv, business, reading)
    BY <1>3 DEF Init, Sound, JobsFollowRuns, OneIsActive, CoverageIsMarked,
                FollowupsAreCounted, PrintsDiffer, HookIsCurrent, NotCreated, NoJob, Live
  <1>6. IdleMeansNoneQueued
    BY DEF Init, IdleMeansNoneQueued, NotCreated
  <1>7. worker \in [Workers -> WorkerStates]
        /\ \A w \in Workers : worker[w].phase # "idle" => worker[w].run \in Runs
    BY <1>1 DEF Init, Idle
  <1> QED  BY <1>3, <1>4, <1>5, <1>6, <1>7 DEF AInv, TypeOK, Typed

\* A step leaves every run that ended as it is.
LEMMA StepKeeps ==
  ASSUME AInv, Next
  PROVE  AInv' /\ \A q \in Runs : run[q].status \in Finished => run'[q] = run[q]
  <1>0. /\ \A q \in Runs : run[q].status \in Open \cup {"NONE"} => run[q].status \notin Finished
        /\ \A q \in Runs : run[q].status = "WAITING_INPUT" => run[q].status \in Open
    BY DEF Open, Finished
  <1>1. ASSUME NEW r \in Runs, NewRun(r)
        PROVE  run[r].status = "NONE"
    <2>1. r \notin 1 .. r - 1
      BY DEF Runs
    <2> QED  BY <1>1, <2>1 DEF NewRun, Created
  <1>2. ASSUME NEW r \in Runs,
               SendMessage(r) \/ Resume(r) \/ CancelRun(r) \/ Expire(r) \/ Dispatch(r)
        PROVE  AInv' /\ \A q \in Runs : run[q].status \in Finished => run'[q] = run[q]
    <2>1. CASE SendMessage(r)
      BY <1>0, <1>1, <2>1, SendKeeps DEF SendMessage
    <2>2. CASE Resume(r)
      BY <1>0, <2>2, ResumeKeeps DEF Resume
    <2>3. CASE CancelRun(r)
      BY <1>0, <2>3, CancelKeeps
    <2>4. CASE Expire(r)
      BY <2>4, ExpireKeeps DEF Expire
    <2>5. CASE Dispatch(r)
      BY <1>0, <1>1, <2>5, DispatchKeeps DEF Dispatch
    <2> QED  BY <1>2, <2>1, <2>2, <2>3, <2>4, <2>5
  <1>3. CASE SetFollowup
    BY <1>3, SetFollowupKeeps DEF SetFollowup
  <1>4. CASE (\E event \in BOOLEAN : BusinessChanges(event)) \/ MissionEnds
    <2>1. run' = run
      BY <1>4 DEF BusinessChanges, MissionEnds
    <2> QED  BY <1>4, <2>1, ChangeKeeps
  <1>5. ASSUME NEW w \in Workers, WorkerStep(w)
        PROVE  AInv' /\ \A q \in Runs : run[q].status \in Finished => run'[q] = run[q]
    <2>1. ASSUME NEW r \in Runs, Claim(w, r)
          PROVE  AInv' /\ run' = run
      BY <2>1, ClaimKeeps DEF Claim
    <2>2. CASE Start(w)
      BY <1>0, <2>2, StartKeeps
    <2>3. CASE Publish(w)
      BY <1>0, <2>3, PublishKeeps
    <2>4. CASE GiveUp(w)
      BY <2>4, GiveUpKeeps DEF GiveUp
    <2>5. ASSUME NEW retryable \in BOOLEAN, Fail(w, retryable)
          PROVE  AInv' /\ \A q \in Runs : run[q].status \in Finished => run'[q] = run[q]
      BY <1>0, <2>5, FailKeeps
    <2> QED  BY <1>5, <2>1, <2>2, <2>3, <2>4, <2>5 DEF WorkerStep
  <1>6. CASE Reconcile
    BY <1>0, <1>6, ReconcileKeeps
  <1>7. CASE ReadBusiness
    BY <1>7, ReadKeeps DEF ReadBusiness
  <1> QED  BY <1>2, <1>3, <1>4, <1>5, <1>6, <1>7 DEF Next

\* Every state of a conversation satisfies the invariant.
THEOREM ConversationInvariant == Spec => []AInv
  <1>1. AInv /\ UNCHANGED vars => AInv'
    BY DEF vars, AInv, TypeOK, IdleMeansNoneQueued
  <1> QED  BY InitIsSound, StepKeeps, <1>1, PTL DEF Spec

\* Runs, jobs, conversation and workers keep their types.
THEOREM ConversationTypes == Spec => []TypeOK
  <1>1. AInv => TypeOK
    BY DEF AInv
  <1> QED  BY ConversationInvariant, <1>1, PTL

\* No message waits beside an idle conversation: whatever ends a run, its user,
\* its worker or the hook, the oldest queued one takes its place
\* (repository.py close_run, promote).
THEOREM NoneWaitsForNothing == Spec => []IdleMeansNoneQueued
  <1>1. AInv => IdleMeansNoneQueued
    BY DEF AInv
  <1> QED  BY ConversationInvariant, <1>1, PTL

\* A follow-up that ended, with or without an answer, is not made again for the
\* same state of the business (triggers.py dispatch_followups): the follow-up
\* under way covers more than all others, and what ended is counted.
THEOREM NothingIsFollowedTwice == Spec => []FollowupsDiffer
  <1>1. AInv => FollowupsDiffer
    BY DEF AInv, Sound, PrintsDiffer, FollowupsDiffer, Followups
  <1> QED  BY ConversationInvariant, <1>1, PTL

\* A run that ended is never published, asked about or ended again, though its
\* worker may not know yet (jobs.py run, apply): only a live job publishes or
\* fails a run, and a run's live job ends with it.
THEOREM EndedIsEnded == Spec => EndedRunsStay
  <1>1. AInv /\ [Next]_vars
          => [\A r \in Runs : run[r].status \in Finished => run'[r] = run[r]]_vars
    BY StepKeeps
  <1> QED  BY ConversationInvariant, <1>1, PTL DEF Spec, EndedRunsStay
=============================================================================
