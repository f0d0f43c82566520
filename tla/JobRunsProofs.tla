---------------------------- MODULE JobRunsProofs ----------------------------
(***************************************************************************)
(* Proofs about JobRuns for any number of jobs, slots and attempts.        *)
(***************************************************************************)
EXTENDS JobRuns, TLAPS

\* A slot at work that still holds its row carries the row's newest attempt.
LEMMA HoldersAreNewest ==
    ASSUME IInv, NEW s \in Slots, run[s].pc # "idle", Holds(s)
    PROVE  /\ run[s].job \in Jobs
           /\ status[run[s].job] = "RUNNING"
           /\ run[s].tok = attempts[run[s].job]
<1>1. run[s].job \in Jobs
  BY DEF IInv, TypeOK, Runs, Working, Idle
<1> QED
  BY <1>1 DEF Holds, Owned, IInv, TokenNamesAttempt

\* What a slot at work may turn its record into keeps its type.
LEMMA RunUpdates ==
    ASSUME NEW r \in Runs, r.pc # "idle"
    PROVE  /\ [r EXCEPT !.lost = TRUE] \in Runs
           /\ [r EXCEPT !.pc = "publishing"] \in Runs
           /\ \A b \in BOOLEAN : Raised(r, b) \in Runs
<1>1. r \in Working
  BY DEF Runs, Idle
<1>2. /\ [r EXCEPT !.lost = TRUE] \in Working
      /\ [r EXCEPT !.pc = "publishing"] \in Working
  BY <1>1 DEF Working
<1>3. ASSUME NEW b \in BOOLEAN
      PROVE  [r EXCEPT !.pc = "raised", !.again = b] \in Working
  BY <1>1 DEF Working
<1> QED
  BY <1>2, <1>3 DEF Raised, Runs

\* The initial state satisfies the strengthened invariant.
LEMMA InitIInv == Init => IInv
BY JobRunsAssumption
   DEF Init, IInv, TypeOK, TokenNamesAttempt, FailuresAreOlder,
       OnlyNewestAttemptPublishes, AttemptBudget, Open, Waiting, Terminal,
       Tokens, Runs, Idle

\* Every step preserves the strengthened invariant.
LEMMA StepIInv == IInv /\ [Next]_vars => IInv'
<1> SUFFICES ASSUME IInv, [Next]_vars
             PROVE  IInv'
  OBVIOUS
<1> USE JobRunsAssumption
<1>1. ASSUME NEW j \in Jobs, Enqueue(j)
      PROVE  IInv'
  <2>1. TypeOK'
    BY <1>1 DEF Enqueue, history, IInv, TypeOK, Open, Waiting
  <2>2. attempts[j] < MaxAttempts
    BY <1>1 DEF Enqueue, IInv, AttemptBudget
  <2> QED
    BY <1>1, <2>1, <2>2 DEF Enqueue, history, IInv, TypeOK, TokenNamesAttempt,
         FailuresAreOlder, OnlyNewestAttemptPublishes, AttemptBudget, Open,
         Waiting, Terminal, Tokens
<1>2. ASSUME NEW j \in Jobs, Cancel(j)
      PROVE  IInv'
  BY <1>2 DEF Cancel, history, IInv, TypeOK, TokenNamesAttempt,
       FailuresAreOlder, OnlyNewestAttemptPublishes, AttemptBudget, Open,
       Waiting, Terminal, Tokens
<1>3. ASSUME NEW j \in Jobs, BecomesDue(j)
      PROVE  IInv'
  BY <1>3 DEF BecomesDue, history, IInv, TypeOK, TokenNamesAttempt,
       FailuresAreOlder, OnlyNewestAttemptPublishes, AttemptBudget
<1>4. ASSUME NEW j \in Jobs, LeaseExpires(j)
      PROVE  IInv'
  BY <1>4 DEF LeaseExpires, history, IInv, TypeOK, TokenNamesAttempt,
       FailuresAreOlder, OnlyNewestAttemptPublishes, AttemptBudget
<1>5. ASSUME NEW s \in Slots, NEW R \in SUBSET Expired, RecoverOnly(s, R)
      PROVE  IInv'
  BY <1>5 DEF RecoverOnly, RecoveredStatus, RecoveredToken, RecoveredDue,
       Expired, history, IInv, TypeOK, TokenNamesAttempt, FailuresAreOlder,
       OnlyNewestAttemptPublishes, AttemptBudget, Open, Waiting, Terminal,
       Tokens
<1>6. ASSUME NEW s \in Slots, NEW R \in SUBSET Expired, NEW j \in Jobs,
             RecoverAndClaim(s, R, j)
      PROVE  IInv'
  <2> USE DEF RecoverAndClaim, RecoveredStatus, RecoveredToken, RecoveredDue,
              Expired, history, IInv, TypeOK, Waiting, Tokens
  <2>1. attempts[j] < MaxAttempts
    BY <1>6 DEF AttemptBudget
  <2>2. TypeOK'
    <3>1. Claimed(j, attempts[j] + 1) \in Runs
      BY <2>1 DEF Claimed, Runs, Working
    <3> QED
      BY <1>6, <2>1, <3>1 DEF Open, Terminal
  <2>3. TokenNamesAttempt'
    BY <1>6, <2>1 DEF TokenNamesAttempt
  <2>4. FailuresAreOlder'
    BY <1>6, <2>1 DEF FailuresAreOlder
  <2>5. OnlyNewestAttemptPublishes'
    BY <1>6, <2>1 DEF OnlyNewestAttemptPublishes
  <2>6. AttemptBudget'
    BY <1>6, <2>1 DEF AttemptBudget
  <2> QED
    BY <2>2, <2>3, <2>4, <2>5, <2>6
<1>7. ASSUME NEW s \in Slots,
             \/ RenewalFails(s)
             \/ RunReturns(s)
             \/ HandlerRaises(s)
             \/ Crash(s)
      PROVE  IInv'
  <2>1. UNCHANGED <<row, history>>
    BY <1>7 DEF RenewalFails, RunReturns, HandlerRaises, Crash
  <2>2. run' \in [Slots -> Runs]
    <3>1. run[s] \in Runs /\ run[s].pc # "idle" /\ run \in [Slots -> Runs]
      BY <1>7 DEF RenewalFails, RunReturns, HandlerRaises, Crash, IInv, TypeOK
    <3>2. \E r \in Runs : run' = [run EXCEPT ![s] = r]
      <4>1. CASE RenewalFails(s)
        BY <4>1, <3>1, RunUpdates DEF RenewalFails
      <4>2. CASE RunReturns(s)
        BY <4>2, <3>1, RunUpdates DEF RunReturns, Runs
      <4>3. CASE HandlerRaises(s)
        BY <4>3, <3>1, RunUpdates DEF HandlerRaises
      <4>4. CASE Crash(s)
        BY <4>4 DEF Crash, Runs
      <4> QED
        BY <1>7, <4>1, <4>2, <4>3, <4>4
    <3> QED
      BY <3>1, <3>2
  <2> QED
    BY <2>1, <2>2 DEF row, history, IInv, TypeOK, TokenNamesAttempt,
         FailuresAreOlder, OnlyNewestAttemptPublishes, AttemptBudget
<1>8. ASSUME NEW s \in Slots, Publish(s) \/ PublishUnacknowledged(s)
      PROVE  IInv'
  <2>1. run' \in [Slots -> Runs]
    <3>1. run[s] \in Runs /\ run[s].pc # "idle" /\ run \in [Slots -> Runs]
      BY <1>8 DEF Publish, PublishUnacknowledged, IInv, TypeOK
    <3>2. \E r \in Runs : run' = [run EXCEPT ![s] = r]
      BY <1>8, <3>1, RunUpdates DEF Publish, PublishUnacknowledged, Runs
    <3> QED
      BY <3>1, <3>2
  <2>2. CASE UNCHANGED <<row, history>>
    BY <2>1, <2>2 DEF row, history, IInv, TypeOK, TokenNamesAttempt,
         FailuresAreOlder, OnlyNewestAttemptPublishes, AttemptBudget
  <2>3. CASE Holds(s) /\ CommitResult(run[s].job, run[s].tok)
    <3>1. run[s].pc # "idle"
      BY <1>8 DEF Publish, PublishUnacknowledged
    <3>2. /\ run[s].job \in Jobs
          /\ status[run[s].job] = "RUNNING"
          /\ run[s].tok = attempts[run[s].job]
      BY <2>3, <3>1, HoldersAreNewest
    <3> USE <2>3, <3>2 DEF CommitResult, IInv, TypeOK
    <3>3. TypeOK'
      BY <2>1 DEF Terminal, Tokens
    <3>4. TokenNamesAttempt'
      BY DEF TokenNamesAttempt
    <3>5. FailuresAreOlder'
      BY DEF FailuresAreOlder
    <3>6. OnlyNewestAttemptPublishes'
      <4>1. published[run[s].job] = {}
        BY DEF OnlyNewestAttemptPublishes
      <4>2. published' = [published EXCEPT ![run[s].job] = {attempts[run[s].job]}]
        BY <4>1
      <4> QED
        BY <4>2 DEF OnlyNewestAttemptPublishes
    <3>7. AttemptBudget'
      BY DEF AttemptBudget, Waiting
    <3> QED
      BY <3>3, <3>4, <3>5, <3>6, <3>7
  <2> QED
    BY <1>8, <2>2, <2>3 DEF Publish, PublishUnacknowledged
<1>9. ASSUME NEW s \in Slots, RecordFailure(s)
      PROVE  IInv'
  <2>1. run' \in [Slots -> Runs]
    BY <1>9 DEF RecordFailure, IInv, TypeOK, Runs
  <2>2. CASE UNCHANGED <<row, history>>
    BY <2>1, <2>2 DEF row, history, IInv, TypeOK, TokenNamesAttempt,
         FailuresAreOlder, OnlyNewestAttemptPublishes, AttemptBudget
  <2>3. CASE Holds(s) /\ FailRow(run[s].job, run[s].tok, run[s].again)
    <3>1. run[s].pc # "idle"
      BY <1>9 DEF RecordFailure
    <3>2. /\ run[s].job \in Jobs
          /\ status[run[s].job] = "RUNNING"
          /\ run[s].tok = attempts[run[s].job]
      BY <2>3, <3>1, HoldersAreNewest
    <3> USE <2>3, <3>2 DEF FailRow, IInv, TypeOK
    <3>3. TypeOK'
      <4>1. \E st \in {"RETRY_WAIT", "FAILED"} :
               status' = [status EXCEPT ![run[s].job] = st]
        OBVIOUS
      <4>2. status' \in [Jobs -> {"ABSENT"} \cup Open \cup Terminal]
        BY <4>1 DEF Open, Waiting, Terminal
      <4>3. due' \in [Jobs -> BOOLEAN]
        OBVIOUS
      <4>4. failed' \in [Jobs -> SUBSET Tokens]
        BY DEF Tokens
      <4>5. token' \in [Jobs -> Tokens] /\ live' \in [Jobs -> BOOLEAN]
        BY DEF Tokens
      <4> QED
        BY <2>1, <4>2, <4>3, <4>4, <4>5
    <3>4. TokenNamesAttempt'
      BY DEF TokenNamesAttempt
    <3>5. FailuresAreOlder'
      BY DEF FailuresAreOlder, Tokens
    <3>6. OnlyNewestAttemptPublishes'
      BY DEF OnlyNewestAttemptPublishes
    <3>7. AttemptBudget'
      BY DEF AttemptBudget, Waiting
    <3> QED
      BY <3>3, <3>4, <3>5, <3>6, <3>7
  <2> QED
    BY <1>9, <2>2, <2>3 DEF RecordFailure
<1>10. ASSUME UNCHANGED vars
       PROVE  IInv'
  BY <1>10 DEF vars, row, history, IInv, TypeOK, TokenNamesAttempt,
       FailuresAreOlder, OnlyNewestAttemptPublishes, AttemptBudget
<1> QED
  BY <1>1, <1>2, <1>3, <1>4, <1>5, <1>6, <1>7, <1>8, <1>9, <1>10 DEF Next

\* The strengthened invariant holds in every reachable state.
THEOREM Invariance == Spec => []IInv
BY InitIInv, StepIInv, PTL DEF Spec

\* Every variable of the queue keeps its type (repository.py, runner.py).
THEOREM TypeCorrect == Spec => []TypeOK
<1>1. IInv => TypeOK
  BY DEF IInv
<1> QED
  BY <1>1, Invariance, PTL

\* A job's result is published once, by the claim that then holds the row.
THEOREM PublicationIsFenced == Spec => []OnlyNewestAttemptPublishes
<1>1. IInv => OnlyNewestAttemptPublishes
  BY DEF IInv
<1> QED
  BY <1>1, Invariance, PTL

\* No attempt leaves both a result and a failure behind, whatever the slot
\* was told about its commit.
THEOREM AttemptsHaveOneOutcome == Spec => []OneOutcomePerAttempt
<1>1. IInv => OneOutcomePerAttempt
  <2> SUFFICES ASSUME IInv, NEW j \in Jobs
               PROVE  /\ published[j] \cap failed[j] = {}
                      /\ status[j] = "RUNNING" =>
                            attempts[j] \notin published[j] \cup failed[j]
    BY DEF OneOutcomePerAttempt
  <2>1. attempts[j] \in Nat
    BY JobRunsAssumption DEF IInv, TypeOK, Tokens
  <2>2. status[j] \in {"RUNNING", "SUCCEEDED"} => attempts[j] \notin failed[j]
    BY <2>1 DEF IInv, FailuresAreOlder
  <2> QED
    BY <2>2 DEF IInv, OnlyNewestAttemptPublishes
<1> QED
  BY <1>1, Invariance, PTL

\* No row is claimed more often than the retry budget allows.
THEOREM BudgetIsKept == Spec => []AttemptBudget
<1>1. IInv => AttemptBudget
  BY DEF IInv
<1> QED
  BY <1>1, Invariance, PTL

\* How a step may change the status of a row and its histories: what the
\* action properties and the implementation proof need to know of Next.
LEMMA StepEffects ==
    ASSUME IInv, [Next]_vars, NEW j \in Jobs
    PROVE  /\ status[j] \in Terminal => status'[j] = status[j]
           /\ failed'[j] \ failed[j] \subseteq
                 (IF status[j] = "RUNNING" THEN {attempts[j]} ELSE {})
<1> USE DEF Terminal, Waiting, IInv, TypeOK
<1>1. CASE \E k \in Jobs :
             Enqueue(k) \/ Cancel(k) \/ BecomesDue(k) \/ LeaseExpires(k)
  BY <1>1 DEF Enqueue, Cancel, BecomesDue, LeaseExpires, history
<1>2. CASE \E s \in Slots, R \in SUBSET Expired : RecoverOnly(s, R)
  BY <1>2 DEF RecoverOnly, RecoveredStatus, Expired, history
<1>3. CASE \E s \in Slots, R \in SUBSET Expired, k \in Jobs :
             RecoverAndClaim(s, R, k)
  BY <1>3 DEF RecoverAndClaim, RecoveredStatus, Expired, history
<1>4. CASE \E s \in Slots : \/ RenewalFails(s)
                            \/ RunReturns(s)
                            \/ HandlerRaises(s)
                            \/ Crash(s)
  BY <1>4 DEF RenewalFails, RunReturns, HandlerRaises, Crash, row, history
<1>5. CASE \E s \in Slots : Publish(s) \/ PublishUnacknowledged(s)
  <2>1. PICK s \in Slots : Publish(s) \/ PublishUnacknowledged(s)
    BY <1>5
  <2>2. CASE UNCHANGED <<row, history>>
    BY <2>2 DEF row, history
  <2>3. CASE Holds(s) /\ CommitResult(run[s].job, run[s].tok)
    <3>1. status[run[s].job] = "RUNNING"
      BY <2>1, <2>3, HoldersAreNewest DEF Publish, PublishUnacknowledged
    <3> QED
      BY <2>3, <3>1 DEF CommitResult
  <2> QED
    BY <2>1, <2>2, <2>3 DEF Publish, PublishUnacknowledged
<1>6. CASE \E s \in Slots : RecordFailure(s)
  <2>1. PICK s \in Slots : RecordFailure(s)
    BY <1>6
  <2>2. CASE UNCHANGED <<row, history>>
    BY <2>2 DEF row, history
  <2>3. CASE Holds(s) /\ FailRow(run[s].job, run[s].tok, run[s].again)
    <3>1. /\ status[run[s].job] = "RUNNING"
          /\ run[s].tok = attempts[run[s].job]
      BY <2>1, <2>3, HoldersAreNewest DEF RecordFailure
    <3>2. failed' = [failed EXCEPT ![run[s].job] = @ \cup {run[s].tok}]
      BY <2>3 DEF FailRow
    <3>3. status'[j] # status[j] => run[s].job = j
      BY <2>3 DEF FailRow
    <3> QED
      BY <3>1, <3>2, <3>3
  <2> QED
    BY <2>1, <2>2, <2>3 DEF RecordFailure
<1>7. CASE UNCHANGED vars
  BY <1>7 DEF vars, row, history
<1> QED
  BY <1>1, <1>2, <1>3, <1>4, <1>5, <1>6, <1>7 DEF Next

\* A finished row is never taken up again.
THEOREM TerminalIsFinal == Spec => FinishedStaysFinished
<1>1. IInv /\ [Next]_vars =>
         [\A j \in Jobs : status[j] \in Terminal => status'[j] = status[j]]_vars
  BY StepEffects
<1> QED
  BY <1>1, Invariance, PTL DEF Spec, FinishedStaysFinished

\* An on_error hook commits only for the claim that holds the row.
THEOREM FailuresAreFenced == Spec => FailuresAreCurrent
<1>1. IInv /\ [Next]_vars =>
         [\A j \in Jobs : failed'[j] \ failed[j] \subseteq
             (IF status[j] = "RUNNING" THEN {attempts[j]} ELSE {})]_vars
  BY StepEffects
<1> QED
  BY <1>1, Invariance, PTL DEF Spec, FailuresAreCurrent

\* The queue implements the abstract job: every claim, renewal, retry and
\* recovery is a stutter of JobOutcome, every commit one of its steps.
THEOREM Refinement == Spec => ImplementsOutcome
<1>1. Init => Outcome!Init
  BY DEF Init, Outcome!Init, phaseBar, visibleBar, PhaseOf
<1>2. IInv /\ [Next]_vars => [Outcome!Next]_<<phaseBar, visibleBar>>
  <2> SUFFICES ASSUME IInv, [Next]_vars
               PROVE  Outcome!Next \/ UNCHANGED <<phaseBar, visibleBar>>
    OBVIOUS
  <2> USE DEF IInv, TypeOK, phaseBar, visibleBar, Outcome!Next
  <2>1. ASSUME NEW j \in Jobs, Enqueue(j)
        PROVE  Outcome!Submit(j)
    BY <2>1 DEF Enqueue, history, Outcome!Submit, PhaseOf
  <2>2. ASSUME NEW j \in Jobs, Cancel(j)
        PROVE  Outcome!Cancel(j)
    BY <2>2 DEF Cancel, history, Waiting, Outcome!Cancel, PhaseOf
  <2>3. ASSUME NEW j \in Jobs, BecomesDue(j) \/ LeaseExpires(j)
        PROVE  UNCHANGED <<phaseBar, visibleBar>>
    BY <2>3 DEF BecomesDue, LeaseExpires, history
  <2>4. ASSUME NEW R \in SUBSET Expired,
               NEW st \in [Jobs -> {"ABSENT"} \cup Open \cup Terminal],
               \A j \in Jobs : \/ st[j] = RecoveredStatus(R)[j]
                               \/ /\ RecoveredStatus(R)[j] \in Waiting
                                  /\ st[j] = "RUNNING",
               status' = st, UNCHANGED published
        PROVE  Outcome!Next \/ UNCHANGED <<phaseBar, visibleBar>>
    <3> DEFINE F == {j \in R : attempts[j] >= MaxAttempts}
    <3>1. \A j \in Jobs : PhaseOf(st[j]) =
             IF j \in F THEN "failed" ELSE PhaseOf(status[j])
      BY <2>4, JobRunsAssumption
         DEF RecoveredStatus, Expired, PhaseOf, Waiting, Tokens
    <3>2. phaseBar' = [j \in Jobs |-> IF j \in F THEN "failed" ELSE phaseBar[j]]
      BY <3>1, <2>4
    <3>3. F \in SUBSET Jobs /\ \A j \in F : phaseBar[j] = "open"
      BY <2>4, JobRunsAssumption DEF Expired, PhaseOf
    <3>4. UNCHANGED visibleBar
      BY <2>4
    <3>5. CASE F = {}
      BY <3>2, <3>4, <3>5
    <3>6. CASE F # {}
      <4>1. Outcome!GiveUp(F)
        BY <3>2, <3>3, <3>4, <3>6 DEF Outcome!GiveUp
      <4> QED
        BY <4>1, <3>3
    <3> QED
      BY <3>5, <3>6
  <2>5. ASSUME NEW s \in Slots, NEW R \in SUBSET Expired, RecoverOnly(s, R)
        PROVE  Outcome!Next \/ UNCHANGED <<phaseBar, visibleBar>>
    <3>1. RecoveredStatus(R) \in [Jobs -> {"ABSENT"} \cup Open \cup Terminal]
      BY DEF RecoveredStatus, Open, Waiting, Terminal
    <3> QED
      BY <2>4, <2>5, <3>1 DEF RecoverOnly, history
  <2>6. ASSUME NEW s \in Slots, NEW R \in SUBSET Expired, NEW j \in Jobs,
               RecoverAndClaim(s, R, j)
        PROVE  Outcome!Next \/ UNCHANGED <<phaseBar, visibleBar>>
    <3> DEFINE st == [RecoveredStatus(R) EXCEPT ![j] = "RUNNING"]
    <3>1. st \in [Jobs -> {"ABSENT"} \cup Open \cup Terminal]
      BY DEF RecoveredStatus, Open, Waiting, Terminal
    <3>2. \A k \in Jobs : \/ st[k] = RecoveredStatus(R)[k]
                          \/ /\ RecoveredStatus(R)[k] \in Waiting
                             /\ st[k] = "RUNNING"
      BY <2>6 DEF RecoverAndClaim, RecoveredStatus
    <3>3. status' = st /\ UNCHANGED published
      BY <2>6 DEF RecoverAndClaim, history
    <3> HIDE DEF st
    <3> QED
      BY <2>4, <3>1, <3>2, <3>3
  <2>7. ASSUME NEW s \in Slots,
               \/ RenewalFails(s)
               \/ RunReturns(s)
               \/ HandlerRaises(s)
               \/ Crash(s)
        PROVE  UNCHANGED <<phaseBar, visibleBar>>
    BY <2>7 DEF RenewalFails, RunReturns, HandlerRaises, Crash, row, history
  <2>8. ASSUME NEW s \in Slots, Publish(s) \/ PublishUnacknowledged(s)
        PROVE  Outcome!Next \/ UNCHANGED <<phaseBar, visibleBar>>
    <3>1. CASE UNCHANGED <<row, history>>
      BY <3>1 DEF row, history
    <3>2. CASE Holds(s) /\ CommitResult(run[s].job, run[s].tok)
      <4>1. run[s].job \in Jobs /\ status[run[s].job] = "RUNNING"
        BY <2>8, <3>2, HoldersAreNewest DEF Publish, PublishUnacknowledged
      <4>2. PICK j \in Jobs : j = run[s].job
        BY <4>1
      <4>3. Outcome!Publish(j)
        BY <3>2, <4>1, <4>2 DEF CommitResult, Outcome!Publish, PhaseOf
      <4> QED
        BY <4>3
    <3> QED
      BY <2>8, <3>1, <3>2 DEF Publish, PublishUnacknowledged
  <2>9. ASSUME NEW s \in Slots, RecordFailure(s)
        PROVE  Outcome!Next \/ UNCHANGED <<phaseBar, visibleBar>>
    <3>1. CASE UNCHANGED <<row, history>>
      BY <3>1 DEF row, history
    <3>2. CASE Holds(s) /\ FailRow(run[s].job, run[s].tok, run[s].again)
      <4>1. run[s].job \in Jobs /\ status[run[s].job] = "RUNNING"
        BY <2>9, <3>2, HoldersAreNewest DEF RecordFailure
      <4>2. CASE status' = [status EXCEPT ![run[s].job] = "RETRY_WAIT"]
        <5>1. \A j \in Jobs : PhaseOf(status'[j]) = PhaseOf(status[j])
          BY <4>1, <4>2 DEF PhaseOf
        <5>2. UNCHANGED published
          BY <3>2 DEF FailRow
        <5> QED
          BY <5>1, <5>2
      <4>3. CASE status' = [status EXCEPT ![run[s].job] = "FAILED"]
        <5>1. Outcome!GiveUp({run[s].job})
          BY <3>2, <4>1, <4>3 DEF FailRow, Outcome!GiveUp, PhaseOf
        <5> QED
          BY <4>1, <5>1
      <4> QED
        BY <3>2, <4>2, <4>3 DEF FailRow
    <3> QED
      BY <2>9, <3>1, <3>2 DEF RecordFailure
  <2>10. CASE UNCHANGED vars
    BY <2>10 DEF vars, row, history
  <2> QED
    BY <2>1, <2>2, <2>3, <2>5, <2>6, <2>7, <2>8, <2>9, <2>10 DEF Next
<1> QED
  BY <1>1, <1>2, Invariance, PTL DEF Spec, ImplementsOutcome, Outcome!Spec, Outcome!vars
=============================================================================
