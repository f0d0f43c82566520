---------------------------- MODULE RecoveryCases ----------------------------
(***************************************************************************)
(* Recovery cases of one mission (backend/app: operations_cases/, and what *)
(* execution/, planning/jobs.py, missions/ and sourcing/run.py do to them).*)
(*                                                                         *)
(* A case holds the item of a mission from its creation until it ends: its *)
(* owner compares options, adopts one as a recovery plan or decides to     *)
(* wait, and the purchase, the arrivals, the routine checks and the        *)
(* follow-up job all move the same rows, each in a transaction of its own  *)
(* under the store and mission locks.                                      *)
(*                                                                         *)
(* state_version, mission_version and current_revision only grow and are   *)
(* only compared for equality; the model keeps the result of each          *)
(* comparison.  Windows of validity are a choice wherever they are read: a *)
(* refusal never changes anything, so only their effects are shown.        *)
(***************************************************************************)
CONSTANTS Cases, Plans,
          Original,   \* an order on its way before the first case
          NoCase, NoPlan

ASSUME RecoveryAssumption == NoPlan \notin Plans /\ Original \notin Plans
                             /\ NoCase \notin Cases

VARIABLES
    mission,    \* MissionRow, see MissionRows
    plan,       \* PlanRow with the ActionRow it led to, see PlanRows
    case,       \* CaseRow with its current CaseRevisionRow, see CaseRows
    received,   \* the orders whose InboundRow is received in full
    check       \* a check of the mission is queued, or asked for again

vars == <<mission, plan, case, received, check>>

Slots    == Plans \cup {NoPlan}
Orders   == Plans \cup {Original}
Terminal == {"CANCELLED", "RESOLVED", "CLOSED"}
InFlight == {"QUEUED", "SENT"}     \* SENT: EXECUTING, UNKNOWN

MissionRows ==
    [status  : {"ACTIVE", "PAUSED", "ENDED"},
     current : Slots,      \* current_plan_id
     context : Slots,      \* planning_context.plan_id
     action  : Slots]      \* the plan of current_action_id

PlanRows ==
    [status : {"NONE", "PENDING", "APPROVED", "REJECTED", "GONE"}, \* GONE: SUPERSEDED, EXPIRED
     case   : Cases \cup {NoCase},   \* recovery_intent.case_id, NoCase: a routine plan
     rev    : BOOLEAN,     \* recovery_intent.revision is the case's current one
     fits   : BOOLEAN,     \* its state and mission versions are in force
     act    : {"NONE", "QUEUED", "SENT", "SUCCEEDED", "FAILED"}, \* FAILED: CANCELLED, STALE too
     part   : BOOLEAN]     \* the supplier filled only part of the order

CaseRows ==
    [status  : {"NONE", "OPEN", "BLOCKED", "OPTIONS_READY", "RECHECK_REQUIRED",
                "MONITORING"} \cup Terminal,             \* BLOCKED: NEEDS_INPUT too
     options : {"none", "current", "outdated"},    \* proposal_id and its snapshot
     base    : SUBSET Orders,      \* arrivals frozen in the snapshot
     over    : BOOLEAN,            \* the horizon of the snapshot has passed
     plan    : Slots,              \* plan_id
     last    : Slots,              \* plan of the case's newest action
     waited  : BOOLEAN]            \* waiting was chosen after the newest part-filled order

TypeOK ==
    /\ mission \in MissionRows
    /\ plan \in [Slots -> PlanRows]
    /\ case \in [Cases -> CaseRows]
    /\ received \in SUBSET Orders
    /\ check \in BOOLEAN

Blank == [status |-> "NONE", case |-> NoCase, rev |-> FALSE, fits |-> FALSE,
          act |-> "NONE", part |-> FALSE]

NotCreated == [status |-> "NONE", options |-> "none", base |-> {}, over |-> FALSE,
               plan |-> NoPlan, last |-> NoPlan, waited |-> FALSE]

Init ==
    /\ mission = [status |-> "ACTIVE", current |-> NoPlan, context |-> NoPlan,
                  action |-> NoPlan]
    /\ plan = [p \in Slots |-> Blank]
    /\ case = [c \in Cases |-> NotCreated]
    /\ received \in {{}, {Original}}
    /\ check = TRUE

-----------------------------------------------------------------------------
(* What the operations read *)

Open(c)     == case[c].status \notin Terminal \cup {"NONE"}
Active      == mission.status = "ACTIVE"
Pending(p)  == plan[p].status = "PENDING"
Routine(p)  == plan[p].case = NoCase

\* purchases(): the actions of the case's plans.
Purchases(c) == {p \in Plans : plan[p].case = c /\ plan[p].act # "NONE"}
Bought(c)    == {p \in Purchases(c) : plan[p].act = "SUCCEEDED"}
\* A purchase that brings, or may still bring, all that was planned.
Committed(p) == plan[p].act \in InFlight \cup {"SUCCEEDED"} /\ ~plan[p].part
Short(p)     == plan[p].act = "SUCCEEDED" /\ plan[p].part
Outstanding  == ({p \in Plans : plan[p].act = "SUCCEEDED"} \cup {Original}) \ received

\* gap_open(): the rest of a part-filled order is undecided.
GapOpen(c) == Short(case[c].last) /\ ~case[c].waited

\* Mutant: a purchase that is still out is not waited for.
SettledAlready(c, recv) ==
    /\ case[c].status = "MONITORING" /\ ~GapOpen(c)
    /\ IF Bought(c) # {} THEN Bought(c) \subseteq recv
       ELSE case[c].options # "none" /\ case[c].base \subseteq recv

\* settle(): the decision has played out; recv are the orders received.
Settled(c, recv) ==
    /\ case[c].status = "MONITORING"
    /\ \A p \in Purchases(c) : plan[p].act \notin InFlight
    /\ ~GapOpen(c)
    /\ IF Bought(c) # {} THEN Bought(c) \subseteq recv
       ELSE case[c].options # "none" /\ case[c].base \subseteq recv

\* detail().stale: nobody has acted on the options, and they no longer hold.
Acted(c) == \/ case[c].status = "MONITORING"
            \/ plan[case[c].plan].rev /\ plan[case[c].plan].act \in InFlight \cup {"SUCCEEDED"}

Stale(c, expired) ==
    /\ case[c].options # "none" /\ ~Acted(c)
    /\ \/ expired
       \/ IF plan[case[c].plan].rev THEN ~plan[case[c].plan].fits
          ELSE case[c].options = "outdated"

\* A slot for a new PlanRow: one no row refers to any more, and no purchase
\* came of.
Free(p) ==
    /\ \/ plan[p].status \in {"NONE", "GONE", "REJECTED"}
       \/ plan[p].status = "APPROVED" /\ plan[p].act = "FAILED"
    /\ p \notin {mission.current, mission.context}
    /\ \A c \in Cases : p \notin {case[c].plan, case[c].last}

-----------------------------------------------------------------------------
(* What the operations do to the rows *)

\* state_version or mission_version moves.
Outdated(plans)    == [p \in Slots |-> [plans[p] EXCEPT !.fits = FALSE]]
OptionsPass(cases) ==
    [c \in Cases |-> [cases[c] EXCEPT !.options = IF @ = "current" THEN "outdated" ELSE @]]

\* invalidate_pending(): the case's plan, if it still waits for approval.
WithoutPlan(c) ==
    IF Pending(case[c].plan) THEN [plan EXCEPT ![case[c].plan].status = "GONE"] ELSE plan

Forget(m, p) == [m EXCEPT !.current = IF @ = p THEN NoPlan ELSE @,
                          !.context = IF @ = p THEN NoPlan ELSE @]

MissionWithoutPlan(c) ==
    IF Pending(case[c].plan) THEN Forget(mission, case[c].plan) ELSE mission

\* retire_routine(): the routine order waiting for approval.
Retires(p)          == Pending(p) /\ Routine(p)
RetireRoutine(plans) ==
    IF Retires(mission.current) THEN [plans EXCEPT ![mission.current].status = "GONE"]
    ELSE plans
MissionRetired(m) ==
    IF Retires(mission.current) THEN [m EXCEPT !.current = NoPlan] ELSE m

\* recheck(): terminal cases are left alone.
Recheck(row) ==
    IF row.status \in Terminal THEN row ELSE [row EXCEPT !.status = "RECHECK_REQUIRED"]

\* queue_check(), where the code calls it for an ACTIVE mission only.
QueueCheck(cond) == check' = (check \/ (cond /\ mission'.status = "ACTIVE"))

-----------------------------------------------------------------------------
(* The owner's operations on a case *)

\* create(): one case at a time.
Create(c) ==
    /\ Active /\ case[c].status = "NONE" /\ \A d \in Cases : ~Open(d)
    /\ case' = [case EXCEPT ![c].status = "OPEN"]
    /\ plan' = RetireRoutine(plan) /\ mission' = MissionRetired(mission)
    /\ UNCHANGED <<received, check>>

\* solve_revision(): freeze the sources and solve them, or say why not.
Solved(row) == [row EXCEPT !.options = "current", !.status = "OPTIONS_READY",
                           !.base = Outstanding]
Unsolved(row) == [row EXCEPT !.status = "BLOCKED"]

\* analyze(): later calls on the same revision keep the proposal or are refused.
Analyze(c) ==
    /\ Open(c) /\ case[c].options = "none"
    /\ \E row \in {Solved(case[c]), Unsolved(case[c])} : case' = [case EXCEPT ![c] = row]
    /\ UNCHANGED <<mission, plan, received, check>>

NextRevision(row) == [row EXCEPT !.options = "none", !.base = {}, !.over = FALSE,
                                 !.status = "OPEN"]

OfOldRevision(plans, c) ==
    [p \in Slots |-> [plans[p] EXCEPT !.rev = @ /\ plans[p].case # c]]

\* revise() and refresh.
Revise(c) ==
    /\ Open(c)
    /\ plan' = OfOldRevision(WithoutPlan(c), c) /\ mission' = MissionWithoutPlan(c)
    /\ case' = [case EXCEPT ![c] = NextRevision(@)]
    /\ UNCHANGED <<received, check>>

\* sourcing register(): offers read for the current revision make the next one
\* and solve it in the same transaction.
Source(c) ==
    /\ Open(c)
    /\ plan' = OfOldRevision(WithoutPlan(c), c) /\ mission' = MissionWithoutPlan(c)
    /\ \E row \in {Solved(NextRevision(case[c])), Unsolved(NextRevision(case[c]))} :
          case' = [case EXCEPT ![c] = row]
    /\ UNCHANGED <<received, check>>

\* Mutant: a second purchase is refused only while the first is unanswered.
NothingBought(c) == TRUE

\* materialize(): an earlier purchase may only have been filled in part.
MayBuy(c) == plan[case[c].plan].act = "SUCCEEDED" => Short(case[c].plan)

Materialize(c, p) ==
    /\ Open(c) /\ Active /\ case[c].options = "current" /\ mission.action = NoPlan
    /\ MayBuy(c)
    /\ Free(p)
    /\ LET old == IF Pending(mission.current)
                  THEN [plan EXCEPT ![mission.current].status = "GONE"] ELSE plan
       IN  plan' = [Outdated(old) EXCEPT ![p] = [status |-> "PENDING", case |-> c,
                      rev |-> TRUE, fits |-> TRUE, act |-> "NONE", part |-> FALSE]]
    /\ mission' = [mission EXCEPT !.current = p, !.context = p]
    /\ case' = OptionsPass([case EXCEPT ![c].plan = p])
    /\ UNCHANGED <<received, check>>

\* control("adopt_waiting"): no purchase; settled at once with nothing to wait for.
AdoptWaiting(c) ==
    /\ Open(c) /\ case[c].options # "none" /\ mission.action = NoPlan
    /\ \E expired \in BOOLEAN : ~Stale(c, expired)
    /\ LET row == [case[c] EXCEPT !.status = "MONITORING", !.waited = TRUE]
           done == IF Bought(c) # {} THEN Bought(c) \subseteq received
                   ELSE row.base \subseteq received
       IN  /\ case' = [case EXCEPT ![c] = [row EXCEPT !.status = IF done THEN "RESOLVED" ELSE @]]
           /\ mission' = MissionRetired(MissionWithoutPlan(c))
           /\ plan' = RetireRoutine(WithoutPlan(c))
           /\ QueueCheck(done)
    /\ UNCHANGED received

\* control("cancel"): only a case that had decided something asks for a check.
Cancel(c) ==
    /\ Open(c)
    /\ plan' = WithoutPlan(c) /\ mission' = MissionWithoutPlan(c)
    /\ case' = [case EXCEPT ![c].status = "CANCELLED"]
    /\ QueueCheck(case[c].plan # NoPlan \/ case[c].status = "MONITORING")
    /\ UNCHANGED received

-----------------------------------------------------------------------------
(* Decisions and purchases *)

\* Mutant: the revision of the case is not compared.
PlanMatches(p) == plan[p].fits /\ mission.context = p

\* validate_recovery(): the revision, the case's plan and the mission's link.
CaseMatches(p) ==
    LET c == plan[p].case
    IN  /\ case[c].status # "CANCELLED" /\ plan[p].rev
        /\ case[c].plan = p /\ mission.context = p

\* validate_current(), for either kind of plan.
Valid(p) == Active /\ plan[p].fits /\ (~Routine(p) => CaseMatches(p))

\* decide("approve").
Approve(p) ==
    /\ Pending(p) /\ mission.current = p /\ Valid(p) /\ mission.action = NoPlan
    /\ plan' = [plan EXCEPT ![p].status = "APPROVED", ![p].act = "QUEUED"]
    /\ mission' = [mission EXCEPT !.action = p]
    /\ case' = IF Routine(p) THEN case ELSE [case EXCEPT ![plan[p].case].last = p]
    /\ UNCHANGED <<received, check>>

\* decide("reject") and rejected(): the plan stays the current one.
Reject(p) ==
    /\ Pending(p) /\ mission.current = p
    /\ plan' = [plan EXCEPT ![p].status = "REJECTED"]
    /\ mission' = [mission EXCEPT !.context = IF ~Routine(p) /\ @ = p THEN NoPlan ELSE @]
    /\ UNCHANGED <<case, received, check>>

\* close_action() on the case the mission is linked to.
CaseAfter(p, result) ==
    LET c == plan[p].case
        row == IF result = "SUCCEEDED"
               THEN IF case[c].status \in Terminal THEN case[c]
                    ELSE [case[c] EXCEPT !.status = "MONITORING"]
               ELSE IF plan[p].rev THEN Recheck(case[c]) ELSE case[c]
    IN  IF mission.context = p THEN [case EXCEPT ![c] = row] ELSE case

\* close_action() on the mission, whose row is m.
MissionAfter(m, p) ==
    [m EXCEPT !.action = NoPlan, !.context = IF @ = p THEN NoPlan ELSE @]

\* run(): validated again, registered with the store; the version moves.
Send(p) ==
    /\ mission.action = p /\ plan[p].act = "QUEUED" /\ Valid(p)
    /\ plan' = Outdated([plan EXCEPT ![p].act = "SENT"])
    /\ case' = OptionsPass(case)
    /\ UNCHANGED <<mission, received, check>>

\* run(): the validation refuses it, if only because the source is not fresh.
Refuse(p) ==
    /\ mission.action = p /\ plan[p].act = "QUEUED"
    /\ plan' = [plan EXCEPT ![p].act = "FAILED"]
    /\ case' = CaseAfter(p, "FAILED")
    /\ mission' = MissionAfter(mission, p)
    /\ QueueCheck(TRUE)
    /\ UNCHANGED received

\* A sent purchase is accepted, in part if its owner agrees, rejected or taken
\* back: apply_receipt(), accept_partial(), withdraw().
Outcome(p, result, part) ==
    /\ mission.action = p /\ plan[p].act = "SENT"
    /\ part => result = "SUCCEEDED"
    /\ plan' = Outdated([plan EXCEPT ![p].act = result, ![p].part = part])
    /\ LET after == CaseAfter(p, result)
       IN  case' = OptionsPass(
               IF part /\ ~Routine(p) THEN [after EXCEPT ![plan[p].case].waited = FALSE]
               ELSE after)
    /\ mission' = MissionAfter(mission, p)
    /\ QueueCheck(TRUE)
    /\ UNCHANGED received

\* The rest of an order arrives, by an event or by hand, and settle_mission()
\* looks at the case that waits.
Arrive(o) ==
    /\ o \in Outstanding
    /\ received' = received \cup {o}
    /\ case' = OptionsPass([c \in Cases |->
                  IF Settled(c, received') THEN [case[c] EXCEPT !.status = "RESOLVED"]
                  ELSE case[c]])
    /\ plan' = Outdated(plan)
    /\ mission' = mission
    /\ QueueCheck(TRUE)

\* Anything else in the store: a sale, a forecast, another item's purchase, and
\* perhaps the business clock, which ends horizons.
StoreMoves(late, told) ==
    /\ plan' = Outdated(plan)
    /\ case' = OptionsPass([c \in Cases |-> [case[c] EXCEPT
                  !.over = @ \/ (late /\ case[c].options # "none" /\ Open(c))]])
    /\ mission' = mission
    /\ QueueCheck(told)
    /\ UNCHANGED received

-----------------------------------------------------------------------------
(* The mission and its checks *)

\* control_mission(): the plan is given up; a purchase not sent goes with it.
ControlMission(status, cancel) ==
    LET a    == mission.action
        quit == cancel /\ plan[a].act = "QUEUED"
        gone == IF Pending(mission.current)
                THEN [plan EXCEPT ![mission.current].status = "GONE"] ELSE plan
        row  == [mission EXCEPT !.status = status, !.current = NoPlan]
    IN  /\ plan' = Outdated(IF quit THEN [gone EXCEPT ![a].act = "FAILED"] ELSE gone)
        /\ case' = OptionsPass(IF quit THEN CaseAfter(a, "FAILED") ELSE case)
        /\ mission' = IF quit THEN MissionAfter(row, a) ELSE row
        /\ UNCHANGED received

Pause  == Active /\ ControlMission("PAUSED", FALSE) /\ check' = FALSE
Resume == mission.status = "PAUSED" /\ ControlMission("ACTIVE", FALSE) /\ check' = TRUE
Complete ==
    /\ mission.status # "ENDED" /\ mission.action = NoPlan
    /\ ControlMission("ENDED", FALSE) /\ check' = FALSE
CancelMission ==
    /\ mission.status # "ENDED"
    /\ ControlMission("ENDED", TRUE) /\ check' = FALSE

\* planning apply() while a case holds the item: the pending plan adopted from
\* it stays if its versions and window hold, else its owner decides again.
CheckHeld(c) ==
    LET p == mission.current
    IN  \/ /\ ~(Pending(p) /\ case[c].plan = p)
           /\ plan' = RetireRoutine(plan) /\ mission' = MissionRetired(mission)
           /\ UNCHANGED case
        \/ /\ Pending(p) /\ case[c].plan = p /\ plan[p].fits
           /\ UNCHANGED <<plan, mission, case>>
        \/ /\ Pending(p) /\ case[c].plan = p      \* versions moved, or it expired
           /\ plan' = [plan EXCEPT ![p].status = "GONE"]
           /\ mission' = [mission EXCEPT !.current = NoPlan, !.context = NoPlan]
           /\ case' = [case EXCEPT ![c] = Recheck(@)]

\* planning apply() with no case: the recovery link is dropped, a proposal that
\* does not hold is retired, and a new one may be made.
CheckRoutine ==
    LET cur  == mission.current
        gone(expired) == Pending(cur) /\ (expired \/ ~plan[cur].fits)
        cleared == [mission EXCEPT !.context = NoPlan]
    IN  \/ \E expired \in BOOLEAN :
              /\ plan' = IF gone(expired) THEN [plan EXCEPT ![cur].status = "GONE"] ELSE plan
              /\ mission' = IF gone(expired) THEN [cleared EXCEPT !.current = NoPlan]
                            ELSE cleared
        \/ /\ Active /\ mission.action = NoPlan
           /\ \E p \in Plans :
                 /\ Free(p)
                 /\ plan' = [IF Pending(cur) THEN [plan EXCEPT ![cur].status = "GONE"]
                             ELSE plan EXCEPT ![p] = [Blank EXCEPT !.status = "PENDING",
                                                                   !.fits = TRUE]]
                 /\ mission' = [cleared EXCEPT !.current = p]

\* Mutant: a check looks at the item whatever case is open.
NoHolder == {}

\* owning_case() of a check, after settling what has played out.
Holder == {c \in Cases : Open(c) /\ ~Settled(c, received)}

ApplyCheck ==
    /\ check
    /\ \/ \E c \in Holder : CheckHeld(c) /\ check' = FALSE
       \/ /\ Holder = {}
          /\ case' = [c \in Cases |-> IF Settled(c, received)
                                      THEN [case[c] EXCEPT !.status = "RESOLVED"] ELSE case[c]]
          /\ CheckRoutine
          /\ check' \in BOOLEAN        \* inputs that moved are looked at again
    /\ UNCHANGED received

\* The follow-up job, for a case whose owner enabled it.
FollowUp(c) ==
    /\ Open(c)
    /\ \/ Settled(c, received) /\ case' = [case EXCEPT ![c].status = "RESOLVED"]
       \/ /\ ~Settled(c, received)
          /\ mission.status = "ENDED" \/ case[c].over
          /\ case' = [case EXCEPT ![c].status = "CLOSED"]
       \/ /\ ~Settled(c, received) /\ mission.status # "ENDED" /\ ~case[c].over
          /\ IF plan[case[c].plan].act = "SENT"
             THEN case' = [case EXCEPT ![c].status = "MONITORING"]
             ELSE /\ case[c].status # "MONITORING"    \* stale options or source
                  /\ case' = [case EXCEPT ![c] = Recheck(@)]
    /\ UNCHANGED <<mission, plan, received, check>>

-----------------------------------------------------------------------------
CaseStep ==
    \E c \in Cases :
       \/ Create(c) \/ Analyze(c) \/ Revise(c) \/ Source(c)
       \/ \E p \in Plans : Materialize(c, p)
       \/ AdoptWaiting(c) \/ Cancel(c) \/ FollowUp(c)

PurchaseStep ==
    \E p \in Plans :
       \/ Approve(p) \/ Reject(p) \/ Send(p) \/ Refuse(p)
       \/ \E r \in {"SUCCEEDED", "FAILED"}, part \in BOOLEAN : Outcome(p, r, part)

Next ==
    \/ CaseStep
    \/ PurchaseStep
    \/ \E o \in Orders : Arrive(o)
    \/ \E late, told \in BOOLEAN : StoreMoves(late, told)
    \/ Pause \/ Resume \/ Complete \/ CancelMission
    \/ ApplyCheck

Spec == Init /\ [][Next]_vars

-----------------------------------------------------------------------------
(* Properties *)

\* A case buys what it planned at most once: besides the orders a supplier
\* filled in part, only one of its purchases is accepted or can still be, over
\* any number of revisions, rejections and failed attempts (repository.py
\* 440-452).
OneEmergencyPurchase ==
    \A c \in Cases : \A p, q \in Purchases(c) : Committed(p) /\ Committed(q) => p = q

\* No routine order waits for approval beside an open case, whatever checks
\* read before it was opened and publish after (lifecycle.py 72-112).
NoRoutineBesideCase ==
    \A c \in Cases : Open(c) => \A p \in Plans : ~(Pending(p) /\ Routine(p))

\* A case that is RESOLVED stays so: nothing it bought is on the way, and
\* nothing is bought for it any more (lifecycle.py 158-188).
ResolvedMeansReceived ==
    \A c \in Cases : case[c].status = "RESOLVED" =>
       /\ \A p \in Purchases(c) : plan[p].act \notin InFlight
       /\ Bought(c) \subseteq received

\* A purchase is only sent for a case that is open, in the revision it was
\* adopted from, however its case was revised or ended after the approval
\* (validation.py 82-102).
SentForItsCase ==
    [][\A p \in Plans :
          plan[p].act = "QUEUED" /\ plan'[p].act = "SENT" /\ ~Routine(p) =>
             Open(plan[p].case) /\ plan[p].rev]_vars
=============================================================================
