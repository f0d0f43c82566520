----------------------------- MODULE Purchasing ------------------------------
(***************************************************************************)
(* One store's purchases, from the published plan to the goods             *)
(* (backend/app/execution, with what operations, missions and scheduling   *)
(* contribute to it), composed with the supplier simulator.                *)
(*                                                                         *)
(* The backend's transactions on a store are serialised by the store row   *)
(* lock, so each is one step.  Between them a purchase crosses the job     *)
(* queue and an HTTP dependency: the worker registers the purchase as sent *)
(* in one transaction, asks and submits outside every transaction, and     *)
(* enters the answer in another; its lease may be taken over, its request  *)
(* lost, delayed or answered too late at any point.  The supplier's events *)
(* reach the store independently, by cursor.                               *)
(*                                                                         *)
(* A plan that proposes a purchase and the action its approval creates     *)
(* share one identifier.  state_version and mission_version only grow and  *)
(* are only compared for equality with the values a plan was made from, so *)
(* they are represented by the set of plans for which they still agree.    *)
(***************************************************************************)
EXTENDS Simulator, SequencesExt

CONSTANTS
    Missions,         \* the store's missions
    MissionOf,        \* the mission each plan belongs to
    Assisted,         \* orders whose channel is the owner, not the simulator
    Workers,          \* business worker slots
    CashFloor,        \* policy.cash_floor_minor of each mission
    GarbledReplies,   \* may the source answer with something unreadable?
    None              \* no order, no mission, no worker

ASSUME PurchasingAssumption ==
    /\ MissionOf \in [Orders -> Missions]
    /\ Assisted \subseteq Orders
    /\ CashFloor \in [Missions -> Nat]
    /\ GarbledReplies \in BOOLEAN
    /\ None \notin Orders \cup Missions \cup Workers

VARIABLES
    cash,            \* Store.cash_minor
    reserved,        \* Store.reserved_cash_minor
    gate,            \* Store.active_action_id
    onHand,          \* StockRow.on_hand
    inTransit,       \* StockRow.in_transit
    cursor,          \* SourceCursor.last_sequence
    missionStatus,   \* MissionRow.status
    currentPlan,     \* MissionRow.current_plan_id
    currentAction,   \* MissionRow.current_action_id
    plan,            \* PlanRow.status, "none" before it is published
    current,         \* plans made from today's state and mission version
    seen,            \* input_snapshot.state of each plan
    status,          \* ActionRow.status, "none" before the approval
    reservedOf,      \* ActionRow.reserved_minor
    manual,          \* ActionRow.manual_review
    reply,           \* units of a partial ActionRow.supplier_reply, 0 otherwise
    ordered,         \* InboundRow.ordered_qty
    received,        \* InboundRow.received_qty
    job,             \* the action's open JobRun: none, queued or running
    owner,           \* the worker holding the lease of a running job
    task,            \* what each worker is doing
    wire             \* orders with a submission on its way to the simulator

books      == <<cash, reserved, gate, onHand, inTransit>>
missionRow == <<missionStatus, currentPlan, currentAction>>
planRow    == <<plan, seen>>
actionRow  == <<status, reservedOf, manual, reply, ordered, received>>
jobRow     == <<job, owner>>

vars == <<books, cursor, missionRow, planRow, current, actionRow, jobRow,
          task, wire, simVars>>

Pending    == {"QUEUED", "EXECUTING", "UNKNOWN"}
Sent       == {"EXECUTING", "UNKNOWN"}
Settled    == {"SUCCEEDED", "FAILED", "STALE", "CANCELLED"}

Amount(o) == Total(Qty[o])

\* What a plan's input snapshot records of the store.
State == <<cash, reserved, onHand, inTransit>>

\* A worker: where it is in the execute_purchase / reconcile_action handler,
\* for which order, and the answer it carries to apply().
Steps == {"idle", "claimed", "asking", "sending", "awaiting", "answered"}
Answers == {"nothing", "ACCEPTED", "REJECTED", "garbled", "error"}
Tasks == [at : Steps, order : Orders \cup {None}, answer : Answers]
Free == [at |-> "idle", order |-> None, answer |-> "nothing"]
Doing(step, o, a) == [at |-> step, order |-> o, answer |-> a]

TypeOK ==
    /\ SimTypeOK
    /\ cash \in Nat /\ reserved \in Nat
    /\ gate \in Orders \cup {None}
    /\ onHand \in Nat /\ inTransit \in Nat
    /\ cursor \in Nat
    /\ missionStatus \in [Missions -> {"ACTIVE", "PAUSED", "COMPLETED", "CANCELLED"}]
    /\ currentPlan   \in [Missions -> Orders \cup {None}]
    /\ currentAction \in [Missions -> Orders \cup {None}]
    /\ plan \in [Orders -> {"none", "PENDING_APPROVAL", "APPROVED", "REJECTED",
                            "SUPERSEDED"}]
    /\ current \subseteq Orders
    /\ seen \in [Orders -> Nat \X Nat \X Nat \X Nat]
    /\ status \in [Orders -> {"none"} \cup Pending \cup Settled]
    /\ reservedOf \in [Orders -> Nat]
    /\ manual     \in [Orders -> BOOLEAN]
    /\ reply      \in [Orders -> Nat] /\ \A o \in Orders : reply[o] < Qty[o]
    /\ ordered    \in [Orders -> Nat]
    /\ received   \in [Orders -> Nat]
    /\ job   \in [Orders -> {"none", "queued", "running"}]
    /\ owner \in [Orders -> Workers \cup {None}]
    /\ task  \in [Workers -> Tasks]
    /\ wire \subseteq Orders

Init ==
    /\ SimInit
    /\ cash = InitialCash /\ reserved = 0 /\ gate = None
    /\ onHand = InitialStock /\ inTransit = 0
    /\ cursor = 0
    /\ missionStatus = [m \in Missions |-> "ACTIVE"]
    /\ currentPlan   = [m \in Missions |-> None]
    /\ currentAction = [m \in Missions |-> None]
    /\ plan    = [o \in Orders |-> "none"]
    /\ current = {}
    /\ seen    = [o \in Orders |-> <<0, 0, 0, 0>>]
    /\ status     = [o \in Orders |-> "none"]
    /\ reservedOf = [o \in Orders |-> 0]
    /\ manual     = [o \in Orders |-> FALSE]
    /\ reply      = [o \in Orders |-> 0]
    /\ ordered    = [o \in Orders |-> 0]
    /\ received   = [o \in Orders |-> 0]
    /\ job   = [o \in Orders |-> "none"]
    /\ owner = [o \in Orders |-> None]
    /\ task  = [w \in Workers |-> Free]
    /\ wire  = {}

-----------------------------------------------------------------------------
(* The account of an action: everything close_action(), record_conflict()  *)
(* and apply_receipt() write (accounting.py).  The helpers below determine *)
(* all of these variables; their callers determine the others.             *)

account == <<cash, reserved, gate, inTransit, currentAction, current,
             status, reservedOf, manual, ordered, received>>

Waiting(o) == o \in Assisted /\ status[o] = "EXECUTING"

\* Mutant: what the purchase costs is given back, reserved or not.
ReleaseWholeAmount(o) ==
    /\ reserved'   = reserved - Amount(o)
    /\ reservedOf' = [reservedOf EXCEPT ![o] = 0]
    /\ gate'       = IF gate = o THEN None ELSE gate
    /\ currentAction' =
          [currentAction EXCEPT ![MissionOf[o]] = IF @ = o THEN None ELSE @]

\* close_action() gives back the reservation, the store's gate and the
\* mission's current action, where they are this action's.
Release(o) ==
    /\ reserved'   = reserved - reservedOf[o]
    /\ reservedOf' = [reservedOf EXCEPT ![o] = 0]
    /\ gate'       = IF gate = o THEN None ELSE gate
    /\ currentAction' =
          [currentAction EXCEPT ![MissionOf[o]] = IF @ = o THEN None ELSE @]

\* Mutant: giving back a reservation does not count as a change of state.
CloseQuietly(o, outcome) ==
    /\ Release(o)
    /\ status' = [status EXCEPT ![o] = outcome]
    /\ UNCHANGED <<cash, inTransit, current, manual, ordered, received>>

\* close_action() with an outcome other than SUCCEEDED: the state version
\* moves when there was a reservation to give back.
Close(o, outcome) ==
    /\ Release(o)
    /\ status'  = [status EXCEPT ![o] = outcome]
    /\ current' = IF reservedOf[o] = 0 THEN current ELSE {}
    /\ UNCHANGED <<cash, inTransit, manual, ordered, received>>

\* An accepted receipt for q units: paid, in transit, and an inbound row.
Settle(o, q) ==
    /\ Release(o)
    /\ cash'      = cash - Total(q)
    /\ inTransit' = inTransit + q
    /\ status'    = [status EXCEPT ![o] = "SUCCEEDED"]
    /\ ordered'   = [ordered EXCEPT ![o] = q]
    /\ received'  = [received EXCEPT ![o] = 0]
    /\ current'   = {}
    /\ UNCHANGED manual

\* Mutant: a settled action is opened again by contradicting evidence.
ConflictReopens(o) ==
    /\ manual' = [manual EXCEPT ![o] = TRUE]
    /\ status' = [status EXCEPT ![o] = "UNKNOWN"]
    /\ UNCHANGED <<cash, reserved, gate, inTransit, currentAction, current,
                   reservedOf, ordered, received>>

\* record_conflict(): the action waits for a person; nothing is undone.
Conflict(o) ==
    /\ manual' = [manual EXCEPT ![o] = TRUE]
    /\ status' = [status EXCEPT ![o] = IF @ \in Pending THEN "UNKNOWN" ELSE @]
    /\ UNCHANGED <<cash, reserved, gate, inTransit, currentAction, current,
                   reservedOf, ordered, received>>

\* Mutant: hearing of an acceptance a second time is a contradiction.
InconsistentOnceSettled(o, verdict, q) ==
    \/ status[o] \notin Sent
    \/ /\ status[o] \in Sent /\ ~manual[o] /\ verdict = "ACCEPTED"
       /\ cash - Total(q) < reserved - reservedOf[o]

\* What apply_receipt() finds inconsistent.  A receipt's action id, currency,
\* quantity and amount repeat the request, and one order has one external
\* id, so of its comparisons the verdict against the local status is left.
Inconsistent(o, verdict, q) ==
    \/ status[o] = "SUCCEEDED" /\ verdict # "ACCEPTED"
    \/ status[o] \notin Sent \cup {"SUCCEEDED"}
    \/ /\ status[o] \in Sent /\ ~manual[o] /\ verdict = "ACCEPTED"
       /\ cash - Total(q) < reserved - reservedOf[o]

\* Mutant: a receipt for an action that is already settled is entered again.
ApplyReceiptAgain(o, verdict, q) ==
    \/ verdict = "REJECTED" /\ Close(o, "FAILED")
    \/ verdict = "ACCEPTED" /\ Settle(o, q)

\* apply_receipt(): a receipt that adds nothing is passed over.
ApplyReceipt(o, verdict, q) ==
    \/ /\ Inconsistent(o, verdict, q)
       /\ Conflict(o)
    \/ /\ ~Inconsistent(o, verdict, q)
       /\ status[o] = "SUCCEEDED" \/ manual[o]
       /\ UNCHANGED account
    \/ /\ ~Inconsistent(o, verdict, q)
       /\ status[o] \in Sent /\ ~manual[o]
       /\ \/ verdict = "REJECTED" /\ Close(o, "FAILED")
          \/ verdict = "ACCEPTED" /\ Settle(o, q)

-----------------------------------------------------------------------------
(* The owner and the planner *)

\* The worker, the wire and the supplier have no part in a step.
Locally == UNCHANGED <<task, wire, simVars>>

Superseded(p) == IF plan[p] = "PENDING_APPROVAL" THEN "SUPERSEDED" ELSE plan[p]

\* A mission check publishes a plan (planning/jobs.py apply): its inputs are
\* compared with the store's again before it is saved.  Renewing the forecast
\* moves the state version, which leaves only the new plan current.
PublishPlan(o) ==
    LET m == MissionOf[o] IN
    /\ plan[o] = "none"
    /\ missionStatus[m] = "ACTIVE" /\ currentAction[m] = None
    /\ plan' = [p \in Orders |-> IF p = o THEN "PENDING_APPROVAL"
                                 ELSE IF p = currentPlan[m] THEN Superseded(p)
                                 ELSE plan[p]]
    /\ currentPlan' = [currentPlan EXCEPT ![m] = o]
    /\ seen' = [seen EXCEPT ![o] = State]
    /\ \E renewed \in BOOLEAN :
          current' = IF renewed THEN {o} ELSE current \cup {o}
    /\ UNCHANGED <<books, cursor, missionStatus, currentAction, actionRow, jobRow>>
    /\ Locally

\* A later check finds the proposal expired or made from other inputs.
RetirePlan(m) ==
    /\ currentPlan[m] # None
    /\ plan[currentPlan[m]] = "PENDING_APPROVAL"
    /\ plan' = [plan EXCEPT ![currentPlan[m]] = "SUPERSEDED"]
    /\ currentPlan' = [currentPlan EXCEPT ![m] = None]
    /\ UNCHANGED <<books, cursor, missionStatus, currentAction, current, seen,
                   actionRow, jobRow>>
    /\ Locally

\* Mutant: the version stamps of the plan are not compared.
ValidUnlessPoor(o) ==
    /\ missionStatus[MissionOf[o]] = "ACTIVE"
    /\ cash - reserved - Amount(o) >= CashFloor[MissionOf[o]]

\* Mutant: the cash floor is checked without the money already reserved.
ValidIgnoringFloor(o) ==
    /\ missionStatus[MissionOf[o]] = "ACTIVE"
    /\ o \in current
    /\ cash - reserved - Amount(o) >= 0

\* validate_current().  The floor is that of the plan's own mission.  The
\* checks of the clock (expiry, freshness, arrival window) and of stored
\* documents may refuse at any time on top of these.
Valid(o) ==
    /\ missionStatus[MissionOf[o]] = "ACTIVE"
    /\ o \in current
    /\ cash - reserved - Amount(o) >= CashFloor[MissionOf[o]]

\* Mutant: two approvals may be in progress in one store.
ApproveBesidesAnother(o) ==
    LET m == MissionOf[o] IN
    /\ plan[o] = "PENDING_APPROVAL" /\ currentPlan[m] = o
    /\ Valid(o)
    /\ plan' = [plan EXCEPT ![o] = "APPROVED"]
    /\ status' = [status EXCEPT ![o] = "QUEUED"]
    /\ gate' = o
    /\ currentAction' = [currentAction EXCEPT ![m] = o]
    /\ job' = [job EXCEPT ![o] = "queued"]
    /\ UNCHANGED <<cash, reserved, onHand, inTransit, cursor, missionStatus,
                   currentPlan, current, seen, reservedOf, manual, reply,
                   ordered, received, owner>>
    /\ Locally

\* decide(approve): the action is created QUEUED and takes the store's gate.
Approve(o) ==
    LET m == MissionOf[o] IN
    /\ plan[o] = "PENDING_APPROVAL" /\ currentPlan[m] = o
    /\ Valid(o)
    /\ gate = None
    /\ plan' = [plan EXCEPT ![o] = "APPROVED"]
    /\ status' = [status EXCEPT ![o] = "QUEUED"]
    /\ gate' = o
    /\ currentAction' = [currentAction EXCEPT ![m] = o]
    /\ job' = [job EXCEPT ![o] = "queued"]
    /\ UNCHANGED <<cash, reserved, onHand, inTransit, cursor, missionStatus,
                   currentPlan, current, seen, reservedOf, manual, reply,
                   ordered, received, owner>>
    /\ Locally

\* decide(reject): the plan stays the mission's current one.
Reject(o) ==
    /\ plan[o] = "PENDING_APPROVAL" /\ currentPlan[MissionOf[o]] = o
    /\ plan' = [plan EXCEPT ![o] = "REJECTED"]
    /\ UNCHANGED <<books, cursor, missionRow, current, seen, actionRow, jobRow>>
    /\ Locally

\* What every control_mission() does besides the status: a new mission
\* version, and no pending proposal.
Control(m, new) ==
    /\ missionStatus' = [missionStatus EXCEPT ![m] = new]
    /\ plan' = [p \in Orders |-> IF p = currentPlan[m] THEN Superseded(p) ELSE plan[p]]
    /\ currentPlan' = [currentPlan EXCEPT ![m] = None]
    /\ current' = current \ {p \in Orders : MissionOf[p] = m}
    /\ UNCHANGED <<cash, reserved, onHand, inTransit, cursor, seen, reservedOf,
                   manual, reply, ordered, received, jobRow>>
    /\ Locally

Pause(m) ==
    /\ missionStatus[m] = "ACTIVE"
    /\ Control(m, "PAUSED")
    /\ UNCHANGED <<gate, currentAction, status>>

Resume(m) ==
    /\ missionStatus[m] = "PAUSED"
    /\ Control(m, "ACTIVE")
    /\ UNCHANGED <<gate, currentAction, status>>

Complete(m) ==
    /\ missionStatus[m] \in {"ACTIVE", "PAUSED"}
    /\ currentAction[m] = None
    /\ Control(m, "COMPLETED")
    /\ UNCHANGED <<gate, currentAction, status>>

\* Mutant: cancelling a mission drops its purchase, sent or not.
CancelWhateverIsOpen(m) ==
    LET o == currentAction[m] IN
    /\ missionStatus[m] \in {"ACTIVE", "PAUSED"}
    /\ Control(m, "CANCELLED")
    /\ IF o # None
       THEN /\ status' = [status EXCEPT ![o] = "CANCELLED"]
            /\ currentAction' = [currentAction EXCEPT ![m] = None]
            /\ gate' = IF gate = o THEN None ELSE gate
       ELSE UNCHANGED <<gate, currentAction, status>>

\* Only a purchase nobody has sent ends with its mission: close_action() of a
\* QUEUED action has no reservation to give back.
CancelMission(m) ==
    LET o == currentAction[m] IN
    /\ missionStatus[m] \in {"ACTIVE", "PAUSED"}
    /\ Control(m, "CANCELLED")
    /\ IF o # None /\ status[o] = "QUEUED"
       THEN /\ status' = [status EXCEPT ![o] = "CANCELLED"]
            /\ currentAction' = [currentAction EXCEPT ![m] = None]
            /\ gate' = IF gate = o THEN None ELSE gate
       ELSE UNCHANGED <<gate, currentAction, status>>

-----------------------------------------------------------------------------
(* The workers.  JobRuns tells the whole story of a lease; here a slot holds *)
(* the lease of the order it works on until the order's job is taken back.   *)
(* A slot that works on nothing publishes nothing, so the slot stands for    *)
(* the lease token of its present claim.                                     *)

\* What no transaction on an action's account touches.
beside == <<onHand, cursor, missionStatus, currentPlan, planRow>>

\* Everything the backend stores: untouched while a worker waits for HTTP.
backend == <<books, cursor, missionRow, planRow, current, actionRow, jobRow>>

Holds(w) == job[task[w].order] = "running" /\ owner[task[w].order] = w

\* Worker w is at this step of the handler for order o.
At(w, step, o) == task[w].at = step /\ task[w].order = o

Becomes(w, t) == task' = [task EXCEPT ![w] = t]

Claim(w, o) ==
    /\ task[w] = Free
    /\ job[o] = "queued"
    /\ job'   = [job EXCEPT ![o] = "running"]
    /\ owner' = [owner EXCEPT ![o] = w]
    /\ Becomes(w, Doing("claimed", o, "nothing"))
    /\ UNCHANGED <<books, cursor, missionRow, planRow, current, actionRow, wire,
                   simVars>>

\* The lease of a running job runs out, or its recovery budget does: another
\* worker may take the job, or it has failed.
LeaseLost(o) ==
    /\ job[o] = "running"
    /\ \E j \in {"queued", "none"} : job' = [job EXCEPT ![o] = j]
    /\ owner' = [owner EXCEPT ![o] = None]
    /\ UNCHANGED <<books, cursor, missionRow, planRow, current, actionRow>>
    /\ Locally

\* The handler's transaction has nothing to send, or ends with a lease that
\* is no longer held and is rolled back.
NothingToSend(w, o) ==
    /\ At(w, "claimed", o)
    /\ \/ ~Holds(w)
       \/ status[o] \notin Pending \/ manual[o]
       \/ o \in Assisted /\ status[o] \in Sent
    /\ Becomes(w, Doing("answered", o, "nothing"))
    /\ UNCHANGED <<backend, wire, simVars>>

\* The purchase is no longer what was approved: it is dropped unsent.
RefuseSend(w, o) ==
    /\ At(w, "claimed", o) /\ Holds(w)
    /\ status[o] = "QUEUED" /\ ~manual[o]
    /\ Close(o, "STALE")
    /\ Becomes(w, Doing("answered", o, "nothing"))
    /\ UNCHANGED <<beside, reply, jobRow, wire, simVars>>

\* Mutant: the money is reserved when the supplier accepts, not before.
RegisterUnreserved(w, o) ==
    /\ At(w, "claimed", o) /\ Holds(w)
    /\ status[o] = "QUEUED" /\ ~manual[o]
    /\ Valid(o) /\ gate = o
    /\ current' = {}
    /\ status'  = [status EXCEPT ![o] = "EXECUTING"]
    /\ Becomes(w, IF o \in Assisted THEN Doing("answered", o, "nothing")
                  ELSE Doing("sending", o, "nothing"))
    /\ UNCHANGED <<beside, cash, reserved, reservedOf, gate, inTransit, currentAction,
                   manual, reply, ordered, received, jobRow, wire, simVars>>

\* The purchase is registered as sent, and its money reserved, before any
\* request leaves.  An assisted order is then its owner's to send.
Register(w, o) ==
    /\ At(w, "claimed", o) /\ Holds(w)
    /\ status[o] = "QUEUED" /\ ~manual[o]
    /\ Valid(o) /\ gate = o
    /\ reserved'   = reserved + Amount(o)
    /\ reservedOf' = [reservedOf EXCEPT ![o] = Amount(o)]
    /\ current' = {}
    /\ status'  = [status EXCEPT ![o] = "EXECUTING"]
    /\ Becomes(w, IF o \in Assisted THEN Doing("answered", o, "nothing")
                  ELSE Doing("sending", o, "nothing"))
    /\ UNCHANGED <<beside, cash, gate, inTransit, currentAction, manual, reply,
                   ordered, received, jobRow, wire, simVars>>

\* A purchase registered by an earlier attempt: ask before sending again.
Reconcile(w, o) ==
    /\ At(w, "claimed", o) /\ Holds(w)
    /\ status[o] \in Sent /\ ~manual[o] /\ o \notin Assisted
    /\ Becomes(w, Doing("asking", o, "nothing"))
    /\ UNCHANGED <<backend, wire, simVars>>

\* GET: the recorded receipt, or 404 and the purchase is submitted after all.
Ask(w, o) ==
    /\ At(w, "asking", o)
    /\ Becomes(w, IF purchase[o] = "none" THEN Doing("sending", o, "nothing")
                  ELSE Doing("answered", o, purchase[o]))
    /\ UNCHANGED <<backend, wire, simVars>>

\* POST: the request is on its way; whoever sent it last waits for an answer.
Send(w, o) ==
    /\ At(w, "sending", o)
    /\ wire' = wire \cup {o}
    /\ Becomes(w, Doing("awaiting", o, "nothing"))
    /\ UNCHANGED <<backend, simVars>>

\* The response of a request the simulator has processed.
Answer(w, o) ==
    /\ At(w, "awaiting", o)
    /\ purchase[o] # "none"
    /\ Becomes(w, Doing("answered", o, purchase[o]))
    /\ UNCHANGED <<backend, wire, simVars>>

\* An error status, a timeout or a broken connection, whatever the simulator did.
NoAnswer(w, o) ==
    /\ At(w, "asking", o) \/ At(w, "awaiting", o)
    /\ Becomes(w, Doing("answered", o, "error"))
    /\ UNCHANGED <<backend, wire, simVars>>

\* A response that is no receipt of this purchase.
Garble(w, o) ==
    /\ GarbledReplies
    /\ At(w, "asking", o) \/ At(w, "awaiting", o)
    /\ Becomes(w, Doing("answered", o, "garbled"))
    /\ UNCHANGED <<backend, wire, simVars>>

\* Requests reach the simulator late, once or more, or never; a repeated one
\* changes nothing there.
Arrive(o) ==
    /\ o \in wire
    /\ IF purchase[o] = "none" THEN Submit(o) ELSE UNCHANGED simVars
    /\ wire' = wire \ {o}
    /\ UNCHANGED <<backend, task>>

Lose(o) ==
    /\ o \in wire
    /\ wire' = wire \ {o}
    /\ UNCHANGED <<backend, task, simVars>>

\* apply(): what an answer does to the action.
Enter(o, answer) ==
    LET unheard == answer = "error" /\ status[o] \in Sent /\ ~manual[o] IN
    \/ answer \in {"ACCEPTED", "REJECTED"} /\ ApplyReceipt(o, answer, Qty[o])
    \/ answer = "garbled" /\ Conflict(o)
    \/ /\ unheard
       /\ status' = [status EXCEPT ![o] = "UNKNOWN"]
       /\ UNCHANGED <<cash, reserved, gate, inTransit, currentAction, current,
                      reservedOf, manual, ordered, received>>
    \/ answer \in {"nothing", "error"} /\ ~unheard /\ UNCHANGED account

\* after_complete(): an unresolved purchase is queued again at once.
Unresolved(o) ==
    /\ status'[o] \in Pending /\ ~manual'[o]
    /\ ~(o \in Assisted /\ status'[o] = "EXECUTING")

\* Enter the answer, complete the job and queue the next, in one transaction.
Publish(w, o) ==
    /\ At(w, "answered", o) /\ Holds(w)
    /\ Enter(o, task[w].answer)
    /\ job'   = [job EXCEPT ![o] = IF Unresolved(o) THEN "queued" ELSE "none"]
    /\ owner' = [owner EXCEPT ![o] = None]
    /\ Becomes(w, Free)
    /\ UNCHANGED <<beside, reply, wire, simVars>>

\* complete() refuses, and everything apply() did is rolled back.
Discard(w, o) ==
    /\ At(w, "answered", o) /\ ~Holds(w)
    /\ Becomes(w, Free)
    /\ UNCHANGED <<backend, wire, simVars>>

\* The handler raises or times out: its job fails for good.
JobFails(w, o) ==
    /\ task[w].at # "idle" /\ task[w].order = o /\ Holds(w)
    /\ job'   = [job EXCEPT ![o] = "none"]
    /\ owner' = [owner EXCEPT ![o] = None]
    /\ Becomes(w, Free)
    /\ UNCHANGED <<books, cursor, missionRow, planRow, current, actionRow, wire,
                   simVars>>

\* The process dies, or gives up without a lease; a running job stays running.
Crash(w) ==
    /\ task[w].at # "idle"
    /\ Becomes(w, Free)
    /\ UNCHANGED <<backend, wire, simVars>>

\* Mutant: only purchases not yet sent are looked for.
RecoverUnsent(o) ==
    /\ status[o] = "QUEUED" /\ ~manual[o]
    /\ job[o] = "none"
    /\ job' = [job EXCEPT ![o] = "queued"]
    /\ UNCHANGED <<books, cursor, missionRow, planRow, current, actionRow, owner>>
    /\ Locally

\* recover_actions(): an unresolved purchase without an open job gets one.
RecoverAction(o) ==
    /\ status[o] \in Pending /\ ~manual[o]
    /\ o \notin Assisted \/ status[o] = "QUEUED"
    /\ job[o] = "none"
    /\ job' = [job EXCEPT ![o] = "queued"]
    /\ UNCHANGED <<books, cursor, missionRow, planRow, current, actionRow, owner>>
    /\ Locally

-----------------------------------------------------------------------------
(* An assisted order: its owner is the channel (assisted.py). *)

\* record_reply(): the owner pastes what the supplier answered.
SupplierConfirms(o) ==
    /\ Waiting(o) /\ ~manual[o]
    /\ ApplyReceipt(o, "ACCEPTED", Qty[o])
    /\ reply' = [reply EXCEPT ![o] = 0]
    /\ UNCHANGED <<beside, jobRow>>
    /\ Locally

SupplierDeclines(o) ==
    /\ Waiting(o) /\ ~manual[o]
    /\ ApplyReceipt(o, "REJECTED", 0)
    /\ reply' = [reply EXCEPT ![o] = 0]
    /\ UNCHANGED <<beside, jobRow>>
    /\ Locally

\* Fewer units (q > 0), or nothing the order can go on with (q = 0): the order
\* keeps waiting, and the newest reply is the one that counts.
SupplierOffers(o, q) ==
    /\ Waiting(o) /\ ~manual[o]
    /\ q < Qty[o]
    /\ reply' = [reply EXCEPT ![o] = q]
    /\ UNCHANGED <<beside, account, jobRow>>
    /\ Locally

\* Mutant: the part is accepted, the money of the whole order is paid.
AcceptPartAtFullPrice(o) ==
    /\ Waiting(o) /\ ~manual[o] /\ reply[o] > 0
    /\ Release(o)
    /\ cash'      = cash - Amount(o)
    /\ inTransit' = inTransit + reply[o]
    /\ status'    = [status EXCEPT ![o] = "SUCCEEDED"]
    /\ ordered'   = [ordered EXCEPT ![o] = reply[o]]
    /\ received'  = [received EXCEPT ![o] = 0]
    /\ current'   = {}
    /\ UNCHANGED <<beside, manual, reply, jobRow>>
    /\ Locally

\* accept_partial(): only the confirmed units are paid for and expected.
AcceptPart(o) ==
    /\ Waiting(o) /\ ~manual[o] /\ reply[o] > 0
    /\ ApplyReceipt(o, "ACCEPTED", reply[o])
    /\ UNCHANGED <<beside, reply, jobRow>>
    /\ Locally

Withdraw(o) ==
    /\ Waiting(o) /\ ~manual[o]
    /\ Close(o, "CANCELLED")
    /\ UNCHANGED <<beside, reply, jobRow>>
    /\ Locally

\* Goods of order o enter the stock, whoever reports them.
TakeIn(o, q) ==
    /\ received'  = [received EXCEPT ![o] = @ + q]
    /\ inTransit' = inTransit - q
    /\ onHand'    = onHand + q
    /\ current'   = {}

\* record_arrival(): no source reports the goods of an assisted order.
RecordArrival(o, q) ==
    /\ o \in Assisted /\ status[o] = "SUCCEEDED"
    /\ 0 < q /\ q <= ordered[o] - received[o] /\ q <= inTransit
    /\ TakeIn(o, q)
    /\ UNCHANGED <<cash, reserved, gate, cursor, missionRow, planRow, status,
                   reservedOf, manual, reply, ordered, jobRow>>
    /\ Locally

-----------------------------------------------------------------------------
(* The supplier's events (operations/repository.py ingest).  The log only   *)
(* grows, so the page a sync job fetched before its transaction holds what  *)
(* the log still holds, and events already entered are skipped: fetching    *)
(* and entering the next event is one step.  A page is one event here.      *)

NextIs(type) == cursor < Len(log) /\ log[cursor + 1].type = type

IngestSale ==
    /\ NextIs("SALE_RECORDED")
    /\ log[cursor + 1].qty <= onHand
    /\ onHand'  = onHand - log[cursor + 1].qty
    /\ current' = {}
    /\ cursor'  = cursor + 1
    /\ UNCHANGED <<cash, reserved, gate, inTransit, missionRow, planRow, actionRow,
                   jobRow>>
    /\ Locally

IngestDemand ==
    /\ NextIs("DEMAND_REVISED")
    /\ current' = {}
    /\ cursor'  = cursor + 1
    /\ UNCHANGED <<books, missionRow, planRow, actionRow, jobRow>>
    /\ Locally

\* Mutant: the event only confirms what a worker has entered before.
ConfirmAccepted(o) ==
    /\ NextIs("PURCHASE_ACCEPTED") /\ log[cursor + 1].order = o
    /\ status[o] \in Sent \cup {"SUCCEEDED", "FAILED"}
    /\ cursor' = cursor + 1
    /\ UNCHANGED <<account, onHand, missionStatus, currentPlan, planRow, reply,
                   jobRow>>
    /\ Locally

\* The supplier tells of the acceptance itself, possibly before the worker
\* does.  A conflict is recorded and holds the cursor back.
IngestAccepted(o) ==
    /\ NextIs("PURCHASE_ACCEPTED") /\ log[cursor + 1].order = o
    /\ status[o] \in Sent \cup {"SUCCEEDED", "FAILED"}
    /\ ApplyReceipt(o, "ACCEPTED", log[cursor + 1].qty)
    /\ cursor' = IF manual'[o] THEN cursor ELSE cursor + 1
    /\ UNCHANGED <<onHand, missionStatus, currentPlan, planRow, reply, jobRow>>
    /\ Locally

\* Goods of a confirmed purchase.  The receipts the sync job asks for first
\* matter only to a log that tells goods before the acceptance.
IngestGoods(o) ==
    LET q == log[cursor + 1].qty
        fits == received[o] + q <= ordered[o] /\ q <= inTransit
    IN  /\ NextIs("GOODS_RECEIVED") /\ log[cursor + 1].order = o
        /\ status[o] = "SUCCEEDED"
        /\ \/ /\ fits /\ ~manual[o]
              /\ TakeIn(o, q)
              /\ cursor' = cursor + 1
              /\ UNCHANGED <<cash, reserved, gate, currentAction, status,
                             reservedOf, manual, ordered>>
           \/ /\ ~fits \/ manual[o]
              /\ Conflict(o)
              /\ UNCHANGED <<cursor, onHand>>
        /\ UNCHANGED <<missionStatus, currentPlan, planRow, reply, jobRow>>
        /\ Locally

\* The simulator's own clock and customers.
World == WorldMoves /\ UNCHANGED <<backend, task, wire>>

-----------------------------------------------------------------------------
Decide(o) == PublishPlan(o) \/ Approve(o) \/ Reject(o)
ControlMission(m) ==
    \/ RetirePlan(m) \/ Pause(m) \/ Resume(m) \/ Complete(m) \/ CancelMission(m)
Handle(w, o) ==
    \/ NothingToSend(w, o) \/ RefuseSend(w, o) \/ Register(w, o) \/ Reconcile(w, o)
    \/ Ask(w, o) \/ Send(w, o) \/ Answer(w, o) \/ NoAnswer(w, o) \/ Garble(w, o)
    \/ Publish(w, o) \/ Discard(w, o) \/ JobFails(w, o)
Assist(o) ==
    \/ SupplierConfirms(o) \/ SupplierDeclines(o)
    \/ \E q \in 0 .. Qty[o] - 1 : SupplierOffers(o, q)
    \/ AcceptPart(o) \/ Withdraw(o)
    \/ \E q \in 1 .. Qty[o] : RecordArrival(o, q)
Sync == IngestSale \/ IngestDemand
    \/ \E o \in Orders : IngestAccepted(o) \/ IngestGoods(o)

Next ==
    \/ \E o \in Orders : Decide(o) \/ Assist(o)
    \/ \E m \in Missions : ControlMission(m)
    \/ \E w \in Workers, o \in Orders : Claim(w, o) \/ Handle(w, o)
    \/ \E w \in Workers : Crash(w)
    \/ \E o \in Orders : LeaseLost(o) \/ RecoverAction(o) \/ Arrive(o) \/ Lose(o)
    \/ Sync
    \/ World

Spec == Init /\ [][Next]_vars

\* Some worker takes this step for order o.
Someone(Step(_, _), o) == \E w \in Workers : Step(w, o)
Begins(w, o)  == Register(w, o) \/ Reconcile(w, o) \/ RefuseSend(w, o)
AsksInTime(w, o) == Ask(w, o) /\ Holds(w)
Enters(w, o)  == Publish(w, o) /\ task[w].answer \in {"ACCEPTED", "REJECTED"}

\* Nobody renews the lease of order o's job any more.
Abandoned(o) == \A w \in Workers : ~(task[w].order = o /\ Holds(w))

\* Sync jobs are scheduled without end: the one thing the store can count on
\* when its workers, or the way to the supplier, are gone.
SyncedSpec == Spec /\ WF_vars(Sync)

\* What the scheduling of workers adds while they live and requests get
\* through: workers poll without end and finish the step they are at; a lease
\* nobody renews runs out; recover_actions runs before every claim.  Strong
\* where the environment may get in the way: a request that is retried again
\* and again is delivered and answered in time once, and not every job is
\* taken over, crashes or fails.
WorkersGetThrough ==
    /\ \A o \in Orders :
          /\ WF_vars(RecoverAction(o))
          /\ WF_vars(LeaseLost(o) /\ Abandoned(o))
          /\ SF_vars(Someone(Claim, o))
          /\ SF_vars(Someone(Begins, o))
          /\ SF_vars(Someone(AsksInTime, o))
          /\ SF_vars(Someone(Send, o))
          /\ SF_vars(Arrive(o))
          /\ SF_vars(Someone(Enters, o))
    /\ \A w \in Workers : WF_vars(\E o \in Orders : Handle(w, o))

-----------------------------------------------------------------------------
(* What a purchase promises *)

PhaseOf(st) ==
    CASE st = "none"      -> "none"
      [] st = "QUEUED"    -> "approved"
      [] st \in Sent      -> "sent"
      [] st = "SUCCEEDED" -> "bought"
      [] OTHER            -> "off"

phaseBar == [o \in Orders |-> PhaseOf(status[o])]
spentBar == InitialCash - cash

Agreement == INSTANCE PurchaseAgreement
    WITH Direct <- Assisted, Price <- UnitPrice, Funds <- InitialCash,
         Floor <- [o \in Orders |-> CashFloor[MissionOf[o]]], phase <- phaseBar, verdict <- purchase,
         units <- ordered, held <- reserved, spent <- spentBar

\* Through lost and late requests, crashes, lost leases, two channels of
\* reports and unreadable replies, a purchase is decided as if store and
\* supplier agreed on it in single steps: the supplier decides once and only
\* about what the store has set money aside for, that money is paid or let go
\* once and only as the supplier decided, and nothing else moves it.
ImplementsAgreement == Agreement!Spec

-----------------------------------------------------------------------------
(* Properties *)

\* A purchase is unresolved exactly while it holds the store's gate, and it is
\* then its mission's current action: approving never starts a second purchase,
\* and no outcome, cancellation or withdrawal leaves the store blocked.
OneOpenPurchase ==
    /\ \A o \in Orders : status[o] \in Pending <=> gate = o
    /\ \A m \in Missions : currentAction[m] =
          IF gate # None /\ MissionOf[gate] = m THEN gate ELSE None

\* Money is reserved from before the first request leaves until the outcome is
\* entered, for that purchase and for no other.
ReservedWhileSent ==
    /\ \A o \in Orders :
          reservedOf[o] = IF status[o] \in Sent THEN Amount(o) ELSE 0
    /\ reserved = IF gate = None THEN 0 ELSE reservedOf[gate]

\* The worker is past the transaction that registers order o as sent.
PastRegistration(w, o) ==
    \/ At(w, "asking", o) \/ At(w, "sending", o) \/ At(w, "awaiting", o)
    \/ task[w].order = o /\ task[w].answer # "nothing"

\* The supplier never holds, or is about to receive, a purchase the store does
\* not know as sent, and both sides agree on how a purchase ended: a dropped
\* or withdrawn one was never ordered, a failed one was refused, a paid one
\* was accepted.
SupplierAgrees ==
    \A o \in Orders :
       /\ o \in wire \/ (\E w \in Workers : PastRegistration(w, o)) =>
             status[o] \in Sent \cup {"SUCCEEDED", "FAILED"} /\ o \notin Assisted
       /\ purchase[o] = "ACCEPTED" => status[o] \in Sent \cup {"SUCCEEDED"}
       /\ purchase[o] = "REJECTED" => status[o] \in Sent \cup {"FAILED"}
       /\ status[o] \in {"SUCCEEDED", "FAILED"} /\ o \notin Assisted =>
             purchase[o] # "none"
       /\ purchase[o] # "none" => o \notin Assisted

\* Two paths report each outcome, in any order and more than once: as long as
\* the source can be read, they never contradict one another, so no purchase
\* ends up waiting for a person.
NoFalseConflict == ~GarbledReplies => \A o \in Orders : ~manual[o]

\* What the proofs add.  A worker's answer is what the supplier recorded, and so
\* is an acceptance in the log; only approved plans have an action; a plan is
\* current only while the books are those it was made from; and what is
\* reserved is there.
AnswersAreTrue ==
    \A w \in Workers :
       /\ task[w].at = "idle" <=> task[w].order = None
       /\ task[w].at \in {"idle", "claimed"} => task[w].answer = "nothing"
       /\ task[w].answer \in {"ACCEPTED", "REJECTED"} =>
             purchase[task[w].order] = task[w].answer

LogIsTrue ==
    \A i \in 1 .. Len(log) : log[i].type = "PURCHASE_ACCEPTED" =>
       purchase[log[i].order] = "ACCEPTED" /\ log[i].qty = Qty[log[i].order]

OnlyApprovedPlansAct ==
    \A o \in Orders : status[o] = "none" <=> plan[o] # "APPROVED"

CurrentPlansFit == \A o \in current : seen[o] = State

Solvent == reserved <= cash

IInv ==
    /\ TypeOK
    /\ OneOpenPurchase /\ ReservedWhileSent /\ Solvent
    /\ OnlyApprovedPlansAct /\ CurrentPlansFit
    /\ AnswersAreTrue /\ LogIsTrue /\ SupplierAgrees

\* The next event the store has not entered can be entered: a sale is covered
\* by stock, an acceptance by the action and the cash, goods by the order.  The
\* cursor only moves past events that are, so one that cannot blocks all.
NextEventFits ==
    ~GarbledReplies /\ cursor < Len(log) =>
       LET e == log[cursor + 1] IN
       CASE e.type = "SALE_RECORDED" -> e.qty <= onHand
         [] e.type = "PURCHASE_ACCEPTED" ->
              ~Inconsistent(e.order, "ACCEPTED", e.qty)
         [] e.type = "GOODS_RECEIVED" ->
              /\ status[e.order] = "SUCCEEDED"
              /\ received[e.order] + e.qty <= ordered[e.order]
              /\ e.qty <= inTransit
         [] OTHER -> TRUE

\* A sum over orders, and the units of a log's events of one type.
SumOf(f) == FoldFunction(+, 0, f)

UnitsIn(type, events) ==
    FoldLeft(LAMBDA n, e : IF e.type = type THEN n + e.qty ELSE n, 0, events)

UnitsSold == UnitsIn("SALE_RECORDED", SubSeq(log, 1, cursor))

\* Every order is paid for once, for the units that were accepted, and every
\* unit of it is either still expected or on the shelf: neither two reports of
\* one acceptance nor two of one delivery count twice.
BooksBalance ==
    /\ cash      = InitialCash - Total(SumOf(ordered))
    /\ inTransit = SumOf(ordered) - SumOf(received)
    /\ onHand    = InitialStock + SumOf(received) - UnitsSold
    /\ \A o \in Orders : ordered[o] > 0 <=> status[o] = "SUCCEEDED"

\* Reading the log from the run's opening state gives the run's world, however
\* often and late purchases are submitted: a client that applies every event
\* once needs nothing else to follow it (simulator/repository.py 322-342,
\* controls.py 109-164).
LogTellsWorld ==
    LET accepted == UnitsIn("PURCHASE_ACCEPTED", log)
        arrived  == UnitsIn("GOODS_RECEIVED", log)
        sold     == UnitsIn("SALE_RECORDED", log)
    IN  /\ simCash      = InitialCash - Total(accepted)
        /\ simInTransit = accepted - arrived
        /\ simOnHand    = InitialStock + arrived - sold

\* A purchase is sent only against the very books its plan was made from, and
\* for an active mission: nothing that moves money or stock goes unnoticed
\* between the plan, its approval and the registration.
SentAsPlanned ==
    [][\A o \in Orders : status[o] = "QUEUED" /\ status'[o] = "EXECUTING" =>
          seen[o] = State /\ missionStatus[MissionOf[o]] = "ACTIVE"]_vars

\* What the store has left to spend is taken from only by sending a purchase,
\* and no purchase is sent that leaves less than the floor its own mission's
\* owner set: no acceptance, however late, withdrawal or part offer costs more
\* than was set aside, and the other mission's purchase is counted first.
FloorKept ==
    [][\/ cash' - reserved' >= cash - reserved
       \/ \E o \in Orders :
             /\ status[o] = "QUEUED" /\ status'[o] \in Sent
             /\ cash' - reserved' >= CashFloor[MissionOf[o]]]_vars

\* What is settled stays settled: no late, repeated or contradicting answer
\* changes the outcome, or the money and goods that were entered with it.
SettledIsFinal ==
    [][\A o \in Orders : status[o] \in Settled =>
          status'[o] = status[o] /\ ordered'[o] = ordered[o]]_vars

\* An approved purchase through the simulator ends, whatever is lost, late or
\* taken over on the way, as long as workers get through in the end.
ApprovedPurchasesEnd ==
    WorkersGetThrough =>
       \A o \in Orders \ Assisted :
          status[o] \in Pending ~> status[o] \in Settled

\* A purchase the supplier has accepted is paid for and expected in the end,
\* even if no worker ever hears the answer: that sync jobs run is enough.
AcceptedPurchasesAreBooked ==
    \A o \in Orders : purchase[o] = "ACCEPTED" ~> status[o] = "SUCCEEDED"
=============================================================================
