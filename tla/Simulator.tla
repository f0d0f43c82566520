------------------------------ MODULE Simulator ------------------------------
(***************************************************************************)
(* The supplier side of the system: one sandbox run of the HTTP simulator  *)
(* (simulation/simulator/repository.py and controls.py).                   *)
(*                                                                         *)
(* A run owns a world (cash, stock on hand, stock in transit), the         *)
(* purchases submitted to it and an append-only event log that clients     *)
(* read by sequence number.  Every request is one transaction that holds   *)
(* the run's row lock, so a request is a single step.                      *)
(***************************************************************************)
EXTENDS Integers, Sequences

CONSTANTS
    Orders,        \* action ids; the request body is a function of the id
    Qty,           \* units each order asks for
    UnitPrice,     \* price of a unit, in minor currency units
    InitialCash,   \* the run's opening cash, also the store's
    InitialStock,  \* the run's opening stock on hand, also the store's
    MaxEvents      \* bound: no sale or revision once the log is this long

ASSUME SimulatorAssumption ==
    /\ Qty \in [Orders -> Nat \ {0}]
    /\ UnitPrice \in Nat \ {0}
    /\ InitialCash \in Nat
    /\ InitialStock \in Nat
    /\ MaxEvents \in Nat

VARIABLES
    purchase,      \* receipt.status of the Purchase row, "none" without a row
    delivered,     \* Purchase.received_quantity
    log,           \* the events of the run, in sequence order
    simCash,       \* world["cash_minor"]
    simOnHand,     \* stock["on_hand"]
    simInTransit   \* stock["in_transit"]

simVars == <<purchase, delivered, log, simCash, simOnHand, simInTransit>>

Total(q) == q * UnitPrice

\* What a reader of the log can tell apart: which order an event is about
\* and how many units it moves.
PurchaseAccepted(o)  == [type |-> "PURCHASE_ACCEPTED", order |-> o, qty |-> Qty[o]]
GoodsReceived(o, q)  == [type |-> "GOODS_RECEIVED", order |-> o, qty |-> q]
SaleRecorded(q)      == [type |-> "SALE_RECORDED", qty |-> q]
DemandRevised        == [type |-> "DEMAND_REVISED"]

Events ==
    [type : {"PURCHASE_ACCEPTED", "GOODS_RECEIVED"}, order : Orders, qty : Nat]
       \cup [type : {"SALE_RECORDED"}, qty : Nat]
       \cup {DemandRevised}

SimTypeOK ==
    /\ purchase  \in [Orders -> {"none", "ACCEPTED", "REJECTED"}]
    /\ delivered \in [Orders -> Nat]
    /\ log       \in Seq(Events)
    /\ simCash   \in Nat
    /\ simOnHand \in Nat
    /\ simInTransit \in Nat

SimInit ==
    /\ purchase  = [o \in Orders |-> "none"]
    /\ delivered = [o \in Orders |-> 0]
    /\ log       = <<>>
    /\ simCash   = InitialCash
    /\ simOnHand = InitialStock
    /\ simInTransit = 0

-----------------------------------------------------------------------------
\* The bound of the model, not of the code.  Purchases and their goods are
\* bounded by what was ordered; sales and revisions are bounded by the log.
RoomInLog == Len(log) < MaxEvents

\* submit_purchase() of an id the run has not seen, on acceptable terms.  Of
\* the terms only the cash depends on the world; the offer's dates, packs,
\* price and horizon are the data behind the choice between the two actions.
SubmitAccepted(o) ==
    /\ purchase[o] = "none"
    /\ Total(Qty[o]) <= simCash
    /\ purchase'     = [purchase EXCEPT ![o] = "ACCEPTED"]
    /\ simCash'      = simCash - Total(Qty[o])
    /\ simInTransit' = simInTransit + Qty[o]
    /\ log'          = Append(log, PurchaseAccepted(o))
    /\ UNCHANGED <<delivered, simOnHand>>

\* A refused purchase is recorded too, and leaves no event.
SubmitRejected(o) ==
    /\ purchase[o] = "none"
    /\ purchase' = [purchase EXCEPT ![o] = "REJECTED"]
    /\ UNCHANGED <<delivered, log, simCash, simOnHand, simInTransit>>

\* The first submission of an action id decides it.  Every later one replays
\* the recorded receipt and changes nothing, so it is no step here.
Submit(o) == SubmitAccepted(o) \/ SubmitRejected(o)

\* Mutant: the event tells the ordered quantity, not the delivered one.
DeliverTellingOrder(o, q) ==
    /\ purchase[o] = "ACCEPTED"
    /\ 0 < q /\ q <= Qty[o] - delivered[o]
    /\ q <= simInTransit
    /\ delivered'    = [delivered EXCEPT ![o] = @ + q]
    /\ simOnHand'    = simOnHand + q
    /\ simInTransit' = simInTransit - q
    /\ log'          = Append(log, GoodsReceived(o, Qty[o]))
    /\ UNCHANGED <<purchase, simCash>>

\* trigger_run(kind="receipt"): some or all of what the order still expects.
Deliver(o, q) ==
    /\ purchase[o] = "ACCEPTED"
    /\ 0 < q /\ q <= Qty[o] - delivered[o]
    /\ q <= simInTransit
    /\ delivered'    = [delivered EXCEPT ![o] = @ + q]
    /\ simOnHand'    = simOnHand + q
    /\ simInTransit' = simInTransit - q
    /\ log'          = Append(log, GoodsReceived(o, q))
    /\ UNCHANGED <<purchase, simCash>>

\* trigger_run(kind="sale").  A sale earns receivables, never cash.
Sell(q) ==
    /\ RoomInLog
    /\ 0 < q /\ q <= simOnHand
    /\ simOnHand' = simOnHand - q
    /\ log' = Append(log, SaleRecorded(q))
    /\ UNCHANGED <<purchase, delivered, simCash, simInTransit>>

\* trigger_run(kind="demand").
ReviseDemand ==
    /\ RoomInLog
    /\ log' = Append(log, DemandRevised)
    /\ UNCHANGED <<purchase, delivered, simCash, simOnHand, simInTransit>>

WorldMoves ==
    \/ \E o \in Orders : \E q \in 1 .. Qty[o] : Deliver(o, q)
    \/ \E q \in 1 .. simOnHand : Sell(q)
    \/ ReviseDemand
=============================================================================
