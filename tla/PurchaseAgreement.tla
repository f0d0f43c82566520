-------------------------- MODULE PurchaseAgreement --------------------------
(***************************************************************************)
(* What the purchase path promises a store and its supplier, without       *)
(* workers, leases, requests or reports: the store buys one thing at a     *)
(* time, sets its price aside before the supplier hears of it, and lets it *)
(* go only once both agree how it ended.                                   *)
(***************************************************************************)
EXTENDS Integers

CONSTANTS
    Orders,    \* purchases a plan may propose
    Direct,    \* those whose owner speaks with the supplier
    Qty,       \* units of each
    Price,     \* of a unit
    Funds,     \* the store's cash at the beginning
    Floor      \* what each purchase has to leave of it

VARIABLES
    phase,     \* of each purchase: none, approved, sent, bought or off
    verdict,   \* what the supplier decided about it: none, ACCEPTED, REJECTED
    units,     \* units bought
    held,      \* money set aside
    spent      \* money paid

vars == <<phase, verdict, units, held, spent>>

Init ==
    /\ phase   = [o \in Orders |-> "none"]
    /\ verdict = [o \in Orders |-> "none"]
    /\ units   = [o \in Orders |-> 0]
    /\ held = 0 /\ spent = 0

Approve(o) ==
    /\ phase[o] = "none"
    /\ \A p \in Orders : phase[p] \notin {"approved", "sent"}
    /\ phase' = [phase EXCEPT ![o] = "approved"]
    /\ UNCHANGED <<verdict, units, held, spent>>

Send(o) ==
    /\ phase[o] = "approved"
    /\ Funds - spent - Qty[o] * Price >= Floor[o]
    /\ phase' = [phase EXCEPT ![o] = "sent"]
    /\ held' = Qty[o] * Price
    /\ UNCHANGED <<verdict, units, spent>>

\* The supplier decides once, about what was sent to it.
SupplierDecides(o, v) ==
    /\ o \notin Direct
    /\ phase[o] = "sent" /\ verdict[o] = "none"
    /\ verdict' = [verdict EXCEPT ![o] = v]
    /\ UNCHANGED <<phase, units, held, spent>>

\* A purchase is paid when it is known to be accepted, and for that much.
Buy(o, n) ==
    /\ phase[o] = "sent"
    /\ IF o \in Direct THEN 0 < n /\ n <= Qty[o]
       ELSE verdict[o] = "ACCEPTED" /\ n = Qty[o]
    /\ phase' = [phase EXCEPT ![o] = "bought"]
    /\ units' = [units EXCEPT ![o] = n]
    /\ held'  = 0
    /\ spent' = spent + n * Price
    /\ UNCHANGED verdict

\* A purchase is given up before it was sent, by its owner, or refused.
CallOff(o) ==
    /\ \/ phase[o] = "approved"
       \/ phase[o] = "sent" /\ (o \in Direct \/ verdict[o] = "REJECTED")
    /\ phase' = [phase EXCEPT ![o] = "off"]
    /\ held'  = 0
    /\ UNCHANGED <<verdict, units, spent>>

Next ==
    \E o \in Orders :
       \/ Approve(o) \/ Send(o) \/ CallOff(o)
       \/ \E v \in {"ACCEPTED", "REJECTED"} : SupplierDecides(o, v)
       \/ \E n \in 1 .. Qty[o] : Buy(o, n)

Spec == Init /\ [][Next]_vars
=============================================================================
