---------------------------- MODULE PlanningRules ----------------------------
(***************************************************************************)
(* The arithmetic of a routine check (app/planning/evaluation.py,          *)
(* engine.py, app/alerts/rules.py) and of a schedule                       *)
(* (scheduling/dispatcher.py).  MissionChecks leaves open which proposal a *)
(* check publishes and which alerts it raises; these operators say it.     *)
(***************************************************************************)
EXTENDS Integers

NotBelowZero(n) == IF n > 0 THEN n ELSE 0

\* What the rules look at of a DecisionSnapshot: available cash and its floor,
\* stock, goods that arrive within the horizon, remaining demand, the policy's
\* candidate quantities, the task's limit, and the offer with whether it
\* arrives before the horizon ends.  Every amount is an integer.
IsOffer(o) ==
    /\ o.price \in Nat \ {0} /\ o.minimum \in Nat \ {0} /\ o.pack \in Nat \ {0}
    /\ o.inTime \in BOOLEAN

IsSnapshot(s) ==
    /\ s.cash \in Int /\ s.floor \in Nat
    /\ s.onHand \in Nat /\ s.inbound \in Nat /\ s.demand \in Nat
    /\ s.quantities \subseteq Nat
    /\ s.limited \in BOOLEAN /\ s.limit \in Nat
    /\ IsOffer(s.offer)

-----------------------------------------------------------------------------
(* evaluate_candidates() *)

Spend(s, q)     == q * s.offer.price
CashAfter(s, q) == s.cash - Spend(s, q)
Shortage(s, q)  == NotBelowZero(s.demand - s.onHand - s.inbound - q)

Feasible(s, q) ==
    /\ s.limited => q <= s.limit
    /\ CashAfter(s, q) >= s.floor
    /\ q # 0 => /\ q >= s.offer.minimum
                /\ q % s.offer.pack = 0
                /\ s.offer.inTime

FeasibleQuantities(s) == {q \in s.quantities : Feasible(s, q)}

\* min() by shortage, then by quantity.
AtLeastAsGood(s, q, r) ==
    \/ Shortage(s, q) < Shortage(s, r)
    \/ Shortage(s, q) = Shortage(s, r) /\ q <= r

\* The recommended quantity, or none.
Recommended(s) ==
    {q \in FeasibleQuantities(s) : \A r \in FeasibleQuantities(s) : AtLeastAsGood(s, q, r)}

\* The purchase build_plan() proposes: recommending 0 proposes none.
Proposed(s) == Recommended(s) \ {0}

-----------------------------------------------------------------------------
(* check_status() and evaluate() of the alerts *)

CheckStatus(s) ==
    IF s.demand - s.onHand - s.inbound > 0 \/ s.cash < s.floor THEN "ANOMALY" ELSE "HEALTHY"

\* The quantity that would close the shortage, in whole packs.
Needed(s) ==
    LET least == IF Shortage(s, 0) > s.offer.minimum THEN Shortage(s, 0) ELSE s.offer.minimum
    IN  ((least + s.offer.pack - 1) \div s.offer.pack) * s.offer.pack

FundingGap(s) ==
    /\ Shortage(s, 0) > 0
    /\ s.offer.inTime
    /\ \A q \in FeasibleQuantities(s) : Shortage(s, q) # 0
    /\ s.cash - Needed(s) * s.offer.price < s.floor

Findings(s) ==
    {f \in {"STOCKOUT_RISK", "CASH_CONSTRAINT"} :
        \/ f = "STOCKOUT_RISK" /\ Shortage(s, 0) > 0
        \/ f = "CASH_CONSTRAINT" /\ (s.cash < s.floor \/ FundingGap(s))}

-----------------------------------------------------------------------------
(* due_occurrence() *)

Occurrence(anchor, interval, now) ==
    anchor + ((now - anchor) \div interval) * interval

Following(anchor, interval, now) == Occurrence(anchor, interval, now) + interval
=============================================================================
