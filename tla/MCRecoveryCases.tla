--------------------------- MODULE MCRecoveryCases ---------------------------
(* Instances of RecoveryCases for TLC, and the planner's computations over  *)
(* the days compared with what they are to be, on small inputs.             *)
EXTENDS RecoveryCases, Integers, TLC

CONSTANTS c1, c2, p1, p2, p3

OneCase    == {c1}
TwoCases   == {c1, c2}
TwoPlans   == {p1, p2}
ThreePlans == {p1, p2, p3}

\* Neither cases nor slots for plans are told apart, and no property is about time.
Symmetries == Permutations(Cases) \cup Permutations(Plans)

-----------------------------------------------------------------------------
(* The solver *)

Solver == INSTANCE RecoverySolver

\* Stock and days of three days, of which the solver's input says nothing else.
Stocks ==
    [days : {3}, onHand : 0 .. 2, demand : [1 .. 3 -> 0 .. 2], arrivals : [1 .. 3 -> 0 .. 1]]

\* No unit is lost or made up: what was there and what arrived was sold or is
\* left (trajectory()); day 4 stands for an offer that comes too late.
ASSUME StockIsConserved ==
    \A s \in Stocks, q \in 0 .. 2, day \in 1 .. 4 :
       s.onHand + Solver!SumTo(s.arrivals, 3) + (IF day <= 3 THEN q ELSE 0)
         = Solver!SumTo([d \in 1 .. 3 |-> Solver!Served(s, q, day, d)], 3)
           + Solver!EndStock(s, q, day)[3]

\* Buying more, or the same earlier, never loses more sales.
ASSUME MoreOrEarlierLosesNoMore ==
    \A s \in Stocks, q \in 0 .. 2, day \in 1 .. 3 :
       /\ Solver!Lost(s, q + 1, day) <= Solver!Lost(s, q, day)
       /\ Solver!Lost(s, q, day) <= Solver!Lost(s, q, day + 1)

\* The recommendation is one, and no purchase that could be made, enumerated
\* or not, from either supplier, would lose fewer sales.
ASSUME RecommendationIsBest ==
    \A cash \in 0 .. 4, floor \in 0 .. 1, limited \in BOOLEAN, onHand \in 0 .. 1,
       demand \in [1 .. 2 -> 0 .. 2], pack \in 1 .. 2, price \in 1 .. 2, arrives \in 1 .. 3 :
       LET s == [cash |-> cash, floor |-> floor, budget |-> 3, limited |-> limited,
                 limit |-> 2, days |-> 2, onHand |-> onHand, demand |-> demand,
                 arrivals |-> [d \in 1 .. 2 |-> 0], open |-> TRUE]
           offers == << [price |-> price, minimum |-> 1, pack |-> pack,
                         arrives |-> arrives, fit |-> TRUE],
                        [price |-> 1, minimum |-> 2, pack |-> 1,
                         arrives |-> 2, fit |-> TRUE] >>
           best   == Solver!RecommendedCandidate(s, offers)
           LostBy(c) == Solver!Lost(s, c.quantity,
                                    IF c = Solver!Wait THEN 0 ELSE offers[c.supplier].arrives)
       IN  IF ~Solver!MayWait(s) \/ Solver!Refused(s, offers) THEN best = {}
           ELSE \E c \in best :
                  /\ best = {c}
                  /\ \A k \in 1 .. 2, q \in 1 .. 4 :
                        Solver!Buyable(s, q, offers[k]) =>
                          LostBy(c) <= LostBy([supplier |-> k, quantity |-> q])

\* A hundred quantities of an offer are searched, one more refuses the search,
\* also when the offer itself could not be used.
ASSUME SearchIsBounded ==
    \A n \in {100, 101}, fit \in BOOLEAN :
       LET s == [cash |-> n, floor |-> 0, budget |-> 200, limited |-> FALSE, limit |-> 0,
                 days |-> 1, onHand |-> 0, demand |-> <<n>>, arrivals |-> <<0>>, open |-> TRUE]
           offer  == [price |-> 1, minimum |-> 1, pack |-> 1, arrives |-> 1, fit |-> fit]
       IN  Solver!RecommendedCandidate(s, <<offer>>)
             = IF n = 101 THEN {}
               ELSE IF fit THEN {[supplier |-> 1, quantity |-> 100]} ELSE {Solver!Wait}

\* The days' whole units add up to the total, and no day is given more than its
\* own forecast rounded up, nor less than it rounded down (allocate_daily()).
ASSUME AllocationAddsUp ==
    \A v \in [1 .. 3 -> 0 .. 7] :
       LET given == Solver!AllocateDaily(v, 3)
       IN  /\ Solver!SumTo(given, 3) = Solver!RoundedUp(v, 3)
           /\ \A d \in 1 .. 3 : given[d] \in v[d] \div 3 .. (v[d] + 2) \div 3
=============================================================================
