---------------------------- MODULE RecoverySolver ----------------------------
(***************************************************************************)
(* The planner of emergency purchases (app/planning/recovery/solver.py):   *)
(* it enumerates for each offer the quantities that can be paid, follows   *)
(* the stock through the days of each, and recommends the best; a search   *)
(* that would be too large is refused as a whole.  In RecoveryCases its    *)
(* outcome is a choice; these operators say which.                         *)
(***************************************************************************)
EXTENDS Integers, Sequences, FiniteSets

\* Functions of days: what is due and asked for on each of 1 .. n.
Upto(n) == 1 .. n

SumTo(f, n) == LET upto[d \in 0 .. n] == IF d = 0 THEN 0 ELSE upto[d - 1] + f[d]
               IN  upto[n]

NonNegative(n) == IF n > 0 THEN n ELSE 0
Lesser(a, b)   == IF a < b THEN a ELSE b

\* What the solver looks at of an offer; arrives is the first day whose
\* settlement is not before the arrival, and a number past the last day for one
\* that misses them all.  fit: the right item, and valid now.
IsRecoveryOffer(o) ==
    /\ o.price \in Nat \ {0} /\ o.minimum \in Nat \ {0} /\ o.pack \in Nat \ {0}
    /\ o.arrives \in Nat \ {0} /\ o.fit \in BOOLEAN

\* And of a RecoveryInput: money, the task's limit, stock, demand and arrivals
\* per day (an arrival whose time has passed or is unknown is in none), and
\* whether anything may be bought at all.
IsRecoveryInput(s) ==
    /\ s.cash \in Nat /\ s.floor \in Nat /\ s.budget \in Nat
    /\ s.limited \in BOOLEAN /\ s.limit \in Nat
    /\ s.days \in Nat \ {0} /\ s.onHand \in Nat
    /\ s.demand \in [Upto(s.days) -> Nat] /\ s.arrivals \in [Upto(s.days) -> Nat]
    /\ s.open \in BOOLEAN

-----------------------------------------------------------------------------
(* trajectory() *)

\* The stock at the end of each day; sales come after the day's arrivals.
EndStock(s, q, day) ==
    LET end[d \in 0 .. s.days] ==
          IF d = 0 THEN s.onHand
          ELSE NonNegative(end[d - 1] + s.arrivals[d] + (IF d = day THEN q ELSE 0) - s.demand[d])
    IN  end

Available(s, q, day, d) ==
    EndStock(s, q, day)[d - 1] + s.arrivals[d] + (IF d = day THEN q ELSE 0)

Served(s, q, day, d) == Lesser(Available(s, q, day, d), s.demand[d])
LostOn(s, q, day, d) == s.demand[d] - Served(s, q, day, d)

Lost(s, q, day) == SumTo([d \in Upto(s.days) |-> LostOn(s, q, day, d)], s.days)

-----------------------------------------------------------------------------
(* add(): the reasons against buying q of an offer.  The overflow of money is  *)
(* left out: who is under the budget is under it.                              *)

Payable(s, q, o) ==
    /\ q * o.price <= s.budget
    /\ s.cash - q * o.price >= s.floor
    /\ s.limited => q <= s.limit

InPacks(q, o) == q >= o.minimum /\ q % o.pack = 0

Usable(s, o) == o.fit /\ o.arrives <= s.days /\ s.open

Buyable(s, q, o) == Usable(s, o) /\ InPacks(q, o) /\ Payable(s, q, o)

\* Waiting is not tested against the packs, but against the money.
MayWait(s) == s.cash >= s.floor

-----------------------------------------------------------------------------
(* solve() *)

Smallest(o) == ((o.minimum + o.pack - 1) \div o.pack) * o.pack

Money(s) == NonNegative(Lesser(s.budget, s.cash - s.floor))

Largest(s, o) ==
    IF s.limited THEN Lesser(Money(s) \div o.price, s.limit) ELSE Money(s) \div o.price

Count(s, o) == NonNegative((Largest(s, o) - Smallest(o)) \div o.pack + 1)

MaxQuantities == 100

\* SearchSpaceExceeded: one offer, usable or not, with too many quantities ends
\* the search for all, and solve() returns nothing.
Refused(s, offers) == \E k \in DOMAIN offers : Count(s, offers[k]) > MaxQuantities

\* What is tried of an offer unless the search is refused:
\* range(minimum, maximum + 1, pack_size), or the minimum alone to be rejected.
Quantities(s, o) ==
    IF Count(s, o) = 0 THEN {Smallest(o)}
    ELSE {Smallest(o) + k * o.pack : k \in 0 .. Count(s, o) - 1}

\* offers: from supplier, a number for its place in the order, to offer.
Wait == [supplier |-> 0, quantity |-> 0]

FeasibleCandidates(s, offers) ==
    IF Refused(s, offers) THEN {}
    ELSE {c \in {Wait} : MayWait(s)} \cup
         UNION {{[supplier |-> k, quantity |-> q] : q \in {r \in Quantities(s, offers[k]) :
                                                           Buyable(s, r, offers[k])}} :
                k \in DOMAIN offers}

\* The keys of min(), in order.
Ranking(s, offers, c) ==
    LET o   == offers[c.supplier]
        day == IF c = Wait THEN 0 ELSE o.arrives
    IN  <<Lost(s, c.quantity, day), IF c = Wait THEN 0 ELSE c.quantity * o.price,
          EndStock(s, c.quantity, day)[s.days], c.supplier, c.quantity>>

Precedes(a, b) ==
    \E i \in DOMAIN a : a[i] < b[i] /\ \A j \in 1 .. i - 1 : a[j] = b[j]

RecommendedCandidate(s, offers) ==
    {c \in FeasibleCandidates(s, offers) :
        \A d \in FeasibleCandidates(s, offers) :
           c = d \/ Precedes(Ranking(s, offers, c), Ranking(s, offers, d))}

-----------------------------------------------------------------------------
(* allocate_daily(): a forecast in parts of a unit, unit parts to one, is       *)
(* rounded to whole units a day with a total that was rounded up.               *)

Whole(v, unit) == [d \in DOMAIN v |-> v[d] \div unit]
Total(v)       == SumTo(v, Len(v))
RoundedUp(v, unit) == (Total(v) + unit - 1) \div unit

\* The days with the largest fractions, earlier days first, get one more.
Comes(v, unit, d, e) ==
    \/ v[d] % unit > v[e] % unit
    \/ v[d] % unit = v[e] % unit /\ d < e

AllocateDaily(v, unit) ==
    LET left == RoundedUp(v, unit) - Total(Whole(v, unit))
    IN  [d \in DOMAIN v |->
           IF Cardinality({e \in DOMAIN v : Comes(v, unit, e, d)}) < left
             THEN Whole(v, unit)[d] + 1 ELSE Whole(v, unit)[d]]
=============================================================================
