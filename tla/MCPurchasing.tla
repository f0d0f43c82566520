---------------------------- MODULE MCPurchasing -----------------------------
(* Instances of Purchasing for TLC. *)
EXTENDS Purchasing

CONSTANTS o1, o2, m1, m2, w1, w2

OneOrder   == {o1}
TwoOrders  == {o1, o2}
SecondOrder == {o2}
NoOrder    == {}
Units      == [o \in Orders |-> IF o = o1 THEN 2 ELSE 1]
PairForOwner == [o \in Orders |-> IF o = o2 THEN 2 ELSE 1]
Singles    == [o \in Orders |-> 1]
OneMission == {m1}
TwoMissions == {m1, m2}
ToFirst    == [o \in Orders |-> m1]
OneEach    == [o \in Orders |-> IF o = o1 THEN m1 ELSE m2]
Floors     == [m \in Missions |-> IF m = m1 THEN 1 ELSE 0]
OneWorker  == {w1}
TwoWorkers == {w1, w2}

\* Workers are interchangeable: only used by runs without liveness properties.
WorkerSymmetry == Permutations(Workers)
=============================================================================
