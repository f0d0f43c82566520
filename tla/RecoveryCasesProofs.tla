------------------------- MODULE RecoveryCasesProofs -------------------------
(***************************************************************************)
(* Proofs that the properties of recovery cases hold for any number of     *)
(* cases and plans.                                                        *)
(*                                                                         *)
(* What they rest on is that a plan that may still be approved or sent     *)
(* (Live) belongs to a case that has not played out: whatever could end    *)
(* the case besides its owner moves a version first, and a plan does not   *)
(* fit any more once a version has moved.                                  *)
(***************************************************************************)
EXTENDS RecoveryCases, PlanningRules, RecoverySolver, FiniteSetTheorems, TLAPS

-----------------------------------------------------------------------------
(* The inductive invariant *)

NoPlanIsBlank == plan[NoPlan] = Blank

\* What waits for approval is the mission's current plan and, if it is for a
\* case, that case's; meanwhile the mission buys nothing.
PendingIsCurrent ==
    \A p \in Plans : Pending(p) =>
       /\ mission.current = p /\ mission.action = NoPlan
       /\ ~Routine(p) => case[plan[p].case].plan = p

\* The mission's action is the one purchase that is not decided.
ActionInFlight ==
    \A p \in Plans :
       /\ plan[p].act \in InFlight <=> mission.action = p
       /\ plan[p].act # "NONE" => plan[p].status = "APPROVED"
       /\ plan[p].part => plan[p].act = "SUCCEEDED"

PlansHaveCases ==
    /\ \A p \in Plans : ~Routine(p) => case[plan[p].case].status # "NONE"
    /\ \A c \in Cases : case[c].plan # NoPlan => plan[case[c].plan].case = c

CommittedIsPlan ==
    \A p \in Plans : ~Routine(p) /\ Committed(p) => case[plan[p].case].plan = p

FitsIsActive   == \A p \in Plans : plan[p].fits => Active
OverIsOutdated == \A c \in Cases : case[c].over => case[c].options = "outdated"
OneCaseIsOpen  == \A c, d \in Cases : Open(c) /\ Open(d) => c = d

\* A case's plan that may still be approved or sent.
Live(p) ==
    /\ ~Routine(p) /\ plan[p].fits /\ mission.context = p
    /\ Pending(p) \/ plan[p].act = "QUEUED"

LiveIsOpen ==
    \A p \in Plans : Live(p) =>
       LET c == plan[p].case
       IN  /\ case[c].status \notin {"RESOLVED", "CLOSED"} /\ ~case[c].over
           /\ Pending(p) => case[c].options = "outdated" /\ ~Settled(c, received)

\* A case with options that an owner may still adopt has not played out.
WaitsForMore ==
    \A c \in Cases : case[c].status = "MONITORING" /\ case[c].options = "current" =>
       /\ ~Settled(c, received)
       /\ mission.action # NoPlan => plan[mission.action].act = "SENT"

RInv ==
    /\ TypeOK
    /\ NoPlanIsBlank /\ PendingIsCurrent /\ ActionInFlight
    /\ PlansHaveCases /\ CommittedIsPlan /\ FitsIsActive
    /\ OverIsOutdated /\ OneCaseIsOpen /\ LiveIsOpen /\ WaitsForMore
    /\ NoRoutineBesideCase /\ ResolvedMeansReceived

-----------------------------------------------------------------------------
(* Steps that leave some of it alone *)

\* A case has played out or not whatever happens to the rest of the rows.
LEMMA SameSettled ==
  ASSUME TypeOK, NEW c \in Cases, NEW recv,
         \A p \in Slots : /\ plan'[p].case = plan[p].case
                          /\ plan'[p].act = plan[p].act
                          /\ plan'[p].part = plan[p].part,
         case'[c].status = case[c].status, case'[c].last = case[c].last,
         case'[c].waited = case[c].waited, case'[c].base = case[c].base,
         case'[c].options # "none" <=> case[c].options # "none"
  PROVE  Settled(c, recv)' = Settled(c, recv)
  <1>1. case[c].last \in Slots /\ Plans \subseteq Slots
    BY DEF TypeOK, CaseRows, Slots
  <1>2. Purchases(c)' = Purchases(c) /\ Purchases(c) \subseteq Slots
    BY <1>1 DEF Purchases
  <1>3. Bought(c)' = Bought(c)
    BY <1>2 DEF Bought
  <1>4. GapOpen(c)' = GapOpen(c)
    BY <1>1 DEF GapOpen, Short
  <1>5. (\A p \in Purchases(c)' : plan'[p].act \notin InFlight)
           = (\A p \in Purchases(c) : plan[p].act \notin InFlight)
    BY <1>2 DEF InFlight
  <1> QED  BY <1>3, <1>4, <1>5, Zenon DEF Settled

\* No plan is new, and none comes to be more than it was.
LEMMA OldPlans ==
  ASSUME RInv, TypeOK', plan'[NoPlan] = plan[NoPlan],
         \A p \in Plans : plan'[p].case = plan[p].case,
         \A p \in Plans : plan'[p].status = "PENDING" =>
            /\ plan[p].status = "PENDING"
            /\ mission'.current = mission.current /\ mission'.action = mission.action,
         \A p \in Plans :
            plan'[p].act \in InFlight \cup {"SUCCEEDED"} /\ ~plan'[p].part =>
            plan[p].act \in InFlight \cup {"SUCCEEDED"} /\ ~plan[p].part,
         \A c \in Cases : /\ case'[c].plan = case[c].plan
                          /\ case'[c].status = "NONE" => case[c].status = "NONE"
  PROVE  NoPlanIsBlank' /\ PendingIsCurrent' /\ PlansHaveCases' /\ CommittedIsPlan'
  <1>1. NoPlanIsBlank'
    BY DEF RInv, NoPlanIsBlank, Blank
  <1>2. \A p \in Plans : plan[p].case \in Cases \cup {NoCase}
    BY DEF RInv, TypeOK, PlanRows, Slots
  <1>3. PendingIsCurrent'
    BY <1>2 DEF RInv, PendingIsCurrent, Pending, Routine
  <1>4. PlansHaveCases'
    <2>1. \A p \in Plans : plan'[p].case # NoCase => case'[plan'[p].case].status # "NONE"
      BY <1>2 DEF RInv, PlansHaveCases, Routine
    <2>2. \A c \in Cases : case[c].plan \in Plans \cup {NoPlan}
      BY DEF RInv, TypeOK, CaseRows, Slots
    <2>3. \A c \in Cases : case'[c].plan # NoPlan => plan'[case'[c].plan].case = c
      BY <2>2 DEF RInv, PlansHaveCases
    <2> QED  BY <2>1, <2>3 DEF PlansHaveCases, Routine
  <1>5. CommittedIsPlan'
    BY <1>2 DEF RInv, CommittedIsPlan, Committed, Routine
  <1> QED  BY <1>1, <1>3, <1>4, <1>5

\* No case is opened.
LEMMA NoneOpens ==
  ASSUME RInv, \A p \in Plans : plan'[p].case = plan[p].case,
         \A p \in Plans : plan'[p].status = "PENDING" => plan[p].status = "PENDING",
         \A c \in Cases : case'[c].status \notin Terminal \cup {"NONE"} => Open(c)
  PROVE  OneCaseIsOpen' /\ NoRoutineBesideCase'
  <1>1. OneCaseIsOpen'
    BY DEF RInv, OneCaseIsOpen, Open
  <1>2. NoRoutineBesideCase'
    BY DEF RInv, NoRoutineBesideCase, Open, Pending, Routine
  <1> QED  BY <1>1, <1>2

\* A case is resolved when all it bought has arrived; then it buys no more.
LEMMA ResolvedStays ==
  ASSUME RInv, \A p \in Plans : plan'[p].case = plan[p].case,
         received \subseteq received',
         \A p \in Plans : plan'[p].act # plan[p].act => plan[p].act \in InFlight,
         \A c \in Cases : case'[c].status = "RESOLVED" =>
            \/ case[c].status = "RESOLVED"
            \/ \A p \in Purchases(c) : /\ plan'[p].act \notin InFlight
                                       /\ plan'[p].act = "SUCCEEDED" => p \in received'
  PROVE  ResolvedMeansReceived'
  <1> SUFFICES ASSUME NEW c \in Cases, case'[c].status = "RESOLVED",
                      NEW p \in Plans, plan'[p].case = c, plan'[p].act # "NONE"
               PROVE  /\ plan'[p].act \notin InFlight
                      /\ plan'[p].act = "SUCCEEDED" => p \in received'
    BY DEF ResolvedMeansReceived, Bought, Purchases
  <1>1. plan[p].case = c /\ plan[p].act # "NONE" /\ p \in Purchases(c)
    BY DEF Purchases, InFlight
  <1>2. CASE case[c].status = "RESOLVED"
    <2>1. /\ plan[p].act \notin InFlight
          /\ plan[p].act = "SUCCEEDED" => p \in received
      BY <1>1, <1>2 DEF RInv, ResolvedMeansReceived, Bought
    <2> QED  BY <2>1
  <1> QED  BY <1>1, <1>2

\* Once a version has moved, nothing fits, and no options may be adopted.
LEMMA NothingFits ==
  ASSUME \A p \in Plans : ~plan'[p].fits,
         \A c \in Cases : case'[c].options # "current"
  PROVE  FitsIsActive' /\ LiveIsOpen' /\ WaitsForMore'
  BY DEF FitsIsActive, LiveIsOpen, Live, WaitsForMore

\* Some plans that waited for approval are given up, and nothing else happens
\* to plans, but that they may belong to an old revision.
Drops(ps, m) ==
    /\ ps \in [Slots -> PlanRows] /\ m \in MissionRows
    /\ ps[NoPlan] = plan[NoPlan]
    /\ \A p \in Slots : /\ ps[p].case = plan[p].case /\ ps[p].act = plan[p].act
                        /\ ps[p].part = plan[p].part
                        /\ ps[p].fits => plan[p].fits
    /\ \A p \in Plans : /\ ps[p].status # plan[p].status =>
                              plan[p].status = "PENDING" /\ ps[p].status \in {"GONE", "REJECTED"}
                        /\ ps[p].status = "PENDING" => m.current = mission.current
    /\ m.status = mission.status /\ m.action = mission.action
    /\ m.context \in {mission.context, NoPlan}

LEMMA NothingDropped ==
  ASSUME RInv
  PROVE  Drops(plan, mission)
  BY DEF Drops, RInv, TypeOK

LEMMA RoutineDropped ==
  ASSUME RInv, NEW ps, NEW m, Drops(ps, m)
  PROVE  /\ Drops(RetireRoutine(ps), MissionRetired(m))
         /\ \A p \in Plans : RetireRoutine(ps)[p].status = "PENDING" =>
               ps[p].status = "PENDING" /\ plan[p].case # NoCase
  <1> DEFINE g == mission.current
  <1>1. /\ g \in Slots /\ Plans \subseteq Slots /\ NoPlan \in Slots
        /\ plan[NoPlan].status # "PENDING"
    BY DEF RInv, TypeOK, MissionRows, Slots, NoPlanIsBlank, Blank
  <1>2. \A p \in Plans : ps[p].status = "PENDING" => g = p
    BY DEF Drops, RInv, PendingIsCurrent, Pending
  <1>3. CASE ~Retires(g)
    <2>1. RetireRoutine(ps) = ps /\ MissionRetired(m) = m
      BY <1>3 DEF RetireRoutine, MissionRetired
    <2>2. \A p \in Plans : ps[p].status = "PENDING" => plan[p].case # NoCase
      BY <1>2, <1>3 DEF Retires, Pending, Routine, Drops
    <2> QED  BY <2>1, <2>2
  <1>4. CASE Retires(g)
    <2> DEFINE qs == RetireRoutine(ps)
               n == MissionRetired(m)
    <2>1. qs = [ps EXCEPT ![g].status = "GONE"] /\ n = [m EXCEPT !.current = NoPlan]
      BY <1>4 DEF RetireRoutine, MissionRetired
    <2>2. g # NoPlan /\ plan[g].status = "PENDING"
      BY <1>1, <1>4 DEF Retires, Pending
    <2>3. ps \in [Slots -> PlanRows] /\ m \in MissionRows
      BY DEF Drops
    <2>4. \A p \in Slots \ {g} : qs[p] = ps[p]
      BY <1>1, <2>1, <2>3
    <2>5. ps[g] \in PlanRows /\ qs[g] = [ps[g] EXCEPT !.status = "GONE"]
      BY <1>1, <2>1, <2>3
    <2>6. /\ qs[g] \in PlanRows /\ qs[g].status = "GONE" /\ qs[g].case = ps[g].case
          /\ qs[g].act = ps[g].act /\ qs[g].part = ps[g].part /\ qs[g].fits = ps[g].fits
      BY <2>5 DEF PlanRows
    <2>7. qs \in [Slots -> PlanRows]
      BY <2>1, <2>3, <2>4, <2>6
    <2>8. /\ n \in MissionRows /\ n.status = m.status /\ n.action = m.action
          /\ n.context = m.context
      BY <2>1, <2>3 DEF MissionRows, Slots
    <2> HIDE DEF qs, n, g
    <2>9. \A p \in Plans : qs[p].status # "PENDING"
      BY <1>1, <1>2, <2>4, <2>6
    <2>10. \A p \in Slots : /\ qs[p].case = ps[p].case /\ qs[p].act = ps[p].act
                            /\ qs[p].part = ps[p].part /\ qs[p].fits = ps[p].fits
      BY <2>4, <2>6
    <2>11. \A p \in Plans : qs[p].status # plan[p].status =>
                plan[p].status = "PENDING" /\ qs[p].status \in {"GONE", "REJECTED"}
      BY <1>1, <2>2, <2>4, <2>6 DEF Drops
    <2>12. Drops(qs, n)
      BY <1>1, <2>2, <2>4, <2>7, <2>8, <2>9, <2>10, <2>11 DEF Drops
    <2> QED  BY <2>9, <2>12 DEF qs, n
  <1> QED  BY <1>3, <1>4

LEMMA PlanDropped ==
  ASSUME RInv, NEW c \in Cases
  PROVE  /\ Drops(WithoutPlan(c), MissionWithoutPlan(c))
         /\ Drops(OfOldRevision(WithoutPlan(c), c), MissionWithoutPlan(c))
         /\ \A p \in Plans : WithoutPlan(c)[p].status = "PENDING" => case[c].plan # p
         /\ \A p \in Plans : OfOldRevision(WithoutPlan(c), c)[p].status = "PENDING" =>
                                case[c].plan # p
  <1> DEFINE g == case[c].plan
             qs == WithoutPlan(c)
             n == MissionWithoutPlan(c)
             os == OfOldRevision(qs, c)
  <1>1. /\ g \in Slots /\ Plans \subseteq Slots /\ NoPlan \in Slots
        /\ plan[NoPlan].status # "PENDING"
        /\ plan \in [Slots -> PlanRows] /\ mission \in MissionRows
    BY DEF RInv, TypeOK, CaseRows, Slots, NoPlanIsBlank, Blank
  <1>2. /\ Drops(qs, n)
        /\ \A p \in Plans : qs[p].status = "PENDING" => g # p
    <2>1. CASE ~Pending(g)
      <3>1. qs = plan /\ n = mission
        BY <2>1 DEF WithoutPlan, MissionWithoutPlan
      <3> QED  BY <2>1, <3>1, NothingDropped DEF Pending
    <2>2. CASE Pending(g)
      <3>1. qs = [plan EXCEPT ![g].status = "GONE"] /\ n = Forget(mission, g)
        BY <2>2 DEF WithoutPlan, MissionWithoutPlan
      <3>2. g # NoPlan /\ plan[g].status = "PENDING"
        BY <1>1, <2>2 DEF Pending
      <3>3. \A p \in Slots \ {g} : qs[p] = plan[p]
        BY <1>1, <3>1
      <3>4. plan[g] \in PlanRows /\ qs[g] = [plan[g] EXCEPT !.status = "GONE"]
        BY <1>1, <3>1
      <3>5. /\ qs[g] \in PlanRows /\ qs[g].status = "GONE" /\ qs[g].case = plan[g].case
            /\ qs[g].act = plan[g].act /\ qs[g].part = plan[g].part
            /\ qs[g].fits = plan[g].fits
        BY <3>4 DEF PlanRows
      <3>6. qs \in [Slots -> PlanRows]
        BY <1>1, <3>1, <3>3, <3>5
      <3>7. /\ n \in MissionRows /\ n.status = mission.status /\ n.action = mission.action
            /\ n.context \in {mission.context, NoPlan}
        BY <1>1, <3>1 DEF Forget, MissionRows, Slots
      <3>8. g \in Plans /\ mission.current = g
        BY <1>1, <3>2 DEF Slots, RInv, PendingIsCurrent, Pending
      <3> HIDE DEF qs, n, g
      <3>9. \A p \in Plans : qs[p].status # "PENDING"
        BY <1>1, <3>3, <3>5, <3>8 DEF RInv, PendingIsCurrent, Pending
      <3>10. \A p \in Slots : /\ qs[p].case = plan[p].case /\ qs[p].act = plan[p].act
                              /\ qs[p].part = plan[p].part /\ qs[p].fits = plan[p].fits
        BY <3>3, <3>5
      <3>11. \A p \in Plans : qs[p].status # plan[p].status =>
                  plan[p].status = "PENDING" /\ qs[p].status \in {"GONE", "REJECTED"}
        BY <1>1, <3>2, <3>3, <3>5
      <3>12. Drops(qs, n)
        BY <1>1, <3>2, <3>3, <3>6, <3>7, <3>9, <3>10, <3>11 DEF Drops
      <3> QED  BY <3>9, <3>12
    <2> QED  BY <2>1, <2>2
  <1> HIDE DEF qs, n, g
  <1>3. /\ os \in [Slots -> PlanRows]
        /\ \A p \in Slots : /\ os[p].case = qs[p].case /\ os[p].act = qs[p].act
                            /\ os[p].part = qs[p].part /\ os[p].fits = qs[p].fits
                            /\ os[p].status = qs[p].status
        /\ os[NoPlan] = qs[NoPlan]
    <2>1. ASSUME NEW p \in Slots
          PROVE  /\ os[p] \in PlanRows /\ os[p].case = qs[p].case /\ os[p].act = qs[p].act
                 /\ os[p].part = qs[p].part /\ os[p].fits = qs[p].fits
                 /\ os[p].status = qs[p].status
                 /\ (qs[p].rev = FALSE => os[p] = qs[p])
      <3> DEFINE b == qs[p].rev /\ qs[p].case # c
      <3>1. qs[p] \in PlanRows
        BY <1>2 DEF Drops
      <3>2. os[p] = [qs[p] EXCEPT !.rev = b]
        BY DEF OfOldRevision
      <3>3. b \in BOOLEAN /\ (qs[p].rev = FALSE => b = FALSE)
        OBVIOUS
      <3> HIDE DEF b, os
      <3>4. os[p] = [status |-> qs[p].status, case |-> qs[p].case, rev |-> b,
                     fits |-> qs[p].fits, act |-> qs[p].act, part |-> qs[p].part]
        BY <3>1, <3>2 DEF PlanRows
      <3>5. qs[p] = [status |-> qs[p].status, case |-> qs[p].case, rev |-> qs[p].rev,
                     fits |-> qs[p].fits, act |-> qs[p].act, part |-> qs[p].part]
        BY <3>1 DEF PlanRows
      <3> QED  BY <3>1, <3>3, <3>4, <3>5 DEF PlanRows
    <2>2. os = [p \in Slots |-> os[p]]
      BY DEF OfOldRevision
    <2>3. qs[NoPlan].rev = FALSE
      BY <1>2 DEF Drops, RInv, NoPlanIsBlank, Blank
    <2> HIDE DEF os
    <2> QED  BY <1>1, <2>1, <2>2, <2>3
  <1> HIDE DEF os
  <1>4. Drops(os, n)
    BY <1>1, <1>2, <1>3 DEF Drops
  <1> QED  BY <1>1, <1>2, <1>3, <1>4 DEF qs, n, g, os

\* A step that gives up plans and makes none.
LEMMA CasesMove ==
  ASSUME RInv, TypeOK', Drops(plan', mission'),
         OneCaseIsOpen', NoRoutineBesideCase', received' = received,
         \A c \in Cases :
            /\ case'[c].plan = case[c].plan
            /\ case'[c].status = "NONE" => case[c].status = "NONE"
            /\ case'[c].over => case'[c].options = "outdated"
            /\ case'[c].status = "RESOLVED" =>
                  \/ case[c].status = "RESOLVED"
                  \/ \A p \in Purchases(c) : /\ plan[p].act \notin InFlight
                                             /\ plan[p].act = "SUCCEEDED" => p \in received
            /\ case'[c].status = "MONITORING" /\ case'[c].options = "current" =>
                  /\ ~Settled(c, received)'
                  /\ mission.action # NoPlan => plan[mission.action].act = "SENT",
         \A c \in Cases : \A p \in Plans :
            Live(p) /\ plan[p].case = c /\ mission'.context = p
            /\ plan'[p].status \in {"PENDING", "APPROVED"} =>
               /\ case'[c].status \notin {"RESOLVED", "CLOSED"} /\ ~case'[c].over
               /\ plan'[p].status = "PENDING" =>
                     case'[c].options = "outdated" /\ ~Settled(c, received)'
  PROVE  RInv'
  <1>0. /\ plan'[NoPlan] = plan[NoPlan]
        /\ \A p \in Slots : /\ plan'[p].case = plan[p].case /\ plan'[p].act = plan[p].act
                            /\ plan'[p].part = plan[p].part
                            /\ plan'[p].fits => plan[p].fits
        /\ \A p \in Plans : plan'[p].status # plan[p].status =>
              plan[p].status = "PENDING" /\ plan'[p].status \in {"GONE", "REJECTED"}
        /\ \A p \in Plans : plan'[p].status = "PENDING" => mission'.current = mission.current
        /\ mission'.status = mission.status /\ mission'.action = mission.action
        /\ mission'.context \in {mission.context, NoPlan}
    BY DEF Drops
  <1>1. Plans \subseteq Slots /\ \A d \in Cases : case'[d].plan = case[d].plan
    BY DEF Slots
  <1>2. NoPlanIsBlank' /\ PendingIsCurrent' /\ PlansHaveCases' /\ CommittedIsPlan'
    <2>1. \A p \in Plans : plan'[p].status = "PENDING" =>
             /\ plan[p].status = "PENDING"
             /\ mission'.current = mission.current /\ mission'.action = mission.action
      BY <1>0
    <2>2. \A d \in Cases : case'[d].status = "NONE" => case[d].status = "NONE"
      OBVIOUS
    <2>3. \A p \in Plans :
             plan'[p].act \in InFlight \cup {"SUCCEEDED"} /\ ~plan'[p].part =>
             plan[p].act \in InFlight \cup {"SUCCEEDED"} /\ ~plan[p].part
      BY <1>0, <1>1
    <2>4. \A p \in Plans : plan'[p].case = plan[p].case
      BY <1>0, <1>1
    <2> QED  BY <1>0, <1>1, <2>1, <2>2, <2>3, <2>4, OldPlans
  <1>3. ActionInFlight'
    <2> SUFFICES ASSUME NEW p \in Plans
                 PROVE  /\ plan'[p].act \in InFlight <=> mission'.action = p
                        /\ plan'[p].act # "NONE" => plan'[p].status = "APPROVED"
                        /\ plan'[p].part => plan'[p].act = "SUCCEEDED"
      BY DEF ActionInFlight, InFlight
    <2>1. /\ plan[p].act \in InFlight <=> mission.action = p
          /\ plan[p].act # "NONE" => plan[p].status = "APPROVED"
          /\ plan[p].part => plan[p].act = "SUCCEEDED"
      BY DEF RInv, ActionInFlight
    <2> QED  BY <1>0, <1>1, <2>1
  <1>4. FitsIsActive'
    BY <1>0, <1>1 DEF RInv, FitsIsActive, Active
  <1>5. OverIsOutdated'
    BY DEF RInv, OverIsOutdated
  <1>6. ResolvedMeansReceived'
    <2>1. \A d \in Cases : case'[d].status = "RESOLVED" =>
            \/ case[d].status = "RESOLVED"
            \/ \A p \in Purchases(d) : /\ plan'[p].act \notin InFlight
                                       /\ plan'[p].act = "SUCCEEDED" => p \in received'
      BY <1>0, <1>1 DEF Purchases
    <2>2. \A p \in Plans : plan'[p].act # plan[p].act => plan[p].act \in InFlight
      BY <1>0, <1>1
    <2>3. \A p \in Plans : plan'[p].case = plan[p].case
      BY <1>0, <1>1
    <2> QED  BY <2>1, <2>2, <2>3, ResolvedStays
  <1>8. LiveIsOpen'
    <2> SUFFICES ASSUME NEW p \in Plans, Live(p)', NEW d, d = plan'[p].case
                 PROVE  /\ case'[d].status \notin {"RESOLVED", "CLOSED"} /\ ~case'[d].over
                        /\ plan'[p].status = "PENDING" =>
                              case'[d].options = "outdated" /\ ~Settled(d, received)'
      BY DEF LiveIsOpen, Pending
    <2>1. /\ Live(p) /\ plan[p].case = d /\ mission'.context = p
          /\ plan'[p].status \in {"PENDING", "APPROVED"}
          /\ (plan'[p].status = "PENDING" => plan[p].status = "PENDING")
      <3>1. /\ plan'[p].case # NoCase /\ plan'[p].fits /\ mission'.context = p
            /\ plan'[p].status = "PENDING" \/ plan'[p].act = "QUEUED"
        BY DEF Live, Routine, Pending
      <3>2. p # NoPlan
        BY RecoveryAssumption
      <3> QED  BY <1>0, <1>1, <3>1, <3>2 DEF Live, Routine, Pending, RInv, ActionInFlight
    <2>2. d \in Cases
      BY <1>1, <2>1 DEF RInv, TypeOK, PlanRows, Live, Routine
    <2> QED  BY <2>1, <2>2
  <1>9. WaitsForMore'
    <2> SUFFICES ASSUME NEW d \in Cases, case'[d].status = "MONITORING",
                        case'[d].options = "current"
                 PROVE  /\ ~Settled(d, received)'
                        /\ mission'.action # NoPlan => plan'[mission'.action].act = "SENT"
      BY DEF WaitsForMore
    <2>1. mission.action \in Slots
      BY DEF RInv, TypeOK, MissionRows
    <2> QED  BY <1>0, <1>1, <2>1
  <1> QED  BY <1>2, <1>3, <1>4, <1>5, <1>6, <1>8, <1>9 DEF RInv

\* The same of a step of one case.
LEMMA OneCaseMoves ==
  ASSUME RInv, TypeOK', NEW c \in Cases,
         Drops(plan', mission'),
         \A d \in Cases \ {c} : case'[d] = case[d],
         case'[c].plan = case[c].plan, case'[c].status # "NONE",
         case'[c].over => case'[c].options = "outdated",
         OneCaseIsOpen', NoRoutineBesideCase', received' = received,
         case'[c].status = "RESOLVED" =>
            \/ case[c].status = "RESOLVED"
            \/ \A p \in Purchases(c) : /\ plan[p].act \notin InFlight
                                       /\ plan[p].act = "SUCCEEDED" => p \in received,
         \A p \in Plans : Live(p) /\ plan[p].case = c /\ mission'.context = p
                          /\ plan'[p].status \in {"PENDING", "APPROVED"} =>
            /\ case'[c].status \notin {"RESOLVED", "CLOSED"} /\ ~case'[c].over
            /\ plan'[p].status = "PENDING" =>
                  case'[c].options = "outdated" /\ ~Settled(c, received)',
         case'[c].status = "MONITORING" /\ case'[c].options = "current" =>
            /\ ~Settled(c, received)'
            /\ mission.action # NoPlan => plan[mission.action].act = "SENT"
  PROVE  RInv'
  <1>1. \A p \in Slots : /\ plan'[p].case = plan[p].case /\ plan'[p].act = plan[p].act
                         /\ plan'[p].part = plan[p].part
    BY DEF Drops
  <1>2. /\ mission.action \in Slots /\ Plans \subseteq Slots
        /\ \A p \in Plans : plan'[p].status = "PENDING" => plan[p].status = "PENDING"
    BY DEF RInv, TypeOK, MissionRows, Slots, Drops
  <1>3. ASSUME NEW d \in Cases \ {c}
        PROVE  /\ Settled(d, received)' = Settled(d, received)
               /\ case'[d] = case[d]
    <2>1. ASSUME NEW recv PROVE Settled(d, recv)' = Settled(d, recv)
      BY <1>1, SameSettled DEF RInv
    <2> QED  BY <2>1 DEF Settled
  <1>4. ASSUME NEW d \in Cases
        PROVE  /\ case'[d].plan = case[d].plan
               /\ case'[d].status = "NONE" => case[d].status = "NONE"
               /\ case'[d].over => case'[d].options = "outdated"
               /\ case'[d].status = "RESOLVED" =>
                     \/ case[d].status = "RESOLVED"
                     \/ \A p \in Purchases(d) : /\ plan[p].act \notin InFlight
                                                /\ plan[p].act = "SUCCEEDED" => p \in received
               /\ case'[d].status = "MONITORING" /\ case'[d].options = "current" =>
                     /\ ~Settled(d, received)'
                     /\ mission.action # NoPlan => plan[mission.action].act = "SENT"
    <2>1. CASE d = c
      BY <2>1
    <2>2. CASE d # c
      BY <1>3, <2>2 DEF RInv, OverIsOutdated, WaitsForMore
    <2> QED  BY <2>1, <2>2
  <1>5. ASSUME NEW d \in Cases, NEW p \in Plans, Live(p), plan[p].case = d,
               mission'.context = p, plan'[p].status \in {"PENDING", "APPROVED"}
        PROVE  /\ case'[d].status \notin {"RESOLVED", "CLOSED"} /\ ~case'[d].over
               /\ plan'[p].status = "PENDING" =>
                     case'[d].options = "outdated" /\ ~Settled(d, received)'
    <2>1. CASE d = c
      BY <1>5, <2>1
    <2>2. CASE d # c
      BY <1>2, <1>3, <1>5, <2>2 DEF RInv, LiveIsOpen, Pending
    <2> QED  BY <2>1, <2>2
  <1> QED  BY <1>4, <1>5, CasesMove

\* Or of no case.
LEMMA CasesStay ==
  ASSUME RInv, Drops(plan', mission'), UNCHANGED <<case, received>>, check' \in BOOLEAN
  PROVE  RInv'
  <1>1. \A p \in Slots : /\ plan'[p].case = plan[p].case /\ plan'[p].act = plan[p].act
                         /\ plan'[p].part = plan[p].part
    BY DEF Drops
  <1>2. /\ mission.action \in Slots /\ Plans \subseteq Slots
        /\ \A p \in Plans : plan'[p].status = "PENDING" => plan[p].status = "PENDING"
    BY DEF RInv, TypeOK, MissionRows, Slots, Drops
  <1>3. ASSUME NEW d \in Cases
        PROVE  Settled(d, received)' = Settled(d, received)
    <2>1. ASSUME NEW recv PROVE Settled(d, recv)' = Settled(d, recv)
      BY <1>1, SameSettled DEF RInv
    <2> QED  BY <2>1 DEF Settled
  <1>4. TypeOK'
    BY DEF RInv, TypeOK, Drops
  <1>5. OneCaseIsOpen' /\ NoRoutineBesideCase'
    BY <1>1, <1>2, NoneOpens DEF Open
  <1>6. ASSUME NEW d \in Cases
        PROVE  /\ case'[d].over => case'[d].options = "outdated"
               /\ case'[d].status = "MONITORING" /\ case'[d].options = "current" =>
                     /\ ~Settled(d, received)'
                     /\ mission.action # NoPlan => plan[mission.action].act = "SENT"
    BY <1>3 DEF RInv, OverIsOutdated, WaitsForMore
  <1>7. ASSUME NEW d \in Cases, NEW p \in Plans, Live(p), plan[p].case = d
        PROVE  /\ case'[d].status \notin {"RESOLVED", "CLOSED"} /\ ~case'[d].over
               /\ plan'[p].status = "PENDING" =>
                     case'[d].options = "outdated" /\ ~Settled(d, received)'
    BY <1>2, <1>3, <1>7 DEF RInv, LiveIsOpen, Pending
  <1> QED  BY <1>4, <1>5, <1>6, <1>7, CasesMove

\* The same of a case that is open, and stays or ends.
LEMMA OpenCaseMoves ==
  ASSUME RInv, NEW c \in Cases, Open(c), NEW row \in CaseRows,
         case' = [case EXCEPT ![c] = row], Drops(plan', mission'),
         received' = received, check' \in BOOLEAN,
         row.status # "NONE", row.plan = case[c].plan,
         row.over => row.options = "outdated",
         row.status = "RESOLVED" =>
            \A p \in Purchases(c) : /\ plan[p].act \notin InFlight
                                    /\ plan[p].act = "SUCCEEDED" => p \in received,
         \A p \in Plans : Live(p) /\ plan[p].case = c /\ mission'.context = p
                          /\ plan'[p].status \in {"PENDING", "APPROVED"} =>
            /\ row.status \notin {"RESOLVED", "CLOSED"} /\ ~row.over
            /\ plan'[p].status = "PENDING" =>
                  row.options = "outdated" /\ ~Settled(c, received)',
         row.status = "MONITORING" /\ row.options = "current" =>
            /\ ~Settled(c, received)'
            /\ mission.action # NoPlan => plan[mission.action].act = "SENT"
  PROVE  RInv'
  <1>1. /\ case' \in [Cases -> CaseRows] /\ case'[c] = row
        /\ \A d \in Cases \ {c} : case'[d] = case[d]
    BY DEF RInv, TypeOK
  <1>2. TypeOK'
    BY <1>1 DEF RInv, TypeOK, Drops
  <1>3. OneCaseIsOpen' /\ NoRoutineBesideCase'
    <2>1. \A p \in Plans : plan'[p].case = plan[p].case
      BY DEF Drops, Slots
    <2>2. \A p \in Plans : plan'[p].status = "PENDING" => plan[p].status = "PENDING"
      BY DEF Drops
    <2>3. \A d \in Cases : case'[d].status \notin Terminal \cup {"NONE"} => Open(d)
      BY <1>1 DEF Open
    <2> QED  BY <2>1, <2>2, <2>3, NoneOpens
  <1> QED  BY <1>1, <1>2, <1>3, OneCaseMoves

LEMMA SameBought ==
  ASSUME NEW c \in Cases, \A p \in Slots : plan'[p].case = plan[p].case
                                           /\ plan'[p].act = plan[p].act
  PROVE  Purchases(c)' = Purchases(c) /\ Bought(c)' = Bought(c)
  BY DEF Purchases, Bought, Slots

\* A settled case has nothing on the way.
LEMMA SettledIsDone ==
  ASSUME NEW c \in Cases, NEW recv, Settled(c, recv)
  PROVE  \A p \in Purchases(c) : /\ plan[p].act \notin InFlight
                                 /\ plan[p].act = "SUCCEEDED" => p \in recv
  BY DEF Settled, Bought

-----------------------------------------------------------------------------
(* The owner and the follow-up job *)

LEMMA CreateKeeps ==
  ASSUME RInv, NEW c \in Cases, Create(c)
  PROVE  RInv'
  <1> DEFINE row == [case[c] EXCEPT !.status = "OPEN"]
  <1>1. /\ case[c] \in CaseRows /\ case[c].status = "NONE" /\ \A d \in Cases : ~Open(d)
        /\ case' = [case EXCEPT ![c] = row]
        /\ plan' = RetireRoutine(plan) /\ mission' = MissionRetired(mission)
        /\ UNCHANGED <<received, check>>
    BY DEF Create, RInv, TypeOK
  <1>2. /\ row \in CaseRows /\ row.status = "OPEN" /\ row.plan = case[c].plan
        /\ row.over = case[c].over /\ row.options = case[c].options
    BY <1>1 DEF CaseRows
  <1> HIDE DEF row
  <1>3. /\ case' \in [Cases -> CaseRows] /\ case'[c] = row
        /\ \A d \in Cases \ {c} : case'[d] = case[d]
    BY <1>1, <1>2 DEF RInv, TypeOK
  <1>4. /\ Drops(plan', mission')
        /\ \A p \in Plans : plan'[p].status = "PENDING" => plan[p].case # NoCase
    BY <1>1, NothingDropped, RoutineDropped
  <1>5. TypeOK'
    BY <1>1, <1>3, <1>4 DEF RInv, TypeOK, Drops
  <1>6. OneCaseIsOpen'
    BY <1>1, <1>3 DEF OneCaseIsOpen, Open
  <1>7. NoRoutineBesideCase'
    BY <1>4 DEF NoRoutineBesideCase, Pending, Routine, Drops, Slots
  <1>8. \A p \in Plans : plan[p].case # c
    BY <1>1, RecoveryAssumption DEF RInv, PlansHaveCases, Routine
  <1>9. row.over => row.options = "outdated"
    BY <1>2 DEF RInv, OverIsOutdated
  <1> QED  BY <1>1, <1>2, <1>3, <1>4, <1>5, <1>6, <1>7, <1>8, <1>9, OneCaseMoves

LEMMA AnalyzeKeeps ==
  ASSUME RInv, NEW c \in Cases, Analyze(c)
  PROVE  RInv'
  <1>1. PICK row \in {Solved(case[c]), Unsolved(case[c])} : case' = [case EXCEPT ![c] = row]
    BY DEF Analyze
  <1>2. /\ Open(c) /\ case[c].options = "none" /\ UNCHANGED <<mission, plan, received, check>>
        /\ case[c] \in CaseRows
    BY DEF Analyze, RInv, TypeOK
  <1>3. /\ row \in CaseRows /\ row.plan = case[c].plan /\ row.over = case[c].over
        /\ row.status \in {"OPTIONS_READY", "BLOCKED"}
    <2>1. Outstanding \in SUBSET Orders
      BY DEF Outstanding, Orders
    <2> QED  BY <1>2, <2>1 DEF Solved, Unsolved, CaseRows
  <1>4. case[c].over \in BOOLEAN /\ ~row.over
    BY <1>2, <1>3 DEF RInv, OverIsOutdated, CaseRows
  <1>5. Drops(plan', mission') /\ check' \in BOOLEAN
    BY <1>2, NothingDropped DEF RInv, TypeOK
  <1>6. ASSUME NEW p \in Plans, Live(p), plan[p].case = c
        PROVE  plan'[p].status # "PENDING"
    BY <1>2, <1>6 DEF RInv, LiveIsOpen, Pending
  <1>7. \A p \in Plans : Live(p) /\ plan[p].case = c /\ mission'.context = p
                          /\ plan'[p].status \in {"PENDING", "APPROVED"} =>
            /\ row.status \notin {"RESOLVED", "CLOSED"} /\ ~row.over
            /\ plan'[p].status = "PENDING" =>
                  row.options = "outdated" /\ ~Settled(c, received)'
    BY <1>3, <1>4, <1>6
  <1>8. received' = received /\ row.status \notin {"NONE", "RESOLVED", "MONITORING"}
    BY <1>2, <1>3
  <1> QED  BY <1>1, <1>2, <1>3, <1>4, <1>5, <1>7, <1>8, OpenCaseMoves

\* A new revision of a case gives up the plan that waited for approval.
LEMMA RevisionKeeps ==
  ASSUME RInv, NEW c \in Cases, Open(c), NEW row \in CaseRows,
         case' = [case EXCEPT ![c] = row], row.plan = case[c].plan, row.over = FALSE,
         row.status \in {"OPEN", "OPTIONS_READY", "BLOCKED"},
         plan' = OfOldRevision(WithoutPlan(c), c), mission' = MissionWithoutPlan(c),
         UNCHANGED <<received, check>>
  PROVE  RInv'
  <1>1. /\ Drops(plan', mission')
        /\ \A p \in Plans : plan'[p].status = "PENDING" => case[c].plan # p
    BY PlanDropped
  <1>2. ASSUME NEW p \in Plans, plan[p].case = c
        PROVE  plan'[p].status # "PENDING"
    BY <1>1, <1>2, RecoveryAssumption DEF RInv, PendingIsCurrent, Pending, Routine, Drops
  <1>3. check' \in BOOLEAN /\ received' = received
    BY DEF RInv, TypeOK
  <1>4. ~row.over /\ row.status \notin {"NONE", "RESOLVED", "CLOSED", "MONITORING"}
    OBVIOUS
  <1>5. \A p \in Plans : Live(p) /\ plan[p].case = c /\ mission'.context = p
                          /\ plan'[p].status \in {"PENDING", "APPROVED"} =>
            /\ row.status \notin {"RESOLVED", "CLOSED"} /\ ~row.over
            /\ plan'[p].status = "PENDING" =>
                  row.options = "outdated" /\ ~Settled(c, received)'
    BY <1>2, <1>4
  <1> QED  BY <1>1, <1>3, <1>4, <1>5, OpenCaseMoves

LEMMA ReviseKeeps ==
  ASSUME RInv, NEW c \in Cases, Revise(c) \/ Source(c)
  PROVE  RInv'
  <1> DEFINE n == NextRevision(case[c])
  <1>1. case[c] \in CaseRows /\ Outstanding \in SUBSET Orders
    BY DEF RInv, TypeOK, Outstanding, Orders
  <1>2. /\ n \in CaseRows /\ n.plan = case[c].plan /\ n.over = FALSE /\ n.status = "OPEN"
    BY <1>1 DEF NextRevision, CaseRows
  <1>3. \E row \in {n, Solved(n), Unsolved(n)} : case' = [case EXCEPT ![c] = row]
    <2>1. CASE Revise(c)
      BY <2>1 DEF Revise, RInv, TypeOK
    <2>2. CASE Source(c)
      BY <2>2 DEF Source
    <2> QED  BY <2>1, <2>2
  <1> HIDE DEF n
  <1>4. PICK row \in {n, Solved(n), Unsolved(n)} : case' = [case EXCEPT ![c] = row]
    BY <1>3
  <1>5. /\ row \in CaseRows /\ row.plan = case[c].plan /\ row.over = FALSE
        /\ row.status \in {"OPEN", "OPTIONS_READY", "BLOCKED"}
    BY <1>1, <1>2 DEF Solved, Unsolved, CaseRows
  <1> QED  BY <1>4, <1>5, RevisionKeeps DEF Revise, Source

LEMMA CancelKeeps ==
  ASSUME RInv, NEW c \in Cases, Cancel(c)
  PROVE  RInv'
  <1> DEFINE row == [case[c] EXCEPT !.status = "CANCELLED"]
  <1>1. /\ Open(c) /\ case' = [case EXCEPT ![c] = row] /\ case[c] \in CaseRows
        /\ plan' = WithoutPlan(c) /\ mission' = MissionWithoutPlan(c)
        /\ received' = received /\ check' \in BOOLEAN
    BY DEF Cancel, QueueCheck, RInv, TypeOK
  <1>0. case[c] \in CaseRows
    BY DEF RInv, TypeOK
  <1>2. /\ row \in CaseRows /\ row.status = "CANCELLED" /\ row.plan = case[c].plan
        /\ row.over = case[c].over /\ row.options = case[c].options
    BY <1>0 DEF CaseRows, Terminal
  <1> HIDE DEF row
  <1>3. /\ Drops(plan', mission')
        /\ \A p \in Plans : plan'[p].status = "PENDING" => case[c].plan # p
    BY <1>1, PlanDropped
  <1>4. ASSUME NEW p \in Plans, plan[p].case = c
        PROVE  plan'[p].status # "PENDING"
    BY <1>3, <1>4, RecoveryAssumption DEF RInv, PendingIsCurrent, Pending, Routine, Drops
  <1>5. row.over => row.options = "outdated"
    BY <1>2 DEF RInv, OverIsOutdated
  <1>6. ASSUME NEW p \in Plans, Live(p), plan[p].case = c
        PROVE  ~row.over
    BY <1>2, <1>6 DEF RInv, LiveIsOpen
  <1>7. \A p \in Plans : Live(p) /\ plan[p].case = c /\ mission'.context = p
                          /\ plan'[p].status \in {"PENDING", "APPROVED"} =>
            /\ row.status \notin {"RESOLVED", "CLOSED"} /\ ~row.over
            /\ plan'[p].status = "PENDING" =>
                  row.options = "outdated" /\ ~Settled(c, received)'
    BY <1>2, <1>4, <1>6
  <1>8. row.status \notin {"NONE", "RESOLVED", "MONITORING"}
    BY <1>2
  <1> QED  BY <1>1, <1>2, <1>3, <1>5, <1>7, <1>8, OpenCaseMoves

LEMMA AdoptWaitingKeeps ==
  ASSUME RInv, NEW c \in Cases, AdoptWaiting(c)
  PROVE  RInv'
  <1> DEFINE w == [case[c] EXCEPT !.status = "MONITORING", !.waited = TRUE]
             done == IF Bought(c) # {} THEN Bought(c) \subseteq received
                                       ELSE w.base \subseteq received
             row == [w EXCEPT !.status = IF done THEN "RESOLVED" ELSE @]
  <1>1. /\ Open(c) /\ case[c].options # "none" /\ mission.action = NoPlan
        /\ case' = [case EXCEPT ![c] = row] /\ case[c] \in CaseRows
        /\ plan' = RetireRoutine(WithoutPlan(c))
        /\ mission' = MissionRetired(MissionWithoutPlan(c)) /\ received' = received
    BY DEF AdoptWaiting, RInv, TypeOK
  <1>2. check' \in BOOLEAN
    BY DEF AdoptWaiting, QueueCheck
  <1>3. /\ w \in CaseRows /\ w.status = "MONITORING" /\ w.plan = case[c].plan
        /\ w.over = case[c].over /\ w.options = case[c].options /\ w.waited = TRUE
        /\ w.base = case[c].base
    BY <1>1 DEF CaseRows
  <1> HIDE DEF w
  <1>5. done <=> IF Bought(c) # {} THEN Bought(c) \subseteq received
                                   ELSE case[c].base \subseteq received
    BY <1>3
  <1> HIDE DEF done
  <1>4. /\ row \in CaseRows /\ row.plan = case[c].plan /\ row.over = case[c].over
        /\ row.options = case[c].options /\ row.waited = TRUE /\ row.base = case[c].base
        /\ row.status = IF done THEN "RESOLVED" ELSE "MONITORING"
    BY <1>3 DEF CaseRows, Terminal
  <1> HIDE DEF row
  <1>6. /\ Drops(plan', mission')
        /\ \A p \in Plans : plan'[p].status = "PENDING" => case[c].plan # p
    BY <1>1, PlanDropped, RoutineDropped
  <1>7. ASSUME NEW p \in Plans, plan[p].case = c
        PROVE  plan'[p].status # "PENDING" /\ plan[p].act \notin InFlight
    <2>1. plan'[p].status # "PENDING"
      BY <1>6, <1>7, RecoveryAssumption DEF RInv, PendingIsCurrent, Pending, Routine, Drops
    <2>2. plan[p].act \notin InFlight
      BY <1>1, RecoveryAssumption DEF RInv, ActionInFlight
    <2> QED  BY <2>1, <2>2
  <1>8. ASSUME NEW p \in Plans, Live(p), plan[p].case = c,
               plan'[p].status \in {"PENDING", "APPROVED"}
        PROVE  FALSE
    <2>1. plan[p].act = "QUEUED" \/ plan[p].status = "PENDING"
      BY <1>8 DEF Live, Pending
    <2>2. plan[p].status # "PENDING"
      BY <1>6, <1>7, <1>8 DEF Drops
    <2> QED  BY <1>7, <1>8, <2>1, <2>2 DEF InFlight
  <1>9. ASSUME row.status = "RESOLVED", NEW p \in Purchases(c)
        PROVE  plan[p].act \notin InFlight /\ (plan[p].act = "SUCCEEDED" => p \in received)
    BY <1>4, <1>5, <1>7, <1>9 DEF Purchases, Bought
  <1>10. ASSUME row.status = "MONITORING"
         PROVE  ~Settled(c, received)'
    <2>1. case'[c] = row
      BY <1>1 DEF RInv, TypeOK
    <2>2. Bought(c)' = Bought(c)
      BY <1>6, SameBought DEF Drops
    <2>3. ~done
      BY <1>4, <1>10
    <2>4. ~ (IF Bought(c)' # {} THEN Bought(c)' \subseteq received
             ELSE case'[c].options # "none" /\ case'[c].base \subseteq received)
      BY <1>4, <1>5, <2>1, <2>2, <2>3
    <2> QED  BY <1>1, <2>4 DEF Settled
  <1>11. row.over => row.options = "outdated"
    BY <1>4 DEF RInv, OverIsOutdated
  <1>12. row.status # "NONE"
    BY <1>4
  <1> QED  BY <1>1, <1>2, <1>4, <1>6, <1>8, <1>9, <1>10, <1>11, <1>12, OpenCaseMoves

\* What is live belongs to a case that has not played out.
LEMMA LiveIsNotSettled ==
  ASSUME RInv, NEW p \in Plans, Live(p)
  PROVE  /\ plan[p].case \in Cases /\ ~Settled(plan[p].case, received)
         /\ mission.status = "ACTIVE" /\ ~case[plan[p].case].over
         /\ case[plan[p].case].status # "NONE"
  <1>1. plan[p].case \in Cases
    BY DEF RInv, TypeOK, PlanRows, Slots, Live, Routine
  <1>2. mission.status = "ACTIVE" /\ ~case[plan[p].case].over
        /\ case[plan[p].case].status # "NONE"
    BY DEF RInv, FitsIsActive, Active, LiveIsOpen, Live, PlansHaveCases
  <1>3. CASE Pending(p)
    BY <1>1, <1>2, <1>3 DEF RInv, LiveIsOpen
  <1>4. CASE plan[p].act = "QUEUED"
    <2>1. p \in Purchases(plan[p].case)
      BY <1>4 DEF Purchases
    <2> QED  BY <1>1, <1>2, <1>4, <2>1 DEF Settled, InFlight
  <1> QED  BY <1>1, <1>2, <1>3, <1>4 DEF Live

LEMMA FollowUpKeeps ==
  ASSUME RInv, NEW c \in Cases, FollowUp(c)
  PROVE  RInv'
  <1>1. /\ Open(c) /\ UNCHANGED <<mission, plan, received, check>> /\ case[c] \in CaseRows
        /\ Drops(plan', mission') /\ check' \in BOOLEAN
    BY NothingDropped DEF FollowUp, RInv, TypeOK
  <1>2. PICK st \in {"RESOLVED", "CLOSED", "MONITORING", "RECHECK_REQUIRED"} :
           /\ case' = [case EXCEPT ![c].status = st]
           /\ st = "RESOLVED" => Settled(c, received)
           /\ st = "CLOSED" => mission.status = "ENDED" \/ case[c].over
           /\ st = "MONITORING" => plan[case[c].plan].act = "SENT"
    <2>1. CASE Settled(c, received) /\ case' = [case EXCEPT ![c].status = "RESOLVED"]
      BY <2>1
    <2>2. CASE /\ mission.status = "ENDED" \/ case[c].over
               /\ case' = [case EXCEPT ![c].status = "CLOSED"]
      BY <2>2
    <2>3. CASE /\ plan[case[c].plan].act = "SENT"
               /\ case' = [case EXCEPT ![c].status = "MONITORING"]
      BY <2>3
    <2>4. CASE case' = [case EXCEPT ![c] = Recheck(@)]
      <3>1. case' = [case EXCEPT ![c].status = "RECHECK_REQUIRED"]
        BY <1>1, <2>4 DEF Recheck, Open, RInv, TypeOK
      <3> QED  BY <3>1
    <2> QED  BY <2>1, <2>2, <2>3, <2>4 DEF FollowUp
  <1> DEFINE row == [case[c] EXCEPT !.status = st]
  <1>3. case' = [case EXCEPT ![c] = row]
    BY <1>2 DEF RInv, TypeOK
  <1>4. /\ row \in CaseRows /\ row.status = st /\ row.plan = case[c].plan
        /\ row.over = case[c].over /\ row.options = case[c].options
    BY <1>1 DEF CaseRows, Terminal
  <1> HIDE DEF row
  <1>5. row.over => row.options = "outdated"
    BY <1>4 DEF RInv, OverIsOutdated
  <1>6. ASSUME row.status = "RESOLVED", NEW p \in Purchases(c)
        PROVE  plan[p].act \notin InFlight /\ (plan[p].act = "SUCCEEDED" => p \in received)
    BY <1>2, <1>4, <1>6, SettledIsDone DEF RInv, TypeOK
  <1>7. ASSUME st = "MONITORING"
        PROVE  /\ mission.action = case[c].plan /\ case[c].plan \in Plans
               /\ plan[mission.action].act = "SENT" /\ ~Settled(c, received)'
    <2>1. case[c].plan \in Plans \cup {NoPlan} /\ plan[case[c].plan].act = "SENT"
      BY <1>1, <1>2, <1>7 DEF CaseRows, Slots
    <2>2. case[c].plan \in Plans /\ mission.action = case[c].plan
      BY <2>1 DEF RInv, NoPlanIsBlank, Blank, ActionInFlight, InFlight
    <2>3. case[c].plan \in Purchases(c)
      BY <2>1, <2>2, RecoveryAssumption DEF RInv, PlansHaveCases, Purchases
    <2>4. case[c].plan \in Purchases(c)' /\ plan'[case[c].plan].act \in InFlight
      BY <1>1, <2>1, <2>3 DEF Purchases, InFlight
    <2> QED  BY <2>1, <2>2, <2>4 DEF Settled
  <1>8. ASSUME NEW p \in Plans, Live(p), plan[p].case = c
        PROVE  /\ row.status \notin {"RESOLVED", "CLOSED"} /\ ~row.over
               /\ plan'[p].status = "PENDING" =>
                     row.options = "outdated" /\ ~Settled(c, received)'
    <2>1. ~Settled(c, received) /\ mission.status = "ACTIVE" /\ ~case[c].over
      BY <1>8, LiveIsNotSettled
    <2>2. st \notin {"RESOLVED", "CLOSED"}
      BY <1>2, <2>1
    <2>3. CASE plan'[p].status = "PENDING"
      <3>1. case[c].options = "outdated" /\ mission.action = NoPlan
        BY <1>1, <1>8, <2>3 DEF RInv, LiveIsOpen, Pending, PendingIsCurrent
      <3>2. st # "MONITORING"
        BY <1>7, <3>1, RecoveryAssumption
      <3>3. case'[c].status # "MONITORING"
        BY <1>3, <1>4, <3>2 DEF RInv, TypeOK
      <3> QED  BY <1>4, <2>1, <2>2, <3>1, <3>3 DEF Settled
    <2> QED  BY <1>4, <2>1, <2>2, <2>3
  <1>9. row.status # "NONE"
    BY <1>4
  <1> QED  BY <1>1, <1>3, <1>4, <1>5, <1>6, <1>7, <1>8, <1>9, OpenCaseMoves

-----------------------------------------------------------------------------
(* Approvals *)

\* The current plan is given up, if it waits for approval.
Without(st) == IF Pending(mission.current) THEN [plan EXCEPT ![mission.current].status = st]
               ELSE plan

LEMMA CurrentDropped ==
  ASSUME RInv, NEW st \in {"GONE", "REJECTED"}, NEW m \in MissionRows,
         m.status = mission.status, m.action = mission.action,
         m.context \in {mission.context, NoPlan}
  PROVE  /\ Drops(Without(st), m)
         /\ \A q \in Plans : Without(st)[q].status # "PENDING"
  <1> DEFINE g == mission.current
             qs == Without(st)
  <1>1. /\ g \in Slots /\ Plans \subseteq Slots /\ NoPlan \in Slots
        /\ plan[NoPlan].status # "PENDING"
        /\ plan \in [Slots -> PlanRows] /\ mission \in MissionRows
    BY DEF RInv, TypeOK, MissionRows, Slots, NoPlanIsBlank, Blank
  <1>2. \A q \in Plans : plan[q].status = "PENDING" => g = q
    BY DEF RInv, PendingIsCurrent, Pending
  <1>3. CASE ~Pending(g)
    <2>1. qs = plan
      BY <1>3 DEF Without
    <2>2. \A q \in Plans : plan[q].status # "PENDING"
      BY <1>2, <1>3 DEF Pending
    <2> QED  BY <1>1, <2>1, <2>2 DEF Drops
  <1>4. CASE Pending(g)
    <2>1. qs = [plan EXCEPT ![g].status = st]
      BY <1>4 DEF Without
    <2>2. g # NoPlan /\ plan[g].status = "PENDING"
      BY <1>1, <1>4 DEF Pending
    <2>3. \A q \in Slots \ {g} : qs[q] = plan[q]
      BY <1>1, <2>1
    <2>4. plan[g] \in PlanRows /\ qs[g] = [plan[g] EXCEPT !.status = st]
      BY <1>1, <2>1
    <2>5. /\ qs[g] \in PlanRows /\ qs[g].status = st /\ qs[g].case = plan[g].case
          /\ qs[g].act = plan[g].act /\ qs[g].part = plan[g].part
          /\ qs[g].fits = plan[g].fits
      BY <2>4 DEF PlanRows
    <2>6. qs \in [Slots -> PlanRows]
      BY <1>1, <2>1, <2>3, <2>5
    <2> HIDE DEF qs, g
    <2>7. \A q \in Plans : qs[q].status # "PENDING"
      BY <1>1, <1>2, <2>3, <2>5
    <2>8. \A q \in Slots : /\ qs[q].case = plan[q].case /\ qs[q].act = plan[q].act
                           /\ qs[q].part = plan[q].part /\ qs[q].fits = plan[q].fits
      BY <2>3, <2>5
    <2>9. \A q \in Plans : qs[q].status # plan[q].status =>
             plan[q].status = "PENDING" /\ qs[q].status \in {"GONE", "REJECTED"}
      BY <1>1, <2>2, <2>3, <2>5
    <2>10. Drops(qs, m)
      BY <1>1, <2>2, <2>3, <2>6, <2>7, <2>8, <2>9 DEF Drops
    <2> QED  BY <2>7, <2>10 DEF qs
  <1> QED  BY <1>3, <1>4

LEMMA RejectKeeps ==
  ASSUME RInv, NEW p \in Plans, Reject(p)
  PROVE  RInv'
  <1> DEFINE n == [mission EXCEPT !.context = IF ~Routine(p) /\ @ = p THEN NoPlan ELSE @]
  <1>1. /\ plan' = Without("REJECTED") /\ mission' = n
        /\ UNCHANGED <<case, received, check>> /\ check' \in BOOLEAN
    BY DEF Reject, Without, RInv, TypeOK
  <1>2. mission \in MissionRows
    BY DEF RInv, TypeOK
  <1>3. /\ n \in MissionRows /\ n.status = mission.status /\ n.action = mission.action
        /\ n.context \in {mission.context, NoPlan}
    BY <1>2 DEF MissionRows, Slots
  <1> HIDE DEF n
  <1>4. Drops(plan', mission')
    BY <1>1, <1>3, CurrentDropped
  <1> QED  BY <1>1, <1>4, CasesStay

LEMMA ApproveKeeps ==
  ASSUME RInv, NEW p \in Plans, Approve(p)
  PROVE  RInv'
  <1> DEFINE row == [plan[p] EXCEPT !.status = "APPROVED", !.act = "QUEUED"]
             n == [mission EXCEPT !.action = p]
  <1>1. /\ p \in Slots /\ p # NoPlan /\ NoPlan \in Slots /\ Plans \subseteq Slots
        /\ plan \in [Slots -> PlanRows] /\ mission \in MissionRows
        /\ case \in [Cases -> CaseRows]
        /\ plan[p].case \in Cases \cup {NoCase}
    BY RecoveryAssumption DEF RInv, TypeOK, PlanRows, Slots
  <1>2. /\ plan[p].status = "PENDING" /\ mission.current = p /\ mission.action = NoPlan
        /\ plan' = [plan EXCEPT ![p] = row] /\ mission' = n
        /\ UNCHANGED <<received, check>>
    BY <1>1 DEF Approve, Pending
  <1>3. /\ row \in PlanRows /\ row.status = "APPROVED" /\ row.act = "QUEUED"
        /\ row.case = plan[p].case /\ row.fits = plan[p].fits /\ row.part = plan[p].part
    BY <1>1 DEF PlanRows
  <1>4. /\ n \in MissionRows /\ n.status = mission.status /\ n.action = p
        /\ n.current = mission.current /\ n.context = mission.context
    BY <1>1 DEF MissionRows
  <1> HIDE DEF row, n
  <1>5. /\ plan' \in [Slots -> PlanRows] /\ plan'[p] = row
        /\ \A q \in Slots \ {p} : plan'[q] = plan[q]
    BY <1>1, <1>2, <1>3
  <1>6. /\ case' \in [Cases -> CaseRows]
        /\ \A c \in Cases : /\ case'[c].status = case[c].status
                            /\ case'[c].options = case[c].options
                            /\ case'[c].over = case[c].over /\ case'[c].plan = case[c].plan
    <2>1. CASE Routine(p)
      BY <1>1, <2>1 DEF Approve
    <2>2. CASE ~Routine(p)
      <3> DEFINE c == plan[p].case
                 cr == [case[c] EXCEPT !.last = p]
      <3>1. c \in Cases /\ case' = [case EXCEPT ![c] = cr]
        BY <1>1, <2>2 DEF Approve, Routine
      <3>2. case[c] \in CaseRows
        BY <1>1, <3>1
      <3>3. /\ cr \in CaseRows /\ cr.status = case[c].status
            /\ cr.options = case[c].options /\ cr.over = case[c].over
            /\ cr.plan = case[c].plan
        BY <1>1, <3>2 DEF CaseRows
      <3> HIDE DEF c, cr
      <3> QED  BY <1>1, <3>1, <3>3
    <2> QED  BY <2>1, <2>2
  <1>7. TypeOK'
    BY <1>2, <1>4, <1>5, <1>6 DEF RInv, TypeOK
  <1>8. \A q \in Plans : plan'[q].status # "PENDING"
    BY <1>1, <1>2, <1>3, <1>5 DEF RInv, PendingIsCurrent, Pending
  <1>9. NoPlanIsBlank'
    BY <1>1, <1>5 DEF RInv, NoPlanIsBlank, Blank
  <1>10. PendingIsCurrent'
    BY <1>8 DEF PendingIsCurrent, Pending
  <1>11. plan[p].act \notin InFlight /\ ~plan[p].part
    <2>1. /\ plan[p].act \in InFlight <=> mission.action = p
          /\ plan[p].act # "NONE" => plan[p].status = "APPROVED"
          /\ plan[p].part => plan[p].act = "SUCCEEDED"
      BY DEF RInv, ActionInFlight
    <2> QED  BY <1>1, <1>2, <2>1
  <1>12. ActionInFlight'
    <2> SUFFICES ASSUME NEW q \in Plans
                 PROVE  /\ plan'[q].act \in InFlight <=> mission'.action = q
                        /\ plan'[q].act # "NONE" => plan'[q].status = "APPROVED"
                        /\ plan'[q].part => plan'[q].act = "SUCCEEDED"
      BY DEF ActionInFlight, InFlight
    <2>1. /\ plan[q].act \in InFlight <=> mission.action = q
          /\ plan[q].act # "NONE" => plan[q].status = "APPROVED"
          /\ plan[q].part => plan[q].act = "SUCCEEDED"
      BY DEF RInv, ActionInFlight
    <2>2. CASE q = p
      BY <1>2, <1>3, <1>4, <1>5, <1>11, <2>2 DEF InFlight
    <2>3. CASE q # p
      BY <1>1, <1>2, <1>4, <1>5, <2>1, <2>3, RecoveryAssumption
    <2> QED  BY <2>2, <2>3
  <1>13. \A q \in Slots : plan'[q].case = plan[q].case /\ plan'[q].fits = plan[q].fits
    BY <1>1, <1>3, <1>5
  <1>14. PlansHaveCases'
    <2>1. \A q \in Plans : plan[q].case \in Cases \cup {NoCase}
      BY <1>1 DEF PlanRows
    <2>2. \A c \in Cases : case[c].plan \in Slots
      BY <1>1 DEF CaseRows
    <2> QED  BY <1>1, <1>6, <1>13, <2>1, <2>2 DEF RInv, PlansHaveCases, Routine
  <1>15. CommittedIsPlan'
    <2> SUFFICES ASSUME NEW q \in Plans, plan'[q].case # NoCase, Committed(q)'
                 PROVE  case'[plan'[q].case].plan = q
      BY DEF CommittedIsPlan, Routine
    <2>1. plan[q].case \in Cases /\ plan'[q].case = plan[q].case
      BY <1>1, <1>13 DEF PlanRows
    <2>2. CASE q = p
      BY <1>2, <1>6, <2>1, <2>2 DEF RInv, PendingIsCurrent, Pending, Routine
    <2>3. CASE q # p
      BY <1>1, <1>5, <1>6, <2>1, <2>3 DEF RInv, CommittedIsPlan, Committed, Routine
    <2> QED  BY <2>2, <2>3
  <1>16. FitsIsActive' /\ OverIsOutdated' /\ OneCaseIsOpen' /\ NoRoutineBesideCase'
    BY <1>1, <1>2, <1>4, <1>6, <1>8, <1>13
       DEF RInv, FitsIsActive, OverIsOutdated, OneCaseIsOpen, NoRoutineBesideCase, Active, Open,
           Pending
  <1>17. plan[p].case # NoCase => Live(p)
    BY <1>2 DEF Approve, Valid, CaseMatches, Live, Routine, Pending
  <1>18. ASSUME plan[p].case # NoCase
         PROVE  /\ Live(p) /\ Open(plan[p].case) /\ case[plan[p].case].options = "outdated"
                /\ case[plan[p].case].status # "RESOLVED" /\ ~case[plan[p].case].over
                /\ case[plan[p].case].status \notin {"RESOLVED", "CLOSED"}
    <2>1. /\ case[plan[p].case].status \notin {"RESOLVED", "CLOSED"}
          /\ ~case[plan[p].case].over /\ case[plan[p].case].options = "outdated"
      BY <1>2, <1>17, <1>18 DEF RInv, LiveIsOpen, Pending
    <2>2. case[plan[p].case].status \notin {"NONE", "CANCELLED"}
      BY <1>18 DEF RInv, PlansHaveCases, Routine, Approve, Valid, CaseMatches
    <2> QED  BY <1>17, <1>18, <2>1, <2>2 DEF Open, Terminal
  <1>19. LiveIsOpen'
    <2> SUFFICES ASSUME NEW q \in Plans, Live(q)'
                 PROVE  /\ case'[plan'[q].case].status \notin {"RESOLVED", "CLOSED"}
                        /\ ~case'[plan'[q].case].over
      BY <1>8 DEF LiveIsOpen, Pending
    <2>1. q = p
      BY <1>2, <1>5, <1>8, <1>1, RecoveryAssumption
         DEF Live, Pending, RInv, ActionInFlight, InFlight
    <2>2. plan[p].case \in Cases /\ plan'[q].case = plan[p].case /\ plan[p].case # NoCase
      BY <1>1, <1>13, <2>1 DEF Live, Routine
    <2> QED  BY <1>6, <1>18, <2>2
  <1>20. WaitsForMore'
    <2> SUFFICES ASSUME NEW c \in Cases, case[c].status = "MONITORING",
                        case[c].options = "current"
                 PROVE  FALSE
      BY <1>6 DEF WaitsForMore
    <2>1. Open(c)
      BY DEF Open, Terminal
    <2>2. CASE plan[p].case = NoCase
      BY <1>2, <2>1, <2>2 DEF RInv, NoRoutineBesideCase, Pending, Routine
    <2>3. CASE plan[p].case # NoCase
      BY <1>1, <1>18, <2>1, <2>3 DEF RInv, OneCaseIsOpen
    <2> QED  BY <2>2, <2>3
  <1>21. ResolvedMeansReceived'
    <2> SUFFICES ASSUME NEW c \in Cases, case'[c].status = "RESOLVED",
                        NEW q \in Plans, plan'[q].case = c, plan'[q].act # "NONE"
                 PROVE  /\ plan'[q].act \notin InFlight
                        /\ plan'[q].act = "SUCCEEDED" => q \in received'
      BY DEF ResolvedMeansReceived, Bought, Purchases
    <2>1. case[c].status = "RESOLVED" /\ plan[q].case = c
      BY <1>1, <1>6, <1>13
    <2>2. q # p
      BY <1>18, <2>1, RecoveryAssumption
    <2>3. plan'[q] = plan[q]
      BY <1>1, <1>5, <2>2
    <2> QED  BY <1>2, <2>1, <2>3 DEF RInv, ResolvedMeansReceived, Purchases, Bought
  <1> QED  BY <1>7, <1>9, <1>10, <1>12, <1>14, <1>15, <1>16, <1>19, <1>20, <1>21 DEF RInv

-----------------------------------------------------------------------------
(* Purchases, arrivals and the store *)

\* A purchase is decided, or something arrives; plans are at most given up.
LEMMA PurchaseMoves ==
  ASSUME RInv, TypeOK', plan'[NoPlan] = plan[NoPlan],
         \A p \in Plans :
            /\ plan'[p].case = plan[p].case
            /\ plan'[p].status = "PENDING" =>
                  /\ plan[p].status = "PENDING"
                  /\ mission'.current = mission.current /\ mission'.action = mission.action
            /\ plan'[p].act # plan[p].act => plan[p].act \in InFlight
            /\ plan[p].part => plan'[p].part,
         received \subseteq received', ActionInFlight',
         \A c \in Cases :
            /\ case'[c].plan = case[c].plan
            /\ case'[c].status = "NONE" => case[c].status = "NONE"
            /\ case'[c].status \notin Terminal \cup {"NONE"} => Open(c)
            /\ case'[c].over => case'[c].options = "outdated"
            /\ case'[c].status = "RESOLVED" =>
                  \/ case[c].status = "RESOLVED"
                  \/ \A p \in Purchases(c) : /\ plan'[p].act \notin InFlight
                                             /\ plan'[p].act = "SUCCEEDED" => p \in received',
         FitsIsActive', LiveIsOpen', WaitsForMore'
  PROVE  RInv'
  <1>1. \A p \in Plans :
           plan'[p].act \in InFlight \cup {"SUCCEEDED"} /\ ~plan'[p].part =>
           plan[p].act \in InFlight \cup {"SUCCEEDED"} /\ ~plan[p].part
    BY DEF InFlight
  <1>2. /\ \A p \in Plans : plan'[p].case = plan[p].case
        /\ \A p \in Plans : plan'[p].status = "PENDING" => plan[p].status = "PENDING"
        /\ \A p \in Plans : plan'[p].status = "PENDING" =>
              /\ plan[p].status = "PENDING"
              /\ mission'.current = mission.current /\ mission'.action = mission.action
        /\ \A p \in Plans : plan'[p].act # plan[p].act => plan[p].act \in InFlight
    OBVIOUS
  <1>3. NoPlanIsBlank' /\ PendingIsCurrent' /\ PlansHaveCases' /\ CommittedIsPlan'
    <2>1. \A c \in Cases : /\ case'[c].plan = case[c].plan
                           /\ case'[c].status = "NONE" => case[c].status = "NONE"
      OBVIOUS
    <2> QED  BY <1>1, <1>2, <2>1, OldPlans
  <1>4. OneCaseIsOpen' /\ NoRoutineBesideCase'
    BY <1>2, NoneOpens
  <1>5. ResolvedMeansReceived'
    <2>1. \A c \in Cases : case'[c].status = "RESOLVED" =>
            \/ case[c].status = "RESOLVED"
            \/ \A p \in Purchases(c) : /\ plan'[p].act \notin InFlight
                                       /\ plan'[p].act = "SUCCEEDED" => p \in received'
      OBVIOUS
    <2> QED  BY <1>2, <2>1, ResolvedStays
  <1>6. OverIsOutdated'
    BY DEF OverIsOutdated
  <1> QED  BY <1>3, <1>4, <1>5, <1>6 DEF RInv

LEMMA OutdatedRows ==
  ASSUME NEW ps \in [Slots -> PlanRows]
  PROVE  /\ Outdated(ps) \in [Slots -> PlanRows]
         /\ \A p \in Slots : /\ Outdated(ps)[p].status = ps[p].status
                             /\ Outdated(ps)[p].case = ps[p].case
                             /\ Outdated(ps)[p].act = ps[p].act
                             /\ Outdated(ps)[p].part = ps[p].part
                             /\ Outdated(ps)[p].rev = ps[p].rev
                             /\ ~Outdated(ps)[p].fits
                             /\ ps[p] = Blank => Outdated(ps)[p] = Blank
  <1> DEFINE os == Outdated(ps)
  <1>1. ASSUME NEW p \in Slots
        PROVE  /\ os[p] \in PlanRows /\ os[p].status = ps[p].status
               /\ os[p].case = ps[p].case /\ os[p].act = ps[p].act
               /\ os[p].part = ps[p].part /\ os[p].rev = ps[p].rev /\ ~os[p].fits
               /\ ps[p] = Blank => os[p] = Blank
    <2>1. ps[p] \in PlanRows
      OBVIOUS
    <2>2. os[p] = [ps[p] EXCEPT !.fits = FALSE]
      BY DEF Outdated
    <2> HIDE DEF os
    <2>3. ASSUME NEW f \in BOOLEAN, ~f
          PROVE  [ps[p] EXCEPT !.fits = f]
                 = [status |-> ps[p].status, case |-> ps[p].case, rev |-> ps[p].rev,
                    fits |-> f, act |-> ps[p].act, part |-> ps[p].part]
      BY <2>1 DEF PlanRows
    <2>4. ASSUME NEW f \in BOOLEAN, ~f, os[p] = [ps[p] EXCEPT !.fits = f]
          PROVE  /\ os[p] \in PlanRows /\ os[p].status = ps[p].status
                 /\ os[p].case = ps[p].case /\ os[p].act = ps[p].act
                 /\ os[p].part = ps[p].part /\ os[p].rev = ps[p].rev /\ ~os[p].fits
      BY <2>1, <2>3, <2>4 DEF PlanRows
    <2>5. os[p] = [status |-> ps[p].status, case |-> ps[p].case, rev |-> ps[p].rev,
                   fits |-> FALSE, act |-> ps[p].act, part |-> ps[p].part]
      BY <2>2, <2>3
    <2>6. ps[p] = Blank => os[p] = Blank
      BY <2>5 DEF Blank
    <2> QED  BY <2>2, <2>4, <2>6
  <1>2. os = [p \in Slots |-> os[p]]
    BY DEF Outdated
  <1> HIDE DEF os
  <1>3. os \in [Slots -> PlanRows]
    BY <1>1, <1>2
  <1> QED  BY <1>1, <1>3 DEF os

LEMMA PassedRows ==
  ASSUME NEW cs \in [Cases -> CaseRows]
  PROVE  /\ OptionsPass(cs) \in [Cases -> CaseRows]
         /\ \A c \in Cases : /\ OptionsPass(cs)[c].status = cs[c].status
                             /\ OptionsPass(cs)[c].plan = cs[c].plan
                             /\ OptionsPass(cs)[c].over = cs[c].over
                             /\ OptionsPass(cs)[c].last = cs[c].last
                             /\ OptionsPass(cs)[c].waited = cs[c].waited
                             /\ OptionsPass(cs)[c].base = cs[c].base
                             /\ OptionsPass(cs)[c].options = IF cs[c].options = "current"
                                                             THEN "outdated" ELSE cs[c].options
  <1> DEFINE os == OptionsPass(cs)
  <1>1. ASSUME NEW c \in Cases
        PROVE  /\ os[c] \in CaseRows /\ os[c].status = cs[c].status
               /\ os[c].plan = cs[c].plan /\ os[c].over = cs[c].over
               /\ os[c].last = cs[c].last /\ os[c].waited = cs[c].waited
               /\ os[c].base = cs[c].base
               /\ os[c].options = IF cs[c].options = "current" THEN "outdated"
                                  ELSE cs[c].options
    <2>1. cs[c] \in CaseRows
      OBVIOUS
    <2> DEFINE o == IF cs[c].options = "current" THEN "outdated" ELSE cs[c].options
    <2>2. os[c] = [cs[c] EXCEPT !.options = o]
      BY DEF OptionsPass
    <2>3. o \in {"none", "current", "outdated"}
      BY <2>1 DEF CaseRows
    <2> HIDE DEF os, o
    <2>4. /\ os[c] \in CaseRows /\ os[c].status = cs[c].status
          /\ os[c].plan = cs[c].plan /\ os[c].over = cs[c].over
          /\ os[c].last = cs[c].last /\ os[c].waited = cs[c].waited
          /\ os[c].base = cs[c].base /\ os[c].options = o
      BY <2>1, <2>2, <2>3 DEF CaseRows
    <2> QED  BY <2>4 DEF o
  <1>2. os = [c \in Cases |-> os[c]]
    BY DEF OptionsPass
  <1> HIDE DEF os
  <1>3. os \in [Cases -> CaseRows]
    BY <1>1, <1>2
  <1> QED  BY <1>1, <1>3 DEF os

\* A version moves with it, so that no plan may be approved any more.
LEMMA VersionsMove ==
  ASSUME RInv, NEW ps \in [Slots -> PlanRows], NEW cs \in [Cases -> CaseRows],
         plan' = Outdated(ps), case' = OptionsPass(cs), mission' \in MissionRows,
         received' \in SUBSET Orders, check' \in BOOLEAN, received \subseteq received',
         ps[NoPlan] = plan[NoPlan],
         \A p \in Plans :
            /\ ps[p].case = plan[p].case
            /\ ps[p].status = "PENDING" =>
                  /\ plan[p].status = "PENDING"
                  /\ mission'.current = mission.current /\ mission'.action = mission.action
            /\ ps[p].act # plan[p].act => plan[p].act \in InFlight
            /\ plan[p].part => ps[p].part,
         \A p \in Plans :
            /\ ps[p].act \in InFlight <=> mission'.action = p
            /\ ps[p].act # "NONE" => ps[p].status = "APPROVED"
            /\ ps[p].part => ps[p].act = "SUCCEEDED",
         \A c \in Cases :
            /\ cs[c].plan = case[c].plan
            /\ cs[c].status = "NONE" => case[c].status = "NONE"
            /\ cs[c].status \notin Terminal \cup {"NONE"} => Open(c)
            /\ cs[c].over => cs[c].options # "none"
            /\ cs[c].status = "RESOLVED" =>
                  \/ case[c].status = "RESOLVED"
                  \/ \A p \in Purchases(c) : /\ ps[p].act \notin InFlight
                                             /\ ps[p].act = "SUCCEEDED" => p \in received'
  PROVE  RInv'
  <1>1. /\ Plans \subseteq Slots /\ NoPlan \in Slots
        /\ \A c \in Cases : Purchases(c) \subseteq Slots
    BY DEF Slots, Purchases
  <1>2. /\ plan' \in [Slots -> PlanRows]
        /\ \A p \in Slots : /\ plan'[p].status = ps[p].status /\ plan'[p].case = ps[p].case
                            /\ plan'[p].act = ps[p].act /\ plan'[p].part = ps[p].part
                            /\ ~plan'[p].fits
        /\ ps[NoPlan] = Blank => plan'[NoPlan] = Blank
    BY <1>1, OutdatedRows
  <1>3. /\ case' \in [Cases -> CaseRows]
        /\ \A c \in Cases : /\ case'[c].status = cs[c].status /\ case'[c].plan = cs[c].plan
                            /\ case'[c].over = cs[c].over
                            /\ case'[c].options = IF cs[c].options = "current"
                                                  THEN "outdated" ELSE cs[c].options
    BY PassedRows
  <1>4. TypeOK'
    BY <1>2, <1>3 DEF TypeOK
  <1>5. plan'[NoPlan] = plan[NoPlan]
    BY <1>2 DEF RInv, NoPlanIsBlank
  <1>6. ASSUME NEW p \in Plans
        PROVE  /\ plan'[p].case = plan[p].case
               /\ plan'[p].status = "PENDING" =>
                     /\ plan[p].status = "PENDING"
                     /\ mission'.current = mission.current /\ mission'.action = mission.action
               /\ plan'[p].act # plan[p].act => plan[p].act \in InFlight
               /\ plan[p].part => plan'[p].part
    BY <1>1, <1>2
  <1>7. ActionInFlight'
    <2> SUFFICES ASSUME NEW p \in Plans
                 PROVE  /\ plan'[p].act \in InFlight <=> mission'.action = p
                        /\ plan'[p].act # "NONE" => plan'[p].status = "APPROVED"
                        /\ plan'[p].part => plan'[p].act = "SUCCEEDED"
      BY DEF ActionInFlight, InFlight
    <2> QED  BY <1>1, <1>2
  <1>8. ASSUME NEW c \in Cases
        PROVE  /\ case'[c].plan = case[c].plan
               /\ case'[c].status = "NONE" => case[c].status = "NONE"
               /\ case'[c].status \notin Terminal \cup {"NONE"} => Open(c)
               /\ case'[c].over => case'[c].options = "outdated"
               /\ case'[c].status = "RESOLVED" =>
                     \/ case[c].status = "RESOLVED"
                     \/ \A p \in Purchases(c) : /\ plan'[p].act \notin InFlight
                                                /\ plan'[p].act = "SUCCEEDED" => p \in received'
    <2>1. cs[c].options \in {"none", "current", "outdated"} /\ case'[c].options # "current"
      BY <1>3 DEF CaseRows
    <2> QED  BY <1>1, <1>2, <1>3, <2>1
  <1>9. FitsIsActive' /\ LiveIsOpen' /\ WaitsForMore'
    <2>1. \A p \in Plans : ~plan'[p].fits
      BY <1>1, <1>2
    <2>2. \A c \in Cases : case'[c].options # "current"
      BY <1>3
    <2> QED  BY <2>1, <2>2, NothingFits
  <1> QED  BY <1>4, <1>5, <1>6, <1>7, <1>8, <1>9, PurchaseMoves

\* qs are the plans ps after a step of one action.
ActMoves(qs, ps, p, r) ==
    \/ qs = [ps EXCEPT ![p].act = r]
    \/ \E b \in BOOLEAN : qs = [ps EXCEPT ![p].act = r, ![p].part = b]

LEMMA ActBecomes ==
  ASSUME NEW ps \in [Slots -> PlanRows], NEW p \in Slots,
         NEW r \in {"QUEUED", "SENT", "SUCCEEDED", "FAILED"}, NEW qs,
         ActMoves(qs, ps, p, r)
  PROVE  /\ qs \in [Slots -> PlanRows]
         /\ \A q \in Slots \ {p} : qs[q] = ps[q]
         /\ qs[p].act = r /\ qs[p].status = ps[p].status /\ qs[p].case = ps[p].case
         /\ qs[p].fits = ps[p].fits /\ qs[p].rev = ps[p].rev
  <1>1. \A q \in Slots \ {p} : qs[q] = ps[q]
    BY DEF ActMoves
  <1>2. ps[p] \in PlanRows
    OBVIOUS
  <1>3. /\ qs[p] \in PlanRows /\ qs[p].act = r /\ qs[p].status = ps[p].status
        /\ qs[p].case = ps[p].case /\ qs[p].fits = ps[p].fits /\ qs[p].rev = ps[p].rev
    <2>1. CASE qs = [ps EXCEPT ![p].act = r]
      <3>1. qs[p] = [ps[p] EXCEPT !.act = r]
        BY <2>1
      <3> QED  BY <1>2, <3>1 DEF PlanRows
    <2>2. ASSUME NEW b \in BOOLEAN, qs = [ps EXCEPT ![p].act = r, ![p].part = b]
          PROVE  /\ qs[p] \in PlanRows /\ qs[p].act = r /\ qs[p].status = ps[p].status
                 /\ qs[p].case = ps[p].case /\ qs[p].fits = ps[p].fits
                 /\ qs[p].rev = ps[p].rev
      <3>1. qs[p] = [ps[p] EXCEPT !.act = r, !.part = b]
        BY <2>2
      <3> QED  BY <1>2, <3>1 DEF PlanRows
    <2> QED  BY <2>1, <2>2 DEF ActMoves
  <1>4. qs \in [Slots -> PlanRows]
    <2>1. qs = [q \in Slots |-> qs[q]]
      BY DEF ActMoves
    <2> QED  BY <1>1, <1>3, <2>1
  <1> QED  BY <1>1, <1>3, <1>4

\* Only the case of the purchase is told of its end, and it is open then.
LEMMA CaseTold ==
  ASSUME RInv, NEW p \in Plans, plan[p].act \in InFlight,
         NEW r \in {"SUCCEEDED", "FAILED"}
  PROVE  /\ CaseAfter(p, r) \in [Cases -> CaseRows]
         /\ \A c \in Cases :
               /\ CaseAfter(p, r)[c].plan = case[c].plan
               /\ CaseAfter(p, r)[c].over = case[c].over
               /\ CaseAfter(p, r)[c].options = case[c].options
               /\ \/ CaseAfter(p, r)[c].status = case[c].status
                  \/ /\ Open(c)
                     /\ CaseAfter(p, r)[c].status = IF r = "SUCCEEDED" THEN "MONITORING"
                                                                       ELSE "RECHECK_REQUIRED"
  <1>1. case \in [Cases -> CaseRows] /\ plan[p].case \in Cases \cup {NoCase}
    BY DEF RInv, TypeOK, PlanRows, Slots
  <1> DEFINE c == plan[p].case
             row == IF r = "SUCCEEDED"
                    THEN IF case[c].status \in Terminal THEN case[c]
                         ELSE [case[c] EXCEPT !.status = "MONITORING"]
                    ELSE IF plan[p].rev THEN Recheck(case[c]) ELSE case[c]
  <1>2. CaseAfter(p, r) = case \/ CaseAfter(p, r) = [case EXCEPT ![c] = row]
    BY DEF CaseAfter
  <1>3. CASE CaseAfter(p, r) = case
    BY <1>1, <1>3
  <1>4. CASE c \notin Cases
    <2>1. [case EXCEPT ![c] = row] = case
      BY <1>1, <1>4
    <2> QED  BY <1>1, <1>2, <2>1
  <1>5. CASE CaseAfter(p, r) = [case EXCEPT ![c] = row] /\ c \in Cases
    <2>1. case[c] \in CaseRows /\ case[c].status # "NONE"
      BY <1>1, <1>5, RecoveryAssumption DEF RInv, PlansHaveCases, Routine
    <2> DEFINE st == IF r = "SUCCEEDED" THEN "MONITORING" ELSE "RECHECK_REQUIRED"
    <2>2. row = case[c] \/ (Open(c) /\ row = [case[c] EXCEPT !.status = st])
      BY <2>1 DEF Recheck, Open
    <2>3. st \in {"MONITORING", "RECHECK_REQUIRED"}
      OBVIOUS
    <2> HIDE DEF st, row, c
    <2>4. /\ row \in CaseRows /\ row.plan = case[c].plan /\ row.over = case[c].over
          /\ row.options = case[c].options
          /\ row.status = case[c].status \/ (Open(c) /\ row.status = st)
      BY <2>1, <2>2, <2>3 DEF CaseRows
    <2>5. /\ CaseAfter(p, r) \in [Cases -> CaseRows] /\ CaseAfter(p, r)[c] = row
          /\ \A d \in Cases \ {c} : CaseAfter(p, r)[d] = case[d]
      BY <1>1, <1>5, <2>4
    <2> QED  BY <2>4, <2>5 DEF st
  <1> QED  BY <1>2, <1>3, <1>4, <1>5

\* What the invariant says of plans and cases one by one.
LEMMA RowsAre ==
  ASSUME RInv
  PROVE  /\ plan \in [Slots -> PlanRows] /\ mission \in MissionRows
         /\ case \in [Cases -> CaseRows] /\ received \in SUBSET Orders
         /\ Plans \subseteq Slots /\ NoPlan \in Slots /\ NoPlan \notin Plans
         /\ plan[NoPlan].status = "NONE" /\ plan[NoPlan].act = "NONE"
         /\ plan[NoPlan].case = NoCase
         /\ \A p \in Plans :
               /\ plan[p].act \in InFlight <=> mission.action = p
               /\ plan[p].act # "NONE" => plan[p].status = "APPROVED"
               /\ plan[p].part => plan[p].act = "SUCCEEDED"
               /\ plan[p].status = "PENDING" => mission.current = p /\ mission.action = NoPlan
         /\ \A c \in Cases : case[c].over => case[c].options = "outdated"
  BY RecoveryAssumption DEF RInv, TypeOK, Slots, NoPlanIsBlank, Blank, ActionInFlight,
     PendingIsCurrent, Pending, OverIsOutdated

LEMMA SendKeeps ==
  ASSUME RInv, NEW p \in Plans, Send(p)
  PROVE  RInv'
  <1> DEFINE qs == [plan EXCEPT ![p].act = "SENT"]
  <1>1. /\ mission.action = p /\ plan[p].act = "QUEUED" /\ plan' = Outdated(qs)
        /\ case' = OptionsPass(case) /\ UNCHANGED <<mission, received, check>>
        /\ mission' \in MissionRows /\ received' \in SUBSET Orders /\ check' \in BOOLEAN
    BY DEF Send, RInv, TypeOK
  <1>2. /\ p \in Slots /\ "SENT" \in {"QUEUED", "SENT", "SUCCEEDED", "FAILED"}
        /\ plan \in [Slots -> PlanRows]
    BY RowsAre
  <1>4. qs[p].part = plan[p].part /\ ActMoves(qs, plan, p, "SENT")
    BY <1>2, RowsAre DEF PlanRows, ActMoves
  <1> HIDE DEF qs
  <1>3. /\ qs \in [Slots -> PlanRows] /\ \A q \in Slots \ {p} : qs[q] = plan[q]
        /\ qs[p].act = "SENT" /\ qs[p].status = plan[p].status /\ qs[p].case = plan[p].case
    BY <1>2, <1>4, ActBecomes
  <1>5. ASSUME NEW q \in Plans
        PROVE  /\ qs[q].case = plan[q].case
               /\ qs[q].status = "PENDING" =>
                     /\ plan[q].status = "PENDING"
                     /\ mission'.current = mission.current /\ mission'.action = mission.action
               /\ qs[q].act # plan[q].act => plan[q].act \in InFlight
               /\ plan[q].part => qs[q].part
               /\ qs[q].act \in InFlight <=> mission'.action = q
               /\ qs[q].act # "NONE" => qs[q].status = "APPROVED"
               /\ qs[q].part => qs[q].act = "SUCCEEDED"
    <2>1. CASE q = p
      BY <1>1, <1>3, <1>4, <2>1, RowsAre DEF InFlight
    <2>2. CASE q # p
      BY <1>1, <1>3, <2>2, RowsAre
    <2> QED  BY <2>1, <2>2
  <1>6. qs[NoPlan] = plan[NoPlan]
    BY <1>3, RowsAre
  <1>7. ASSUME NEW c \in Cases
        PROVE  /\ case[c].status \notin Terminal \cup {"NONE"} => Open(c)
               /\ case[c].over => case[c].options # "none"
    BY RowsAre DEF Open
  <1>8. case \in [Cases -> CaseRows] /\ received \subseteq received'
    BY <1>1, RowsAre
  <1> QED  BY <1>1, <1>3, <1>5, <1>6, <1>7, <1>8, VersionsMove

LEMMA OutcomeKeeps ==
  ASSUME RInv, NEW p \in Plans, NEW r \in {"SUCCEEDED", "FAILED"}, NEW part \in BOOLEAN,
         Outcome(p, r, part)
  PROVE  RInv'
  <1> DEFINE qs == [plan EXCEPT ![p].act = r, ![p].part = part]
             after == CaseAfter(p, r)
             cs == IF part /\ ~Routine(p) THEN [after EXCEPT ![plan[p].case].waited = FALSE]
                   ELSE after
  <1>1. /\ mission.action = p /\ plan[p].act = "SENT" /\ plan' = Outdated(qs)
        /\ part => r = "SUCCEEDED"
        /\ case' = OptionsPass(cs) /\ mission' = MissionAfter(mission, p)
        /\ received' = received /\ received' \in SUBSET Orders /\ check' \in BOOLEAN
    BY DEF Outcome, QueueCheck, RInv, TypeOK
  <1>2. /\ p \in Slots /\ r \in {"QUEUED", "SENT", "SUCCEEDED", "FAILED"}
        /\ plan \in [Slots -> PlanRows] /\ plan[p] \in PlanRows
    BY RowsAre
  <1>4. qs[p].part = part /\ ActMoves(qs, plan, p, r)
    <2>1. qs[p].part = part
      BY <1>2 DEF PlanRows
    <2>2. ActMoves(qs, plan, p, r)
      BY DEF ActMoves
    <2> QED  BY <2>1, <2>2
  <1> HIDE DEF qs
  <1>3. /\ qs \in [Slots -> PlanRows] /\ \A q \in Slots \ {p} : qs[q] = plan[q]
        /\ qs[p].act = r /\ qs[p].status = plan[p].status /\ qs[p].case = plan[p].case
    BY <1>2, <1>4, ActBecomes
  <1>5. /\ mission' \in MissionRows /\ mission'.action = NoPlan
        /\ mission'.status = mission.status /\ mission'.current = mission.current
    BY <1>1, RowsAre DEF MissionAfter, MissionRows, Slots
  <1>6. /\ after \in [Cases -> CaseRows]
        /\ \A c \in Cases :
              /\ after[c].plan = case[c].plan /\ after[c].over = case[c].over
              /\ after[c].options = case[c].options
              /\ after[c].status = case[c].status
                 \/ (Open(c) /\ after[c].status \in {"MONITORING", "RECHECK_REQUIRED"})
    BY <1>1, CaseTold DEF InFlight
  <1> HIDE DEF after
  <1>7. /\ cs \in [Cases -> CaseRows]
        /\ \A c \in Cases : /\ cs[c].plan = after[c].plan /\ cs[c].over = after[c].over
                            /\ cs[c].options = after[c].options
                            /\ cs[c].status = after[c].status
    <2>1. CASE ~(part /\ ~Routine(p))
      BY <1>6, <2>1
    <2>2. CASE part /\ ~Routine(p)
      <3> DEFINE c == plan[p].case
                 row == [after[c] EXCEPT !.waited = FALSE]
      <3>1. c \in Cases /\ cs = [after EXCEPT ![c] = row]
        BY <1>2, <1>6, <2>2 DEF PlanRows, Routine
      <3>2. after[c] \in CaseRows
        BY <1>6, <3>1
      <3>3. /\ row \in CaseRows /\ row.plan = after[c].plan /\ row.over = after[c].over
            /\ row.options = after[c].options /\ row.status = after[c].status
        BY <3>2 DEF CaseRows
      <3> HIDE DEF c, row, cs
      <3> QED  BY <1>6, <3>1, <3>3
    <2> QED  BY <2>1, <2>2
  <1> HIDE DEF cs
  <1>8. ASSUME NEW q \in Plans
        PROVE  /\ qs[q].case = plan[q].case
               /\ qs[q].status = "PENDING" =>
                     /\ plan[q].status = "PENDING"
                     /\ mission'.current = mission.current /\ mission'.action = mission.action
               /\ qs[q].act # plan[q].act => plan[q].act \in InFlight
               /\ plan[q].part => qs[q].part
               /\ qs[q].act \in InFlight <=> mission'.action = q
               /\ qs[q].act # "NONE" => qs[q].status = "APPROVED"
               /\ qs[q].part => qs[q].act = "SUCCEEDED"
    <2>1. CASE q = p
      BY <1>1, <1>3, <1>4, <1>5, <2>1, RowsAre DEF InFlight
    <2>2. CASE q # p
      BY <1>1, <1>3, <1>5, <2>2, RowsAre
    <2> QED  BY <2>1, <2>2
  <1>9. qs[NoPlan] = plan[NoPlan]
    BY <1>3, RowsAre
  <1>10. ASSUME NEW c \in Cases
         PROVE  /\ cs[c].plan = case[c].plan
                /\ cs[c].status = "NONE" => case[c].status = "NONE"
                /\ cs[c].status \notin Terminal \cup {"NONE"} => Open(c)
                /\ cs[c].over => cs[c].options # "none"
                /\ cs[c].status = "RESOLVED" => case[c].status = "RESOLVED"
    BY <1>6, <1>7, RowsAre DEF Open
  <1> QED  BY <1>1, <1>3, <1>5, <1>7, <1>8, <1>9, <1>10, VersionsMove

LEMMA RefuseKeeps ==
  ASSUME RInv, NEW p \in Plans, Refuse(p)
  PROVE  RInv'
  <1> DEFINE qs == [plan EXCEPT ![p].act = "FAILED"]
             cs == CaseAfter(p, "FAILED")
  <1>1. /\ mission.action = p /\ plan[p].act = "QUEUED" /\ plan' = qs
        /\ case' = cs /\ mission' = MissionAfter(mission, p)
        /\ received' = received /\ received' \in SUBSET Orders /\ check' \in BOOLEAN
    BY DEF Refuse, QueueCheck, RInv, TypeOK
  <1>2. /\ p \in Slots /\ "FAILED" \in {"QUEUED", "SENT", "SUCCEEDED", "FAILED"}
        /\ plan \in [Slots -> PlanRows] /\ plan[p] \in PlanRows
    BY RowsAre
  <1>3. qs[p].part = plan[p].part /\ ActMoves(qs, plan, p, "FAILED")
    <2>1. qs[p].part = plan[p].part
      BY <1>2 DEF PlanRows
    <2>2. ActMoves(qs, plan, p, "FAILED")
      BY DEF ActMoves
    <2> QED  BY <2>1, <2>2
  <1> HIDE DEF qs
  <1>4. /\ qs \in [Slots -> PlanRows] /\ \A q \in Slots \ {p} : qs[q] = plan[q]
        /\ qs[p].act = "FAILED" /\ qs[p].status = plan[p].status /\ qs[p].case = plan[p].case
        /\ qs[p].fits = plan[p].fits
    BY <1>2, <1>3, ActBecomes
  <1>5. /\ mission' \in MissionRows /\ mission'.action = NoPlan
        /\ mission'.status = mission.status /\ mission'.current = mission.current
    BY <1>1, RowsAre DEF MissionAfter, MissionRows, Slots
  <1>6. /\ cs \in [Cases -> CaseRows]
        /\ \A c \in Cases :
              /\ cs[c].plan = case[c].plan /\ cs[c].over = case[c].over
              /\ cs[c].options = case[c].options
              /\ cs[c].status = case[c].status
                 \/ (Open(c) /\ cs[c].status = "RECHECK_REQUIRED")
    BY <1>1, CaseTold DEF InFlight
  <1> HIDE DEF cs
  <1>7. ASSUME NEW q \in Plans
        PROVE  /\ plan'[q].case = plan[q].case /\ plan'[q].fits = plan[q].fits
               /\ plan'[q].status # "PENDING" /\ plan'[q].act # "QUEUED"
               /\ plan'[q].act # plan[q].act => plan[q].act \in InFlight
               /\ plan[q].part => plan'[q].part
               /\ plan'[q].act \in InFlight <=> mission'.action = q
               /\ plan'[q].act # "NONE" => plan'[q].status = "APPROVED"
               /\ plan'[q].part => plan'[q].act = "SUCCEEDED"
    <2>1. CASE q = p
      BY <1>1, <1>3, <1>4, <1>5, <2>1, RowsAre DEF InFlight
    <2>2. CASE q # p
      BY <1>1, <1>4, <1>5, <2>2, RowsAre DEF InFlight
    <2> QED  BY <2>1, <2>2
  <1>8. ActionInFlight'
    <2> SUFFICES ASSUME NEW q \in Plans
                 PROVE  /\ plan'[q].act \in InFlight <=> mission'.action = q
                        /\ plan'[q].act # "NONE" => plan'[q].status = "APPROVED"
                        /\ plan'[q].part => plan'[q].act = "SUCCEEDED"
      BY DEF ActionInFlight, InFlight
    <2> QED  BY <1>7
  <1>9. plan'[NoPlan] = plan[NoPlan]
    BY <1>1, <1>4, RowsAre
  <1>10. ASSUME NEW c \in Cases
         PROVE  /\ case'[c].plan = case[c].plan
                /\ case'[c].status = "NONE" => case[c].status = "NONE"
                /\ case'[c].status \notin Terminal \cup {"NONE"} => Open(c)
                /\ case'[c].over => case'[c].options = "outdated"
                /\ case'[c].status = "RESOLVED" => case[c].status = "RESOLVED"
    BY <1>1, <1>6, RowsAre DEF Open
  <1>11. FitsIsActive'
    BY <1>5, <1>7 DEF RInv, FitsIsActive, Active
  <1>12. LiveIsOpen'
    BY <1>7 DEF LiveIsOpen, Live, Pending
  <1>13. WaitsForMore'
    <2>1. p # NoPlan
      BY RowsAre
    <2> QED  BY <1>1, <1>6, <2>1 DEF RInv, WaitsForMore
  <1>14. TypeOK'
    BY <1>1, <1>4, <1>5, <1>6 DEF TypeOK
  <1> QED  BY <1>1, <1>7, <1>8, <1>9, <1>10, <1>11, <1>12, <1>13, <1>14, PurchaseMoves

\* Pause, Resume, Complete and CancelMission.
LEMMA ControlKeeps ==
  ASSUME RInv, NEW status \in {"ACTIVE", "PAUSED", "ENDED"}, NEW cancel \in BOOLEAN,
         ControlMission(status, cancel), check' \in BOOLEAN
  PROVE  RInv'
  <1> DEFINE a    == mission.action
             quit == cancel /\ plan[a].act = "QUEUED"
             gone == Without("GONE")
             row  == [mission EXCEPT !.status = status, !.current = NoPlan]
             qs   == IF quit THEN [gone EXCEPT ![a].act = "FAILED"] ELSE gone
             cs   == IF quit THEN CaseAfter(a, "FAILED") ELSE case
  <1>1. /\ plan' = Outdated(qs) /\ case' = OptionsPass(cs)
        /\ mission' = IF quit THEN MissionAfter(row, a) ELSE row
        /\ received' = received /\ received' \in SUBSET Orders
    BY DEF ControlMission, Without, RInv, TypeOK
  <1>2. /\ gone \in [Slots -> PlanRows] /\ gone[NoPlan] = plan[NoPlan]
        /\ \A q \in Plans :
              /\ gone[q].case = plan[q].case /\ gone[q].act = plan[q].act
              /\ gone[q].part = plan[q].part /\ gone[q].status # "PENDING"
              /\ plan[q].status = "APPROVED" => gone[q].status = "APPROVED"
    <2>1. /\ mission \in MissionRows /\ mission.status = mission.status
          /\ mission.action = mission.action /\ mission.context \in {mission.context, NoPlan}
          /\ "GONE" \in {"GONE", "REJECTED"}
      BY RowsAre
    <2>2. Drops(gone, mission) /\ \A q \in Plans : gone[q].status # "PENDING"
      BY <2>1, CurrentDropped
    <2> HIDE DEF gone
    <2> QED  BY <2>2, RowsAre DEF Drops
  <1>3. a \in Slots /\ (quit => a \in Plans /\ plan[a].act \in InFlight)
    BY RowsAre DEF MissionRows, Slots, InFlight
  <1>4. /\ mission' \in MissionRows
        /\ mission'.action = IF quit THEN NoPlan ELSE a
    <2>1. /\ row \in MissionRows /\ row.action = a
      BY RowsAre DEF MissionRows, Slots
    <2> HIDE DEF row, a
    <2> QED  BY <1>1, <2>1, RowsAre DEF MissionAfter, MissionRows, Slots
  <1>5. ASSUME NEW q \in Plans
        PROVE  /\ qs \in [Slots -> PlanRows] /\ qs[NoPlan] = plan[NoPlan]
               /\ qs[q].case = plan[q].case /\ qs[q].status # "PENDING"
               /\ qs[q].act # plan[q].act => plan[q].act \in InFlight
               /\ plan[q].part => qs[q].part
               /\ qs[q].act \in InFlight <=> mission'.action = q
               /\ qs[q].act # "NONE" => qs[q].status = "APPROVED"
               /\ qs[q].part => qs[q].act = "SUCCEEDED"
    <2> HIDE DEF gone
    <2>1. CASE ~quit
      BY <1>2, <1>4, <2>1, RowsAre
    <2>2. CASE quit
      <3>1. qs = [gone EXCEPT ![a].act = "FAILED"] /\ mission'.action = NoPlan
        BY <1>4, <2>2
      <3>2. ActMoves(qs, gone, a, "FAILED")
        BY <3>1 DEF ActMoves
      <3>3. qs[a].part = gone[a].part
        BY <1>2, <1>3, <3>1 DEF PlanRows
      <3>4. "FAILED" \in {"QUEUED", "SENT", "SUCCEEDED", "FAILED"}
        OBVIOUS
      <3>5. a \in Slots /\ a \in Plans /\ plan[a].act \in InFlight
        BY <1>3, <2>2
      <3> HIDE DEF qs, a, quit
      <3>6. /\ qs \in [Slots -> PlanRows] /\ \A s \in Slots \ {a} : qs[s] = gone[s]
            /\ qs[a].act = "FAILED" /\ qs[a].status = gone[a].status
            /\ qs[a].case = gone[a].case
        BY <1>2, <3>2, <3>4, <3>5, ActBecomes
      <3>7. CASE q = a
        BY <1>2, <3>1, <3>3, <3>5, <3>6, <3>7, RowsAre DEF InFlight
      <3>8. CASE q # a
        BY <1>2, <3>1, <3>5, <3>6, <3>8, RowsAre DEF a
      <3> QED  BY <3>7, <3>8
    <2> QED  BY <2>1, <2>2
  <1>6. qs \in [Slots -> PlanRows] /\ qs[NoPlan] = plan[NoPlan]
    <2>1. CASE Plans = {}
      BY <1>2, <1>3, <2>1
    <2> QED  BY <1>5, <2>1
  <1>7. /\ cs \in [Cases -> CaseRows]
        /\ \A c \in Cases :
              /\ cs[c].plan = case[c].plan /\ cs[c].over = case[c].over
              /\ cs[c].options = case[c].options
              /\ cs[c].status = case[c].status
                 \/ (Open(c) /\ cs[c].status = "RECHECK_REQUIRED")
    BY <1>3, RowsAre, CaseTold
  <1> HIDE DEF a, quit, gone, row, qs, cs
  <1>8. ASSUME NEW c \in Cases
        PROVE  /\ cs[c].plan = case[c].plan
               /\ cs[c].status = "NONE" => case[c].status = "NONE"
               /\ cs[c].status \notin Terminal \cup {"NONE"} => Open(c)
               /\ cs[c].over => cs[c].options # "none"
               /\ cs[c].status = "RESOLVED" => case[c].status = "RESOLVED"
    BY <1>7, RowsAre DEF Open
  <1>9. received \subseteq received'
    BY <1>1
  <1> QED  BY <1>1, <1>4, <1>5, <1>6, <1>7, <1>8, <1>9, VersionsMove

LEMMA ArriveKeeps ==
  ASSUME RInv, NEW o \in Orders, Arrive(o)
  PROVE  RInv'
  <1> DEFINE recv == received \cup {o}
             cs == [c \in Cases |-> IF Settled(c, recv)
                                    THEN [case[c] EXCEPT !.status = "RESOLVED"] ELSE case[c]]
  <1>1. /\ plan' = Outdated(plan) /\ case' = OptionsPass(cs) /\ mission' = mission
        /\ received' = recv /\ check' \in BOOLEAN
    BY DEF Arrive, QueueCheck, RInv, TypeOK
  <1>2. /\ mission' \in MissionRows /\ received' \in SUBSET Orders
        /\ received \subseteq received'
    BY <1>1, RowsAre
  <1>3. ASSUME NEW c \in Cases
        PROVE  /\ cs[c] \in CaseRows /\ cs[c].plan = case[c].plan
               /\ cs[c].over = case[c].over /\ cs[c].options = case[c].options
               /\ \/ cs[c].status = case[c].status
                  \/ cs[c].status = "RESOLVED" /\ Settled(c, recv)
    <2>1. case[c] \in CaseRows
      BY RowsAre
    <2>2. cs[c] = IF Settled(c, recv) THEN [case[c] EXCEPT !.status = "RESOLVED"] ELSE case[c]
      OBVIOUS
    <2> HIDE DEF cs, recv
    <2> QED  BY <2>1, <2>2 DEF CaseRows, Terminal
  <1>4. cs \in [Cases -> CaseRows]
    BY <1>3
  <1> HIDE DEF cs, recv
  <1>5. ASSUME NEW c \in Cases, Settled(c, recv)
        PROVE  \A p \in Purchases(c) : /\ plan[p].act \notin InFlight
                                       /\ plan[p].act = "SUCCEEDED" => p \in received'
    BY <1>1, <1>5, SettledIsDone
  <1>6. ASSUME NEW c \in Cases
        PROVE  /\ cs[c].plan = case[c].plan
               /\ cs[c].status = "NONE" => case[c].status = "NONE"
               /\ cs[c].status \notin Terminal \cup {"NONE"} => Open(c)
               /\ cs[c].over => cs[c].options # "none"
               /\ cs[c].status = "RESOLVED" =>
                     \/ case[c].status = "RESOLVED"
                     \/ \A p \in Purchases(c) : /\ plan[p].act \notin InFlight
                                                /\ plan[p].act = "SUCCEEDED" => p \in received'
    BY <1>3, <1>5, RowsAre DEF Open, Terminal
  <1>7. ASSUME NEW p \in Plans
        PROVE  /\ plan[p].act \in InFlight <=> mission'.action = p
               /\ plan[p].act # "NONE" => plan[p].status = "APPROVED"
               /\ plan[p].part => plan[p].act = "SUCCEEDED"
    BY <1>1, RowsAre
  <1>8. plan \in [Slots -> PlanRows]
    BY RowsAre
  <1> QED  BY <1>1, <1>2, <1>4, <1>6, <1>7, <1>8, VersionsMove

LEMMA StoreKeeps ==
  ASSUME RInv, NEW late \in BOOLEAN, NEW told \in BOOLEAN, StoreMoves(late, told)
  PROVE  RInv'
  <1> DEFINE cs == [c \in Cases |-> [case[c] EXCEPT
                      !.over = @ \/ (late /\ case[c].options # "none" /\ Open(c))]]
  <1>1. /\ plan' = Outdated(plan) /\ case' = OptionsPass(cs) /\ mission' = mission
        /\ received' = received /\ check' \in BOOLEAN
    BY DEF StoreMoves, QueueCheck, RInv, TypeOK
  <1>2. /\ mission' \in MissionRows /\ received' \in SUBSET Orders
        /\ received \subseteq received'
    BY <1>1, RowsAre
  <1>3. ASSUME NEW c \in Cases
        PROVE  /\ cs[c] \in CaseRows /\ cs[c].plan = case[c].plan
               /\ cs[c].status = case[c].status /\ cs[c].options = case[c].options
               /\ cs[c].over => case[c].over \/ case[c].options # "none"
    <2> DEFINE b == case[c].over \/ (late /\ case[c].options # "none" /\ Open(c))
    <2>1. case[c] \in CaseRows /\ case[c].over \in BOOLEAN
      BY RowsAre DEF CaseRows
    <2>2. cs[c] = [case[c] EXCEPT !.over = b]
      OBVIOUS
    <2>3. b \in BOOLEAN /\ (b => case[c].over \/ case[c].options # "none")
      BY <2>1
    <2> HIDE DEF cs, b
    <2> QED  BY <2>1, <2>2, <2>3 DEF CaseRows
  <1>4. cs \in [Cases -> CaseRows]
    BY <1>3
  <1> HIDE DEF cs
  <1>5. ASSUME NEW c \in Cases
        PROVE  /\ cs[c].plan = case[c].plan
               /\ cs[c].status = "NONE" => case[c].status = "NONE"
               /\ cs[c].status \notin Terminal \cup {"NONE"} => Open(c)
               /\ cs[c].over => cs[c].options # "none"
               /\ cs[c].status = "RESOLVED" => case[c].status = "RESOLVED"
    BY <1>3, RowsAre DEF Open
  <1>6. ASSUME NEW p \in Plans
        PROVE  /\ plan[p].act \in InFlight <=> mission'.action = p
               /\ plan[p].act # "NONE" => plan[p].status = "APPROVED"
               /\ plan[p].part => plan[p].act = "SUCCEEDED"
    BY <1>1, RowsAre
  <1>7. plan \in [Slots -> PlanRows]
    BY RowsAre
  <1> QED  BY <1>1, <1>2, <1>4, <1>5, <1>6, <1>7, VersionsMove

-----------------------------------------------------------------------------
(* New plans *)

\* A row in which a plan may be written: nothing was bought with it.
LEMMA FreeRow ==
  ASSUME RInv, NEW p \in Plans, Free(p)
  PROVE  /\ plan[p].act \in {"NONE", "FAILED"}
         /\ \A c \in Cases : case[c].plan # p /\ case[c].last # p
  <1>1. plan[p].act # "NONE" => plan[p].status = "APPROVED"
    BY RowsAre
  <1>2. plan[p].act \in {"NONE", "FAILED"}
    BY <1>1 DEF Free
  <1> QED  BY <1>2 DEF Free

LEMMA NewPlan ==
  ASSUME RInv, TypeOK', NEW p \in Plans, Free(p), mission.action = NoPlan, Active,
         plan'[NoPlan] = plan[NoPlan], received' = received,
         mission'.current = p, mission'.action = NoPlan, mission'.status = mission.status,
         plan'[p].status = "PENDING", plan'[p].act = "NONE", ~plan'[p].part,
         plan'[p].case # NoCase => /\ case'[plan'[p].case].plan = p
                                   /\ case'[plan'[p].case].status # "NONE",
         plan'[p].case = NoCase =>
            \A c \in Cases : case'[c].status \in Terminal \cup {"NONE"},
         \A q \in Plans \ {p} :
            /\ plan'[q].case = plan[q].case /\ plan'[q].act = plan[q].act
            /\ plan'[q].part = plan[q].part /\ plan'[q].status # "PENDING"
            /\ plan[q].status = "APPROVED" => plan'[q].status = "APPROVED",
         \A c \in Cases :
            /\ \/ case'[c].plan = case[c].plan
               \/ plan'[p].case = c /\ case'[c].plan = p /\ MayBuy(c)
            /\ case'[c].status = "NONE" => case[c].status = "NONE"
            /\ case'[c].status \notin Terminal \cup {"NONE"} => Open(c)
            /\ case'[c].over => case'[c].options = "outdated"
            /\ case'[c].status = "RESOLVED" =>
                  \/ case[c].status = "RESOLVED"
                  \/ \A q \in Purchases(c) : /\ plan[q].act \notin InFlight
                                             /\ plan[q].act = "SUCCEEDED" => q \in received,
         LiveIsOpen', WaitsForMore'
  PROVE  RInv'
  <1>0. /\ \A q \in Plans : plan[q].act \notin InFlight /\ q # NoPlan
        /\ \A q \in Plans : plan[q].case \in Cases \cup {NoCase}
        /\ \A c \in Cases : case[c].plan \in Plans \cup {NoPlan}
    BY RowsAre, RecoveryAssumption DEF PlanRows, CaseRows, Slots
  <1>1. NoPlanIsBlank'
    BY DEF RInv, NoPlanIsBlank, Blank
  <1>2. PendingIsCurrent'
    BY DEF PendingIsCurrent, Pending, Routine
  <1>3. ActionInFlight'
    <2> SUFFICES ASSUME NEW q \in Plans
                 PROVE  /\ plan'[q].act \in InFlight <=> mission'.action = q
                        /\ plan'[q].act # "NONE" => plan'[q].status = "APPROVED"
                        /\ plan'[q].part => plan'[q].act = "SUCCEEDED"
      BY DEF ActionInFlight, InFlight
    <2>1. CASE q = p
      BY <1>0, <2>1 DEF InFlight
    <2>2. CASE q # p
      BY <1>0, <2>2, RowsAre
    <2> QED  BY <2>1, <2>2
  <1>4. PlansHaveCases'
    <2>1. ASSUME NEW q \in Plans, plan'[q].case # NoCase
          PROVE  case'[plan'[q].case].status # "NONE"
      <3>1. CASE q = p
        BY <2>1, <3>1
      <3>2. CASE q # p
        BY <1>0, <2>1, <3>2 DEF RInv, PlansHaveCases, Routine
      <3> QED  BY <3>1, <3>2
    <2>2. ASSUME NEW c \in Cases, case'[c].plan # NoPlan
          PROVE  plan'[case'[c].plan].case = c
      <3>1. CASE case'[c].plan = case[c].plan
        <4>1. case[c].plan \in Plans \ {p} /\ plan[case[c].plan].case = c
          BY <1>0, <2>2, <3>1, FreeRow DEF RInv, PlansHaveCases
        <4> QED  BY <3>1, <4>1
      <3> QED  BY <3>1
    <2> QED  BY <2>1, <2>2 DEF PlansHaveCases, Routine
  <1>5. CommittedIsPlan'
    <2> SUFFICES ASSUME NEW q \in Plans, plan'[q].case # NoCase,
                        plan'[q].act \in InFlight \cup {"SUCCEEDED"}, ~plan'[q].part
                 PROVE  case'[plan'[q].case].plan = q
      BY DEF CommittedIsPlan, Committed, Routine, InFlight
    <2>1. q # p
      BY DEF InFlight
    <2>2. /\ plan[q].act = "SUCCEEDED" /\ ~plan[q].part /\ plan'[q].case = plan[q].case
          /\ plan[q].case \in Cases
      BY <1>0, <2>1
    <2>3. case[plan[q].case].plan = q
      BY <2>2, RecoveryAssumption DEF RInv, CommittedIsPlan, Committed, Routine
    <2>4. ~MayBuy(plan[q].case)
      BY <2>2, <2>3 DEF MayBuy, Short
    <2> QED  BY <2>2, <2>3, <2>4
  <1>6. FitsIsActive' /\ OverIsOutdated'
    BY DEF FitsIsActive, Active, OverIsOutdated
  <1>7. OneCaseIsOpen'
    BY DEF RInv, OneCaseIsOpen, Open
  <1>8. NoRoutineBesideCase'
    BY DEF NoRoutineBesideCase, Open, Pending, Routine
  <1>9. ResolvedMeansReceived'
    <2> SUFFICES ASSUME NEW c \in Cases, case'[c].status = "RESOLVED",
                        NEW q \in Plans, plan'[q].case = c, plan'[q].act # "NONE"
                 PROVE  /\ plan'[q].act \notin InFlight
                        /\ plan'[q].act = "SUCCEEDED" => q \in received'
      BY DEF ResolvedMeansReceived, Bought, Purchases
    <2>1. q # p
      OBVIOUS
    <2>2. q \in Purchases(c) /\ plan'[q].act = plan[q].act
      BY <2>1 DEF Purchases
    <2> QED  BY <2>2 DEF RInv, ResolvedMeansReceived, Bought
  <1> QED  BY <1>1, <1>2, <1>3, <1>4, <1>5, <1>6, <1>7, <1>8, <1>9 DEF RInv

LEMMA MaterializeKeeps ==
  ASSUME RInv, NEW c \in Cases, NEW p \in Plans, Materialize(c, p)
  PROVE  RInv'
  <1> DEFINE old == Without("GONE")
             row == [status |-> "PENDING", case |-> c, rev |-> TRUE, fits |-> TRUE,
                     act |-> "NONE", part |-> FALSE]
             n   == [mission EXCEPT !.current = p, !.context = p]
             cs  == [case EXCEPT ![c].plan = p]
  <1>1. /\ Open(c) /\ Active /\ case[c].options = "current" /\ mission.action = NoPlan
        /\ MayBuy(c) /\ Free(p) /\ plan' = [Outdated(old) EXCEPT ![p] = row]
        /\ mission' = n /\ case' = OptionsPass(cs) /\ received' = received /\ check' = check
    BY DEF Materialize, Without
  <1>2. /\ p \in Slots /\ p # NoPlan /\ NoPlan \in Slots /\ Plans \subseteq Slots
        /\ case[c] \in CaseRows /\ case \in [Cases -> CaseRows] /\ mission \in MissionRows
        /\ check \in BOOLEAN
    BY RowsAre DEF RInv, TypeOK
  <1>3. /\ old \in [Slots -> PlanRows] /\ old[NoPlan] = Blank
        /\ \A q \in Plans :
              /\ old[q].case = plan[q].case /\ old[q].act = plan[q].act
              /\ old[q].part = plan[q].part /\ old[q].status # "PENDING"
              /\ plan[q].status = "APPROVED" => old[q].status = "APPROVED"
    <2>1. /\ mission \in MissionRows /\ mission.status = mission.status
          /\ mission.action = mission.action /\ mission.context \in {mission.context, NoPlan}
          /\ "GONE" \in {"GONE", "REJECTED"}
      BY <1>2
    <2>2. Drops(old, mission) /\ \A q \in Plans : old[q].status # "PENDING"
      BY <2>1, CurrentDropped
    <2> HIDE DEF old
    <2> QED  BY <1>2, <2>2 DEF Drops, RInv, NoPlanIsBlank
  <1> DEFINE os == Outdated(old)
  <1>4. /\ os \in [Slots -> PlanRows] /\ os[NoPlan] = Blank
        /\ \A q \in Slots : /\ os[q].status = old[q].status /\ os[q].case = old[q].case
                            /\ os[q].act = old[q].act /\ os[q].part = old[q].part
                            /\ ~os[q].fits
    BY <1>2, <1>3, OutdatedRows
  <1> HIDE DEF old, os
  <1>5. /\ row \in PlanRows /\ row.status = "PENDING" /\ row.case = c /\ row.act = "NONE"
        /\ ~row.part
    BY DEF PlanRows
  <1> HIDE DEF row
  <1>6. /\ plan' \in [Slots -> PlanRows] /\ plan'[p] = row
        /\ \A q \in Slots \ {p} : plan'[q] = os[q]
    BY <1>1, <1>2, <1>4, <1>5 DEF os
  <1>7. /\ n \in MissionRows /\ n.current = p /\ n.action = mission.action
        /\ n.status = mission.status
    BY <1>2 DEF MissionRows
  <1> HIDE DEF n
  <1>8. /\ cs \in [Cases -> CaseRows] /\ cs[c].plan = p
        /\ \A d \in Cases \ {c} : cs[d] = case[d]
        /\ cs[c].status = case[c].status /\ cs[c].options = case[c].options
        /\ cs[c].over = case[c].over /\ cs[c].base = case[c].base
        /\ cs[c].last = case[c].last /\ cs[c].waited = case[c].waited
    <2> DEFINE cr == [case[c] EXCEPT !.plan = p]
    <2>1. cs = [case EXCEPT ![c] = cr]
      BY <1>2
    <2>2. /\ cr \in CaseRows /\ cr.plan = p
          /\ cr.status = case[c].status /\ cr.options = case[c].options
          /\ cr.over = case[c].over /\ cr.base = case[c].base
          /\ cr.last = case[c].last /\ cr.waited = case[c].waited
      BY <1>2 DEF CaseRows
    <2> HIDE DEF cr, cs
    <2> QED  BY <1>2, <2>1, <2>2
  <1> HIDE DEF cs
  <1>9. /\ case' \in [Cases -> CaseRows]
        /\ \A d \in Cases : /\ case'[d].status = cs[d].status /\ case'[d].plan = cs[d].plan
                            /\ case'[d].over = cs[d].over /\ case'[d].last = cs[d].last
                            /\ case'[d].waited = cs[d].waited /\ case'[d].base = cs[d].base
                            /\ case'[d].options = IF cs[d].options = "current"
                                                  THEN "outdated" ELSE cs[d].options
    BY <1>1, <1>8, PassedRows
  <1>10. TypeOK'
    BY <1>1, <1>2, <1>6, <1>7, <1>9 DEF RInv, TypeOK
  <1>11. ASSUME NEW q \in Plans \ {p}
         PROVE  /\ plan'[q].case = plan[q].case /\ plan'[q].act = plan[q].act
                /\ plan'[q].part = plan[q].part /\ plan'[q].status # "PENDING"
                /\ plan[q].status = "APPROVED" => plan'[q].status = "APPROVED"
                /\ ~plan'[q].fits
    BY <1>2, <1>3, <1>4, <1>6
  <1>12. ASSUME NEW d \in Cases
         PROVE  /\ case'[d].status = case[d].status
                /\ case'[d].plan = case[d].plan \/ (c = d /\ case'[d].plan = p /\ MayBuy(d))
                /\ case'[d].options # "current"
                /\ case'[d].over => case'[d].options = "outdated"
                /\ case'[d].status \notin Terminal \cup {"NONE"} => Open(d)
    <2>1. CASE d = c
      BY <1>1, <1>8, <1>9, <2>1, RowsAre DEF Open
    <2>2. CASE d # c
      BY <1>8, <1>9, <2>2, RowsAre DEF Open
    <2> QED  BY <2>1, <2>2
  <1>13. WaitsForMore'
    BY <1>12 DEF WaitsForMore
  <1>14. ~Settled(c, received)'
    <2>1. Purchases(c)' = Purchases(c) \ {p}
      BY <1>5, <1>6, <1>11 DEF Purchases
    <2>2. Bought(c)' = Bought(c)
      <3>1. p \notin Bought(c)
        BY <1>1, FreeRow DEF Bought
      <3> QED  BY <1>11, <2>1, <3>1 DEF Bought, Purchases
    <2>3. GapOpen(c)' <=> GapOpen(c)
      <3>1. case[c].last \in Slots \ {p} /\ case'[c].last = case[c].last
            /\ case'[c].waited = case[c].waited
        BY <1>1, <1>2, <1>8, <1>9, FreeRow DEF CaseRows
      <3>2. plan'[case[c].last].act = plan[case[c].last].act
            /\ plan'[case[c].last].part = plan[case[c].last].part
        BY <1>3, <1>4, <1>6, <3>1 DEF RInv, NoPlanIsBlank, Slots
      <3> QED  BY <3>1, <3>2 DEF GapOpen, Short
    <2>4. ASSUME case[c].status = "MONITORING"
          PROVE  ~Settled(c, received)
      BY <1>1, <2>4 DEF RInv, WaitsForMore
    <2>5. \A q \in Purchases(c) : plan[q].act \notin InFlight
      BY <1>1, RowsAre DEF Purchases
    <2>6. /\ case'[c].status = case[c].status /\ case'[c].base = case[c].base
          /\ case[c].options # "none" /\ case'[c].options # "none"
      BY <1>1, <1>8, <1>9
    <2> QED  BY <1>1, <2>2, <2>3, <2>4, <2>5, <2>6 DEF Settled
  <1>15. LiveIsOpen'
    <2> SUFFICES ASSUME NEW q \in Plans, Live(q)', NEW d, d = plan'[q].case
                 PROVE  /\ case'[d].status \notin {"RESOLVED", "CLOSED"} /\ ~case'[d].over
                        /\ case'[d].options = "outdated" /\ ~Settled(d, received)'
      BY DEF LiveIsOpen, Pending
    <2>1. q = p
      BY <1>11 DEF Live
    <2>2. d = c
      BY <1>5, <1>6, <2>1
    <2>3. ~case[c].over /\ case[c].status \notin {"RESOLVED", "CLOSED"}
      BY <1>1, RowsAre DEF Open, Terminal
    <2> QED  BY <1>1, <1>8, <1>9, <1>14, <2>2, <2>3
  <1>16. /\ plan'[p].status = "PENDING" /\ plan'[p].act = "NONE" /\ ~plan'[p].part
         /\ plan'[p].case = c /\ c # NoCase /\ plan'[NoPlan] = plan[NoPlan]
    BY <1>2, <1>4, <1>5, <1>6, RecoveryAssumption DEF RInv, NoPlanIsBlank
  <1>17. case'[c].plan = p /\ case'[c].status # "NONE"
    BY <1>1, <1>8, <1>9 DEF Open
  <1>18. mission'.current = p /\ mission'.action = NoPlan /\ mission'.status = mission.status
    BY <1>1, <1>7
  <1> QED  BY <1>1, <1>10, <1>11, <1>12, <1>13, <1>15, <1>16, <1>17, <1>18, NewPlan

-----------------------------------------------------------------------------
(* Checks of the mission *)

LEMMA CheckHeldKeeps ==
  ASSUME RInv, NEW c \in Cases, Open(c), CheckHeld(c), received' = received,
         check' \in BOOLEAN
  PROVE  RInv'
  <1>1. CASE plan' = RetireRoutine(plan) /\ mission' = MissionRetired(mission) /\ case' = case
    <2>1. Drops(plan', mission')
      BY <1>1, NothingDropped, RoutineDropped
    <2> QED  BY <1>1, <2>1, CasesStay
  <1>2. CASE UNCHANGED <<plan, mission, case>>
    <2>1. Drops(plan', mission')
      BY <1>2, NothingDropped
    <2> QED  BY <1>2, <2>1, CasesStay
  <1>3. CASE /\ Pending(mission.current) /\ case[c].plan = mission.current
             /\ plan' = [plan EXCEPT ![mission.current].status = "GONE"]
             /\ mission' = [mission EXCEPT !.current = NoPlan, !.context = NoPlan]
             /\ case' = [case EXCEPT ![c] = Recheck(@)]
    <2> DEFINE row == [case[c] EXCEPT !.status = "RECHECK_REQUIRED"]
               n   == [mission EXCEPT !.current = NoPlan, !.context = NoPlan]
    <2>1. case[c] \in CaseRows /\ mission \in MissionRows
      BY RowsAre
    <2>2. plan' = Without("GONE") /\ mission' = n /\ case' = [case EXCEPT ![c] = row]
      BY <1>3, RowsAre DEF Without, Recheck, Open
    <2>3. /\ row \in CaseRows /\ row.status = "RECHECK_REQUIRED" /\ row.plan = case[c].plan
          /\ row.over = case[c].over /\ row.options = case[c].options
      BY <2>1 DEF CaseRows
    <2>4. /\ n \in MissionRows /\ n.status = mission.status /\ n.action = mission.action
          /\ n.context = NoPlan
      BY <2>1 DEF MissionRows, Slots
    <2> HIDE DEF row, n
    <2>5. Drops(plan', mission')
      BY <2>2, <2>4, CurrentDropped
    <2>6. \A p \in Plans : mission'.context # p
      BY <2>2, <2>4, RowsAre
    <2>7. row.over => row.options = "outdated"
      BY <2>3, RowsAre
    <2>8. row.status \notin {"NONE", "RESOLVED", "MONITORING"}
      BY <2>3
    <2>9. \A p \in Plans : Live(p) /\ plan[p].case = c /\ mission'.context = p
                            /\ plan'[p].status \in {"PENDING", "APPROVED"} =>
              /\ row.status \notin {"RESOLVED", "CLOSED"} /\ ~row.over
              /\ plan'[p].status = "PENDING" =>
                    row.options = "outdated" /\ ~Settled(c, received)'
      BY <2>6
    <2> QED  BY <2>2, <2>3, <2>5, <2>7, <2>8, <2>9, OpenCaseMoves
  <1> QED  BY <1>1, <1>2, <1>3 DEF CheckHeld

\* No case holds the item: those that have played out are resolved.
Resolve(cs) == cs = [c \in Cases |-> IF Settled(c, received)
                                     THEN [case[c] EXCEPT !.status = "RESOLVED"] ELSE case[c]]

LEMMA NoneHolds ==
  ASSUME RInv, Holder = {}, NEW cs, Resolve(cs)
  PROVE  /\ cs \in [Cases -> CaseRows]
         /\ \A c \in Cases :
               /\ cs[c].plan = case[c].plan /\ cs[c].options = case[c].options
               /\ cs[c].over = case[c].over
               /\ cs[c].status \in Terminal \cup {"NONE"}
               /\ cs[c].status = "NONE" => case[c].status = "NONE"
               /\ cs[c].status = "RESOLVED" =>
                     \/ case[c].status = "RESOLVED"
                     \/ \A p \in Purchases(c) : /\ plan[p].act \notin InFlight
                                                /\ plan[p].act = "SUCCEEDED" => p \in received
  <1>1. ASSUME NEW c \in Cases
        PROVE  /\ cs[c] \in CaseRows
               /\ cs[c].plan = case[c].plan /\ cs[c].options = case[c].options
               /\ cs[c].over = case[c].over
               /\ cs[c].status \in Terminal \cup {"NONE"}
               /\ cs[c].status = "NONE" => case[c].status = "NONE"
               /\ cs[c].status = "RESOLVED" =>
                     case[c].status = "RESOLVED" \/ Settled(c, received)
    <2>1. case[c] \in CaseRows
      BY RowsAre
    <2>2. CASE Settled(c, received)
      <3>1. cs[c] = [case[c] EXCEPT !.status = "RESOLVED"]
        BY <2>2 DEF Resolve
      <3>2. /\ cs[c] \in CaseRows /\ cs[c].plan = case[c].plan
            /\ cs[c].options = case[c].options /\ cs[c].over = case[c].over
            /\ cs[c].status = "RESOLVED"
        BY <2>1, <3>1 DEF CaseRows, Terminal
      <3> QED  BY <2>2, <3>2 DEF Terminal
    <2>3. CASE ~Settled(c, received)
      <3>1. cs[c] = case[c]
        BY <2>3 DEF Resolve
      <3> QED  BY <2>1, <2>3, <3>1 DEF Holder, Open
    <2> QED  BY <2>2, <2>3
  <1>2. cs \in [Cases -> CaseRows]
    <2>1. cs = [c \in Cases |-> cs[c]]
      BY DEF Resolve
    <2> QED  BY <1>1, <2>1
  <1>3. ASSUME NEW c \in Cases, Settled(c, received)
        PROVE  \A p \in Purchases(c) : /\ plan[p].act \notin InFlight
                                       /\ plan[p].act = "SUCCEEDED" => p \in received
    BY <1>3, SettledIsDone
  <1> QED  BY <1>1, <1>2, <1>3

\* The proposal of the mission is kept or retired.
LEMMA CheckRetiresKeeps ==
  ASSUME RInv, Holder = {}, Resolve(case'), received' = received, check' \in BOOLEAN,
         NEW gone \in BOOLEAN, gone => Pending(mission.current),
         plan' = IF gone THEN [plan EXCEPT ![mission.current].status = "GONE"] ELSE plan,
         mission' = IF gone THEN [[mission EXCEPT !.context = NoPlan] EXCEPT !.current = NoPlan]
                    ELSE [mission EXCEPT !.context = NoPlan]
  PROVE  RInv'
  <1>1. /\ mission' \in MissionRows /\ mission'.status = mission.status
        /\ mission'.action = mission.action /\ mission'.context = NoPlan
        /\ ~gone => mission'.current = mission.current
    BY RowsAre DEF MissionRows, Slots
  <1>2. Drops(plan', mission')
    <2>1. CASE gone
      <3>1. plan' = Without("GONE")
        BY <2>1 DEF Without
      <3> QED  BY <1>1, <3>1, CurrentDropped
    <2>2. CASE ~gone
      BY <1>1, <2>2, NothingDropped DEF Drops
    <2> QED  BY <2>1, <2>2
  <1>3. /\ case' \in [Cases -> CaseRows]
        /\ \A c \in Cases :
              /\ case'[c].plan = case[c].plan /\ case'[c].options = case[c].options
              /\ case'[c].over = case[c].over
              /\ case'[c].status \in Terminal \cup {"NONE"}
              /\ case'[c].status = "NONE" => case[c].status = "NONE"
              /\ case'[c].status = "RESOLVED" =>
                    \/ case[c].status = "RESOLVED"
                    \/ \A p \in Purchases(c) : /\ plan[p].act \notin InFlight
                                               /\ plan[p].act = "SUCCEEDED" => p \in received
    BY NoneHolds
  <1>4. TypeOK'
    BY <1>2, <1>3 DEF RInv, TypeOK, Drops
  <1>5. OneCaseIsOpen' /\ NoRoutineBesideCase'
    BY <1>3 DEF OneCaseIsOpen, NoRoutineBesideCase, Open
  <1>6. ASSUME NEW c \in Cases
        PROVE  /\ case'[c].over => case'[c].options = "outdated"
               /\ case'[c].status # "MONITORING"
    BY <1>3, RowsAre DEF Terminal
  <1>7. \A p \in Plans : mission'.context # p
    BY <1>1, RowsAre
  <1> QED  BY <1>2, <1>3, <1>4, <1>5, <1>6, <1>7, CasesMove

LEMMA CheckProposesKeeps ==
  ASSUME RInv, Holder = {}, Resolve(case'), received' = received, check' \in BOOLEAN,
         Active, mission.action = NoPlan, NEW p \in Plans, Free(p),
         plan' = [Without("GONE") EXCEPT ![p] = [Blank EXCEPT !.status = "PENDING",
                                                              !.fits = TRUE]],
         mission' = [[mission EXCEPT !.context = NoPlan] EXCEPT !.current = p]
  PROVE  RInv'
  <1> DEFINE old == Without("GONE")
             row == [Blank EXCEPT !.status = "PENDING", !.fits = TRUE]
  <1>1. /\ mission' \in MissionRows /\ mission'.status = mission.status
        /\ mission'.action = NoPlan /\ mission'.context = NoPlan /\ mission'.current = p
    BY RowsAre DEF MissionRows, Slots
  <1>2. /\ p \in Slots /\ p # NoPlan /\ NoPlan \in Slots /\ Plans \subseteq Slots
        /\ mission \in MissionRows
    BY RowsAre
  <1>3. /\ old \in [Slots -> PlanRows] /\ old[NoPlan] = plan[NoPlan]
        /\ \A q \in Plans :
              /\ old[q].case = plan[q].case /\ old[q].act = plan[q].act
              /\ old[q].part = plan[q].part /\ old[q].status # "PENDING"
              /\ plan[q].status = "APPROVED" => old[q].status = "APPROVED"
    <2>1. /\ mission \in MissionRows /\ mission.status = mission.status
          /\ mission.action = mission.action /\ mission.context \in {mission.context, NoPlan}
          /\ "GONE" \in {"GONE", "REJECTED"}
      BY <1>2
    <2>2. Drops(old, mission) /\ \A q \in Plans : old[q].status # "PENDING"
      BY <2>1, CurrentDropped
    <2> HIDE DEF old
    <2> QED  BY <1>2, <2>2 DEF Drops
  <1> HIDE DEF old
  <1>4. /\ row \in PlanRows /\ row.status = "PENDING" /\ row.case = NoCase
        /\ row.act = "NONE" /\ ~row.part
    BY DEF Blank, PlanRows
  <1> HIDE DEF row
  <1>5. /\ plan' \in [Slots -> PlanRows] /\ plan'[p] = row
        /\ \A q \in Slots \ {p} : plan'[q] = old[q]
    BY <1>2, <1>3, <1>4 DEF row, old
  <1>6. /\ case' \in [Cases -> CaseRows]
        /\ \A c \in Cases :
              /\ case'[c].plan = case[c].plan /\ case'[c].options = case[c].options
              /\ case'[c].over = case[c].over
              /\ case'[c].status \in Terminal \cup {"NONE"}
              /\ case'[c].status = "NONE" => case[c].status = "NONE"
              /\ case'[c].status = "RESOLVED" =>
                    \/ case[c].status = "RESOLVED"
                    \/ \A q \in Purchases(c) : /\ plan[q].act \notin InFlight
                                               /\ plan[q].act = "SUCCEEDED" => q \in received
    BY NoneHolds
  <1>7. TypeOK'
    BY <1>1, <1>5, <1>6 DEF RInv, TypeOK
  <1>8. ASSUME NEW q \in Plans \ {p}
        PROVE  /\ plan'[q].case = plan[q].case /\ plan'[q].act = plan[q].act
               /\ plan'[q].part = plan[q].part /\ plan'[q].status # "PENDING"
               /\ plan[q].status = "APPROVED" => plan'[q].status = "APPROVED"
    BY <1>2, <1>3, <1>5
  <1>9. ASSUME NEW c \in Cases
        PROVE  /\ case'[c].over => case'[c].options = "outdated"
               /\ case'[c].status # "MONITORING"
    BY <1>6, RowsAre DEF Terminal
  <1>10. LiveIsOpen' /\ WaitsForMore'
    <2>1. \A q \in Plans : mission'.context # q
      BY <1>1, RowsAre
    <2> QED  BY <1>9, <2>1 DEF LiveIsOpen, Live, WaitsForMore
  <1>11. /\ plan'[p].status = "PENDING" /\ plan'[p].act = "NONE" /\ ~plan'[p].part
         /\ plan'[p].case = NoCase /\ plan'[NoPlan] = plan[NoPlan]
    BY <1>2, <1>3, <1>4, <1>5
  <1> QED  BY <1>1, <1>6, <1>7, <1>8, <1>9, <1>10, <1>11, NewPlan

LEMMA ApplyCheckKeeps ==
  ASSUME RInv, ApplyCheck
  PROVE  RInv'
  <1>1. ASSUME NEW c \in Holder, CheckHeld(c), check' = FALSE, received' = received
        PROVE  RInv'
    <2>1. c \in Cases /\ Open(c)
      BY DEF Holder
    <2> QED  BY <1>1, <2>1, CheckHeldKeeps
  <1>2. ASSUME Holder = {}, Resolve(case'), CheckRoutine, check' \in BOOLEAN,
               received' = received
        PROVE  RInv'
    <2>1. ASSUME NEW gone \in BOOLEAN,
                 gone => Pending(mission.current),
                 plan' = IF gone THEN [plan EXCEPT ![mission.current].status = "GONE"] ELSE plan,
                 mission' = IF gone
                            THEN [[mission EXCEPT !.context = NoPlan] EXCEPT !.current = NoPlan]
                            ELSE [mission EXCEPT !.context = NoPlan]
          PROVE  RInv'
      BY <1>2, <2>1, CheckRetiresKeeps
    <2>2. ASSUME Active, mission.action = NoPlan, NEW p \in Plans, Free(p),
                 plan' = [Without("GONE") EXCEPT ![p] = [Blank EXCEPT !.status = "PENDING",
                                                                      !.fits = TRUE]],
                 mission' = [[mission EXCEPT !.context = NoPlan] EXCEPT !.current = p]
          PROVE  RInv'
      BY <1>2, <2>2, CheckProposesKeeps
    <2>3. CASE \E expired \in BOOLEAN :
                  LET gone == Pending(mission.current)
                              /\ (expired \/ ~plan[mission.current].fits)
                  IN  /\ plan' = IF gone THEN [plan EXCEPT ![mission.current].status = "GONE"]
                                 ELSE plan
                      /\ mission' = IF gone
                            THEN [[mission EXCEPT !.context = NoPlan] EXCEPT !.current = NoPlan]
                            ELSE [mission EXCEPT !.context = NoPlan]
      <3>1. PICK expired \in BOOLEAN :
                  LET gone == Pending(mission.current)
                              /\ (expired \/ ~plan[mission.current].fits)
                  IN  /\ plan' = IF gone THEN [plan EXCEPT ![mission.current].status = "GONE"]
                                 ELSE plan
                      /\ mission' = IF gone
                            THEN [[mission EXCEPT !.context = NoPlan] EXCEPT !.current = NoPlan]
                            ELSE [mission EXCEPT !.context = NoPlan]
        BY <2>3
      <3> DEFINE gone == Pending(mission.current)
                         /\ (expired \/ ~plan[mission.current].fits)
      <3>2. gone \in BOOLEAN
        BY DEF Pending
      <3>3. /\ plan' = IF gone THEN [plan EXCEPT ![mission.current].status = "GONE"] ELSE plan
            /\ mission' = IF gone
                          THEN [[mission EXCEPT !.context = NoPlan] EXCEPT !.current = NoPlan]
                          ELSE [mission EXCEPT !.context = NoPlan]
            /\ gone => Pending(mission.current)
        BY <3>1
      <3> HIDE DEF gone
      <3> QED  BY <2>1, <3>2, <3>3
    <2> QED  BY <1>2, <2>2, <2>3 DEF CheckRoutine, Without
  <1> QED  BY <1>1, <1>2 DEF ApplyCheck, Resolve

-----------------------------------------------------------------------------
(* The invariant of the specification *)

LEMMA InitHolds == Init => RInv
  <1> SUFFICES ASSUME Init PROVE RInv
    OBVIOUS
  <1>1. /\ mission = [status |-> "ACTIVE", current |-> NoPlan, context |-> NoPlan,
                      action |-> NoPlan]
        /\ plan = [p \in Slots |-> Blank] /\ case = [c \in Cases |-> NotCreated]
        /\ received \in {{}, {Original}} /\ check = TRUE
        /\ Plans \subseteq Slots /\ NoPlan \in Slots /\ NoPlan \notin Plans
    BY RecoveryAssumption DEF Init, Slots
  <1>2. Blank \in PlanRows /\ NotCreated \in CaseRows
    BY DEF Blank, NotCreated, PlanRows, CaseRows, Slots
  <1>3. TypeOK
    <2>1. mission \in MissionRows /\ received \in SUBSET Orders /\ check \in BOOLEAN
      BY <1>1 DEF MissionRows, Orders
    <2>2. plan \in [Slots -> PlanRows] /\ case \in [Cases -> CaseRows]
      BY <1>1, <1>2
    <2> QED  BY <2>1, <2>2 DEF TypeOK
  <1>4. \A p \in Slots : /\ plan[p].status = "NONE" /\ plan[p].case = NoCase
                         /\ plan[p].act = "NONE" /\ ~plan[p].fits /\ ~plan[p].part
    BY <1>1 DEF Blank
  <1>5. \A c \in Cases : /\ case[c].status = "NONE" /\ case[c].plan = NoPlan
                         /\ case[c].options = "none" /\ ~case[c].over
    BY <1>1 DEF NotCreated
  <1>6. NoPlanIsBlank /\ PendingIsCurrent /\ CommittedIsPlan /\ FitsIsActive
    BY <1>1, <1>4 DEF NoPlanIsBlank, PendingIsCurrent, Pending, CommittedIsPlan, Routine,
                      FitsIsActive
  <1>7. ActionInFlight
    BY <1>1, <1>4 DEF ActionInFlight, InFlight
  <1>8. PlansHaveCases
    BY <1>1, <1>4, <1>5 DEF PlansHaveCases, Routine
  <1>9. OverIsOutdated /\ OneCaseIsOpen /\ WaitsForMore /\ NoRoutineBesideCase
    BY <1>5 DEF OverIsOutdated, OneCaseIsOpen, WaitsForMore, NoRoutineBesideCase, Open
  <1>10. LiveIsOpen /\ ResolvedMeansReceived
    BY <1>1, <1>4, <1>5 DEF LiveIsOpen, Live, ResolvedMeansReceived
  <1> QED  BY <1>3, <1>6, <1>7, <1>8, <1>9, <1>10 DEF RInv

LEMMA StepKeeps == RInv /\ [Next]_vars => RInv'
  <1> SUFFICES ASSUME RInv, [Next]_vars PROVE RInv'
    OBVIOUS
  <1>1. CASE UNCHANGED vars
    BY <1>1, CasesStay, NothingDropped DEF vars, RInv, TypeOK
  <1>2. ASSUME CaseStep PROVE RInv'
    <2>1. PICK c \in Cases :
             \/ Create(c) \/ Analyze(c) \/ Revise(c) \/ Source(c)
             \/ \E p \in Plans : Materialize(c, p)
             \/ AdoptWaiting(c) \/ Cancel(c) \/ FollowUp(c)
      BY <1>2 DEF CaseStep
    <2> QED  BY <2>1, CreateKeeps, AnalyzeKeeps, ReviseKeeps, MaterializeKeeps,
                AdoptWaitingKeeps, CancelKeeps, FollowUpKeeps
  <1>3. ASSUME PurchaseStep PROVE RInv'
    BY <1>3, ApproveKeeps, RejectKeeps, SendKeeps, RefuseKeeps, OutcomeKeeps DEF PurchaseStep
  <1>4. ASSUME NEW o \in Orders, Arrive(o) PROVE RInv'
    BY <1>4, ArriveKeeps
  <1>5. ASSUME NEW late \in BOOLEAN, NEW told \in BOOLEAN, StoreMoves(late, told) PROVE RInv'
    BY <1>5, StoreKeeps
  <1>6. ASSUME Pause \/ Resume \/ Complete \/ CancelMission PROVE RInv'
    BY <1>6, ControlKeeps DEF Pause, Resume, Complete, CancelMission
  <1> QED  BY <1>1, <1>2, <1>3, <1>4, <1>5, <1>6, ApplyCheckKeeps DEF Next

\* Every conjunct of RInv holds in every reachable state, for any number of
\* cases and plans: what waits for approval is current and belongs to a case
\* that has not played out, and the mission's action is what is in flight.
THEOREM RecoveryInvariant == Spec => []RInv
  <1> QED  BY InitHolds, StepKeeps, PTL DEF Spec

\* The rows keep their types.
THEOREM RecoveryTypes == Spec => []TypeOK
  <1>1. RInv => TypeOK
    BY DEF RInv
  <1> QED  BY <1>1, RecoveryInvariant, PTL

\* Of two purchases that bring, or may bring, what a case planned, each is the
\* plan of the case's row.
THEOREM OneEmergency == Spec => []OneEmergencyPurchase
  <1>1. RInv => OneEmergencyPurchase
    BY RecoveryAssumption
       DEF RInv, CommittedIsPlan, OneEmergencyPurchase, Purchases, Routine
  <1> QED  BY <1>1, RecoveryInvariant, PTL

\* A routine plan is retired when a case opens, and none is proposed while one
\* holds the item.
THEOREM NoRoutineBeside == Spec => []NoRoutineBesideCase
  <1>1. RInv => NoRoutineBesideCase
    BY DEF RInv
  <1> QED  BY <1>1, RecoveryInvariant, PTL

\* What a RESOLVED case bought has arrived, and it buys no more.
THEOREM ResolvedReceived == Spec => []ResolvedMeansReceived
  <1>1. RInv => ResolvedMeansReceived
    BY DEF RInv
  <1> QED  BY <1>1, RecoveryInvariant, PTL

-----------------------------------------------------------------------------
(* What is sent *)

\* Only run() sends a purchase.
LEMMA OnlySendSends ==
  ASSUME RInv, [Next]_vars, NEW p \in Plans,
         plan[p].act = "QUEUED", plan'[p].act = "SENT"
  PROVE  Send(p)
  <1>1. p \in Slots /\ p # NoPlan /\ plan \in [Slots -> PlanRows]
    BY RowsAre
  <1>2. ASSUME NEW m, Drops(plan', m) PROVE FALSE
    BY <1>1, <1>2 DEF Drops
  <1>3. ASSUME NEW ps, plan' = Outdated(ps), ps[p].act # "SENT" PROVE FALSE
    <2>1. plan'[p] = [ps[p] EXCEPT !.fits = FALSE]
      BY <1>1, <1>3 DEF Outdated
    <2> QED  BY <1>3, <2>1
  <1>4. CASE UNCHANGED vars
    BY <1>4 DEF vars
  <1>5. ASSUME NEW c \in Cases, Create(c) \/ AdoptWaiting(c) \/ Cancel(c)
        PROVE  FALSE
    <2>1. Drops(RetireRoutine(plan), MissionRetired(mission))
      BY NothingDropped, RoutineDropped
    <2>2. /\ Drops(WithoutPlan(c), MissionWithoutPlan(c))
          /\ Drops(RetireRoutine(WithoutPlan(c)), MissionRetired(MissionWithoutPlan(c)))
      BY PlanDropped, RoutineDropped
    <2> QED  BY <1>2, <1>5, <2>1, <2>2 DEF Create, AdoptWaiting, Cancel
  <1>6. ASSUME NEW c \in Cases, Revise(c) \/ Source(c)
        PROVE  FALSE
    <2>1. Drops(OfOldRevision(WithoutPlan(c), c), MissionWithoutPlan(c))
      BY PlanDropped
    <2> QED  BY <1>2, <1>6, <2>1 DEF Revise, Source
  <1>7. ASSUME NEW c \in Cases, Analyze(c) \/ FollowUp(c)
        PROVE  FALSE
    BY <1>7 DEF Analyze, FollowUp
  <1>8. Without("GONE")[p].act = plan[p].act /\ Without("GONE") \in [Slots -> PlanRows]
    <2>1. /\ mission \in MissionRows /\ mission.status = mission.status
          /\ mission.action = mission.action /\ mission.context \in {mission.context, NoPlan}
          /\ "GONE" \in {"GONE", "REJECTED"}
      BY RowsAre
    <2> QED  BY <1>1, <2>1, CurrentDropped DEF Drops
  <1>9. ASSUME NEW c \in Cases, NEW q \in Plans, Materialize(c, q)
        PROVE  FALSE
    <2>1. mission.action = NoPlan
      BY <1>9 DEF Materialize
    <2> QED  BY <1>1, <2>1, RowsAre DEF InFlight
  <1>10. ASSUME NEW q \in Plans, Approve(q)
         PROVE  FALSE
    <2>1. mission.action = NoPlan
      BY <1>10 DEF Approve
    <2> QED  BY <1>1, <2>1, RowsAre DEF InFlight
  <1>11. ASSUME NEW q \in Plans, Reject(q)
         PROVE  FALSE
    <2>1. plan' = [plan EXCEPT ![q].status = "REJECTED"] /\ q \in Slots
      BY <1>11, RowsAre DEF Reject
    <2>2. plan'[p].act = plan[p].act
      BY <1>1, <2>1 DEF PlanRows
    <2> QED  BY <2>2
  <1>12. ASSUME NEW q \in Plans, Send(q)
         PROVE  q = p
    BY <1>12, RowsAre DEF Send, InFlight
  <1>13. ASSUME NEW q \in Plans, Refuse(q)
         PROVE  FALSE
    <2>1. plan' = [plan EXCEPT ![q].act = "FAILED"] /\ q = p
      BY <1>13, RowsAre DEF Refuse, InFlight
    <2>2. plan'[p].act = "FAILED"
      BY <1>1, <2>1 DEF PlanRows
    <2> QED  BY <2>2
  <1>14. ASSUME NEW q \in Plans, NEW r \in {"SUCCEEDED", "FAILED"}, NEW part \in BOOLEAN,
                Outcome(q, r, part)
         PROVE  FALSE
    <2>1. mission.action = q /\ plan[q].act = "SENT"
      BY <1>14 DEF Outcome
    <2> QED  BY <2>1, RowsAre DEF InFlight
  <1>15. ASSUME NEW o \in Orders, Arrive(o)
         PROVE  FALSE
    BY <1>3, <1>15 DEF Arrive
  <1>16. ASSUME NEW late, NEW told, StoreMoves(late, told)
         PROVE  FALSE
    BY <1>3, <1>16 DEF StoreMoves
  <1>17. ASSUME NEW status, NEW cancel, ControlMission(status, cancel)
         PROVE  FALSE
    <2> DEFINE a    == mission.action
               gone == Without("GONE")
               qs   == IF cancel /\ plan[a].act = "QUEUED"
                       THEN [gone EXCEPT ![a].act = "FAILED"] ELSE gone
    <2>1. plan' = Outdated(qs)
      BY <1>17 DEF ControlMission, Without
    <2>2. a = p
      BY RowsAre DEF InFlight
    <2> HIDE DEF a, gone
    <2>3. qs[p].act # "SENT"
      <3>1. gone[p] \in PlanRows /\ gone[p].act = "QUEUED"
        BY <1>1, <1>8 DEF gone
      <3>2. [gone EXCEPT ![a].act = "FAILED"][p].act = "FAILED"
        BY <1>1, <1>8, <2>2, <3>1 DEF PlanRows, gone
      <3> QED  BY <3>1, <3>2
    <2> QED  BY <1>3, <2>1, <2>3
  <1>18. ASSUME NEW c \in Holder, CheckHeld(c)
         PROVE  FALSE
    <2>1. Drops(RetireRoutine(plan), MissionRetired(mission))
      BY NothingDropped, RoutineDropped
    <2> QED  BY <1>2, <1>8, <1>18, <2>1 DEF CheckHeld, Without
  <1>19. ASSUME CheckRoutine
         PROVE  FALSE
    <2>1. mission.action # NoPlan
      BY <1>1, RowsAre DEF InFlight
    <2>2. plan' = plan \/ plan' = Without("GONE")
      BY <1>19, <2>1 DEF CheckRoutine, Without
    <2> QED  BY <1>8, <2>2
  <1> QED  BY <1>4, <1>5, <1>6, <1>7, <1>9, <1>10, <1>11, <1>12, <1>13, <1>14, <1>15, <1>16,
              <1>17, <1>18, <1>19
           DEF Next, CaseStep, PurchaseStep, Pause, Resume, Complete, CancelMission, ApplyCheck

\* A purchase is sent only for a case that is still open, in the revision its
\* plan was adopted from: the invariant LiveIsOpen at the moment it is sent.
THEOREM SentForCase == Spec => SentForItsCase
  <1>1. ASSUME RInv, [Next]_vars, NEW p \in Plans, plan[p].act = "QUEUED",
               plan'[p].act = "SENT", ~Routine(p)
        PROVE  Open(plan[p].case) /\ plan[p].rev
    <2>1. Send(p)
      BY <1>1, OnlySendSends
    <2>2. plan[p].fits /\ CaseMatches(p) /\ plan[p].act = "QUEUED"
      BY <1>1, <2>1 DEF Send, Valid
    <2>3. Live(p)
      BY <1>1, <2>2 DEF Live, CaseMatches
    <2>4. case[plan[p].case].status \notin {"RESOLVED", "CLOSED", "CANCELLED", "NONE"}
      BY <1>1, <2>2, <2>3 DEF RInv, LiveIsOpen, CaseMatches, PlansHaveCases
    <2> QED  BY <2>2, <2>4 DEF Open, Terminal, CaseMatches
  <1>2. RInv /\ [Next]_vars =>
           [\A p \in Plans :
              plan[p].act = "QUEUED" /\ plan'[p].act = "SENT" /\ ~Routine(p) =>
                 Open(plan[p].case) /\ plan[p].rev]_vars
    BY <1>1
  <1> QED  BY <1>2, RecoveryInvariant, PTL DEF Spec, SentForItsCase

-----------------------------------------------------------------------------
(***************************************************************************)
(* Now the arithmetic that RecoveryCases and MissionChecks leave open,     *)
(* that of PlanningRules and RecoverySolver, for every amount.             *)
(***************************************************************************)

-----------------------------------------------------------------------------
(* Division *)

\* What division by a positive number gives.
LEMMA Division ==
  ASSUME NEW a \in Int, NEW b \in Nat \ {0}
  PROVE  /\ a \div b \in Int /\ a % b \in 0 .. b - 1
         /\ a = (b * (a \div b)) + (a % b)
  OBVIOUS

\* Multiples of a positive number are at least that number apart.
LEMMA Apart ==
  ASSUME NEW b \in Nat \ {0}, NEW j \in Int, NEW k \in Int, j < k
  PROVE  b * j + b <= b * k
  OBVIOUS

LEMMA Ordered ==
  ASSUME NEW b \in Nat \ {0}, NEW j \in Int, NEW k \in Int, j <= k
  PROVE  b * j <= b * k
  BY Apart

\* A division rounds down to the largest number that fits.
LEMMA Fits ==
  ASSUME NEW a \in Int, NEW b \in Nat \ {0}, NEW q \in Int
  PROVE  b * q <= a <=> q <= a \div b
  <1> DEFINE m == a \div b
  <1>1. m \in Int /\ a % b \in 0 .. b - 1 /\ a = (b * m) + (a % b)
    BY Division
  <1> HIDE DEF m
  <1>2. CASE q <= m
    BY <1>1, <1>2, Ordered
  <1>3. CASE m < q
    <2>1. b * m + b <= b * q
      BY <1>1, <1>3, Apart
    <2>. QED
      BY <1>1, <1>3, <2>1
  <1>. QED
    BY <1>1, <1>2, <1>3 DEF m

\* The smallest number of whole packs of b that hold a.
LEMMA RoundsUp ==
  ASSUME NEW a \in Int, NEW b \in Nat \ {0}, NEW j \in Int
  PROVE  /\ (a + b - 1) \div b \in Int
         /\ b * ((a + b - 1) \div b) >= a
         /\ b * j >= a <=> j >= (a + b - 1) \div b
  <1> DEFINE k == (a + b - 1) \div b
  <1>1. /\ k \in Int /\ (a + b - 1) % b \in 0 .. b - 1
        /\ a + b - 1 = (b * k) + ((a + b - 1) % b)
    BY Division
  <1> HIDE DEF k
  <1>2. b * k >= a
    BY <1>1
  <1>3. CASE k <= j
    BY <1>1, <1>2, <1>3, Ordered
  <1>4. CASE j < k
    <2>1. b * j + b <= b * k
      BY <1>1, <1>4, Apart
    <2>. QED
      BY <1>1, <1>4, <2>1
  <1>. QED
    BY <1>1, <1>2, <1>3, <1>4 DEF k

\* Whole packs leave nothing over.
LEMMA WholePacks ==
  ASSUME NEW b \in Nat \ {0}, NEW j \in Int
  PROVE  (b * j) % b = 0
  <1> DEFINE m == (b * j) \div b
             r == (b * j) % b
  <1>1. m \in Int /\ r \in 0 .. b - 1 /\ b * j = (b * m) + r
    <2>1. b * j \in Int
      OBVIOUS
    <2>. QED
      BY <2>1, Division, Zenon
  <1> HIDE DEF m, r
  <1>2. CASE j <= m
    BY <1>1, <1>2, Ordered
  <1>3. CASE m < j
    <2>1. b * m + b <= b * j
      BY <1>1, <1>3, Apart
    <2>. QED
      BY <1>1, <2>1
  <1>4. r = 0
    BY <1>1, <1>2, <1>3
  <1>. QED
    BY <1>4 DEF r

-----------------------------------------------------------------------------
(* Schedules *)

\* Of the moments a schedule names, the occurrence that is dispatched is the
\* last that is due, and the next one is the first that is not
\* (dispatcher.py due_occurrence): overdue ones become one, none runs early.
THEOREM OccurrenceIsTheLastDue ==
  ASSUME NEW anchor \in Int, NEW interval \in Nat \ {0}, NEW now \in Int, NEW k \in Int
  PROVE  /\ Occurrence(anchor, interval, now) <= now
         /\ now < Following(anchor, interval, now)
         /\ anchor + k * interval <= now
              => anchor + k * interval <= Occurrence(anchor, interval, now)
  <1> DEFINE n == (now - anchor) \div interval
             r == (now - anchor) % interval
  <1>1. /\ n \in Int /\ r \in 0 .. interval - 1
        /\ now - anchor = (interval * n) + r
    BY Division
  <1>2. interval * k <= now - anchor <=> k <= n
    BY Fits
  <1>3. Occurrence(anchor, interval, now) = anchor + n * interval
    BY DEF Occurrence
  <1>4. Following(anchor, interval, now) = anchor + n * interval + interval
    BY <1>3 DEF Following
  <1> HIDE DEF n, r
  <1>5. n * interval = interval * n /\ k * interval = interval * k
    BY <1>1
  <1>6. k <= n => interval * k <= interval * n
    BY <1>1, Ordered
  <1>. QED
    BY <1>1, <1>2, <1>3, <1>4, <1>5, <1>6

-----------------------------------------------------------------------------
(* Routine checks *)

\* The choice among the candidates leaves nothing open (evaluation.py
\* evaluate_candidates): two checks of the same snapshot agree.
THEOREM RecommendationIsUnique ==
  ASSUME NEW s, IsSnapshot(s),
         NEW q \in Recommended(s), NEW r \in Recommended(s)
  PROVE  q = r
  <1>1. q \in Nat /\ r \in Nat
    BY DEF Recommended, FeasibleQuantities, IsSnapshot
  <1>2. Shortage(s, q) \in Int /\ Shortage(s, r) \in Int
    BY <1>1 DEF Shortage, NotBelowZero, IsSnapshot
  <1>3. AtLeastAsGood(s, q, r) /\ AtLeastAsGood(s, r, q)
    BY DEF Recommended
  <1>. QED
    BY <1>1, <1>2, <1>3 DEF AtLeastAsGood

\* A check only ends as an anomaly with an alert that says why, and never
\* as healthy beside one: check_status() and the alert rules, which are
\* computed apart (engine.py 99, rules.py 15), agree.
THEOREM AnomalyMeansFindings ==
  ASSUME NEW s, IsSnapshot(s)
  PROVE  CheckStatus(s) = "ANOMALY" <=> Findings(s) # {}
  <1>1. Shortage(s, 0) > 0 <=> s.demand - s.onHand - s.inbound > 0
    BY DEF Shortage, NotBelowZero, IsSnapshot
  <1>2. FundingGap(s) => Shortage(s, 0) > 0
    BY DEF FundingGap
  <1>3. Findings(s) # {} <=> Shortage(s, 0) > 0 \/ s.cash < s.floor
    BY <1>2 DEF Findings
  <1>. QED
    BY <1>1, <1>3 DEF CheckStatus

\* A store that lacks nothing is not told to buy, as long as not buying is
\* among the owner's candidates and her floor still holds.
THEOREM NoShortageNoPurchase ==
  ASSUME NEW s, IsSnapshot(s), 0 \in s.quantities, s.cash >= s.floor, Shortage(s, 0) = 0
  PROVE  Proposed(s) = {}
  <1> SUFFICES ASSUME NEW q \in Recommended(s), q # 0
               PROVE  FALSE
    BY DEF Proposed
  <1>1. Feasible(s, 0)
    <2>1. CashAfter(s, 0) = s.cash
      BY DEF CashAfter, Spend, IsSnapshot, IsOffer
    <2>. QED
      BY <2>1 DEF Feasible, IsSnapshot
  <1>2. AtLeastAsGood(s, q, 0) /\ q \in Nat
    BY <1>1 DEF Recommended, FeasibleQuantities, IsSnapshot
  <1>3. Shortage(s, q) \in Nat
    BY <1>2 DEF Shortage, NotBelowZero, IsSnapshot
  <1>. QED
    BY <1>2, <1>3 DEF AtLeastAsGood

\* Whoever is told that the floor keeps the shortage open cannot close it: no
\* number of whole packs the supplier accepts both covers it and leaves the
\* floor (rules.py 36-45), whatever candidates the owner named.
THEOREM FundingGapIsReal ==
  ASSUME NEW s, IsSnapshot(s), FundingGap(s),
         NEW q \in Nat, q >= s.offer.minimum, q % s.offer.pack = 0, q >= Shortage(s, 0)
  PROVE  CashAfter(s, q) < s.floor
  <1> DEFINE least == IF Shortage(s, 0) > s.offer.minimum THEN Shortage(s, 0)
                                                          ELSE s.offer.minimum
             p == s.offer.pack
             k == (least + p - 1) \div p
             j == q \div p
  <1>1. /\ p \in Nat \ {0} /\ s.offer.price \in Nat \ {0} /\ s.offer.minimum \in Nat
        /\ s.cash \in Int /\ s.floor \in Nat
    BY DEF IsSnapshot, IsOffer
  <1>2. Shortage(s, 0) \in Int
    BY DEF Shortage, NotBelowZero, IsSnapshot
  <1>3. least \in Int /\ q >= least
    BY <1>1, <1>2
  <1>4. j \in Int /\ q = p * j
    BY <1>1
  <1>5. k \in Int /\ (p * j >= least <=> j >= k)
    BY <1>1, <1>3, <1>4, RoundsUp
  <1>6. Needed(s) = k * p
    BY DEF Needed
  <1> HIDE DEF least, p, k, j
  <1>7. Needed(s) <= q
    <2>1. p * k <= p * j
      BY <1>1, <1>3, <1>4, <1>5, Ordered
    <2>. QED
      BY <1>1, <1>4, <1>5, <1>6, <2>1
  <1>8. Needed(s) \in Int
    BY <1>1, <1>5, <1>6
  <1>9. Needed(s) * s.offer.price <= q * s.offer.price
    <2>1. s.offer.price * Needed(s) <= s.offer.price * q
      BY <1>1, <1>7, <1>8, Ordered
    <2>. QED
      BY <1>1, <1>8, <2>1
  <1>10. s.cash - Needed(s) * s.offer.price < s.floor
    BY DEF FundingGap
  <1>11. q * s.offer.price \in Int /\ Needed(s) * s.offer.price \in Int
    BY <1>1, <1>8
  <1>. QED
    BY <1>1, <1>9, <1>10, <1>11 DEF CashAfter, Spend

-----------------------------------------------------------------------------
(* Emergency purchases *)

LEMMA Amounts ==
  ASSUME NEW s, IsRecoveryInput(s), NEW o, IsRecoveryOffer(o)
  PROVE  /\ o.price \in Nat \ {0} /\ o.minimum \in Nat \ {0} /\ o.pack \in Nat \ {0}
         /\ s.cash \in Nat /\ s.floor \in Nat /\ s.budget \in Nat /\ s.limit \in Nat
         /\ Money(s) \in Nat /\ Money(s) \div o.price \in Int /\ Largest(s, o) \in Int
         /\ Smallest(o) \in Int
  <1>1. /\ o.price \in Nat \ {0} /\ o.minimum \in Nat \ {0} /\ o.pack \in Nat \ {0}
        /\ s.cash \in Nat /\ s.floor \in Nat /\ s.budget \in Nat /\ s.limit \in Nat
    BY DEF IsRecoveryInput, IsRecoveryOffer
  <1>2. Money(s) \in Nat
    BY <1>1 DEF Money, NonNegative, Lesser
  <1>3. Money(s) \div o.price \in Int
    BY <1>1, <1>2
  <1>4. Largest(s, o) \in Int
    BY <1>1, <1>3 DEF Largest, Lesser
  <1>5. (o.minimum + o.pack - 1) \div o.pack \in Int
    BY <1>1
  <1>6. Smallest(o) \in Int
    BY <1>1, <1>5 DEF Smallest
  <1>. QED
    BY <1>1, <1>2, <1>3, <1>4, <1>6

\* What may be paid is what does not exceed the largest quantity.
LEMMA PayableUpToLargest ==
  ASSUME NEW s, IsRecoveryInput(s), NEW o, IsRecoveryOffer(o), NEW q \in Nat \ {0}
  PROVE  Payable(s, q, o) <=> q <= Largest(s, o)
  <1>1. /\ o.price \in Nat \ {0}
        /\ s.cash \in Nat /\ s.floor \in Nat /\ s.budget \in Nat /\ s.limit \in Nat
        /\ Money(s) \in Nat /\ Money(s) \div o.price \in Int
    BY Amounts
  <1>2. o.price * q <= Money(s) <=> q <= Money(s) \div o.price
    BY <1>1, Fits
  <1>3. o.price * q \in Int /\ q * o.price = o.price * q /\ o.price * q > 0
    <2>1. o.price * 1 <= o.price * q
      BY <1>1, Ordered
    <2>. QED
      BY <1>1, <2>1
  <1>4. o.price * q <= Money(s) <=>
          o.price * q <= s.budget /\ s.cash - o.price * q >= s.floor
    BY <1>1, <1>3 DEF Money, NonNegative, Lesser
  <1>5. q <= Largest(s, o) <=>
          q <= Money(s) \div o.price /\ (s.limited => q <= s.limit)
    BY <1>1 DEF Largest, Lesser, IsRecoveryInput
  <1>. QED
    BY <1>2, <1>3, <1>4, <1>5 DEF Payable

\* What could be bought of an offer is among the quantities tried.
LEMMA BuyableIsTried ==
  ASSUME NEW s, IsRecoveryInput(s), NEW o, IsRecoveryOffer(o),
         NEW q \in Nat, Buyable(s, q, o)
  PROVE  Count(s, o) > 0 /\ q \in Quantities(s, o)
  <1> DEFINE p == o.pack
             a == (o.minimum + p - 1) \div p
             j == q \div p
             n == (Largest(s, o) - Smallest(o)) \div p
  <1>1. /\ p \in Nat \ {0} /\ o.minimum \in Nat \ {0}
        /\ Largest(s, o) \in Int /\ Smallest(o) \in Int
    BY Amounts
  <1>2. q >= o.minimum /\ q % p = 0 /\ Payable(s, q, o)
    BY DEF Buyable, InPacks
  <1>3. q <= Largest(s, o)
    BY <1>1, <1>2, PayableUpToLargest
  <1>4. j \in Int /\ q = p * j
    BY <1>1, <1>2
  <1>5. a \in Int /\ (p * j >= o.minimum <=> j >= a)
    <2>1. o.minimum \in Int
      BY <1>1
    <2>. QED
      BY <1>1, <1>4, <2>1, RoundsUp, Zenon
  <1>6. Smallest(o) = p * a
    BY <1>1, <1>5 DEF Smallest
  <1>7. Count(s, o) = NonNegative(n + 1)
    BY DEF Count
  <1>8. n \in Int /\ (p * (j - a) <= Largest(s, o) - Smallest(o) <=> j - a <= n)
    <2>1. Largest(s, o) - Smallest(o) \in Int /\ j - a \in Int
      BY <1>1, <1>4, <1>5
    <2>2. n \in Int
      BY <1>1, <2>1
    <2>. QED
      BY <1>1, <2>1, <2>2, Fits, Zenon
  <1> HIDE DEF p, a, j, n
  <1>9. j >= a
    BY <1>2, <1>4, <1>5
  <1>10. p * (j - a) = q - Smallest(o)
    BY <1>1, <1>4, <1>5, <1>6
  <1>11. j - a <= n
    BY <1>1, <1>3, <1>8, <1>10
  <1>12. Count(s, o) = n + 1 /\ n + 1 > 0
    BY <1>4, <1>5, <1>7, <1>8, <1>9, <1>11 DEF NonNegative
  <1>13. j - a \in 0 .. Count(s, o) - 1
    BY <1>4, <1>5, <1>8, <1>9, <1>11, <1>12
  <1>14. q = Smallest(o) + (j - a) * o.pack
    BY <1>1, <1>4, <1>5, <1>6 DEF p
  <1>. QED
    BY <1>8, <1>12, <1>13, <1>14 DEF Quantities

\* And of an offer that may be used at all nothing else is: where the range is
\* not empty, every quantity it holds is one that may be bought (solver.py 121-137).
THEOREM WhatIsTriedIsBuyable ==
  ASSUME NEW s, IsRecoveryInput(s), NEW o, IsRecoveryOffer(o),
         Usable(s, o), Count(s, o) > 0, NEW q \in Quantities(s, o)
  PROVE  q \in Nat /\ Buyable(s, q, o)
  <1> DEFINE p == o.pack
             a == (o.minimum + p - 1) \div p
             n == (Largest(s, o) - Smallest(o)) \div p
  <1>1. /\ p \in Nat \ {0} /\ o.minimum \in Nat \ {0}
        /\ Largest(s, o) \in Int /\ Smallest(o) \in Int
    BY Amounts
  <1>2. a \in Int /\ p * a >= o.minimum
    BY <1>1, RoundsUp
  <1>3. Smallest(o) = p * a
    BY <1>1, <1>2 DEF Smallest
  <1>4. n \in Int
    BY <1>1
  <1>5. Count(s, o) = n + 1
    BY <1>4 DEF Count, NonNegative
  <1>6. PICK k \in 0 .. n : q = Smallest(o) + k * p
    BY <1>4, <1>5 DEF Quantities
  <1>7. p * k <= Largest(s, o) - Smallest(o)
    BY <1>1, <1>4, <1>6, Fits
  <1> HIDE DEF p, a, n
  <1>8. q = p * (a + k) /\ a + k \in Int
    BY <1>1, <1>2, <1>3, <1>4, <1>6
  <1>9. p * k >= 0
    BY <1>1, <1>4, <1>6
  <1>10. q \in Nat \ {0} /\ q >= o.minimum
    BY <1>1, <1>2, <1>3, <1>4, <1>6, <1>9
  <1>11. q % p = 0
    BY <1>1, <1>8, WholePacks, Zenon
  <1>12. q <= Largest(s, o)
    BY <1>1, <1>4, <1>6, <1>7
  <1>13. Payable(s, q, o)
    BY <1>10, <1>12, PayableUpToLargest
  <1>. QED
    BY <1>10, <1>11, <1>13 DEF Buyable, InPacks, p

-----------------------------------------------------------------------------
(* Computations along the days *)

\* What holds of n - 1 whenever it does not hold of n holds of every number.
LEMMA CountingUp ==
  ASSUME NEW n \in Nat, NEW G, 0 \in G, \A i \in 1 .. n : i - 1 \in G => i \in G
  PROVE  0 .. n \subseteq G
  <1> DEFINE R == OpToRel(<, Nat)
             Q == 0 .. n \ G
  <1>1. \A x, y \in Nat : x < y => <<x, y>> \in R
    BY DEF OpToRel
  <1>2. IsWellFoundedOn(R, Nat)
    BY NatLessThanWellFounded, Zenon
  <1>3. SUFFICES ASSUME Q # {} PROVE FALSE
    OBVIOUS
  <1>4. Q \subseteq Nat
    OBVIOUS
  <1> HIDE DEF R
  <1>5. PICK m \in Q : \A k \in Q : ~ (<<k, m>> \in R)
    BY <1>2, <1>3, <1>4, WFMin, Zenon
  <1>6. m \in 1 .. n /\ m - 1 \in 0 .. n
    OBVIOUS
  <1>7. m - 1 \in G
    <2>1. m \in Nat /\ m - 1 \in Nat /\ m - 1 < m
      BY <1>6
    <2>2. <<m - 1, m>> \in R
      BY <1>1, <2>1
    <2>. QED
      BY <1>5, <1>6, <2>2
  <1>. QED
    BY <1>5, <1>6, <1>7

\* f goes from start day by day, as step says.
Follows(f, start, step, n) == f[0] = start /\ \A d \in 1 .. n : f[d] = step[d][f[d - 1]]

LEMMA DaysCanBeFollowed ==
  ASSUME NEW n \in Nat, NEW V, NEW start \in V, NEW step \in [1 .. n -> [V -> V]]
  PROVE  \E f \in [0 .. n -> V] : Follows(f, start, step, n)
  <1> DEFINE G == {k \in 0 .. n : \E f \in [0 .. k -> V] : Follows(f, start, step, k)}
  <1>1. 0 \in G
    <2> DEFINE f == [d \in 0 .. 0 |-> start]
    <2>1. f \in [0 .. 0 -> V] /\ f[0] = start
      OBVIOUS
    <2>2. Follows(f, start, step, 0)
      BY <2>1 DEF Follows
    <2>. QED
      BY <2>1, <2>2
  <1>2. ASSUME NEW i \in 1 .. n, i - 1 \in G PROVE i \in G
    <2>1. PICK f \in [0 .. i - 1 -> V] : Follows(f, start, step, i - 1)
      BY <1>2
    <2> DEFINE g == [d \in 0 .. i |-> IF d = i THEN step[i][f[i - 1]] ELSE f[d]]
    <2>2. f[i - 1] \in V /\ step[i][f[i - 1]] \in V
      OBVIOUS
    <2>3. g \in [0 .. i -> V] /\ g[i] = step[i][f[i - 1]] /\ \A d \in 0 .. i - 1 : g[d] = f[d]
      BY <2>2
    <2> HIDE DEF g
    <2>4. ASSUME NEW d \in 1 .. i PROVE g[d] = step[d][g[d - 1]]
      <3>1. d - 1 \in 0 .. i - 1
        OBVIOUS
      <3>2. CASE d = i
        BY <2>3, <3>1, <3>2
      <3>3. CASE d # i
        <4>1. d \in 1 .. i - 1 /\ d \in 0 .. i - 1
          BY <3>3
        <4>. QED
          BY <2>1, <2>3, <3>1, <4>1 DEF Follows
      <3>. QED
        BY <3>2, <3>3
    <2>5. g[0] = start
      BY <2>1, <2>3 DEF Follows
    <2>6. Follows(g, start, step, i)
      BY <2>4, <2>5 DEF Follows
    <2>. QED
      BY <2>3, <2>6
  <1>3. 0 .. n \subseteq G
    <2> HIDE DEF G
    <2>. QED
      BY <1>1, <1>2, CountingUp
  <1>. QED
    BY <1>3

\* What can be summed, and what is the sum of two.
AreInts(f, n) == \A d \in 1 .. n : f[d] \in Int
AreNats(f, n) == \A d \in 1 .. n : f[d] \in Nat
AreParts(f, g, h, n) ==
    \A d \in 1 .. n : g[d] \in Int /\ h[d] \in Int /\ f[d] = g[d] + h[d]

\* u sums f day by day.
Accumulates(u, f, n) ==
    /\ u \in [0 .. n -> Int] /\ u[0] = 0
    /\ \A d \in 1 .. n : f[d] \in Int /\ u[d] = u[d - 1] + f[d]

LEMMA SumsAreReached ==
  ASSUME NEW n \in Nat, NEW f, AreInts(f, n)
  PROVE  \E u : Accumulates(u, f, n) /\ SumTo(f, n) = u[n]
  <1> USE DEF AreInts
  <1> DEFINE step == [d \in 1 .. n |-> [x \in Int |-> x + f[d]]]
             Solves(u) == u = [d \in 0 .. n |-> IF d = 0 THEN 0 ELSE u[d - 1] + f[d]]
  <1>1. step \in [1 .. n -> [Int -> Int]]
    OBVIOUS
  <1>2. PICK u0 \in [0 .. n -> Int] : Follows(u0, 0, step, n)
    <2>1. 0 \in Int
      OBVIOUS
    <2> HIDE DEF step
    <2>. QED
      BY <1>1, <2>1, DaysCanBeFollowed
  <1>3. \A d \in 1 .. n : u0[d] = u0[d - 1] + f[d]
    <2>1. TAKE d \in 1 .. n
    <2>2. u0[d - 1] \in Int
      OBVIOUS
    <2>3. u0[d] = step[d][u0[d - 1]]
      BY <1>2 DEF Follows
    <2>. QED
      BY <2>2, <2>3
  <1>4. Solves(u0)
    BY <1>2, <1>3 DEF Follows
  <1> DEFINE u == CHOOSE v : Solves(v)
  <1>5. Solves(u)
    BY <1>4
  <1>6. SumTo(f, n) = u[n]
    BY DEF SumTo
  <1> HIDE DEF u
  <1>7. u[0] = 0 /\ \A d \in 1 .. n : u[d] = u[d - 1] + f[d]
    BY <1>5
  <1>8. \A d \in 0 .. n : u[d] \in Int
    <2> DEFINE G == {d \in 0 .. n : u[d] \in Int}
    <2>1. 0 \in G
      BY <1>7
    <2>2. ASSUME NEW d \in 1 .. n, d - 1 \in G PROVE d \in G
      <3>1. u[d] = u[d - 1] + f[d] /\ u[d - 1] \in Int
        BY <1>7, <2>2
      <3>. QED
        BY <3>1
    <2>3. 0 .. n \subseteq G
      <3> HIDE DEF G
      <3>. QED
        BY <2>1, <2>2, CountingUp
    <2>. QED
      BY <2>3
  <1>9. u \in [0 .. n -> Int]
    BY <1>5, <1>8
  <1>. QED
    BY <1>6, <1>7, <1>9 DEF Accumulates

\* Stock, day by day (trajectory()).
Coming(s, q, day, d) == s.arrivals[d] + (IF d = day THEN q ELSE 0)

IsStock(e, s, q, day) ==
    /\ e \in [0 .. s.days -> Nat] /\ e[0] = s.onHand
    /\ \A d \in 1 .. s.days :
          e[d] = NonNegative(e[d - 1] + Coming(s, q, day, d) - s.demand[d])

LEMMA StockIsFollowed ==
  ASSUME NEW s, IsRecoveryInput(s), NEW q \in Nat, NEW day \in Nat
  PROVE  IsStock(EndStock(s, q, day), s, q, day)
  <1> DEFINE n == s.days
             Next1(d, x) == NonNegative(x + Coming(s, q, day, d) - s.demand[d])
             step == [d \in 1 .. n |-> [x \in Nat |-> Next1(d, x)]]
             Solves(e) == e = [d \in 0 .. n |->
                IF d = 0 THEN s.onHand
                ELSE NonNegative(e[d - 1] + s.arrivals[d] + (IF d = day THEN q ELSE 0)
                                   - s.demand[d])]
  <1>1. /\ n \in Nat /\ s.onHand \in Nat
        /\ \A d \in 1 .. n : s.demand[d] \in Nat /\ s.arrivals[d] \in Nat
    BY DEF IsRecoveryInput, Upto
  <1>2. ASSUME NEW d \in 1 .. n, NEW x \in Nat
        PROVE  /\ Next1(d, x) \in Nat
               /\ Next1(d, x) = NonNegative(x + s.arrivals[d] + (IF d = day THEN q ELSE 0)
                                              - s.demand[d])
    <2>1. s.demand[d] \in Nat /\ s.arrivals[d] \in Nat
      BY <1>1
    <2>. QED
      BY <2>1 DEF NonNegative, Coming
  <1>3. step \in [1 .. n -> [Nat -> Nat]]
    BY <1>2
  <1>4. PICK e0 \in [0 .. n -> Nat] : Follows(e0, s.onHand, step, n)
    <2> HIDE DEF step, n
    <2>. QED
      BY <1>1, <1>3, DaysCanBeFollowed
  <1>5. e0[0] = s.onHand
    BY <1>4 DEF Follows
  <1>6. ASSUME NEW d \in 1 .. n
        PROVE  e0[d - 1] \in Nat /\ e0[d] = Next1(d, e0[d - 1])
    <2>1. e0[d - 1] \in Nat
      BY <1>1
    <2>2. e0[d] = step[d][e0[d - 1]]
      BY <1>4 DEF Follows
    <2>. QED
      BY <2>1, <2>2
  <1>7. Solves(e0)
    <2>1. ASSUME NEW d \in 0 .. n
          PROVE  e0[d] = IF d = 0 THEN s.onHand
                         ELSE NonNegative(e0[d - 1] + s.arrivals[d]
                                            + (IF d = day THEN q ELSE 0) - s.demand[d])
      <3>1. CASE d = 0
        BY <1>5, <3>1
      <3>2. CASE d # 0
        <4>1. d \in 1 .. n
          BY <1>1, <3>2
        <4> HIDE DEF Next1
        <4>2. e0[d - 1] \in Nat /\ e0[d] = Next1(d, e0[d - 1])
          BY <1>6, <4>1
        <4>. QED
          BY <1>2, <3>2, <4>1, <4>2
      <3>. QED
        BY <3>1, <3>2
    <2>. QED
      BY <2>1
  <1> DEFINE e == CHOOSE v : Solves(v)
  <1>8. Solves(e)
    BY <1>7
  <1>9. EndStock(s, q, day) = e
    BY DEF EndStock
  <1> HIDE DEF e
  <1>10. e[0] = s.onHand /\ DOMAIN e = 0 .. n
    BY <1>1, <1>8
  <1>11. ASSUME NEW d \in 1 .. n, e[d - 1] \in Nat
         PROVE  e[d] = Next1(d, e[d - 1]) /\ e[d] \in Nat
    <2>1. d \in 0 .. n /\ d # 0
      OBVIOUS
    <2>2. e[d] = NonNegative(e[d - 1] + s.arrivals[d] + (IF d = day THEN q ELSE 0)
                               - s.demand[d])
      BY <1>8, <2>1
    <2> HIDE DEF Next1
    <2>. QED
      BY <1>2, <1>11, <2>2
  <1>12. \A d \in 0 .. n : e[d] \in Nat
    <2> DEFINE G == {d \in 0 .. n : e[d] \in Nat}
    <2>1. 0 \in G
      BY <1>1, <1>10
    <2>2. ASSUME NEW d \in 1 .. n, d - 1 \in G PROVE d \in G
      BY <1>1, <1>11, <2>2
    <2>3. 0 .. n \subseteq G
      <3> HIDE DEF G
      <3>. QED
        BY <1>1, <2>1, <2>2, CountingUp
    <2>. QED
      BY <2>3
  <1>13. e \in [0 .. n -> Nat]
    BY <1>8, <1>12
  <1>14. ASSUME NEW d \in 1 .. n PROVE e[d] = Next1(d, e[d - 1])
    BY <1>1, <1>11, <1>12
  <1>. QED
    BY <1>9, <1>10, <1>13, <1>14 DEF IsStock

\* What a day has is sold or left, and what is asked for is sold or lost.
DayIs(s, q, day, d) ==
    LET e == EndStock(s, q, day)
        c == Coming(s, q, day, d)
    IN  /\ e[d - 1] \in Nat /\ e[d] \in Nat /\ c \in Nat /\ s.demand[d] \in Nat
        /\ Served(s, q, day, d) \in Nat /\ LostOn(s, q, day, d) \in Nat
        /\ s.demand[d] = Served(s, q, day, d) + LostOn(s, q, day, d)
        /\ e[d - 1] + c = Served(s, q, day, d) + e[d]

LEMMA DayAddsUp ==
  ASSUME NEW s, IsRecoveryInput(s), NEW q \in Nat, NEW day \in Nat, NEW d \in 1 .. s.days
  PROVE  DayIs(s, q, day, d)
  <1> DEFINE c == Coming(s, q, day, d)
             e == EndStock(s, q, day)
  <1>1. s.days \in Nat /\ s.demand[d] \in Nat /\ s.arrivals[d] \in Nat
    BY DEF IsRecoveryInput, Upto
  <1>2. IsStock(e, s, q, day)
    BY StockIsFollowed
  <1>3. c \in Nat
    BY <1>1 DEF Coming
  <1>4. e[d - 1] \in Nat /\ e[d] \in Nat
    <2>1. e \in [0 .. s.days -> Nat] /\ d - 1 \in 0 .. s.days /\ d \in 0 .. s.days
      BY <1>1, <1>2 DEF IsStock
    <2>. QED
      BY <2>1
  <1>5. e[d] = NonNegative(e[d - 1] + c - s.demand[d])
    BY <1>2 DEF IsStock
  <1>6. Available(s, q, day, d) = e[d - 1] + c
    BY <1>1, <1>4 DEF Available, Coming
  <1>7. Served(s, q, day, d) = Lesser(e[d - 1] + c, s.demand[d])
    BY <1>6 DEF Served
  <1>8. LostOn(s, q, day, d) = s.demand[d] - Served(s, q, day, d)
    BY DEF LostOn
  <1> HIDE DEF c, e
  <1>9. Served(s, q, day, d) \in Nat /\ Served(s, q, day, d) <= s.demand[d]
    BY <1>1, <1>3, <1>4, <1>7 DEF Lesser
  <1>10. e[d - 1] + c = Served(s, q, day, d) + e[d]
    BY <1>1, <1>3, <1>4, <1>5, <1>7 DEF Lesser, NonNegative
  <1>. QED
    BY <1>1, <1>3, <1>4, <1>8, <1>9, <1>10 DEF c, e, DayIs

\* A sum of two numbers a day is two sums.
LEMMA SumOfParts ==
  ASSUME NEW n \in Nat, NEW f, NEW g, NEW h, AreParts(f, g, h, n)
  PROVE  /\ SumTo(f, n) = SumTo(g, n) + SumTo(h, n)
         /\ SumTo(g, n) \in Int /\ SumTo(h, n) \in Int
  <1>0. AreInts(f, n) /\ AreInts(g, n) /\ AreInts(h, n)
    BY DEF AreInts, AreParts
  <1>1. PICK u : Accumulates(u, f, n) /\ SumTo(f, n) = u[n]
    BY <1>0, SumsAreReached
  <1>2. PICK v : Accumulates(v, g, n) /\ SumTo(g, n) = v[n]
    BY <1>0, SumsAreReached
  <1>3. PICK w : Accumulates(w, h, n) /\ SumTo(h, n) = w[n]
    BY <1>0, SumsAreReached
  <1> DEFINE G == {d \in 0 .. n : u[d] = v[d] + w[d]}
  <1>4. \A d \in 0 .. n : u[d] \in Int /\ v[d] \in Int /\ w[d] \in Int
    BY <1>1, <1>2, <1>3 DEF Accumulates
  <1>5. 0 \in G
    BY <1>1, <1>2, <1>3 DEF Accumulates
  <1>6. ASSUME NEW i \in 1 .. n, i - 1 \in G PROVE i \in G
    <2>1. u[i] = u[i - 1] + f[i] /\ v[i] = v[i - 1] + g[i] /\ w[i] = w[i - 1] + h[i]
      BY <1>1, <1>2, <1>3 DEF Accumulates
    <2>2. i - 1 \in 0 .. n
      OBVIOUS
    <2>3. u[i - 1] = v[i - 1] + w[i - 1] /\ v[i - 1] \in Int /\ w[i - 1] \in Int
      BY <1>4, <1>6, <2>2
    <2>4. f[i] = g[i] + h[i] /\ g[i] \in Int /\ h[i] \in Int
      BY DEF AreParts
    <2>. QED
      BY <2>1, <2>3, <2>4
  <1>7. 0 .. n \subseteq G
    <2> HIDE DEF G
    <2>. QED
      BY <1>5, <1>6, CountingUp
  <1>. QED
    BY <1>1, <1>2, <1>3, <1>4, <1>7

\* What of a purchase arrives within the days.
InTime(s, q, day) == IF day \in Upto(s.days) THEN q ELSE 0

\* No unit is lost or made up: what was there, what arrived and what was bought
\* was sold or is left, and what was asked for was sold or is lost
\* (solver.py trajectory).
THEOREM StockIsConserved ==
  ASSUME NEW s, IsRecoveryInput(s), NEW q \in Nat, NEW day \in Nat
  PROVE  LET sold == SumTo([d \in Upto(s.days) |-> Served(s, q, day, d)], s.days)
         IN  /\ s.onHand + SumTo(s.arrivals, s.days) + InTime(s, q, day)
                   = sold + EndStock(s, q, day)[s.days]
             /\ SumTo(s.demand, s.days) = sold + Lost(s, q, day)
  <1> DEFINE n == s.days
             served == [d \in Upto(n) |-> Served(s, q, day, d)]
             lost == [d \in Upto(n) |-> LostOn(s, q, day, d)]
             e == EndStock(s, q, day)
  <1>1. /\ n \in Nat /\ s.onHand \in Nat
        /\ \A d \in 1 .. n : s.demand[d] \in Nat /\ s.arrivals[d] \in Nat
    BY DEF IsRecoveryInput, Upto
  <1>2. ASSUME NEW d \in 1 .. n
        PROVE  /\ e[d - 1] \in Nat /\ e[d] \in Nat
               /\ served[d] \in Nat /\ lost[d] \in Nat /\ s.demand[d] = served[d] + lost[d]
               /\ e[d - 1] + Coming(s, q, day, d) = served[d] + e[d]
    <2>1. served[d] = Served(s, q, day, d) /\ lost[d] = LostOn(s, q, day, d)
      BY DEF Upto
    <2> HIDE DEF served, lost
    <2>2. DayIs(s, q, day, d)
      BY DayAddsUp
    <2>. QED
      BY <2>1, <2>2 DEF DayIs
  <1>3. Lost(s, q, day) = SumTo(lost, n)
    BY DEF Lost
  <1>4. e[0] = s.onHand
    BY StockIsFollowed DEF IsStock
  <1> HIDE DEF served, lost, e
  <1>5. SumTo(s.demand, n) = SumTo(served, n) + SumTo(lost, n)
    <2>1. AreParts(s.demand, served, lost, n)
      BY <1>2 DEF AreParts
    <2> HIDE DEF n
    <2>. QED
      BY <1>1, <2>1, SumOfParts
  <1>6. PICK v : Accumulates(v, s.arrivals, n) /\ SumTo(s.arrivals, n) = v[n]
    <2>1. AreInts(s.arrivals, n)
      BY <1>1 DEF AreInts
    <2>. QED
      BY <1>1, <2>1, SumsAreReached
  <1>7. PICK w : Accumulates(w, served, n) /\ SumTo(served, n) = w[n]
    <2>1. AreInts(served, n)
      BY <1>2 DEF AreInts
    <2>. QED
      BY <1>1, <2>1, SumsAreReached
  <1> DEFINE in(k) == IF day \in 1 .. k THEN q ELSE 0
             G == {k \in 0 .. n : s.onHand + v[k] + in(k) = w[k] + e[k]}
  <1>8. 0 \in G
    <2>1. v[0] = 0 /\ w[0] = 0 /\ in(0) = 0
      BY <1>6, <1>7 DEF Accumulates
    <2>. QED
      BY <1>1, <1>4, <2>1
  <1>9. ASSUME NEW i \in 1 .. n, i - 1 \in G PROVE i \in G
    <2>1. /\ v[i] = v[i - 1] + s.arrivals[i] /\ v[i - 1] \in Int
          /\ w[i] = w[i - 1] + served[i] /\ w[i - 1] \in Int
      <3>1. i - 1 \in 0 .. n
        BY <1>1
      <3>. QED
        BY <1>6, <1>7, <3>1 DEF Accumulates
    <2>2. s.onHand + v[i - 1] + in(i - 1) = w[i - 1] + e[i - 1]
      BY <1>9
    <2>3. /\ e[i - 1] + Coming(s, q, day, i) = served[i] + e[i]
          /\ e[i - 1] \in Nat /\ e[i] \in Nat /\ served[i] \in Nat
      BY <1>2
    <2>4. Coming(s, q, day, i) = s.arrivals[i] + (IF i = day THEN q ELSE 0)
      BY DEF Coming
    <2>5. in(i) = in(i - 1) + (IF i = day THEN q ELSE 0) /\ in(i - 1) \in Nat
      BY <1>1
    <2>6. s.arrivals[i] \in Nat /\ (IF i = day THEN q ELSE 0) \in Nat
      BY <1>1
    <2> HIDE DEF in
    <2>7. s.onHand + v[i] + in(i) = w[i] + e[i]
      BY <1>1, <2>1, <2>2, <2>3, <2>4, <2>5, <2>6
    <2>. QED
      BY <2>7
  <1>10. 0 .. n \subseteq G
    <2> HIDE DEF G, n
    <2>. QED
      BY <1>1, <1>8, <1>9, CountingUp
  <1>11. s.onHand + v[n] + in(n) = w[n] + e[n]
    BY <1>1, <1>10
  <1>. QED
    BY <1>3, <1>5, <1>6, <1>7, <1>11 DEF InTime, Upto, served, e

LEMMA SumIsNat ==
  ASSUME NEW n \in Nat, NEW f, AreNats(f, n)
  PROVE  SumTo(f, n) \in Nat
  <1> USE DEF AreNats
  <1>1. PICK u : Accumulates(u, f, n) /\ SumTo(f, n) = u[n]
    <2>1. AreInts(f, n)
      BY DEF AreInts
    <2>. QED
      BY <2>1, SumsAreReached
  <1> DEFINE G == {d \in 0 .. n : u[d] \in Nat}
  <1>2. 0 \in G
    BY <1>1 DEF Accumulates
  <1>3. ASSUME NEW i \in 1 .. n, i - 1 \in G PROVE i \in G
    <2>1. u[i] = u[i - 1] + f[i] /\ u[i - 1] \in Nat
      BY <1>1, <1>3 DEF Accumulates
    <2>. QED
      BY <2>1
  <1>4. 0 .. n \subseteq G
    <2> HIDE DEF G
    <2>. QED
      BY <1>2, <1>3, CountingUp
  <1>. QED
    BY <1>1, <1>4

LEMMA LossIsNat ==
  ASSUME NEW s, IsRecoveryInput(s), NEW q \in Nat, NEW day \in Nat
  PROVE  /\ Lost(s, q, day) \in Nat /\ EndStock(s, q, day)[s.days] \in Nat
         /\ s.days \in Nat
  <1> DEFINE lost == [d \in Upto(s.days) |-> LostOn(s, q, day, d)]
  <1>1. s.days \in Nat /\ s.days \in 1 .. s.days
    BY DEF IsRecoveryInput
  <1>2. AreNats(lost, s.days)
    <2>1. ASSUME NEW d \in 1 .. s.days PROVE lost[d] \in Nat
      BY DayAddsUp DEF DayIs, Upto
    <2>. QED
      BY <2>1 DEF AreNats
  <1>3. EndStock(s, q, day)[s.days] \in Nat
    BY <1>1, DayAddsUp DEF DayIs
  <1> HIDE DEF lost
  <1>4. SumTo(lost, s.days) \in Nat
    BY <1>1, <1>2, SumIsNat
  <1>. QED
    BY <1>1, <1>3, <1>4 DEF Lost, lost

\* What is lost is what was asked for and was not there.
LEMMA LossIsWhatLacks ==
  ASSUME NEW s, IsRecoveryInput(s)
  PROVE  \E lack \in Int : \A q, day \in Nat :
            Lost(s, q, day) = lack - InTime(s, q, day) + EndStock(s, q, day)[s.days]
  <1> DEFINE asked == SumTo(s.demand, s.days)
             due == SumTo(s.arrivals, s.days)
  <1>1. /\ s.days \in Nat /\ s.onHand \in Nat
        /\ AreNats(s.demand, s.days) /\ AreNats(s.arrivals, s.days)
    BY DEF IsRecoveryInput, Upto, AreNats
  <1>2. asked \in Nat /\ due \in Nat
    BY <1>1, SumIsNat
  <1>3. ASSUME NEW q \in Nat, NEW day \in Nat
        PROVE  Lost(s, q, day) = (asked - due - s.onHand) - InTime(s, q, day)
                                   + EndStock(s, q, day)[s.days]
    <2> DEFINE sold == SumTo([d \in Upto(s.days) |-> Served(s, q, day, d)], s.days)
               lost == Lost(s, q, day)
               left == EndStock(s, q, day)[s.days]
               came == InTime(s, q, day)
               start == s.onHand
    <2>1. start + due + came = sold + left /\ asked = sold + lost
      BY StockIsConserved
    <2>2. lost \in Nat /\ left \in Nat
      BY LossIsNat
    <2>3. came \in Nat /\ start \in Nat
      BY <1>1 DEF InTime
    <2>4. sold \in Nat
      <3> DEFINE served == [d \in Upto(s.days) |-> Served(s, q, day, d)]
      <3>1. AreNats(served, s.days)
        <4>1. ASSUME NEW d \in 1 .. s.days PROVE served[d] \in Nat
          BY DayAddsUp DEF DayIs, Upto
        <4>. QED
          BY <4>1 DEF AreNats
      <3> HIDE DEF served
      <3>2. SumTo(served, s.days) \in Nat
        BY <1>1, <3>1, SumIsNat
      <3>. QED
        BY <3>2 DEF served
    <2> HIDE DEF asked, due, sold, lost, left, came, start
    <2>5. lost = (asked - due - start) - came + left
      BY <1>2, <2>1, <2>2, <2>3, <2>4
    <2>. QED
      BY <2>5 DEF lost, left, came, start
  <1>4. asked - due - s.onHand \in Int
    BY <1>1, <1>2
  <1>. QED
    BY <1>3, <1>4

\* Buying more, or the same earlier, never loses more sales; not buying at all
\* loses the most.
THEOREM MoreOrEarlierLosesNoMore ==
  ASSUME NEW s, IsRecoveryInput(s), NEW q \in Nat, NEW late \in Nat,
         NEW r \in Nat, NEW day \in Nat \ {0}, q = 0 \/ (q <= r /\ day <= late)
  PROVE  Lost(s, r, day) <= Lost(s, q, late)
  <1> DEFINE n == s.days
             a == EndStock(s, r, day)
             b == EndStock(s, q, late)
             came(m, x, k) == IF x \in 1 .. k THEN m ELSE 0
             G == {k \in 0 .. n : a[k] - b[k] <= came(r, day, k) - came(q, late, k)}
  <1>1. /\ n \in Nat /\ s.onHand \in Nat
        /\ \A d \in 1 .. n : s.demand[d] \in Nat /\ s.arrivals[d] \in Nat
    BY DEF IsRecoveryInput, Upto
  <1>2. IsStock(a, s, r, day) /\ IsStock(b, s, q, late)
    BY StockIsFollowed
  <1>3. 0 \in G
    BY <1>1, <1>2 DEF IsStock
  <1>4. ASSUME NEW i \in 1 .. n, i - 1 \in G PROVE i \in G
    <2> DEFINE c == Coming(s, r, day, i)
               d == Coming(s, q, late, i)
               x == came(r, day, i)
               y == came(q, late, i)
               w == s.demand[i]
    <2>1. /\ a[i - 1] \in Nat /\ b[i - 1] \in Nat
          /\ a[i] = NonNegative(a[i - 1] + c - w) /\ b[i] = NonNegative(b[i - 1] + d - w)
      <3>1. i - 1 \in 0 .. n
        BY <1>1
      <3>. QED
        BY <1>2, <3>1 DEF IsStock
    <2>2. c \in Nat /\ d \in Nat /\ w \in Nat /\ x \in Nat /\ y \in Nat
      BY <1>1 DEF Coming
    <2>3. y <= x
      BY <1>1
    <2>4. a[i - 1] - b[i - 1] <= (x - y) - (c - d)
      <3>1. a[i - 1] - b[i - 1] <= came(r, day, i - 1) - came(q, late, i - 1)
        BY <1>4
      <3>2. came(r, day, i - 1) = x - (IF i = day THEN r ELSE 0)
        BY <1>1
      <3>3. came(q, late, i - 1) = y - (IF i = late THEN q ELSE 0)
        BY <1>1
      <3>4. c - d = (IF i = day THEN r ELSE 0) - (IF i = late THEN q ELSE 0)
        BY <1>1 DEF Coming
      <3> HIDE DEF c, d, x, y, a, b
      <3>. QED
        BY <2>1, <2>2, <3>1, <3>2, <3>3, <3>4
    <2> HIDE DEF a, b, c, d, x, y, w
    <2>5. a[i] - b[i] <= x - y
      BY <2>1, <2>2, <2>3, <2>4 DEF NonNegative
    <2>. QED
      BY <2>5 DEF x, y
  <1>5. 0 .. n \subseteq G
    <2> HIDE DEF G, n
    <2>. QED
      BY <1>1, <1>3, <1>4, CountingUp
  <1>6. a[n] - b[n] <= came(r, day, n) - came(q, late, n)
    BY <1>1, <1>5
  <1>7. came(r, day, n) = InTime(s, r, day) /\ came(q, late, n) = InTime(s, q, late)
    BY DEF InTime, Upto
  <1>8. PICK lack \in Int : \A m, x \in Nat :
           Lost(s, m, x) = lack - InTime(s, m, x) + EndStock(s, m, x)[n]
    BY LossIsWhatLacks
  <1>9. Lost(s, r, day) = lack - InTime(s, r, day) + a[n]
    BY <1>8
  <1>10. Lost(s, q, late) = lack - InTime(s, q, late) + b[n]
    BY <1>8
  <1>11. a[n] \in Nat /\ b[n] \in Nat
    BY LossIsNat
  <1>12. InTime(s, r, day) \in Nat /\ InTime(s, q, late) \in Nat
    BY DEF InTime
  <1> HIDE DEF a, b, n, came
  <1>. QED
    BY <1>6, <1>7, <1>9, <1>10, <1>11, <1>12

-----------------------------------------------------------------------------
(* The recommended candidate *)

\* Of numbers there is a least.
LEMMA LeastExists ==
  ASSUME NEW C, C # {}, NEW key, \A c \in C : key[c] \in Nat
  PROVE  \E c \in C : \A d \in C : key[c] <= key[d]
  <1> DEFINE R == OpToRel(<, Nat)
             K == {key[c] : c \in C}
  <1>1. \A x, y \in Nat : x < y => <<x, y>> \in R
    BY DEF OpToRel
  <1>2. IsWellFoundedOn(R, Nat)
    BY NatLessThanWellFounded, Zenon
  <1>3. K \subseteq Nat /\ K # {}
    OBVIOUS
  <1> HIDE DEF R, K
  <1>4. PICK m \in K : \A k \in K : ~ (<<k, m>> \in R)
    BY <1>2, <1>3, WFMin, Zenon
  <1>5. PICK c \in C : m = key[c]
    BY DEF K
  <1>6. ASSUME NEW d \in C PROVE key[c] <= key[d]
    <2>1. key[d] \in K /\ key[d] \in Nat /\ m \in Nat
      BY <1>3 DEF K
    <2>2. ~ (key[d] < m)
      BY <1>1, <1>4, <2>1
    <2>. QED
      BY <1>5, <2>1, <2>2
  <1>. QED
    BY <1>6

\* The least by one key, then by the next.
LeastOf(C, key) == {c \in C : \A d \in C : key[c] <= key[d]}

LEMMA SomeAreLeast ==
  ASSUME NEW C, C # {}, NEW key, \A c \in C : key[c] \in Nat
  PROVE  LeastOf(C, key) # {} /\ LeastOf(C, key) \subseteq C
  BY LeastExists DEF LeastOf

LEMMA FirstKeysDecide ==
  ASSUME NEW a, NEW b, DOMAIN a = 1 .. 5
  PROVE  Precedes(a, b) <=>
            \/ a[1] < b[1]
            \/ a[1] = b[1] /\ a[2] < b[2]
            \/ a[1] = b[1] /\ a[2] = b[2] /\ a[3] < b[3]
            \/ a[1] = b[1] /\ a[2] = b[2] /\ a[3] = b[3] /\ a[4] < b[4]
            \/ a[1] = b[1] /\ a[2] = b[2] /\ a[3] = b[3] /\ a[4] = b[4] /\ a[5] < b[5]
  <1>1. Precedes(a, b) <=> \E i \in 1 .. 5 : a[i] < b[i] /\ \A j \in 1 .. i - 1 : a[j] = b[j]
    BY DEF Precedes
  <1>2. 1 .. 5 = {1, 2, 3, 4, 5}
    OBVIOUS
  <1>3. /\ 1 .. 1 - 1 = {} /\ 1 .. 2 - 1 = {1} /\ 1 .. 3 - 1 = {1, 2}
        /\ 1 .. 4 - 1 = {1, 2, 3} /\ 1 .. 5 - 1 = {1, 2, 3, 4}
    OBVIOUS
  <1>. QED
    BY <1>1, <1>2, <1>3

AreOffers(offers) ==
    DOMAIN offers \subseteq Nat \ {0} /\ \A k \in DOMAIN offers : IsRecoveryOffer(offers[k])

\* What is bought is bought whole.
LEMMA BoughtIsNat ==
  ASSUME NEW o, IsRecoveryOffer(o), NEW s, NEW q \in Quantities(s, o), InPacks(q, o),
         Count(s, o) \in Int
  PROVE  q \in Nat
  <1>1. o.minimum \in Nat \ {0} /\ o.pack \in Nat \ {0}
    BY DEF IsRecoveryOffer
  <1>2. (o.minimum + o.pack - 1) \div o.pack \in Int
    BY <1>1
  <1>3. Smallest(o) \in Int
    BY <1>1, <1>2 DEF Smallest
  <1>4. q \in Int
    BY <1>1, <1>3 DEF Quantities
  <1>. QED
    BY <1>1, <1>4 DEF InPacks

LEMMA CountIsInt ==
  ASSUME NEW s, IsRecoveryInput(s), NEW o, IsRecoveryOffer(o)
  PROVE  Count(s, o) \in Int
  <1>1. o.pack \in Nat \ {0} /\ Largest(s, o) \in Int /\ Smallest(o) \in Int
    BY Amounts
  <1>2. (Largest(s, o) - Smallest(o)) \div o.pack \in Int
    BY <1>1
  <1>. QED
    BY <1>2 DEF Count, NonNegative

\* Unless it refuses the search for its size, the solver misses nothing: whatever
\* could be bought from any supplier is a candidate (solver.py 121-137).
THEOREM NothingBuyableIsMissed ==
  ASSUME NEW s, IsRecoveryInput(s), NEW offers, AreOffers(offers), ~ Refused(s, offers),
         NEW k \in DOMAIN offers, NEW q \in Nat, Buyable(s, q, offers[k])
  PROVE  [supplier |-> k, quantity |-> q] \in FeasibleCandidates(s, offers)
  <1>1. q \in Quantities(s, offers[k])
    BY BuyableIsTried DEF AreOffers
  <1>. QED
    BY <1>1 DEF FeasibleCandidates

\* A candidate is waiting, or a purchase from one of the suppliers.
LEMMA CandidatesAre ==
  ASSUME NEW s, IsRecoveryInput(s), NEW offers, AreOffers(offers),
         NEW c \in FeasibleCandidates(s, offers)
  PROVE  \/ c = Wait /\ MayWait(s)
         \/ /\ c.supplier \in DOMAIN offers /\ c.quantity \in Nat
            /\ c = [supplier |-> c.supplier, quantity |-> c.quantity] /\ c # Wait
            /\ Buyable(s, c.quantity, offers[c.supplier])
  <1>1. CASE c \in {w \in {Wait} : MayWait(s)}
    BY <1>1
  <1>2. ASSUME NEW k \in DOMAIN offers, NEW q \in Quantities(s, offers[k]),
               Buyable(s, q, offers[k]), c = [supplier |-> k, quantity |-> q]
        PROVE  /\ c.supplier \in DOMAIN offers /\ c.quantity \in Nat
               /\ c = [supplier |-> c.supplier, quantity |-> c.quantity] /\ c # Wait
               /\ Buyable(s, c.quantity, offers[c.supplier])
    <2>1. c.supplier = k /\ c.quantity = q
      BY <1>2
    <2>2. IsRecoveryOffer(offers[k]) /\ k # 0
      BY DEF AreOffers
    <2>3. c # Wait
      <3>1. Wait.supplier = 0
        BY DEF Wait
      <3>. QED
        BY <2>1, <2>2, <3>1
    <2>4. q \in Nat
      BY <1>2, <2>2, BoughtIsNat, CountIsInt DEF Buyable
    <2>. QED
      BY <1>2, <2>1, <2>3, <2>4
  <1>. QED
    BY <1>1, <1>2 DEF FeasibleCandidates

\* The ranking of a candidate: what it loses, costs and leaves, and who it is.
LEMMA RankingIs ==
  ASSUME NEW s, IsRecoveryInput(s), NEW offers, AreOffers(offers),
         NEW c \in FeasibleCandidates(s, offers)
  PROVE  LET r == Ranking(s, offers, c)
         IN  /\ r[1] \in Nat /\ r[2] \in Nat /\ r[3] \in Nat
             /\ r[4] = c.supplier /\ r[4] \in Nat /\ r[5] = c.quantity /\ r[5] \in Nat
             /\ r = <<r[1], r[2], r[3], r[4], r[5]>>
  <1> DEFINE o == offers[c.supplier]
             day == IF c = Wait THEN 0 ELSE o.arrives
             cost == IF c = Wait THEN 0 ELSE c.quantity * o.price
             lost == Lost(s, c.quantity, day)
             left == EndStock(s, c.quantity, day)[s.days]
             r == Ranking(s, offers, c)
  <1>1. r = <<lost, cost, left, c.supplier, c.quantity>>
    BY DEF Ranking
  <1>2. c.supplier \in Nat /\ c.quantity \in Nat /\ cost \in Nat /\ day \in Nat
    <2>1. CASE c = Wait
      BY <2>1 DEF Wait
    <2>2. CASE c # Wait
      <3>1. c.supplier \in DOMAIN offers /\ c.quantity \in Nat
        BY <2>2, CandidatesAre
      <3>2. o.price \in Nat /\ o.arrives \in Nat
        BY <3>1 DEF AreOffers, IsRecoveryOffer
      <3>3. c.quantity * o.price \in Nat
        BY <3>1, <3>2
      <3>. QED
        BY <2>2, <3>1, <3>2, <3>3 DEF AreOffers
    <2>. QED
      BY <2>1, <2>2
  <1> HIDE DEF day, cost
  <1>3. lost \in Nat /\ left \in Nat
    BY <1>2, LossIsNat
  <1> HIDE DEF lost, left, r
  <1>4. /\ r[1] = lost /\ r[2] = cost /\ r[3] = left
        /\ r[4] = c.supplier /\ r[5] = c.quantity
    BY <1>1
  <1>. QED
    BY <1>1, <1>2, <1>3, <1>4 DEF r

Before(s, offers, c, d) == Precedes(Ranking(s, offers, c), Ranking(s, offers, d))

LEMMA ComparedByKeys ==
  ASSUME NEW s, IsRecoveryInput(s), NEW offers, AreOffers(offers),
         NEW c \in FeasibleCandidates(s, offers), NEW d \in FeasibleCandidates(s, offers)
  PROVE  LET a == Ranking(s, offers, c)
             b == Ranking(s, offers, d)
         IN  /\ Before(s, offers, c, d) <=>
                   \/ a[1] < b[1]
                   \/ a[1] = b[1] /\ a[2] < b[2]
                   \/ a[1] = b[1] /\ a[2] = b[2] /\ a[3] < b[3]
                   \/ a[1] = b[1] /\ a[2] = b[2] /\ a[3] = b[3] /\ a[4] < b[4]
                   \/ a[1] = b[1] /\ a[2] = b[2] /\ a[3] = b[3] /\ a[4] = b[4] /\ a[5] < b[5]
             /\ a[4] = b[4] /\ a[5] = b[5] => c = d
  <1> DEFINE a == Ranking(s, offers, c)
             b == Ranking(s, offers, d)
  <1>1. /\ a[1] \in Nat /\ a[2] \in Nat /\ a[3] \in Nat /\ a[4] \in Nat /\ a[5] \in Nat
        /\ a = <<a[1], a[2], a[3], a[4], a[5]>> /\ a[4] = c.supplier /\ a[5] = c.quantity
    BY RankingIs
  <1>2. /\ b[1] \in Nat /\ b[2] \in Nat /\ b[3] \in Nat /\ b[4] \in Nat /\ b[5] \in Nat
        /\ b = <<b[1], b[2], b[3], b[4], b[5]>> /\ b[4] = d.supplier /\ b[5] = d.quantity
    BY RankingIs
  <1>3. /\ c = [supplier |-> c.supplier, quantity |-> c.quantity]
        /\ d = [supplier |-> d.supplier, quantity |-> d.quantity]
    BY CandidatesAre DEF Wait
  <1>4. a[4] = b[4] /\ a[5] = b[5] => c = d
    BY <1>1, <1>2, <1>3
  <1>5. Before(s, offers, c, d) <=> Precedes(a, b)
    BY DEF Before
  <1> HIDE DEF a, b
  <1>6. DOMAIN a = 1 .. 5
    <2>1. DOMAIN <<a[1], a[2], a[3], a[4], a[5]>> = 1 .. 5
      OBVIOUS
    <2>. QED
      BY <1>1, <2>1, Zenon
  <1>7. Precedes(a, b) <=>
           \/ a[1] < b[1]
           \/ a[1] = b[1] /\ a[2] < b[2]
           \/ a[1] = b[1] /\ a[2] = b[2] /\ a[3] < b[3]
           \/ a[1] = b[1] /\ a[2] = b[2] /\ a[3] = b[3] /\ a[4] < b[4]
           \/ a[1] = b[1] /\ a[2] = b[2] /\ a[3] = b[3] /\ a[4] = b[4] /\ a[5] < b[5]
    BY <1>6, FirstKeysDecide
  <1>. QED
    BY <1>4, <1>5, <1>7 DEF a, b

\* The planner recommends one candidate while the floor is kept and no offer has
\* more than a hundred quantities, and none otherwise; nothing that may be bought,
\* enumerated or not, from any supplier, loses fewer sales than the recommended
\* one, or as few for less money (solver.py solve).
THEOREM RecommendationIsBest ==
  ASSUME NEW s, IsRecoveryInput(s), NEW offers, AreOffers(offers)
  PROVE  /\ ~ MayWait(s) \/ Refused(s, offers) => RecommendedCandidate(s, offers) = {}
         /\ MayWait(s) /\ ~ Refused(s, offers)
               => \E c : RecommendedCandidate(s, offers) = {c}
         /\ \A c \in RecommendedCandidate(s, offers), k \in DOMAIN offers, q \in Nat :
               Buyable(s, q, offers[k]) =>
                 LET lost == Lost(s, q, offers[k].arrives)
                     r    == Ranking(s, offers, c)
                 IN  r[1] < lost \/ (r[1] = lost /\ r[2] <= q * offers[k].price)
  <1> DEFINE C == FeasibleCandidates(s, offers)
             Best == RecommendedCandidate(s, offers)
             key(i) == [c \in C |-> Ranking(s, offers, c)[i]]
             C1 == LeastOf(C, key(1))
             C2 == LeastOf(C1, key(2))
             C3 == LeastOf(C2, key(3))
             C4 == LeastOf(C3, key(4))
             C5 == LeastOf(C4, key(5))
  <1>1. ASSUME NEW c \in C
        PROVE  /\ key(1)[c] \in Nat /\ key(2)[c] \in Nat /\ key(3)[c] \in Nat
               /\ key(4)[c] \in Nat /\ key(5)[c] \in Nat
    BY RankingIs
  <1>2. Best = {c \in C : \A d \in C : c = d \/ Before(s, offers, c, d)}
    BY DEF RecommendedCandidate, Before
  <1>3. ASSUME NEW c \in C, NEW d \in C
        PROVE  /\ Before(s, offers, c, d) <=>
                     \/ key(1)[c] < key(1)[d]
                     \/ key(1)[c] = key(1)[d] /\ key(2)[c] < key(2)[d]
                     \/ /\ key(1)[c] = key(1)[d] /\ key(2)[c] = key(2)[d]
                        /\ key(3)[c] < key(3)[d]
                     \/ /\ key(1)[c] = key(1)[d] /\ key(2)[c] = key(2)[d]
                        /\ key(3)[c] = key(3)[d] /\ key(4)[c] < key(4)[d]
                     \/ /\ key(1)[c] = key(1)[d] /\ key(2)[c] = key(2)[d]
                        /\ key(3)[c] = key(3)[d] /\ key(4)[c] = key(4)[d]
                        /\ key(5)[c] < key(5)[d]
               /\ key(4)[c] = key(4)[d] /\ key(5)[c] = key(5)[d] => c = d
    BY ComparedByKeys
  <1>4. ASSUME NEW c \in C, NEW d \in C, Before(s, offers, c, d) PROVE ~ Before(s, offers, d, c)
    <2> HIDE DEF key
    <2>. QED
      BY <1>1, <1>3, <1>4
  <1>5. ASSUME NEW c \in Best, NEW d \in Best PROVE c = d
    BY <1>2, <1>4
  <1>6. ASSUME C # {} PROVE Best # {}
    <2> HIDE DEF key, C
    <2>1. C1 # {} /\ C1 \subseteq C
      BY <1>1, <1>6, SomeAreLeast
    <2>2. C2 # {} /\ C2 \subseteq C1
      <3> HIDE DEF C1
      <3>. QED
        BY <1>1, <2>1, SomeAreLeast
    <2>3. C3 # {} /\ C3 \subseteq C2
      <3> HIDE DEF C2
      <3>. QED
        BY <1>1, <2>1, <2>2, SomeAreLeast
    <2>4. C4 # {} /\ C4 \subseteq C3
      <3> HIDE DEF C3
      <3>. QED
        BY <1>1, <2>1, <2>2, <2>3, SomeAreLeast
    <2>5. C5 # {} /\ C5 \subseteq C4
      <3> HIDE DEF C4
      <3>. QED
        BY <1>1, <2>1, <2>2, <2>3, <2>4, SomeAreLeast
    <2> HIDE DEF C1, C2, C3, C4, C5
    <2>6. PICK c \in C5 : TRUE
      BY <2>5
    <2>7. c \in C1 /\ c \in C2 /\ c \in C3 /\ c \in C4 /\ c \in C
      BY <2>1, <2>2, <2>3, <2>4, <2>5
    <2>8. ASSUME NEW d \in C, c # d PROVE Before(s, offers, c, d)
      <3>1. key(1)[c] <= key(1)[d] /\ (key(1)[c] = key(1)[d] => d \in C1)
        BY <2>7 DEF C1, LeastOf
      <3>2. d \in C1 => key(2)[c] <= key(2)[d] /\ (key(2)[c] = key(2)[d] => d \in C2)
        BY <2>7 DEF C2, LeastOf
      <3>3. d \in C2 => key(3)[c] <= key(3)[d] /\ (key(3)[c] = key(3)[d] => d \in C3)
        BY <2>7 DEF C3, LeastOf
      <3>4. d \in C3 => key(4)[c] <= key(4)[d] /\ (key(4)[c] = key(4)[d] => d \in C4)
        BY <2>7 DEF C4, LeastOf
      <3>5. d \in C4 => key(5)[c] <= key(5)[d]
        BY <2>6 DEF C5, LeastOf
      <3>. QED
        BY <1>1, <1>3, <2>7, <2>8, <3>1, <3>2, <3>3, <3>4, <3>5
    <2>9. c \in Best
      BY <1>2, <2>7, <2>8
    <2>. QED
      BY <2>9
  <1>7. C # {} <=> MayWait(s) /\ ~ Refused(s, offers)
    <2>1. MayWait(s) /\ ~ Refused(s, offers) => Wait \in C
      BY DEF FeasibleCandidates
    <2>2. ASSUME NEW c \in C PROVE MayWait(s) /\ ~ Refused(s, offers)
      <3>0. ~ Refused(s, offers)
        BY <2>2 DEF FeasibleCandidates
      <3>1. CASE c = Wait
        BY <3>0, <3>1, CandidatesAre
      <3>2. CASE c # Wait
        <4> DEFINE o == offers[c.supplier]
        <4>1. /\ c.supplier \in DOMAIN offers /\ c.quantity \in Nat
              /\ Buyable(s, c.quantity, o)
          BY <3>2, CandidatesAre
        <4>2. o.price \in Nat /\ s.cash \in Nat /\ s.floor \in Nat
          BY <4>1 DEF AreOffers, IsRecoveryOffer, IsRecoveryInput
        <4>3. s.cash - c.quantity * o.price >= s.floor
          BY <4>1 DEF Buyable, Payable
        <4>4. c.quantity * o.price \in Nat
          BY <4>1, <4>2
        <4>. QED
          BY <3>0, <4>2, <4>3, <4>4 DEF MayWait
      <3>. QED
        BY <3>1, <3>2
    <2>. QED
      BY <2>1, <2>2
  <1>8. Best \subseteq C
    BY <1>2
  <1>9. ASSUME NEW c \in Best, NEW k \in DOMAIN offers, NEW q \in Nat, Buyable(s, q, offers[k])
        PROVE  \/ Ranking(s, offers, c)[1] < Lost(s, q, offers[k].arrives)
               \/ /\ Ranking(s, offers, c)[1] = Lost(s, q, offers[k].arrives)
                  /\ Ranking(s, offers, c)[2] <= q * offers[k].price
    <2> DEFINE d == [supplier |-> k, quantity |-> q]
    <2>1. d \in C
      <3>1. ~ Refused(s, offers)
        BY <1>7, <1>8, <1>9
      <3>. QED
        BY <1>9, <3>1, NothingBuyableIsMissed
    <2>2. d # Wait /\ d.supplier = k /\ d.quantity = q
      BY DEF Wait, AreOffers
    <2>3. /\ Ranking(s, offers, d)[1] = Lost(s, q, offers[k].arrives)
          /\ Ranking(s, offers, d)[2] = q * offers[k].price
      BY <2>2 DEF Ranking
    <2> HIDE DEF d
    <2>4. c \in C /\ (c = d \/ Before(s, offers, c, d))
      BY <1>2, <2>1
    <2>5. /\ key(1)[c] = Ranking(s, offers, c)[1] /\ key(1)[d] = Ranking(s, offers, d)[1]
          /\ key(2)[c] = Ranking(s, offers, c)[2] /\ key(2)[d] = Ranking(s, offers, d)[2]
      BY <2>1, <2>4
    <2> HIDE DEF key, C
    <2>. QED
      BY <1>1, <1>3, <2>1, <2>3, <2>4, <2>5
  <1>. QED
    BY <1>5, <1>6, <1>7, <1>8, <1>9

-----------------------------------------------------------------------------
(* A forecast in whole units *)

\* Counting the members of X from 1 to n.
CountOf(X, k) == Cardinality(X \cap (1 .. k))

LEMMA CountGrows ==
  ASSUME NEW X, NEW i \in Nat \ {0}
  PROVE  /\ CountOf(X, i - 1) \in Nat
         /\ CountOf(X, i) = CountOf(X, i - 1) + (IF i \in X THEN 1 ELSE 0)
  <1> DEFINE Y == X \cap (1 .. i - 1)
             Z == X \cap (1 .. i)
  <1>1. IsFiniteSet(Y) /\ Cardinality(Y) \in Nat
    <2>1. IsFiniteSet(1 .. i - 1) /\ Y \in SUBSET (1 .. i - 1)
      BY FS_Interval
    <2>. QED
      BY <2>1, FS_Subset, FS_CardinalityType
  <1>2. Z = IF i \in X THEN Y \cup {i} ELSE Y
    OBVIOUS
  <1>3. i \notin Y
    OBVIOUS
  <1>4. CountOf(X, i) = Cardinality(Z) /\ CountOf(X, i - 1) = Cardinality(Y)
    BY DEF CountOf
  <1> HIDE DEF Y, Z
  <1>5. Cardinality(Y \cup {i}) = Cardinality(Y) + 1
    BY <1>1, <1>3, FS_AddElement
  <1>6. CASE i \in X
    BY <1>1, <1>2, <1>4, <1>5, <1>6
  <1>7. CASE i \notin X
    BY <1>1, <1>2, <1>4, <1>7
  <1>. QED
    BY <1>6, <1>7

LEMMA CountOfNone == \A X : CountOf(X, 0) = 0
  <1>1. ASSUME NEW X PROVE CountOf(X, 0) = 0
    <2>1. X \cap (1 .. 0) = {}
      OBVIOUS
    <2>. QED
      BY <2>1, FS_EmptySet, Zenon DEF CountOf
  <1>. QED
    BY <1>1

LEMMA CountOfAll ==
  ASSUME NEW n \in Nat, NEW X, X \subseteq 1 .. n
  PROVE  CountOf(X, n) = Cardinality(X)
  <1>1. X \cap (1 .. n) = X
    OBVIOUS
  <1>. QED
    BY <1>1, Zenon DEF CountOf

\* Giving one to each member of X gives as many as there are members.
LEMMA OnesAddUp ==
  ASSUME NEW n \in Nat, NEW X, X \subseteq 1 .. n, NEW f,
         \A d \in 1 .. n : f[d] = IF d \in X THEN 1 ELSE 0
  PROVE  SumTo(f, n) = Cardinality(X)
  <1>1. AreInts(f, n)
    BY DEF AreInts
  <1>2. PICK u : Accumulates(u, f, n) /\ SumTo(f, n) = u[n]
    BY <1>1, SumsAreReached
  <1> DEFINE G == {k \in 0 .. n : u[k] = CountOf(X, k)}
  <1>3. 0 \in G
    BY <1>2, CountOfNone DEF Accumulates
  <1>4. ASSUME NEW i \in 1 .. n, i - 1 \in G PROVE i \in G
    <2>1. u[i] = u[i - 1] + (IF i \in X THEN 1 ELSE 0)
      BY <1>2 DEF Accumulates
    <2>2. CountOf(X, i) = CountOf(X, i - 1) + (IF i \in X THEN 1 ELSE 0)
      BY CountGrows
    <2>. QED
      BY <1>4, <2>1, <2>2
  <1>5. 0 .. n \subseteq G
    <2> HIDE DEF G
    <2>. QED
      BY <1>3, <1>4, CountingUp
  <1>6. CountOf(X, n) = Cardinality(X)
    BY CountOfAll
  <1>. QED
    BY <1>2, <1>5, <1>6

\* Where no value exceeds b, the sum is at most b for each that is not 0.
LEMMA SumIsBounded ==
  ASSUME NEW n \in Nat, NEW X, X \subseteq 1 .. n, NEW b \in Nat, NEW f,
         \A d \in 1 .. n : f[d] \in 0 .. b /\ (d \notin X => f[d] = 0)
  PROVE  SumTo(f, n) <= b * Cardinality(X)
  <1>1. AreInts(f, n)
    BY DEF AreInts
  <1>2. PICK u : Accumulates(u, f, n) /\ SumTo(f, n) = u[n]
    BY <1>1, SumsAreReached
  <1> DEFINE G == {k \in 0 .. n : u[k] <= b * CountOf(X, k)}
  <1>3. 0 \in G
    BY <1>2, CountOfNone DEF Accumulates
  <1>4. ASSUME NEW i \in 1 .. n, i - 1 \in G PROVE i \in G
    <2> DEFINE a == CountOf(X, i - 1)
               c == CountOf(X, i)
    <2>1. u[i] = u[i - 1] + f[i] /\ u[i - 1] \in Int
      <3>1. i - 1 \in 0 .. n
        OBVIOUS
      <3>. QED
        BY <1>2, <3>1 DEF Accumulates
    <2>2. a \in Nat /\ c = a + (IF i \in X THEN 1 ELSE 0)
      BY CountGrows
    <2>3. u[i - 1] <= b * a
      BY <1>4
    <2>4. f[i] \in Nat /\ f[i] <= b /\ (i \notin X => f[i] = 0)
      OBVIOUS
    <2> HIDE DEF a, c
    <2>5. b * (a + 1) = b * a + b /\ b * a \in Int
      BY <2>2
    <2>6. u[i] <= b * c
      <3>1. CASE i \in X
        BY <2>1, <2>2, <2>3, <2>4, <2>5, <3>1
      <3>2. CASE i \notin X
        <4>1. c = a /\ u[i] = u[i - 1]
          BY <2>1, <2>2, <2>4, <3>2
        <4>. QED
          BY <2>3, <4>1
      <3>. QED
        BY <3>1, <3>2
    <2>. QED
      BY <2>6 DEF c
  <1>5. 0 .. n \subseteq G
    <2> HIDE DEF G
    <2>. QED
      BY <1>3, <1>4, CountingUp
  <1>6. CountOf(X, n) = Cardinality(X)
    BY CountOfAll
  <1>. QED
    BY <1>2, <1>5, <1>6

\* The sum of multiples is a multiple.
AreMultiples(f, g, b, n) ==
    \A d \in 1 .. n : g[d] \in Nat /\ f[d] \in Nat /\ f[d] = b * g[d]

LEMMA SumOfMultiples ==
  ASSUME NEW n \in Nat, NEW b \in Nat, NEW f, NEW g, AreMultiples(f, g, b, n)
  PROVE  SumTo(f, n) = b * SumTo(g, n)
  <1> USE DEF AreMultiples
  <1>1. AreInts(f, n) /\ AreInts(g, n)
    BY DEF AreInts
  <1>2. PICK u : Accumulates(u, f, n) /\ SumTo(f, n) = u[n]
    BY <1>1, SumsAreReached
  <1>3. PICK v : Accumulates(v, g, n) /\ SumTo(g, n) = v[n]
    BY <1>1, SumsAreReached
  <1> DEFINE G == {k \in 0 .. n : u[k] = b * v[k]}
  <1>4. 0 \in G
    BY <1>2, <1>3 DEF Accumulates
  <1>5. ASSUME NEW i \in 1 .. n, i - 1 \in G PROVE i \in G
    <2>1. u[i] = u[i - 1] + f[i] /\ v[i] = v[i - 1] + g[i]
      BY <1>2, <1>3 DEF Accumulates
    <2>2. v[i - 1] \in Int
      <3>1. i - 1 \in 0 .. n
        OBVIOUS
      <3>. QED
        BY <1>3, <3>1 DEF Accumulates
    <2>3. u[i - 1] = b * v[i - 1] /\ f[i] = b * g[i] /\ g[i] \in Nat
      BY <1>5
    <2>4. b * (v[i - 1] + g[i]) = b * v[i - 1] + b * g[i]
      BY <2>2, <2>3
    <2>. QED
      BY <2>1, <2>3, <2>4
  <1>6. 0 .. n \subseteq G
    <2> HIDE DEF G
    <2>. QED
      BY <1>4, <1>5, CountingUp
  <1>. QED
    BY <1>2, <1>3, <1>6

\* If no two days rank the same, as many rank below k as k says.
LEMMA RanksAreTaken ==
  ASSUME NEW n \in Nat, NEW rank \in [1 .. n -> 0 .. n - 1],
         \A d, e \in 1 .. n : rank[d] = rank[e] => d = e, NEW k \in 0 .. n
  PROVE  Cardinality({d \in 1 .. n : rank[d] < k}) = k
  <1> DEFINE T == {d \in 1 .. n : rank[d] < k}
             f == [d \in T |-> rank[d]]
  <1>1. /\ IsFiniteSet(1 .. n) /\ Cardinality(1 .. n) = n
        /\ IsFiniteSet(0 .. n - 1) /\ Cardinality(0 .. n - 1) = n
        /\ IsFiniteSet(0 .. k - 1) /\ Cardinality(0 .. k - 1) = k
    BY FS_Interval
  <1>2. rank \in Injection(1 .. n, 0 .. n - 1)
    BY DEF Injection, IsInjective
  <1>3. rank \in Surjection(1 .. n, 0 .. n - 1)
    BY <1>1, <1>2, FS_Injection
  <1>4. \A x \in 0 .. n - 1 : \E d \in 1 .. n : rank[d] = x
    BY <1>3 DEF Surjection
  <1>5. T \subseteq 1 .. n /\ IsFiniteSet(T)
    BY <1>1, FS_Subset
  <1>6. f \in [T -> 0 .. k - 1]
    <2>1. \A d \in T : rank[d] \in 0 .. k - 1
      OBVIOUS
    <2>. QED
      BY <2>1
  <1>7. f \in Surjection(T, 0 .. k - 1)
    <2>1. ASSUME NEW x \in 0 .. k - 1 PROVE \E d \in T : f[d] = x
      <3>1. x \in 0 .. n - 1 /\ x < k
        OBVIOUS
      <3>2. PICK d \in 1 .. n : rank[d] = x
        BY <1>4, <3>1
      <3>3. d \in T /\ f[d] = x
        BY <3>1, <3>2
      <3>. QED
        BY <3>3
    <2>. QED
      BY <1>6, <2>1 DEF Surjection
  <1>8. f \in Injection(T, 0 .. k - 1)
    BY <1>6 DEF Injection, IsInjective
  <1> HIDE DEF T, f
  <1>9. Cardinality(0 .. k - 1) = Cardinality(T)
    BY <1>5, <1>7, <1>8, FS_Surjection
  <1>. QED
    BY <1>1, <1>9 DEF T

\* The days are in one order: a day that comes before another ranks before it.
RankOf(v, unit, d) == Cardinality({e \in DOMAIN v : Comes(v, unit, e, d)})

LEMMA DaysRank ==
  ASSUME NEW n \in Nat, NEW v, DOMAIN v = 1 .. n, NEW unit,
         \A d \in 1 .. n : v[d] % unit \in Nat
  PROVE  /\ \A d \in 1 .. n : RankOf(v, unit, d) \in 0 .. n - 1
         /\ \A d, e \in 1 .. n : RankOf(v, unit, d) = RankOf(v, unit, e) => d = e
  <1> DEFINE before(d) == {e \in 1 .. n : Comes(v, unit, e, d)}
  <1>1. \A d \in 1 .. n : RankOf(v, unit, d) = Cardinality(before(d))
    BY DEF RankOf
  <1>2. ASSUME NEW d \in 1 .. n
        PROVE  IsFiniteSet(before(d)) /\ Cardinality(before(d)) \in 0 .. n - 1
    <2>1. /\ IsFiniteSet(1 .. n) /\ Cardinality(1 .. n) = n
      BY FS_Interval
    <2>2. before(d) \in SUBSET (1 .. n)
      OBVIOUS
    <2>3. d \notin before(d)
      BY DEF Comes
    <2> HIDE DEF before
    <2>4. IsFiniteSet(before(d)) /\ Cardinality(before(d)) <= n /\ Cardinality(before(d)) \in Nat
      BY <2>1, <2>2, FS_Subset, FS_CardinalityType
    <2>5. Cardinality(before(d)) # n
      BY <2>1, <2>2, <2>3, FS_Subset
    <2>. QED
      BY <2>4, <2>5
  <1>3. ASSUME NEW d \in 1 .. n, NEW e \in 1 .. n, Comes(v, unit, d, e)
        PROVE  RankOf(v, unit, d) # RankOf(v, unit, e)
    <2>1. ASSUME NEW c \in 1 .. n, Comes(v, unit, c, d) PROVE Comes(v, unit, c, e)
      BY <1>3, <2>1 DEF Comes
    <2>2. before(d) \in SUBSET before(e)
      BY <2>1
    <2>3. d \in before(e) /\ d \notin before(d)
      BY <1>3 DEF Comes
    <2>4. IsFiniteSet(before(e))
      BY <1>2
    <2> HIDE DEF before
    <2>5. Cardinality(before(e)) # Cardinality(before(d))
      BY <2>2, <2>3, <2>4, FS_Subset
    <2>. QED
      BY <1>1, <2>5
  <1>4. ASSUME NEW d \in 1 .. n, NEW e \in 1 .. n, d # e
        PROVE  Comes(v, unit, d, e) \/ Comes(v, unit, e, d)
    BY <1>4 DEF Comes
  <1>. QED
    BY <1>1, <1>2, <1>3, <1>4

\* Rounding up a sum of whole units and parts.
LEMMA WholeUnitsStay ==
  ASSUME NEW b \in Nat \ {0}, NEW w \in Int, NEW x \in Int
  PROVE  /\ (b * w + x + b - 1) \div b = w + (x + b - 1) \div b
         /\ (x + b - 1) \div b \in Int
  <1> DEFINE y == b * w + x
             p == (y + b - 1) \div b
             q == (x + b - 1) \div b
  <1>1. y \in Int
    OBVIOUS
  <1> HIDE DEF y
  <1>2. p \in Int /\ b * p >= y /\ q \in Int /\ b * q >= x
    BY <1>1, RoundsUp
  <1>3. b * (w + q) >= y <=> w + q >= p
    BY <1>1, <1>2, RoundsUp
  <1>4. b * (p - w) >= x <=> p - w >= q
    BY <1>1, <1>2, RoundsUp
  <1>5. b * (w + q) = b * w + b * q /\ b * (p - w) = b * p - b * w
    BY <1>2
  <1>6. p = w + q
    BY <1>1, <1>2, <1>3, <1>4, <1>5 DEF y
  <1>. QED
    BY <1>2, <1>6 DEF y

\* The days' whole units add up to the forecast, rounded up, for the checks of
\* allocate_daily() never refuse what remains; and no day is given less than its
\* own forecast rounded down, nor more than it rounded up (solver.py 15-30).
THEOREM AllocationAddsUp ==
  ASSUME NEW v \in Seq(Nat), NEW unit \in Nat \ {0}
  PROVE  /\ SumTo(AllocateDaily(v, unit), Len(v)) = RoundedUp(v, unit)
         /\ RoundedUp(v, unit) - Total(Whole(v, unit)) \in 0 .. Len(v)
         /\ \A d \in DOMAIN v :
               AllocateDaily(v, unit)[d] \in v[d] \div unit .. (v[d] + unit - 1) \div unit
  <1> DEFINE n == Len(v)
             w == Whole(v, unit)
             part == [d \in 1 .. n |-> v[d] % unit]
             times == [d \in 1 .. n |-> unit * w[d]]
             some == {d \in 1 .. n : part[d] > 0}
             rank == [d \in 1 .. n |-> RankOf(v, unit, d)]
             left == RoundedUp(v, unit) - Total(w)
             top == {d \in 1 .. n : rank[d] < left}
             extra == [d \in 1 .. n |-> IF d \in top THEN 1 ELSE 0]
             given == AllocateDaily(v, unit)
  <1>1. n \in Nat /\ DOMAIN v = 1 .. n /\ \A d \in 1 .. n : v[d] \in Nat
    OBVIOUS
  <1>2. /\ DOMAIN w = 1 .. n /\ Len(w) = n
        /\ \A d \in 1 .. n : w[d] = v[d] \div unit
    <2>1. w = [d \in 1 .. n |-> v[d] \div unit]
      BY <1>1 DEF Whole
    <2>2. \A d \in 1 .. n : v[d] \div unit \in Int
      BY <1>1
    <2>3. w \in Seq(Int) /\ Len(w) = n
      BY <1>1, <2>1, <2>2
    <2>. QED
      BY <2>1, <2>3
  <1>3. ASSUME NEW d \in 1 .. n
        PROVE  /\ w[d] \in Nat /\ part[d] \in 0 .. unit - 1 /\ times[d] \in Nat
               /\ times[d] = unit * w[d] /\ v[d] = times[d] + part[d]
    <2> DEFINE x == v[d]
               a == x \div unit
               b == x % unit
    <2>1. x \in Nat /\ w[d] = a /\ part[d] = b /\ times[d] = unit * a
      BY <1>1, <1>2
    <2> HIDE DEF x
    <2>2. a \in Int /\ b \in 0 .. unit - 1 /\ x = (unit * a) + b
      <3>1. x \in Int
        BY <2>1
      <3>. QED
        BY <3>1, Division, Zenon
    <2>3. a \in Nat
      <3>1. unit * 0 <= x
        BY <2>1
      <3>2. x \in Int /\ 0 \in Int
        BY <2>1
      <3>3. 0 <= a
        BY <3>1, <3>2, Fits, Zenon
      <3>. QED
        BY <2>2, <3>3
    <2> HIDE DEF a, b
    <2>4. unit * a \in Nat
      BY <2>3
    <2>. QED
      BY <2>1, <2>2, <2>3, <2>4 DEF x
  <1>4. Total(v) = SumTo(v, n) /\ Total(w) = SumTo(w, n)
    BY <1>2 DEF Total
  <1>5. SumTo(w, n) \in Nat /\ SumTo(part, n) \in Nat
    <2> HIDE DEF n, w, part
    <2>1. AreNats(w, n) /\ AreNats(part, n)
      BY <1>3 DEF AreNats
    <2>. QED
      BY <1>1, <2>1, SumIsNat
  <1>6. SumTo(v, n) = SumTo(times, n) + SumTo(part, n)
    <2> HIDE DEF n, w, part, times
    <2>1. AreParts(v, times, part, n)
      BY <1>3 DEF AreParts
    <2>. QED
      BY <1>1, <2>1, SumOfParts
  <1>7. SumTo(times, n) = unit * SumTo(w, n)
    <2>1. AreMultiples(times, w, unit, n)
      BY <1>3 DEF AreMultiples
    <2>2. unit \in Nat
      OBVIOUS
    <2> HIDE DEF n, w, part, times
    <2>. QED
      BY <1>1, <2>1, <2>2, SumOfMultiples, Zenon
  <1>8. /\ left = (SumTo(part, n) + unit - 1) \div unit /\ left \in Int
        /\ RoundedUp(v, unit) = SumTo(w, n) + left
    <2> DEFINE whole == SumTo(w, n)
               rest == SumTo(part, n)
    <2>1. RoundedUp(v, unit) = (unit * whole + rest + unit - 1) \div unit
      BY <1>4, <1>6, <1>7 DEF RoundedUp
    <2>2. whole \in Nat /\ rest \in Nat /\ left = RoundedUp(v, unit) - whole
      BY <1>4, <1>5
    <2> HIDE DEF whole, rest, left
    <2>3. /\ (unit * whole + rest + unit - 1) \div unit = whole + (rest + unit - 1) \div unit
          /\ (rest + unit - 1) \div unit \in Int
      BY <2>2, WholeUnitsStay
    <2>4. /\ left = (rest + unit - 1) \div unit /\ left \in Int
          /\ RoundedUp(v, unit) = whole + left
      BY <2>1, <2>2, <2>3
    <2>. QED
      BY <2>4 DEF whole, rest
  <1>9. /\ IsFiniteSet(some) /\ Cardinality(some) \in 0 .. n /\ some \subseteq 1 .. n
    <2>1. some \in SUBSET (1 .. n)
      OBVIOUS
    <2> HIDE DEF some, n
    <2>2. IsFiniteSet(1 .. n) /\ Cardinality(1 .. n) = n
      BY <1>1, FS_Interval
    <2>3. IsFiniteSet(some) /\ Cardinality(some) <= n
      BY <2>1, <2>2, FS_Subset
    <2>4. Cardinality(some) \in Nat
      BY <2>3, FS_CardinalityType
    <2>. QED
      BY <1>1, <2>1, <2>3, <2>4
  <1>10. left \in 0 .. Cardinality(some)
    <2>1. SumTo(part, n) <= unit * Cardinality(some)
      <3>1. \A d \in 1 .. n : part[d] \in 0 .. unit /\ (d \notin some => part[d] = 0)
        BY <1>3
      <3> HIDE DEF some, part, n
      <3>. QED
        BY <1>1, <1>9, <3>1, SumIsBounded
    <2> DEFINE x == SumTo(part, n)
               k == Cardinality(some)
    <2>2. x \in Nat /\ k \in Nat /\ x <= unit * k
      BY <1>5, <1>9, <2>1
    <2>3. left = (x + unit - 1) \div unit
      BY <1>8
    <2> HIDE DEF x, k, left
    <2>4. unit * k >= x <=> k >= left
      BY <2>2, <2>3, RoundsUp
    <2>5. left \in Nat
      BY <2>2, <2>3
    <2>. QED
      BY <2>2, <2>4, <2>5 DEF k
  <1>11. /\ rank \in [1 .. n -> 0 .. n - 1]
         /\ \A d, e \in 1 .. n : rank[d] = rank[e] => d = e
    <2>1. \A d \in 1 .. n : v[d] % unit \in Nat
      BY <1>1
    <2>2. \A d \in 1 .. n : rank[d] = RankOf(v, unit, d)
      OBVIOUS
    <2>3. DOMAIN v = 1 .. n
      BY <1>1
    <2> HIDE DEF n
    <2>4. /\ \A d \in 1 .. n : RankOf(v, unit, d) \in 0 .. n - 1
          /\ \A d, e \in 1 .. n : RankOf(v, unit, d) = RankOf(v, unit, e) => d = e
      BY <1>1, <2>1, <2>3, DaysRank
    <2>. QED
      BY <2>2, <2>4
  <1>12. Cardinality(top) = left
    <2>1. left \in 0 .. n
      BY <1>9, <1>10
    <2> HIDE DEF rank, left, n
    <2>. QED
      BY <1>1, <1>11, <2>1, RanksAreTaken
  <1>13. top \subseteq some
    <2>1. ASSUME NEW d \in 1 .. n, d \notin some PROVE rank[d] >= left
      <3> DEFINE before == {e \in DOMAIN v : Comes(v, unit, e, d)}
      <3>1. ASSUME NEW e \in some PROVE Comes(v, unit, e, d)
        <4>1. v[e] % unit = part[e] /\ v[d] % unit = part[d] /\ part[e] > 0
          OBVIOUS
        <4>2. part[d] = 0
          BY <1>3, <2>1
        <4>. QED
          BY <4>1, <4>2 DEF Comes
      <3>2. some \in SUBSET before
        BY <1>1, <3>1
      <3>3. rank[d] = Cardinality(before)
        BY DEF RankOf
      <3>4. before \in SUBSET (1 .. n)
        BY <1>1
      <3>5. IsFiniteSet(before)
        <4>1. IsFiniteSet(1 .. n)
          BY <1>1, FS_Interval
        <4> HIDE DEF before, n
        <4>. QED
          BY <3>4, <4>1, FS_Subset
      <3> HIDE DEF before, some, rank, left
      <3>6. Cardinality(some) <= Cardinality(before)
        BY <3>2, <3>5, FS_Subset
      <3>. QED
        BY <1>1, <1>9, <1>10, <1>11, <3>3, <3>6
    <2>2. ASSUME NEW d \in 1 .. n PROVE rank[d] \in Int
      <3> HIDE DEF rank
      <3>. QED
        BY <1>11
    <2>3. left \in Int
      BY <1>8
    <2> HIDE DEF rank, left, some
    <2>. QED
      BY <2>1, <2>2, <2>3
  <1>14. \A d \in 1 .. n : given[d] = w[d] + extra[d] /\ extra[d] \in Int
    <2>1. given = [d \in DOMAIN v |->
                     IF Cardinality({e \in DOMAIN v : Comes(v, unit, e, d)}) < left
                       THEN w[d] + 1 ELSE w[d]]
      BY DEF AllocateDaily
    <2>2. ASSUME NEW d \in 1 .. n
          PROVE  given[d] = (IF rank[d] < left THEN w[d] + 1 ELSE w[d]) /\ w[d] \in Nat
      BY <1>1, <1>3, <2>1 DEF RankOf
    <2> HIDE DEF given, w, rank, left
    <2>. QED
      BY <2>2
  <1>15. SumTo(given, n) = RoundedUp(v, unit)
    <2>1. top \subseteq 1 .. n
      OBVIOUS
    <2>2. \A d \in 1 .. n : extra[d] = IF d \in top THEN 1 ELSE 0
      OBVIOUS
    <2>3. AreParts(given, w, extra, n)
      <3>1. \A d \in 1 .. n : w[d] \in Int
        BY <1>3
      <3> HIDE DEF given, w, extra, n
      <3>. QED
        BY <1>14, <3>1 DEF AreParts
    <2>4. RoundedUp(v, unit) = SumTo(w, n) + left
      BY <1>8
    <2> HIDE DEF given, w, extra, top, left, n
    <2>5. SumTo(extra, n) = Cardinality(top)
      BY <1>1, <2>1, <2>2, OnesAddUp
    <2>6. SumTo(given, n) = SumTo(w, n) + SumTo(extra, n)
      BY <1>1, <2>3, SumOfParts
    <2>. QED
      BY <1>12, <2>4, <2>5, <2>6
  <1>16. ASSUME NEW d \in 1 .. n
         PROVE  given[d] \in v[d] \div unit .. (v[d] + unit - 1) \div unit
    <2> DEFINE x == v[d]
               c == (x + unit - 1) \div unit
               a == w[d]
               b == part[d]
    <2>1. a \in Nat /\ x \in Nat /\ b \in 0 .. unit - 1 /\ x = unit * a + b
      BY <1>1, <1>3
    <2>2. x \div unit = a
      BY <1>2
    <2>3. d \in top => b > 0
      BY <1>13
    <2>4. given[d] = IF d \in top THEN a + 1 ELSE a
      <3>1. extra[d] = IF d \in top THEN 1 ELSE 0
        OBVIOUS
      <3>2. given[d] = a + extra[d]
        BY <1>14
      <3> HIDE DEF given, extra, a, top
      <3>. QED
        BY <2>1, <3>1, <3>2
    <2> HIDE DEF given, x, a, b, top
    <2>5. /\ c \in Int /\ unit * c >= x
          /\ unit * a >= x <=> a >= c
          /\ unit * (a - 1) >= x <=> a - 1 >= c
      <3>1. c \in Int /\ unit * c >= x /\ (unit * a >= x <=> a >= c)
        BY <2>1, RoundsUp
      <3>2. x \in Int /\ a - 1 \in Int
        BY <2>1
      <3>3. unit * (a - 1) >= x <=> a - 1 >= c
        BY <3>2, RoundsUp, Zenon
      <3>. QED
        BY <3>1, <3>3
    <2> HIDE DEF c
    <2>6. unit * (a - 1) = unit * a - unit
      BY <2>1
    <2>7. a <= c /\ (d \in top => a + 1 <= c)
      BY <2>1, <2>3, <2>5, <2>6
    <2>8. given[d] \in a .. c
      BY <2>1, <2>4, <2>5, <2>7
    <2>. QED
      BY <2>2, <2>8 DEF c, x
  <1>17. left \in 0 .. n
    BY <1>9, <1>10
  <1>. QED
    BY <1>1, <1>15, <1>16, <1>17
=============================================================================
