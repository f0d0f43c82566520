--------------------------- MODULE WorkItemsProofs ---------------------------
(***************************************************************************)
(* Proofs that the properties of work items hold for any number of items,  *)
(* missions, runs and messages.                                            *)
(*                                                                         *)
(* What they rest on is that a run that holds the lease of its item has    *)
(* read all of it: whatever adds to an item takes the lease away in the    *)
(* same step, and an item is only made another's alias by the run that     *)
(* holds its lease.                                                        *)
(***************************************************************************)
EXTENDS WorkItems, WellFoundedInduction, TLAPS

-----------------------------------------------------------------------------
(* The inductive invariant *)

\* A row that was not created holds nothing.
NothingBeforehand ==
    \A i \in Items : ~Exists(i) => card[i] = NoCard /\ said[i] = {} /\ filed[i] = {}

MissionsExist == \A i \in Items : card[i].mission # None => card[i].mission \in made

\* Whoever holds the lease of the card that shows an item works on that card,
\* for its newest request, and has read all of it.
HoldersKnowTheThread ==
    \A r \in Runs : run[r] # None =>
       LET i == run[r].item
           c == card[Visible(i)]
       IN  c.status = "PROCESSING" /\ c.lease = r =>
              /\ Visible(i) = i
              /\ run[r].read = Thread(i) /\ run[r].input = Latest(Thread(i))

WInv ==
    /\ WorkTypeOK
    /\ NothingBeforehand /\ MissionsExist
    /\ OneCardPerMission /\ ProposalIsOpen
    /\ AnswersKnowTheThread /\ HoldersKnowTheThread

-----------------------------------------------------------------------------
(* Threads *)

\* The newest of some inputs is one of them.
LEMMA NewestIsOne ==
  ASSUME NEW S \in SUBSET Inputs, S # {}
  PROVE  Latest(S) \in S /\ \A k \in S : k <= Latest(S)
  <1> DEFINE Q == {n \in Nat : \E k \in S : n = MaxInputs - k}
             R == OpToRel(<, Nat)
  <1>1. \A k \in S : k \in Nat /\ MaxInputs - k \in Nat
    BY WorkAssumption DEF Inputs
  <1>2. Q \in SUBSET Nat /\ Q # {}
    BY <1>1
  <1>3. \A x, y \in Nat : x < y => <<x, y>> \in R
    BY DEF OpToRel
  <1>4. IsWellFoundedOn(R, Nat)
    BY NatLessThanWellFounded, Zenon
  <1> HIDE DEF R, Q
  <1>5. PICK m \in Q : \A n \in Q : ~ (<<n, m>> \in R)
    BY <1>2, <1>4, WFMin, Zenon
  <1>6. PICK g \in S : m = MaxInputs - g
    BY <1>5 DEF Q
  <1>7. ASSUME NEW k \in S
        PROVE  k <= g
    <2>1. MaxInputs - k \in Q /\ MaxInputs - k \in Nat /\ m \in Nat
      BY <1>1, <1>2, <1>5 DEF Q
    <2>2. ~(MaxInputs - k < m)
      BY <1>3, <1>5, <2>1
    <2> QED  BY <1>1, <1>6, <2>1, <2>2, WorkAssumption
  <1> DEFINE P(n) == \A k \in S : k <= n
  <1>8. \E n \in S : P(n)
    BY <1>7
  <1>9. Latest(S) = CHOOSE n \in S : P(n)
    BY DEF Latest
  <1> HIDE DEF P
  <1>10. Latest(S) \in S /\ P(Latest(S))
    BY <1>8, <1>9, Zenon
  <1> QED  BY <1>10 DEF P

LEMMA ThreadsAreInputs ==
  ASSUME WorkTypeOK, NEW i \in Items
  PROVE  Messages(i) \subseteq Thread(i) /\ Thread(i) \in SUBSET Inputs
  BY DEF WorkTypeOK, Thread, Messages, Members

\* The card that shows an item is a row of its own.
LEMMA VisibleIsShown ==
  ASSUME WInv, NEW i \in Items
  PROVE  Visible(i) \in Items /\ card[Visible(i)].target = None
         /\ (Exists(i) => Exists(Visible(i)))
         /\ (~Exists(i) => Visible(i) = i)
  <1>1. card[i] \in Cards
    BY DEF WInv, WorkTypeOK
  <1>2. card[i].target \in Items \cup {None}
    BY <1>1 DEF Cards
  <1>3. CASE card[i].target = None
    BY <1>3 DEF Visible
  <1>4. CASE card[i].target # None
    <2>1. Visible(i) = card[i].target /\ Visible(i) \in Items
      BY <1>2, <1>4 DEF Visible
    <2>2. card[Visible(i)].target = None /\ card[Visible(i)].mission # None
      BY <1>4, <2>1 DEF WInv, OneCardPerMission
    <2>3. Exists(Visible(i))
      BY <2>1, <2>2 DEF WInv, NothingBeforehand, NoCard
    <2>4. Exists(i)
      BY <1>4 DEF WInv, NothingBeforehand, NoCard
    <2> QED  BY <2>1, <2>2, <2>3, <2>4
  <1> QED  BY <1>3, <1>4

\* Of the rows that are shown, only the thread of one that changes does.
LEMMA ThreadOfOthers ==
  ASSUME NEW v \in Items, card[v].target = None,
         \A k \in Items : card'[k].target = card[k].target,
         \A k \in Items \ {v} : said'[k] = said[k] /\ filed'[k] = filed[k],
         NEW x \in Items, x # v
  PROVE  Thread(x)' = Thread(x)
  <1>1. Members(x)' = Members(x) /\ v \notin Members(x) /\ Members(x) \subseteq Items
    BY WorkAssumption DEF Members
  <1>2. \A k \in Members(x) : said'[k] = said[k] /\ filed'[k] = filed[k]
    BY <1>1
  <1>3. UNION {said'[k] : k \in Members(x)} = UNION {said[k] : k \in Members(x)}
        /\ UNION {filed'[k] : k \in Members(x)} = UNION {filed[k] : k \in Members(x)}
    BY <1>2
  <1> QED  BY <1>1, <1>3 DEF Thread, Messages

LEMMA ThreadKeeps ==
  ASSUME \A k \in Items : card'[k].target = card[k].target,
         UNCHANGED <<said, filed>>, NEW x \in Items
  PROVE  Thread(x)' = Thread(x)
  <1>1. Members(x)' = Members(x)
    BY DEF Members
  <1> QED  BY <1>1 DEF Thread, Messages

-----------------------------------------------------------------------------
(* A row that changes *)

LEMMA TouchedIsTyped ==
  ASSUME WorkTypeOK, NEW i \in Items
  PROVE  Touched(i) \in [Items -> SUBSET Items]
         /\ \A k \in Items : After(Touched(i), k) \in [Items -> SUBSET Items]
  BY DEF WorkTypeOK, Touched, After

LEMMA WaitingIsTyped ==
  ASSUME NEW c \in Cards
  PROVE  /\ Released(c) = [c EXCEPT !.lease = None, !.live = FALSE]
         /\ Released(c) \in Cards /\ Released(c).lease = None /\ Released(c).live = FALSE
         /\ Released(c).status = c.status /\ Released(c).mission = c.mission
         /\ Released(c).target = c.target /\ Released(c).request = c.request
         /\ Released(c).known = c.known
         /\ Waiting(c) \in Cards /\ Waiting(c).lease = None
         /\ Waiting(c).status = "RECEIVED" /\ Waiting(c).request = FALSE
         /\ Waiting(c).mission = c.mission /\ Waiting(c).target = c.target
  <1>1. Released(c) = [status |-> c.status, mission |-> c.mission, request |-> c.request,
                       target |-> c.target, lease |-> None, live |-> FALSE,
                       trial |-> c.trial, known |-> c.known]
    <2>1. Released(c) = [c EXCEPT !.lease = None, !.live = FALSE]
      BY Zenon DEF Released
    <2> QED  BY <2>1 DEF Cards
  <1>2. /\ Released(c) \in Cards /\ Released(c).lease = None /\ Released(c).live = FALSE
        /\ Released(c).status = c.status /\ Released(c).mission = c.mission
        /\ Released(c).target = c.target /\ Released(c).request = c.request
        /\ Released(c).known = c.known
    BY <1>1 DEF Cards
  <1> DEFINE d == Released(c)
  <1> HIDE DEF d
  <1>3. Waiting(c) = [d EXCEPT !.status = "RECEIVED", !.request = FALSE]
    BY DEF Waiting, d
  <1>4. d \in Cards /\ d.lease = None /\ d.mission = c.mission /\ d.target = c.target
    BY <1>2 DEF d
  <1>5. Waiting(c) = [status |-> "RECEIVED", mission |-> d.mission, request |-> FALSE,
                      target |-> d.target, lease |-> d.lease, live |-> d.live,
                      trial |-> d.trial, known |-> d.known]
    BY <1>3, <1>4 DEF Cards
  <1>6. /\ Waiting(c) \in Cards /\ Waiting(c).lease = None
        /\ Waiting(c).status = "RECEIVED" /\ Waiting(c).request = FALSE
        /\ Waiting(c).mission = c.mission /\ Waiting(c).target = c.target
    BY <1>4, <1>5 DEF Cards
  <1>7. Released(c) = [c EXCEPT !.lease = None, !.live = FALSE]
    BY Zenon DEF Released
  <1> QED  BY <1>2, <1>6, <1>7

\* What is to be shown of a step that changes one shown row, and what was said
\* or filed there.
LEMMA OneRow ==
  ASSUME WInv, NEW v \in Items, card[v].target = None,
         NEW c \in Cards, card' = [card EXCEPT ![v] = c],
         c.target = None, c.status # "none",
         \A k \in Items \ {v} : said'[k] = said[k] /\ filed'[k] = filed[k],
         said' \in [Items -> SUBSET Inputs], filed' \in [Items -> SUBSET Inputs],
         older' \in [Items -> SUBSET Items], run' \in [Runs -> Tasks \cup {None}],
         made \subseteq made', made' \in SUBSET Missions, acts' \in SUBSET (Items \X Inputs),
         c.status \in Answers => c.known = Thread(v)',
         c.request => c.status \in Answers /\ c.mission = None,
         c.mission # None => /\ c.mission \in made'
                             /\ \A k \in Items \ {v} : card[k].mission # c.mission,
         card[v].mission # None => c.mission # None,
         HoldersKnowTheThread'
  PROVE  WInv'
  <1>0. /\ WorkTypeOK /\ NothingBeforehand /\ MissionsExist /\ OneCardPerMission
        /\ ProposalIsOpen /\ AnswersKnowTheThread /\ None \notin Items
    BY WorkAssumption DEF WInv
  <1>1. /\ card' \in [Items -> Cards] /\ card'[v] = c
        /\ \A k \in Items \ {v} : card'[k] = card[k]
    BY <1>0 DEF WorkTypeOK
  <1>2. WorkTypeOK'
    BY <1>1 DEF WorkTypeOK
  <1>3. NothingBeforehand'
    BY <1>0, <1>1 DEF NothingBeforehand, Exists
  <1>4. MissionsExist'
    BY <1>0, <1>1 DEF MissionsExist
  <1>5. ProposalIsOpen'
    BY <1>0, <1>1 DEF ProposalIsOpen
  <1>6. OneCardPerMission'
    <2>1. ASSUME NEW i \in Items, NEW k \in Items,
                 card'[i].mission # None, card'[i].mission = card'[k].mission
          PROVE  i = k
      BY <1>0, <1>1, <2>1 DEF OneCardPerMission
    <2>2. ASSUME NEW i \in Items, card'[i].target # None
          PROVE  /\ card'[card'[i].target].target = None
                 /\ card'[card'[i].target].mission # None
                 /\ card'[i].mission = None /\ card'[i].lease = None
      <3>1. i # v /\ card'[i] = card[i] /\ card[i].target \in Items
        BY <1>0, <1>1, <2>2 DEF WorkTypeOK, Cards
      <3>2. /\ card[card[i].target].target = None /\ card[card[i].target].mission # None
            /\ card[i].mission = None /\ card[i].lease = None
        BY <1>0, <2>2, <3>1 DEF OneCardPerMission
      <3> QED  BY <1>1, <3>1, <3>2
    <2> QED  BY <2>1, <2>2 DEF OneCardPerMission
  <1>7. AnswersKnowTheThread'
    <2> SUFFICES ASSUME NEW i \in Items, card'[i].status \in Answers, card'[i].target = None
                 PROVE  card'[i].known = Thread(i)'
      BY DEF AnswersKnowTheThread
    <2>1. CASE i = v
      BY <1>1, <2>1
    <2>2. CASE i # v
      <3>1. Thread(i)' = Thread(i)
        BY <1>1, <2>2, ThreadOfOthers
      <3> QED  BY <1>0, <1>1, <2>2, <3>1 DEF AnswersKnowTheThread
    <2> QED  BY <2>1, <2>2
  <1> QED  BY <1>2, <1>3, <1>4, <1>5, <1>6, <1>7 DEF WInv

\* A row that gives its lease up leaves the other holders alone.
LEMMA LeaseTaken ==
  ASSUME WInv, NEW v \in Items, card[v].target = None,
         NEW c \in Cards, card' = [card EXCEPT ![v] = c],
         c.target = None, c.lease = None,
         \A k \in Items \ {v} : said'[k] = said[k] /\ filed'[k] = filed[k],
         \A r \in Runs : run'[r] \in {run[r], None}
  PROVE  HoldersKnowTheThread'
  <1> SUFFICES ASSUME NEW r \in Runs, run'[r] # None, NEW i, i = run'[r].item,
                      card'[Visible(i)'].status = "PROCESSING", card'[Visible(i)'].lease = r
               PROVE  /\ Visible(i)' = i
                      /\ run'[r].read = Thread(i)' /\ run'[r].input = Latest(Thread(i)')
    BY DEF HoldersKnowTheThread
  <1>1. run'[r] = run[r] /\ run[r] # None
    OBVIOUS
  <1>2. i \in Items
    BY <1>1 DEF WInv, WorkTypeOK, Tasks
  <1>3. /\ card \in [Items -> Cards] /\ \A k \in Items \ {v} : card'[k] = card[k]
        /\ card'[v] = c
    BY DEF WInv, WorkTypeOK
  <1>4. \A k \in Items : card'[k].target = card[k].target
    BY <1>3
  <1>5. Visible(i)' = Visible(i) /\ Visible(i) \in Items
    BY <1>2, <1>4, VisibleIsShown DEF Visible
  <1>6. Visible(i) # v
    BY <1>1, <1>3, <1>5, WorkAssumption
  <1>7. Visible(i) = i /\ run[r].read = Thread(i) /\ run[r].input = Latest(Thread(i))
    BY <1>1, <1>3, <1>5, <1>6 DEF WInv, HoldersKnowTheThread
  <1>8. Thread(i)' = Thread(i)
    BY <1>2, <1>4, <1>6, <1>7, ThreadOfOthers
  <1> QED  BY <1>1, <1>5, <1>7, <1>8

\* Nobody's lease and nobody's thread changes.
LEMMA LeasesStay ==
  ASSUME WInv, \A k \in Items : /\ card'[k].target = card[k].target
                                /\ card'[k].lease = card[k].lease
                                /\ card'[k].status = card[k].status,
         UNCHANGED <<said, filed>>, \A r \in Runs : run'[r] \in {run[r], None}
  PROVE  HoldersKnowTheThread'
  <1> SUFFICES ASSUME NEW r \in Runs, run'[r] # None, NEW i, i = run'[r].item,
                      card'[Visible(i)'].status = "PROCESSING", card'[Visible(i)'].lease = r
               PROVE  /\ Visible(i)' = i
                      /\ run'[r].read = Thread(i)' /\ run'[r].input = Latest(Thread(i)')
    BY DEF HoldersKnowTheThread
  <1>1. run'[r] = run[r] /\ run[r] # None
    OBVIOUS
  <1>2. i \in Items
    BY <1>1 DEF WInv, WorkTypeOK, Tasks
  <1>3. Visible(i)' = Visible(i) /\ Visible(i) \in Items /\ Thread(i)' = Thread(i)
    BY <1>2, VisibleIsShown, ThreadKeeps DEF Visible
  <1>4. Visible(i) = i /\ run[r].read = Thread(i) /\ run[r].input = Latest(Thread(i))
    BY <1>1, <1>3 DEF WInv, HoldersKnowTheThread
  <1> QED  BY <1>1, <1>3, <1>4

\* What is known of a shown row's mission.
LEMMA MissionOfRow ==
  ASSUME WInv, NEW v \in Items
  PROVE  card[v] \in Cards /\ (card[v].mission # None => /\ card[v].mission \in made
            /\ \A k \in Items \ {v} : card[k].mission # card[v].mission)
  <1>1. card[v] \in Cards
    BY DEF WInv, WorkTypeOK
  <1>2. ASSUME NEW k \in Items \ {v}, card[v].mission # None
        PROVE  card[k].mission # card[v].mission
    BY <1>2 DEF WInv, OneCardPerMission
  <1> QED  BY <1>1, <1>2 DEF WInv, MissionsExist

-----------------------------------------------------------------------------
(* The owner *)

LEMMA CreateKeeps ==
  ASSUME WInv, NEW i \in Items, Create(i)
  PROVE  WInv'
  <1> DEFINE c == [NoCard EXCEPT !.status = "RECEIVED"]
  <1>1. card[i] = NoCard /\ said[i] = {}
    BY DEF WInv, NothingBeforehand, Create
  <1>2. card' = [card EXCEPT ![i] = c] /\ card[i].target = None
    BY <1>1 DEF WInv, WorkTypeOK, Create, NoCard
  <1>3. /\ c \in Cards /\ c.status = "RECEIVED" /\ c.mission = None /\ c.request = FALSE
        /\ c.target = None /\ c.lease = None
    BY DEF NoCard, Cards, Inputs
  <1> HIDE DEF c
  <1>4. /\ \A k \in Items \ {i} : said'[k] = said[k] /\ filed'[k] = filed[k]
        /\ said' \in [Items -> SUBSET Inputs] /\ filed' \in [Items -> SUBSET Inputs]
        /\ older' \in [Items -> SUBSET Items] /\ run' \in [Runs -> Tasks \cup {None}]
        /\ \A r \in Runs : run'[r] \in {run[r], None}
        /\ made \subseteq made' /\ made' \in SUBSET Missions /\ acts' \in SUBSET (Items \X Inputs)
    BY TouchedIsTyped DEF WInv, WorkTypeOK, Create, MayAsk
  <1>5. c.status \notin Answers /\ card[i].mission = None
    BY <1>1, <1>3 DEF Answers, NoCard
  <1>6. HoldersKnowTheThread'
    BY <1>2, <1>3, <1>4, LeaseTaken
  <1> QED  BY <1>2, <1>3, <1>4, <1>5, <1>6, OneRow

\* A shown row that waits again, or is stopped, whatever was added to it.
LEMMA RequestKeeps ==
  ASSUME WInv, NEW v \in Items, card[v].target = None,
         NEW st \in {"RECEIVED", "CANCELLED"},
         card' = [card EXCEPT ![v] = [Waiting(card[v]) EXCEPT !.status = st]],
         \A k \in Items \ {v} : said'[k] = said[k] /\ filed'[k] = filed[k],
         said' \in [Items -> SUBSET Inputs], filed' \in [Items -> SUBSET Inputs],
         older' = Touched(v), run' \in [Runs -> Tasks \cup {None}],
         \A r \in Runs : run'[r] \in {run[r], None}, UNCHANGED <<made, acts>>
  PROVE  WInv'
  <1> DEFINE d == Waiting(card[v])
             c == [d EXCEPT !.status = st]
  <1>1. /\ d \in Cards /\ d.lease = None /\ d.request = FALSE
        /\ d.mission = card[v].mission /\ d.target = None
    BY MissionOfRow, WaitingIsTyped
  <1> HIDE DEF d
  <1>2. /\ c \in Cards /\ c.status = st /\ c.lease = None /\ c.request = FALSE
        /\ c.mission = card[v].mission /\ c.target = None
    BY <1>1 DEF Cards
  <1>3. card' = [card EXCEPT ![v] = c]
    BY DEF d
  <1> HIDE DEF c
  <1>4. c.status \notin Answers /\ c.status # "none"
    BY <1>2 DEF Answers
  <1>5. HoldersKnowTheThread'
    BY <1>2, <1>3, LeaseTaken
  <1>6. older' \in [Items -> SUBSET Items] /\ made \subseteq made' /\ made' \in SUBSET Missions
        /\ acts' \in SUBSET (Items \X Inputs)
    BY TouchedIsTyped DEF WInv, WorkTypeOK
  <1>7. c.mission # None => /\ c.mission \in made'
                            /\ \A k \in Items \ {v} : card[k].mission # c.mission
    BY <1>2, MissionOfRow
  <1> QED  BY <1>2, <1>3, <1>4, <1>5, <1>6, <1>7, OneRow

\* The same with the row as Waiting() leaves it.
LEMMA WaitingKeeps ==
  ASSUME WInv, NEW v \in Items, card[v].target = None,
         card' = [card EXCEPT ![v] = Waiting(@)],
         \A k \in Items \ {v} : said'[k] = said[k] /\ filed'[k] = filed[k],
         said' \in [Items -> SUBSET Inputs], filed' \in [Items -> SUBSET Inputs],
         older' = Touched(v), UNCHANGED <<run, made, acts>>
  PROVE  WInv'
  <1> DEFINE d == Waiting(card[v])
  <1>1. d \in Cards /\ d.status = "RECEIVED"
    BY MissionOfRow, WaitingIsTyped
  <1>2. card' = [card EXCEPT ![v] = d]
    BY DEF WInv, WorkTypeOK
  <1> HIDE DEF d
  <1>3. [d EXCEPT !.status = "RECEIVED"] = d
    BY <1>1 DEF Cards
  <1>4. card' = [card EXCEPT ![v] = [Waiting(card[v]) EXCEPT !.status = "RECEIVED"]]
    BY <1>2, <1>3 DEF d
  <1>5. run' \in [Runs -> Tasks \cup {None}] /\ \A r \in Runs : run'[r] \in {run[r], None}
    BY DEF WInv, WorkTypeOK
  <1> QED  BY <1>4, <1>5, RequestKeeps

LEMMA AskKeeps ==
  ASSUME WInv, NEW i \in Items, Send(i) \/ Upload(i) \/ Retry(i)
  PROVE  WInv'
  <1> DEFINE v == Visible(i)
  <1>1. v \in Items /\ card[v].target = None
    BY VisibleIsShown
  <1>2. card' = [card EXCEPT ![v] = Waiting(@)] /\ older' = Touched(v)
        /\ UNCHANGED <<run, made, acts>>
    BY DEF Send, Upload, Retry
  <1>3. \/ said' = [said EXCEPT ![v] = @ \cup {NewInput}] /\ filed' = filed /\ MayAsk
        \/ filed' = [filed EXCEPT ![v] = @ \cup {NewInput}] /\ said' = said /\ MayAsk
        \/ UNCHANGED <<said, filed>>
    BY DEF Send, Upload, Retry
  <1> HIDE DEF v
  <1>4. /\ \A k \in Items \ {v} : said'[k] = said[k] /\ filed'[k] = filed[k]
        /\ said' \in [Items -> SUBSET Inputs] /\ filed' \in [Items -> SUBSET Inputs]
    BY <1>1, <1>3 DEF WInv, WorkTypeOK, MayAsk
  <1> QED  BY <1>1, <1>2, <1>4, WaitingKeeps

\* An item is stopped, by its owner or by the run that holds it.
LEMMA StopKeeps ==
  ASSUME WInv, NEW v \in Items, card[v].target = None, Stopped(v),
         run' \in [Runs -> Tasks \cup {None}],
         \A r \in Runs : run'[r] \in {run[r], None},
         UNCHANGED <<said, filed, made, acts>>
  PROVE  WInv'
  <1>1. card' = [card EXCEPT ![v] = [Waiting(card[v]) EXCEPT !.status = "CANCELLED"]]
        /\ older' = Touched(v)
    BY DEF Stopped, WInv, WorkTypeOK
  <1>2. said' \in [Items -> SUBSET Inputs] /\ filed' \in [Items -> SUBSET Inputs]
    BY DEF WInv, WorkTypeOK
  <1> QED  BY <1>1, <1>2, RequestKeeps

LEMMA CancelKeeps ==
  ASSUME WInv, NEW i \in Items, Cancel(i)
  PROVE  WInv'
  <1>1. run' \in [Runs -> Tasks \cup {None}] /\ \A r \in Runs : run'[r] \in {run[r], None}
    BY DEF Cancel, WInv, WorkTypeOK
  <1> QED  BY <1>1, VisibleIsShown, StopKeeps DEF Cancel

\* The one card of a mission: no other row holds it.
LEMMA OpenCardKeeps ==
  ASSUME WInv, NEW i \in Items, NEW m \in Missions, OpenCard(i, m)
  PROVE  WInv'
  <1> DEFINE c == [NoCard EXCEPT !.status = "RESULT_READY", !.mission = m]
  <1>1. card[i] = NoCard /\ said[i] = {} /\ filed[i] = {}
    BY DEF WInv, NothingBeforehand, OpenCard
  <1>2. card' = [card EXCEPT ![i] = c]
    <2>1. card' = [card EXCEPT ![i] = [card[i] EXCEPT !.status = "RESULT_READY", !.mission = m]]
      BY DEF WInv, WorkTypeOK, OpenCard
    <2> QED  BY <1>1, <2>1
  <1>3. /\ c \in Cards /\ c.status = "RESULT_READY" /\ c.mission = m /\ c.request = FALSE
        /\ c.target = None /\ c.lease = None /\ c.known = {}
    BY DEF NoCard, Cards, Inputs, Answers
  <1> HIDE DEF c
  <1>4. card[i].target = None /\ card[i].mission = None
    BY <1>1 DEF NoCard
  <1>5. \A k \in Items : card[k].target # i
    <2> SUFFICES ASSUME NEW k \in Items, card[k].target = i PROVE FALSE
      OBVIOUS
    <2> QED  BY <1>4, WorkAssumption DEF WInv, OneCardPerMission
  <1>6. /\ \A k \in Items \ {i} : said'[k] = said[k] /\ filed'[k] = filed[k]
        /\ UNCHANGED <<said, filed>>
        /\ said' \in [Items -> SUBSET Inputs] /\ filed' \in [Items -> SUBSET Inputs]
        /\ older' \in [Items -> SUBSET Items] /\ run' \in [Runs -> Tasks \cup {None}]
        /\ \A r \in Runs : run'[r] \in {run[r], None}
        /\ made \subseteq made' /\ made' \in SUBSET Missions /\ acts' \in SUBSET (Items \X Inputs)
    BY TouchedIsTyped DEF WInv, WorkTypeOK, OpenCard
  <1>7. Thread(i)' = {}
    <2>1. Members(i) = {i}
      BY <1>5 DEF Members
    <2>2. Thread(i) = {}
      BY <1>1, <2>1 DEF Thread, Messages
    <2>3. \A k \in Items : card'[k].target = card[k].target
      BY <1>2, <1>3, <1>4 DEF WInv, WorkTypeOK
    <2> QED  BY <1>6, <2>2, <2>3, ThreadKeeps
  <1>8. m \in made' /\ \A k \in Items \ {i} : card[k].mission # m
    BY DEF OpenCard
  <1>9. HoldersKnowTheThread'
    BY <1>2, <1>3, <1>4, <1>6, LeaseTaken
  <1> QED  BY <1>2, <1>3, <1>4, <1>6, <1>7, <1>8, <1>9, OneRow

LEMMA AcceptKeeps ==
  ASSUME WInv, NEW i \in Items, NEW m \in Missions, Accept(i, m)
  PROVE  WInv'
  <1> SUFFICES ASSUME NEW v, v = Visible(i) PROVE WInv'
    OBVIOUS
  <1> DEFINE d == Released(card[v])
             c == [d EXCEPT !.mission = m, !.request = FALSE]
  <1>1. v \in Items /\ card[v].target = None /\ card[v] \in Cards
    BY VisibleIsShown, MissionOfRow
  <1>2. /\ card[v].status = "RESULT_READY" /\ card[v].mission = None /\ m \notin made
        /\ made' = made \cup {m} /\ older' = Touched(v)
        /\ UNCHANGED <<said, filed, run, acts>>
    BY DEF Accept
  <1>3. card' = [card EXCEPT ![v] = c]
    BY <1>1 DEF Accept, WInv, WorkTypeOK
  <1>4. /\ d \in Cards /\ d.lease = None /\ d.status = "RESULT_READY" /\ d.target = None
        /\ d.known = card[v].known
    BY <1>1, <1>2, WaitingIsTyped
  <1> HIDE DEF d
  <1>5. /\ c \in Cards /\ c.lease = None /\ c.status = "RESULT_READY" /\ c.target = None
        /\ c.known = card[v].known /\ c.mission = m /\ c.request = FALSE
    BY <1>4 DEF Cards
  <1> HIDE DEF c
  <1>6. /\ \A k \in Items \ {v} : said'[k] = said[k] /\ filed'[k] = filed[k]
        /\ said' \in [Items -> SUBSET Inputs] /\ filed' \in [Items -> SUBSET Inputs]
        /\ older' \in [Items -> SUBSET Items] /\ run' \in [Runs -> Tasks \cup {None}]
        /\ \A r \in Runs : run'[r] \in {run[r], None}
        /\ made \subseteq made' /\ made' \in SUBSET Missions /\ acts' \in SUBSET (Items \X Inputs)
    BY <1>1, <1>2, TouchedIsTyped DEF WInv, WorkTypeOK
  <1>7. Thread(v)' = Thread(v)
    <2>1. \A k \in Items : card'[k].target = card[k].target
      BY <1>1, <1>3, <1>5 DEF WInv, WorkTypeOK
    <2> QED  BY <1>1, <1>2, <2>1, ThreadKeeps
  <1>8. card[v].known = Thread(v)
    BY <1>1, <1>2 DEF WInv, AnswersKnowTheThread, Answers
  <1>9. m \in made' /\ \A k \in Items \ {v} : card[k].mission # m
    BY <1>2, WorkAssumption DEF WInv, MissionsExist
  <1>10. HoldersKnowTheThread'
    BY <1>1, <1>3, <1>5, <1>6, LeaseTaken
  <1>11. c.status # "none" /\ c.known = Thread(v)' /\ c.request = FALSE
    BY <1>5, <1>7, <1>8
  <1>12. c.mission # None => /\ c.mission \in made'
                             /\ \A k \in Items \ {v} : card[k].mission # c.mission
    BY <1>5, <1>9
  <1> QED  BY <1>1, <1>2, <1>3, <1>5, <1>6, <1>10, <1>11, <1>12, OneRow

\* The owner's own computation answers for all that is on the card by then.
LEMMA DirectKeeps ==
  ASSUME WInv, NEW v \in Items, card[v].target = None,
         NEW a \in Cards, a.target = None, a.mission = card[v].mission,
         a.status \in Answers, a.request => card[v].mission = None, Direct(v, a)
  PROVE  WInv'
  <1> DEFINE d == Released(a)
             c == [d EXCEPT !.known = Thread(v) \cup {NewInput}]
  <1>1. /\ NewInput \in Inputs /\ card' = [card EXCEPT ![v] = c]
        /\ said' = [said EXCEPT ![v] = @ \cup {NewInput}] /\ older' = Touched(v)
        /\ UNCHANGED <<filed, run, made, acts>>
    BY DEF Direct, MayAsk
  <1>2. /\ d \in Cards /\ d.lease = None /\ d.status = a.status /\ d.target = None
        /\ d.mission = a.mission /\ d.request = a.request
    BY WaitingIsTyped
  <1>3. Thread(v) \cup {NewInput} \in SUBSET Inputs
    BY <1>1, ThreadsAreInputs DEF WInv
  <1> HIDE DEF d
  <1>4. /\ c \in Cards /\ c.lease = None /\ c.status = a.status /\ c.target = None
        /\ c.mission = card[v].mission /\ c.request = a.request
        /\ c.known = Thread(v) \cup {NewInput}
    BY <1>2, <1>3 DEF Cards
  <1> HIDE DEF c
  <1>5. /\ \A k \in Items \ {v} : said'[k] = said[k] /\ filed'[k] = filed[k]
        /\ said'[v] = said[v] \cup {NewInput}
        /\ said' \in [Items -> SUBSET Inputs] /\ filed' \in [Items -> SUBSET Inputs]
        /\ older' \in [Items -> SUBSET Items] /\ run' \in [Runs -> Tasks \cup {None}]
        /\ \A r \in Runs : run'[r] \in {run[r], None}
        /\ made \subseteq made' /\ made' \in SUBSET Missions /\ acts' \in SUBSET (Items \X Inputs)
    BY <1>1, TouchedIsTyped DEF WInv, WorkTypeOK
  <1>6. Thread(v)' = Thread(v) \cup {NewInput}
    <2>1. \A k \in Items : card'[k].target = card[k].target
      BY <1>1, <1>4 DEF WInv, WorkTypeOK
    <2>2. Members(v)' = Members(v) /\ v \in Members(v) /\ Members(v) \subseteq Items
      BY <2>1 DEF Members
    <2>3. UNION {said'[k] : k \in Members(v)'}
            = (UNION {said[k] : k \in Members(v)}) \cup {NewInput}
      <3>1. ASSUME NEW x
            PROVE  (\E k \in Members(v) : x \in said'[k])
                      <=> (\E k \in Members(v) : x \in said[k]) \/ x = NewInput
        BY <1>5, <2>2
      <3>2. ASSUME NEW x
            PROVE  x \in UNION {said'[k] : k \in Members(v)'}
                      <=> (\E k \in Members(v) : x \in said'[k])
        BY <2>2
      <3>3. ASSUME NEW x
            PROVE  x \in (UNION {said[k] : k \in Members(v)}) \cup {NewInput}
                      <=> (\E k \in Members(v) : x \in said[k]) \/ x = NewInput
        OBVIOUS
      <3> QED  BY <3>1, <3>2, <3>3
    <2>4. UNION {filed'[k] : k \in Members(v)} = UNION {filed[k] : k \in Members(v)}
      BY <1>1
    <2>5. Messages(v)' = Messages(v) \cup {NewInput}
      BY <2>3 DEF Messages
    <2>6. Thread(v)' = Messages(v)' \cup UNION {filed[k] : k \in Members(v)}
      BY <2>2, <2>4 DEF Thread
    <2> QED  BY <2>5, <2>6 DEF Thread
  <1>7. c.mission # None => /\ c.mission \in made'
                            /\ \A k \in Items \ {v} : card[k].mission # c.mission
    BY <1>1, <1>4, MissionOfRow
  <1>8. HoldersKnowTheThread'
    BY <1>1, <1>4, <1>5, LeaseTaken
  <1>9. c.status # "none" /\ c.known = Thread(v)'
    BY <1>4, <1>6 DEF Answers
  <1>10. c.request => c.status \in Answers /\ c.mission = None
    BY <1>4
  <1>11. card[v].mission # None => c.mission # None
    BY <1>4
  <1> QED  BY <1>1, <1>4, <1>5, <1>7, <1>8, <1>9, <1>10, <1>11, OneRow

LEMMA ComputeKeeps ==
  ASSUME WInv, NEW i \in Items, Simulate(i) \/ ProcessFile(i) \/ RemoveRule(i)
  PROVE  WInv'
  <1> DEFINE v == Visible(i)
  <1>1. v \in Items /\ card[v].target = None /\ card[v] \in Cards
    BY VisibleIsShown, MissionOfRow
  <1>2. card[v].request => card[v].mission = None
    BY <1>1 DEF WInv, ProposalIsOpen
  <1>3. CASE Simulate(i)
    <2>1. PICK propose \in BOOLEAN :
             Direct(v, [card[v] EXCEPT !.status = "RESULT_READY", !.trial = TRUE,
                                       !.request = propose /\ card[v].mission = None])
      BY <1>3 DEF Simulate
    <2> DEFINE p == propose /\ card[v].mission = None
               a == [card[v] EXCEPT !.status = "RESULT_READY", !.trial = TRUE, !.request = p]
    <2>2. p \in BOOLEAN /\ (p => card[v].mission = None)
      OBVIOUS
    <2> HIDE DEF p, v
    <2>3. /\ a \in Cards /\ a.target = None /\ a.mission = card[v].mission
          /\ a.status \in Answers /\ (a.request => card[v].mission = None)
      BY <1>1, <2>2 DEF Cards, Answers
    <2>4. Direct(v, a)
      BY <2>1 DEF p
    <2> HIDE DEF a
    <2> QED  BY <1>1, <2>3, <2>4, DirectKeeps
  <1>4. CASE ProcessFile(i)
    <2>1. PICK st \in {"WAITING_INPUT", "RESULT_READY"} :
             Direct(v, [card[v] EXCEPT !.status = st, !.trial = FALSE, !.request = FALSE])
      BY <1>4 DEF ProcessFile
    <2> DEFINE a == [card[v] EXCEPT !.status = st, !.trial = FALSE, !.request = FALSE]
    <2> HIDE DEF v
    <2>2. /\ a \in Cards /\ a.target = None /\ a.mission = card[v].mission
          /\ a.status \in Answers /\ a.request = FALSE
      BY <1>1 DEF Cards, Answers
    <2>3. Direct(v, a)
      BY <2>1
    <2> HIDE DEF a
    <2> QED  BY <1>1, <2>2, <2>3, DirectKeeps
  <1>5. CASE RemoveRule(i)
    <2>1. PICK st \in {"WAITING_INPUT", "RESULT_READY", "COMPLETED"} :
             Direct(v, [card[v] EXCEPT !.status = st])
      BY <1>5 DEF RemoveRule
    <2> DEFINE a == [card[v] EXCEPT !.status = st]
    <2> HIDE DEF v
    <2>2. /\ a \in Cards /\ a.target = None /\ a.mission = card[v].mission
          /\ a.status \in Answers /\ a.request = card[v].request
      BY <1>1 DEF Cards, Answers
    <2>3. Direct(v, a)
      BY <2>1
    <2> HIDE DEF a
    <2> QED  BY <1>1, <1>2, <2>2, <2>3, DirectKeeps
  <1> QED  BY <1>3, <1>4, <1>5

-----------------------------------------------------------------------------
(* The processor *)

\* A step that a lease allows finds its row as it was read.
LEMMA FencedRow ==
  ASSUME WInv, NEW r \in Runs, Fenced(r)
  PROVE  /\ run[r] \in Tasks /\ run[r] # None /\ run[r].item \in Items
         /\ card[run[r].item] \in Cards /\ card[run[r].item].target = None
         /\ card[run[r].item].status = "PROCESSING" /\ card[run[r].item].lease = r
         /\ card[run[r].item].request = FALSE
         /\ run[r].read = Thread(run[r].item)
         /\ run[r].input = Latest(Thread(run[r].item))
  <1> SUFFICES ASSUME NEW i, i = run[r].item
               PROVE  /\ run[r] \in Tasks /\ run[r] # None /\ i \in Items
                      /\ card[i] \in Cards /\ card[i].target = None
                      /\ card[i].status = "PROCESSING" /\ card[i].lease = r
                      /\ card[i].request = FALSE
                      /\ run[r].read = Thread(i) /\ run[r].input = Latest(Thread(i))
    OBVIOUS
  <1>1. run[r] \in Tasks /\ run[r] # None /\ i \in Items
    BY DEF Fenced, WInv, WorkTypeOK, Tasks
  <1>2. card[Visible(i)].status = "PROCESSING" /\ card[Visible(i)].lease = r
    BY DEF Fenced
  <1>3. Visible(i) = i /\ run[r].read = Thread(i) /\ run[r].input = Latest(Thread(i))
    BY <1>1, <1>2 DEF WInv, HoldersKnowTheThread
  <1>4. card[i] \in Cards /\ card[i].target = None
    BY <1>1, <1>3, VisibleIsShown, MissionOfRow
  <1>5. card[i].request \in BOOLEAN /\ ~card[i].request
    BY <1>1, <1>2, <1>3, <1>4 DEF WInv, ProposalIsOpen, Answers, Cards
  <1>6. card[i].request = FALSE
    BY <1>5
  <1> QED  BY <1>1, <1>2, <1>3, <1>4, <1>6

LEMMA ClaimKeeps ==
  ASSUME WInv, NEW r \in Runs, Claim(r)
  PROVE  WInv'
  <1>1. PICK i \in Items :
           /\ Claimable(i) /\ Messages(i) # {}
           /\ run' = [run EXCEPT ![r] = [item |-> i, input |-> Latest(Thread(i)),
                                         read |-> Thread(i)]]
           /\ card' = [card EXCEPT ![i].status = "PROCESSING", ![i].lease = r,
                                   ![i].live = TRUE]
           /\ older' = Touched(i)
    BY DEF Claim, First
  <1>2. run[r] = None /\ UNCHANGED <<said, filed, made, acts>>
    BY DEF Claim
  <1> DEFINE c == [card[i] EXCEPT !.status = "PROCESSING", !.lease = r, !.live = TRUE]
             t == [item |-> i, input |-> Latest(Thread(i)), read |-> Thread(i)]
  <1>3. /\ card[i] \in Cards /\ card[i].target = None /\ card[i].status \notin Answers
        /\ card[i].request \in BOOLEAN
    BY <1>1 DEF WInv, WorkTypeOK, Claimable, Answers, Cards
  <1>4. card[i].request = FALSE
    BY <1>3 DEF WInv, ProposalIsOpen
  <1>5. card' = [card EXCEPT ![i] = c]
    BY <1>1 DEF WInv, WorkTypeOK
  <1>6. /\ c \in Cards /\ c.status = "PROCESSING" /\ c.lease = r /\ c.target = None
        /\ c.mission = card[i].mission /\ c.request = FALSE
    BY <1>3, <1>4 DEF Cards
  <1> HIDE DEF c
  <1>7. Thread(i) \in SUBSET Inputs /\ Latest(Thread(i)) \in Inputs
    BY <1>1, ThreadsAreInputs, NewestIsOne DEF WInv
  <1>8. t \in Tasks /\ t.item = i /\ t.read = Thread(i) /\ t.input = Latest(Thread(i))
    BY <1>7 DEF Tasks
  <1>9. run' = [run EXCEPT ![r] = t]
    BY <1>1
  <1> HIDE DEF t
  <1>10. /\ run' \in [Runs -> Tasks \cup {None}] /\ run'[r] = t
         /\ \A q \in Runs \ {r} : run'[q] = run[q]
         /\ card' \in [Items -> Cards] /\ card'[i] = c
         /\ \A k \in Items \ {i} : card'[k] = card[k]
    BY <1>5, <1>6, <1>8, <1>9 DEF WInv, WorkTypeOK
  <1>11. \A k \in Items : card'[k].target = card[k].target
    BY <1>3, <1>6, <1>10
  <1>12. HoldersKnowTheThread'
    <2> SUFFICES ASSUME NEW q \in Runs, run'[q] # None, NEW j, j = run'[q].item,
                        card'[Visible(j)'].status = "PROCESSING", card'[Visible(j)'].lease = q
                 PROVE  /\ Visible(j)' = j
                        /\ run'[q].read = Thread(j)' /\ run'[q].input = Latest(Thread(j)')
      BY DEF HoldersKnowTheThread
    <2>1. j \in Items
      BY <1>10 DEF Tasks
    <2>2. Visible(j)' = Visible(j) /\ Visible(j) \in Items /\ Thread(j)' = Thread(j)
      BY <1>2, <1>11, <2>1, VisibleIsShown, ThreadKeeps DEF Visible
    <2>3. CASE q = r
      <3>1. j = i /\ run'[q].read = Thread(i) /\ run'[q].input = Latest(Thread(i))
        BY <1>8, <1>10, <2>3
      <3>2. Visible(j) = j
        BY <1>3, <3>1 DEF Visible
      <3> QED  BY <2>2, <3>1, <3>2
    <2>4. CASE q # r
      <3>1. run'[q] = run[q] /\ Visible(j) # i
        BY <1>6, <1>10, <2>2, <2>4
      <3>2. card[Visible(j)].status = "PROCESSING" /\ card[Visible(j)].lease = q
        BY <1>10, <2>2, <3>1
      <3>3. Visible(j) = j /\ run[q].read = Thread(j) /\ run[q].input = Latest(Thread(j))
        BY <3>1, <3>2 DEF WInv, HoldersKnowTheThread
      <3> QED  BY <2>2, <3>1, <3>3
    <2> QED  BY <2>3, <2>4
  <1>13. /\ \A k \in Items \ {i} : said'[k] = said[k] /\ filed'[k] = filed[k]
         /\ said' \in [Items -> SUBSET Inputs] /\ filed' \in [Items -> SUBSET Inputs]
         /\ older' \in [Items -> SUBSET Items]
         /\ made \subseteq made' /\ made' \in SUBSET Missions /\ acts' \in SUBSET (Items \X Inputs)
    BY <1>1, <1>2, TouchedIsTyped DEF WInv, WorkTypeOK
  <1>14. /\ c.status \notin Answers /\ c.status # "none"
         /\ (card[i].mission # None => c.mission # None)
    BY <1>6 DEF Answers
  <1>15. c.mission # None => /\ c.mission \in made'
                             /\ \A k \in Items \ {i} : card[k].mission # c.mission
    BY <1>2, <1>6, MissionOfRow
  <1> QED  BY <1>3, <1>5, <1>6, <1>10, <1>12, <1>13, <1>14, <1>15, OneRow

\* Steps that leave the rows alone.
LEMMA RowsStay ==
  ASSUME WInv, UNCHANGED <<card, said, filed, made>>,
         run' \in [Runs -> Tasks \cup {None}], \A r \in Runs : run'[r] \in {run[r], None},
         older' \in [Items -> SUBSET Items], acts' \in SUBSET (Items \X Inputs)
  PROVE  WInv'
  <1>1. HoldersKnowTheThread'
    BY LeasesStay
  <1>2. \A x \in Items : Thread(x)' = Thread(x)
    BY ThreadKeeps
  <1>3. WorkTypeOK' /\ NothingBeforehand' /\ MissionsExist' /\ OneCardPerMission'
        /\ ProposalIsOpen'
    BY DEF WInv, WorkTypeOK, NothingBeforehand, Exists, MissionsExist, OneCardPerMission,
           ProposalIsOpen
  <1>4. AnswersKnowTheThread'
    BY <1>2 DEF WInv, AnswersKnowTheThread
  <1> QED  BY <1>1, <1>3, <1>4 DEF WInv

LEMMA ToolKeeps ==
  ASSUME WInv, NEW r \in Runs, Tool(r) \/ Progress(r) \/ Leave(r)
  PROVE  WInv'
  <1>1. UNCHANGED <<card, said, filed, made>>
    BY DEF Tool, Progress, Leave
  <1>2. /\ run' \in [Runs -> Tasks \cup {None}]
        /\ \A q \in Runs : run'[q] \in {run[q], None}
    BY DEF WInv, WorkTypeOK, Tool, Progress, Leave
  <1>3. older' \in [Items -> SUBSET Items] /\ acts' \in SUBSET (Items \X Inputs)
    <2>1. CASE Tool(r)
      <3>1. acts' = acts \cup {<<run[r].item, run[r].input>>} /\ older' = older
        BY <2>1 DEF Tool
      <3>2. run[r].item \in Items /\ run[r].input \in Inputs
        BY <2>1, FencedRow DEF Tool, Tasks
      <3> QED  BY <3>1, <3>2 DEF WInv, WorkTypeOK
    <2>2. CASE Progress(r)
      BY <2>2, FencedRow, TouchedIsTyped DEF WInv, WorkTypeOK, Progress
    <2>3. CASE Leave(r)
      BY <2>3 DEF WInv, WorkTypeOK, Leave
    <2> QED  BY <2>1, <2>2, <2>3
  <1> QED  BY <1>1, <1>2, <1>3, RowsStay

\* A lease that runs out changes nothing that is remembered of a row.
LEMMA LeaseEndKeeps ==
  ASSUME WInv, NEW i \in Items, LeaseEnds(i)
  PROVE  WInv'
  <1> DEFINE c == [card[i] EXCEPT !.live = FALSE]
  <1>1. card[i] \in Cards
    BY MissionOfRow
  <1>2. card' = [card EXCEPT ![i] = c]
    BY DEF LeaseEnds, WInv, WorkTypeOK
  <1>3. /\ c \in Cards /\ c.status = card[i].status /\ c.mission = card[i].mission
        /\ c.request = card[i].request /\ c.target = card[i].target
        /\ c.lease = card[i].lease /\ c.known = card[i].known
    BY <1>1 DEF Cards
  <1>4. card[i] # NoCard
    BY DEF LeaseEnds, NoCard
  <1> HIDE DEF c
  <1>5. /\ card' \in [Items -> Cards]
        /\ \A k \in Items : /\ card'[k].status = card[k].status
                            /\ card'[k].mission = card[k].mission
                            /\ card'[k].request = card[k].request
                            /\ card'[k].target = card[k].target
                            /\ card'[k].lease = card[k].lease
                            /\ card'[k].known = card[k].known
                            /\ (card[k] = NoCard => card'[k] = NoCard)
    BY <1>2, <1>3, <1>4 DEF WInv, WorkTypeOK
  <1>6. UNCHANGED <<said, filed, older, run, made, acts>>
    BY DEF LeaseEnds
  <1>7. HoldersKnowTheThread'
    BY <1>5, <1>6, LeasesStay
  <1>8. \A x \in Items : Thread(x)' = Thread(x)
    BY <1>5, <1>6, ThreadKeeps
  <1>9. WorkTypeOK' /\ NothingBeforehand' /\ MissionsExist' /\ ProposalIsOpen'
    BY <1>5, <1>6 DEF WInv, WorkTypeOK, NothingBeforehand, Exists, MissionsExist,
                      ProposalIsOpen
  <1>10. OneCardPerMission'
    <2>1. \A k \in Items : card[k].target # None => card[k].target \in Items
      BY DEF WInv, WorkTypeOK, Cards
    <2> QED  BY <1>5, <2>1 DEF WInv, OneCardPerMission
  <1>11. AnswersKnowTheThread'
    BY <1>5, <1>8 DEF WInv, AnswersKnowTheThread
  <1> QED  BY <1>7, <1>9, <1>10, <1>11 DEF WInv

\* The row as an answer of the run leaves it.
LEMMA AnswerRow ==
  ASSUME WInv, NEW r \in Runs, Fenced(r), NEW st \in Answers, NEW propose \in BOOLEAN,
         NEW c, c = AnsweredBy(r, card[run[r].item], st, propose)
  PROVE  /\ c \in Cards /\ c.status = st /\ c.request = propose /\ c.target = None
         /\ c.lease = None /\ c.mission = card[run[r].item].mission
         /\ c.known = Thread(run[r].item)
  <1> SUFFICES ASSUME NEW i, i = run[r].item
               PROVE  /\ c \in Cards /\ c.status = st /\ c.request = propose
                      /\ c.target = None /\ c.lease = None
                      /\ c.mission = card[i].mission /\ c.known = Thread(i)
    OBVIOUS
  <1> DEFINE d == Released(card[i])
             tr == d.trial /\ st \in {"WAITING_INPUT", "BLOCKED"}
  <1>1. /\ i \in Items /\ card[i] \in Cards /\ card[i].target = None
        /\ run[r].read = Thread(i) /\ Thread(i) \in SUBSET Inputs
    BY FencedRow, ThreadsAreInputs DEF WInv
  <1>2. d \in Cards /\ d.target = None /\ d.lease = None /\ d.mission = card[i].mission
    BY <1>1, WaitingIsTyped
  <1>3. c = [d EXCEPT !.status = st, !.request = propose, !.known = Thread(i), !.trial = tr]
    BY <1>1 DEF AnsweredBy
  <1>4. tr \in BOOLEAN
    OBVIOUS
  <1> HIDE DEF d, tr
  <1>5. c = [status |-> st, mission |-> d.mission, request |-> propose,
             target |-> d.target, lease |-> d.lease, live |-> d.live,
             trial |-> tr, known |-> Thread(i)]
    BY <1>2, <1>3 DEF Cards
  <1> QED  BY <1>1, <1>2, <1>4, <1>5 DEF Cards, Answers

\* A row that a run has answered, and perhaps bound to a mission of its own.
LEMMA AnsweredKeeps ==
  ASSUME WInv, NEW i \in Items, card[i].target = None, NEW c \in Cards,
         card' = [card EXCEPT ![i] = c], c.target = None, c.lease = None,
         c.status \in Answers, c.known = Thread(i), c.request => c.mission = None,
         card[i].mission # None => c.mission = card[i].mission,
         c.mission # None => /\ c.mission \in made
                             /\ \A k \in Items \ {i} : card[k].mission # c.mission,
         older' = Touched(i), NEW r \in Runs, run' = [run EXCEPT ![r] = None],
         UNCHANGED <<said, filed, made, acts>>
  PROVE  WInv'
  <1>1. /\ \A k \in Items \ {i} : said'[k] = said[k] /\ filed'[k] = filed[k]
        /\ said' \in [Items -> SUBSET Inputs] /\ filed' \in [Items -> SUBSET Inputs]
        /\ older' \in [Items -> SUBSET Items] /\ run' \in [Runs -> Tasks \cup {None}]
        /\ \A q \in Runs : run'[q] \in {run[q], None}
        /\ made \subseteq made' /\ made' \in SUBSET Missions /\ acts' \in SUBSET (Items \X Inputs)
    BY TouchedIsTyped DEF WInv, WorkTypeOK
  <1>2. Thread(i)' = Thread(i)
    <2>1. \A k \in Items : card'[k].target = card[k].target
      BY DEF WInv, WorkTypeOK
    <2> QED  BY <2>1, ThreadKeeps
  <1>3. HoldersKnowTheThread'
    BY <1>1, LeaseTaken
  <1>4. c.status # "none" /\ c.known = Thread(i)'
    BY <1>2 DEF Answers
  <1>5. c.mission # None => /\ c.mission \in made'
                            /\ \A k \in Items \ {i} : card[k].mission # c.mission
    OBVIOUS
  <1>6. card[i].mission # None => c.mission # None
    OBVIOUS
  <1> QED  BY <1>1, <1>3, <1>4, <1>5, <1>6, OneRow

LEMMA AnswerKeeps ==
  ASSUME WInv, NEW r \in Runs, Answer(r)
  PROVE  WInv'
  <1> SUFFICES ASSUME NEW i, i = run[r].item PROVE WInv'
    OBVIOUS
  <1>1. PICK st \in Answers, propose \in BOOLEAN :
           /\ propose => card[i].mission = None
           /\ card' = [card EXCEPT ![i] = AnsweredBy(r, @, st, propose)]
           /\ older' = Touched(i)
    BY DEF Answer
  <1>2. /\ Fenced(r) /\ run' = [run EXCEPT ![r] = None]
        /\ UNCHANGED <<said, filed, made, acts>>
    BY DEF Answer
  <1>3. i \in Items /\ card[i].target = None
    BY <1>2, FencedRow
  <1> SUFFICES ASSUME NEW c, c = AnsweredBy(r, card[i], st, propose) PROVE WInv'
    OBVIOUS
  <1>4. card' = [card EXCEPT ![i] = c]
    BY <1>1, <1>3 DEF WInv, WorkTypeOK
  <1>5. /\ c \in Cards /\ c.status = st /\ c.request = propose /\ c.target = None
        /\ c.lease = None /\ c.mission = card[i].mission /\ c.known = Thread(i)
    BY <1>2, AnswerRow
  <1>6. c.request => c.mission = None
    BY <1>1, <1>5
  <1>7. c.mission # None => /\ c.mission \in made
                            /\ \A k \in Items \ {i} : card[k].mission # c.mission
    BY <1>3, <1>5, MissionOfRow
  <1> QED  BY <1>1, <1>2, <1>3, <1>4, <1>5, <1>6, <1>7, AnsweredKeeps

\* The row becomes an alias of its mission's card: no row was an alias of
\* either's, and whoever held the card's lease has lost it.
LEMMA RedirectKeeps ==
  ASSUME WInv, NEW r \in Runs, Fenced(r), NEW i \in Items, i = run[r].item,
         NEW m \in Missions, MayLink(i, m), NEW k \in CardsOf(i, m), Redirect(i, k),
         run' = [run EXCEPT ![r] = None], UNCHANGED <<said, filed, made, acts>>
  PROVE  WInv'
  <1>1. k \in Items /\ k # i /\ card[k].mission = m /\ m # None
    BY WorkAssumption DEF CardsOf
  <1>2. /\ card \in [Items -> Cards] /\ card[i].target = None
        /\ card[i].status = "PROCESSING" /\ card[i].lease = r
    BY FencedRow DEF WInv, WorkTypeOK
  <1>3. card[i].mission = None
    BY <1>1 DEF MayLink, WInv, OneCardPerMission
  <1>4. card[k].target = None
    BY <1>1 DEF WInv, OneCardPerMission
  <1>5. \A x \in Items : card[x].target # i
    BY <1>2, <1>3, WorkAssumption DEF WInv, OneCardPerMission
  <1> DEFINE d == Released(card[i])
             c == [d EXCEPT !.target = k, !.request = FALSE]
             w == Waiting(card[k])
  <1>6. card' = [card EXCEPT ![i] = c, ![k] = w]
    <2> DEFINE f == [x \in Items |-> IF card[x].target = i
                                       THEN [card[x] EXCEPT !.target = k] ELSE card[x]]
    <2>1. f = card
      BY <1>2, <1>5
    <2>2. card' = [f EXCEPT ![i] = [Released(@) EXCEPT !.target = k, !.request = FALSE],
                            ![k] = Waiting(@)]
      BY DEF Redirect
    <2> HIDE DEF f
    <2>3. card' = [card EXCEPT ![i] = [Released(@) EXCEPT !.target = k, !.request = FALSE],
                               ![k] = Waiting(@)]
      BY <2>1, <2>2
    <2> QED  BY <1>1, <1>2, <2>3
  <1>7. /\ d \in Cards /\ d.lease = None /\ d.status = "PROCESSING" /\ d.mission = None
        /\ w \in Cards /\ w.lease = None /\ w.status = "RECEIVED" /\ w.request = FALSE
        /\ w.mission = m /\ w.target = None
    BY <1>1, <1>2, <1>3, <1>4, WaitingIsTyped
  <1> HIDE DEF d, w
  <1>8. /\ c \in Cards /\ c.lease = None /\ c.status = "PROCESSING" /\ c.mission = None
        /\ c.target = k /\ c.request = FALSE
    BY <1>1, <1>7 DEF Cards
  <1> HIDE DEF c
  <1>9. /\ card' \in [Items -> Cards] /\ card'[i] = c /\ card'[k] = w
        /\ \A x \in Items \ {i, k} : card'[x] = card[x]
    BY <1>1, <1>2, <1>6, <1>7, <1>8
  <1>10. ASSUME NEW x \in Items \ {i, k}
         PROVE  Thread(x)' = Thread(x)
    <2>1. \A y \in Items : card'[y].target = x <=> card[y].target = x
      BY <1>1, <1>2, <1>4, <1>7, <1>8, <1>9, WorkAssumption
    <2>2. Members(x)' = Members(x)
      BY <2>1 DEF Members
    <2> QED  BY <2>2 DEF Thread, Messages
  <1>11. WorkTypeOK'
    <2>1. older' \in [Items -> SUBSET Items]
      BY <1>1, TouchedIsTyped DEF Redirect, WInv
    <2> QED  BY <1>9, <2>1 DEF WInv, WorkTypeOK
  <1>12. NothingBeforehand'
    BY <1>7, <1>8, <1>9 DEF WInv, NothingBeforehand, Exists
  <1>13. \A x \in Items : card'[x].mission = card[x].mission
    BY <1>1, <1>3, <1>7, <1>8, <1>9
  <1>14. MissionsExist'
    BY <1>13 DEF WInv, MissionsExist
  <1>15. ProposalIsOpen'
    BY <1>7, <1>8, <1>9 DEF WInv, ProposalIsOpen
  <1>16. OneCardPerMission'
    <2>1. ASSUME NEW x \in Items, NEW y \in Items,
                 card'[x].mission # None, card'[x].mission = card'[y].mission
          PROVE  x = y
      BY <1>13, <2>1 DEF WInv, OneCardPerMission
    <2>2. ASSUME NEW x \in Items, card'[x].target # None
          PROVE  /\ card'[card'[x].target].target = None
                 /\ card'[card'[x].target].mission # None
                 /\ card'[x].mission = None /\ card'[x].lease = None
      <3>1. CASE x = i
        BY <1>1, <1>7, <1>8, <1>9, <3>1
      <3>2. CASE x # i
        <4>1. x # k /\ card'[x] = card[x] /\ card[x].target \in Items \ {i}
          BY <1>2, <1>5, <1>7, <1>9, <2>2, <3>2 DEF Cards
        <4>2. /\ card[card[x].target].target = None
              /\ card[card[x].target].mission # None
              /\ card[x].mission = None /\ card[x].lease = None
          BY <2>2, <4>1 DEF WInv, OneCardPerMission
        <4>3. card'[card[x].target].target = None
          BY <1>7, <1>9, <4>1, <4>2
        <4> QED  BY <1>13, <4>1, <4>2, <4>3
      <3> QED  BY <3>1, <3>2
    <2> QED  BY <2>1, <2>2 DEF OneCardPerMission
  <1>17. AnswersKnowTheThread'
    <2> SUFFICES ASSUME NEW x \in Items, card'[x].status \in Answers, card'[x].target = None
                 PROVE  card'[x].known = Thread(x)'
      BY DEF AnswersKnowTheThread
    <2>1. x \in Items \ {i, k}
      BY <1>7, <1>8, <1>9 DEF Answers
    <2> QED  BY <1>9, <1>10, <2>1 DEF WInv, AnswersKnowTheThread
  <1>18. HoldersKnowTheThread'
    <2> SUFFICES ASSUME NEW q \in Runs, run'[q] # None, NEW j, j = run'[q].item,
                        card'[Visible(j)'].status = "PROCESSING", card'[Visible(j)'].lease = q
                 PROVE  /\ Visible(j)' = j
                        /\ run'[q].read = Thread(j)' /\ run'[q].input = Latest(Thread(j)')
      BY DEF HoldersKnowTheThread
    <2>1. run'[q] = run[q] /\ run[q] # None /\ j \in Items
      BY DEF WInv, WorkTypeOK, Tasks
    <2>2. j # i
      <3> SUFFICES ASSUME j = i PROVE FALSE
        OBVIOUS
      <3>1. Visible(j)' = k
        BY <1>1, <1>8, <1>9, WorkAssumption DEF Visible
      <3> QED  BY <1>7, <1>9, <3>1, WorkAssumption
    <2>3. card'[j].target = card[j].target
      BY <1>4, <1>7, <1>9, <2>1, <2>2
    <2>4. Visible(j)' = Visible(j) /\ Visible(j) \in Items /\ Visible(j) # i
      BY <1>5, <2>1, <2>2, <2>3, VisibleIsShown DEF Visible
    <2>5. Visible(j) # k
      BY <1>7, <1>9, <2>4, WorkAssumption
    <2>6. Visible(j) = j /\ run[q].read = Thread(j) /\ run[q].input = Latest(Thread(j))
      BY <1>9, <2>1, <2>4, <2>5 DEF WInv, HoldersKnowTheThread
    <2>7. Thread(j)' = Thread(j)
      BY <1>10, <2>4, <2>5, <2>6
    <2> QED  BY <2>1, <2>4, <2>6, <2>7
  <1> QED  BY <1>11, <1>12, <1>14, <1>15, <1>16, <1>17, <1>18 DEF WInv

LEMMA LinkKeeps ==
  ASSUME WInv, NEW r \in Runs, NEW m \in Missions, Link(r, m)
  PROVE  WInv'
  <1> SUFFICES ASSUME NEW i, i = run[r].item PROVE WInv'
    OBVIOUS
  <1>1. /\ Fenced(r) /\ card[i].mission = None /\ MayLink(i, m)
        /\ UNCHANGED <<said, filed, made, acts>>
    BY DEF Link
  <1>2. /\ i \in Items /\ card[i] \in Cards /\ card[i].target = None
        /\ card[i].status = "PROCESSING" /\ card[i].lease = r /\ card[i].request = FALSE
    BY <1>1, FencedRow
  <1>3. CASE CardsOf(i, m) # {}
    <2>1. PICK k \in CardsOf(i, m) : Redirect(i, k)
      BY <1>3 DEF Link
    <2>2. run' = [run EXCEPT ![r] = None]
      BY <1>3 DEF Link
    <2> QED  BY <1>1, <1>2, <2>1, <2>2, RedirectKeeps
  <1>4. CASE CardsOf(i, m) = {}
    <2> DEFINE c == [card[i] EXCEPT !.mission = m]
    <2>1. card' = [card EXCEPT ![i] = c] /\ UNCHANGED <<older, run>>
      BY <1>2, <1>4 DEF Link, WInv, WorkTypeOK
    <2>2. /\ c \in Cards /\ c.status = "PROCESSING" /\ c.lease = r /\ c.target = None
          /\ c.mission = m /\ c.request = FALSE
      BY <1>2 DEF Cards
    <2> HIDE DEF c
    <2>3. /\ \A k \in Items \ {i} : said'[k] = said[k] /\ filed'[k] = filed[k]
          /\ said' \in [Items -> SUBSET Inputs] /\ filed' \in [Items -> SUBSET Inputs]
          /\ older' \in [Items -> SUBSET Items] /\ run' \in [Runs -> Tasks \cup {None}]
          /\ \A q \in Runs : run'[q] \in {run[q], None}
          /\ made \subseteq made' /\ made' \in SUBSET Missions
          /\ acts' \in SUBSET (Items \X Inputs)
      BY <1>1, <2>1 DEF WInv, WorkTypeOK
    <2>4. \A k \in Items : /\ card'[k].target = card[k].target
                           /\ card'[k].lease = card[k].lease
                           /\ card'[k].status = card[k].status
      BY <1>2, <2>1, <2>2 DEF WInv, WorkTypeOK
    <2>5. HoldersKnowTheThread'
      BY <1>1, <2>3, <2>4, LeasesStay
    <2>6. m \in made' /\ \A k \in Items \ {i} : card[k].mission # m
      BY <1>1, <1>4 DEF MayLink, CardsOf
    <2>7. c.status \notin Answers /\ c.status # "none"
      BY <2>2 DEF Answers
    <2> QED  BY <1>1, <1>2, <2>1, <2>2, <2>3, <2>5, <2>6, <2>7, OneRow
  <1> QED  BY <1>3, <1>4

LEMMA AnswerLinkingKeeps ==
  ASSUME WInv, NEW r \in Runs, NEW m \in Missions, AnswerLinking(r, m)
  PROVE  WInv'
  <1> SUFFICES ASSUME NEW i, i = run[r].item PROVE WInv'
    OBVIOUS
  <1>1. /\ Fenced(r) /\ MayLink(i, m) /\ run' = [run EXCEPT ![r] = None]
        /\ UNCHANGED <<said, filed, made, acts>>
    BY DEF AnswerLinking
  <1>2. i \in Items /\ card[i].target = None
    BY <1>1, FencedRow
  <1>3. CASE CardsOf(i, m) # {}
    <2>1. PICK k \in CardsOf(i, m) : Redirect(i, k)
      BY <1>3 DEF AnswerLinking
    <2> QED  BY <1>1, <1>2, <2>1, RedirectKeeps
  <1>4. CASE CardsOf(i, m) = {}
    <2>1. PICK st \in Answers \ {"COMPLETED"} :
             /\ card' = [card EXCEPT ![i] = [AnsweredBy(r, @, st, FALSE) EXCEPT !.mission = m]]
             /\ older' = Touched(i)
      BY <1>4 DEF AnswerLinking
    <2> SUFFICES ASSUME NEW p \in BOOLEAN, p = FALSE,
                        NEW a, a = AnsweredBy(r, card[i], st, p)
                 PROVE  WInv'
      OBVIOUS
    <2> DEFINE c == [a EXCEPT !.mission = m]
    <2>2. card' = [card EXCEPT ![i] = c]
      BY <1>2, <2>1 DEF WInv, WorkTypeOK
    <2>3. /\ a \in Cards /\ a.status = st /\ a.request = p /\ a.target = None
          /\ a.lease = None /\ a.known = Thread(i)
      <3>1. st \in Answers
        OBVIOUS
      <3> QED  BY <1>1, <3>1, AnswerRow
    <2>4. /\ c \in Cards /\ c.status = st /\ c.request = FALSE /\ c.target = None
          /\ c.lease = None /\ c.known = Thread(i) /\ c.mission = m
      BY <2>3 DEF Cards
    <2> HIDE DEF c
    <2>5. card[i].mission # None => c.mission = card[i].mission
      BY <1>1, <2>4 DEF MayLink
    <2>6. c.mission # None => /\ c.mission \in made
                              /\ \A k \in Items \ {i} : card[k].mission # c.mission
      BY <1>1, <1>4, <2>4 DEF MayLink, CardsOf
    <2> QED  BY <1>1, <1>2, <2>1, <2>2, <2>4, <2>5, <2>6, AnsweredKeeps
  <1> QED  BY <1>3, <1>4

LEMMA StopAnalysisKeeps ==
  ASSUME WInv, NEW r \in Runs, StopAnalysis(r)
  PROVE  WInv'
  <1>1. Fenced(r) /\ Stopped(run[r].item) /\ UNCHANGED <<said, filed, made, acts>>
    BY DEF StopAnalysis
  <1>2. /\ run' \in [Runs -> Tasks \cup {None}]
        /\ \A q \in Runs : run'[q] \in {run[q], None}
    BY DEF StopAnalysis, WInv, WorkTypeOK
  <1> QED  BY <1>1, <1>2, FencedRow, StopKeeps

-----------------------------------------------------------------------------
(* The invariant *)

LEMMA InitWInv == Init => WInv
  <1> SUFFICES ASSUME Init PROVE WInv
    OBVIOUS
  <1>1. NoCard \in Cards
    BY DEF NoCard, Cards
  <1>2. WorkTypeOK
    BY <1>1 DEF Init, WorkTypeOK
  <1>3. \A i \in Items : card[i] = NoCard /\ said[i] = {} /\ filed[i] = {}
    BY DEF Init
  <1>4. NothingBeforehand
    BY <1>3 DEF NothingBeforehand
  <1>5. MissionsExist /\ OneCardPerMission /\ ProposalIsOpen /\ AnswersKnowTheThread
    BY <1>3 DEF MissionsExist, OneCardPerMission, ProposalIsOpen, AnswersKnowTheThread,
                NoCard, Answers
  <1>6. HoldersKnowTheThread
    BY DEF Init, HoldersKnowTheThread
  <1> QED  BY <1>2, <1>4, <1>5, <1>6 DEF WInv

LEMMA NextWInv == WInv /\ [Next]_vars => WInv'
  <1> SUFFICES ASSUME WInv, [Next]_vars PROVE WInv'
    OBVIOUS
  <1>1. CASE OwnerAsks
    <2>1. PICK i \in Items :
             \/ Create(i) \/ Send(i) \/ Upload(i)
             \/ Simulate(i) \/ ProcessFile(i) \/ RemoveRule(i)
             \/ \E m \in Missions : OpenCard(i, m) \/ Accept(i, m)
      BY <1>1 DEF OwnerAsks
    <2> QED  BY <2>1, CreateKeeps, AskKeeps, ComputeKeeps, OpenCardKeeps, AcceptKeeps
  <1>2. CASE OwnerControls
    BY <1>2, CancelKeeps, AskKeeps DEF OwnerControls
  <1>3. CASE \E r \in Runs : RunStep(r)
    <2>1. PICK r \in Runs : RunStep(r)
      BY <1>3
    <2> QED  BY <2>1, ClaimKeeps, ToolKeeps, AnswerKeeps, StopAnalysisKeeps, LinkKeeps,
                AnswerLinkingKeeps DEF RunStep
  <1>4. CASE \E i \in Items : LeaseEnds(i)
    BY <1>4, LeaseEndKeeps
  <1>5. CASE UNCHANGED vars
    <2>1. /\ run' \in [Runs -> Tasks \cup {None}]
          /\ older' \in [Items -> SUBSET Items] /\ acts' \in SUBSET (Items \X Inputs)
      BY <1>5 DEF vars, WInv, WorkTypeOK
    <2>2. UNCHANGED <<card, said, filed, run, made>>
      BY <1>5 DEF vars
    <2> QED  BY <2>1, <2>2, RowsStay
  <1> QED  BY <1>1, <1>2, <1>3, <1>4, <1>5 DEF Next

\* In every reachable state the rows, the threads and the leases fit together.
THEOREM WorkInvariant == Spec => []WInv
  BY InitWInv, NextWInv, PTL DEF Spec

\* Every row, thread and run is always one that the types allow.
THEOREM WorkTypes == Spec => []WorkTypeOK
  <1>1. WInv => WorkTypeOK
    BY DEF WInv
  <1> QED  BY <1>1, WorkInvariant, PTL

\* However an owner's additions, her own computations, a run's answer and the
\* linking of a card to another's mission interleave, no card shows an answer
\* beside something the answer does not account for.
THEOREM AnswersAreComplete == Spec => []AnswersKnowTheThread
  <1>1. WInv => AnswersKnowTheThread
    BY DEF WInv
  <1> QED  BY <1>1, WorkInvariant, PTL

\* No two rows ever hold one mission, and an alias always leads to its card in
\* one step.
THEOREM MissionsHaveOneCard == Spec => []OneCardPerMission
  <1>1. WInv => OneCardPerMission
    BY DEF WInv
  <1> QED  BY <1>1, WorkInvariant, PTL

\* Whatever an owner may accept is the present answer of an open card.
THEOREM ProposalsAreOpen == Spec => []ProposalIsOpen
  <1>1. WInv => ProposalIsOpen
    BY DEF WInv
  <1> QED  BY <1>1, WorkInvariant, PTL

\* A tool that writes acts only under the lease, and the lease is lost as soon
\* as the item is asked anything else: no receipt is for an overtaken request.
THEOREM OnlyTheNewestActs == Spec => OnlyNewestInputActs
  <1> DEFINE A == \A w \in acts' \ acts :
                     /\ w[2] = Latest(Thread(w[1]))
                     /\ card[w[1]].status = "PROCESSING"
  <1>1. ASSUME WInv, Next
        PROVE  A
    <2>1. CASE acts' = acts
      BY <2>1
    <2>2. CASE \E r \in Runs : Tool(r)
      <3>1. PICK r \in Runs : Tool(r)
        BY <2>2
      <3>2. Fenced(r) /\ acts' = acts \cup {<<run[r].item, run[r].input>>}
        BY <3>1 DEF Tool
      <3>3. /\ run[r].input = Latest(Thread(run[r].item))
            /\ card[run[r].item].status = "PROCESSING"
        BY <1>1, <3>2, FencedRow
      <3>4. ASSUME NEW w \in acts' \ acts
            PROVE  w[1] = run[r].item /\ w[2] = run[r].input
        BY <3>2
      <3> QED  BY <3>3, <3>4
    <2>3. \/ acts' = acts
          \/ \E r \in Runs : Tool(r)
      <3>1. CASE OwnerAsks
        BY <3>1 DEF OwnerAsks, Create, Send, Upload, Simulate, ProcessFile, RemoveRule, Direct,
                    OpenCard, Accept
      <3>2. CASE OwnerControls
        BY <3>2 DEF OwnerControls, Cancel, Retry
      <3>3. CASE \E r \in Runs : RunStep(r)
        BY <3>3 DEF RunStep, Claim, Answer, Progress, StopAnalysis, Leave, Link, AnswerLinking
      <3>4. CASE \E i \in Items : LeaseEnds(i)
        BY <3>4 DEF LeaseEnds
      <3> QED  BY <1>1, <3>1, <3>2, <3>3, <3>4 DEF Next
    <2> QED  BY <2>1, <2>2, <2>3
  <1>2. ASSUME UNCHANGED vars
        PROVE  A
    BY <1>2 DEF vars
  <1>3. WInv /\ [Next]_vars => [A]_vars
    BY <1>1, <1>2
  <1> QED  BY <1>3, WorkInvariant, PTL DEF Spec, OnlyNewestInputActs
=============================================================================
