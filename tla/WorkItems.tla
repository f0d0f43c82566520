------------------------------ MODULE WorkItems ------------------------------
(***************************************************************************)
(* Work items (app/work_items): an owner asks in her own words, and a      *)
(* processor takes the item under a lease, calls business tools and        *)
(* publishes an answer.  The owner may add to an item, stop it, retry it,  *)
(* hang files on it or compute on it herself at any moment.                *)
(*                                                                         *)
(* One owner in one store.  Every operation is a transaction under the     *)
(* store lock, so each is one action.  The row's version is compared by    *)
(* everybody who read it earlier: whatever increments it also ends or      *)
(* replaces the lease, so a run holds the version it knows exactly when it *)
(* holds the lease, and an owner's stale request is refused and is no step.*)
(***************************************************************************)
EXTENDS Integers, FiniteSets

CONSTANTS
    Items,       \* rows of work_items
    Missions,    \* missions of the store, existing and to come
    Runs,        \* processor runs; a run takes one item at a time
    MaxInputs,   \* bound: messages and files of the owner, over all items
    None

ASSUME WorkAssumption ==
    /\ IsFiniteSet(Items)
    /\ MaxInputs \in Nat
    /\ None \notin Items \cup Missions \cup Runs

VARIABLES
    card,        \* the rows
    said,        \* per row, the owner's messages, numbered by their time
    filed,       \* per row, the owner's files, numbered in the same order
    older,       \* per row, those with an earlier updated_at
    run,         \* per run, what it took at its claim
    made,        \* the missions that exist, some from before
    acts         \* the receipts of tools that write, by item and input

vars == <<card, said, filed, older, run, made, acts>>

Inputs  == 1 .. MaxInputs
Answers == {"WAITING_INPUT", "RESULT_READY", "BLOCKED", "COMPLETED"}

\* known is a history: the inputs the present answer took into account.
Cards == [status  : {"none", "RECEIVED", "PROCESSING", "CANCELLED"} \cup Answers,
          mission : Missions \cup {None},   \* mission_id
          request : BOOLEAN,                \* mission_request is set
          target  : Items \cup {None},      \* canonical_id
          lease   : Runs \cup {None},       \* the run that knows the token
          live    : BOOLEAN,                \* processing_expires_at is to come
          trial   : BOOLEAN,                \* result holds a calculation
          known   : SUBSET Inputs]

NoCard == [status |-> "none", mission |-> None, request |-> FALSE,
           target |-> None, lease |-> None, live |-> FALSE, trial |-> FALSE,
           known |-> {}]

\* A run remembers the row, the input it works for and the thread it read.
Tasks == [item : Items, input : Inputs, read : SUBSET Inputs]

WorkTypeOK ==
    /\ card  \in [Items -> Cards]
    /\ said  \in [Items -> SUBSET Inputs]
    /\ filed \in [Items -> SUBSET Inputs]
    /\ older \in [Items -> SUBSET Items]
    /\ run   \in [Runs -> Tasks \cup {None}]
    /\ made  \in SUBSET Missions
    /\ acts  \in SUBSET (Items \X Inputs)

Init ==
    /\ card  = [i \in Items |-> NoCard]
    /\ said  = [i \in Items |-> {}]
    /\ filed = [i \in Items |-> {}]
    /\ older = [i \in Items |-> {}]
    /\ run   = [r \in Runs |-> None]
    /\ made  \in SUBSET Missions
    /\ acts  = {}

-----------------------------------------------------------------------------
(* Rows *)

Exists(i)    == card[i].status # "none"
Visible(i)   == IF card[i].target = None THEN i ELSE card[i].target
Members(i)   == {i} \cup {k \in Items : card[k].target = i}
Messages(i)  == UNION {said[k] : k \in Members(i)}
Thread(i)    == Messages(i) \cup UNION {filed[k] : k \in Members(i)}
Latest(S)    == CHOOSE n \in S : \A k \in S : k <= n

\* The number of the owner's next message or file.
NewInput == 1 + Cardinality(UNION {said[i] \cup filed[i] : i \in Items})
MayAsk   == NewInput \in Inputs

\* release()
Released(c) == [c EXCEPT !.lease = None, !.live = FALSE]

\* Mutant: what comes in while a run is at work is left to that run.
WaitingForTheRun(c) ==
    IF c.status = "PROCESSING" THEN c
    ELSE [Released(c) EXCEPT !.status = "RECEIVED", !.request = FALSE]

\* Mutant: a proposal stays when the item is asked something else.
WaitingWithProposal(c) == [Released(c) EXCEPT !.status = "RECEIVED"]

\* What a new request does to a row, whoever makes it.
Waiting(c) == [Released(c) EXCEPT !.status = "RECEIVED", !.request = FALSE]

\* The order q once row i has a new updated_at.
After(q, i) ==
    [k \in Items |-> IF k = i THEN {j \in Items : Exists(j)} \ {i} ELSE q[k] \ {i}]

\* Mutant: changed() counts the version but leaves updated_at.
TouchedNot(i) == IF Exists(i) THEN older ELSE After(older, i)

\* changed(): the row becomes the last of the list.
Touched(i) == After(older, i)

\* create(): a card of its own for a first message.
Create(i) ==
    /\ MayAsk /\ ~Exists(i)
    /\ card'  = [card EXCEPT ![i].status = "RECEIVED"]
    /\ said'  = [said EXCEPT ![i] = {NewInput}]
    /\ older' = Touched(i)
    /\ UNCHANGED <<filed, run, made, acts>>

\* send(): whatever the item's state, it waits for a processor again.
Send(i) ==
    /\ MayAsk /\ Exists(i)
    /\ card'  = [card EXCEPT ![Visible(i)] = Waiting(@)]
    /\ said'  = [said EXCEPT ![Visible(i)] = @ \cup {NewInput}]
    /\ older' = Touched(Visible(i))
    /\ UNCHANGED <<filed, run, made, acts>>

\* upload() of a quotation: as a message, but in the list of files.
Upload(i) ==
    /\ MayAsk /\ Exists(i)
    /\ card'  = [card EXCEPT ![Visible(i)] = Waiting(@)]
    /\ filed' = [filed EXCEPT ![Visible(i)] = @ \cup {NewInput}]
    /\ older' = Touched(Visible(i))
    /\ UNCHANGED <<said, run, made, acts>>

\* from_mission(): the one card of a mission, without a word of the owner.
OpenCard(i, m) ==
    /\ m \in made /\ ~Exists(i)
    /\ \A k \in Items : card[k].mission # m
    /\ card'  = [card EXCEPT ![i].status = "RESULT_READY", ![i].mission = m]
    /\ older' = Touched(i)
    /\ UNCHANGED <<said, filed, run, made, acts>>

\* control(), operation cancel.
Stopped(i) ==
    /\ card'  = [card EXCEPT ![i] = [Waiting(@) EXCEPT !.status = "CANCELLED"]]
    /\ older' = Touched(i)

Cancel(i) ==
    /\ Exists(i)
    /\ Stopped(Visible(i))
    /\ UNCHANGED <<said, filed, run, made, acts>>

\* control(), operation retry: not while a processor is at work.
Retry(i) ==
    /\ Exists(i)
    /\ card[Visible(i)].status \in {"BLOCKED", "CANCELLED", "PROCESSING", "RECEIVED"}
    /\ ~card[Visible(i)].live
    /\ card'  = [card EXCEPT ![Visible(i)] = Waiting(@)]
    /\ older' = Touched(Visible(i))
    /\ UNCHANGED <<said, filed, run, made, acts>>

\* accept_mission(): creates the proposed mission and binds it to the card.
Accept(i, m) ==
    /\ Exists(i)
    /\ LET c == card[Visible(i)]
       IN  c.status = "RESULT_READY" /\ c.request /\ c.mission = None
    /\ m \notin made
    /\ made'  = made \cup {m}
    /\ card'  = [card EXCEPT ![Visible(i)] =
                   [Released(@) EXCEPT !.mission = m, !.request = FALSE]]
    /\ older' = Touched(Visible(i))
    /\ UNCHANGED <<said, filed, run, acts>>

-----------------------------------------------------------------------------
(* What the owner computes herself.  The answer is there at once, and the  *)
(* item no longer waits, whatever else had been asked of it.               *)

\* The owner's own operation, on the newest version of the card, says what it
\* does and leaves the card with an answer.
Direct(i, answered) ==
    /\ MayAsk
    /\ card' = [card EXCEPT ![i] =
                  [Released(answered) EXCEPT !.known = Thread(i) \cup {NewInput}]]
    /\ said' = [said EXCEPT ![i] = @ \cup {NewInput}]
    /\ older' = Touched(i)
    /\ UNCHANGED <<filed, run, made, acts>>

\* planning.simulations.create(): a comparison of quantities, new or repeated
\* on the card that holds one.  On formal demand it proposes a mission.
Simulate(i) ==
    /\ ~Exists(i) \/ card[Visible(i)].trial
    /\ \E propose \in BOOLEAN :
          Direct(Visible(i), [card[Visible(i)] EXCEPT
                                 !.status = "RESULT_READY", !.trial = TRUE,
                                 !.request = propose /\ card[Visible(i)].mission = None])

\* direct_process(): a quotation file is put into a table.
ProcessFile(i) ==
    /\ Exists(i)
    /\ UNION {filed[k] : k \in Members(Visible(i))} # {}
    /\ \E st \in {"WAITING_INPUT", "RESULT_READY"} :
          Direct(Visible(i), [card[Visible(i)] EXCEPT !.status = st,
                                 !.trial = FALSE, !.request = FALSE])

\* direct_remove_rule(): keeps the answer, and a proposal that goes with it.
RemoveRule(i) ==
    /\ Exists(i)
    /\ \E st \in {"WAITING_INPUT", "RESULT_READY", "COMPLETED"} :
          Direct(Visible(i), [card[Visible(i)] EXCEPT !.status = st])

-----------------------------------------------------------------------------
(* The processor (processor.py).  Between its transactions the run talks   *)
(* to a language model and may end at any moment.                          *)

\* What claim_next() lists.
Claimable(i) ==
    /\ card[i].target = None
    /\ card[i].status \in {"RECEIVED", "PROCESSING"}
    /\ ~card[i].live

First(i) == Claimable(i) /\ \A k \in older[i] : ~Claimable(k)

\* claim_next() and claim(): the oldest candidate.  The list is read in a
\* transaction of its own; a candidate whose version has moved on since is
\* passed over, and is not a candidate in its old place any more.  One without
\* a message of the owner raises an error that ends the poll.
Claim(r) ==
    /\ run[r] = None
    /\ \E i \in Items :
          /\ First(i) /\ Messages(i) # {}
          /\ run'   = [run EXCEPT ![r] = [item |-> i, input |-> Latest(Thread(i)),
                                         read |-> Thread(i)]]
          /\ card'  = [card EXCEPT ![i].status = "PROCESSING",
                                   ![i].lease = r, ![i].live = TRUE]
          /\ older' = Touched(i)
    /\ UNCHANGED <<said, filed, made, acts>>

\* Mutant: only the item's status is looked at.
HoldsAnyLease(r) ==
    /\ run[r] # None
    /\ card[Visible(run[r].item)].status = "PROCESSING"

\* fenced(): status, version, token and expiry of the row.
Fenced(r) ==
    /\ run[r] # None
    /\ LET c == card[Visible(run[r].item)]
       IN  c.status = "PROCESSING" /\ c.lease = r /\ c.live

\* call_tool() of a tool that writes: once per item, input and arguments.  A
\* repetition returns the receipt and is no step.
Tool(r) ==
    /\ Fenced(r)
    /\ <<run[r].item, run[r].input>> \notin acts
    /\ acts' = acts \cup {<<run[r].item, run[r].input>>}
    /\ UNCHANGED <<card, said, filed, older, run, made>>

\* Mutant: the card itself is not left out of the search.
CardsOfAny(i, m) == {k \in Items : card[k].mission = m}

\* The other card of a mission, if there is one.
CardsOf(i, m) == {k \in Items \ {i} : card[k].mission = m}

MayLink(i, m) == m \in made /\ card[i].mission \in {None, m}

\* link() to a mission that has its card already: the row becomes an alias of
\* that card, which waits for a processor that reads both threads.
Redirect(i, k) ==
    /\ card'  = [[x \in Items |-> IF card[x].target = i
                                   THEN [card[x] EXCEPT !.target = k] ELSE card[x]]
                    EXCEPT ![i] = [Released(@) EXCEPT !.target = k, !.request = FALSE],
                           ![k] = Waiting(@)]
    /\ older' = After(Touched(i), k)

\* A tool about mission m links the item first.  The run goes on with the
\* linked item, but ends when the item turned out to be another card's.
Link(r, m) ==
    /\ Fenced(r)
    /\ LET i == run[r].item
       IN  /\ card[i].mission = None /\ MayLink(i, m)
           /\ IF CardsOf(i, m) = {}
                 THEN /\ card' = [card EXCEPT ![i].mission = m]
                      /\ UNCHANGED <<older, run>>
                 ELSE /\ \E k \in CardsOf(i, m) : Redirect(i, k)
                      /\ run' = [run EXCEPT ![r] = None]
    /\ UNCHANGED <<said, filed, made, acts>>

\* The row as publish() leaves it with an answer of the run.
AnsweredBy(r, c, st, propose) ==
    [Released(c) EXCEPT !.status = st, !.request = propose, !.known = run[r].read,
                        !.trial = @ /\ st \in {"WAITING_INPUT", "BLOCKED"}]

\* publish() of an answer, which may propose a mission for a card that has
\* none.  A mission's card is never completed by an answer.
Answer(r) ==
    /\ Fenced(r)
    /\ LET i == run[r].item
       IN  \E st \in Answers : \E propose \in BOOLEAN :
              /\ propose => st = "RESULT_READY" /\ card[i].mission = None
              /\ st = "COMPLETED" => card[i].mission = None
              /\ card'  = [card EXCEPT ![i] = AnsweredBy(r, @, st, propose)]
              /\ older' = Touched(i)
    /\ run' = [run EXCEPT ![r] = None]
    /\ UNCHANGED <<said, filed, made, acts>>

\* publish() with link_mission_id, which a run sends for the mission its tools
\* touched: the answer of an item that turns out to be another card's is dropped.
AnswerLinking(r, m) ==
    /\ Fenced(r)
    /\ LET i == run[r].item
       IN  /\ MayLink(i, m)
           /\ IF CardsOf(i, m) = {}
                 THEN \E st \in Answers \ {"COMPLETED"} :
                         /\ card' = [card EXCEPT ![i] =
                               [AnsweredBy(r, @, st, FALSE) EXCEPT !.mission = m]]
                         /\ older' = Touched(i)
                 ELSE \E k \in CardsOf(i, m) : Redirect(i, k)
    /\ run' = [run EXCEPT ![r] = None]
    /\ UNCHANGED <<said, filed, made, acts>>

\* A service that reports progress through the API keeps its lease, with a new
\* version and a new expiry.
Progress(r) ==
    /\ Fenced(r)
    /\ older' = Touched(run[r].item)
    /\ UNCHANGED <<card, said, filed, run, made, acts>>

\* The owner's words ask to stop: the run cancels its own item.
StopAnalysis(r) ==
    /\ Fenced(r)
    /\ Stopped(run[r].item)
    /\ run' = [run EXCEPT ![r] = None]
    /\ UNCHANGED <<said, filed, made, acts>>

\* The run ends without a word: a crash, an error, or the lease is lost.
Leave(r) ==
    /\ run[r] # None
    /\ run' = [run EXCEPT ![r] = None]
    /\ UNCHANGED <<card, said, filed, older, made, acts>>

\* processing_expires_at passes, also under a run that is still at work.
LeaseEnds(i) ==
    /\ card[i].live
    /\ card' = [card EXCEPT ![i].live = FALSE]
    /\ UNCHANGED <<said, filed, older, run, made, acts>>

-----------------------------------------------------------------------------
OwnerAsks ==
    \E i \in Items :
       \/ Create(i) \/ Send(i) \/ Upload(i)
       \/ Simulate(i) \/ ProcessFile(i) \/ RemoveRule(i)
       \/ \E m \in Missions : OpenCard(i, m) \/ Accept(i, m)

OwnerControls == \E i \in Items : Cancel(i) \/ Retry(i)

RunStep(r) ==
    \/ Claim(r) \/ Tool(r) \/ Answer(r) \/ Progress(r) \/ StopAnalysis(r) \/ Leave(r)
    \/ \E m \in Missions : Link(r, m) \/ AnswerLinking(r, m)

Next ==
    \/ OwnerAsks
    \/ OwnerControls
    \/ \E r \in Runs : RunStep(r)
    \/ \E i \in Items : LeaseEnds(i)

Spec == Init /\ [][Next]_vars

\* Idle processes poll (serve), a run ends within run_timeout, and a lease
\* that nobody renews runs out.  Nothing is assumed of the owner.
Fairness ==
    /\ WF_vars(\E r \in Runs : Claim(r))
    /\ \A r \in Runs : WF_vars(Answer(r) \/ Leave(r))
    /\ \A i \in Items : WF_vars(LeaseEnds(i))

FairSpec == Spec /\ Fairness

-----------------------------------------------------------------------------
(* Properties *)

\* No card shows an answer while it holds something the answer does not
\* account for: an answer that was begun before the owner added to the item is
\* never published over the addition (repository.py publish, send, link).
AnswersKnowTheThread ==
    \A i \in Items :
       card[i].status \in Answers /\ card[i].target = None
          => card[i].known = Thread(i)

\* A mission has one card.  An alias leads to it in one step, which is all
\* visible() takes, and neither holds a mission nor can be worked on itself.
OneCardPerMission ==
    /\ \A i, k \in Items :
          card[i].mission # None /\ card[i].mission = card[k].mission => i = k
    /\ \A i \in Items : card[i].target # None =>
          /\ card[card[i].target].target = None
          /\ card[card[i].target].mission # None
          /\ card[i].mission = None /\ card[i].lease = None

\* What the owner may accept is open: a proposal is gone as soon as the item
\* was asked anything else, stopped, or bound to a mission.
ProposalIsOpen ==
    \A i \in Items : card[i].request =>
       /\ card[i].status \in Answers /\ card[i].target = None
       /\ card[i].mission = None

\* A tool acts for the newest request only, never for one that was overtaken
\* or stopped while the run was thinking.
OnlyNewestInputActs ==
    [][\A w \in acts' \ acts :
          /\ w[2] = Latest(Thread(w[1]))
          /\ card[w[1]].status = "PROCESSING"]_vars

\* An item without a message of the owner that a processor would take.
Headless(i) == Claimable(i) /\ Messages(i) = {}

Taken(i) == card[i].status # "RECEIVED" \/ card[i].target # None

\* What waits is taken, unless the owner keeps on stopping and retrying, and
\* as long as no item without a message is in the list.
WaitingItemsAreTaken ==
    ([]~(\E i \in Items : Headless(i)) /\ <>[][~OwnerControls]_vars)
       => \A i \in Items : card[i].status = "RECEIVED" ~> Taken(i)

\* The module's README promises that one item in the list never keeps the
\* others from being taken (work_items/README.md, concurrency section).
NoItemBlocksOthers ==
    <>[][~OwnerControls]_vars
       => \A i \in Items : card[i].status = "RECEIVED" /\ Messages(i) # {} ~> Taken(i)
=============================================================================
