-------------------------- MODULE PurchasingProofs ---------------------------
(***************************************************************************)
(* Proofs that the properties of Purchasing hold for every set of orders,  *)
(* missions and workers, every quantity and price, and every log.          *)
(*                                                                         *)
(* The account of an action is written by four helpers (Close, Settle,     *)
(* Conflict, ApplyReceipt); what each does to the books is a lemma, and    *)
(* the proof for an action that uses one cites it.  On the invariant of    *)
(* the books rests the ledger: sums over purchases and along the log, from *)
(* which follows that every event can be entered and that no purchase      *)
(* waits for a person.  The last part is the refinement.                   *)
(***************************************************************************)
EXTENDS Purchasing, FiniteSetTheorems, TLAPS

USE DEF Pending, Sent, Settled

\* The part of the invariant that is about the account's variables alone.
AccountTypes ==
    /\ cash \in Nat /\ reserved \in Nat
    /\ gate \in Orders \cup {None}
    /\ inTransit \in Nat
    /\ currentAction \in [Missions -> Orders \cup {None}]
    /\ current \subseteq Orders
    /\ status \in [Orders -> {"none"} \cup Pending \cup Settled]
    /\ reservedOf \in [Orders -> Nat]
    /\ manual     \in [Orders -> BOOLEAN]
    /\ ordered    \in [Orders -> Nat]
    /\ received   \in [Orders -> Nat]

Books ==
    /\ AccountTypes
    /\ OneOpenPurchase /\ ReservedWhileSent /\ Solvent

-----------------------------------------------------------------------------
\* What q units cost is an amount, and fewer units never cost more.
LEMMA TotalIsNat == ASSUME NEW q \in Nat PROVE Total(q) \in Nat
  BY SimulatorAssumption DEF Total

LEMMA TotalGrows ==
  ASSUME NEW q \in Nat, NEW r \in Nat, q <= r
  PROVE  Total(q) <= Total(r)
  BY SimulatorAssumption DEF Total

LEMMA AmountIsNat == ASSUME NEW o \in Orders PROVE Amount(o) \in Nat
  BY TotalIsNat, SimulatorAssumption DEF Amount

\* The purchase that is open holds the gate, and all that is reserved is its.
LEMMA OpenHoldsGate ==
  ASSUME Books, NEW o \in Orders, status[o] \in Pending
  PROVE  /\ gate = o /\ reserved = reservedOf[o]
         /\ reservedOf[o] = IF status[o] \in Sent THEN Amount(o) ELSE 0
         /\ currentAction = [m \in Missions |-> IF m = MissionOf[o] THEN o ELSE None]
  <1>1. gate = o /\ gate # None
    BY PurchasingAssumption DEF Books, OneOpenPurchase
  <1>2. currentAction = [m \in Missions |-> currentAction[m]]
    BY DEF Books, AccountTypes
  <1>3. \A m \in Missions : currentAction[m] = IF m = MissionOf[o] THEN o ELSE None
    BY <1>1 DEF Books, OneOpenPurchase
  <1>4. QED  BY <1>1, <1>2, <1>3 DEF Books, ReservedWhileSent

\* Closing an open purchase opens the gate and leaves nothing reserved.
LEMMA ReleaseOpens ==
  ASSUME Books, NEW o \in Orders, status[o] \in Pending, Release(o)
  PROVE  /\ reserved' = 0 /\ gate' = None
         /\ reservedOf' = [p \in Orders |-> 0]
         /\ currentAction' = [m \in Missions |-> None]
  <1>1. /\ gate = o /\ reserved = reservedOf[o] /\ reservedOf[o] \in Nat
        /\ currentAction = [m \in Missions |-> IF m = MissionOf[o] THEN o ELSE None]
    BY OpenHoldsGate DEF Books, AccountTypes
  <1>2. reserved' = 0 /\ gate' = None
    BY <1>1 DEF Release
  <1>3. \A p \in Orders : p # o => reservedOf[p] = 0
    BY <1>1 DEF Books, OneOpenPurchase, ReservedWhileSent
  <1>4. reservedOf' = [p \in Orders |-> 0]
    BY <1>3 DEF Release, Books, AccountTypes
  <1>5. currentAction' = [m \in Missions |-> None]
    BY <1>1, PurchasingAssumption DEF Release
  <1>6. QED  BY <1>2, <1>4, <1>5

LEMMA CloseKeepsBooks ==
  ASSUME Books, NEW o \in Orders, status[o] \in Pending,
         NEW outcome \in {"FAILED", "STALE", "CANCELLED"}, Close(o, outcome)
  PROVE  Books'
  <1>1. /\ reserved' = 0 /\ gate' = None
        /\ reservedOf' = [p \in Orders |-> 0]
        /\ currentAction' = [m \in Missions |-> None]
    BY ReleaseOpens DEF Close
  <1>2. gate = o
    BY OpenHoldsGate
  <1>3. AccountTypes'
    BY <1>1 DEF Close, Books, AccountTypes
  <1>4. \A p \in Orders : status'[p] \notin Pending
    BY <1>2, PurchasingAssumption DEF Close, Books, OneOpenPurchase, AccountTypes
  <1>5. OneOpenPurchase'
    BY <1>1, <1>4, PurchasingAssumption DEF OneOpenPurchase
  <1>6. ReservedWhileSent'
    BY <1>1, <1>4 DEF ReservedWhileSent
  <1>7. Solvent'
    BY <1>1, SimulatorAssumption, PurchasingAssumption
       DEF Close, Books, AccountTypes, Solvent
  <1>8. QED  BY <1>3, <1>5, <1>6, <1>7 DEF Books

\* Paying for no more than was reserved keeps the books.
LEMMA SettleKeepsBooks ==
  ASSUME Books, NEW o \in Orders, status[o] \in Sent, NEW q \in Nat, q <= Qty[o],
         Settle(o, q)
  PROVE  Books'
  <1>1. /\ reserved' = 0 /\ gate' = None
        /\ reservedOf' = [p \in Orders |-> 0]
        /\ currentAction' = [m \in Missions |-> None]
    BY ReleaseOpens DEF Settle
  <1>2. gate = o /\ reserved = Amount(o)
    BY OpenHoldsGate
  <1>3. Total(q) \in Nat /\ Total(q) <= Amount(o) /\ Amount(o) \in Nat
    BY TotalIsNat, TotalGrows, AmountIsNat, SimulatorAssumption DEF Amount
  <1>4. cash' \in Nat /\ Solvent'
    BY <1>1, <1>2, <1>3, SimulatorAssumption, PurchasingAssumption
       DEF Settle, Books, AccountTypes, Solvent
  <1>5. AccountTypes'
    BY <1>1, <1>4 DEF Settle, Books, AccountTypes
  <1>6. \A p \in Orders : status'[p] \notin Pending
    BY <1>2, PurchasingAssumption DEF Settle, Books, OneOpenPurchase, AccountTypes
  <1>7. OneOpenPurchase'
    BY <1>1, <1>6, PurchasingAssumption DEF OneOpenPurchase
  <1>8. ReservedWhileSent'
    BY <1>1, <1>6 DEF ReservedWhileSent
  <1>9. QED  BY <1>4, <1>5, <1>7, <1>8 DEF Books

\* A status that changes within Sent changes nothing of the books.
LEMMA ConflictKeepsBooks ==
  ASSUME Books, NEW o \in Orders, status[o] # "QUEUED", Conflict(o)
  PROVE  Books'
  <1>1. AccountTypes'
    BY DEF Conflict, Books, AccountTypes
  <1>2. \A p \in Orders : /\ status'[p] \in Pending <=> status[p] \in Pending
                          /\ status'[p] \in Sent <=> status[p] \in Sent
    BY DEF Conflict, Books, AccountTypes
  <1>3. OneOpenPurchase'
    BY <1>2 DEF Conflict, Books, OneOpenPurchase
  <1>4. ReservedWhileSent'
    BY <1>2 DEF Conflict, Books, ReservedWhileSent, Amount
  <1>5. Solvent'
    BY DEF Conflict, Books, Solvent
  <1>6. QED  BY <1>1, <1>3, <1>4, <1>5 DEF Books

LEMMA ReceiptKeepsBooks ==
  ASSUME Books, NEW o \in Orders, status[o] # "QUEUED",
         NEW q \in Nat, q <= Qty[o], NEW verdict, ApplyReceipt(o, verdict, q)
  PROVE  Books'
  <1>1. CASE Conflict(o)
    BY <1>1, ConflictKeepsBooks
  <1>2. CASE UNCHANGED account
    BY <1>2 DEF account, Books, AccountTypes, OneOpenPurchase, ReservedWhileSent,
                Solvent, Amount
  <1>3. CASE status[o] \in Sent /\ Close(o, "FAILED")
    BY <1>3, CloseKeepsBooks
  <1>4. CASE status[o] \in Sent /\ Settle(o, q)
    BY <1>4, SettleKeepsBooks
  <1>5. QED  BY <1>1, <1>2, <1>3, <1>4 DEF ApplyReceipt

\* What leaves the money, the gate and the outcomes alone keeps the books.
LEMMA QuietKeepsBooks ==
  ASSUME Books, current' \subseteq Orders, inTransit' \in Nat,
         received' \in [Orders -> Nat],
         UNCHANGED <<cash, reserved, gate, currentAction, status, reservedOf,
                     manual, ordered>>
  PROVE  Books'
  BY DEF Books, AccountTypes, OneOpenPurchase, ReservedWhileSent, Solvent, Amount

\* The event the cursor waits for is one of the log's.
LEMMA NextEvent ==
  ASSUME TypeOK, NEW type, NextIs(type)
  PROVE  /\ cursor + 1 \in 1 .. Len(log)
         /\ log[cursor + 1] \in Events
         /\ type \in {"PURCHASE_ACCEPTED", "GOODS_RECEIVED", "SALE_RECORDED"} =>
               log[cursor + 1].qty \in Nat
  <1>1. cursor \in Nat /\ log \in Seq(Events) /\ cursor < Len(log)
    BY DEF TypeOK, SimTypeOK, NextIs
  <1>2. cursor + 1 \in 1 .. Len(log) /\ log[cursor + 1] \in Events
    BY <1>1
  <1>3. log[cursor + 1].type = type
    BY DEF NextIs
  <1>4. QED  BY <1>2, <1>3 DEF Events, DemandRevised

\* The invariant gives the books.
LEMMA IInvGivesBooks == IInv => Books
  BY DEF IInv, TypeOK, Books, AccountTypes

-----------------------------------------------------------------------------
\* Every step keeps the books: one purchase open, its money reserved.
LEMMA StepBooks == ASSUME IInv, Next PROVE Books'
  <1> Books
    BY IInvGivesBooks
  <1> USE DEF Locally
  <1>quiet. ASSUME UNCHANGED account PROVE Books'
    BY <1>quiet, QuietKeepsBooks DEF account, Books, AccountTypes
  <1>1. ASSUME NEW o \in Orders, Decide(o) PROVE Books'
    <2>1. CASE PublishPlan(o) \/ Reject(o)
      <3>1. current' \subseteq Orders
        BY <2>1 DEF PublishPlan, Reject, Books, AccountTypes
      <3>2. QED
        BY <2>1, <3>1, QuietKeepsBooks
           DEF PublishPlan, Reject, Books, AccountTypes, books, actionRow, missionRow
    <2>2. CASE Approve(o)
      <3>1. status[o] = "none"
        BY <2>2 DEF Approve, IInv, OnlyApprovedPlansAct
      <3>2. AccountTypes'
        BY <2>2 DEF Approve, Books, AccountTypes
      <3>3. \A p \in Orders : /\ status'[p] \in Pending <=> p = o
                              /\ status'[p] \notin Sent
        BY <2>2, PurchasingAssumption
           DEF Approve, Books, OneOpenPurchase, AccountTypes
      <3>4. \A m \in Missions :
               currentAction'[m] = IF m = MissionOf[o] THEN o ELSE None
        BY <2>2, PurchasingAssumption DEF Approve, Books, OneOpenPurchase, AccountTypes
      <3>5. OneOpenPurchase'
        BY <2>2, <3>3, <3>4, PurchasingAssumption DEF Approve, OneOpenPurchase
      <3>6. \A p \in Orders : status[p] \notin Pending
        BY <2>2, PurchasingAssumption DEF Approve, Books, OneOpenPurchase
      <3>7. reserved = 0 /\ \A p \in Orders : reservedOf[p] = 0
        BY <2>2, <3>6 DEF Approve, Books, ReservedWhileSent
      <3>8. ReservedWhileSent'
        BY <2>2, <3>3, <3>7 DEF Approve, ReservedWhileSent
      <3>9. QED
        BY <2>2, <3>2, <3>5, <3>8 DEF Approve, Books, Solvent
    <2>3. QED  BY <1>1, <2>1, <2>2 DEF Decide
  <1>2. ASSUME NEW m \in Missions, ControlMission(m) PROVE Books'
    <2>1. CASE RetirePlan(m)
      BY <2>1, <1>quiet DEF RetirePlan, account, books, actionRow
    <2>2. CASE Pause(m) \/ Resume(m) \/ Complete(m)
      <3>1. current' \subseteq Orders
        BY <2>2 DEF Pause, Resume, Complete, Control, Books, AccountTypes
      <3>2. QED
        BY <2>2, <3>1, QuietKeepsBooks
           DEF Pause, Resume, Complete, Control, Books, AccountTypes
    <2>3. CASE CancelMission(m)
      <3> DEFINE o == currentAction[m]
      <3>1. current' \subseteq Orders
        BY <2>3 DEF CancelMission, Control, Books, AccountTypes
      <3>2. CASE o # None /\ status[o] = "QUEUED"
        <4>1. o \in Orders /\ gate = o /\ MissionOf[o] = m /\ reservedOf[o] = 0
              /\ reserved = 0
          BY <3>2, OpenHoldsGate DEF Books, AccountTypes, OneOpenPurchase
        <4>2. gate' = None /\ currentAction' = [n \in Missions |-> None]
          BY <2>3, <3>2, <4>1, OpenHoldsGate DEF CancelMission
        <4>3. \A p \in Orders : status'[p] \notin Pending /\ reservedOf[p] = 0
          BY <2>3, <3>2, <4>1, PurchasingAssumption
             DEF CancelMission, Books, AccountTypes, OneOpenPurchase, ReservedWhileSent
        <4>4. AccountTypes'
          BY <2>3, <3>1, <3>2, <4>2 DEF CancelMission, Control, Books, AccountTypes
        <4>5. OneOpenPurchase'
          BY <4>2, <4>3, PurchasingAssumption DEF OneOpenPurchase
        <4>6. ReservedWhileSent'
          BY <2>3, <4>1, <4>2, <4>3 DEF CancelMission, Control, ReservedWhileSent
        <4>7. QED
          BY <2>3, <4>4, <4>5, <4>6
             DEF CancelMission, Control, Books, Solvent
      <3>3. CASE ~(o # None /\ status[o] = "QUEUED")
        BY <2>3, <3>1, <3>3, QuietKeepsBooks DEF CancelMission, Control, Books, AccountTypes
      <3>4. QED  BY <3>2, <3>3
    <2>4. QED  BY <1>2, <2>1, <2>2, <2>3 DEF ControlMission
  <1>3. ASSUME NEW o \in Orders, Assist(o) PROVE Books'
    <2>1. Qty[o] \in Nat /\ 0 <= Qty[o]
      BY SimulatorAssumption
    <2>2. CASE SupplierConfirms(o)
      BY <2>1, <2>2, ReceiptKeepsBooks DEF SupplierConfirms, Waiting
    <2>3. CASE SupplierDeclines(o)
      BY <2>1, <2>3, ReceiptKeepsBooks DEF SupplierDeclines, Waiting
    <2>4. ASSUME NEW q \in 0 .. Qty[o] - 1, SupplierOffers(o, q) PROVE Books'
      BY <2>4, <1>quiet DEF SupplierOffers
    <2>5. CASE AcceptPart(o)
      <3>1. reply[o] \in Nat /\ reply[o] <= Qty[o]
        BY <2>1 DEF IInv, TypeOK
      <3>2. QED  BY <2>5, <3>1, ReceiptKeepsBooks DEF AcceptPart, Waiting
    <2>6. CASE Withdraw(o)
      BY <2>6, CloseKeepsBooks DEF Withdraw, Waiting
    <2>7. ASSUME NEW q \in 1 .. Qty[o], RecordArrival(o, q) PROVE Books'
      <3>1. inTransit' \in Nat /\ received' \in [Orders -> Nat] /\ current' \subseteq Orders
        BY <2>1, <2>7 DEF RecordArrival, TakeIn, Books, AccountTypes
      <3>2. QED
        BY <2>7, <3>1, QuietKeepsBooks DEF RecordArrival, missionRow
    <2>8. QED
      BY <1>3, <2>2, <2>3, <2>4, <2>5, <2>6, <2>7 DEF Assist
  <1>4. ASSUME NEW w \in Workers, NEW o \in Orders, Claim(w, o) \/ Handle(w, o)
        PROVE  Books'
    <2>1. CASE RefuseSend(w, o)
      BY <2>1, CloseKeepsBooks DEF RefuseSend
    <2>2. CASE Register(w, o)
      <3>1. Amount(o) \in Nat /\ reserved = 0 /\ gate = o
        BY <2>2, AmountIsNat, OpenHoldsGate DEF Register
      <3>2. AccountTypes'
        BY <2>2, <3>1 DEF Register, beside, Books, AccountTypes
      <3>3. \A p \in Orders : /\ status'[p] \in Pending <=> status[p] \in Pending
                              /\ status'[p] \in Sent <=> p = o
        BY <2>2, <3>1, PurchasingAssumption
           DEF Register, Books, OneOpenPurchase, AccountTypes
      <3>4. OneOpenPurchase'
        BY <2>2, <3>3 DEF Register, Books, OneOpenPurchase
      <3>5. \A p \in Orders : p # o => reservedOf[p] = 0
        BY <2>2, <3>1 DEF Register, Books, OneOpenPurchase, ReservedWhileSent
      <3>6. ReservedWhileSent'
        BY <2>2, <3>1, <3>3, <3>5, PurchasingAssumption
           DEF Register, Books, AccountTypes, ReservedWhileSent, Amount
      <3>7. Solvent'
        <4>1. CashFloor[MissionOf[o]] \in Nat /\ cash \in Nat
          BY PurchasingAssumption DEF Books, AccountTypes
        <4>2. cash - reserved - Amount(o) >= CashFloor[MissionOf[o]]
          BY <2>2 DEF Register, Valid
        <4>3. reserved' = Amount(o) /\ cash' = cash
          BY <2>2, <3>1 DEF Register
        <4>. QED
          BY <3>1, <4>1, <4>2, <4>3 DEF Solvent
      <3>8. QED  BY <3>2, <3>4, <3>6, <3>7 DEF Books
    <2>3. CASE Publish(w, o)
      <3>1. CASE task[w].answer = "nothing"
        BY <2>3, <3>1, <1>quiet DEF Publish, Enter
      <3>2. CASE task[w].answer # "nothing"
        <4>1. status[o] # "QUEUED"
          BY <2>3, <3>2 DEF Publish, At, IInv, SupplierAgrees, PastRegistration
        <4>2. Qty[o] \in Nat /\ Qty[o] <= Qty[o]
          BY SimulatorAssumption
        <4>3. ASSUME status[o] \in Sent, status' = [status EXCEPT ![o] = "UNKNOWN"],
                     UNCHANGED <<cash, reserved, gate, inTransit, currentAction, current,
                                 reservedOf, manual, ordered, received>>
              PROVE  Books'
          <5>1. AccountTypes'
            BY <4>3 DEF Books, AccountTypes
          <5>2. \A p \in Orders : /\ status'[p] \in Pending <=> status[p] \in Pending
                                  /\ status'[p] \in Sent <=> status[p] \in Sent
            BY <4>3 DEF Books, AccountTypes
          <5>3. OneOpenPurchase' /\ ReservedWhileSent'
            BY <4>3, <5>2 DEF Books, OneOpenPurchase, ReservedWhileSent, Amount
          <5>4. QED
            BY <4>3, <5>1, <5>3 DEF Books, Solvent
        <4>4. QED
          BY <2>3, <4>1, <4>2, <4>3, <1>quiet, ReceiptKeepsBooks, ConflictKeepsBooks
             DEF Publish, Enter
      <3>3. QED  BY <3>1, <3>2
    <2>4. CASE ~(RefuseSend(w, o) \/ Register(w, o) \/ Publish(w, o))
      BY <1>4, <2>4, <1>quiet
         DEF Claim, Handle, NothingToSend, Reconcile, Ask, Send, Answer, NoAnswer, Garble,
             Discard, JobFails, account, backend, books, missionRow, actionRow
    <2>5. QED  BY <2>1, <2>2, <2>3, <2>4
  <1>5. ASSUME NEW w \in Workers, Crash(w) PROVE Books'
    BY <1>5, <1>quiet DEF Crash, account, backend, books, missionRow, actionRow
  <1>6. ASSUME NEW o \in Orders,
               LeaseLost(o) \/ RecoverAction(o) \/ Arrive(o) \/ Lose(o)
        PROVE  Books'
    BY <1>6, <1>quiet DEF LeaseLost, RecoverAction, Arrive, Lose, account, backend, books,
                          missionRow, actionRow
  <1>7. CASE Sync
    <2>1. CASE IngestSale \/ IngestDemand
      BY <2>1, QuietKeepsBooks
         DEF IngestSale, IngestDemand, Books, AccountTypes, books, missionRow, actionRow
    <2>2. ASSUME NEW o \in Orders, IngestAccepted(o) PROVE Books'
      <3>1. log[cursor + 1].qty = Qty[o] /\ Qty[o] \in Nat /\ Qty[o] <= Qty[o]
        BY <2>2, NextEvent, SimulatorAssumption
           DEF IngestAccepted, NextIs, IInv, LogIsTrue
      <3>2. QED  BY <2>2, <3>1, ReceiptKeepsBooks DEF IngestAccepted
    <2>3. ASSUME NEW o \in Orders, IngestGoods(o) PROVE Books'
      <3>1. CASE Conflict(o)
        BY <2>3, <3>1, ConflictKeepsBooks DEF IngestGoods
      <3>2. CASE ~Conflict(o)
        <4> DEFINE q == log[cursor + 1].qty
        <4>1. q \in Nat
          BY <2>3, NextEvent DEF IngestGoods, IInv
        <4>2. inTransit' \in Nat /\ received' \in [Orders -> Nat] /\ current' \subseteq Orders
          BY <2>3, <3>2, <4>1 DEF IngestGoods, TakeIn, Books, AccountTypes
        <4>3. QED
          BY <2>3, <3>2, <4>2, QuietKeepsBooks DEF IngestGoods
      <3>3. QED  BY <3>1, <3>2
    <2>4. QED  BY <1>7, <2>1, <2>2, <2>3 DEF Sync
  <1>8. CASE World
    BY <1>8, <1>quiet DEF World, account, backend, books, missionRow, actionRow
  <1>9. QED
    BY <1>1, <1>2, <1>3, <1>4, <1>5, <1>6, <1>7, <1>8 DEF Next

-----------------------------------------------------------------------------
\* How the outcome of an order may move in one step.
Moves(p) ==
    /\ status[p] \in Settled => status'[p] = status[p] /\ ordered'[p] = ordered[p]
    /\ status[p] \in Sent =>
          status'[p] \in Sent \cup {"SUCCEEDED", "FAILED"} \/ p \in Assisted
    /\ status'[p] = "SUCCEEDED" /\ status[p] # "SUCCEEDED" /\ p \notin Assisted =>
          status[p] \in Sent /\ purchase[p] = "ACCEPTED"
    /\ status'[p] = "FAILED" /\ status[p] # "FAILED" /\ p \notin Assisted =>
          status[p] \in Sent /\ purchase[p] = "REJECTED"
    /\ status'[p] = "none" <=> status[p] = "none" /\ plan'[p] # "APPROVED"
    /\ plan[p] = "APPROVED" => plan'[p] = "APPROVED"
    /\ status[p] = "QUEUED" /\ status'[p] = "EXECUTING" => Valid(p)

LEMMA StillMoves ==
  ASSUME IInv, NEW p \in Orders, status'[p] = status[p], ordered'[p] = ordered[p],
         plan'[p] = "APPROVED" <=> plan[p] = "APPROVED"
  PROVE  Moves(p)
  BY DEF Moves, IInv, OnlyApprovedPlansAct

\* What a receipt does to the order it is about, and to no other.
LEMMA ReceiptMoves ==
  ASSUME IInv, NEW o \in Orders, NEW q, NEW verdict \in {"ACCEPTED", "REJECTED"},
         status[o] # "none", status[o] # "QUEUED",
         o \in Assisted \/ purchase[o] = verdict,
         ApplyReceipt(o, verdict, q), UNCHANGED plan
  PROVE  \A p \in Orders : Moves(p)
  <1>1. status \in [Orders -> {"none"} \cup Pending \cup Settled]
        /\ ordered \in [Orders -> Nat]
    BY DEF IInv, TypeOK
  <1>2. TAKE p \in Orders
  <1>3. CASE p # o
    <2>1. status'[p] = status[p] /\ ordered'[p] = ordered[p]
      BY <1>1, <1>3 DEF ApplyReceipt, Conflict, Close, Settle, account
    <2>2. QED  BY <2>1, StillMoves
  <1>4. CASE p = o
    <2>1. CASE Conflict(o) \/ UNCHANGED account
      <3>1. /\ \/ status'[o] = status[o]
               \/ status[o] \in Sent /\ status'[o] = "UNKNOWN"
            /\ ordered'[o] = ordered[o]
        BY <1>1, <2>1 DEF Conflict, account
      <3>2. QED
        BY <1>4, <3>1 DEF Moves, IInv, OnlyApprovedPlansAct
    <2>2. CASE verdict = "REJECTED" /\ status[o] \in Sent /\ Close(o, "FAILED")
      BY <1>1, <1>4, <2>2 DEF Close, Moves
    <2>3. CASE verdict = "ACCEPTED" /\ status[o] \in Sent /\ Settle(o, q)
      BY <1>1, <1>4, <2>3 DEF Settle, Moves
    <2>4. QED  BY <2>1, <2>2, <2>3 DEF ApplyReceipt
  <1>5. QED  BY <1>3, <1>4

LEMMA StepMoves == ASSUME IInv, Next PROVE \A p \in Orders : Moves(p)
  <1> USE DEF Locally
  <1>0. /\ status \in [Orders -> {"none"} \cup Pending \cup Settled]
        /\ ordered \in [Orders -> Nat]
        /\ plan \in [Orders -> {"none", "PENDING_APPROVAL", "APPROVED", "REJECTED",
                                "SUPERSEDED"}]
        /\ currentPlan \in [Missions -> Orders \cup {None}]
    BY DEF IInv, TypeOK
  <1>still. ASSUME UNCHANGED <<status, ordered, plan>>
            PROVE  \A p \in Orders : Moves(p)
    BY <1>still, StillMoves
  <1>1. ASSUME NEW o \in Orders, Decide(o) PROVE \A p \in Orders : Moves(p)
    <2>1. CASE PublishPlan(o) \/ Reject(o)
      <3>1. UNCHANGED <<status, ordered>>
        BY <2>1 DEF PublishPlan, Reject, actionRow
      <3>2. \A p \in Orders : plan'[p] = "APPROVED" <=> plan[p] = "APPROVED"
        BY <1>0, <2>1 DEF PublishPlan, Reject, Superseded
      <3>3. QED  BY <3>1, <3>2, StillMoves
    <2>2. CASE Approve(o)
      <3>1. status[o] = "none"
        BY <2>2 DEF Approve, IInv, OnlyApprovedPlansAct
      <3>2. TAKE p \in Orders
      <3>3. CASE p = o
        BY <1>0, <2>2, <3>1, <3>3 DEF Approve, Moves
      <3>4. CASE p # o
        BY <1>0, <2>2, <3>4, StillMoves DEF Approve
      <3>5. QED  BY <3>3, <3>4
    <2>3. QED  BY <1>1, <2>1, <2>2 DEF Decide
  <1>2. ASSUME NEW m \in Missions, ControlMission(m) PROVE \A p \in Orders : Moves(p)
    <2>1. CASE RetirePlan(m)
      <3>1. UNCHANGED <<status, ordered>>
        BY <2>1 DEF RetirePlan, actionRow
      <3>2. \A p \in Orders : plan'[p] = "APPROVED" <=> plan[p] = "APPROVED"
        BY <1>0, <2>1 DEF RetirePlan
      <3>3. QED  BY <3>1, <3>2, StillMoves
    <2>2. CASE Pause(m) \/ Resume(m) \/ Complete(m)
      <3>1. UNCHANGED <<status, ordered>>
        BY <2>2 DEF Pause, Resume, Complete, Control
      <3>2. \A p \in Orders : plan'[p] = "APPROVED" <=> plan[p] = "APPROVED"
        BY <1>0, <2>2 DEF Pause, Resume, Complete, Control, Superseded
      <3>3. QED  BY <3>1, <3>2, StillMoves
    <2>3. CASE CancelMission(m)
      <3>1. UNCHANGED ordered
        BY <2>3 DEF CancelMission, Control
      <3>2. \A p \in Orders : plan'[p] = "APPROVED" <=> plan[p] = "APPROVED"
        BY <1>0, <2>3 DEF CancelMission, Control, Superseded
      <3>3. \A p \in Orders : \/ status'[p] = status[p]
                              \/ status[p] = "QUEUED" /\ status'[p] = "CANCELLED"
        BY <1>0, <2>3 DEF CancelMission
      <3>4. QED
        BY <3>1, <3>2, <3>3 DEF Moves, IInv, OnlyApprovedPlansAct
    <2>4. QED  BY <1>2, <2>1, <2>2, <2>3 DEF ControlMission
  <1>3. ASSUME NEW o \in Orders, Assist(o) PROVE \A p \in Orders : Moves(p)
    <2>1. CASE SupplierConfirms(o)
      BY <2>1, ReceiptMoves DEF SupplierConfirms, Waiting, beside, planRow
    <2>2. CASE SupplierDeclines(o)
      BY <2>2, ReceiptMoves DEF SupplierDeclines, Waiting, beside, planRow
    <2>3. CASE AcceptPart(o)
      BY <2>3, ReceiptMoves DEF AcceptPart, Waiting, beside, planRow
    <2>4. CASE Withdraw(o)
      <3>1. UNCHANGED <<ordered, plan>>
        BY <2>4 DEF Withdraw, Close, beside, planRow
      <3>2. TAKE p \in Orders
      <3>3. CASE p = o
        BY <1>0, <2>4, <3>3, <3>1
           DEF Withdraw, Close, Waiting, Moves
      <3>4. CASE p # o
        BY <1>0, <2>4, <3>4, <3>1, StillMoves DEF Withdraw, Close
      <3>5. QED  BY <3>3, <3>4
    <2>5. CASE (\E q \in 0 .. Qty[o] - 1 : SupplierOffers(o, q))
               \/ (\E q \in 1 .. Qty[o] : RecordArrival(o, q))
      BY <2>5, <1>still DEF SupplierOffers, RecordArrival, beside, planRow, account
    <2>6. QED  BY <1>3, <2>1, <2>2, <2>3, <2>4, <2>5 DEF Assist
  <1>4. ASSUME NEW w \in Workers, NEW o \in Orders, Claim(w, o) \/ Handle(w, o)
        PROVE  \A p \in Orders : Moves(p)
    <2>1. CASE RefuseSend(w, o) \/ Register(w, o)
      <3>1. UNCHANGED <<ordered, plan>> /\ status[o] = "QUEUED"
        BY <2>1 DEF RefuseSend, Register, Close, beside, planRow
      <3>2. TAKE p \in Orders
      <3>3. CASE p = o
        BY <1>0, <2>1, <3>3, <3>1 DEF RefuseSend, Register, Close, Moves
      <3>4. CASE p # o
        BY <1>0, <2>1, <3>4, <3>1, StillMoves DEF RefuseSend, Register, Close
      <3>5. QED  BY <3>3, <3>4
    <2>2. CASE Publish(w, o)
      <3>1. UNCHANGED plan
        BY <2>2 DEF Publish, beside, planRow
      <3>2. CASE task[w].answer \in {"ACCEPTED", "REJECTED"}
        <4>1. /\ status[o] # "none" /\ status[o] # "QUEUED"
              /\ purchase[o] = task[w].answer
          BY <2>2, <3>2
             DEF Publish, At, IInv, SupplierAgrees, PastRegistration, AnswersAreTrue
        <4>2. ApplyReceipt(o, task[w].answer, Qty[o])
          BY <2>2, <3>2 DEF Publish, Enter
        <4>3. QED  BY <3>1, <3>2, <4>1, <4>2, ReceiptMoves
      <3>3. CASE task[w].answer \notin {"ACCEPTED", "REJECTED"}
        <4>1. task[w].answer # "nothing" => status[o] # "none" /\ status[o] # "QUEUED"
          BY <2>2 DEF Publish, At, IInv, SupplierAgrees, PastRegistration
        <4>2. /\ UNCHANGED ordered
              /\ \A p \in Orders : \/ status'[p] = status[p]
                                   \/ status[p] \in Sent /\ status'[p] = "UNKNOWN"
          BY <1>0, <2>2, <3>3, <4>1 DEF Publish, Enter, Conflict, account
        <4>3. QED
          BY <3>1, <4>2 DEF Moves, IInv, OnlyApprovedPlansAct
      <3>4. QED  BY <3>2, <3>3
    <2>3. CASE ~(RefuseSend(w, o) \/ Register(w, o) \/ Publish(w, o))
      BY <1>4, <2>3, <1>still
         DEF Claim, Handle, NothingToSend, Reconcile, Ask, Send, Answer, NoAnswer, Garble,
             Discard, JobFails, backend, planRow, actionRow
    <2>4. QED  BY <2>1, <2>2, <2>3
  <1>5. ASSUME NEW w \in Workers, Crash(w) PROVE \A p \in Orders : Moves(p)
    BY <1>5, <1>still DEF Crash, backend, planRow, actionRow
  <1>6. ASSUME NEW o \in Orders,
               LeaseLost(o) \/ RecoverAction(o) \/ Arrive(o) \/ Lose(o)
        PROVE  \A p \in Orders : Moves(p)
    BY <1>6, <1>still DEF LeaseLost, RecoverAction, Arrive, Lose, backend, planRow,
                          actionRow
  <1>7. CASE Sync
    <2>1. CASE IngestSale \/ IngestDemand
      BY <2>1, <1>still DEF IngestSale, IngestDemand, planRow, actionRow
    <2>2. ASSUME NEW o \in Orders, IngestAccepted(o) PROVE \A p \in Orders : Moves(p)
      <3>1. /\ status[o] # "none" /\ status[o] # "QUEUED" /\ purchase[o] = "ACCEPTED"
            /\ UNCHANGED plan
        BY <2>2, NextEvent DEF IngestAccepted, NextIs, IInv, LogIsTrue, planRow
      <3>2. ApplyReceipt(o, "ACCEPTED", log[cursor + 1].qty)
        BY <2>2 DEF IngestAccepted
      <3>3. QED  BY <3>1, <3>2, ReceiptMoves
    <2>3. ASSUME NEW o \in Orders, IngestGoods(o) PROVE \A p \in Orders : Moves(p)
      <3>1. UNCHANGED <<ordered, plan>> /\ status' = status
        BY <1>0, <2>3 DEF IngestGoods, Conflict, planRow
      <3>2. QED  BY <3>1, <1>still
    <2>4. QED  BY <1>7, <2>1, <2>2, <2>3 DEF Sync
  <1>8. CASE World
    BY <1>8, <1>still DEF World, backend, planRow, actionRow
  <1>9. QED
    BY <1>1, <1>2, <1>3, <1>4, <1>5, <1>6, <1>7, <1>8 DEF Next

-----------------------------------------------------------------------------
\* A request for order p is on its way, or was made.
Contacted(p) == p \in wire \/ \E w \in Workers : PastRegistration(w, p)

\* What a worker that becomes t has done to order p.
PastIn(t, p) ==
    \/ t.at \in {"asking", "sending", "awaiting"} /\ t.order = p
    \/ t.order = p /\ t.answer # "nothing"

LEMMA WorkerBecomes ==
  ASSUME IInv, NEW w \in Workers, NEW t \in Tasks, Becomes(w, t)
  PROVE  /\ task' \in [Workers -> Tasks]
         /\ task'[w] = t
         /\ \A v \in Workers : v # w => task'[v] = task[v]
         /\ \A p \in Orders : (\E v \in Workers : PastRegistration(v, p)') =>
               (\E v \in Workers : PastRegistration(v, p)) \/ PastIn(t, p)
  <1>1. task \in [Workers -> Tasks]
    BY DEF IInv, TypeOK
  <1>2. /\ task' \in [Workers -> Tasks] /\ task'[w] = t
        /\ \A v \in Workers : v # w => task'[v] = task[v]
    BY <1>1 DEF Becomes
  <1>3. QED  BY <1>2 DEF PastRegistration, At, PastIn

\* Only Arrive decides a purchase, once, and only one that was sent; only the
\* worker that registered a purchase, or found it registered, contacts the
\* supplier about it.
Contacts ==
    /\ \A p \in Orders :
          \/ purchase'[p] = purchase[p]
          \/ /\ purchase[p] = "none" /\ p \in wire /\ status' = status
             /\ purchase'[p] \in {"ACCEPTED", "REJECTED"}
    /\ \A p \in Orders :
          Contacted(p)' => Contacted(p) \/ (status'[p] \in Sent /\ p \notin Assisted)
    /\ AnswersAreTrue'
    /\ task' \in [Workers -> Tasks]
    /\ wire' \subseteq Orders

LEMMA SilentContacts ==
  ASSUME IInv, UNCHANGED <<task, wire, purchase>>
  PROVE  Contacts
  BY DEF Contacts, Contacted, PastRegistration, At, IInv, TypeOK, AnswersAreTrue

LEMMA WorkerContacts ==
  ASSUME IInv, NEW w \in Workers, NEW t \in Tasks, Becomes(w, t),
         UNCHANGED purchase, wire' \subseteq Orders,
         t.at = "idle" <=> t.order = None,
         t.at \in {"idle", "claimed"} => t.answer = "nothing",
         t.answer \in {"ACCEPTED", "REJECTED"} => purchase[t.order] = t.answer,
         \A p \in Orders : PastIn(t, p) \/ p \in wire' =>
            Contacted(p) \/ (status'[p] \in Sent /\ p \notin Assisted)
  PROVE  Contacts
  <1>1. AnswersAreTrue'
    BY WorkerBecomes DEF AnswersAreTrue, IInv
  <1>2. QED
    BY <1>1, WorkerBecomes DEF Contacts, Contacted

LEMMA StepContacts == ASSUME IInv, Next PROVE Contacts
  <1>0. /\ task \in [Workers -> Tasks] /\ wire \subseteq Orders
        /\ purchase \in [Orders -> {"none", "ACCEPTED", "REJECTED"}]
    BY DEF IInv, TypeOK, SimTypeOK
  <1>1. CASE \/ \E o \in Orders : Decide(o) \/ Assist(o)
             \/ \E m \in Missions : ControlMission(m)
             \/ \E o \in Orders : LeaseLost(o) \/ RecoverAction(o)
             \/ Sync
    <2>1. UNCHANGED <<task, wire, simVars>>
      BY <1>1 DEF Decide, PublishPlan, Approve, Reject, Assist, SupplierConfirms,
                  SupplierDeclines, SupplierOffers, AcceptPart, Withdraw, RecordArrival,
                  ControlMission, RetirePlan, Pause, Resume, Complete, CancelMission,
                  Control, LeaseLost, RecoverAction, Sync, IngestSale, IngestDemand,
                  IngestAccepted, IngestGoods, Locally
    <2>2. QED  BY <2>1, SilentContacts DEF simVars
  <1>2. CASE World
    BY <1>2, SilentContacts DEF World, WorldMoves, Deliver, Sell, ReviseDemand
  <1>3. ASSUME NEW o \in Orders, Arrive(o) \/ Lose(o) PROVE Contacts
    <2>1. UNCHANGED <<task, status>> /\ wire' \subseteq wire
      BY <1>3 DEF Arrive, Lose, backend, actionRow
    <2>2. \A p \in Orders :
             \/ purchase'[p] = purchase[p]
             \/ /\ p = o /\ o \in wire /\ purchase[o] = "none"
                /\ purchase'[o] \in {"ACCEPTED", "REJECTED"}
      BY <1>0, <1>3 DEF Arrive, Lose, Submit, SubmitAccepted, SubmitRejected, simVars
    <2>3. AnswersAreTrue'
      <3>1. \A w \in Workers : task[w].answer \in {"ACCEPTED", "REJECTED"} =>
               purchase'[task[w].order] = purchase[task[w].order]
        BY <1>0, <2>2 DEF IInv, AnswersAreTrue, Tasks, Steps
      <3>2. QED  BY <2>1, <3>1 DEF IInv, AnswersAreTrue
    <2>4. \A p \in Orders : Contacted(p)' => Contacted(p)
      BY <2>1 DEF Contacted, PastRegistration, At
    <2>5. QED
      BY <1>0, <2>1, <2>2, <2>3, <2>4 DEF Contacts
  <1>4. ASSUME NEW w \in Workers, NEW o \in Orders, Claim(w, o) \/ Handle(w, o)
        PROVE  Contacts
    <2>1. o # None
      BY PurchasingAssumption
    <2>2. \A a \in {"claimed", "asking", "sending", "awaiting", "answered"}, b \in Answers :
             /\ Doing(a, o, b) \in Tasks
             /\ Doing(a, o, b).at = a /\ Doing(a, o, b).order = o
             /\ Doing(a, o, b).answer = b
      BY DEF Doing, Tasks, Steps
    <2>3. /\ Free \in Tasks /\ Free.at = "idle" /\ Free.order = None
          /\ Free.answer = "nothing"
      BY DEF Free, Tasks, Steps, Answers
    <2>4. CASE Publish(w, o) \/ Discard(w, o) \/ JobFails(w, o)
      <3>1. Becomes(w, Free) /\ UNCHANGED <<purchase, wire>>
        BY <2>4 DEF Publish, Discard, JobFails, simVars
      <3>2. \A p \in Orders : ~PastIn(Free, p)
        BY <2>3 DEF PastIn
      <3>3. QED
        BY <1>0, <2>3, <3>1, <3>2, WorkerContacts DEF Contacted
    <2>5. CASE Claim(w, o) \/ NothingToSend(w, o) \/ RefuseSend(w, o)
      <3>1. PICK a \in {"claimed", "answered"} :
               Becomes(w, Doing(a, o, "nothing")) /\ UNCHANGED <<purchase, wire>>
        BY <2>5 DEF Claim, NothingToSend, RefuseSend, simVars
      <3>2. \A p \in Orders : ~PastIn(Doing(a, o, "nothing"), p)
        BY <2>2 DEF PastIn, Answers
      <3>3. QED
        BY <1>0, <2>1, <2>2, <3>1, <3>2, WorkerContacts DEF Contacted, Answers
    <2>6. CASE Register(w, o)
      <3>1. status'[o] = "EXECUTING" /\ UNCHANGED <<purchase, wire>>
        BY <2>6 DEF Register, simVars, IInv, TypeOK
      <3>2. CASE o \in Assisted
        <4>1. Becomes(w, Doing("answered", o, "nothing"))
          BY <2>6, <3>2 DEF Register
        <4>2. \A p \in Orders : ~PastIn(Doing("answered", o, "nothing"), p)
          BY <2>2 DEF PastIn, Answers
        <4>3. QED
          BY <1>0, <2>1, <2>2, <3>1, <4>1, <4>2, WorkerContacts DEF Contacted, Answers
      <3>3. CASE o \notin Assisted
        <4>1. Becomes(w, Doing("sending", o, "nothing"))
          BY <2>6, <3>3 DEF Register
        <4>2. \A p \in Orders : PastIn(Doing("sending", o, "nothing"), p) => p = o
          BY <2>2 DEF PastIn, Answers
        <4>3. QED
          BY <1>0, <2>1, <2>2, <3>1, <3>3, <4>1, <4>2, WorkerContacts
             DEF Contacted, Answers
      <3>4. QED  BY <3>2, <3>3
    <2>7. CASE Reconcile(w, o)
      <3>1. /\ Becomes(w, Doing("asking", o, "nothing")) /\ UNCHANGED <<purchase, wire>>
            /\ status'[o] \in Sent /\ o \notin Assisted
        BY <2>7 DEF Reconcile, simVars, backend, actionRow
      <3>2. \A p \in Orders : PastIn(Doing("asking", o, "nothing"), p) => p = o
        BY <2>2 DEF PastIn, Answers
      <3>3. QED
        BY <1>0, <2>1, <2>2, <3>1, <3>2, WorkerContacts DEF Contacted, Answers
    <2>8. CASE Ask(w, o) \/ Send(w, o) \/ Answer(w, o) \/ NoAnswer(w, o) \/ Garble(w, o)
      <3>1. Contacted(o)
        BY <2>8 DEF Contacted, PastRegistration, Ask, Send, Answer, NoAnswer, Garble
      <3>2. PICK a \in {"sending", "awaiting", "answered"}, b \in Answers :
               /\ Becomes(w, Doing(a, o, b)) /\ UNCHANGED purchase
               /\ wire' \subseteq wire \cup {o}
               /\ b \in {"ACCEPTED", "REJECTED"} => purchase[o] = b
        <4>1. CASE Ask(w, o)
          <5>1. CASE purchase[o] = "none"
            BY <4>1, <5>1 DEF Ask, simVars, Answers
          <5>2. CASE purchase[o] # "none"
            BY <1>0, <4>1, <5>2 DEF Ask, simVars, Answers
          <5>3. QED  BY <5>1, <5>2
        <4>2. CASE Send(w, o)
          BY <4>2 DEF Send, simVars, Answers
        <4>3. CASE Answer(w, o)
          BY <1>0, <4>3 DEF Answer, simVars, Answers
        <4>4. CASE NoAnswer(w, o)
          BY <4>4 DEF NoAnswer, simVars, Answers
        <4>5. CASE Garble(w, o)
          BY <4>5 DEF Garble, simVars, Answers
        <4>6. QED  BY <2>8, <4>1, <4>2, <4>3, <4>4, <4>5
      <3>3. \A p \in Orders : PastIn(Doing(a, o, b), p) => p = o
        BY <2>2 DEF PastIn
      <3>4. QED
        BY <1>0, <2>1, <2>2, <3>1, <3>2, <3>3, WorkerContacts DEF Contacted
    <2>9. QED
      BY <1>4, <2>4, <2>5, <2>6, <2>7, <2>8 DEF Handle
  <1>5. ASSUME NEW w \in Workers, Crash(w) PROVE Contacts
    <2>1. /\ Free \in Tasks /\ Free.at = "idle" /\ Free.order = None
          /\ Free.answer = "nothing"
      BY DEF Free, Tasks, Steps, Answers
    <2>2. Becomes(w, Free) /\ UNCHANGED <<purchase, wire>>
      BY <1>5 DEF Crash, simVars
    <2>3. \A p \in Orders : ~PastIn(Free, p)
      BY <2>1 DEF PastIn
    <2>4. QED  BY <1>0, <2>1, <2>2, <2>3, WorkerContacts DEF Contacted
  <1>6. QED
    BY <1>1, <1>2, <1>3, <1>4, <1>5 DEF Next

\* Both sides keep agreeing.
LEMMA StepAgrees == ASSUME IInv, Next PROVE SupplierAgrees'
  <1>1. \A p \in Orders : Moves(p)
    BY StepMoves
  <1>2. Contacts
    BY StepContacts
  <1>3. SUFFICES ASSUME NEW p \in Orders
        PROVE  /\ Contacted(p)' =>
                     status'[p] \in Sent \cup {"SUCCEEDED", "FAILED"} /\ p \notin Assisted
               /\ purchase'[p] = "ACCEPTED" => status'[p] \in Sent \cup {"SUCCEEDED"}
               /\ purchase'[p] = "REJECTED" => status'[p] \in Sent \cup {"FAILED"}
               /\ status'[p] \in {"SUCCEEDED", "FAILED"} /\ p \notin Assisted =>
                     purchase'[p] # "none"
               /\ purchase'[p] # "none" => p \notin Assisted
    BY DEF SupplierAgrees, Contacted
  <1>4. /\ Contacted(p) =>
              status[p] \in Sent \cup {"SUCCEEDED", "FAILED"} /\ p \notin Assisted
        /\ purchase[p] = "ACCEPTED" => status[p] \in Sent \cup {"SUCCEEDED"}
        /\ purchase[p] = "REJECTED" => status[p] \in Sent \cup {"FAILED"}
        /\ status[p] \in {"SUCCEEDED", "FAILED"} /\ p \notin Assisted =>
              purchase[p] # "none"
        /\ purchase[p] # "none" => p \notin Assisted
    BY DEF IInv, SupplierAgrees, Contacted
  <1>5. status[p] \in {"none"} \cup Pending \cup Settled
    BY DEF IInv, TypeOK
  <1>6. Contacted(p)' =>
           status'[p] \in Sent \cup {"SUCCEEDED", "FAILED"} /\ p \notin Assisted
    BY <1>1, <1>2, <1>4 DEF Contacts, Moves
  <1>7. CASE purchase'[p] = purchase[p]
    BY <1>1, <1>4, <1>5, <1>6, <1>7 DEF Moves
  <1>8. CASE purchase'[p] # purchase[p]
    <2>1. Contacted(p) /\ purchase[p] = "none" /\ status'[p] = status[p]
          /\ purchase'[p] \in {"ACCEPTED", "REJECTED"}
      BY <1>2, <1>8 DEF Contacts, Contacted
    <2>2. QED  BY <1>4, <1>6, <2>1
  <1>9. QED  BY <1>7, <1>8

-----------------------------------------------------------------------------
\* The simulator's own step, whoever caused it, keeps its types and its log true.
LEMMA AppendTrue ==
  ASSUME SimTypeOK, LogIsTrue, NEW e \in Events, log' = Append(log, e),
         \A p \in Orders : purchase[p] = "ACCEPTED" => purchase'[p] = "ACCEPTED",
         e.type = "PURCHASE_ACCEPTED" =>
            purchase'[e.order] = "ACCEPTED" /\ e.qty = Qty[e.order]
  PROVE  log' \in Seq(Events) /\ LogIsTrue'
  <1>1. log \in Seq(Events) /\ log' \in Seq(Events) /\ Len(log') = Len(log) + 1
    BY DEF SimTypeOK
  <1>2. \A i \in 1 .. Len(log) : log'[i] = log[i] /\ log[i] \in Events
    BY <1>1 DEF SimTypeOK
  <1>3. log'[Len(log) + 1] = e
    BY <1>1
  <1>4. SUFFICES ASSUME NEW i \in 1 .. Len(log'), log'[i].type = "PURCHASE_ACCEPTED"
        PROVE  purchase'[log'[i].order] = "ACCEPTED" /\ log'[i].qty = Qty[log'[i].order]
    BY <1>1 DEF LogIsTrue
  <1>5. CASE i \in 1 .. Len(log)
    <2>1. log[i].order \in Orders
      BY <1>2, <1>4, <1>5 DEF Events, DemandRevised
    <2>2. QED  BY <1>2, <1>4, <1>5, <2>1 DEF LogIsTrue
  <1>6. CASE i = Len(log) + 1
    BY <1>3, <1>4, <1>6
  <1>7. QED  BY <1>1, <1>4, <1>5, <1>6

LEMMA SameLogTrue ==
  ASSUME SimTypeOK, LogIsTrue, UNCHANGED log,
         \A p \in Orders : purchase[p] = "ACCEPTED" => purchase'[p] = "ACCEPTED"
  PROVE  LogIsTrue'
  <1>1. \A i \in 1 .. Len(log) : log[i].type = "PURCHASE_ACCEPTED" => log[i].order \in Orders
    BY DEF SimTypeOK, Events, DemandRevised
  <1>2. QED  BY <1>1 DEF LogIsTrue

\* The supplier moves on its own, or by a request that arrives.
LEMMA SupplierSteps ==
  ASSUME Next
  PROVE  \/ UNCHANGED simVars
         \/ UNCHANGED backend /\ (WorldMoves \/ \E o \in Orders : Submit(o))
  BY DEF Next, Decide, PublishPlan, Approve, Reject, Assist, SupplierConfirms,
         SupplierDeclines, SupplierOffers, AcceptPart, Withdraw, RecordArrival,
         ControlMission, RetirePlan, Pause, Resume, Complete, CancelMission, Control,
         Claim, Handle, NothingToSend, RefuseSend, Register, Reconcile, Ask, Send,
         Answer, NoAnswer, Garble, Publish, Discard, JobFails, Crash, LeaseLost,
         RecoverAction, Arrive, Lose, Sync, IngestSale, IngestDemand, IngestAccepted,
         IngestGoods, Locally, World

LEMMA StepSimulator == ASSUME IInv, Next PROVE SimTypeOK' /\ LogIsTrue'
  <1>0. /\ SimTypeOK /\ LogIsTrue
        /\ \A o \in Orders : Qty[o] \in Nat /\ Total(Qty[o]) \in Nat
    BY TotalIsNat, SimulatorAssumption DEF IInv, TypeOK
  <1>1. CASE UNCHANGED simVars
    BY <1>0, <1>1, SameLogTrue DEF simVars, SimTypeOK
  <1>2. ASSUME NEW o \in Orders, Submit(o) PROVE SimTypeOK' /\ LogIsTrue'
    <2>1. CASE SubmitAccepted(o)
      <3>1. PurchaseAccepted(o) \in Events
        BY <1>0 DEF PurchaseAccepted, Events
      <3>2. log' \in Seq(Events) /\ LogIsTrue'
        BY <1>0, <2>1, <3>1, AppendTrue DEF SubmitAccepted, PurchaseAccepted, SimTypeOK
      <3>3. QED
        BY <1>0, <2>1, <3>2 DEF SubmitAccepted, SimTypeOK
    <2>2. CASE SubmitRejected(o)
      <3>1. LogIsTrue'
        BY <1>0, <2>2, SameLogTrue DEF SubmitRejected, SimTypeOK
      <3>2. QED
        BY <1>0, <2>2, <3>1 DEF SubmitRejected, SimTypeOK
    <2>3. QED  BY <1>2, <2>1, <2>2 DEF Submit
  <1>3. CASE WorldMoves
    <2>1. ASSUME NEW o \in Orders, NEW q \in 1 .. Qty[o], Deliver(o, q)
          PROVE  SimTypeOK' /\ LogIsTrue'
      <3>1. GoodsReceived(o, q) \in Events /\ q \in Nat
        BY <1>0 DEF GoodsReceived, Events
      <3>2. log' \in Seq(Events) /\ LogIsTrue'
        BY <1>0, <2>1, <3>1, AppendTrue DEF Deliver, GoodsReceived
      <3>3. QED
        BY <1>0, <2>1, <3>1, <3>2 DEF Deliver, SimTypeOK
    <2>2. ASSUME NEW q \in 1 .. simOnHand, Sell(q) PROVE SimTypeOK' /\ LogIsTrue'
      <3>1. SaleRecorded(q) \in Events /\ q \in Nat
        BY <1>0 DEF SaleRecorded, Events, SimTypeOK
      <3>2. log' \in Seq(Events) /\ LogIsTrue'
        BY <1>0, <2>2, <3>1, AppendTrue DEF Sell, SaleRecorded
      <3>3. QED
        BY <1>0, <2>2, <3>1, <3>2 DEF Sell, SimTypeOK
    <2>3. CASE ReviseDemand
      <3>1. DemandRevised \in Events /\ DemandRevised.type # "PURCHASE_ACCEPTED"
        BY DEF DemandRevised, Events
      <3>2. log' \in Seq(Events) /\ LogIsTrue'
        BY <1>0, <2>3, <3>1, AppendTrue DEF ReviseDemand
      <3>3. QED
        BY <1>0, <2>3, <3>2 DEF ReviseDemand, SimTypeOK
    <2>4. QED  BY <1>3, <2>1, <2>2, <2>3 DEF WorldMoves
  <1>4. QED  BY <1>1, <1>2, <1>3, SupplierSteps

\* What of the type invariant is neither of the books nor of the simulator.
RestTypes ==
    /\ onHand \in Nat /\ cursor \in Nat
    /\ missionStatus \in [Missions -> {"ACTIVE", "PAUSED", "COMPLETED", "CANCELLED"}]
    /\ currentPlan   \in [Missions -> Orders \cup {None}]
    /\ plan \in [Orders -> {"none", "PENDING_APPROVAL", "APPROVED", "REJECTED",
                            "SUPERSEDED"}]
    /\ seen  \in [Orders -> Nat \X Nat \X Nat \X Nat]
    /\ reply \in [Orders -> Nat] /\ \A o \in Orders : reply[o] < Qty[o]
    /\ job   \in [Orders -> {"none", "queued", "running"}]
    /\ owner \in [Orders -> Workers \cup {None}]

LEMMA StepRestTypes == ASSUME IInv, Next PROVE RestTypes'
  <1> USE DEF Locally
  <1>0. RestTypes /\ TypeOK
    BY DEF RestTypes, IInv, TypeOK
  <1>still. ASSUME UNCHANGED <<onHand, cursor, missionStatus, currentPlan, plan, seen,
                               reply, job, owner>>
            PROVE  RestTypes'
    BY <1>still, <1>0 DEF RestTypes
  <1>1. ASSUME NEW o \in Orders, Decide(o) PROVE RestTypes'
    <2>1. CASE PublishPlan(o)
      <3>1. State \in Nat \X Nat \X Nat \X Nat
        BY <1>0 DEF State, TypeOK
      <3>2. MissionOf[o] \in Missions
        BY PurchasingAssumption
      <3>3. QED
        BY <1>0, <2>1, <3>1, <3>2
           DEF PublishPlan, RestTypes, Superseded, books, actionRow, jobRow
    <2>2. CASE Approve(o)
      BY <1>0, <2>2 DEF Approve, RestTypes
    <2>3. CASE Reject(o)
      BY <1>0, <2>3 DEF Reject, RestTypes, books, missionRow, actionRow, jobRow
    <2>4. QED  BY <1>1, <2>1, <2>2, <2>3 DEF Decide
  <1>2. ASSUME NEW m \in Missions, ControlMission(m) PROVE RestTypes'
    <2>1. CASE RetirePlan(m)
      BY <1>0, <2>1 DEF RetirePlan, RestTypes, books, actionRow, jobRow
    <2>2. CASE Pause(m) \/ Resume(m) \/ Complete(m) \/ CancelMission(m)
      <3>1. PICK new \in {"ACTIVE", "PAUSED", "COMPLETED", "CANCELLED"} : Control(m, new)
        BY <2>2 DEF Pause, Resume, Complete, CancelMission
      <3>2. QED
        BY <1>0, <3>1 DEF Control, RestTypes, Superseded, jobRow
    <2>3. QED  BY <1>2, <2>1, <2>2 DEF ControlMission
  <1>3. ASSUME NEW o \in Orders, Assist(o) PROVE RestTypes'
    <2>0. Qty[o] \in Nat \ {0}
      BY SimulatorAssumption
    <2>1. CASE SupplierConfirms(o) \/ SupplierDeclines(o)
      <3>1. /\ reply' = [reply EXCEPT ![o] = 0]
            /\ UNCHANGED <<onHand, cursor, missionStatus, currentPlan, plan, seen, job,
                           owner>>
        BY <2>1 DEF SupplierConfirms, SupplierDeclines, beside, planRow, jobRow
      <3>2. QED  BY <1>0, <2>0, <3>1 DEF RestTypes
    <2>2. ASSUME NEW q \in 0 .. Qty[o] - 1, SupplierOffers(o, q) PROVE RestTypes'
      BY <1>0, <2>0, <2>2 DEF SupplierOffers, RestTypes, beside, planRow, jobRow
    <2>3. CASE AcceptPart(o) \/ Withdraw(o)
      BY <2>3, <1>still DEF AcceptPart, Withdraw, beside, planRow, jobRow
    <2>4. ASSUME NEW q \in 1 .. Qty[o], RecordArrival(o, q) PROVE RestTypes'
      BY <1>0, <2>0, <2>4 DEF RecordArrival, TakeIn, RestTypes, missionRow, planRow, jobRow
    <2>5. QED  BY <1>3, <2>1, <2>2, <2>3, <2>4 DEF Assist
  <1>4. ASSUME NEW w \in Workers, NEW o \in Orders, Claim(w, o) \/ Handle(w, o)
        PROVE  RestTypes'
    <2>1. CASE Claim(w, o) \/ JobFails(w, o) \/ Publish(w, o)
      <3>1. UNCHANGED <<onHand, cursor, missionStatus, currentPlan, plan, seen, reply>>
        BY <2>1 DEF Claim, JobFails, Publish, beside, books, missionRow, planRow, actionRow
      <3>2. /\ job' \in [Orders -> {"none", "queued", "running"}]
            /\ owner' \in [Orders -> Workers \cup {None}]
        BY <1>0, <2>1 DEF Claim, JobFails, Publish, RestTypes
      <3>3. QED  BY <1>0, <3>1, <3>2 DEF RestTypes
    <2>2. CASE ~(Claim(w, o) \/ JobFails(w, o) \/ Publish(w, o))
      BY <1>4, <2>2, <1>still
         DEF Handle, NothingToSend, RefuseSend, Register, Reconcile, Ask, Send, Answer,
             NoAnswer, Garble, Discard, backend, beside, books, missionRow, planRow,
             actionRow, jobRow
    <2>3. QED  BY <2>1, <2>2
  <1>5. ASSUME NEW w \in Workers, Crash(w) PROVE RestTypes'
    BY <1>5, <1>still DEF Crash, backend, books, missionRow, planRow, actionRow, jobRow
  <1>6. ASSUME NEW o \in Orders,
               LeaseLost(o) \/ RecoverAction(o) \/ Arrive(o) \/ Lose(o)
        PROVE  RestTypes'
    <2>1. CASE Arrive(o) \/ Lose(o)
      BY <2>1, <1>still
         DEF Arrive, Lose, backend, books, missionRow, planRow, actionRow, jobRow
    <2>2. CASE LeaseLost(o) \/ RecoverAction(o)
      BY <1>0, <2>2
         DEF LeaseLost, RecoverAction, RestTypes, books, missionRow, planRow, actionRow
    <2>3. QED  BY <1>6, <2>1, <2>2
  <1>7. CASE Sync
    <2>1. CASE IngestSale
      <3>1. log[cursor + 1].qty \in Nat
        BY <1>0, <2>1, NextEvent DEF IngestSale
      <3>2. QED
        BY <1>0, <2>1, <3>1 DEF IngestSale, RestTypes, missionRow, planRow, actionRow, jobRow
    <2>2. CASE IngestDemand
      BY <1>0, <2>2 DEF IngestDemand, RestTypes, books, missionRow, planRow, actionRow, jobRow
    <2>3. ASSUME NEW o \in Orders, IngestAccepted(o) PROVE RestTypes'
      BY <1>0, <2>3 DEF IngestAccepted, RestTypes, planRow, jobRow
    <2>4. ASSUME NEW o \in Orders, IngestGoods(o) PROVE RestTypes'
      <3>1. log[cursor + 1].qty \in Nat
        BY <1>0, <2>4, NextEvent DEF IngestGoods
      <3>2. /\ onHand' \in Nat /\ cursor' \in Nat
            /\ UNCHANGED <<missionStatus, currentPlan, plan, seen, reply, job, owner>>
        BY <1>0, <2>4, <3>1 DEF IngestGoods, TakeIn, RestTypes, planRow, jobRow
      <3>3. QED  BY <1>0, <3>2 DEF RestTypes
    <2>5. QED  BY <1>7, <2>1, <2>2, <2>3, <2>4 DEF Sync
  <1>8. CASE World
    BY <1>8, <1>still DEF World, backend, books, missionRow, planRow, actionRow, jobRow
  <1>9. QED
    BY <1>1, <1>2, <1>3, <1>4, <1>5, <1>6, <1>7, <1>8 DEF Next

-----------------------------------------------------------------------------
\* A step leaves plans current only if it leaves the books they were made from.
LEMMA StepPlans == ASSUME IInv, Next PROVE OnlyApprovedPlansAct' /\ CurrentPlansFit'
  <1> USE DEF Locally
  <1>0. /\ reserved \in Nat
        /\ seen \in [Orders -> Nat \X Nat \X Nat \X Nat]
        /\ \A o \in Orders : status[o] = "QUEUED" => reservedOf[o] = 0
    BY DEF IInv, TypeOK, ReservedWhileSent
  <1>1. OnlyApprovedPlansAct'
    BY StepMoves DEF Moves, IInv, OnlyApprovedPlansAct
  <1>fits. ASSUME State' = State, seen' = seen, current' \subseteq current
           PROVE  CurrentPlansFit'
    BY <1>fits DEF IInv, CurrentPlansFit
  <1>none. ASSUME current' = {} PROVE CurrentPlansFit'
    BY <1>none DEF CurrentPlansFit
  <1>receipt. ASSUME NEW o \in Orders, NEW q, NEW verdict, ApplyReceipt(o, verdict, q),
                     UNCHANGED <<onHand, seen>>
              PROVE  CurrentPlansFit'
    <2>1. \/ current' = {}
          \/ UNCHANGED <<cash, reserved, inTransit, current>>
      BY <1>0, <1>receipt
         DEF ApplyReceipt, Conflict, Close, Release, Settle, account, IInv, TypeOK
    <2>2. QED  BY <2>1, <1>receipt, <1>fits, <1>none DEF State
  <1>2. ASSUME NEW o \in Orders, Decide(o) PROVE CurrentPlansFit'
    <2>1. CASE PublishPlan(o)
      <3>1. State' = State /\ seen' = [seen EXCEPT ![o] = State]
            /\ current' \subseteq current \cup {o}
        BY <2>1 DEF PublishPlan, State, books
      <3>2. QED
        BY <1>0, <3>1 DEF IInv, TypeOK, CurrentPlansFit
    <2>2. CASE Approve(o) \/ Reject(o)
      BY <2>2, <1>fits DEF Approve, Reject, State, books
    <2>3. QED  BY <1>2, <2>1, <2>2 DEF Decide
  <1>3. ASSUME NEW m \in Missions, ControlMission(m) PROVE CurrentPlansFit'
    BY <1>3, <1>fits DEF ControlMission, RetirePlan, Pause, Resume, Complete,
                         CancelMission, Control, State, books
  <1>4. ASSUME NEW o \in Orders, Assist(o) PROVE CurrentPlansFit'
    <2>1. CASE SupplierConfirms(o) \/ SupplierDeclines(o) \/ AcceptPart(o)
      BY <2>1, <1>receipt
         DEF SupplierConfirms, SupplierDeclines, AcceptPart, beside, planRow
    <2>2. CASE \E q \in 0 .. Qty[o] - 1 : SupplierOffers(o, q)
      BY <2>2, <1>fits DEF SupplierOffers, beside, planRow, account, State
    <2>3. CASE Withdraw(o)
      <3>1. current' = {} \/ UNCHANGED <<cash, reserved, inTransit, current>>
        BY <1>0, <2>3 DEF Withdraw, Close, Release
      <3>2. QED
        BY <2>3, <3>1, <1>fits, <1>none DEF Withdraw, beside, planRow, State
    <2>4. CASE \E q \in 1 .. Qty[o] : RecordArrival(o, q)
      BY <2>4, <1>none DEF RecordArrival, TakeIn
    <2>5. QED  BY <1>4, <2>1, <2>2, <2>3, <2>4 DEF Assist
  <1>5. ASSUME NEW w \in Workers, NEW o \in Orders, Claim(w, o) \/ Handle(w, o)
        PROVE  CurrentPlansFit'
    <2>1. CASE RefuseSend(w, o)
      <3>1. UNCHANGED <<cash, reserved, inTransit, current, onHand, seen>>
        BY <1>0, <2>1 DEF RefuseSend, Close, Release, beside, planRow
      <3>2. QED  BY <3>1, <1>fits DEF State
    <2>2. CASE Register(w, o)
      BY <2>2, <1>none DEF Register
    <2>3. CASE Publish(w, o)
      <3>1. UNCHANGED <<onHand, seen>>
        BY <2>3 DEF Publish, beside, planRow
      <3>2. CASE ApplyReceipt(o, task[w].answer, Qty[o])
        BY <3>1, <3>2, <1>receipt
      <3>3. CASE ~ApplyReceipt(o, task[w].answer, Qty[o])
        <4>1. UNCHANGED <<cash, reserved, inTransit, current>>
          BY <2>3, <3>3 DEF Publish, Enter, Conflict, account
        <4>2. QED  BY <3>1, <4>1, <1>fits DEF State
      <3>4. QED  BY <3>2, <3>3
    <2>4. CASE ~(RefuseSend(w, o) \/ Register(w, o) \/ Publish(w, o))
      <3>1. UNCHANGED <<cash, reserved, inTransit, current, onHand, seen>>
        BY <1>5, <2>4
           DEF Claim, Handle, NothingToSend, Reconcile, Ask, Send, Answer, NoAnswer,
               Garble, Discard, JobFails, backend, books, planRow
      <3>2. QED  BY <3>1, <1>fits DEF State
    <2>5. QED  BY <2>1, <2>2, <2>3, <2>4
  <1>6. ASSUME NEW w \in Workers, Crash(w) PROVE CurrentPlansFit'
    BY <1>6, <1>fits DEF Crash, backend, books, planRow, State
  <1>7. ASSUME NEW o \in Orders,
               LeaseLost(o) \/ RecoverAction(o) \/ Arrive(o) \/ Lose(o)
        PROVE  CurrentPlansFit'
    BY <1>7, <1>fits DEF LeaseLost, RecoverAction, Arrive, Lose, backend, books, planRow,
                         State
  <1>8. ASSUME Sync PROVE CurrentPlansFit'
    <2>1. ASSUME IngestSale \/ IngestDemand PROVE CurrentPlansFit'
      BY <2>1, <1>none DEF IngestSale, IngestDemand
    <2>2. ASSUME NEW o \in Orders, IngestAccepted(o) PROVE CurrentPlansFit'
      BY <2>2, <1>receipt DEF IngestAccepted, planRow
    <2>3. ASSUME NEW o \in Orders, IngestGoods(o) PROVE CurrentPlansFit'
      <3>1. current' = {} \/ UNCHANGED <<cash, reserved, inTransit, current, onHand, seen>>
        BY <2>3 DEF IngestGoods, TakeIn, Conflict, planRow
      <3>2. QED  BY <3>1, <1>none, <1>fits DEF State
    <2>4. QED  BY <1>8, <2>1, <2>2, <2>3 DEF Sync
  <1>9. ASSUME World PROVE CurrentPlansFit'
    BY <1>9, <1>fits DEF World, backend, books, planRow, State
  <1>10. QED
    BY <1>1, <1>2, <1>3, <1>4, <1>5, <1>6, <1>7, <1>8, <1>9 DEF Next

-----------------------------------------------------------------------------
LEMMA InitIInv == Init => IInv
  <1> SUFFICES ASSUME Init PROVE IInv
    OBVIOUS
  <1>1. TypeOK
    BY SimulatorAssumption, PurchasingAssumption
       DEF Init, SimInit, TypeOK, SimTypeOK, Free, Tasks, Steps, Answers
  <1>2. OneOpenPurchase /\ ReservedWhileSent /\ Solvent
    BY SimulatorAssumption, PurchasingAssumption
       DEF Init, OneOpenPurchase, ReservedWhileSent, Solvent
  <1>3. OnlyApprovedPlansAct /\ CurrentPlansFit
    BY DEF Init, OnlyApprovedPlansAct, CurrentPlansFit
  <1>4. AnswersAreTrue /\ LogIsTrue /\ SupplierAgrees
    BY PurchasingAssumption
       DEF Init, SimInit, AnswersAreTrue, LogIsTrue, SupplierAgrees, PastRegistration, At,
           Free
  <1>5. QED  BY <1>1, <1>2, <1>3, <1>4 DEF IInv

LEMMA StepIInv == IInv /\ [Next]_vars => IInv'
  <1> SUFFICES ASSUME IInv, [Next]_vars PROVE IInv'
    OBVIOUS
  <1>1. CASE Next
    <2>1. Books'
      BY <1>1, StepBooks
    <2>2. RestTypes' /\ SimTypeOK' /\ LogIsTrue'
      BY <1>1, StepRestTypes, StepSimulator
    <2>3. AnswersAreTrue' /\ task' \in [Workers -> Tasks] /\ wire' \subseteq Orders
      BY <1>1, StepContacts DEF Contacts
    <2>4. TypeOK'
      BY <2>1, <2>2, <2>3 DEF Books, AccountTypes, RestTypes, TypeOK
    <2>5. QED
      BY <1>1, <2>1, <2>2, <2>3, <2>4, StepPlans, StepAgrees DEF Books, IInv
  <1>2. CASE UNCHANGED vars
    <2>0. /\ UNCHANGED <<cash, reserved, gate, onHand, inTransit, cursor>>
          /\ UNCHANGED <<missionStatus, currentPlan, currentAction, plan, seen, current>>
          /\ UNCHANGED <<status, reservedOf, manual, reply, ordered, received>>
          /\ UNCHANGED <<job, owner, task, wire, simVars>>
      BY <1>2 DEF vars, books, missionRow, planRow, actionRow, jobRow
    <2>1. Books'
      <3>1. Books
        BY IInvGivesBooks
      <3>2. QED  BY <2>0, <3>1, QuietKeepsBooks DEF Books, AccountTypes
    <2>2. SimTypeOK' /\ LogIsTrue'
      <3>1. SimTypeOK'
        BY <2>0 DEF simVars, SimTypeOK, IInv, TypeOK
      <3>2. LogIsTrue'
        BY <2>0, SameLogTrue DEF simVars, IInv, TypeOK
      <3>3. QED  BY <3>1, <3>2
    <2>3. TypeOK'
      BY <2>0, <2>1, <2>2 DEF Books, AccountTypes, IInv, TypeOK
    <2>4. OnlyApprovedPlansAct' /\ CurrentPlansFit'
      BY <2>0 DEF IInv, OnlyApprovedPlansAct, CurrentPlansFit, State
    <2>5. AnswersAreTrue'
      BY <2>0 DEF IInv, AnswersAreTrue, simVars
    <2>6. SupplierAgrees'
      BY <2>0 DEF IInv, SupplierAgrees, PastRegistration, At, simVars
    <2>7. QED
      BY <2>1, <2>2, <2>3, <2>4, <2>5, <2>6 DEF Books, IInv
  <1>3. QED  BY <1>1, <1>2

\* The inductive invariant: the books, the plans, and the two sides' agreement.
THEOREM PurchasingInvariance == Spec => []IInv
  BY InitIInv, StepIInv, PTL DEF Spec

\* Every variable keeps its type; in particular the store's cash, its
\* reservation and its stock never become negative (accounting.py 42-87,
\* 111-200).
THEOREM PurchasingTypes == Spec => []TypeOK
  <1>1. IInv => TypeOK
    BY DEF IInv
  <1>2. QED  BY <1>1, PurchasingInvariance, PTL

\* At most one purchase of a store is unresolved, and it holds the gate.
THEOREM OnePurchaseIsOpen == Spec => []OneOpenPurchase
  <1>1. IInv => OneOpenPurchase
    BY DEF IInv
  <1>2. QED  BY <1>1, PurchasingInvariance, PTL

\* Money is reserved exactly for a purchase whose outcome is open.
THEOREM SentIsReserved == Spec => []ReservedWhileSent
  <1>1. IInv => ReservedWhileSent
    BY DEF IInv
  <1>2. QED  BY <1>1, PurchasingInvariance, PTL

\* Store and supplier agree on every purchase, whatever is lost, repeated,
\* late or taken over between them.
THEOREM BothSidesAgree == Spec => []SupplierAgrees
  <1>1. IInv => SupplierAgrees
    BY DEF IInv
  <1>2. QED  BY <1>1, PurchasingInvariance, PTL

\* Outcomes are final: the action property, from StepMoves.
THEOREM OutcomesAreFinal == Spec => SettledIsFinal
  <1>1. IInv /\ [Next]_vars =>
          [\A o \in Orders : status[o] \in Settled =>
              status'[o] = status[o] /\ ordered'[o] = ordered[o]]_vars
    BY StepMoves DEF Moves
  <1>2. QED  BY <1>1, PurchasingInvariance, PTL DEF Spec, SettledIsFinal

\* A purchase is registered as sent only against the books of its plan.
THEOREM PurchasesAreAsPlanned == Spec => SentAsPlanned
  <1>1. ASSUME IInv, Next, NEW o \in Orders, status[o] = "QUEUED", status'[o] = "EXECUTING"
        PROVE  seen[o] = State /\ missionStatus[MissionOf[o]] = "ACTIVE"
    BY <1>1, StepMoves DEF Moves, Valid, IInv, CurrentPlansFit
  <1>2. IInv /\ [Next]_vars =>
          [\A o \in Orders : status[o] = "QUEUED" /\ status'[o] = "EXECUTING" =>
              seen[o] = State /\ missionStatus[MissionOf[o]] = "ACTIVE"]_vars
    BY <1>1
  <1>3. QED  BY <1>2, PurchasingInvariance, PTL DEF Spec, SentAsPlanned

-----------------------------------------------------------------------------
(* Sums.  A sum over purchases is a function that gives every set of them  *)
(* its sum; what a reader of the log computes is a function that gives     *)
(* every prefix of it a world.  That such functions exist is an invariant. *)

\* f gives every set of members of S the sum of their values.
AddsUp(f, val, S) ==
    /\ f \in [SUBSET S -> Nat]
    /\ f[{}] = 0
    /\ \A T \in SUBSET S, p \in S : p \notin T => f[T \cup {p}] = f[T] + val[p]

\* What is bought, and what of it is still expected.
Bought == {o \in Orders : status[o] = "SUCCEEDED"}
Due == [o \in Orders |-> ordered[o] - received[o]]

\* Every purchase the store counts as bought was paid for once, in full, with its
\* price; what of it has not been received, and nothing else, is in transit; and
\* nothing was received of any other.
BooksAddUp ==
    /\ \A o \in Bought : /\ 0 < ordered[o] /\ received[o] <= ordered[o]
                         /\ o \in Assisted \/ ordered[o] = Qty[o]
    /\ \A o \in Orders \ Bought : ordered[o] = 0 /\ received[o] = 0
    /\ \E paid : AddsUp(paid, ordered, Bought) /\ cash = InitialCash - Total(paid[Bought])
    /\ \E due : AddsUp(due, Due, Bought) /\ inTransit = due[Bought]

\* A reader's picture of the supplier: money, stock, and the goods of each order.
Worlds == [cash : Nat, shelf : Nat, transit : Nat,
           goods : {g \in [Orders -> Nat] : \A o \in Orders : g[o] <= Qty[o]}]

Opening == [cash |-> InitialCash, shelf |-> InitialStock, transit |-> 0,
            goods |-> [o \in Orders |-> 0]]
SupplierWorld == [cash |-> simCash, shelf |-> simOnHand, transit |-> simInTransit,
                  goods |-> delivered]

Reads(v, e, w) ==
    \/ /\ e.type = "PURCHASE_ACCEPTED"
       /\ w = [cash |-> v.cash - Total(e.qty), shelf |-> v.shelf,
               transit |-> v.transit + e.qty, goods |-> v.goods]
    \/ /\ e.type = "GOODS_RECEIVED"
       /\ w = [cash |-> v.cash, shelf |-> v.shelf + e.qty, transit |-> v.transit - e.qty,
               goods |-> [v.goods EXCEPT ![e.order] = @ + e.qty]]
    \/ /\ e.type = "SALE_RECORDED"
       /\ w = [cash |-> v.cash, shelf |-> v.shelf - e.qty, transit |-> v.transit,
               goods |-> v.goods]
    \/ e.type = "DEMAND_REVISED" /\ w = v

\* v is what a reader knows after each event, from the opening to the present.
Follows(v) ==
    /\ v \in [0 .. Len(log) -> Worlds]
    /\ v[0] = Opening /\ v[Len(log)] = SupplierWorld
    /\ \A i \in 1 .. Len(log) : Reads(v[i - 1], log[i], v[i])

\* What has arrived of assisted orders, which no event tells of.
ByOwner == Bought \cap Assisted
TakenByOwner(n) == \E taken : AddsUp(taken, received, ByOwner) /\ n = taken[ByOwner]

\* The store's stock is a reader's, and what the owner took in besides.
UpToDate(v) ==
    /\ \E n \in Nat : TakenByOwner(n) /\ onHand = v[cursor].shelf + n
    /\ \A o \in Orders \ Assisted : v[cursor].goods[o] = received[o]

\* The log can be read from the opening to the supplier's present, and the store
\* has entered exactly what a reader at its cursor knows.
LogIsFollowed == cursor <= Len(log) /\ \E v : Follows(v) /\ UpToDate(v)

\* Goods are told after the acceptance of their order, and the store has bought
\* what the events it entered say was accepted.
AcceptedBy(o, n) ==
    \E j \in 1 .. n : log[j].type = "PURCHASE_ACCEPTED" /\ log[j].order = o

LogIsOrdered ==
    /\ \A i \in 1 .. Len(log) :
          log[i].type = "GOODS_RECEIVED" => AcceptedBy(log[i].order, i - 1)
    /\ \A i \in 1 .. cursor :
          log[i].type = "PURCHASE_ACCEPTED" => status[log[i].order] = "SUCCEEDED"
    /\ \A o \in Orders : purchase[o] = "ACCEPTED" => AcceptedBy(o, Len(log))

Ledger == BooksAddUp /\ LogIsFollowed /\ LogIsOrdered

\* Nothing unreadable is on its way, and nobody works on a refused purchase.
Readable == ~GarbledReplies => \A w \in Workers : task[w].answer # "garbled"
FailedIsDone == \A o \in Orders \ Assisted : status[o] = "FAILED" => job[o] = "none"

-----------------------------------------------------------------------------
\* val2 differs from val at p alone, if at all.
ChangesAt(val, val2, S, p) ==
    /\ val2[p] \in Nat /\ \A x \in S : val[x] \in Int
    /\ \A x \in S : x # p => val2[x] = val[x]

\* g is the sum when p's value is val2's.
SumsAgain(g, f, val2, S, p) ==
    AddsUp(g, val2, S \cup {p}) /\ g[S \cup {p}] = f[S \ {p}] + val2[p]

\* One value of a sum may change, or be added.
LEMMA SumChanges ==
  ASSUME NEW S, NEW p, NEW f, NEW val, NEW val2,
         AddsUp(f, val, S), ChangesAt(val, val2, S, p)
  PROVE  \E g : SumsAgain(g, f, val2, S, p)
  <1> DEFINE R == S \cup {p}
             g == [T \in SUBSET R |-> IF p \in T THEN f[T \ {p}] + val2[p] ELSE f[T]]
  <1>0. /\ val2[p] \in Nat /\ \A x \in S : val[x] \in Int
        /\ \A x \in S : x # p => val2[x] = val[x]
    BY DEF ChangesAt
  <1>1. \A T \in SUBSET S : f[T] \in Nat
    BY DEF AddsUp
  <1>2. \A T \in SUBSET R : T \ {p} \in SUBSET S /\ (p \notin T => T \in SUBSET S)
    OBVIOUS
  <1>3. g \in [SUBSET R -> Nat]
    BY <1>0, <1>1, <1>2
  <1>4. g[{}] = 0
    BY DEF AddsUp
  <1>5. ASSUME NEW T \in SUBSET R, NEW x \in R, x \notin T
        PROVE  g[T \cup {x}] = g[T] + val2[x]
    <2>1. T \cup {x} \in SUBSET R
      BY <1>5
    <2>2. CASE x = p
      <3>1. (T \cup {x}) \ {p} = T /\ T \in SUBSET S
        BY <1>5, <2>2
      <3>2. QED  BY <1>5, <2>1, <2>2, <3>1
    <2>3. CASE x # p /\ p \in T
      <3>1. /\ (T \cup {x}) \ {p} = (T \ {p}) \cup {x}
            /\ x \in S /\ T \ {p} \in SUBSET S /\ x \notin T \ {p}
        BY <1>5, <2>3
      <3>2. f[(T \ {p}) \cup {x}] = f[T \ {p}] + val2[x]
        BY <1>0, <2>3, <3>1 DEF AddsUp
      <3>3. g[T \cup {x}] = f[(T \ {p}) \cup {x}] + val2[p] /\ g[T] = f[T \ {p}] + val2[p]
        BY <2>1, <2>3, <3>1
      <3>4. f[T \ {p}] \in Nat /\ f[(T \ {p}) \cup {x}] \in Nat
        BY <1>1, <3>1
      <3>5. val2[x] \in Int /\ val2[p] \in Nat
        BY <1>0, <2>3, <3>1
      <3>6. QED  BY <3>2, <3>3, <3>4, <3>5
    <2>4. CASE x # p /\ p \notin T
      <3>1. x \in S /\ T \in SUBSET S /\ p \notin T \cup {x}
        BY <1>5, <2>4
      <3>2. f[T \cup {x}] = f[T] + val2[x]
        BY <1>0, <1>5, <2>4, <3>1 DEF AddsUp
      <3>3. QED  BY <2>1, <2>4, <3>1, <3>2
    <2>5. QED  BY <2>2, <2>3, <2>4
  <1>6. AddsUp(g, val2, R)
    <2> HIDE DEF g, R
    <2>1. QED  BY <1>3, <1>4, <1>5 DEF AddsUp
  <1>7. g[R] = f[S \ {p}] + val2[p]
    <2>1. R \in SUBSET R /\ p \in R /\ R \ {p} = S \ {p}
      OBVIOUS
    <2>2. QED  BY <2>1
  <1>8. QED  BY <1>6, <1>7 DEF SumsAgain

\* A value is part of every sum it is in.
LEMMA SumHasParts ==
  ASSUME NEW S, NEW f, NEW val, AddsUp(f, val, S), NEW p \in S
  PROVE  f[S] = f[S \ {p}] + val[p] /\ f[S] \in Nat /\ f[S \ {p}] \in Nat
  <1>1. S \ {p} \in SUBSET S /\ S \in SUBSET S /\ p \notin S \ {p} /\ (S \ {p}) \cup {p} = S
    OBVIOUS
  <1>2. QED  BY <1>1 DEF AddsUp

-----------------------------------------------------------------------------
(* Sums of finitely many values, and the folds that compute them *)

\* What holds of n - 1 whenever it does not hold of n holds of every number.
LEMMA CountingUp ==
  ASSUME NEW n \in Nat, NEW G, 0 \in G, \A i \in 1 .. n : i - 1 \in G => i \in G
  PROVE  0 .. n \subseteq G
  <1> DEFINE R == OpToRel(<, Nat)
             Q == 0 .. n \ G
  <1>1. \A x, y \in Nat : x < y => <<x, y>> \in R
    BY DEF OpToRel
  <1>2. IsWellFoundedOn(R, Nat)
    BY NatLessThanWellFounded, Zenon
  <1>3. SUFFICES ASSUME Q # {} PROVE FALSE
    OBVIOUS
  <1>4. Q \subseteq Nat
    OBVIOUS
  <1> HIDE DEF R
  <1>5. PICK m \in Q : \A k \in Q : ~ (<<k, m>> \in R)
    BY <1>2, <1>3, <1>4, WFMin, Zenon
  <1>6. m \in 1 .. n /\ m - 1 \in 0 .. n
    OBVIOUS
  <1>7. m - 1 \in G
    <2>1. m \in Nat /\ m - 1 \in Nat /\ m - 1 < m
      BY <1>6
    <2>2. <<m - 1, m>> \in R
      BY <1>1, <2>1
    <2>3. QED  BY <1>5, <1>6, <2>2
  <1>8. QED  BY <1>5, <1>6, <1>7

\* What holds of the empty set, and of a set when it holds of it less any one
\* element, holds of all subsets of a finite set: Good are those it holds of.
LEMMA GrowingUp ==
  ASSUME NEW S, IsFiniteSet(S), NEW Good, {} \in Good,
         \A T \in SUBSET S : T # {} /\ (\A p \in T : T \ {p} \in Good) => T \in Good
  PROVE  SUBSET S \subseteq Good
  <1> DEFINE Upto(n) == \A T \in SUBSET S : Cardinality(T) = n => T \in Good
             G == {n \in Nat : Upto(n)}
  <1>1. \A T \in SUBSET S : IsFiniteSet(T) /\ Cardinality(T) \in Nat
    BY FS_Subset, FS_CardinalityType
  <1>2. 0 \in G
    BY <1>1, FS_EmptySet
  <1>3. ASSUME NEW i \in Nat \ {0}, i - 1 \in G PROVE i \in G
    <2>1. ASSUME NEW T \in SUBSET S, Cardinality(T) = i PROVE T \in Good
      <3>1. PICK p : p \in T
        BY <1>1, <2>1, FS_EmptySet
      <3>2. ASSUME NEW q \in T PROVE T \ {q} \in Good
        <4>1. Cardinality(T \ {q}) = i - 1
          BY <1>1, <2>1, FS_RemoveElement
        <4>2. QED  BY <1>3, <4>1
      <3>3. QED  BY <3>1, <3>2
    <2>2. QED  BY <2>1
  <1>4. ASSUME NEW T \in SUBSET S PROVE T \in Good
    <2> HIDE DEF G
    <2>1. 0 .. Cardinality(T) \subseteq G
      BY <1>1, <1>2, <1>3, CountingUp
    <2>2. Cardinality(T) \in G
      BY <1>1, <2>1
    <2>3. QED  BY <2>2 DEF G
  <1>5. QED  BY <1>4

\* Any finitely many values have a sum.
LEMMA SumExists ==
  ASSUME NEW S, IsFiniteSet(S), NEW val, \A x \in S : val[x] \in Nat
  PROVE  \E f : AddsUp(f, val, S)
  <1> DEFINE Good == {T \in SUBSET S : \E f : AddsUp(f, val, T)}
  <1>1. {} \in Good
    <2>1. PICK f : f = [T \in SUBSET {} |-> 0]
      OBVIOUS
    <2>2. AddsUp(f, val, {})
      BY <2>1 DEF AddsUp
    <2>3. QED  BY <2>2
  <1>2. ASSUME NEW T \in SUBSET S, T # {}, \A p \in T : T \ {p} \in Good
        PROVE  T \in Good
    <2>0. PICK p \in T : T \ {p} \in Good
      BY <1>2
    <2>1. PICK f : AddsUp(f, val, T \ {p})
      BY <2>0
    <2>2. ChangesAt(val, val, T \ {p}, p)
      BY DEF ChangesAt
    <2>3. PICK g : SumsAgain(g, f, val, T \ {p}, p)
      BY <2>1, <2>2, SumChanges
    <2>4. (T \ {p}) \cup {p} = T
      OBVIOUS
    <2>5. QED  BY <2>3, <2>4 DEF SumsAgain
  <1>3. SUBSET S \subseteq Good
    <2> HIDE DEF Good
    <2>1. QED  BY <1>1, <1>2, GrowingUp
  <1>4. S \in Good
    BY <1>3
  <1>5. QED  BY <1>4

\* What takes a set apart element by element, in whatever order, finds its sum.
Peels(it, val, S) ==
    /\ it[{}] = 0
    /\ \A T \in SUBSET S : T # {} =>
          \E p \in T : it[T \ {p}] \in Nat => it[T] = it[T \ {p}] + val[p]

LEMMA PeelingFindsTheSum ==
  ASSUME NEW S, IsFiniteSet(S), NEW f, NEW val, AddsUp(f, val, S), NEW it, Peels(it, val, S)
  PROVE  \A T \in SUBSET S : it[T] = f[T]
  <1> DEFINE Good == {T \in SUBSET S : it[T] = f[T]}
  <1>1. {} \in Good
    BY DEF AddsUp, Peels
  <1>2. ASSUME NEW T \in SUBSET S, T # {}, \A p \in T : T \ {p} \in Good
        PROVE  T \in Good
    <2>1. PICK p \in T : it[T \ {p}] \in Nat => it[T] = it[T \ {p}] + val[p]
      BY <1>2 DEF Peels
    <2>2. /\ T \ {p} \in SUBSET S /\ p \notin T \ {p}
          /\ (T \ {p}) \cup {p} = T /\ p \in S
      OBVIOUS
    <2>3. f[T \ {p}] \in Nat /\ f[T] = f[T \ {p}] + val[p]
      BY <2>2 DEF AddsUp
    <2>4. it[T \ {p}] = f[T \ {p}]
      BY <1>2
    <2>5. QED  BY <2>1, <2>3, <2>4
  <1>3. SUBSET S \subseteq Good
    <2> HIDE DEF Good
    <2>1. QED  BY <1>1, <1>2, GrowingUp
  <1>4. QED  BY <1>3

\* It is the one that FoldFunction computes,
LEMMA FoldFunctionIsSum ==
  ASSUME NEW val, IsFiniteSet(DOMAIN val), NEW f, AddsUp(f, val, DOMAIN val),
         \A x \in DOMAIN val : val[x] \in Nat
  PROVE  FoldFunction(+, 0, val) = f[DOMAIN val]
  <1> DEFINE S == DOMAIN val
             Picked(T) == CHOOSE x \in T : TRUE
             Solves(it) ==
               it = [T \in SUBSET S |->
                       IF T = {} THEN 0 ELSE val[Picked(T)] + it[T \ {Picked(T)}]]
  <1>1. \A T \in SUBSET S : T # {} => Picked(T) \in T
    OBVIOUS
  <1>2. ASSUME NEW T \in SUBSET S, T # {}
        PROVE  f[T] = val[Picked(T)] + f[T \ {Picked(T)}]
    <2>1. PICK p : p = Picked(T)
      OBVIOUS
    <2>2. p \in T /\ p \in S
      BY <1>1, <1>2, <2>1
    <2>3. T \ {p} \in SUBSET S /\ p \notin T \ {p} /\ (T \ {p}) \cup {p} = T
      BY <2>2
    <2>4. f[T] = f[T \ {p}] + val[p] /\ f[T \ {p}] \in Nat /\ val[p] \in Nat
      BY <2>2, <2>3 DEF AddsUp
    <2>5. f[T] = val[p] + f[T \ {p}]
      BY <2>4
    <2>6. QED  BY <2>1, <2>5
  <1>3. Solves(f)
    <2> HIDE DEF Picked
    <2>1. f = [T \in SUBSET S |-> f[T]] /\ f[{}] = 0
      BY DEF AddsUp
    <2>2. QED  BY <1>2, <2>1
  <1>4. PICK it : it = CHOOSE jt : Solves(jt)
    OBVIOUS
  <1>5. Solves(it)
    <2> HIDE DEF Solves
    <2>1. QED  BY <1>3, <1>4
  <1>6. Peels(it, val, S)
    <2> HIDE DEF Picked
    <2>1. it[{}] = 0
      BY <1>5
    <2>2. ASSUME NEW T \in SUBSET S, T # {}
          PROVE  \E p \in T : it[T \ {p}] \in Nat => it[T] = it[T \ {p}] + val[p]
      <3>1. PICK p \in T : p = Picked(T)
        BY <1>1, <2>2
      <3>2. it[T] = val[p] + it[T \ {p}] /\ val[p] \in Nat
        BY <1>5, <2>2, <3>1
      <3>3. it[T \ {p}] \in Nat => it[T] = it[T \ {p}] + val[p]
        <4>1. \A n \in Nat : val[p] + n = n + val[p]
          BY <3>2
        <4>2. QED  BY <3>2, <4>1
      <3>4. QED  BY <3>3
    <2>3. QED  BY <2>1, <2>2 DEF Peels
  <1>7. it[S] = f[S]
    BY <1>6, PeelingFindsTheSum
  <1>8. FoldFunction(+, 0, val) = it[S]
    BY <1>4, Zenon DEF FoldFunction, FoldFunctionOnSet, MapThenFoldSet
  <1>9. QED  BY <1>7, <1>8

\* Finitely many numbers have a largest one.
LEMMA LargestIsOne ==
  ASSUME NEW S \in SUBSET Int, IsFiniteSet(S), S # {}
  PROVE  Max(S) \in S
  <1> DEFINE Good == {T \in SUBSET S : T # {} => \E x \in T : \A y \in T : x >= y}
  <1>1. {} \in Good
    OBVIOUS
  <1>2. ASSUME NEW T \in SUBSET S, T # {}, \A p \in T : T \ {p} \in Good
        PROVE  T \in Good
    <2>1. PICK p : p \in T
      BY <1>2
    <2>2. CASE T \ {p} = {}
      <3>1. \A y \in T : p >= y
        BY <2>1, <2>2
      <3>2. QED  BY <2>1, <3>1
    <2>3. CASE T \ {p} # {}
      <3>1. PICK x \in T \ {p} : \A y \in T \ {p} : x >= y
        BY <1>2, <2>1, <2>3
      <3>2. CASE x >= p
        <4>1. \A y \in T : x >= y
          BY <3>1, <3>2
        <4>2. QED  BY <4>1
      <3>3. CASE p >= x
        <4>1. \A y \in T : p >= y
          BY <2>1, <3>1, <3>3
        <4>2. QED  BY <2>1, <4>1
      <3>4. QED  BY <2>1, <3>1, <3>2, <3>3
    <2>4. QED  BY <2>2, <2>3
  <1>3. SUBSET S \subseteq Good
    <2> HIDE DEF Good
    <2>1. QED  BY <1>1, <1>2, GrowingUp
  <1>4. \E x \in S : \A y \in S : x >= y
    BY <1>3
  <1>5. QED  BY <1>4, Zenon DEF Max

\* The units of the events of one type, one by one.
UnitsOf(type, events) ==
    [i \in DOMAIN events |-> IF events[i].type = type THEN events[i].qty ELSE 0]

\* and, of the units of a log, what FoldLeft computes.
LEMMA FoldLeftIsSum ==
  ASSUME NEW n \in Nat, NEW events, DOMAIN events = 1 .. n, NEW type,
         \A i \in 1 .. n : UnitsOf(type, events)[i] \in Nat,
         NEW f, AddsUp(f, UnitsOf(type, events), 1 .. n)
  PROVE  UnitsIn(type, events) = f[1 .. n]
  <1> DEFINE S == 1 .. n
             Adds(e, m) == IF e.type = type THEN m + e.qty ELSE m
             Solves(it) ==
               it = [T \in SUBSET DOMAIN events |->
                       IF T = {} THEN 0 ELSE Adds(events[Max(T)], it[T \ {Max(T)}])]
  <1>0. IsFiniteSet(S) /\ S \subseteq Int
    BY FS_Interval
  <1>1. \A T \in SUBSET S : T # {} => Max(T) \in T
    BY <1>0, LargestIsOne, FS_Subset
  <1>2. \A p \in S : \A m \in Nat : Adds(events[p], m) = m + UnitsOf(type, events)[p]
    BY DEF UnitsOf
  <1>3. ASSUME NEW T \in SUBSET S, T # {}
        PROVE  f[T] = Adds(events[Max(T)], f[T \ {Max(T)}])
    <2> HIDE DEF Adds
    <2>1. PICK p : p = Max(T)
      OBVIOUS
    <2>2. p \in T /\ p \in S
      BY <1>1, <1>3, <2>1
    <2>3. T \ {p} \in SUBSET S /\ p \notin T \ {p} /\ (T \ {p}) \cup {p} = T
      BY <2>2
    <2>4. f[T] = f[T \ {p}] + UnitsOf(type, events)[p] /\ f[T \ {p}] \in Nat
      BY <2>2, <2>3 DEF AddsUp
    <2>5. QED  BY <1>2, <2>1, <2>2, <2>4
  <1>4. Solves(f)
    <2> HIDE DEF Adds
    <2>1. f = [T \in SUBSET S |-> f[T]] /\ f[{}] = 0
      BY DEF AddsUp
    <2>2. QED  BY <1>3, <2>1
  <1>5. PICK it : it = CHOOSE jt : Solves(jt)
    OBVIOUS
  <1>6. Solves(it)
    <2> HIDE DEF Solves
    <2>1. QED  BY <1>4, <1>5
  <1>7. Peels(it, UnitsOf(type, events), S)
    <2> HIDE DEF Adds
    <2>1. it[{}] = 0
      BY <1>6
    <2>2. ASSUME NEW T \in SUBSET S, T # {}
          PROVE  \E p \in T : it[T \ {p}] \in Nat =>
                                it[T] = it[T \ {p}] + UnitsOf(type, events)[p]
      <3>1. PICK p \in T : p = Max(T)
        BY <1>1, <2>2
      <3>2. it[T] = Adds(events[p], it[T \ {p}])
        BY <1>6, <2>2, <3>1
      <3>3. QED  BY <1>2, <3>2
    <2>3. QED  BY <2>1, <2>2 DEF Peels
  <1>8. it[S] = f[S]
    BY <1>0, <1>7, PeelingFindsTheSum
  <1>9. UnitsIn(type, events) = it[S]
    BY <1>5, Zenon DEF UnitsIn, FoldLeft, MapThenFoldSet
  <1>10. QED  BY <1>8, <1>9

-----------------------------------------------------------------------------
(* What a step does to the accounts of purchases, and how the cursor moves *)

\* Nothing that is summed changes.
Quiet ==
    /\ UNCHANGED <<cash, inTransit, ordered, received>>
    /\ \A p \in Orders : status'[p] = "SUCCEEDED" <=> status[p] = "SUCCEEDED"

Pays(o, q) ==
    /\ 0 < q /\ status[o] \in Sent /\ Settle(o, q) /\ UNCHANGED onHand
    /\ o \in Assisted \/ q = Qty[o]

Takes(o, q) ==
    /\ status[o] = "SUCCEEDED" /\ TakeIn(o, q) /\ UNCHANGED <<cash, ordered, status>>
    /\ received[o] + q <= ordered[o]

MovesPast(type) == NextIs(type) /\ cursor' = cursor + 1

\* Every step is one of these to the ledger.
LedgerStep ==
    \/ Quiet /\ UNCHANGED <<cursor, onHand>>
    \/ Quiet /\ IngestSale
    \/ Quiet /\ IngestDemand
    \/ \E o \in Orders : \E q \in Nat : Pays(o, q) /\ UNCHANGED cursor
    \/ \E o \in Orders : /\ MovesPast("PURCHASE_ACCEPTED") /\ log[cursor + 1].order = o
                         /\ UNCHANGED onHand
                         /\ Pays(o, Qty[o]) \/ (Quiet /\ status[o] = "SUCCEEDED")
    \/ \E o \in Assisted : \E q \in Nat : Takes(o, q) /\ UNCHANGED cursor
    \/ \E o \in Orders : /\ MovesPast("GOODS_RECEIVED") /\ log[cursor + 1].order = o
                         /\ Takes(o, log[cursor + 1].qty)

\* An outcome other than an acceptance, or an open one, counts nothing.
LEMMA OutcomeCountsNothing ==
  ASSUME TypeOK, NEW o \in Orders, status[o] # "SUCCEEDED", NEW st \in Pending \cup {"FAILED"},
         status' = [status EXCEPT ![o] = st],
         UNCHANGED <<cash, inTransit, ordered, received>>
  PROVE  Quiet
  <1>1. \A p \in Orders : status'[p] = IF p = o THEN st ELSE status[p]
    BY DEF TypeOK
  <1>2. st # "SUCCEEDED"
    OBVIOUS
  <1>3. QED  BY <1>1, <1>2 DEF Quiet

LEMMA ConflictCountsNothing ==
  ASSUME TypeOK, NEW o \in Orders, Conflict(o)
  PROVE  Quiet
  <1>1. UNCHANGED <<cash, inTransit, ordered, received>>
    BY DEF Conflict
  <1>2. CASE status[o] \in Pending
    <2>1. status' = [status EXCEPT ![o] = "UNKNOWN"]
      BY <1>2 DEF Conflict
    <2>2. "UNKNOWN" \in Pending \cup {"FAILED"} /\ status[o] # "SUCCEEDED"
      BY <1>2
    <2>3. QED  BY <1>1, <2>1, <2>2, OutcomeCountsNothing
  <1>3. CASE status[o] \notin Pending
    <2>1. status' = status
      BY <1>3 DEF Conflict, TypeOK
    <2>2. QED  BY <1>1, <2>1 DEF Quiet
  <1>4. QED  BY <1>2, <1>3

LEMMA ReceiptIsQuietOrPays ==
  ASSUME TypeOK, NEW o \in Orders, NEW verdict, NEW q \in Nat,
         o \in Assisted \/ q = Qty[o], verdict = "ACCEPTED" => 0 < q, UNCHANGED onHand,
         ApplyReceipt(o, verdict, q)
  PROVE  Quiet \/ Pays(o, q)
  <1>1. status \in [Orders -> {"none"} \cup Pending \cup Settled]
    BY DEF TypeOK
  <1>2. CASE Conflict(o)
    BY <1>2, ConflictCountsNothing
  <1>3. CASE UNCHANGED account
    BY <1>3 DEF account, Quiet
  <1>4. CASE status[o] \in Sent /\ Close(o, "FAILED")
    BY <1>4, OutcomeCountsNothing DEF Close
  <1>5. CASE status[o] \in Sent /\ verdict = "ACCEPTED" /\ Settle(o, q)
    BY <1>5 DEF Pays
  <1>6. QED  BY <1>2, <1>3, <1>4, <1>5 DEF ApplyReceipt

LEMMA StepLedger == ASSUME IInv, Next PROVE LedgerStep
  <1>0. TypeOK /\ status \in [Orders -> {"none"} \cup Pending \cup Settled]
        /\ \A o \in Orders : Qty[o] \in Nat /\ 0 < Qty[o]
    BY SimulatorAssumption DEF IInv, TypeOK
  <1>quiet. ASSUME UNCHANGED <<account, onHand, cursor>> PROVE LedgerStep
    BY <1>quiet DEF account, LedgerStep, Quiet
  <1>1. ASSUME NEW o \in Orders, Decide(o) PROVE LedgerStep
    <2>1. CASE PublishPlan(o) \/ Reject(o)
      BY <2>1 DEF PublishPlan, Reject, LedgerStep, Quiet, books, actionRow
    <2>2. CASE Approve(o)
      <3>1. status[o] = "none"
        BY <2>2 DEF Approve, IInv, OnlyApprovedPlansAct
      <3>2. QED  BY <1>0, <2>2, <3>1 DEF Approve, LedgerStep, Quiet
    <2>3. QED  BY <1>1, <2>1, <2>2 DEF Decide
  <1>2. ASSUME NEW m \in Missions, ControlMission(m) PROVE LedgerStep
    <2>1. CASE RetirePlan(m)
      BY <2>1, <1>quiet DEF RetirePlan, account, books, actionRow, missionRow
    <2>2. CASE Pause(m) \/ Resume(m) \/ Complete(m) \/ CancelMission(m)
      <3>1. /\ UNCHANGED <<cash, inTransit, ordered, received, cursor, onHand>>
            /\ \/ UNCHANGED status
               \/ \E o : status[o] = "QUEUED" /\ status' = [status EXCEPT ![o] = "CANCELLED"]
        BY <2>2 DEF Pause, Resume, Complete, CancelMission, Control
      <3>2. QED  BY <1>0, <3>1 DEF LedgerStep, Quiet
    <2>3. QED  BY <1>2, <2>1, <2>2 DEF ControlMission
  <1>3. ASSUME NEW o \in Orders, Assist(o) PROVE LedgerStep
    <2>1. CASE SupplierConfirms(o) \/ SupplierDeclines(o) \/ AcceptPart(o)
      <3>1. o \in Assisted /\ reply[o] \in Nat /\ UNCHANGED <<onHand, cursor>>
        BY <2>1 DEF SupplierConfirms, SupplierDeclines, AcceptPart, Waiting, IInv, TypeOK,
                    beside
      <3>2. PICK verdict \in {"ACCEPTED", "REJECTED"}, q \in Nat :
                    ApplyReceipt(o, verdict, q) /\ (verdict = "ACCEPTED" => 0 < q)
        BY <1>0, <2>1, <3>1 DEF SupplierConfirms, SupplierDeclines, AcceptPart
      <3>3. Quiet \/ Pays(o, q)
        BY <1>0, <3>1, <3>2, ReceiptIsQuietOrPays
      <3>4. QED  BY <3>1, <3>3 DEF LedgerStep
    <2>2. ASSUME NEW q \in 0 .. Qty[o] - 1, SupplierOffers(o, q) PROVE LedgerStep
      BY <2>2, <1>quiet DEF SupplierOffers, beside
    <2>3. CASE Withdraw(o)
      <3>1. status[o] = "EXECUTING"
        BY <2>3 DEF Withdraw, Waiting
      <3>2. QED  BY <1>0, <2>3, <3>1 DEF Withdraw, Close, LedgerStep, Quiet, beside
    <2>4. ASSUME NEW q \in 1 .. Qty[o], RecordArrival(o, q) PROVE LedgerStep
      <3>1. q \in Nat /\ o \in Assisted /\ received[o] + q <= ordered[o]
        BY <1>0, <2>4 DEF RecordArrival, IInv, TypeOK
      <3>2. QED  BY <2>4, <3>1 DEF RecordArrival, LedgerStep, Takes
    <2>5. QED  BY <1>3, <2>1, <2>2, <2>3, <2>4 DEF Assist
  <1>4. ASSUME NEW w \in Workers, NEW o \in Orders, Claim(w, o) \/ Handle(w, o)
        PROVE  LedgerStep
    <2>1. CASE RefuseSend(w, o) \/ Register(w, o)
      <3>1. status[o] = "QUEUED"
        BY <2>1 DEF RefuseSend, Register
      <3>2. QED
        BY <1>0, <2>1, <3>1 DEF RefuseSend, Register, Close, LedgerStep, Quiet, beside
    <2>2. CASE Publish(w, o)
      <3>1. UNCHANGED <<onHand, cursor>> /\ Enter(o, task[w].answer)
        BY <2>2 DEF Publish, beside
      <3>2. CASE ApplyReceipt(o, task[w].answer, Qty[o])
        BY <1>0, <3>1, <3>2, ReceiptIsQuietOrPays DEF LedgerStep
      <3>3. CASE Conflict(o)
        BY <1>0, <3>1, <3>3, ConflictCountsNothing DEF LedgerStep
      <3>4. CASE ~ApplyReceipt(o, task[w].answer, Qty[o]) /\ ~Conflict(o)
        <4>1. CASE UNCHANGED account
          BY <3>1, <4>1, <1>quiet
        <4>2. CASE ~(UNCHANGED account)
          <5>1. /\ status[o] \in Sent /\ status' = [status EXCEPT ![o] = "UNKNOWN"]
                /\ UNCHANGED <<cash, inTransit, ordered, received>>
            BY <3>1, <3>4, <4>2 DEF Enter
          <5>2. Quiet
            BY <1>0, <5>1, OutcomeCountsNothing
          <5>3. QED  BY <3>1, <5>2 DEF LedgerStep
        <4>3. QED  BY <4>1, <4>2
      <3>5. QED  BY <3>2, <3>3, <3>4
    <2>3. CASE ~(RefuseSend(w, o) \/ Register(w, o) \/ Publish(w, o))
      BY <1>4, <2>3, <1>quiet
         DEF Claim, Handle, NothingToSend, Reconcile, Ask, Send, Answer, NoAnswer, Garble,
             Discard, JobFails, account, backend, books, missionRow, actionRow
    <2>4. QED  BY <2>1, <2>2, <2>3
  <1>5. ASSUME NEW w \in Workers, Crash(w) PROVE LedgerStep
    BY <1>5, <1>quiet DEF Crash, account, backend, books, missionRow, actionRow
  <1>6. ASSUME NEW o \in Orders,
               LeaseLost(o) \/ RecoverAction(o) \/ Arrive(o) \/ Lose(o)
        PROVE  LedgerStep
    BY <1>6, <1>quiet DEF LeaseLost, RecoverAction, Arrive, Lose, account, backend, books,
                          missionRow, actionRow
  <1>7. CASE Sync
    <2>1. CASE IngestSale \/ IngestDemand
      BY <2>1 DEF IngestSale, IngestDemand, LedgerStep, Quiet, books, actionRow
    <2>2. ASSUME NEW o \in Orders, IngestAccepted(o) PROVE LedgerStep
      <3>1. log[cursor + 1].qty = Qty[o] /\ UNCHANGED onHand
        BY <2>2, NextEvent DEF IngestAccepted, NextIs, IInv, LogIsTrue
      <3>2. ApplyReceipt(o, "ACCEPTED", Qty[o])
        BY <2>2, <3>1 DEF IngestAccepted
      <3>3. Quiet \/ Pays(o, Qty[o])
        BY <1>0, <3>1, <3>2, ReceiptIsQuietOrPays
      <3>4. CASE manual'[o]
        BY <1>0, <2>2, <3>1, <3>3, <3>4 DEF IngestAccepted, LedgerStep
      <3>5. CASE ~manual'[o]
        <4>1. Pays(o, Qty[o]) \/ (Quiet /\ status[o] = "SUCCEEDED")
          <5>1. manual \in [Orders -> BOOLEAN]
            BY <1>0 DEF TypeOK
          <5>2. CASE Conflict(o)
            BY <3>5, <5>1, <5>2 DEF Conflict
          <5>3. CASE UNCHANGED account /\ (status[o] = "SUCCEEDED" \/ manual[o])
            BY <3>3, <3>5, <5>3 DEF account
          <5>4. CASE status[o] \in Sent /\ Settle(o, Qty[o])
            BY <1>0, <3>1, <5>4 DEF Pays
          <5>5. QED  BY <3>2, <5>2, <5>3, <5>4 DEF ApplyReceipt
        <4>2. QED
          BY <2>2, <3>1, <3>5, <4>1 DEF IngestAccepted, LedgerStep, MovesPast
      <3>6. QED  BY <3>4, <3>5
    <2>3. ASSUME NEW o \in Orders, IngestGoods(o) PROVE LedgerStep
      <3>1. CASE Conflict(o) /\ UNCHANGED <<cursor, onHand>>
        BY <1>0, <3>1, ConflictCountsNothing DEF LedgerStep
      <3>2. CASE ~(Conflict(o) /\ UNCHANGED <<cursor, onHand>>)
        BY <2>3, <3>2 DEF IngestGoods, LedgerStep, Takes, MovesPast
      <3>3. QED  BY <3>1, <3>2
    <2>4. QED  BY <1>7, <2>1, <2>2, <2>3 DEF Sync
  <1>8. CASE World
    BY <1>8, <1>quiet DEF World, account, backend, books, missionRow, actionRow
  <1>9. QED
    BY <1>1, <1>2, <1>3, <1>4, <1>5, <1>6, <1>7, <1>8 DEF Next

LEMMA TotalAdds ==
  ASSUME NEW a \in Nat, NEW b \in Nat PROVE Total(a + b) = Total(a) + Total(b)
  BY SimulatorAssumption DEF Total

LEMMA QuietAddsUp == ASSUME IInv, BooksAddUp, Quiet PROVE BooksAddUp'
  <1>1. Bought' = Bought /\ Due' = Due /\ ordered' = ordered
    BY DEF Bought, Due, Quiet
  <1>2. UNCHANGED <<cash, inTransit, received>>
    BY DEF Quiet
  <1>3. QED  BY <1>1, <1>2 DEF BooksAddUp

\* What is bought is paid for, and expected.
LEMMA PaysAddsUp ==
  ASSUME IInv, BooksAddUp, NEW o \in Orders, NEW q \in Nat, Pays(o, q)
  PROVE  BooksAddUp'
  <1>0. /\ status \in [Orders -> {"none"} \cup Pending \cup Settled]
        /\ ordered \in [Orders -> Nat] /\ received \in [Orders -> Nat] /\ cash \in Nat
    BY DEF IInv, TypeOK
  <1>1. /\ o \notin Bought /\ Bought' = Bought \cup {o}
        /\ ordered' = [ordered EXCEPT ![o] = q]
        /\ received' = [received EXCEPT ![o] = 0]
        /\ cash' = cash - Total(q) /\ inTransit' = inTransit + q
    BY <1>0 DEF Pays, Settle, Bought
  <1>2. Bought \subseteq Orders /\ Bought \ {o} = Bought
    BY <1>1 DEF Bought
  <1>3. /\ \A p \in Bought' : /\ 0 < ordered'[p] /\ received'[p] <= ordered'[p]
                              /\ p \in Assisted \/ ordered'[p] = Qty[p]
        /\ \A p \in Orders \ Bought' : ordered'[p] = 0 /\ received'[p] = 0
    BY <1>0, <1>1, <1>2 DEF BooksAddUp, Pays
  <1>4. \E paid : AddsUp(paid, ordered', Bought') /\ cash' = InitialCash - Total(paid[Bought'])
    <2>1. PICK f : AddsUp(f, ordered, Bought) /\ cash = InitialCash - Total(f[Bought])
      BY DEF BooksAddUp
    <2>2. f[Bought] \in Nat
      BY <2>1 DEF AddsUp
    <2>3. PICK g : SumsAgain(g, f, ordered', Bought, o)
      <3>1. ChangesAt(ordered, ordered', Bought, o)
        BY <1>0, <1>1, <1>2 DEF ChangesAt
      <3>2. QED  BY <2>1, <3>1, SumChanges
    <2>4. g[Bought'] = f[Bought] + q
      BY <1>0, <1>1, <1>2, <2>3 DEF SumsAgain
    <2>5. /\ Total(f[Bought] + q) = Total(f[Bought]) + Total(q)
          /\ Total(q) \in Nat /\ Total(f[Bought]) \in Nat
      BY <2>2, TotalAdds, TotalIsNat
    <2>6. cash' = InitialCash - Total(g[Bought'])
      BY <1>0, <1>1, <2>1, <2>4, <2>5, SimulatorAssumption
    <2>7. QED  BY <1>1, <2>3, <2>6 DEF SumsAgain
  <1>5. \E due : AddsUp(due, Due', Bought') /\ inTransit' = due[Bought']
    <2>1. PICK f : AddsUp(f, Due, Bought) /\ inTransit = f[Bought]
      BY DEF BooksAddUp
    <2>2. Due'[o] = q /\ ChangesAt(Due, Due', Bought, o)
      BY <1>0, <1>1, <1>2 DEF Due, ChangesAt
    <2>3. PICK g : SumsAgain(g, f, Due', Bought, o)
      BY <2>1, <2>2, SumChanges
    <2>4. g[Bought'] = inTransit'
      BY <1>1, <1>2, <2>1, <2>2, <2>3 DEF SumsAgain
    <2>5. QED  BY <1>1, <2>3, <2>4 DEF SumsAgain
  <1>6. QED  BY <1>3, <1>4, <1>5 DEF BooksAddUp

\* What arrives is not expected any more.
LEMMA TakesAddsUp ==
  ASSUME IInv, BooksAddUp, NEW o \in Orders, NEW q \in Nat, Takes(o, q)
  PROVE  BooksAddUp'
  <1>0. /\ status \in [Orders -> {"none"} \cup Pending \cup Settled]
        /\ ordered \in [Orders -> Nat] /\ received \in [Orders -> Nat]
    BY DEF IInv, TypeOK
  <1>1. /\ o \in Bought /\ Bought' = Bought
        /\ ordered' = ordered /\ cash' = cash
        /\ received' = [received EXCEPT ![o] = @ + q]
        /\ inTransit' = inTransit - q /\ received[o] + q <= ordered[o]
    BY <1>0 DEF Takes, TakeIn, Bought
  <1>2. Bought \subseteq Orders /\ Bought \cup {o} = Bought
    BY <1>1 DEF Bought
  <1>3. /\ \A p \in Bought' : /\ 0 < ordered'[p] /\ received'[p] <= ordered'[p]
                              /\ p \in Assisted \/ ordered'[p] = Qty[p]
        /\ \A p \in Orders \ Bought' : ordered'[p] = 0 /\ received'[p] = 0
    BY <1>0, <1>1, <1>2 DEF BooksAddUp
  <1>4. \E paid : AddsUp(paid, ordered', Bought') /\ cash' = InitialCash - Total(paid[Bought'])
    BY <1>1 DEF BooksAddUp
  <1>5. \E due : AddsUp(due, Due', Bought') /\ inTransit' = due[Bought']
    <2>1. PICK f : AddsUp(f, Due, Bought) /\ inTransit = f[Bought]
      BY DEF BooksAddUp
    <2>2. Due'[o] = Due[o] - q /\ Due[o] \in Int /\ ChangesAt(Due, Due', Bought, o)
      BY <1>0, <1>1, <1>2 DEF Due, ChangesAt
    <2>3. PICK g : SumsAgain(g, f, Due', Bought, o)
      BY <2>1, <2>2, SumChanges
    <2>4. f[Bought] = f[Bought \ {o}] + Due[o] /\ f[Bought \ {o}] \in Nat
      BY <1>1, <2>1, SumHasParts
    <2>5. g[Bought'] = inTransit'
      <3>1. g[Bought'] = f[Bought \ {o}] + Due'[o]
        BY <1>1, <1>2, <2>3 DEF SumsAgain
      <3>2. inTransit' = f[Bought \ {o}] + Due[o] - q
        BY <1>1, <2>1, <2>2, <2>4
      <3>3. QED  BY <2>2, <2>4, <3>1, <3>2
    <2>6. QED  BY <1>1, <1>2, <2>3, <2>5 DEF SumsAgain
  <1>6. QED  BY <1>3, <1>4, <1>5 DEF BooksAddUp

LEMMA StepAddsUp == ASSUME IInv, BooksAddUp, LedgerStep PROVE BooksAddUp'
  <1>1. \A o \in Orders : Qty[o] \in Nat
    BY SimulatorAssumption
  <1>2. NextIs("GOODS_RECEIVED") => log[cursor + 1].qty \in Nat
    BY NextEvent DEF IInv
  <1>3. Assisted \subseteq Orders
    BY PurchasingAssumption
  <1>4. QED
    BY <1>1, <1>2, <1>3, QuietAddsUp, PaysAddsUp, TakesAddsUp DEF LedgerStep, MovesPast

\* What a purchase still expects is in transit.
LEMMA DueIsInTransit ==
  ASSUME IInv, BooksAddUp, NEW o \in Bought
  PROVE  ordered[o] - received[o] <= inTransit
  <1>1. o \in Orders /\ ordered[o] \in Nat /\ received[o] \in Nat
    BY DEF Bought, IInv, TypeOK
  <1>2. PICK f : AddsUp(f, Due, Bought) /\ inTransit = f[Bought]
    BY DEF BooksAddUp
  <1>3. f[Bought] = f[Bought \ {o}] + Due[o] /\ f[Bought \ {o}] \in Nat
    BY <1>2, SumHasParts
  <1>4. Due[o] = ordered[o] - received[o]
    BY <1>1 DEF Due
  <1>5. QED  BY <1>1, <1>2, <1>3, <1>4

-----------------------------------------------------------------------------
(* Following the log *)

\* The log grows by what an event tells of the supplier, and by nothing else.
Tells(e) == log' = Append(log, e) /\ Reads(SupplierWorld, e, SupplierWorld')

LEMMA SupplierTells ==
  ASSUME IInv, SupplierWorld \in Worlds, WorldMoves \/ \E o \in Orders : Submit(o)
  PROVE  \/ UNCHANGED <<log, SupplierWorld>>
         \/ \E e \in Events : Tells(e) /\ SupplierWorld' \in Worlds
  <1> DEFINE Goal == \/ UNCHANGED <<log, SupplierWorld>>
                     \/ \E e \in Events : Tells(e) /\ SupplierWorld' \in Worlds
  <1>0. /\ delivered \in [Orders -> Nat] /\ simCash \in Nat /\ simOnHand \in Nat
        /\ simInTransit \in Nat
        /\ \A o \in Orders : Qty[o] \in Nat /\ Total(Qty[o]) \in Nat
        /\ \A o \in Orders : delivered[o] <= Qty[o]
    BY SimulatorAssumption, TotalIsNat DEF IInv, TypeOK, SimTypeOK, SupplierWorld, Worlds
  <1>1. ASSUME NEW o \in Orders, Submit(o) PROVE Goal
    <2>1. CASE SubmitAccepted(o)
      <3>1. PurchaseAccepted(o) \in Events
        BY <1>0 DEF PurchaseAccepted, Events
      <3>2. simCash' \in Nat /\ simInTransit' \in Nat
        BY <1>0, <2>1 DEF SubmitAccepted
      <3>3. SupplierWorld' \in Worlds
        BY <1>0, <2>1, <3>2 DEF SubmitAccepted, SupplierWorld, Worlds
      <3>4. Tells(PurchaseAccepted(o))
        BY <2>1 DEF SubmitAccepted, Tells, Reads, PurchaseAccepted, SupplierWorld
      <3>5. QED  BY <3>1, <3>3, <3>4
    <2>2. CASE SubmitRejected(o)
      BY <2>2 DEF SubmitRejected, SupplierWorld
    <2>3. QED  BY <1>1, <2>1, <2>2 DEF Submit
  <1>2. ASSUME NEW o \in Orders, NEW q \in 1 .. Qty[o], Deliver(o, q) PROVE Goal
    <2>1. q \in Nat /\ GoodsReceived(o, q) \in Events
      BY <1>0 DEF GoodsReceived, Events
    <2>2. delivered' \in [Orders -> Nat] /\ \A p \in Orders : delivered'[p] <= Qty[p]
      BY <1>0, <1>2, <2>1 DEF Deliver
    <2>3. simOnHand' \in Nat /\ simInTransit' \in Nat /\ simCash' = simCash
      BY <1>0, <1>2, <2>1 DEF Deliver
    <2>4. SupplierWorld' \in Worlds
      BY <1>0, <2>2, <2>3 DEF SupplierWorld, Worlds
    <2>5. Tells(GoodsReceived(o, q))
      BY <1>2 DEF Deliver, Tells, Reads, GoodsReceived, SupplierWorld
    <2>6. QED  BY <2>1, <2>4, <2>5
  <1>3. ASSUME NEW q \in 1 .. simOnHand, Sell(q) PROVE Goal
    <2>1. q \in Nat /\ SaleRecorded(q) \in Events
      BY <1>0 DEF SaleRecorded, Events
    <2>2. simOnHand' \in Nat
      BY <1>0, <1>3, <2>1 DEF Sell
    <2>3. SupplierWorld' \in Worlds
      BY <1>0, <1>3, <2>2 DEF Sell, SupplierWorld, Worlds
    <2>4. Tells(SaleRecorded(q))
      BY <1>3 DEF Sell, Tells, Reads, SaleRecorded, SupplierWorld
    <2>5. QED  BY <2>1, <2>3, <2>4
  <1>4. CASE ReviseDemand
    <2>1. DemandRevised \in Events
      BY DEF Events
    <2>2. SupplierWorld' \in Worlds
      BY <1>4 DEF ReviseDemand, SupplierWorld, Worlds
    <2>3. Tells(DemandRevised)
      BY <1>4 DEF ReviseDemand, Tells, Reads, DemandRevised, SupplierWorld
    <2>4. QED  BY <2>1, <2>2, <2>3
  <1>5. QED  BY <1>1, <1>2, <1>3, <1>4 DEF WorldMoves

\* A reader who knows the world before the event knows it after.
LEMMA FollowsOn ==
  ASSUME IInv, NEW v, Follows(v), NEW e \in Events, Tells(e), SupplierWorld' \in Worlds
  PROVE  \E u : Follows(u)' /\ \A i \in 0 .. Len(log) : u[i] = v[i]
  <1> DEFINE n == Len(log)
  <1>0. PICK u : u = [i \in 0 .. n + 1 |-> IF i = n + 1 THEN SupplierWorld' ELSE v[i]]
    OBVIOUS
  <1>1. /\ n \in Nat /\ Len(log') = n + 1 /\ log'[n + 1] = e
        /\ \A i \in 1 .. n : log'[i] = log[i]
    BY DEF IInv, TypeOK, SimTypeOK, Tells
  <1>2. /\ v \in [0 .. n -> Worlds] /\ v[0] = Opening /\ v[n] = SupplierWorld
        /\ \A i \in 1 .. n : Reads(v[i - 1], log[i], v[i])
    BY DEF Follows
  <1>3. u \in [0 .. n + 1 -> Worlds]
    BY <1>0, <1>1, <1>2
  <1>4. u[0] = Opening /\ u[n + 1] = SupplierWorld' /\ \A i \in 0 .. n : u[i] = v[i]
    BY <1>0, <1>1, <1>2
  <1>5. ASSUME NEW i \in 1 .. n + 1
        PROVE  Reads(u[i - 1], log'[i], u[i])
    <2>1. CASE i = n + 1
      <3>1. u[i - 1] = SupplierWorld /\ u[i] = SupplierWorld' /\ log'[i] = e
        BY <1>1, <1>2, <1>4, <2>1
      <3>2. QED  BY <3>1 DEF Tells
    <2>2. CASE i # n + 1
      <3>1. i \in 1 .. n /\ i - 1 \in 0 .. n /\ i \in 0 .. n
        BY <1>1, <2>2
      <3>2. u[i - 1] = v[i - 1] /\ u[i] = v[i] /\ log'[i] = log[i]
        BY <1>1, <1>4, <3>1
      <3>3. QED  BY <1>2, <3>1, <3>2
    <2>3. QED  BY <2>1, <2>2
  <1>6. Follows(u)'
    BY <1>1, <1>3, <1>4, <1>5 DEF Follows
  <1>7. QED  BY <1>4, <1>6

\* What was read is not read again, so the supplier's steps leave the store as
\* far behind as it was.
LEMMA SupplierIsFollowed ==
  ASSUME IInv, LogIsFollowed, UNCHANGED backend,
         WorldMoves \/ \E o \in Orders : Submit(o)
  PROVE  LogIsFollowed'
  <1>1. UNCHANGED <<cursor, onHand, received, status>> /\ cursor \in Nat /\ Len(log) \in Nat
    BY DEF backend, books, actionRow, IInv, TypeOK, SimTypeOK
  <1>s. \A n \in Nat : TakenByOwner(n) => TakenByOwner(n)'
    BY <1>1 DEF TakenByOwner, ByOwner, Bought
  <1>2. PICK v : Follows(v) /\ UpToDate(v)
    BY DEF LogIsFollowed
  <1>3. cursor \in 0 .. Len(log)
    BY <1>1 DEF LogIsFollowed
  <1>4. CASE UNCHANGED <<log, SupplierWorld>>
    <2>1. Follows(v)' /\ UpToDate(v)'
      BY <1>s, <1>1, <1>2, <1>4 DEF Follows, UpToDate
    <2>2. QED  BY <1>1, <1>4, <2>1 DEF LogIsFollowed
  <1>5. ASSUME NEW e \in Events, Tells(e), SupplierWorld' \in Worlds
        PROVE  LogIsFollowed'
    <2>1. PICK u : Follows(u)' /\ \A i \in 0 .. Len(log) : u[i] = v[i]
      BY <1>2, <1>5, FollowsOn
    <2>2. UpToDate(u)'
      BY <1>s, <1>1, <1>2, <1>3, <2>1 DEF UpToDate
    <2>3. Len(log') = Len(log) + 1
      BY <1>5 DEF Tells, IInv, TypeOK, SimTypeOK
    <2>4. cursor' <= Len(log')
      BY <1>1, <1>3, <2>3
    <2>5. QED  BY <2>1, <2>2, <2>4 DEF LogIsFollowed
  <1>6. SupplierWorld \in Worlds
    BY <1>1, <1>2 DEF Follows
  <1>7. QED  BY <1>4, <1>5, <1>6, SupplierTells

\* The supplier's steps tell goods after the acceptance.
LEMMA AcceptedStays ==
  ASSUME NEW o, NEW n \in Nat, AcceptedBy(o, n),
         \A i \in 1 .. n : log'[i] = log[i]
  PROVE  AcceptedBy(o, n)'
  BY DEF AcceptedBy

LEMMA SupplierIsOrdered ==
  ASSUME IInv, LogIsOrdered, cursor <= Len(log), UNCHANGED backend,
         WorldMoves \/ \E o \in Orders : Submit(o)
  PROVE  LogIsOrdered'
  <1>1. /\ UNCHANGED <<cursor, status>> /\ cursor \in Nat /\ Len(log) \in Nat
        /\ log \in Seq(Events) /\ purchase \in [Orders -> {"none", "ACCEPTED", "REJECTED"}]
    BY DEF backend, actionRow, IInv, TypeOK, SimTypeOK
  <1>2. CASE /\ UNCHANGED log
             /\ \A o \in Orders : purchase'[o] = "ACCEPTED" => purchase[o] = "ACCEPTED"
    BY <1>1, <1>2 DEF LogIsOrdered, AcceptedBy
  <1>3. ASSUME NEW e \in Events, log' = Append(log, e),
               \A o \in Orders : purchase'[o] = "ACCEPTED" =>
                  purchase[o] = "ACCEPTED" \/ (e.type = "PURCHASE_ACCEPTED" /\ e.order = o),
               e.type = "GOODS_RECEIVED" => e.order \in Orders /\ purchase[e.order] = "ACCEPTED"
        PROVE  LogIsOrdered'
    <2>0. PICK n \in Nat : n = Len(log)
      BY <1>1
    <2>1. /\ Len(log') = n + 1 /\ log'[n + 1] = e
          /\ \A i \in 1 .. n : log'[i] = log[i]
      BY <1>1, <1>3, <2>0
    <2>2. ASSUME NEW i \in 1 .. n + 1, log'[i].type = "GOODS_RECEIVED"
          PROVE  AcceptedBy(log[i].order, i - 1)'
      <3>1. CASE i = n + 1
        <4>1. AcceptedBy(e.order, n)
          BY <2>0, <1>3, <2>1, <2>2, <3>1 DEF LogIsOrdered
        <4>2. QED  BY <2>0, <1>1, <2>1, <3>1, <4>1 DEF AcceptedBy
      <3>2. CASE i # n + 1
        <4>1. i \in 1 .. n /\ log'[i] = log[i] /\ i - 1 \in Nat /\ i - 1 <= n
          BY <2>0, <1>1, <2>1, <3>2
        <4>2. AcceptedBy(log[i].order, i - 1)
          BY <2>0, <2>2, <4>1 DEF LogIsOrdered
        <4>3. QED  BY <2>0, <1>1, <2>1, <4>1, <4>2 DEF AcceptedBy
      <3>3. QED  BY <3>1, <3>2
    <2>3. ASSUME NEW i \in 1 .. cursor', log'[i].type = "PURCHASE_ACCEPTED"
          PROVE  status'[log'[i].order] = "SUCCEEDED"
      <3>1. i \in 1 .. cursor /\ i \in 1 .. n
        BY <2>0, <1>1, <2>3
      <3>2. QED  BY <2>0, <1>1, <2>1, <2>3, <3>1 DEF LogIsOrdered
    <2>4. ASSUME NEW o \in Orders, purchase'[o] = "ACCEPTED"
          PROVE  AcceptedBy(o, n + 1)'
      <3>1. CASE purchase[o] = "ACCEPTED"
        <4>1. AcceptedBy(o, n)
          BY <2>0, <3>1 DEF LogIsOrdered
        <4>2. QED  BY <2>0, <1>1, <2>1, <4>1 DEF AcceptedBy
      <3>2. CASE e.type = "PURCHASE_ACCEPTED" /\ e.order = o
        BY <2>0, <1>1, <2>1, <3>2 DEF AcceptedBy
      <3>3. QED  BY <1>3, <2>4, <3>1, <3>2
    <2>5. QED  BY <2>0, <2>1, <2>2, <2>3, <2>4 DEF LogIsOrdered
  <1>4. ASSUME NEW o \in Orders, Submit(o) PROVE LogIsOrdered'
    <2>1. CASE SubmitAccepted(o)
      <3>1. PurchaseAccepted(o) \in Events
        BY SimulatorAssumption DEF PurchaseAccepted, Events
      <3>2. QED
        BY <1>1, <1>3, <2>1, <3>1 DEF SubmitAccepted, PurchaseAccepted
    <2>2. CASE SubmitRejected(o)
      BY <1>1, <1>2, <2>2 DEF SubmitRejected
    <2>3. QED  BY <1>4, <2>1, <2>2 DEF Submit
  <1>5. ASSUME NEW o \in Orders, NEW q \in 1 .. Qty[o], Deliver(o, q) PROVE LogIsOrdered'
    <2>1. GoodsReceived(o, q) \in Events
      BY SimulatorAssumption DEF GoodsReceived, Events
    <2>2. QED  BY <1>3, <1>5, <2>1 DEF Deliver, GoodsReceived
  <1>6. ASSUME NEW q \in 1 .. simOnHand, Sell(q) PROVE LogIsOrdered'
    <2>1. SaleRecorded(q) \in Events
      BY DEF SaleRecorded, Events, IInv, TypeOK, SimTypeOK
    <2>2. QED  BY <1>3, <1>6, <2>1 DEF Sell, SaleRecorded
  <1>7. CASE ReviseDemand
    <2>1. DemandRevised \in Events
      BY DEF Events
    <2>2. QED  BY <1>3, <1>7, <2>1 DEF ReviseDemand, DemandRevised
  <1>8. QED  BY <1>4, <1>5, <1>6, <1>7 DEF WorldMoves

LEMMA StoreIsOrdered ==
  ASSUME IInv, LogIsOrdered, cursor <= Len(log), Next, UNCHANGED simVars
  PROVE  LogIsOrdered'
  <1>1. /\ UNCHANGED <<log, purchase>> /\ cursor \in Nat
        /\ status \in [Orders -> {"none"} \cup Pending \cup Settled]
    BY DEF simVars, IInv, TypeOK
  <1>2. \A p \in Orders : status[p] = "SUCCEEDED" => status'[p] = "SUCCEEDED"
    BY StepMoves DEF Moves
  <1>3. \/ cursor' = cursor
        \/ /\ cursor' = cursor + 1 /\ cursor + 1 \in 1 .. Len(log)
           /\ log[cursor + 1].type = "PURCHASE_ACCEPTED" =>
                 status'[log[cursor + 1].order] = "SUCCEEDED"
    <2>0. LedgerStep
      BY StepLedger
    <2>1. \A type : NextIs(type) => cursor + 1 \in 1 .. Len(log)
                                    /\ log[cursor + 1].type = type
      BY NextEvent DEF IInv, NextIs
    <2>2. ASSUME NEW o \in Orders, MovesPast("PURCHASE_ACCEPTED"), log[cursor + 1].order = o,
                 Pays(o, Qty[o]) \/ (Quiet /\ status[o] = "SUCCEEDED")
          PROVE  status'[o] = "SUCCEEDED"
      BY <1>1, <2>2 DEF Pays, Settle, Quiet
    <2>3. CASE IngestSale \/ IngestDemand
      BY <2>1, <2>3 DEF IngestSale, IngestDemand
    <2>4. ASSUME NEW o \in Orders, MovesPast("PURCHASE_ACCEPTED"), log[cursor + 1].order = o,
                 Pays(o, Qty[o]) \/ (Quiet /\ status[o] = "SUCCEEDED")
          PROVE  /\ cursor' = cursor + 1 /\ cursor + 1 \in 1 .. Len(log)
                 /\ status'[log[cursor + 1].order] = "SUCCEEDED"
      BY <2>1, <2>2, <2>4 DEF MovesPast
    <2>5. CASE MovesPast("GOODS_RECEIVED")
      BY <2>1, <2>5 DEF MovesPast
    <2>6. QED  BY <2>0, <2>3, <2>4, <2>5 DEF LedgerStep
  <1>4. ASSUME NEW i \in 1 .. Len(log), log[i].type = "PURCHASE_ACCEPTED"
        PROVE  log[i].order \in Orders
    <2>1. log[i] \in Events
      BY <1>4 DEF IInv, TypeOK, SimTypeOK
    <2>2. QED  BY <1>4, <2>1 DEF Events, DemandRevised
  <1>5. \A i \in 1 .. cursor' :
           log[i].type = "PURCHASE_ACCEPTED" => status'[log[i].order] = "SUCCEEDED"
    <2>1. Len(log) \in Nat
      BY DEF IInv, TypeOK, SimTypeOK
    <2>2. SUFFICES ASSUME NEW i \in 1 .. cursor', log[i].type = "PURCHASE_ACCEPTED"
          PROVE  status'[log[i].order] = "SUCCEEDED"
      OBVIOUS
    <2>3. CASE i \in 1 .. cursor
      <3>1. i \in 1 .. Len(log)
        BY <1>1, <2>1, <2>3
      <3>2. QED  BY <1>2, <1>4, <2>2, <2>3, <3>1 DEF LogIsOrdered
    <2>4. CASE i = cursor + 1 /\ cursor' = cursor + 1
      BY <1>3, <2>2, <2>4, <1>1
    <2>5. QED  BY <1>1, <1>3, <2>3, <2>4
  <1>6. QED  BY <1>1, <1>5 DEF LogIsOrdered, AcceptedBy

\* Who tells of goods: only the supplier, of what it accepted.
LEMMA GoodsAreOrdered ==
  ASSUME IInv, LogIsOrdered, NEW i \in 1 .. Len(log), log[i].type = "GOODS_RECEIVED"
  PROVE  log[i].order \in Orders \ Assisted
  <1>1. log \in Seq(Events) /\ Len(log) \in Nat
    BY DEF IInv, TypeOK, SimTypeOK
  <1>2. log[i] \in Events
    BY <1>1
  <1>3. log[i].order \in Orders
    BY <1>2 DEF Events, DemandRevised
  <1>4. PICK j \in 1 .. i - 1 : log[j].type = "PURCHASE_ACCEPTED" /\ log[j].order = log[i].order
    BY DEF LogIsOrdered, AcceptedBy
  <1>5. j \in 1 .. Len(log)
    BY <1>1, <1>4
  <1>6. purchase[log[i].order] = "ACCEPTED"
    BY <1>4, <1>5 DEF IInv, LogIsTrue
  <1>7. QED  BY <1>3, <1>6 DEF IInv, SupplierAgrees

\* What the owner took in changes by what the owner takes in.
LEMMA QuietLeavesTaken ==
  ASSUME Quiet, NEW n, TakenByOwner(n) PROVE TakenByOwner(n)'
  <1>1. ByOwner' = ByOwner /\ received' = received
    BY DEF Quiet, ByOwner, Bought
  <1>2. QED  BY <1>1 DEF TakenByOwner

LEMMA PaysLeavesTaken ==
  ASSUME IInv, BooksAddUp, NEW o \in Orders, NEW q \in Nat, Pays(o, q)
  PROVE  received' = received /\ \A n : TakenByOwner(n) => TakenByOwner(n)'
  <1>1. /\ status \in [Orders -> {"none"} \cup Pending \cup Settled]
        /\ received \in [Orders -> Nat]
    BY DEF IInv, TypeOK
  <1>2. o \in Orders \ Bought /\ Bought' = Bought \cup {o}
    BY <1>1 DEF Pays, Settle, Bought
  <1>3. received[o] = 0
    BY <1>2 DEF BooksAddUp
  <1>4. received' = received
    BY <1>1, <1>3 DEF Pays, Settle
  <1>5. ASSUME NEW n, TakenByOwner(n)
        PROVE  TakenByOwner(n)'
    <2>1. CASE o \notin Assisted
      <3>1. ByOwner' = ByOwner
        BY <1>2, <2>1 DEF ByOwner
      <3>2. QED  BY <1>4, <1>5, <3>1 DEF TakenByOwner
    <2>2. CASE o \in Assisted
      <3>1. ByOwner' = ByOwner \cup {o} /\ ByOwner \ {o} = ByOwner /\ ByOwner \subseteq Orders
        BY <1>2, <2>2 DEF ByOwner, Bought
      <3>2. PICK f : AddsUp(f, received, ByOwner) /\ n = f[ByOwner]
        BY <1>5 DEF TakenByOwner
      <3>3. ChangesAt(received, received, ByOwner, o)
        BY <1>1, <3>1 DEF ChangesAt
      <3>4. PICK g : SumsAgain(g, f, received, ByOwner, o)
        BY <3>2, <3>3, SumChanges
      <3>5. f[ByOwner] \in Nat
        BY <3>2 DEF AddsUp
      <3>6. AddsUp(g, received, ByOwner') /\ g[ByOwner'] = n
        BY <1>3, <3>1, <3>2, <3>4, <3>5 DEF SumsAgain
      <3>7. QED  BY <1>4, <3>6 DEF TakenByOwner
    <2>3. QED  BY <2>1, <2>2
  <1>6. QED  BY <1>4, <1>5

LEMMA TakesAddsTaken ==
  ASSUME IInv, NEW o \in Orders, NEW q \in Nat, Takes(o, q), NEW n \in Nat, TakenByOwner(n)
  PROVE  IF o \in Assisted THEN TakenByOwner(n + q)' ELSE TakenByOwner(n)'
  <1>1. /\ received \in [Orders -> Nat] /\ received' = [received EXCEPT ![o] = @ + q]
        /\ ByOwner' = ByOwner /\ ByOwner \subseteq Orders
    BY DEF IInv, TypeOK, Takes, TakeIn, ByOwner, Bought
  <1>2. PICK f : AddsUp(f, received, ByOwner) /\ n = f[ByOwner]
    BY DEF TakenByOwner
  <1>3. CASE o \notin Assisted
    <2>1. \A x \in ByOwner : received'[x] = received[x]
      BY <1>1, <1>3 DEF ByOwner
    <2>2. AddsUp(f, received', ByOwner)
      BY <1>2, <2>1 DEF AddsUp
    <2>3. QED  BY <1>1, <1>2, <1>3, <2>2 DEF TakenByOwner
  <1>4. CASE o \in Assisted
    <2>1. o \in ByOwner /\ ByOwner \cup {o} = ByOwner
      BY <1>4 DEF Takes, ByOwner, Bought
    <2>2. ChangesAt(received, received', ByOwner, o) /\ received'[o] = received[o] + q
      BY <1>1 DEF ChangesAt
    <2>3. PICK g : SumsAgain(g, f, received', ByOwner, o)
      BY <1>2, <2>2, SumChanges
    <2>4. f[ByOwner] = f[ByOwner \ {o}] + received[o] /\ f[ByOwner \ {o}] \in Nat
      BY <1>2, <2>1, SumHasParts
    <2>5. g[ByOwner] = f[ByOwner \ {o}] + received'[o] /\ AddsUp(g, received', ByOwner)
      BY <2>1, <2>3 DEF SumsAgain
    <2>6. received[o] \in Nat
      BY <1>1
    <2>7. g[ByOwner] = n + q
      BY <1>2, <2>2, <2>4, <2>5, <2>6
    <2>8. QED  BY <1>1, <1>4, <2>5, <2>7 DEF TakenByOwner
  <1>5. QED  BY <1>3, <1>4

LEMMA StoreIsFollowed ==
  ASSUME IInv, Ledger, LedgerStep, UNCHANGED simVars
  PROVE  LogIsFollowed'
  <1>0. /\ UNCHANGED <<log, SupplierWorld>> /\ cursor \in Nat /\ onHand \in Nat
        /\ Len(log) \in Nat /\ received \in [Orders -> Nat]
        /\ Assisted \subseteq Orders
        /\ BooksAddUp /\ LogIsFollowed /\ LogIsOrdered
    <2>1. UNCHANGED <<log, SupplierWorld>>
      BY DEF simVars, SupplierWorld
    <2>2. /\ cursor \in Nat /\ onHand \in Nat /\ received \in [Orders -> Nat]
          /\ Len(log) \in Nat
      BY DEF IInv, TypeOK, SimTypeOK
    <2>3. QED  BY <2>1, <2>2, PurchasingAssumption DEF Ledger
  <1>1. PICK v : Follows(v) /\ UpToDate(v)
    BY <1>0 DEF LogIsFollowed
  <1>2. Follows(v)'
    BY <1>0, <1>1 DEF Follows
  <1>3. cursor <= Len(log) /\ v[cursor] \in Worlds
    BY <1>0, <1>1 DEF LogIsFollowed, Follows
  <1>4. PICK n \in Nat : TakenByOwner(n) /\ onHand = v[cursor].shelf + n
    BY <1>1 DEF UpToDate
  <1>5. \A p \in Orders \ Assisted : v[cursor].goods[p] = received[p]
    BY <1>1 DEF UpToDate
  <1>6. v[cursor].shelf \in Nat /\ v[cursor].goods \in [Orders -> Nat]
    BY <1>3 DEF Worlds
  <1>7. ASSUME cursor' = cursor, NEW m \in Nat, TakenByOwner(m)',
               onHand' = v[cursor].shelf + m,
               \A p \in Orders \ Assisted : received'[p] = received[p]
        PROVE  LogIsFollowed'
    <2>1. UpToDate(v)'
      BY <1>5, <1>7 DEF UpToDate
    <2>2. QED  BY <1>0, <1>2, <1>3, <1>7, <2>1 DEF LogIsFollowed
  <1>8. \A type : NextIs(type) =>
           /\ cursor + 1 \in 1 .. Len(log) /\ log[cursor + 1].type = type
           /\ v[cursor + 1] \in Worlds
           /\ Reads(v[cursor], log[cursor + 1], v[cursor + 1])
    <2>1. ASSUME NEW type, NextIs(type)
          PROVE  cursor + 1 \in 1 .. Len(log) /\ log[cursor + 1].type = type
      BY <2>1, NextEvent DEF IInv, NextIs
    <2>2. cursor + 1 \in 1 .. Len(log) =>
             /\ v[cursor + 1] \in Worlds
             /\ Reads(v[cursor], log[cursor + 1], v[cursor + 1])
      BY <1>0, <1>1 DEF Follows
    <2>3. QED  BY <2>1, <2>2
  <1>9. ASSUME NEW type, NextIs(type), cursor' = cursor + 1, TakenByOwner(n)',
               onHand' = v[cursor + 1].shelf + n,
               \A p \in Orders \ Assisted : v[cursor + 1].goods[p] = received'[p]
        PROVE  LogIsFollowed'
    <2>1. UpToDate(v)'
      BY <1>9 DEF UpToDate
    <2>2. cursor' <= Len(log')
      BY <1>0, <1>8, <1>9
    <2>3. QED  BY <1>2, <2>1, <2>2 DEF LogIsFollowed
  <1>10. CASE Quiet /\ UNCHANGED <<cursor, onHand>>
    <2>1. TakenByOwner(n)' /\ received' = received
      BY <1>4, <1>10, QuietLeavesTaken DEF Quiet
    <2>2. QED  BY <1>4, <1>7, <1>10, <2>1
  <1>11. CASE Quiet /\ IngestSale
    <2>1. /\ NextIs("SALE_RECORDED") /\ cursor' = cursor + 1 /\ received' = received
          /\ onHand' = onHand - log[cursor + 1].qty /\ log[cursor + 1].qty \in Nat
          /\ TakenByOwner(n)'
      BY <1>4, <1>11, NextEvent, QuietLeavesTaken DEF IngestSale, Quiet, IInv
    <2>2. /\ v[cursor + 1].shelf = v[cursor].shelf - log[cursor + 1].qty
          /\ v[cursor + 1].goods = v[cursor].goods
      BY <1>8, <2>1 DEF Reads
    <2>3. onHand' = v[cursor + 1].shelf + n
      BY <1>4, <1>6, <2>1, <2>2
    <2>4. QED  BY <1>5, <1>9, <2>1, <2>2, <2>3
  <1>12. CASE Quiet /\ IngestDemand
    <2>1. /\ NextIs("DEMAND_REVISED") /\ cursor' = cursor + 1 /\ received' = received
          /\ onHand' = onHand /\ TakenByOwner(n)'
      BY <1>4, <1>12, QuietLeavesTaken DEF IngestDemand, Quiet, books
    <2>2. v[cursor + 1] = v[cursor]
      BY <1>8, <2>1 DEF Reads
    <2>3. QED  BY <1>4, <1>5, <1>9, <2>1, <2>2
  <1>13. ASSUME NEW o \in Orders, NEW q \in Nat, Pays(o, q), UNCHANGED cursor
         PROVE  LogIsFollowed'
    <2>1. received' = received /\ onHand' = onHand /\ TakenByOwner(n)'
      BY <1>0, <1>4, <1>13, PaysLeavesTaken DEF Pays
    <2>2. QED  BY <1>4, <1>7, <1>13, <2>1
  <1>14. ASSUME NEW o \in Orders, MovesPast("PURCHASE_ACCEPTED"), log[cursor + 1].order = o,
                UNCHANGED onHand, Pays(o, Qty[o]) \/ (Quiet /\ status[o] = "SUCCEEDED")
         PROVE  LogIsFollowed'
    <2>1. received' = received /\ TakenByOwner(n)'
      <3>1. CASE Pays(o, Qty[o])
        BY <1>0, <1>4, <3>1, PaysLeavesTaken, SimulatorAssumption
      <3>2. CASE Quiet
        BY <1>4, <3>2, QuietLeavesTaken DEF Quiet
      <3>3. QED  BY <1>14, <3>1, <3>2
    <2>2. NextIs("PURCHASE_ACCEPTED") /\ cursor' = cursor + 1
      BY <1>14 DEF MovesPast
    <2>3. v[cursor + 1].shelf = v[cursor].shelf /\ v[cursor + 1].goods = v[cursor].goods
      BY <1>8, <2>2 DEF Reads
    <2>4. QED  BY <1>4, <1>5, <1>9, <1>14, <2>1, <2>2, <2>3
  <1>15. ASSUME NEW o \in Assisted, NEW q \in Nat, Takes(o, q), UNCHANGED cursor
         PROVE  LogIsFollowed'
    <2>1. TakenByOwner(n + q)' /\ n + q \in Nat
      BY <1>0, <1>4, <1>15, TakesAddsTaken
    <2>2. onHand' = v[cursor].shelf + (n + q)
      BY <1>4, <1>6, <1>15 DEF Takes, TakeIn
    <2>3. \A p \in Orders \ Assisted : received'[p] = received[p]
      BY <1>0, <1>15 DEF Takes, TakeIn
    <2>4. QED  BY <1>7, <1>15, <2>1, <2>2, <2>3
  <1>16. ASSUME NEW o \in Orders, MovesPast("GOODS_RECEIVED"), log[cursor + 1].order = o,
                Takes(o, log[cursor + 1].qty)
         PROVE  LogIsFollowed'
    <2>1. NextIs("GOODS_RECEIVED") /\ cursor' = cursor + 1
      BY <1>16 DEF MovesPast
    <2>2. PICK q \in Nat : q = log[cursor + 1].qty
      BY <2>1, NextEvent DEF IInv
    <2>3. onHand' = onHand + q /\ received' = [received EXCEPT ![o] = @ + q]
      BY <1>16, <2>2 DEF Takes, TakeIn
    <2>4. /\ v[cursor + 1].shelf = v[cursor].shelf + q
          /\ v[cursor + 1].goods = [v[cursor].goods EXCEPT ![o] = @ + q]
      BY <1>8, <1>16, <2>1, <2>2 DEF Reads
    <2>5. \A p \in Orders \ Assisted : v[cursor + 1].goods[p] = received'[p]
      BY <1>0, <1>5, <1>6, <2>3, <2>4
    <2>6. o \notin Assisted
      BY <1>0, <1>8, <1>16, <2>1, GoodsAreOrdered
    <2>7. TakenByOwner(n)'
      BY <1>4, <1>16, <2>2, <2>6, TakesAddsTaken
    <2>8. onHand' = v[cursor + 1].shelf + n
      BY <1>4, <1>6, <2>3, <2>4
    <2>9. QED  BY <1>9, <2>1, <2>5, <2>7, <2>8
  <1>17. QED
    BY <1>10, <1>11, <1>12, <1>13, <1>14, <1>15, <1>16 DEF LedgerStep

LEMMA StepKeepsLedger == ASSUME IInv, Ledger, Next PROVE Ledger'
  <1>1. BooksAddUp /\ LogIsFollowed /\ LogIsOrdered /\ cursor <= Len(log)
    BY DEF Ledger, LogIsFollowed
  <1>2. LedgerStep
    BY StepLedger
  <1>3. BooksAddUp'
    BY <1>1, <1>2, StepAddsUp
  <1>4. LogIsFollowed' /\ LogIsOrdered'
    BY <1>1, <1>2, SupplierSteps, SupplierIsFollowed, SupplierIsOrdered, StoreIsFollowed,
       StoreIsOrdered
  <1>5. QED  BY <1>3, <1>4 DEF Ledger

-----------------------------------------------------------------------------
(* Nothing waits for a person, and nothing holds the cursor back *)

\* An answer about a purchase whose outcome is open, or a repeated acceptance,
\* contradicts nothing: the money is there.
LEMMA ConsistentAnswer ==
  ASSUME IInv, NEW o \in Orders, NEW q \in Nat, q <= Qty[o], NEW verdict,
         status[o] \in Sent \/ (status[o] = "SUCCEEDED" /\ verdict = "ACCEPTED")
  PROVE  ~Inconsistent(o, verdict, q)
  <1>1. CASE status[o] \in Sent
    <2>1. reserved = Amount(o) /\ reservedOf[o] = Amount(o)
      BY <1>1, IInvGivesBooks, OpenHoldsGate
    <2>2. Total(q) \in Nat /\ Total(q) <= Amount(o) /\ Amount(o) \in Nat
      BY TotalIsNat, TotalGrows, AmountIsNat, SimulatorAssumption DEF Amount
    <2>3. reserved <= cash /\ cash \in Nat
      BY DEF IInv, Solvent, TypeOK
    <2>4. QED  BY <1>1, <2>1, <2>2, <2>3 DEF Inconsistent
  <1>2. CASE status[o] = "SUCCEEDED" /\ verdict = "ACCEPTED"
    BY <1>2 DEF Inconsistent
  <1>3. QED  BY <1>1, <1>2

LEMMA ConsistentIsCalm ==
  ASSUME NEW o, NEW verdict, NEW q, ~Inconsistent(o, verdict, q),
         ApplyReceipt(o, verdict, q)
  PROVE  manual' = manual
  BY DEF ApplyReceipt, Close, Settle, account

\* The next event fits what the store holds.
LEMMA NextFits ==
  ASSUME IInv, Ledger, cursor < Len(log)
  PROVE  LET e == log[cursor + 1] IN
         CASE e.type = "SALE_RECORDED" -> e.qty <= onHand
           [] e.type = "PURCHASE_ACCEPTED" ->
                ~Inconsistent(e.order, "ACCEPTED", e.qty)
           [] e.type = "GOODS_RECEIVED" ->
                /\ status[e.order] = "SUCCEEDED"
                /\ received[e.order] + e.qty <= ordered[e.order]
                /\ e.qty <= inTransit
           [] OTHER -> TRUE
  <1> DEFINE e == log[cursor + 1]
  <1>0. /\ cursor \in Nat /\ onHand \in Nat /\ log \in Seq(Events) /\ Len(log) \in Nat
        /\ cursor + 1 \in 1 .. Len(log) /\ e \in Events
        /\ ordered \in [Orders -> Nat] /\ received \in [Orders -> Nat]
        /\ inTransit \in Nat /\ Assisted \subseteq Orders
        /\ \A o \in Orders : Qty[o] \in Nat
    <2>1. cursor \in Nat /\ log \in Seq(Events)
      BY DEF IInv, TypeOK, SimTypeOK
    <2>2. Len(log) \in Nat /\ cursor + 1 \in 1 .. Len(log) /\ e \in Events
      BY <2>1
    <2>3. QED
      BY <2>1, <2>2, PurchasingAssumption, SimulatorAssumption DEF IInv, TypeOK
  <1>1. PICK v : Follows(v) /\ UpToDate(v)
    BY DEF Ledger, LogIsFollowed
  <1>2. /\ v[cursor] \in Worlds /\ v[cursor + 1] \in Worlds
        /\ Reads(v[cursor], e, v[cursor + 1])
    <2>1. /\ cursor \in 0 .. Len(log) /\ cursor + 1 \in 0 .. Len(log)
          /\ (cursor + 1) - 1 = cursor
      BY <1>0
    <2>2. /\ v \in [0 .. Len(log) -> Worlds]
          /\ \A i \in 1 .. Len(log) : Reads(v[i - 1], log[i], v[i])
      BY <1>1 DEF Follows
    <2>3. Reads(v[(cursor + 1) - 1], e, v[cursor + 1])
      BY <1>0, <2>2
    <2>4. QED  BY <2>1, <2>2, <2>3
  <1>3. CASE e.type = "SALE_RECORDED"
    <2>1. e.qty \in Nat
      BY <1>0, <1>3 DEF Events, DemandRevised
    <2>2. v[cursor].shelf \in Nat /\ v[cursor].shelf <= onHand
      <3>1. PICK n \in Nat : onHand = v[cursor].shelf + n
        BY <1>1 DEF UpToDate
      <3>2. v[cursor].shelf \in Nat
        BY <1>2 DEF Worlds
      <3>3. QED  BY <3>1, <3>2
    <2>3. v[cursor].shelf - e.qty \in Nat
      BY <1>2, <1>3 DEF Reads, Worlds
    <2>4. QED  BY <1>0, <1>3, <2>1, <2>2, <2>3
  <1>4. CASE e.type = "PURCHASE_ACCEPTED"
    <2>1. e.order \in Orders
      BY <1>0, <1>4 DEF Events, DemandRevised
    <2>2. purchase[e.order] = "ACCEPTED" /\ e.qty = Qty[e.order]
      BY <1>0, <1>4 DEF IInv, LogIsTrue
    <2>3. status[e.order] \in Sent \cup {"SUCCEEDED"}
      BY <2>1, <2>2 DEF IInv, SupplierAgrees
    <2>4. ~Inconsistent(e.order, "ACCEPTED", e.qty)
      <3>1. e.qty \in Nat /\ e.qty <= Qty[e.order]
        BY <1>0, <2>1, <2>2
      <3>2. QED  BY <2>1, <2>3, <3>1, ConsistentAnswer
    <2>5. QED  BY <1>4, <2>4
  <1>5. CASE e.type = "GOODS_RECEIVED"
    <2> DEFINE o == e.order
    <2>1. o \in Orders /\ e.qty \in Nat
      BY <1>0, <1>5 DEF Events, DemandRevised
    <2>2. PICK j \in 1 .. cursor : log[j].type = "PURCHASE_ACCEPTED" /\ log[j].order = o
      <3>1. AcceptedBy(o, (cursor + 1) - 1)
        BY <1>0, <1>5 DEF Ledger, LogIsOrdered
      <3>2. (cursor + 1) - 1 = cursor
        BY <1>0
      <3>3. QED  BY <3>1, <3>2 DEF AcceptedBy
    <2>4. status[o] = "SUCCEEDED"
      BY <2>2 DEF Ledger, LogIsOrdered
    <2>5. o \notin Assisted
      BY <1>0, <1>5, GoodsAreOrdered DEF Ledger
    <2>6. o \in Bought /\ ordered[o] = Qty[o]
      BY <2>1, <2>4, <2>5 DEF Bought, Ledger, BooksAddUp
    <2>7. v[cursor].goods[o] = received[o]
      BY <1>1, <2>1, <2>5 DEF UpToDate
    <2>8. received[o] + e.qty <= Qty[o]
      <3>1. v[cursor + 1].goods = [v[cursor].goods EXCEPT ![o] = @ + e.qty]
        BY <1>2, <1>5 DEF Reads
      <3>2. v[cursor].goods \in [Orders -> Nat] /\ v[cursor + 1].goods[o] <= Qty[o]
        BY <1>2, <2>1 DEF Worlds
      <3>3. QED  BY <2>1, <2>7, <3>1, <3>2
    <2>9. ordered[o] - received[o] <= inTransit
      BY <2>6, DueIsInTransit DEF Ledger
    <2>10. e.qty <= inTransit
      BY <1>0, <2>1, <2>6, <2>8, <2>9
    <2>11. QED  BY <1>5, <2>4, <2>6, <2>8, <2>10
  <1>6. CASE e.type \notin {"SALE_RECORDED", "PURCHASE_ACCEPTED", "GOODS_RECEIVED"}
    BY <1>6
  <1>7. QED  BY <1>3, <1>4, <1>5, <1>6

\* A refused purchase has no job: its refusal was the end of the last.
LEMMA StepFailedIsDone == ASSUME IInv, FailedIsDone, Next PROVE FailedIsDone'
  <1>0. /\ status \in [Orders -> {"none"} \cup Pending \cup Settled]
        /\ job \in [Orders -> {"none", "queued", "running"}]
        /\ Assisted \subseteq Orders
    BY PurchasingAssumption DEF IInv, TypeOK
  <1>same. ASSUME UNCHANGED job,
                  \A p \in Orders \ Assisted : status'[p] = "FAILED" => status[p] = "FAILED"
           PROVE  FailedIsDone'
    BY <1>same DEF FailedIsDone
  <1>1. ASSUME NEW o \in Orders, Decide(o) PROVE FailedIsDone'
    <2>1. CASE PublishPlan(o) \/ Reject(o)
      BY <2>1, <1>same DEF PublishPlan, Reject, actionRow, jobRow
    <2>2. CASE Approve(o)
      <3>1. \A p \in Orders : /\ status'[p] = "FAILED" => status[p] = "FAILED" /\ p # o
                              /\ p # o => job'[p] = job[p]
        BY <1>0, <2>2 DEF Approve
      <3>2. QED  BY <3>1 DEF FailedIsDone
    <2>3. QED  BY <1>1, <2>1, <2>2 DEF Decide
  <1>2. ASSUME NEW m \in Missions, ControlMission(m) PROVE FailedIsDone'
    <2>1. CASE RetirePlan(m)
      BY <2>1, <1>same DEF RetirePlan, actionRow, jobRow
    <2>2. CASE Pause(m) \/ Resume(m) \/ Complete(m) \/ CancelMission(m)
      <3>1. /\ UNCHANGED job
            /\ \/ UNCHANGED status
               \/ \E o : status' = [status EXCEPT ![o] = "CANCELLED"]
        BY <2>2 DEF Pause, Resume, Complete, CancelMission, Control, jobRow
      <3>2. QED  BY <1>0, <1>same, <3>1
    <2>3. QED  BY <1>2, <2>1, <2>2 DEF ControlMission
  <1>3. ASSUME NEW o \in Orders, Assist(o) PROVE FailedIsDone'
    <2>1. CASE SupplierConfirms(o) \/ SupplierDeclines(o) \/ AcceptPart(o) \/ Withdraw(o)
      <3>1. o \in Assisted /\ UNCHANGED job
        BY <2>1 DEF SupplierConfirms, SupplierDeclines, AcceptPart, Withdraw, Waiting, jobRow
      <3>2. \A p \in Orders : p # o => status'[p] = status[p]
        BY <1>0, <2>1 DEF SupplierConfirms, SupplierDeclines, AcceptPart, Withdraw,
                          ApplyReceipt, Conflict, Close, Settle, account
      <3>3. QED  BY <1>same, <3>1, <3>2
    <2>2. CASE UNCHANGED <<status, job>>
      BY <2>2, <1>same
    <2>3. QED
      BY <1>3, <2>1, <2>2 DEF Assist, SupplierOffers, RecordArrival, account, jobRow
  <1>4. ASSUME NEW w \in Workers, NEW o \in Orders, Claim(w, o) \/ Handle(w, o)
        PROVE  FailedIsDone'
    <2>1. CASE Claim(w, o)
      <3>1. job[o] = "queued" /\ UNCHANGED status /\ \A p \in Orders : p # o => job'[p] = job[p]
        BY <1>0, <2>1 DEF Claim, actionRow
      <3>2. QED  BY <3>1 DEF FailedIsDone
    <2>2. CASE RefuseSend(w, o) \/ Register(w, o)
      BY <1>0, <2>2, <1>same DEF RefuseSend, Register, Close, jobRow
    <2>3. CASE Publish(w, o)
      <3>1. job[o] = "running"
        BY <2>3 DEF Publish, Holds, At
      <3>2. job' = [job EXCEPT ![o] = IF Unresolved(o) THEN "queued" ELSE "none"]
        BY <2>3 DEF Publish
      <3>3. \A p \in Orders : p # o => job'[p] = job[p]
        BY <1>0, <3>2
      <3>4. status'[o] = "FAILED" => job'[o] = "none"
        BY <1>0, <3>2 DEF Unresolved
      <3>5. \A p \in Orders : p # o => status'[p] = status[p]
        BY <1>0, <2>3 DEF Publish, Enter, ApplyReceipt, Conflict, Close, Settle, account
      <3>6. QED  BY <3>3, <3>4, <3>5 DEF FailedIsDone
    <2>4. CASE JobFails(w, o)
      BY <1>0, <2>4 DEF JobFails, actionRow, FailedIsDone
    <2>5. CASE UNCHANGED <<status, job>>
      BY <2>5, <1>same
    <2>6. QED
      BY <1>4, <2>1, <2>2, <2>3, <2>4, <2>5
         DEF Handle, NothingToSend, Reconcile, Ask, Send, Answer, NoAnswer, Garble,
             Discard, backend, actionRow, jobRow
  <1>5. ASSUME NEW o \in Orders, LeaseLost(o) \/ RecoverAction(o) PROVE FailedIsDone'
    <2>1. UNCHANGED status /\ (status[o] # "FAILED" \/ job[o] # "none")
          /\ \A p \in Orders : p # o => job'[p] = job[p]
      BY <1>0, <1>5 DEF LeaseLost, RecoverAction, actionRow
    <2>2. QED  BY <2>1 DEF FailedIsDone
  <1>6. ASSUME NEW o \in Orders, Arrive(o) \/ Lose(o) PROVE FailedIsDone'
    BY <1>6, <1>same DEF Arrive, Lose, backend, actionRow, jobRow
  <1>7. CASE Sync
    <2>1. CASE IngestSale \/ IngestDemand
      BY <2>1, <1>same DEF IngestSale, IngestDemand, actionRow, jobRow
    <2>2. ASSUME NEW o \in Orders, IngestAccepted(o) \/ IngestGoods(o) PROVE FailedIsDone'
      <3>1. UNCHANGED job
        BY <2>2 DEF IngestAccepted, IngestGoods, jobRow
      <3>2. \A p \in Orders : p # o => status'[p] = status[p]
        BY <1>0, <2>2 DEF IngestAccepted, IngestGoods, TakeIn, ApplyReceipt, Conflict,
                          Close, Settle, account
      <3>3. status'[o] = "FAILED" => status[o] = "FAILED"
        <4>1. CASE IngestAccepted(o)
          BY <1>0, <4>1 DEF IngestAccepted, ApplyReceipt, Conflict, Settle, account
        <4>2. CASE IngestGoods(o)
          BY <1>0, <4>2 DEF IngestGoods, Conflict
        <4>3. QED  BY <2>2, <4>1, <4>2
      <3>4. QED  BY <1>same, <3>1, <3>2, <3>3
    <2>3. QED  BY <1>7, <2>1, <2>2 DEF Sync
  <1>8. CASE World
    BY <1>8, <1>same DEF World, backend, actionRow, jobRow
  <1>9. ASSUME NEW w \in Workers, Crash(w) PROVE FailedIsDone'
    BY <1>9, <1>same DEF Crash, backend, actionRow, jobRow
  <1>10. QED
    BY <1>1, <1>2, <1>3, <1>4, <1>5, <1>6, <1>7, <1>8, <1>9 DEF Next

\* A source that always answers readably leaves nobody with an unreadable answer.
LEMMA StepReadable == ASSUME IInv, Readable, Next PROVE Readable'
  <1>0. task \in [Workers -> Tasks]
        /\ purchase \in [Orders -> {"none", "ACCEPTED", "REJECTED"}]
    BY DEF IInv, TypeOK, SimTypeOK
  <1> SUFFICES ASSUME ~GarbledReplies
               PROVE  \A w \in Workers : task'[w].answer # "garbled"
    BY DEF Readable
  <1>1. \A w \in Workers : task[w].answer # "garbled"
    BY DEF Readable
  <1>same. ASSUME UNCHANGED task PROVE \A w \in Workers : task'[w].answer # "garbled"
    BY <1>1, <1>same
  <1>2. ASSUME NEW w \in Workers, NEW t, Becomes(w, t), t.answer # "garbled"
        PROVE  \A u \in Workers : task'[u].answer # "garbled"
    BY <1>0, <1>1, <1>2 DEF Becomes
  <1>3. ASSUME NEW w \in Workers, NEW o \in Orders, Claim(w, o) \/ Handle(w, o)
        PROVE  \A u \in Workers : task'[u].answer # "garbled"
    <2>1. \A s, a : Doing(s, o, a).answer = a
      BY DEF Doing
    <2>2. Free.answer = "nothing"
      BY DEF Free
    <2>3. ~Garble(w, o)
      BY DEF Garble
    <2>4. CASE Publish(w, o) \/ Discard(w, o) \/ JobFails(w, o)
      BY <1>2, <2>2, <2>4 DEF Publish, Discard, JobFails
    <2>5. CASE Register(w, o)
      BY <1>2, <2>1, <2>5 DEF Register
    <2>6. CASE Ask(w, o) \/ Answer(w, o)
      <3>1. \E s, a : Becomes(w, Doing(s, o, a)) /\ a \in {"nothing", "ACCEPTED", "REJECTED"}
        <4>1. CASE Ask(w, o) /\ purchase[o] = "none"
          BY <4>1 DEF Ask
        <4>2. CASE purchase[o] # "none"
          BY <1>0, <2>6, <4>2 DEF Ask, Answer
        <4>3. QED  BY <2>6, <4>1, <4>2 DEF Answer
      <3>2. QED  BY <1>2, <2>1, <3>1
    <2>7. CASE NoAnswer(w, o)
      BY <1>2, <2>1, <2>7 DEF NoAnswer
    <2>8. CASE \/ Claim(w, o) \/ NothingToSend(w, o) \/ RefuseSend(w, o)
               \/ Reconcile(w, o) \/ Send(w, o)
      BY <1>2, <2>1, <2>8 DEF Claim, NothingToSend, RefuseSend, Reconcile, Send
    <2>9. QED
      BY <1>3, <2>3, <2>4, <2>5, <2>6, <2>7, <2>8 DEF Handle
  <1>4. ASSUME NEW w \in Workers, Crash(w)
        PROVE  \A u \in Workers : task'[u].answer # "garbled"
    <2>1. Becomes(w, Free) /\ Free.answer = "nothing"
      BY <1>4 DEF Crash, Free
    <2>2. QED  BY <1>2, <2>1
  <1>5. CASE \/ \E o \in Orders : Decide(o) \/ Assist(o)
             \/ \E m \in Missions : ControlMission(m)
             \/ \E o \in Orders : LeaseLost(o) \/ RecoverAction(o) \/ Arrive(o) \/ Lose(o)
             \/ Sync
             \/ World
    <2>1. UNCHANGED task
      BY <1>5 DEF Decide, PublishPlan, Approve, Reject, Assist, SupplierConfirms,
                  SupplierDeclines, SupplierOffers, AcceptPart, Withdraw, RecordArrival,
                  ControlMission, RetirePlan, Pause, Resume, Complete, CancelMission,
                  Control, LeaseLost, RecoverAction, Arrive, Lose, Sync, IngestSale,
                  IngestDemand, IngestAccepted, IngestGoods, World, Locally
    <2>2. QED  BY <2>1, <1>same
  <1>6. QED  BY <1>3, <1>4, <1>5 DEF Next

\* No readable report contradicts another, so nobody is asked to decide.
LEMMA StepNoConflict ==
  ASSUME IInv, Ledger, Readable, FailedIsDone, NoFalseConflict, Next
  PROVE  NoFalseConflict'
  <1> SUFFICES ASSUME ~GarbledReplies PROVE manual' = manual
    BY DEF NoFalseConflict
  <1>0. /\ \A o \in Orders : ~manual[o] /\ Qty[o] \in Nat
        /\ Assisted \subseteq Orders
        /\ status \in [Orders -> {"none"} \cup Pending \cup Settled]
        /\ reply \in [Orders -> Nat] /\ \A o \in Orders : reply[o] < Qty[o]
    BY SimulatorAssumption, PurchasingAssumption DEF NoFalseConflict, IInv, TypeOK
  <1>1. ASSUME NEW o \in Orders, NEW q \in Nat, q <= Qty[o], NEW verdict,
               status[o] \in Sent \/ (status[o] = "SUCCEEDED" /\ verdict = "ACCEPTED"),
               ApplyReceipt(o, verdict, q)
        PROVE  manual' = manual
    BY <1>1, ConsistentAnswer, ConsistentIsCalm
  <1>2. ASSUME NEW o \in Orders, Decide(o) \/ Assist(o) PROVE manual' = manual
    <2>1. CASE SupplierConfirms(o)
      <3>1. /\ status[o] \in Sent /\ ApplyReceipt(o, "ACCEPTED", Qty[o])
            /\ Qty[o] \in Nat /\ Qty[o] <= Qty[o]
        BY <1>0, <2>1 DEF SupplierConfirms, Waiting
      <3>2. QED  BY <1>1, <3>1
    <2>2. CASE SupplierDeclines(o)
      <3>1. status[o] \in Sent /\ ApplyReceipt(o, "REJECTED", 0) /\ 0 \in Nat /\ 0 <= Qty[o]
        BY <1>0, <2>2 DEF SupplierDeclines, Waiting
      <3>2. QED  BY <1>1, <3>1
    <2>3. CASE AcceptPart(o)
      <3>1. /\ status[o] \in Sent /\ ApplyReceipt(o, "ACCEPTED", reply[o])
            /\ reply[o] \in Nat /\ reply[o] <= Qty[o]
        BY <1>0, <2>3 DEF AcceptPart, Waiting
      <3>2. QED  BY <1>1, <3>1
    <2>4. QED
      BY <1>2, <2>1, <2>2, <2>3
         DEF Decide, PublishPlan, Approve, Reject, Assist, SupplierOffers, Withdraw, Close,
             RecordArrival, account, actionRow
  <1>3. ASSUME NEW w \in Workers, NEW o \in Orders, Claim(w, o) \/ Handle(w, o)
        PROVE  manual' = manual
    <2>1. CASE Publish(w, o)
      <3> DEFINE a == task[w].answer
      <3>1. task[w].order = o /\ job[o] = "running" /\ Enter(o, a)
        BY <2>1 DEF Publish, Holds, At
      <3>2. a # "garbled"
        BY DEF Readable
      <3>3. CASE a \in {"ACCEPTED", "REJECTED"} /\ ApplyReceipt(o, a, Qty[o])
        <4>1. PastRegistration(w, o) /\ purchase[o] = a
          BY <3>1, <3>3 DEF PastRegistration, IInv, AnswersAreTrue
        <4>2. o \notin Assisted
          BY <4>1 DEF IInv, SupplierAgrees
        <4>3. status[o] # "FAILED"
          BY <3>1, <4>2 DEF FailedIsDone
        <4>4. status[o] \in Sent \/ (status[o] = "SUCCEEDED" /\ a = "ACCEPTED")
          BY <3>3, <4>1, <4>3 DEF IInv, SupplierAgrees
        <4>5. Qty[o] \in Nat /\ Qty[o] <= Qty[o]
          BY <1>0
        <4>6. QED  BY <1>1, <3>3, <4>4, <4>5
      <3>4. QED  BY <3>1, <3>2, <3>3 DEF Enter, account
    <2>2. QED
      BY <1>3, <2>1
         DEF Claim, Handle, NothingToSend, RefuseSend, Close, Register, Reconcile, Ask, Send,
             Answer, NoAnswer, Garble, Discard, JobFails, backend, actionRow
  <1>4. CASE Sync
    <2>1. CASE IngestSale \/ IngestDemand
      BY <2>1 DEF IngestSale, IngestDemand, actionRow
    <2>2. ASSUME NEW o \in Orders, IngestAccepted(o) PROVE manual' = manual
      <3>1. purchase[o] = "ACCEPTED" /\ log[cursor + 1].qty = Qty[o]
        BY <2>2, NextEvent DEF IngestAccepted, NextIs, IInv, LogIsTrue
      <3>2. status[o] \in Sent \/ status[o] = "SUCCEEDED"
        BY <3>1 DEF IInv, SupplierAgrees
      <3>3. Qty[o] \in Nat /\ Qty[o] <= Qty[o] /\ ApplyReceipt(o, "ACCEPTED", Qty[o])
        BY <1>0, <2>2, <3>1 DEF IngestAccepted
      <3>4. QED  BY <1>1, <3>2, <3>3
    <2>3. ASSUME NEW o \in Orders, IngestGoods(o) PROVE manual' = manual
      <3>1. /\ cursor < Len(log) /\ log[cursor + 1].type = "GOODS_RECEIVED"
            /\ log[cursor + 1].order = o
        BY <2>3 DEF IngestGoods, NextIs
      <3>2. /\ received[o] + log[cursor + 1].qty <= ordered[o]
            /\ log[cursor + 1].qty <= inTransit
        BY <3>1, NextFits
      <3>3. QED  BY <1>0, <2>3, <3>2 DEF IngestGoods
    <2>4. QED  BY <1>4, <2>1, <2>2, <2>3 DEF Sync
  <1>5. CASE \/ \E m \in Missions : ControlMission(m)
             \/ \E w \in Workers : Crash(w)
             \/ \E o \in Orders : LeaseLost(o) \/ RecoverAction(o) \/ Arrive(o) \/ Lose(o)
             \/ World
    BY <1>5 DEF ControlMission, RetirePlan, Pause, Resume, Complete, CancelMission, Control,
                Crash, LeaseLost, RecoverAction, Arrive, Lose, World, backend, actionRow
  <1>6. QED  BY <1>2, <1>3, <1>4, <1>5 DEF Next

-----------------------------------------------------------------------------
Calm == Readable /\ FailedIsDone /\ NoFalseConflict

LEMMA StartLedger == Init => Ledger /\ Calm
  <1> SUFFICES ASSUME Init PROVE Ledger /\ Calm
    OBVIOUS
  <1>1. Bought = {}
    BY DEF Bought, Init
  <1>2. BooksAddUp
    <2>1. PICK f : f = [T \in SUBSET {} |-> 0]
      OBVIOUS
    <2>2. \A val : AddsUp(f, val, {}) /\ f[{}] = 0
      BY <2>1 DEF AddsUp
    <2>3. Total(0) = 0
      BY SimulatorAssumption DEF Total
    <2>4. cash = InitialCash - Total(f[Bought]) /\ inTransit = f[Bought]
      BY <1>1, <2>2, <2>3, SimulatorAssumption DEF Init
    <2>5. \A o \in Orders : ordered[o] = 0 /\ received[o] = 0
      BY DEF Init
    <2>6. QED  BY <1>1, <2>2, <2>4, <2>5 DEF BooksAddUp
  <1>3. log = <<>> /\ Len(log) = 0 /\ cursor = 0
    BY DEF Init, SimInit
  <1>4. LogIsFollowed
    <2>1. PICK v : v = [i \in 0 .. 0 |-> Opening]
      OBVIOUS
    <2>2. Opening \in Worlds
      BY SimulatorAssumption DEF Opening, Worlds
    <2>3. SupplierWorld = Opening
      BY DEF SupplierWorld, Opening, Init, SimInit
    <2>4. Follows(v)
      BY <1>3, <2>1, <2>2, <2>3 DEF Follows
    <2>5. UpToDate(v)
      <3>1. PICK f : f = [T \in SUBSET {} |-> 0]
        OBVIOUS
      <3>2. AddsUp(f, received, ByOwner) /\ f[ByOwner] = 0
        BY <1>1, <3>1 DEF AddsUp, ByOwner
      <3>3. TakenByOwner(0)
        BY <3>2 DEF TakenByOwner
      <3>4. v[cursor] = Opening /\ onHand = InitialStock + 0 /\ 0 \in Nat
        BY <1>3, <2>1, SimulatorAssumption DEF Init
      <3>5. QED  BY <3>3, <3>4 DEF UpToDate, Opening, Init
    <2>6. QED  BY <1>3, <2>4, <2>5 DEF LogIsFollowed
  <1>5. LogIsOrdered
    BY <1>3 DEF LogIsOrdered, Init, SimInit
  <1>6. Calm
    BY PurchasingAssumption
       DEF Calm, Readable, FailedIsDone, NoFalseConflict, Init, Free
  <1>7. QED  BY <1>2, <1>4, <1>5, <1>6 DEF Ledger

LEMMA StepLedgerCalm == IInv /\ Ledger /\ Calm /\ [Next]_vars => (Ledger /\ Calm)'
  <1> SUFFICES ASSUME IInv, Ledger, Calm, [Next]_vars PROVE (Ledger /\ Calm)'
    OBVIOUS
  <1>1. CASE Next
    BY <1>1, StepKeepsLedger, StepReadable, StepFailedIsDone, StepNoConflict DEF Calm
  <1>2. CASE UNCHANGED vars
    <2>1. /\ UNCHANGED <<cash, inTransit, onHand, cursor, status, manual, ordered, received>>
          /\ UNCHANGED <<job, task, purchase, log, SupplierWorld>>
      BY <1>2 DEF vars, books, actionRow, jobRow, simVars, SupplierWorld
    <2>2. Calm'
      BY <2>1 DEF Calm, Readable, FailedIsDone, NoFalseConflict
    <2>3. BooksAddUp'
      <3>1. Quiet
        BY <2>1 DEF Quiet
      <3>2. QED  BY <3>1, QuietAddsUp DEF Ledger
    <2>4. LogIsFollowed'
      BY <2>1 DEF Ledger, LogIsFollowed, Follows, UpToDate, TakenByOwner, ByOwner, Bought
    <2>5. LogIsOrdered'
      BY <2>1 DEF Ledger, LogIsOrdered, AcceptedBy
    <2>6. QED  BY <2>2, <2>3, <2>4, <2>5 DEF Ledger
  <1>3. QED  BY <1>1, <1>2

\* The second inductive invariant, on top of the first.
THEOREM LedgerInvariance == Spec => [](Ledger /\ Calm)
  BY StartLedger, StepLedgerCalm, PurchasingInvariance, PTL DEF Spec

\* The books are the sums of the purchases: what was bought is paid for once,
\* and what of it has not arrived is in transit (accounting.py 42-87, 150-200).
THEOREM PurchasesAddUp == Spec => []BooksAddUp
  <1>1. Ledger => BooksAddUp
    BY DEF Ledger
  <1>2. QED  BY <1>1, LedgerInvariance, PTL

\* A client that reads every event once, from the opening state, knows the
\* supplier's world, and the store's books are as far as its cursor.
THEOREM LogCanBeFollowed == Spec => []LogIsFollowed
  <1>1. Ledger => LogIsFollowed
    BY DEF Ledger
  <1>2. QED  BY <1>1, LedgerInvariance, PTL

\* While the source can be read, no purchase ends up waiting for a person.
THEOREM NothingWaitsForAPerson == Spec => []NoFalseConflict
  <1>1. Calm => NoFalseConflict
    BY DEF Calm
  <1>2. QED  BY <1>1, LedgerInvariance, PTL

\* The event the cursor waits for can be entered.
THEOREM EventsFit == Spec => []NextEventFits
  <1>1. IInv /\ Ledger => NextEventFits
    BY NextFits DEF NextEventFits
  <1>2. QED  BY <1>1, LedgerInvariance, PurchasingInvariance, PTL

-----------------------------------------------------------------------------
(* What the sums come to: the books and the log as folds *)

Counted == {"PURCHASE_ACCEPTED", "GOODS_RECEIVED", "SALE_RECORDED"}

\* f sums the units of the log's events of one type.
SumsLog(f, type) == AddsUp(f, UnitsOf(type, log), 1 .. Len(log))

LEMMA UnitsAreNumbers ==
  ASSUME TypeOK, NEW type \in Counted
  PROVE  \A i \in 1 .. Len(log) : UnitsOf(type, log)[i] \in Nat
  <1>1. log \in Seq(Events) /\ Len(log) \in Nat /\ DOMAIN log = 1 .. Len(log)
    BY DEF TypeOK, SimTypeOK
  <1>2. ASSUME NEW i \in 1 .. Len(log) PROVE UnitsOf(type, log)[i] \in Nat
    <2>1. log[i] \in Events
      BY <1>1
    <2>2. log[i].type = type => log[i].qty \in Nat
      BY <2>1 DEF Counted, Events, DemandRevised
    <2>3. QED  BY <1>1, <2>2 DEF UnitsOf
  <1>3. QED  BY <1>2

LEMMA LogHasSums == ASSUME TypeOK, NEW type \in Counted PROVE \E f : SumsLog(f, type)
  <1>1. IsFiniteSet(1 .. Len(log))
    BY FS_Interval DEF TypeOK, SimTypeOK
  <1>2. QED  BY <1>1, UnitsAreNumbers, SumExists DEF SumsLog

\* The events of a prefix are summed by the sum of all.
LEMMA PrefixIsSummed ==
  ASSUME TypeOK, NEW type \in Counted, NEW f, SumsLog(f, type), NEW n \in 0 .. Len(log)
  PROVE  UnitsIn(type, SubSeq(log, 1, n)) = f[1 .. n]
  <1> DEFINE page == SubSeq(log, 1, n)
             g == [T \in SUBSET (1 .. n) |-> f[T]]
  <1>1. log \in Seq(Events) /\ Len(log) \in Nat /\ DOMAIN log = 1 .. Len(log)
    BY DEF TypeOK, SimTypeOK
  <1>2. DOMAIN page = 1 .. n /\ n \in Nat /\ \A i \in 1 .. n : page[i] = log[i]
    BY <1>1
  <1> HIDE DEF page
  <1>3. \A i \in 1 .. n : /\ UnitsOf(type, page)[i] = UnitsOf(type, log)[i]
                          /\ UnitsOf(type, page)[i] \in Nat
    BY <1>1, <1>2, UnitsAreNumbers DEF UnitsOf
  <1>4. 1 .. n \subseteq 1 .. Len(log)
    BY <1>1
  <1>5. AddsUp(g, UnitsOf(type, page), 1 .. n)
    <2>1. g \in [SUBSET (1 .. n) -> Nat] /\ g[{}] = 0
      BY <1>4 DEF SumsLog, AddsUp
    <2>2. ASSUME NEW T \in SUBSET (1 .. n), NEW p \in 1 .. n, p \notin T
          PROVE  g[T \cup {p}] = g[T] + UnitsOf(type, page)[p]
      <3>1. T \in SUBSET (1 .. Len(log)) /\ p \in 1 .. Len(log) /\ T \cup {p} \in SUBSET (1 .. n)
        BY <1>4
      <3>2. f[T \cup {p}] = f[T] + UnitsOf(type, log)[p]
        BY <2>2, <3>1 DEF SumsLog, AddsUp
      <3>3. QED  BY <1>3, <3>1, <3>2
    <2>3. QED  BY <2>1, <2>2 DEF AddsUp
  <1>6. UnitsIn(type, page) = g[1 .. n]
    BY <1>2, <1>3, <1>5, FoldLeftIsSum
  <1>7. QED  BY <1>6 DEF page

LEMMA LogIsSummed ==
  ASSUME TypeOK, NEW type \in Counted, NEW f, SumsLog(f, type)
  PROVE  UnitsIn(type, log) = f[1 .. Len(log)]
  <1>1. Len(log) \in Nat /\ DOMAIN log = 1 .. Len(log)
    BY DEF TypeOK, SimTypeOK
  <1>2. QED  BY <1>1, UnitsAreNumbers, FoldLeftIsSum DEF SumsLog

\* One more event adds its units, if it is of the type.
LEMMA SumGrows ==
  ASSUME TypeOK, NEW type \in Counted, NEW f, SumsLog(f, type), NEW i \in 1 .. Len(log)
  PROVE  /\ f[1 .. i - 1] \in Nat
         /\ f[1 .. i] = f[1 .. i - 1] + (IF log[i].type = type THEN log[i].qty ELSE 0)
  <1>1. Len(log) \in Nat /\ DOMAIN log = 1 .. Len(log)
    BY DEF TypeOK, SimTypeOK
  <1>2. /\ 1 .. i - 1 \in SUBSET (1 .. Len(log)) /\ i \notin 1 .. i - 1
        /\ (1 .. i - 1) \cup {i} = 1 .. i
    BY <1>1
  <1>3. f[1 .. i - 1] \in Nat /\ f[1 .. i] = f[1 .. i - 1] + UnitsOf(type, log)[i]
    BY <1>2 DEF SumsLog, AddsUp
  <1>4. QED  BY <1>1, <1>3 DEF UnitsOf

\* What a reader knows after n events, in terms of the events so far.
CountsOf(v, n, a, g, s) ==
    /\ v[n].cash = InitialCash - Total(a[1 .. n])
    /\ v[n].transit = a[1 .. n] - g[1 .. n]
    /\ v[n].shelf = InitialStock + g[1 .. n] - s[1 .. n]
    /\ a[1 .. n] \in Nat /\ g[1 .. n] \in Nat /\ s[1 .. n] \in Nat

LEMMA ReadingCounts ==
  ASSUME TypeOK, NEW v, Follows(v),
         NEW a, SumsLog(a, "PURCHASE_ACCEPTED"), NEW g, SumsLog(g, "GOODS_RECEIVED"),
         NEW s, SumsLog(s, "SALE_RECORDED")
  PROVE  \A n \in 0 .. Len(log) : CountsOf(v, n, a, g, s)
  <1> DEFINE G == {n \in 0 .. Len(log) : CountsOf(v, n, a, g, s)}
  <1>1. Len(log) \in Nat /\ log \in Seq(Events)
    BY DEF TypeOK, SimTypeOK
  <1>2. 0 \in G
    <2>1. 1 .. 0 = {} /\ Total(0) = 0
      BY SimulatorAssumption DEF Total
    <2>2. a[1 .. 0] = 0 /\ g[1 .. 0] = 0 /\ s[1 .. 0] = 0
      BY <2>1 DEF SumsLog, AddsUp
    <2>3. v[0] = Opening
      BY DEF Follows
    <2>4. QED  BY <1>1, <2>1, <2>2, <2>3, SimulatorAssumption DEF CountsOf, Opening
  <1>3. ASSUME NEW i \in 1 .. Len(log), i - 1 \in G PROVE i \in G
    <2> DEFINE a0 == a[1 .. i - 1]  g0 == g[1 .. i - 1]  s0 == s[1 .. i - 1]
               a1 == a[1 .. i]  g1 == g[1 .. i]  s1 == s[1 .. i]
               w == v[i - 1]  x == v[i]  e == log[i]
    <2>1. /\ a1 = a0 + (IF e.type = "PURCHASE_ACCEPTED" THEN e.qty ELSE 0)
          /\ g1 = g0 + (IF e.type = "GOODS_RECEIVED" THEN e.qty ELSE 0)
          /\ s1 = s0 + (IF e.type = "SALE_RECORDED" THEN e.qty ELSE 0)
      BY SumGrows DEF Counted
    <2>2. w \in Worlds /\ Reads(w, e, x) /\ e \in Events
      BY <1>1 DEF Follows
    <2>3. /\ a0 \in Nat /\ g0 \in Nat /\ s0 \in Nat
          /\ w.cash = InitialCash - Total(a0) /\ w.transit = a0 - g0
          /\ w.shelf = InitialStock + g0 - s0
      BY <1>3 DEF CountsOf
    <2>4. SUFFICES /\ a1 \in Nat /\ g1 \in Nat /\ s1 \in Nat
                   /\ x.cash = InitialCash - Total(a1) /\ x.transit = a1 - g1
                   /\ x.shelf = InitialStock + g1 - s1
      BY DEF CountsOf
    <2> HIDE DEF a0, g0, s0, a1, g1, s1, w, x, e
    <2>5. e.type \in Counted => e.qty \in Nat
      BY <2>2 DEF Counted, Events, DemandRevised
    <2>6. InitialCash \in Nat /\ InitialStock \in Nat /\ Total(a0) \in Nat
      BY <2>3, TotalIsNat, SimulatorAssumption
    <2>7. CASE e.type = "PURCHASE_ACCEPTED"
      <3>1. e.qty \in Nat /\ Total(e.qty) \in Nat
        BY <2>5, <2>7, TotalIsNat DEF Counted
      <3>2. a1 = a0 + e.qty /\ g1 = g0 /\ s1 = s0
        BY <2>1, <2>3, <2>7
      <3>3. Total(a1) = Total(a0) + Total(e.qty)
        BY <2>3, <3>1, <3>2, TotalAdds
      <3>4. /\ x.cash = w.cash - Total(e.qty)
            /\ x.transit = w.transit + e.qty /\ x.shelf = w.shelf
        BY <2>2, <2>7 DEF Reads
      <3>5. a1 \in Nat /\ g1 \in Nat /\ s1 \in Nat
        BY <2>3, <3>1, <3>2
      <3>6. x.cash = InitialCash - Total(a1)
        BY <2>3, <2>6, <3>1, <3>3, <3>4
      <3>7. x.transit = a1 - g1
        BY <2>3, <3>1, <3>2, <3>4
      <3>8. x.shelf = InitialStock + g1 - s1
        BY <2>3, <3>2, <3>4
      <3>9. QED  BY <3>5, <3>6, <3>7, <3>8
    <2>8. CASE e.type = "GOODS_RECEIVED"
      <3>1. e.qty \in Nat
        BY <2>5, <2>8 DEF Counted
      <3>2. a1 = a0 /\ g1 = g0 + e.qty /\ s1 = s0
        BY <2>1, <2>3, <2>8
      <3>3. x.cash = w.cash /\ x.transit = w.transit - e.qty /\ x.shelf = w.shelf + e.qty
        BY <2>2, <2>8 DEF Reads
      <3>4. a1 \in Nat /\ g1 \in Nat /\ s1 \in Nat
        BY <2>3, <3>1, <3>2
      <3>5. x.cash = InitialCash - Total(a1)
        BY <2>3, <3>2, <3>3
      <3>6. x.transit = a1 - g1
        BY <2>3, <3>1, <3>2, <3>3
      <3>7. x.shelf = InitialStock + g1 - s1
        <4>1. (InitialStock + g0 - s0) + e.qty = InitialStock + (g0 + e.qty) - s0
          BY <2>3, <2>6, <3>1
        <4>2. QED  BY <2>3, <3>2, <3>3, <4>1
      <3>8. QED  BY <3>4, <3>5, <3>6, <3>7
    <2>9. CASE e.type = "SALE_RECORDED"
      <3>1. e.qty \in Nat
        BY <2>5, <2>9 DEF Counted
      <3>2. a1 = a0 /\ g1 = g0 /\ s1 = s0 + e.qty
        BY <2>1, <2>3, <2>9
      <3>3. x.cash = w.cash /\ x.transit = w.transit /\ x.shelf = w.shelf - e.qty
        BY <2>2, <2>9 DEF Reads
      <3>4. a1 \in Nat /\ g1 \in Nat /\ s1 \in Nat
        BY <2>3, <3>1, <3>2
      <3>5. x.cash = InitialCash - Total(a1)
        BY <2>3, <3>2, <3>3
      <3>6. x.transit = a1 - g1
        BY <2>3, <3>1, <3>2, <3>3
      <3>7. x.shelf = InitialStock + g1 - s1
        <4>1. (InitialStock + g0 - s0) - e.qty = InitialStock + g0 - (s0 + e.qty)
          BY <2>3, <2>6, <3>1
        <4>2. QED  BY <2>3, <3>2, <3>3, <4>1
      <3>8. QED  BY <3>4, <3>5, <3>6, <3>7
    <2>10. CASE e.type = "DEMAND_REVISED"
      <3>1. x = w /\ a1 = a0 /\ g1 = g0 /\ s1 = s0
        BY <2>1, <2>2, <2>3, <2>10 DEF Reads
      <3>2. QED  BY <2>3, <3>1
    <2>11. QED  BY <2>2, <2>7, <2>8, <2>9, <2>10 DEF Reads
  <1>4. 0 .. Len(log) \subseteq G
    <2> HIDE DEF G
    <2>1. QED  BY <1>1, <1>2, <1>3, CountingUp
  <1>5. QED  BY <1>4

LEMMA FollowedLogTells == TypeOK /\ LogIsFollowed => LogTellsWorld
  <1> SUFFICES ASSUME TypeOK, LogIsFollowed PROVE LogTellsWorld
    OBVIOUS
  <1>1. PICK v : Follows(v)
    BY DEF LogIsFollowed
  <1>2. PICK a : SumsLog(a, "PURCHASE_ACCEPTED")
    BY LogHasSums DEF Counted
  <1>3. PICK g : SumsLog(g, "GOODS_RECEIVED")
    BY LogHasSums DEF Counted
  <1>4. PICK s : SumsLog(s, "SALE_RECORDED")
    BY LogHasSums DEF Counted
  <1>5. CountsOf(v, Len(log), a, g, s)
    <2>1. Len(log) \in 0 .. Len(log)
      BY DEF TypeOK, SimTypeOK
    <2>2. QED  BY <1>1, <1>2, <1>3, <1>4, <2>1, ReadingCounts
  <1>6. v[Len(log)] = SupplierWorld
    BY <1>1 DEF Follows
  <1>7. /\ UnitsIn("PURCHASE_ACCEPTED", log) = a[1 .. Len(log)]
        /\ UnitsIn("GOODS_RECEIVED", log) = g[1 .. Len(log)]
        /\ UnitsIn("SALE_RECORDED", log) = s[1 .. Len(log)]
    BY <1>2, <1>3, <1>4, LogIsSummed DEF Counted
  <1>8. QED  BY <1>5, <1>6, <1>7 DEF LogTellsWorld, CountsOf, SupplierWorld

\* The log tells of everything that happened to the supplier's world, once: the
\* world is the opening with every event applied.
THEOREM LogTellsTheWorld == Spec => []LogTellsWorld
  <1>1. IInv /\ Ledger => LogTellsWorld
    BY FollowedLogTells DEF IInv, Ledger
  <1>2. QED  BY <1>1, PurchasingInvariance, LedgerInvariance, PTL

\* An assisted order leaves no trace in the log.
LEMMA GoodsAreNotAssisted ==
  ASSUME IInv, LogIsOrdered, NEW i \in 1 .. Len(log), log[i].type = "GOODS_RECEIVED"
  PROVE  log[i].order \in Orders \ Assisted
  <1>1. PICK j \in 1 .. i - 1 : log[j].type = "PURCHASE_ACCEPTED" /\ log[j].order = log[i].order
    BY DEF LogIsOrdered, AcceptedBy
  <1>2. Len(log) \in Nat /\ log \in Seq(Events)
    BY DEF IInv, TypeOK, SimTypeOK
  <1>3. j \in 1 .. Len(log) /\ log[i] \in Events
    BY <1>1, <1>2
  <1>4. purchase[log[i].order] = "ACCEPTED"
    BY <1>1, <1>3 DEF IInv, LogIsTrue
  <1>5. log[i].order \in Orders
    BY <1>3 DEF Events, DemandRevised
  <1>6. QED  BY <1>4, <1>5 DEF IInv, SupplierAgrees

\* The goods of each order, together, are the goods that were told of.
GoodsOf(v, n, g) ==
    /\ \A o \in Assisted : v[n].goods[o] = 0
    /\ \E h : AddsUp(h, v[n].goods, Orders) /\ h[Orders] = g[1 .. n]

LEMMA GoodsAddUp ==
  ASSUME IInv, LogIsOrdered, NEW v, Follows(v), NEW g, SumsLog(g, "GOODS_RECEIVED")
  PROVE  \A n \in 0 .. Len(log) : GoodsOf(v, n, g)
  <1> DEFINE G == {n \in 0 .. Len(log) : GoodsOf(v, n, g)}
  <1>1. Len(log) \in Nat /\ log \in Seq(Events) /\ TypeOK
    <2>1. TypeOK
      BY DEF IInv
    <2>. QED
      BY <2>1 DEF TypeOK, SimTypeOK
  <1>2. 0 \in G
    <2>1. v[0].goods = [o \in Orders |-> 0]
      BY DEF Follows, Opening
    <2>2. g[1 .. 0] = 0
      <3>1. 1 .. 0 = {}
        OBVIOUS
      <3>2. QED  BY <3>1 DEF SumsLog, AddsUp
    <2>3. PICK h : h = [T \in SUBSET Orders |-> 0]
      OBVIOUS
    <2>4. h[Orders] = 0
      <3>1. Orders \in SUBSET Orders
        OBVIOUS
      <3>2. QED  BY <2>3, <3>1
    <2>5. AddsUp(h, v[0].goods, Orders)
      BY <2>1, <2>3 DEF AddsUp
    <2>6. GoodsOf(v, 0, g)
      BY <2>1, <2>2, <2>4, <2>5, PurchasingAssumption DEF GoodsOf
    <2>7. QED  BY <1>1, <2>6
  <1>3. ASSUME NEW i \in 1 .. Len(log), i - 1 \in G PROVE i \in G
    <2> DEFINE w == v[i - 1]  x == v[i]  e == log[i]
               g0 == g[1 .. i - 1]  g1 == g[1 .. i]
    <2>1. g1 = g0 + (IF e.type = "GOODS_RECEIVED" THEN e.qty ELSE 0) /\ g0 \in Nat
      BY <1>1, SumGrows DEF Counted
    <2>2. w \in Worlds /\ Reads(w, e, x) /\ e \in Events
      BY <1>1 DEF Follows
    <2>3. \A o \in Assisted : w.goods[o] = 0
      BY <1>3 DEF GoodsOf
    <2>4. PICK h : AddsUp(h, w.goods, Orders) /\ h[Orders] = g0
      BY <1>3 DEF GoodsOf
    <2>5. e.type = "GOODS_RECEIVED" => e.order \in Orders \ Assisted
      BY GoodsAreNotAssisted
    <2>6. SUFFICES /\ \A o \in Assisted : x.goods[o] = 0
                   /\ \E k : AddsUp(k, x.goods, Orders) /\ k[Orders] = g1
      BY DEF GoodsOf
    <2> HIDE DEF w, x, e, g0, g1
    <2>7. CASE e.type # "GOODS_RECEIVED"
      <3>1. x.goods = w.goods
        BY <2>2, <2>7 DEF Reads
      <3>2. g1 = g0
        BY <2>1, <2>7
      <3>3. QED  BY <2>3, <2>4, <3>1, <3>2
    <2>8. CASE e.type = "GOODS_RECEIVED"
      <3> DEFINE o == e.order
      <3>1. o \in Orders \ Assisted /\ e.qty \in Nat
        BY <2>2, <2>5, <2>8 DEF Events, DemandRevised
      <3>2. x.goods = [w.goods EXCEPT ![o] = @ + e.qty] /\ w.goods \in [Orders -> Nat]
        BY <2>2, <2>8 DEF Reads, Worlds
      <3>3. \A p \in Assisted : x.goods[p] = 0
        BY <2>3, <3>1, <3>2, PurchasingAssumption
      <3>4. x.goods[o] = w.goods[o] + e.qty /\ w.goods[o] \in Nat
        BY <3>1, <3>2
      <3>5. ChangesAt(w.goods, x.goods, Orders, o)
        BY <3>1, <3>2 DEF ChangesAt
      <3>6. PICK k : SumsAgain(k, h, x.goods, Orders, o)
        BY <2>4, <3>5, SumChanges
      <3>7. Orders \cup {o} = Orders
        BY <3>1
      <3>8. k[Orders] = h[Orders \ {o}] + x.goods[o] /\ AddsUp(k, x.goods, Orders)
        BY <3>6, <3>7 DEF SumsAgain
      <3>9. h[Orders] = h[Orders \ {o}] + w.goods[o] /\ h[Orders \ {o}] \in Nat
        <4> DEFINE val == w.goods
        <4>1. AddsUp(h, val, Orders) /\ o \in Orders
          BY <2>4, <3>1
        <4> HIDE DEF val, o
        <4>2. h[Orders] = h[Orders \ {o}] + val[o] /\ h[Orders \ {o}] \in Nat
          BY <4>1, SumHasParts
        <4>3. QED  BY <4>2 DEF val
      <3>10. k[Orders] = g1
        <4>1. g1 = g0 + e.qty
          BY <2>1, <2>8
        <4>2. h[Orders \ {o}] + (w.goods[o] + e.qty) = (h[Orders \ {o}] + w.goods[o]) + e.qty
          BY <3>1, <3>4, <3>9
        <4>3. QED  BY <2>4, <3>4, <3>8, <3>9, <4>1, <4>2
      <3>11. QED  BY <3>3, <3>8, <3>10
    <2>9. QED  BY <2>7, <2>8
  <1>4. 0 .. Len(log) \subseteq G
    <2> HIDE DEF G
    <2>1. QED  BY <1>1, <1>2, <1>3, CountingUp
  <1>5. QED  BY <1>4

\* What is zero outside T is summed by the sum over T.
OnlyIn(val, T, S) == T \in SUBSET S /\ \A x \in S \ T : val[x] = 0

LEMMA ZerosCountNothing ==
  ASSUME NEW S, NEW T, NEW f, NEW val, AddsUp(f, val, T), OnlyIn(val, T, S)
  PROVE  \E g : AddsUp(g, val, S) /\ g[S] = f[T]
  <1> USE DEF OnlyIn
  <1> DEFINE g == [U \in SUBSET S |-> f[U \cap T]]
  <1>1. g \in [SUBSET S -> Nat] /\ g[{}] = 0
    BY DEF AddsUp
  <1>2. ASSUME NEW U \in SUBSET S, NEW p \in S, p \notin U
        PROVE  g[U \cup {p}] = g[U] + val[p]
    <2>1. U \cup {p} \in SUBSET S /\ U \cap T \in SUBSET T /\ f[U \cap T] \in Nat
      BY DEF AddsUp
    <2>2. CASE p \in T
      <3>1. (U \cup {p}) \cap T = (U \cap T) \cup {p} /\ p \notin U \cap T
        BY <1>2, <2>2
      <3>2. f[(U \cap T) \cup {p}] = f[U \cap T] + val[p]
        BY <2>1, <2>2, <3>1 DEF AddsUp
      <3>3. QED  BY <2>1, <3>1, <3>2
    <2>3. CASE p \notin T
      <3>1. (U \cup {p}) \cap T = U \cap T /\ val[p] = 0
        BY <2>3
      <3>2. QED  BY <2>1, <3>1
    <2>4. QED  BY <2>2, <2>3
  <1>3. g[S] = f[T]
    <2>1. S \in SUBSET S /\ S \cap T = T
      OBVIOUS
    <2>2. QED  BY <2>1
  <1>4. AddsUp(g, val, S)
    <2> HIDE DEF g
    <2>1. QED  BY <1>1, <1>2 DEF AddsUp
  <1>5. QED  BY <1>3, <1>4

\* Sums of two values are the two sums.
AreParts(val1, val2, val, S) ==
    \A x \in S : val1[x] \in Int /\ val2[x] \in Int /\ val[x] = val1[x] + val2[x]

LEMMA SumsAddUp ==
  ASSUME NEW S, NEW f, NEW g, NEW val1, NEW val2, NEW val,
         AddsUp(f, val1, S), AddsUp(g, val2, S), AreParts(val1, val2, val, S)
  PROVE  \E h : AddsUp(h, val, S) /\ h[S] = f[S] + g[S]
  <1> USE DEF AreParts
  <1> DEFINE h == [T \in SUBSET S |-> f[T] + g[T]]
  <1>1. \A T \in SUBSET S : f[T] \in Nat /\ g[T] \in Nat
    BY DEF AddsUp
  <1>2. h \in [SUBSET S -> Nat] /\ h[{}] = 0
    BY <1>1 DEF AddsUp
  <1>3. ASSUME NEW T \in SUBSET S, NEW p \in S, p \notin T
        PROVE  h[T \cup {p}] = h[T] + val[p]
    <2>1. T \cup {p} \in SUBSET S
      OBVIOUS
    <2>2. f[T \cup {p}] = f[T] + val1[p] /\ g[T \cup {p}] = g[T] + val2[p]
      BY <1>3 DEF AddsUp
    <2>3. f[T] \in Nat /\ g[T] \in Nat /\ val1[p] \in Int /\ val2[p] \in Int
      BY <1>1
    <2>4. (f[T] + val1[p]) + (g[T] + val2[p]) = (f[T] + g[T]) + (val1[p] + val2[p])
      BY <2>3
    <2>5. QED  BY <2>1, <2>2, <2>4
  <1>4. AddsUp(h, val, S)
    <2> HIDE DEF h
    <2>1. QED  BY <1>2, <1>3 DEF AddsUp
  <1>5. S \in SUBSET S
    OBVIOUS
  <1>6. QED  BY <1>4, <1>5

\* Over finitely many orders, any function that adds up gives their sum.
LEMMA SumOfOrders ==
  ASSUME IsFiniteSet(Orders), NEW val \in [Orders -> Nat], NEW f, AddsUp(f, val, Orders)
  PROVE  SumOf(val) = f[Orders]
  <1>1. DOMAIN val = Orders /\ \A o \in Orders : val[o] \in Nat
    OBVIOUS
  <1>2. QED  BY <1>1, FoldFunctionIsSum DEF SumOf

LEMMA BooksAreSums ==
  ASSUME IsFiniteSet(Orders), IInv, Ledger
  PROVE  BooksBalance
  <1>1. /\ ordered \in [Orders -> Nat] /\ received \in [Orders -> Nat]
        /\ status \in [Orders -> {"none"} \cup Pending \cup Settled]
        /\ TypeOK /\ Bought \subseteq Orders /\ Assisted \subseteq Orders
    BY PurchasingAssumption DEF IInv, TypeOK, Bought
  <1>2. BooksAddUp /\ LogIsFollowed /\ LogIsOrdered
    BY DEF Ledger
  <1>3. \A o \in Orders \ Bought : ordered[o] = 0 /\ received[o] = 0
    BY <1>2 DEF BooksAddUp
  <1>4. \A o \in Orders : ordered[o] > 0 <=> status[o] = "SUCCEEDED"
    <2>1. \A o \in Bought : 0 < ordered[o]
      BY <1>2 DEF BooksAddUp
    <2>2. \A o \in Orders : o \in Bought <=> status[o] = "SUCCEEDED"
      BY DEF Bought
    <2>3. \A o \in Orders : ordered[o] \in Nat
      BY <1>1
    <2>4. ASSUME NEW o \in Orders PROVE ordered[o] > 0 <=> status[o] = "SUCCEEDED"
      <3>1. CASE o \in Bought
        BY <2>1, <2>2, <2>3, <3>1
      <3>2. CASE o \notin Bought
        <4>1. ordered[o] = 0
          BY <1>3, <3>2
        <4>2. QED  BY <2>2, <3>2, <4>1
      <3>3. QED  BY <3>1, <3>2
    <2>5. QED  BY <2>4
  <1>5. cash = InitialCash - Total(SumOf(ordered))
    <2>1. PICK f : AddsUp(f, ordered, Bought) /\ cash = InitialCash - Total(f[Bought])
      BY <1>2 DEF BooksAddUp
    <2>2. PICK g : AddsUp(g, ordered, Orders) /\ g[Orders] = f[Bought]
      <3>1. OnlyIn(ordered, Bought, Orders)
        BY <1>1, <1>3 DEF OnlyIn
      <3>2. QED  BY <2>1, <3>1, ZerosCountNothing
    <2>3. SumOf(ordered) = f[Bought]
      BY <1>1, <2>2, SumOfOrders
    <2>4. QED  BY <2>1, <2>3
  <1>6. PICK r : AddsUp(r, received, Orders)
    BY <1>1, SumExists
  <1>7. SumOf(received) = r[Orders] /\ r[Orders] \in Nat
    <2>1. Orders \in SUBSET Orders
      OBVIOUS
    <2>2. QED  BY <1>1, <1>6, <2>1, SumOfOrders DEF AddsUp
  <1>8. inTransit = SumOf(ordered) - SumOf(received)
    <2>1. PICK f : AddsUp(f, Due, Bought) /\ inTransit = f[Bought]
      BY <1>2 DEF BooksAddUp
    <2>2. OnlyIn(Due, Bought, Orders)
      <3>1. ASSUME NEW o \in Orders \ Bought PROVE Due[o] = 0
        <4>1. Due[o] = ordered[o] - received[o]
          BY DEF Due
        <4>2. ordered[o] = 0 /\ received[o] = 0
          BY <1>3
        <4>3. QED  BY <4>1, <4>2
      <3>2. QED  BY <1>1, <3>1 DEF OnlyIn
    <2>3. PICK d : AddsUp(d, Due, Orders) /\ d[Orders] = f[Bought]
      BY <2>1, <2>2, ZerosCountNothing
    <2>4. AreParts(Due, received, ordered, Orders)
      <3>1. ASSUME NEW o \in Orders
            PROVE  /\ Due[o] \in Int /\ received[o] \in Int
                   /\ ordered[o] = Due[o] + received[o]
        <4>1. Due[o] = ordered[o] - received[o]
          BY DEF Due
        <4>2. ordered[o] \in Nat /\ received[o] \in Nat
          BY <1>1
        <4>3. QED  BY <4>1, <4>2
      <3>2. QED  BY <3>1 DEF AreParts
    <2>5. PICK h : AddsUp(h, ordered, Orders) /\ h[Orders] = d[Orders] + r[Orders]
      BY <1>6, <2>3, <2>4, SumsAddUp
    <2>6. SumOf(ordered) = inTransit + SumOf(received)
      BY <1>1, <1>7, <2>1, <2>3, <2>5, SumOfOrders
    <2>7. inTransit \in Nat
      BY <1>1 DEF TypeOK
    <2>8. QED  BY <1>7, <2>6, <2>7
  <1>9. onHand = InitialStock + SumOf(received) - UnitsSold
    <2>1. PICK v : Follows(v) /\ UpToDate(v)
      BY <1>2 DEF LogIsFollowed
    <2>2. PICK g : SumsLog(g, "GOODS_RECEIVED")
      BY <1>1, LogHasSums DEF Counted
    <2>3. PICK s : SumsLog(s, "SALE_RECORDED")
      BY <1>1, LogHasSums DEF Counted
    <2>4. PICK a : SumsLog(a, "PURCHASE_ACCEPTED")
      BY <1>1, LogHasSums DEF Counted
    <2>5. cursor \in 0 .. Len(log)
      BY <1>1, <1>2 DEF LogIsFollowed, TypeOK, SimTypeOK
    <2> DEFINE w == v[cursor]  g1 == g[1 .. cursor]  s1 == s[1 .. cursor]
    <2>6. w.shelf = InitialStock + g1 - s1 /\ g1 \in Nat /\ s1 \in Nat
      BY <1>1, <2>1, <2>2, <2>3, <2>4, <2>5, ReadingCounts DEF CountsOf
    <2>7. UnitsSold = s1
      BY <1>1, <2>3, <2>5, PrefixIsSummed DEF UnitsSold, Counted
    <2>8. /\ \A o \in Assisted : w.goods[o] = 0
          /\ \E h : AddsUp(h, w.goods, Orders) /\ h[Orders] = g1
      BY <1>2, <2>1, <2>2, <2>5, GoodsAddUp DEF GoodsOf
    <2>9. PICK n \in Nat : TakenByOwner(n) /\ onHand = w.shelf + n
      BY <2>1 DEF UpToDate
    <2>10. \A o \in Orders \ Assisted : w.goods[o] = received[o]
      BY <2>1 DEF UpToDate
    <2>11. w.goods \in [Orders -> Nat]
      BY <2>1, <2>5 DEF Follows, Worlds
    <2> HIDE DEF w, g1, s1
    <2>12. PICK h : AddsUp(h, w.goods, Orders) /\ h[Orders] = g1
      BY <2>8
    <2>13. PICK taken : AddsUp(taken, received, ByOwner) /\ n = taken[ByOwner]
      BY <2>9 DEF TakenByOwner
    <2> DEFINE own == [o \in Orders |-> IF o \in ByOwner THEN received[o] ELSE 0]
    <2>14. AddsUp(taken, own, ByOwner) /\ ByOwner \in SUBSET Orders
      BY <1>1, <2>13 DEF AddsUp, ByOwner
    <2>15. PICK t : AddsUp(t, own, Orders) /\ t[Orders] = n
      <3>1. OnlyIn(own, ByOwner, Orders)
        BY <2>14 DEF OnlyIn
      <3> HIDE DEF own
      <3>2. QED  BY <2>13, <2>14, <3>1, ZerosCountNothing
    <2>16. ASSUME NEW o \in Orders
           PROVE  /\ w.goods[o] \in Int /\ own[o] \in Int
                  /\ received[o] = w.goods[o] + own[o]
      <3>1. w.goods[o] \in Nat /\ received[o] \in Nat
        BY <1>1, <2>11
      <3>2. CASE o \in ByOwner
        BY <2>8, <3>1, <3>2 DEF ByOwner
      <3>3. CASE o \notin ByOwner /\ o \in Assisted
        BY <1>3, <2>8, <3>1, <3>3 DEF ByOwner
      <3>4. CASE o \notin Assisted
        BY <2>10, <3>1, <3>4 DEF ByOwner
      <3>5. QED  BY <3>2, <3>3, <3>4
    <2>17. PICK k : AddsUp(k, received, Orders) /\ k[Orders] = h[Orders] + t[Orders]
      <3> HIDE DEF own
      <3> DEFINE val == w.goods
      <3>1. AddsUp(h, val, Orders) /\ AreParts(val, own, received, Orders)
        BY <2>12, <2>16 DEF AreParts
      <3> HIDE DEF val
      <3>2. QED  BY <2>15, <3>1, SumsAddUp
    <2>18. SumOf(received) = g1 + n
      BY <1>1, <2>12, <2>15, <2>17, SumOfOrders
    <2>19. (InitialStock + g1 - s1) + n = InitialStock + (g1 + n) - s1
      BY <2>6, SimulatorAssumption
    <2>20. QED  BY <2>6, <2>7, <2>9, <2>18, <2>19
  <1>10. QED  BY <1>4, <1>5, <1>8, <1>9 DEF BooksBalance

\* However its outcome was learnt, and whoever reported its goods: every purchase is
\* paid for once, and each of its units is expected, on the shelf or sold.
THEOREM BooksAlwaysBalance == ASSUME IsFiniteSet(Orders) PROVE Spec => []BooksBalance
  <1>1. IInv /\ Ledger => BooksBalance
    BY BooksAreSums
  <1>2. QED  BY <1>1, PurchasingInvariance, LedgerInvariance, PTL

-----------------------------------------------------------------------------
(* Purchasing implements PurchaseAgreement: under the invariant proved     *)
(* above every step of the store, its workers, the queue, the network and  *)
(* the supplier is one step of the agreement, or none.                     *)

USE DEF Pending, Sent, Settled

AgreementVars == <<phaseBar, purchase, ordered, reserved, spentBar>>

StepOrStutter == Agreement!Next \/ UNCHANGED AgreementVars

-----------------------------------------------------------------------------
(* The four helpers that write the account *)

\* One order's status changes: so does its phase, and no other.
LEMMA PhaseMoves ==
  ASSUME IInv, NEW o \in Orders, NEW st,
         status' = [status EXCEPT ![o] = st]
  PROVE  /\ phaseBar \in [Orders -> {"none", "approved", "sent", "bought", "off"}]
         /\ phaseBar' = [phaseBar EXCEPT ![o] = PhaseOf(st)]
         /\ phaseBar[o] = PhaseOf(status[o])
  BY DEF phaseBar, PhaseOf, IInv, TypeOK

\* A status that stays within its phase is not seen.
LEMMA PhaseStays ==
  ASSUME IInv, \A p \in Orders : PhaseOf(status'[p]) = PhaseOf(status[p]),
         UNCHANGED <<purchase, ordered, reserved, cash>>
  PROVE  UNCHANGED AgreementVars
  BY DEF phaseBar, spentBar, AgreementVars

LEMMA CloseIsCallOff ==
  ASSUME IInv, NEW o \in Orders, NEW outcome \in {"FAILED", "STALE", "CANCELLED"},
         \/ status[o] = "QUEUED"
         \/ status[o] \in Sent /\ (o \in Assisted \/ purchase[o] = "REJECTED"),
         Close(o, outcome), UNCHANGED purchase
  PROVE  Agreement!CallOff(o)
  <1>1. status[o] \in Pending
    OBVIOUS
  <1>2. reserved' = 0
    BY <1>1, IInvGivesBooks, ReleaseOpens DEF Close
  <1>3. /\ phaseBar' = [phaseBar EXCEPT ![o] = "off"]
        /\ phaseBar[o] = IF status[o] = "QUEUED" THEN "approved" ELSE "sent"
    BY PhaseMoves DEF Close, PhaseOf
  <1>4. UNCHANGED <<purchase, ordered, spentBar>>
    BY DEF Close, spentBar
  <1>5. QED
    BY <1>2, <1>3, <1>4 DEF Agreement!CallOff

LEMMA SettleIsBuy ==
  ASSUME IInv, NEW o \in Orders, status[o] \in Sent, NEW q \in 1 .. Qty[o],
         o \in Assisted \/ (purchase[o] = "ACCEPTED" /\ q = Qty[o]),
         o \in Assisted => purchase[o] = "none",
         Settle(o, q), UNCHANGED purchase
  PROVE  Agreement!Buy(o, q)
  <1>1. reserved' = 0
    BY IInvGivesBooks, ReleaseOpens DEF Settle
  <1>2. phaseBar' = [phaseBar EXCEPT ![o] = "bought"] /\ phaseBar[o] = "sent"
    BY PhaseMoves DEF Settle, PhaseOf
  <1>3. spentBar' = spentBar + q * UnitPrice
    <2>1. cash \in Nat /\ InitialCash \in Nat /\ q * UnitPrice \in Nat
      BY SimulatorAssumption, TotalIsNat DEF IInv, TypeOK, Total
    <2>2. cash' = cash - q * UnitPrice
      BY DEF Settle, Total
    <2>. QED
      BY <2>1, <2>2 DEF spentBar
  <1>4. ordered' = [ordered EXCEPT ![o] = q]
    BY DEF Settle
  <1>5. IF o \in Assisted THEN 0 < q /\ q <= Qty[o]
        ELSE purchase[o] = "ACCEPTED" /\ q = Qty[o]
    BY SimulatorAssumption
  <1>6. QED
    BY <1>1, <1>2, <1>3, <1>4, <1>5 DEF Agreement!Buy

LEMMA ConflictIsQuiet ==
  ASSUME IInv, NEW o \in Orders, status[o] # "QUEUED", Conflict(o), UNCHANGED purchase
  PROVE  UNCHANGED AgreementVars
  <1>1. \A p \in Orders : PhaseOf(status'[p]) = PhaseOf(status[p])
    BY DEF Conflict, PhaseOf, IInv, TypeOK
  <1>2. QED
    BY <1>1, PhaseStays DEF Conflict

LEMMA AccountIsQuiet ==
  ASSUME UNCHANGED <<account, purchase>>
  PROVE  UNCHANGED AgreementVars
  BY DEF account, AgreementVars, phaseBar, spentBar

\* A receipt that says what the supplier decided, or what the owner was told
\* of an order that is hers to place, is one step of the agreement.
LEMMA ReceiptAgrees ==
  ASSUME IInv, NEW o \in Orders, status[o] # "QUEUED", NEW q \in 0 .. Qty[o],
         NEW verdict \in {"ACCEPTED", "REJECTED"}, verdict = "ACCEPTED" => q > 0,
         o \in Assisted \/ (purchase[o] = verdict /\ q = Qty[o]),
         ApplyReceipt(o, verdict, q), UNCHANGED purchase
  PROVE  StepOrStutter
  <1>1. o \in Assisted => purchase[o] = "none"
    BY DEF IInv, SupplierAgrees
  <1>2. CASE Conflict(o) \/ UNCHANGED account
    BY <1>2, ConflictIsQuiet, AccountIsQuiet DEF StepOrStutter
  <1>3. CASE status[o] \in Sent /\ verdict = "REJECTED" /\ Close(o, "FAILED")
    <2>1. Agreement!CallOff(o)
      BY <1>3, CloseIsCallOff
    <2>. QED
      BY <2>1 DEF StepOrStutter, Agreement!Next
  <1>4. CASE status[o] \in Sent /\ verdict = "ACCEPTED" /\ Settle(o, q)
    <2>1. q \in 1 .. Qty[o]
      BY <1>4, SimulatorAssumption
    <2>2. Agreement!Buy(o, q)
      BY <1>1, <1>4, <2>1, SettleIsBuy
    <2>. QED
      BY <2>1, <2>2 DEF StepOrStutter, Agreement!Next
  <1>5. QED
    BY <1>2, <1>3, <1>4 DEF ApplyReceipt

-----------------------------------------------------------------------------
(* The steps *)

LEMMA OwnerAgrees ==
  ASSUME IInv, NEW o \in Orders, Decide(o)
  PROVE  StepOrStutter
  <1> USE DEF Locally
  <1>1. CASE PublishPlan(o) \/ Reject(o)
    BY <1>1 DEF PublishPlan, Reject, books, actionRow, simVars, StepOrStutter,
                AgreementVars, phaseBar, spentBar
  <1>2. CASE Approve(o)
    <2>1. status[o] = "none"
      BY <1>2 DEF Approve, IInv, OnlyApprovedPlansAct
    <2>2. \A p \in Orders : status[p] \notin Pending
      BY <1>2, PurchasingAssumption DEF Approve, IInv, OneOpenPurchase
    <2>3. \A p \in Orders : phaseBar[p] \notin {"approved", "sent"}
      BY <2>2 DEF phaseBar, PhaseOf, IInv, TypeOK
    <2>4. phaseBar' = [phaseBar EXCEPT ![o] = "approved"] /\ phaseBar[o] = "none"
      BY <1>2, <2>1, PhaseMoves DEF Approve, PhaseOf
    <2>5. UNCHANGED <<purchase, ordered, reserved, spentBar>>
      BY <1>2 DEF Approve, simVars, spentBar
    <2>6. Agreement!Approve(o)
      BY <2>3, <2>4, <2>5 DEF Agreement!Approve
    <2>. QED
      BY <2>6 DEF StepOrStutter, Agreement!Next
  <1>3. QED
    BY <1>1, <1>2 DEF Decide

LEMMA ControlAgrees ==
  ASSUME IInv, NEW m \in Missions, ControlMission(m)
  PROVE  StepOrStutter
  <1> USE DEF Locally
  <1>1. CASE RetirePlan(m) \/ Pause(m) \/ Resume(m) \/ Complete(m)
    BY <1>1 DEF RetirePlan, Pause, Resume, Complete, Control, books, actionRow, simVars,
                StepOrStutter, AgreementVars, phaseBar, spentBar
  <1>2. CASE CancelMission(m)
    <2> DEFINE o == currentAction[m]
    <2>1. UNCHANGED <<cash, reserved, ordered, purchase>>
      BY <1>2 DEF CancelMission, Control, simVars
    <2>2. CASE o # None /\ status[o] = "QUEUED"
      <3>1. o \in Orders
        BY <2>2 DEF IInv, TypeOK
      <3>2. reserved = 0
        BY <2>2, <3>1, IInvGivesBooks, OpenHoldsGate
      <3>3. phaseBar' = [phaseBar EXCEPT ![o] = "off"] /\ phaseBar[o] = "approved"
        BY <1>2, <2>2, <3>1, PhaseMoves DEF CancelMission, PhaseOf
      <3>4. Agreement!CallOff(o)
        BY <2>1, <3>2, <3>3 DEF Agreement!CallOff, spentBar
      <3>. QED
        BY <3>1, <3>4 DEF StepOrStutter, Agreement!Next
    <2>3. CASE ~(o # None /\ status[o] = "QUEUED")
      BY <1>2, <2>1, <2>3 DEF CancelMission, StepOrStutter, AgreementVars, phaseBar, spentBar
    <2>. QED
      BY <2>2, <2>3
  <1>3. QED
    BY <1>1, <1>2 DEF ControlMission

LEMMA AssistAgrees ==
  ASSUME IInv, NEW o \in Orders, Assist(o)
  PROVE  StepOrStutter
  <1> USE DEF Locally
  <1>0. Qty[o] \in Nat \ {0}
    BY SimulatorAssumption
  <1>1. CASE SupplierConfirms(o)
    <2>1. /\ o \in Assisted /\ status[o] # "QUEUED" /\ UNCHANGED purchase
          /\ ApplyReceipt(o, "ACCEPTED", Qty[o])
      BY <1>1 DEF SupplierConfirms, Waiting, simVars
    <2>. QED
      BY <1>0, <2>1, ReceiptAgrees
  <1>2. CASE SupplierDeclines(o)
    <2>1. /\ o \in Assisted /\ status[o] # "QUEUED" /\ UNCHANGED purchase
          /\ ApplyReceipt(o, "REJECTED", 0)
      BY <1>2 DEF SupplierDeclines, Waiting, simVars
    <2>. QED
      BY <1>0, <2>1, ReceiptAgrees
  <1>3. CASE AcceptPart(o)
    <2>1. /\ o \in Assisted /\ status[o] # "QUEUED" /\ UNCHANGED purchase
          /\ ApplyReceipt(o, "ACCEPTED", reply[o]) /\ reply[o] > 0
      BY <1>3 DEF AcceptPart, Waiting, simVars
    <2>2. reply[o] \in 0 .. Qty[o]
      BY <1>0 DEF IInv, TypeOK
    <2>. QED
      BY <2>1, <2>2, ReceiptAgrees
  <1>4. CASE Withdraw(o)
    <2>1. Agreement!CallOff(o)
      BY <1>4, CloseIsCallOff DEF Withdraw, Waiting, simVars
    <2>. QED
      BY <2>1 DEF StepOrStutter, Agreement!Next
  <1>5. CASE \E q \in 0 .. Qty[o] - 1 : SupplierOffers(o, q)
    BY <1>5, AccountIsQuiet DEF SupplierOffers, simVars, StepOrStutter
  <1>6. CASE \E q \in 1 .. Qty[o] : RecordArrival(o, q)
    BY <1>6 DEF RecordArrival, simVars, StepOrStutter, AgreementVars, phaseBar, spentBar
  <1>7. QED
    BY <1>1, <1>2, <1>3, <1>4, <1>5, <1>6 DEF Assist

LEMMA WorkerAgrees ==
  ASSUME IInv, NEW w \in Workers, NEW o \in Orders, Claim(w, o) \/ Handle(w, o)
  PROVE  StepOrStutter
  <1>1. CASE RefuseSend(w, o)
    <2>1. Agreement!CallOff(o)
      BY <1>1, CloseIsCallOff DEF RefuseSend, simVars
    <2>. QED
      BY <2>1 DEF StepOrStutter, Agreement!Next
  <1>2. CASE Register(w, o)
    <2>1. status[o] = "QUEUED" /\ Valid(o)
      BY <1>2 DEF Register
    <2>2. reserved = 0
      BY <2>1, IInvGivesBooks, OpenHoldsGate
    <2>3. phaseBar' = [phaseBar EXCEPT ![o] = "sent"] /\ phaseBar[o] = "approved"
      BY <1>2, <2>1, PhaseMoves DEF Register, PhaseOf
    <2>4. /\ cash \in Nat /\ InitialCash \in Nat /\ CashFloor[MissionOf[o]] \in Nat
          /\ Qty[o] * UnitPrice \in Nat /\ Amount(o) = Qty[o] * UnitPrice
      BY SimulatorAssumption, PurchasingAssumption, AmountIsNat
         DEF IInv, TypeOK, Amount, Total
    <2>5. reserved' = Qty[o] * UnitPrice
      BY <1>2, <2>2, <2>4 DEF Register
    <2>6. InitialCash - spentBar - Qty[o] * UnitPrice >= CashFloor[MissionOf[o]]
      <3>1. cash - Qty[o] * UnitPrice >= CashFloor[MissionOf[o]]
        BY <2>1, <2>2, <2>4 DEF Valid
      <3>. QED
        BY <2>4, <3>1 DEF spentBar
    <2>7. UNCHANGED <<purchase, ordered, spentBar>>
      BY <1>2 DEF Register, simVars, spentBar
    <2>8. Agreement!Send(o)
      BY <2>3, <2>5, <2>6, <2>7 DEF Agreement!Send
    <2>. QED
      BY <2>8 DEF StepOrStutter, Agreement!Next
  <1>3. CASE Publish(w, o)
    <2>1. At(w, "answered", o) /\ Enter(o, task[w].answer) /\ UNCHANGED purchase
      BY <1>3 DEF Publish, simVars
    <2>2. task[w].answer # "nothing" => status[o] # "QUEUED" /\ o \notin Assisted
      BY <2>1 DEF At, IInv, SupplierAgrees, PastRegistration
    <2>3. CASE task[w].answer \in {"ACCEPTED", "REJECTED"}
      <3>1. /\ purchase[o] = task[w].answer /\ status[o] # "QUEUED"
            /\ ApplyReceipt(o, task[w].answer, Qty[o])
        BY <2>1, <2>2, <2>3 DEF At, Enter, IInv, AnswersAreTrue
      <3>2. Qty[o] \in 0 .. Qty[o] /\ Qty[o] > 0
        BY SimulatorAssumption
      <3>. QED
        BY <2>1, <2>3, <3>1, <3>2, ReceiptAgrees
    <2>4. CASE UNCHANGED account
      BY <2>1, <2>4, AccountIsQuiet DEF StepOrStutter
    <2>5. CASE task[w].answer = "garbled" /\ Conflict(o)
      BY <2>1, <2>2, <2>5, ConflictIsQuiet DEF StepOrStutter
    <2>6. CASE /\ status[o] \in Sent /\ status' = [status EXCEPT ![o] = "UNKNOWN"]
               /\ UNCHANGED <<cash, reserved, ordered>>
      <3>1. \A p \in Orders : PhaseOf(status'[p]) = PhaseOf(status[p])
        BY <2>6 DEF PhaseOf, IInv, TypeOK
      <3>. QED
        BY <2>1, <2>6, <3>1, PhaseStays DEF StepOrStutter
    <2>. QED
      BY <2>1, <2>3, <2>4, <2>5, <2>6 DEF Enter
  <1>4. CASE ~(RefuseSend(w, o) \/ Register(w, o) \/ Publish(w, o))
    BY <1>4, AccountIsQuiet
       DEF Claim, Handle, NothingToSend, Reconcile, Ask, Send, Answer, NoAnswer, Garble,
           Discard, JobFails, account, backend, books, missionRow, actionRow, simVars,
           StepOrStutter
  <1>5. QED
    BY <1>1, <1>2, <1>3, <1>4

\* The supplier hears only of what was sent, and decides it once.
LEMMA NetworkAgrees ==
  ASSUME IInv, NEW o \in Orders, LeaseLost(o) \/ RecoverAction(o) \/ Arrive(o) \/ Lose(o)
  PROVE  StepOrStutter
  <1>1. CASE Arrive(o) /\ UNCHANGED simVars
    BY <1>1, AccountIsQuiet
       DEF Arrive, account, backend, books, missionRow, actionRow, simVars, StepOrStutter
  <1>2. CASE Arrive(o) /\ Submit(o)
    <2>1. o \in wire /\ UNCHANGED backend
      BY <1>2 DEF Arrive
    <2>2. PICK v \in {"ACCEPTED", "REJECTED"} :
             purchase[o] = "none" /\ purchase' = [purchase EXCEPT ![o] = v]
      BY <1>2 DEF Submit, SubmitAccepted, SubmitRejected
    <2>3. o \notin Assisted /\ status[o] \in Sent
      BY <2>1, <2>2 DEF IInv, SupplierAgrees
    <2>4. phaseBar[o] = "sent"
      BY <2>3 DEF phaseBar, PhaseOf
    <2>5. UNCHANGED <<phaseBar, ordered, reserved, spentBar>>
      BY <2>1 DEF backend, books, actionRow, phaseBar, spentBar
    <2>6. Agreement!SupplierDecides(o, v)
      BY <2>2, <2>3, <2>4, <2>5 DEF Agreement!SupplierDecides
    <2>. QED
      BY <2>6 DEF StepOrStutter, Agreement!Next
  <1>3. CASE LeaseLost(o) \/ RecoverAction(o) \/ Lose(o)
    BY <1>3, AccountIsQuiet
       DEF LeaseLost, RecoverAction, Lose, Locally, account, backend, books, missionRow,
           actionRow, simVars, StepOrStutter
  <1>4. QED
    BY <1>1, <1>2, <1>3 DEF Arrive

LEMMA SyncAgrees ==
  ASSUME IInv, Sync
  PROVE  StepOrStutter
  <1> USE DEF Locally
  <1>1. CASE IngestSale \/ IngestDemand
    BY <1>1 DEF IngestSale, IngestDemand, books, actionRow, simVars, StepOrStutter,
                AgreementVars, phaseBar, spentBar
  <1>2. ASSUME NEW o \in Orders, IngestAccepted(o) PROVE StepOrStutter
    <2>1. /\ status[o] # "QUEUED" /\ purchase[o] = "ACCEPTED" /\ UNCHANGED purchase
          /\ log[cursor + 1].qty = Qty[o]
          /\ ApplyReceipt(o, "ACCEPTED", log[cursor + 1].qty)
      BY <1>2, NextEvent DEF IngestAccepted, NextIs, IInv, LogIsTrue, simVars
    <2>2. Qty[o] \in 0 .. Qty[o] /\ Qty[o] > 0
      BY SimulatorAssumption
    <2>. QED
      BY <2>1, <2>2, ReceiptAgrees
  <1>3. ASSUME NEW o \in Orders, IngestGoods(o) PROVE StepOrStutter
    <2>1. CASE Conflict(o)
      BY <1>3, <2>1, ConflictIsQuiet DEF IngestGoods, simVars, StepOrStutter
    <2>2. CASE ~Conflict(o)
      BY <1>3, <2>2 DEF IngestGoods, simVars, StepOrStutter, AgreementVars, phaseBar, spentBar
    <2>. QED
      BY <2>1, <2>2
  <1>4. QED
    BY <1>1, <1>2, <1>3 DEF Sync

LEMMA StepAgreement == ASSUME IInv, Next PROVE StepOrStutter
  <1>1. ASSUME NEW w \in Workers, Crash(w) PROVE StepOrStutter
    BY <1>1, AccountIsQuiet
       DEF Crash, account, backend, books, missionRow, actionRow, simVars, StepOrStutter
  <1>2. CASE World
    BY <1>2, AccountIsQuiet
       DEF World, WorldMoves, Deliver, Sell, ReviseDemand, account, backend, books,
           missionRow, actionRow, StepOrStutter
  <1>3. QED
    BY <1>1, <1>2, OwnerAgrees, ControlAgrees, AssistAgrees, WorkerAgrees, NetworkAgrees,
       SyncAgrees DEF Next

-----------------------------------------------------------------------------
\* The purchase path, with its jobs, retries, reports and failures, implements
\* the agreement of store and supplier, for any orders, prices and workers.
THEOREM PurchasesAgree == Spec => ImplementsAgreement
  <1>1. Init => Agreement!Init
    BY SimulatorAssumption
       DEF Init, SimInit, Agreement!Init, phaseBar, spentBar, PhaseOf
  <1>2. IInv /\ [Next]_vars => [Agreement!Next]_AgreementVars
    <2>1. ASSUME IInv, UNCHANGED vars PROVE UNCHANGED AgreementVars
      BY <2>1, AccountIsQuiet DEF vars, account, books, missionRow, actionRow, simVars
    <2>. QED
      BY <2>1, StepAgreement DEF StepOrStutter
  <1>3. QED
    BY <1>1, <1>2, PurchasingInvariance, PTL
       DEF Spec, ImplementsAgreement, Agreement!Spec, Agreement!vars, AgreementVars

-----------------------------------------------------------------------------
\* What was spent tells what is left.
LEMMA SpentTellsCash ==
  ASSUME NEW funds \in Nat, NEW before \in Nat, NEW after \in Nat, NEW price \in Nat,
         funds - after = funds - before + price
  PROVE  after = before - price
  OBVIOUS

LEMMA NothingSpent ==
  ASSUME NEW funds \in Nat, NEW before \in Nat, NEW after \in Nat,
         funds - after = funds - before
  PROVE  after = before
  OBVIOUS

\* A step of the agreement takes from what is left to spend only by sending,
\* and what is sent leaves its own floor.
LEMMA StepFloor ==
  ASSUME IInv, IInv', Agreement!Next
  PROVE  \/ cash' - reserved' >= cash - reserved
         \/ \E o \in Orders :
               /\ status[o] = "QUEUED" /\ status'[o] \in Sent
               /\ cash' - reserved' >= CashFloor[MissionOf[o]]
  <1>0. /\ cash \in Nat /\ reserved \in Nat /\ InitialCash \in Nat
        /\ cash' \in Nat /\ reserved' \in Nat
    BY SimulatorAssumption DEF IInv, TypeOK
  <1>1. ASSUME NEW o \in Orders,
               Agreement!Approve(o) \/ \E v \in {"ACCEPTED", "REJECTED"} :
                                         Agreement!SupplierDecides(o, v)
        PROVE  cash' - reserved' >= cash - reserved
    <2>1. InitialCash - cash' = InitialCash - cash /\ reserved' = reserved
      BY <1>1 DEF Agreement!Approve, Agreement!SupplierDecides, spentBar
    <2>2. cash' = cash
      BY <1>0, <2>1, NothingSpent
    <2>. QED
      BY <1>0, <2>1, <2>2
  <1>2. ASSUME NEW o \in Orders, Agreement!CallOff(o)
        PROVE  cash' - reserved' >= cash - reserved
    <2>1. InitialCash - cash' = InitialCash - cash /\ reserved' = 0
      BY <1>2 DEF Agreement!CallOff, spentBar
    <2>2. cash' = cash
      BY <1>0, <2>1, NothingSpent
    <2>. QED
      BY <1>0, <2>1, <2>2
  <1>3. ASSUME NEW o \in Orders, NEW n \in 1 .. Qty[o], Agreement!Buy(o, n)
        PROVE  cash' - reserved' >= cash - reserved
    <2>1. status[o] \in Sent
      BY <1>3 DEF Agreement!Buy, phaseBar, PhaseOf, Sent, IInv, TypeOK, Pending, Settled
    <2>2. reserved = Amount(o)
      BY <2>1, IInvGivesBooks, OpenHoldsGate
    <2>3. Qty[o] \in Nat /\ Total(n) \in Nat /\ Total(n) <= Amount(o)
      BY TotalIsNat, TotalGrows, SimulatorAssumption DEF Amount
    <2>4. InitialCash - cash' = InitialCash - cash + Total(n) /\ reserved' = 0
      BY <1>3 DEF Agreement!Buy, spentBar, Total
    <2>5. cash' = cash - Total(n)
      BY <1>0, <2>3, <2>4, SpentTellsCash
    <2>6. Amount(o) \in Nat
      BY AmountIsNat
    <2>. QED
      BY <1>0, <2>2, <2>3, <2>4, <2>5, <2>6
  <1>4. ASSUME NEW o \in Orders, Agreement!Send(o)
        PROVE  /\ status[o] = "QUEUED" /\ status'[o] \in Sent
               /\ cash' - reserved' >= CashFloor[MissionOf[o]]
    <2>1. phaseBar[o] = "approved" /\ phaseBar'[o] = "sent"
      BY <1>4 DEF Agreement!Send, phaseBar
    <2>2. status[o] = "QUEUED" /\ status'[o] \in Sent
      BY <2>1 DEF phaseBar, PhaseOf, Sent, IInv, TypeOK, Pending, Settled
    <2>3. /\ CashFloor[MissionOf[o]] \in Nat
          /\ Qty[o] * UnitPrice \in Nat
      BY PurchasingAssumption, SimulatorAssumption, AmountIsNat DEF Amount, Total
    <2>4. /\ InitialCash - (InitialCash - cash) - Qty[o] * UnitPrice
                 >= CashFloor[MissionOf[o]]
          /\ reserved' = Qty[o] * UnitPrice
          /\ InitialCash - cash' = InitialCash - cash
      BY <1>4 DEF Agreement!Send, spentBar
    <2>5. cash' = cash
      BY <1>0, <2>4, NothingSpent
    <2>6. InitialCash - (InitialCash - cash) = cash
      BY <1>0
    <2>7. cash - Qty[o] * UnitPrice >= CashFloor[MissionOf[o]]
      BY <2>4, <2>6
    <2>. QED
      BY <2>2, <2>4, <2>5, <2>7
  <1>5. QED
    BY <1>1, <1>2, <1>3, <1>4 DEF Agreement!Next

\* Only sending a purchase takes from what the store has left to spend, and
\* none is sent that leaves less than its own mission's floor
\* (execution/repository.py 100-106), for every price, quantity and floor.
THEOREM FloorHolds == Spec => FloorKept
  <1>1. IInv /\ [Next]_vars => IInv'
    BY StepIInv
  <1>2. IInv /\ IInv' /\ [Next]_vars =>
           [\/ cash' - reserved' >= cash - reserved
            \/ \E o \in Orders :
                  /\ status[o] = "QUEUED" /\ status'[o] \in Sent
                  /\ cash' - reserved' >= CashFloor[MissionOf[o]]]_vars
    <2>1. ASSUME IInv, IInv', Next
          PROVE  \/ cash' - reserved' >= cash - reserved
                 \/ \E o \in Orders :
                       /\ status[o] = "QUEUED" /\ status'[o] \in Sent
                       /\ cash' - reserved' >= CashFloor[MissionOf[o]]
      <3>1. CASE UNCHANGED AgreementVars
        <4>1. InitialCash - cash' = InitialCash - cash /\ reserved' = reserved
          BY <3>1 DEF AgreementVars, spentBar
        <4>2. cash \in Nat /\ cash' \in Nat /\ reserved \in Nat /\ InitialCash \in Nat
          BY <2>1, SimulatorAssumption DEF IInv, TypeOK
        <4>3. cash' = cash
          BY <4>1, <4>2, NothingSpent
        <4>4. cash' - reserved' >= cash - reserved
          BY <4>1, <4>2, <4>3
        <4>. QED
          BY <4>4
      <3>. QED
        BY <2>1, <3>1, StepAgreement, StepFloor DEF StepOrStutter
    <2>. QED
      BY <2>1
  <1>3. QED
    BY <1>1, <1>2, PurchasingInvariance, PTL DEF Spec, FloorKept
=============================================================================
