# ShopSteward: TLA+ models, checks and proofs

ShopSteward watches the stock of small stores, plans purchases for "missions",
asks the owner to approve them, sends them to a supplier and books the outcome;
an agent talks with the owner, learns from her with her consent, and answers her
work items. This directory models the parts of the backend and of the knowledge
service whose correctness depends on the order of events. Paths below are
relative to the repository; `backend/app/` is abbreviated `app/`.

## 1. Inventory

| Component | State it keeps | Operations | Hard part |
|---|---|---|---|
| Job queue, `app/scheduling` | `job_runs` rows: status, attempts, lease token and expiry | enqueue, claim, renew, recover_expired, complete, fail, cancel | lease loss while a handler runs, commits whose acknowledgement is lost, crash anywhere |
| Dispatcher, `app/scheduling/dispatcher.py` | `schedules` | one job per due occurrence | overdue occurrences |
| Purchase execution, `app/execution` | `actions`, `inbound`, the store's `active_action_id` (gate) and reserved cash | decide, execute_purchase, reconcile_action, apply_receipt, recover_actions, supplier replies, part offers, arrivals | a remote effect that is neither known nor undone; two paths that report it |
| Operations, `app/operations` | store cash and stock, `source_cursors`, `source_schedules` | initialize, ingest a page or a pushed batch, sync jobs, freshness | cursor order, coalesced sync requests, a page fetched in no transaction |
| Missions, `app/missions` | mission status and version, current plan and action, `recheck_required` | create, pause, resume, complete, cancel, queue_check, request_check | control while a purchase is out; lost wake-ups |
| Planning, `app/planning` | `plans` | check job: snapshot, solve, publish or retire a plan; comparisons | publishing on a stale snapshot |
| Recovery, `app/planning/recovery`, `app/operations_cases` | `cases`, their revisions, recovery plans | create, analyze, revise, adopt, cancel, follow up | partial goods against the end of the case; a routine plan beside it |
| Simulated supplier, `simulation/simulator` | a world, its purchases, its event log | submit purchase, get purchase, controls, scripted scenario | duplicate submission, log against world |
| Alerts, `app/alerts` | open alerts of a mission | reconcile after each check | an alert that outlives its cause |
| Work items, `app/work_items` | items with messages, version, lease, link to a mission, proposal | create, send, upload, stop, retry, link; claim, tool calls, publish | a run that answers what it has not read; two cards becoming one |
| Quotations, `app/quotations`; comparisons, `app/planning/simulations.py` | files, tables, rules, results | upload, process, remove a rule, compare | what they do to the card beside a running processor |
| Agent bridge, `app/agent_bridge` | conversations, runs, triggers, follow-ups, watermark | send, promote, start, publish, fail, cancel, reconcile, dispatch | closing a run that is about to publish; a change between two readings |
| Learning, `app/learning` | consent, outbox, episodes, batches, skills and revisions, evaluations, bindings of runs | capture, drain, ask the model, store candidates, switch on and off, forget, select, validate | consent withdrawn between any two steps |
| Knowledge publisher, `app/knowledge` | documents, revisions, index requests, delivery outbox, publications | request, change metadata, deliver, acknowledge, retry, publish | receipts that come late, twice or never |
| Knowledge service, `knowledge/` | projections, jobs, attempts, generations | accept, claim, build, complete, retry; search | a builder without its lease |
| Sourcing, agent runtime, reporting, forecasts, API, frontend, ml, posttraining, infra | see section 5 | | |

How they interact. All backend components share one PostgreSQL database. A
transaction on a store's money first locks the store row
(`app/execution/repository.py:28`, `app/missions/repository.py`), so those
transactions are serial. Handlers of jobs run outside any transaction: they read,
call other services over HTTP, and return a result with an *apply* hook, which the
runner calls in the transaction that also completes the job row. The supplier is
called over HTTP by the purchase jobs and read, by sequence number, by the sync
jobs. Events wake the missions, missions ask for checks, a check proposes a plan
or finds that a case is due; the owner's decisions create actions. The agent and
the work item processor act through the same backend operations. The knowledge
service has a database of its own and is reached by HTTP only.

What makes each modelled component correct:

* queue: business writes of a job appear at most once, with the job's final status,
  and only by the attempt that holds the lease; attempts are bounded; finished rows
  stay finished; retry-safe jobs end.
* purchases: store and supplier decide a purchase as if in single steps; one is open
  at a time; its money is reserved as long as the supplier might accept it; nothing
  is paid or received twice; spending leaves the floor of its mission; a purchase is only sent on the
  books it was approved for; an approved one ends and an accepted one is booked.
* supplier: its log tells exactly what happened to its world.
* watching: no requested sync or check is swallowed by one that is running; an
  alert does not outlive its cause unexamined.
* cases: a case buys once, alone, and is resolved when its goods are in.
* agent runs: an idle conversation has no queue; an ended run stays ended; each
  business state is explained once, and eventually.
* knowledge: what is published can be found; honest receipts are accepted.
* work items: no answer hides an input; a mission has one card; what waits is taken.
* learning: nothing is learned, switched on or used beyond what the owner allows.

`PROJECT.json` lists every component with its status, and every hazard with its
line and the properties that cover it.

## 2. Modules

| Module | Role |
|---|---|
| `JobOutcome` | what the queue promises: a job's result becomes visible in one step, or it ends without one |
| `JobRuns` | `scheduling/repository.py` and `runner.py`: rows, leases, slots, with the refinement mapping to `JobOutcome` |
| `Simulator` | the supplier: submissions, deliveries, sales, demand changes, the event log |
| `PurchaseAgreement` | what a purchase promises store and supplier, in single steps |
| `Purchasing` | `app/execution` with what operations, missions, planning and scheduling contribute; extends `Simulator`; refinement mapping to `PurchaseAgreement` |
| `SourceSync` | sync requests, jobs, pages, cursor, freshness of one store |
| `MissionChecks` | requests for checks, the check job, what holds a mission |
| `StoreWatch` | composes the two: what a page wakes, what freshness decides |
| `RecoveryCases` | a case's life with its plans, purchase, arrivals and checks |
| `AgentRuns` | one conversation: messages, follow-ups, jobs, workers, the recovery hook |
| `KnowledgeService`, `KnowledgeIndexing` | the service's jobs and generations; the backend's outbox, calls, receipts and publications, which extends it |
| `WorkItems` | items, processor runs, the owner's operations |
| `Learning` | consent, evidence, batches, skills, runs that use them |
| `PlanningRules` | the arithmetic of a check, its status and alerts, and of a schedule |
| `RecoverySolver` | the enumeration and ranking of emergency purchases |
| `*Proofs` | theorems about the module they are named for; `PurchasingProofs` also that it implements `PurchaseAgreement`, `RecoveryCasesProofs` also the arithmetic of `PlanningRules` and `RecoverySolver` |
| `MC*` | instances for TLC; checks of `RecoverySolver` over bounded inputs |

Mutants of a definition stand just before it, and say in a comment what is wrong
with them. No specification uses them.

Throughout, a number that only grows and is only compared for equality (a row's
version, a mission's or store's state version, a consent's version) is replaced by
the result of the comparison, and windows of time by a choice wherever they are read.

### JobRuns

A row is `status, attempts, token, live, due`; a slot (`run[s]`) is one
`run_once` coroutine with the job object it read. Time is two booleans: `live`
(`lease_until` has not passed) and `due` (`available_at` has). `claim()` draws a new
UUID and increments `attempt_count`, so the attempt number stands for the token.
Each transaction is one action:

* `RecoverOnly`, `RecoverAndClaim`: recovery and claim share a transaction in
  `run_once`; any subset of the expired rows is taken (SKIP LOCKED).
* `RenewalFails`: the renewal task finds the lease gone, and sets `lost`.
* `RunReturns`, `HandlerRaises`: the handler's end, outside transactions.
* `Publish`, `PublishUnacknowledged`: the fenced transaction; the second commits but
  the runner sees an exception, and goes on to `RecordFailure`.
* `RecordFailure`: the second, equally fenced transaction with the `on_error` hook.
* `Enqueue`, `Cancel`: by other components. `Crash`: a slot's memory is gone.

The history variables `published` and `failed` record which attempts committed. The
other modules take the lease protocol from here: a claim that lost its lease
publishes nothing, so they keep only the memory of the holder, and READY and
RETRY_WAIT are one status.

### Simulator

The world is `simCash, simOnHand, simInTransit`, purchases with a verdict, what was
delivered of each, and the log. A submission already known returns the stored
verdict without effect (`Submit` is only enabled once; the repetition is
`Purchasing!Arrive` on a known order). Requests that fail validation change nothing.
`advance_run`, the script of SC01, makes several of these steps in one transaction;
its readers see fewer states than the model's.

### Purchasing and PurchaseAgreement

A plan and the action its approval creates share one identifier `o`. The path of
a simulator order is

    PublishPlan -> Approve -> Claim -> Register -> [Ask] -> Send -> Arrive
                -> Answer | NoAnswer | Garble -> Publish (Enter / Unresolved)

with `RefuseSend` (the plan no longer holds: STALE), `NothingToSend`, `Reconcile`
(the action was already sent: ask first), `Lose` (a request vanishes), `LeaseLost`,
`Discard` (the fenced publication fails), `JobFails`, `Crash` and `RecoverAction`
beside it. A worker whose lease is lost continues: the model lets it send, and only
its publication is refused. `Lose` and `Arrive` act on `wire` independently of the
worker, so a request may arrive after its sender gave up, and after a successor asked
and was told "unknown". An assisted order is registered by a worker too but then
waits for `SupplierConfirms`, `SupplierDeclines`, `SupplierOffers`, `AcceptPart`,
`Withdraw`, and its goods are counted by `RecordArrival`. `Ingest*` enter the event at
the cursor. `Pause/Resume/Complete/CancelMission` are `control_mission`;
`PublishPlan/RetirePlan` are what a check publishes.

`PurchaseAgreement` has none of this: a purchase is approved, sent with its price set
aside, decided once by the supplier (or by the owner who speaks with him), then bought
or off. The mapping takes `phase` from the action's status, `held` from the store's
reservation, `spent` from its cash and the verdict from the supplier.

Choices a reader should know:

* `state_version` and `mission_version` are the set `current` of plans for which they
  still agree; whatever increments one of them empties that set or takes the
  mission's plans out of it. `seen` keeps the books a plan was made from, so that
  `SentAsPlanned` compares books and not versions.
* `validate_current` also compares times and the source's freshness, which may refuse
  at any moment, so `RefuseSend` has no guard on `Valid`.
* Plan statuses EXPIRED and SUPERSEDED differ only in wording. A check that publishes
  a plan without a purchase is `RetirePlan`.
* A receipt with verdict PENDING, which the simulator never sends, does to the action
  what an error does. An `EventActionConflict` and the transaction that stores it are
  one step: it only adds `manual`, and the event stays at the cursor.
* The floor is that of the plan's own mission (`CashFloor[MissionOf[o]]`), so missions of one
  store may have different ones. What one may spend, another one's floor may forbid: `FloorKept`
  is therefore about steps. What is left to spend only shrinks when a purchase is sent, and what
  is left then is at least the floor of that purchase's mission.
* One product per store; one event per page; money in units of the price.
* The action's jobs are a three-valued `job` with an `owner`: a job out of budget is
  replaced by `recover_actions`, so no counter is needed.

### SourceSync, MissionChecks, StoreWatch

A sync job goes through `ClaimSync`, `ReadCursor`, `FetchPage` and `ApplyPage`, each
a transaction or a call, with the source logging (`SourceLogs`), batches pushed
(`Push`) and requests coalesced (`Merged`) in between. A check goes through
`ClaimCheck`, `PrepareCheck` (its REPEATABLE READ snapshot) and `ApplyCheck`, whose
branches are those of `planning/jobs.py`: skip for what holds the mission, look again
because the versions moved or a recheck is owed, inconclusive for a stale source, or
evaluate. A check that finds an adopted plan waiting leaves before it clears the requests, which
stay as they are; one that finds that plan expired or superseded opens the case again
(`SkipCheck`, `planning/jobs.py:100-117`). `StoreWatch` joins them: a page that held events moves the store's version
and wakes its missions, a recovered source wakes those with an alert about its
staleness. Cases and purchases appear as what holds a mission.
`asked` and `skipped` are history variables.

### RecoveryCases

A case's row carries its current revision. `Create` retires the routine proposal,
`Analyze` is the solver's outcome (any), `Revise` and `Source` (a sourced offer
registered by `sourcing/run.py`) start a revision, `Materialize` adopts an option as a
plan, `AdoptWaiting` decides to wait. The purchase is `Approve, Send | Refuse, Outcome`
(possibly part of the quantity), goods are `Arrive`, `FollowUp` is the follow-up job,
`CheckHeld` and `ApplyCheck` are a check that meets or does not meet the case. BLOCKED covers
NEEDS_INPUT; FAILED covers STALE and CANCELLED. Slots for plans are used again once
nothing refers to them. When a case is revised while its purchase is SENT, the
follow-up sets MONITORING and a later failure queues no check; the model has this.

### AgentRuns

`conv` is the conversation with its active run and the follow-up's fingerprint and
watermark; `Start, Publish, Fail, GiveUp` are a worker's, `Expire` ends a lease,
`Reconcile` and `Dispatch` are the hook before each claim. `ReadBusiness` and
`Dispatch` are apart because the statements of that hook read under READ COMMITTED
(`triggers.py:130`, `:148-158`). The statements of the fingerprint itself count as one reading, and
the mission's status is read with it, before the watermark (`OverWhenRead`). `missions/repository.py:81-82` lists MISSION_COMPLETED
and MISSION_CANCELLED as recorded kinds, but `control_mission` only emits
MISSION_CONTROLLED, so the end of a mission changes the business and triggers nothing
(`MissionEnds`).

### KnowledgeService, KnowledgeIndexing

One version of a document. An attempt of a job builds a generation of its own, named by
request and attempt. Outbox rows are index requests and metadata revisions; `Call` is
served, served unheard, or lost, and a call that takes effect after its time-out is one of a
publisher whose lease ran out. `ProveReady` and `Activate` are the two transactions of a
publication, with the service's proof in between. After `ErrorLimit` failed deliveries
a row is FAILED while its remote job goes on, and `retry_request` then answers 409
unless that job failed (`indexing.py:159-163`); the model has this. Publication without
bounds in time, so intervals and `publication_revision` are left out.

### WorkItems

A card has inputs, the messages `known` to its run, a status, a lease, a link. Every
transaction that increments the version also ends or replaces the lease, so a run knows
the version exactly while it holds the lease. `Link` makes one thread of two: the newer card becomes an
alias (`Redirect`). `Direct` covers the owner's own calculations, which answer the
card even when an earlier message still waits. The list and the claim with its version
check are one `Claim` of the oldest candidate. The limit of 30 rows, owner revocation and
the demonstration flag are left out.

### Learning

Consent, memory and policy changes are numbers of a consent; a revision, an episode and a
batch remember theirs. `Drain` collects, `Claim, Ask, Apply, Fail, LeaseEnds` are the
batch's job (`Ask` stands at its unlocked reading of the policy), `Store` numbers and binds a
candidate, `Activate, SetAside, Revoke, Forget, Drifts` move a skill, `Select, Tool,
SearchDocuments, EditInRun, Answer` are a run. Core tools and the publication of an answer check the
run's skills again (`assert_current`, `tools.py:716-717`); document tools have left for another
handler before (`tools.py:680-681`), whose fence looks at credential, lease and status only
(`document_evidence.py:372-397`). `calls` is a history variable: by which of
the two ways a run called tools. Dates, the budget of three a day and the metrics of an
evaluation only refuse. A batch whose job ran out of budget stays RUNNING, by design: it is never
asked again. An edit of memory by the run itself empties its binding, and the run goes on
without learned skills.

### PlanningRules, RecoverySolver

Pure operators, translated from `evaluation.py`, `engine.py`, `alerts/rules.py`,
`dispatcher.py` and `planning/recovery/solver.py`; they say which choice the state
machines leave open. Days and arrivals are numbers of days, forecasts are parts of a
unit, and an order of suppliers is the order of their identifiers. `solve()` raises
`SearchSpaceExceeded` when an offer has more than 100 quantities (`solver.py:134-135`): then
(`Refused`) there are no candidates and there is no recommendation.

## 3. Runs

All runs together fire every action. Bounds are the smallest at which the case in
question occurs and, where a run lasts longer, the largest that finish in a few minutes.

| Run | Instance | Question | States |
|---|---|---|---|
| `job_queue` | 2 jobs (one retry-safe), 2 slots, 3 attempts | fencing, refinement, termination | 27 112 |
| `purchasing` | 1 order of 2 units, 2 workers, 4 events | agreement, honest reports, log against world, books | 710 605 |
| `purchasing_mixed` | 2 missions with different floors, one assisted with part offers, 1 worker, unreadable replies, money for part of it | gate, floor, reservation, books, sent as planned, refinement | 576 910 |
| `purchasing_live` | 1 order, 2 workers, 1 event of the supplier | an accepted purchase is booked if only sync jobs run; an approved one ends if workers get through as well | 60 017 |
| `store_watch` | 1 mission, 2 events, pages of 1 | no request is lost | 1 789 824 |
| `recovery_cases` | 1 case, 3 plans | one purchase, alone, resolved with goods | 1 608 682 |
| `agent_runs` | 2 workers, 1 message, 1 business change, 2 attempts | queue, finality, follow-ups, both live | 378 782 |
| `knowledge_indexing` | 1 request, 2 publishers, 2 builders, 2 revisions, 1 retry | published is found, receipts | 2 645 785 |
| `work_items` | 2 items, 1 mission, 2 runs, 2 inputs | answers, cards, proposals, fencing, progress | 362 986 |
| `learning` | 2 events, 1 episode, 2 concepts, 2 workers, 1 run, 2 versions of consent | consent from evidence to answer | 739 257 |
| `work_items_blocked` | 2 items, 1 run | the README of work items: violated, see findings | |
| `learning_documents` | 1 run, 1 skill, 2 versions of consent | the runbook of learned skills: violated, see findings | |

Why these bounds. Two slots (workers, publishers, builders, runs) give an expired owner and its
successor; a third would repeat the second. Two units make deliveries come in parts and
part offers possible. Four events (`MaxEvents`) are an acceptance, two deliveries and one
movement of the world in any order; an acceptance always finds room. Two orders are needed for the
gate and for a second purchase after the first; with them, one worker keeps the state
space checkable, because two workers on different orders meet only at the gate.
`InitialCash = 3` with a floor of 1 (of 0 for the second mission) lets one two-unit purchase through and refuses another.
Two events with pages of one give a page that leaves something behind and one that does not, and an event
during a fetch. Three plans are a routine one, an adopted one and its successor after a revision.
One request, two revisions and one retry put a metadata change before, inside and after a delivery, and a
second generation beside the first. Two items and one mission are what linking needs. Two consents and
two revisions of a skill let one be older than the other. The
one event of `purchasing_live` is the acceptance, which always finds room, or a delivery or movement
of the world before it. `purchasing_mixed` has no sales: to a purchase they only make a plan stale, and the
receipts, deliveries and conflicts of the other purchase do that; `purchasing` has them.

Bounds are guards of named constants: `MaxEvents, MaxLog, MaxMessages, MaxChanges,
MaxRevision, MaxRetries, MaxInputs, MaxVersion`; `AttemptLimit, FailureLimit, ErrorLimit,
Window, Total` are limits of the code made small.

Deadlock is checked in `store_watch`; elsewhere the system may rest, with every plan
settled, every message answered, or the bound of what users do reached.

Symmetry is used over interchangeable workers, publishers, cases, plans, events and
concepts, in runs without liveness properties only.

`MCRecoveryCases` also compares `RecoverySolver` with what it is to compute, over all inputs of
three days and small amounts: stock is conserved, buying more or earlier never loses more
sales, the recommendation is unique and no purchase that could be made is better unless the search is
refused (the boundary of 100 quantities and 101 is an assumption of that module), and a
forecast rounded by day adds up to its total. Section 4 has the same for inputs of any size.

### Fairness

* `JobRuns`: slots finish what they hold (`run_once` bounds a handler by
  `job_timeout_seconds`), delays end, a lease nobody holds runs out (weak); an expired or
  due row is recovered or claimed if that is possible again and again (strong: claims are
  ordered by `available_at`, and recovery takes all rows it can lock). Nothing is
  assumed of crashes, failures or lost leases; they are finitely many per job because
  attempts are.
* `Purchasing`: the specification of `purchasing_live` is `SyncedSpec`, with weak fairness of `Sync`
  alone: a sync job is scheduled for every active source, and reads the event at the cursor. Under it
  `AcceptedPurchasesAreBooked` must hold though every worker dies and no reply is ever heard.
  `ApprovedPurchasesEnd` is conditional: `WorkersGetThrough`, its antecedent, says of workers, of
  `recover_actions` (a hook before every claim) and of leases what `JobRuns` assumes, and besides that an
  order submitted again and again arrives once, and that a job attempted again and again is once answered
  in time and not taken over before it is done. Without the last two an order may of course stay UNKNOWN for ever.
* `AgentRuns`: weak fairness of each worker's steps, of leases ending, and of the hook
  (`Reconcile`, `ReadBusiness`, `Dispatch`), which every poll calls.
* `WorkItems`: weak fairness of claiming (the processor polls), of a run answering or leaving, and
  of leases ending. `WaitingItemsAreTaken` is conditional: no card without a message of
  its owner (see findings) and finitely many of the owner's stops and changes.

### Findings

* `work_items_blocked`: a file on a mission's card that never had a message of its owner
  makes `claim_next` raise (`work_items/processor.py:219`) before it reaches the items behind
  it, at every poll; `work_items/README.md:86` says an item that cannot be claimed does not block others.
* `learning_documents`: `docs/runbooks/skill-learning.md:85` says that tool execution and publication check
  again what injected skills depend on, and that after a revocation a model result under way has no more
  effects. Document tools do not check (`agent_bridge/tools.py:680-681`): a run whose skill is revoked
  searches documents, a call is stored and its result returned. Its answer is still refused.

Noted while modelling, without a run of its own: `scheduling/repository.py:157` says that
external-write jobs are deliberately not eligible for recovery, but every such job type is
registered with `retry_safe=True` (`execution/jobs.py:158-165`, `operations/jobs.py:199`).
What protects purchases is not that rule but `Register`, `Ask` and the supplier's idempotency:
`SupplierAgrees`, `BooksBalance` and the refinement hold with such retries.

## 4. Proofs

`tlapm` proves, for all values of the constants that satisfy the modules' named
assumptions (nothing else is assumed; in particular the sets of jobs, workers, orders
and missions need not be finite, except where `BooksAlwaysBalance` says so):

| Module | Theorems |
|---|---|
| `JobRunsProofs` | `TypeCorrect`, `PublicationIsFenced`, `AttemptsHaveOneOutcome`, `BudgetIsKept`, `TerminalIsFinal`, `FailuresAreFenced`; `Refinement`: the queue implements `JobOutcome` |
| `PurchasingProofs` | `PurchasingTypes`, `OnePurchaseIsOpen`, `SentIsReserved`, `FloorHolds`, `BothSidesAgree`, `OutcomesAreFinal`, `PurchasesAreAsPlanned`; `PurchasesAddUp`, `LogCanBeFollowed`, `EventsFit`, `NothingWaitsForAPerson`; `LogTellsTheWorld`, `BooksAlwaysBalance`; `PurchasesAgree`: the purchase path implements `PurchaseAgreement` |
| `StoreWatchProofs` | `WatchTypes`, `SyncsAreRead` (for `SourceSync` alone), `WatchedSyncsAreRead`, `ChecksAreAnswered`, `RecoveriesAreChecked`, `ManualChecksAreSeen` |
| `RecoveryCasesProofs` | `RecoveryTypes`, `OneEmergency`, `NoRoutineBeside`, `ResolvedReceived`, `SentForCase`; of the arithmetic: `OccurrenceIsTheLastDue`, `RecommendationIsUnique`, `AnomalyMeansFindings`, `NoShortageNoPurchase`, `FundingGapIsReal`, `NothingBuyableIsMissed`, `WhatIsTriedIsBuyable`; of the solver's recursions: `StockIsConserved`, `MoreOrEarlierLosesNoMore`, `RecommendationIsBest`, `AllocationAddsUp` |
| `AgentRunsProofs` | `ConversationTypes`, `NoneWaitsForNothing`, `NothingIsFollowedTwice`, `EndedIsEnded` |
| `WorkItemsProofs` | `WorkTypes`, `AnswersAreComplete`, `MissionsHaveOneCard`, `ProposalsAreOpen`, `OnlyTheNewestActs` |
| `LearningProofs` | `LearningTypes`, `ActiveSkillsAreConsented`, `AskedOnce`, `PinnedSkillsAreAllowed`, `ForgottenIsOver` |
| `KnowledgeIndexingProofs` | `IndexingTypes`, `PublicationsAreFound`, `ReceiptsAreGenuine` |

Each rests on an inductive invariant, which TLC had checked on the instance of the
module's run before it was proved (of `PurchasingProofs!Ledger` the parts without an existential
over functions; for those, `BooksBalance` and `LogTellsWorld`, which TLC can evaluate). Two assumptions on constants only say that names do not
collide: `NoRowAssumption` (the value for "no row" is not an event) and, in
`IndexingAssumption`, that an index request is not a revision number.

The inductive invariant of `JobRuns` adds `TokenNamesAttempt` (a running row's token is its
attempt number, so a token held in memory can only be equal to it or older) and
`FailuresAreOlder` (an attempt that failed is over). Fencing follows: a publication needs
the row's token, and the row's attempt is then neither published nor failed.

The inductive invariant of `Purchasing` is `IInv`. `SupplierAgrees` alone is not inductive: a
worker could enter an answer that is not the supplier's (hence `AnswersAreTrue`), the log could
tell of an acceptance that never was (`LogIsTrue`), an action could exist without an approved plan
and be approved again (`OnlyApprovedPlansAct`), and `ReservedWhileSent` needs the gate to name the
only open purchase (`OneOpenPurchase`). `CurrentPlansFit` carries `SentAsPlanned`: `Valid`
asks for a current plan, and a current plan was made from today's books. The proof splits `Next`
once per concern: the books (`StepBooks`), how one action's status may move (`StepMoves`), the
traffic with the supplier (`StepContacts`), the supplier (`StepSimulator`), the plans (`StepPlans`)
and the remaining types (`StepRestTypes`). `StepAgrees` follows from moves and contacts alone, and
`StepIInv` puts them together.

A second invariant, `Ledger /\ Calm`, stands on the first and gives the books. Its sums are
stated without recursion. A sum is a function on sets of purchases that adds up
(`AddsUp`), and the invariant says that one exists; a step that pays for or receives one
purchase changes one value, and `SumChanges` gives the new function. What the log tells is a
function from its prefixes to pictures of the supplier's world (`Follows`) that
ends in the world as it is; the store's stock and receipts are those of the picture
at its cursor, and what the owner took in of assisted orders besides (`UpToDate`). `LogIsOrdered`
keeps goods behind the acceptance of their order. From the three follow `NextEventFits` (what is
behind the cursor bounds what may come next) and that nothing entered from the log
contradicts what a reply or a query said. `NoFalseConflict` then needs `Readable` (no
garbled answer is in a worker's hands) and `FailedIsDone` (a refused purchase has no
job left that could learn of an acceptance). `StepLedger` says of every step what it is to the
ledger, so that these arguments are made about seven cases and not about every action.

`BooksBalance` and `LogTellsWorld` are stated with folds, over orders and over the log, and follow
from `Ledger`. The library's induction theorems cannot be instantiated here, so the induction is
written out: of a concrete set of numbers, those up to which a claim fails, `WFMin` gives a least
member, which is contradicted (`CountingUp`; `GrowingUp` for finite sets by
cardinality). With it every finite set has a sum in the sense of `AddsUp`
(`SumExists`), a fold over orders is that sum in whatever order CHOOSE takes them
(`PeelingFindsTheSum`, `FoldFunctionIsSum`), and a fold over the log is the sum along its
prefixes (`FoldLeftIsSum`). `LogTellsTheWorld` then follows the log beside the picture of
`Follows`, event by event; `BooksAlwaysBalance` adds that the units of each purchase are sold, on
the shelf or expected. Its hypothesis that `Orders` is finite is there because a sum over
infinitely many orders means nothing.

The refinement of `PurchaseAgreement` rests on `IInv`: each of the four helpers that write an
action's account is one abstract step or none (`CloseIsCallOff`, `SettleIsBuy`,
`ConflictIsQuiet`, `ReceiptAgrees`), registering is `Send` because nothing else is reserved
then, an arriving request is `SupplierDecides` because only sent orders are on the wire, and
everything else is a stutter.
`FloorHolds` is read off the refinement: only the agreement's `Send` sets money aside, under the floor
of its mission; only being called off gives any back; and what is spent is what was set aside
(`SpentTellsCash`, `StepFloor`).

`StoreWatchProofs` uses a predicate per mission: nothing is prepared unless a check
runs; a running check that cannot have seen a request, a recovery of the source or a manual request owes a
recheck; an ended one leaves none of these open. One lemma per group of actions, for
missions taken one at a time. `SourceSync` has its own invariant (`SyncInv`): a request that the running
job cannot have read is remembered by `rerun_requested`.

The invariant of `RecoveryCases`, `RInv`, turns on plans that are `Live`: still waiting or queued, still
fitting, and the mission's context. `LiveIsOpen` says that such a plan belongs to a
case that has not played out: whatever could end the case (a revision, its cancellation, an
arrival, a check) moves a version that the plan was made against. `OneEmergencyPurchase` by
itself says nothing of a plan in flight while goods of an earlier, partly filled one arrive; for
that `WaitsForMore` relates a case whose options are current to what is in flight, and
`PendingIsCurrent` and `ActionInFlight` tie case, plan and purchase to the mission's single slot. The
last part of the module, about the arithmetic, rests on lemmas about division (`Fits`,
`RoundsUp`, `WholePacks`): a quantity in packs is paid for exactly when it does not exceed the
solver's largest, and is at least the minimum exactly when it is at least the smallest.

What `RecoverySolver` computes day by day is proved for any number of days and any amounts.
`DaysCanBeFollowed` says that a recursive function over days is what its equations say; with
`CountingUp` the day's equation, that nothing is lost or made up, adds up to `StockIsConserved`.
`MoreOrEarlierLosesNoMore` compares two purchases: on no day is more left of the larger or earlier one than
it brought in addition. `RecommendationIsBest` minimises the ranking's five keys one after the other
(`LeastExists`, `FirstKeysDecide`); by `NothingBuyableIsMissed` every purchase that may be made was
among the candidates. Both theorems speak of searches that are not `Refused`; of a refused one they say that
it has no candidates and recommends nothing. `AllocationAddsUp` shows that there are always
enough days with a remainder to take the units that rounding down leaves over.

The invariant of `AgentRuns` is a predicate of the rows, `Sound`, because `promote_next` and the
hook compute new rows from rows already changed in their transaction: each helper is
shown to keep `Sound` of whatever it is given. It says that a live job is of the conversation's
active run, that a started run is the active one until it ends, that a follow-up under way covers
more than all others and one that ended is counted in the conversation's watermark
(`FollowupsAreCounted`, without which `FollowupsDiffer` is not inductive), and that what the
hook read between two transactions lies between that watermark and the business.

The invariant of `WorkItems` adds `HoldersKnowTheThread`: whoever holds the lease of the card that
shows an item has read its whole thread and works on its newest input. `AnswersKnowTheThread` is
not inductive without it, since an answer is published from what was read at the claim; an
addition, a link or a stop takes the lease away in the transaction that changes the thread.
`OneCardPerMission` needs `MissionsExist` (a mission just made is on no card).

The invariant of `Learning` says under which consent things were collected: a batch holds
evidence of the version it is named by, a skill only what was collected, and revisions are
numbered below their asset's latest. A skill that is switched on was then learned under a
consent that still holds, although evaluation and withdrawal may have met. What a run was given was
numbered before (`PinsAreOfThePast`), and consents and revisions are only numbered upwards, so what may
no longer be used never may again (`WithdrawnStaysSo`). The three
action properties follow from this and the guards that are repeated in the transactions.
`PinnedSkillsAreAllowed` covers core tools and answers; for document tools it would be false.

The invariant of `KnowledgeIndexing` has two halves. `SInv` is the service alone: a generation is
READY exactly when its job SUCCEEDED with that attempt. `BInv` is what the backend's rows, calls,
answers and receipts, wherever they are, say about the service: it was true when it was
said. `Moves` (a revision, an attempt and a success are never taken back) keeps that true when
the service goes on, and whoever holds a row's claim has seen no more than the row.

What proving showed: `Ask` chose what the service sees by a CASE whose guards overlapped, so that
the formula did not say which; it is now an IF in the code's order. `RunsUseWhatIsAllowed`
spoke of answers only; it is now about the calls of core tools as well, and says that a new consent does not
give an open run back what it lost.

Only model-checked:

* The liveness properties: fairness and ENABLED are beyond the prover.
* The two properties that the code violates.

Every other safety property of the runs, state or action, is a theorem. Next: theorems
about what the liveness properties rest on (that the steps which fairness is
about do make progress), and lemmas about `PlanningRules` beyond those listed.

## 5. Not modelled

* Sourcing: the search asks suppliers and a language model and changes only its own row; what it
  registers is `RecoveryCases!Source`.
* Quotations: parsing and the calculation; what they do to a card is in `WorkItems`.
* Agent runtime (`agent/`), tools, checkpoints and the progress stream of the agent bridge: what a
  run does to the business goes through operations modelled here or only reads.
* Learning: the metrics of an evaluation, the counting of feedback, records of applications.
* Knowledge: parsing, chunks, indexes, relations, ranking; several versions of a document and
  intervals of validity.
* Simulator: the scripted scenario, see above; several runs and products.
* Alerts other than about the source: their rows follow `PlanningRules!Findings` of each check.
* Reporting and the read models: projections that change nothing.
* Forecast import: reads an external service; a forecast enters a check as data.
* HTTP API, authentication, configuration: taken as PostgreSQL and FastAPI promise, as are
  transactions, isolation and row locks.
* Frontend, `ml/`, `posttraining/`, corpus tools, start-up scripts: user interface, numeric
  training and text, without state the rest depends on.

Two hazards have no property. An action with `manual_review` waits for a person for ever
(`execution/accounting.py:103`), which is documented and, by `NothingWaitsForAPerson`, not caused by
honest reports. A check that publishes a plan on a snapshot the store has left (`planning/jobs.py:139`):
publishing is one step of `Purchasing`, and `MissionChecks` does not say what a plan holds.

## Running

    tlasany Purchasing.tla
    tlc -workers 2 -config MCPurchasing.cfg MCPurchasing
    tlapm PurchasingProofs.tla
