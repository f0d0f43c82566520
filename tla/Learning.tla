------------------------------ MODULE Learning ------------------------------
(***************************************************************************)
(* Learning (app/learning): with an owner's consent, what happens in her   *)
(* store is collected as evidence, episodes of evidence are given to a     *)
(* language model, which proposes skills, and skills she switches on are   *)
(* handed to agent runs.  She may withdraw the consent, change what she    *)
(* told the assistant, or forget a skill, while any of this is under way.  *)
(*                                                                         *)
(* One scope (owner and store) and one task family.  Every operation that  *)
(* changes something locks the row of the policy, so each is one action    *)
(* (Ask, which only reads it, stands at the moment of that reading).  An   *)
(* owner's request names the version of what she saw; a stale one is       *)
(* refused and is no step.                                                 *)
(***************************************************************************)
EXTENDS Integers, FiniteSets

CONSTANTS
    Events,        \* business events that may be collected
    Episodes,      \* what they are about: a case, a mission, a work item
    Concepts,      \* assets, one per title of a skill
    Workers,       \* learning workers
    Runs,          \* agent runs of the owner
    Enough,        \* episodes a category needs before the model is asked
    MaxVersion,    \* bound: changes of the consent
    MaxRevision,   \* bound: revisions of an asset
    None

ASSUME LearningAssumption ==
    /\ Enough \in Nat \ {0} /\ MaxVersion \in Nat /\ MaxRevision \in Nat
    /\ Concepts \cap Events = {} /\ None \notin Workers \cup Events

VARIABLES
    mode,          \* of the policy
    version,       \* of the policy: the consent in force
    blocked,       \* blocked_concepts: forgotten concepts and sources
    outbox,        \* what was collected
    episode,       \* operation_episodes with their latest outcome
    batch,         \* learning_batches, by consent and evidence, with their jobs
    work,          \* per worker, the batch it is at
    latest,        \* per concept, latest_revision
    active,        \* per concept, active_revision
    rev,           \* the revisions
    run            \* per run, the selection pinned for it

vars == <<mode, version, blocked, outbox, episode, batch, work, latest, active, rev, run>>

Modes    == {"off", "suggest", "assist"}
Versions == 0 .. MaxVersion
Numbers  == 0 .. MaxRevision
Skills   == Concepts \X (1 .. MaxRevision)

EventRows == [ver : Versions, episode : Episodes,
              kind : {"ready", "noted", "cancelled"}, processed : BOOLEAN]

ASSUME NoRowAssumption == None \notin EventRows

EpisodeRows == [events : SUBSET Events, eligible : BOOLEAN, cancelled : BOOLEAN]

Batches == [ver : Versions, evidence : SUBSET Events]

\* asks is a history: how often the model was given the batch.
BatchRows == [status : {"none", "QUEUED", "RUNNING", "SUCCEEDED", "FAILED"},
              open   : BOOLEAN,            \* its job may be claimed
              holder : Workers \cup {None},
              asks   : 0 .. 2]

\* report: a report stands that binds the revision to its present evidence.
RevRows == [status : {"none", "DRAFT", "SHADOW", "ACTIVE", "SUPERSEDED",
                      "SUSPENDED", "ARCHIVED", "REVOKED"},
            evidence : SUBSET Events, report : BOOLEAN]

\* calls is a history: the paths of tool calls the run has used on its skills.
RunRows == [status : {"none", "open", "answered", "failed"},
            ver : Versions, skills : SUBSET Skills,
            calls : SUBSET {"core", "documents"}]

LearningTypeOK ==
    /\ mode \in Modes /\ version \in Versions
    /\ blocked \in SUBSET (Concepts \cup Events)
    /\ outbox  \in [Events -> EventRows \cup {None}]
    /\ episode \in [Episodes -> EpisodeRows]
    /\ batch   \in [Batches -> BatchRows]
    /\ work    \in [Workers -> [batch : Batches, asked : BOOLEAN] \cup {None}]
    /\ latest  \in [Concepts -> Numbers]
    /\ active  \in [Concepts -> Numbers]
    /\ rev     \in [Skills -> RevRows]
    /\ run     \in [Runs -> RunRows]

Init ==
    /\ mode = "off" /\ version = 0 /\ blocked = {}
    /\ outbox  = [e \in Events |-> None]
    /\ episode = [p \in Episodes |->
                    [events |-> {}, eligible |-> FALSE, cancelled |-> FALSE]]
    /\ batch   = [b \in Batches |->
                    [status |-> "none", open |-> FALSE, holder |-> None, asks |-> 0]]
    /\ work    = [w \in Workers |-> None]
    /\ latest  = [c \in Concepts |-> 0]
    /\ active  = [c \in Concepts |-> 0]
    /\ rev     = [k \in Skills |->
                    [status |-> "none", evidence |-> {}, report |-> FALSE]]
    /\ run     = [r \in Runs |->
                    [status |-> "none", ver |-> 0, skills |-> {}, calls |-> {}]]

-----------------------------------------------------------------------------
(* Consent *)

\* Mutant: the skills stay switched on.
KeepScope ==
    /\ rev' = [k \in Skills |-> [rev[k] EXCEPT !.report = FALSE]]
    /\ UNCHANGED active

\* suspend_scope(), on a new version of the policy: no report binds any more.
SuspendScope ==
    /\ rev' = [k \in Skills |->
                 [rev[k] EXCEPT !.status = IF active[k[1]] = k[2] THEN "SUSPENDED" ELSE @,
                                !.report = FALSE]]
    /\ active' = [c \in Concepts |-> 0]

NewConsent ==
    /\ version < MaxVersion
    /\ version' = version + 1
    /\ SuspendScope
    /\ UNCHANGED <<blocked, outbox, episode, batch, work, latest>>

\* change_policy(): consent given, changed or withdrawn.
ChangePolicy(m) == m # mode /\ mode' = m /\ NewConsent /\ UNCHANGED run

\* explicit_memory_change(): the owner edits what she told the assistant.
EditMemory == NewConsent /\ UNCHANGED <<mode, run>>

-----------------------------------------------------------------------------
(* Collection *)

\* append(), in the transaction that changes the business.  Without consent
\* nothing is kept.
Capture(e) ==
    /\ outbox[e] = None /\ mode # "off"
    /\ \E p \in Episodes : \E kd \in {"ready", "noted", "cancelled"} :
          outbox' = [outbox EXCEPT ![e] = [ver |-> version, episode |-> p,
                                           kind |-> kd, processed |-> FALSE]]
    /\ UNCHANGED <<mode, version, blocked, episode, batch, work, latest, active, rev, run>>

Collected == {e \in Events : outbox[e] # None}
Waiting   == {e \in Collected : ~outbox[e].processed}

\* consume() of the events of S about an episode.  A cancellation stays, in
\* whatever order the events come.
Told(p, S) ==
    LET N     == {e \in S : outbox[e].episode = p /\ outbox[e].ver = version /\ mode # "off"}
        kinds == {outbox[e].kind : e \in N}
        over  == episode[p].cancelled \/ "cancelled" \in kinds
    IN  [events    |-> episode[p].events \cup N,
         eligible  |-> (episode[p].eligible \/ "ready" \in kinds) /\ ~over,
         cancelled |-> over]

\* What the present consent covers of an episode.
Sources(E, p) == {e \in E[p].events : outbox[e].ver = version}

\* The episodes that count for a category.
Usable(E) == {p \in Episodes : /\ E[p].eligible
                               /\ Sources(E, p) # {}
                               /\ Sources(E, p) \cap blocked = {}}

\* The batch enqueue_due() makes of them, once per consent and evidence.
Due(E) == [ver |-> version, evidence |-> UNION {Sources(E, p) : p \in Usable(E)}]

MayEnqueue(E) ==
    /\ mode # "off"
    /\ Cardinality(Usable(E)) >= Enough
    /\ batch[Due(E)].status = "none"

\* Whose outcome has a new revision: reports are bound to the old one.
Retold(S) == {p \in Episodes : Told(p, S) # episode[p]}

Concerns(k, P) == \E e \in rev[k].evidence : outbox[e].episode \in P

\* The hook before a learning worker's claim: drain() of waiting events, at
\* most 100 at once, and enqueue_due(), unless generation is switched off or
\* the day's budget is spent.
Drain(S) ==
    LET told == [p \in Episodes |-> Told(p, S)]
    IN  /\ episode' = told
        /\ outbox'  = [e \in Events |-> IF e \in S THEN [outbox[e] EXCEPT !.processed = TRUE]
                                                   ELSE outbox[e]]
        /\ rev' = [k \in Skills |->
                     [rev[k] EXCEPT !.report = @ /\ ~Concerns(k, Retold(S))]]
        /\ \/ S # {} /\ UNCHANGED batch
           \/ /\ MayEnqueue(told)
              /\ batch' = [batch EXCEPT ![Due(told)].status = "QUEUED",
                                        ![Due(told)].open = TRUE]
        /\ UNCHANGED <<mode, version, blocked, work, latest, active, run>>

-----------------------------------------------------------------------------
(* A batch is a job (scheduling).  Its handler commits RUNNING before it    *)
(* calls the model, and its candidates are stored with the end of the job.  *)

Claim(w, b) ==
    /\ work[w] = None /\ batch[b].open /\ batch[b].holder = None
    /\ work'  = [work EXCEPT ![w] = [batch |-> b, asked |-> FALSE]]
    /\ batch' = [batch EXCEPT ![b].holder = w]
    /\ UNCHANGED <<mode, version, blocked, outbox, episode, latest, active, rev, run>>

\* What has to hold of evidence, whoever asks.
Eligible(S) == \A e \in S : episode[outbox[e].episode].eligible
Consented(S) == \A e \in S : outbox[e].ver = version

\* Mutant: a batch whose attempt ended without a record is tried again.
MayAskAgain(b) ==
    /\ mode # "off" /\ b.ver = version
    /\ batch[b].status \in {"QUEUED", "RUNNING"}
    /\ Eligible(b.evidence) /\ b.evidence \cap blocked = {}

\* The checks of run() before the model call.  The policy is read first and
\* not locked: a change that commits between this and the call comes after Ask.
MayAsk(b) ==
    /\ mode # "off" /\ b.ver = version
    /\ batch[b].status = "QUEUED"
    /\ Eligible(b.evidence) /\ b.evidence \cap blocked = {}

Ask(w) ==
    /\ work[w] # None /\ ~work[w].asked
    /\ LET b == work[w].batch
       IN  /\ MayAsk(b)
           /\ work'  = [work EXCEPT ![w].asked = TRUE]
           /\ batch' = [batch EXCEPT ![b].status = "RUNNING", ![b].asks = @ + 1]
    /\ UNCHANGED <<mode, version, blocked, outbox, episode, latest, active, rev, run>>

Holds(w) == work[w] # None /\ batch[work[w].batch].holder = w

\* Mutant: sources forgotten with another concept are not looked for.
BindsAnySource(c, S) == c \notin blocked /\ Consented(S) /\ Eligible(S)

\* binding() finds what the revision rests on.
Binds(c, S) == c \notin blocked /\ S \cap blocked = {} /\ Consented(S) /\ Eligible(S)

\* create_candidate(): the latest revision once more, or a new one.
Number(c, S) ==
    {i \in 1 .. MaxRevision : \/ i = latest[c] /\ rev[<<c, i>>].evidence = S
                              \/ i = latest[c] + 1}

\* A candidate is stored with a report that says whether its contract holds.
Store(c, S, i, good) ==
    /\ Binds(c, S)
    /\ i \in Number(c, S)
    /\ latest' = [latest EXCEPT ![c] = i]
    /\ rev' = [rev EXCEPT ![<<c, i>>] =
                 [status   |-> IF i = latest[c] THEN @.status ELSE "DRAFT",
                  evidence |-> S, report |-> @.report \/ good]]

\* How a batch ends, and with it the job, or not.
Ended(b, st, again) ==
    [batch EXCEPT ![b].status = st, ![b].open = again, ![b].holder = None]

\* apply(): no candidate, or one (the model may propose up to three).
Apply(w) ==
    /\ Holds(w) /\ work[w].asked
    /\ LET b == work[w].batch
       IN  /\ mode # "off" /\ b.ver = version
           /\ \/ UNCHANGED <<latest, rev>>
              \/ \E c \in Concepts : \E S \in SUBSET b.evidence \ {{}} :
                    \E i \in 1 .. MaxRevision : \E good \in BOOLEAN : Store(c, S, i, good)
           /\ batch' = Ended(b, "SUCCEEDED", FALSE)
    /\ work' = [work EXCEPT ![w] = None]
    /\ UNCHANGED <<mode, version, blocked, outbox, episode, active, run>>

\* failed(): a check, the model or apply() raised; the job may be tried again.
Fail(w) ==
    /\ Holds(w)
    /\ \E again \in BOOLEAN : batch' = Ended(work[w].batch, "FAILED", again)
    /\ work' = [work EXCEPT ![w] = None]
    /\ UNCHANGED <<mode, version, blocked, outbox, episode, latest, active, rev, run>>

\* The lease runs out, also under a worker that goes on; at the end of the
\* budget nobody is told.
LeaseEnds(b) ==
    /\ batch[b].holder # None
    /\ \E again \in BOOLEAN :
          batch' = [batch EXCEPT ![b].holder = None, ![b].open = again]
    /\ UNCHANGED <<mode, version, blocked, outbox, episode, work, latest, active, rev, run>>

\* A crash, or the end of an attempt that lost its lease.
Leave(w) ==
    /\ work[w] # None
    /\ work' = [work EXCEPT ![w] = None]
    /\ UNCHANGED <<mode, version, blocked, outbox, episode, batch, latest, active, rev, run>>

-----------------------------------------------------------------------------
(* What the owner decides of a skill (transition, forget, feedback)         *)

Rest == UNCHANGED <<mode, version, outbox, episode, batch, work, latest, run>>

Exists(k)  == rev[k].status # "none"
Open(k)    == Exists(k) /\ rev[k].status # "REVOKED" /\ k[1] \notin blocked
IsActive(k) == active[k[1]] = k[2]

\* static_evaluate(), or a campaign of reviewed replays that ends on the
\* binding it was prepared for.  A report that falls short changes nothing here.
Evaluate(k) ==
    /\ Exists(k) /\ rev[k].status # "REVOKED"
    /\ Binds(k[1], rev[k].evidence)
    /\ rev' = [rev EXCEPT ![k].report = TRUE]
    /\ UNCHANGED <<blocked, active>> /\ Rest

\* A report is a week old, or tools, model or rules are no longer those it binds.
ReportLapses(k) ==
    /\ rev[k].report
    /\ rev' = [rev EXCEPT ![k].report = FALSE]
    /\ UNCHANGED <<blocked, active>> /\ Rest

\* activate, and rollback to an earlier revision.
Activate(k) ==
    /\ Open(k) /\ mode # "off"
    /\ Binds(k[1], rev[k].evidence) /\ rev[k].report
    /\ rev' = [j \in Skills |->
                 IF j = k THEN [rev[j] EXCEPT !.status = "ACTIVE"]
                 ELSE IF j[1] = k[1] /\ IsActive(j) THEN [rev[j] EXCEPT !.status = "SUPERSEDED"]
                 ELSE rev[j]]
    /\ active' = [active EXCEPT ![k[1]] = k[2]]
    /\ UNCHANGED blocked /\ Rest

\* shadow, suspend and archive.
SetAside(k, st) ==
    /\ Open(k)
    /\ st = "SHADOW" => rev[k].status \in {"DRAFT", "SUSPENDED", "SHADOW"}
    /\ rev' = [rev EXCEPT ![k].status = st]
    /\ active' = [active EXCEPT ![k[1]] = IF IsActive(k) THEN 0 ELSE @]
    /\ UNCHANGED blocked /\ Rest

\* The concept and all it was ever learned from.
Forgotten(c) ==
    /\ blocked' = blocked \cup {c} \cup
                     UNION {rev[k].evidence : k \in {j \in Skills : j[1] = c}}
    /\ rev' = [k \in Skills |-> IF k[1] = c /\ Exists(k)
                                  THEN [rev[k] EXCEPT !.status = "REVOKED"] ELSE rev[k]]
    /\ active' = [active EXCEPT ![c] = 0]
    /\ Rest

Revoke(k) == Open(k) /\ Forgotten(k[1])
Forget(c) == latest[c] # 0 /\ Forgotten(c)

\* feedback(): of the last ten reviewed uses, three or more failed.
Drifts(k) ==
    /\ IsActive(k)
    /\ rev' = [rev EXCEPT ![k].status = "SUSPENDED"]
    /\ active' = [active EXCEPT ![k[1]] = 0]
    /\ UNCHANGED blocked /\ Rest

-----------------------------------------------------------------------------
(* Agent runs (retrieval.py, run_binding.py; the run itself is AgentRuns)   *)

Valid(k) == rev[k].report /\ Binds(k[1], rev[k].evidence)

\* retrieve(), the first time in a run: of the active skills that apply, valid
\* ones are pinned and the others suspended; a valid one may be named with a
\* report that lapsed.  A later call returns the pinned ones or nothing.
Select(r) ==
    /\ run[r].status = "none"
    /\ LET actives == {k \in Skills : IsActive(k) /\ mode # "off"}
       IN  \E pinned, bad \in SUBSET actives :
              /\ pinned \cap bad = {}
              /\ \A k \in pinned : Valid(k)
              /\ rev' = [k \in Skills |-> IF k \in bad THEN [rev[k] EXCEPT !.status = "SUSPENDED"]
                                                       ELSE rev[k]]
              /\ active' = [c \in Concepts |-> IF <<c, active[c]>> \in bad THEN 0 ELSE active[c]]
              /\ run' = [run EXCEPT ![r] = [status |-> "open", ver |-> version,
                                            skills |-> pinned, calls |-> {}]]
    /\ UNCHANGED <<mode, version, blocked, outbox, episode, batch, work, latest>>

\* Mutant: only the status of the revisions is looked at.
ValidatedByStatus(r) ==
    /\ run[r].status = "open"
    /\ \A k \in run[r].skills : rev[k].status \in {"ACTIVE", "SUPERSEDED"}

\* assert_current(): at every context, call of a core tool and at the
\* publication; not for document tools.
Validated(r) ==
    /\ run[r].status = "open"
    /\ run[r].skills # {} =>
          /\ mode # "off" /\ run[r].ver = version
          /\ \A k \in run[r].skills :
                rev[k].status \in {"ACTIVE", "SUPERSEDED"} /\ Valid(k)

\* Calls of a run that was given no skills are no steps here.
Called(r, path) ==
    /\ run[r].skills # {}
    /\ run' = [run EXCEPT ![r].calls = @ \cup {path}]
    /\ UNCHANGED <<mode, version, blocked, outbox, episode, batch, work, latest, active, rev>>

\* A core tool runs and its invocation is stored.
Tool(r) == Validated(r) /\ Called(r, "core")

\* call_document_tool(), at its second transaction: before and after the search
\* it looks at the run's credential, lease and status, and at nothing else.
SearchDocuments(r) == run[r].status = "open" /\ Called(r, "documents")

\* The tool memory_edit: a new consent, and the run goes on without skills.
EditInRun(r) ==
    /\ Validated(r)
    /\ NewConsent
    /\ run' = [run EXCEPT ![r].ver = version + 1,
                              ![r].skills = {}, ![r].calls = {}]
    /\ UNCHANGED mode

\* Nobody looks at the pin of a run that has ended.
Over(st) == [status |-> st, ver |-> 0, skills |-> {}, calls |-> {}]

Answer(r) ==
    /\ Validated(r)
    /\ run' = [run EXCEPT ![r] = Over("answered")]
    /\ UNCHANGED <<mode, version, blocked, outbox, episode, batch, work, latest, active, rev>>

\* The run is refused, cancelled or breaks.
RunFails(r) ==
    /\ run[r].status = "open"
    /\ run' = [run EXCEPT ![r] = Over("failed")]
    /\ UNCHANGED <<mode, version, blocked, outbox, episode, batch, work, latest, active, rev>>

-----------------------------------------------------------------------------
OwnerStep ==
    \/ \E m \in Modes : ChangePolicy(m)
    \/ EditMemory
    \/ \E k \in Skills : \/ Evaluate(k) \/ Activate(k) \/ Revoke(k) \/ Drifts(k)
                         \/ \E st \in {"SHADOW", "SUSPENDED", "ARCHIVED"} : SetAside(k, st)
    \/ \E c \in Concepts : Forget(c)

LearnerStep ==
    \/ \E S \in SUBSET Waiting : Drain(S)
    \/ \E w \in Workers : Ask(w) \/ Apply(w) \/ Fail(w) \/ Leave(w)
    \/ \E w \in Workers, b \in Batches : Claim(w, b)
    \/ \E b \in Batches : LeaseEnds(b)

RunStep(r) ==
    \/ Select(r) \/ Tool(r) \/ SearchDocuments(r) \/ EditInRun(r)
    \/ Answer(r) \/ RunFails(r)

Next ==
    \/ \E e \in Events : Capture(e)
    \/ OwnerStep
    \/ LearnerStep
    \/ \E r \in Runs : RunStep(r)
    \/ \E k \in Skills : ReportLapses(k)

Spec == Init /\ [][Next]_vars

-----------------------------------------------------------------------------
(* Properties *)

\* Evidence that may be used now: collected under the consent in force, and
\* neither forgotten nor about something that was called off.
Allowed(S) ==
    /\ Consented(S) /\ S \cap blocked = {}
    /\ \A e \in S : ~episode[outbox[e].episode].cancelled

\* A batch is given to the model at most once, whatever becomes of its
\* attempts, and only with evidence that may be used at that moment (jobs.py run).
ModelAskedOnce ==
    [][\A b \in Batches : batch'[b].asks # batch[b].asks
          => batch[b].asks = 0 /\ mode # "off" /\ Allowed(b.evidence)]_vars

\* A skill is only switched on while the consent is in force under which all
\* its evidence was collected (lifecycle.py suspend_scope, binding).
ActiveOnConsent ==
    \A k \in Skills : IsActive(k) =>
       mode # "off" /\ rev[k].status = "ACTIVE" /\ Consented(rev[k].evidence)

\* What was forgotten is neither learned nor switched on again, not even by a
\* batch that was under way, nor as a part of another skill.
ForgottenStaysForgotten ==
    [][/\ blocked \subseteq blocked'
       /\ \A k \in Skills :
             \/ rev[k].status = "none" /\ rev'[k].status # "none"
             \/ rev[k].status # "ACTIVE" /\ rev'[k].status = "ACTIVE"
             => k[1] \notin blocked /\ rev'[k].evidence \cap blocked = {}]_vars

NewCalls(r) == run'[r].calls \ run[r].calls
Answered(r) == run'[r].status = "answered" /\ run[r].status # "answered"

\* What the run was given may still be used: under the consent it was selected
\* under, and with nothing of it forgotten or called off.
MayStillUse(r) ==
    run[r].skills # {} =>
       /\ mode # "off" /\ run[r].ver = version
       /\ \A k \in run[r].skills : rev[k].status # "REVOKED" /\ Allowed(rev[k].evidence)

\* What a run was given may be withdrawn, forgotten or called off while its model
\* is answering.  From then on the run calls no core tool and does not answer,
\* also when the owner consents again (tools.py _call_core, jobs.py publication).
RunsUseWhatIsAllowed ==
    [][\A r \in Runs :
          /\ "core" \in NewCalls(r) \/ Answered(r) => MayStillUse(r)
          /\ run[r].status = "open" /\ ~MayStillUse(r)
                => run'[r].status # "open" \/ ~MayStillUse(r)']_vars

\* skill-learning.md:85: tool execution checks again what the injected skills
\* depend on, and a model's answer that is under way cannot go on after a
\* revocation.  The code violates it: document tools do not check.
ToolCallsAreChecked ==
    [][\A r \in Runs : NewCalls(r) # {} => MayStillUse(r)]_vars
=============================================================================
