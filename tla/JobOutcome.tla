----------------------------- MODULE JobOutcome ------------------------------
(***************************************************************************)
(* What the job queue promises to the rest of the backend, without leases, *)
(* attempts or workers: the caller opens a job together with the business  *)
(* change that needs it; its result then becomes visible in one step, or   *)
(* the job ends without a visible result.  There is no third way, and no   *)
(* way back.                                                               *)
(***************************************************************************)
CONSTANT Jobs

VARIABLES
    phase,    \* what a reader of the JobRun row is told
    visible   \* whether the business writes of the job can be read

vars == <<phase, visible>>

TypeOK ==
    /\ phase   \in [Jobs -> {"absent", "open", "published", "failed", "cancelled"}]
    /\ visible \in [Jobs -> BOOLEAN]

Init ==
    /\ phase   = [j \in Jobs |-> "absent"]
    /\ visible = [j \in Jobs |-> FALSE]

Submit(j) ==
    /\ phase[j] = "absent"
    /\ phase' = [phase EXCEPT ![j] = "open"]
    /\ UNCHANGED visible

\* The result and the status that announces it appear together.
Publish(j) ==
    /\ phase[j] = "open"
    /\ phase'   = [phase EXCEPT ![j] = "published"]
    /\ visible' = [visible EXCEPT ![j] = TRUE]

\* One recovery transaction may give up several jobs.
GiveUp(F) ==
    /\ F # {}
    /\ \A j \in F : phase[j] = "open"
    /\ phase' = [j \in Jobs |-> IF j \in F THEN "failed" ELSE phase[j]]
    /\ UNCHANGED visible

Cancel(j) ==
    /\ phase[j] = "open"
    /\ phase' = [phase EXCEPT ![j] = "cancelled"]
    /\ UNCHANGED visible

Next ==
    \/ \E j \in Jobs : Submit(j) \/ Publish(j) \/ Cancel(j)
    \/ \E F \in SUBSET Jobs : GiveUp(F)

Spec == Init /\ [][Next]_vars
=============================================================================
