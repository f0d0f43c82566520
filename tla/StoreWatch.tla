------------------------------ MODULE StoreWatch ------------------------------
(***************************************************************************)
(* One store's event source together with the checks of its missions: what *)
(* SourceSync takes in moves the store's version and wakes the missions of *)
(* MissionChecks, and how fresh the source is decides what a check may     *)
(* conclude.  Both jobs publish under the store lock, so a publication of  *)
(* one is a single step of the other's world.                              *)
(***************************************************************************)
EXTENDS SourceSync, MissionChecks

vars == <<syncVars, checkVars>>

WatchTypeOK == SyncTypeOK /\ CheckTypeOK

Init == SyncInit /\ CheckInit

-----------------------------------------------------------------------------
\* ingest(): accepted events move the version (one that repeats a receipt
\* already booked does not) and wake the missions.
Ingested == \E moved \in BOOLEAN : Wake(moved)

\* Mutant: only new events wake the missions, not the source's recovery.
TakenInQuietly ==
    \/ cursor' # cursor /\ Ingested
    \/ cursor' = cursor /\ UNCHANGED <<mission, check, prep, asked>>

\* apply_sync(): besides, the missions are woken by the last page of a source
\* that was not fresh.
TakenIn ==
    \/ cursor' # cursor /\ Ingested
    \/ cursor' = cursor /\ ~fresh /\ ~page.more /\ Wake(FALSE)
    \/ /\ cursor' = cursor /\ (fresh \/ page.more)
       /\ UNCHANGED <<mission, check, prep, asked>>

SyncPublishes == ApplyPage /\ TakenIn /\ UNCHANGED <<alert, skipped>>

BatchPushed ==
    /\ \E n \in Sequences : Push(n)
    /\ Ingested
    /\ UNCHANGED <<alert, skipped>>

\* check_freshness, evaluated under the publication locks.
FreshnessChecked == ~fresh /\ RaiseStale

Next ==
    \/ SyncStep /\ UNCHANGED checkVars
    \/ SyncPublishes
    \/ BatchPushed
    \/ CheckStep(fresh) /\ UNCHANGED syncVars
    \/ FreshnessChecked /\ UNCHANGED syncVars

Spec == Init /\ [][Next]_vars

-----------------------------------------------------------------------------
(* Properties *)

\* An alert that the source is stale does not outlive the staleness: once the
\* source is fresh again, an ACTIVE mission that still shows it has a check
\* under way, unless a case or an action kept its last check from looking
\* (operations/jobs.py 94-101: the wake of a source that recovered).
StaleAlertIsChecked ==
    \A m \in Missions :
       /\ alert[m]
       /\ fresh
       /\ mission[m].status = "ACTIVE"
       /\ check[m] = "SUCCEEDED"
       => skipped[m]
=============================================================================
