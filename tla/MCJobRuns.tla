----------------------------- MODULE MCJobRuns ------------------------------
(* Instances of JobRuns for TLC. *)
EXTENDS JobRuns

CONSTANTS j1, j2, s1, s2

TwoJobs  == {j1, j2}
OneJob   == {j1}
TwoSlots == {s1, s2}
=============================================================================
