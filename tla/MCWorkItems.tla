----------------------------- MODULE MCWorkItems -----------------------------
(* Instances of WorkItems for TLC. *)
EXTENDS WorkItems

CONSTANTS i1, i2, m1, r1, r2

TwoItems   == {i1, i2}
OneMission == {m1}
OneRun     == {r1}
TwoRuns    == {r1, r2}
=============================================================================
