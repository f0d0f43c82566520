----------------------------- MODULE MCAgentRuns -----------------------------
(* Instances of AgentRuns for TLC. *)
EXTENDS AgentRuns

CONSTANTS w1, w2

TwoWorkers == {w1, w2}
OneWorker  == {w1}
=============================================================================
