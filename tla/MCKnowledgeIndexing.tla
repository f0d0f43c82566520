-------------------------- MODULE MCKnowledgeIndexing --------------------------
(* Instances of KnowledgeIndexing for TLC. *)
EXTENDS KnowledgeIndexing, TLC

CONSTANTS q1, p1, p2, b1, b2

OneRequest    == {q1}
TwoPublishers == {p1, p2}
OneBuilder    == {b1}
TwoBuilders   == {b1, b2}

\* Publishers are interchangeable.
Symmetries == Permutations(TwoPublishers) \cup Permutations(TwoBuilders)
=============================================================================
