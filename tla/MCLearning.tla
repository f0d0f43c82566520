----------------------------- MODULE MCLearning -----------------------------
(* Instances of Learning for TLC. *)
EXTENDS Learning, TLC

CONSTANTS e1, e2, p1, p2, c1, c2, w1, w2, r1

TwoEvents   == {e1, e2}
OneEpisode  == {p1}
TwoEpisodes == {p1, p2}
OneConcept  == {c1}
TwoConcepts == {c1, c2}
OneWorker   == {w1}
TwoWorkers  == {w1, w2}
OneRun      == {r1}

\* Events, episodes, concepts and workers are interchangeable.
Symmetries ==
    Permutations(TwoEvents) \cup Permutations(Episodes)
        \cup Permutations(Concepts) \cup Permutations(Workers)
=============================================================================
