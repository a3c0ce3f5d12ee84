------------------------ MODULE MCCandidateAggregate ------------------------
(* Small instances of CandidateAggregate for TLC.                          *)
EXTENDS CandidateAggregate, TLC

\* Callers, keys, ids and fingerprints are interchangeable, and so are the
\* proofs of ready evidence.
Symmetry ==
    Permutations(Callers) \cup Permutations(Keys) \cup Permutations(Reviews)
        \cup Permutations(Feedbacks) \cup Permutations(Materials)
        \cup Permutations(ReadyProofs)
=============================================================================
