----------------------- MODULE MCDownstreamSubmission -----------------------
(* Small instances of DownstreamSubmission for TLC.                        *)
EXTENDS DownstreamSubmission, TLC

\* Keys are interchangeable, and so are calls of one kind.
Symmetry == Permutations(Keys) \cup Permutations(SubmitCalls)
               \cup Permutations(RecoveryCalls)
=============================================================================
