------------------------ MODULE ExactReviewAuthority ------------------------
(***************************************************************************)
(* What a review authorizes.                                               *)
(*                                                                         *)
(* An approval grants the conversion of a candidate on exactly the         *)
(* evidence that was reviewed.  New evidence ends it, and one conversion   *)
(* uses it up.  Requests, locks, loads, retries and keys are not seen.     *)
(***************************************************************************)
EXTENDS Integers

CONSTANTS Reviews, Targets, Proofs

VARIABLES
    current,     \* identity of the evidence the candidate carries
    approved,    \* the candidate may be converted
    grants,      \* approvals ever given
    conversions  \* conversions ever made

vars == <<current, approved, grants, conversions>>

\* Evidence identities are ordered by material, then by evidence version.
Newer(a, b) == a.mv > b.mv \/ (a.mv = b.mv /\ a.ev > b.ev)

Init ==
    /\ current.mv = 0 /\ current.ev = 0
    /\ ~approved
    /\ grants = {}
    /\ conversions = {}

\* The evidence moves on, and what was granted on the old ends.
Revise ==
    /\ Newer(current', current)
    /\ approved' = FALSE
    /\ UNCHANGED <<grants, conversions>>

\* A reviewer approves the current evidence, which nobody has approved yet.
Approve ==
    /\ ~approved
    /\ \A g \in grants : g.at # current
    /\ \E r \in Reviews :
         /\ \A g \in grants : g.review # r
         /\ grants' = grants \cup {[review |-> r, at |-> current]}
    /\ approved' = TRUE
    /\ UNCHANGED <<current, conversions>>

\* The grant on the current evidence is used, once.
Convert ==
    /\ approved
    /\ \E g \in grants, t \in Targets :
         /\ g.at = current
         /\ conversions' = conversions \cup {[review |-> g.review, at |-> current, target |-> t]}
    /\ approved' = FALSE
    /\ UNCHANGED <<current, grants>>

\* The candidate expires or is closed.
Withdraw ==
    /\ approved
    /\ approved' = FALSE
    /\ UNCHANGED <<current, grants, conversions>>

Next == Revise \/ Approve \/ Convert \/ Withdraw

Spec == Init /\ [][Next]_vars
=============================================================================
