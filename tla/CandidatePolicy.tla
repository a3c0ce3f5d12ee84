---------------------------- MODULE CandidatePolicy ----------------------------
(***************************************************************************)
(* The rules of one idea candidate: the statuses it may go through, the    *)
(* review postures they allow, and what a source evaluation makes of a     *)
(* candidate that is already there.  Pure operators, for the modules that  *)
(* keep candidates.                                                        *)
(***************************************************************************)
EXTENDS Integers

CONSTANTS
    Materials,  \* material fingerprints
    Proofs,     \* evidence content hashes
    Arrival,    \* review posture a source evaluation gives a new candidate
    None        \* an absent value

Converted == {"converted_to_proposal", "converted_to_manage_review",
              "converted_to_report"}
Terminal == {"accepted", "rejected", "expired", "executed", "closed"}
Discovery == {"detected", "generated", "enriched", "scored", "governance_checked"}
Statuses == Discovery \cup {"ready_for_review", "reviewed_by_advisor", "approved"}
               \cup Converted \cup Terminal

Escalated == {"pm_review_required", "compliance_review_required", "suppressed"}
Postures == {"not_reviewed", "advisor_review_required", "advisor_reviewed",
             "approved_for_conversion", "rejected", "no_action"} \cup Escalated

Facts == [material : Materials, proof : Proofs]
Candidate == [status : Statuses \cup {"absent"}, posture : Postures, mv : Nat, ev : Nat,
              material : Materials \cup {None}, proof : Proofs \cup {None}]

Absent == [status |-> "absent", posture |-> "not_reviewed", mv |-> 0, ev |-> 0,
           material |-> None, proof |-> None]

-----------------------------------------------------------------------------
(* Statuses and postures.                                                  *)

\* ALLOWED_LIFECYCLE_TRANSITIONS
Onward(s) ==
    (CASE s = "detected" -> {"generated"}
       [] s = "generated" -> {"enriched"}
       [] s = "enriched" -> {"scored", "governance_checked"}
       [] s = "scored" -> {"governance_checked", "ready_for_review"}
       [] s = "governance_checked" -> {"ready_for_review", "rejected"}
       [] s = "ready_for_review" -> {"reviewed_by_advisor", "rejected"}
       [] s = "reviewed_by_advisor" -> {"approved", "rejected"}
       [] s = "approved" -> Converted
       [] s \in Converted -> {"rejected"}
       [] OTHER -> {})
      \cup (IF s \in Statuses \ {"closed"} THEN {"closed"} ELSE {})
      \cup (IF s \in Statuses \ (Converted \cup Terminal) THEN {"expired"} ELSE {})

\* ALLOWED_REVIEW_POSTURES_BY_LIFECYCLE
Fitting(s) ==
    CASE s \in Discovery -> {"not_reviewed", "advisor_review_required"} \cup Escalated
      [] s = "ready_for_review" -> {"advisor_review_required"} \cup Escalated
      [] s = "reviewed_by_advisor" -> {"advisor_reviewed"} \cup Escalated
      [] s \in {"approved", "accepted", "executed"} \cup Converted
           -> {"approved_for_conversion"}
      [] s = "rejected" -> {"rejected"}
      [] OTHER -> {"no_action"}

PostureAfter_Keeps(posture, to) ==
    CASE to \in {"approved", "accepted", "executed"} \cup Converted
           -> "approved_for_conversion"
      [] to = "reviewed_by_advisor" -> "advisor_reviewed"
      [] to = "rejected" -> "rejected"
      [] to = "ready_for_review" /\ posture \notin Fitting(to) -> "advisor_review_required"
      [] OTHER -> posture

\* review_posture_for_transition
PostureAfter(posture, to) ==
    CASE to \in {"approved", "accepted", "executed"} \cup Converted
           -> "approved_for_conversion"
      [] to = "reviewed_by_advisor" -> "advisor_reviewed"
      [] to = "rejected" -> "rejected"
      [] to \in {"expired", "closed"} -> "no_action"
      [] to = "ready_for_review" /\ posture \notin Fitting(to) -> "advisor_review_required"
      [] OTHER -> posture

Transitioned(c, to) ==
    [c EXCEPT !.status = to, !.posture = PostureAfter(c.posture, to)]

-----------------------------------------------------------------------------
(* Reconciliation of an evaluation with the persisted candidate.           *)

FirstVersion(f) ==
    [status |-> "generated", posture |-> Arrival, mv |-> 1, ev |-> 1,
     material |-> f.material, proof |-> f.proof]

NewMaterial(c, f) ==
    [c EXCEPT !.status = "generated", !.posture = Arrival, !.mv = c.mv + 1, !.ev = 1,
              !.material = f.material, !.proof = f.proof]

Refreshed_KeepsApproval(c, f) == [c EXCEPT !.ev = c.ev + 1, !.proof = f.proof]

Refreshed_SameVersion(c, f) ==
    [c EXCEPT !.status = IF c.status = "approved" THEN "ready_for_review" ELSE c.status,
              !.posture = IF c.status = "approved" THEN "advisor_review_required"
                                                   ELSE c.posture,
              !.proof = f.proof]

Refreshed_Reopens(c, f) ==
    [c EXCEPT !.status = IF c.status \in {"approved"} \cup Terminal
                         THEN "ready_for_review" ELSE c.status,
              !.posture = IF c.status \in {"approved"} \cup Terminal
                          THEN "advisor_review_required" ELSE c.posture,
              !.ev = c.ev + 1, !.proof = f.proof]

\* An approval does not survive new evidence; any other status does.
Refreshed(c, f) ==
    [c EXCEPT !.status = IF c.status = "approved" THEN "ready_for_review" ELSE c.status,
              !.posture = IF c.status = "approved" THEN "advisor_review_required"
                                                   ELSE c.posture,
              !.ev = c.ev + 1, !.proof = f.proof]

Reconciled(c, f) ==
    IF c.status = "absent" THEN FirstVersion(f)
    ELSE IF f.material # c.material THEN NewMaterial(c, f)
    ELSE IF f.proof # c.proof THEN Refreshed(c, f)
    ELSE c

=============================================================================
