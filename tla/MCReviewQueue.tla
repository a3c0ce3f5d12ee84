---------------------------- MODULE MCReviewQueue ----------------------------
(* Instances of ReviewQueue for TLC.                                       *)
EXTENDS ReviewQueue

MCTimes == 0..1

\* A candidate to review, and what keeps others from being one.
Plain == [created |-> 0, since |-> 0, status |-> "ready_for_review", posture |-> Required,
          suppression |-> None, expires |-> Never, reviews |-> {}, evidence |-> "ready",
          policy |-> "rankable", score |-> 1, scope |-> "own"]

Urgent == [Plain EXCEPT !.score = 2, !.expires = 1]
Approved == [Urgent EXCEPT !.status = "approved", !.posture = "approved_for_conversion"]
Sleeping == [Plain EXCEPT !.reviews = {[at |-> 0, until |-> 1]}]
Changed == [Sleeping EXCEPT !.since = 1, !.score = 3]
Later == [Plain EXCEPT !.created = 1, !.since = 1]
Unscored == [Plain EXCEPT !.policy = None, !.score = 0]
Strange == [Plain EXCEPT !.policy = "unknown", !.status = "approved"]
Detected == [Plain EXCEPT !.status = "detected", !.reviews = Sleeping.reviews]
Duplicate == [Sleeping EXCEPT !.suppression = "duplicate", !.posture = "suppressed"]
Foreign == [Plain EXCEPT !.scope = "other", !.evidence = "blocked"]
Retired == [Plain EXCEPT !.status = "expired", !.posture = "no_action", !.suppression = "other"]

AllContents == {Plain, Urgent, Approved, Sleeping, Changed, Later, Unscored, Strange, Detected,
                Duplicate, Foreign, Retired}
MCInitial == {Plain, Urgent}
=============================================================================
