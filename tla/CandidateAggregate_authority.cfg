SPECIFICATION Spec

CONSTANTS
    Callers = {c1, c2}
    Keys = {k1}
    Fresh = fresh
    Reviews = {r1, r2}
    Feedbacks = {f1}
    Materials = {m1, m2}
    Proofs = {p1, p2}
    ReadyProofs = {p1}
    Arrival = "pm_review_required"
    Requests = {"persist", "transition", "expire", "review", "feedback", "intent", "pack"}
    Keyed = {"feedback"}
    Steps = {"enriched", "scored", "ready_for_review"}
    Actions = {"approve"}
    Targets = {"proposal", "report"}
    MaxMaterial = 2
    MaxEvidence = 2
    None = none

SYMMETRY Symmetry

INVARIANTS
    TypeOK
    ApprovedUnderExactGrant
    PostureFitsStatus
    RetryWins

PROPERTIES
    EndedUntilItRecurs
    ErasedIsFrozen
    ImplementsAuthority
