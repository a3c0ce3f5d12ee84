\* A candidate comes into view and leaves it between two statements of a page.
SPECIFICATION Spec
CONSTANTS
    Ids = {1, 2, 3}
    Walks = {w1}
    Times <- MCTimes
    Never = 2
    Required = "advisor_review_required"
    Scopes = {"own", "other"}
    Filter = {"own"}
    Contents <- AllContents
    Initial <- MCInitial
    Limit = 1
    MaxWrites = 2
    None = None
CHECK_DEADLOCK FALSE
INVARIANTS
    NoSilentSkips
