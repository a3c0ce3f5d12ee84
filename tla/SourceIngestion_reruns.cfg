SPECIFICATION FairSpec

CONSTANTS
    s1 = s1
    s2 = s2
    f1 = f1
    f2 = f2
    p1 = p1
    p2 = p2
    k1 = k1
    below = below
    low = low
    high = high
    high0 = high0
    None = none
    Arrival = "advisor_review_required"
    Materials = {high, high0}
    Proofs = {p1, p2}
    Runners = {worker, manual}
    Scheduled = {worker}
    Scopes <- MCScopes
    Portfolios = {f1, f2}
    PortfolioOf <- MCPortfolioOf
    Dates = {1, 2}
    ClientKeys = {k1}
    Weights = {below, low, high, high0}
    ValueOf <- MCValueOf
    Threshold = 1
    Whole = 1
    Answers <- MCAnswers
    Manifests <- MCManifests
    Touched = {s1}
    Outcomes = {"approved", "closed"}
    MaxCrashes = 1

INVARIANTS
    LiveVersionsCanBeRetired

PROPERTIES
    RerunsReachEveryItem
    ImplementsIntake
