\* Reports of two intents race under two keys; crashes, and every call that
\* does not crash under fairness.
SPECIFICATION FairSpec
CONSTANTS
    a = a
    b = b
    l1 = l1
    l2 = l2
    Callers = {c1, c2}
    Keys = {k1, k2}
    Ids = {a, b, l1, l2}
    Intents = {1, 2}
    CandidateOf <- CandidateNumbers
    Reports <- RaceReports
    Legacies <- RaceLegacies
    None = None
INVARIANTS
    TypeOK
PROPERTIES
    AnswersStand
    ImplementsLedger
    Settles
