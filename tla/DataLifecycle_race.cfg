\* Two calls at a time, one writer, one candidate.
SPECIFICATION FairSpec
CONSTANTS
    Callers = {c1, c2}
    Writers = {w1}
    Keys = {"k1", "k2", "k3"}
    Decisions = {"d1", "d2"}
    Nonces = {"n1", "n2"}
    Documents = {"a1", "a2", "a3"}
    Digests = {"a1", "a2", "a3"}
    Commands <- MCCommands
    MaxWork = 1
    None = None
CHECK_DEADLOCK FALSE
INVARIANTS
    TypeOK
    ErasedIsNameless
    ReceiptsAreUsedOnce
    AuditTellsControl
    AnswersStand
PROPERTIES
    ImplementsPromise
    Settles
