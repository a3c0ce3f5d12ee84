\* One submission and one erasure.
SPECIFICATION Spec
CONSTANTS
    AdviseIntents = {intent}
    ManageIntents = {}
    ReportPacks = {}
    Keys = {k1}
    SubmitCalls = {s1}
    RecoveryCalls = {r1}
    MaxTries = 1
    MaxVersion = 1
    None = None
CHECK_DEADLOCK FALSE
INVARIANTS
    ErasureWinsOrIsBlocked
