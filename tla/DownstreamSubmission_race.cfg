\* One Advise intent, two keys and two callers, a recovery, an erasure.
SPECIFICATION Spec
CONSTANTS
    AdviseIntents = {intent}
    ManageIntents = {}
    ReportPacks = {}
    Keys = {k1, k2}
    SubmitCalls = {s1, s2}
    RecoveryCalls = {r1}
    MaxTries = 1
    MaxVersion = 2
    None = None
SYMMETRY Symmetry
CHECK_DEADLOCK FALSE
INVARIANTS
    TypeOK
    OneSenderPerResource
    ErasureExcludesDelivery
    PostureIsTheOwnersWord
PROPERTIES
    ResolutionIsFinal
