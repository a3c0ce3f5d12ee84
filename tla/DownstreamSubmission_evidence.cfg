\* An intent or a report pack, a POST that is retried, two recoveries racing
\* over the owner's versions, every call that does not crash under fairness.
SPECIFICATION FairSpec
CONSTANTS
    AdviseIntents = {}
    ManageIntents = {intent}
    ReportPacks = {pack}
    Keys = {k1}
    SubmitCalls = {s1}
    RecoveryCalls = {r1, r2}
    MaxTries = 2
    MaxVersion = 2
    None = None
CHECK_DEADLOCK FALSE
PROPERTIES
    EvidenceNeverRegresses
    ClaimsSettle
