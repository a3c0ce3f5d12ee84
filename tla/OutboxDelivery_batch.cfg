\* Two events leased and published in batches; crashes, a caller-supplied
\* clock, and every call that does not crash under fairness.
SPECIFICATION FairSpec
CONSTANTS
    Events = {1, 2}
    DeliveryCalls = {d1, d2}
    RecoveryCalls = {}
    DeliveryKeys = {k1, k2}
    RecoveryKeys = {}
    RetryLimits = {1}
    BatchLimit = 2
    LeaseDuration = 1
    BackoffBase = 1
    BackoffCap = 2
    MaxRecoveries = 1
    ClockSkew = 1
    MaxTime = 1
    None = None
CHECK_DEADLOCK FALSE
PROPERTIES
    OutcomeBelongsToOwner
    ClaimsAreSettled
