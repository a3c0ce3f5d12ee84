\* One event, two runs and two re-drives racing for it.
SPECIFICATION Spec
CONSTANTS
    Events = {1}
    DeliveryCalls = {d1, d2}
    RecoveryCalls = {r1, r2}
    DeliveryKeys = {k1, k2}
    RecoveryKeys = {q1, q2}
    RetryLimits = {1, 2}
    BatchLimit = 1
    LeaseDuration = 2
    BackoffBase = 1
    BackoffCap = 2
    MaxRecoveries = 1
    ClockSkew = 0
    MaxTime = 3
    None = None
SYMMETRY Symmetry
CHECK_DEADLOCK FALSE
INVARIANTS
    TypeOK
    RetriesAreRefusals
    OnePublisherPerLiveLease
PROPERTIES
    ImplementsPromise
