SPECIFICATION QueueLiveSpec
CONSTANTS
    Task = {1, 2}
    Worker = {w1, w2}
    Lease = 2
    MaxExponent = 1
    MaxBackoff = 2
    MaxAge = 1
    MaxHold = 3
INVARIANTS
    QueueTypeOK
    LeaseExclusive
    QueueInv
PROPERTIES
    ImplementsTasks
    ClaimsSpaced
    NoStarvation
