SPECIFICATION FairSpec
CONSTANTS
    Keys = {k1, k2}
    MaxLeft = 1
    MaxLate = 2
    Hour = 2
    MaxWakeup = 2
    Jumps = {2}
    MaxUpsets = 1
    NoRow = NoRow
INVARIANTS
    WakesInTime
    DeliveredOnTime
PROPERTIES
    RelativeKeepDistance
    DueIsDelivered
