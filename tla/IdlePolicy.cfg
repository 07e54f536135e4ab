SPECIFICATION FairSpec
CONSTANTS
    Gran = 8
    WaitIdle = 8
    Holds = {8}
    Durations = {9}
    Grace = 1
    MaxLate = 2
    MaxEvents = 2
INVARIANTS
    TypeOK
    RequestIsKept
    DisplayBelieved
PROPERTIES
    NoBusyLoop
    ChecksGoOn
    OffLeadsToAttempt
