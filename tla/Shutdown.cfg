SPECIFICATION FairSpec
CONSTANTS
    Names = {n1, n2}
    Callers = {k1, k2}
    MaxAcks = 3
    MaxStale = 2
    NoCaller = NoCaller
INVARIANTS
    TypeOK
    TimerMatchesRound
    HeldAwakeThroughout
PROPERTIES
    StageNeedsAcks
    SequenceEnds
    ForcedActionRuns
CHECK_DEADLOCK FALSE
