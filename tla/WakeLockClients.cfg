SPECIFICATION FairSpec
CONSTANTS
    Names = {n1, n2}
    MaxToken = 3
    NoEntry = NoEntry
INVARIANTS
    KernelFollowsTable
PROPERTIES
    OnlyTheGoneAreCancelled
    CrashedClientsAreReleased
CHECK_DEADLOCK FALSE
