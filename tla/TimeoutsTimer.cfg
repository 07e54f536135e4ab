SPECIFICATION Spec
CONSTANTS
    Keys = {k1, k2}
    MaxLeft = 3
    MaxLate = 2
    Hour = 3
    MaxWakeup = 3
    Jumps = {}
    MaxUpsets = 0
    NoRow = NoRow
INVARIANTS
    TimerCoversEveryTimeout
