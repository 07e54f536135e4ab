SPECIFICATION Spec
CONSTANTS
    Base = 2
    Cap = 7
    MaxIdle = 2
INVARIANTS
    HoldBounded
    LoneResetTakesEffect
PROPERTIES
    RefusalsDouble
    MinimumTimeAwake
