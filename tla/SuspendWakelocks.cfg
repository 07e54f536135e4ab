SPECIFICATION Spec
CONSTANTS
    Ids = {a1, a2}
    Clients = {}
    Wakelocks = TRUE
    MaxQueue = 2
    MaxCount = 2
    Churn = FALSE
    Revotes = FALSE
    Stimuli = {"resume", "recall", "shutdown", "charger", "display", "alarm"}
    NoOne = NoOne
INVARIANTS
    TypeOK
    ShutdownKeepsAwake
PROPERTIES
    NoSleepUnderActivity
