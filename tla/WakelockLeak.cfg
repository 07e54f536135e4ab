SPECIFICATION Spec
CONSTANTS
    Ids = {a1}
    Clients = {}
    Wakelocks = TRUE
    MaxQueue = 1
    MaxCount = 2
    Churn = FALSE
    Revotes = FALSE
    Stimuli = {}
    NoOne = NoOne
INVARIANTS
    EveryWakelockHasAnEntry
