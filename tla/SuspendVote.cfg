SPECIFICATION Spec
CONSTANTS
    Ids = {}
    Clients = {c1, c2}
    Wakelocks = TRUE
    MaxQueue = 1
    MaxCount = 2
    Churn = FALSE
    Revotes = FALSE
    Stimuli = {}
    NoOne = NoOne
INVARIANTS
    EveryPrepareResumed
PROPERTIES
    ApprovalNeedsEveryAck
