SPECIFICATION FairSpec
CONSTANTS
    Ids = {a1}
    Clients = {c1}
    Wakelocks = FALSE
    MaxQueue = 1
    MaxCount = 2
    Churn = FALSE
    Revotes = FALSE
    Stimuli = {"display", "resume"}
    NoOne = NoOne
INVARIANTS
    FrozenOnlyInSleep
PROPERTIES
    NoSleepUnderActivity
    PreparedClientsAreResumed
    HandlersReturn
    ForceSuspendIsServed
    ImplementsCycle
