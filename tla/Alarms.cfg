SPECIFICATION FairSpec
CONSTANTS
    MaxId = 1
    MaxLeft = 2
    MaxLate = 3
    Jumps = {1, 2}
    MaxUpsets = 2
INVARIANTS
    TypeOK
    IdsAreUnique
    FileHoldsQueue
    AnsweredAlarmsSurvive
    AlarmsAreBacked
PROPERTIES
    DueAlarmsFire
