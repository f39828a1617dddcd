CONSTANTS
    Calls <- MCCalls
    OffsetCap = 20
SPECIFICATION Spec
CHECK_DEADLOCK FALSE
INVARIANTS RollsRight ScheduleRight FractionsRight
PROPERTIES Returns
