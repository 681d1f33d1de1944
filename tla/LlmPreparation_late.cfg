SPECIFICATION PreparationFairSpec
CONSTANTS
    background = background
    a = a
    b = b
    c = c
    Tasks = {background, a}
    Droppable = {}
PROPERTIES
    LateCallerReturns
CHECK_DEADLOCK FALSE
