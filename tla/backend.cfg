SPECIFICATION LiveSpec
CONSTANTS
    Caller = {c1, c2}
    c1 = c1
    c2 = c2
    NoCall = NoCall
    MaxLines = 1
INVARIANTS TypeOK NoLostWakeup HandedOnce
PROPERTIES CallWritten StopEnds ResponsesInOrder
CHECK_DEADLOCK FALSE
