SPECIFICATION LiveSpec
CONSTANTS
    Caller = {c1, c2}
    c1 = c1
    c2 = c2
    NoCall = NoCall
    MaxLines = 1

PROPERTIES AllWoken
CHECK_DEADLOCK FALSE
