SPECIFICATION LiveSpec
CONSTANTS
    MaxRequests = 2
    MaxLines = 2
INVARIANTS TypeOK CallbacksTrack AnsweredDisarmed
PROPERTIES  ResultReaches
CHECK_DEADLOCK FALSE
