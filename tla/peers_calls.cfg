SPECIFICATION LiveSpec
CONSTANTS
    p1 = p1
    p2 = p2
    j1 = j1
    j2 = j2
    l1 = l1
    Root = Root
    NoList = NoList
    Broken <- BothBreak
    Peer = {p1}
    JoinCall = {j1}
    LeaveCall = {l1}
    CallerOf <- OnePeer
    MaxAttempts <- OneRetry
    MaxLooks = 1
INVARIANTS TypeOK ErrorAfterLastAttempt  CachedSound
PROPERTIES JoinAnswered
CHECK_DEADLOCK FALSE
