SPECIFICATION Spec
CONSTANTS
    p1 = p1
    p2 = p2
    j1 = j1
    j2 = j2
    l1 = l1
    Root = Root
    NoList = NoList
    Broken <- JoinBreaks
    Peer = {p1, p2}
    JoinCall = {j1, j2}
    LeaveCall = {l1}
    CallerOf <- TwoPeers
    MaxAttempts <- NoRetry
    MaxLooks = 1
INVARIANTS PublishedSound
PROPERTIES MembershipKept
CHECK_DEADLOCK FALSE
