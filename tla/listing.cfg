SPECIFICATION GuiLiveSpec
CONSTANTS
    p1 = p1
    c1 = c1
    c2 = c2
    NotJoined = NotJoined
    NoPeers = NoPeers
    Peer = {p1}
    Conn = {c1, c2}
    GuiConn = c1
    Limit = 3
    Shares <- OneMember
INVARIANTS GuiTypeOK EveryFileListed ListsAccounted ListsFit TableComplete FilesShown
PROPERTIES EndIsLast EndComes IconStops
CHECK_DEADLOCK FALSE
