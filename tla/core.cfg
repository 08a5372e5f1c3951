SPECIFICATION Spec
CONSTANTS
    CoreName = CoreName
    FileTransfer = FileTransfer
    Gui = Gui
    joined = joined
    left = left
    exported = exported
    hidden = hidden
    Fake = Fake
    NoToken = NoToken
    CoreMade = CoreMade
    NoEvent = NoEvent
    NoHandler = NoHandler
    Nobody = Nobody
    Client = {c1, c2}
    Name = {CoreName, FileTransfer, Gui}
    Local = {CoreName, FileTransfer}
    Event = {joined}
    Method = {exported, hidden}
    LocalMethods <- MCLocalMethods
    BootBindings <- MCBoot
    Token = {t1}
    ReqId = {r1, r2}
    MaxPending = 2
SYMMETRY Symmetry
INVARIANTS TypeOK  LiveBindingsIndexed
 
CHECK_DEADLOCK FALSE
