SPECIFICATION Spec
CONSTANTS
    CoreName = CoreName
    FileTransfer = FileTransfer
    Gui = Gui
    joined = joined
    left = left
    exported = exported
    hidden = hidden
    Fake = Fake
    NoToken = NoToken
    CoreMade = CoreMade
    NoEvent = NoEvent
    NoHandler = NoHandler
    Nobody = Nobody
    Client = {c1}
    Name = {CoreName, FileTransfer, Gui}
    Local = {CoreName, FileTransfer}
    Event = {joined, left}
    Method = {exported, hidden}
    LocalMethods <- MCLocalMethods
    BootBindings <- MCBoot
    Token = {t1}
    ReqId = {r1, r2, r3, r4}
    MaxPending = 2
SYMMETRY Symmetry
PROPERTIES FiredToItsListeners
CHECK_DEADLOCK FALSE
