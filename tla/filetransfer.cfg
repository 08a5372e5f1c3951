SPECIFICATION LiveSpec
CONSTANTS
    f = f
    g = g
    d1 = d1
    NotJoined = NotJoined
    File = {f, g}
    Scan <- Folders
    DefaultFolder = TRUE
    MaxFiles = 2
    MaxJoins = 2
    MaxWalks = 2
    Download = {d1}
    Wanted <- OneDownload
    MaxBlocks = 1
INVARIANTS TypeOK WalkReaches IntervalRuns  FinishedWhole ServersAccounted
PROPERTIES RecordEnds Republished 
CHECK_DEADLOCK FALSE
