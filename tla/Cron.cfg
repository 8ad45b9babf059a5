SPECIFICATION MCSpec
CONSTANTS
    Run = {"r1"}
    Output <- MCOutput
    Queries = 3
    MaxVersion = 3
    Value <- MCValue
    MaxCommit = 8
    MaxCrash = 2
    NoReq = NoReq
INVARIANT FilesAgree
INVARIANT RepeatedAreOfKills
INVARIANT ArchivesAreRight
PROPERTY RunIsRight
PROPERTY RemindersAreFair
PROPERTY Recovers
PROPERTY NothingWaitsForever
CHECK_DEADLOCK FALSE
