SPECIFICATION SettingSpec
CONSTANTS
    Worker = {w1, w2}
    w0 = w0
    CountKey = {"count"}
    ListKey = {"l1", "l2", "l3", "l4"}
    FeedKey = {"rss"}
    Error = {"e1", "e2"}
    NoKey = "none"
    Lifetime = 2
    MarkLifetime = 3
    MaxEntries = 1
    MaxTime = 6
    MaxReport = 4
    MaxCrash = 1
SYMMETRY Symmetry
INVARIANT Fresh
INVARIANT ResultsAreBounded
INVARIANT ReportedOnce
INVARIANT PassesAreBounded
PROPERTY RefusedForAReason
CHECK_DEADLOCK FALSE
