SPECIFICATION SettingSpec
CONSTANTS
    b1 = b1
    b2 = b2
    n1 = n1
    n2 = n2
    u1 = u1
    u2 = u2
    pm = pm
    User = {u1, u2, pm}
    NoUser = NoUser
    Privileged = {pm}
    Suspended = {}
    Unverified = {}
    Base = {b1, b2}
    Package = {n1, n2}
    Commit = {"a", "two", "same", "broken", "repaired", "other", "b"}
    NoCommit = "none"
    History <- MCHistory
    Flaws <- MCFlaws
    SrcInfo <- MCSrcInfo
    NoInfo = "no info"
    PkgBaseOf <- MCPkgBaseOf
    PackagesIn <- MCPackagesIn
    Blocked = {b2}
    LegacyParser = TRUE
    MaxId = 4
    Session = {s1, s2}
    Faults = {}
    WebOps = {}
    Setting = {"alone", "races"}
SYMMETRY SessionSymmetry
INVARIANT PushIsWhole
INVARIANT HistoryIsFine
PROPERTY OnlyWritersWrite
PROPERTY OnlyFastForwards
CHECK_DEADLOCK FALSE
