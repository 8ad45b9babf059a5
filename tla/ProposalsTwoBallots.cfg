SPECIFICATION SettingSpec
CONSTANTS
    t1 = t1
    t2 = t2
    t3 = t3
    n1 = n1
    n2 = n2
    n3 = n3
    n4 = n4
    n5 = n5
    Pm = {t1, t2, t3}
    Suspended = {}
    Name = {n1, n2, n3, n4, n5}
    Others = {n5}
    ProposalId <- MCRows
    NoProposal = NoProposal
    Removed = Removed
    Worker = {w1, w2}
    Nobody = Nobody
    Duration <- MCDuration
    Quorum <- MCQuorum
    RangeStart = 0
    RangeEnd = 2
    Gap = 1
    MaxTime = 6
    Ops = {}
    Faults = {}
    Setting = {"two ballots"}
SYMMETRY WorkerSymmetry
PROPERTY ElectionSpec
CHECK_DEADLOCK FALSE
