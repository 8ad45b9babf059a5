SPECIFICATION SettingSpec
CONSTANTS
    pm = pm
    u1 = u1
    c1 = c1
    c2 = c2
    p1 = p1
    User = {pm, u1}
    Secret = {p1, p2}
    NoPass = NoPass
    Browser = {c1, c2}
    Worker = {w1, w2}
    Nobody = Nobody
    MaxSid = 3
    Staff = {pm}
    Guests = {}
    Ops = {}
    Faults = {}
    Setting = {"suspend", "ranks", "reset", "gone"}
SYMMETRY WorkerSymmetry
INVARIANT SessionsEnd
INVARIANT NobodyOutranks
PROPERTY SuspensionIsLiftedByElevated
CHECK_DEADLOCK FALSE
