SPECIFICATION SettingSpec
CONSTANTS
    pm = pm
    u1 = u1
    u2 = u2
    b1 = b1
    b2 = b2
    b3 = b3
    User = {pm, u1}
    Elevated = {pm}
    Base = {b1}
    ReqId = {r1, r2}
    Worker = {w1}
    Nobody = Nobody
    NoReq = NoReq
    NoBase = NoBase
    Ops = {}
    Faults = {}
    Setting = {"orphan"}
SYMMETRY Symmetry
INVARIANT RetryIsNotRefused
CHECK_DEADLOCK FALSE
