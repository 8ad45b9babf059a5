SPECIFICATION Spec
CONSTANTS
    Worker = {w1, w2}
    Package = {a, b}
    Candidate = {u1, u2, u3}
    w0 = w0
    NoBase = NoBase
    NoUser = NoUser
    Ghost = Ghost
    NoText = NoText
SYMMETRY Symmetry
INVARIANT CountIsRight
INVARIANT LineOfSuccession
INVARIANT RemovedAreTold
INVARIANT PageIsAsWritten
PROPERTY NothingIsLost
CHECK_DEADLOCK FALSE
