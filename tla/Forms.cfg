SPECIFICATION Spec
CONSTANTS
    Worker = {w1, w2}
    Base = {b1, b2}
    w0 = w0
SYMMETRY Symmetry
INVARIANT FormIsHonest
INVARIANT EveryoneIsTold
INVARIANT OneAccountPerMailbox
PROPERTY NobodyIsPestered
PROPERTY VerifiedByItsOwnLink
CHECK_DEADLOCK FALSE
