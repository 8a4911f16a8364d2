SPECIFICATION Spec
CONSTANTS
    Addrs = {p1, p2, p3, p4}
    p1 = p1
    p2 = p2
    p3 = p3
    p4 = p4
    MaxBirths = 4
    MaxSlots = 4
SYMMETRY AddrSymmetry
CHECK_DEADLOCK FALSE
INVARIANTS
    HandlesResolve
    MessageResultsOwned
