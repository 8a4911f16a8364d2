SPECIFICATION RunSpec
CONSTANTS
    Slots = {s1, s2, s3}
    Ids = {i1, i2}
    s1 = s1
    s2 = s2
    s3 = s3
    i1 = i1
    i2 = i2
    StrictOps <- MCStrictOps
    HostArity = 2
    MaxOps = 4
    MergeIds = {1, 2, 3, 4}
    Inputs <- MCInputs
CHECK_DEADLOCK FALSE
INVARIANTS
    KnownIsFinal
    
    MergedIsUnion
    WithinBuffer
PROPERTY MergeEnds
