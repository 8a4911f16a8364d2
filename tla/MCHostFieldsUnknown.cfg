CONSTANTS
    W = 6
    P = 4
    Narrow = 3
    FloatBits = 1
    NanosPerMilli = 1
    NanosPerSec = 4
    TsMin <- MCTsMin
    TsMax = 7
    DurMax = 7
    ArithMax = 4
    ArithNanos = 2
    Literals <- MCLiterals
    Others <- MCOthers
    Inputs <- MCInputs
    Patterns <- MCPatterns
SPECIFICATION Spec
INVARIANTS
    UnknownIsResult
CHECK_DEADLOCK FALSE
