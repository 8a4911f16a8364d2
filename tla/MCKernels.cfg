CONSTANTS
    W = 6
    P = 4
    Operands <- MCOperands
    Triples <- MCTriples
    Texts <- MCTexts
    Moments <- MCMoments
    Fields <- MCFields
    Years <- MCYears
    Clocks <- MCClocks
    Lengths <- MCLengths
    Zones <- MCZones
    Contents <- MCContents
    NanosPerSec = 4
    NanosPerMilli = 2
    TsMin <- MCTsMin
    TsMax = 7
    DurMax = 7
    ArithMax = 4
    ArithNanos = 2
SPECIFICATION Spec
INVARIANTS
    NumbersExact
    OrderExact
    TimesExact
    EqualityExact
CHECK_DEADLOCK FALSE
