CONSTANTS
    W = 4
    P = 2
    GroupWidth = 2
    Threshold = 2
    Keys <- MCKeys
    Queries <- MCQueries
    Vals <- MCVals
    Preds <- MCPreds
    Sources <- MCSources
    Merged <- MCMerged
    Rooms <- MCRooms
    Hashes <- MCHashes
    Constants <- MCConstants
    MaxLiteral = 3
SPECIFICATION Spec
INVARIANTS
    ExhaustionSurfaces
CHECK_DEADLOCK FALSE
