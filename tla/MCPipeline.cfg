CONSTANTS
    Split <- MCSplit
    Builtins <- MCBuiltins
    ByteValues = 6
    MaxArity = 3
    Window = 48
    Guard = 8
    Align = 4
    RodataBase = 4
    SlotStride = 8
    ValueBytes = 6
    MapHelpers <- MCMapHelpers
    ListHelpers <- MCListHelpers
    HostImports <- MCHostImports
    Adopted <- MCAdopted
    Valued <- MCValued
    Params <- MCParams
    AbiVersion = 1
    Plans = {p1, p2}
    Programs <- MCPrograms
    Foreign <- MCForeign
    Registrations <- MCRegistrations
    Args <- MCArgs
    MaxFunctions = 2
    MaxPages = 2
SPECIFICATION Spec
SYMMETRY Symmetric
CHECK_DEADLOCK FALSE
INVARIANTS
    DiagnosticsExact
    CallsReachDeclared
    MemoryReleased
    OneMemory
    GrownPagesVisible
    WindowRespected
