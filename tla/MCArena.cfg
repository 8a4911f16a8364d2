SPECIFICATION Spec
CONSTANTS
    Word = 256
    Addrs <- MCAddrs
    MemEnd = 160
    HdrBytes = 8
    OomBytes = 8
    MinGrow = 16
    MaxGrow = 32
    Caps = {16, 20}
    Requests = {0, 9, 16, 40, 248, 255}
    EnvSizes = {16}
    MaxLive = 3
    MaxChunks = 3
    MaxEnv = 1
CONSTRAINT Bounded
INVARIANTS
    TypeOK
    AllocationsDisjoint
    AllocationsBacked
    HeapExactlyOwned
    Accounting
