SPECIFICATION Spec
CONSTANTS
    VarSeq <- MCVarSeq
    Programs <- MCPrograms
    Values <- MCValues
    Patterns <- MCPatterns
    Page = 16
    MaxIntern = 2
    Lazy = Lazy
    None = None
INVARIANTS
    SlotsDenote
    BudgetSuffices
    BinderAtMostOnce
PROPERTIES
    CallsEnd
    ImplementsContract
