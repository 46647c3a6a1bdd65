SPECIFICATION Spec
CONSTANTS
    None = None
    Requests <- MCRequests
    AbiValues <- MCAbiValues
    Contexts <- MCContexts
    MaxNesting = 5
    MaxBytes = 20
    MaxNodes = 5
    MaxDepth = 3
    MaxChildren = 3
    U64Bits = 2
    WordLen = 2
    AddressLen = 1
    FunctionLen = 2
CHECK_DEADLOCK FALSE
INVARIANTS RejectedWhereWrong LoadsWhatWasAccepted StoredByMeaning PreviewAgrees
