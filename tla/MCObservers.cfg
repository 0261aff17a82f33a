SPECIFICATION ObserversSpec
CONSTANTS
    Address <- MCAddress
    U8Max = 2
    Bpf <- MCBpf
    Native <- MCNative
    Precompile <- MCPrecompile
    Batches <- MCBatches
    Budget = 8
    MaxCalls = 3
    MaxHeight = 3
    Chatter <- MCChatter
    MaxChatter = 1
    MaxSkipped <- MCMaxSkipped
    ForeignLines <- MCForeignLines
    MaxForeign = 5
    A = A
    B = B
    System = System
    S = S
    T = T
    D = D
    NoTrace = NoTrace
    NoTransaction = NoTransaction
    MaxInvocations = 2
    Filters <- MCFilters
    Transactions <- MCTransactions
    Executable <- MCExecutable
    NoCpi <- MCNoCpi
    Digest <- MCDigest
CHECK_DEADLOCK FALSE
INVARIANTS
    TreeIsTheExecution
    TreeIsWhatTheLogsSay
    InnerInstructionsAreTheTree
    UnitsDifferByTheNativeOnes
    BarsLeadToFrames
    FilterMeansWhatItSays
PROPERTY TracedIsDebugged
