CONSTANTS
    a1 = a1  a2 = a2  a3 = a3  s1 = s1  s2 = s2  s3 = s3  s4 = s4
    Signature = {s1, s2, s3, s4}
    Result <- MCResult
    DefaultCapacity = 3
    MaxCapacity = 3
    Size = {0, 1}
    MinimumBalance <- MCMinimumBalance
    Incinerator = a0
    Address = {a1, a2, a3}
    NoAddress = NoAddress
    NoAccount = NoAccount
    NonceSize = 1
    MaxLamports = 3
    MaxBlockhash = 2
    MaxDepth = 3
    InitialAccounts <- MCInitialAccounts
    Tx <- MCTx
    AirdropTx <- MCAirdropTx
    AccountInputs = {}
    HistoryCapacities = {1}
SPECIFICATION ReplaySpec
VIEW View
INVARIANTS NonceReturnsOnlyThroughAnother
PROPERTIES ReplayWindow
