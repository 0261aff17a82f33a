CONSTANTS
    a1 = a1  a2 = a2  a3 = a3  s1 = s1  s2 = s2  s3 = s3
    Signature = {s1, s2, s3}
    Result <- MCResult
    DefaultCapacity = 1
    MaxCapacity = 1
    Size = {0, 1}
    MinimumBalance <- MCMinimumBalance
    Incinerator = a0
    Address = {a1, a2, a3}
    NoAddress = NoAddress
    NoAccount = NoAccount
    NonceSize = 1
    MaxLamports = 7
    MaxBlockhash = 1
    MaxDepth = 2
    InitialAccounts <- MCInitialAccounts
    Tx <- MCTx
    AirdropTx <- MCAirdropTx
    AccountInputs <- MCAccountInputs
    HistoryCapacities = {0}
SPECIFICATION Spec
VIEW View
INVARIANTS SimulationPredictsSend DrainedAccountsArePlain
PROPERTIES FeeAccounting NoNewRentPaying HistoryAgreesWithReply
