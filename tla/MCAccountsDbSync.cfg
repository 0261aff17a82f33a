CONSTANTS
    clock = clock  rent = rent  p3 = p3  d3 = d3  p2 = p2
    v0 = v0  v1 = v1  e1 = e1  e2 = e2
    Address = {clock, rent, p3, d3, p2}
    Clock = clock
    OtherSysvar = {rent}
    Rent = rent
    Value = {v0, v1}
    Slot0 = v0
    Elf = {e1, e2}
    BadElf = BadElf
    ProgramData <- MCProgramData
    Program = {p3, p2}
    Builtin = {p2}
    NoAccount = NoAccount
    NoEntry = NoEntry
    Unset = Unset
    SetAccountInputs <- MCSetAccountInputs
    MaxTouched = 1
    MaxEnvironment = 1
SPECIFICATION Spec
CHECK_DEADLOCK FALSE
INVARIANT SyncNeverFails
