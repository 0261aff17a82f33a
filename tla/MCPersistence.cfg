\* Stakes up to the limit of the integer type, so that overflow happens.
SPECIFICATION PersistenceSpec
SYMMETRY Symmetry
CONSTANTS
    Vote = {1, 2}
    MaxStake = 2
    StakeLists <- MCStakeLists
    Carried <- MCCarried
    Unloadable <- MCUnloadable
    Limit = {1}
    ForeignFiles <- MCForeignFiles
    \* A full history of three with a fourth signature to evict for, and a
    \* restore that over-allocates by one.
    Signature = {s1, s2, s3, s4}
    Result = {ok, err}
    DefaultCapacity = 3
    MaxCapacity = 4
INVARIANTS
    TotalCountsReplaced
    OverflowIsExact
    BytesRoundTrip
    AcknowledgedSaveLoads
    NoMixtureWhileSaving
    OldVersionsLoad
    RetentionWindow
    LookupReturnsLatest
    DisabledStaysEmpty
PROPERTY RestoreKeepsHistory
