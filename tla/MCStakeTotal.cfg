\* Stakes up to the limit of the integer type, so that overflow happens.
SPECIFICATION Spec
CONSTANTS
    Vote = {1, 2}
    MaxStake = 2
    StakeLists <- MCStakeLists
    Carried <- MCCarried
    Unloadable <- MCUnloadable
    Limit = {1}
    ForeignFiles <- MCForeignFiles
INVARIANT TotalIsSum
