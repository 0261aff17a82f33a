CONSTANTS
    Signature = {s1, s2}
    Result = {ok, err}
    DefaultCapacity = 3
    MaxCapacity = 5
SPECIFICATION HistorySpec
INVARIANT OnlyZeroDisables
