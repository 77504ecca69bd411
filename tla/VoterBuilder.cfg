\* Every sequence of voters of at most four bits in all, then every value of
\* every copy.
CONSTANTS
    MaxWidth = 3
    MaxBits = 4
SPECIFICATION Spec
CHECK_DEADLOCK FALSE
INVARIANTS
    TypeOK
    SinkReportsEveryUpset
    SingleUpsetMasked
    ChainCoversPrefix
    ReductionsExact
PROPERTY
    FinaliseEnds
