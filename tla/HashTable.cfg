\* Up to sixteen buckets: growing, shrinking, wrapping around.
CONSTANTS
    Keys = {1, 2, 3, 4}
    HashValues = {0, 1, 4, 63}
    WordBits = 6
    Fingerprints = 4
    MaxBits = 4
    Counts = {0, 7}
    Containers <- MCContainers
SPECIFICATION Spec
INVARIANTS
    LookupExact
    LoopsAgree
    IndexIsBijective
    RobinHoodOrder
    BulkOperationsExact
PROPERTIES
    IsDenseSet
