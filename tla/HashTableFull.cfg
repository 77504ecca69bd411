\* As many buckets as there can be, and all of them used: a fifth key is refused.
CONSTANTS
    Keys = {1, 2, 3, 4, 5}
    HashValues = {0, 1, 63}
    WordBits = 6
    Fingerprints = 4
    MaxBits = 2
    Counts = {0, 3}
    Containers <- MCContainers
SPECIFICATION Spec
INVARIANTS
    InsertionEnds
PROPERTIES
    IsDenseSet
