\* Voters of one to four bits, one module after the other.
CONSTANTS
    MaxWidth = 4
    MaxBits = 4
    MaxVoters = 3
SPECIFICATION SpecDebug
CHECK_DEADLOCK FALSE
INVARIANTS
    VotersComplete
