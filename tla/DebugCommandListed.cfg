\* Every task that help() lists.
CONSTANTS
    MaxWidth = 1
    MaxBits = 1
    MaxVoters = 1
SPECIFICATION SpecDebug
CHECK_DEADLOCK FALSE
INVARIANTS
    ListedTasksComplete
