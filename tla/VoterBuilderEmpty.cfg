\* finalise() on a module in which no voter was inserted.
CONSTANTS
    MaxWidth = 1
    MaxBits = 2
SPECIFICATION Spec
CHECK_DEADLOCK FALSE
PROPERTY
    FinaliseLinksSink
