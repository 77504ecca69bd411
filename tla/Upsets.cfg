\* The finished netlists of the designs the command gets right, and these clocked with an
\* upset in any cycle.
CONSTANTS
    None = None
    NoCone = NoCone
    Wires <- MCWires
    Cells <- MCCells
    FFs <- MCFFs
    InPorts <- MCInPorts
    OutPorts <- MCOutPorts
    Designs <- TreeDesigns
    NoUpset = NoUpset
SPECIFICATION SpecBench
CHECK_DEADLOCK FALSE
INVARIANTS
    NeverGivesUp
    CheckPasses
    CopiesIndependent
    OutputsVoted
    SinkReports
PROPERTIES
    ImplementsDesign
