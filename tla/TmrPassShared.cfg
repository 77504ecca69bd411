\* An output port that the logic of another output reads.
CONSTANTS
    None = None
    NoCone = NoCone
    Wires <- MCWires
    Cells <- MCCells
    FFs <- MCFFs
    InPorts <- MCInPorts
    OutPorts <- MCOutPorts
    Designs <- SharedOutputDesign
SPECIFICATION Spec
CHECK_DEADLOCK FALSE
INVARIANTS
    ExpectedTwoReplicas
