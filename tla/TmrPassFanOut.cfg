\* A gate that two others read.
CONSTANTS
    None = None
    NoCone = NoCone
    Wires <- MCWires
    Cells <- MCCells
    FFs <- MCFFs
    InPorts <- MCInPorts
    OutPorts <- MCOutPorts
    Designs <- FanOutDesign
SPECIFICATION Spec
CHECK_DEADLOCK FALSE
INVARIANTS
    CheckPasses
