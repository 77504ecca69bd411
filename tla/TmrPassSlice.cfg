\* tests/scripts/not_slice.ys: one gate for each bit of an output.
CONSTANTS
    None = None
    NoCone = NoCone
    Wires <- MCWires
    Cells <- MCCells
    FFs <- MCFFs
    InPorts <- MCInPorts
    OutPorts <- MCOutPorts
    Designs <- SliceDesign
SPECIFICATION Spec
CHECK_DEADLOCK FALSE
INVARIANTS
    CheckPasses
