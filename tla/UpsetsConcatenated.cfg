\* A cell input whose bits come from two wires.
CONSTANTS
    None = None
    NoCone = NoCone
    Wires <- MCWires
    Cells <- MCCells
    FFs <- MCFFs
    InPorts <- MCInPorts
    OutPorts <- MCOutPorts
    Designs <- ConcatenatedDesign
    NoUpset = NoUpset
SPECIFICATION SpecBench
CHECK_DEADLOCK FALSE
INVARIANTS
    UpsetMasked
