\* A flip-flop that drives an output port: its cone has no elements.
CONSTANTS
    None = None
    NoCone = NoCone
    Wires <- MCWires
    Cells <- MCCells
    FFs <- MCFFs
    InPorts <- MCInPorts
    OutPorts <- MCOutPorts
    Designs <- OutputRegisterDesign
    NoUpset = NoUpset
SPECIFICATION SpecBench
CHECK_DEADLOCK FALSE
INVARIANTS
    UpsetMasked
