\* tests/scripts/cones_min.ys: two cones with a flip-flop between them.
CONSTANTS
    None = None
    NoCone = NoCone
    Wires <- MCWires
    Cells <- MCCells
    FFs <- MCFFs
    InPorts <- MCInPorts
    OutPorts <- MCOutPorts
    Designs <- ConesMinDesign
SPECIFICATION Spec
CHECK_DEADLOCK FALSE
INVARIANTS
    CheckPasses
