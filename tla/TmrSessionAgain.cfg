\* The same clocked design processed twice.
CONSTANTS
    None = None
    NoCone = NoCone
    Wires <- MCWires
    Cells <- MCCells
    FFs <- MCFFs
    InPorts <- MCInPorts
    OutPorts <- MCOutPorts
    Designs <- ConesMinDesign
    MaxRuns = 2
SPECIFICATION SpecSession
CHECK_DEADLOCK FALSE
INVARIANTS
    SearchContinues
