\* Every small netlist: the search, its order and its termination.
CONSTANTS
    i = i
    o = o
    w = w
    c = c
    f = f
    None = None
    Wires <- MCWires
    Cells <- MCCells
    FFs <- MCFFs
    InPorts <- MCInPorts
    OutPorts <- MCOutPorts
    Netlists <- MCNetlists
SPECIFICATION Spec
CHECK_DEADLOCK FALSE
INVARIANTS
    TypeOK
    SearchExact
    ConsideredOnce
    CutPointNearest
    FrontierByDistance
    LastTerminalOnly
    Sound
    Accounted
PROPERTIES
    Terminates
    Refinement
