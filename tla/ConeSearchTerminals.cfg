\* Which terminals a search leaves behind.
CONSTANTS
    i = i
    o = o
    w = w
    c = c
    f = f
    None = None
    Wires <- MCWires
    Cells <- MCCells
    FFs <- MCFFs
    InPorts <- MCInPorts
    OutPorts <- MCOutPorts
    Netlists <- MCNetlists
SPECIFICATION Spec
CHECK_DEADLOCK FALSE
INVARIANT
    EveryTerminalRecorded
