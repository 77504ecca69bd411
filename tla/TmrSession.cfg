\* Every step of the command, on all designs, and a second command after it.
CONSTANTS
    None = None
    NoCone = NoCone
    Wires <- MCWires
    Cells <- MCCells
    FFs <- MCFFs
    InPorts <- MCInPorts
    OutPorts <- MCOutPorts
    Designs <- AllDesigns
    MaxRuns = 2
SPECIFICATION SpecSession
CHECK_DEADLOCK FALSE
INVARIANTS
    TypeOK
    ReplicaPairs
    OwnObjects
    ConeIDsUnique
    OneConePerSuccessor
PROPERTIES
    FirstConeWins
    OriginalsKeepInputs
    VoterOnTriple
    EveryRunEnds
