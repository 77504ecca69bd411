----------------------------- MODULE LogicCone -----------------------------
(***************************************************************************)
(* What a logic cone is, independently of how TaMaRa finds it.             *)
(*                                                                         *)
(* The netlist is the backwards graph `connections` (wire -> its drivers,  *)
(* cell -> the wires it reads).  The cone of a root (an output port, or a  *)
(* flip-flop of an earlier cone) is everything the root depends on up to   *)
(* and excluding the terminals: ports and flip-flops.                      *)
(*                                                                         *)
(* The specification extracts that cone in a single step.  ConeSearch, the *)
(* breadth-first search the code runs, is shown to implement it.           *)
(***************************************************************************)
EXTENDS Naturals, FiniteSets

CONSTANTS
    Wires,      \* names of the module's wires
    Cells,      \* names of the module's cells
    FFs,        \* the cells for which isDFF holds
    InPorts,    \* wires with port_input set
    OutPorts,   \* wires with port_output set
    None        \* std::nullopt

Objects == Wires \cup Cells

(* ConeSearch, which instantiates this module, states what it assumes of   *)
(* these constants (ObjectAssumption).                                     *)

(* Shape of RTLILConnections::wires as analyseConnections builds it: a     *)
(* partial map (an object without neighbours has no entry, as entries are  *)
(* only created by an insert) in which a cell has wires as neighbours.     *)
IsConnectionMap(c) ==
    /\ DOMAIN c \subseteq Objects
    /\ \A x \in DOMAIN c :
          /\ c[x] # {} /\ c[x] \subseteq Objects
          /\ x \in Cells => c[x] \subseteq Wires

(* A cone starts at an output port or at a flip-flop.                      *)
Roots == OutPorts \cup FFs

-----------------------------------------------------------------------------

VARIABLES
    connections,  \* RTLILConnections::wires, computed once for the whole pass
    outputNode,   \* the root of the cone
    extracted     \* None, or the cone once it is known

vars == <<connections, outputNode, extracted>>

(* getOrDefault(connections, obj, {}).                                     *)
Neighbours(n) == IF n \in DOMAIN connections THEN connections[n] ELSE {}

(* isWireIO: a port, or a wire with an entry that is empty (the maps       *)
(* analyseConnections builds have no such entry).                          *)
IsIO(n) ==
    /\ n \in Wires
    /\ \/ n \in DOMAIN connections /\ connections[n] = {}
       \/ n \in InPorts \cup OutPorts

IsFF(n) == n \in FFs

IsTerminal(n) == IsIO(n) \/ IsFF(n)

(* The objects a search from the root must look at: the least set that     *)
(* holds the root's neighbours and those of its own non-terminals.         *)
IsClosed(S) ==
    /\ Neighbours(outputNode) \subseteq S
    /\ \A n \in S : ~IsTerminal(n) => Neighbours(n) \subseteq S

Reached == {n \in Objects : \A S \in SUBSET Objects : IsClosed(S) => n \in S}

ConeMembers == {n \in Reached : ~IsTerminal(n)}

(* Objects at most k+1 edges behind the root.                              *)
Within[k \in 0..Cardinality(Objects)] ==
    IF k = 0 THEN Neighbours(outputNode)
    ELSE Within[k - 1] \cup
         UNION {Neighbours(n) : n \in {m \in Within[k - 1] : ~IsTerminal(m)}}

(* Cells (flip-flops included) as near to the root as any other: where the *)
(* voter may be spliced in.                                                *)
NearestCells ==
    {c \in Reached \cap Cells :
        \A k \in 0..Cardinality(Objects) :
            Within[k] \cap Cells # {} => c \in Within[k]}

-----------------------------------------------------------------------------

Init ==
    /\ IsConnectionMap(connections)
    /\ outputNode \in Roots
    /\ extracted = None

(* The whole search, in one step.                                          *)
Extract ==
    /\ extracted = None
    /\ \E cut \in NearestCells \cup {None} :
          /\ cut = None => NearestCells = {}
          /\ extracted' = [members |-> ConeMembers, cut |-> cut]
    /\ UNCHANGED <<connections, outputNode>>

Next == Extract

Spec == Init /\ [][Next]_vars /\ WF_vars(Next)
=============================================================================
