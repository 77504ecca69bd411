----------------------------- MODULE ConeSearch -----------------------------
(***************************************************************************)
(* LogicCone::search (src/logic_graph.cpp): the backwards breadth-first    *)
(* search that collects one logic cone.                                    *)
(*                                                                         *)
(* One step of the model is one turn of the search loop: the node at the   *)
(* head of the frontier is popped and considered.  The code iterates over  *)
(* a node's neighbours in the order of a hash set, so the order in which   *)
(* they are pushed is a nondeterministic choice.                           *)
(***************************************************************************)
EXTENDS Naturals, Sequences, FiniteSets, Functions

CONSTANTS Wires, Cells, FFs, InPorts, OutPorts, Netlists, None

VARIABLES
    connections,    \* RTLILConnections::wires; the search only reads it
    outputNode,     \* LogicCone::outputNode, the root
    frontier,       \* LogicCone::frontier, a FIFO queue
    visited,        \* names already pushed; the root is not among them
    cone,           \* LogicCone::cone, in order of discovery
    inputNodes,     \* LogicCone::inputNodes
    voterCutPoint,  \* LogicCone::voterCutPoint
    first           \* true until the root has been considered

vars == <<connections, outputNode, frontier, visited, cone, inputNodes,
          voterCutPoint, first>>

(* The promise: this very cone, handed over when the frontier runs empty.  *)
Completed == frontier = <<>>

LC == INSTANCE LogicCone WITH
        extracted <- IF Completed
                     THEN [members |-> Range(cone), cut |-> voterCutPoint]
                     ELSE None

Objects == LC!Objects

(* RTLILAnyPtr is a wire or a cell, never both, and RTLIL names are unique *)
(* in a module, so a name stands for its object.                           *)
ASSUME ObjectAssumption ==
    /\ IsFiniteSet(Objects)
    /\ Wires \cap Cells = {}
    /\ FFs \subseteq Cells
    /\ InPorts \cup OutPorts \subseteq Wires
    /\ None \notin Objects

ASSUME NetlistAssumption == \A c \in Netlists : LC!IsConnectionMap(c)

-----------------------------------------------------------------------------
(* Kinds of node, as newLogicGraphNeighbour assigns them.                  *)

Neighbours(n) == LC!Neighbours(n)
IsIO(n) == LC!IsIO(n)
IsFF(n) == LC!IsFF(n)
IsElementCell(n) == n \in Cells /\ ~IsFF(n)

(* Mutants: flip-flops, or ports, are not taken for terminals.             *)
AddNeighboursOfFFs(n) == ~IsIO(n)
AddNeighboursOfIOs(n) == ~IsFF(n)

ShouldAddNeighbours(n) == ~IsIO(n) /\ ~IsFF(n)

(* All sequences that list the elements of S once each.                    *)
Orderings(S) == {s \in [1..Cardinality(S) -> S] : Range(s) = S}

-----------------------------------------------------------------------------

Init ==
    /\ connections \in Netlists
    /\ outputNode \in LC!Roots
    /\ frontier = <<outputNode>>
    /\ visited = {}
    /\ cone = <<>>
    /\ inputNodes = <<>>
    /\ voterCutPoint = None
    /\ first = TRUE

(* Mutants: visited neighbours are pushed again; neighbours are pushed at  *)
(* the front; what was queued before is dropped.                           *)
PushAgain(node) ==
    \E order \in Orderings(Neighbours(node)) :
        /\ frontier' = Tail(frontier) \o order
        /\ visited' = visited \cup Neighbours(node)

PushInFront(node) ==
    \E order \in Orderings(Neighbours(node) \ visited) :
        /\ frontier' = order \o Tail(frontier)
        /\ visited' = visited \cup Neighbours(node)

PushAlone(node) ==
    \E order \in Orderings(Neighbours(node) \ visited) :
        /\ frontier' = order
        /\ visited' = visited \cup Neighbours(node)

(* Pop the node and push those of its neighbours not yet visited.          *)
PushNeighbours(node) ==
    \E order \in Orderings(Neighbours(node) \ visited) :
        /\ frontier' = Tail(frontier) \o order
        /\ visited' = visited \cup Neighbours(node)

(* Mutants: any node will do; a later cell takes over.                     *)
SetCutPointToAny(node) ==
    voterCutPoint' = IF voterCutPoint = None THEN node ELSE voterCutPoint

SetCutPointToLast(node) ==
    voterCutPoint' = IF IsElementCell(node) \/ IsFF(node) THEN node ELSE voterCutPoint

(* The first cell considered after the root becomes the cut point; wires   *)
(* and ports are passed over, flip-flops are not.                          *)
SetCutPoint(node) ==
    voterCutPoint' = IF voterCutPoint = None /\ (IsElementCell(node) \/ IsFF(node))
                     THEN node
                     ELSE voterCutPoint

(* Mutant: whatever comes last is an input node.                           *)
WrapUpAny(node) ==
    inputNodes' = IF frontier' = <<>> THEN Append(inputNodes, node) ELSE inputNodes

(* Only the node that leaves the frontier empty is kept as an input node,  *)
(* and only if it is a terminal.                                           *)
WrapUp(node) ==
    inputNodes' = IF frontier' = <<>> /\ (IsIO(node) \/ IsFF(node))
                  THEN Append(inputNodes, node)
                  ELSE inputNodes

(* Mutant: the root joins its own cone.                                    *)
ConsiderRootAsElement ==
    /\ frontier # <<>> /\ first
    /\ PushNeighbours(Head(frontier))
    /\ WrapUp(Head(frontier))
    /\ cone' = Append(cone, Head(frontier))
    /\ first' = FALSE
    /\ UNCHANGED <<connections, outputNode, voterCutPoint>>

(* The root is always expanded, and is neither cone member nor cut point.  *)
ConsiderRoot ==
    /\ frontier # <<>> /\ first
    /\ PushNeighbours(Head(frontier))
    /\ WrapUp(Head(frontier))
    /\ first' = FALSE
    /\ UNCHANGED <<connections, outputNode, cone, voterCutPoint>>

(* An ElementCellNode or ElementWireNode is expanded and joins the cone.   *)
ConsiderElement ==
    /\ frontier # <<>> /\ ~first
    /\ LET node == Head(frontier) IN
          /\ ShouldAddNeighbours(node)
          /\ PushNeighbours(node)
          /\ cone' = Append(cone, node)
          /\ SetCutPoint(node)
          /\ WrapUp(node)
    /\ UNCHANGED <<connections, outputNode, first>>

(* Mutant: the terminal is not popped.                                     *)
ConsiderTerminalWithoutPop ==
    /\ frontier # <<>> /\ ~first
    /\ LET node == Head(frontier) IN
          /\ ~ShouldAddNeighbours(node)
          /\ frontier' = frontier
          /\ SetCutPoint(node)
          /\ WrapUp(node)
    /\ UNCHANGED <<connections, outputNode, visited, cone, first>>

(* A port or a flip-flop ends the search along its path.                   *)
ConsiderTerminal ==
    /\ frontier # <<>> /\ ~first
    /\ LET node == Head(frontier) IN
          /\ ~ShouldAddNeighbours(node)
          /\ frontier' = Tail(frontier)
          /\ SetCutPoint(node)
          /\ WrapUp(node)
    /\ UNCHANGED <<connections, outputNode, visited, cone, first>>

Next == ConsiderRoot \/ ConsiderElement \/ ConsiderTerminal

Fairness == WF_vars(Next)

Spec == Init /\ [][Next]_vars /\ Fairness

-----------------------------------------------------------------------------
(* Properties.                                                             *)

(* Every variable stays in its type; in particular nothing but objects of  *)
(* the netlist is ever queued, collected or chosen as the cut point.       *)
TypeOK ==
    /\ LC!IsConnectionMap(connections)
    /\ outputNode \in LC!Roots
    /\ frontier \in Seq(Objects)
    /\ visited \subseteq Objects
    /\ cone \in Seq(Objects)
    /\ inputNodes \in Seq(Objects)
    /\ voterCutPoint \in Cells \cup {None}
    /\ first \in BOOLEAN

(* When the search ends, the cone holds exactly the elements between the   *)
(* root and the terminals behind it: none is missed on a reconvergent or   *)
(* cyclic path, and none beyond a flip-flop or a port is taken.            *)
SearchExact == Completed => Range(cone) = LC!ConeMembers

(* An object enters the cone once, and never while it is still queued:     *)
(* LogicCone::replicate runs over the cone and would otherwise copy it     *)
(* again.                                                                  *)
ConsideredOnce ==
    /\ \A i, j \in DOMAIN cone : cone[i] = cone[j] => i = j
    /\ ~first => \A i, j \in DOMAIN frontier : frontier[i] = frontier[j] => i = j
    /\ ~first => Range(cone) \cap Range(frontier) = {}

(* The cut point is a cell at the least distance from the root, whatever   *)
(* order the neighbours were pushed in, and it is missing only if no cell  *)
(* lies behind the root.  Before the end it is never undone by a nearer    *)
(* cell found later.                                                       *)
CutPointNearest ==
    /\ voterCutPoint # None => voterCutPoint \in LC!NearestCells
    /\ Completed /\ voterCutPoint = None => LC!Reached \cap Cells = {}

(* The queue is ordered by distance from the root: an object is never      *)
(* queued behind one that is further away.  This is what makes the first   *)
(* cell considered the nearest one.                                        *)
FrontierByDistance ==
    ~first =>
        \A i, j \in DOMAIN frontier : i < j =>
            \A k \in 0..Cardinality(Objects) :
                frontier[j] \in LC!Within[k] => frontier[i] \in LC!Within[k]

(* inputNodes holds at most one node, always a terminal the search met     *)
(* last (or a root nothing drives).  buildSuccessors sees no other.        *)
LastTerminalOnly ==
    /\ Len(inputNodes) <= 1
    /\ inputNodes # <<>> =>
          /\ Completed
          /\ ShouldAddNeighbours(inputNodes[1]) = FALSE
          /\ \/ inputNodes[1] \in LC!Reached
             \/ inputNodes[1] = outputNode /\ Neighbours(outputNode) = {}

(* Nothing is visited that the root does not depend on: the visited names   *)
(* lie in every set of objects closed under the search.                    *)
Sound == \A S \in SUBSET Objects : LC!IsClosed(S) => visited \subseteq S

(* Nothing visited is forgotten: it is queued, or in the cone with all its *)
(* neighbours visited, or it is a terminal.                                *)
Accounted ==
    /\ first => /\ frontier = <<outputNode>>
                /\ visited = {} /\ cone = <<>> /\ inputNodes = <<>>
    /\ ~first =>
          /\ Neighbours(outputNode) \subseteq visited
          /\ Range(frontier) \cup Range(cone) \subseteq visited
          /\ \A n \in visited : \/ n \in Range(frontier) \cup Range(cone)
                                \/ ~ShouldAddNeighbours(n)
          /\ \A n \in Range(cone) : /\ ShouldAddNeighbours(n)
                                    /\ Neighbours(n) \subseteq visited

(* The search ends on every netlist, cyclic ones included, and then has    *)
(* extracted the cone LogicCone promises.                                  *)
Terminates == <>Completed
Refinement == LC!Spec

(* logic_graph.hpp says of inputNodes: "This is the list of terminals:     *)
(* the list of IO nodes or FF nodes that we end up on through the          *)
(* backwards BFS."  Under that reading every terminal reached is listed.   *)
EveryTerminalRecorded ==
    Completed => {n \in LC!Reached : LC!IsTerminal(n)} \subseteq Range(inputNodes)

(* The thesis (method.typ) says of the voter cut point: "It is not a       *)
(* terminal node (i.e. not an IONode or an FFNode)".                       *)
CutPointNotTerminal == voterCutPoint # None => ~LC!IsTerminal(voterCutPoint)
=============================================================================
