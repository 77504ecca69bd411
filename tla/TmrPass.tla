------------------------------ MODULE TmrPass ------------------------------
(***************************************************************************)
(* The tamara_tmr command (src/tamara_tmr_pass.cpp) with the steps of      *)
(* LogicCone it drives (src/logic_graph.cpp): search, replicate, wire,     *)
(* fix up, build successors; first for every output port, then for every   *)
(* successor cone.                                                         *)
(*                                                                         *)
(* The search is module ConeSearch, the fixer's rewiring FixWalker, the    *)
(* data model Netlist.  A voter is one cell of type "voter" with inputs    *)
(* a, b, c and outputs out, err; module VoterBuilder shows what stands     *)
(* behind it.                                                              *)
(*                                                                         *)
(* log_error and log_assert end the command: stage "failed".  What a       *)
(* failing step did to the netlist before it gave up is not modelled, as   *)
(* Yosys then stops.                                                       *)
(***************************************************************************)
EXTENDS FixWalker, SequencesExt

CONSTANTS
    Designs,                                \* netlists the command may be run on
    Wires, Cells, FFs, InPorts, OutPorts,   \* the names in them, by kind
    None

VARIABLES
    netlist,        \* the RTLIL module: [cells, wires, conns]
    connections,    \* RTLILConnections, computed once, before any change:
    signals,        \*   the wires, the signals attached to each,
    cellOutputs,    \*   and the outputs of each cell
    outputs,        \* output ports the first loop has yet to visit
    successors,     \* queue of [root, id]
    explored,       \* LogicCone::g_explored_successors
    nextID,         \* LogicCone::g_cone_ID
    autoidx,        \* Yosys::autoidx
    errorSink,      \* TamaraTMRPass::errorSink
    id,             \* the cone at hand, and what its search works on
    outputNode, frontier, visited, cone, inputNodes, voterCutPoint, first,
    replicated,     \* objects whose node in this cone got its two replicas
    fixConnections, \* FixWalkerManager::execute's own analysis
    fixTodo,        \* candidate wires it has yet to process
    stage           \* where control is

searchVars == <<connections, outputNode, frontier, visited, cone, inputNodes,
                voterCutPoint, first>>
analysisVars == <<connections, signals, cellOutputs>>
coneVars == <<id, outputNode, frontier, visited, cone, inputNodes,
              voterCutPoint, first, replicated>>
queueVars == <<outputs, successors, explored, nextID>>
fixVars == <<fixConnections, fixTodo>>
vars == <<netlist, analysisVars, queueVars, autoidx, errorSink, coneVars,
          fixVars, stage>>

CS == INSTANCE ConeSearch WITH Netlists <- {}

Stages == {"start", "next", "search", "wire", "fix", "expand", "done", "failed"}

(* RTLIL names are unique in a module: a name is that of a wire or of a    *)
(* cell.  The names of a design are one string long (see Netlist).         *)
ASSUME NameAssumption ==
    /\ IsFiniteSet(Wires \cup Cells) /\ Wires \cap Cells = {}
    /\ FFs \subseteq Cells
    /\ InPorts \cup OutPorts \subseteq Wires
    /\ None \notin Wires \cup Cells
    /\ \A x \in Wires \cup Cells : x \in Seq(STRING) /\ Len(x) = 1

(* The designs name their objects by kind, and the command has not seen    *)
(* them before.  A flip-flop has one output, and nothing inside a module   *)
(* drives a port that is only an input.                                    *)
ASSUME DesignAssumption == \A d \in Designs :
    /\ IsNetlist(d)
    /\ DOMAIN d.cells \subseteq Cells
    /\ DOMAIN d.wires \subseteq Wires
    /\ \A c \in DOMAIN d.cells :
          /\ IsDFF(d.cells[c]) <=> c \in FFs
          /\ c \in FFs => Len(d.cells[c].outs) = 1
          /\ d.cells[c].type # "voter"
          /\ d.cells[c].cone = NoCone /\ ~d.cells[c].original
    /\ \A w \in DOMAIN d.wires : d.wires[w].cone = NoCone /\ ~d.wires[w].original
    /\ \A w \in InPorts \ OutPorts :
          /\ \A c \in DOMAIN d.cells : \A s \in Range(d.cells[c].outs) : SigWire(s) # w
          /\ \A k \in d.conns : SigWire(k[1]) # w

NoAnalysis == <<>>

Init ==
    /\ netlist \in Designs
    /\ connections = NoAnalysis /\ signals = NoAnalysis /\ cellOutputs = NoAnalysis
    /\ outputs = {} /\ successors = <<>> /\ explored = {} /\ nextID = 0
    /\ autoidx = 0
    /\ errorSink = None
    /\ id = 0 /\ outputNode = None /\ frontier = <<>> /\ visited = {}
    /\ cone = <<>> /\ inputNodes = <<>> /\ voterCutPoint = None /\ first = TRUE
    /\ replicated = {}
    /\ fixConnections = NoAnalysis /\ fixTodo = {}
    /\ stage = "start"

Fail ==
    /\ stage' = "failed"
    /\ UNCHANGED <<netlist, analysisVars, queueVars, autoidx, errorSink,
                   coneVars, fixVars>>

-----------------------------------------------------------------------------
(* execute() up to the first loop.                                         *)

Sinks == {w \in DOMAIN netlist.wires : netlist.wires[w].sink}

(* locateErrorSink.                                                        *)
DuplicateErrorSink ==
    /\ stage = "start" /\ Cardinality(Sinks) > 1
    /\ Fail

MarkMemoriesIgnored(cells) ==
    [c \in DOMAIN cells |->
        [cells[c] EXCEPT !.ignore = @ \/ cells[c].type = "mem"]]

(* Mutant: a sink found by an earlier command is kept.                     *)
PrepareKeepingSink ==
    /\ stage = "start" /\ Cardinality(Sinks) <= 1
    /\ errorSink' = IF Sinks = {} THEN errorSink ELSE CHOOSE w \in Sinks : TRUE
    /\ netlist' = [netlist EXCEPT !.cells = MarkMemoriesIgnored(@)]
    /\ connections' = AnalyseConnections(netlist'.cells, netlist'.wires, netlist'.conns)
    /\ signals' = AnalyseSignals(netlist'.cells, netlist'.wires, netlist'.conns)
    /\ cellOutputs' = AnalyseCellOutputs(netlist'.cells)
    /\ outputs' = DOMAIN netlist.wires \cap OutPorts
    /\ stage' = "next"
    /\ UNCHANGED <<successors, explored, nextID, autoidx, coneVars, fixVars>>

Prepare ==
    /\ stage = "start" /\ Cardinality(Sinks) <= 1
    /\ errorSink' = IF Sinks = {} THEN None ELSE CHOOSE w \in Sinks : TRUE
    /\ netlist' = [netlist EXCEPT !.cells = MarkMemoriesIgnored(@)]
    /\ connections' = AnalyseConnections(netlist'.cells, netlist'.wires, netlist'.conns)
    /\ signals' = AnalyseSignals(netlist'.cells, netlist'.wires, netlist'.conns)
    /\ cellOutputs' = AnalyseCellOutputs(netlist'.cells)
    /\ outputs' = DOMAIN netlist.wires \cap OutPorts
    /\ stage' = "next"
    /\ UNCHANGED <<successors, explored, nextID, autoidx, coneVars, fixVars>>

-----------------------------------------------------------------------------
(* The two loops: LogicCone(output), LogicCone(ff) and their search.       *)

Begin(root, coneID) ==
    /\ id' = coneID
    /\ outputNode' = root
    /\ frontier' = <<root>>
    /\ visited' = {}
    /\ cone' = <<>>
    /\ inputNodes' = <<>>
    /\ voterCutPoint' = None
    /\ first' = TRUE
    /\ replicated' = {}
    /\ stage' = "search"

(* Mutant: the sink is passed over, but remains to be visited.             *)
SkipErrorSinkAgain ==
    /\ stage = "next"
    /\ \E o \in outputs : netlist.wires[o].sink
    /\ UNCHANGED vars

SkipErrorSink ==
    /\ stage = "next"
    /\ \E o \in outputs :
          /\ netlist.wires[o].sink
          /\ outputs' = outputs \ {o}
    /\ UNCHANGED <<netlist, analysisVars, successors, explored, nextID, autoidx,
                   errorSink, coneVars, fixVars, stage>>

BeginOutput ==
    /\ stage = "next"
    /\ \E o \in outputs :
          /\ ~netlist.wires[o].sink
          /\ outputs' = outputs \ {o}
          /\ Begin(o, nextID)
    /\ nextID' = nextID + 1
    /\ UNCHANGED <<netlist, analysisVars, successors, explored, autoidx, errorSink,
                   fixVars>>

(* Mutant: the queue is not popped.                                        *)
BeginSuccessorWithoutPop ==
    /\ stage = "next" /\ outputs = {} /\ successors # <<>>
    /\ Begin(Head(successors).root, Head(successors).id)
    /\ UNCHANGED <<netlist, analysisVars, queueVars, autoidx, errorSink, fixVars>>

(* A successor got its id when it was queued.                              *)
BeginSuccessor ==
    /\ stage = "next" /\ outputs = {} /\ successors # <<>>
    /\ Begin(Head(successors).root, Head(successors).id)
    /\ successors' = Tail(successors)
    /\ UNCHANGED <<netlist, analysisVars, outputs, explored, nextID, autoidx,
                   errorSink, fixVars>>

Search ==
    /\ stage = "search" /\ CS!Next
    /\ UNCHANGED <<netlist, signals, cellOutputs, queueVars, autoidx, errorSink,
                   id, replicated, fixVars, stage>>

(* replicate() and wire() both return at once on an empty cone.            *)
SkipEmptyCone ==
    /\ stage = "search" /\ CS!Completed /\ cone = <<>>
    /\ stage' = "expand"
    /\ UNCHANGED <<netlist, analysisVars, queueVars, autoidx, errorSink, coneVars,
                   fixVars>>

-----------------------------------------------------------------------------
(* LogicCone::replicate.                                                   *)

(* The cone, its input nodes and its root; ports are not replicated.       *)
ToReplicate ==
    {n \in Range(cone) \cup Range(inputNodes) \cup {outputNode} : ~CS!IsIO(n)}

(* The names of the replicas of all objects of S.                          *)
Copies(S, coneID) == {Replica(x, r, coneID) : x \in S, r \in {1, 2}}

(* Mutant: the original is marked, but not annotated with its cone.        *)
WithReplicasUnannotated(objs, S, coneID) ==
    [x \in DOMAIN objs \cup Copies(S, coneID) |->
        IF x \in Copies(S, coneID) THEN [objs[OriginalOf(x)] EXCEPT !.cone = coneID]
        ELSE IF x \in S THEN [objs[x] EXCEPT !.original = TRUE]
        ELSE objs[x]]

(* The replicas are copies of the object as it stands, connections         *)
(* included.                                                               *)
WithReplicas(objs, S, coneID) ==
    [x \in DOMAIN objs \cup Copies(S, coneID) |->
        IF x \in Copies(S, coneID) THEN [objs[OriginalOf(x)] EXCEPT !.cone = coneID]
        ELSE IF x \in S THEN [objs[x] EXCEPT !.cone = coneID, !.original = TRUE]
        ELSE objs[x]]

(* An object that some cone has already annotated is left alone, and its   *)
(* node in this cone gets no replicas.  The root has a node of its own,    *)
(* that never is the cut point.                                            *)
Replicate ==
    /\ stage = "search" /\ CS!Completed /\ cone # <<>>
    /\ LET fresh == {n \in ToReplicate : ~Annotated(netlist, n)} IN
          /\ netlist' = [netlist EXCEPT !.cells = WithReplicas(@, fresh \cap Cells, id),
                                        !.wires = WithReplicas(@, fresh \cap Wires, id)]
          /\ replicated' = fresh \cap (Range(cone) \cup Range(inputNodes))
    /\ stage' = "wire"
    /\ UNCHANGED <<analysisVars, queueVars, autoidx, errorSink, id, outputNode,
                   frontier, visited, cone, inputNodes, voterCutPoint, first, fixVars>>

-----------------------------------------------------------------------------
(* LogicCone::wire and LogicCone::insertVoter.                             *)

(* extractReplicaWire on a cell: its one output port is ripped off the     *)
(* wire it drove and put on a new wire, named by n.                        *)
RipWire(n) == <<"$eRW", n>>

Rip(m, c, n) ==
    LET width == Len(m.cells[c].outs[1])
    IN  [m EXCEPT !.wires = With(@, RipWire(n), NewWire(width)),
                  !.cells[c].outs = <<Whole(RipWire(n), width)>>]

(* Mutants: out_w comes last; the cut point is not ripped again for c_w.   *)
RipCutPointOutLast(m, cut, n) ==
    LET a == Rip(m, Replica(cut, 1, id), n + 1)
        b == Rip(a, Replica(cut, 2, id), n + 2)
        c == Rip(b, cut, n + 3)
    IN  Rip(c, cut, n)

RipCutPointOnce(m, cut, n) ==
    LET out == Rip(m, cut, n)
        a   == Rip(out, Replica(cut, 1, id), n + 1)
    IN  Rip(a, Replica(cut, 2, id), n + 2)

(* out_w comes first: the cut point's own port is ripped a second time for *)
(* c_w, which leaves out_w for the voter to drive.                         *)
RipCutPoint(m, cut, n) ==
    LET out == Rip(m, cut, n)
        a   == Rip(out, Replica(cut, 1, id), n + 1)
        b   == Rip(a, Replica(cut, 2, id), n + 2)
    IN  Rip(b, cut, n + 3)

(* VoterBuilder::build on the four wires numbered n to n + 3.              *)
ErrWire(n) == <<"$err", n>>

AddVoter(m, n, width) ==
    LET voter == [type |-> "voter",
                  ins  |-> [k \in 1..3 |-> Whole(RipWire(n + k), width)],
                  outs |-> <<Whole(RipWire(n), width), Whole(ErrWire(n), 1)>>,
                  cone |-> NoCone, original |-> FALSE, ignore |-> FALSE]
    IN  [m EXCEPT !.cells = With(@, <<"$voter", n>>, voter),
                  !.wires = With(@, ErrWire(n), NewWire(1))]

(* extractReplicaWire on the root: a port is itself, a flip-flop is ripped *)
(* off its output wire.                                                    *)
ExtractRoot(m, n) == IF outputNode \in FFs THEN Rip(m, outputNode, n) ELSE m
RootWire(n) == IF outputNode \in FFs THEN RipWire(n) ELSE outputNode

(* Mutant: regular wiring, whatever is attached to the root.               *)
VoterTargetWhole(m, n) ==
    Whole(RootWire(n), m.wires[RootWire(n)].width)

(* What the voter's output is connected to: the whole root wire, or, if    *)
(* several signals were attached to it, the one the cut point drove.  Both *)
(* are looked up in the analysis of the untouched netlist.                 *)
VoterTarget(m, n) ==
    IF RootWire(n) \in DOMAIN signals /\ Cardinality(signals[RootWire(n)]) > 1
    THEN CHOOSE s \in cellOutputs[voterCutPoint] : TRUE
    ELSE Whole(RootWire(n), m.wires[RootWire(n)].width)

CutWidth == Len(netlist.cells[voterCutPoint].outs[1])

Spliced ==
    ExtractRoot(AddVoter(RipCutPoint(netlist, voterCutPoint, autoidx),
                         autoidx, CutWidth),
                autoidx + 4)

(* The cell has one output port, and module->connect gets equal widths.    *)
CanSplice ==
    /\ Len(netlist.cells[voterCutPoint].outs) = 1
    /\ Len(VoterTarget(Spliced, autoidx + 4)) = CutWidth

CutPointNotSet ==
    /\ stage = "wire" /\ voterCutPoint = None
    /\ Fail

CutPointNotReplicated ==
    /\ stage = "wire" /\ voterCutPoint # None /\ voterCutPoint \notin replicated
    /\ Fail

CannotSplice ==
    /\ stage = "wire" /\ voterCutPoint \in replicated /\ ~CanSplice
    /\ Fail

InsertVoter ==
    /\ stage = "wire" /\ voterCutPoint \in replicated /\ CanSplice
    /\ netlist' = [Spliced EXCEPT !.conns = @ \cup
            {<<VoterTarget(Spliced, autoidx + 4), Whole(RipWire(autoidx), CutWidth)>>}]
    /\ autoidx' = autoidx + 5
    /\ fixConnections' = AnalyseConnections(netlist'.cells, netlist'.wires, netlist'.conns)
    /\ fixTodo' = Candidates(netlist', fixConnections')
    /\ stage' = "fix"
    /\ UNCHANGED <<analysisVars, queueVars, errorSink, coneVars>>

-----------------------------------------------------------------------------
(* FixWalkerManager::execute, one candidate wire per step, in any order.   *)

FixWire(n) == <<"$fix", n>>

(* MultiDriverFixer::rewire: a pair of cells for each of the two replicas. *)
Rewire ==
    /\ stage = "fix"
    /\ \E w \in fixTodo :
       LET lhs == fixConnections[w]
           rhs == InverseLookup(fixConnections, w)
       IN  \E l1, l2 \in lhs, r1, r2 \in rhs :
              /\ IsReplica(l1, 1) /\ IsReplica(r1, 1)
              /\ IsReplica(l2, 2) /\ IsReplica(r2, 2)
              /\ CanReconnect(netlist, w, l1, r1) /\ CanReconnect(netlist, w, l2, r2)
              /\ netlist' = Reconnect(Reconnect(netlist, w, l1, r1, FixWire(autoidx)),
                                      w, l2, r2, FixWire(autoidx + 1))
              /\ fixTodo' = fixTodo \ {w}
    /\ autoidx' = autoidx + 2
    /\ UNCHANGED <<analysisVars, queueVars, errorSink, coneVars, fixConnections, stage>>

(* One of them is missing, is a wire, or is no longer on the candidate.    *)
CannotRewire ==
    /\ stage = "fix"
    /\ \E w \in fixTodo, r \in {1, 2} :
          LET lhs == {x \in fixConnections[w] : IsReplica(x, r)}
              rhs == {x \in InverseLookup(fixConnections, w) : IsReplica(x, r)}
          IN  \/ lhs = {} \/ rhs = {}
              \/ \E l \in lhs, q \in rhs : ~CanReconnect(netlist, w, l, q)
    /\ Fail

FixesDone ==
    /\ stage = "fix" /\ fixTodo = {}
    /\ fixConnections' = NoAnalysis
    /\ stage' = "expand"
    /\ UNCHANGED <<netlist, analysisVars, queueVars, autoidx, errorSink, coneVars,
                   fixTodo>>

-----------------------------------------------------------------------------
(* LogicCone::buildSuccessors.  As a node found is explored at once, none  *)
(* is found twice; as inputNodes holds one node at most, the order in      *)
(* which they are found makes no difference.                               *)

(* Mutants: explored nodes are queued again; the cone is looked through    *)
(* instead of its input nodes; the cone counter stands still.              *)
IsSuccessorAgain(n) == n \in DOMAIN connections

IsSuccessor(n) == n \in DOMAIN connections /\ n \notin explored
BuildSuccessorsOfCone ==
    /\ stage = "expand"
    /\ \E found \in CS!Orderings({n \in Range(cone) : IsSuccessor(n)}) :
          /\ successors' = successors \o
                 [k \in DOMAIN found |-> [root |-> found[k], id |-> nextID + k - 1]]
          /\ explored' = explored \cup Range(found)
          /\ nextID' = nextID + Len(found)
    /\ stage' = "next"
    /\ UNCHANGED <<netlist, analysisVars, outputs, autoidx, errorSink, coneVars, fixVars>>

BuildSuccessorsSameID ==
    /\ stage = "expand"
    /\ \E found \in CS!Orderings({n \in Range(inputNodes) : IsSuccessor(n)}) :
          /\ successors' = successors \o
                 [k \in DOMAIN found |-> [root |-> found[k], id |-> nextID]]
          /\ explored' = explored \cup Range(found)
    /\ stage' = "next"
    /\ UNCHANGED <<netlist, analysisVars, outputs, nextID, autoidx, errorSink, coneVars,
                   fixVars>>

BuildSuccessors ==
    /\ stage = "expand"
    /\ \E found \in CS!Orderings({n \in Range(inputNodes) : IsSuccessor(n)}) :
          /\ successors' = successors \o
                 [k \in DOMAIN found |-> [root |-> found[k], id |-> nextID + k - 1]]
          /\ explored' = explored \cup Range(found)
          /\ nextID' = nextID + Len(found)
    /\ stage' = "next"
    /\ UNCHANGED <<netlist, analysisVars, outputs, autoidx, errorSink, coneVars, fixVars>>

-----------------------------------------------------------------------------
(* The end of execute().                                                   *)

Voters == {c \in DOMAIN netlist.cells : netlist.cells[c].type = "voter"}

Finished == stage = "next" /\ outputs = {} /\ successors = <<>>

(* VoterBuilder::finalise: the OR of all err wires drives the sink.        *)
SinkCell == <<"$or", autoidx>>

(* Mutant: only one voter is listened to.                                  *)
SinkOne ==
    [type |-> "or",
     ins  |-> <<netlist.cells[CHOOSE v \in Voters : TRUE].outs[2]>>,
     outs |-> <<Whole(errorSink, 1)>>,
     cone |-> NoCone, original |-> FALSE, ignore |-> FALSE]

SinkOr ==
    [type |-> "or",
     ins  |-> SetToSeq({netlist.cells[v].outs[2] : v \in Voters}),
     outs |-> <<Whole(errorSink, 1)>>,
     cone |-> NoCone, original |-> FALSE, ignore |-> FALSE]

CanFinalise == Voters # {} /\ netlist.wires[errorSink].width = 1

Finalise ==
    /\ Finished /\ errorSink # None /\ CanFinalise
    /\ netlist' = [netlist EXCEPT !.cells = With(@, SinkCell, SinkOr)]
    /\ autoidx' = autoidx + 1
    /\ stage' = "done"
    /\ UNCHANGED <<analysisVars, queueVars, errorSink, coneVars, fixVars>>

CannotFinalise ==
    /\ Finished /\ errorSink # None /\ ~CanFinalise
    /\ Fail

FinishWithoutSink ==
    /\ Finished /\ errorSink = None
    /\ stage' = "done"
    /\ UNCHANGED <<netlist, analysisVars, queueVars, autoidx, errorSink, coneVars,
                   fixVars>>

-----------------------------------------------------------------------------

Next ==
    \/ DuplicateErrorSink \/ Prepare
    \/ SkipErrorSink \/ BeginOutput \/ BeginSuccessor
    \/ Search \/ SkipEmptyCone \/ Replicate
    \/ CutPointNotSet \/ CutPointNotReplicated \/ CannotSplice \/ InsertVoter
    \/ Rewire \/ CannotRewire \/ FixesDone
    \/ BuildSuccessors
    \/ Finalise \/ CannotFinalise \/ FinishWithoutSink

(* The command is one sequential call: it goes on while it can.            *)
Fairness == WF_vars(Next)

Spec == Init /\ [][Next]_vars /\ Fairness

-----------------------------------------------------------------------------
(* Properties.                                                             *)

(* Control, queues and bookkeeping stay in their types, and only objects   *)
(* of the design are ever queued, searched from or replicated.  The        *)
(* analysis has the shape that ConeSearch assumes of it.                   *)
TypeOK ==
    /\ stage \in Stages
    /\ outputs \subseteq OutPorts
    /\ successors \in Seq([root : FFs \cup InPorts \cup OutPorts, id : Nat])
    /\ explored \subseteq FFs \cup InPorts \cup OutPorts
    /\ {nextID, autoidx, id} \subseteq Nat
    /\ errorSink \in Wires \cup {None}
    /\ outputNode \in OutPorts \cup FFs \cup {None}
    /\ replicated \subseteq Cells \cup Wires
    /\ fixTodo \subseteq DOMAIN netlist.wires
    /\ CS!LC!IsConnectionMap(connections)

Objects(m) == [x \in DOMAIN m.cells \cup DOMAIN m.wires |->
                  IF x \in DOMAIN m.cells THEN m.cells[x] ELSE m.wires[x]]

(* Replication is triple, whatever the overlap of the cones: an annotated  *)
(* original has exactly two replicas, both of its own cone, and nothing    *)
(* else of the design has any.                                             *)
ReplicaPairs ==
    LET objs == Objects(netlist)
        ReplicasOf(x) == {y \in DOMAIN objs : Len(y) = 3 /\ OriginalOf(y) = x}
    IN  \A x \in {y \in DOMAIN objs : Len(y) = 1} :
            IF objs[x].original
            THEN /\ ReplicasOf(x) = {Replica(x, r, objs[x].cone) : r \in {1, 2}}
                 /\ \A y \in ReplicasOf(x) : objs[y].cone = objs[x].cone
            ELSE ReplicasOf(x) = {} /\ objs[x].cone = NoCone

(* A command is at work on its design.                                     *)
Running == stage \notin {"done", "failed"}

(* The first cone to replicate an object keeps it: no later cone ever      *)
(* annotates it anew.                                                      *)
FirstConeWins ==
    [][Running =>
          \A x \in DOMAIN Objects(netlist) :
             Objects(netlist)[x].cone # NoCone =>
                Objects(netlist)'[x].cone = Objects(netlist)[x].cone]_vars

(* Rip-up and fixing only ever take the inputs of replicas elsewhere: what *)
(* the user's own cells read is never rewired.                             *)
OriginalsKeepInputs ==
    [][Running =>
          \A c \in DOMAIN netlist.cells :
             Len(c) = 1 => netlist'.cells[c].ins = netlist.cells[c].ins]_vars

(* The cells that drive the net of a signal.                               *)
DriversOfSignal(m, sig) == NetDrivers(Net(Range(sig), m.conns), m.cells)

(* A voter is born on the three copies of one cell: each input net has one *)
(* driver, and they are the two replicas and the original.  Its output     *)
(* wire has no driver but itself.                                          *)
VoterOnTriple ==
    [][\A v \in DOMAIN netlist'.cells \ DOMAIN netlist.cells :
          Running /\ netlist'.cells[v].type = "voter" =>
             /\ \A k \in 1..3 :
                   DriversOfSignal(netlist', netlist'.cells[v].ins[k]) =
                      {<<Replica(voterCutPoint, 1, netlist'.cells[voterCutPoint].cone),
                         Replica(voterCutPoint, 2, netlist'.cells[voterCutPoint].cone),
                         voterCutPoint>>[k]}
             /\ \A c \in DOMAIN netlist'.cells \ {v} :
                   netlist'.cells[v].outs[1] \notin Range(netlist'.cells[c].outs)]_vars

(***************************************************************************)
(* The result, for designs in which a gate has one reader and an output    *)
(* one driver.                                                             *)
(***************************************************************************)

Done == stage = "done"

(* No step meets what it cannot deal with: no log_error, assertion or      *)
(* wrong variant ends the command with the netlist half rewired.           *)
NeverGivesUp == stage # "failed"

UsedBits == UNION {UNION {Range(s) : s \in Range(netlist.cells[c].ins)} :
                     c \in DOMAIN netlist.cells}
            \cup UNION {Range(Whole(o, netlist.wires[o].width)) :
                           o \in DOMAIN netlist.wires \cap OutPorts}

(* What gives a net its value: cells, input ports, a constant.             *)
SourceCount(net) ==
    Cardinality(NetDrivers(net, netlist.cells))
        + Cardinality({b \in net : b = Constant \/ b[1] \in InPorts})

(* What `check -assert` demands after the command: no net that is read is  *)
(* left without a driver or has two.                                       *)
CheckPasses == Done => \A b \in UsedBits : SourceCount(Net({b}, netlist.conns)) = 1

FanInOf(sig) ==
    {c \in FanIn(Range(sig), netlist.cells, netlist.conns) : ~netlist.cells[c].ignore}

(* The three inputs of a voter are computed by disjoint sets of cells, the *)
(* second and third being the first's copies: no one cell's fault reaches  *)
(* two inputs, and all three compute the same function.                    *)
CopiesIndependent ==
    Done => \A v \in Voters :
        LET Behind(k) == FanInOf(netlist.cells[v].ins[k]) IN
            /\ \A r \in {1, 2} :
                  /\ \A c \in Behind(r) : IsReplica(c, r)
                  /\ {OriginalOf(c) : c \in Behind(r)} = Behind(3)
            /\ \A c \in Behind(3) : netlist.cells[c].original

(* Nothing reaches an output around a voter: an output bit that cells      *)
(* drove is now driven by a voter.                                         *)
OutputsVoted ==
    Done => \A o \in DOMAIN netlist.wires \cap OutPorts : ~netlist.wires[o].sink =>
        \A b \in Range(Whole(o, netlist.wires[o].width)) :
            LET drivers == NetDrivers(Net({b}, netlist.conns), netlist.cells) IN
                drivers \subseteq Voters /\ (drivers = {} => Constant \in Net({b}, netlist.conns))

(***************************************************************************)
(* What the code and its tests expect of every design.                     *)
(***************************************************************************)

(* log_assert(replicas.size() == 2 && "Expected 2 replicas") in            *)
(* LogicCone::wire.                                                        *)
ExpectedTwoReplicas ==
    stage = "wire" /\ voterCutPoint # None => voterCutPoint \in replicated
=============================================================================
