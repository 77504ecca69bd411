----------------------------- MODULE TmrSession -----------------------------
(***************************************************************************)
(* Several tamara_tmr commands in one Yosys process, each on a design that *)
(* was read in anew.  Of the state of a command only LogicCone's static    *)
(* members, the set of explored successors and the cone counter, and the   *)
(* counter behind generated names outlive it; the pass object, and with it *)
(* errorSink, does as well, but locateErrorSink resets it.                 *)
(***************************************************************************)
EXTENDS TmrPass

CONSTANT MaxRuns    \* bound: commands in a session

ASSUME MaxRuns \in Nat \ {0}

VARIABLES
    runs,       \* commands begun
    queued,     \* successors queued by this command
    cones       \* the cones begun in the session: [id, root, successor]

sessionVars == <<runs, queued, cones>>

InitSession == Init /\ runs = 1 /\ queued = {} /\ cones = {}

Begins == stage # "search" /\ stage' = "search"

(* A cone is that of an output port, which the first loop is done with, or *)
(* a successor.                                                            *)
Command ==
    /\ Next
    /\ queued' = queued \cup {s.root : s \in Range(successors')}
    /\ cones' = IF Begins
                THEN cones \cup {[id |-> id', root |-> outputNode',
                                  successor |-> outputs' = outputs]}
                ELSE cones
    /\ UNCHANGED runs

(* Another design is loaded and the command called again: what execute()   *)
(* and its cones kept in local variables and members is gone.              *)
Rerun ==
    /\ stage = "done" /\ runs < MaxRuns
    /\ runs' = runs + 1
    /\ netlist' \in Designs
    /\ connections' = NoAnalysis /\ signals' = NoAnalysis /\ cellOutputs' = NoAnalysis
    /\ outputs' = {} /\ successors' = <<>> /\ queued' = {}
    /\ id' = 0 /\ outputNode' = None /\ frontier' = <<>> /\ visited' = {}
    /\ cone' = <<>> /\ inputNodes' = <<>> /\ voterCutPoint' = None /\ first' = TRUE
    /\ replicated' = {}
    /\ fixConnections' = NoAnalysis /\ fixTodo' = {}
    /\ stage' = "start"
    /\ UNCHANGED <<explored, nextID, autoidx, errorSink, cones>>

NextSession == Command \/ Rerun

(* Whether there is another command is up to the user.                     *)
SpecSession ==
    InitSession /\ [][NextSession]_<<vars, sessionVars>>
                /\ WF_<<vars, sessionVars>>(Command)

-----------------------------------------------------------------------------

(* A command works on objects of its own design only, although names       *)
(* (explored) and a pointer (errorSink) are left from the one before.      *)
OwnObjects ==
    LET objects == DOMAIN netlist.cells \cup DOMAIN netlist.wires IN
        stage \notin {"start", "failed"} =>
            /\ errorSink = None <=> Sinks = {}
            /\ Range(frontier) \cup Range(cone) \cup Range(inputNodes)
                  \cup {outputNode, voterCutPoint, errorSink}
                  \cup {s.root : s \in Range(successors)} \subseteq objects \cup {None}

(* No id is given to two cones of a session: annotations and the names of  *)
(* replicas, which are made of ids, always tell their cones apart.         *)
ConeIDsUnique == \A c, d \in cones : c.id = d.id => c = d

(* A node is a successor once in a session, however many cones end at it   *)
(* and whether it is still queued or long explored.  So there are no more  *)
(* cones than output ports and nodes, which is why the second loop ends.   *)
OneConePerSuccessor ==
    LET successorCones == {[id |-> c.id, root |-> c.root] : c \in {d \in cones : d.successor}}
                             \cup Range(successors)
    IN  /\ Cardinality({c.root : c \in successorCones}) = Cardinality(successorCones)
        /\ \A i, j \in DOMAIN successors : successors[i] = successors[j] => i = j

(* Every command of the session comes to an end, feedback loops included.  *)
EveryRunEnds == stage = "start" ~> stage \in {"done", "failed"}

(* logic_graph.hpp says of buildSuccessors: "Builds a new logic cone that  *)
(* will continue the search onwards, or none if we're already at the       *)
(* input".  So a node that more logic lies behind has been queued by the   *)
(* command that came to it.                                                *)
SearchContinues ==
    stage = "next" => {n \in Range(inputNodes) : n \in DOMAIN connections} \subseteq queued
=============================================================================
