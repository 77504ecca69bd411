----------------------------- MODULE FixWalker -----------------------------
(***************************************************************************)
(* MultiDriverFixer (src/fix_walker.cpp).  After a cone has been wired,    *)
(* its replicas still share the wires of the original: three drivers and   *)
(* three readers on one wire.  The fixer gives each replica a wire of its  *)
(* own.                                                                    *)
(*                                                                         *)
(* A netlist m is a record [cells, wires, conns]; see Netlist.             *)
(***************************************************************************)
EXTENDS Netlist, TLC

(* The r-th replica of an object, made for cone id.                        *)
Replica(x, r, id) == x \o <<r, id>>

OriginalOf(x) == <<x[1]>>

IsReplica(x, r) == Len(x) = 3 /\ x[2] = r

NewWire(width) ==
    [width |-> width, sink |-> FALSE, cone |-> NoCone, original |-> FALSE,
     ignore |-> FALSE]

(* Mutant: an original is never taken for one that was replicated.         *)
AnnotatedReplica(m, x) == Len(x) = 3

Annotated(m, x) ==
    IF x \in DOMAIN m.cells THEN m.cells[x].cone # NoCone
    ELSE m.wires[x].cone # NoCone

(* Mutant: a wire that one object reads, before replication.               *)
CandidatesUnreplicated(m, connections) ==
    {w \in DOMAIN m.wires \cap DOMAIN connections :
        LET readers == InverseLookup(connections, w) IN
            /\ Cardinality(readers) = 1
            /\ Cardinality(connections[w]) = 3
            /\ \A x \in connections[w] \cup readers : Annotated(m, x)}

(* processWire's conditions, on the analysis made when execute() began.    *)
(* Annotations do not change while the walker runs.                        *)
Candidates(m, connections) ==
    {w \in DOMAIN m.wires \cap DOMAIN connections :
        LET readers == InverseLookup(connections, w) IN
            /\ Cardinality(readers) = 3
            /\ Cardinality(connections[w]) = 3
            /\ \A x \in connections[w] \cup readers : Annotated(m, x)}

(* The ports among sigs that are on the wire.                              *)
PortsOn(sigs, w) == {p \in DOMAIN sigs : SigWire(sigs[p]) = w}

FirstPortOn(sigs, w) ==
    CHOOSE p \in PortsOn(sigs, w) : \A q \in PortsOn(sigs, w) : p <= q

(* reconnect finds what it needs: both ends are cells, on this very wire,  *)
(* and their ports are as wide as it, or Cell::check complains.            *)
CanReconnect(m, target, input, output) ==
    /\ {input, output} \subseteq DOMAIN m.cells
    /\ PortsOn(m.cells[input].outs, target) # {}
    /\ PortsOn(m.cells[output].ins, target) # {}
    /\ m.wires[target].width =
          Len(m.cells[input].outs[FirstPortOn(m.cells[input].outs, target)])
    /\ m.wires[target].width =
          Len(m.cells[output].ins[FirstPortOn(m.cells[output].ins, target)])

(* Mutants: the reader stays behind; the original is moved instead.        *)
ReconnectDriverOnly(m, target, input, output, name) ==
    LET new == Whole(name, m.wires[target].width)
        out == FirstPortOn(m.cells[input].outs, target)
    IN  [m EXCEPT !.wires = With(@, name, NewWire(m.wires[target].width)),
                  !.cells[input].outs[out] = new]

ReconnectOriginal(m, target, input, output, name) ==
    LET new == Whole(name, m.wires[target].width)
        out == FirstPortOn(m.cells[input].outs, target)
        in  == FirstPortOn(m.cells[output].ins, target)
    IN  [m EXCEPT !.wires = With(@, name, NewWire(m.wires[target].width)),
                  !.cells[input].outs[out] = new,
                  !.cells[OriginalOf(output)].ins[in] = new]

(* reconnect: a new wire, as wide as the target, from the driver to the    *)
(* first port of the reader that is on the target.                         *)
Reconnect(m, target, input, output, name) ==
    LET new == Whole(name, m.wires[target].width)
        out == FirstPortOn(m.cells[input].outs, target)
        in  == FirstPortOn(m.cells[output].ins, target)
    IN  [m EXCEPT !.wires = With(@, name, NewWire(m.wires[target].width)),
                  !.cells[input].outs[out] = new,
                  !.cells[output].ins[in] = new]
=============================================================================
