------------------------------ MODULE Circuit ------------------------------
(***************************************************************************)
(* What a netlist computes, one clock cycle at a time.                     *)
(*                                                                         *)
(* All cell outputs are one bit wide here.  A gate computes the negated    *)
(* parity of its inputs, so that a wrong input always shows at the output: *)
(* no fault is hidden by the logic that reads it.  A voter is the gates of *)
(* module Voter.                                                           *)
(*                                                                         *)
(* The specification is that of a netlist without faults.  It is what the  *)
(* fault injection tests call gold.                                        *)
(***************************************************************************)
EXTENDS Netlist, Voter, SequencesExt

CONSTANTS InPorts, OutPorts

(* Where a bit comes from: an output of a cell, an input port, a constant. *)
Source(m, b) ==
    LET net == Net({b}, m.conns)
        drivers == {<<"cell", c, p>> : <<c, p>> \in
            {x \in (DOMAIN m.cells) \X (1..2) :
                /\ x[2] \in DOMAIN m.cells[x[1]].outs
                /\ Range(m.cells[x[1]].outs[x[2]]) \cap net # {}}}
        ports   == {<<"port", x>> : x \in {y \in net : y # Constant /\ y[1] \in InPorts}}
    IN  IF drivers \cup ports = {} THEN <<"constant">>
        ELSE CHOOSE s \in drivers \cup ports : TRUE

PortBits(m, sink) ==
    UNION {Range(Whole(o, m.wires[o].width)) :
              o \in {p \in DOMAIN m.wires \cap OutPorts : m.wires[p].sink = sink}}

(* A netlist, with every cell's inputs resolved to their sources.  The     *)
(* clock of a flip-flop is left out.                                       *)
Resolve(m) ==
    [cells |-> [c \in DOMAIN m.cells |->
                  LET bits == IF IsDFF(m.cells[c]) THEN m.cells[c].ins[1]
                              ELSE FlattenSeq(m.cells[c].ins)
                  IN  [type |-> m.cells[c].type,
                       ins  |-> [k \in DOMAIN bits |-> Source(m, bits[k])]]],
     outputs |-> [b \in PortBits(m, FALSE) |-> Source(m, b)],
     sinks   |-> [b \in PortBits(m, TRUE) |-> Source(m, b)]]

NotBuilt == [cells |-> <<>>, outputs |-> <<>>, sinks |-> <<>>]

FlipFlops(n) == {c \in DOMAIN n.cells : n.cells[c].type = "dff"}

InputBits(n) ==
    {s[2] : s \in {x \in UNION {Range(n.cells[c].ins) : c \in DOMAIN n.cells} : x[1] = "port"}}
    \cup {s[2] : s \in {x \in Range(n.outputs) : x[1] = "port"}}

Even(bits) == Cardinality({k \in DOMAIN bits : bits[k]}) % 2 = 0

(* What a cell puts on its outputs.                                        *)
CellOutputs(type, ins, stored) ==
    CASE type = "dff"   -> <<stored>>
      [] type = "voter" -> <<Gates(ins[1], ins[2], ins[3]).out,
                             Gates(ins[1], ins[2], ins[3]).err>>
      [] type = "or"    -> <<\E k \in DOMAIN ins : ins[k]>>
      [] OTHER          -> <<Even(ins)>>

SourceValue(s, in, vals) ==
    CASE s[1] = "cell"     -> vals[s[2]][s[3]]
      [] s[1] = "port"     -> in[s[2]]
      [] s[1] = "constant" -> FALSE

(* The values on all cell outputs, while the cell `upset` (if it is one)   *)
(* has its first output flipped.                                           *)
Values(n, state, in, upset) ==
    LET vals[c \in DOMAIN n.cells] ==
            LET cell == n.cells[c]
                ins  == IF cell.type = "dff" THEN <<>>
                        ELSE [k \in DOMAIN cell.ins |-> SourceValue(cell.ins[k], in, vals)]
                outs == CellOutputs(cell.type, ins,
                                    IF cell.type = "dff" THEN state[c] ELSE FALSE)
            IN  IF c = upset THEN [outs EXCEPT ![1] = ~@] ELSE outs
    IN  vals

(* What leaves the netlist, and what the flip-flops take over at the edge. *)
Outputs(n, state, in, upset) ==
    LET vals == Values(n, state, in, upset) IN
        [b \in DOMAIN n.outputs |-> SourceValue(n.outputs[b], in, vals)]

NextState(n, state, in, upset) ==
    LET vals == Values(n, state, in, upset) IN
        [c \in FlipFlops(n) |-> SourceValue(n.cells[c].ins[1], in, vals)]

-----------------------------------------------------------------------------

CONSTANT NoUpset

VARIABLES
    design,     \* the netlist, resolved
    running,    \* whether power is on
    state,      \* contents of the flip-flops
    in, out     \* values of the ports

Settle ==
    /\ in' \in [InputBits(design) -> BOOLEAN]
    /\ out' = Outputs(design, state', in', NoUpset)
    /\ UNCHANGED design

Init ==
    /\ running = FALSE
    /\ state = <<>> /\ in = <<>> /\ out = <<>>

PowerUp ==
    /\ ~running /\ running' = TRUE
    /\ state' \in [FlipFlops(design) -> BOOLEAN]
    /\ Settle

Cycle ==
    /\ running /\ UNCHANGED running
    /\ state' = NextState(design, state, in, NoUpset)
    /\ Settle

Next == PowerUp \/ Cycle

Spec == Init /\ [][Next]_<<design, running, state, in, out>>
=============================================================================
