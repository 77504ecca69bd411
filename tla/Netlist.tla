------------------------------ MODULE Netlist ------------------------------
(***************************************************************************)
(* The netlist TaMaRa works on, and how src/util.cpp reads it.             *)
(*                                                                         *)
(* A module is a function `cells` and a function `wires` from names to     *)
(* records, and a set `conns` of connected signals:                        *)
(*   cells[c] = [type, ins, outs, cone, original, ignore]                  *)
(*   wires[w] = [width, sink, cone, original, ignore]                      *)
(*   <<lhs, rhs>> \in conns                                                *)
(* ins and outs list the signals on the cell's input and output ports.  A  *)
(* signal is a sequence of bits; a bit is <<wire, index>>, or <<>> if it   *)
(* is constant.  cone, original, ignore and sink are the tamara_cone,      *)
(* tamara_original, tamara_ignore and tamara_error_sink attributes.        *)
(*                                                                         *)
(* A name is a sequence: <<"x">> for an object of the user's design,       *)
(* <<"x", r, id>> for its replica r in cone id, <<"$eRW", n>> and          *)
(* <<"$fix", n>> for the n-th names generated by tamaraId.                 *)
(***************************************************************************)
EXTENDS Naturals, Sequences, FiniteSets, Functions

CONSTANT
    NoCone  \* the tamara_cone attribute is absent

ASSUME NoConeAssumption == NoCone \notin Nat

(* The objects with one more (or one replaced).                            *)
With(objs, name, obj) ==
    [x \in DOMAIN objs \cup {name} |-> IF x = name THEN obj ELSE objs[x]]

NoWire == <<>>

Constant == <<>>

(* A module as RTLIL keeps it: signals are on wires of the module, and     *)
(* module->connect only takes two signals of equal width.                  *)
Signals(wires) == Seq({Constant} \cup (wires \X Nat))

(* A string; the types of the cells TaMaRa adds are spelled out for the    *)
(* provers.                                                                *)
CellTypes == STRING \cup {"voter", "or"}

CellRecords(wires) ==
    [type : CellTypes, ins : Seq(Signals(wires)), outs : Seq(Signals(wires)),
     cone : Nat \cup {NoCone}, original : BOOLEAN, ignore : BOOLEAN]

WireRecords ==
    [width : Nat, sink : BOOLEAN, cone : Nat \cup {NoCone},
     original : BOOLEAN, ignore : BOOLEAN]

IsNetlist(m) ==
    LET wires == DOMAIN m.wires IN
        /\ m \in [cells : [DOMAIN m.cells -> CellRecords(wires)],
                  wires : [wires -> WireRecords],
                  conns : SUBSET (Signals(wires) \X Signals(wires))]
        /\ \A k \in m.conns : Len(k[1]) = Len(k[2])
        /\ IsFiniteSet(DOMAIN m.cells) /\ IsFiniteSet(m.conns)

(* The signal that is the whole of a wire.                                 *)
Whole(w, width) == [k \in 1..width |-> <<w, k - 1>>]

(* sigSpecToWire: the wire of the signal's first chunk, whatever the rest  *)
(* of the signal is; a null pointer if that chunk is constant.             *)
SigWire(sig) ==
    IF sig = <<>> \/ sig[1] = Constant THEN NoWire ELSE sig[1][1]

IsDFF(cell) == cell.type = "dff"

(* shouldConsiderForTMR.                                                   *)
Considered(obj) == ~obj.ignore

-----------------------------------------------------------------------------

(* The first half of analyseConnections' result: what lies behind each     *)
(* object.  Behind a wire are the cells with an output on it, and the      *)
(* wires connected to it; behind a cell are the wires it reads.            *)
WiresBehind(c, cells) == {SigWire(s) : s \in Range(cells[c].ins)} \ {NoWire}

DriversOf(w, cells, wires, conns) ==
    {c \in DOMAIN cells : /\ Considered(cells[c])
                          /\ w \in {SigWire(s) : s \in Range(cells[c].outs)}}
    \cup
    {SigWire(k[2]) : k \in {l \in conns :
        /\ SigWire(l[1]) = w /\ SigWire(l[2]) # NoWire
        /\ Considered(wires[w]) /\ Considered(wires[SigWire(l[2])])}}

AnalyseConnections(cells, wires, conns) ==
    LET behind == [x \in {c \in DOMAIN cells : Considered(cells[c])} \cup DOMAIN wires |->
                      IF x \in DOMAIN cells
                      THEN WiresBehind(x, cells)
                      ELSE DriversOf(x, cells, wires, conns)]
    IN  [x \in {y \in DOMAIN behind : behind[y] # {}} |-> behind[x]]

(* The second half, for wires: the signals attached to each wire.          *)
SignalsOf(w, cells, conns) ==
    UNION {{s \in Range(cells[c].outs) : SigWire(s) = w} :
              c \in {d \in DOMAIN cells : Considered(cells[d])}}
    \cup
    {k[2] : k \in {l \in conns : SigWire(l[1]) = w}}

AnalyseSignals(cells, wires, conns) ==
    [w \in DOMAIN wires |-> SignalsOf(w, cells, conns)]

(* analyseCellOutputs.                                                     *)
AnalyseCellOutputs(cells) == [c \in DOMAIN cells |-> Range(cells[c].outs)]

(* rtlilInverseLookup: the objects that have the wire behind them.         *)
InverseLookup(connections, w) == {x \in DOMAIN connections : w \in connections[x]}

-----------------------------------------------------------------------------
(* What a netlist means.  A connection makes two signals the same net, in  *)
(* either direction, as Yosys' SigMap does.                                *)

(* Bits connected, directly or through other connections, to those of B.   *)
Net(B, conns) ==
    LET Touched(k, S) == {n \in DOMAIN k[1] : k[1][n] \in S \/ k[2][n] \in S}
        Step(S) == S \cup
            UNION {UNION {{k[1][n], k[2][n]} : n \in Touched(k, S)} : k \in conns}
        Grow[n \in 0..Cardinality(conns)] ==
            IF n = 0 THEN B ELSE Step(Grow[n - 1])
    IN  Grow[Cardinality(conns)]

(* The cells that drive a net.                                             *)
NetDrivers(net, cells) ==
    {c \in DOMAIN cells : \E s \in Range(cells[c].outs) : Range(s) \cap net # {}}

(* The cells a set of bits depends on.                                     *)
FanIn(B, cells, conns) ==
    LET Behind(S) == S \cup NetDrivers(Net(UNION {UNION {Range(s) : s \in Range(cells[c].ins)} : c \in S}, conns), cells)
        Grow[n \in 0..Cardinality(DOMAIN cells)] ==
            IF n = 0 THEN NetDrivers(Net(B, conns), cells) ELSE Behind(Grow[n - 1])
    IN  Grow[Cardinality(DOMAIN cells)]
=============================================================================
