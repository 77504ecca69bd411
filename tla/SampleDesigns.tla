--------------------------- MODULE SampleDesigns ---------------------------
(***************************************************************************)
(* Small designs, each (but Aliases) as it stands after prep, splitcells   *)
(* and splitnets.  Those named in comments are designs of tests/verilog.   *)
(***************************************************************************)
EXTENDS FixWalker, SequencesExt

(* Names: ports a, b (in), o, p, two-bit oo (out), err (the error sink);   *)
(* wires w, x, d, y; gates g, h, k; a memory; a submodule; flip-flops f, q.*)
Nm(s) == <<s>>
MCWires == {Nm(s) : s \in {"a", "b", "clk", "o", "p", "oo", "err", "err2",
                           "w", "x", "d", "y"}}
MCFFs == {Nm(s) : s \in {"f", "q"}}
MCCells == {Nm(s) : s \in {"g", "h", "k", "mem", "sub"}} \cup MCFFs
MCInPorts == {Nm("a"), Nm("b"), Nm("clk")}
MCOutPorts == {Nm("o"), Nm("p"), Nm("oo"), Nm("err"), Nm("err2")}

S(s) == Whole(Nm(s), 1)     \* a one-bit wire
Bit(s, k) == <<<<Nm(s), k>>>>   \* one bit of a wider wire
Cell(type, ins, outs) ==
    [type |-> type, ins |-> ins, outs |-> outs,
     cone |-> NoCone, original |-> FALSE, ignore |-> FALSE]
Gate(ins, out) == Cell("gate", ins, <<out>>)
DFF(d, q) == Cell("dff", <<d, S("clk")>>, <<q>>)

WireRec(s) ==
    [NewWire(IF s = "oo" THEN 2 ELSE 1) EXCEPT !.sink = s \in {"err", "err2"}]

Design(ws, cs, conns) ==
    [wires |-> [w \in {Nm(s) : s \in ws} |-> WireRec(w[1])],
     cells |-> [c \in {Nm(s) : s \in DOMAIN cs} |-> cs[c[1]]],
     conns |-> conns]

-----------------------------------------------------------------------------
(* One output bit, one reader for every gate: the designs the fixer is     *)
(* made for.                                                               *)

\* not_tmr
Not == Design({"a", "o", "err"}, "g" :> Gate(<<S("a")>>, S("o")), {})

\* two gates in a row
Chain == Design({"a", "w", "o", "err"},
    ("g" :> Gate(<<S("a")>>, S("w"))) @@ ("h" :> Gate(<<S("w")>>, S("o"))), {})

\* two gates into a third
Tree == Design({"a", "b", "w", "x", "o", "err"},
    ("g" :> Gate(<<S("a")>>, S("w"))) @@ ("h" :> Gate(<<S("b")>>, S("x")))
        @@ ("k" :> Gate(<<S("w"), S("x")>>, S("o"))), {})

\* two outputs with nothing in common
Pair == Design({"a", "b", "w", "o", "p", "err"},
    ("g" :> Gate(<<S("a")>>, S("w"))) @@ ("h" :> Gate(<<S("w")>>, S("o")))
        @@ ("k" :> Gate(<<S("b")>>, S("p"))), {})

\* a gate that reads a memory
ReadsMemory == Design({"a", "w", "o", "err"},
    ("mem" :> Cell("mem", <<S("a")>>, <<S("w")>>))
        @@ ("g" :> Gate(<<S("w"), S("a")>>, S("o"))), {})

\* not_swizzle_high: a constant on the upper bit
Swizzle == Design({"a", "oo", "err"}, "g" :> Gate(<<S("a")>>, Bit("oo", 0)),
    {<<Bit("oo", 1), <<Constant>>>>})

\* every arrangement of three gates, each read once: g drives w, h drives x,
\* k drives o
Triples ==
    {Design({"a", "b", "w", "x", "o", "err"},
        ("g" :> Gate(SetToSeq({S(s) : s \in gi}), S("w")))
            @@ ("h" :> Gate(SetToSeq({S(s) : s \in hi}), S("x")))
            @@ ("k" :> Gate(SetToSeq({S(s) : s \in ki}), S("o"))), {}) :
        <<gi, hi, ki>> \in
            {t \in (SUBSET {"a", "b"}) \X (SUBSET {"a", "b", "w"})
                    \X (SUBSET {"a", "b", "w", "x"}) :
                /\ t[1] # {} /\ t[2] # {}
                /\ "x" \in t[3]
                /\ ("w" \in t[2]) # ("w" \in t[3])}}

-----------------------------------------------------------------------------
(* Flip-flops: several cones in a row.                                     *)

\* cones_min
ConesMin == Design({"a", "clk", "d", "w", "o"},
    ("g" :> Gate(<<S("a")>>, S("d"))) @@ ("f" :> DFF(S("d"), S("w")))
        @@ ("h" :> Gate(<<S("w")>>, S("o"))), {})

\* a gate into a flip-flop
NotDFF == Design({"a", "clk", "d", "o", "w", "err"},
    ("g" :> Gate(<<S("a")>>, S("d"))) @@ ("f" :> DFF(S("d"), S("w"))),
    {<<S("o"), S("w")>>})

\* dff_tmr
DFFOnly == Design({"a", "clk", "o", "w", "err"}, "f" :> DFF(S("a"), S("w")),
    {<<S("o"), S("w")>>})

\* recurrent_dff
Recurrent == Design({"clk", "d", "o"},
    ("g" :> Gate(<<S("o")>>, S("d"))) @@ ("f" :> DFF(S("d"), S("o"))), {})

\* two flip-flops that feed each other through gates
Ring == Design({"clk", "d", "w", "x", "y", "o"},
    ("f" :> DFF(S("d"), S("w"))) @@ ("q" :> DFF(S("y"), S("x")))
        @@ ("g" :> Gate(<<S("w")>>, S("y"))) @@ ("h" :> Gate(<<S("x")>>, S("d")))
        @@ ("k" :> Gate(<<S("w")>>, S("o"))), {})

\* not_dff_tmr: a flip-flop into a gate
DFFNot == Design({"a", "clk", "w", "o", "err"},
    ("f" :> DFF(S("a"), S("w"))) @@ ("g" :> Gate(<<S("w")>>, S("o"))), {})

\* a registered input, and gates behind it
Registered == Design({"a", "b", "clk", "w", "x", "o", "err"},
    ("f" :> DFF(S("a"), S("w"))) @@ ("g" :> Gate(<<S("w"), S("b")>>, S("x")))
        @@ ("h" :> Gate(<<S("x")>>, S("o"))), {})

\* flip-flops that only input ports feed: their own cones are empty
RegisteredDesigns == {DFFOnly, DFFNot, Registered}

ClockedDesigns == {ConesMin, NotDFF, Recurrent, Ring}

-----------------------------------------------------------------------------
(* Designs the command gives up on, or transforms only in part.            *)

\* flip-flops on output ports, with and without an error sink
OneFF == Design({"a", "clk", "o", "err"}, "f" :> DFF(S("a"), S("o")), {})
OutputRegister == Design({"a", "clk", "o"}, "f" :> DFF(S("a"), S("o")), {})

\* an input of several bits that lie on different wires; the first of them is
\* an input port
Concatenated == Design({"a", "b", "w", "o", "err"},
    ("g" :> Gate(<<S("a")>>, S("w"))) @@ ("k" :> Gate(<<S("b") \o S("w")>>, S("o"))), {})

\* the same, with gates behind both bits
ConcatenatedGates == Design({"a", "b", "w", "x", "o", "err"},
    ("g" :> Gate(<<S("a")>>, S("w"))) @@ ("h" :> Gate(<<S("b")>>, S("x")))
        @@ ("k" :> Gate(<<S("w") \o S("x")>>, S("o"))), {})

\* an output that another output's logic reads
SharedOutput == Design({"a", "o", "p", "err"},
    ("g" :> Gate(<<S("a")>>, S("o"))) @@ ("h" :> Gate(<<S("o")>>, S("p"))), {})

\* a gate read by two others
FanOut == Design({"a", "b", "w", "x", "y", "o", "err"},
    ("g" :> Gate(<<S("a")>>, S("w"))) @@ ("h" :> Gate(<<S("w")>>, S("x")))
        @@ ("k" :> Gate(<<S("w"), S("x")>>, S("o"))), {})

\* not_slice: a gate for each bit of an output
Slice == Design({"a", "b", "oo", "err"},
    ("g" :> Gate(<<S("a")>>, Bit("oo", 0))) @@ ("h" :> Gate(<<S("b")>>, Bit("oo", 1))), {})

\* an output half of which nothing drives
HalfDriven == Design({"a", "oo", "err"}, "g" :> Gate(<<S("a")>>, Bit("oo", 0)), {})

\* an output wired to an input
PassThrough == Design({"a", "o", "err"}, <<>>, {<<S("o"), S("a")>>})

\* an output wired to a wire that only a memory drives
FromMemory == Design({"a", "w", "o"}, "mem" :> Cell("mem", <<S("a")>>, <<S("w")>>),
    {<<S("o"), S("w")>>})

\* a submodule with two outputs
SubModule == Design({"a", "w", "o"}, "sub" :> Cell("sub", <<S("a")>>, <<S("o"), S("w")>>), {})

\* two error sinks
TwoSinks == Design({"a", "o", "err", "err2"}, "g" :> Gate(<<S("a")>>, S("o")), {})

\* a wire with three aliases, all read, as it stands without opt_clean
Aliases == Design({"a", "w", "x", "y", "d", "o", "err"},
    ("g" :> Gate(<<S("a")>>, S("w"))) @@ ("h" :> Gate(<<S("x"), S("y"), S("d")>>, S("o"))),
    {<<S("x"), S("w")>>, <<S("y"), S("w")>>, <<S("d"), S("w")>>})

OtherDesigns == {OneFF, OutputRegister, Concatenated, ConcatenatedGates, SharedOutput,
                 FanOut, Slice, HalfDriven, PassThrough, FromMemory, SubModule, TwoSinks,
                 Aliases}

SimpleDesigns == {Not, Chain, Tree, Pair, ReadsMemory, Swizzle} \cup RegisteredDesigns

TreeDesigns == SimpleDesigns \cup Triples

AllDesigns == SimpleDesigns \cup ClockedDesigns \cup OtherDesigns

SliceDesign == {Slice}
FanOutDesign == {FanOut}
ConesMinDesign == {ConesMin}
SharedOutputDesign == {SharedOutput}
OutputRegisterDesign == {OutputRegister}
ConcatenatedDesign == {Concatenated}
=============================================================================
