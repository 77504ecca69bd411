------------------------------- MODULE Upsets -------------------------------
(***************************************************************************)
(* The point of the command: a netlist that went through tamara_tmr keeps  *)
(* working as the design it was made from while single event upsets hit    *)
(* it.  The command runs first (TmrPass); once it is done the netlist is   *)
(* clocked with any inputs, and in any cycle at most one cell has its      *)
(* output flipped, as `mutate` does in the fault injection tests.  Voters, *)
(* the error OR and memories, which TaMaRa says it ignores, are spared, as *)
(* they are in those tests.                                                *)
(*                                                                         *)
(* An upset of a flip-flop flips the stored bit, which is overwritten at   *)
(* the end of the cycle.                                                   *)
(***************************************************************************)
EXTENDS TmrPass

CONSTANT NoUpset

VARIABLES
    gold,       \* the design, resolved, before the command has seen it
    gate,       \* the finished netlist, resolved
    running,
    state,      \* contents of the flip-flops of gate
    in,         \* values of the input ports
    upset       \* the cell that is hit in this cycle

C == INSTANCE Circuit WITH design <- gold, out <- <<>>

benchVars == <<gold, gate, running, state, in, upset>>

InitBench ==
    /\ Init
    /\ gold = C!Resolve(netlist)
    /\ gate = C!NotBuilt
    /\ running = FALSE /\ state = <<>> /\ in = <<>> /\ upset = NoUpset

(* What mutate may choose from.                                            *)
Exposed ==
    {c \in DOMAIN netlist.cells :
        /\ netlist.cells[c].type \notin {"voter", "or"}
        /\ ~netlist.cells[c].ignore}

Drive ==
    /\ in' \in [C!InputBits(gold) -> BOOLEAN]
    /\ upset' \in Exposed \cup {NoUpset}
    /\ UNCHANGED <<vars, gold>>

(* The copies of a flip-flop come up alike.                                *)
PowerUp ==
    /\ stage = "done" /\ ~running
    /\ gate' = C!Resolve(netlist)
    /\ running' = TRUE
    /\ \E s \in [C!FlipFlops(gold) -> BOOLEAN] :
          state' = [f \in C!FlipFlops(gate') |-> s[OriginalOf(f)]]
    /\ Drive

Cycle ==
    /\ running
    /\ state' = C!NextState(gate, state, in, upset)
    /\ Drive
    /\ UNCHANGED <<gate, running>>

Command == Next /\ UNCHANGED benchVars

NextBench == Command \/ PowerUp \/ Cycle

SpecBench == InitBench /\ [][NextBench]_<<vars, benchVars>>

-----------------------------------------------------------------------------

GoldState == [f \in C!FlipFlops(gold) \cap DOMAIN state |-> state[f]]

(* The miter of the fault injection tests: in every cycle, whichever cell  *)
(* is hit, all outputs have the values the design itself would have.       *)
UpsetMasked ==
    running => C!Outputs(gate, state, in, upset) = C!Outputs(gold, GoldState, in, NoUpset)

(* The finished netlist under upsets implements the fault-free design: it  *)
(* cannot be told from it at its outputs, nor by the contents of the       *)
(* design's own flip-flops.                                                *)
Golden == INSTANCE Circuit WITH
    design <- gold, state <- GoldState,
    out <- IF running THEN C!Outputs(gate, state, in, upset) ELSE <<>>

ImplementsDesign == Golden!Spec

(* The error sink is raised in exactly the cycles in which a cell is hit.  *)
SinkReports ==
    running =>
        LET vals == C!Values(gate, state, in, upset) IN
        \A b \in DOMAIN gate.sinks :
            C!SourceValue(gate.sinks[b], in, vals) <=> upset # NoUpset
=============================================================================
