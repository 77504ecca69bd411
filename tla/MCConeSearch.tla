---------------------------- MODULE MCConeSearch ----------------------------
(***************************************************************************)
(* ConeSearch on every netlist over one input, one output, one internal    *)
(* wire, two gates' worth of drivers and a flip-flop.                      *)
(***************************************************************************)
EXTENDS ConeSearch, TLC

CONSTANTS i, o, w, c, f

MCWires == {i, o, w}
MCCells == {c, f}
MCFFs == {f}
MCInPorts == {i}
MCOutPorts == {o}

(* Everything that may stand behind an object, at most MaxFanin at a time. *)
(* The input port has no drivers.                                          *)
MaxFanin == 2
Behind(x) == CASE x = i -> {}
               [] x \in {o, w} -> {i, o, w, c, f} \ {x}
               [] OTHER -> {i, o, w}
Fanins(x) == {S \in SUBSET Behind(x) : Cardinality(S) <= MaxFanin}

MCNetlists ==
    {[x \in {y \in DOMAIN g : g[y] # {}} |-> g[x]] :
        g \in {(o :> fo) @@ (w :> fw) @@ (c :> fc) @@ (f :> ff) :
                  fo \in Fanins(o), fw \in Fanins(w),
                  fc \in Fanins(c), ff \in Fanins(f)}}
=============================================================================
