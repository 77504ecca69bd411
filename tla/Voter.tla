------------------------------- MODULE Voter -------------------------------
(***************************************************************************)
(* The one-bit majority voter TaMaRa inserts, gate by gate (the local      *)
(* function build of src/voter_builder.cpp), and the reference voter of    *)
(* src/voter.v it stands in for.                                           *)
(***************************************************************************)

(* Mutant: and4 is an OR gate.                                             *)
GatesOrForAnd(a, b, c) ==
    [out |-> (b /\ c) \/ (a /\ c) \/ (a \/ b),
     err |-> (~a /\ c) \/ (~b /\ a) \/ (~c /\ b)]

(* The gate network, named after the code's NOT, AND and OR instances.     *)
Gates(a, b, c) ==
    LET not0 == ~a
        not1 == ~b
        not2 == ~c
        and0 == b /\ c
        and1 == a /\ c
        and2 == not0 /\ c
        and3 == not1 /\ a
        and4 == a /\ b
        and5 == not2 /\ b
        or0  == and0 \/ and1
        or1  == and2 \/ and3
        or2  == or0 \/ and4
        or3  == or1 \/ and5
    IN  [out |-> or2, err |-> or3]

(* Module VOTER of src/voter.v.                                            *)
ReferenceOut(a, b, c) == (a /\ b) \/ (b /\ c) \/ (a /\ c)
ReferenceErr(a, b, c) == (~a /\ c) \/ (a /\ ~b) \/ (b /\ ~c)
=============================================================================
