---------------------------- MODULE VoterBuilder ----------------------------
(***************************************************************************)
(* class VoterBuilder (src/voter_builder.cpp): build() inserts one voter   *)
(* per bit of a signal and reduces their error bits to one wire per call;  *)
(* finalise() chains the reductions into the module's error sink with ORs. *)
(*                                                                         *)
(* A voter bit is a pair <<n, bit>>: bit number `bit` of the n-th call of  *)
(* build().  An error wire is represented by the set of voter bits whose   *)
(* err outputs it ORs together, which is all its value depends on.  Once   *)
(* the sink is linked the circuit is exercised: the three copies of every  *)
(* voted bit take arbitrary values, as upsets may leave them.              *)
(***************************************************************************)
EXTENDS Naturals, Sequences, FiniteSets, Voter

CONSTANTS
    MaxWidth,   \* bound: width of a signal to vote on
    MaxBits     \* bound: voter bits inserted altogether

ASSUME BoundsAssumption ==
    /\ MaxWidth \in Nat \ {0}
    /\ MaxBits \in Nat

VARIABLES
    stage,         \* where control is; see Stages
    widths,        \* width of the signal of each call of build(), in order
    bit,           \* loop variable of build()
    size,          \* VoterBuilder::size
    intermediate,  \* err_intermediate: the voter bits wired into it so far
    reductions,    \* VoterBuilder::reductions
    prev,          \* finalise()'s prev
    i,             \* finalise()'s loop variable
    sink,          \* what the error sink has been connected to
    copies         \* values of the three copies of every voter bit

vars == <<stage, widths, bit, size, intermediate, reductions, prev, i, sink, copies>>

(* "aborted" is log_error or a failed log_assert.                          *)
Stages == {"ready", "voting", "chaining", "linked", "running", "aborted"}

(* A null Wire pointer: it covers nothing, which no error wire does.       *)
Unset == {}

Calls == 1..Len(widths)

(* Every bit that should be voted on after the calls made so far.          *)
VotedBits == UNION {{<<n, b>> : b \in 0..(widths[n] - 1)} : n \in Calls}

-----------------------------------------------------------------------------

Init ==
    /\ stage = "ready"
    /\ widths = <<>>
    /\ bit = 0
    /\ size = 0
    /\ intermediate = {}
    /\ reductions = <<>>
    /\ prev = Unset
    /\ i = 0
    /\ sink = Unset
    /\ copies = <<>>

(* build(a, b, c, out): the widths must agree.                             *)
StartBuild(a, b, c, out) ==
    /\ stage = "ready"
    /\ IF a = b /\ a = c /\ b = c /\ out = a
       THEN /\ stage' = "voting"
            /\ widths' = Append(widths, a)
            /\ bit' = 0
            /\ intermediate' = {}
       ELSE /\ stage' = "aborted"
            /\ UNCHANGED <<widths, bit, intermediate>>
    /\ UNCHANGED <<size, reductions, prev, i, sink, copies>>

(* Mutant: the voter drives the next bit of err_intermediate.              *)
VoteBitOffByOne ==
    /\ stage = "voting" /\ bit < widths[Len(widths)]
    /\ intermediate' = intermediate \cup {<<Len(widths), bit + 1>>}
    /\ size' = size + 1
    /\ bit' = bit + 1
    /\ UNCHANGED <<stage, widths, reductions, prev, i, sink, copies>>

(* One turn of build()'s loop: a voter whose err drives this bit of        *)
(* err_intermediate.                                                       *)
VoteBit ==
    /\ stage = "voting" /\ bit < widths[Len(widths)]
    /\ intermediate' = intermediate \cup {<<Len(widths), bit>>}
    /\ size' = size + 1
    /\ bit' = bit + 1
    /\ UNCHANGED <<stage, widths, reductions, prev, i, sink, copies>>

(* Mutant: only the first bit of err_intermediate is reduced.              *)
ReduceFirstBit ==
    /\ stage = "voting" /\ ~(bit < widths[Len(widths)])
    /\ reductions' = Append(reductions, intermediate \cap {<<Len(widths), 0>>})
    /\ stage' = "ready"
    /\ UNCHANGED <<widths, bit, size, intermediate, prev, i, sink, copies>>

(* After the loop: $reduce_or over all of err_intermediate, or a $buf of   *)
(* its only bit.                                                           *)
Reduce ==
    /\ stage = "voting" /\ ~(bit < widths[Len(widths)])
    /\ reductions' = Append(reductions,
            IF widths[Len(widths)] > 1 THEN intermediate
            ELSE intermediate \cap {<<Len(widths), 0>>})
    /\ stage' = "ready"
    /\ UNCHANGED <<widths, bit, size, intermediate, prev, i, sink, copies>>

(* finalise(err) up to its loop: the sink must be one bit wide, and a      *)
(* single reduction is wired to it directly.                               *)
StartFinalise(errWidth) ==
    /\ stage = "ready"
    /\ \/ /\ errWidth # 1
          /\ stage' = "aborted"
          /\ UNCHANGED <<prev, i, sink>>
       \/ /\ errWidth = 1 /\ Len(reductions) = 1
          /\ stage' = "linked"
          /\ sink' = reductions[1]
          /\ UNCHANGED <<prev, i>>
       \/ /\ errWidth = 1 /\ Len(reductions) # 1
          /\ stage' = "chaining"
          /\ prev' = Unset
          /\ i' = 1
          /\ UNCHANGED sink
    /\ UNCHANGED <<widths, bit, size, intermediate, reductions, copies>>

(* The loop runs from index 1; reductions[i] of the code is element i + 1. *)
InitialOr ==
    /\ stage = "chaining" /\ i < Len(reductions) /\ prev = Unset
    /\ prev' = reductions[1] \cup reductions[2]
    /\ i' = i + 1
    /\ UNCHANGED <<stage, widths, bit, size, intermediate, reductions, sink, copies>>

(* Mutants: the previous reduction is taken; prev is lost; the loop does   *)
(* not advance.                                                            *)
OrTreePrevious ==
    /\ stage = "chaining" /\ i < Len(reductions) /\ prev # Unset
    /\ prev' = prev \cup reductions[i]
    /\ i' = i + 1
    /\ UNCHANGED <<stage, widths, bit, size, intermediate, reductions, sink, copies>>

OrTreeWithoutPrev ==
    /\ stage = "chaining" /\ i < Len(reductions) /\ prev # Unset
    /\ prev' = reductions[i] \cup reductions[i + 1]
    /\ i' = i + 1
    /\ UNCHANGED <<stage, widths, bit, size, intermediate, reductions, sink, copies>>

OrTreeStuck ==
    /\ stage = "chaining" /\ i < Len(reductions) /\ prev # Unset
    /\ prev' = prev \cup reductions[i + 1]
    /\ i' = i
    /\ UNCHANGED <<stage, widths, bit, size, intermediate, reductions, sink, copies>>

OrTree ==
    /\ stage = "chaining" /\ i < Len(reductions) /\ prev # Unset
    /\ prev' = prev \cup reductions[i + 1]
    /\ i' = i + 1
    /\ UNCHANGED <<stage, widths, bit, size, intermediate, reductions, sink, copies>>

(* Mutant: without NOTNULL(prev).                                          *)
LinkSinkUnchecked ==
    /\ stage = "chaining" /\ ~(i < Len(reductions))
    /\ stage' = "linked" /\ sink' = prev
    /\ UNCHANGED <<widths, bit, size, intermediate, reductions, prev, i, copies>>

(* NOTNULL(prev), then the link to the sink.  module->connect is called    *)
(* with the operands the other way round than for a single reduction; a    *)
(* connection identifies the two signals either way.                       *)
LinkSink ==
    /\ stage = "chaining" /\ ~(i < Len(reductions))
    /\ IF prev = Unset
       THEN stage' = "aborted" /\ UNCHANGED sink
       ELSE stage' = "linked" /\ sink' = prev
    /\ UNCHANGED <<widths, bit, size, intermediate, reductions, prev, i, copies>>

(* The circuit at work: every copy of every voted bit holds some value.    *)
Exercise ==
    /\ stage = "linked"
    /\ stage' = "running"
    /\ copies' \in [VotedBits -> [a : BOOLEAN, b : BOOLEAN, c : BOOLEAN]]
    /\ UNCHANGED <<widths, bit, size, intermediate, reductions, prev, i, sink>>

(* Callers vote on signals of equal width, and MaxBits bounds how many     *)
(* bits they vote on; finalise() is given the sink the user marked.        *)
CallBuild ==
    \E w \in 1..MaxWidth, out \in 1..MaxWidth :
        /\ Cardinality(VotedBits) + w <= MaxBits
        /\ StartBuild(w, w, w, out)

CallFinalise == \E errWidth \in 1..MaxWidth : StartFinalise(errWidth)

Continue == VoteBit \/ Reduce \/ InitialOr \/ OrTree \/ LinkSink

Next == CallBuild \/ CallFinalise \/ Continue \/ Exercise

(* build() and finalise() run to their ends once called.                   *)
Fairness == WF_vars(Continue)

Spec == Init /\ [][Next]_vars /\ Fairness

-----------------------------------------------------------------------------
(* Properties.                                                             *)

TypeOK ==
    /\ stage \in Stages
    /\ widths \in Seq(Nat \ {0})
    /\ bit \in Nat
    /\ size \in Nat
    /\ intermediate \subseteq VotedBits
    /\ reductions \in Seq(SUBSET VotedBits)
    /\ prev \subseteq VotedBits
    /\ i \in Nat
    /\ sink \subseteq VotedBits

(* The value on an error wire.                                             *)
Err(b) == Gates(copies[b].a, copies[b].b, copies[b].c).err
Out(b) == Gates(copies[b].a, copies[b].b, copies[b].c).out

(* A disagreement among the copies of any bit of any voter raises the      *)
(* error sink, and the sink is silent when all copies agree.               *)
SinkReportsEveryUpset ==
    stage = "running" =>
        ((\E b \in sink : Err(b)) <=>
         (\E b \in VotedBits : \/ copies[b].a # copies[b].b
                               \/ copies[b].b # copies[b].c))

(* An upset of one copy is masked: the voter outputs the value the other   *)
(* two hold, on every bit of every voter.                                  *)
SingleUpsetMasked ==
    stage = "running" =>
        \A b \in VotedBits :
            /\ copies[b].a = copies[b].b => Out(b) = copies[b].a
            /\ copies[b].b = copies[b].c => Out(b) = copies[b].b
            /\ copies[b].a = copies[b].c => Out(b) = copies[b].c

(* While the OR chain is built, prev covers the reductions before the loop *)
(* index, no more and no fewer, from the initial pair on.                  *)
ChainCoversPrefix ==
    stage = "chaining" =>
        IF prev = Unset THEN i = 1
        ELSE /\ i \in 2..Len(reductions)
             /\ prev = UNION {reductions[n] : n \in 1..i}

(* The n-th reduction covers the error bits of the n-th voter, all of them *)
(* and no other's, also while a later voter is being built.                *)
ReductionsExact ==
    /\ Len(reductions) = IF stage = "voting" THEN Len(widths) - 1 ELSE Len(widths)
    /\ \A n \in DOMAIN reductions :
          reductions[n] = {<<n, b>> : b \in 0..(widths[n] - 1)}

(* A call of finalise() comes to an end: with the sink on all reductions,  *)
(* or, when there are none and only then, at its NOTNULL(prev).            *)
FinaliseEnds ==
    stage = "chaining" ~>
        IF reductions = <<>> THEN stage = "aborted"
        ELSE stage = "linked" /\ sink = UNION {reductions[n] : n \in DOMAIN reductions}

(* voter_builder.hpp says finalise "Finalises all of the voters in this    *)
(* module by OR'ing together all the intermediate error signals into a     *)
(* final error signal".  Given a one-bit sink it should then always end    *)
(* with the sink linked.                                                   *)
FinaliseLinksSink == [][stage = "chaining" => stage' # "aborted"]_vars
=============================================================================
