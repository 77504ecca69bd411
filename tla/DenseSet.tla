------------------------------ MODULE DenseSet ------------------------------
(***************************************************************************)
(* What ankerl::unordered_dense promises of a set (or of the keys of a     *)
(* map): a list of distinct keys without holes, in the order in which they *)
(* came.  Iteration follows the list, so the order in which TaMaRa visits  *)
(* the neighbours of a netlist object is the order of their insertion.     *)
(* Only erasing disturbs it: the last key takes the place of the erased.   *)
(*                                                                         *)
(* HashTable, the robin hood table of the code, is shown to implement it.  *)
(***************************************************************************)
EXTENDS Naturals, Sequences, SequencesExt

CONSTANTS
    Keys,
    MaxSize,    \* max_size(): the most keys a table can hold
    Containers  \* sequences of keys that may be assigned

VARIABLE items  \* the keys, as iteration yields them

IsList(s) == Range(s) \subseteq Keys /\ IsInjective(s) /\ Len(s) <= MaxSize

Init == items = <<>>

Insert(k) ==
    /\ k \notin Range(items)
    /\ Len(items) < MaxSize
    /\ items' = Append(items, k)

(* Out of place i, into which the last key moves.                          *)
Erase(i) == items' = Front(ReplaceAt(items, i, Last(items)))

(* Several keys at once; how the rest is reordered is not promised.        *)
EraseAll(S) ==
    /\ Cardinality(S) > 1
    /\ IsList(items') /\ Range(items') = Range(items) \ S

(* The keys of a sequence with duplicates: up to the first duplicate they  *)
(* keep their places.                                                      *)
Assign(c) ==
    /\ IsList(items') /\ Range(items') = Range(c)
    /\ \A n \in DOMAIN c : IsInjective(SubSeq(c, 1, n)) => items'[n] = c[n]

Clear == items' = <<>>

Next ==
    \/ \E k \in Keys : Insert(k)
    \/ \E i \in DOMAIN items : Erase(i)
    \/ \E S \in SUBSET Range(items) : EraseAll(S)
    \/ \E c \in Containers : Assign(c)
    \/ Clear

Spec == Init /\ [][Next]_items
=============================================================================
