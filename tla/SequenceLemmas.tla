--------------------------- MODULE SequenceLemmas ---------------------------
(***************************************************************************)
(* What the proofs about the cone search and about the pass need of        *)
(* queues, lists and numbers.                                              *)
(***************************************************************************)
EXTENDS Sequences, Integers, FiniteSets, Functions, TLAPS, FiniteSetTheorems,
        FunctionTheorems, SequenceTheorems, WellFoundedInduction

(* A sequence lists no element twice.                                      *)
NoRepeats(s) == \A i, j \in DOMAIN s : s[i] = s[j] => i = j

(* A pair lists its two components.                                        *)
LEMMA PairRange ==
    ASSUME NEW a, NEW b
    PROVE  Range(<<a, b>>) = {a, b}
<1>1. DOMAIN <<a, b>> = {1, 2}
    OBVIOUS
<1>2. <<a, b>>[1] = a /\ <<a, b>>[2] = b
    OBVIOUS
<1> QED BY <1>1, <1>2 DEF Range

(* Popping a queue splits its elements into the head and the rest.         *)
LEMMA PopRange ==
    ASSUME NEW S, NEW s \in Seq(S), s # <<>>
    PROVE  /\ Head(s) \in S
           /\ Tail(s) \in Seq(S)
           /\ Range(s) = {Head(s)} \cup Range(Tail(s))
<1>1. /\ Head(s) \in S
      /\ Tail(s) \in Seq(S)
      /\ Len(Tail(s)) = Len(s) - 1
      /\ \A i \in 1..Len(Tail(s)) : Tail(s)[i] = s[i + 1]
    BY HeadTailProperties
<1>2. Len(s) \in Nat \ {0} /\ Head(s) = s[1]
    BY EmptySeq
<1>3. ASSUME NEW i \in 1..Len(s)
      PROVE  s[i] \in {Head(s)} \cup {Tail(s)[j] : j \in 1..Len(Tail(s))}
  <2>1. CASE i = 1
    BY <2>1, <1>2
  <2>2. CASE i # 1
    <3>1. i - 1 \in 1..Len(Tail(s)) /\ (i - 1) + 1 = i
        BY <2>2, <1>1, <1>2
    <3>2. Tail(s)[i - 1] = s[i]
        BY <3>1, <1>1
    <3> QED BY <3>1, <3>2
  <2> QED BY <2>1, <2>2
<1>4. ASSUME NEW j \in 1..Len(Tail(s))
      PROVE  j + 1 \in 1..Len(s) /\ Tail(s)[j] = s[j + 1]
    BY <1>1, <1>2
<1>5. /\ Range(s) = {s[i] : i \in 1..Len(s)}
      /\ Range(Tail(s)) = {Tail(s)[j] : j \in 1..Len(Tail(s))}
    BY <1>1, RangeEquality
<1>6. Head(s) \in {s[i] : i \in 1..Len(s)}
    BY <1>2
<1>7. Range(s) = {Head(s)} \cup Range(Tail(s))
    BY <1>3, <1>4, <1>5, <1>6
<1> QED BY <1>1, <1>7

(* A queue without repeats keeps none of the node that is popped.          *)
LEMMA PopNoRepeats ==
    ASSUME NEW S, NEW s \in Seq(S), s # <<>>, NoRepeats(s)
    PROVE  /\ NoRepeats(Tail(s))
           /\ Head(s) \notin Range(Tail(s))
<1>1. /\ Tail(s) \in Seq(S)
      /\ Len(Tail(s)) = Len(s) - 1
      /\ \A i \in 1..Len(Tail(s)) : Tail(s)[i] = s[i + 1]
    BY HeadTailProperties
<1>2. /\ Len(s) \in Nat \ {0} /\ Head(s) = s[1]
      /\ DOMAIN s = 1..Len(s) /\ DOMAIN Tail(s) = 1..Len(Tail(s))
    BY <1>1, EmptySeq, LenProperties
<1>3. NoRepeats(Tail(s))
  <2> SUFFICES ASSUME NEW i \in DOMAIN Tail(s), NEW j \in DOMAIN Tail(s),
                      Tail(s)[i] = Tail(s)[j]
               PROVE  i = j
      BY DEF NoRepeats
  <2>1. s[i + 1] = s[j + 1] /\ i + 1 \in DOMAIN s /\ j + 1 \in DOMAIN s
      BY <1>1, <1>2
  <2>2. i + 1 = j + 1
      BY <2>1 DEF NoRepeats
  <2> QED BY <2>2, <1>1, <1>2
<1>4. ASSUME NEW j \in 1..Len(Tail(s))
      PROVE  Tail(s)[j] # Head(s)
  <2>1. Tail(s)[j] = s[j + 1] /\ j + 1 \in DOMAIN s /\ 1 \in DOMAIN s /\ j + 1 # 1
      BY <1>1, <1>2
  <2> QED BY <2>1, <1>2 DEF NoRepeats
<1>5. Range(Tail(s)) = {Tail(s)[j] : j \in 1..Len(Tail(s))}
    BY <1>1, RangeEquality
<1>6. Head(s) \notin Range(Tail(s))
    BY <1>4, <1>5
<1> QED BY <1>3, <1>6

(* Two lists without repeats and with nothing in common join into one.     *)
LEMMA JoinNoRepeats ==
    ASSUME NEW S, NEW s \in Seq(S), NEW t \in Seq(S),
           NoRepeats(s), NoRepeats(t), Range(s) \cap Range(t) = {}
    PROVE  NoRepeats(s \o t)
<1>1. /\ s \o t \in Seq(S)
      /\ Len(s \o t) = Len(s) + Len(t)
      /\ \A i \in 1..Len(s) + Len(t) :
            (s \o t)[i] = IF i <= Len(s) THEN s[i] ELSE t[i - Len(s)]
    BY ConcatProperties
<1>2. /\ Len(s) \in Nat /\ DOMAIN s = 1..Len(s)
      /\ Len(t) \in Nat /\ DOMAIN t = 1..Len(t)
      /\ DOMAIN (s \o t) = 1..Len(s) + Len(t)
    BY <1>1, LenProperties
<1>3. ASSUME NEW i \in DOMAIN s, NEW j \in DOMAIN t
      PROVE  s[i] # t[j]
    BY DEF Range
<1>4. ASSUME NEW i \in DOMAIN (s \o t), NEW j \in DOMAIN (s \o t),
             (s \o t)[i] = (s \o t)[j]
      PROVE  i = j
  <2>1. CASE i <= Len(s) /\ j <= Len(s)
    <3>1. i \in DOMAIN s /\ j \in DOMAIN s /\ s[i] = s[j]
        BY <2>1, <1>1, <1>2, <1>4
    <3> QED BY <3>1 DEF NoRepeats
  <2>2. CASE i <= Len(s) /\ ~(j <= Len(s))
    <3>1. i \in DOMAIN s /\ j - Len(s) \in DOMAIN t /\ s[i] = t[j - Len(s)]
        BY <2>2, <1>1, <1>2, <1>4
    <3> QED BY <3>1, <1>3
  <2>3. CASE ~(i <= Len(s)) /\ j <= Len(s)
    <3>1. j \in DOMAIN s /\ i - Len(s) \in DOMAIN t /\ s[j] = t[i - Len(s)]
        BY <2>3, <1>1, <1>2, <1>4
    <3> QED BY <3>1, <1>3
  <2>4. CASE ~(i <= Len(s)) /\ ~(j <= Len(s))
    <3>1. /\ i - Len(s) \in DOMAIN t /\ j - Len(s) \in DOMAIN t
          /\ t[i - Len(s)] = t[j - Len(s)]
        BY <2>4, <1>1, <1>2, <1>4
    <3>2. i - Len(s) = j - Len(s)
        BY <3>1 DEF NoRepeats
    <3> QED BY <3>2, <1>2
  <2> QED BY <2>1, <2>2, <2>3, <2>4
<1> QED BY <1>4 DEF NoRepeats

(* Appending an element to a list.                                         *)
LEMMA AppendRange ==
    ASSUME NEW S, NEW s \in Seq(S), NEW e \in S
    PROVE  /\ Append(s, e) \in Seq(S)
           /\ Range(Append(s, e)) = Range(s) \cup {e}
           /\ NoRepeats(s) /\ e \notin Range(s) => NoRepeats(Append(s, e))
<1>1. Append(s, e) = s \o <<e>> /\ Append(s, e) \in Seq(S)
    BY AppendIsConcat, AppendProperties
<1>2. <<e>> \in Seq(S) /\ Range(<<e>>) = {e} /\ NoRepeats(<<e>>)
    BY DEF Range, NoRepeats
<1>3. Range(Append(s, e)) = Range(s) \cup {e}
  <2>1. Range(s \o <<e>>) = Range(s) \cup Range(<<e>>)
      BY <1>2, RangeConcatenation
  <2> QED BY <1>1, <1>2, <2>1
<1>4. NoRepeats(s) /\ e \notin Range(s) => NoRepeats(Append(s, e))
    BY <1>1, <1>2, JoinNoRepeats
<1> QED BY <1>1, <1>3, <1>4

(* A list as long as a finite set that holds all its elements holds each   *)
(* of them once.                                                           *)
LEMMA ListingFacts ==
    ASSUME NEW T, IsFiniteSet(T), NEW s \in [1..Cardinality(T) -> T], Range(s) = T
    PROVE  /\ s \in Seq(T)
           /\ Len(s) = Cardinality(T)
           /\ NoRepeats(s)
<1>1. Cardinality(T) \in Nat
    BY FS_CardinalityType
<1>2. s \in Seq(T) /\ Len(s) = Cardinality(T)
    BY <1>1
<1>3. s \in Surjection(1..Cardinality(T), T)
    BY DEF Surjection, Range
<1>4. IsFiniteSet(1..Cardinality(T)) /\ Cardinality(1..Cardinality(T)) = Cardinality(T)
    BY <1>1, FS_Interval
<1>5. s \in Injection(1..Cardinality(T), T)
    BY <1>1, <1>3, <1>4, FS_SurjSameCardinalityImpliesInj
<1>6. NoRepeats(s)
    BY <1>5 DEF Injection, IsInjective, NoRepeats
<1> QED BY <1>2, <1>6

(* Every nonempty set of numbers has a least one.                          *)
LEMMA LeastNumber ==
    ASSUME NEW T \in SUBSET Nat, T # {}
    PROVE  \E x \in T : \A y \in T : x <= y
<1> DEFINE less == OpToRel(<, Nat)
<1>1. IsWellFoundedOn(less, Nat)
    BY NatLessThanWellFounded
<1>2. PICK x \in T : \A y \in T : <<y, x>> \notin less
  <2> HIDE DEF less
  <2> QED BY <1>1, WFMin
<1>3. ASSUME NEW y \in T PROVE x <= y
  <2>1. x \in Nat /\ y \in Nat
      OBVIOUS
  <2>2. ~(y < x)
      BY <1>2, <2>1 DEF OpToRel
  <2> QED BY <2>1, <2>2
<1> QED BY <1>3

=============================================================================
