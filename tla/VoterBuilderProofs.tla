------------------------- MODULE VoterBuilderProofs -------------------------
(***************************************************************************)
(* Proofs about the voter and the error tree, for any number of voters of  *)
(* any width.                                                              *)
(***************************************************************************)
EXTENDS VoterBuilder, TLAPS, SequenceTheorems

-----------------------------------------------------------------------------
(* The gate network.                                                       *)

(* TaMaRa's gates compute what the reference voter of src/voter.v does.    *)
THEOREM GatesMatchReference ==
    ASSUME NEW a \in BOOLEAN, NEW b \in BOOLEAN, NEW c \in BOOLEAN
    PROVE  /\ Gates(a, b, c).out <=> ReferenceOut(a, b, c)
           /\ Gates(a, b, c).err <=> ReferenceErr(a, b, c)
<1>1. /\ Gates(a, b, c).out <=> ((b /\ c) \/ (a /\ c)) \/ (a /\ b)
      /\ Gates(a, b, c).err <=> ((~a /\ c) \/ (~b /\ a)) \/ (~c /\ b)
    BY DEF Gates
<1> QED BY <1>1 DEF ReferenceOut, ReferenceErr

(* The voter outputs the value of any two copies that agree, and its err   *)
(* is raised exactly when the copies are not unanimous.                    *)
THEOREM VoterMasks ==
    ASSUME NEW a \in BOOLEAN, NEW b \in BOOLEAN, NEW c \in BOOLEAN
    PROVE  /\ a = b => Gates(a, b, c).out = a
           /\ b = c => Gates(a, b, c).out = b
           /\ a = c => Gates(a, b, c).out = c
           /\ Gates(a, b, c).err <=> a # b \/ b # c
<1>1. Gates(a, b, c).out = (((b /\ c) \/ (a /\ c)) \/ (a /\ b))
    BY DEF Gates
<1>2. Gates(a, b, c).err = (((~a /\ c) \/ (~b /\ a)) \/ (~c /\ b))
    BY DEF Gates
<1> QED BY <1>1, <1>2

-----------------------------------------------------------------------------
(* The error tree.  ErrorTreeInv strengthens the properties with what      *)
(* build() has done so far and with what finalise() has linked.            *)

(* The error bits of the n-th voter.                                       *)
BitsOf(n) == {<<n, b>> : b \in 0..(widths[n] - 1)}

Control ==
    /\ stage \in Stages
    /\ widths \in Seq(Nat \ {0})
    /\ bit \in Nat
    /\ size \in Nat
    /\ i \in Nat
    /\ reductions \in Seq(SUBSET (Nat \X Nat))

(* While a voter is built, its bits below the loop index are wired.        *)
BuildProgress ==
    /\ intermediate \subseteq VotedBits
    /\ stage = "voting" =>
          /\ Len(widths) \in Calls
          /\ bit \in 0..widths[Len(widths)]
          /\ intermediate = {<<Len(widths), b>> : b \in 0..(bit - 1)}

(* Nothing is chained before finalise(), and a linked sink covers all.     *)
SinkComplete ==
    /\ stage \in {"ready", "voting"} => prev = {} /\ sink = {}
    /\ prev \subseteq VotedBits
    /\ sink \subseteq VotedBits
    /\ stage \in {"linked", "running"} => sink = VotedBits

CopiesTyped ==
    stage = "running" => copies \in [VotedBits -> [a : BOOLEAN, b : BOOLEAN, c : BOOLEAN]]

ErrorTreeInv ==
    /\ Control
    /\ ReductionsExact
    /\ BuildProgress
    /\ ChainCoversPrefix
    /\ SinkComplete
    /\ CopiesTyped

LEMMA ErrorTreeTyped == ErrorTreeInv => TypeOK
<1> SUFFICES ASSUME ErrorTreeInv PROVE TypeOK
    OBVIOUS
<1>1. reductions \in Seq(SUBSET VotedBits)
  <2>1. ASSUME NEW n \in 1..Len(reductions)
        PROVE  reductions[n] \in SUBSET VotedBits
    <3>1. n \in DOMAIN reductions /\ n \in Calls
        BY DEF ErrorTreeInv, Control, ReductionsExact, Calls
    <3> QED BY <3>1 DEF ErrorTreeInv, ReductionsExact, VotedBits
  <2>2. /\ Len(reductions) \in Nat
        /\ reductions \in [1..Len(reductions) -> SUBSET (Nat \X Nat)]
      BY DEF ErrorTreeInv, Control
  <2> QED BY <2>1, <2>2
<1> QED BY <1>1 DEF ErrorTreeInv, Control, BuildProgress, SinkComplete, TypeOK

LEMMA ErrorTreeInit == Init => ErrorTreeInv
<1> SUFFICES ASSUME Init PROVE ErrorTreeInv
    OBVIOUS
<1>1. /\ stage = "ready" /\ widths = <<>> /\ reductions = <<>>
      /\ bit = 0 /\ size = 0 /\ i = 0 /\ intermediate = {} /\ prev = {} /\ sink = {}
    BY DEF Init, Unset
<1>2. Control
    BY <1>1 DEF Control, Stages
<1>3. ReductionsExact
    BY <1>1 DEF ReductionsExact
<1>4. BuildProgress /\ ChainCoversPrefix /\ SinkComplete /\ CopiesTyped
    BY <1>1 DEF BuildProgress, ChainCoversPrefix, SinkComplete, CopiesTyped
<1> QED BY <1>2, <1>3, <1>4 DEF ErrorTreeInv

(* All reductions together cover all voted bits, once no call is pending.  *)
LEMMA ReductionsCoverAll ==
    ASSUME Control, ReductionsExact, stage # "voting"
    PROVE  UNION {reductions[n] : n \in 1..Len(reductions)} = VotedBits
<1>1. Len(reductions) = Len(widths) /\ DOMAIN reductions = 1..Len(reductions)
    BY DEF Control, ReductionsExact
<1>2. \A n \in 1..Len(reductions) : reductions[n] = BitsOf(n)
    BY <1>1 DEF ReductionsExact, BitsOf
<1>3. VotedBits = UNION {BitsOf(n) : n \in 1..Len(widths)}
    BY DEF VotedBits, BitsOf, Calls
<1> QED BY <1>1, <1>2, <1>3

(* A call of build() adds bits to vote on and takes none away.             *)
LEMMA AppendedVoter ==
    ASSUME Control, NEW w \in Nat \ {0}, widths' = Append(widths, w)
    PROVE  /\ widths' \in Seq(Nat \ {0})
           /\ Len(widths') = Len(widths) + 1
           /\ \A n \in 1..Len(widths) : widths'[n] = widths[n]
           /\ widths'[Len(widths')] = w
           /\ VotedBits \subseteq VotedBits'
<1>1. /\ widths' \in Seq(Nat \ {0})
      /\ Len(widths') = Len(widths) + 1
      /\ \A n \in 1..Len(widths) : widths'[n] = widths[n]
      /\ widths'[Len(widths')] = w
    BY AppendProperties DEF Control
<1>2. ASSUME NEW x \in VotedBits PROVE x \in VotedBits'
  <2>1. PICK n \in 1..Len(widths) : x \in BitsOf(n)
      BY <1>2 DEF VotedBits, Calls, BitsOf
  <2>2. n \in 1..Len(widths') /\ widths'[n] = widths[n]
      BY <1>1 DEF Control
  <2>3. x \in {<<n, b>> : b \in 0..(widths'[n] - 1)}
      BY <2>1, <2>2 DEF BitsOf
  <2> QED BY <2>2, <2>3 DEF VotedBits, Calls
<1> QED BY <1>1, <1>2

-----------------------------------------------------------------------------
(* One lemma per action.                                                   *)

LEMMA StartBuildStep ==
    ASSUME ErrorTreeInv, NEW w \in Nat \ {0}, NEW out, StartBuild(w, w, w, out)
    PROVE  ErrorTreeInv'
<1>1. StartBuild(w, w, w, out)
    OBVIOUS
<1>2. /\ stage = "ready"
      /\ UNCHANGED <<size, reductions, prev, i, sink, copies>>
    BY <1>1 DEF StartBuild
<1>3. w \in Nat \ {0}
    OBVIOUS
<1>4. CASE out = w
  <2>1. /\ stage' = "voting" /\ widths' = Append(widths, w)
        /\ bit' = 0 /\ intermediate' = {}
      BY <1>1, <1>4 DEF StartBuild
  <2>2. /\ widths' \in Seq(Nat \ {0})
        /\ Len(widths') = Len(widths) + 1
        /\ \A n \in 1..Len(widths) : widths'[n] = widths[n]
        /\ widths'[Len(widths')] = w
        /\ VotedBits \subseteq VotedBits'
      BY <1>3, <2>1, AppendedVoter DEF ErrorTreeInv
  <2>3. Control'
      BY <1>2, <2>1, <2>2 DEF ErrorTreeInv, Control, Stages
  <2>4. ReductionsExact'
    <3>1. Len(reductions) = Len(widths) /\ DOMAIN reductions = 1..Len(widths)
          /\ Len(widths) \in Nat
        BY <1>2 DEF ErrorTreeInv, Control, ReductionsExact
    <3>2. ASSUME NEW n \in DOMAIN reductions
          PROVE  reductions[n] = {<<n, b>> : b \in 0..(widths'[n] - 1)}
        BY <2>2, <3>1 DEF ErrorTreeInv, ReductionsExact
    <3> QED BY <1>2, <2>1, <2>2, <3>1, <3>2 DEF ReductionsExact
  <2>5. BuildProgress'
    <3>1. Len(widths') \in 1..Len(widths')
        BY <2>2 DEF ErrorTreeInv, Control
    <3>2. 0 \in 0..w /\ 0..(0 - 1) = {}
        BY <1>3
    <3> QED BY <2>1, <2>2, <3>1, <3>2 DEF BuildProgress, Calls
  <2>6. SinkComplete'
      BY <1>2, <2>1 DEF ErrorTreeInv, SinkComplete
  <2>7. ChainCoversPrefix' /\ CopiesTyped'
      BY <2>1 DEF ChainCoversPrefix, CopiesTyped
  <2> QED BY <2>3, <2>4, <2>5, <2>6, <2>7 DEF ErrorTreeInv
<1>5. CASE out # w
  <2>1. stage' = "aborted" /\ UNCHANGED <<widths, bit, intermediate>>
      BY <1>1, <1>5 DEF StartBuild
  <2>2. Control' /\ ReductionsExact'
      BY <1>2, <2>1 DEF ErrorTreeInv, Control, ReductionsExact, Stages
  <2>3. BuildProgress' /\ ChainCoversPrefix' /\ SinkComplete' /\ CopiesTyped'
      BY <1>2, <2>1 DEF ErrorTreeInv, BuildProgress, ChainCoversPrefix, SinkComplete,
                        CopiesTyped, VotedBits, Calls
  <2> QED BY <2>2, <2>3 DEF ErrorTreeInv
<1> QED BY <1>4, <1>5

LEMMA VoteBitStep ==
    ASSUME ErrorTreeInv, VoteBit
    PROVE  ErrorTreeInv'
<1> DEFINE n == Len(widths)
<1>1. /\ stage = "voting" /\ stage' = "voting" /\ bit < widths[n]
      /\ intermediate' = intermediate \cup {<<n, bit>>}
      /\ bit' = bit + 1 /\ size' = size + 1
      /\ UNCHANGED <<widths, reductions, prev, i, sink, copies>>
    BY DEF VoteBit
<1>2. /\ n \in 1..Len(widths) /\ widths[n] \in Nat /\ bit \in Nat
      /\ intermediate = {<<n, b>> : b \in 0..(bit - 1)}
    BY <1>1 DEF ErrorTreeInv, Control, BuildProgress, Calls
<1>3. Control' /\ ReductionsExact'
    BY <1>1 DEF ErrorTreeInv, Control, ReductionsExact
<1>4. BuildProgress'
  <2>1. <<n, bit>> \in VotedBits
      BY <1>1, <1>2 DEF VotedBits, Calls
  <2>2. 0..(bit' - 1) = (0..(bit - 1)) \cup {bit}
      BY <1>1, <1>2
  <2>3. intermediate' = {<<n, b>> : b \in 0..(bit' - 1)}
      BY <1>1, <1>2, <2>2
  <2>4. bit' \in 0..widths[n]
      BY <1>1, <1>2
  <2> QED BY <1>1, <1>2, <2>1, <2>3, <2>4 DEF ErrorTreeInv, BuildProgress, VotedBits, Calls
<1>5. ChainCoversPrefix' /\ SinkComplete' /\ CopiesTyped'
    BY <1>1 DEF ErrorTreeInv, ChainCoversPrefix, SinkComplete, CopiesTyped, VotedBits, Calls
<1> QED BY <1>3, <1>4, <1>5 DEF ErrorTreeInv

LEMMA ReduceStep ==
    ASSUME ErrorTreeInv, Reduce
    PROVE  ErrorTreeInv'
<1> DEFINE n == Len(widths)
           reduced == IF widths[n] > 1 THEN intermediate ELSE intermediate \cap {<<n, 0>>}
<1>1. /\ stage = "voting" /\ stage' = "ready" /\ ~(bit < widths[n])
      /\ reductions' = Append(reductions, reduced)
      /\ UNCHANGED <<widths, bit, size, intermediate, prev, i, sink, copies>>
    BY DEF Reduce
<1>2. /\ n \in 1..Len(widths) /\ n \in Nat /\ widths[n] \in Nat \ {0} /\ bit = widths[n]
      /\ intermediate = {<<n, b>> : b \in 0..(widths[n] - 1)}
    BY <1>1 DEF ErrorTreeInv, Control, BuildProgress, Calls
<1>3. reduced = {<<n, b>> : b \in 0..(widths[n] - 1)}
  <2>1. CASE widths[n] > 1
      BY <1>2, <2>1
  <2>2. CASE ~(widths[n] > 1)
    <3>1. 0..(widths[n] - 1) = {0}
        BY <1>2, <2>2
    <3>2. intermediate = {<<n, 0>>}
        BY <1>2, <3>1
    <3> QED BY <1>2, <2>2, <3>2
  <2> QED BY <2>1, <2>2
<1>4. reduced \in SUBSET (Nat \X Nat)
    BY <1>2, <1>3
<1>5. /\ reductions' \in Seq(SUBSET (Nat \X Nat))
      /\ Len(reductions') = Len(reductions) + 1
      /\ \A k \in 1..Len(reductions) : reductions'[k] = reductions[k]
      /\ reductions'[Len(reductions) + 1] = reduced
    BY <1>1, <1>4, AppendProperties DEF ErrorTreeInv, Control
<1>6. Control'
    BY <1>1, <1>5 DEF ErrorTreeInv, Control, Stages
<1>7. ReductionsExact'
  <2>1. /\ Len(reductions) = n - 1 /\ DOMAIN reductions = 1..(n - 1)
        /\ DOMAIN reductions' = 1..n /\ Len(reductions') = n
      BY <1>1, <1>2, <1>5 DEF ErrorTreeInv, Control, ReductionsExact
  <2>2. ASSUME NEW k \in 1..n
        PROVE  reductions'[k] = {<<k, b>> : b \in 0..(widths[k] - 1)}
    <3>1. CASE k = n
        BY <1>3, <1>5, <2>1, <3>1
    <3>2. CASE k # n
      <4>1. k \in 1..(n - 1)
          BY <1>2, <3>2
      <4>2. k \in DOMAIN reductions
          BY <4>1, <2>1
      <4>3. reductions'[k] = reductions[k]
          BY <4>1, <2>1, <1>5
      <4> QED BY <4>2, <4>3 DEF ErrorTreeInv, ReductionsExact
    <3> QED BY <3>1, <3>2
  <2> QED BY <1>1, <2>1, <2>2 DEF ReductionsExact
<1>8. BuildProgress' /\ ChainCoversPrefix' /\ SinkComplete' /\ CopiesTyped'
    BY <1>1 DEF ErrorTreeInv, BuildProgress, ChainCoversPrefix, SinkComplete, CopiesTyped,
                VotedBits, Calls
<1> QED BY <1>6, <1>7, <1>8 DEF ErrorTreeInv

LEMMA StartFinaliseStep ==
    ASSUME ErrorTreeInv, NEW errWidth, StartFinalise(errWidth)
    PROVE  ErrorTreeInv'
<1>1. StartFinalise(errWidth)
    OBVIOUS
<1>2. /\ stage = "ready" /\ prev = {} /\ sink = {}
      /\ UNCHANGED <<widths, bit, size, intermediate, reductions, copies>>
    BY <1>1 DEF StartFinalise, ErrorTreeInv, SinkComplete
<1>3. /\ stage' \in {"aborted", "linked", "chaining"} /\ i' \in Nat
    BY <1>1 DEF StartFinalise, ErrorTreeInv, Control
<1>4. Control' /\ ReductionsExact' /\ BuildProgress' /\ CopiesTyped'
    BY <1>2, <1>3 DEF ErrorTreeInv, Control, Stages, ReductionsExact, BuildProgress,
                      CopiesTyped, VotedBits, Calls
<1>5. VotedBits' = VotedBits
    BY <1>2 DEF VotedBits, Calls
<1>6. ChainCoversPrefix' /\ SinkComplete'
  <2>1. CASE errWidth # 1
      BY <1>1, <1>2, <2>1 DEF StartFinalise, ChainCoversPrefix, SinkComplete
  <2>2. CASE errWidth = 1 /\ Len(reductions) = 1
    <3>1. stage' = "linked" /\ sink' = reductions[1] /\ prev' = {}
        BY <1>1, <1>2, <2>2 DEF StartFinalise
    <3>2. UNION {reductions[n] : n \in 1..Len(reductions)} = VotedBits
        BY <1>2, ReductionsCoverAll DEF ErrorTreeInv
    <3>3. sink' = VotedBits
        BY <2>2, <3>1, <3>2
    <3> QED BY <1>5, <3>1, <3>3 DEF ChainCoversPrefix, SinkComplete
  <2>3. CASE errWidth = 1 /\ Len(reductions) # 1
      BY <1>1, <1>2, <2>3 DEF StartFinalise, Unset, ChainCoversPrefix, SinkComplete
  <2> QED BY <2>1, <2>2, <2>3
<1> QED BY <1>4, <1>6 DEF ErrorTreeInv

(* What every step of finalise()'s loop leaves alone.                      *)
LEMMA ChainFrame ==
    ASSUME ErrorTreeInv, stage = "chaining",
           stage' \in {"chaining", "linked", "aborted"}, i' \in Nat,
           UNCHANGED <<widths, bit, size, intermediate, reductions, copies>>
    PROVE  /\ Control' /\ ReductionsExact' /\ BuildProgress' /\ CopiesTyped'
           /\ VotedBits' = VotedBits
BY DEF ErrorTreeInv, Control, Stages, ReductionsExact, BuildProgress, CopiesTyped,
       VotedBits, Calls

LEMMA InitialOrStep ==
    ASSUME ErrorTreeInv, InitialOr
    PROVE  ErrorTreeInv'
<1>1. /\ stage = "chaining" /\ stage' = "chaining" /\ i < Len(reductions) /\ prev = {}
      /\ prev' = reductions[1] \cup reductions[2] /\ i' = i + 1
      /\ UNCHANGED <<widths, bit, size, intermediate, reductions, sink, copies>>
    BY DEF InitialOr, Unset
<1>2. i = 1 /\ Len(reductions) \in Nat /\ DOMAIN reductions = 1..Len(reductions)
      /\ Len(reductions) = Len(widths)
    BY <1>1 DEF ErrorTreeInv, Control, ChainCoversPrefix, Unset, ReductionsExact
<1>3. /\ Control' /\ ReductionsExact' /\ BuildProgress' /\ CopiesTyped'
      /\ VotedBits' = VotedBits
    BY <1>1, <1>2, ChainFrame
<1>4. prev' = UNION {reductions[n] : n \in 1..2}
    BY <1>1
<1>5. prev' # {}
  <2>1. reductions[1] = {<<1, b>> : b \in 0..(widths[1] - 1)}
      BY <1>1, <1>2 DEF ErrorTreeInv, ReductionsExact
  <2>2. widths[1] \in Nat \ {0}
      BY <1>1, <1>2 DEF ErrorTreeInv, Control
  <2>3. <<1, 0>> \in reductions[1]
      BY <2>1, <2>2
  <2> QED BY <1>1, <2>3
<1>6. ChainCoversPrefix'
    BY <1>1, <1>2, <1>4, <1>5 DEF ChainCoversPrefix, Unset
<1>7. SinkComplete'
  <2>1. UNION {reductions[n] : n \in 1..Len(reductions)} = VotedBits
      BY <1>1, ReductionsCoverAll DEF ErrorTreeInv
  <2>2. prev' \subseteq VotedBits
      BY <1>1, <1>2, <2>1
  <2> QED BY <1>1, <1>3, <2>2 DEF ErrorTreeInv, SinkComplete
<1> QED BY <1>3, <1>6, <1>7 DEF ErrorTreeInv

LEMMA OrTreeStep ==
    ASSUME ErrorTreeInv, OrTree
    PROVE  ErrorTreeInv'
<1>1. /\ stage = "chaining" /\ stage' = "chaining" /\ i < Len(reductions) /\ prev # {}
      /\ prev' = prev \cup reductions[i + 1] /\ i' = i + 1
      /\ UNCHANGED <<widths, bit, size, intermediate, reductions, sink, copies>>
    BY DEF OrTree, Unset
<1>2. /\ i \in 2..Len(reductions) /\ prev = UNION {reductions[n] : n \in 1..i}
      /\ Len(reductions) \in Nat
    BY <1>1 DEF ErrorTreeInv, Control, ChainCoversPrefix, Unset
<1>3. /\ Control' /\ ReductionsExact' /\ BuildProgress' /\ CopiesTyped'
      /\ VotedBits' = VotedBits
    BY <1>1, <1>2, ChainFrame
<1>4. i + 1 \in 2..Len(reductions) /\ 1..(i + 1) = (1..i) \cup {i + 1}
    BY <1>1, <1>2
<1>5. prev' = UNION {reductions[n] : n \in 1..(i + 1)}
    BY <1>1, <1>2, <1>4
<1>6. ChainCoversPrefix'
    BY <1>1, <1>4, <1>5 DEF ChainCoversPrefix, Unset
<1>7. SinkComplete'
  <2>1. UNION {reductions[n] : n \in 1..Len(reductions)} = VotedBits
      BY <1>1, ReductionsCoverAll DEF ErrorTreeInv
  <2>2. reductions[i + 1] \subseteq VotedBits
      BY <1>2, <1>4, <2>1
  <2>3. prev' \subseteq VotedBits
      BY <1>1, <2>2 DEF ErrorTreeInv, SinkComplete
  <2> QED BY <1>1, <1>3, <2>3 DEF ErrorTreeInv, SinkComplete
<1> QED BY <1>3, <1>6, <1>7 DEF ErrorTreeInv

LEMMA LinkSinkStep ==
    ASSUME ErrorTreeInv, LinkSink
    PROVE  ErrorTreeInv'
<1>1. /\ stage = "chaining" /\ ~(i < Len(reductions))
      /\ UNCHANGED <<widths, bit, size, intermediate, reductions, prev, i, copies>>
    BY DEF LinkSink
<1>2. stage' \in {"linked", "aborted"} /\ i \in Nat
    BY DEF LinkSink, ErrorTreeInv, Control
<1>3. /\ Control' /\ ReductionsExact' /\ BuildProgress' /\ CopiesTyped'
      /\ VotedBits' = VotedBits
    BY <1>1, <1>2, ChainFrame
<1>4. ChainCoversPrefix'
    BY <1>2 DEF ChainCoversPrefix
<1>5. SinkComplete'
  <2>1. CASE prev = {}
      BY <1>1, <1>3, <2>1 DEF LinkSink, Unset, ErrorTreeInv, SinkComplete
  <2>2. CASE prev # {}
    <3>1. stage' = "linked" /\ sink' = prev
        BY <2>2 DEF LinkSink, Unset
    <3>2. i = Len(reductions) /\ prev = UNION {reductions[n] : n \in 1..i}
        BY <1>1, <2>2 DEF ErrorTreeInv, ChainCoversPrefix, Unset, Control
    <3>3. UNION {reductions[n] : n \in 1..Len(reductions)} = VotedBits
        BY <1>1, ReductionsCoverAll DEF ErrorTreeInv
    <3>4. sink' = VotedBits
        BY <3>1, <3>2, <3>3
    <3> QED BY <1>1, <1>3, <3>1, <3>4 DEF ErrorTreeInv, SinkComplete
  <2> QED BY <2>1, <2>2
<1> QED BY <1>3, <1>4, <1>5 DEF ErrorTreeInv

LEMMA ExerciseStep ==
    ASSUME ErrorTreeInv, Exercise
    PROVE  ErrorTreeInv'
<1>1. /\ stage = "linked" /\ stage' = "running"
      /\ copies' \in [VotedBits -> [a : BOOLEAN, b : BOOLEAN, c : BOOLEAN]]
      /\ UNCHANGED <<widths, bit, size, intermediate, reductions, prev, i, sink>>
    BY DEF Exercise
<1> QED BY <1>1 DEF ErrorTreeInv, Control, Stages, ReductionsExact, BuildProgress,
                    ChainCoversPrefix, SinkComplete, CopiesTyped, VotedBits, Calls

LEMMA ContinueStep ==
    ASSUME ErrorTreeInv, Continue
    PROVE  ErrorTreeInv'
BY VoteBitStep, ReduceStep, InitialOrStep, OrTreeStep, LinkSinkStep DEF Continue

LEMMA BuilderUnchanged ==
    ASSUME ErrorTreeInv, UNCHANGED vars
    PROVE  ErrorTreeInv'
BY DEF vars, ErrorTreeInv, Control, ReductionsExact, BuildProgress,
       ChainCoversPrefix, SinkComplete, CopiesTyped, VotedBits, Calls

LEMMA ErrorTreeStep == ErrorTreeInv /\ [Next]_vars => ErrorTreeInv'
<1>1. ASSUME ErrorTreeInv, CallBuild PROVE ErrorTreeInv'
  <2>1. PICK w \in 1..MaxWidth, out \in 1..MaxWidth : StartBuild(w, w, w, out)
      BY <1>1 DEF CallBuild
  <2>2. w \in Nat \ {0}
      BY BoundsAssumption
  <2> QED BY <1>1, <2>1, <2>2, StartBuildStep
<1>2. ASSUME ErrorTreeInv, CallFinalise PROVE ErrorTreeInv'
    BY <1>2, StartFinaliseStep DEF CallFinalise
<1> QED BY <1>1, <1>2, ContinueStep, ExerciseStep, BuilderUnchanged DEF Next

LEMMA ErrorTreeAlways == Spec => []ErrorTreeInv
BY ErrorTreeInit, ErrorTreeStep, PTL DEF Spec

-----------------------------------------------------------------------------
(* The wires of the error tree only ever OR the error bits of voters that  *)
(* were built.                                                             *)
THEOREM BuilderTypeCorrect == Spec => []TypeOK
BY ErrorTreeAlways, ErrorTreeTyped, PTL

(* Each call of build() leaves one reduction, over all error bits of its   *)
(* own voter, however many calls there are.                                *)
THEOREM ReductionPerVoter == Spec => []ReductionsExact
<1>1. ErrorTreeInv => ReductionsExact
    BY DEF ErrorTreeInv
<1> QED BY <1>1, ErrorTreeAlways, PTL

(* finalise() never skips a reduction nor takes one twice.                 *)
THEOREM ChainIsComplete == Spec => []ChainCoversPrefix
<1>1. ErrorTreeInv => ChainCoversPrefix
    BY DEF ErrorTreeInv
<1> QED BY <1>1, ErrorTreeAlways, PTL

(* However many voters of whatever width: one disagreeing copy anywhere is *)
(* enough to raise the sink, and nothing else raises it.                   *)
THEOREM SinkIsExact == Spec => []SinkReportsEveryUpset
<1>1. ErrorTreeInv => SinkReportsEveryUpset
  <2> SUFFICES ASSUME ErrorTreeInv, stage = "running"
               PROVE  (\E b \in sink : Err(b)) <=>
                      (\E b \in VotedBits : \/ copies[b].a # copies[b].b
                                            \/ copies[b].b # copies[b].c)
      BY DEF SinkReportsEveryUpset
  <2>1. sink = VotedBits
      BY DEF ErrorTreeInv, SinkComplete
  <2>2. ASSUME NEW b \in VotedBits
        PROVE  Err(b) <=> copies[b].a # copies[b].b \/ copies[b].b # copies[b].c
    <3>1. copies[b].a \in BOOLEAN /\ copies[b].b \in BOOLEAN /\ copies[b].c \in BOOLEAN
        BY <2>2 DEF ErrorTreeInv, CopiesTyped
    <3> QED BY <3>1, VoterMasks DEF Err
  <2> QED BY <2>1, <2>2
<1> QED BY <1>1, ErrorTreeAlways, PTL

(* With at most one copy of a bit upset, the voter's output is unaffected. *)
THEOREM UpsetIsMasked == Spec => []SingleUpsetMasked
<1>1. ErrorTreeInv => SingleUpsetMasked
  <2> SUFFICES ASSUME ErrorTreeInv, stage = "running", NEW b \in VotedBits
               PROVE  /\ copies[b].a = copies[b].b => Out(b) = copies[b].a
                      /\ copies[b].b = copies[b].c => Out(b) = copies[b].b
                      /\ copies[b].a = copies[b].c => Out(b) = copies[b].c
      BY DEF SingleUpsetMasked
  <2>1. copies[b].a \in BOOLEAN /\ copies[b].b \in BOOLEAN /\ copies[b].c \in BOOLEAN
      BY DEF ErrorTreeInv, CopiesTyped
  <2> QED BY <2>1, VoterMasks DEF Out
<1> QED BY <1>1, ErrorTreeAlways, PTL
=============================================================================
