------------------------- MODULE DebugCommandProofs -------------------------
(***************************************************************************)
(* Proofs about tamara_debug mkvoter, for voters of any width and any      *)
(* number of calls.                                                        *)
(*                                                                         *)
(* Each call runs the steps of a VoterBuilder of its own, so the invariant *)
(* of VoterBuilderProofs holds throughout; what is added is that the       *)
(* builder at hand has been asked for one voter at most, of the width      *)
(* given to the task.                                                      *)
(***************************************************************************)
EXTENDS DebugCommand, VoterBuilderProofs

OneVoterAtMost ==
    outcome = "running" =>
        /\ bits \in Nat \ {0}
        /\ widths = <<bits>> \/ (widths = <<>> /\ stage = "ready")

VotersTyped == voters \in Seq([bits : Nat, sink : SUBSET (Nat \X Nat)])

DebugInv ==
    /\ ErrorTreeInv
    /\ OneVoterAtMost
    /\ VotersTyped
    /\ VotersComplete

LEMMA DebugInit == InitDebug => DebugInv
<1> SUFFICES ASSUME InitDebug PROVE DebugInv
    OBVIOUS
<1>1. ErrorTreeInv
    BY ErrorTreeInit DEF InitDebug
<1>2. outcome = "none" /\ voters = <<>>
    BY DEF InitDebug
<1>3. VotersTyped /\ VotersComplete
    BY <1>2 DEF VotersTyped, VotersComplete
<1> QED BY <1>1, <1>2, <1>3 DEF DebugInv, OneVoterAtMost

(* A task that makes no voter leaves the builder and the modules alone.    *)
LEMMA OtherTaskStep ==
    ASSUME DebugInv, outcome' # "running", UNCHANGED <<vars, bits, voters>>
    PROVE  DebugInv'
<1>1. ErrorTreeInv'
    BY BuilderUnchanged DEF DebugInv
<1> QED BY <1>1 DEF DebugInv, OneVoterAtMost, VotersTyped, VotersComplete

LEMMA MakeVoterStep ==
    ASSUME DebugInv, MakeVoter
    PROVE  DebugInv'
<1>1. /\ stage' = "ready" /\ widths' = <<>> /\ bit' = 0 /\ size' = 0
      /\ intermediate' = {} /\ reductions' = <<>> /\ prev' = {} /\ i' = 0
      /\ sink' = {} /\ bits' \in 1..MaxWidth /\ voters' = voters
    BY DEF MakeVoter, Unset
<1>2. Control' /\ ReductionsExact'
    BY <1>1 DEF Control, Stages, ReductionsExact
<1>3. BuildProgress' /\ ChainCoversPrefix' /\ SinkComplete' /\ CopiesTyped'
    BY <1>1 DEF BuildProgress, ChainCoversPrefix, SinkComplete, CopiesTyped
<1>4. OneVoterAtMost'
    BY <1>1, BoundsAssumption DEF OneVoterAtMost
<1> QED BY <1>1, <1>2, <1>3, <1>4
        DEF DebugInv, ErrorTreeInv, VotersTyped, VotersComplete

LEMMA BuildVoterStep ==
    ASSUME DebugInv, BuildVoter
    PROVE  DebugInv'
<1>1. /\ outcome = "running" /\ widths = <<>> /\ StartBuild(bits, bits, bits, bits)
      /\ UNCHANGED <<outcome, bits, voters>>
    BY DEF BuildVoter, taskVars
<1>2. bits \in Nat \ {0}
    BY <1>1 DEF DebugInv, OneVoterAtMost
<1>3. ErrorTreeInv'
    BY <1>1, <1>2, StartBuildStep DEF DebugInv
<1>4. widths' = <<bits>>
    BY <1>1 DEF StartBuild
<1> QED BY <1>1, <1>2, <1>3, <1>4
        DEF DebugInv, OneVoterAtMost, VotersTyped, VotersComplete

LEMMA FinaliseVoterStep ==
    ASSUME DebugInv, FinaliseVoter
    PROVE  DebugInv'
<1>1. /\ outcome = "running" /\ widths # <<>> /\ StartFinalise(1)
      /\ UNCHANGED <<outcome, bits, voters>>
    BY DEF FinaliseVoter, taskVars
<1>2. ErrorTreeInv'
    BY <1>1, StartFinaliseStep DEF DebugInv
<1>3. widths = <<bits>> /\ widths' = widths
    BY <1>1 DEF DebugInv, OneVoterAtMost, StartFinalise
<1> QED BY <1>1, <1>2, <1>3
        DEF DebugInv, OneVoterAtMost, VotersTyped, VotersComplete

(* Loop turns do not start another voter.                                  *)
LEMMA InBuilderStep ==
    ASSUME DebugInv, InBuilder
    PROVE  DebugInv'
<1>1. /\ outcome = "running" /\ Continue /\ UNCHANGED <<outcome, bits, voters>>
    BY DEF InBuilder, taskVars
<1>2. ErrorTreeInv'
    BY <1>1, ContinueStep DEF DebugInv
<1>3. stage # "ready" /\ widths' = widths
    BY <1>1 DEF Continue, VoteBit, Reduce, InitialOr, OrTree, LinkSink
<1> QED BY <1>1, <1>2, <1>3
        DEF DebugInv, OneVoterAtMost, VotersTyped, VotersComplete

(* The linked sink covers the only voter there is.                         *)
LEMMA MadeVoterStep ==
    ASSUME DebugInv, MadeVoter
    PROVE  DebugInv'
<1> DEFINE made == [bits |-> bits, sink |-> sink]
<1>1. /\ outcome = "running" /\ stage = "linked" /\ outcome' = "completed"
      /\ voters' = Append(voters, made) /\ UNCHANGED vars
    BY DEF MadeVoter
<1>2. ErrorTreeInv'
    BY <1>1, BuilderUnchanged DEF DebugInv
<1>3. widths = <<bits>> /\ bits \in Nat
    BY <1>1 DEF DebugInv, OneVoterAtMost
<1>4. sink = {<<1, b>> : b \in 0..(bits - 1)}
  <2>1. sink = VotedBits
      BY <1>1 DEF DebugInv, ErrorTreeInv, SinkComplete
  <2>2. Calls = {1} /\ widths[1] = bits
      BY <1>3 DEF Calls
  <2> QED BY <2>1, <2>2 DEF VotedBits
<1>5. made \in [bits : Nat, sink : SUBSET (Nat \X Nat)]
    BY <1>3, <1>4
<1>6. /\ voters' \in Seq([bits : Nat, sink : SUBSET (Nat \X Nat)])
      /\ DOMAIN voters' = DOMAIN voters \cup {Len(voters) + 1}
      /\ \A n \in DOMAIN voters : voters'[n] = voters[n]
      /\ voters'[Len(voters) + 1] = made
    BY <1>1, <1>5 DEF DebugInv, VotersTyped
<1>7. VotersComplete'
  <2>1. ASSUME NEW n \in DOMAIN voters'
        PROVE  voters'[n].sink = {<<1, b>> : b \in 0..(voters'[n].bits - 1)}
    <3>1. CASE n \in DOMAIN voters
        BY <1>6, <3>1 DEF DebugInv, VotersComplete
    <3>2. CASE n = Len(voters) + 1
        BY <1>4, <1>6, <3>2
    <3> QED BY <1>6, <2>1, <3>1, <3>2
  <2> QED BY <2>1 DEF VotersComplete
<1> QED BY <1>1, <1>2, <1>6, <1>7 DEF DebugInv, OneVoterAtMost, VotersTyped

LEMMA DebugStep == DebugInv /\ [NextDebug]_<<vars, taskVars>> => DebugInv'
<1> SUFFICES ASSUME DebugInv, [NextDebug]_<<vars, taskVars>> PROVE DebugInv'
    OBVIOUS
<1>1. CASE WithoutTask \/ PrintCounts \/ Unhandled \/ ReplicateNot
    BY <1>1, OtherTaskStep DEF WithoutTask, PrintCounts, Unhandled, ReplicateNot
<1>2. CASE MakeVoter \/ MakesVoter
    BY <1>2, MakeVoterStep, BuildVoterStep, FinaliseVoterStep, InBuilderStep,
       MadeVoterStep DEF MakesVoter
<1>3. CASE UNCHANGED <<vars, taskVars>>
  <2>1. ErrorTreeInv'
      BY <1>3, BuilderUnchanged DEF DebugInv
  <2> QED BY <1>3, <2>1 DEF vars, taskVars, DebugInv, OneVoterAtMost, VotersTyped,
                            VotersComplete
<1> QED BY <1>1, <1>2, <1>3 DEF NextDebug

(* Every module that mkvoter makes has an error output that covers exactly *)
(* the bits of its one voter, whatever was made before in the process.     *)
THEOREM GeneratedVotersComplete == SpecDebug => []VotersComplete
<1>1. SpecDebug => []DebugInv
    BY DebugInit, DebugStep, PTL DEF SpecDebug
<1>2. DebugInv => VotersComplete
    BY DEF DebugInv
<1> QED BY <1>1, <1>2, PTL
=============================================================================
