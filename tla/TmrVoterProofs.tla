--------------------------- MODULE TmrVoterProofs ---------------------------
(***************************************************************************)
(* Proof that a voter stands on the three copies of its cut point, and on  *)
(* nothing else, on designs of any size.                                   *)
(*                                                                         *)
(* The argument: the voter's wires are new, so no connection of the design *)
(* and no other cell is on them (NamesFresh), and the rips put the cut     *)
(* point and its two replicas on one each.  What could still go wrong is   *)
(* that a wire has no bits (WidthsKnown: the search came to the cut point  *)
(* through the analysis, so it has something to drive), or that the cut    *)
(* point is a flip-flop and the root of its own cone, whose rip would then *)
(* take the wire of input c away from it.  But such a root was replicated  *)
(* with the cone it was queued by, and is not again; or else that cone was *)
(* empty, and then the flip-flop drives a port, at which no search goes on *)
(* to what lies behind (RootsSafe).                                        *)
(***************************************************************************)
EXTENDS TmrPassProofs

(* m1 is m with the one output of x put on a wire w.                       *)
MovedTo(m, m1, x, w) ==
    /\ DOMAIN m1.cells = DOMAIN m.cells
    /\ \A d \in DOMAIN m.cells : m1.cells[d].type = m.cells[d].type
    /\ \A d \in DOMAIN m.cells : m1.cells[d].cone = m.cells[d].cone
    /\ \A d \in DOMAIN m.cells \ {x} : m1.cells[d].outs = m.cells[d].outs
    /\ m1.cells[x].outs = <<Whole(w, Len(m.cells[x].outs[1]))>>
    /\ Len(m1.cells[x].outs) = 1
    /\ Len(m1.cells[x].outs[1]) = Len(m.cells[x].outs[1])
    /\ Len(m.cells[x].outs[1]) \in Nat
    /\ DOMAIN m1.wires = DOMAIN m.wires \cup {w}
    /\ m1.conns = m.conns

(* A cell's one output is a signal.                                        *)
LEMMA FirstOutLen ==
    ASSUME NEW m, IsNetlist(m), NEW c \in DOMAIN m.cells, Len(m.cells[c].outs) = 1
    PROVE  m.cells[c].outs[1] \in Signals(DOMAIN m.wires) /\ Len(m.cells[c].outs[1]) \in Nat
<1>1. m.cells[c] \in CellRecords(DOMAIN m.wires)
    BY DEF IsNetlist
<1>2. m.cells[c].outs \in Seq(Signals(DOMAIN m.wires))
    BY <1>1 DEF CellRecords
<1>3. m.cells[c].outs[1] \in Signals(DOMAIN m.wires)
    BY <1>2
<1> QED BY <1>3 DEF Signals

(* extractReplicaWire, as far as outputs are concerned.                    *)
LEMMA RipMoves ==
    ASSUME NEW m, IsGood(m), NEW x \in DOMAIN m.cells, Len(m.cells[x].outs) = 1,
           NEW k \in Nat, NEW m1, m1 = Rip(m, x, k)
    PROVE  MovedTo(m, m1, x, RipWire(k))
<1>1. IsNetlist(m)
    BY DEF IsGood
<1>2. /\ IsAdded(m, RipWire(k), Len(m.cells[x].outs[1]), m1)
      /\ DOMAIN m1.cells = DOMAIN m.cells
      /\ \A d \in DOMAIN m.cells \ {x} : m1.cells[d] = m.cells[d]
      /\ SameButOuts(m.cells[x], m1.cells[x])
      /\ m1.cells[x].outs = <<Whole(RipWire(k), Len(m.cells[x].outs[1]))>>
      /\ m1.conns = m.conns
    BY <1>1, RipFacts
<1>3. Len(m.cells[x].outs[1]) \in Nat
    BY <1>1, FirstOutLen
<1>4. Len(Whole(RipWire(k), Len(m.cells[x].outs[1]))) = Len(m.cells[x].outs[1])
    BY <1>3, WholeIsSignal
<1>5. Len(m1.cells[x].outs) = 1 /\ m1.cells[x].outs[1] = Whole(RipWire(k), Len(m.cells[x].outs[1]))
    BY <1>2
<1>6. \A d \in DOMAIN m.cells : m1.cells[d].type = m.cells[d].type
                               /\ m1.cells[d].cone = m.cells[d].cone
    BY <1>2 DEF SameButOuts
<1> QED BY <1>2, <1>3, <1>4, <1>5, <1>6 DEF MovedTo, IsAdded

(* The netlist before the voter is connected.  The cut point and its       *)
(* replicas have wires of their own, the voter's inputs; out_w is left to  *)
(* the voter.                                                              *)
IsSpliced(m) ==
    LET n == autoidx
        cut == voterCutPoint
        voter == <<"$voter", n>>
    IN  /\ DOMAIN m.cells = DOMAIN netlist.cells \cup {voter}
        /\ DOMAIN m.wires \subseteq DOMAIN netlist.wires
                               \cup {RipWire(n + k) : k \in 0..4} \cup {ErrWire(n)}
        /\ m.conns = netlist.conns
        /\ \A d \in DOMAIN netlist.cells \ {voter} :
              m.cells[d].type = netlist.cells[d].type /\ m.cells[d].cone = netlist.cells[d].cone
        /\ m.cells[voter].ins = [k \in 1..3 |-> Whole(RipWire(n + k), CutWidth)]
        /\ m.cells[voter].outs = <<Whole(RipWire(n), CutWidth), Whole(ErrWire(n), 1)>>
        /\ \A d \in DOMAIN netlist.cells
                      \ {voter, cut, Replica(cut, 1, id), Replica(cut, 2, id), outputNode} :
              m.cells[d].outs = netlist.cells[d].outs
        /\ \A r \in {1, 2} : m.cells[Replica(cut, r, id)].outs
                = <<Whole(RipWire(n + r), Len(netlist.cells[Replica(cut, r, id)].outs[1]))>>
        /\ cut # outputNode => m.cells[cut].outs = <<Whole(RipWire(n + 3), CutWidth)>>
        /\ outputNode \in FFs => m.cells[outputNode].outs
                = <<Whole(RipWire(n + 4), Len(netlist.cells[outputNode].outs[1]))>>

(* insertVoter puts five wires, a voter and its err wire in: who drives    *)
(* which.                                                                  *)
LEMMA SplicedFacts ==
    ASSUME IsGood(netlist), autoidx \in Nat, id \in Nat, CutPointReady, RootReady,
           Len(netlist.cells[voterCutPoint].outs) = 1
    PROVE  IsSpliced(Spliced)
<1> DEFINE n == autoidx
           n1 == n + 1
           n2 == n + 2
           n3 == n + 3
           n4 == n + 4
           cut == voterCutPoint
           r1 == Replica(cut, 1, id)
           r2 == Replica(cut, 2, id)
           voter == <<"$voter", n>>
           root == outputNode
           a == Rip(netlist, cut, n)
           b == Rip(a, r1, n1)
           c == Rip(b, r2, n2)
           d == Rip(c, cut, n3)
           e == AddVoter(d, n, CutWidth)
<1>1. /\ {cut, r1, r2} \subseteq DOMAIN netlist.cells \ Generated
      /\ cut \in Names /\ r1 \notin Names /\ r2 \notin Names
      /\ r1 # r2 /\ r1 # cut /\ r2 # cut
  <2>1. cut \in Names
      BY DEF CutPointReady, Names
  <2>2. /\ r1 \notin Names \cup Generated /\ r2 \notin Names \cup Generated
        /\ r1[2] = 1 /\ r2[2] = 2
      BY <2>1, ReplicaNames
  <2>3. cut \notin Generated
      BY <2>1, GeneratedNames
  <2> QED BY <2>1, <2>2, <2>3 DEF CutPointReady
<1>2. \A x \in {cut, r1, r2} : Len(netlist.cells[x].outs) = 1
    BY DEF CutPointReady
<1>3. n \in Nat /\ n1 \in Nat /\ n2 \in Nat /\ n3 \in Nat /\ n4 \in Nat
    OBVIOUS
<1>4. Spliced = ExtractRoot(e, n4)
    BY DEF Spliced, RipCutPoint
<1>5. CutWidth = Len(netlist.cells[cut].outs[1])
    BY DEF CutWidth
<1>6. /\ voter \in Generated /\ voter \notin {cut, r1, r2}
      /\ root \notin {r1, r2, voter}
  <2>1. voter \in Generated
      BY <1>3, GeneratedByName
  <2>2. root \in Names
      BY NameAssumption DEF RootReady, Names
  <2> QED BY <1>1, <2>1, <2>2, GeneratedNames
<1> HIDE DEF cut, r1, r2, a, b, c, d, e, n, n1, n2, n3, n4, voter, root
<1>7. IsGood(a) /\ MovedTo(netlist, a, cut, RipWire(n))
    BY <1>1, <1>2, <1>3, RipEdits, RipMoves DEF a
<1>8. IsGood(b) /\ MovedTo(a, b, r1, RipWire(n1))
  <2>1. r1 \in DOMAIN a.cells \ Generated /\ Len(a.cells[r1].outs) = 1
      BY <1>1, <1>2, <1>7 DEF MovedTo
  <2> QED BY <1>3, <1>7, <2>1, RipEdits, RipMoves DEF b
<1>9. IsGood(c) /\ MovedTo(b, c, r2, RipWire(n2))
  <2>1. r2 \in DOMAIN b.cells \ Generated /\ Len(b.cells[r2].outs) = 1
      BY <1>1, <1>2, <1>7, <1>8 DEF MovedTo
  <2> QED BY <1>3, <1>8, <2>1, RipEdits, RipMoves DEF c
<1>10. IsGood(d) /\ MovedTo(c, d, cut, RipWire(n3))
  <2>1. cut \in DOMAIN c.cells \ Generated /\ Len(c.cells[cut].outs) = 1
      BY <1>1, <1>7, <1>8, <1>9 DEF MovedTo
  <2> QED BY <1>3, <1>9, <2>1, RipEdits, RipMoves DEF d
<1>11. /\ DOMAIN d.cells = DOMAIN netlist.cells
       /\ d.conns = netlist.conns
       /\ DOMAIN d.wires = DOMAIN netlist.wires
                             \cup {RipWire(n), RipWire(n1), RipWire(n2), RipWire(n3)}
       /\ \A x \in DOMAIN netlist.cells :
             d.cells[x].type = netlist.cells[x].type /\ d.cells[x].cone = netlist.cells[x].cone
  <2>1. /\ DOMAIN b.cells = DOMAIN netlist.cells
        /\ b.conns = netlist.conns
        /\ DOMAIN b.wires = DOMAIN netlist.wires \cup {RipWire(n), RipWire(n1)}
        /\ \A x \in DOMAIN netlist.cells :
              b.cells[x].type = netlist.cells[x].type /\ b.cells[x].cone = netlist.cells[x].cone
      BY <1>7, <1>8 DEF MovedTo
  <2> QED BY <1>9, <1>10, <2>1 DEF MovedTo
<1>12. /\ \A x \in DOMAIN netlist.cells \ {cut, r1, r2} :
              d.cells[x].outs = netlist.cells[x].outs
       /\ d.cells[cut].outs = <<Whole(RipWire(n3), CutWidth)>>
       /\ d.cells[r1].outs = <<Whole(RipWire(n1), Len(netlist.cells[r1].outs[1]))>>
       /\ d.cells[r2].outs = <<Whole(RipWire(n2), Len(netlist.cells[r2].outs[1]))>>
  <2>1. /\ DOMAIN b.cells = DOMAIN netlist.cells
        /\ \A x \in DOMAIN netlist.cells \ {cut, r1} : b.cells[x].outs = netlist.cells[x].outs
        /\ b.cells[r1].outs = <<Whole(RipWire(n1), Len(netlist.cells[r1].outs[1]))>>
        /\ Len(b.cells[cut].outs[1]) = CutWidth
      BY <1>1, <1>5, <1>7, <1>8 DEF MovedTo
  <2> QED BY <1>1, <1>9, <1>10, <2>1 DEF MovedTo
<1>13. CutWidth \in Nat
    BY <1>5, <1>7 DEF MovedTo
<1>14. n + 0 = n /\ n + 1 = n1 /\ n + 2 = n2 /\ n + 3 = n3 /\ n + 4 = n4
       /\ 0..3 = {0, 1, 2, 3} /\ 0..4 = {0, 1, 2, 3, 4}
    BY <1>3 DEF n1, n2, n3, n4
<1>15. /\ IsGood(e)
       /\ DOMAIN e.cells = DOMAIN d.cells \cup {voter}
       /\ \A x \in DOMAIN d.cells \ {voter} : e.cells[x] = d.cells[x]
       /\ IsAdded(d, ErrWire(n), 1, e)
       /\ e.cells[voter].ins = [k \in 1..3 |-> Whole(RipWire(n + k), CutWidth)]
       /\ e.cells[voter].outs = <<Whole(RipWire(n), CutWidth), Whole(ErrWire(n), 1)>>
       /\ e.conns = d.conns
  <2>1. \A k \in 0..3 : RipWire(n + k) \in DOMAIN d.wires
      BY <1>11, <1>14
  <2> QED BY <1>3, <1>10, <1>13, <2>1, AddVoterEdits DEF e, voter
<1>16. DOMAIN e.wires = DOMAIN netlist.wires \cup {ErrWire(n)}
                             \cup {RipWire(n), RipWire(n1), RipWire(n2), RipWire(n3)}
    BY <1>11, <1>15 DEF IsAdded
<1>17. {RipWire(n + k) : k \in 0..4}
            = {RipWire(n), RipWire(n1), RipWire(n2), RipWire(n3), RipWire(n4)}
    BY <1>14
<1>18. /\ DOMAIN Spliced.cells = DOMAIN e.cells
       /\ DOMAIN Spliced.wires \subseteq DOMAIN e.wires \cup {RipWire(n4)}
       /\ Spliced.conns = e.conns
       /\ Spliced.cells[voter].ins = e.cells[voter].ins
       /\ \A x \in DOMAIN e.cells : Spliced.cells[x].type = e.cells[x].type
                                   /\ Spliced.cells[x].cone = e.cells[x].cone
       /\ \A x \in DOMAIN e.cells \ {root} : Spliced.cells[x].outs = e.cells[x].outs
       /\ root \in FFs => Spliced.cells[root].outs
                             = <<Whole(RipWire(n4), Len(e.cells[root].outs[1]))>>
       /\ root \notin FFs => Spliced = e
  <2>1. CASE root \in FFs
    <3>1. Spliced = Rip(e, root, n4)
        BY <1>4, <2>1 DEF ExtractRoot, root
    <3>2. root \in DOMAIN e.cells /\ Len(e.cells[root].outs) = 1
      <4>1. root \in DOMAIN netlist.cells
          BY <2>1, NameAssumption DEF RootReady, root
      <4> QED BY <1>11, <1>15, <2>1, <4>1 DEF IsGood
    <3>3. MovedTo(e, Spliced, root, RipWire(n4))
        BY <1>3, <1>15, <3>1, <3>2, RipMoves
    <3>4. Spliced.cells[voter].ins = e.cells[voter].ins
      <4>1. IsNetlist(e)
          BY <1>15 DEF IsGood
      <4>2. \A x \in DOMAIN e.cells \ {root} : Spliced.cells[x] = e.cells[x]
          BY <1>3, <3>1, <3>2, <4>1, RipFacts
      <4> QED BY <1>6, <1>15, <4>2
    <3> QED BY <2>1, <3>3, <3>4 DEF MovedTo
  <2>2. CASE root \notin FFs
    <3>1. Spliced = e
        BY <1>4, <2>2 DEF ExtractRoot, root
    <3> QED BY <2>2, <3>1
  <2> QED BY <2>1, <2>2
<1>19. Len(Whole(RipWire(n3), CutWidth)) = CutWidth
    BY <1>13, WholeIsSignal
<1>20. root \in FFs => Len(e.cells[root].outs[1]) = Len(netlist.cells[root].outs[1])
  <2> SUFFICES ASSUME root \in FFs
               PROVE  Len(e.cells[root].outs[1]) = Len(netlist.cells[root].outs[1])
      OBVIOUS
  <2>1. root \in DOMAIN netlist.cells
      BY NameAssumption DEF RootReady, root
  <2>2. e.cells[root].outs = d.cells[root].outs
      BY <1>6, <1>11, <1>15, <2>1
  <2>3. CASE root = cut
    <3>1. e.cells[root].outs[1] = Whole(RipWire(n3), CutWidth)
        BY <1>12, <2>2, <2>3
    <3> QED BY <1>5, <1>19, <2>3, <3>1
  <2>4. CASE root # cut
      BY <1>6, <1>12, <2>1, <2>2, <2>4
  <2> QED BY <2>3, <2>4
<1>21. /\ DOMAIN Spliced.cells = DOMAIN netlist.cells \cup {voter}
       /\ DOMAIN Spliced.wires \subseteq DOMAIN netlist.wires
                               \cup {RipWire(n + k) : k \in 0..4} \cup {ErrWire(n)}
       /\ Spliced.conns = netlist.conns
       /\ \A x \in DOMAIN netlist.cells \ {voter} :
             /\ Spliced.cells[x].type = netlist.cells[x].type
             /\ Spliced.cells[x].cone = netlist.cells[x].cone
       /\ Spliced.cells[voter].ins = [k \in 1..3 |-> Whole(RipWire(n + k), CutWidth)]
  <2>1. DOMAIN Spliced.cells = DOMAIN netlist.cells \cup {voter}
      BY <1>11, <1>15, <1>18
  <2>2. DOMAIN Spliced.wires \subseteq DOMAIN netlist.wires
                               \cup {RipWire(n + k) : k \in 0..4} \cup {ErrWire(n)}
      BY <1>16, <1>17, <1>18
  <2>3. Spliced.conns = netlist.conns
      BY <1>11, <1>15, <1>18
  <2>4. ASSUME NEW x \in DOMAIN netlist.cells \ {voter}
        PROVE  /\ Spliced.cells[x].type = netlist.cells[x].type
               /\ Spliced.cells[x].cone = netlist.cells[x].cone
      BY <1>11, <1>15, <1>18
  <2>5. Spliced.cells[voter].ins = [k \in 1..3 |-> Whole(RipWire(n + k), CutWidth)]
      BY <1>15, <1>18
  <2> QED BY <2>1, <2>2, <2>3, <2>4, <2>5
<1>22. /\ Spliced.cells[voter].outs = <<Whole(RipWire(n), CutWidth), Whole(ErrWire(n), 1)>>
       /\ \A x \in DOMAIN netlist.cells \ {voter, cut, r1, r2, root} :
             Spliced.cells[x].outs = netlist.cells[x].outs
       /\ Spliced.cells[r1].outs = <<Whole(RipWire(n1), Len(netlist.cells[r1].outs[1]))>>
       /\ Spliced.cells[r2].outs = <<Whole(RipWire(n2), Len(netlist.cells[r2].outs[1]))>>
       /\ cut # root => Spliced.cells[cut].outs = <<Whole(RipWire(n3), CutWidth)>>
       /\ root \in FFs => Spliced.cells[root].outs
                             = <<Whole(RipWire(n4), Len(netlist.cells[root].outs[1]))>>
    BY <1>1, <1>6, <1>11, <1>12, <1>15, <1>18, <1>20
<1>23. \A r \in {1, 2} : Spliced.cells[Replica(cut, r, id)].outs
             = <<Whole(RipWire(n + r), Len(netlist.cells[Replica(cut, r, id)].outs[1]))>>
    BY <1>14, <1>22 DEF r1, r2
<1> QED BY <1>14, <1>21, <1>22, <1>23 DEF IsSpliced, n, cut, voter, root, r1, r2

-----------------------------------------------------------------------------
(* A net that no connection touches is the bits it is made of.             *)
LEMMA UntouchedNet ==
    ASSUME NEW B, NEW conns, IsFiniteSet(conns),
           \A k \in conns : \A n \in DOMAIN k[1] : k[1][n] \notin B /\ k[2][n] \notin B
    PROVE  Net(B, conns) = B
<1> DEFINE N == Cardinality(conns)
           Touched(k, S) == {n \in DOMAIN k[1] : k[1][n] \in S \/ k[2][n] \in S}
           Step(S) == S \cup
               UNION {UNION {{k[1][n], k[2][n]} : n \in Touched(k, S)} : k \in conns}
           Grow[n \in 0..N] == IF n = 0 THEN B ELSE Step(Grow[n - 1])
<1>1. N \in Nat
    BY FS_CardinalityType
<1>2. Net(B, conns) = Grow[N]
    BY DEF Net
<1>3. Step(B) = B
  <2>1. \A k \in conns : Touched(k, B) = {}
      OBVIOUS
  <2> QED BY <2>1
<1> HIDE DEF Step
<1> DEFINE f == [n \in 0..N |-> B]
<1>4. f = [n \in 0..N |-> IF n = 0 THEN B ELSE Step(f[n - 1])]
  <2>1. \A n \in 0..N : n # 0 => n - 1 \in 0..N
      BY <1>1
  <2>2. \A n \in 0..N : n # 0 => Step(f[n - 1]) = B
      BY <1>3, <2>1
  <2> QED BY <2>2
<1>5. Grow = [n \in 0..N |-> IF n = 0 THEN B ELSE Step(Grow[n - 1])]
  <2> HIDE DEF f
  <2> QED BY <1>4
<1> HIDE DEF Grow, N
<1>6. \A n \in 0..N : Grow[n] = B
  <2> DEFINE T == {n \in 0..N : Grow[n] # B}
  <2> SUFFICES ASSUME T # {} PROVE FALSE
      OBVIOUS
  <2>1. T \in SUBSET Nat
      BY <1>1
  <2>2. PICK x \in T : \A y \in T : x <= y
      BY <2>1, LeastNumber
  <2>3. x # 0
      BY <1>1, <1>5
  <2>4. x - 1 \in 0..N /\ x - 1 \notin T
      BY <1>1, <2>2, <2>3
  <2>5. Grow[x] = Step(Grow[x - 1])
      BY <1>5, <2>3
  <2> QED BY <1>3, <2>4, <2>5
<1>7. N \in 0..N
    BY <1>1
<1> QED BY <1>2, <1>6, <1>7

-----------------------------------------------------------------------------
(* What the voter needs beyond PassInv.  First, about names and widths.    *)
NamesFresh ==
    \A y \in DOMAIN netlist.cells \cup DOMAIN netlist.wires :
        y \in Generated => y[2] < autoidx

(* The analysis has a cell behind a wire because its output was there.     *)
WidthsKnown ==
    \A w \in DOMAIN connections, c \in Cells :
        c \in connections[w] /\ Len(netlist.cells[c].outs) = 1
            => Len(netlist.cells[c].outs[1]) > 0

(* A flip-flop has one output, so it lies behind one wire only.            *)
DriveOne ==
    \A f \in FFs, v, w \in DOMAIN connections :
        f \in connections[v] /\ f \in connections[w] => v = w

(* What most steps leave as it is.                                         *)
OutWidthsStay ==
    \A c \in DOMAIN netlist.cells \cap Cells :
        Len(netlist.cells[c].outs) = 1
            => Len(netlist'.cells[c].outs[1]) = Len(netlist.cells[c].outs[1])

(* Only insertVoter adds voters.                                           *)
NoVoterAdded ==
    \A v \in DOMAIN netlist'.cells \ DOMAIN netlist.cells :
        netlist'.cells[v].type # "voter"

(* A generated name holds its number.                                      *)
LEMMA GeneratedNumbers ==
    ASSUME NEW n \in Nat
    PROVE  /\ RipWire(n)[2] = n /\ ErrWire(n)[2] = n /\ FixWire(n)[2] = n
           /\ <<"$voter", n>>[2] = n /\ <<"$or", n>>[2] = n
           /\ \A y \in Generated : y[2] \in Nat
BY DEF RipWire, ErrWire, FixWire, Generated

(* Names stay fresh if new ones are numbered up to the new autoidx.        *)
LEMMA NamesStayFresh ==
    ASSUME NamesFresh, autoidx \in Nat, autoidx' \in Nat, autoidx <= autoidx',
           \A y \in (DOMAIN netlist'.cells \cup DOMAIN netlist'.wires) \cap Generated :
              \/ y \in DOMAIN netlist.cells \cup DOMAIN netlist.wires
              \/ y[2] < autoidx'
    PROVE  NamesFresh'
<1> SUFFICES ASSUME NEW y \in DOMAIN netlist'.cells \cup DOMAIN netlist'.wires, y \in Generated
             PROVE  y[2] < autoidx'
    BY DEF NamesFresh
<1>1. y[2] \in Nat
    BY GeneratedNumbers
<1>2. CASE y \in DOMAIN netlist.cells \cup DOMAIN netlist.wires
  <2>1. y[2] < autoidx
      BY <1>2 DEF NamesFresh
  <2> QED BY <1>1, <2>1
<1>3. CASE y[2] < autoidx'
    BY <1>3
<1> QED BY <1>2, <1>3

(* Prepare adds nothing, and no output changes its width.                  *)
LEMMA PrepareFrame ==
    ASSUME IsGood(netlist), autoidx \in Nat, NamesFresh, Prepare
    PROVE  NamesFresh' /\ OutWidthsStay /\ NoVoterAdded
<1>1. /\ netlist' = [netlist EXCEPT !.cells = MarkMemoriesIgnored(@)]
      /\ autoidx' = autoidx
    BY DEF Prepare
<1>2. /\ netlist'.wires = netlist.wires
      /\ DOMAIN netlist'.cells = DOMAIN netlist.cells
      /\ \A c \in DOMAIN netlist.cells : netlist'.cells[c].outs = netlist.cells[c].outs
    BY <1>1, MarkMemoriesEdits
<1> QED BY <1>1, <1>2 DEF NamesFresh, OutWidthsStay, NoVoterAdded

(* Nor does replicate: its copies are not generated, and no voters.        *)
LEMMA ReplicateFrame ==
    ASSUME IsGood(netlist), id \in Nat, autoidx \in Nat, NamesFresh,
           Replicate, ToReplicate \subseteq Own
    PROVE  NamesFresh' /\ OutWidthsStay /\ NoVoterAdded
<1>1. /\ NetStep
      /\ DOMAIN netlist'.cells \cap Generated = DOMAIN netlist.cells \cap Generated
      /\ DOMAIN netlist'.wires \cap Generated = DOMAIN netlist.wires \cap Generated
      /\ \A c \in DOMAIN netlist.cells : netlist'.cells[c].outs = netlist.cells[c].outs
    BY ReplicateNetStep
<1>2. autoidx' = autoidx
    BY DEF Replicate
<1>3. NamesFresh'
    BY <1>1, <1>2 DEF NamesFresh
<1>4. NoVoterAdded
    BY <1>1 DEF NoVoterAdded, NetStep, IsGood
<1> QED BY <1>1, <1>3, <1>4 DEF OutWidthsStay

(* The fixer puts outputs on wires of the old width.                       *)
LEMMA RewireFrame ==
    ASSUME IsGood(netlist), autoidx \in Nat, NamesFresh,
           fixTodo \subseteq DOMAIN netlist.wires, Rewire
    PROVE  NamesFresh' /\ OutWidthsStay /\ NoVoterAdded
<1>1. PICK w \in fixTodo :
        \E l1, l2 \in fixConnections[w], r1, r2 \in InverseLookup(fixConnections, w) :
              /\ IsReplica(l1, 1) /\ IsReplica(r1, 1)
              /\ IsReplica(l2, 2) /\ IsReplica(r2, 2)
              /\ CanReconnect(netlist, w, l1, r1) /\ CanReconnect(netlist, w, l2, r2)
              /\ netlist' = Reconnect(Reconnect(netlist, w, l1, r1, FixWire(autoidx)),
                                      w, l2, r2, FixWire(autoidx + 1))
    BY DEF Rewire
<1>2. PICK l1, l2, r1, r2 :
              /\ IsReplica(l1, 1) /\ IsReplica(l2, 2)
              /\ CanReconnect(netlist, w, l1, r1) /\ CanReconnect(netlist, w, l2, r2)
              /\ netlist' = Reconnect(Reconnect(netlist, w, l1, r1, FixWire(autoidx)),
                                      w, l2, r2, FixWire(autoidx + 1))
    BY <1>1
<1> DEFINE m1 == Reconnect(netlist, w, l1, r1, FixWire(autoidx))
           n == autoidx + 1
<1>3. /\ {l1, l2, r1, r2} \subseteq DOMAIN netlist.cells
      /\ l1 \notin Cells /\ l2 \notin Cells
      /\ w \in DOMAIN netlist.wires /\ n \in Nat /\ autoidx' = n + 1
  <2>1. Len(l1) = 3 /\ Len(l2) = 3
      BY <1>2 DEF IsReplica
  <2>2. l1 \notin Cells /\ l2 \notin Cells
      BY <2>1, NameAssumption
  <2>3. autoidx' = autoidx + 2
      BY DEF Rewire
  <2> QED BY <1>2, <2>2, <2>3 DEF CanReconnect
<1>4. netlist' = Reconnect(m1, w, l2, r2, FixWire(n))
    BY <1>2
<1>5. l1 \in DOMAIN netlist.cells /\ r1 \in DOMAIN netlist.cells /\ IsNetlist(netlist)
    BY <1>3 DEF IsGood
<1> HIDE DEF m1, n
<1>6. /\ IsNetlist(m1)
      /\ IsAdded(netlist, FixWire(autoidx), netlist.wires[w].width, m1)
      /\ DOMAIN m1.cells = DOMAIN netlist.cells
      /\ \A d \in DOMAIN netlist.cells : d # l1 => m1.cells[d].outs = netlist.cells[d].outs
    BY <1>3, <1>5, ReconnectFacts DEF m1
<1>7. w \in DOMAIN m1.wires /\ l2 \in DOMAIN m1.cells /\ r2 \in DOMAIN m1.cells
    BY <1>3, <1>6 DEF IsAdded
<1>8. /\ IsAdded(m1, FixWire(n), m1.wires[w].width, netlist')
      /\ DOMAIN netlist'.cells = DOMAIN m1.cells
      /\ \A d \in DOMAIN m1.cells : d # l2 => netlist'.cells[d].outs = m1.cells[d].outs
    BY <1>4, <1>6, <1>7, ReconnectFacts
<1>9. /\ DOMAIN netlist'.cells = DOMAIN netlist.cells
      /\ DOMAIN netlist'.wires = DOMAIN netlist.wires \cup {FixWire(autoidx), FixWire(n)}
      /\ \A d \in DOMAIN netlist.cells \cap Cells : netlist'.cells[d].outs = netlist.cells[d].outs
    BY <1>3, <1>6, <1>8 DEF IsAdded
<1>10. NamesFresh'
  <2>1. /\ autoidx' \in Nat /\ autoidx <= autoidx'
        /\ FixWire(autoidx)[2] < autoidx' /\ FixWire(n)[2] < autoidx'
      BY <1>3, GeneratedNumbers DEF n
  <2> QED BY <1>9, <2>1, NamesStayFresh
<1> QED BY <1>9, <1>10 DEF OutWidthsStay, NoVoterAdded

(* The OR at the sink takes a number, and is no voter.                     *)
LEMMA FinaliseFrame ==
    ASSUME IsGood(netlist), autoidx \in Nat, NamesFresh, Finalise
    PROVE  NamesFresh' /\ OutWidthsStay /\ NoVoterAdded
<1> DEFINE or == <<"$or", autoidx>>
<1>1. /\ netlist' = [netlist EXCEPT !.cells = With(@, or, SinkOr)]
      /\ autoidx' = autoidx + 1
    BY DEF Finalise, SinkCell
<1>2. SinkOr.type = "or"
    BY DEF SinkOr
<1>3. or \in Generated /\ or[2] = autoidx
    BY GeneratedByName, GeneratedNumbers
<1> HIDE DEF or
<1>4. netlist \in [cells : [DOMAIN netlist.cells -> CellRecords(DOMAIN netlist.wires)],
                   wires : [DOMAIN netlist.wires -> WireRecords],
                   conns : SUBSET (Signals(DOMAIN netlist.wires) \X Signals(DOMAIN netlist.wires))]
    BY DEF IsGood, IsNetlist
<1>5. /\ netlist'.cells = With(netlist.cells, or, SinkOr)
      /\ netlist'.wires = netlist.wires
    BY <1>1, <1>4
<1>6. /\ DOMAIN netlist'.cells = DOMAIN netlist.cells \cup {or}
      /\ netlist'.cells[or] = SinkOr
      /\ \A c \in DOMAIN netlist.cells : c # or => netlist'.cells[c] = netlist.cells[c]
    BY <1>5 DEF With
<1>7. or \notin Cells
    BY <1>3, GeneratedNames DEF Names
<1>8. NamesFresh'
  <2>1. autoidx' \in Nat /\ autoidx <= autoidx' /\ or[2] < autoidx'
      BY <1>1, <1>3
  <2> QED BY <1>5, <1>6, <2>1, NamesStayFresh
<1> QED BY <1>2, <1>6, <1>7, <1>8 DEF OutWidthsStay, NoVoterAdded

-----------------------------------------------------------------------------
(* Signals that are on one wire, and signals that no bit of it is in.      *)
OnWire(s, w) == Range(s) \subseteq {w} \X Nat /\ Range(s) # {}
OffWire(s, w) == Range(s) \cap ({w} \X Nat) = {}

(* The bits of a wire are on it, and on no other.                          *)
LEMMA WholeOnWire ==
    ASSUME NEW w, NEW n \in Nat
    PROVE  /\ n > 0 => OnWire(Whole(w, n), w)
           /\ \A v : v # w => OffWire(Whole(w, n), v)
<1>1. \A k \in 1..n : Whole(w, n)[k] \in {w} \X Nat
    BY DEF Whole
<1>2. DOMAIN Whole(w, n) = 1..n
    BY DEF Whole
<1>3. Range(Whole(w, n)) \subseteq {w} \X Nat
    BY <1>1, <1>2 DEF Range
<1>4. n > 0 => Range(Whole(w, n)) # {}
  <2>1. n > 0 => 1 \in 1..n
      OBVIOUS
  <2> QED BY <1>2, <2>1 DEF Range
<1> QED BY <1>3, <1>4 DEF OnWire, OffWire

(* A wire has as many bits as it is wide.                                  *)
LEMMA WholeLen ==
    ASSUME NEW w, NEW n \in Nat
    PROVE  Len(Whole(w, n)) = n
<1>1. w \in {w}
    OBVIOUS
<1> QED BY <1>1, WholeIsSignal

(* A signal has no bits of a wire that is not there yet.                   *)
LEMMA OldSignalsOff ==
    ASSUME NEW wires, NEW w, w \notin wires, NEW s \in Signals(wires)
    PROVE  OffWire(s, w)
<1>1. \A k \in DOMAIN s : s[k] \in {Constant} \cup (wires \X Nat)
    BY DEF Signals
<1>2. Constant \notin {w} \X Nat
    BY DEF Constant
<1> QED BY <1>1, <1>2 DEF OffWire, Range

(* A wire that no connection touches has the drivers put on it.            *)
LEMMA OneDriver ==
    ASSUME NEW m, IsNetlist(m), NEW w, NEW s, OnWire(s, w),
           \A k \in m.conns : OffWire(k[1], w) /\ OffWire(k[2], w),
           NEW d \in DOMAIN m.cells, m.cells[d].outs = <<s>>,
           \A c \in DOMAIN m.cells \ {d} : \A t \in Range(m.cells[c].outs) : OffWire(t, w)
    PROVE  DriversOfSignal(m, s) = {d}
<1>1. Net(Range(s), m.conns) = Range(s)
  <2>1. ASSUME NEW k \in m.conns, NEW n \in DOMAIN k[1]
        PROVE  k[1][n] \notin Range(s) /\ k[2][n] \notin Range(s)
    <3>1. /\ k[1] \in Signals(DOMAIN m.wires) /\ k[2] \in Signals(DOMAIN m.wires)
          /\ Len(k[1]) = Len(k[2])
        BY DEF IsNetlist
    <3>2. n \in DOMAIN k[2]
        BY <3>1 DEF Signals
    <3>3. k[1][n] \in Range(k[1]) /\ k[2][n] \in Range(k[2])
        BY <3>2 DEF Range
    <3> QED BY <3>3 DEF OnWire, OffWire
  <2>2. IsFiniteSet(m.conns)
      BY DEF IsNetlist
  <2> QED BY <2>1, <2>2, UntouchedNet
<1>2. Range(m.cells[d].outs) = {s}
    BY DEF Range
<1>3. \A c \in DOMAIN m.cells \ {d} : \A t \in Range(m.cells[c].outs) :
          Range(t) \cap Range(s) = {}
    BY DEF OnWire, OffWire
<1>4. Range(s) \cap Range(s) # {}
    BY DEF OnWire
<1> QED BY <1>1, <1>2, <1>3, <1>4 DEF DriversOfSignal, NetDrivers

(* What the cells of the spliced netlist drive: the four wires around the  *)
(* voter have one driver each.                                             *)
Owner(j) ==
    CASE j = 0 -> <<"$voter", autoidx>>
      [] j = 1 -> Replica(voterCutPoint, 1, id)
      [] j = 2 -> Replica(voterCutPoint, 2, id)
      [] j = 3 -> voterCutPoint

(* No one else drives any of a voter's wires.  Here it matters that the    *)
(* cut point is not the root: else the root's rip would take the wire of   *)
(* input c away from it.                                                   *)
LEMMA OthersStayOff ==
    ASSUME IsGood(netlist), autoidx \in Nat, id \in Nat, CutPointReady, RootReady,
           NamesFresh, Len(netlist.cells[voterCutPoint].outs) = 1,
           voterCutPoint # outputNode, NEW j \in 0..3,
           NEW c \in DOMAIN Spliced.cells, c # Owner(j),
           NEW t \in Range(Spliced.cells[c].outs)
    PROVE  OffWire(t, RipWire(autoidx + j))
<1> DEFINE n == autoidx
           w == RipWire(n + j)
           cut == voterCutPoint
           r1 == Replica(cut, 1, id)
           r2 == Replica(cut, 2, id)
           voter == <<"$voter", n>>
           root == outputNode
<1>1. IsSpliced(Spliced)
    BY SplicedFacts
<1>2. /\ DOMAIN Spliced.cells = DOMAIN netlist.cells \cup {voter}
      /\ Spliced.cells[voter].outs = <<Whole(RipWire(n), CutWidth), Whole(ErrWire(n), 1)>>
      /\ \A d \in DOMAIN netlist.cells \ {voter, cut, r1, r2, root} :
            Spliced.cells[d].outs = netlist.cells[d].outs
      /\ \A r \in {1, 2} : Spliced.cells[Replica(cut, r, id)].outs
              = <<Whole(RipWire(n + r), Len(netlist.cells[Replica(cut, r, id)].outs[1]))>>
      /\ cut # root => Spliced.cells[cut].outs = <<Whole(RipWire(n + 3), CutWidth)>>
      /\ root \in FFs => Spliced.cells[root].outs
              = <<Whole(RipWire(n + 4), Len(netlist.cells[root].outs[1]))>>
    BY <1>1 DEF IsSpliced
<1>3. /\ r1 \in DOMAIN netlist.cells /\ r2 \in DOMAIN netlist.cells
      /\ cut \in DOMAIN netlist.cells
      /\ Len(netlist.cells[r1].outs) = 1 /\ Len(netlist.cells[r2].outs) = 1
    BY DEF CutPointReady
<1>4. IsNetlist(netlist)
    BY DEF IsGood
<1>5. /\ Len(netlist.cells[r1].outs[1]) \in Nat /\ Len(netlist.cells[r2].outs[1]) \in Nat
      /\ CutWidth \in Nat
    BY <1>3, <1>4, FirstOutLen DEF CutWidth
<1>6. \A i, k \in Nat : RipWire(i) = RipWire(k) => i = k
    BY DEF RipWire
<1>7. n \in Nat /\ n + j \in Nat /\ \A i \in 1..4 : n + i \in Nat /\ n + i # n
    OBVIOUS
<1>8. w \notin DOMAIN netlist.wires
  <2>1. w \in Generated /\ w[2] = n + j
      BY <1>7, GeneratedByName, GeneratedNumbers
  <2>2. ~(n + j < n)
      OBVIOUS
  <2> QED BY <2>1, <2>2 DEF NamesFresh
<1>9. ErrWire(n) # w
    BY DEF ErrWire, RipWire
<1>10. CASE c = voter
  <2>1. j # 0
      BY <1>10 DEF Owner
  <2>2. n + j # n
      BY <2>1
  <2>3. RipWire(n) # w
      BY <1>6, <1>7, <2>2
  <2>4. t = Whole(RipWire(n), CutWidth) \/ t = Whole(ErrWire(n), 1)
      BY <1>2, <1>10, PairRange
  <2> QED BY <1>5, <1>9, <2>3, <2>4, WholeOnWire
<1>11. ASSUME NEW r \in {1, 2}, c = Replica(cut, r, id)
       PROVE  OffWire(t, w)
  <2>1. j # r
      BY <1>11 DEF Owner
  <2>2. n + j # n + r /\ n + r \in Nat
      BY <2>1
  <2>3. RipWire(n + r) # w
      BY <1>6, <1>7, <2>2
  <2>4. t = Whole(RipWire(n + r), Len(netlist.cells[c].outs[1]))
      BY <1>2, <1>11 DEF Range
  <2>5. Len(netlist.cells[c].outs[1]) \in Nat
      BY <1>5, <1>11
  <2> QED BY <2>3, <2>4, <2>5, WholeOnWire
<1>12. CASE c = cut
  <2>1. j # 3
      BY <1>12 DEF Owner
  <2>2. n + j # n + 3
      BY <2>1
  <2>3. RipWire(n + 3) # w
      BY <1>6, <1>7, <2>2
  <2>4. t = Whole(RipWire(n + 3), CutWidth)
      BY <1>2, <1>12 DEF Range
  <2> QED BY <1>5, <2>3, <2>4, WholeOnWire
<1>13. CASE c = root
  <2>1. c \in FFs /\ c \in DOMAIN netlist.cells
    <3>1. c \in Names
        BY <1>13, NameAssumption DEF RootReady, Names
    <3>2. voter \notin Names
        BY <1>7, GeneratedByName, GeneratedNames
    <3>3. c \in DOMAIN netlist.cells
        BY <1>2, <3>1, <3>2
    <3>4. \A y \in DOMAIN netlist.cells : y \notin Wires
      <4>1. /\ PairsIn(netlist.cells, Cells) /\ Wires \cap Cells = {}
            /\ Cells \subseteq Names /\ Wires \subseteq Names
          BY NameAssumption DEF IsGood, Names
      <4> QED BY <4>1, GeneratedNames, ReplicaNames DEF PairsIn
    <3> QED BY <1>13, <3>3, <3>4, NameAssumption DEF RootReady
  <2>2. n + j # n + 4
      OBVIOUS
  <2>3. RipWire(n + 4) # w
      BY <1>6, <1>7, <2>2
  <2>4. t = Whole(RipWire(n + 4), Len(netlist.cells[root].outs[1]))
      BY <1>2, <1>13, <2>1 DEF Range
  <2>5. Len(netlist.cells[root].outs[1]) \in Nat
      BY <1>4, <1>13, <2>1, FirstOutLen DEF IsGood
  <2> QED BY <2>3, <2>4, <2>5, WholeOnWire
<1>14. CASE c \notin {voter, cut, r1, r2, root}
  <2>1. c \in DOMAIN netlist.cells /\ t \in Range(netlist.cells[c].outs)
      BY <1>2, <1>14
  <2>2. netlist.cells[c].outs \in Seq(Signals(DOMAIN netlist.wires))
      BY <1>4, <2>1 DEF IsNetlist, CellRecords
  <2>3. t \in Signals(DOMAIN netlist.wires)
      BY <2>1, <2>2 DEF Range
  <2> QED BY <1>8, <2>3, OldSignalsOff
<1> QED BY <1>10, <1>11, <1>12, <1>13, <1>14

(* What insertVoter makes of the netlist.                                  *)
LEMMA VoterInserted ==
    ASSUME IsGood(netlist), autoidx \in Nat, id \in Nat, CutPointReady, RootReady,
           CellOutputsFit, InsertVoter
    PROVE  /\ IsSpliced(Spliced)
           /\ Len(netlist.cells[voterCutPoint].outs) = 1
           /\ CutWidth \in Nat
           /\ IsNetlist(netlist')
           /\ netlist'.cells = Spliced.cells /\ netlist'.wires = Spliced.wires
           /\ netlist'.conns = netlist.conns \cup
                 {<<VoterTarget(Spliced, autoidx + 4), Whole(RipWire(autoidx), CutWidth)>>}
<1>1. /\ Len(netlist.cells[voterCutPoint].outs) = 1
      /\ netlist' = [Spliced EXCEPT !.conns = @ \cup
            {<<VoterTarget(Spliced, autoidx + 4), Whole(RipWire(autoidx), CutWidth)>>}]
    BY DEF InsertVoter, CanSplice
<1>2. IsSpliced(Spliced)
    BY <1>1, SplicedFacts
<1>3. IsNetlist(netlist')
    BY InsertVoterNetStep DEF NetStep, IsGood
<1>4. IsNetlist(Spliced) /\ CutWidth \in Nat
    BY <1>1, SplicedEdits DEF IsGood
<1>5. Spliced \in [cells : [DOMAIN Spliced.cells -> CellRecords(DOMAIN Spliced.wires)],
                   wires : [DOMAIN Spliced.wires -> WireRecords],
                   conns : SUBSET (Signals(DOMAIN Spliced.wires) \X Signals(DOMAIN Spliced.wires))]
    BY <1>4 DEF IsNetlist
<1>6. /\ netlist'.cells = Spliced.cells /\ netlist'.wires = Spliced.wires
      /\ netlist'.conns = Spliced.conns \cup
            {<<VoterTarget(Spliced, autoidx + 4), Whole(RipWire(autoidx), CutWidth)>>}
    BY <1>1, <1>5
<1>7. Spliced.conns = netlist.conns
    BY <1>2 DEF IsSpliced
<1> QED BY <1>1, <1>2, <1>3, <1>4, <1>6, <1>7

(* insertVoter uses five numbers for its names, and no output of the       *)
(* design changes its width.                                               *)
LEMMA InsertVoterFrame ==
    ASSUME IsGood(netlist), autoidx \in Nat, id \in Nat, CutPointReady, RootReady,
           CellOutputsFit, NamesFresh, InsertVoter
    PROVE  NamesFresh' /\ OutWidthsStay
<1> DEFINE n == autoidx
           cut == voterCutPoint
           r1 == Replica(cut, 1, id)
           r2 == Replica(cut, 2, id)
           voter == <<"$voter", n>>
           root == outputNode
<1>1. /\ IsSpliced(Spliced)
      /\ Len(netlist.cells[cut].outs) = 1 /\ CutWidth \in Nat
      /\ netlist'.cells = Spliced.cells /\ netlist'.wires = Spliced.wires
    BY VoterInserted
<1>2. autoidx' = n + 5
    BY DEF InsertVoter
<1>3. NamesFresh'
  <2>1. /\ DOMAIN netlist'.cells = DOMAIN netlist.cells \cup {voter}
        /\ DOMAIN netlist'.wires \subseteq DOMAIN netlist.wires
                               \cup {RipWire(n + k) : k \in 0..4} \cup {ErrWire(n)}
      BY <1>1 DEF IsSpliced
  <2>2. autoidx' \in Nat /\ n <= autoidx' /\ voter[2] < autoidx' /\ ErrWire(n)[2] < autoidx'
      BY <1>2, GeneratedNumbers
  <2>3. ASSUME NEW k \in 0..4
        PROVE  RipWire(n + k)[2] < autoidx'
    <3>1. n + k \in Nat /\ n + k < n + 5
        OBVIOUS
    <3> QED BY <1>2, <3>1, GeneratedNumbers
  <2> QED BY <2>1, <2>2, <2>3, NamesStayFresh
<1>4. ASSUME NEW c \in DOMAIN netlist.cells \cap Cells, Len(netlist.cells[c].outs) = 1
      PROVE  Len(netlist'.cells[c].outs[1]) = Len(netlist.cells[c].outs[1])
  <2>1. c \notin {voter, r1, r2}
    <3>1. voter \notin Names
        BY GeneratedByName, GeneratedNames
    <3>2. r1 \notin Names /\ r2 \notin Names
        BY ReplicaNames DEF CutPointReady, Names
    <3> QED BY <3>1, <3>2 DEF Names
  <2>2. Len(netlist.cells[c].outs[1]) \in Nat
      BY <1>4, FirstOutLen DEF IsGood
  <2>3. CASE c \notin {cut, root}
    <3>1. netlist'.cells[c].outs = netlist.cells[c].outs
        BY <1>1, <2>1, <2>3 DEF IsSpliced
    <3> QED BY <3>1
  <2>4. CASE c = root
    <3>1. c \in FFs
        BY <2>4, NameAssumption DEF RootReady
    <3>2. netlist'.cells[c].outs = <<Whole(RipWire(n + 4), Len(netlist.cells[c].outs[1]))>>
        BY <1>1, <2>4, <3>1 DEF IsSpliced
    <3>3. netlist'.cells[c].outs[1] = Whole(RipWire(n + 4), Len(netlist.cells[c].outs[1]))
        BY <3>2
    <3> QED BY <2>2, <3>3, WholeLen
  <2>5. CASE c = cut /\ c # root
    <3>1. netlist'.cells[c].outs = <<Whole(RipWire(n + 3), CutWidth)>>
        BY <1>1, <2>5 DEF IsSpliced
    <3>2. netlist'.cells[c].outs[1] = Whole(RipWire(n + 3), CutWidth)
        BY <3>1
    <3>3. CutWidth = Len(netlist.cells[c].outs[1])
        BY <2>5 DEF CutWidth
    <3> QED BY <1>1, <3>2, <3>3, WholeLen
  <2> QED BY <2>3, <2>4, <2>5
<1> QED BY <1>3, <1>4 DEF OutWidthsStay

(* No connection reaches the voter's input wires: the new one is from      *)
(* out_w to the root, or to a signal of the untouched netlist.             *)
LEMMA InputsUnconnected ==
    ASSUME IsGood(netlist), autoidx \in Nat, id \in Nat, CutPointReady, RootReady,
           CellOutputsFit, NamesFresh, InsertVoter, NEW j \in 1..3, NEW k \in netlist'.conns
    PROVE  OffWire(k[1], RipWire(autoidx + j)) /\ OffWire(k[2], RipWire(autoidx + j))
<1> DEFINE n == autoidx
           w == RipWire(n + j)
           s == VoterTarget(Spliced, n + 4)
           t == Whole(RipWire(n), CutWidth)
<1>1. /\ netlist'.conns = netlist.conns \cup {<<s, t>>}
      /\ Len(netlist.cells[voterCutPoint].outs) = 1 /\ CutWidth \in Nat
    BY VoterInserted
<1>2. \A i, l \in Nat : RipWire(i) = RipWire(l) => i = l
    BY DEF RipWire
<1>3. w \notin DOMAIN netlist.wires /\ w \in Generated
  <2>1. n + j \in Nat /\ ~(n + j < n)
      OBVIOUS
  <2>2. w \in Generated /\ w[2] = n + j
      BY <2>1, GeneratedByName, GeneratedNumbers
  <2> QED BY <2>1, <2>2 DEF NamesFresh
<1>4. \A x \in Signals(DOMAIN netlist.wires) : OffWire(x, w)
    BY <1>3, OldSignalsOff
<1>5. CASE k \in netlist.conns
  <2>1. k[1] \in Signals(DOMAIN netlist.wires) /\ k[2] \in Signals(DOMAIN netlist.wires)
      BY <1>5 DEF IsGood, IsNetlist
  <2> QED BY <1>4, <2>1
<1>6. OffWire(t, w)
  <2>1. n + j # n /\ n + j \in Nat
      OBVIOUS
  <2>2. RipWire(n) # w
      BY <1>2, <2>1
  <2> QED BY <1>1, <2>2, WholeOnWire
<1>7. OffWire(s, w)
  <2> DEFINE attached == CHOOSE x \in cellOutputs[voterCutPoint] : TRUE
             whole == Whole(RootWire(n + 4), Spliced.wires[RootWire(n + 4)].width)
  <2>1. s = attached \/ s = whole
      BY DEF VoterTarget
  <2>2. attached \in Signals(DOMAIN netlist.wires)
    <3>1. attached \in cellOutputs[voterCutPoint]
        BY <1>1 DEF CellOutputsFit, CutPointReady
    <3> QED BY <3>1 DEF CellOutputsFit, CutPointReady
  <2>3. OffWire(whole, w)
    <3>1. RootWire(n + 4) # w
      <4>1. n + j # n + 4 /\ n + j \in Nat /\ n + 4 \in Nat
          OBVIOUS
      <4>2. RipWire(n + 4) # w
          BY <1>2, <4>1
      <4>3. outputNode # w
          BY <1>3, GeneratedNames, NameAssumption DEF RootReady, Names
      <4> QED BY <4>2, <4>3 DEF RootWire
    <3>2. Spliced.wires[RootWire(n + 4)].width \in Nat
        BY <1>1, SplicedEdits DEF IsGood, IsNetlist, WireRecords
    <3> QED BY <3>1, <3>2, WholeOnWire
  <2> QED BY <1>4, <2>1, <2>2, <2>3
<1> QED BY <1>1, <1>5, <1>6, <1>7

(* What VoterOnTriple says of a new voter.                                 *)
StandsOnTriple(v) ==
    /\ \A k \in 1..3 :
          DriversOfSignal(netlist', netlist'.cells[v].ins[k]) =
             {<<Replica(voterCutPoint, 1, netlist'.cells[voterCutPoint].cone),
                Replica(voterCutPoint, 2, netlist'.cells[voterCutPoint].cone),
                voterCutPoint>>[k]}
    /\ \A c \in DOMAIN netlist'.cells \ {v} :
          netlist'.cells[v].outs[1] \notin Range(netlist'.cells[c].outs)

(* So the voter stands on the three copies of the cut point.               *)
LEMMA VoterStands ==
    ASSUME IsGood(netlist), autoidx \in Nat, id \in Nat, CutPointReady, RootReady,
           CellOutputsFit, NamesFresh, InsertVoter,
           CutWidth > 0, voterCutPoint # outputNode,
           netlist.cells[voterCutPoint].cone = id,
           \A r \in {1, 2} : netlist.cells[Replica(voterCutPoint, r, id)].outs
                                = netlist.cells[voterCutPoint].outs,
           NEW v \in DOMAIN netlist'.cells \ DOMAIN netlist.cells
    PROVE  StandsOnTriple(v)
<1> DEFINE n == autoidx
           cut == voterCutPoint
           wire(j) == RipWire(n + j)
           sig(j) == Whole(wire(j), CutWidth)
<1>1. /\ IsSpliced(Spliced)
      /\ Len(netlist.cells[cut].outs) = 1 /\ CutWidth \in Nat
      /\ IsNetlist(netlist') /\ netlist'.cells = Spliced.cells
    BY VoterInserted
<1>2. v = <<"$voter", n>> /\ v = Owner(0)
    BY <1>1 DEF IsSpliced, Owner
<1>3. /\ netlist'.cells[v].ins = [k \in 1..3 |-> sig(k)]
      /\ netlist'.cells[v].outs[1] = Whole(RipWire(n), CutWidth)
    BY <1>1, <1>2 DEF IsSpliced
<1>4. \A j \in {1, 2} : Owner(j) = Replica(cut, j, id)
    BY DEF Owner
<1>5. Owner(3) = cut
    BY DEF Owner
<1>6. netlist'.cells[cut].cone = id
  <2>1. cut \in DOMAIN netlist.cells \ {<<"$voter", n>>}
      BY <1>2 DEF CutPointReady
  <2> QED BY <1>1, <2>1 DEF IsSpliced
<1>7. ASSUME NEW j \in 0..3
      PROVE  /\ \A c \in DOMAIN netlist'.cells \ {Owner(j)} :
                   \A t \in Range(netlist'.cells[c].outs) : OffWire(t, wire(j))
             /\ OnWire(sig(j), wire(j))
  <2>1. \A c \in DOMAIN netlist'.cells \ {Owner(j)} :
              \A t \in Range(netlist'.cells[c].outs) : OffWire(t, wire(j))
      BY <1>1, OthersStayOff
  <2> QED BY <1>1, <2>1, WholeOnWire
<1>8. ASSUME NEW j \in 1..3
      PROVE  Owner(j) \in DOMAIN netlist'.cells /\ netlist'.cells[Owner(j)].outs = <<sig(j)>>
  <2>1. {cut, Replica(cut, 1, id), Replica(cut, 2, id)} \subseteq DOMAIN netlist'.cells
      BY <1>1 DEF IsSpliced, CutPointReady
  <2>2. CASE j = 3
      BY <1>1, <1>5, <2>1, <2>2 DEF IsSpliced
  <2>3. CASE j \in {1, 2}
    <3>1. netlist'.cells[Replica(cut, j, id)].outs
              = <<Whole(wire(j), Len(netlist.cells[Replica(cut, j, id)].outs[1]))>>
        BY <1>1, <2>3 DEF IsSpliced
    <3>2. Len(netlist.cells[Replica(cut, j, id)].outs[1]) = CutWidth
        BY <2>3 DEF CutWidth
    <3> QED BY <1>4, <2>1, <2>3, <3>1, <3>2
  <2> QED BY <2>2, <2>3
<1>9. ASSUME NEW j \in 1..3
      PROVE  DriversOfSignal(netlist', sig(j)) = {Owner(j)}
  <2>1. j \in 0..3
      OBVIOUS
  <2>2. \A k \in netlist'.conns : OffWire(k[1], wire(j)) /\ OffWire(k[2], wire(j))
      BY InputsUnconnected
  <2>3. /\ OnWire(sig(j), wire(j))
        /\ \A c \in DOMAIN netlist'.cells \ {Owner(j)} :
              \A t \in Range(netlist'.cells[c].outs) : OffWire(t, wire(j))
      BY <1>7, <2>1
  <2>4. Owner(j) \in DOMAIN netlist'.cells /\ netlist'.cells[Owner(j)].outs = <<sig(j)>>
      BY <1>8
  <2> HIDE DEF sig, wire
  <2> QED BY <1>1, <2>2, <2>3, <2>4, OneDriver
<1>10. ASSUME NEW k \in 1..3
       PROVE  DriversOfSignal(netlist', netlist'.cells[v].ins[k]) =
                 {<<Replica(cut, 1, netlist'.cells[cut].cone),
                    Replica(cut, 2, netlist'.cells[cut].cone), cut>>[k]}
  <2>1. netlist'.cells[v].ins[k] = sig(k)
      BY <1>3
  <2>2. <<Replica(cut, 1, netlist'.cells[cut].cone),
          Replica(cut, 2, netlist'.cells[cut].cone), cut>>[k] = Owner(k)
      BY <1>4, <1>5, <1>6
  <2> QED BY <1>9, <2>1, <2>2
<1>11. ASSUME NEW c \in DOMAIN netlist'.cells \ {v}
       PROVE  netlist'.cells[v].outs[1] \notin Range(netlist'.cells[c].outs)
  <2>1. 0 \in 0..3 /\ n + 0 = n
      OBVIOUS
  <2>2. OnWire(sig(0), wire(0))
      BY <1>7, <2>1
  <2>3. \A t \in Range(netlist'.cells[c].outs) : OffWire(t, wire(0))
      BY <1>2, <1>7, <2>1
  <2>4. netlist'.cells[v].outs[1] = sig(0)
      BY <1>3, <2>1
  <2> QED BY <2>2, <2>3, <2>4 DEF OnWire, OffWire
<1> QED BY <1>10, <1>11 DEF StandsOnTriple

-----------------------------------------------------------------------------
(* Second, why the cut point is not the root of its own cone: a flip-flop  *)
(* that is reached through logic of its own cone would be ripped twice.    *)

(* Ports, which a search ends at.                                          *)
Ports == InPorts \cup OutPorts

(* Objects found behind the root, or behind an element of the cone.        *)
ReachedInCone ==
    {n \in Own : \E x \in DOMAIN connections :
        /\ n \in connections[x]
        /\ x = outputNode \/ (cone # <<>> /\ x \notin Ports \cup FFs)}

(* A search has considered only such objects, apart from its root and a    *)
(* last object that nothing is known behind.                               *)
SearchReach ==
    /\ first = TRUE => /\ frontier \in {<<>>, <<outputNode>>}
                       /\ visited = {} /\ voterCutPoint = None /\ inputNodes = <<>>
    /\ first = FALSE => Range(frontier) \subseteq ReachedInCone
    /\ voterCutPoint # None => voterCutPoint \in ReachedInCone
    /\ \A n \in Range(inputNodes) : n \in ReachedInCone \/ n \notin DOMAIN connections
    /\ stage = "start" => first = TRUE

(* A flip-flop that no element of a cone can have behind it, or that was   *)
(* replicated already, may become a root.                                  *)
OffPath(f) == \A w \in DOMAIN connections \ Ports : f \notin connections[w]
SafeRoot(f) == f \in FFs => netlist.cells[f].cone # NoCone \/ OffPath(f)

(* Every root that is queued or searched from is safe, and a cut point     *)
(* that got its replicas here is not its cone's root.                      *)
RootsSafe ==
    /\ stage = "search" => SafeRoot(outputNode)
    /\ stage \in {"wire", "fix", "expand"} =>
          \A n \in Range(inputNodes) : n \in DOMAIN connections => SafeRoot(n)
    /\ \A k \in DOMAIN successors : SafeRoot(successors[k].root)
    /\ stage = "start" => successors = <<>>
    /\ stage = "wire" /\ voterCutPoint \in replicated => voterCutPoint # outputNode

(* The inductive invariant of the wiring.                                  *)
WiringInv == NamesFresh /\ WidthsKnown /\ DriveOne /\ SearchReach /\ RootsSafe

(* The analysis has a cell behind the wires its outputs are on.            *)
LEMMA CellsBehind ==
    ASSUME NEW d \in Designs, NEW cells, cells \in [DOMAIN d.cells -> CellRecords(DOMAIN d.wires)],
           NEW conn, conn = AnalyseConnections(cells, d.wires, d.conns),
           NEW x \in DOMAIN conn, NEW c \in Cells, c \in conn[x]
    PROVE  /\ c \in DOMAIN d.cells
           /\ x \in {SigWire(s) : s \in Range(cells[c].outs)} /\ x # NoWire
<1> DEFINE D == {y \in DOMAIN cells : Considered(cells[y])} \cup DOMAIN d.wires
           behind == [y \in D |-> IF y \in DOMAIN cells THEN WiresBehind(y, cells)
                                  ELSE DriversOf(y, cells, d.wires, d.conns)]
<1>1. /\ IsNetlist(d) /\ DOMAIN d.cells \subseteq Cells /\ DOMAIN d.wires \subseteq Wires
      /\ Wires \cap Cells = {} /\ \A w \in Wires : w # NoWire
    BY DesignAssumption, NameAssumption DEF NoWire
<1>2. /\ d.conns \subseteq Signals(DOMAIN d.wires) \X Signals(DOMAIN d.wires)
      /\ DOMAIN cells = DOMAIN d.cells
    BY <1>1 DEF IsNetlist
<1>3. conn = [y \in {z \in DOMAIN behind : behind[z] # {}} |-> behind[y]]
    BY DEF AnalyseConnections
<1>4. x \in D /\ c \in behind[x]
    BY <1>3
<1>5. CASE x \in DOMAIN cells
  <2>1. c \in WiresBehind(x, cells)
      BY <1>4, <1>5
  <2>2. cells[x].ins \in Seq(Signals(DOMAIN d.wires))
      BY <1>2, <1>5 DEF CellRecords
  <2>3. \A s \in Range(cells[x].ins) : s \in Signals(DOMAIN d.wires)
      BY <2>2 DEF Range
  <2>4. c \in DOMAIN d.wires
      BY <2>1, <2>3, SigWireIsWire DEF WiresBehind
  <2> QED BY <1>1, <2>4
<1>6. CASE x \notin DOMAIN cells
  <2>1. c \in DriversOf(x, cells, d.wires, d.conns) /\ x \in DOMAIN d.wires
      BY <1>4, <1>6
  <2>2. \A k \in d.conns : SigWire(k[2]) \in DOMAIN d.wires \cup {NoWire}
      BY <1>2, SigWireIsWire
  <2>3. \A k \in d.conns : SigWire(k[2]) # NoWire => SigWire(k[2]) # c
      BY <1>1, <2>2
  <2>4. c \in DOMAIN cells /\ x \in {SigWire(s) : s \in Range(cells[c].outs)}
      BY <2>1, <2>3 DEF DriversOf
  <2> QED BY <1>1, <1>2, <2>1, <2>4
<1> QED BY <1>5, <1>6

(* The analysis made by Prepare.                                           *)
LEMMA PrepareWiring ==
    ASSUME PassInv, WiringInv, Prepare
    PROVE  WiringInv'
<1>1. /\ stage = "start" /\ stage' = "next" /\ netlist \in Designs
      /\ netlist' = [netlist EXCEPT !.cells = MarkMemoriesIgnored(@)]
      /\ connections' = AnalyseConnections(netlist'.cells, netlist'.wires, netlist'.conns)
      /\ UNCHANGED <<successors, explored, nextID, autoidx, coneVars, fixVars>>
    BY DEF Prepare, PassInv, ControlInv
<1>2. /\ netlist'.wires = netlist.wires /\ netlist'.conns = netlist.conns
      /\ DOMAIN netlist'.cells = DOMAIN netlist.cells
      /\ \A c \in DOMAIN netlist.cells : netlist'.cells[c].outs = netlist.cells[c].outs
      /\ IsGood(netlist')
    BY <1>1, MarkMemoriesEdits DEF PassInv
<1>3. netlist'.cells \in [DOMAIN netlist.cells -> CellRecords(DOMAIN netlist.wires)]
    BY <1>2 DEF IsGood, IsNetlist
<1>4. connections' = AnalyseConnections(netlist'.cells, netlist.wires, netlist.conns)
    BY <1>1, <1>2
<1>5. ASSUME NEW x \in DOMAIN connections', NEW c \in Cells, c \in connections'[x],
             Len(netlist'.cells[c].outs) = 1
      PROVE  /\ c \in DOMAIN netlist'.cells
             /\ x = SigWire(netlist'.cells[c].outs[1]) /\ x # NoWire
  <2>1. /\ c \in DOMAIN netlist.cells /\ x # NoWire
        /\ x \in {SigWire(s) : s \in Range(netlist'.cells[c].outs)}
      BY <1>1, <1>3, <1>4, <1>5, CellsBehind
  <2>2. netlist'.cells[c].outs \in Seq(Signals(DOMAIN netlist.wires))
      BY <1>3, <2>1 DEF CellRecords
  <2>3. \A s \in Range(netlist'.cells[c].outs) : s = netlist'.cells[c].outs[1]
      BY <1>5, <2>2 DEF Range
  <2> QED BY <1>2, <2>1, <2>3
<1>6. NamesFresh'
    BY <1>1, <1>2 DEF WiringInv, NamesFresh
<1>7. WidthsKnown'
  <2> SUFFICES ASSUME NEW w \in DOMAIN connections', NEW c \in Cells, c \in connections'[w],
                      Len(netlist'.cells[c].outs) = 1
               PROVE  Len(netlist'.cells[c].outs[1]) > 0
      BY DEF WidthsKnown
  <2>1. /\ c \in DOMAIN netlist'.cells
        /\ w = SigWire(netlist'.cells[c].outs[1]) /\ w # NoWire
      BY <1>5
  <2>2. /\ Len(netlist'.cells[c].outs[1]) \in Nat
        /\ netlist'.cells[c].outs[1] \in Signals(DOMAIN netlist'.wires)
      BY <1>2, <2>1, FirstOutLen DEF IsGood
  <2>3. netlist'.cells[c].outs[1] # <<>>
      BY <2>1 DEF SigWire
  <2> QED BY <2>2, <2>3 DEF Signals
<1>8. DriveOne'
  <2> SUFFICES ASSUME NEW f \in FFs, NEW v \in DOMAIN connections', NEW w \in DOMAIN connections',
                      f \in connections'[v], f \in connections'[w]
               PROVE  v = w
      BY DEF DriveOne
  <2>1. f \in Cells
      BY NameAssumption
  <2>2. f \in DOMAIN netlist'.cells
      BY <1>1, <1>2, <1>3, <1>4, <2>1, CellsBehind
  <2>3. Len(netlist'.cells[f].outs) = 1
      BY <1>2, <2>2 DEF IsGood
  <2> QED BY <1>5, <2>1, <2>3
<1>9. SearchReach'
  <2>1. /\ frontier \in {<<>>, <<outputNode>>} /\ voterCutPoint = None /\ inputNodes = <<>>
        /\ visited = {} /\ first = TRUE
      BY <1>1 DEF WiringInv, SearchReach
  <2>2. UNCHANGED <<frontier, outputNode, visited, voterCutPoint, inputNodes, first>>
      BY <1>1 DEF coneVars
  <2>3. Range(inputNodes') = {}
      BY <2>1, <2>2 DEF Range
  <2> QED BY <2>1, <2>2, <2>3 DEF SearchReach
<1>10. RootsSafe'
  <2>1. successors' = <<>>
      BY <1>1 DEF WiringInv, RootsSafe
  <2> QED BY <1>1, <2>1 DEF RootsSafe
<1> QED BY <1>6, <1>7, <1>8, <1>9, <1>10 DEF WiringInv

(* The input nodes are the design's.                                       *)
LEMMA InputNodesOwn ==
    ASSUME SearchOwn
    PROVE  inputNodes \in Seq(Own) /\ Range(inputNodes) \subseteq Own
<1> DEFINE S == Own \cap (FFs \cup InPorts \cup OutPorts)
<1>1. S \subseteq Own /\ inputNodes \in Seq(S)
    BY DEF SearchOwn
<1> HIDE DEF S
<1>2. inputNodes \in Seq(Own)
    BY <1>1
<1> QED BY <1>2 DEF Range

(* One turn of the search finds what it pushes behind its node.            *)
LEMMA SearchWiring ==
    ASSUME PassInv, WiringInv, Search
    PROVE  WiringInv'
<1> DEFINE node == Head(frontier)
<1>1. /\ stage = "search" /\ CS!Next
      /\ UNCHANGED <<netlist, signals, cellOutputs, queueVars, autoidx, errorSink,
                     id, replicated, fixVars, stage>>
    BY DEF Search
<1>2. /\ frontier # <<>> /\ UNCHANGED <<connections, outputNode>> /\ CS!WrapUp(node)
    BY <1>1 DEF CS!Next, CS!ConsiderRoot, CS!ConsiderElement, CS!ConsiderTerminal
<1>3. /\ AnalysisFits /\ frontier \in Seq(Own) /\ visited \subseteq Own /\ cone \in Seq(Own)
      /\ inputNodes \in Seq(Own \cap (FFs \cup InPorts \cup OutPorts))
      /\ first \in BOOLEAN
    BY DEF PassInv, SearchOwn
<1>4. /\ node \in Own /\ Tail(frontier) \in Seq(Own)
      /\ Range(frontier) = {node} \cup Range(Tail(frontier))
    BY <1>2, <1>3, PopRange
<1>5. Own' = Own
    BY <1>1 DEF Own
<1>6. NamesFresh' /\ WidthsKnown' /\ DriveOne'
    BY <1>1, <1>2 DEF WiringInv, NamesFresh, WidthsKnown, DriveOne
<1>7. RootsSafe'
    BY <1>1, <1>2 DEF WiringInv, RootsSafe, SafeRoot, OffPath, queueVars
<1>8. \A n \in Own : n \in InPorts \cup OutPorts <=> CS!IsIO(n)
    BY <1>3, NameAssumption DEF AnalysisFits, IsAnalysisOf, CS!IsIO, CS!LC!IsIO
<1>9. /\ CS!Neighbours(node) \subseteq Own
      /\ node \in DOMAIN connections => CS!Neighbours(node) = connections[node]
      /\ node \notin DOMAIN connections => CS!Neighbours(node) = {}
      /\ CS!Neighbours(node) = {} => node \notin DOMAIN connections
  <2>1. CS!Neighbours(node) \subseteq Own
      BY <1>3, <1>4, NeighboursOwn
  <2> QED BY <1>3, <2>1 DEF CS!Neighbours, CS!LC!Neighbours, AnalysisFits, IsAnalysisOf
<1>10. ASSUME CS!PushNeighbours(node)
       PROVE  /\ Range(frontier') = Range(Tail(frontier)) \cup (CS!Neighbours(node) \ visited)
              /\ frontier' = <<>> => Range(frontier') = {}
  <2> DEFINE T == CS!Neighbours(node) \ visited
  <2>1. PICK order \in CS!Orderings(T) : frontier' = Tail(frontier) \o order
      BY <1>10 DEF CS!PushNeighbours
  <2>2. T \subseteq Own /\ IsFiniteSet(T)
      BY <1>9, OwnIsFinite, FS_Subset
  <2> HIDE DEF T
  <2>3. order \in Seq(T) /\ Range(order) = T
      BY <2>2, OrderingFacts
  <2>4. order \in Seq(Own)
      BY <2>2, <2>3
  <2>5. Range(frontier') = Range(Tail(frontier)) \cup T
    <3>1. \A s, u \in Seq(Own) : Range(s \o u) = Range(s) \cup Range(u)
        BY RangeConcatenation
    <3> QED BY <1>4, <2>1, <2>3, <2>4, <3>1
  <2>6. frontier' = <<>> => Range(frontier') = {}
      BY DEF Range
  <2> QED BY <2>5, <2>6 DEF T
<1>11. \/ inputNodes' = inputNodes
       \/ /\ inputNodes' = Append(inputNodes, node) /\ frontier' = <<>>
          /\ Range(inputNodes') = Range(inputNodes) \cup {node}
  <2>1. \/ inputNodes' = inputNodes
        \/ /\ inputNodes' = Append(inputNodes, node) /\ frontier' = <<>>
           /\ CS!IsIO(node) \/ CS!IsFF(node)
      BY <1>2 DEF CS!WrapUp
  <2>2. inputNodes \in Seq(Own)
      BY InputNodesOwn DEF PassInv
  <2>3. node \in Own
      BY <1>4
  <2> HIDE DEF node
  <2>4. Range(Append(inputNodes, node)) = Range(inputNodes) \cup {node}
      BY <2>2, <2>3, AppendRange
  <2> QED BY <2>1, <2>4
<1>12. SearchReach'
  <2>1. CASE CS!ConsiderRoot
    <3>1. /\ first = TRUE /\ first' = FALSE /\ CS!PushNeighbours(node)
          /\ UNCHANGED <<cone, voterCutPoint>>
        BY <1>3, <2>1 DEF CS!ConsiderRoot
    <3>2. frontier = <<outputNode>> /\ voterCutPoint = None /\ inputNodes = <<>>
        BY <1>2, <3>1 DEF WiringInv, SearchReach
    <3>3. node = outputNode /\ Range(Tail(frontier)) = {} /\ Range(inputNodes) = {}
        BY <3>2 DEF Range
    <3>4. CS!Neighbours(node) \subseteq ReachedInCone'
        BY <1>2, <1>5, <1>9, <3>3 DEF ReachedInCone
    <3>5. Range(frontier') \subseteq ReachedInCone'
        BY <1>10, <3>1, <3>3, <3>4
    <3>6. \A n \in Range(inputNodes') : n \notin DOMAIN connections'
      <4> SUFFICES ASSUME NEW n \in Range(inputNodes')
                   PROVE  n \notin DOMAIN connections
          BY <1>2
      <4>1. n = node /\ frontier' = <<>>
          BY <1>11, <3>3
      <4>2. CS!Neighbours(node) \ visited = {}
          BY <1>10, <3>1, <4>1
      <4>3. visited = {}
          BY <3>1 DEF WiringInv, SearchReach
      <4> QED BY <1>9, <4>1, <4>2, <4>3
    <3> QED BY <1>1, <3>1, <3>2, <3>5, <3>6 DEF SearchReach
  <2>2. CASE CS!ConsiderElement
    <3>1. /\ first = FALSE /\ first' = FALSE /\ CS!PushNeighbours(node)
          /\ cone' = Append(cone, node) /\ CS!SetCutPoint(node)
          /\ CS!ShouldAddNeighbours(node)
        BY <1>3, <2>2 DEF CS!ConsiderElement
    <3>2. Range(frontier) \subseteq ReachedInCone
        BY <3>1 DEF WiringInv, SearchReach
    <3>3. cone' # <<>>
        BY <1>3, <1>4, <3>1
    <3>4. node \notin Ports \cup FFs
        BY <1>4, <1>8, <3>1 DEF CS!ShouldAddNeighbours, CS!IsFF, CS!LC!IsFF, Ports
    <3>5. ReachedInCone \subseteq ReachedInCone'
        BY <1>2, <1>5, <3>3 DEF ReachedInCone
    <3>6. CS!Neighbours(node) \subseteq ReachedInCone'
        BY <1>2, <1>5, <1>9, <3>3, <3>4 DEF ReachedInCone
    <3>7. Range(frontier') \subseteq ReachedInCone' /\ node \in ReachedInCone'
        BY <1>4, <1>10, <3>1, <3>2, <3>5, <3>6
    <3>8. voterCutPoint' # None => voterCutPoint' \in ReachedInCone'
        BY <3>1, <3>5, <3>7 DEF WiringInv, SearchReach, CS!SetCutPoint
    <3>9. \A n \in Range(inputNodes') : n \in ReachedInCone' \/ n \notin DOMAIN connections'
        BY <1>2, <1>11, <3>5, <3>7 DEF WiringInv, SearchReach
    <3> QED BY <1>1, <3>1, <3>7, <3>8, <3>9 DEF SearchReach
  <2>3. CASE CS!ConsiderTerminal
    <3>1. /\ first = FALSE /\ first' = FALSE /\ frontier' = Tail(frontier)
          /\ cone' = cone /\ CS!SetCutPoint(node)
        BY <1>3, <2>3 DEF CS!ConsiderTerminal
    <3>2. Range(frontier) \subseteq ReachedInCone /\ ReachedInCone' = ReachedInCone
        BY <1>2, <1>5, <3>1 DEF WiringInv, SearchReach, ReachedInCone
    <3>3. Range(frontier') \subseteq ReachedInCone' /\ node \in ReachedInCone'
        BY <1>4, <3>1, <3>2
    <3>4. voterCutPoint' # None => voterCutPoint' \in ReachedInCone'
        BY <3>1, <3>2, <3>3 DEF WiringInv, SearchReach, CS!SetCutPoint
    <3>5. \A n \in Range(inputNodes') : n \in ReachedInCone' \/ n \notin DOMAIN connections'
        BY <1>2, <1>11, <3>2, <3>3 DEF WiringInv, SearchReach
    <3> QED BY <1>1, <3>1, <3>3, <3>4, <3>5 DEF SearchReach
  <2> QED BY <1>1, <2>1, <2>2, <2>3 DEF CS!Next
<1> QED BY <1>6, <1>7, <1>12 DEF WiringInv

(* Steps that change neither the netlist nor what the search found.        *)
LEMMA WiringKept ==
    ASSUME WiringInv,
           UNCHANGED <<netlist, connections, autoidx, outputNode, frontier, visited, cone,
                       inputNodes, voterCutPoint, first, successors>>,
           stage' \notin {"start", "wire"},
           stage' = "search" => stage = "search",
           stage' \in {"fix", "expand"} => stage \in {"wire", "fix", "expand"}
    PROVE  WiringInv'
<1>1. NamesFresh' /\ WidthsKnown' /\ DriveOne'
    BY DEF WiringInv, NamesFresh, WidthsKnown, DriveOne
<1>2. ReachedInCone' = ReachedInCone
    BY DEF ReachedInCone, Own
<1>3. SearchReach'
    BY <1>2 DEF WiringInv, SearchReach
<1>4. RootsSafe'
    BY DEF WiringInv, RootsSafe, SafeRoot, OffPath
<1> QED BY <1>1, <1>3, <1>4 DEF WiringInv

(* An empty cone has nothing behind its root but terminals; the flip-flop  *)
(* among them drives the root, and so no element of any cone.              *)
LEMMA SkipEmptyConeWiring ==
    ASSUME PassInv, WiringInv, SkipEmptyCone
    PROVE  WiringInv'
<1>1. /\ stage = "search" /\ stage' = "expand" /\ cone = <<>>
      /\ UNCHANGED <<netlist, analysisVars, queueVars, autoidx, errorSink, coneVars, fixVars>>
    BY DEF SkipEmptyCone
<1>2. NamesFresh' /\ WidthsKnown' /\ DriveOne'
    BY <1>1 DEF WiringInv, NamesFresh, WidthsKnown, DriveOne, analysisVars
<1>3. ReachedInCone' = ReachedInCone
    BY <1>1 DEF ReachedInCone, Own, analysisVars, coneVars
<1>4. SearchReach'
    BY <1>1, <1>3 DEF WiringInv, SearchReach, analysisVars, coneVars
<1>5. ASSUME NEW n \in Range(inputNodes), n \in DOMAIN connections, n \in FFs
      PROVE  OffPath(n)
  <2>1. n \in ReachedInCone
      BY <1>5 DEF WiringInv, SearchReach
  <2>2. outputNode \in DOMAIN connections /\ n \in connections[outputNode]
      BY <1>1, <2>1 DEF ReachedInCone
  <2>3. n \in Cells /\ n \notin Wires
      BY <1>5, OwnFacts
  <2>4. outputNode \notin Cells
      BY <2>2, <2>3 DEF PassInv, AnalysisFits, IsAnalysisOf
  <2>5. outputNode \in Ports
      BY <1>1, <2>4, OwnFacts DEF PassInv, SearchOwn, Ports
  <2>6. \A w \in DOMAIN connections : n \in connections[w] => w = outputNode
      BY <1>5, <2>2 DEF WiringInv, DriveOne
  <2> QED BY <2>5, <2>6 DEF OffPath
<1>6. \A n \in Range(inputNodes) : n \in DOMAIN connections => SafeRoot(n)
    BY <1>5 DEF SafeRoot
<1>7. RootsSafe'
  <2>1. UNCHANGED <<netlist, inputNodes, connections, successors>>
      BY <1>1 DEF coneVars, analysisVars, queueVars
  <2>2. ASSUME NEW n \in Range(inputNodes), n \in DOMAIN connections PROVE SafeRoot(n)'
    <3>1. SafeRoot(n)
        BY <1>6, <2>2
    <3> QED BY <2>1, <3>1 DEF SafeRoot, OffPath
  <2>3. ASSUME NEW k \in DOMAIN successors PROVE SafeRoot(successors[k].root)'
    <3>1. SafeRoot(successors[k].root)
        BY DEF WiringInv, RootsSafe
    <3> QED BY <2>1, <3>1 DEF SafeRoot, OffPath
  <2> QED BY <1>1, <2>1, <2>2, <2>3 DEF RootsSafe
<1> QED BY <1>2, <1>4, <1>7 DEF WiringInv

(* A change of the netlist makes no root unsafe.                           *)
LEMMA NetStepKeepsSafe ==
    ASSUME NetStep, UNCHANGED connections, NEW f \in Own, SafeRoot(f)
    PROVE  SafeRoot(f)'
<1> SUFFICES ASSUME f \in FFs PROVE netlist'.cells[f].cone # NoCone \/ OffPath(f)'
    BY DEF SafeRoot
<1>1. f \in DOMAIN netlist.cells
    BY OwnFacts
<1>2. OffPath(f)' <=> OffPath(f)
    BY DEF OffPath
<1> QED BY <1>1, <1>2 DEF NetStep, SafeRoot

(* A step that changes the netlist but neither search nor queue keeps the  *)
(* wiring invariant.                                                       *)
LEMMA NetChangeWiring ==
    ASSUME PassInv, WiringInv, NetStep, NamesFresh', OutWidthsStay,
           UNCHANGED <<connections, outputNode, frontier, visited, cone,
                       inputNodes, voterCutPoint, first, successors>>,
           stage' \notin {"start", "search"},
           stage' \in {"wire", "fix", "expand"} =>
              \A n \in Range(inputNodes) : n \in DOMAIN connections => SafeRoot(n)',
           stage' = "wire" /\ voterCutPoint \in replicated' => voterCutPoint # outputNode
    PROVE  WiringInv'
<1>1. Own' = Own
    BY NetStepKeepsOwn
<1>2. WidthsKnown'
  <2> SUFFICES ASSUME NEW w \in DOMAIN connections, NEW c \in Cells, c \in connections[w],
                      Len(netlist'.cells[c].outs) = 1
               PROVE  Len(netlist'.cells[c].outs[1]) > 0
      BY DEF WidthsKnown
  <2>1. c \in DOMAIN netlist.cells \cap Cells
      BY OwnFacts DEF PassInv, AnalysisFits, IsAnalysisOf
  <2>2. Len(netlist.cells[c].outs) = 1
      BY <2>1 DEF NetStep
  <2>3. Len(netlist.cells[c].outs[1]) > 0
      BY <2>2 DEF WiringInv, WidthsKnown
  <2> QED BY <2>1, <2>2, <2>3 DEF OutWidthsStay
<1>3. DriveOne'
    BY DEF WiringInv, DriveOne
<1>4. SearchReach'
  <2>1. ReachedInCone' = ReachedInCone
      BY <1>1 DEF ReachedInCone
  <2> QED BY <2>1 DEF WiringInv, SearchReach
<1>5. ASSUME NEW k \in DOMAIN successors
      PROVE  SafeRoot(successors[k].root)'
  <2> DEFINE S == [root : Own \cap (FFs \cup OutPorts), id : Nat]
  <2>1. successors \in Seq(S)
      BY DEF PassInv, QueuesOwn
  <2> HIDE DEF S
  <2>2. successors[k] \in S
      BY <2>1
  <2>3. successors[k].root \in Own
      BY <2>2 DEF S
  <2>4. SafeRoot(successors[k].root)
      BY DEF WiringInv, RootsSafe
  <2> QED BY <2>3, <2>4, NetStepKeepsSafe
<1>6. RootsSafe'
    BY <1>5 DEF RootsSafe
<1> QED BY <1>2, <1>3, <1>4, <1>6 DEF WiringInv

(* Replication marks the input nodes; a root that is reached from its own  *)
(* cone is safe by its mark only, and then has no replicas in this cone.   *)
LEMMA ReplicateWiring ==
    ASSUME PassInv, WiringInv, Replicate
    PROVE  WiringInv' /\ NoVoterAdded
<1>1. /\ stage = "search" /\ stage' = "wire"
      /\ replicated' \subseteq {n \in ToReplicate : ~Annotated(netlist, n)}
      /\ UNCHANGED <<analysisVars, queueVars, autoidx, errorSink, id, outputNode,
                     frontier, visited, cone, inputNodes, voterCutPoint, first, fixVars>>
    BY DEF Replicate
<1>2. /\ IsGood(netlist) /\ SearchOwn /\ AnalysisFits /\ autoidx \in Nat /\ id \in Nat
      /\ NamesFresh
    BY DEF PassInv, ControlInv, WiringInv
<1>3. ToReplicate \subseteq Own
    BY <1>1, <1>2, OwnReplicated
<1>4. /\ NetStep
      /\ \A c \in ToReplicate \cap Cells : netlist'.cells[c].cone # NoCone
    BY <1>2, <1>3, ReplicateNetStep
<1>5. NamesFresh' /\ OutWidthsStay /\ NoVoterAdded
    BY <1>2, <1>3, ReplicateFrame
<1>6. ASSUME NEW n \in Range(inputNodes)
      PROVE  SafeRoot(n)'
  <2>1. CASE n \in FFs
    <3>1. n \in Cells /\ n \notin Wires
        BY <2>1, OwnFacts
    <3>2. n \in ToReplicate
        BY <3>1 DEF ToReplicate, CS!IsIO, CS!LC!IsIO
    <3> QED BY <1>4, <3>1, <3>2 DEF SafeRoot
  <2>2. CASE n \notin FFs
      BY <2>2 DEF SafeRoot
  <2> QED BY <2>1, <2>2
<1>7. ASSUME voterCutPoint \in replicated', voterCutPoint = outputNode
      PROVE  FALSE
  <2>1. voterCutPoint \in ToReplicate /\ ~Annotated(netlist, voterCutPoint)
      BY <1>1, <1>7
  <2>2. voterCutPoint \in Own /\ voterCutPoint # None
      BY <1>3, <2>1, OwnFacts
  <2>3. voterCutPoint \in Cells /\ voterCutPoint \in DOMAIN netlist.cells
      BY <1>2, <2>2, OwnFacts DEF SearchOwn
  <2>4. voterCutPoint \in FFs
      BY <1>2, <1>7, <2>2, <2>3, OwnFacts DEF SearchOwn
  <2>5. netlist.cells[voterCutPoint].cone = NoCone
      BY <2>1, <2>3 DEF Annotated
  <2>6. OffPath(voterCutPoint)
      BY <1>1, <1>7, <2>4, <2>5 DEF WiringInv, RootsSafe, SafeRoot
  <2>7. PICK x \in DOMAIN connections :
          /\ voterCutPoint \in connections[x]
          /\ x = outputNode \/ x \notin Ports \cup FFs
      BY <2>2 DEF WiringInv, SearchReach, ReachedInCone
  <2>8. x \notin Cells
      BY <1>2, <2>3, <2>7, OwnFacts DEF AnalysisFits, IsAnalysisOf
  <2>9. x \notin Ports
      BY <1>7, <2>3, <2>7, <2>8
  <2> QED BY <2>6, <2>7, <2>9 DEF OffPath
<1>8. WiringInv'
    BY <1>1, <1>4, <1>5, <1>6, <1>7, NetChangeWiring DEF analysisVars, queueVars
<1> QED BY <1>5, <1>8

(* The cut point was found behind a wire, so its output is on that wire.   *)
LEMMA CutPointDrives ==
    ASSUME PassInv, WiringInv, voterCutPoint # None,
           Len(netlist.cells[voterCutPoint].outs) = 1
    PROVE  CutWidth > 0
<1>1. voterCutPoint \in ReachedInCone /\ voterCutPoint \in Cells
    BY DEF WiringInv, SearchReach, PassInv, SearchOwn
<1>2. PICK x \in DOMAIN connections : voterCutPoint \in connections[x]
    BY <1>1 DEF ReachedInCone
<1> QED BY <1>1, <1>2 DEF WiringInv, WidthsKnown, CutWidth

(* insertVoter keeps it, and its voter stands on a triple.                 *)
LEMMA InsertVoterWiring ==
    ASSUME PassInv, WiringInv, InsertVoter
    PROVE  /\ WiringInv'
           /\ \A v \in DOMAIN netlist'.cells \ DOMAIN netlist.cells : StandsOnTriple(v)
<1>1. /\ stage = "wire" /\ stage' = "fix" /\ voterCutPoint \in replicated
      /\ Len(netlist.cells[voterCutPoint].outs) = 1
      /\ UNCHANGED <<analysisVars, queueVars, errorSink, coneVars>>
    BY DEF InsertVoter, CanSplice
<1>2. /\ IsGood(netlist) /\ SearchOwn /\ AnalysisFits /\ ReplicasReady
      /\ autoidx \in Nat /\ id \in Nat /\ NamesFresh
    BY DEF PassInv, ControlInv, WiringInv
<1>3. voterCutPoint \in replicated \cap Cells /\ voterCutPoint # None
    BY <1>1, <1>2, OwnFacts DEF SearchOwn
<1>4. CutPointReady
    BY <1>1, <1>2, <1>3 DEF ReplicasReady, CutPointReady
<1>5. RootReady /\ CellOutputsFit
    BY <1>1, <1>2, OwnFacts DEF SearchOwn, RootReady, AnalysisFits
<1>6. NetStep
    BY <1>2, <1>4, <1>5, InsertVoterNetStep
<1>7. NamesFresh' /\ OutWidthsStay
    BY <1>2, <1>4, <1>5, InsertVoterFrame
<1>8. \A n \in Range(inputNodes) : n \in DOMAIN connections => SafeRoot(n)
    BY <1>1 DEF WiringInv, RootsSafe
<1>9. Range(inputNodes) \subseteq Own
    BY <1>2, InputNodesOwn
<1>10. ASSUME NEW n \in Range(inputNodes), n \in DOMAIN connections
       PROVE  SafeRoot(n)'
  <2>1. n \in Own /\ SafeRoot(n)
      BY <1>8, <1>9, <1>10
  <2>2. UNCHANGED connections
      BY <1>1 DEF analysisVars
  <2> QED BY <1>6, <2>1, <2>2, NetStepKeepsSafe
<1>11. WiringInv'
    BY <1>1, <1>6, <1>7, <1>10, NetChangeWiring DEF analysisVars, queueVars, coneVars
<1>12. CutWidth > 0
    BY <1>1, <1>3, CutPointDrives
<1>13. voterCutPoint # outputNode
    BY <1>1 DEF WiringInv, RootsSafe
<1>14. /\ netlist.cells[voterCutPoint].cone = id
       /\ \A r \in {1, 2} : netlist.cells[Replica(voterCutPoint, r, id)].outs
                                = netlist.cells[voterCutPoint].outs
    BY <1>1, <1>2, <1>3 DEF ReplicasReady
<1>15. \A v \in DOMAIN netlist'.cells \ DOMAIN netlist.cells : StandsOnTriple(v)
    BY <1>2, <1>4, <1>5, <1>12, <1>13, <1>14, VoterStands
<1> QED BY <1>11, <1>15

(* The fixer keeps it.                                                     *)
LEMMA RewireWiring ==
    ASSUME PassInv, WiringInv, Rewire
    PROVE  WiringInv' /\ NoVoterAdded
<1>1. /\ stage = "fix" /\ stage' = "fix"
      /\ UNCHANGED <<analysisVars, queueVars, errorSink, coneVars>>
    BY DEF Rewire
<1>2. /\ IsGood(netlist) /\ SearchOwn /\ autoidx \in Nat /\ NamesFresh
      /\ fixTodo \subseteq DOMAIN netlist.wires
    BY DEF PassInv, ControlInv, AnalysisFits, WiringInv
<1>3. NetStep /\ NamesFresh' /\ OutWidthsStay /\ NoVoterAdded
    BY <1>2, RewireNetStep, RewireFrame
<1>4. Range(inputNodes) \subseteq Own
    BY <1>2, InputNodesOwn
<1>5. ASSUME NEW n \in Range(inputNodes), n \in DOMAIN connections
      PROVE  SafeRoot(n)'
  <2>1. n \in Own
      BY <1>4
  <2>2. SafeRoot(n)
      BY <1>1, <1>5 DEF WiringInv, RootsSafe
  <2>3. UNCHANGED connections
      BY <1>1 DEF analysisVars
  <2> QED BY <1>3, <2>1, <2>2, <2>3, NetStepKeepsSafe
<1>6. WiringInv'
    BY <1>1, <1>3, <1>5, NetChangeWiring DEF analysisVars, queueVars, coneVars
<1> QED BY <1>3, <1>6

(* Connecting the sink keeps it.                                           *)
LEMMA FinaliseWiring ==
    ASSUME PassInv, WiringInv, Finalise
    PROVE  WiringInv' /\ NoVoterAdded
<1>1. /\ stage = "next" /\ stage' = "done"
      /\ UNCHANGED <<analysisVars, queueVars, errorSink, coneVars, fixVars>>
    BY DEF Finalise, Finished
<1>2. /\ IsGood(netlist) /\ autoidx \in Nat /\ NamesFresh
    BY DEF PassInv, ControlInv, WiringInv
<1>3. NetStep
    BY EveryStepIsNetStep DEF Next
<1>4. NamesFresh' /\ OutWidthsStay /\ NoVoterAdded
    BY <1>2, FinaliseFrame
<1>5. WiringInv'
    BY <1>1, <1>3, <1>4, NetChangeWiring DEF analysisVars, queueVars, coneVars
<1> QED BY <1>4, <1>5

(* A cone begun at a safe root keeps it.                                   *)
LEMMA BeginWiring ==
    ASSUME WiringInv, NEW root, SafeRoot(root), NEW coneID, Begin(root, coneID),
           \A k \in DOMAIN successors' : SafeRoot(successors'[k].root),
           UNCHANGED <<netlist, analysisVars, autoidx>>
    PROVE  WiringInv'
<1>1. NamesFresh' /\ WidthsKnown' /\ DriveOne'
    BY DEF WiringInv, NamesFresh, WidthsKnown, DriveOne, analysisVars
<1>2. SearchReach'
  <2>1. Range(<<>>) = {}
      BY DEF Range
  <2> QED BY <2>1 DEF SearchReach, Begin
<1>3. RootsSafe'
  <2>1. stage' = "search" /\ outputNode' = root
      BY DEF Begin
  <2>2. SafeRoot(outputNode)'
      BY <2>1 DEF SafeRoot, OffPath, analysisVars
  <2>3. ASSUME NEW k \in DOMAIN successors'
        PROVE  SafeRoot(successors[k].root)'
      BY DEF SafeRoot, OffPath, analysisVars
  <2> QED BY <2>1, <2>2, <2>3 DEF RootsSafe
<1> QED BY <1>1, <1>2, <1>3 DEF WiringInv

(* An output port is safe.                                                 *)
LEMMA BeginOutputWiring ==
    ASSUME PassInv, WiringInv, BeginOutput
    PROVE  WiringInv'
<1>1. PICK o \in outputs : Begin(o, nextID)
    BY DEF BeginOutput
<1>2. UNCHANGED <<netlist, analysisVars, autoidx, successors>>
    BY DEF BeginOutput
<1>3. SafeRoot(o)
    BY OwnFacts DEF PassInv, QueuesOwn, SafeRoot
<1>4. \A k \in DOMAIN successors' : SafeRoot(successors'[k].root)
    BY <1>2 DEF WiringInv, RootsSafe
<1> QED BY <1>1, <1>2, <1>3, <1>4, BeginWiring

(* A successor was when it was queued.                                     *)
LEMMA BeginSuccessorWiring ==
    ASSUME PassInv, WiringInv, BeginSuccessor
    PROVE  WiringInv'
<1> DEFINE S == [root : Own \cap (FFs \cup OutPorts), id : Nat]
           root == Head(successors).root
           coneID == Head(successors).id
<1>1. /\ Begin(root, coneID) /\ successors # <<>>
      /\ successors' = Tail(successors)
      /\ UNCHANGED <<netlist, analysisVars, autoidx>>
    BY DEF BeginSuccessor
<1>2. successors \in Seq(S)
    BY DEF PassInv, QueuesOwn
<1>3. \A k \in DOMAIN successors : SafeRoot(successors[k].root)
    BY DEF WiringInv, RootsSafe
<1> HIDE DEF S
<1>4. /\ 1 \in DOMAIN successors /\ Head(successors) = successors[1]
      /\ \A k \in DOMAIN Tail(successors) :
            k + 1 \in DOMAIN successors /\ Tail(successors)[k] = successors[k + 1]
    BY <1>1, <1>2
<1>5. SafeRoot(root)
    BY <1>3, <1>4
<1>6. \A k \in DOMAIN successors' : SafeRoot(successors'[k].root)
    BY <1>1, <1>3, <1>4
<1> HIDE DEF root, coneID
<1> QED BY <1>1, <1>5, <1>6, BeginWiring

(* The successors come from the input nodes, which are safe by then.       *)
LEMMA BuildSuccessorsWiring ==
    ASSUME PassInv, WiringInv, BuildSuccessors
    PROVE  WiringInv'
<1> DEFINE S == {n \in Range(inputNodes) : IsSuccessor(n)}
<1>1. PICK found \in CS!Orderings(S) :
          successors' = successors \o
             [k \in DOMAIN found |-> [root |-> found[k], id |-> nextID + k - 1]]
    BY DEF BuildSuccessors
<1>2. /\ stage = "expand" /\ stage' = "next"
      /\ UNCHANGED <<netlist, analysisVars, autoidx, coneVars>>
    BY DEF BuildSuccessors
<1>3. NamesFresh' /\ WidthsKnown' /\ DriveOne'
    BY <1>2 DEF WiringInv, NamesFresh, WidthsKnown, DriveOne, analysisVars
<1>4. SearchReach'
  <2>1. ReachedInCone' = ReachedInCone
      BY <1>2 DEF ReachedInCone, Own, analysisVars, coneVars
  <2> QED BY <1>2, <2>1 DEF WiringInv, SearchReach, analysisVars, coneVars
<1>5. IsFiniteSet(S) /\ \A n \in S : SafeRoot(n)
  <2>1. Range(inputNodes) \subseteq Own
      BY InputNodesOwn DEF PassInv
  <2>2. S \subseteq Own
      BY <2>1
  <2>3. IsFiniteSet(S)
      BY <2>2, OwnIsFinite, FS_Subset
  <2> QED BY <1>2, <2>3 DEF WiringInv, RootsSafe, IsSuccessor
<1> HIDE DEF S
<1>6. found \in Seq(S)
    BY <1>5, OrderingFacts
<1>7. ASSUME NEW k \in DOMAIN successors'
      PROVE  SafeRoot(successors'[k].root)
  <2> DEFINE Q == [root : Own \cap (FFs \cup OutPorts), id : Nat]
             R == [root : S, id : Int]
             Roots == Q \cup R
             new == [i \in DOMAIN found |-> [root |-> found[i], id |-> nextID + i - 1]]
  <2>1. successors \in Seq(Q) /\ nextID \in Nat
      BY DEF PassInv, QueuesOwn, ControlInv
  <2>2. Len(found) \in Nat /\ DOMAIN found = 1..Len(found)
        /\ \A i \in DOMAIN found : found[i] \in S
      BY <1>6
  <2>3. new \in [1..Len(found) -> R]
      BY <2>1, <2>2
  <2>4. successors' = successors \o new
      BY <1>1
  <2>5. \A i \in DOMAIN new : new[i].root = found[i] /\ found[i] \in S
      BY <2>2
  <2> HIDE DEF new, Q, R
  <2>6. new \in Seq(R) /\ Len(new) = Len(found)
      BY <2>2, <2>3, FunctionIsSeq
  <2>7. successors \in Seq(Roots) /\ new \in Seq(Roots)
    <3>1. Q \subseteq Roots /\ R \subseteq Roots
        OBVIOUS
    <3> HIDE DEF Roots
    <3> QED BY <2>1, <2>6, <3>1
  <2> HIDE DEF Roots
  <2>8. \/ k \in DOMAIN successors /\ successors'[k] = successors[k]
        \/ k - Len(successors) \in DOMAIN new /\ successors'[k] = new[k - Len(successors)]
      BY <2>4, <2>7, ConcatProperties
  <2> QED BY <1>5, <2>5, <2>8 DEF WiringInv, RootsSafe
<1>8. ASSUME NEW k \in DOMAIN successors'
      PROVE  SafeRoot(successors[k].root)'
    BY <1>2, <1>7 DEF SafeRoot, OffPath, analysisVars
<1>9. RootsSafe'
    BY <1>2, <1>8 DEF RootsSafe
<1> QED BY <1>3, <1>4, <1>9 DEF WiringInv

(* The wiring invariant holds when the command is called.                  *)
LEMMA WiringInit == Init => WiringInv
<1> SUFFICES ASSUME Init PROVE WiringInv
    OBVIOUS
<1>1. NamesFresh
  <2>1. netlist \in Designs /\ Cells \cup Wires \subseteq Names
      BY DEF Init, Names
  <2>2. \A y \in DOMAIN netlist.cells \cup DOMAIN netlist.wires : y \notin Generated
      BY <2>1, DesignAssumption, GeneratedNames
  <2> QED BY <2>2 DEF NamesFresh
<1>2. WidthsKnown /\ DriveOne
    BY DEF Init, NoAnalysis, WidthsKnown, DriveOne
<1>3. SearchReach
    BY DEF Init, SearchReach, Range
<1>4. RootsSafe
    BY DEF Init, RootsSafe
<1> QED BY <1>1, <1>2, <1>3, <1>4 DEF WiringInv

(* The wiring invariant is inductive, and a voter that a step adds stands  *)
(* on a triple.                                                            *)
LEMMA WiringStep ==
    ASSUME PassInv, WiringInv, [Next]_vars
    PROVE  /\ WiringInv'
           /\ \A v \in DOMAIN netlist'.cells \ DOMAIN netlist.cells :
                 netlist'.cells[v].type = "voter" => StandsOnTriple(v)
<1>1. CASE UNCHANGED vars
  <2>1. NamesFresh' /\ WidthsKnown' /\ DriveOne'
      BY <1>1 DEF vars, WiringInv, NamesFresh, WidthsKnown, DriveOne, analysisVars
  <2>2. ReachedInCone' = ReachedInCone
      BY <1>1 DEF vars, ReachedInCone, Own, analysisVars, coneVars
  <2>3. SearchReach'
      BY <1>1, <2>2 DEF vars, WiringInv, SearchReach, analysisVars, coneVars
  <2>4. RootsSafe'
      BY <1>1 DEF vars, WiringInv, RootsSafe, SafeRoot, OffPath, analysisVars, coneVars, queueVars
  <2> QED BY <1>1, <2>1, <2>3, <2>4 DEF WiringInv, vars
<1>2. CASE InsertVoter
    BY <1>2, InsertVoterWiring
<1>3. CASE \/ Replicate \/ Rewire \/ Finalise
  <2>1. WiringInv' /\ NoVoterAdded
      BY <1>3, ReplicateWiring, RewireWiring, FinaliseWiring
  <2> QED BY <2>1 DEF NoVoterAdded
<1>4. CASE Prepare
  <2>1. NoVoterAdded
      BY <1>4, PrepareFrame DEF PassInv, ControlInv, WiringInv
  <2> QED BY <1>4, <2>1, PrepareWiring DEF NoVoterAdded
<1>5. CASE \/ SkipEmptyCone \/ BeginOutput \/ BeginSuccessor \/ Search \/ BuildSuccessors
  <2>1. WiringInv'
      BY <1>5, SkipEmptyConeWiring, BeginOutputWiring, BeginSuccessorWiring, SearchWiring,
         BuildSuccessorsWiring
  <2>2. UNCHANGED netlist
      BY <1>5 DEF SkipEmptyCone, BeginOutput, BeginSuccessor, Search, BuildSuccessors
  <2> QED BY <2>1, <2>2
<1>6. CASE \/ DuplicateErrorSink \/ SkipErrorSink \/ CutPointNotSet \/ CutPointNotReplicated
           \/ CannotSplice \/ CannotRewire \/ FixesDone \/ CannotFinalise \/ FinishWithoutSink
  <2>1. /\ UNCHANGED <<netlist, connections, autoidx, outputNode, frontier, visited, cone,
                       inputNodes, voterCutPoint, first, successors>>
        /\ stage' \notin {"start", "wire"}
        /\ stage' = "search" => stage = "search"
        /\ stage' \in {"fix", "expand"} => stage \in {"wire", "fix", "expand"}
      BY <1>6 DEF DuplicateErrorSink, SkipErrorSink, CutPointNotSet, CutPointNotReplicated,
            CannotSplice, CannotRewire, FixesDone, CannotFinalise, FinishWithoutSink, Finished,
            Fail, analysisVars, coneVars, queueVars
  <2> QED BY <2>1, WiringKept
<1> QED BY <1>1, <1>2, <1>3, <1>4, <1>5, <1>6 DEF Next

(* Names, widths and roots stay fit for the next voter.                    *)
THEOREM WiringInvariant == Spec => []WiringInv
<1>1. Init => WiringInv
    BY WiringInit
<1>2. PassInv /\ WiringInv /\ [Next]_vars => WiringInv'
    BY WiringStep
<1> QED BY <1>1, <1>2, PassInvariant, PTL DEF Spec

(* Every voter is born on the three copies of one cell, one on each input, *)
(* and is alone on its output wire.                                        *)
THEOREM VotersStandOnTriples == Spec => VoterOnTriple
<1>1. PassInv /\ WiringInv /\ [Next]_vars =>
        [\A v \in DOMAIN netlist'.cells \ DOMAIN netlist.cells :
          Running /\ netlist'.cells[v].type = "voter" =>
             /\ \A k \in 1..3 :
                   DriversOfSignal(netlist', netlist'.cells[v].ins[k]) =
                      {<<Replica(voterCutPoint, 1, netlist'.cells[voterCutPoint].cone),
                         Replica(voterCutPoint, 2, netlist'.cells[voterCutPoint].cone),
                         voterCutPoint>>[k]}
             /\ \A c \in DOMAIN netlist'.cells \ {v} :
                   netlist'.cells[v].outs[1] \notin Range(netlist'.cells[c].outs)]_vars
    BY WiringStep DEF StandsOnTriple
<1> QED BY <1>1, PassInvariant, WiringInvariant, PTL DEF Spec, VoterOnTriple
=============================================================================
