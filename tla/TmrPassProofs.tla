--------------------------- MODULE TmrPassProofs ---------------------------
(***************************************************************************)
(* Proofs about one tamara_tmr command, on designs of any size and with    *)
(* cones that overlap as they like.                                        *)
(*                                                                         *)
(* The argument: the netlist is good (IsGood) when it has the replicas of  *)
(* the objects that are annotated, and no other.  All that a step but      *)
(* replicate does to it is an edit (Edited): a rip, a wire, a cell that    *)
(* was added or reconnected, none of which marks an object or touches an   *)
(* input of the user's cells.  replicate adds the replicas of objects that *)
(* are not annotated yet.  So every step is a NetStep, whatever the cone,  *)
(* and what the properties say of a step follows from that alone.  For     *)
(* this replicas, generated names and the design's names must be told      *)
(* apart, and the rest of the invariant says that searches and queues only *)
(* ever hold objects of the design: no replica or voter is replicated.     *)
(***************************************************************************)
EXTENDS TmrPass, SequenceLemmas

(* The names the command makes up for wires and cells of its own, each     *)
(* with a number of autoidx.                                               *)
Generated == {"$eRW", "$err", "$fix", "$voter", "$or"} \X Nat

(* The names of the designs.                                               *)
Names == Wires \cup Cells

(* A generated name is not that of a design's object: it has two parts,    *)
(* that has one.                                                           *)
LEMMA GeneratedNames ==
    ASSUME NEW y \in Generated
    PROVE  Len(y) = 2 /\ y \notin Names
<1>1. Len(y) = 2
    BY DEF Generated
<1> QED BY <1>1, NameAssumption DEF Names

(* A replica's name tells the object, the number of the replica and its    *)
(* cone, and is neither a design's nor generated.                          *)
LEMMA ReplicaNames ==
    ASSUME NEW x \in Names, NEW r \in {1, 2}, NEW i \in Nat
    PROVE  /\ Len(Replica(x, r, i)) = 3
           /\ Replica(x, r, i)[2] = r /\ Replica(x, r, i)[3] = i
           /\ OriginalOf(Replica(x, r, i)) = x
           /\ Replica(x, r, i) \notin Names \cup Generated
<1> DEFINE S == STRING \cup Nat
           t == <<r, i>>
<1>1. x \in Seq(S) /\ Len(x) = 1 /\ x = <<x[1]>>
    BY NameAssumption DEF Names
<1>2. t \in Seq(S) /\ Len(t) = 2 /\ t[1] = r /\ t[2] = i
    BY <1>1
<1>3. x \o t = Replica(x, r, i)
    BY DEF Replica
<1> HIDE DEF S, t
<1>4. /\ x \o t \in Seq(S)
      /\ Len(x \o t) = Len(x) + Len(t)
      /\ \A k \in 1..Len(x) + Len(t) :
            (x \o t)[k] = IF k <= Len(x) THEN x[k] ELSE t[k - Len(x)]
    BY <1>1, <1>2, ConcatProperties
<1>5. /\ Len(x \o t) = 3
      /\ (x \o t)[1] = x[1] /\ (x \o t)[2] = r /\ (x \o t)[3] = i
    BY <1>1, <1>2, <1>4
<1>6. OriginalOf(Replica(x, r, i)) = x
    BY <1>1, <1>3, <1>5 DEF OriginalOf
<1>7. Replica(x, r, i) \notin Names
    BY <1>3, <1>5, NameAssumption DEF Names
<1>8. Replica(x, r, i) \notin Generated
  <2>1. Len(Replica(x, r, i)) # 2
      BY <1>3, <1>5
  <2> QED BY <2>1, GeneratedNames
<1> QED BY <1>3, <1>5, <1>6, <1>7, <1>8

(* Two replicas never share a name.                                        *)
LEMMA ReplicaInjective ==
    ASSUME NEW x \in Names, NEW r \in {1, 2}, NEW i \in Nat,
           NEW y \in Names, NEW q \in {1, 2}, NEW j \in Nat,
           Replica(x, r, i) = Replica(y, q, j)
    PROVE  x = y /\ r = q /\ i = j
<1>1. /\ OriginalOf(Replica(x, r, i)) = x /\ OriginalOf(Replica(y, q, j)) = y
      /\ Replica(x, r, i)[2] = r /\ Replica(y, q, j)[2] = q
      /\ Replica(x, r, i)[3] = i /\ Replica(y, q, j)[3] = j
    BY ReplicaNames
<1> QED BY <1>1

(* Among the objects objs, of a design whose names are given, replicas     *)
(* come in pairs: of an annotated object, with its cone, and of nothing    *)
(* else.                                                                   *)
PairsIn(objs, names) ==
    /\ \A x \in DOMAIN objs :
          \/ x \in names \cup Generated
          \/ \E y \in names, r \in {1, 2}, i \in Nat : x = Replica(y, r, i)
    /\ \A x \in DOMAIN objs \cap Generated : objs[x].cone = NoCone /\ ~objs[x].original
    /\ \A x \in DOMAIN objs \cap names : objs[x].original <=> objs[x].cone # NoCone
    /\ \A x \in names, r \in {1, 2}, i \in Nat :
          /\ Replica(x, r, i) \in DOMAIN objs <=> x \in DOMAIN objs /\ objs[x].cone = i
          /\ Replica(x, r, i) \in DOMAIN objs => objs[Replica(x, r, i)].cone = i

(* No object of objs is lost or marked otherwise in objs2, and what is new *)
(* in it is generated and unmarked.                                        *)
SameMarks(objs, objs2) ==
    /\ DOMAIN objs \subseteq DOMAIN objs2
    /\ DOMAIN objs2 \ DOMAIN objs \subseteq Generated
    /\ \A x \in DOMAIN objs : /\ objs2[x].cone = objs[x].cone
                             /\ objs2[x].original = objs[x].original
    /\ \A x \in DOMAIN objs2 \ DOMAIN objs : objs2[x].cone = NoCone /\ ~objs2[x].original

(* Which keeps the pairs.                                                  *)
LEMMA SameMarksKeepPairs ==
    ASSUME NEW names, names \subseteq Names, NEW objs, NEW objs2,
           PairsIn(objs, names), SameMarks(objs, objs2)
    PROVE  PairsIn(objs2, names)
<1>1. \A x \in names : x \notin Generated
    BY GeneratedNames
<1>2. \A x \in names, r \in {1, 2}, i \in Nat : Replica(x, r, i) \notin Generated
    BY ReplicaNames
<1>3. \A x \in DOMAIN objs2 :
          \/ x \in names \cup Generated
          \/ \E y \in names, r \in {1, 2}, i \in Nat : x = Replica(y, r, i)
    BY DEF PairsIn, SameMarks
<1>4. \A x \in DOMAIN objs2 \cap Generated : objs2[x].cone = NoCone /\ ~objs2[x].original
    BY DEF PairsIn, SameMarks
<1>5. \A x \in DOMAIN objs2 \cap names : objs2[x].original <=> objs2[x].cone # NoCone
    BY <1>1 DEF PairsIn, SameMarks
<1>6. ASSUME NEW x \in names, NEW r \in {1, 2}, NEW i \in Nat
      PROVE  /\ Replica(x, r, i) \in DOMAIN objs2 <=> x \in DOMAIN objs2 /\ objs2[x].cone = i
             /\ Replica(x, r, i) \in DOMAIN objs2 => objs2[Replica(x, r, i)].cone = i
    BY <1>1, <1>2 DEF PairsIn, SameMarks
<1> QED BY <1>3, <1>4, <1>5, <1>6 DEF PairsIn

(* The objects have the attributes that replication sets.                  *)
IsMarked(objs) == \A x \in DOMAIN objs : {"cone", "original"} \subseteq DOMAIN objs[x]

(* What WithReplicas makes of an object: its replicas, and itself.         *)
Copied(obj, i) == [obj EXCEPT !.cone = i]
Marked(obj, i) == [obj EXCEPT !.cone = i, !.original = TRUE]

(* The replicas of objects that no cone has annotated are new to the       *)
(* netlist.                                                                *)
LEMMA CopiesAreNew ==
    ASSUME NEW names, names \subseteq Names, NEW objs, NEW S, NEW i \in Nat,
           PairsIn(objs, names), S \subseteq DOMAIN objs \cap names,
           \A x \in S : objs[x].cone = NoCone
    PROVE  /\ DOMAIN objs \cap Copies(S, i) = {}
           /\ \A x \in Copies(S, i) : x \notin Names \cup Generated /\ OriginalOf(x) \in S
           /\ \A x \in S, r \in {1, 2} : /\ Replica(x, r, i) \in Copies(S, i)
                                       /\ OriginalOf(Replica(x, r, i)) = x
<1>1. DOMAIN objs \cap Copies(S, i) = {}
  <2> SUFFICES ASSUME NEW x \in S, NEW r \in {1, 2}
               PROVE  Replica(x, r, i) \notin DOMAIN objs
      BY DEF Copies
  <2>1. objs[x].cone # i
      BY NoConeAssumption
  <2> QED BY <2>1 DEF PairsIn
<1>2. \A x \in S, r \in {1, 2} : /\ Replica(x, r, i) \in Copies(S, i)
                              /\ OriginalOf(Replica(x, r, i)) = x
    BY ReplicaNames DEF Copies
<1>3. \A x \in Copies(S, i) : x \notin Names \cup Generated /\ OriginalOf(x) \in S
    BY ReplicaNames DEF Copies
<1> QED BY <1>1, <1>2, <1>3

(* LogicCone::replicate keeps replicas in pairs.                           *)
LEMMA ReplicationPairs ==
    ASSUME NEW names, names \subseteq Names, NEW objs, NEW S, NEW i \in Nat,
           PairsIn(objs, names), IsMarked(objs), S \subseteq DOMAIN objs \cap names,
           \A x \in S : objs[x].cone = NoCone,
           NEW new, new = WithReplicas(objs, S, i)
    PROVE  PairsIn(new, names)
<1>0. /\ DOMAIN objs \cap Copies(S, i) = {}
      /\ \A x \in Copies(S, i) : x \notin Names \cup Generated /\ OriginalOf(x) \in S
      /\ \A x \in S, r \in {1, 2} : /\ Replica(x, r, i) \in Copies(S, i)
                                  /\ OriginalOf(Replica(x, r, i)) = x
    BY CopiesAreNew
<1>a. new = [x \in DOMAIN objs \cup Copies(S, i) |->
                IF x \in Copies(S, i) THEN Copied(objs[OriginalOf(x)], i)
                ELSE IF x \in S THEN Marked(objs[x], i)
                ELSE objs[x]]
    BY DEF WithReplicas, Copied, Marked
<1>1. /\ DOMAIN new = DOMAIN objs \cup Copies(S, i)
      /\ DOMAIN objs \cap Copies(S, i) = {}
      /\ \A x \in S, r \in {1, 2} : new[Replica(x, r, i)] = Copied(objs[x], i)
      /\ \A x \in S : new[x] = Marked(objs[x], i)
      /\ \A x \in DOMAIN objs \ S : new[x] = objs[x]
    BY <1>0, <1>a
<1>2. \A x \in S, r \in {1, 2} : new[Replica(x, r, i)].cone = i
  <2> SUFFICES ASSUME NEW x \in S, NEW r \in {1, 2}
               PROVE  new[Replica(x, r, i)].cone = i
      OBVIOUS
  <2>1. new[Replica(x, r, i)] = Copied(objs[x], i) /\ "cone" \in DOMAIN objs[x]
      BY <1>1 DEF IsMarked
  <2> QED BY <2>1 DEF Copied
<1>3. \A x \in S : new[x].cone = i /\ new[x].original
    BY <1>1 DEF IsMarked, Marked
<1>4. \A x \in Copies(S, i) : x \notin Names \cup Generated
    BY ReplicaNames DEF Copies
<1>5. \A x \in S : x \notin Generated
    BY GeneratedNames
<1>6. \A x \in DOMAIN new :
          \/ x \in names \cup Generated
          \/ \E y \in names, r \in {1, 2}, j \in Nat : x = Replica(y, r, j)
  <2>1. \A x \in DOMAIN objs :
          \/ x \in names \cup Generated
          \/ \E y \in names, r \in {1, 2}, j \in Nat : x = Replica(y, r, j)
      BY DEF PairsIn
  <2>2. \A x \in Copies(S, i) : \E y \in names, r \in {1, 2}, j \in Nat : x = Replica(y, r, j)
      BY DEF Copies
  <2> QED BY <1>1, <2>1, <2>2
<1>7. \A x \in DOMAIN new \cap Generated : new[x].cone = NoCone /\ ~new[x].original
    BY <1>1, <1>4, <1>5 DEF PairsIn
<1>8. \A x \in DOMAIN new \cap names : new[x].original <=> new[x].cone # NoCone
  <2> SUFFICES ASSUME NEW x \in DOMAIN new \cap names
               PROVE  new[x].original <=> new[x].cone # NoCone
      OBVIOUS
  <2>1. CASE x \in S
      BY <1>3, <2>1, NoConeAssumption
  <2>2. CASE x \notin S
    <3>1. x \in DOMAIN objs \cap names /\ new[x] = objs[x]
        BY <1>1, <1>4, <2>2
    <3> QED BY <3>1 DEF PairsIn
  <2> QED BY <2>1, <2>2
<1>9. ASSUME NEW x \in names, NEW r \in {1, 2}, NEW j \in Nat
      PROVE  /\ Replica(x, r, j) \in DOMAIN new <=> x \in DOMAIN new /\ new[x].cone = j
             /\ Replica(x, r, j) \in DOMAIN new => new[Replica(x, r, j)].cone = j
  <2>1. Replica(x, r, j) \in Copies(S, i) <=> x \in S /\ j = i
      BY ReplicaInjective DEF Copies
  <2>2. x \notin Copies(S, i) /\ Replica(x, r, j) \notin S
      BY <1>4, ReplicaNames
  <2>3. CASE x \in S /\ j = i
      BY <1>1, <1>2, <1>3, <2>1, <2>3
  <2>4. CASE x \in S /\ j # i
    <3>1. Replica(x, r, j) \notin DOMAIN objs
        BY <2>4, NoConeAssumption DEF PairsIn
    <3> QED BY <1>1, <1>3, <2>1, <2>4, <3>1
  <2>5. CASE x \notin S
    <3>1. /\ x \in DOMAIN new <=> x \in DOMAIN objs
          /\ Replica(x, r, j) \in DOMAIN new <=> Replica(x, r, j) \in DOMAIN objs
        BY <1>1, <2>1, <2>2, <2>5
    <3>2. /\ x \in DOMAIN objs => new[x] = objs[x]
          /\ Replica(x, r, j) \in DOMAIN objs
                => new[Replica(x, r, j)] = objs[Replica(x, r, j)]
        BY <1>1, <2>2, <2>5
    <3> QED BY <3>1, <3>2 DEF PairsIn
  <2> QED BY <2>3, <2>4, <2>5
<1> QED BY <1>6, <1>7, <1>8, <1>9 DEF PairsIn

-----------------------------------------------------------------------------

(* Signals and cells stay what they are when wires are added.              *)
LEMMA SignalsGrow ==
    ASSUME NEW wires, NEW wires2, wires \subseteq wires2
    PROVE  /\ Signals(wires) \subseteq Signals(wires2)
           /\ CellRecords(wires) \subseteq CellRecords(wires2)
<1>1. \A S, T : S \subseteq T => Seq(S) \subseteq Seq(T)
    OBVIOUS
<1>2. {Constant} \cup (wires \X Nat) \subseteq {Constant} \cup (wires2 \X Nat)
    OBVIOUS
<1>3. Signals(wires) \subseteq Signals(wires2)
    BY <1>1, <1>2 DEF Signals
<1>4. Seq(Signals(wires)) \subseteq Seq(Signals(wires2))
    BY <1>1, <1>3
<1> QED BY <1>3, <1>4 DEF CellRecords

(* All bits of a wire are a signal of its width.                           *)
LEMMA WholeIsSignal ==
    ASSUME NEW wires, NEW w \in wires, NEW n \in Nat
    PROVE  Whole(w, n) \in Signals(wires) /\ Len(Whole(w, n)) = n
<1>1. \A k \in 1..n : <<w, k - 1>> \in wires \X Nat
    OBVIOUS
<1>2. Whole(w, n) \in [1..n -> {Constant} \cup (wires \X Nat)]
    BY <1>1 DEF Whole
<1> QED BY <1>2 DEF Signals

(* What the steps name is generated.                                       *)
LEMMA GeneratedByName ==
    ASSUME NEW n \in Nat
    PROVE  {RipWire(n), ErrWire(n), FixWire(n), <<"$voter", n>>, <<"$or", n>>}
              \subseteq Generated
BY DEF Generated, RipWire, ErrWire, FixWire

(* Of the wires of m, m2 has all, and a new or renewed one.                *)
IsAdded(m, w, width, m2) ==
    /\ DOMAIN m2.wires = DOMAIN m.wires \cup {w}
    /\ m2.wires[w] = NewWire(width)
    /\ \A v \in DOMAIN m.wires \ {w} : m2.wires[v] = m.wires[v]

(* The cell drives something else, and is otherwise the same.              *)
SameButOuts(cell, cell2) ==
    /\ cell2.type = cell.type /\ cell2.ins = cell.ins
    /\ cell2.cone = cell.cone /\ cell2.original = cell.original /\ cell2.ignore = cell.ignore

(* extractReplicaWire on a cell: what it changes, and that is all.         *)
LEMMA RipFacts ==
    ASSUME NEW m, IsNetlist(m), NEW c \in DOMAIN m.cells, Len(m.cells[c].outs) = 1,
           NEW n \in Nat, NEW m2, m2 = Rip(m, c, n)
    PROVE  /\ IsNetlist(m2)
           /\ IsAdded(m, RipWire(n), Len(m.cells[c].outs[1]), m2)
           /\ DOMAIN m2.cells = DOMAIN m.cells
           /\ \A d \in DOMAIN m.cells \ {c} : m2.cells[d] = m.cells[d]
           /\ SameButOuts(m.cells[c], m2.cells[c])
           /\ m2.cells[c].outs = <<Whole(RipWire(n), Len(m.cells[c].outs[1]))>>
           /\ m2.conns = m.conns
<1> DEFINE width == Len(m.cells[c].outs[1])
           wire == RipWire(n)
           outs == <<Whole(wire, width)>>
           wires == DOMAIN m.wires
           wires2 == wires \cup {wire}
<1>1. /\ m.cells \in [DOMAIN m.cells -> CellRecords(wires)]
      /\ m.wires \in [wires -> WireRecords]
      /\ m.conns \subseteq Signals(wires) \X Signals(wires)
      /\ m \in [cells : [DOMAIN m.cells -> CellRecords(wires)], wires : [wires -> WireRecords],
                conns : SUBSET (Signals(wires) \X Signals(wires))]
    BY DEF IsNetlist
<1>2. width \in Nat
  <2>1. m.cells[c].outs \in Seq(Signals(wires))
      BY <1>1 DEF CellRecords
  <2>2. m.cells[c].outs[1] \in Signals(wires)
      BY <2>1
  <2> QED BY <2>2 DEF Signals
<1>3. outs \in Seq(Signals(wires2))
  <2>1. wire \in wires2
      OBVIOUS
  <2>2. Whole(wire, width) \in Signals(wires2)
      BY <1>2, <2>1, WholeIsSignal
  <2> QED BY <2>2
<1>4. m2 = [cells |-> [m.cells EXCEPT ![c].outs = outs],
            wires |-> With(m.wires, wire, NewWire(width)), conns |-> m.conns]
    BY <1>1 DEF Rip
<1> HIDE DEF width, wire, outs
<1>5. /\ m2.cells = [m.cells EXCEPT ![c].outs = outs]
      /\ m2.wires = With(m.wires, wire, NewWire(width))
      /\ m2.conns = m.conns
    BY <1>4
<1>6. NewWire(width) \in WireRecords
    BY <1>2 DEF NewWire, WireRecords
<1>7. /\ DOMAIN m2.wires = wires2
      /\ m2.wires[wire] = NewWire(width)
      /\ \A v \in wires \ {wire} : m2.wires[v] = m.wires[v]
      /\ m2.wires \in [wires2 -> WireRecords]
    BY <1>1, <1>5, <1>6 DEF With
<1>8. /\ DOMAIN m2.cells = DOMAIN m.cells
      /\ \A d \in DOMAIN m.cells \ {c} : m2.cells[d] = m.cells[d]
      /\ m2.cells[c] = [m.cells[c] EXCEPT !.outs = outs]
    BY <1>1, <1>5
<1>9. m2.cells \in [DOMAIN m2.cells -> CellRecords(wires2)]
  <2>1. \A d \in DOMAIN m.cells : m.cells[d] \in CellRecords(wires2)
      BY <1>1, SignalsGrow
  <2>2. m2.cells[c] \in CellRecords(wires2)
      BY <1>3, <1>8, <2>1 DEF CellRecords
  <2> QED BY <1>1, <1>5, <1>8, <2>1, <2>2
<1>10. m2.conns \subseteq Signals(wires2) \X Signals(wires2)
    BY <1>1, <1>5, SignalsGrow
<1>11. IsNetlist(m2)
  <2>1. m2 \in [cells : [DOMAIN m2.cells -> CellRecords(DOMAIN m2.wires)],
                 wires : [DOMAIN m2.wires -> WireRecords],
                 conns : SUBSET (Signals(DOMAIN m2.wires) \X Signals(DOMAIN m2.wires))]
      BY <1>4, <1>5, <1>7, <1>9, <1>10
  <2> QED BY <1>5, <1>8, <2>1 DEF IsNetlist
<1>12. IsAdded(m, wire, width, m2)
    BY <1>7 DEF IsAdded
<1>13. SameButOuts(m.cells[c], m2.cells[c]) /\ m2.cells[c].outs = outs
    BY <1>1, <1>8 DEF SameButOuts, CellRecords
<1> QED BY <1>5, <1>8, <1>11, <1>12, <1>13 DEF width, wire, outs

(* An edit, as all steps but replicate make them: it marks nothing,        *)
(* touches no input of a design's cell, and of the cells it adds only      *)
(* voters are called so.                                                   *)
Edited(m, m2) ==
    /\ SameMarks(m.cells, m2.cells) /\ SameMarks(m.wires, m2.wires)
    /\ \A c \in DOMAIN m.cells \cap Cells : m2.cells[c].ins = m.cells[c].ins
    /\ \A c \in DOMAIN m.cells \ Generated :
          /\ m2.cells[c].type = m.cells[c].type
          /\ Len(m2.cells[c].outs) = Len(m.cells[c].outs)
    /\ \A c \in DOMAIN m2.cells \cap Generated :
          m2.cells[c].type = "voter" =>
             \/ Len(m2.cells[c].outs) = 2
             \/ c \in DOMAIN m.cells /\ m.cells[c].type = "voter"
                   /\ Len(m2.cells[c].outs) = Len(m.cells[c].outs)
    /\ \A w \in DOMAIN m.wires : m2.wires[w].sink = m.wires[w].sink
    /\ \A w \in DOMAIN m2.wires \ DOMAIN m.wires : ~m2.wires[w].sink

(* The part of the invariant that is about the netlist: names, marks and   *)
(* pairs, and the one output of a flip-flop, the two of a voter.           *)
IsGood(m) ==
    /\ IsNetlist(m)
    /\ PairsIn(m.cells, Cells) /\ PairsIn(m.wires, Wires)
    /\ \A w \in DOMAIN m.wires \cap Generated : ~m.wires[w].sink
    /\ \A c \in DOMAIN m.cells :
          /\ m.cells[c].type = "voter" => c \in Generated /\ Len(m.cells[c].outs) = 2
          /\ c \in FFs => Len(m.cells[c].outs) = 1

(* Edits in a row are one edit.                                            *)
LEMMA EditedTransitive ==
    ASSUME NEW a, NEW b, NEW c, Edited(a, b), Edited(b, c)
    PROVE  Edited(a, c)
<1>1. ASSUME NEW x, NEW y, NEW z, SameMarks(x, y), SameMarks(y, z)
      PROVE  SameMarks(x, z)
    BY <1>1 DEF SameMarks
<1>2. SameMarks(a.cells, c.cells) /\ SameMarks(a.wires, c.wires)
    BY <1>1 DEF Edited
<1>3. /\ DOMAIN a.cells \subseteq DOMAIN b.cells /\ DOMAIN b.cells \subseteq DOMAIN c.cells
      /\ DOMAIN a.wires \subseteq DOMAIN b.wires /\ DOMAIN b.wires \subseteq DOMAIN c.wires
    BY DEF Edited, SameMarks
<1>4. /\ \A k \in DOMAIN a.cells \cap Cells : c.cells[k].ins = a.cells[k].ins
      /\ \A k \in DOMAIN a.cells \ Generated :
          /\ c.cells[k].type = a.cells[k].type
          /\ Len(c.cells[k].outs) = Len(a.cells[k].outs)
    BY <1>3 DEF Edited
<1>5. \A k \in DOMAIN c.cells \cap Generated :
          c.cells[k].type = "voter" =>
             \/ Len(c.cells[k].outs) = 2
             \/ k \in DOMAIN a.cells /\ a.cells[k].type = "voter"
                   /\ Len(c.cells[k].outs) = Len(a.cells[k].outs)
    BY <1>3 DEF Edited
<1>6. /\ \A w \in DOMAIN a.wires : c.wires[w].sink = a.wires[w].sink
      /\ \A w \in DOMAIN c.wires \ DOMAIN a.wires : ~c.wires[w].sink
    BY <1>3 DEF Edited
<1> QED BY <1>2, <1>4, <1>5, <1>6 DEF Edited

(* An edit keeps a good netlist good.                                      *)
LEMMA EditedIsGood ==
    ASSUME NEW m, NEW m2, IsGood(m), IsNetlist(m2), Edited(m, m2)
    PROVE  IsGood(m2)
<1>1. PairsIn(m2.cells, Cells) /\ PairsIn(m2.wires, Wires)
  <2>1. Cells \subseteq Names /\ Wires \subseteq Names
      BY DEF Names
  <2>2. /\ PairsIn(m.cells, Cells) /\ PairsIn(m.wires, Wires)
        /\ SameMarks(m.cells, m2.cells) /\ SameMarks(m.wires, m2.wires)
      BY DEF IsGood, Edited
  <2> QED BY <2>1, <2>2, SameMarksKeepPairs
<1>2. /\ DOMAIN m.cells \subseteq DOMAIN m2.cells /\ DOMAIN m.wires \subseteq DOMAIN m2.wires
      /\ DOMAIN m2.cells \ DOMAIN m.cells \subseteq Generated
      /\ DOMAIN m2.wires \ DOMAIN m.wires \subseteq Generated
    BY DEF Edited, SameMarks
<1>3. \A w \in DOMAIN m2.wires \cap Generated : ~m2.wires[w].sink
    BY <1>2 DEF IsGood, Edited
<1>4. FFs \cap Generated = {}
    BY NameAssumption, GeneratedNames DEF Names
<1>5. ASSUME NEW c \in DOMAIN m2.cells
      PROVE  /\ m2.cells[c].type = "voter" => c \in Generated /\ Len(m2.cells[c].outs) = 2
             /\ c \in FFs => Len(m2.cells[c].outs) = 1
    BY <1>2, <1>4 DEF IsGood, Edited
<1> QED BY <1>1, <1>3, <1>5 DEF IsGood

(* A wire added under a generated name is no sink and no replica.          *)
LEMMA AddedWire ==
    ASSUME NEW m, IsGood(m), NEW w \in Generated, NEW width, NEW m2, IsAdded(m, w, width, m2)
    PROVE  /\ SameMarks(m.wires, m2.wires)
           /\ \A v \in DOMAIN m.wires : m2.wires[v].sink = m.wires[v].sink
           /\ \A v \in DOMAIN m2.wires \ DOMAIN m.wires : ~m2.wires[v].sink
<1>1. /\ NewWire(width).cone = NoCone /\ NewWire(width).original = FALSE
      /\ NewWire(width).sink = FALSE
    BY DEF NewWire
<1>2. w \in DOMAIN m.wires =>
          /\ m.wires[w].cone = NoCone /\ m.wires[w].original = FALSE
          /\ m.wires[w].sink = FALSE
  <2>1. w \in DOMAIN m.wires =>
          m.wires[w].cone = NoCone /\ ~m.wires[w].original /\ ~m.wires[w].sink
      BY DEF IsGood, PairsIn
  <2>2. w \in DOMAIN m.wires => m.wires[w].original \in BOOLEAN /\ m.wires[w].sink \in BOOLEAN
      BY DEF IsGood, IsNetlist, WireRecords
  <2> QED BY <2>1, <2>2
<1> QED BY <1>1, <1>2 DEF SameMarks, IsAdded

(* Only outs of one cell and a generated wire.                             *)
LEMMA RipEdits ==
    ASSUME NEW m, IsGood(m), NEW c \in DOMAIN m.cells \ Generated,
           Len(m.cells[c].outs) = 1,
           NEW n \in Nat, NEW m2, m2 = Rip(m, c, n)
    PROVE  Edited(m, m2) /\ IsGood(m2)
<1>1. IsNetlist(m)
    BY DEF IsGood
<1>2. /\ IsNetlist(m2)
      /\ IsAdded(m, RipWire(n), Len(m.cells[c].outs[1]), m2)
      /\ DOMAIN m2.cells = DOMAIN m.cells
      /\ \A d \in DOMAIN m.cells \ {c} : m2.cells[d] = m.cells[d]
      /\ SameButOuts(m.cells[c], m2.cells[c])
      /\ m2.cells[c].outs = <<Whole(RipWire(n), Len(m.cells[c].outs[1]))>>
    BY <1>1, RipFacts
<1>3. RipWire(n) \in Generated
    BY GeneratedByName
<1>4. Len(m2.cells[c].outs) = 1
    BY <1>2
<1>5. SameMarks(m.cells, m2.cells)
    BY <1>2 DEF SameMarks, SameButOuts
<1>6. /\ SameMarks(m.wires, m2.wires)
      /\ \A w \in DOMAIN m.wires : m2.wires[w].sink = m.wires[w].sink
      /\ \A w \in DOMAIN m2.wires \ DOMAIN m.wires : ~m2.wires[w].sink
    BY <1>2, <1>3, AddedWire
<1>7. \A d \in DOMAIN m.cells : /\ m2.cells[d].ins = m.cells[d].ins
                               /\ m2.cells[d].type = m.cells[d].type
                               /\ Len(m2.cells[d].outs) = Len(m.cells[d].outs)
    BY <1>2, <1>4 DEF SameButOuts
<1>8. Edited(m, m2)
    BY <1>2, <1>5, <1>6, <1>7 DEF Edited
<1> QED BY <1>2, <1>8, EditedIsGood

(* A voter and its err wire.                                               *)
LEMMA AddVoterEdits ==
    ASSUME NEW m, IsGood(m), NEW n \in Nat, NEW width \in Nat,
           \A k \in 0..3 : RipWire(n + k) \in DOMAIN m.wires,
           NEW m2, m2 = AddVoter(m, n, width)
    PROVE  /\ Edited(m, m2) /\ IsGood(m2)
           /\ DOMAIN m2.cells = DOMAIN m.cells \cup {<<"$voter", n>>}
           /\ \A d \in DOMAIN m.cells \ {<<"$voter", n>>} : m2.cells[d] = m.cells[d]
           /\ IsAdded(m, ErrWire(n), 1, m2)
           /\ m2.cells[<<"$voter", n>>].ins = [k \in 1..3 |-> Whole(RipWire(n + k), width)]
           /\ m2.cells[<<"$voter", n>>].outs = <<Whole(RipWire(n), width), Whole(ErrWire(n), 1)>>
           /\ m2.conns = m.conns
<1> DEFINE ins == [k \in 1..3 |-> Whole(RipWire(n + k), width)]
           outs == <<Whole(RipWire(n), width), Whole(ErrWire(n), 1)>>
           voter == [type |-> "voter", ins |-> ins, outs |-> outs,
                     cone |-> NoCone, original |-> FALSE, ignore |-> FALSE]
           name == <<"$voter", n>>
           wires == DOMAIN m.wires
           wires2 == wires \cup {ErrWire(n)}
<1>0. IsNetlist(m)
    BY DEF IsGood
<1>1. /\ m.cells \in [DOMAIN m.cells -> CellRecords(wires)]
      /\ m.wires \in [wires -> WireRecords]
      /\ m.conns \subseteq Signals(wires) \X Signals(wires)
      /\ m \in [cells : [DOMAIN m.cells -> CellRecords(wires)], wires : [wires -> WireRecords],
                conns : SUBSET (Signals(wires) \X Signals(wires))]
    BY <1>0 DEF IsNetlist
<1>a. CellRecords(wires) \subseteq CellRecords(wires2) /\ Signals(wires) \subseteq Signals(wires2)
  <2>1. wires \subseteq wires2
      OBVIOUS
  <2> QED BY <2>1, SignalsGrow
<1>2. /\ name \in Generated /\ ErrWire(n) \in Generated
    BY GeneratedByName
<1>3. voter \in CellRecords(wires2)
  <2>1. \A k \in 0..3 : Whole(RipWire(n + k), width) \in Signals(wires2)
    <3>1. \A w \in wires2 : Whole(w, width) \in Signals(wires2)
        BY WholeIsSignal
    <3> QED BY <3>1
  <2>2. Whole(ErrWire(n), 1) \in Signals(wires2)
      BY WholeIsSignal
  <2>3. ins \in Seq(Signals(wires2))
    <3>1. ins \in [1..3 -> Signals(wires2)]
        BY <2>1
    <3> QED BY <3>1
  <2>4. Whole(RipWire(n), width) \in Signals(wires2)
    <3>1. n + 0 = n
        OBVIOUS
    <3> QED BY <2>1, <3>1
  <2>5. outs \in Seq(Signals(wires2))
      BY <2>2, <2>4
  <2>6. NoCone \in Nat \cup {NoCone} /\ FALSE \in BOOLEAN /\ "voter" \in CellTypes
      BY DEF CellTypes
  <2> HIDE DEF ins, outs
  <2> QED BY <2>3, <2>5, <2>6 DEF CellRecords
<1>4. m2 = [cells |-> With(m.cells, name, voter),
            wires |-> With(m.wires, ErrWire(n), NewWire(1)), conns |-> m.conns]
    BY <1>1 DEF AddVoter
<1>5. /\ voter.type = "voter" /\ voter.ins = ins /\ voter.outs = outs
      /\ voter.cone = NoCone /\ voter.original = FALSE
      /\ Len(outs) = 2
    OBVIOUS
<1> HIDE DEF voter, name, ins, outs
<1>6. /\ m2.cells = With(m.cells, name, voter)
      /\ m2.wires = With(m.wires, ErrWire(n), NewWire(1))
      /\ m2.conns = m.conns
    BY <1>4
<1>7. /\ IsAdded(m, ErrWire(n), 1, m2)
      /\ DOMAIN m2.wires = wires2
      /\ m2.wires \in [wires2 -> WireRecords]
  <2>1. NewWire(1) \in WireRecords
      BY DEF NewWire, WireRecords
  <2> QED BY <1>1, <1>6, <2>1 DEF With, IsAdded
<1>8. /\ DOMAIN m2.cells = DOMAIN m.cells \cup {name}
      /\ m2.cells[name] = voter
      /\ \A d \in DOMAIN m.cells \ {name} : m2.cells[d] = m.cells[d]
      /\ m2.cells \in [DOMAIN m2.cells -> CellRecords(wires2)]
  <2>1. \A d \in DOMAIN m.cells : m.cells[d] \in CellRecords(wires2)
      BY <1>1, <1>a
  <2> QED BY <1>3, <1>6, <2>1 DEF With
<1>9. IsNetlist(m2)
  <2>1. m2.conns \subseteq Signals(wires2) \X Signals(wires2)
      BY <1>1, <1>6, <1>a
  <2>2. m2 \in [cells : [DOMAIN m2.cells -> CellRecords(DOMAIN m2.wires)],
                 wires : [DOMAIN m2.wires -> WireRecords],
                 conns : SUBSET (Signals(DOMAIN m2.wires) \X Signals(DOMAIN m2.wires))]
      BY <1>4, <1>6, <1>7, <1>8, <2>1
  <2>3. IsFiniteSet(DOMAIN m2.cells)
      BY <1>0, <1>8, FS_AddElement DEF IsNetlist
  <2> QED BY <1>0, <1>6, <2>2, <2>3 DEF IsNetlist
<1>10. Edited(m, m2)
  <2>1. name \in DOMAIN m.cells => m.cells[name].cone = NoCone /\ m.cells[name].original = FALSE
    <3>1. name \in DOMAIN m.cells => m.cells[name].cone = NoCone /\ ~m.cells[name].original
        BY <1>2 DEF IsGood, PairsIn
    <3>2. name \in DOMAIN m.cells => m.cells[name].original \in BOOLEAN
        BY <1>1 DEF CellRecords
    <3> QED BY <3>1, <3>2
  <2>2. SameMarks(m.cells, m2.cells)
      BY <1>2, <1>5, <1>8, <2>1 DEF SameMarks
  <2>3. name \notin Cells
      BY <1>2, GeneratedNames DEF Names
  <2>4. /\ SameMarks(m.wires, m2.wires)
        /\ \A w \in DOMAIN m.wires : m2.wires[w].sink = m.wires[w].sink
        /\ \A w \in DOMAIN m2.wires \ DOMAIN m.wires : ~m2.wires[w].sink
      BY <1>2, <1>7, AddedWire
  <2>5. /\ \A c \in DOMAIN m.cells \cap Cells : m2.cells[c].ins = m.cells[c].ins
        /\ \A c \in DOMAIN m.cells \ Generated :
              /\ m2.cells[c].type = m.cells[c].type
              /\ Len(m2.cells[c].outs) = Len(m.cells[c].outs)
      BY <1>2, <1>8, <2>3
  <2>6. \A c \in DOMAIN m2.cells \cap Generated :
          m2.cells[c].type = "voter" =>
             \/ Len(m2.cells[c].outs) = 2
             \/ c \in DOMAIN m.cells /\ m.cells[c].type = "voter"
                   /\ Len(m2.cells[c].outs) = Len(m.cells[c].outs)
      BY <1>5, <1>8
  <2> QED BY <2>2, <2>4, <2>5, <2>6 DEF Edited
<1>11. IsGood(m2)
    BY <1>9, <1>10, EditedIsGood
<1>12. m2.cells[name].ins = ins /\ m2.cells[name].outs = outs
    BY <1>5, <1>8
<1> QED BY <1>6, <1>7, <1>8, <1>10, <1>11, <1>12 DEF name, ins, outs

(* A function on 1..n is a sequence.                                       *)
LEMMA FunctionIsSeq ==
    ASSUME NEW S, NEW n \in Nat, NEW f \in [1..n -> S]
    PROVE  f \in Seq(S) /\ Len(f) = n
OBVIOUS

(* MultiDriverFixer::rewire on one pair of cells: what it changes.         *)
LEMMA ReconnectFacts ==
    ASSUME NEW m, IsNetlist(m), NEW w \in DOMAIN m.wires,
           NEW l \in DOMAIN m.cells, NEW q \in DOMAIN m.cells,
           NEW name, NEW m2, m2 = Reconnect(m, w, l, q, name)
    PROVE  /\ IsNetlist(m2)
           /\ IsAdded(m, name, m.wires[w].width, m2)
           /\ DOMAIN m2.cells = DOMAIN m.cells
           /\ m2.conns = m.conns
           /\ \A d \in DOMAIN m.cells :
                 /\ m2.cells[d].type = m.cells[d].type
                 /\ m2.cells[d].cone = m.cells[d].cone
                 /\ m2.cells[d].original = m.cells[d].original
                 /\ Len(m2.cells[d].outs) = Len(m.cells[d].outs)
                 /\ d # l => m2.cells[d].outs = m.cells[d].outs
                 /\ d # q => m2.cells[d].ins = m.cells[d].ins
<1> DEFINE width == m.wires[w].width
           new == Whole(name, width)
           out == FirstPortOn(m.cells[l].outs, w)
           in == FirstPortOn(m.cells[q].ins, w)
           wires == DOMAIN m.wires
           wires2 == wires \cup {name}
           cells1 == [m.cells EXCEPT ![l].outs[out] = new]
           cells2 == [cells1 EXCEPT ![q].ins[in] = new]
<1>1. /\ m.cells \in [DOMAIN m.cells -> CellRecords(wires)]
      /\ m.wires \in [wires -> WireRecords]
      /\ m.conns \subseteq Signals(wires) \X Signals(wires)
      /\ m \in [cells : [DOMAIN m.cells -> CellRecords(wires)], wires : [wires -> WireRecords],
                conns : SUBSET (Signals(wires) \X Signals(wires))]
    BY DEF IsNetlist
<1>2. width \in Nat
    BY <1>1 DEF WireRecords
<1>3. new \in Signals(wires2)
  <2>1. name \in wires2
      OBVIOUS
  <2> QED BY <1>2, <2>1, WholeIsSignal
<1>a. CellRecords(wires) \subseteq CellRecords(wires2) /\ Signals(wires) \subseteq Signals(wires2)
  <2>1. wires \subseteq wires2
      OBVIOUS
  <2> QED BY <2>1, SignalsGrow
<1>4. m2 = [cells |-> cells2, wires |-> With(m.wires, name, NewWire(width)), conns |-> m.conns]
    BY <1>1 DEF Reconnect
<1> HIDE DEF width, new, out, in
<1>5. /\ m2.cells = cells2
      /\ m2.wires = With(m.wires, name, NewWire(width))
      /\ m2.conns = m.conns
    BY <1>4
<1>6. /\ IsAdded(m, name, width, m2)
      /\ DOMAIN m2.wires = wires2
      /\ m2.wires \in [wires2 -> WireRecords]
  <2>1. NewWire(width) \in WireRecords
      BY <1>2 DEF NewWire, WireRecords
  <2> QED BY <1>1, <1>5, <2>1 DEF With, IsAdded
<1>7. m.cells \in [DOMAIN m.cells -> CellRecords(wires2)]
    BY <1>1, <1>a
<1>8. /\ cells1 \in [DOMAIN m.cells -> CellRecords(wires2)]
      /\ \A d \in DOMAIN m.cells :
            /\ cells1[d].type = m.cells[d].type /\ cells1[d].ins = m.cells[d].ins
            /\ cells1[d].cone = m.cells[d].cone /\ cells1[d].original = m.cells[d].original
            /\ Len(cells1[d].outs) = Len(m.cells[d].outs)
            /\ d # l => cells1[d].outs = m.cells[d].outs
  <2> DEFINE outs == [m.cells[l].outs EXCEPT ![out] = new]
  <2>1. m.cells[l].outs \in Seq(Signals(wires2))
      BY <1>7 DEF CellRecords
  <2>2. outs \in Seq(Signals(wires2)) /\ Len(outs) = Len(m.cells[l].outs)
    <3>1. /\ m.cells[l].outs \in [1..Len(m.cells[l].outs) -> Signals(wires2)]
          /\ Len(m.cells[l].outs) \in Nat
        BY <2>1, LenProperties
    <3>2. outs \in [1..Len(m.cells[l].outs) -> Signals(wires2)]
        BY <1>3, <3>1
    <3> HIDE DEF outs
    <3>3. \A k \in Nat : outs \in [1..k -> Signals(wires2)] => Len(outs) = k
        BY FunctionIsSeq, Zenon
    <3>4. Len(outs) = Len(m.cells[l].outs)
        BY <3>1, <3>2, <3>3, Zenon
    <3>5. outs \in Seq(Signals(wires2))
        BY <3>1, <3>2, FunctionIsSeq
    <3> QED BY <3>4, <3>5
  <2>3. cells1 = [m.cells EXCEPT ![l] = [m.cells[l] EXCEPT !.outs = outs]]
      OBVIOUS
  <2> HIDE DEF outs, cells1
  <2>4. [m.cells[l] EXCEPT !.outs = outs] \in CellRecords(wires2)
      BY <1>7, <2>2 DEF CellRecords
  <2>5. /\ cells1[l].type = m.cells[l].type /\ cells1[l].ins = m.cells[l].ins
        /\ cells1[l].cone = m.cells[l].cone /\ cells1[l].original = m.cells[l].original
        /\ cells1[l].outs = outs
      BY <1>7, <2>3 DEF CellRecords
  <2>6. \A d \in DOMAIN m.cells : d # l => cells1[d] = m.cells[d]
      BY <1>7, <2>3
  <2>7. cells1 \in [DOMAIN m.cells -> CellRecords(wires2)]
      BY <1>7, <2>3, <2>4
  <2> QED BY <2>2, <2>5, <2>6, <2>7
<1>9. /\ cells2 \in [DOMAIN m.cells -> CellRecords(wires2)]
      /\ \A d \in DOMAIN m.cells :
            /\ cells2[d].type = cells1[d].type /\ cells2[d].outs = cells1[d].outs
            /\ cells2[d].cone = cells1[d].cone /\ cells2[d].original = cells1[d].original
            /\ d # q => cells2[d].ins = cells1[d].ins
  <2> DEFINE ins == [cells1[q].ins EXCEPT ![in] = new]
  <2> HIDE DEF cells1
  <2>1. cells1[q].ins \in Seq(Signals(wires2))
      BY <1>8 DEF CellRecords
  <2>2. ins \in Seq(Signals(wires2))
    <3>1. /\ cells1[q].ins \in [1..Len(cells1[q].ins) -> Signals(wires2)]
          /\ Len(cells1[q].ins) \in Nat
        BY <2>1, LenProperties
    <3>2. ins \in [1..Len(cells1[q].ins) -> Signals(wires2)]
        BY <1>3, <3>1
    <3> HIDE DEF ins
    <3> QED BY <3>1, <3>2, FunctionIsSeq
  <2>3. cells2 = [cells1 EXCEPT ![q] = [cells1[q] EXCEPT !.ins = ins]]
      OBVIOUS
  <2> HIDE DEF ins, cells2
  <2>4. [cells1[q] EXCEPT !.ins = ins] \in CellRecords(wires2)
      BY <1>8, <2>2 DEF CellRecords
  <2>5. /\ cells2[q].type = cells1[q].type /\ cells2[q].outs = cells1[q].outs
        /\ cells2[q].cone = cells1[q].cone /\ cells2[q].original = cells1[q].original
      BY <1>8, <2>3 DEF CellRecords
  <2>6. \A d \in DOMAIN m.cells : d # q => cells2[d] = cells1[d]
      BY <1>8, <2>3
  <2>7. cells2 \in [DOMAIN m.cells -> CellRecords(wires2)]
      BY <1>8, <2>3, <2>4
  <2> QED BY <2>5, <2>6, <2>7
<1> HIDE DEF cells1, cells2
<1>10. IsNetlist(m2)
  <2>1. m2.conns \subseteq Signals(wires2) \X Signals(wires2)
      BY <1>1, <1>5, <1>a
  <2>2. m2.cells \in [DOMAIN m.cells -> CellRecords(wires2)] /\ DOMAIN m2.cells = DOMAIN m.cells
      BY <1>5, <1>9
  <2>3. m2 \in [cells : [DOMAIN m2.cells -> CellRecords(DOMAIN m2.wires)],
                 wires : [DOMAIN m2.wires -> WireRecords],
                 conns : SUBSET (Signals(DOMAIN m2.wires) \X Signals(DOMAIN m2.wires))]
      BY <1>4, <1>5, <1>6, <2>1, <2>2
  <2> QED BY <1>5, <2>2, <2>3 DEF IsNetlist
<1>11. DOMAIN m2.cells = DOMAIN m.cells
    BY <1>5, <1>9
<1>12. IsAdded(m, name, m.wires[w].width, m2)
    BY <1>6 DEF width
<1> QED BY <1>5, <1>8, <1>9, <1>10, <1>11, <1>12

(* Which is an edit, when the cell that reads is a replica.                *)
LEMMA ReconnectEdits ==
    ASSUME NEW m, IsGood(m), NEW w \in DOMAIN m.wires,
           NEW l \in DOMAIN m.cells, NEW q \in DOMAIN m.cells \ Cells,
           NEW n \in Nat, NEW m2, m2 = Reconnect(m, w, l, q, FixWire(n))
    PROVE  Edited(m, m2) /\ IsGood(m2)
<1>1. IsNetlist(m)
    BY DEF IsGood
<1>2. /\ IsNetlist(m2)
      /\ IsAdded(m, FixWire(n), m.wires[w].width, m2)
      /\ DOMAIN m2.cells = DOMAIN m.cells
      /\ \A d \in DOMAIN m.cells :
            /\ m2.cells[d].type = m.cells[d].type
            /\ m2.cells[d].cone = m.cells[d].cone
            /\ m2.cells[d].original = m.cells[d].original
            /\ Len(m2.cells[d].outs) = Len(m.cells[d].outs)
            /\ d # q => m2.cells[d].ins = m.cells[d].ins
    BY <1>1, ReconnectFacts
<1>3. FixWire(n) \in Generated
    BY GeneratedByName
<1>4. SameMarks(m.cells, m2.cells)
    BY <1>2 DEF SameMarks
<1>5. /\ SameMarks(m.wires, m2.wires)
      /\ \A v \in DOMAIN m.wires : m2.wires[v].sink = m.wires[v].sink
      /\ \A v \in DOMAIN m2.wires \ DOMAIN m.wires : ~m2.wires[v].sink
    BY <1>2, <1>3, AddedWire
<1>6. Edited(m, m2)
    BY <1>2, <1>4, <1>5 DEF Edited
<1> QED BY <1>2, <1>6, EditedIsGood

(* SetToSeq lists a finite set.                                            *)
LEMMA SetToSeqFacts ==
    ASSUME NEW S, IsFiniteSet(S)
    PROVE  SetToSeq(S) \in [1..Cardinality(S) -> S]
<1>1. \E f \in [1..Cardinality(S) -> S] : IsInjective(f)
  <2>1. /\ Cardinality(S) \in Nat
        /\ ExistsBijection(1..Cardinality(S), S)
      BY FS_CardinalityType
  <2>2. PICK f : f \in Bijection(1..Cardinality(S), S)
      BY <2>1 DEF ExistsBijection
  <2> QED BY <2>2 DEF Bijection, Injection
<1> QED BY <1>1 DEF SetToSeq

(* VoterBuilder::finalise is an edit.                                      *)
LEMMA AddSinkEdits ==
    ASSUME NEW m, IsGood(m), NEW n \in Nat, NEW ins \in Seq(Signals(DOMAIN m.wires)),
           NEW sink \in DOMAIN m.wires,
           NEW cell, cell = [type |-> "or", ins |-> ins, outs |-> <<Whole(sink, 1)>>,
                             cone |-> NoCone, original |-> FALSE, ignore |-> FALSE],
           NEW m2, m2 = [m EXCEPT !.cells = With(@, <<"$or", n>>, cell)]
    PROVE  Edited(m, m2) /\ IsGood(m2) /\ m2.wires = m.wires
<1> DEFINE name == <<"$or", n>>
           wires == DOMAIN m.wires
<1>0. IsNetlist(m)
    BY DEF IsGood
<1>1. /\ m.cells \in [DOMAIN m.cells -> CellRecords(wires)]
      /\ m.wires \in [wires -> WireRecords]
      /\ m.conns \subseteq Signals(wires) \X Signals(wires)
      /\ m \in [cells : [DOMAIN m.cells -> CellRecords(wires)], wires : [wires -> WireRecords],
                conns : SUBSET (Signals(wires) \X Signals(wires))]
    BY <1>0 DEF IsNetlist
<1>2. name \in Generated
    BY GeneratedByName
<1>3. cell \in CellRecords(wires)
  <2>1. Whole(sink, 1) \in Signals(wires)
      BY WholeIsSignal
  <2>2. <<Whole(sink, 1)>> \in Seq(Signals(wires))
      BY <2>1
  <2>3. NoCone \in Nat \cup {NoCone} /\ FALSE \in BOOLEAN /\ "or" \in CellTypes
      BY DEF CellTypes
  <2> QED BY <2>2, <2>3 DEF CellRecords
<1>4. cell.type = "or" /\ cell.cone = NoCone /\ cell.original = FALSE
    OBVIOUS
<1> HIDE DEF name
<1>5. m2 = [cells |-> With(m.cells, name, cell), wires |-> m.wires, conns |-> m.conns]
    BY <1>1 DEF name
<1>6. /\ m2.cells = With(m.cells, name, cell) /\ m2.wires = m.wires /\ m2.conns = m.conns
    BY <1>5
<1>7. /\ DOMAIN m2.cells = DOMAIN m.cells \cup {name}
      /\ m2.cells[name] = cell
      /\ \A d \in DOMAIN m.cells \ {name} : m2.cells[d] = m.cells[d]
      /\ m2.cells \in [DOMAIN m2.cells -> CellRecords(wires)]
    BY <1>1, <1>3, <1>6 DEF With
<1>8. IsNetlist(m2)
  <2>1. m2 \in [cells : [DOMAIN m2.cells -> CellRecords(DOMAIN m2.wires)],
                 wires : [DOMAIN m2.wires -> WireRecords],
                 conns : SUBSET (Signals(DOMAIN m2.wires) \X Signals(DOMAIN m2.wires))]
      BY <1>1, <1>5, <1>6, <1>7
  <2>2. IsFiniteSet(DOMAIN m2.cells)
    <3>1. IsFiniteSet(DOMAIN m.cells)
        BY <1>0 DEF IsNetlist
    <3>2. IsFiniteSet(DOMAIN m.cells \cup {name})
        BY <3>1, FS_AddElement
    <3> QED BY <1>7, <3>2
  <2> QED BY <1>0, <1>6, <2>1, <2>2 DEF IsNetlist
<1>9. Edited(m, m2)
  <2>1. name \in DOMAIN m.cells => m.cells[name].cone = NoCone /\ m.cells[name].original = FALSE
    <3>1. name \in DOMAIN m.cells => m.cells[name].cone = NoCone /\ ~m.cells[name].original
        BY <1>2 DEF IsGood, PairsIn
    <3>2. name \in DOMAIN m.cells => m.cells[name].original \in BOOLEAN
        BY <1>1 DEF CellRecords
    <3> QED BY <3>1, <3>2
  <2>2. SameMarks(m.cells, m2.cells) /\ SameMarks(m.wires, m2.wires)
      BY <1>2, <1>4, <1>6, <1>7, <2>1 DEF SameMarks
  <2>3. name \notin Cells
      BY <1>2, GeneratedNames DEF Names
  <2>4. /\ \A c \in DOMAIN m.cells \cap Cells : m2.cells[c].ins = m.cells[c].ins
        /\ \A c \in DOMAIN m.cells \ Generated :
              /\ m2.cells[c].type = m.cells[c].type
              /\ Len(m2.cells[c].outs) = Len(m.cells[c].outs)
      BY <1>2, <1>7, <2>3
  <2>5. \A c \in DOMAIN m2.cells \cap Generated :
          m2.cells[c].type = "voter" =>
             \/ Len(m2.cells[c].outs) = 2
             \/ c \in DOMAIN m.cells /\ m.cells[c].type = "voter"
                   /\ Len(m2.cells[c].outs) = Len(m.cells[c].outs)
      BY <1>4, <1>7
  <2> QED BY <1>6, <2>2, <2>4, <2>5 DEF Edited
<1> QED BY <1>6, <1>8, <1>9, EditedIsGood

(* A design is good before the command has seen it.                        *)
LEMMA DesignIsGood ==
    ASSUME NEW d \in Designs
    PROVE  IsGood(d)
<1>1. /\ IsNetlist(d)
      /\ DOMAIN d.cells \subseteq Cells /\ DOMAIN d.wires \subseteq Wires
      /\ \A c \in DOMAIN d.cells :
            /\ c \in FFs => Len(d.cells[c].outs) = 1
            /\ d.cells[c].type # "voter"
            /\ d.cells[c].cone = NoCone /\ ~d.cells[c].original
      /\ \A w \in DOMAIN d.wires : d.wires[w].cone = NoCone /\ ~d.wires[w].original
    BY DesignAssumption
<1>2. Cells \subseteq Names /\ Wires \subseteq Names
    BY DEF Names
<1>3. ASSUME NEW names, names \subseteq Names, NEW objs, DOMAIN objs \subseteq names,
             \A x \in DOMAIN objs : objs[x].cone = NoCone /\ ~objs[x].original
      PROVE  PairsIn(objs, names)
  <2>1. \A x \in names : x \notin Generated
      BY <1>3, GeneratedNames
  <2>2. \A x \in names, r \in {1, 2}, i \in Nat : Replica(x, r, i) \notin DOMAIN objs
      BY <1>3, ReplicaNames
  <2>3. \A x \in DOMAIN objs, i \in Nat : objs[x].cone # i
      BY <1>3, NoConeAssumption
  <2> QED BY <1>3, <2>1, <2>2, <2>3 DEF PairsIn
<1>4. PairsIn(d.cells, Cells) /\ PairsIn(d.wires, Wires)
    BY <1>1, <1>2, <1>3
<1>5. \A w \in DOMAIN d.wires : w \notin Generated
    BY <1>1, <1>2, GeneratedNames
<1> QED BY <1>1, <1>4, <1>5 DEF IsGood

(* Memories are ignored.                                                   *)
LEMMA MarkMemoriesEdits ==
    ASSUME NEW m, IsGood(m), NEW m2, m2 = [m EXCEPT !.cells = MarkMemoriesIgnored(@)]
    PROVE  /\ Edited(m, m2) /\ IsGood(m2)
           /\ m2.wires = m.wires /\ m2.conns = m.conns
           /\ DOMAIN m2.cells = DOMAIN m.cells
           /\ \A c \in DOMAIN m.cells : /\ m2.cells[c].ins = m.cells[c].ins
                                       /\ m2.cells[c].outs = m.cells[c].outs
<1> DEFINE wires == DOMAIN m.wires
           cells2 == MarkMemoriesIgnored(m.cells)
<1>0. IsNetlist(m)
    BY DEF IsGood
<1>1. /\ m.cells \in [DOMAIN m.cells -> CellRecords(wires)]
      /\ m.wires \in [wires -> WireRecords]
      /\ m.conns \subseteq Signals(wires) \X Signals(wires)
      /\ m \in [cells : [DOMAIN m.cells -> CellRecords(wires)], wires : [wires -> WireRecords],
                conns : SUBSET (Signals(wires) \X Signals(wires))]
    BY <1>0 DEF IsNetlist
<1>2. m2 = [cells |-> cells2, wires |-> m.wires, conns |-> m.conns]
    BY <1>1
<1>3. /\ DOMAIN cells2 = DOMAIN m.cells
      /\ cells2 \in [DOMAIN m.cells -> CellRecords(wires)]
      /\ \A c \in DOMAIN m.cells :
            /\ cells2[c].type = m.cells[c].type
            /\ cells2[c].ins = m.cells[c].ins /\ cells2[c].outs = m.cells[c].outs
            /\ cells2[c].cone = m.cells[c].cone /\ cells2[c].original = m.cells[c].original
  <2>1. DOMAIN cells2 = DOMAIN m.cells
      BY DEF MarkMemoriesIgnored
  <2>2. ASSUME NEW c \in DOMAIN m.cells
        PROVE  /\ cells2[c] \in CellRecords(wires)
               /\ cells2[c].type = m.cells[c].type
               /\ cells2[c].ins = m.cells[c].ins /\ cells2[c].outs = m.cells[c].outs
               /\ cells2[c].cone = m.cells[c].cone /\ cells2[c].original = m.cells[c].original
    <3> DEFINE ignore == m.cells[c].ignore \/ m.cells[c].type = "mem"
    <3>1. cells2[c] = [m.cells[c] EXCEPT !.ignore = ignore]
        BY DEF MarkMemoriesIgnored
    <3>2. ignore \in BOOLEAN
        OBVIOUS
    <3>3. m.cells[c] \in CellRecords(wires)
        BY <1>1
    <3> HIDE DEF ignore, cells2
    <3> QED BY <3>1, <3>2, <3>3 DEF CellRecords
  <2>3. cells2 = [c \in DOMAIN m.cells |-> cells2[c]]
      BY DEF MarkMemoriesIgnored
  <2> HIDE DEF cells2
  <2> QED BY <2>1, <2>2, <2>3
<1> HIDE DEF cells2
<1>4. m2.cells = cells2 /\ m2.wires = m.wires /\ m2.conns = m.conns
    BY <1>2
<1>5. IsNetlist(m2)
  <2>1. m2 \in [cells : [DOMAIN m2.cells -> CellRecords(DOMAIN m2.wires)],
                 wires : [DOMAIN m2.wires -> WireRecords],
                 conns : SUBSET (Signals(DOMAIN m2.wires) \X Signals(DOMAIN m2.wires))]
      BY <1>1, <1>2, <1>3, <1>4
  <2> QED BY <1>0, <1>3, <1>4, <2>1 DEF IsNetlist
<1>6. SameMarks(m.cells, m2.cells) /\ SameMarks(m.wires, m2.wires)
    BY <1>3, <1>4 DEF SameMarks
<1>7. Edited(m, m2)
    BY <1>3, <1>4, <1>6 DEF Edited, IsGood
<1> QED BY <1>3, <1>4, <1>5, <1>7, EditedIsGood

(* A function's range is no larger than its domain.                        *)
LEMMA ImageIsFinite ==
    ASSUME NEW S, IsFiniteSet(S), NEW T, NEW f \in [S -> T]
    PROVE  IsFiniteSet(Range(f)) /\ Cardinality(Range(f)) <= Cardinality(S)
BY Fun_RangeProperties, FS_Surjection

(* There are finitely many replicas of finitely many objects.              *)
LEMMA CopiesFinite ==
    ASSUME NEW S, IsFiniteSet(S), NEW i
    PROVE  IsFiniteSet(Copies(S, i))
<1> DEFINE f1 == [x \in S |-> Replica(x, 1, i)]
           f2 == [x \in S |-> Replica(x, 2, i)]
<1>1. f1 \in [S -> Copies(S, i)] /\ f2 \in [S -> Copies(S, i)]
    BY DEF Copies
<1>2. IsFiniteSet(Range(f1)) /\ IsFiniteSet(Range(f2))
    BY <1>1, ImageIsFinite
<1>3. Copies(S, i) = Range(f1) \cup Range(f2)
    BY DEF Copies, Range
<1>4. IsFiniteSet(Range(f1) \cup Range(f2))
    BY <1>2, FS_Union
<1> QED BY <1>3, <1>4

(* What replicate changes: the objects of C and W are marked, and have two  *)
(* new replicas each that drive what they do.                              *)
IsReplicated(m, C, W, i, m2) ==
    /\ m2.conns = m.conns
    /\ DOMAIN m2.cells = DOMAIN m.cells \cup Copies(C, i)
    /\ DOMAIN m2.wires = DOMAIN m.wires \cup Copies(W, i)
    /\ \A c \in DOMAIN m.cells :
          /\ m2.cells[c].ins = m.cells[c].ins /\ m2.cells[c].outs = m.cells[c].outs
          /\ m2.cells[c].cone = IF c \in C THEN i ELSE m.cells[c].cone
    /\ \A w \in DOMAIN m.wires :
          /\ m2.wires[w].sink = m.wires[w].sink
          /\ w \notin W => m2.wires[w].cone = m.wires[w].cone
    /\ \A c \in C, r \in {1, 2} : m2.cells[Replica(c, r, i)].outs = m.cells[c].outs
    /\ \A w \in Copies(W, i) : \E v \in W : m2.wires[w].sink = m.wires[v].sink

(* LogicCone::replicate on a good netlist.                                 *)
LEMMA ReplicateEdits ==
    ASSUME NEW m, IsGood(m), NEW C, C \subseteq DOMAIN m.cells \cap Cells,
           NEW W, W \subseteq DOMAIN m.wires \cap Wires, NEW i \in Nat,
           \A c \in C : m.cells[c].cone = NoCone,
           \A w \in W : m.wires[w].cone = NoCone,
           NEW m2, m2 = [m EXCEPT !.cells = WithReplicas(@, C, i),
                                  !.wires = WithReplicas(@, W, i)]
    PROVE  IsGood(m2) /\ IsReplicated(m, C, W, i, m2)
<1> DEFINE wires == DOMAIN m.wires
           wires2 == DOMAIN m.wires \cup Copies(W, i)
           cells2 == WithReplicas(m.cells, C, i)
           wiremap2 == WithReplicas(m.wires, W, i)
<1>0. /\ IsNetlist(m)
      /\ PairsIn(m.cells, Cells) /\ PairsIn(m.wires, Wires)
    BY DEF IsGood
<1>1. /\ m.cells \in [DOMAIN m.cells -> CellRecords(wires)]
      /\ m.wires \in [wires -> WireRecords]
      /\ m.conns \subseteq Signals(wires) \X Signals(wires)
      /\ m \in [cells : [DOMAIN m.cells -> CellRecords(wires)], wires : [wires -> WireRecords],
                conns : SUBSET (Signals(wires) \X Signals(wires))]
    BY <1>0 DEF IsNetlist
<1>2. Cells \subseteq Names /\ Wires \subseteq Names
    BY DEF Names
<1>3. IsMarked(m.cells) /\ IsMarked(m.wires)
    BY <1>1 DEF IsMarked, CellRecords, WireRecords
<1>4. m2 = [cells |-> cells2, wires |-> wiremap2, conns |-> m.conns]
    BY <1>1
<1>5. m2.cells = cells2 /\ m2.wires = wiremap2 /\ m2.conns = m.conns
    BY <1>4
<1>6. PairsIn(cells2, Cells) /\ PairsIn(wiremap2, Wires)
  <2>1. PairsIn(cells2, Cells)
      BY <1>0, <1>2, <1>3, ReplicationPairs
  <2>2. PairsIn(wiremap2, Wires)
      BY <1>0, <1>2, <1>3, ReplicationPairs
  <2> QED BY <2>1, <2>2
<1>a. DOMAIN m.cells \cap Copies(C, i) = {} /\ DOMAIN m.wires \cap Copies(W, i) = {}
    BY <1>0, <1>2, CopiesAreNew
<1>b. /\ \A x \in Copies(C, i) : x \notin Names \cup Generated /\ OriginalOf(x) \in C
      /\ \A x \in Copies(W, i) : x \notin Names \cup Generated /\ OriginalOf(x) \in W
    BY <1>2, ReplicaNames DEF Copies
<1>c. \A x \in C, r \in {1, 2} : /\ Replica(x, r, i) \in Copies(C, i)
                              /\ OriginalOf(Replica(x, r, i)) = x
    BY <1>2, ReplicaNames DEF Copies
<1>7. /\ DOMAIN m.cells \cap Copies(C, i) = {}
      /\ \A x \in Copies(C, i) : x \notin Names \cup Generated /\ OriginalOf(x) \in C
      /\ \A x \in C, r \in {1, 2} : /\ Replica(x, r, i) \in Copies(C, i)
                                  /\ OriginalOf(Replica(x, r, i)) = x
    BY <1>a, <1>b, <1>c
<1>8. /\ DOMAIN m.wires \cap Copies(W, i) = {}
      /\ \A x \in Copies(W, i) : x \notin Names \cup Generated /\ OriginalOf(x) \in W
    BY <1>a, <1>b
<1>9. /\ cells2 = [x \in DOMAIN m.cells \cup Copies(C, i) |->
                      IF x \in Copies(C, i) THEN Copied(m.cells[OriginalOf(x)], i)
                      ELSE IF x \in C THEN Marked(m.cells[x], i)
                      ELSE m.cells[x]]
      /\ wiremap2 = [x \in DOMAIN m.wires \cup Copies(W, i) |->
                      IF x \in Copies(W, i) THEN Copied(m.wires[OriginalOf(x)], i)
                      ELSE IF x \in W THEN Marked(m.wires[x], i)
                      ELSE m.wires[x]]
    BY DEF WithReplicas, Copied, Marked
<1> HIDE DEF cells2, wiremap2
<1>10. \A x \in CellRecords(wires) :
          /\ Copied(x, i) \in CellRecords(wires) /\ Marked(x, i) \in CellRecords(wires)
          /\ Copied(x, i).ins = x.ins /\ Marked(x, i).ins = x.ins
          /\ Copied(x, i).outs = x.outs /\ Marked(x, i).outs = x.outs
          /\ Copied(x, i).type = x.type /\ Marked(x, i).type = x.type
          /\ Marked(x, i).cone = i
    BY DEF CellRecords, Copied, Marked
<1>11. \A x \in WireRecords :
          /\ Copied(x, i) \in WireRecords /\ Marked(x, i) \in WireRecords
          /\ Copied(x, i).sink = x.sink /\ Marked(x, i).sink = x.sink
    BY DEF WireRecords, Copied, Marked
<1>12. /\ DOMAIN cells2 = DOMAIN m.cells \cup Copies(C, i)
       /\ \A c \in DOMAIN m.cells :
             /\ cells2[c] \in CellRecords(wires)
             /\ cells2[c].type = m.cells[c].type
             /\ cells2[c].ins = m.cells[c].ins /\ cells2[c].outs = m.cells[c].outs
             /\ cells2[c].cone = IF c \in C THEN i ELSE m.cells[c].cone
       /\ \A c \in C, r \in {1, 2} : cells2[Replica(c, r, i)].outs = m.cells[c].outs
       /\ \A x \in Copies(C, i) : /\ cells2[x] \in CellRecords(wires)
                                 /\ cells2[x].type = m.cells[OriginalOf(x)].type
                                 /\ cells2[x].outs = m.cells[OriginalOf(x)].outs
    BY <1>1, <1>7, <1>9, <1>10
<1>13. /\ DOMAIN wiremap2 = wires2
       /\ \A w \in DOMAIN m.wires :
             /\ wiremap2[w] \in WireRecords
             /\ wiremap2[w].sink = m.wires[w].sink
             /\ w \notin W => wiremap2[w] = m.wires[w]
       /\ \A x \in Copies(W, i) : /\ wiremap2[x] \in WireRecords
                                 /\ OriginalOf(x) \in W
                                 /\ wiremap2[x].sink = m.wires[OriginalOf(x)].sink
    BY <1>1, <1>8, <1>9, <1>11
<1>14. IsNetlist(m2)
  <2>1. CellRecords(wires) \subseteq CellRecords(wires2) /\ Signals(wires) \subseteq Signals(wires2)
    <3>1. wires \subseteq wires2
        OBVIOUS
    <3> QED BY <3>1, SignalsGrow
  <2>2. cells2 \in [DOMAIN cells2 -> CellRecords(wires2)]
    <3>1. \A c \in DOMAIN cells2 : cells2[c] \in CellRecords(wires2)
        BY <1>12, <2>1
    <3>2. cells2 = [c \in DOMAIN cells2 |-> cells2[c]]
        BY <1>9
    <3> QED BY <3>1, <3>2
  <2>3. wiremap2 \in [wires2 -> WireRecords]
    <3>1. \A c \in wires2 : wiremap2[c] \in WireRecords
        BY <1>13
    <3>2. wiremap2 = [c \in wires2 |-> wiremap2[c]]
        BY <1>9
    <3> QED BY <3>1, <3>2
  <2>4. m2.conns \subseteq Signals(wires2) \X Signals(wires2)
      BY <1>1, <1>5, <2>1
  <2>5. m2 \in [cells : [DOMAIN m2.cells -> CellRecords(DOMAIN m2.wires)],
                 wires : [DOMAIN m2.wires -> WireRecords],
                 conns : SUBSET (Signals(DOMAIN m2.wires) \X Signals(DOMAIN m2.wires))]
      BY <1>4, <1>5, <1>13, <2>2, <2>3, <2>4
  <2>6. IsFiniteSet(DOMAIN m2.cells)
    <3>1. IsFiniteSet(DOMAIN m.cells)
        BY <1>0 DEF IsNetlist
    <3>2. IsFiniteSet(C)
        BY <3>1, FS_Subset
    <3>3. IsFiniteSet(DOMAIN m.cells \cup Copies(C, i))
        BY <3>1, <3>2, CopiesFinite, FS_Union
    <3> QED BY <1>5, <1>12, <3>3
  <2> QED BY <1>0, <1>5, <2>5, <2>6 DEF IsNetlist
<1>15. \A w \in DOMAIN m2.wires \cap Generated : ~m2.wires[w].sink
    BY <1>5, <1>8, <1>13 DEF IsGood
<1>16. FFs \subseteq Names
    BY NameAssumption DEF Names
<1>17. ASSUME NEW c \in DOMAIN m2.cells
       PROVE  /\ m2.cells[c].type = "voter" => c \in Generated /\ Len(m2.cells[c].outs) = 2
              /\ c \in FFs => Len(m2.cells[c].outs) = 1
  <2>1. CASE c \in DOMAIN m.cells
      BY <1>5, <1>12, <2>1 DEF IsGood
  <2>2. CASE c \in Copies(C, i)
    <3>1. /\ OriginalOf(c) \in C /\ OriginalOf(c) \in Names /\ c \notin Names
          /\ m2.cells[c].type = m.cells[OriginalOf(c)].type
        BY <1>2, <1>5, <1>7, <1>12, <2>2
    <3>2. m.cells[OriginalOf(c)].type # "voter"
        BY <3>1, GeneratedNames DEF IsGood
    <3> QED BY <1>16, <3>1, <3>2
  <2> QED BY <1>5, <1>12, <2>1, <2>2
<1>18. IsGood(m2)
    BY <1>5, <1>6, <1>14, <1>15, <1>17 DEF IsGood
<1>19. \A w \in Copies(W, i) : \E v \in W : m2.wires[w].sink = m.wires[v].sink
    BY <1>5, <1>13
<1> QED BY <1>5, <1>12, <1>13, <1>18, <1>19 DEF IsReplicated

(* The objects of the design at hand that it came with.                    *)
Own == (DOMAIN netlist.cells \cap Cells) \cup (DOMAIN netlist.wires \cap Wires)

(* What any step of the command does to the netlist, at most.              *)
NetStep ==
    /\ IsGood(netlist')
    /\ DOMAIN netlist.cells \subseteq DOMAIN netlist'.cells
    /\ DOMAIN netlist.wires \subseteq DOMAIN netlist'.wires
    /\ DOMAIN netlist'.cells \cap Cells = DOMAIN netlist.cells \cap Cells
    /\ DOMAIN netlist'.wires \cap Wires = DOMAIN netlist.wires \cap Wires
    /\ \A c \in DOMAIN netlist.cells \cap Cells :
          /\ netlist'.cells[c].ins = netlist.cells[c].ins
          /\ Len(netlist'.cells[c].outs) = Len(netlist.cells[c].outs)
    /\ \A c \in DOMAIN netlist.cells :
          netlist.cells[c].cone # NoCone => netlist'.cells[c].cone = netlist.cells[c].cone
    /\ \A w \in DOMAIN netlist.wires :
          netlist.wires[w].cone # NoCone => netlist'.wires[w].cone = netlist.wires[w].cone
    /\ \A w \in DOMAIN netlist.wires : netlist'.wires[w].sink = netlist.wires[w].sink
    /\ \A w \in DOMAIN netlist'.wires \ DOMAIN netlist.wires :
          netlist'.wires[w].sink => \E v \in DOMAIN netlist.wires : netlist.wires[v].sink

(* An edit is such a step.                                                 *)
LEMMA EditIsNetStep ==
    ASSUME IsGood(netlist), IsGood(netlist'), Edited(netlist, netlist')
    PROVE  NetStep
<1>1. Cells \cap Generated = {} /\ Wires \cap Generated = {}
    BY GeneratedNames DEF Names
<1>2. SameMarks(netlist.cells, netlist'.cells) /\ SameMarks(netlist.wires, netlist'.wires)
    BY DEF Edited
<1> QED BY <1>1, <1>2 DEF NetStep, Edited, SameMarks

(* And so is a step that leaves the netlist alone.                         *)
LEMMA SameNetlist ==
    ASSUME IsGood(netlist), UNCHANGED netlist
    PROVE  NetStep
BY DEF NetStep

(* Marking memories ignored is such a step.                                *)
LEMMA PrepareNetStep ==
    ASSUME IsGood(netlist), Prepare
    PROVE  NetStep
<1>1. netlist' = [netlist EXCEPT !.cells = MarkMemoriesIgnored(@)]
    BY DEF Prepare
<1> QED BY <1>1, MarkMemoriesEdits, EditIsNetStep

(* And so is replicate, which leaves what it says of the objects that got  *)
(* their replicas here.                                                    *)
LEMMA ReplicateNetStep ==
    ASSUME IsGood(netlist), id \in Nat, Replicate, ToReplicate \subseteq Own
    PROVE  /\ NetStep
           /\ \A c \in replicated' \cap Cells :
                 /\ c \in DOMAIN netlist'.cells /\ netlist'.cells[c].cone = id'
                 /\ \A r \in {1, 2} :
                       /\ Replica(c, r, id') \in DOMAIN netlist'.cells
                       /\ netlist'.cells[Replica(c, r, id')].outs = netlist'.cells[c].outs
           /\ \A c \in ToReplicate \cap Cells : netlist'.cells[c].cone # NoCone
           /\ DOMAIN netlist'.cells \cap Generated = DOMAIN netlist.cells \cap Generated
           /\ DOMAIN netlist'.wires \cap Generated = DOMAIN netlist.wires \cap Generated
           /\ \A c \in DOMAIN netlist.cells : netlist'.cells[c].outs = netlist.cells[c].outs
<1> DEFINE fresh == {n \in ToReplicate : ~Annotated(netlist, n)}
           C == fresh \cap Cells
           W == fresh \cap Wires
<1>1. /\ netlist' = [netlist EXCEPT !.cells = WithReplicas(@, C, id),
                                   !.wires = WithReplicas(@, W, id)]
      /\ replicated' \subseteq fresh
      /\ id' = id
    BY DEF Replicate
<1>2. \A w \in Wires : w \notin DOMAIN netlist.cells
  <2> SUFFICES ASSUME NEW w \in Wires, w \in DOMAIN netlist.cells PROVE FALSE
      OBVIOUS
  <2>1. \/ w \in Cells \cup Generated
        \/ \E y \in Cells, r \in {1, 2}, i \in Nat : w = Replica(y, r, i)
      BY DEF IsGood, PairsIn
  <2>2. w \in Names /\ w \notin Cells /\ Cells \subseteq Names
      BY NameAssumption DEF Names
  <2>3. w \notin Generated
      BY <2>2, GeneratedNames
  <2> QED BY <2>1, <2>2, <2>3, ReplicaNames
<1>3. /\ C \subseteq DOMAIN netlist.cells \cap Cells
      /\ W \subseteq DOMAIN netlist.wires \cap Wires
    BY NameAssumption DEF Own
<1>4. /\ \A c \in C : netlist.cells[c].cone = NoCone
      /\ \A w \in W : netlist.wires[w].cone = NoCone
    BY <1>2, <1>3 DEF Annotated
<1> HIDE DEF fresh, C, W
<1>5. IsGood(netlist') /\ IsReplicated(netlist, C, W, id, netlist')
    BY <1>1, <1>3, <1>4, ReplicateEdits
<1>6. /\ \A x \in Copies(C, id) \cup Copies(W, id) : x \notin Names
      /\ \A c \in C, r \in {1, 2} : Replica(c, r, id) \in Copies(C, id)
    BY <1>3, ReplicaNames DEF Copies, Names
<1>7. NetStep
  <2>1. /\ DOMAIN netlist'.cells \cap Cells = DOMAIN netlist.cells \cap Cells
        /\ DOMAIN netlist'.wires \cap Wires = DOMAIN netlist.wires \cap Wires
      BY <1>5, <1>6 DEF Names, IsReplicated
  <2>2. /\ \A c \in DOMAIN netlist.cells :
              netlist.cells[c].cone # NoCone => netlist'.cells[c].cone = netlist.cells[c].cone
        /\ \A w \in DOMAIN netlist.wires :
              netlist.wires[w].cone # NoCone => netlist'.wires[w].cone = netlist.wires[w].cone
      BY <1>4, <1>5 DEF IsReplicated
  <2>3. \A w \in DOMAIN netlist'.wires \ DOMAIN netlist.wires :
          netlist'.wires[w].sink => \E v \in DOMAIN netlist.wires : netlist.wires[v].sink
      BY <1>3, <1>5 DEF IsReplicated
  <2> QED BY <1>5, <2>1, <2>2, <2>3 DEF NetStep, IsReplicated
<1>8. \A c \in replicated' \cap Cells : c \in C /\ c \in DOMAIN netlist.cells
    BY <1>1, <1>3 DEF C
<1>9. \A c \in replicated' \cap Cells :
          /\ c \in DOMAIN netlist'.cells /\ netlist'.cells[c].cone = id'
          /\ \A r \in {1, 2} :
                /\ Replica(c, r, id') \in DOMAIN netlist'.cells
                /\ netlist'.cells[Replica(c, r, id')].outs = netlist'.cells[c].outs
    BY <1>1, <1>5, <1>6, <1>8 DEF IsReplicated
<1>10. ASSUME NEW c \in ToReplicate \cap Cells
       PROVE  netlist'.cells[c].cone # NoCone
  <2>1. c \in DOMAIN netlist.cells
      BY NameAssumption DEF Own
  <2>2. c \in C \/ netlist.cells[c].cone # NoCone
      BY <2>1 DEF C, fresh, Annotated
  <2> QED BY <1>5, <2>1, <2>2, NoConeAssumption DEF IsReplicated
<1>11. /\ DOMAIN netlist'.cells \cap Generated = DOMAIN netlist.cells \cap Generated
       /\ DOMAIN netlist'.wires \cap Generated = DOMAIN netlist.wires \cap Generated
  <2>1. \A x \in Copies(C, id) \cup Copies(W, id) : x \notin Generated
      BY <1>3, ReplicaNames DEF Copies, Names
  <2> QED BY <1>5, <2>1 DEF IsReplicated
<1>12. \A c \in DOMAIN netlist.cells : netlist'.cells[c].outs = netlist.cells[c].outs
    BY <1>5 DEF IsReplicated
<1> QED BY <1>7, <1>9, <1>10, <1>11, <1>12

(* Two signals of equal width are connected.                               *)
LEMMA ConnectEdits ==
    ASSUME NEW m, IsGood(m), NEW s \in Signals(DOMAIN m.wires),
           NEW t \in Signals(DOMAIN m.wires), Len(s) = Len(t),
           NEW m2, m2 = [m EXCEPT !.conns = @ \cup {<<s, t>>}]
    PROVE  Edited(m, m2) /\ IsGood(m2)
<1> DEFINE wires == DOMAIN m.wires
           conns2 == m.conns \cup {<<s, t>>}
<1>0. IsNetlist(m)
    BY DEF IsGood
<1>1. /\ m \in [cells : [DOMAIN m.cells -> CellRecords(wires)], wires : [wires -> WireRecords],
                conns : SUBSET (Signals(wires) \X Signals(wires))]
      /\ \A k \in m.conns : Len(k[1]) = Len(k[2])
      /\ IsFiniteSet(DOMAIN m.cells) /\ IsFiniteSet(m.conns)
    BY <1>0 DEF IsNetlist
<1>2. m2 = [cells |-> m.cells, wires |-> m.wires, conns |-> conns2]
    BY <1>1
<1>3. /\ conns2 \in SUBSET (Signals(wires) \X Signals(wires))
      /\ \A k \in conns2 : Len(k[1]) = Len(k[2])
      /\ IsFiniteSet(conns2)
  <2>1. IsFiniteSet(m.conns)
      BY <1>1
  <2>2. IsFiniteSet(m.conns \cup {<<s, t>>})
      BY <2>1, FS_AddElement
  <2> QED BY <1>1, <2>2
<1> HIDE DEF conns2
<1>4. m2.cells = m.cells /\ m2.wires = m.wires /\ m2.conns = conns2
    BY <1>2
<1>5. IsNetlist(m2)
  <2>1. m2 \in [cells : [DOMAIN m2.cells -> CellRecords(DOMAIN m2.wires)],
                 wires : [DOMAIN m2.wires -> WireRecords],
                 conns : SUBSET (Signals(DOMAIN m2.wires) \X Signals(DOMAIN m2.wires))]
      BY <1>1, <1>2, <1>3, <1>4
  <2> QED BY <1>1, <1>3, <1>4, <2>1 DEF IsNetlist
<1>6. Edited(m, m2)
    BY <1>4 DEF Edited, SameMarks, IsGood
<1> QED BY <1>5, <1>6, EditedIsGood

(* What wire finds when it has a cut point with its two replicas.          *)
CutPointReady ==
    /\ voterCutPoint \in DOMAIN netlist.cells \cap Cells
    /\ \A r \in {1, 2} :
          /\ Replica(voterCutPoint, r, id) \in DOMAIN netlist.cells
          /\ Len(netlist.cells[Replica(voterCutPoint, r, id)].outs)
                 = Len(netlist.cells[voterCutPoint].outs)

(* The root of the cone is a flip-flop or an output port of the design.    *)
RootReady ==
    outputNode \in (DOMAIN netlist.cells \cap FFs) \cup (DOMAIN netlist.wires \cap OutPorts)

(* The analysis of cell outputs still fits the netlist.                    *)
CellOutputsFit ==
    \A c \in DOMAIN netlist.cells \cap Cells :
        /\ cellOutputs[c] \subseteq Signals(DOMAIN netlist.wires)
        /\ Len(netlist.cells[c].outs) = 1 => cellOutputs[c] # {}

(* A netlist on which cells have been ripped, and a cell that can be.       *)
Ripped(m, m1) == IsGood(m1) /\ Edited(m, m1) /\ DOMAIN m1.cells = DOMAIN m.cells

(* A cell of the design or a replica, with one output.                     *)
CanRip(m, x) == x \in DOMAIN m.cells \ Generated /\ Len(m.cells[x].outs) = 1

(* One more rip.                                                           *)
LEMMA RipAgain ==
    ASSUME NEW m, NEW m1, Ripped(m, m1), NEW x, CanRip(m, x), NEW k \in Nat
    PROVE  /\ Ripped(m, Rip(m1, x, k))
           /\ DOMAIN (Rip(m1, x, k)).wires = DOMAIN m1.wires \cup {RipWire(k)}
<1> DEFINE m2 == Rip(m1, x, k)
<1>1. IsGood(m1) /\ Edited(m, m1) /\ DOMAIN m1.cells = DOMAIN m.cells
    BY DEF Ripped
<1>2. x \in DOMAIN m1.cells \ Generated /\ Len(m1.cells[x].outs) = 1
    BY <1>1 DEF Edited, CanRip
<1> HIDE DEF m2
<1>3. Edited(m1, m2) /\ IsGood(m2)
    BY <1>1, <1>2, RipEdits DEF m2
<1>4. Edited(m, m2)
    BY <1>1, <1>3, EditedTransitive
<1>5. IsNetlist(m1)
    BY <1>1 DEF IsGood
<1>6. IsAdded(m1, RipWire(k), Len(m1.cells[x].outs[1]), m2)
    BY <1>2, <1>5, RipFacts DEF m2
<1>7. DOMAIN m2.cells = DOMAIN m1.cells
    BY <1>2, <1>5, RipFacts DEF m2
<1>8. Ripped(m, m2) /\ DOMAIN m2.wires = DOMAIN m1.wires \cup {RipWire(k)}
    BY <1>1, <1>3, <1>4, <1>6, <1>7 DEF IsAdded, Ripped
<1> QED BY <1>8 DEF m2

(* The four rips around the cut point edit the netlist.                    *)
LEMMA RipCutPointEdits ==
    ASSUME IsGood(netlist), autoidx \in Nat, id \in Nat, CutPointReady,
           Len(netlist.cells[voterCutPoint].outs) = 1
    PROVE  /\ Ripped(netlist, RipCutPoint(netlist, voterCutPoint, autoidx))
           /\ DOMAIN (RipCutPoint(netlist, voterCutPoint, autoidx)).wires
                  = DOMAIN netlist.wires \cup {RipWire(autoidx + k) : k \in 0..3}
<1> DEFINE n == autoidx
           n1 == n + 1
           n2 == n + 2
           n3 == n + 3
           cut == voterCutPoint
           r1 == Replica(cut, 1, id)
           r2 == Replica(cut, 2, id)
           a == Rip(netlist, cut, n)
           b == Rip(a, r1, n1)
           c == Rip(b, r2, n2)
           m == Rip(c, cut, n3)
<1>1. {cut, r1, r2} \subseteq DOMAIN netlist.cells \ Generated
  <2>1. cut \in Names
      BY DEF CutPointReady, Names
  <2> QED BY <2>1, GeneratedNames, ReplicaNames DEF CutPointReady
<1>2. \A x \in {cut, r1, r2} : Len(netlist.cells[x].outs) = 1
    BY DEF CutPointReady
<1>3. RipCutPoint(netlist, voterCutPoint, autoidx) = m
    BY DEF RipCutPoint
<1>4. n \in Nat /\ n1 \in Nat /\ n2 \in Nat /\ n3 \in Nat
    OBVIOUS
<1> HIDE DEF cut, r1, r2, a, b, c, m, n, n1, n2, n3
<1>5. CanRip(netlist, cut) /\ CanRip(netlist, r1) /\ CanRip(netlist, r2)
    BY <1>1, <1>2 DEF CanRip
<1>6. Ripped(netlist, netlist)
    BY DEF Edited, SameMarks, IsGood, Ripped
<1>7. Ripped(netlist, a) /\ DOMAIN a.wires = DOMAIN netlist.wires \cup {RipWire(n)}
    BY <1>4, <1>5, <1>6, RipAgain DEF a
<1>8. Ripped(netlist, b) /\ DOMAIN b.wires = DOMAIN a.wires \cup {RipWire(n1)}
    BY <1>4, <1>5, <1>7, RipAgain DEF b
<1>9. Ripped(netlist, c) /\ DOMAIN c.wires = DOMAIN b.wires \cup {RipWire(n2)}
    BY <1>4, <1>5, <1>8, RipAgain DEF c
<1>10. Ripped(netlist, m) /\ DOMAIN m.wires = DOMAIN c.wires \cup {RipWire(n3)}
    BY <1>4, <1>5, <1>9, RipAgain DEF m
<1>11. DOMAIN m.wires = DOMAIN netlist.wires \cup {RipWire(n + k) : k \in 0..3}
  <2>1. n + 0 = n /\ n + 1 = n1 /\ n + 2 = n2 /\ n + 3 = n3
      BY <1>4 DEF n1, n2, n3
  <2>2. 0..3 = {0, 1, 2, 3}
      OBVIOUS
  <2>3. {RipWire(n + k) : k \in 0..3} = {RipWire(n), RipWire(n1), RipWire(n2), RipWire(n3)}
      BY <2>1, <2>2
  <2> QED BY <1>7, <1>8, <1>9, <1>10, <2>3
<1> QED BY <1>3, <1>10, <1>11 DEF n

(* And so does all that insertVoter does before it connects the voter.     *)
LEMMA SplicedEdits ==
    ASSUME IsGood(netlist), autoidx \in Nat, id \in Nat, CutPointReady, RootReady,
           Len(netlist.cells[voterCutPoint].outs) = 1
    PROVE  /\ Edited(netlist, Spliced) /\ IsGood(Spliced)
           /\ CutWidth \in Nat
           /\ RipWire(autoidx) \in DOMAIN Spliced.wires
           /\ RootWire(autoidx + 4) \in DOMAIN Spliced.wires
           /\ DOMAIN netlist.wires \subseteq DOMAIN Spliced.wires
<1> DEFINE n == autoidx
           a == RipCutPoint(netlist, voterCutPoint, n)
           b == AddVoter(a, n, CutWidth)
<1>1. CutWidth \in Nat
  <2>1. netlist.cells[voterCutPoint] \in CellRecords(DOMAIN netlist.wires)
      BY DEF IsGood, IsNetlist, CutPointReady
  <2>2. netlist.cells[voterCutPoint].outs \in Seq(Signals(DOMAIN netlist.wires))
      BY <2>1 DEF CellRecords
  <2>3. netlist.cells[voterCutPoint].outs[1] \in Signals(DOMAIN netlist.wires)
      BY <2>2
  <2> QED BY <2>3 DEF CutWidth, Signals
<1>2. Spliced = ExtractRoot(b, n + 4)
    BY DEF Spliced
<1> HIDE DEF a, b
<1>3. /\ Edited(netlist, a) /\ IsGood(a)
      /\ DOMAIN a.cells = DOMAIN netlist.cells
      /\ \A k \in 0..3 : RipWire(n + k) \in DOMAIN a.wires
      /\ DOMAIN netlist.wires \subseteq DOMAIN a.wires
  <2>1. /\ Ripped(netlist, a)
        /\ DOMAIN a.wires = DOMAIN netlist.wires \cup {RipWire(n + k) : k \in 0..3}
      BY RipCutPointEdits DEF a
  <2> QED BY <2>1 DEF Ripped
<1>4. /\ Edited(a, b) /\ IsGood(b)
      /\ IsAdded(a, ErrWire(n), 1, b)
    BY <1>1, <1>3, AddVoterEdits DEF b
<1>5. DOMAIN a.wires \subseteq DOMAIN b.wires
    BY <1>4 DEF IsAdded
<1>6. Edited(netlist, b)
    BY <1>3, <1>4, EditedTransitive
<1>7. RipWire(n) \in DOMAIN b.wires
  <2>1. n + 0 = n /\ 0 \in 0..3
      OBVIOUS
  <2> QED BY <1>3, <1>5, <2>1
<1>8. CASE outputNode \in FFs
  <2>1. Spliced = Rip(b, outputNode, n + 4) /\ RootWire(n + 4) = RipWire(n + 4)
      BY <1>2, <1>8 DEF ExtractRoot, RootWire
  <2>2. outputNode \in DOMAIN b.cells \ Generated /\ Len(b.cells[outputNode].outs) = 1
    <3>1. outputNode \in Names
        BY <1>8, NameAssumption DEF Names
    <3>2. outputNode \notin Wires
        BY <1>8, NameAssumption
    <3>3. outputNode \in DOMAIN netlist.cells
        BY <1>8, <3>2, NameAssumption DEF RootReady
    <3>4. outputNode \in DOMAIN b.cells
        BY <1>6, <3>3 DEF Edited, SameMarks
    <3> QED BY <1>4, <1>8, <3>1, <3>4, GeneratedNames DEF IsGood
  <2>3. n + 4 \in Nat
      OBVIOUS
  <2>4. Edited(b, Spliced) /\ IsGood(Spliced)
      BY <1>4, <2>1, <2>2, <2>3, RipEdits
  <2>5. IsAdded(b, RipWire(n + 4), Len(b.cells[outputNode].outs[1]), Spliced)
    <3>1. IsNetlist(b)
        BY <1>4 DEF IsGood
    <3> QED BY <2>1, <2>2, <2>3, <3>1, RipFacts
  <2>6. DOMAIN Spliced.wires = DOMAIN b.wires \cup {RipWire(n + 4)}
      BY <2>5 DEF IsAdded
  <2>7. Edited(netlist, Spliced)
      BY <1>6, <2>4, EditedTransitive
  <2> QED BY <1>1, <1>3, <1>5, <1>7, <2>1, <2>4, <2>6, <2>7
<1>9. CASE outputNode \notin FFs
  <2>1. Spliced = b /\ RootWire(n + 4) = outputNode
      BY <1>2, <1>9 DEF ExtractRoot, RootWire
  <2>2. outputNode \in DOMAIN netlist.wires
      BY <1>9 DEF RootReady
  <2> QED BY <1>1, <1>3, <1>4, <1>5, <1>6, <1>7, <2>1, <2>2
<1> QED BY <1>8, <1>9

(* insertVoter is a step like the others.                                  *)
LEMMA InsertVoterNetStep ==
    ASSUME IsGood(netlist), autoidx \in Nat, id \in Nat, CutPointReady, RootReady,
           CellOutputsFit, InsertVoter
    PROVE  NetStep /\ fixTodo' \subseteq DOMAIN netlist'.wires
<1> DEFINE n == autoidx
           s == VoterTarget(Spliced, n + 4)
           t == Whole(RipWire(n), CutWidth)
           wires2 == DOMAIN Spliced.wires
<1>1. /\ netlist' = [Spliced EXCEPT !.conns = @ \cup {<<s, t>>}]
      /\ Len(netlist.cells[voterCutPoint].outs) = 1
      /\ Len(s) = CutWidth
      /\ fixTodo' = Candidates(netlist', fixConnections')
    BY DEF InsertVoter, CanSplice
<1>2. /\ Edited(netlist, Spliced) /\ IsGood(Spliced)
      /\ CutWidth \in Nat
      /\ RipWire(n) \in wires2
      /\ RootWire(n + 4) \in wires2
      /\ DOMAIN netlist.wires \subseteq wires2
    BY <1>1, SplicedEdits
<1>3. t \in Signals(wires2) /\ Len(t) = CutWidth
    BY <1>2, WholeIsSignal
<1>4. s \in Signals(wires2)
  <2> DEFINE attached == CHOOSE x \in cellOutputs[voterCutPoint] : TRUE
             whole == Whole(RootWire(n + 4), Spliced.wires[RootWire(n + 4)].width)
  <2>1. s = attached \/ s = whole
      BY DEF VoterTarget
  <2>2. attached \in Signals(wires2)
    <3>1. attached \in cellOutputs[voterCutPoint]
        BY <1>1 DEF CellOutputsFit, CutPointReady
    <3>2. attached \in Signals(DOMAIN netlist.wires)
        BY <3>1 DEF CellOutputsFit, CutPointReady
    <3> QED BY <1>2, <3>2, SignalsGrow
  <2>3. whole \in Signals(wires2)
    <3>1. Spliced.wires[RootWire(n + 4)].width \in Nat
        BY <1>2 DEF IsGood, IsNetlist, WireRecords
    <3> QED BY <1>2, <3>1, WholeIsSignal
  <2> QED BY <2>1, <2>2, <2>3
<1> HIDE DEF s, t
<1>5. Edited(Spliced, netlist') /\ IsGood(netlist')
    BY <1>1, <1>2, <1>3, <1>4, ConnectEdits
<1>6. Edited(netlist, netlist')
    BY <1>2, <1>5, EditedTransitive
<1>7. fixTodo' \subseteq DOMAIN netlist'.wires
    BY <1>1 DEF Candidates
<1> QED BY <1>5, <1>6, <1>7, EditIsNetStep

(* And so is the rewiring of both replicas.                                *)
LEMMA RewireNetStep ==
    ASSUME IsGood(netlist), autoidx \in Nat, fixTodo \subseteq DOMAIN netlist.wires, Rewire
    PROVE  NetStep /\ fixTodo' \subseteq DOMAIN netlist'.wires
<1>1. PICK w \in fixTodo :
        \E l1, l2 \in fixConnections[w], r1, r2 \in InverseLookup(fixConnections, w) :
              /\ IsReplica(l1, 1) /\ IsReplica(r1, 1)
              /\ IsReplica(l2, 2) /\ IsReplica(r2, 2)
              /\ CanReconnect(netlist, w, l1, r1) /\ CanReconnect(netlist, w, l2, r2)
              /\ netlist' = Reconnect(Reconnect(netlist, w, l1, r1, FixWire(autoidx)),
                                      w, l2, r2, FixWire(autoidx + 1))
              /\ fixTodo' = fixTodo \ {w}
    BY DEF Rewire
<1>2. PICK l1, l2, r1, r2 :
              /\ IsReplica(r1, 1) /\ IsReplica(r2, 2)
              /\ CanReconnect(netlist, w, l1, r1) /\ CanReconnect(netlist, w, l2, r2)
              /\ netlist' = Reconnect(Reconnect(netlist, w, l1, r1, FixWire(autoidx)),
                                      w, l2, r2, FixWire(autoidx + 1))
              /\ fixTodo' = fixTodo \ {w}
    BY <1>1
<1> DEFINE m1 == Reconnect(netlist, w, l1, r1, FixWire(autoidx))
           n == autoidx + 1
<1>3. {l1, l2} \subseteq DOMAIN netlist.cells /\ {r1, r2} \subseteq DOMAIN netlist.cells \ Cells
  <2>1. Len(r1) = 3 /\ Len(r2) = 3
      BY <1>2 DEF IsReplica
  <2>2. r1 \notin Cells /\ r2 \notin Cells
      BY <2>1, NameAssumption
  <2> QED BY <1>2, <2>2 DEF CanReconnect
<1>4. w \in DOMAIN netlist.wires /\ n \in Nat
    OBVIOUS
<1>5. netlist' = Reconnect(m1, w, l2, r2, FixWire(n))
    BY <1>2
<1>6. l1 \in DOMAIN netlist.cells /\ r1 \in DOMAIN netlist.cells \ Cells
    BY <1>3
<1> HIDE DEF m1, n
<1>7. Edited(netlist, m1) /\ IsGood(m1)
    BY <1>4, <1>6, ReconnectEdits DEF m1
<1>8. w \in DOMAIN m1.wires /\ l2 \in DOMAIN m1.cells /\ r2 \in DOMAIN m1.cells \ Cells
    BY <1>3, <1>4, <1>7 DEF Edited, SameMarks
<1>9. Edited(m1, netlist') /\ IsGood(netlist')
    BY <1>4, <1>5, <1>7, <1>8, ReconnectEdits
<1>10. Edited(netlist, netlist')
    BY <1>7, <1>9, EditedTransitive
<1>11. fixTodo' \subseteq DOMAIN netlist'.wires
    BY <1>2, <1>10 DEF Edited, SameMarks
<1> QED BY <1>9, <1>10, <1>11, EditIsNetStep

(* And so is connecting the error sink.                                    *)
LEMMA FinaliseNetStep ==
    ASSUME IsGood(netlist), autoidx \in Nat, errorSink \in DOMAIN netlist.wires, Finalise
    PROVE  NetStep
<1> DEFINE errs == {netlist.cells[v].outs[2] : v \in Voters}
           f == [v \in Voters |-> netlist.cells[v].outs[2]]
           ins == SetToSeq(errs)
<1>1. IsFiniteSet(DOMAIN netlist.cells) /\ Voters \subseteq DOMAIN netlist.cells
    BY DEF IsGood, IsNetlist, Voters
<1>2. \A v \in Voters : netlist.cells[v].outs[2] \in Signals(DOMAIN netlist.wires)
  <2> SUFFICES ASSUME NEW v \in Voters
               PROVE  netlist.cells[v].outs[2] \in Signals(DOMAIN netlist.wires)
      OBVIOUS
  <2>1. netlist.cells[v].type = "voter" /\ v \in DOMAIN netlist.cells
      BY DEF Voters
  <2>2. Len(netlist.cells[v].outs) = 2
      BY <2>1 DEF IsGood
  <2>3. netlist.cells[v].outs \in Seq(Signals(DOMAIN netlist.wires))
      BY <2>1 DEF IsGood, IsNetlist, CellRecords
  <2> QED BY <2>2, <2>3
<1>3. errs \subseteq Signals(DOMAIN netlist.wires) /\ IsFiniteSet(errs)
  <2>1. IsFiniteSet(Voters)
      BY <1>1, FS_Subset
  <2>2. f \in [Voters -> errs] /\ Range(f) = errs
      BY DEF Range
  <2> HIDE DEF f, errs
  <2>3. IsFiniteSet(Range(f))
      BY <2>1, <2>2, ImageIsFinite
  <2>4. IsFiniteSet(errs)
      BY <2>2, <2>3
  <2> QED BY <1>2, <2>4 DEF errs
<1>4. ins \in Seq(Signals(DOMAIN netlist.wires))
  <2> HIDE DEF errs
  <2>1. ins \in [1..Cardinality(errs) -> errs] /\ Cardinality(errs) \in Nat
      BY <1>3, SetToSeqFacts, FS_CardinalityType
  <2>2. ins \in Seq(errs)
      BY <2>1
  <2> QED BY <1>3, <2>2
<1>5. SinkOr = [type |-> "or", ins |-> ins, outs |-> <<Whole(errorSink, 1)>>,
                cone |-> NoCone, original |-> FALSE, ignore |-> FALSE]
    BY DEF SinkOr
<1>6. netlist' = [netlist EXCEPT !.cells = With(@, <<"$or", autoidx>>, SinkOr)]
    BY DEF Finalise, SinkCell
<1> HIDE DEF ins
<1>7. Edited(netlist, netlist') /\ IsGood(netlist')
    BY <1>4, <1>5, <1>6, AddSinkEdits
<1> QED BY <1>7, EditIsNetStep

(* The inductive invariant, by parts.  Control and counters.               *)
ControlInv ==
    /\ stage \in Stages
    /\ nextID \in Nat /\ autoidx \in Nat /\ id \in Nat
    /\ explored \subseteq FFs \cup OutPorts
    /\ stage = "start" => netlist \in Designs

(* Only objects of the design at hand are queued, and no port that is only *)
(* an input: nothing drives it.                                            *)
QueuesOwn ==
    /\ outputs \subseteq Own \cap OutPorts
    /\ successors \in Seq([root : Own \cap (FFs \cup OutPorts), id : Nat])

(* The search is among the design's own objects, and the nodes it hands on *)
(* are of the right kinds.                                                 *)
SearchOwn ==
    /\ outputNode \in (Own \cap (FFs \cup OutPorts)) \cup {None}
    /\ stage \in {"search", "wire", "fix", "expand"} => outputNode # None
    /\ frontier \in Seq(Own)
    /\ visited \subseteq Own
    /\ cone \in Seq(Own)
    /\ inputNodes \in Seq(Own \cap (FFs \cup InPorts \cup OutPorts))
    /\ voterCutPoint \in (Own \cap Cells) \cup {None}
    /\ first \in BOOLEAN
    /\ replicated \subseteq Own

(* An analysis that names these objects only, and that has nothing behind  *)
(* a port that is only an input.                                           *)
IsAnalysisOf(conn, objects) ==
    /\ DOMAIN conn \subseteq objects \ (InPorts \ OutPorts)
    /\ \A x \in DOMAIN conn :
          /\ conn[x] # {} /\ conn[x] \subseteq objects
          /\ x \in Cells => conn[x] \subseteq Wires

(* What the analysis of the untouched design says still makes sense on the *)
(* netlist as it is now.                                                   *)
AnalysisFits ==
    /\ IsAnalysisOf(connections, Own)
    /\ stage \notin {"start", "failed"} => CellOutputsFit
    /\ fixTodo \subseteq DOMAIN netlist.wires

(* The sink is that of the design at hand, from the start of its command.  *)
SinkKept ==
    /\ errorSink \in Wires \cup {None}
    /\ stage \notin {"start", "failed"} =>
          /\ errorSink \in DOMAIN netlist.wires \cup {None}
          /\ errorSink = None <=> Sinks = {}

(* When voters are wired, the replicas of this cone stand beside their     *)
(* originals and drive what these drive.                                   *)
ReplicasReady ==
    stage = "wire" =>
        \A c \in replicated \cap Cells :
            /\ c \in DOMAIN netlist.cells /\ netlist.cells[c].cone = id
            /\ \A r \in {1, 2} :
                  /\ Replica(c, r, id) \in DOMAIN netlist.cells
                  /\ netlist.cells[Replica(c, r, id)].outs = netlist.cells[c].outs

(* The inductive invariant of the command.                                 *)
PassInv ==
    /\ IsGood(netlist)
    /\ ControlInv /\ QueuesOwn /\ SearchOwn /\ AnalysisFits /\ SinkKept /\ ReplicasReady

(* It holds when the command is called.                                    *)
LEMMA PassInit == Init => PassInv
<1> SUFFICES ASSUME Init PROVE PassInv
    OBVIOUS
<1> USE DEF Init
<1>1. IsGood(netlist)
    BY DesignIsGood
<1>2. ControlInv
    BY DEF ControlInv, Stages
<1>3. QueuesOwn
    BY DEF QueuesOwn
<1>4. SearchOwn
    BY DEF SearchOwn
<1>5. AnalysisFits
    BY DEF AnalysisFits, IsAnalysisOf, NoAnalysis
<1>6. SinkKept /\ ReplicasReady
    BY DEF SinkKept, ReplicasReady
<1> QED BY <1>1, <1>2, <1>3, <1>4, <1>5, <1>6 DEF PassInv

(* The design's own objects are named by kind.                             *)
LEMMA OwnFacts ==
    /\ Own \cap Cells = DOMAIN netlist.cells \cap Cells
    /\ Own \cap Wires = DOMAIN netlist.wires \cap Wires
    /\ Own \subseteq Names
    /\ None \notin Own
    /\ FFs \subseteq Cells /\ InPorts \cup OutPorts \subseteq Wires
    /\ Wires \cap Cells = {} /\ None \notin Wires \cup Cells
BY NameAssumption DEF Own, Names

(* Nothing in the invariant that speaks of the netlist is lost by a change *)
(* of it, as long as the rest stays as it is.                              *)
LEMMA NetStepKeepsOwn ==
    ASSUME NetStep
    PROVE  Own' = Own
BY DEF NetStep, Own

(* A step makes no sink and removes none.                                  *)
LEMMA NetStepKeepsSinks ==
    ASSUME NetStep
    PROVE  Sinks' = {} <=> Sinks = {}
BY DEF NetStep, Sinks

(* The analysis of cell outputs fits as long as the cells have as many.    *)
LEMMA NetStepKeepsOutputs ==
    ASSUME NetStep, CellOutputsFit, UNCHANGED cellOutputs
    PROVE  CellOutputsFit'
<1>1. Signals(DOMAIN netlist.wires) \subseteq Signals(DOMAIN netlist'.wires)
    BY SignalsGrow DEF NetStep
<1> QED BY <1>1 DEF NetStep, CellOutputsFit

(* What is replicated is of the design: never a replica or a voter.        *)
LEMMA OwnReplicated ==
    ASSUME SearchOwn, stage = "search"
    PROVE  ToReplicate \subseteq Own
<1>1. outputNode \in Own
    BY DEF SearchOwn
<1>2. Range(cone) \subseteq Own /\ Range(inputNodes) \subseteq Own
  <2>1. cone \in Seq(Own) /\ inputNodes \in Seq(Own)
      BY DEF SearchOwn
  <2> QED BY <2>1 DEF Range
<1> QED BY <1>1, <1>2 DEF ToReplicate

(* No step of the command does more to the netlist than NetStep says.      *)
LEMMA EveryStepIsNetStep ==
    ASSUME PassInv, [Next]_vars
    PROVE  NetStep
<1>0. IsGood(netlist) /\ ControlInv /\ SearchOwn /\ AnalysisFits /\ SinkKept /\ ReplicasReady
    BY DEF PassInv
<1>1. CASE UNCHANGED netlist
    BY <1>0, <1>1, SameNetlist
<1>2. CASE Prepare
    BY <1>0, <1>2, PrepareNetStep
<1>3. CASE Replicate
  <2>1. ToReplicate \subseteq Own
      BY <1>0, <1>3, OwnReplicated DEF Replicate
  <2> QED BY <1>0, <1>3, <2>1, ReplicateNetStep DEF ControlInv
<1>4. CASE InsertVoter
  <2>0. stage = "wire" /\ voterCutPoint \in replicated
      BY <1>4 DEF InsertVoter
  <2>1. CutPointReady
    <3>1. voterCutPoint \in replicated \cap Cells
        BY <1>0, <2>0, OwnFacts DEF SearchOwn
    <3> QED BY <1>0, <2>0, <3>1 DEF ReplicasReady, CutPointReady
  <2>2. RootReady
      BY <1>0, <2>0, OwnFacts DEF SearchOwn, RootReady
  <2>3. CellOutputsFit /\ autoidx \in Nat /\ id \in Nat
      BY <1>0, <2>0 DEF AnalysisFits, ControlInv
  <2> QED BY <1>0, <1>4, <2>1, <2>2, <2>3, InsertVoterNetStep
<1>5. CASE Rewire
  <2>1. autoidx \in Nat /\ fixTodo \subseteq DOMAIN netlist.wires
      BY <1>0 DEF ControlInv, AnalysisFits
  <2> QED BY <1>0, <1>5, <2>1, RewireNetStep
<1>6. CASE Finalise
  <2>1. errorSink \in DOMAIN netlist.wires /\ autoidx \in Nat
      BY <1>0, <1>6 DEF SinkKept, ControlInv, Finalise, Finished
  <2> QED BY <1>0, <1>6, <2>1, FinaliseNetStep
<1>7. \/ UNCHANGED netlist \/ Prepare \/ Replicate \/ InsertVoter \/ Rewire \/ Finalise
    BY DEF Next, vars, DuplicateErrorSink, SkipErrorSink, BeginOutput, BeginSuccessor,
           Search, SkipEmptyCone, CutPointNotSet, CutPointNotReplicated, CannotSplice,
           CannotRewire, FixesDone, BuildSuccessors, CannotFinalise, FinishWithoutSink, Fail
<1> QED BY <1>1, <1>2, <1>3, <1>4, <1>5, <1>6, <1>7

(* Steps that only say that the command ends, or move on.                  *)
MovesOn ==
    /\ stage' \in Stages \ {"start"}
    /\ UNCHANGED <<netlist, analysisVars, queueVars, autoidx, errorSink, coneVars, fixTodo>>
    /\ stage = "start" => stage' = "failed"
    /\ stage' \in {"search", "wire", "fix", "expand"} =>
          stage \in {"search", "wire", "fix", "expand"}
    /\ stage' # "wire"
    /\ stage = "failed" => stage' = "failed"

(* Such a step keeps the invariant.                                        *)
LEMMA MovingOn ==
    ASSUME PassInv, MovesOn
    PROVE  PassInv'
<1>1. Own' = Own /\ Sinks' = Sinks /\ CellOutputsFit' = CellOutputsFit
    BY DEF MovesOn, Own, Sinks, CellOutputsFit, analysisVars
<1>2. IsGood(netlist)'
    BY DEF PassInv, MovesOn
<1>3. ControlInv'
    BY DEF PassInv, ControlInv, MovesOn, queueVars, coneVars
<1>4. QueuesOwn'
    BY <1>1 DEF PassInv, QueuesOwn, MovesOn, queueVars
<1>5. SearchOwn'
    BY <1>1 DEF PassInv, SearchOwn, MovesOn, coneVars
<1>6. AnalysisFits'
    BY <1>1 DEF PassInv, AnalysisFits, MovesOn, analysisVars
<1>7. SinkKept' /\ ReplicasReady'
    BY <1>1 DEF PassInv, SinkKept, ReplicasReady, MovesOn
<1> QED BY <1>2, <1>3, <1>4, <1>5, <1>6, <1>7 DEF PassInv

(* Passing over the sink keeps the invariant.                              *)
LEMMA SkipErrorSinkKeeps ==
    ASSUME PassInv, SkipErrorSink
    PROVE  PassInv'
<1>1. /\ UNCHANGED <<netlist, analysisVars, successors, explored, nextID, autoidx,
                     errorSink, coneVars, fixVars, stage>>
      /\ outputs' \subseteq outputs
    BY DEF SkipErrorSink
<1>2. Own' = Own /\ Sinks' = Sinks /\ CellOutputsFit' = CellOutputsFit
    BY <1>1 DEF Own, Sinks, CellOutputsFit, analysisVars
<1>3. IsGood(netlist)' /\ ControlInv'
    BY <1>1 DEF PassInv, ControlInv, coneVars
<1>4. QueuesOwn'
    BY <1>1, <1>2 DEF PassInv, QueuesOwn
<1>5. SearchOwn'
    BY <1>1, <1>2 DEF PassInv, SearchOwn, coneVars
<1>6. AnalysisFits'
    BY <1>1, <1>2 DEF PassInv, AnalysisFits, analysisVars, fixVars
<1>7. SinkKept' /\ ReplicasReady'
    BY <1>1, <1>2 DEF PassInv, SinkKept, ReplicasReady, coneVars
<1> QED BY <1>3, <1>4, <1>5, <1>6, <1>7 DEF PassInv

(* A search begins at an object of the design.                             *)
LEMMA BeginKeeps ==
    ASSUME PassInv, NEW root \in Own \cap (FFs \cup OutPorts), NEW coneID \in Nat,
           Begin(root, coneID), stage = "next",
           outputs' \subseteq outputs, nextID' \in Nat,
           successors' \in Seq([root : Own \cap (FFs \cup OutPorts), id : Nat]),
           UNCHANGED <<netlist, analysisVars, explored, autoidx, errorSink, fixVars>>
    PROVE  PassInv'
<1>1. Own' = Own /\ Sinks' = Sinks /\ CellOutputsFit' = CellOutputsFit
    BY DEF Own, Sinks, CellOutputsFit, analysisVars
<1>2. IsGood(netlist)' /\ ControlInv'
    BY DEF PassInv, ControlInv, Begin, Stages
<1>3. QueuesOwn'
    BY <1>1 DEF PassInv, QueuesOwn
<1>4. SearchOwn'
  <2>1. root # None
      BY OwnFacts
  <2>2. <<root>> \in Seq(Own) /\ <<>> \in Seq(Own)
        /\ <<>> \in Seq(Own \cap (FFs \cup InPorts \cup OutPorts))
      OBVIOUS
  <2> QED BY <1>1, <2>1, <2>2 DEF SearchOwn, Begin
<1>5. AnalysisFits'
    BY <1>1 DEF PassInv, AnalysisFits, Begin, analysisVars, fixVars
<1>6. SinkKept' /\ ReplicasReady'
    BY <1>1 DEF PassInv, SinkKept, ReplicasReady, Begin
<1> QED BY <1>2, <1>3, <1>4, <1>5, <1>6 DEF PassInv

(* A cone begun at an output port keeps it.                                *)
LEMMA BeginOutputKeeps ==
    ASSUME PassInv, BeginOutput
    PROVE  PassInv'
<1>1. PICK o \in outputs : outputs' = outputs \ {o} /\ Begin(o, nextID)
    BY DEF BeginOutput
<1>2. /\ stage = "next" /\ nextID' = nextID + 1
      /\ UNCHANGED <<netlist, analysisVars, successors, explored, autoidx, errorSink, fixVars>>
    BY DEF BeginOutput
<1>3. nextID \in Nat /\ o \in Own \cap (FFs \cup OutPorts)
    BY DEF PassInv, ControlInv, QueuesOwn
<1>4. successors' \in Seq([root : Own \cap (FFs \cup OutPorts), id : Nat])
    BY <1>2 DEF PassInv, QueuesOwn
<1>5. outputs' \subseteq outputs /\ nextID' \in Nat
    BY <1>1, <1>2, <1>3
<1> QED BY <1>1, <1>2, <1>3, <1>4, <1>5, BeginKeeps

(* A cone begun at a successor keeps it.                                   *)
LEMMA BeginSuccessorKeeps ==
    ASSUME PassInv, BeginSuccessor
    PROVE  PassInv'
<1> DEFINE S == [root : Own \cap (FFs \cup OutPorts), id : Nat]
           root == Head(successors).root
           coneID == Head(successors).id
<1>1. /\ stage = "next" /\ successors # <<>>
      /\ Begin(root, coneID)
      /\ successors' = Tail(successors)
      /\ UNCHANGED <<netlist, analysisVars, outputs, explored, nextID, autoidx, errorSink, fixVars>>
    BY DEF BeginSuccessor
<1>2. successors \in Seq(S)
    BY DEF PassInv, QueuesOwn
<1>3. Head(successors) \in S /\ successors' \in Seq(S)
  <2> HIDE DEF S
  <2> QED BY <1>1, <1>2, PopRange
<1>4. root \in Own \cap (FFs \cup OutPorts) /\ coneID \in Nat
    BY <1>3
<1>5. outputs' \subseteq outputs /\ nextID' \in Nat
    BY <1>1 DEF PassInv, ControlInv
<1> HIDE DEF root, coneID
<1> QED BY <1>1, <1>3, <1>4, <1>5, BeginKeeps

(* The search is led from the design's objects to the design's objects.    *)
LEMMA NeighboursOwn ==
    ASSUME AnalysisFits, NEW node \in Own
    PROVE  /\ CS!Neighbours(node) \subseteq Own
           /\ CS!IsIO(node) => node \in InPorts \cup OutPorts
           /\ CS!IsFF(node) <=> node \in FFs
           /\ CS!IsElementCell(node) => node \in Cells
<1>1. CS!Neighbours(node) \subseteq Own
    BY DEF AnalysisFits, IsAnalysisOf, CS!Neighbours, CS!LC!Neighbours
<1>2. CS!IsIO(node) => node \in InPorts \cup OutPorts
    BY DEF AnalysisFits, IsAnalysisOf, CS!IsIO, CS!LC!IsIO
<1>3. CS!IsFF(node) <=> node \in FFs
    BY DEF CS!IsFF, CS!LC!IsFF
<1>4. CS!IsElementCell(node) => node \in Cells
    BY DEF CS!IsElementCell
<1> QED BY <1>1, <1>2, <1>3, <1>4

(* A design is finite.                                                     *)
LEMMA OwnIsFinite == IsFiniteSet(Own)
<1>1. IsFiniteSet(Names) /\ Own \subseteq Names
    BY NameAssumption, OwnFacts DEF Names
<1> QED BY <1>1, FS_Subset

(* A listing of a finite set, as the search and buildSuccessors make it.   *)
LEMMA OrderingFacts ==
    ASSUME NEW T, IsFiniteSet(T), NEW order \in CS!Orderings(T)
    PROVE  /\ order \in Seq(T) /\ Range(order) = T
           /\ Len(order) = Cardinality(T) /\ NoRepeats(order)
<1>1. CS!Cardinality(T) = Cardinality(T)
    BY DEF CS!Cardinality, Cardinality
<1>2. CS!Range(order) = Range(order)
    BY DEF CS!Range, Range
<1>3. order \in [1..Cardinality(T) -> T] /\ Range(order) = T
    BY <1>1, <1>2 DEF CS!Orderings
<1> QED BY <1>3, ListingFacts

(* The neighbours that a turn of the search pushes.                        *)
LEMMA PushOwn ==
    ASSUME AnalysisFits, frontier \in Seq(Own), visited \subseteq Own, frontier # <<>>,
           CS!PushNeighbours(Head(frontier))
    PROVE  frontier' \in Seq(Own) /\ visited' \subseteq Own
<1> DEFINE node == Head(frontier)
           T == CS!Neighbours(node) \ visited
<1>1. PICK order \in CS!Orderings(T) :
          /\ frontier' = Tail(frontier) \o order
          /\ visited' = visited \cup CS!Neighbours(node)
    BY DEF CS!PushNeighbours
<1>2. node \in Own /\ Tail(frontier) \in Seq(Own)
    BY PopRange
<1>3. CS!Neighbours(node) \subseteq Own
    BY <1>2, NeighboursOwn
<1>4. order \in Seq(Own)
  <2>1. IsFiniteSet(T)
      BY <1>3, OwnIsFinite, FS_Subset
  <2> HIDE DEF T
  <2>2. order \in Seq(T)
      BY <2>1, OrderingFacts
  <2>3. T \subseteq Own
      BY <1>3 DEF T
  <2> QED BY <2>2, <2>3
<1>5. Tail(frontier) \o order \in Seq(Own)
    BY <1>2, <1>4, ConcatProperties
<1> QED BY <1>1, <1>3, <1>5

(* The node the search ends at, of which buildSuccessors makes a root, is  *)
(* a flip-flop or a port.                                                  *)
LEMMA WrapUpOwn ==
    ASSUME AnalysisFits, frontier \in Seq(Own), frontier # <<>>,
           inputNodes \in Seq(Own \cap (FFs \cup InPorts \cup OutPorts)),
           CS!WrapUp(Head(frontier))
    PROVE  inputNodes' \in Seq(Own \cap (FFs \cup InPorts \cup OutPorts))
<1> DEFINE node == Head(frontier)
           S == Own \cap (FFs \cup InPorts \cup OutPorts)
<1>1. \/ inputNodes' = inputNodes
      \/ /\ inputNodes' = Append(inputNodes, node)
         /\ CS!IsIO(node) \/ CS!IsFF(node)
    BY DEF CS!WrapUp
<1>2. node \in Own
    BY PopRange
<1>3. CS!IsIO(node) \/ CS!IsFF(node) => node \in S
    BY <1>2, NeighboursOwn
<1> HIDE DEF node, S
<1>4. inputNodes \in Seq(S)
    BY DEF S
<1>5. inputNodes' \in Seq(S)
    BY <1>1, <1>3, <1>4, AppendRange
<1> QED BY <1>5 DEF S

(* A step of the search keeps the invariant.                               *)
LEMMA SearchKeeps ==
    ASSUME PassInv, Search
    PROVE  PassInv'
<1> DEFINE node == Head(frontier)
<1>1. /\ stage = "search" /\ CS!Next
      /\ UNCHANGED <<netlist, signals, cellOutputs, queueVars, autoidx, errorSink,
                     id, replicated, fixVars, stage>>
    BY DEF Search
<1>2. /\ frontier # <<>> /\ UNCHANGED <<connections, outputNode>>
      /\ \/ CS!PushNeighbours(node)
         \/ frontier' = Tail(frontier) /\ UNCHANGED visited
      /\ cone' = cone \/ cone' = Append(cone, node)
      /\ voterCutPoint' = voterCutPoint \/ CS!SetCutPoint(node)
      /\ CS!WrapUp(node)
      /\ first' \in BOOLEAN
  <2>0. first \in BOOLEAN
      BY DEF PassInv, SearchOwn
  <2>1. CASE CS!ConsiderRoot
    <3>1. first' \in BOOLEAN
        BY <2>1 DEF CS!ConsiderRoot
    <3> QED BY <2>1, <3>1 DEF CS!ConsiderRoot
  <2>2. CASE CS!ConsiderElement
    <3>1. first' \in BOOLEAN
        BY <2>0, <2>2 DEF CS!ConsiderElement
    <3> QED BY <2>2, <3>1 DEF CS!ConsiderElement
  <2>3. CASE CS!ConsiderTerminal
    <3>1. first' \in BOOLEAN
        BY <2>0, <2>3 DEF CS!ConsiderTerminal
    <3> QED BY <2>3, <3>1 DEF CS!ConsiderTerminal
  <2> QED BY <1>1, <2>1, <2>2, <2>3 DEF CS!Next
<1>3. /\ AnalysisFits /\ frontier \in Seq(Own) /\ visited \subseteq Own /\ cone \in Seq(Own)
      /\ inputNodes \in Seq(Own \cap (FFs \cup InPorts \cup OutPorts))
      /\ voterCutPoint \in (Own \cap Cells) \cup {None}
    BY DEF PassInv, SearchOwn
<1>4. node \in Own /\ Tail(frontier) \in Seq(Own)
    BY <1>2, <1>3, PopRange
<1>5. Own' = Own /\ Sinks' = Sinks /\ CellOutputsFit' = CellOutputsFit
    BY <1>1 DEF Own, Sinks, CellOutputsFit
<1>6. IsGood(netlist)' /\ ControlInv'
    BY <1>1 DEF PassInv, ControlInv, queueVars
<1>7. QueuesOwn'
    BY <1>1, <1>5 DEF PassInv, QueuesOwn, queueVars
<1>8. frontier' \in Seq(Own) /\ visited' \subseteq Own
  <2>1. frontier \in Seq(Own) /\ visited \subseteq Own /\ frontier # <<>> /\ AnalysisFits
      BY <1>2, <1>3
  <2>2. CASE CS!PushNeighbours(node)
      BY <2>1, <2>2, PushOwn
  <2>3. CASE frontier' = Tail(frontier) /\ UNCHANGED visited
      BY <1>4, <2>1, <2>3
  <2> QED BY <1>2, <2>2, <2>3
<1>9. cone' \in Seq(Own)
  <2>1. cone \in Seq(Own) /\ (cone' = cone \/ cone' = Append(cone, node))
      BY <1>2, <1>3
  <2>2. Append(cone, node) \in Seq(Own)
      BY <1>4, <2>1, AppendRange
  <2> QED BY <2>1, <2>2
<1>10. inputNodes' \in Seq(Own \cap (FFs \cup InPorts \cup OutPorts))
    BY <1>2, <1>3, WrapUpOwn
<1>11. voterCutPoint' \in (Own \cap Cells) \cup {None}
  <2>1. CS!IsElementCell(node) \/ CS!IsFF(node) => node \in Cells
      BY <1>3, <1>4, NeighboursOwn, OwnFacts
  <2> QED BY <1>2, <1>3, <1>4, <2>1 DEF CS!SetCutPoint
<1>12. SearchOwn'
  <2>1. /\ outputNode' \in (Own \cap (FFs \cup OutPorts)) \cup {None}
        /\ outputNode' # None
        /\ replicated' \subseteq Own
      BY <1>1, <1>2 DEF PassInv, SearchOwn
  <2> QED BY <1>2, <1>5, <1>8, <1>9, <1>10, <1>11, <2>1 DEF SearchOwn
<1>13. AnalysisFits'
    BY <1>1, <1>2, <1>5 DEF PassInv, AnalysisFits, fixVars
<1>14. SinkKept' /\ ReplicasReady'
    BY <1>1, <1>5 DEF PassInv, SinkKept, ReplicasReady
<1> QED BY <1>6, <1>7, <1>12, <1>13, <1>14 DEF PassInv

(* The wire of a signal is one of the wires it is made of, if any.         *)
LEMMA SigWireIsWire ==
    ASSUME NEW wires, NEW s \in Signals(wires)
    PROVE  SigWire(s) \in wires \cup {NoWire}
<1>1. CASE s = <<>> \/ s[1] = Constant
    BY <1>1 DEF SigWire
<1>2. CASE s # <<>> /\ s[1] # Constant
  <2>1. s[1] \in {Constant} \cup (wires \X Nat)
      BY <1>2 DEF Signals
  <2> QED BY <1>2, <2>1 DEF SigWire
<1> QED BY <1>1, <1>2

(* What analyseConnections returns for a design, memories marked or not:   *)
(* every object it names is one of the design, and no input-only port has  *)
(* anything behind it.                                                     *)
LEMMA AnalysisOfDesign ==
    ASSUME NEW d \in Designs, NEW cells, cells \in [DOMAIN d.cells -> CellRecords(DOMAIN d.wires)],
           \A c \in DOMAIN d.cells : cells[c].outs = d.cells[c].outs,
           NEW objects, objects = DOMAIN d.cells \cup DOMAIN d.wires,
           NEW conn, conn = AnalyseConnections(cells, d.wires, d.conns)
    PROVE  IsAnalysisOf(conn, objects)
<1> DEFINE D == {c \in DOMAIN cells : Considered(cells[c])} \cup DOMAIN d.wires
           behind == [x \in D |-> IF x \in DOMAIN cells THEN WiresBehind(x, cells)
                                  ELSE DriversOf(x, cells, d.wires, d.conns)]
<1>1. /\ IsNetlist(d) /\ DOMAIN d.cells \subseteq Cells /\ DOMAIN d.wires \subseteq Wires
      /\ \A w \in InPorts \ OutPorts :
            /\ \A c \in DOMAIN d.cells : \A s \in Range(d.cells[c].outs) : SigWire(s) # w
            /\ \A k \in d.conns : SigWire(k[1]) # w
    BY DesignAssumption
<1>2. /\ d.conns \subseteq Signals(DOMAIN d.wires) \X Signals(DOMAIN d.wires)
      /\ DOMAIN cells = DOMAIN d.cells
    BY <1>1 DEF IsNetlist
<1>3. conn = [x \in {y \in DOMAIN behind : behind[y] # {}} |-> behind[x]]
    BY DEF AnalyseConnections
<1>4. DOMAIN behind = D
    OBVIOUS
<1>5. ASSUME NEW c \in DOMAIN cells
      PROVE  WiresBehind(c, cells) \subseteq DOMAIN d.wires
  <2>1. cells[c].ins \in Seq(Signals(DOMAIN d.wires))
      BY <1>2 DEF CellRecords
  <2>2. \A s \in Range(cells[c].ins) : s \in Signals(DOMAIN d.wires)
      BY <2>1 DEF Range
  <2> QED BY <2>2, SigWireIsWire DEF WiresBehind
<1>6. ASSUME NEW w \in DOMAIN d.wires
      PROVE  /\ DriversOf(w, cells, d.wires, d.conns) \subseteq objects
             /\ w \in InPorts \ OutPorts => DriversOf(w, cells, d.wires, d.conns) = {}
  <2>1. \A k \in d.conns : SigWire(k[2]) \in DOMAIN d.wires \cup {NoWire}
      BY <1>2, SigWireIsWire
  <2>2. DriversOf(w, cells, d.wires, d.conns) \subseteq objects
      BY <1>2, <2>1 DEF DriversOf
  <2>3. w \in InPorts \ OutPorts => DriversOf(w, cells, d.wires, d.conns) = {}
      BY <1>1, <1>2 DEF DriversOf
  <2> QED BY <2>2, <2>3
<1>7. ASSUME NEW x \in D
      PROVE  /\ behind[x] \subseteq objects
             /\ x \in Cells => behind[x] \subseteq Wires
             /\ x \in InPorts \ OutPorts => behind[x] = {}
  <2>1. CASE x \in DOMAIN cells
    <3>1. behind[x] = WiresBehind(x, cells)
        BY <2>1
    <3>2. x \in Cells /\ x \notin InPorts
        BY <1>1, <1>2, <2>1, NameAssumption
    <3> QED BY <1>1, <1>5, <2>1, <3>1, <3>2
  <2>2. CASE x \notin DOMAIN cells
    <3>1. behind[x] = DriversOf(x, cells, d.wires, d.conns) /\ x \in DOMAIN d.wires
        BY <2>2
    <3>2. x \notin Cells
        BY <1>1, <3>1, NameAssumption
    <3> QED BY <1>6, <3>1, <3>2
  <2> QED BY <2>1, <2>2
<1>8. D \subseteq objects
    BY <1>2
<1> HIDE DEF behind, D
<1> QED BY <1>3, <1>4, <1>7, <1>8 DEF IsAnalysisOf

(* The analysis is made from the design and fits it, so Prepare keeps the  *)
(* invariant.                                                              *)
LEMMA PrepareKeeps ==
    ASSUME PassInv, Prepare
    PROVE  PassInv'
<1>1. /\ stage = "start" /\ netlist \in Designs
      /\ netlist' = [netlist EXCEPT !.cells = MarkMemoriesIgnored(@)]
      /\ stage' = "next"
      /\ UNCHANGED <<successors, explored, nextID, autoidx, coneVars, fixVars>>
    BY DEF Prepare, PassInv, ControlInv
<1>2. NetStep
    BY EveryStepIsNetStep DEF Next
<1>3. Own' = Own /\ IsGood(netlist')
    BY <1>2, NetStepKeepsOwn DEF NetStep
<1>4. /\ netlist'.wires = netlist.wires /\ netlist'.conns = netlist.conns
      /\ DOMAIN netlist'.cells = DOMAIN netlist.cells
      /\ \A c \in DOMAIN netlist.cells : netlist'.cells[c].outs = netlist.cells[c].outs
    BY <1>1, MarkMemoriesEdits DEF PassInv
<1>5. Own = DOMAIN netlist.cells \cup DOMAIN netlist.wires
    BY <1>1, DesignAssumption DEF Own
<1>6. ControlInv'
    BY <1>1 DEF PassInv, ControlInv, Stages, coneVars
<1>7. QueuesOwn'
  <2>1. outputs' = DOMAIN netlist.wires \cap OutPorts
      BY DEF Prepare
  <2> QED BY <1>1, <1>3, <1>5, <2>1 DEF PassInv, QueuesOwn
<1>8. SearchOwn'
    BY <1>1, <1>3 DEF PassInv, SearchOwn, coneVars
<1>9. AnalysisFits'
  <2>1. connections' = AnalyseConnections(netlist'.cells, netlist.wires, netlist.conns)
      BY <1>4 DEF Prepare
  <2>2. netlist'.cells \in [DOMAIN netlist.cells -> CellRecords(DOMAIN netlist.wires)]
      BY <1>3, <1>4 DEF IsGood, IsNetlist
  <2>3. IsAnalysisOf(connections', Own)
      BY <1>1, <1>4, <1>5, <2>1, <2>2, AnalysisOfDesign
  <2>4. CellOutputsFit'
    <3>1. cellOutputs' = [c \in DOMAIN netlist'.cells |-> Range(netlist'.cells[c].outs)]
        BY DEF Prepare, AnalyseCellOutputs
    <3>2. \A c \in DOMAIN netlist'.cells :
              netlist'.cells[c].outs \in Seq(Signals(DOMAIN netlist'.wires))
        BY <1>4, <2>2 DEF CellRecords
    <3>3. ASSUME NEW outs \in Seq(Signals(DOMAIN netlist'.wires))
          PROVE  /\ Range(outs) \subseteq Signals(DOMAIN netlist'.wires)
                 /\ Len(outs) = 1 => Range(outs) # {}
        BY DEF Range
    <3> QED BY <3>1, <3>2, <3>3 DEF CellOutputsFit
  <2>5. fixTodo' \subseteq DOMAIN netlist'.wires
      BY <1>1, <1>4 DEF PassInv, AnalysisFits, fixVars
  <2> QED BY <1>3, <2>3, <2>4, <2>5 DEF AnalysisFits
<1>10. SinkKept'
  <2>1. Sinks' = Sinks
      BY <1>4 DEF Sinks
  <2>2. Sinks \subseteq DOMAIN netlist.wires /\ DOMAIN netlist.wires \subseteq Wires
      BY <1>1, DesignAssumption DEF Sinks
  <2>3. errorSink' = IF Sinks = {} THEN None ELSE CHOOSE w \in Sinks : TRUE
      BY DEF Prepare
  <2>4. None \notin Wires
      BY OwnFacts
  <2> QED BY <1>4, <2>1, <2>2, <2>3, <2>4 DEF SinkKept
<1>11. ReplicasReady'
    BY <1>1 DEF ReplicasReady
<1> QED BY <1>3, <1>6, <1>7, <1>8, <1>9, <1>10, <1>11 DEF PassInv

(* Steps that change the netlist between two analyses.                     *)
LEMMA NetChangeKeeps ==
    ASSUME PassInv, NetStep,
           UNCHANGED <<analysisVars, queueVars, errorSink, id, outputNode, frontier,
                       visited, cone, inputNodes, voterCutPoint, first>>,
           autoidx' \in Nat, replicated' \subseteq Own,
           fixTodo' \subseteq DOMAIN netlist'.wires,
           stage \notin {"start", "failed"}, stage' \in {"wire", "fix", "done"},
           stage' # "done" => stage \in {"search", "wire", "fix", "expand"},
           ReplicasReady'
    PROVE  PassInv'
<1>1. /\ Own' = Own /\ (Sinks' = {} <=> Sinks = {})
      /\ IsGood(netlist') /\ DOMAIN netlist.wires \subseteq DOMAIN netlist'.wires
    BY NetStepKeepsOwn, NetStepKeepsSinks DEF NetStep
<1>2. CellOutputsFit'
    BY NetStepKeepsOutputs DEF PassInv, AnalysisFits, analysisVars
<1>3. ControlInv'
    BY DEF PassInv, ControlInv, Stages, queueVars
<1>4. QueuesOwn'
    BY <1>1 DEF PassInv, QueuesOwn, queueVars
<1>5. SearchOwn'
    BY <1>1 DEF PassInv, SearchOwn
<1>6. AnalysisFits'
    BY <1>1, <1>2 DEF PassInv, AnalysisFits, analysisVars
<1>7. SinkKept'
    BY <1>1 DEF PassInv, SinkKept
<1> QED BY <1>1, <1>3, <1>4, <1>5, <1>6, <1>7 DEF PassInv

(* replicate keeps it.                                                     *)
LEMMA ReplicateKeeps ==
    ASSUME PassInv, Replicate
    PROVE  PassInv'
<1>1. /\ stage = "search" /\ stage' = "wire"
      /\ UNCHANGED <<analysisVars, queueVars, autoidx, errorSink, id, outputNode,
                     frontier, visited, cone, inputNodes, voterCutPoint, first, fixVars>>
      /\ replicated' \subseteq ToReplicate
    BY DEF Replicate
<1>2. NetStep
    BY EveryStepIsNetStep DEF Next
<1>3. ToReplicate \subseteq Own
    BY <1>1, OwnReplicated DEF PassInv
<1>4. ReplicasReady'
  <2>1. IsGood(netlist) /\ id \in Nat
      BY DEF PassInv, ControlInv
  <2>2. \A c \in replicated' \cap Cells :
            /\ c \in DOMAIN netlist'.cells /\ netlist'.cells[c].cone = id'
            /\ \A r \in {1, 2} :
                  /\ Replica(c, r, id') \in DOMAIN netlist'.cells
                  /\ netlist'.cells[Replica(c, r, id')].outs = netlist'.cells[c].outs
      BY <1>3, <2>1, ReplicateNetStep
  <2> QED BY <2>2 DEF ReplicasReady
<1>5. autoidx' \in Nat
    BY <1>1 DEF PassInv, ControlInv
<1>6. fixTodo' \subseteq DOMAIN netlist'.wires
    BY <1>1, <1>2 DEF PassInv, AnalysisFits, NetStep, fixVars
<1>7. replicated' \subseteq Own
    BY <1>1, <1>3
<1> QED BY <1>1, <1>2, <1>4, <1>5, <1>6, <1>7, NetChangeKeeps

(* insertVoter keeps it.                                                   *)
LEMMA InsertVoterKeeps ==
    ASSUME PassInv, InsertVoter
    PROVE  PassInv'
<1>1. /\ stage = "wire" /\ stage' = "fix" /\ autoidx' = autoidx + 5
      /\ fixTodo' = Candidates(netlist', fixConnections')
      /\ UNCHANGED <<analysisVars, queueVars, errorSink, coneVars>>
    BY DEF InsertVoter
<1>2. NetStep
    BY EveryStepIsNetStep DEF Next
<1>3. ReplicasReady'
    BY <1>1 DEF ReplicasReady
<1>4. autoidx' \in Nat /\ replicated' \subseteq Own
    BY <1>1 DEF PassInv, ControlInv, SearchOwn, coneVars
<1>5. fixTodo' \subseteq DOMAIN netlist'.wires
    BY <1>1 DEF Candidates
<1>6. UNCHANGED <<analysisVars, queueVars, errorSink, id, outputNode, frontier,
                  visited, cone, inputNodes, voterCutPoint, first>>
    BY <1>1 DEF coneVars
<1> QED BY <1>1, <1>2, <1>3, <1>4, <1>5, <1>6, NetChangeKeeps

(* The fixer keeps it.                                                     *)
LEMMA RewireKeeps ==
    ASSUME PassInv, Rewire
    PROVE  PassInv'
<1>1. /\ stage = "fix" /\ stage' = "fix" /\ autoidx' = autoidx + 2
      /\ UNCHANGED <<analysisVars, queueVars, errorSink, coneVars>>
    BY DEF Rewire
<1>2. NetStep
    BY EveryStepIsNetStep DEF Next
<1>3. ReplicasReady'
    BY <1>1 DEF ReplicasReady
<1>4. autoidx' \in Nat /\ replicated' \subseteq Own
    BY <1>1 DEF PassInv, ControlInv, SearchOwn, coneVars
<1>5. fixTodo' \subseteq DOMAIN netlist'.wires
    BY RewireNetStep DEF PassInv, ControlInv, AnalysisFits
<1>6. UNCHANGED <<analysisVars, queueVars, errorSink, id, outputNode, frontier,
                  visited, cone, inputNodes, voterCutPoint, first>>
    BY <1>1 DEF coneVars
<1> QED BY <1>1, <1>2, <1>3, <1>4, <1>5, <1>6, NetChangeKeeps

(* Connecting the sink keeps it.                                           *)
LEMMA FinaliseKeeps ==
    ASSUME PassInv, Finalise
    PROVE  PassInv'
<1>1. /\ stage = "next" /\ stage' = "done" /\ autoidx' = autoidx + 1
      /\ UNCHANGED <<analysisVars, queueVars, errorSink, coneVars, fixVars>>
    BY DEF Finalise, Finished
<1>2. NetStep
    BY EveryStepIsNetStep DEF Next
<1>3. ReplicasReady'
    BY <1>1 DEF ReplicasReady
<1>4. autoidx' \in Nat /\ replicated' \subseteq Own
    BY <1>1 DEF PassInv, ControlInv, SearchOwn, coneVars
<1>5. fixTodo' \subseteq DOMAIN netlist'.wires
    BY <1>1, <1>2 DEF PassInv, AnalysisFits, NetStep, fixVars
<1>6. UNCHANGED <<analysisVars, queueVars, errorSink, id, outputNode, frontier,
                  visited, cone, inputNodes, voterCutPoint, first>>
    BY <1>1 DEF coneVars
<1> QED BY <1>1, <1>2, <1>3, <1>4, <1>5, <1>6, NetChangeKeeps

(* What buildSuccessors finds: nodes of the design, each new and once.     *)
LEMMA FoundFacts ==
    ASSUME AnalysisFits, inputNodes \in Seq(Own \cap (FFs \cup InPorts \cup OutPorts)),
           NEW S, S = {n \in Range(inputNodes) : IsSuccessor(n)},
           NEW found \in CS!Orderings(S)
    PROVE  /\ found \in Seq(Own \cap (FFs \cup OutPorts))
           /\ Range(found) \cap explored = {}
           /\ NoRepeats(found)
<1>1. S \subseteq Own \cap (FFs \cup OutPorts)
  <2>1. Range(inputNodes) \subseteq Own \cap (FFs \cup InPorts \cup OutPorts)
      BY DEF Range
  <2> QED BY <2>1 DEF IsSuccessor, AnalysisFits, IsAnalysisOf
<1>2. IsFiniteSet(S)
  <2>1. S \subseteq Own
      BY <1>1
  <2> QED BY <2>1, OwnIsFinite, FS_Subset
<1>3. found \in Seq(S) /\ Range(found) = S /\ NoRepeats(found)
    BY <1>2, OrderingFacts
<1>4. S \cap explored = {}
    BY DEF IsSuccessor
<1> QED BY <1>1, <1>3, <1>4

(* buildSuccessors queues roots of the design, which keeps it.             *)
LEMMA BuildSuccessorsKeeps ==
    ASSUME PassInv, BuildSuccessors
    PROVE  PassInv'
<1> DEFINE S == {n \in Range(inputNodes) : IsSuccessor(n)}
           Queued == [root : Own \cap (FFs \cup OutPorts), id : Nat]
<1>1. PICK found \in CS!Orderings(S) :
          /\ successors' = successors \o
                 [k \in DOMAIN found |-> [root |-> found[k], id |-> nextID + k - 1]]
          /\ explored' = explored \cup Range(found)
          /\ nextID' = nextID + Len(found)
    BY DEF BuildSuccessors
<1>2. /\ stage = "expand" /\ stage' = "next"
      /\ UNCHANGED <<netlist, analysisVars, outputs, autoidx, errorSink, coneVars, fixVars>>
    BY DEF BuildSuccessors
<1>3. found \in Seq(Own \cap (FFs \cup OutPorts))
    BY FoundFacts DEF PassInv, SearchOwn
<1>4. Own' = Own /\ Sinks' = Sinks /\ CellOutputsFit' = CellOutputsFit
    BY <1>2 DEF Own, Sinks, CellOutputsFit, analysisVars
<1>5. /\ Len(found) \in Nat /\ DOMAIN found = 1..Len(found)
      /\ \A k \in DOMAIN found : found[k] \in Own \cap (FFs \cup OutPorts)
      /\ nextID \in Nat
    BY <1>3 DEF PassInv, ControlInv
<1>6. successors' \in Seq(Queued)
  <2> DEFINE new == [k \in DOMAIN found |-> [root |-> found[k], id |-> nextID + k - 1]]
  <2>1. new \in [1..Len(found) -> Queued]
    <3>1. \A k \in DOMAIN found : [root |-> found[k], id |-> nextID + k - 1] \in Queued
        BY <1>5
    <3> QED BY <1>5, <3>1
  <2>2. successors \in Seq(Queued) /\ successors' = successors \o new
      BY <1>1 DEF PassInv, QueuesOwn
  <2> HIDE DEF new, Queued
  <2>3. new \in Seq(Queued)
      BY <1>5, <2>1, FunctionIsSeq
  <2> QED BY <2>2, <2>3, ConcatProperties
<1>7. IsGood(netlist)' /\ ControlInv'
  <2>1. explored' \subseteq FFs \cup OutPorts
      BY <1>1, <1>5 DEF PassInv, ControlInv, Range
  <2> QED BY <1>1, <1>2, <1>5, <2>1 DEF PassInv, ControlInv, Stages, coneVars
<1>8. QueuesOwn'
    BY <1>2, <1>4, <1>6 DEF PassInv, QueuesOwn
<1>9. SearchOwn'
    BY <1>2, <1>4 DEF PassInv, SearchOwn, coneVars
<1>10. AnalysisFits'
    BY <1>2, <1>4 DEF PassInv, AnalysisFits, analysisVars, fixVars
<1>11. SinkKept' /\ ReplicasReady'
    BY <1>2, <1>4 DEF PassInv, SinkKept, ReplicasReady
<1> QED BY <1>7, <1>8, <1>9, <1>10, <1>11 DEF PassInv

(* The invariant is inductive.                                             *)
LEMMA PassStep ==
    ASSUME PassInv, [Next]_vars
    PROVE  PassInv'
<1>1. CASE UNCHANGED vars
  <2>1. /\ Own' = Own /\ Sinks' = Sinks /\ CellOutputsFit' = CellOutputsFit
        /\ IsGood(netlist)'
      BY <1>1 DEF vars, Own, Sinks, CellOutputsFit, analysisVars, PassInv
  <2>2. /\ ControlInv' /\ QueuesOwn'
      BY <1>1, <2>1 DEF vars, PassInv, ControlInv, QueuesOwn, queueVars, coneVars
  <2>3. SearchOwn' /\ AnalysisFits'
      BY <1>1, <2>1 DEF vars, PassInv, SearchOwn, AnalysisFits, coneVars, analysisVars, fixVars
  <2>4. SinkKept' /\ ReplicasReady'
      BY <1>1, <2>1 DEF vars, PassInv, SinkKept, ReplicasReady, coneVars
  <2> QED BY <2>1, <2>2, <2>3, <2>4 DEF PassInv
<1>2. CASE MovesOn
    BY <1>2, MovingOn
<1>3. CASE Next
  <2>1. CASE \/ DuplicateErrorSink \/ SkipEmptyCone \/ CutPointNotSet \/ CutPointNotReplicated
             \/ CannotSplice \/ CannotRewire \/ FixesDone \/ CannotFinalise \/ FinishWithoutSink
    <3>1. MovesOn
        BY <2>1 DEF MovesOn, Stages, DuplicateErrorSink, SkipEmptyCone, CutPointNotSet,
              CutPointNotReplicated, CannotSplice, CannotRewire, FixesDone, CannotFinalise,
              FinishWithoutSink, Finished, Fail, fixVars
    <3> QED BY <1>2, <3>1
  <2>2. CASE \/ Prepare \/ SkipErrorSink \/ BeginOutput \/ BeginSuccessor \/ Search
             \/ Replicate \/ InsertVoter \/ Rewire \/ BuildSuccessors \/ Finalise
      BY <2>2, PrepareKeeps, SkipErrorSinkKeeps, BeginOutputKeeps, BeginSuccessorKeeps,
         SearchKeeps, ReplicateKeeps, InsertVoterKeeps, RewireKeeps, BuildSuccessorsKeeps,
         FinaliseKeeps
  <2> QED BY <1>3, <2>1, <2>2 DEF Next
<1> QED BY <1>1, <1>3

(* The names in a good netlist, by their length.                           *)
LEMMA NamesByLength ==
    ASSUME NEW names, names \subseteq Names, NEW objs, PairsIn(objs, names),
           NEW x \in DOMAIN objs
    PROVE  /\ Len(x) = 1 => x \in names
           /\ Len(x) = 3 => \E y \in names, r \in {1, 2}, i \in Nat :
                               x = Replica(y, r, i) /\ OriginalOf(x) = y
<1>1. CASE x \in names
    BY <1>1, NameAssumption DEF Names
<1>2. CASE x \in Generated
    BY <1>2, GeneratedNames
<1>3. CASE \E y \in names, r \in {1, 2}, i \in Nat : x = Replica(y, r, i)
  <2>1. PICK y \in names, r \in {1, 2}, i \in Nat : x = Replica(y, r, i)
      BY <1>3
  <2>2. Len(x) = 3 /\ OriginalOf(x) = y
      BY <2>1, ReplicaNames
  <2> QED BY <2>1, <2>2
<1> QED BY <1>1, <1>2, <1>3 DEF PairsIn

(* Names of cells and of wires are told apart, replicas included.          *)
LEMMA CellsAreNotWires ==
    ASSUME NEW names, names \subseteq Names, NEW names2, names2 \subseteq Names,
           names \cap names2 = {},
           NEW a, NEW b, PairsIn(a, names), PairsIn(b, names2),
           NEW x \in DOMAIN a, x \notin Generated
    PROVE  x \notin DOMAIN b
<1>1. CASE x \in names
  <2>1. \A y \in names2, r \in {1, 2}, i \in Nat : x # Replica(y, r, i)
      BY <1>1, ReplicaNames
  <2> QED BY <1>1, <2>1 DEF PairsIn
<1>2. CASE \E y \in names, r \in {1, 2}, i \in Nat : x = Replica(y, r, i)
  <2>1. PICK y \in names, r \in {1, 2}, i \in Nat : x = Replica(y, r, i)
      BY <1>2
  <2>2. x \notin names2
      BY <2>1, ReplicaNames
  <2>3. \A z \in names2, q \in {1, 2}, j \in Nat : x # Replica(z, q, j)
      BY <2>1, ReplicaInjective
  <2> QED BY <2>2, <2>3 DEF PairsIn
<1> QED BY <1>1, <1>2 DEF PairsIn

(* R holds what ReplicaPairs demands for the object x of objs.             *)
PairOf(objs, x, R) ==
    /\ objs[x].original => /\ R = {Replica(x, r, objs[x].cone) : r \in {1, 2}}
                           /\ \A y \in R : y \in DOMAIN objs /\ objs[y].cone = objs[x].cone
    /\ ~objs[x].original => R = {} /\ objs[x].cone = NoCone

(* The objects in D that are named as replicas of x.                       *)
ReplicasAmong(D, x) == {y \in D : Len(y) = 3 /\ OriginalOf(y) = x}

(* PairsIn in the words of ReplicaPairs, for cells or wires (a, with names *)
(* of its own) among cells and wires.                                      *)
LEMMA ReplicasInPair ==
    ASSUME NEW names, names \subseteq Names, NEW names2, names2 \subseteq Names,
           names \cap names2 = {},
           NEW a, NEW b, PairsIn(a, names), PairsIn(b, names2),
           \A y \in DOMAIN a : a[y].cone \in Nat \cup {NoCone},
           NEW x \in DOMAIN a, Len(x) = 1
    PROVE  PairOf(a, x, ReplicasAmong(DOMAIN a \cup DOMAIN b, x))
<1> DEFINE R == ReplicasAmong(DOMAIN a \cup DOMAIN b, x)
<1>1. x \in names
    BY NamesByLength
<1>2. ASSUME NEW y \in R
      PROVE  /\ y \in DOMAIN a /\ a[x].cone \in Nat /\ a[y].cone = a[x].cone
             /\ \E r \in {1, 2} : y = Replica(x, r, a[x].cone)
  <2>0. Len(y) = 3 /\ OriginalOf(y) = x /\ y \in DOMAIN a \cup DOMAIN b
      BY DEF ReplicasAmong
  <2> HIDE DEF R
  <2>1. CASE y \in DOMAIN b
    <3>1. \E z \in names2, r \in {1, 2}, i \in Nat : y = Replica(z, r, i) /\ OriginalOf(y) = z
        BY <2>0, <2>1, NamesByLength
    <3> QED BY <1>1, <2>0, <3>1
  <2>2. CASE y \in DOMAIN a
    <3>1. \E z \in names, r \in {1, 2}, i \in Nat : y = Replica(z, r, i) /\ OriginalOf(y) = z
        BY <2>0, <2>2, NamesByLength
    <3>2. PICK r \in {1, 2}, i \in Nat : y = Replica(x, r, i)
        BY <2>0, <3>1
    <3>3. a[x].cone = i /\ a[y].cone = i
        BY <1>1, <2>2, <3>2 DEF PairsIn
    <3> QED BY <2>2, <3>2, <3>3
  <2> QED BY <2>0, <2>1, <2>2
<1>3. ASSUME a[x].cone \in Nat, NEW r \in {1, 2}
      PROVE  Replica(x, r, a[x].cone) \in R
  <2>1. Replica(x, r, a[x].cone) \in DOMAIN a
      BY <1>1, <1>3 DEF PairsIn
  <2>2. Len(Replica(x, r, a[x].cone)) = 3 /\ OriginalOf(Replica(x, r, a[x].cone)) = x
      BY <1>1, <1>3, ReplicaNames
  <2> QED BY <2>1, <2>2 DEF ReplicasAmong
<1>4. a[x].original <=> a[x].cone # NoCone
    BY <1>1 DEF PairsIn
<1> HIDE DEF R
<1>5. PairOf(a, x, R)
    BY <1>2, <1>3, <1>4, NoConeAssumption DEF PairOf
<1> QED BY <1>5 DEF R

(* A good netlist has replicas in pairs.                                   *)
LEMMA GoodHasPairs ==
    ASSUME IsGood(netlist)
    PROVE  ReplicaPairs
<1> DEFINE cells == netlist.cells
           wires == netlist.wires
           objs == Objects(netlist)
           D == DOMAIN cells \cup DOMAIN wires
<1>1. /\ PairsIn(cells, Cells) /\ PairsIn(wires, Wires)
      /\ Cells \subseteq Names /\ Wires \subseteq Names /\ Cells \cap Wires = {}
    BY NameAssumption DEF IsGood, Names
<1>2. /\ \A y \in DOMAIN cells : cells[y].cone \in Nat \cup {NoCone}
      /\ \A y \in DOMAIN wires : wires[y].cone \in Nat \cup {NoCone}
    BY DEF IsGood, IsNetlist, CellRecords, WireRecords
<1>3. /\ DOMAIN objs = D
      /\ \A y \in DOMAIN cells : objs[y] = cells[y]
      /\ \A y \in DOMAIN wires \ DOMAIN cells : objs[y] = wires[y]
    BY DEF Objects
<1> HIDE DEF cells, wires, objs
<1>4. ASSUME NEW x \in D, Len(x) = 1
      PROVE  IF objs[x].original
             THEN /\ ReplicasAmong(D, x) = {Replica(x, r, objs[x].cone) : r \in {1, 2}}
                  /\ \A y \in ReplicasAmong(D, x) : objs[y].cone = objs[x].cone
             ELSE ReplicasAmong(D, x) = {} /\ objs[x].cone = NoCone
  <2>1. CASE x \in DOMAIN cells
    <3>1. PairOf(cells, x, ReplicasAmong(D, x))
        BY <1>1, <1>2, <1>4, <2>1, ReplicasInPair
    <3> QED BY <1>3, <2>1, <3>1 DEF PairOf
  <2>2. CASE x \in DOMAIN wires
    <3>1. PairOf(wires, x, ReplicasAmong(D, x))
      <4>1. D = DOMAIN wires \cup DOMAIN cells
          OBVIOUS
      <4> HIDE DEF D
      <4>2. PairOf(wires, x, ReplicasAmong(DOMAIN wires \cup DOMAIN cells, x))
          BY <1>1, <1>2, <1>4, <2>2, ReplicasInPair
      <4> QED BY <4>1, <4>2
    <3>2. \A y \in DOMAIN wires : Len(y) \in {1, 3} => y \notin DOMAIN cells
      <4>1. \A y \in Generated : Len(y) = 2
          BY GeneratedNames
      <4> QED BY <1>1, <4>1, CellsAreNotWires
    <3> QED BY <1>3, <1>4, <2>2, <3>1, <3>2 DEF PairOf, ReplicasAmong
  <2> QED BY <2>1, <2>2
<1> QED BY <1>3, <1>4 DEF ReplicaPairs, objs, ReplicasAmong

(* The invariant has everything in its type.                               *)
LEMMA InvIsTyped ==
    ASSUME PassInv
    PROVE  TypeOK
<1>1. Own \subseteq Cells \cup Wires
    BY DEF Own
<1>2. successors \in Seq([root : FFs \cup InPorts \cup OutPorts, id : Nat])
  <2> DEFINE S == [root : Own \cap (FFs \cup OutPorts), id : Nat]
             T == [root : FFs \cup InPorts \cup OutPorts, id : Nat]
  <2>1. S \subseteq T /\ successors \in Seq(S)
      BY DEF PassInv, QueuesOwn
  <2> HIDE DEF S, T
  <2>2. successors \in Seq(T)
      BY <2>1
  <2> QED BY <2>2 DEF T
<1>3. CS!LC!IsConnectionMap(connections)
    BY <1>1 DEF PassInv, AnalysisFits, IsAnalysisOf, CS!LC!IsConnectionMap, CS!LC!Objects
<1>4. /\ stage \in Stages
      /\ outputs \subseteq OutPorts
      /\ explored \subseteq FFs \cup InPorts \cup OutPorts
      /\ {nextID, autoidx, id} \subseteq Nat
      /\ errorSink \in Wires \cup {None}
      /\ outputNode \in OutPorts \cup FFs \cup {None}
      /\ replicated \subseteq Cells \cup Wires
      /\ fixTodo \subseteq DOMAIN netlist.wires
    BY <1>1 DEF PassInv, ControlInv, QueuesOwn, SearchOwn, AnalysisFits, SinkKept
<1> QED BY <1>2, <1>3, <1>4 DEF TypeOK

(* What a step may not do, as FirstConeWins and OriginalsKeepInputs have   *)
(* it, follows from NetStep alone.                                         *)
LEMMA ConesKept ==
    ASSUME IsGood(netlist), NetStep,
           NEW x \in DOMAIN Objects(netlist), Objects(netlist)[x].cone # NoCone
    PROVE  Objects(netlist)'[x].cone = Objects(netlist)[x].cone
<1>1. /\ DOMAIN Objects(netlist) = DOMAIN netlist.cells \cup DOMAIN netlist.wires
      /\ \A y \in DOMAIN netlist.cells : Objects(netlist)[y] = netlist.cells[y]
      /\ \A y \in DOMAIN netlist.wires \ DOMAIN netlist.cells :
            Objects(netlist)[y] = netlist.wires[y]
    BY DEF Objects
<1>2. /\ \A y \in DOMAIN netlist'.cells : Objects(netlist)'[y] = netlist'.cells[y]
      /\ \A y \in DOMAIN netlist'.wires \ DOMAIN netlist'.cells :
            Objects(netlist)'[y] = netlist'.wires[y]
    BY DEF Objects
<1>3. CASE x \in DOMAIN netlist.cells
    BY <1>1, <1>2, <1>3 DEF NetStep
<1>4. CASE x \in DOMAIN netlist.wires \ DOMAIN netlist.cells
  <2>1. netlist.wires[x].cone # NoCone
      BY <1>1, <1>4
  <2>2. x \notin Generated
      BY <1>4, <2>1 DEF IsGood, PairsIn
  <2>3. x \in DOMAIN netlist'.wires /\ netlist'.wires[x].cone = netlist.wires[x].cone
      BY <1>4, <2>1 DEF NetStep
  <2>4. x \notin DOMAIN netlist'.cells
    <3>1. /\ PairsIn(netlist'.cells, Cells) /\ PairsIn(netlist'.wires, Wires)
          /\ Cells \subseteq Names /\ Wires \subseteq Names /\ Wires \cap Cells = {}
        BY NameAssumption DEF NetStep, IsGood, Names
    <3> QED BY <2>2, <2>3, <3>1, CellsAreNotWires
  <2> QED BY <1>1, <1>2, <1>4, <2>3, <2>4
<1> QED BY <1>1, <1>3, <1>4

(* The inputs of a design's cell stay.                                     *)
LEMMA InputsKept ==
    ASSUME IsGood(netlist), NetStep, NEW c \in DOMAIN netlist.cells, Len(c) = 1
    PROVE  netlist'.cells[c].ins = netlist.cells[c].ins
<1>1. c \in Cells
  <2>1. PairsIn(netlist.cells, Cells) /\ Cells \subseteq Names
      BY DEF IsGood, Names
  <2> QED BY <2>1, NamesByLength
<1> QED BY <1>1 DEF NetStep

-----------------------------------------------------------------------------

(* The inductive invariant holds.                                          *)
THEOREM PassInvariant == Spec => []PassInv
<1>1. Init => PassInv
    BY PassInit
<1>2. PassInv /\ [Next]_vars => PassInv'
    BY PassStep
<1> QED BY <1>1, <1>2, PTL DEF Spec

(* Control, queues and bookkeeping stay in their types.                    *)
THEOREM TypeCorrect == Spec => []TypeOK
<1>1. PassInv => TypeOK
    BY InvIsTyped
<1> QED BY <1>1, PassInvariant, PTL

(* Replication is triple, on every design and however its cones overlap.   *)
THEOREM ReplicasComeInPairs == Spec => []ReplicaPairs
<1>1. PassInv => ReplicaPairs
    BY GoodHasPairs DEF PassInv
<1> QED BY <1>1, PassInvariant, PTL

(* An object stays with the first cone that replicated it.                 *)
THEOREM FirstConeKeepsIt == Spec => FirstConeWins
<1>1. PassInv /\ [Next]_vars =>
        [Running =>
          \A x \in DOMAIN Objects(netlist) :
             Objects(netlist)[x].cone # NoCone =>
                Objects(netlist)'[x].cone = Objects(netlist)[x].cone]_vars
    BY EveryStepIsNetStep, ConesKept DEF PassInv
<1> QED BY <1>1, PassInvariant, PTL DEF Spec, FirstConeWins

(* What the user's own cells read is never rewired.                        *)
THEOREM OriginalInputsStay == Spec => OriginalsKeepInputs
<1>1. PassInv /\ [Next]_vars =>
        [Running =>
          \A c \in DOMAIN netlist.cells :
             Len(c) = 1 => netlist'.cells[c].ins = netlist.cells[c].ins]_vars
    BY EveryStepIsNetStep, InputsKept DEF PassInv
<1> QED BY <1>1, PassInvariant, PTL DEF Spec, OriginalsKeepInputs
=============================================================================
