-------------------------- MODULE ConeSearchProofs --------------------------
(***************************************************************************)
(* Proofs about LogicCone::search for every netlist, of any finite size,   *)
(* and every order of the hash sets.                                       *)
(*                                                                         *)
(* What the search visits: the names visited are always contained in every *)
(* set that is closed under the search (Sound), and whatever has been      *)
(* visited is still queued, already in the cone with all its neighbours    *)
(* visited, or a terminal (Accounted).  So when the queue is empty the     *)
(* visited names are themselves closed, hence the least closed set.        *)
(*                                                                         *)
(* In which order: LogicCone counts distances by a recursive function;     *)
(* here an object lies within a distance if a path of that length leads to *)
(* it, and the two are shown to agree.  The queue then always holds, for   *)
(* some distance k, objects at distance k followed by objects at distance  *)
(* k + 1, and all that is nearer has been considered.  So the first cell   *)
(* considered is a nearest one, and a finished search is a step of         *)
(* LogicCone.                                                              *)
(***************************************************************************)
EXTENDS ConeSearch, SequenceLemmas

(* The order in which a node's new neighbours are pushed lists each once.  *)
LEMMA OrderingFacts ==
    ASSUME NEW T, T \subseteq Objects, NEW s \in Orderings(T)
    PROVE  /\ s \in Seq(Objects)
           /\ Range(s) = T
           /\ NoRepeats(s)
<1>1. IsFiniteSet(T)
    BY ObjectAssumption, FS_Subset
<1>2. s \in [1..Cardinality(T) -> T] /\ Range(s) = T
    BY DEF Orderings
<1>3. s \in Seq(T) /\ NoRepeats(s)
    BY <1>1, <1>2, ListingFacts
<1> QED BY <1>2, <1>3

-----------------------------------------------------------------------------
(* The netlist only ever leads to objects, so the queue stays in type.     *)

LEMMA NeighboursAreObjects ==
    ASSUME LC!IsConnectionMap(connections), NEW n
    PROVE  Neighbours(n) \subseteq Objects
BY DEF LC!IsConnectionMap, Neighbours, LC!Neighbours, Objects

(* What one PushNeighbours does to the queue and the visited names.        *)
LEMMA PushFacts ==
    ASSUME LC!IsConnectionMap(connections), visited \subseteq Objects,
           frontier \in Seq(Objects), frontier # <<>>,
           NEW node, PushNeighbours(node)
    PROVE  /\ frontier' \in Seq(Objects)
           /\ Range(frontier') = Range(Tail(frontier)) \cup (Neighbours(node) \ visited)
           /\ visited' = visited \cup Neighbours(node)
           /\ visited' \subseteq Objects
           /\ NoRepeats(frontier) /\ Range(Tail(frontier)) \subseteq visited
                 => NoRepeats(frontier')
<1>1. Neighbours(node) \subseteq Objects
    BY NeighboursAreObjects
<1>2. PICK order \in Orderings(Neighbours(node) \ visited) :
            /\ frontier' = Tail(frontier) \o order
            /\ visited' = visited \cup Neighbours(node)
    BY DEF PushNeighbours
<1>3. /\ order \in Seq(Objects)
      /\ Range(order) = Neighbours(node) \ visited
      /\ NoRepeats(order)
    BY <1>1, OrderingFacts
<1>4. Tail(frontier) \in Seq(Objects)
    BY PopRange
<1>5. /\ frontier' \in Seq(Objects)
      /\ Range(frontier') = Range(Tail(frontier)) \cup Range(order)
  <2>1. Tail(frontier) \o order \in Seq(Objects)
      BY <1>3, <1>4, ConcatProperties
  <2>2. Range(Tail(frontier) \o order) = Range(Tail(frontier)) \cup Range(order)
    <3>1. \A s, t \in Seq(Objects) : Range(s \o t) = Range(s) \cup Range(t)
        BY RangeConcatenation
    <3> QED BY <1>3, <1>4, <3>1
  <2> QED BY <1>2, <2>1, <2>2
<1>6. ASSUME NoRepeats(frontier), Range(Tail(frontier)) \subseteq visited
      PROVE  NoRepeats(frontier')
  <2>1. NoRepeats(Tail(frontier))
      BY <1>6, PopNoRepeats
  <2>2. Range(Tail(frontier)) \cap Range(order) = {}
      BY <1>3, <1>6
  <2>3. NoRepeats(Tail(frontier) \o order)
      BY <1>3, <1>4, <2>1, <2>2, JoinNoRepeats
  <2> QED BY <1>2, <2>3
<1> QED BY <1>1, <1>2, <1>3, <1>5, <1>6

-----------------------------------------------------------------------------
(* Type correctness.                                                       *)

LEMMA TypeInit == Init => TypeOK
<1> SUFFICES ASSUME Init PROVE TypeOK
    OBVIOUS
<1>1. outputNode \in Objects
    BY ObjectAssumption DEF Init, LC!Roots, Objects, LC!Objects
<1>2. frontier \in Seq(Objects) /\ cone \in Seq(Objects) /\ inputNodes \in Seq(Objects)
    BY <1>1 DEF Init
<1>3. LC!IsConnectionMap(connections)
    BY NetlistAssumption DEF Init
<1> QED BY <1>2, <1>3 DEF Init, TypeOK

LEMMA TypeStep == TypeOK /\ [Next]_vars => TypeOK'
<1> SUFFICES ASSUME TypeOK, [Next]_vars PROVE TypeOK'
    OBVIOUS
<1> DEFINE node == Head(frontier)
<1>1. ASSUME Next PROVE node \in Objects /\ Tail(frontier) \in Seq(Objects)
    BY <1>1, PopRange DEF TypeOK, Next, ConsiderRoot, ConsiderElement, ConsiderTerminal
<1>2. ASSUME Next, WrapUp(node) PROVE inputNodes' \in Seq(Objects)
    BY <1>1, <1>2 DEF WrapUp, TypeOK
<1>3. ASSUME Next, SetCutPoint(node) PROVE voterCutPoint' \in Cells \cup {None}
    BY <1>3, ObjectAssumption DEF SetCutPoint, TypeOK, IsElementCell, IsFF, LC!IsFF
<1>4. CASE ConsiderRoot
  <2>1. frontier' \in Seq(Objects) /\ visited' \subseteq Objects
      BY <1>4, PushFacts DEF ConsiderRoot, TypeOK
  <2> QED BY <1>2, <1>4, <2>1 DEF Next, ConsiderRoot, TypeOK, LC!IsConnectionMap, LC!Roots
<1>5. CASE ConsiderElement
  <2>1. frontier' \in Seq(Objects) /\ visited' \subseteq Objects
      BY <1>5, PushFacts DEF ConsiderElement, TypeOK
  <2>2. cone' \in Seq(Objects)
      BY <1>1, <1>5 DEF Next, ConsiderElement, TypeOK
  <2> QED BY <1>2, <1>3, <1>5, <2>1, <2>2 DEF Next, ConsiderElement, TypeOK,
                                              LC!IsConnectionMap, LC!Roots
<1>6. CASE ConsiderTerminal
    BY <1>1, <1>2, <1>3, <1>6 DEF Next, ConsiderTerminal, TypeOK,
                                  LC!IsConnectionMap, LC!Roots
<1>7. CASE UNCHANGED vars
    BY <1>7 DEF vars, TypeOK, LC!IsConnectionMap, LC!Roots
<1> QED BY <1>4, <1>5, <1>6, <1>7 DEF Next

(* The search only ever queues, collects and chooses objects of the        *)
(* netlist, and a cut point is always a cell.                              *)
THEOREM TypeCorrect == Spec => []TypeOK
<1>1. Init => TypeOK
    BY TypeInit
<1>2. TypeOK /\ [Next]_vars => TypeOK'
    BY TypeStep
<1> QED BY <1>1, <1>2, PTL DEF Spec

-----------------------------------------------------------------------------
(* The inductive invariant.                                                *)

SearchInv ==
    /\ TypeOK
    /\ Sound
    /\ Accounted
    /\ ConsideredOnce
    /\ LastTerminalOnly

LEMMA SearchInvInit == Init => SearchInv
<1> SUFFICES ASSUME Init PROVE SearchInv
    OBVIOUS
<1>1. TypeOK
    BY TypeInit
<1>2. Sound /\ Accounted
    BY DEF Init, Sound, Accounted
<1>3. ConsideredOnce /\ LastTerminalOnly
    BY DEF Init, ConsideredOnce, LastTerminalOnly
<1> QED BY <1>1, <1>2, <1>3 DEF SearchInv

(* A visited name is in every closed set, so it is reached.                *)
LEMMA VisitedIsReached ==
    ASSUME TypeOK, Sound
    PROVE  visited \subseteq LC!Reached
BY DEF TypeOK, Sound, LC!Reached, Objects

(* The node about to be considered, once the root has been.                *)
LEMMA HeadFacts ==
    ASSUME SearchInv, ~first, frontier # <<>>
    PROVE  /\ Head(frontier) \in visited
           /\ Head(frontier) \in Objects
           /\ Tail(frontier) \in Seq(Objects)
           /\ Range(frontier) = {Head(frontier)} \cup Range(Tail(frontier))
           /\ Range(Tail(frontier)) \subseteq visited
           /\ NoRepeats(frontier)
           /\ NoRepeats(Tail(frontier))
           /\ Head(frontier) \notin Range(Tail(frontier))
           /\ Head(frontier) \notin Range(cone)
           /\ inputNodes = <<>>
<1>1. frontier \in Seq(Objects) /\ NoRepeats(frontier)
    BY DEF SearchInv, TypeOK, ConsideredOnce, NoRepeats
<1>2. /\ Head(frontier) \in Objects
      /\ Tail(frontier) \in Seq(Objects)
      /\ Range(frontier) = {Head(frontier)} \cup Range(Tail(frontier))
    BY <1>1, PopRange
<1>3. NoRepeats(Tail(frontier)) /\ Head(frontier) \notin Range(Tail(frontier))
    BY <1>1, PopNoRepeats
<1>4. Head(frontier) \in visited /\ Range(Tail(frontier)) \subseteq visited
    BY <1>2 DEF SearchInv, Accounted
<1>5. Head(frontier) \notin Range(cone)
    BY <1>2 DEF SearchInv, ConsideredOnce
<1>6. inputNodes = <<>>
    BY DEF SearchInv, LastTerminalOnly, Completed
<1> QED BY <1>1, <1>2, <1>3, <1>4, <1>5, <1>6

(* The search does not change the netlist it searches.                     *)
LEMMA NetlistUnchanged ==
    ASSUME UNCHANGED <<connections, outputNode>>
    PROVE  /\ Neighbours(outputNode)' = Neighbours(outputNode)
           /\ \A n : Neighbours(n)' = Neighbours(n)
           /\ \A n : ShouldAddNeighbours(n)' = ShouldAddNeighbours(n)
           /\ \A S : LC!IsClosed(S)' = LC!IsClosed(S)
           /\ LC!Reached' = LC!Reached
<1>1. /\ Neighbours(outputNode)' = Neighbours(outputNode)
      /\ \A n : Neighbours(n)' = Neighbours(n)
    BY DEF Neighbours, LC!Neighbours
<1>2. \A n : ShouldAddNeighbours(n)' = ShouldAddNeighbours(n)
    BY DEF ShouldAddNeighbours, IsIO, IsFF, LC!IsIO, LC!IsFF
<1>3. \A S : LC!IsClosed(S)' = LC!IsClosed(S)
    BY DEF LC!IsClosed, LC!IsTerminal, LC!IsIO, LC!IsFF, LC!Neighbours
<1>4. LC!Reached' = LC!Reached
    BY <1>3 DEF LC!Reached
<1> QED BY <1>1, <1>2, <1>3, <1>4

(* WrapUp keeps at most the one terminal that empties the queue.           *)
LEMMA WrapUpFacts ==
    ASSUME UNCHANGED <<connections, outputNode>>, inputNodes = <<>>,
           NEW node, WrapUp(node),
           \/ node \in LC!Reached
           \/ node = outputNode /\ (frontier' = <<>> => Neighbours(outputNode) = {})
    PROVE  LastTerminalOnly'
<1>1. CASE frontier' = <<>> /\ (IsIO(node) \/ IsFF(node))
  <2>1. inputNodes' = <<node>>
      BY <1>1 DEF WrapUp
  <2>2. Len(inputNodes') = 1 /\ inputNodes'[1] = node
      BY <2>1
  <2>3. ShouldAddNeighbours(node)' = FALSE
      BY <1>1, NetlistUnchanged DEF ShouldAddNeighbours
  <2> QED BY <1>1, <2>2, <2>3, NetlistUnchanged DEF LastTerminalOnly, Completed
<1>2. CASE ~(frontier' = <<>> /\ (IsIO(node) \/ IsFF(node)))
  <2>1. inputNodes' = <<>>
      BY <1>2 DEF WrapUp
  <2> QED BY <2>1 DEF LastTerminalOnly
<1> QED BY <1>1, <1>2

(* Considering the root queues exactly what lies behind it.                *)
LEMMA RootPushes ==
    ASSUME SearchInv, ConsiderRoot
    PROVE  /\ Range(frontier') = Neighbours(outputNode)
           /\ visited' = Neighbours(outputNode)
           /\ frontier' \in Seq(Objects)
           /\ NoRepeats(frontier')
<1>1. frontier = <<outputNode>> /\ visited = {}
    BY DEF SearchInv, Accounted, ConsiderRoot, TypeOK
<1>2. Range(Tail(frontier)) = {} /\ NoRepeats(frontier)
    BY <1>1 DEF Range, NoRepeats
<1>3. Head(frontier) = outputNode /\ PushNeighbours(outputNode) /\ frontier # <<>>
    BY <1>1 DEF ConsiderRoot
<1>4. /\ Range(frontier') = Range(Tail(frontier)) \cup (Neighbours(outputNode) \ visited)
      /\ visited' = visited \cup Neighbours(outputNode)
      /\ frontier' \in Seq(Objects)
      /\ NoRepeats(frontier')
    BY <1>2, <1>3, PushFacts DEF SearchInv, TypeOK
<1> QED BY <1>1, <1>2, <1>4

LEMMA RootStep == SearchInv /\ ConsiderRoot => SearchInv'
<1> SUFFICES ASSUME SearchInv, ConsiderRoot PROVE SearchInv'
    OBVIOUS
<1>1. /\ frontier = <<outputNode>> /\ visited = {} /\ cone = <<>> /\ inputNodes = <<>>
      /\ UNCHANGED <<connections, outputNode, cone>> /\ ~first'
    BY DEF SearchInv, Accounted, ConsiderRoot, TypeOK
<1>2. Head(frontier) = outputNode /\ Tail(frontier) = <<>>
    BY <1>1
<1>3. /\ Range(frontier') = Neighbours(outputNode)
      /\ visited' = Neighbours(outputNode)
      /\ NoRepeats(frontier')
    BY RootPushes
<1>4. TypeOK'
    BY TypeStep DEF SearchInv, Next
<1>5. Range(cone') = {}
    BY <1>1 DEF Range
<1>6. Sound'
    BY <1>1, <1>3, NetlistUnchanged DEF Sound, LC!IsClosed, Neighbours
<1>7. Accounted'
    BY <1>1, <1>3, <1>5, NetlistUnchanged DEF Accounted
<1>8. ConsideredOnce'
    BY <1>1, <1>3, <1>5 DEF ConsideredOnce, NoRepeats
<1>9. LastTerminalOnly'
  <2>1. frontier' = <<>> => Neighbours(outputNode) = {}
      BY <1>3 DEF Range
  <2>2. WrapUp(outputNode)
      BY <1>2 DEF ConsiderRoot
  <2> QED BY <1>1, <2>1, <2>2, WrapUpFacts
<1> QED BY <1>4, <1>6, <1>7, <1>8, <1>9 DEF SearchInv

LEMMA ElementStep == SearchInv /\ ConsiderElement => SearchInv'
<1> SUFFICES ASSUME SearchInv, ConsiderElement PROVE SearchInv'
    OBVIOUS
<1> DEFINE node == Head(frontier)
<1>1. /\ ~first /\ ~first' /\ frontier # <<>>
      /\ UNCHANGED <<connections, outputNode>>
      /\ ShouldAddNeighbours(node) /\ PushNeighbours(node)
      /\ cone' = Append(cone, node) /\ WrapUp(node)
    BY DEF ConsiderElement
<1>2. /\ node \in visited /\ node \in Objects
      /\ Range(frontier) = {node} \cup Range(Tail(frontier))
      /\ Range(Tail(frontier)) \subseteq visited
      /\ NoRepeats(frontier) /\ node \notin Range(Tail(frontier))
      /\ node \notin Range(cone) /\ inputNodes = <<>>
    BY <1>1, HeadFacts
<1>3. /\ Range(frontier') = Range(Tail(frontier)) \cup (Neighbours(node) \ visited)
      /\ visited' = visited \cup Neighbours(node)
      /\ NoRepeats(frontier')
    BY <1>1, <1>2, PushFacts DEF SearchInv, TypeOK
<1>4. Range(cone') = Range(cone) \cup {node} /\ NoRepeats(cone')
    BY <1>1, <1>2, AppendRange DEF SearchInv, TypeOK, ConsideredOnce, NoRepeats
<1>5. TypeOK'
    BY TypeStep DEF SearchInv, Next
<1>6. Sound'
  <2> SUFFICES ASSUME NEW S \in SUBSET Objects, LC!IsClosed(S)
               PROVE  visited' \subseteq S
      BY <1>1, NetlistUnchanged DEF Sound, Objects
  <2>1. node \in S
      BY <1>2 DEF SearchInv, Sound
  <2>2. Neighbours(node) \subseteq S
      BY <1>1, <2>1 DEF LC!IsClosed, LC!IsTerminal, ShouldAddNeighbours, IsIO, IsFF, Neighbours
  <2> QED BY <1>3, <2>2 DEF SearchInv, Sound
<1>7. Accounted'
  <2>1. Neighbours(outputNode) \subseteq visited'
      BY <1>1, <1>3 DEF SearchInv, Accounted
  <2>2. Range(frontier') \cup Range(cone') \subseteq visited'
      BY <1>1, <1>2, <1>3, <1>4 DEF SearchInv, Accounted
  <2>3. \A n \in visited' : n \in Range(frontier') \cup Range(cone') \/ ~ShouldAddNeighbours(n)
      BY <1>1, <1>2, <1>3, <1>4 DEF SearchInv, Accounted
  <2>4. \A n \in Range(cone') : ShouldAddNeighbours(n) /\ Neighbours(n) \subseteq visited'
      BY <1>1, <1>3, <1>4 DEF SearchInv, Accounted
  <2> QED BY <1>1, <2>1, <2>2, <2>3, <2>4, NetlistUnchanged DEF Accounted
<1>8. ConsideredOnce'
  <2>1. Range(cone) \cap Range(frontier) = {} /\ Range(cone) \subseteq visited
      BY <1>1 DEF SearchInv, ConsideredOnce, Accounted
  <2>2. Range(cone') \cap Range(frontier') = {}
      BY <1>2, <1>3, <1>4, <2>1
  <2> QED BY <1>3, <1>4, <2>2 DEF ConsideredOnce, NoRepeats
<1>9. LastTerminalOnly'
  <2>1. node \in LC!Reached
      BY <1>2, VisitedIsReached DEF SearchInv
  <2> QED BY <1>1, <1>2, <2>1, WrapUpFacts
<1> QED BY <1>5, <1>6, <1>7, <1>8, <1>9 DEF SearchInv

LEMMA TerminalStep == SearchInv /\ ConsiderTerminal => SearchInv'
<1> SUFFICES ASSUME SearchInv, ConsiderTerminal PROVE SearchInv'
    OBVIOUS
<1> DEFINE node == Head(frontier)
<1>1. /\ ~first /\ ~first' /\ frontier # <<>>
      /\ UNCHANGED <<connections, outputNode, visited, cone>>
      /\ ~ShouldAddNeighbours(node)
      /\ frontier' = Tail(frontier) /\ WrapUp(node)
    BY DEF ConsiderTerminal
<1>2. /\ node \in visited
      /\ Range(frontier) = {node} \cup Range(Tail(frontier))
      /\ NoRepeats(Tail(frontier))
      /\ inputNodes = <<>>
    BY <1>1, HeadFacts
<1>3. Range(frontier') = Range(Tail(frontier)) /\ Range(cone') = Range(cone)
    BY <1>1
<1>4. TypeOK'
    BY TypeStep DEF SearchInv, Next
<1>5. Sound'
    BY <1>1, NetlistUnchanged DEF SearchInv, Sound, Objects
<1>6. Accounted'
  <2>1. \A n \in visited : n \in Range(frontier') \cup Range(cone') \/ ~ShouldAddNeighbours(n)
      BY <1>1, <1>2, <1>3 DEF SearchInv, Accounted
  <2>2. /\ Neighbours(outputNode) \subseteq visited
        /\ Range(frontier') \cup Range(cone') \subseteq visited
        /\ \A n \in Range(cone') : ShouldAddNeighbours(n) /\ Neighbours(n) \subseteq visited
      BY <1>1, <1>2, <1>3 DEF SearchInv, Accounted
  <2> QED BY <1>1, <2>1, <2>2, NetlistUnchanged DEF Accounted
<1>7. ConsideredOnce'
  <2>1. Range(cone') \cap Range(frontier') = {}
      BY <1>1, <1>2, <1>3 DEF SearchInv, ConsideredOnce
  <2>2. NoRepeats(cone') /\ NoRepeats(frontier')
      BY <1>1, <1>2 DEF SearchInv, ConsideredOnce, NoRepeats
  <2> QED BY <2>1, <2>2 DEF ConsideredOnce, NoRepeats
<1>8. LastTerminalOnly'
  <2>1. node \in LC!Reached
      BY <1>2, VisitedIsReached DEF SearchInv
  <2> QED BY <1>1, <1>2, <2>1, WrapUpFacts
<1> QED BY <1>4, <1>5, <1>6, <1>7, <1>8 DEF SearchInv

LEMMA SearchInvStep == SearchInv /\ [Next]_vars => SearchInv'
<1> SUFFICES ASSUME SearchInv, UNCHANGED vars PROVE SearchInv'
    BY RootStep, ElementStep, TerminalStep DEF Next
<1>1. /\ UNCHANGED <<connections, outputNode>>
      /\ UNCHANGED <<frontier, visited, cone, inputNodes, first>>
    BY DEF vars
<1>2. TypeOK'
    BY TypeStep DEF SearchInv
<1>3. Sound'
    BY <1>1, NetlistUnchanged DEF SearchInv, Sound, Objects
<1>4. Accounted'
    BY <1>1, NetlistUnchanged DEF SearchInv, Accounted
<1>5. ConsideredOnce'
    BY <1>1 DEF SearchInv, ConsideredOnce
<1>6. LastTerminalOnly'
    BY <1>1, NetlistUnchanged DEF SearchInv, LastTerminalOnly, Completed
<1> QED BY <1>2, <1>3, <1>4, <1>5, <1>6 DEF SearchInv

LEMMA SearchInvAlways == Spec => []SearchInv
BY SearchInvInit, SearchInvStep, PTL DEF Spec

-----------------------------------------------------------------------------
(* An empty queue leaves the visited names closed, hence all of Reached.   *)
LEMMA CompletedVisited ==
    ASSUME SearchInv, Completed
    PROVE  /\ ~first
           /\ visited = LC!Reached
           /\ \A n \in visited : ShouldAddNeighbours(n) => n \in Range(cone)
<1>1. ~first
    BY DEF SearchInv, Accounted, Completed
<1>2. Range(frontier) = {}
    BY DEF Completed, Range
<1>3. visited \subseteq Objects
    BY DEF SearchInv, TypeOK
<1>4. \A n \in visited : ShouldAddNeighbours(n) => n \in Range(cone)
    BY <1>1, <1>2 DEF SearchInv, Accounted
<1>5. LC!IsClosed(visited)
  <2>1. Neighbours(outputNode) \subseteq visited
      BY <1>1 DEF SearchInv, Accounted
  <2>2. \A n \in visited : ShouldAddNeighbours(n) => Neighbours(n) \subseteq visited
      BY <1>1, <1>4 DEF SearchInv, Accounted
  <2> QED BY <2>1, <2>2 DEF LC!IsClosed, LC!IsTerminal, ShouldAddNeighbours,
                             IsIO, IsFF, Neighbours
<1>6. LC!Reached \subseteq visited
    BY <1>3, <1>5 DEF LC!Reached, Objects
<1>7. visited \subseteq LC!Reached
    BY VisitedIsReached DEF SearchInv
<1> QED BY <1>1, <1>4, <1>6, <1>7

LEMMA CompletedIsExact == SearchInv => SearchExact
<1> SUFFICES ASSUME SearchInv, Completed PROVE Range(cone) = LC!ConeMembers
    BY DEF SearchExact
<1>1. /\ ~first /\ visited = LC!Reached
      /\ \A n \in visited : ShouldAddNeighbours(n) => n \in Range(cone)
    BY CompletedVisited
<1>2. \A n \in Range(cone) : n \in visited /\ ShouldAddNeighbours(n)
    BY <1>1 DEF SearchInv, Accounted
<1>3. \A n : ShouldAddNeighbours(n) <=> ~LC!IsTerminal(n)
    BY DEF ShouldAddNeighbours, LC!IsTerminal, IsIO, IsFF
<1> QED BY <1>1, <1>2, <1>3 DEF LC!ConeMembers

(* Whatever the netlist and the hash order, a finished search has          *)
(* collected exactly the elements between the root and its terminals.      *)
THEOREM SearchFindsTheCone == Spec => []SearchExact
BY SearchInvAlways, CompletedIsExact, PTL

(* No object is collected twice, so LogicCone::replicate copies each once. *)
THEOREM SearchConsidersOnce == Spec => []ConsideredOnce
<1>1. SearchInv => ConsideredOnce
    BY DEF SearchInv
<1> QED BY <1>1, SearchInvAlways, PTL

(* However many terminals lie behind the root, buildSuccessors is given at *)
(* most the last one.                                                      *)
THEOREM SearchKeepsLastTerminal == Spec => []LastTerminalOnly
<1>1. SearchInv => LastTerminalOnly
    BY DEF SearchInv
<1> QED BY <1>1, SearchInvAlways, PTL

(* The search never leaves the cone: whatever it has visited lies in every *)
(* set that is closed under "what lies behind", up to the terminals.       *)
THEOREM SearchStaysInCone == Spec => []Sound
<1>1. SearchInv => Sound
    BY DEF SearchInv
<1> QED BY <1>1, SearchInvAlways, PTL

(* The search forgets nothing: at any time what it has visited is queued,  *)
(* collected with all it reads visited, or a terminal.                     *)
THEOREM SearchForgetsNothing == Spec => []Accounted
<1>1. SearchInv => Accounted
    BY DEF SearchInv
<1> QED BY <1>1, SearchInvAlways, PTL

-----------------------------------------------------------------------------
(* The order of the search.                                                *)

(* p leads in m steps from a neighbour of the root, through objects that   *)
(* are expanded.                                                           *)
IsPath(p, m) ==
    /\ p[0] \in Neighbours(outputNode)
    /\ \A j \in 0..(m - 1) : ShouldAddNeighbours(p[j]) /\ p[j + 1] \in Neighbours(p[j])

(* The objects at most n steps behind the root's neighbours.               *)
Ball(n) ==
    {x \in Objects : \E m \in 0..n : \E p \in [0..m -> Objects] :
                         IsPath(p, m) /\ p[m] = x}

(* What lies behind the objects of S.                                      *)
BehindAll(S) == UNION {Neighbours(x) : x \in {y \in S : ShouldAddNeighbours(y)}}

-----------------------------------------------------------------------------
LEMMA BallGrows ==
    ASSUME NEW a \in Nat, NEW b \in Nat, a <= b
    PROVE  Ball(a) \subseteq Ball(b)
<1>1. 0..a \subseteq 0..b
    OBVIOUS
<1> QED BY <1>1 DEF Ball

LEMMA BallZero ==
    ASSUME LC!IsConnectionMap(connections)
    PROVE  Ball(0) = Neighbours(outputNode)
<1>1. ASSUME NEW x \in Ball(0) PROVE x \in Neighbours(outputNode)
  <2>1. PICK m \in 0..0 : \E p \in [0..m -> Objects] : IsPath(p, m) /\ p[m] = x
      BY DEF Ball
  <2> QED BY <2>1 DEF IsPath
<1>2. ASSUME NEW x \in Neighbours(outputNode) PROVE x \in Ball(0)
  <2> DEFINE p == [j \in 0..0 |-> x]
  <2>1. x \in Objects
      BY NeighboursAreObjects
  <2>2. p \in [0..0 -> Objects] /\ p[0] = x
      BY <2>1
  <2>3. IsPath(p, 0)
      BY <2>2 DEF IsPath
  <2>4. 0 \in 0..0
      OBVIOUS
  <2> HIDE DEF p
  <2> QED BY <2>1, <2>2, <2>3, <2>4 DEF Ball
<1> QED BY <1>1, <1>2

LEMMA BallNext ==
    ASSUME LC!IsConnectionMap(connections), NEW n \in Nat
    PROVE  Ball(n + 1) = Ball(n) \cup BehindAll(Ball(n))
<1>1. Ball(n) \subseteq Ball(n + 1)
    BY BallGrows
<1>2. ASSUME NEW y \in Ball(n), ShouldAddNeighbours(y), NEW x \in Neighbours(y)
      PROVE  x \in Ball(n + 1)
  <2> PICK m \in 0..n : \E r \in [0..m -> Objects] : IsPath(r, m) /\ r[m] = y
      BY DEF Ball
  <2>1. PICK p \in [0..m -> Objects] : IsPath(p, m) /\ p[m] = y
      OBVIOUS
  <2>2. x \in Objects
      BY NeighboursAreObjects
  <2> DEFINE q == [j \in 0..(m + 1) |-> IF j <= m THEN p[j] ELSE x]
  <2>3. /\ q \in [0..(m + 1) -> Objects]
        /\ q[m + 1] = x
        /\ \A j \in 0..m : q[j] = p[j]
      BY <2>2
  <2>4. m \in Nat /\ m + 1 \in 0..(n + 1) /\ (m + 1) - 1 = m /\ 0 \in 0..m
      OBVIOUS
  <2> HIDE DEF q
  <2>5. ASSUME NEW j \in 0..m
        PROVE  ShouldAddNeighbours(q[j]) /\ q[j + 1] \in Neighbours(q[j])
    <3>1. CASE j = m
        BY <1>2, <2>1, <2>3, <3>1
    <3>2. CASE j # m
      <4>1. j \in 0..(m - 1) /\ j + 1 \in 0..m
          BY <2>4, <3>2
      <4> QED BY <2>1, <2>3, <4>1 DEF IsPath
    <3> QED BY <3>1, <3>2
  <2>6. q[0] \in Neighbours(outputNode)
      BY <2>1, <2>3, <2>4 DEF IsPath
  <2>7. IsPath(q, m + 1)
      BY <2>4, <2>5, <2>6 DEF IsPath
  <2> QED BY <2>2, <2>3, <2>4, <2>7 DEF Ball
<1>3. ASSUME NEW x \in Ball(n + 1), x \notin Ball(n)
      PROVE  \E y \in Ball(n) : ShouldAddNeighbours(y) /\ x \in Neighbours(y)
  <2> PICK m \in 0..(n + 1) : \E r \in [0..m -> Objects] : IsPath(r, m) /\ r[m] = x
      BY DEF Ball
  <2>1. PICK p \in [0..m -> Objects] : IsPath(p, m) /\ p[m] = x
      OBVIOUS
  <2>2. x \in Objects
      BY DEF Ball
  <2>3. m = n + 1
    <3>1. m \notin 0..n
        BY <1>3, <2>1, <2>2 DEF Ball
    <3> QED BY <3>1
  <2> DEFINE q == [j \in 0..n |-> p[j]]
  <2>4. q \in [0..n -> Objects] /\ \A j \in 0..n : q[j] = p[j]
      BY <2>3
  <2> HIDE DEF q
  <2>5. IsPath(q, n)
    <3>1. \A j \in 0..(n - 1) : j \in 0..(m - 1) /\ j \in 0..n /\ j + 1 \in 0..n
        BY <2>3
    <3>2. 0 \in 0..n
        OBVIOUS
    <3> QED BY <2>1, <2>4, <3>1, <3>2 DEF IsPath
  <2>6. n \in 0..(m - 1) /\ n \in 0..n /\ p[n] \in Objects
      BY <2>3
  <2>7. ShouldAddNeighbours(p[n]) /\ p[n + 1] \in Neighbours(p[n])
      BY <2>1, <2>6 DEF IsPath
  <2>8. q[n] \in Ball(n)
      BY <2>4, <2>5, <2>6 DEF Ball
  <2> QED BY <2>1, <2>3, <2>4, <2>6, <2>7, <2>8
<1> QED BY <1>1, <1>2, <1>3 DEF BehindAll

-----------------------------------------------------------------------------
(* The distances of LogicCone.                                             *)

(* One turn of LogicCone's recursion.                                      *)
NextWithin(S) ==
    S \cup UNION {LC!Neighbours(n) : n \in {m \in S : ~LC!IsTerminal(m)}}

LEMMA NextWithinBall ==
    ASSUME LC!IsConnectionMap(connections), NEW k \in Nat, k # 0
    PROVE  Ball(k) = NextWithin(Ball(k - 1))
<1>1. k - 1 \in Nat /\ (k - 1) + 1 = k
    OBVIOUS
<1>2. Ball(k) = Ball(k - 1) \cup BehindAll(Ball(k - 1))
    BY <1>1, BallNext
<1>3. \A x : ShouldAddNeighbours(x) <=> ~LC!IsTerminal(x)
    BY DEF ShouldAddNeighbours, IsIO, IsFF, LC!IsTerminal
<1>4. \A x : Neighbours(x) = LC!Neighbours(x)
    BY DEF Neighbours
<1> QED BY <1>2, <1>3, <1>4 DEF NextWithin, BehindAll

(* The recursive definition of Within defines something: the balls are     *)
(* such a function, so the one chosen satisfies the equation as well.      *)
LEMMA WithinEquation ==
    ASSUME LC!IsConnectionMap(connections)
    PROVE  LC!Within = [k \in 0..Cardinality(Objects) |->
                           IF k = 0 THEN Neighbours(outputNode)
                           ELSE NextWithin(LC!Within[k - 1])]
<1> DEFINE balls == [k \in 0..Cardinality(Objects) |-> Ball(k)]
<1>1. Cardinality(Objects) \in Nat
    BY ObjectAssumption, FS_CardinalityType
<1>2. ASSUME NEW k \in 0..Cardinality(Objects)
      PROVE  balls[k] = IF k = 0 THEN Neighbours(outputNode)
                        ELSE NextWithin(balls[k - 1])
  <2>1. CASE k = 0
      BY <2>1, BallZero
  <2>2. CASE k # 0
    <3>1. k \in Nat /\ k - 1 \in 0..Cardinality(Objects)
        BY <1>1, <2>2
    <3> QED BY <2>2, <3>1, NextWithinBall
  <2> QED BY <2>1, <2>2
<1>3. balls = [k \in 0..Cardinality(Objects) |->
                  IF k = 0 THEN Neighbours(outputNode) ELSE NextWithin(balls[k - 1])]
    BY <1>2
<1> HIDE DEF balls
<1>4. \E f : f = [k \in 0..Cardinality(Objects) |->
                     IF k = 0 THEN Neighbours(outputNode) ELSE NextWithin(f[k - 1])]
    BY <1>3
<1>5. LC!Cardinality(LC!Objects) = Cardinality(Objects)
    BY DEF LC!Cardinality, Cardinality, Objects
<1>6. \E f : f = [k \in 0..LC!Cardinality(LC!Objects) |->
                     IF k = 0 THEN LC!Neighbours(outputNode)
                     ELSE f[k - 1] \cup UNION {LC!Neighbours(n) :
                              n \in {m \in f[k - 1] : ~LC!IsTerminal(m)}}]
    BY <1>4, <1>5 DEF NextWithin, Neighbours
<1>7. LC!Within = [k \in 0..LC!Cardinality(LC!Objects) |->
                      IF k = 0 THEN LC!Neighbours(outputNode)
                      ELSE LC!Within[k - 1] \cup UNION {LC!Neighbours(n) :
                               n \in {m \in LC!Within[k - 1] : ~LC!IsTerminal(m)}}]
    BY <1>6, Zenon DEF LC!Within
<1> QED BY <1>5, <1>7 DEF NextWithin, Neighbours

LEMMA WithinIsBall ==
    ASSUME LC!IsConnectionMap(connections), NEW k \in 0..Cardinality(Objects)
    PROVE  LC!Within[k] = Ball(k)
<1> DEFINE Differ == {j \in 0..Cardinality(Objects) : LC!Within[j] # Ball(j)}
<1>1. Cardinality(Objects) \in Nat
    BY ObjectAssumption, FS_CardinalityType
<1>2. SUFFICES ASSUME Differ # {} PROVE FALSE
    OBVIOUS
<1> Differ \in SUBSET Nat
    BY <1>1
<1>3. PICK x \in Differ : \A y \in Differ : x <= y
    BY <1>2, LeastNumber
<1>4. CASE x = 0
    BY <1>1, <1>3, <1>4, WithinEquation, BallZero
<1>5. CASE x # 0
  <2>1. x \in Nat /\ x - 1 \in 0..Cardinality(Objects) /\ ~(x <= x - 1)
      BY <1>1, <1>5
  <2>2. LC!Within[x - 1] = Ball(x - 1)
      BY <1>3, <2>1
  <2>3. LC!Within[x] = NextWithin(LC!Within[x - 1])
      BY <1>5, WithinEquation
  <2> QED BY <1>5, <2>1, <2>2, <2>3, NextWithinBall
<1> QED BY <1>4, <1>5

-----------------------------------------------------------------------------
(* The order of the queue.                                                 *)

(* The first m objects of the queue lie within k steps, the others one     *)
(* step further; what is nearer has left the queue, and what has left it   *)
(* is no further.                                                          *)
Layered(k, m) ==
    /\ Ball(k) \subseteq visited
    /\ visited \subseteq Ball(k + 1)
    /\ visited \ Range(frontier) \subseteq Ball(k)
    /\ \A n \in DOMAIN frontier : n <= m <=> frontier[n] \in Ball(k)
    /\ \A j \in Nat : j < k => Ball(j) \cap Range(frontier) = {}

LayersInOrder == ~first => \E k \in Nat : \E m \in 0..Len(frontier) : Layered(k, m)

(* No cell has been considered before the cut point, and none is nearer.   *)
CutPointFirst ==
    /\ first => voterCutPoint = None
    /\ ~first /\ voterCutPoint = None => (visited \ Range(frontier)) \cap Cells = {}
    /\ voterCutPoint # None =>
          /\ voterCutPoint \in visited
          /\ \A j \in Nat : Ball(j) \cap Cells # {} => voterCutPoint \in Ball(j)

DistanceInv == SearchInv /\ LayersInOrder /\ CutPointFirst

LEMMA DistanceInit == Init => DistanceInv
<1> SUFFICES ASSUME Init PROVE DistanceInv
    OBVIOUS
<1>1. first /\ voterCutPoint = None
    BY DEF Init
<1>2. SearchInv
    BY SearchInvInit
<1> QED BY <1>1, <1>2 DEF DistanceInv, LayersInOrder, CutPointFirst

(* The search does not change the netlist, nor the distances in it.        *)
LEMMA BallUnchanged ==
    ASSUME UNCHANGED <<connections, outputNode>>
    PROVE  \A n : Ball(n)' = Ball(n)
<1>1. \A p, m : IsPath(p, m)' = IsPath(p, m)
    BY NetlistUnchanged DEF IsPath
<1> QED BY <1>1 DEF Ball, Objects, LC!Objects

(* What lies behind an expanded object is one step further away.           *)
LEMMA BehindHead ==
    ASSUME LC!IsConnectionMap(connections), NEW k \in Nat,
           NEW node \in Ball(k), ShouldAddNeighbours(node)
    PROVE  Neighbours(node) \subseteq Ball(k + 1)
BY BallNext DEF BehindAll

(* When only the outer layer is left in the queue, the inner one has been  *)
(* considered, so the outer one is complete and becomes the inner one.     *)
LEMMA HeadInLayer ==
    ASSUME DistanceInv, ~first, frontier # <<>>
    PROVE  \E k \in Nat : \E m \in 1..Len(frontier) : Layered(k, m)
<1>1. PICK k \in Nat : \E m \in 0..Len(frontier) : Layered(k, m)
    BY DEF DistanceInv, LayersInOrder
<1>2. PICK m \in 0..Len(frontier) : Layered(k, m)
    BY <1>1
<1>3. /\ frontier \in Seq(Objects) /\ Len(frontier) \in Nat \ {0}
      /\ DOMAIN frontier = 1..Len(frontier)
      /\ Range(frontier) = {frontier[n] : n \in 1..Len(frontier)}
    BY EmptySeq, RangeEquality DEF DistanceInv, SearchInv, TypeOK
<1>4. CASE m # 0
    BY <1>2, <1>3, <1>4
<1>5. CASE m = 0
  <2>1. Range(frontier) \cap Ball(k) = {}
      BY <1>2, <1>3, <1>5 DEF Layered
  <2>2. BehindAll(Ball(k)) \subseteq visited
    <3> SUFFICES ASSUME NEW y \in Ball(k), ShouldAddNeighbours(y)
                 PROVE  Neighbours(y) \subseteq visited
        BY DEF BehindAll
    <3>1. y \in visited /\ y \notin Range(frontier)
        BY <1>2, <2>1 DEF Layered
    <3> QED BY <3>1 DEF DistanceInv, SearchInv, Accounted
  <2>3. visited = Ball(k + 1)
    <3>1. Ball(k + 1) = Ball(k) \cup BehindAll(Ball(k))
        BY BallNext DEF DistanceInv, SearchInv, TypeOK
    <3> QED BY <1>2, <2>2, <3>1 DEF Layered
  <2>4. Ball(k + 1) \subseteq Ball((k + 1) + 1)
      BY BallGrows
  <2>5. Range(frontier) \subseteq visited
      BY DEF DistanceInv, SearchInv, Accounted
  <2>6. \A n \in DOMAIN frontier : n <= Len(frontier) /\ frontier[n] \in Ball(k + 1)
      BY <1>3, <2>3, <2>5
  <2>7. \A j \in Nat : j < k + 1 => Ball(j) \cap Range(frontier) = {}
    <3> SUFFICES ASSUME NEW j \in Nat, j < k + 1
                 PROVE  Ball(j) \cap Range(frontier) = {}
        OBVIOUS
    <3>1. Ball(j) \subseteq Ball(k)
        BY BallGrows
    <3> QED BY <2>1, <3>1
  <2>8. Layered(k + 1, Len(frontier))
      BY <2>3, <2>4, <2>6, <2>7 DEF Layered
  <2> QED BY <1>3, <2>8
<1> QED BY <1>4, <1>5

(* Popping the head and pushing, in any order, what lies behind it.        *)
LEMMA LayerStep ==
    ASSUME DistanceInv, ~first, frontier # <<>>, UNCHANGED <<connections, outputNode>>,
           NEW k \in Nat, NEW m \in 1..Len(frontier), Layered(k, m),
           NEW new \in SUBSET Ball(k + 1),
           NEW order \in Seq(Objects), Range(order) = new \ visited,
           frontier' = Tail(frontier) \o order, visited' = visited \cup new
    PROVE  Layered(k, m - 1)'
<1> DEFINE old == Tail(frontier)
<1>1. /\ frontier \in Seq(Objects) /\ Len(frontier) \in Nat \ {0}
      /\ DOMAIN frontier = 1..Len(frontier) /\ Head(frontier) = frontier[1]
    BY EmptySeq DEF DistanceInv, SearchInv, TypeOK
<1>2. /\ old \in Seq(Objects) /\ Len(old) = Len(frontier) - 1
      /\ \A n \in 1..Len(old) : old[n] = frontier[n + 1]
    BY <1>1, HeadTailProperties
<1>3. /\ Range(frontier) = {Head(frontier)} \cup Range(old)
      /\ Head(frontier) \notin Range(old) /\ Head(frontier) \in visited
    BY HeadFacts DEF DistanceInv
<1> HIDE DEF old
<1>4. /\ frontier' \in Seq(Objects)
      /\ Len(frontier') = Len(old) + Len(order)
      /\ \A n \in 1..(Len(old) + Len(order)) :
            frontier'[n] = IF n <= Len(old) THEN old[n] ELSE order[n - Len(old)]
    BY <1>2, ConcatProperties DEF old
<1>5. Range(frontier') = Range(old) \cup Range(order)
  <2>1. \A s, t \in Seq(Objects) : Range(s \o t) = Range(s) \cup Range(t)
      BY RangeConcatenation
  <2>2. frontier' = old \o order
      BY DEF old
  <2> QED BY <1>2, <2>1, <2>2
<1>6. /\ Len(order) \in Nat /\ DOMAIN order = 1..Len(order)
      /\ DOMAIN frontier' = 1..(Len(old) + Len(order))
    BY <1>4, LenProperties
<1>7. Head(frontier) \in Ball(k)
    BY <1>1 DEF Layered
<1>8. Ball(k)' = Ball(k) /\ Ball(k + 1)' = Ball(k + 1)
    BY BallUnchanged
<1>9. Ball(k) \subseteq visited' /\ visited' \subseteq Ball(k + 1)
    BY DEF Layered
<1>10. visited' \ Range(frontier') \subseteq Ball(k)
    BY <1>3, <1>5, <1>7 DEF Layered
<1>11. ASSUME NEW n \in DOMAIN frontier'
       PROVE  n <= m - 1 <=> frontier'[n] \in Ball(k)
  <2>1. CASE n <= Len(old)
    <3>1. n + 1 \in DOMAIN frontier /\ frontier'[n] = frontier[n + 1]
        BY <1>1, <1>2, <1>4, <1>6, <2>1
    <3>2. n + 1 <= m <=> frontier[n + 1] \in Ball(k)
        BY <3>1 DEF Layered
    <3> QED BY <1>1, <1>6, <3>1, <3>2
  <2>2. CASE ~(n <= Len(old))
    <3>1. n - Len(old) \in DOMAIN order /\ frontier'[n] = order[n - Len(old)]
        BY <1>1, <1>2, <1>4, <1>6, <2>2
    <3>2. frontier'[n] \in Range(order)
        BY <3>1 DEF Range
    <3>3. frontier'[n] \notin Ball(k)
        BY <3>2 DEF Layered
    <3> QED BY <1>1, <1>2, <1>6, <2>2, <3>3
  <2> QED BY <2>1, <2>2
<1>12. ASSUME NEW j \in Nat, j < k
       PROVE  Ball(j)' \cap Range(frontier') = {}
  <2>1. Ball(j)' = Ball(j) /\ Ball(j) \subseteq Ball(k)
      BY <1>12, BallUnchanged, BallGrows
  <2>2. Ball(j) \cap Range(old) = {}
      BY <1>3, <1>12 DEF Layered
  <2>3. Ball(j) \cap Range(order) = {}
      BY <2>1 DEF Layered
  <2> QED BY <1>5, <2>1, <2>2, <2>3
<1> QED BY <1>8, <1>9, <1>10, <1>11, <1>12 DEF Layered

(* The cut point is chosen when the first cell leaves the queue.           *)
LEMMA CutPointStep ==
    ASSUME DistanceInv, ~first, ~first', UNCHANGED <<connections, outputNode>>,
           NEW node \in visited, NEW k \in Nat, node \in Ball(k),
           Ball(k) \subseteq visited,
           \A j \in Nat : j < k => Ball(j) \cap Range(frontier) = {},
           SetCutPoint(node), visited \subseteq visited',
           visited' \ Range(frontier') \subseteq (visited \ Range(frontier)) \cup {node}
    PROVE  CutPointFirst'
<1>1. IsElementCell(node) \/ IsFF(node) <=> node \in Cells
    BY ObjectAssumption DEF IsElementCell, IsFF, LC!IsFF
<1>2. \A j \in Nat : Ball(j)' = Ball(j)
    BY BallUnchanged
<1>3. node \in Objects /\ None \notin Objects
    BY ObjectAssumption DEF DistanceInv, SearchInv, TypeOK
<1>4. CASE voterCutPoint # None
  <2>1. voterCutPoint' = voterCutPoint
      BY <1>4 DEF SetCutPoint
  <2> QED BY <1>2, <1>4, <2>1 DEF DistanceInv, CutPointFirst
<1>5. CASE voterCutPoint = None /\ node \in Cells
  <2>1. voterCutPoint' = node
      BY <1>1, <1>5 DEF SetCutPoint
  <2>2. (visited \ Range(frontier)) \cap Cells = {}
      BY <1>5 DEF DistanceInv, CutPointFirst
  <2>3. ASSUME NEW j \in Nat, Ball(j) \cap Cells # {}
        PROVE  node \in Ball(j)
    <3>1. CASE j < k
      <4>1. Ball(j) \subseteq Ball(k)
          BY <3>1, BallGrows
      <4> QED BY <2>2, <2>3, <3>1, <4>1
    <3>2. CASE ~(j < k)
        BY <3>2, BallGrows
    <3> QED BY <3>1, <3>2
  <2> QED BY <1>2, <1>3, <2>1, <2>3 DEF CutPointFirst
<1>6. CASE voterCutPoint = None /\ node \notin Cells
  <2>1. voterCutPoint' = None
      BY <1>1, <1>6 DEF SetCutPoint
  <2>2. (visited \ Range(frontier)) \cap Cells = {}
      BY <1>6 DEF DistanceInv, CutPointFirst
  <2>3. (visited' \ Range(frontier')) \cap Cells = {}
      BY <1>6, <2>2
  <2> QED BY <2>1, <2>3 DEF CutPointFirst
<1> QED BY <1>4, <1>5, <1>6

LEMMA DistanceRootStep == DistanceInv /\ ConsiderRoot => DistanceInv'
<1> SUFFICES ASSUME DistanceInv, ConsiderRoot PROVE DistanceInv'
    OBVIOUS
<1>1. /\ Range(frontier') = Neighbours(outputNode)
      /\ visited' = Neighbours(outputNode)
      /\ frontier' \in Seq(Objects)
    BY RootPushes DEF DistanceInv
<1>2. ~first' /\ voterCutPoint' = None /\ UNCHANGED <<connections, outputNode>>
    BY DEF ConsiderRoot, DistanceInv, CutPointFirst
<1>3. SearchInv'
    BY RootStep DEF DistanceInv
<1>4. /\ Ball(0)' = Neighbours(outputNode)
      /\ Ball(0)' \subseteq Ball(0 + 1)'
  <2>1. Ball(0)' = Ball(0) /\ Ball(0 + 1)' = Ball(0 + 1)
      BY <1>2, BallUnchanged
  <2>2. Ball(0) = Neighbours(outputNode)
      BY BallZero DEF DistanceInv, SearchInv, TypeOK
  <2>3. Ball(0) \subseteq Ball(0 + 1)
      BY BallGrows
  <2> QED BY <2>1, <2>2, <2>3
<1>5. Layered(0, Len(frontier))'
  <2>1. DOMAIN frontier' = 1..Len(frontier')
      BY <1>1, LenProperties
  <2>2. \A n \in DOMAIN frontier' : n <= Len(frontier') /\ frontier'[n] \in Ball(0)'
      BY <1>1, <1>4, <2>1, RangeEquality
  <2>3. \A j \in Nat : ~(j < 0)
      OBVIOUS
  <2> QED BY <1>1, <1>4, <2>2, <2>3 DEF Layered
<1>6. LayersInOrder'
  <2>1. Len(frontier)' \in 0..Len(frontier)'
      BY <1>1, LenProperties
  <2> QED BY <1>5, <2>1 DEF LayersInOrder
<1>7. CutPointFirst'
    BY <1>1, <1>2 DEF CutPointFirst
<1> QED BY <1>3, <1>6, <1>7 DEF DistanceInv

LEMMA DistanceElementStep == DistanceInv /\ ConsiderElement => DistanceInv'
<1> SUFFICES ASSUME DistanceInv, ConsiderElement PROVE DistanceInv'
    OBVIOUS
<1> DEFINE node == Head(frontier)
<1>1. /\ ~first /\ ~first' /\ frontier # <<>>
      /\ UNCHANGED <<connections, outputNode>>
      /\ ShouldAddNeighbours(node) /\ PushNeighbours(node) /\ SetCutPoint(node)
    BY DEF ConsiderElement
<1>2. SearchInv'
    BY ElementStep DEF DistanceInv
<1>3. PICK k \in Nat : \E m \in 1..Len(frontier) : Layered(k, m)
    BY <1>1, HeadInLayer
<1>4. PICK m \in 1..Len(frontier) : Layered(k, m)
    BY <1>3
<1>5. LC!IsConnectionMap(connections) /\ frontier \in Seq(Objects)
    BY DEF DistanceInv, SearchInv, TypeOK
<1>6. node \in Ball(k) /\ node \in visited
  <2>1. 1 \in DOMAIN frontier /\ node = frontier[1]
      BY <1>1, <1>5, EmptySeq, LenProperties
  <2> QED BY <1>1, <1>4, <2>1, HeadFacts DEF Layered, DistanceInv
<1>7. Neighbours(node) \in SUBSET Ball(k + 1)
    BY <1>1, <1>5, <1>6, BehindHead
<1>8. PICK order \in Orderings(Neighbours(node) \ visited) :
            /\ frontier' = Tail(frontier) \o order
            /\ visited' = visited \cup Neighbours(node)
    BY <1>1 DEF PushNeighbours
<1>9. order \in Seq(Objects) /\ Range(order) = Neighbours(node) \ visited
    BY <1>5, OrderingFacts, NeighboursAreObjects
<1>10. Layered(k, m - 1)'
    BY <1>1, <1>4, <1>7, <1>8, <1>9, LayerStep
<1>11. LayersInOrder'
  <2>1. m - 1 \in 0..Len(frontier')
    <3>1. Len(frontier') = (Len(frontier) - 1) + Len(order)
        BY <1>1, <1>5, <1>8, <1>9, HeadTailProperties, ConcatProperties
    <3>2. Len(order) \in Nat /\ Len(frontier) \in Nat
        BY <1>5, <1>9, LenProperties
    <3> QED BY <3>1, <3>2
  <2> QED BY <1>10, <2>1 DEF LayersInOrder
<1>12. CutPointFirst'
  <2>1. Range(frontier') = Range(Tail(frontier)) \cup (Neighbours(node) \ visited)
      BY <1>1, <1>5, PushFacts DEF DistanceInv, SearchInv, TypeOK
  <2>2. Range(frontier) = {node} \cup Range(Tail(frontier))
      BY <1>1, HeadFacts DEF DistanceInv
  <2>3. visited' \ Range(frontier') \subseteq (visited \ Range(frontier)) \cup {node}
      BY <1>8, <2>1, <2>2
  <2>4. /\ Ball(k) \subseteq visited
        /\ \A j \in Nat : j < k => Ball(j) \cap Range(frontier) = {}
      BY <1>4 DEF Layered
  <2>5. visited \subseteq visited'
      BY <1>8
  <2> HIDE DEF node
  <2> QED BY <1>1, <1>6, <2>3, <2>4, <2>5, CutPointStep
<1> QED BY <1>2, <1>11, <1>12 DEF DistanceInv

LEMMA DistanceTerminalStep == DistanceInv /\ ConsiderTerminal => DistanceInv'
<1> SUFFICES ASSUME DistanceInv, ConsiderTerminal PROVE DistanceInv'
    OBVIOUS
<1> DEFINE node == Head(frontier)
<1>1. /\ ~first /\ ~first' /\ frontier # <<>>
      /\ UNCHANGED <<connections, outputNode, visited>>
      /\ SetCutPoint(node) /\ frontier' = Tail(frontier)
    BY DEF ConsiderTerminal
<1>2. SearchInv'
    BY TerminalStep DEF DistanceInv
<1>3. PICK k \in Nat : \E m \in 1..Len(frontier) : Layered(k, m)
    BY <1>1, HeadInLayer
<1>4. PICK m \in 1..Len(frontier) : Layered(k, m)
    BY <1>3
<1>5. frontier \in Seq(Objects)
    BY DEF DistanceInv, SearchInv, TypeOK
<1>6. node \in Ball(k) /\ node \in visited
  <2>1. 1 \in DOMAIN frontier /\ node = frontier[1]
      BY <1>1, <1>5, EmptySeq, LenProperties
  <2> QED BY <1>1, <1>4, <2>1, HeadFacts DEF Layered, DistanceInv
<1>7. Layered(k, m - 1)'
  <2>1. Tail(frontier) \in Seq(Objects)
      BY <1>1, <1>5, HeadTailProperties
  <2>2. frontier' = Tail(frontier) \o <<>> /\ visited' = visited \cup {}
      BY <1>1, <2>1, ConcatEmptySeq
  <2>3. <<>> \in Seq(Objects) /\ Range(<<>>) = {} \ visited /\ {} \in SUBSET Ball(k + 1)
      BY DEF Range
  <2> QED BY <1>1, <1>4, <2>2, <2>3, LayerStep
<1>8. LayersInOrder'
  <2>1. m - 1 \in 0..Len(frontier')
    <3>1. Len(frontier') = Len(frontier) - 1 /\ Len(frontier) \in Nat
        BY <1>1, <1>5, HeadTailProperties, LenProperties
    <3> QED BY <3>1
  <2> QED BY <1>7, <2>1 DEF LayersInOrder
<1>9. CutPointFirst'
  <2>1. Range(frontier) = {node} \cup Range(Tail(frontier))
      BY <1>1, HeadFacts DEF DistanceInv
  <2>2. visited' \ Range(frontier') \subseteq (visited \ Range(frontier)) \cup {node}
      BY <1>1, <2>1
  <2>3. /\ Ball(k) \subseteq visited
        /\ \A j \in Nat : j < k => Ball(j) \cap Range(frontier) = {}
      BY <1>4 DEF Layered
  <2>4. visited \subseteq visited'
      BY <1>1
  <2> HIDE DEF node
  <2> QED BY <1>1, <1>6, <2>2, <2>3, <2>4, CutPointStep
<1> QED BY <1>2, <1>8, <1>9 DEF DistanceInv

LEMMA DistanceStep == DistanceInv /\ [Next]_vars => DistanceInv'
<1> SUFFICES ASSUME DistanceInv, UNCHANGED vars PROVE DistanceInv'
    BY DistanceRootStep, DistanceElementStep, DistanceTerminalStep DEF Next
<1>1. /\ UNCHANGED <<connections, outputNode>>
      /\ UNCHANGED <<frontier, visited, voterCutPoint, first>>
    BY DEF vars
<1>2. SearchInv'
    BY SearchInvStep DEF DistanceInv
<1>3. \A n : Ball(n)' = Ball(n)
    BY <1>1, BallUnchanged
<1>4. LayersInOrder' /\ CutPointFirst'
    BY <1>1, <1>3 DEF DistanceInv, LayersInOrder, Layered, CutPointFirst
<1> QED BY <1>2, <1>4 DEF DistanceInv

LEMMA DistanceAlways == Spec => []DistanceInv
BY DistanceInit, DistanceStep, PTL DEF Spec

-----------------------------------------------------------------------------
(* What follows for the properties of ConeSearch.                          *)

LEMMA NearestByBall ==
    ASSUME LC!IsConnectionMap(connections), NEW c \in LC!Reached \cap Cells,
           \A j \in Nat : Ball(j) \cap Cells # {} => c \in Ball(j)
    PROVE  c \in LC!NearestCells
<1>1. LC!Cardinality(LC!Objects) = Cardinality(Objects)
    BY DEF LC!Cardinality, Cardinality, Objects
<1>2. Cardinality(Objects) \in Nat
    BY ObjectAssumption, FS_CardinalityType
<1>3. ASSUME NEW k \in 0..Cardinality(Objects), LC!Within[k] \cap Cells # {}
      PROVE  c \in LC!Within[k]
  <2>1. LC!Within[k] = Ball(k) /\ k \in Nat
      BY <1>2, WithinIsBall
  <2> QED BY <1>3, <2>1
<1> QED BY <1>1, <1>3 DEF LC!NearestCells

LEMMA CutPointIsNearest == DistanceInv => CutPointNearest
<1> SUFFICES ASSUME DistanceInv PROVE CutPointNearest
    OBVIOUS
<1>1. ASSUME voterCutPoint # None PROVE voterCutPoint \in LC!NearestCells
  <2>1. voterCutPoint \in LC!Reached \cap Cells
      BY <1>1, VisitedIsReached DEF DistanceInv, SearchInv, CutPointFirst, TypeOK
  <2> QED BY <1>1, <2>1, NearestByBall
          DEF DistanceInv, SearchInv, TypeOK, CutPointFirst
<1>2. ASSUME Completed, voterCutPoint = None PROVE LC!Reached \cap Cells = {}
  <2>1. ~first /\ visited = LC!Reached
      BY <1>2, CompletedVisited DEF DistanceInv
  <2>2. Range(frontier) = {}
      BY <1>2 DEF Completed, Range
  <2> QED BY <1>2, <2>1, <2>2 DEF DistanceInv, CutPointFirst
<1> QED BY <1>1, <1>2 DEF CutPointNearest

LEMMA QueueIsByDistance == DistanceInv => FrontierByDistance
<1> SUFFICES ASSUME DistanceInv, ~first,
                    NEW i \in DOMAIN frontier, NEW j \in DOMAIN frontier, i < j,
                    NEW n \in 0..Cardinality(Objects), frontier[j] \in LC!Within[n]
             PROVE  frontier[i] \in LC!Within[n]
    BY DEF FrontierByDistance
<1>1. LC!Within[n] = Ball(n) /\ n \in Nat
  <2>1. Cardinality(Objects) \in Nat
      BY ObjectAssumption, FS_CardinalityType
  <2> QED BY <2>1, WithinIsBall DEF DistanceInv, SearchInv, TypeOK
<1>2. PICK k \in Nat : \E m \in 0..Len(frontier) : Layered(k, m)
    BY DEF DistanceInv, LayersInOrder
<1>3. PICK m \in 0..Len(frontier) : Layered(k, m)
    BY <1>2
<1>4. /\ frontier \in Seq(Objects) /\ DOMAIN frontier = 1..Len(frontier)
      /\ frontier[i] \in Range(frontier) /\ frontier[j] \in Range(frontier)
    BY LenProperties DEF DistanceInv, SearchInv, TypeOK, Range
<1>5. ~(n < k)
    BY <1>1, <1>3, <1>4 DEF Layered
<1>6. CASE n = k
  <2>1. j <= m
      BY <1>1, <1>3, <1>6 DEF Layered
  <2>2. i <= m
      BY <1>4, <2>1
  <2> QED BY <1>1, <1>3, <1>6, <2>2 DEF Layered
<1>7. CASE n # k
  <2>1. Ball(k + 1) \subseteq Ball(n)
      BY <1>1, <1>5, <1>7, BallGrows
  <2>2. Range(frontier) \subseteq visited
      BY DEF DistanceInv, SearchInv, Accounted
  <2> QED BY <1>1, <1>3, <1>4, <2>1, <2>2 DEF Layered
<1> QED BY <1>6, <1>7

(* Whatever the order in which neighbours were pushed, the cut point is a  *)
(* cell nearest to the root, and is missing only if there is no cell.      *)
THEOREM CutPointIsANearestCell == Spec => []CutPointNearest
BY DistanceAlways, CutPointIsNearest, PTL

(* No object is ever queued behind one that is further from the root.      *)
THEOREM QueueInOrderOfDistance == Spec => []FrontierByDistance
BY DistanceAlways, QueueIsByDistance, PTL

-----------------------------------------------------------------------------
(* The search implements LogicCone.                                        *)

LEMMA ConeInit == Init => LC!Init
<1> SUFFICES ASSUME Init PROVE LC!Init
    OBVIOUS
<1>1. ~Completed
    BY DEF Init, Completed
<1> QED BY <1>1, NetlistAssumption DEF Init, LC!Init

(* The step that leaves the queue empty extracts the cone, the others are  *)
(* not seen.                                                               *)
LEMMA ConeStep == DistanceInv /\ DistanceInv' /\ [Next]_vars => [LC!Next]_(LC!vars)
<1> SUFFICES ASSUME DistanceInv, DistanceInv', [Next]_vars
             PROVE  [LC!Next]_(LC!vars)
    OBVIOUS
<1>1. CASE Next
  <2>1. ~Completed /\ UNCHANGED <<connections, outputNode>>
      BY <1>1 DEF Next, ConsiderRoot, ConsiderElement, ConsiderTerminal, Completed
  <2>2. CASE ~Completed'
      BY <2>1, <2>2 DEF LC!vars
  <2>3. CASE Completed'
    <3>1. /\ LC!Reached' = LC!Reached
          /\ \A n : LC!IsTerminal(n)' = LC!IsTerminal(n)
          /\ \A n : Ball(n)' = Ball(n)
        BY <2>1, NetlistUnchanged, BallUnchanged
        DEF LC!IsTerminal, LC!IsIO, LC!IsFF
    <3>2. Range(cone)' = LC!ConeMembers
      <4>1. SearchInv' => SearchExact'
          BY CompletedIsExact, PTL
      <4> QED BY <2>3, <3>1, <4>1 DEF DistanceInv, SearchExact, LC!ConeMembers
    <3>3. CutPointNearest' /\ Sound' /\ TypeOK'
      <4>1. DistanceInv' => CutPointNearest'
          BY CutPointIsNearest, PTL
      <4> QED BY <4>1 DEF DistanceInv, SearchInv
    <3>4. voterCutPoint' # None => voterCutPoint' \in LC!NearestCells
      <4> SUFFICES ASSUME voterCutPoint' # None
                   PROVE  voterCutPoint' \in LC!NearestCells
          OBVIOUS
      <4>1. /\ voterCutPoint' \in visited' /\ voterCutPoint' \in Cells
            /\ \A j \in Nat : Ball(j) \cap Cells # {} => voterCutPoint' \in Ball(j)
          BY <3>1, <3>3 DEF DistanceInv, CutPointFirst, TypeOK
      <4>2. visited' \subseteq LC!Reached
        <5>1. TypeOK' /\ Sound' => (visited \subseteq LC!Reached)'
            BY VisitedIsReached, PTL
        <5> QED BY <3>1, <3>3, <5>1
      <4> QED BY <4>1, <4>2, NearestByBall DEF DistanceInv, SearchInv, TypeOK
    <3>5. voterCutPoint' = None => LC!NearestCells = {}
        BY <2>3, <3>1, <3>3 DEF CutPointNearest, LC!NearestCells
    <3>6. LC!Extract
      <4>1. /\ voterCutPoint' \in LC!NearestCells \cup {None}
            /\ voterCutPoint' = None => LC!NearestCells = {}
          BY <3>4, <3>5
      <4> QED BY <2>1, <2>3, <3>2, <4>1 DEF LC!Extract
    <3> QED BY <3>6 DEF LC!Next
  <2> QED BY <2>2, <2>3
<1>2. CASE UNCHANGED vars
    BY <1>2 DEF vars, LC!vars, Completed
<1> QED BY <1>1, <1>2

(* The search hands over the cone LogicCone defines, with a nearest cell   *)
(* for its cut point, in one step and once; until then nothing of it is    *)
(* seen.  That this happens at all is liveness, and not proved here.       *)
THEOREM SearchImplementsCone == Spec => LC!Init /\ [][LC!Next]_(LC!vars)
<1>1. DistanceInv /\ DistanceInv' /\ [Next]_vars => [LC!Next]_(LC!vars)
    BY ConeStep
<1> QED BY <1>1, ConeInit, DistanceAlways, PTL DEF Spec
=============================================================================
