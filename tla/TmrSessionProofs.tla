-------------------------- MODULE TmrSessionProofs --------------------------
(***************************************************************************)
(* Proofs about a session of tamara_tmr commands, of any number of them,   *)
(* on designs of any size.                                                 *)
(***************************************************************************)
EXTENDS TmrSession, TmrVoterProofs

(* The inductive invariant of the session.  Ids are given out in order,    *)
(* and a root is explored from the moment it is queued: so neither comes   *)
(* back, in the queue or out of it.                                        *)
ConesInv ==
    /\ IsFiniteSet(cones)
    /\ cones \subseteq [id : Nat, root : FFs \cup OutPorts, successor : BOOLEAN]
    /\ \A c \in cones : c.id < nextID /\ (c.successor = TRUE => c.root \in explored)
    /\ \A c, d \in cones : c.id = d.id => c = d
    /\ \A c, d \in cones :
          c.successor = TRUE /\ d.successor = TRUE /\ c.root = d.root => c = d

(* What is queued has an id and a root that neither another in the queue   *)
(* nor a cone has.                                                         *)
QueueInv ==
    /\ \A k \in DOMAIN successors :
          successors[k].id < nextID /\ successors[k].root \in explored
    /\ \A i, j \in DOMAIN successors :
          successors[i].id = successors[j].id \/ successors[i].root = successors[j].root => i = j
    /\ \A c \in cones, k \in DOMAIN successors :
          /\ c.id # successors[k].id
          /\ c.successor = TRUE => c.root # successors[k].root

(* The invariant of the session: that of the command at hand, and these.   *)
SessionInv == PassInv /\ ConesInv /\ QueueInv

(* It holds when the first command is called.                              *)
LEMMA SessionInit == InitSession => SessionInv
<1> SUFFICES ASSUME InitSession PROVE SessionInv
    OBVIOUS
<1>1. PassInv
    BY PassInit DEF InitSession
<1>2. cones = {} /\ successors = <<>>
    BY DEF InitSession, Init
<1>3. IsFiniteSet(cones)
    BY <1>2, FS_EmptySet
<1> QED BY <1>1, <1>2, <1>3 DEF SessionInv, ConesInv, QueueInv

(* Only three of a command's steps concern ids, the queue or the cones.    *)
LEMMA QueueSteps ==
    ASSUME Next
    PROVE  \/ BeginOutput \/ BeginSuccessor \/ BuildSuccessors
           \/ ~Begins /\ UNCHANGED <<successors, explored, nextID>>
BY DEF Next, Begins, queueVars, Prepare, DuplicateErrorSink, SkipErrorSink,
       Search, SkipEmptyCone, Replicate, CutPointNotSet, CutPointNotReplicated, CannotSplice,
       InsertVoter, Rewire, CannotRewire, FixesDone, Finalise, CannotFinalise,
       FinishWithoutSink, Finished, Fail

(* A cone begins: nothing has its id, and no other has its root if it is   *)
(* that of a successor.                                                    *)
LEMMA ConeAdded ==
    ASSUME ConesInv, NEW i \in Nat, NEW root \in FFs \cup OutPorts, NEW successor \in BOOLEAN,
           \A c \in cones : c.id # i,
           successor = TRUE => root \in explored
                          /\ \A c \in cones : c.successor = TRUE => c.root # root,
           nextID \in Nat, nextID' \in Nat, nextID <= nextID', i < nextID', UNCHANGED explored,
           cones' = cones \cup {[id |-> i, root |-> root, successor |-> successor]}
    PROVE  ConesInv'
<1> DEFINE new == [id |-> i, root |-> root, successor |-> successor]
<1>1. new.id = i /\ new.root = root /\ new.successor = successor
    OBVIOUS
<1>2. new \in [id : Nat, root : FFs \cup OutPorts, successor : BOOLEAN]
    OBVIOUS
<1>3. IsFiniteSet(cones')
  <2>1. IsFiniteSet(cones)
      BY DEF ConesInv
  <2> HIDE DEF new
  <2> QED BY <2>1, FS_AddElement
<1> HIDE DEF new
<1>4. cones' = cones \cup {new}
    BY DEF new
<1>5. \A c \in cones : c.id \in Nat
    BY DEF ConesInv
<1>6. cones' \subseteq [id : Nat, root : FFs \cup OutPorts, successor : BOOLEAN]
    BY <1>2, <1>4 DEF ConesInv
<1>7. \A c \in cones' : c.id < nextID' /\ (c.successor = TRUE => c.root \in explored')
    BY <1>1, <1>4, <1>5 DEF ConesInv
<1>8. \A c, d \in cones' : c.id = d.id => c = d
    BY <1>1, <1>4 DEF ConesInv
<1>9. \A c, d \in cones' :
          c.successor = TRUE /\ d.successor = TRUE /\ c.root = d.root => c = d
    BY <1>1, <1>4 DEF ConesInv
<1> QED BY <1>3, <1>6, <1>7, <1>8, <1>9 DEF ConesInv

(* The first cone of an output port takes the next id.                     *)
LEMMA OutputConeKeeps ==
    ASSUME SessionInv, BeginOutput, Command
    PROVE  ConesInv' /\ QueueInv'
<1>1. PICK o \in outputs : outputs' = outputs \ {o} /\ Begin(o, nextID)
    BY DEF BeginOutput
<1>2. /\ stage = "next" /\ stage' = "search" /\ id' = nextID /\ outputNode' = o
      /\ nextID' = nextID + 1 /\ UNCHANGED <<successors, explored>>
    BY <1>1 DEF BeginOutput, Begin
<1>3. /\ nextID \in Nat /\ o \in FFs \cup OutPorts
      /\ successors \in Seq([root : Own \cap (FFs \cup OutPorts), id : Nat])
    BY DEF SessionInv, PassInv, ControlInv, QueuesOwn
<1>4. (outputs' = outputs) = FALSE
    BY <1>1
<1>5. cones' = cones \cup {[id |-> nextID, root |-> o, successor |-> FALSE]}
    BY <1>2, <1>4 DEF Command, Begins
<1>6. /\ \A c \in cones : c.id \in Nat /\ c.id < nextID
      /\ \A k \in DOMAIN successors : successors[k].id \in Nat /\ successors[k].id < nextID
  <2> DEFINE S == [root : Own \cap (FFs \cup OutPorts), id : Nat]
  <2>1. \A x \in S : x.id \in Nat
      OBVIOUS
  <2>2. successors \in Seq(S)
      BY <1>3
  <2> HIDE DEF S
  <2>3. \A k \in DOMAIN successors : successors[k] \in S
      BY <2>2
  <2>4. \A c \in cones : c.id \in Nat /\ c.id < nextID
      BY DEF SessionInv, ConesInv
  <2>5. \A k \in DOMAIN successors : successors[k].id < nextID
      BY DEF SessionInv, QueueInv
  <2> QED BY <2>1, <2>3, <2>4, <2>5
<1>7. ConesInv'
  <2>1. ConesInv /\ FALSE \in BOOLEAN /\ FALSE # TRUE
      BY DEF SessionInv
  <2>2. \A c \in cones : c.id # nextID
      BY <1>3, <1>6
  <2>3. nextID' \in Nat /\ nextID <= nextID' /\ nextID < nextID'
      BY <1>2, <1>3
  <2> QED BY <1>2, <1>3, <1>5, <2>1, <2>2, <2>3, ConeAdded
<1>8. QueueInv'
  <2>1. \A k \in DOMAIN successors : nextID # successors[k].id
      BY <1>3, <1>6
  <2>2. \A k \in DOMAIN successors :
            successors[k].id < nextID' /\ successors[k].root \in explored
      BY <1>2, <1>3, <1>6 DEF SessionInv, QueueInv
  <2> DEFINE new == [id |-> nextID, root |-> o, successor |-> FALSE]
  <2>3. new.id = nextID /\ new.successor = FALSE
      OBVIOUS
  <2> HIDE DEF new
  <2>4. cones' = cones \cup {new}
      BY <1>5 DEF new
  <2> QED BY <1>2, <2>1, <2>2, <2>3, <2>4 DEF SessionInv, QueueInv
<1> QED BY <1>7, <1>8

(* A successor's cone leaves the queue with the id it got there.           *)
LEMMA SuccessorConeKeeps ==
    ASSUME SessionInv, BeginSuccessor, Command
    PROVE  ConesInv' /\ QueueInv'
<1> DEFINE S == [root : Own \cap (FFs \cup OutPorts), id : Nat]
           head == Head(successors)
<1>1. /\ successors # <<>> /\ stage = "next" /\ stage' = "search"
      /\ id' = head.id /\ outputNode' = head.root
      /\ successors' = Tail(successors)
      /\ UNCHANGED <<outputs, explored, nextID>>
    BY DEF BeginSuccessor, Begin
<1>2. nextID \in Nat /\ successors \in Seq(S)
    BY DEF SessionInv, PassInv, ControlInv, QueuesOwn
<1>3. /\ Len(successors) \in Nat \ {0} /\ DOMAIN successors = 1..Len(successors)
      /\ head \in S /\ head = successors[1]
      /\ DOMAIN successors' = 1..Len(successors) - 1
      /\ \A k \in DOMAIN successors' : successors'[k] = successors[k + 1]
  <2> HIDE DEF S
  <2>1. /\ Head(successors) \in S /\ Tail(successors) \in Seq(S)
        /\ Len(Tail(successors)) = Len(successors) - 1
        /\ \A i \in 1..Len(Tail(successors)) : Tail(successors)[i] = successors[i + 1]
      BY <1>1, <1>2, HeadTailProperties
  <2>2. /\ Len(successors) \in Nat \ {0} /\ DOMAIN successors = 1..Len(successors)
        /\ Head(successors) = successors[1]
      BY <1>1, <1>2, EmptySeq, LenProperties
  <2>3. DOMAIN Tail(successors) = 1..Len(Tail(successors))
      BY <2>1, LenProperties
  <2> QED BY <1>1, <2>1, <2>2, <2>3
<1>4. 1 \in DOMAIN successors
    BY <1>3
<1>5. /\ \A k \in DOMAIN successors' : k + 1 \in DOMAIN successors /\ k + 1 # 1
    BY <1>3
<1>6. cones' = cones \cup {[id |-> head.id, root |-> head.root, successor |-> TRUE]}
  <2>1. (outputs' = outputs) = TRUE
      BY <1>1
  <2> QED BY <1>1, <2>1 DEF Command, Begins
<1>7. head.id \in Nat /\ head.root \in FFs \cup OutPorts
    BY <1>3
<1> HIDE DEF head, S
<1>8. ConesInv'
  <2>1. ConesInv /\ TRUE \in BOOLEAN
      BY DEF SessionInv
  <2>2. /\ \A c \in cones : c.id # head.id
        /\ \A c \in cones : c.successor = TRUE => c.root # head.root
        /\ head.root \in explored /\ head.id < nextID
      BY <1>3, <1>4 DEF SessionInv, QueueInv
  <2>3. nextID' \in Nat /\ nextID <= nextID' /\ head.id < nextID'
      BY <1>1, <1>2, <2>2
  <2> QED BY <1>1, <1>2, <1>6, <1>7, <2>1, <2>2, <2>3, ConeAdded
<1>9. QueueInv'
  <2> DEFINE new == [id |-> head.id, root |-> head.root, successor |-> TRUE]
  <2>1. new.id = head.id /\ new.root = head.root
      OBVIOUS
  <2> HIDE DEF new
  <2>2. cones' = cones \cup {new}
      BY <1>6 DEF new
  <2>3. \A k \in DOMAIN successors' :
            successors'[k].id < nextID' /\ successors'[k].root \in explored'
      BY <1>1, <1>3, <1>5 DEF SessionInv, QueueInv
  <2>4. ASSUME NEW i \in DOMAIN successors', NEW j \in DOMAIN successors',
               \/ successors'[i].id = successors'[j].id
               \/ successors'[i].root = successors'[j].root
        PROVE  i = j
    <3>1. i + 1 = j + 1
        BY <1>3, <1>5, <2>4 DEF SessionInv, QueueInv
    <3> QED BY <1>3, <3>1
  <2>5. \A k \in DOMAIN successors' :
            new.id # successors'[k].id /\ new.root # successors'[k].root
      BY <1>3, <1>4, <1>5, <2>1 DEF SessionInv, QueueInv
  <2>6. \A c \in cones, k \in DOMAIN successors' :
            /\ c.id # successors'[k].id
            /\ c.successor = TRUE => c.root # successors'[k].root
      BY <1>3, <1>5 DEF SessionInv, QueueInv
  <2> QED BY <2>2, <2>3, <2>4, <2>5, <2>6 DEF QueueInv
<1> QED BY <1>8, <1>9

(* The successors that a cone adds to the queue are new to it, and to the  *)
(* set of explored ones.                                                   *)
LEMMA BuildSuccessorsKeepsQueue ==
    ASSUME SessionInv, BuildSuccessors, Command
    PROVE  ConesInv' /\ QueueInv'
<1> DEFINE S == {n \in Range(inputNodes) : IsSuccessor(n)}
           Queued == [root : Own \cap (FFs \cup OutPorts), id : Nat]
<1>1. PICK found \in CS!Orderings(S) :
          /\ successors' = successors \o
                 [k \in DOMAIN found |-> [root |-> found[k], id |-> nextID + k - 1]]
          /\ explored' = explored \cup Range(found)
          /\ nextID' = nextID + Len(found)
    BY DEF BuildSuccessors
<1>2. /\ found \in Seq(Own \cap (FFs \cup OutPorts))
      /\ Range(found) \cap explored = {}
      /\ NoRepeats(found)
  <2>1. AnalysisFits /\ inputNodes \in Seq(Own \cap (FFs \cup InPorts \cup OutPorts))
      BY DEF SessionInv, PassInv, SearchOwn
  <2> HIDE DEF S
  <2>2. S = {n \in Range(inputNodes) : IsSuccessor(n)}
      BY DEF S
  <2> QED BY <2>1, <2>2, FoundFacts
<1>3. nextID \in Nat /\ successors \in Seq(Queued)
    BY DEF SessionInv, PassInv, ControlInv, QueuesOwn
<1>4. UNCHANGED cones
    BY DEF BuildSuccessors, Command, Begins
<1> DEFINE new == [k \in DOMAIN found |-> [root |-> found[k], id |-> nextID + k - 1]]
<1>5. /\ Len(found) \in Nat /\ DOMAIN found = 1..Len(found)
      /\ \A k \in 1..Len(found) : found[k] \in Own \cap (FFs \cup OutPorts)
    BY <1>2
<1>6. \A k \in 1..Len(found) :
          /\ new[k] = [root |-> found[k], id |-> nextID + k - 1]
          /\ new[k].root = found[k] /\ new[k].id = nextID + k - 1
    BY <1>5
<1>7. new \in Seq(Queued) /\ Len(new) = Len(found)
  <2>1. \A k \in 1..Len(found) : nextID + k - 1 \in Nat
      BY <1>3, <1>5
  <2>2. new \in [1..Len(found) -> Queued]
      BY <1>5, <2>1
  <2> HIDE DEF new, Queued
  <2> QED BY <1>5, <2>2, FunctionIsSeq
<1>8. successors' = successors \o new /\ explored' = explored \cup Range(found)
      /\ nextID' = nextID + Len(found)
    BY <1>1
<1>9. \A x \in Queued : x.id \in Nat
    OBVIOUS
<1> DEFINE m == Len(successors)
<1> HIDE DEF new, Queued, S
<1>10. /\ m \in Nat /\ DOMAIN successors = 1..m
       /\ DOMAIN successors' = 1..m + Len(found)
       /\ \A k \in 1..m : successors'[k] = successors[k]
       /\ \A k \in m + 1..m + Len(found) : successors'[k] = new[k - m]
  <2>1. m \in Nat /\ DOMAIN successors = 1..m
      BY <1>3, LenProperties
  <2>2. /\ successors \o new \in Seq(Queued) /\ Len(successors \o new) = m + Len(new)
        /\ \A k \in 1..m + Len(new) :
              (successors \o new)[k] = IF k <= m THEN successors[k] ELSE new[k - m]
      BY <1>3, <1>7, ConcatProperties
  <2>3. DOMAIN successors' = 1..m + Len(found)
      BY <1>7, <1>8, <2>2, LenProperties
  <2>4. \A k \in 1..m + Len(found) :
            successors'[k] = IF k <= m THEN successors[k] ELSE new[k - m]
      BY <1>7, <1>8, <2>2
  <2> HIDE DEF m
  <2>5. \A k \in 1..m : k \in 1..m + Len(found) /\ k <= m
      BY <1>5, <2>1
  <2>6. \A k \in m + 1..m + Len(found) : k \in 1..m + Len(found) /\ ~(k <= m)
      BY <1>5, <2>1
  <2> QED BY <2>1, <2>3, <2>4, <2>5, <2>6
<1> HIDE DEF m
<1>11. \A k \in 1..m : successors'[k].id \in Nat /\ successors'[k].id < nextID
                       /\ successors'[k].root \in explored
  <2>1. \A k \in 1..m : successors[k] \in Queued
      BY <1>3, <1>10
  <2>2. \A k \in 1..m : successors[k].id < nextID /\ successors[k].root \in explored
      BY <1>10 DEF SessionInv, QueueInv
  <2> QED BY <1>9, <1>10, <2>1, <2>2
<1>12. \A k \in m + 1..m + Len(found) :
           /\ successors'[k].id = nextID + (k - m) - 1
           /\ successors'[k].root = found[k - m]
           /\ k - m \in 1..Len(found)
  <2>1. \A k \in m + 1..m + Len(found) : k - m \in 1..Len(found)
      BY <1>5, <1>10
  <2> QED BY <1>6, <1>10, <2>1
<1>13. \A k \in 1..Len(found) : found[k] \in Range(found) /\ found[k] \notin explored
    BY <1>2, <1>5 DEF Range
<1>14. \A k \in DOMAIN successors' : k \in 1..m \/ k \in m + 1..m + Len(found)
    BY <1>5, <1>10
<1>15. \A k \in DOMAIN successors' :
           successors'[k].id < nextID' /\ successors'[k].root \in explored'
  <2> SUFFICES ASSUME NEW k \in DOMAIN successors'
               PROVE  successors'[k].id < nextID' /\ successors'[k].root \in explored'
      OBVIOUS
  <2>1. CASE k \in 1..m
      BY <1>3, <1>5, <1>8, <1>11, <2>1
  <2>2. CASE k \in m + 1..m + Len(found)
    <3>1. k - m \in 1..Len(found) /\ successors'[k].id = nextID + (k - m) - 1
        BY <1>12, <2>2
    <3>2. successors'[k].id < nextID'
        BY <1>3, <1>5, <1>8, <3>1
    <3> QED BY <1>8, <1>12, <1>13, <2>2, <3>2
  <2> QED BY <1>14, <2>1, <2>2
<1>16. ASSUME NEW i \in DOMAIN successors', NEW j \in DOMAIN successors',
              \/ successors'[i].id = successors'[j].id
              \/ successors'[i].root = successors'[j].root
       PROVE  i = j
  <2>1. CASE i \in 1..m /\ j \in 1..m
      BY <1>10, <1>16, <2>1 DEF SessionInv, QueueInv
  <2>2. ASSUME NEW k \in 1..m, NEW l \in m + 1..m + Len(found)
        PROVE  /\ successors'[k].id # successors'[l].id
               /\ successors'[k].root # successors'[l].root
    <3>1. successors'[k].id # successors'[l].id
      <4>1. /\ l - m \in 1..Len(found) /\ successors'[l].id = nextID + (l - m) - 1
            /\ successors'[k].id \in Nat /\ successors'[k].id < nextID
          BY <1>11, <1>12
      <4>2. nextID + (l - m) - 1 \in Nat /\ nextID + (l - m) - 1 >= nextID
          BY <1>3, <1>5, <4>1
      <4> QED BY <1>3, <4>1, <4>2
    <3> QED BY <1>11, <1>12, <1>13, <3>1
  <2>3. CASE i \in m + 1..m + Len(found) /\ j \in m + 1..m + Len(found)
    <3> DEFINE a == i - m
               b == j - m
    <3>1. /\ successors'[i].id = nextID + a - 1 /\ successors'[i].root = found[a]
          /\ successors'[j].id = nextID + b - 1 /\ successors'[j].root = found[b]
          /\ a \in 1..Len(found) /\ b \in 1..Len(found)
        BY <1>12, <2>3
    <3>2. a = b => i = j
        BY <1>10, <2>3
    <3> HIDE DEF a, b
    <3>3. nextID + a - 1 = nextID + b - 1 => a = b
        BY <1>3, <1>5, <3>1
    <3>4. found[a] = found[b] => a = b
        BY <1>2, <1>5, <3>1 DEF NoRepeats
    <3> QED BY <1>16, <3>1, <3>2, <3>3, <3>4
  <2> QED BY <1>14, <1>16, <2>1, <2>2, <2>3
<1>17. \A c \in cones, k \in DOMAIN successors' :
           /\ c.id # successors'[k].id
           /\ c.successor = TRUE => c.root # successors'[k].root
  <2> SUFFICES ASSUME NEW c \in cones, NEW k \in DOMAIN successors'
               PROVE  /\ c.id # successors'[k].id
                      /\ c.successor = TRUE => c.root # successors'[k].root
      OBVIOUS
  <2>1. CASE k \in 1..m
      BY <1>10, <2>1 DEF SessionInv, QueueInv
  <2>2. CASE k \in m + 1..m + Len(found)
    <3>1. c.id \in Nat /\ c.id < nextID /\ (c.successor = TRUE => c.root \in explored)
        BY DEF SessionInv, ConesInv
    <3>2. k - m \in 1..Len(found) /\ successors'[k].id = nextID + (k - m) - 1
        BY <1>12, <2>2
    <3>3. nextID + (k - m) - 1 \in Nat /\ nextID + (k - m) - 1 >= nextID
        BY <1>3, <1>5, <3>2
    <3>4. c.id # successors'[k].id
        BY <1>3, <3>1, <3>2, <3>3
    <3> QED BY <1>12, <1>13, <2>2, <3>1, <3>4
  <2> QED BY <1>14, <2>1, <2>2
<1>18. QueueInv'
    BY <1>4, <1>15, <1>16, <1>17 DEF QueueInv
<1>19. ConesInv'
  <2>1. \A c \in cones : c.id \in Nat /\ c.id < nextID
      BY DEF SessionInv, ConesInv
  <2>2. \A c \in cones : c.id < nextID'
      BY <1>3, <1>5, <1>8, <2>1
  <2> QED BY <1>4, <1>8, <2>2 DEF SessionInv, ConesInv
<1> QED BY <1>18, <1>19

(* It is not lost when another design is loaded: what outlives a command   *)
(* says nothing of the netlist.                                            *)
LEMMA RerunKeeps ==
    ASSUME SessionInv, Rerun
    PROVE  SessionInv'
<1> USE DEF Rerun
<1>1. /\ stage' = "start" /\ netlist' \in Designs
      /\ successors' = <<>> /\ UNCHANGED <<explored, nextID, autoidx, errorSink, cones>>
    OBVIOUS
<1>2. IsGood(netlist)'
    BY <1>1, DesignIsGood
<1>3. ControlInv'
    BY DEF SessionInv, PassInv, ControlInv, Stages
<1>4. QueuesOwn'
    BY DEF QueuesOwn
<1>5. SearchOwn'
    BY DEF SearchOwn
<1>6. AnalysisFits'
    BY DEF AnalysisFits, IsAnalysisOf, NoAnalysis
<1>7. SinkKept' /\ ReplicasReady'
    BY DEF SessionInv, PassInv, SinkKept, ReplicasReady
<1>8. PassInv'
    BY <1>2, <1>3, <1>4, <1>5, <1>6, <1>7 DEF PassInv
<1>9. ConesInv'
    BY <1>1 DEF SessionInv, ConesInv
<1>10. QueueInv'
    BY <1>1 DEF QueueInv
<1> QED BY <1>8, <1>9, <1>10 DEF SessionInv

(* It is inductive.                                                        *)
LEMMA SessionStep == SessionInv /\ [NextSession]_<<vars, sessionVars>> => SessionInv'
<1> SUFFICES ASSUME SessionInv, [NextSession]_<<vars, sessionVars>> PROVE SessionInv'
    OBVIOUS
<1>1. CASE Command
  <2>1. Next
      BY <1>1 DEF Command
  <2>2. PassInv'
      BY <2>1, PassStep DEF SessionInv
  <2>3. ConesInv' /\ QueueInv'
    <3>1. CASE ~Begins /\ UNCHANGED <<successors, explored, nextID>>
        BY <1>1, <3>1 DEF Command, SessionInv, ConesInv, QueueInv
    <3> QED BY <1>1, <2>1, <3>1, QueueSteps, OutputConeKeeps, SuccessorConeKeeps,
               BuildSuccessorsKeepsQueue
  <2> QED BY <2>2, <2>3 DEF SessionInv
<1>2. CASE Rerun
    BY <1>2, RerunKeeps
<1>3. CASE UNCHANGED <<vars, sessionVars>>
  <2>1. UNCHANGED vars /\ UNCHANGED <<cones, successors, explored, nextID>>
      BY <1>3 DEF sessionVars, vars, queueVars
  <2>2. PassInv'
      BY <2>1, PassStep DEF SessionInv
  <2>3. ConesInv' /\ QueueInv'
      BY <2>1 DEF SessionInv, ConesInv, QueueInv
  <2> QED BY <2>2, <2>3 DEF SessionInv
<1> QED BY <1>1, <1>2, <1>3 DEF NextSession

(* The invariant of the session holds, through all its commands.           *)
THEOREM SessionInvariant == SpecSession => []SessionInv
<1>1. InitSession => SessionInv
    BY SessionInit
<1>2. SessionInv /\ [NextSession]_<<vars, sessionVars>> => SessionInv'
    BY SessionStep
<1> QED BY <1>1, <1>2, PTL DEF SpecSession

-----------------------------------------------------------------------------
(* What follows from the invariant.                                        *)

(* All that a command holds on to is of its own design, or None.           *)
LEMMA HoldsOwn ==
    ASSUME PassInv
    PROVE  OwnObjects
<1> DEFINE objects == DOMAIN netlist.cells \cup DOMAIN netlist.wires
<1>1. Own \subseteq objects
    BY DEF Own
<1>2. /\ Range(frontier) \subseteq Own /\ Range(cone) \subseteq Own
      /\ Range(inputNodes) \subseteq Own
  <2>1. frontier \in Seq(Own) /\ cone \in Seq(Own) /\ inputNodes \in Seq(Own)
      BY DEF PassInv, SearchOwn
  <2> QED BY <2>1 DEF Range
<1>3. outputNode \in Own \cup {None} /\ voterCutPoint \in Own \cup {None}
    BY DEF PassInv, SearchOwn
<1>4. {s.root : s \in Range(successors)} \subseteq Own
  <2> DEFINE Queued == [root : Own \cap (FFs \cup OutPorts), id : Nat]
  <2>1. \A s \in Queued : s.root \in Own
      OBVIOUS
  <2>2. successors \in Seq(Queued)
      BY DEF PassInv, QueuesOwn
  <2> HIDE DEF Queued
  <2>3. Range(successors) \subseteq Queued
      BY <2>2 DEF Range
  <2> QED BY <2>1, <2>3
<1>5. ASSUME stage \notin {"start", "failed"}
      PROVE  /\ errorSink = None <=> Sinks = {}
             /\ errorSink \in objects \cup {None}
    BY <1>5 DEF PassInv, SinkKept
<1> HIDE DEF objects
<1>6. ASSUME stage \notin {"start", "failed"}
      PROVE  Range(frontier) \cup Range(cone) \cup Range(inputNodes)
                \cup {outputNode, voterCutPoint, errorSink}
                \cup {s.root : s \in Range(successors)} \subseteq objects \cup {None}
    BY <1>1, <1>2, <1>3, <1>4, <1>5, <1>6
<1> QED BY <1>5, <1>6 DEF OwnObjects, objects

(* The cones of successors, begun and queued, and their roots.             *)
SuccessorCones ==
    {[id |-> c.id, root |-> c.root] : c \in {d \in cones : d.successor}}
        \cup Range(successors)

(* There are finitely many at any time.                                    *)
LEMMA SuccessorConesFinite ==
    ASSUME SessionInv
    PROVE  IsFiniteSet(SuccessorCones)
<1> DEFINE B == {d \in cones : d.successor}
           f == [c \in B |-> [id |-> c.id, root |-> c.root]]
           A == {[id |-> c.id, root |-> c.root] : c \in B}
<1>1. IsFiniteSet(B)
  <2>1. IsFiniteSet(cones) /\ B \subseteq cones
      BY DEF SessionInv, ConesInv
  <2> QED BY <2>1, FS_Subset
<1>2. f \in [B -> A] /\ Range(f) = A
    BY DEF Range
<1>3. IsFiniteSet(A)
  <2> HIDE DEF A, B, f
  <2> QED BY <1>1, <1>2, ImageIsFinite
<1>4. IsFiniteSet(Range(successors))
  <2> DEFINE Queued == [root : Own \cap (FFs \cup OutPorts), id : Nat]
  <2>1. successors \in Seq(Queued)
      BY DEF SessionInv, PassInv, QueuesOwn
  <2> HIDE DEF Queued
  <2>2. Len(successors) \in Nat /\ successors \in [1..Len(successors) -> Queued]
      BY <2>1
  <2>3. IsFiniteSet(1..Len(successors))
      BY <2>2, FS_Interval
  <2> QED BY <2>2, <2>3, ImageIsFinite
<1> QED BY <1>3, <1>4, FS_Union DEF SuccessorCones

(* No two of them have one root.                                           *)
LEMMA OneConePerRoot ==
    ASSUME SessionInv, NEW c \in SuccessorCones, NEW d \in SuccessorCones, c.root = d.root
    PROVE  c = d
<1> DEFINE A == {[id |-> x.id, root |-> x.root] : x \in {y \in cones : y.successor}}
<1>1. \A x \in cones : x.successor \in BOOLEAN
    BY DEF SessionInv, ConesInv
<1>2. ASSUME NEW a \in A
      PROVE  \E x \in cones : x.successor = TRUE /\ a = [id |-> x.id, root |-> x.root]
                            /\ a.root = x.root
    BY <1>1
<1>3. ASSUME NEW a \in Range(successors)
      PROVE  \E k \in DOMAIN successors : a = successors[k]
    BY DEF Range
<1>4. (c \in A \/ c \in Range(successors)) /\ (d \in A \/ d \in Range(successors))
    BY DEF SuccessorCones
<1> HIDE DEF A
<1>5. CASE c \in A /\ d \in A
  <2>1. PICK x \in cones : x.successor = TRUE /\ c = [id |-> x.id, root |-> x.root]
                            /\ c.root = x.root
      BY <1>2, <1>5
  <2>2. PICK y \in cones : y.successor = TRUE /\ d = [id |-> y.id, root |-> y.root]
                            /\ d.root = y.root
      BY <1>2, <1>5
  <2>3. x = y
      BY <2>1, <2>2 DEF SessionInv, ConesInv
  <2> QED BY <2>1, <2>2, <2>3
<1>6. ASSUME NEW a \in A, NEW q \in Range(successors)
      PROVE  a.root # q.root
  <2>1. PICK x \in cones : x.successor = TRUE /\ a.root = x.root
      BY <1>2
  <2>2. PICK k \in DOMAIN successors : q = successors[k]
      BY <1>3
  <2>3. x.root # successors[k].root
      BY <2>1 DEF SessionInv, QueueInv
  <2> QED BY <2>1, <2>2, <2>3
<1>7. CASE c \in Range(successors) /\ d \in Range(successors)
    BY <1>3, <1>7 DEF SessionInv, QueueInv
<1> QED BY <1>4, <1>5, <1>6, <1>7

(* The invariant has one cone for each successor.                          *)
LEMMA OneConeEach ==
    ASSUME SessionInv
    PROVE  OneConePerSuccessor
<1> DEFINE roots == {c.root : c \in SuccessorCones}
           f == [c \in SuccessorCones |-> c.root]
<1>1. f \in Bijection(SuccessorCones, roots)
  <2>1. f \in Injection(SuccessorCones, roots)
      BY OneConePerRoot, Fun_IsInj
  <2>2. f \in Surjection(SuccessorCones, roots)
      BY DEF Surjection
  <2> QED BY <2>1, <2>2 DEF Bijection
<1>2. Cardinality(roots) = Cardinality(SuccessorCones)
  <2>1. ExistsBijection(SuccessorCones, roots)
      BY <1>1 DEF ExistsBijection
  <2> QED BY <2>1, SuccessorConesFinite, FS_Bijection
<1>3. \A i, j \in DOMAIN successors : successors[i] = successors[j] => i = j
    BY DEF SessionInv, QueueInv
<1> QED BY <1>2, <1>3 DEF OneConePerSuccessor, SuccessorCones

-----------------------------------------------------------------------------

(* What holds of one command holds of each of a session.                   *)
THEOREM SessionKeepsTypesAndPairs == SpecSession => [](TypeOK /\ ReplicaPairs)
<1>1. SessionInv => TypeOK /\ ReplicaPairs
    BY InvIsTyped, GoodHasPairs DEF SessionInv, PassInv
<1> QED BY <1>1, SessionInvariant, PTL

(* Only the next command may annotate an object anew, on another design.   *)
THEOREM SessionKeepsConesAndInputs == SpecSession => FirstConeWins /\ OriginalsKeepInputs
<1>1. ASSUME SessionInv, [NextSession]_<<vars, sessionVars>>
      PROVE  /\ [Running =>
                   \A x \in DOMAIN Objects(netlist) :
                      Objects(netlist)[x].cone # NoCone =>
                         Objects(netlist)'[x].cone = Objects(netlist)[x].cone]_vars
             /\ [Running =>
                   \A c \in DOMAIN netlist.cells :
                      Len(c) = 1 => netlist'.cells[c].ins = netlist.cells[c].ins]_vars
  <2>1. CASE Rerun
      BY <2>1 DEF Rerun, Running
  <2>2. CASE [Next]_vars
    <3>1. NetStep /\ IsGood(netlist)
        BY <1>1, <2>2, EveryStepIsNetStep DEF SessionInv, PassInv
    <3> QED BY <3>1, ConesKept, InputsKept
  <2>3. UNCHANGED <<vars, sessionVars>> => UNCHANGED vars
      OBVIOUS
  <2> QED BY <1>1, <2>1, <2>2, <2>3 DEF NextSession, Command
<1> QED BY <1>1, SessionInvariant, PTL DEF SpecSession, FirstConeWins, OriginalsKeepInputs

(* Names and a pointer outlive a command, but it never works on what is    *)
(* not in its own design.                                                  *)
THEOREM CommandsHoldTheirOwn == SpecSession => []OwnObjects
<1>1. SessionInv => OwnObjects
    BY HoldsOwn DEF SessionInv
<1> QED BY <1>1, SessionInvariant, PTL

(* The cone counter is static and never set back: no id is given twice.    *)
THEOREM IDsStayUnique == SpecSession => []ConeIDsUnique
<1>1. SessionInv => ConeIDsUnique
    BY DEF SessionInv, ConesInv, ConeIDsUnique
<1> QED BY <1>1, SessionInvariant, PTL

(* However many cones of however many commands end at a node, it is queued *)
(* once.                                                                   *)
THEOREM SuccessorsQueuedOnce == SpecSession => []OneConePerSuccessor
<1>1. SessionInv => OneConePerSuccessor
    BY OneConeEach
<1> QED BY <1>1, SessionInvariant, PTL

(* So the second loops of a session run no more often than there are       *)
(* flip-flops and output ports.                                            *)
THEOREM SuccessorConesBounded ==
    SpecSession => [](Cardinality(SuccessorCones) <= Cardinality(FFs \cup OutPorts))
<1>1. ASSUME SessionInv
      PROVE  Cardinality(SuccessorCones) <= Cardinality(FFs \cup OutPorts)
  <2> DEFINE f == [c \in SuccessorCones |-> c.root]
  <2>1. IsFiniteSet(FFs \cup OutPorts)
    <3>1. IsFiniteSet(Wires \cup Cells) /\ FFs \cup OutPorts \subseteq Wires \cup Cells
        BY NameAssumption
    <3> QED BY <3>1, FS_Subset
  <2>2. \A c \in SuccessorCones : c.root \in FFs \cup OutPorts
    <3>1. \A c \in cones : c.root \in FFs \cup OutPorts
        BY <1>1 DEF SessionInv, ConesInv
    <3> DEFINE Queued == [root : Own \cap (FFs \cup OutPorts), id : Nat]
    <3>2. \A s \in Queued : s.root \in FFs \cup OutPorts
        OBVIOUS
    <3>3. successors \in Seq(Queued)
        BY <1>1 DEF SessionInv, PassInv, QueuesOwn
    <3> HIDE DEF Queued
    <3>4. Range(successors) \subseteq Queued
        BY <3>3 DEF Range
    <3> QED BY <3>1, <3>2, <3>4 DEF SuccessorCones
  <2>3. f \in Injection(SuccessorCones, FFs \cup OutPorts)
      BY <1>1, <2>2, OneConePerRoot, Fun_IsInj
  <2> QED BY <2>1, <2>3, FS_Injection
<1> QED BY <1>1, SessionInvariant, PTL

-----------------------------------------------------------------------------
(* Voters.  What the wiring needs is of the design and the command alone,  *)
(* so another command starts with it anew.                                 *)
LEMMA RerunWiring ==
    ASSUME SessionInv, WiringInv, Rerun
    PROVE  WiringInv'
<1>1. /\ netlist' \in Designs /\ connections' = NoAnalysis /\ successors' = <<>>
      /\ frontier' = <<>> /\ visited' = {} /\ inputNodes' = <<>>
      /\ voterCutPoint' = None /\ first' = TRUE /\ stage' = "start"
    BY DEF Rerun
<1>2. NamesFresh'
  <2>1. Cells \cup Wires \subseteq Names
      BY DEF Names
  <2>2. \A y \in DOMAIN netlist'.cells \cup DOMAIN netlist'.wires : y \notin Generated
      BY <1>1, <2>1, DesignAssumption, GeneratedNames
  <2> QED BY <2>2 DEF NamesFresh
<1>3. WidthsKnown' /\ DriveOne'
    BY <1>1 DEF NoAnalysis, WidthsKnown, DriveOne
<1>4. SearchReach'
    BY <1>1 DEF SearchReach, Range
<1>5. RootsSafe'
    BY <1>1 DEF RootsSafe
<1> QED BY <1>2, <1>3, <1>4, <1>5 DEF WiringInv

(* The wiring invariant holds through all commands of a session.           *)
THEOREM SessionWiring == SpecSession => []WiringInv
<1>1. InitSession => WiringInv
    BY WiringInit DEF InitSession
<1>2. ASSUME SessionInv, WiringInv, [NextSession]_<<vars, sessionVars>>
      PROVE  WiringInv'
  <2>1. CASE Rerun
      BY <1>2, <2>1, RerunWiring
  <2>2. CASE [Next]_vars
      BY <1>2, <2>2, WiringStep DEF SessionInv
  <2>3. UNCHANGED <<vars, sessionVars>> => UNCHANGED vars
      OBVIOUS
  <2> QED BY <1>2, <2>1, <2>2, <2>3 DEF NextSession, Command
<1> QED BY <1>1, <1>2, SessionInvariant, PTL DEF SpecSession

(* Every voter of every command is born on the three copies of one cell,   *)
(* one on each input, and is alone on its output wire.                     *)
THEOREM SessionVotersStand == SpecSession => VoterOnTriple
<1>1. ASSUME SessionInv, WiringInv, [NextSession]_<<vars, sessionVars>>
      PROVE  [\A v \in DOMAIN netlist'.cells \ DOMAIN netlist.cells :
                Running /\ netlist'.cells[v].type = "voter" =>
                   /\ \A k \in 1..3 :
                         DriversOfSignal(netlist', netlist'.cells[v].ins[k]) =
                            {<<Replica(voterCutPoint, 1, netlist'.cells[voterCutPoint].cone),
                               Replica(voterCutPoint, 2, netlist'.cells[voterCutPoint].cone),
                               voterCutPoint>>[k]}
                   /\ \A c \in DOMAIN netlist'.cells \ {v} :
                         netlist'.cells[v].outs[1] \notin Range(netlist'.cells[c].outs)]_vars
  <2>1. CASE Rerun
      BY <2>1 DEF Rerun, Running
  <2>2. CASE [Next]_vars
      BY <1>1, <2>2, WiringStep DEF SessionInv, StandsOnTriple
  <2>3. UNCHANGED <<vars, sessionVars>> => UNCHANGED vars
      OBVIOUS
  <2> QED BY <1>1, <2>1, <2>2, <2>3 DEF NextSession, Command
<1> QED BY <1>1, SessionInvariant, SessionWiring, PTL DEF SpecSession, VoterOnTriple
=============================================================================
