--------------------------- MODULE HashTableProofs ---------------------------
(***************************************************************************)
(* Proofs that the hash table is a list of distinct keys and finds each of *)
(* them, for any keys, hash values and sizes.                              *)
(*                                                                         *)
(* The argument: the buckets are a ring (IsRing), in which every bucket in *)
(* use lies as many buckets from its home as it says, holds no more than   *)
(* the one before it plus one step, and is the only one with its index;    *)
(* somewhere the order breaks off, so that a walk around the ring stops.   *)
(* Placing a bucket and closing a gap move a stretch of the ring by one    *)
(* and keep all of this (PlacingKeepsRing, ClosingKeepsRing), and so does  *)
(* giving an index another number (RenamingKeepsRing), which erasure does  *)
(* with the last value.  In such a ring the loops of the code end where    *)
(* the key is, or where it would have to be (ProbesFindValue,              *)
(* ProbesMissOthers).  A table (IsTable) has such a ring over its values,  *)
(* which are distinct and not too many.  Operations with a loop over       *)
(* values are sequences of tables, turn by turn, of which the same is      *)
(* shown by counting up.                                                   *)
(***************************************************************************)
EXTENDS HashTable, SequenceLemmas
-----------------------------------------------------------------------------
(***************************************************************************)
(* Numbers.                                                                *)
(***************************************************************************)

(* There is a fingerprint, so the distances of one key differ.             *)
LEMMA FingerprintsFact == Fingerprints \in Nat \ {0}
BY TableAssumption

(* Counting up: a set of numbers that holds the first of 0..m and with     *)
(* every number the next holds them all.                                   *)
LEMMA CountUp ==
    ASSUME NEW m \in Nat, NEW T, 0 \in T,
           \A e \in 1..m : e - 1 \in T => e \in T
    PROVE  \A e \in 0..m : e \in T
<1> DEFINE missed == {e \in 0..m : e \notin T}
<1> SUFFICES ASSUME missed # {} PROVE FALSE
    OBVIOUS
<1>1. PICK e \in missed : \A x \in missed : e <= x
  <2>1. missed \in SUBSET Nat
      OBVIOUS
  <2> HIDE DEF missed
  <2> QED BY <2>1, LeastNumber
<1>2. e \in 1..m /\ e - 1 \notin missed /\ e - 1 \in 0..m
    BY <1>1
<1> QED BY <1>1, <1>2

(* Counting down from m.                                                   *)
LEMMA CountDown ==
    ASSUME NEW m \in Nat, NEW T, m \in T,
           \A e \in 1..m : e \in T => e - 1 \in T
    PROVE  \A e \in 0..m : e \in T
<1> DEFINE U == {e \in 0..m : m - e \in T}
<1>1. 0 \in U
    OBVIOUS
<1>2. ASSUME NEW e \in 1..m, e - 1 \in U
      PROVE  e \in U
  <2>1. m - e + 1 \in 1..m /\ m - e + 1 = m - (e - 1) /\ (m - e + 1) - 1 = m - e
      OBVIOUS
  <2> QED BY <1>2, <2>1
<1>3. \A e \in 0..m : e \in U
  <2> HIDE DEF U
  <2> QED BY <1>1, <1>2, CountUp
<1>4. ASSUME NEW e \in 0..m PROVE e \in T
  <2>1. m - e \in 0..m /\ m - (m - e) = e
      OBVIOUS
  <2> QED BY <1>3, <2>1
<1> QED BY <1>4

(* Where an index beyond n wraps around.                                   *)
LEMMA ModSmall ==
    ASSUME NEW n \in Nat \ {0}, NEW a \in 0..(2 * n - 1)
    PROVE  a % n = IF a < n THEN a ELSE a - n
OBVIOUS

(* The bucket j steps of next() behind bucket s, and the one before s.     *)
Ahead(s, j, n) == (s + j) % n
Before(s, n) == (s + n - 1) % n

(* How far x is ahead of s.                                                *)
Offset(x, s, n) == (x + n - s) % n

(* Going around the ring of n buckets from any of them visits every bucket *)
(* once, and each right behind the one before it.                          *)
LEMMA AheadValue ==
    ASSUME NEW n \in Nat \ {0}, NEW s \in 0..(n - 1), NEW j \in 0..n
    PROVE  /\ Ahead(s, j, n) = IF s + j < n THEN s + j ELSE s + j - n
           /\ Ahead(s, j, n) \in 0..(n - 1)
<1> DEFINE a == s + j
<1>1. a \in 0..(2 * n - 1)
    OBVIOUS
<1>2. a % n = IF a < n THEN a ELSE a - n
  <2> HIDE DEF a
  <2> QED BY <1>1, ModSmall
<1>3. Ahead(s, j, n) = a % n
    BY DEF Ahead
<1> QED BY <1>1, <1>2, <1>3

(* Every bucket is one number of steps ahead of another, below n.          *)
LEMMA OffsetValue ==
    ASSUME NEW n \in Nat \ {0}, NEW s \in 0..(n - 1), NEW x \in 0..(n - 1)
    PROVE  /\ Offset(x, s, n) \in 0..(n - 1)
           /\ Ahead(s, Offset(x, s, n), n) = x
           /\ \A j \in 0..(n - 1) : Ahead(s, j, n) = x => j = Offset(x, s, n)
<1> DEFINE a == x + n - s
<1>1. a \in 0..(2 * n - 1)
    OBVIOUS
<1>2. a % n = IF a < n THEN a ELSE a - n
  <2> HIDE DEF a
  <2> QED BY <1>1, ModSmall
<1>3. Offset(x, s, n) = IF x < s THEN x + n - s ELSE x - s
  <2>1. Offset(x, s, n) = a % n
      BY DEF Offset
  <2> QED BY <1>2, <2>1
<1>4. Offset(x, s, n) \in 0..(n - 1)
    BY <1>3
<1>5. Ahead(s, Offset(x, s, n), n) = x
  <2> DEFINE j == Offset(x, s, n)
  <2>1. j \in 0..n
      BY <1>4
  <2>2. Ahead(s, j, n) = IF s + j < n THEN s + j ELSE s + j - n
    <3> HIDE DEF j
    <3> QED BY <2>1, AheadValue
  <2> QED BY <2>2, <1>3
<1>6. ASSUME NEW j \in 0..(n - 1), Ahead(s, j, n) = x
      PROVE  j = Offset(x, s, n)
  <2>1. j \in 0..n
      OBVIOUS
  <2>2. Ahead(s, j, n) = IF s + j < n THEN s + j ELSE s + j - n
      BY <2>1, AheadValue
  <2> QED BY <2>2, <1>3, <1>6
<1> QED BY <1>4, <1>5, <1>6

(* The bucket before the first is the last one.                            *)
LEMMA BeforeValue ==
    ASSUME NEW n \in Nat \ {0}, NEW s \in 0..(n - 1)
    PROVE  /\ Before(s, n) = IF s = 0 THEN n - 1 ELSE s - 1
           /\ Before(s, n) \in 0..(n - 1)
<1> DEFINE a == s + n - 1
<1>1. a \in 0..(2 * n - 1)
    OBVIOUS
<1>2. a % n = IF a < n THEN a ELSE a - n
  <2> HIDE DEF a
  <2> QED BY <1>1, ModSmall
<1>3. Before(s, n) = a % n
    BY DEF Before
<1> QED BY <1>2, <1>3

(* No step, and n steps, lead back to the bucket.                          *)
LEMMA RingEnds ==
    ASSUME NEW n \in Nat \ {0}, NEW s \in 0..(n - 1)
    PROVE  Ahead(s, 0, n) = s /\ Ahead(s, n, n) = s
<1>1. 0 \in 0..n /\ n \in 0..n
    OBVIOUS
<1>2. Ahead(s, 0, n) = IF s + 0 < n THEN s + 0 ELSE s + 0 - n
    BY <1>1, AheadValue
<1>3. Ahead(s, n, n) = IF s + n < n THEN s + n ELSE s + n - n
    BY <1>1, AheadValue
<1> QED BY <1>2, <1>3

(* Going on from a bucket every other one is met.                          *)
LEMMA RingCovers ==
    ASSUME NEW n \in Nat \ {0}, NEW s \in 0..(n - 1), NEW x \in 0..(n - 1)
    PROVE  \E j \in 0..(n - 1) : x = Ahead(s, j, n)
BY OffsetValue

(* In fewer than n steps no bucket is met twice.                           *)
LEMMA RingVisitsOnce ==
    ASSUME NEW n \in Nat \ {0}, NEW s \in 0..(n - 1),
           NEW j \in 0..(n - 1), NEW k \in 0..(n - 1), Ahead(s, j, n) = Ahead(s, k, n)
    PROVE  j = k
<1>1. j \in 0..n /\ k \in 0..n
    OBVIOUS
<1>2. Ahead(s, j, n) = IF s + j < n THEN s + j ELSE s + j - n
    BY <1>1, AheadValue
<1>3. Ahead(s, k, n) = IF s + k < n THEN s + k ELSE s + k - n
    BY <1>1, AheadValue
<1>4. (IF s + j < n THEN s + j ELSE s + j - n) = (IF s + k < n THEN s + k ELSE s + k - n)
    BY <1>2, <1>3
<1> QED BY <1>4

(* The bucket before the one that is j steps ahead is j - 1 steps ahead.   *)
LEMMA RingSteps ==
    ASSUME NEW n \in Nat \ {0}, NEW s \in 0..(n - 1), NEW j \in 1..n
    PROVE  Before(Ahead(s, j, n), n) = Ahead(s, j - 1, n)
<1>1. j \in 0..n /\ j - 1 \in 0..n
    OBVIOUS
<1>2. /\ Ahead(s, j, n) = IF s + j < n THEN s + j ELSE s + j - n
      /\ Ahead(s, j, n) \in 0..(n - 1)
      /\ Ahead(s, j - 1, n) = IF s + (j - 1) < n THEN s + (j - 1) ELSE s + (j - 1) - n
    BY <1>1, AheadValue
<1>3. Before(Ahead(s, j, n), n) = IF Ahead(s, j, n) = 0 THEN n - 1 ELSE Ahead(s, j, n) - 1
    BY <1>2, BeforeValue
<1> QED BY <1>2, <1>3

(* The bucket before s is the last one that is met from s.                 *)
LEMMA RingCloses ==
    ASSUME NEW n \in Nat \ {0}, NEW s \in 0..(n - 1)
    PROVE  Before(s, n) = Ahead(s, n - 1, n)
<1>1. n \in 1..n
    OBVIOUS
<1> QED BY <1>1, RingEnds, RingSteps

(* What a bucket d steps behind home holds for a key with fingerprint f.   *)
Level(d, f) == ((d + 1) * Fingerprints) + f

(* The level tells the distance, whatever the fingerprints.                *)
LEMMA LevelFacts ==
    ASSUME NEW d \in Nat, NEW f \in 0..(Fingerprints - 1)
    PROVE  /\ Level(d, f) \in Nat
           /\ Level(d, f) >= Fingerprints
           /\ Level(d + 1, f) = Level(d, f) + Fingerprints
           /\ Level(d, f) >= 2 * Fingerprints <=> d >= 1
<1> DEFINE m == d * Fingerprints
<1>1. /\ m \in Nat
      /\ (d + 1) * Fingerprints = m + Fingerprints
      /\ (d + 1 + 1) * Fingerprints = m + Fingerprints + Fingerprints
    BY FingerprintsFact
<1>2. d >= 1 => m >= Fingerprints
    BY FingerprintsFact
<1>3. d = 0 => m = 0
    BY FingerprintsFact
<1> QED BY <1>1, <1>2, <1>3, FingerprintsFact DEF Level

(* A bucket further from home holds more, whatever the fingerprints.       *)
LEMMA LevelLess ==
    ASSUME NEW d \in Nat, NEW e \in Nat, d < e,
           NEW f \in 0..(Fingerprints - 1), NEW g \in 0..(Fingerprints - 1)
    PROVE  Level(d, f) < Level(e, g)
<1>1. (e + 1) * Fingerprints >= (d + 2) * Fingerprints
    BY FingerprintsFact
<1>2. (d + 2) * Fingerprints = (d + 1) * Fingerprints + Fingerprints
    BY FingerprintsFact
<1>3. (d + 1) * Fingerprints \in Nat /\ (e + 1) * Fingerprints \in Nat
    BY FingerprintsFact
<1> QED BY <1>1, <1>2, <1>3, FingerprintsFact DEF Level
-----------------------------------------------------------------------------
(***************************************************************************)
(* The buckets.  The index i of a value has a home bucket home[i] and a    *)
(* fingerprint mark[i]; I holds the indices that are in the buckets.       *)
(***************************************************************************)

(* What buckets hold, and rings of n of them.                              *)
Entries == [df : Nat, idx : Nat]
Rings(n) == [0..(n - 1) -> Entries]

(* Only an empty bucket has no distance.                                   *)
EmptyIsEmpty(n, B) == \A s \in 0..(n - 1) : B[s].df = 0 => B[s] = Empty

(* A bucket in use is as far from home as it says.                         *)
FromHome(n, b, s, home, mark) ==
    \E d \in 0..(n - 1) : /\ s = Ahead(home[b.idx], d, n)
                          /\ b.df = Level(d, mark[b.idx])

(* Every bucket in use is, and knows an index.                             *)
AsFarAsItSays(n, B, I, home, mark) ==
    \A s \in 0..(n - 1) :
        B[s].df # 0 => B[s].idx \in I /\ FromHome(n, B[s], s, home, mark)

(* No bucket is more than one step further from home than the one before.  *)
Ordered(n, B) ==
    \A s \in 0..(n - 1) :
        B[s].df >= 2 * Fingerprints => B[Before(s, n)].df + Fingerprints >= B[s].df

(* Some bucket is empty or at home, even if all are used.                  *)
Broken(n, B) == \E s \in 0..(n - 1) : B[s].df < 2 * Fingerprints

(* Every index has a bucket.                                               *)
Known(n, B, I) == \A i \in I : \E s \in 0..(n - 1) : B[s].df # 0 /\ B[s].idx = i

(* No two buckets have the same index.                                     *)
Once(n, B) ==
    \A s, x \in 0..(n - 1) : B[s].df # 0 /\ B[x].df # 0 /\ B[s].idx = B[x].idx => s = x

(* All of it: buckets that the loops of the code can rely on.              *)
IsRing(n, B, I, home, mark) ==
    /\ n \in Nat \ {0, 1} /\ B \in Rings(n) /\ I \subseteq Nat
    /\ \A i \in I : home[i] \in 0..(n - 1) /\ mark[i] \in 0..(Fingerprints - 1)
    /\ EmptyIsEmpty(n, B)
    /\ AsFarAsItSays(n, B, I, home, mark)
    /\ Ordered(n, B)
    /\ Broken(n, B)
    /\ Known(n, B, I)
    /\ Once(n, B)

(* Between its home and a bucket all buckets are used, by keys at least as *)
(* far from their homes as this key would be there.                        *)
LEMMA PathFromHome ==
    ASSUME NEW n, NEW B, NEW I, NEW home, NEW mark, IsRing(n, B, I, home, mark),
           NEW i \in I, NEW d \in 0..(n - 1),
           B[Ahead(home[i], d, n)].df >= Level(d, mark[i])
    PROVE  \A e \in 0..d : B[Ahead(home[i], e, n)].df >= Level(e, mark[i])
<1> DEFINE h == home[i]
           f == mark[i]
           T == {e \in 0..d : B[Ahead(h, e, n)].df >= Level(e, f)}
<1>1. n \in Nat \ {0} /\ h \in 0..(n - 1) /\ f \in 0..(Fingerprints - 1)
    BY DEF IsRing
<1>2. \A x \in 0..(n - 1) : B[x].df \in Nat
    BY DEF IsRing, Rings, Entries
<1>3. d \in Nat /\ d \in T
    OBVIOUS
<1>4. ASSUME NEW e \in 1..d, e \in T
      PROVE  e - 1 \in T
  <2>1. e - 1 \in 0..d /\ e \in 1..n /\ e \in 0..n /\ e - 1 \in Nat /\ e \in Nat /\ (e - 1) + 1 = e
      BY <1>1
  <2>2. /\ Ahead(h, e, n) \in 0..(n - 1)
        /\ Before(Ahead(h, e, n), n) = Ahead(h, e - 1, n)
    <3>1. h \in 0..(n - 1) /\ n \in Nat \ {0}
        BY <1>1
    <3> HIDE DEF h
    <3>2. Ahead(h, e, n) \in 0..(n - 1)
        BY <3>1, <2>1, AheadValue
    <3>3. Before(Ahead(h, e, n), n) = Ahead(h, e - 1, n)
        BY <3>1, <2>1, RingSteps
    <3> QED BY <3>2, <3>3
  <2>3. Level(e, f) >= 2 * Fingerprints /\ Level(e, f) \in Nat
    <3> HIDE DEF f
    <3> QED BY <1>1, <2>1, LevelFacts
  <2>4. Level(e, f) = Level(e - 1, f) + Fingerprints /\ Level(e - 1, f) \in Nat
    <3> DEFINE g == e - 1
    <3>1. g \in Nat /\ g + 1 = e
        BY <2>1
    <3>2. Level(g + 1, f) = Level(g, f) + Fingerprints /\ Level(g, f) \in Nat
      <4> HIDE DEF g, f
      <4> QED BY <1>1, <3>1, LevelFacts
    <3> QED BY <3>1, <3>2
  <2>5. B[Ahead(h, e, n)].df >= Level(e, f)
      BY <1>4
  <2>6. B[Ahead(h, e, n)].df >= 2 * Fingerprints
      BY <2>5, <2>3, <2>2, <1>2, FingerprintsFact
  <2>7. B[Ahead(h, e - 1, n)].df + Fingerprints >= B[Ahead(h, e, n)].df
      BY <2>2, <2>6 DEF IsRing, Ordered
  <2>8. Ahead(h, e - 1, n) \in 0..(n - 1)
    <3> DEFINE g == e - 1
    <3>1. g \in 0..n /\ h \in 0..(n - 1) /\ n \in Nat \ {0}
        BY <1>1
    <3>2. Ahead(h, g, n) \in 0..(n - 1)
      <4> HIDE DEF h, g
      <4> QED BY <3>1, AheadValue
    <3> QED BY <3>2
  <2>9. B[Ahead(h, e - 1, n)].df >= Level(e - 1, f)
      BY <2>7, <2>5, <2>4, <2>8, <2>2, <1>2, FingerprintsFact
  <2> QED BY <2>9, <2>1
<1>5. \A e \in 0..d : e \in T
  <2> HIDE DEF T
  <2> QED BY <1>3, <1>4, CountDown
<1> QED BY <1>5

(* While there is an empty bucket no key is so far from home that its      *)
(* bucket could not move on.                                               *)
LEMMA RoomBehind ==
    ASSUME NEW n, NEW B, NEW I, NEW home, NEW mark, IsRing(n, B, I, home, mark),
           NEW i \in I, NEW d \in 0..(n - 1),
           B[Ahead(home[i], d, n)].df >= Level(d, mark[i]),
           NEW x \in 0..(n - 1), B[x].df = 0
    PROVE  d + 1 \in 0..(n - 1)
<1>1. n \in Nat \ {0} /\ home[i] \in 0..(n - 1) /\ mark[i] \in 0..(Fingerprints - 1)
    BY DEF IsRing
<1>2. PICK e \in 0..(n - 1) : x = Ahead(home[i], e, n)
  <2> DEFINE h == home[i]
  <2>1. h \in 0..(n - 1)
      BY <1>1
  <2>2. n \in Nat \ {0} /\ x \in 0..(n - 1)
      BY <1>1
  <2>3. \E e \in 0..(n - 1) : x = Ahead(h, e, n)
    <3> HIDE DEF h
    <3> QED BY <2>1, <2>2, RingCovers
  <2> QED BY <2>3
<1>3. Level(e, mark[i]) \in Nat /\ Level(e, mark[i]) >= Fingerprints
    BY <1>1, LevelFacts
<1>4. ~(e <= d)
    BY <1>2, <1>3, PathFromHome, FingerprintsFact
<1> QED BY <1>4, <1>1

(* What place_and_shift_up makes of the buckets B.                         *)
ShiftedUp(n, B, C, b, p, room) ==
    /\ C \in Rings(n)
    /\ B[Ahead(p, room, n)] = Empty
    /\ \A j \in 0..(room - 1) : B[Ahead(p, j, n)] # Empty
    /\ C[p] = b
    /\ \A j \in 1..room : C[Ahead(p, j, n)] =
          [df |-> B[Ahead(p, j - 1, n)].df + Fingerprints, idx |-> B[Ahead(p, j - 1, n)].idx]
    /\ \A j \in (room + 1)..(n - 1) : C[Ahead(p, j, n)] = B[Ahead(p, j, n)]

(* place_and_shift_up ends at the first empty bucket, if there is one, and *)
(* is what ShiftedUp says.                                                 *)
LEMMA PlaceAndShiftUpFacts ==
    ASSUME NEW n \in Nat \ {0, 1}, NEW B \in Rings(n), NEW b \in Entries,
           NEW p \in 0..(n - 1), NEW x \in 0..(n - 1), B[x] = Empty
    PROVE  \E room \in 0..(n - 1) : ShiftedUp(n, B, PlaceAndShiftUp(B, b, p), b, p, room)
<1> DEFINE At(j) == (p + j) % n
           free == {j \in 0..(n - 1) : B[At(j)] = Empty}
           room == Min(free)
           PlacedAt(j) == IF j = 0 THEN b
                          ELSE [B[At(j - 1)] EXCEPT !.df = @ + Fingerprints]
           C == [s \in DOMAIN B |->
                    LET j == (s + n - p) % n IN IF j <= room THEN PlacedAt(j) ELSE B[s]]
<1>1. DOMAIN B = 0..(n - 1) /\ Cardinality(DOMAIN B) = n
    BY FS_Interval DEF Rings
<1>2. PlaceAndShiftUp(B, b, p) = C
    BY <1>1 DEF PlaceAndShiftUp
<1>3. \A j : At(j) = Ahead(p, j, n)
    BY DEF Ahead
<1>4. room \in free /\ \A j \in free : room <= j
  <2>1. free \in SUBSET Nat
      OBVIOUS
  <2>2. PICK j \in 0..(n - 1) : x = Ahead(p, j, n)
      BY RingCovers
  <2>3. j \in free
      BY <2>2, <1>3
  <2>4. \E r \in free : \A j_1 \in free : r <= j_1
    <3> HIDE DEF free
    <3> QED BY <2>1, <2>3, LeastNumber
  <2> HIDE DEF free
  <2> QED BY <2>4 DEF Min
<1>5. room \in 0..(n - 1) /\ B[Ahead(p, room, n)] = Empty
    BY <1>4, <1>3
<1>6. \A j \in 0..(room - 1) : B[Ahead(p, j, n)] # Empty
  <2> TAKE j \in 0..(room - 1)
  <2>1. j \in 0..(n - 1) /\ j \notin free
      BY <1>4, <1>5
  <2> QED BY <2>1, <1>3
<1> HIDE DEF room, free
<1>7. ASSUME NEW j \in 0..(n - 1)
      PROVE  C[Ahead(p, j, n)] = IF j <= room THEN PlacedAt(j) ELSE B[Ahead(p, j, n)]
  <2>1. j \in 0..n
      OBVIOUS
  <2>2. Ahead(p, j, n) \in 0..(n - 1)
      BY <2>1, AheadValue
  <2>3. j = Offset(Ahead(p, j, n), p, n)
      BY <2>2, OffsetValue
  <2> QED BY <2>2, <2>3, <1>1 DEF Offset
<1>8. ASSUME NEW j \in 1..(n - 1)
      PROVE  /\ PlacedAt(j) = [df |-> B[Ahead(p, j - 1, n)].df + Fingerprints,
                               idx |-> B[Ahead(p, j - 1, n)].idx]
             /\ PlacedAt(j) \in Entries
  <2>1. j - 1 \in 0..n
      OBVIOUS
  <2>2. Ahead(p, j - 1, n) \in 0..(n - 1)
      BY <2>1, AheadValue
  <2>3. B[Ahead(p, j - 1, n)] \in Entries
      BY <2>2 DEF Rings
  <2> QED BY <2>3, <1>3, FingerprintsFact DEF Entries
<1>9. C \in Rings(n)
  <2> SUFFICES ASSUME NEW s \in 0..(n - 1) PROVE C[s] \in Entries
      BY <1>1 DEF Rings
  <2>1. PICK j \in 0..(n - 1) : s = Ahead(p, j, n)
      BY RingCovers
  <2>2. B[s] \in Entries
      BY DEF Rings
  <2>3. CASE j = 0
    <3>1. j <= room /\ PlacedAt(j) = b
        BY <2>3, <1>5
    <3> HIDE DEF C, PlacedAt
    <3> QED BY <2>1, <3>1, <1>7
  <2>4. CASE j # 0
    <3>1. j \in 1..(n - 1)
        BY <2>4
    <3> HIDE DEF C, PlacedAt
    <3> QED BY <3>1, <2>1, <2>2, <1>7, <1>8
  <2> QED BY <2>3, <2>4
<1>10. C[p] = b
  <2>1. Ahead(p, 0, n) = p
      BY RingEnds
  <2>2. 0 <= room /\ 0 \in 0..(n - 1) /\ PlacedAt(0) = b
      BY <1>5
  <2>3. C[Ahead(p, 0, n)] = b
    <3> HIDE DEF C, PlacedAt
    <3> QED BY <2>2, <1>7
  <2> QED BY <2>1, <2>3
<1>11. \A j \in 1..room : C[Ahead(p, j, n)] =
          [df |-> B[Ahead(p, j - 1, n)].df + Fingerprints, idx |-> B[Ahead(p, j - 1, n)].idx]
  <2> TAKE j \in 1..room
  <2>1. j \in 1..(n - 1) /\ j \in 0..(n - 1) /\ j <= room
      BY <1>5
  <2> HIDE DEF C, PlacedAt
  <2> QED BY <2>1, <1>7, <1>8
<1>12. \A j \in (room + 1)..(n - 1) : C[Ahead(p, j, n)] = B[Ahead(p, j, n)]
  <2> TAKE j \in (room + 1)..(n - 1)
  <2>1. j \in 0..(n - 1) /\ ~(j <= room)
      BY <1>5
  <2> HIDE DEF C, PlacedAt
  <2> QED BY <2>1, <1>7
<1>13. ShiftedUp(n, B, C, b, p, room)
  <2> HIDE DEF C
  <2> QED BY <1>5, <1>6, <1>9, <1>10, <1>11, <1>12 DEF ShiftedUp
<1> HIDE DEF C
<1> QED BY <1>2, <1>5, <1>13
-----------------------------------------------------------------------------
(* A key is placed where the probing stopped: behind buckets at least as   *)
(* far from their homes as it would be, in front of one that is not        *)
(* further.  Everything up to the next empty bucket moves on by one.       *)
LEMMA PlacingKeepsRing ==
    ASSUME NEW n, NEW B, NEW I, NEW home, NEW mark, IsRing(n, B, I, home, mark),
           NEW i \in Nat, i \notin I,
           home[i] \in 0..(n - 1), mark[i] \in 0..(Fingerprints - 1),
           NEW d \in 0..(n - 1), NEW x \in 0..(n - 1), B[x].df = 0,
           \A e \in 0..(d - 1) : B[Ahead(home[i], e, n)].df >= Level(e, mark[i]),
           B[Ahead(home[i], d, n)].df <= Level(d, mark[i]),
           NEW room \in 0..(n - 1), NEW C,
           ShiftedUp(n, B, C, [df |-> Level(d, mark[i]), idx |-> i],
                     Ahead(home[i], d, n), room)
    PROVE  IsRing(n, C, I \cup {i}, home, mark)
<1> DEFINE p == Ahead(home[i], d, n)
           A(j) == Ahead(p, j, n)
           level == Level(d, mark[i])
<1>1. n \in Nat \ {0, 1} /\ n \in Nat \ {0} /\ d \in Nat
    BY DEF IsRing
<1>2. p \in 0..(n - 1)
  <2>1. d \in 0..n
      BY <1>1
  <2> QED BY <1>1, <2>1, AheadValue
<1>3. level \in Nat /\ level >= Fingerprints
    BY <1>1, LevelFacts
<1> DEFINE b == [df |-> level, idx |-> i]
<1>4. /\ B[A(room)] = Empty
      /\ \A j \in 0..(room - 1) : B[A(j)] # Empty
      /\ C[p] = b
      /\ \A j \in 1..room :
            C[A(j)] = [df |-> B[A(j - 1)].df + Fingerprints, idx |-> B[A(j - 1)].idx]
      /\ \A j \in (room + 1)..(n - 1) : C[A(j)] = B[A(j)]
      /\ C \in Rings(n)
    BY DEF ShiftedUp
<1> HIDE DEF level
<1>5. /\ A(0) = p /\ A(n) = p
      /\ \A s \in 0..(n - 1) : \E j \in 0..(n - 1) : s = A(j)
      /\ \A j, k \in 0..(n - 1) : A(j) = A(k) => j = k
      /\ \A j \in 1..n : Before(A(j), n) = A(j - 1)
      /\ Before(p, n) = A(n - 1)
  <2>1. p \in 0..(n - 1) /\ n \in Nat \ {0}
      BY <1>1, <1>2
  <2> HIDE DEF p
  <2>2. A(0) = p /\ A(n) = p
      BY <2>1, RingEnds
  <2>3. \A s \in 0..(n - 1) : \E j \in 0..(n - 1) : s = A(j)
      BY <2>1, RingCovers
  <2>4. \A j, k \in 0..(n - 1) : A(j) = A(k) => j = k
      BY <2>1, RingVisitsOnce
  <2>5. \A j \in 1..n : Before(A(j), n) = A(j - 1)
      BY <2>1, RingSteps
  <2>6. Before(p, n) = A(n - 1)
      BY <2>1, RingCloses
  <2> QED BY <2>2, <2>3, <2>4, <2>5, <2>6
<1>6. \A j \in 0..n : A(j) \in 0..(n - 1)
  <2> HIDE DEF p
  <2> QED BY <1>1, <1>2, AheadValue
<1>18. \A m \in 1..n : Before(Ahead(home[i], m, n), n) = Ahead(home[i], m - 1, n)
  <2> DEFINE h == home[i]
  <2>1. h \in 0..(n - 1) /\ n \in Nat \ {0}
      BY <1>1
  <2>2. \A m \in 1..n : Before(Ahead(h, m, n), n) = Ahead(h, m - 1, n)
    <3> HIDE DEF h
    <3> QED BY <2>1, RingSteps
  <2> QED BY <2>2
<1> HIDE DEF A
<1>7. ASSUME NEW s \in 0..(n - 1)
      PROVE  /\ B[s].df \in Nat /\ B[s].idx \in Nat
             /\ B[s].df = 0 <=> B[s] = Empty
             /\ B[s].df # 0 => B[s].df >= Fingerprints
  <2>1. B[s] \in Entries /\ (B[s].df = 0 => B[s] = Empty)
      BY DEF IsRing, Rings, EmptyIsEmpty
  <2>2. B[s].df # 0 => B[s].df >= Fingerprints
    <3> SUFFICES ASSUME B[s].df # 0 PROVE B[s].df >= Fingerprints
        OBVIOUS
    <3>1. PICK e \in 0..(n - 1) : B[s].df = Level(e, mark[B[s].idx])
        BY DEF IsRing, AsFarAsItSays, FromHome
    <3>2. B[s].idx \in I /\ mark[B[s].idx] \in 0..(Fingerprints - 1)
        BY DEF IsRing, AsFarAsItSays
    <3>3. e \in Nat
        OBVIOUS
    <3> QED BY <3>1, <3>2, <3>3, LevelFacts
  <2> QED BY <2>1, <2>2 DEF Entries, Empty
<1>8. ASSUME NEW j \in 0..(room - 1)
      PROVE  /\ j \in 0..(n - 1) /\ j + 1 \in 1..room /\ j + 1 \in 0..(n - 1)
             /\ B[A(j)].df >= Fingerprints /\ B[A(j)].idx \in I
             /\ C[A(j + 1)].df = B[A(j)].df + Fingerprints /\ C[A(j + 1)].idx = B[A(j)].idx
  <2>1. j \in 0..(n - 1) /\ j + 1 \in 1..room /\ j + 1 \in 0..(n - 1) /\ (j + 1) - 1 = j /\ j \in 0..n
      BY <1>1
  <2>2. A(j) \in 0..(n - 1) /\ B[A(j)] # Empty
      BY <2>1, <1>4, <1>6
  <2>3. B[A(j)].df # 0
      BY <2>2, <1>7
  <2>4. B[A(j)].idx \in I
      BY <2>2, <2>3 DEF IsRing, AsFarAsItSays
  <2>5. C[A(j + 1)] = [df |-> B[A(j)].df + Fingerprints, idx |-> B[A(j)].idx]
      BY <2>1, <1>4
  <2> QED BY <2>1, <2>2, <2>3, <2>4, <2>5, <1>7
\* every bucket of C is the new one, one that moved on, or one of B
<1>9. ASSUME NEW s \in 0..(n - 1)
      PROVE  \/ s = p /\ C[s] = b
             \/ \E j \in 0..(room - 1) : s = A(j + 1)
             \/ \E j \in (room + 1)..(n - 1) : s = A(j) /\ C[s] = B[s]
  <2>1. PICK j \in 0..(n - 1) : s = A(j)
      BY <1>5
  <2>2. CASE j = 0
      BY <2>1, <2>2, <1>4, <1>5
  <2>3. CASE j # 0 /\ j <= room
    <3>1. j - 1 \in 0..(room - 1) /\ (j - 1) + 1 = j
        BY <2>3, <1>1
    <3> QED BY <2>1, <3>1
  <2>4. CASE j > room
    <3>1. j \in (room + 1)..(n - 1)
        BY <2>4, <1>1
    <3> QED BY <2>1, <3>1, <1>4
  <2> QED BY <2>2, <2>3, <2>4, <1>1
<1>10. IsRing(n, B, I, home, mark) => /\ Ordered(n, B) /\ EmptyIsEmpty(n, B) /\ Known(n, B, I)
                                      /\ Once(n, B) /\ AsFarAsItSays(n, B, I, home, mark)
    BY DEF IsRing
<1>11. EmptyIsEmpty(n, C)
  <2> SUFFICES ASSUME NEW s \in 0..(n - 1), C[s].df = 0 PROVE C[s] = Empty
      BY DEF EmptyIsEmpty
  <2>1. CASE s = p /\ C[s] = b
      BY <2>1, <1>3, FingerprintsFact
  <2>2. ASSUME NEW j \in 0..(room - 1), s = A(j + 1) PROVE C[s] = Empty
    <3>1. B[A(j)].df >= Fingerprints /\ C[s].df = B[A(j)].df + Fingerprints
        BY <2>2, <1>8
    <3>2. A(j) \in 0..(n - 1)
        BY <1>6, <1>8, <1>1
    <3>3. B[A(j)].df \in Nat
        BY <3>2, <1>7
    <3> QED BY <3>1, <3>3, FingerprintsFact
  <2>3. ASSUME NEW j \in (room + 1)..(n - 1), s = A(j), C[s] = B[s] PROVE C[s] = Empty
      BY <2>3, <1>7
  <2> QED BY <2>1, <2>2, <2>3, <1>9
<1>12. AsFarAsItSays(n, C, I \cup {i}, home, mark)
  <2> SUFFICES ASSUME NEW s \in 0..(n - 1), C[s].df # 0
               PROVE  C[s].idx \in I \cup {i} /\ FromHome(n, C[s], s, home, mark)
      BY DEF AsFarAsItSays
  <2>1. CASE s = p /\ C[s] = b
      BY <2>1 DEF FromHome, level
  <2>2. ASSUME NEW j \in 0..(room - 1), s = A(j + 1)
        PROVE  C[s].idx \in I /\ FromHome(n, C[s], s, home, mark)
    <3> DEFINE k == B[A(j)].idx
    <3>1. k \in I /\ B[A(j)].df # 0 /\ j \in 0..(n - 1) /\ A(j) \in 0..(n - 1)
      <4>1. j \in 0..n
          BY <1>1
      <4>2. A(j) \in 0..(n - 1) /\ j \in 0..(n - 1) /\ B[A(j)].df >= Fingerprints /\ k \in I
          BY <4>1, <1>8, <1>6
      <4> QED BY <4>2, FingerprintsFact
    <3>2. PICK e \in 0..(n - 1) : A(j) = Ahead(home[k], e, n) /\ B[A(j)].df = Level(e, mark[k])
        BY <3>1, <1>10 DEF AsFarAsItSays, FromHome
    <3>3. home[k] \in 0..(n - 1) /\ mark[k] \in 0..(Fingerprints - 1)
        BY <3>1 DEF IsRing
    <3>4. Level(e, mark[k]) >= Level(e, mark[k])
      <4>1. e \in Nat
          OBVIOUS
      <4> HIDE DEF k
      <4> QED BY <4>1, <3>3, LevelFacts
    <3> DEFINE g == e + 1
    <3>5. g \in 0..(n - 1)
      <4>1. B[Ahead(home[k], e, n)].df >= Level(e, mark[k])
          BY <3>2, <3>4
      <4> HIDE DEF k
      <4> QED BY <4>1, <3>1, RoomBehind
    <3>6. Level(g, mark[k]) = B[A(j)].df + Fingerprints
      <4>1. e \in Nat
          OBVIOUS
      <4> HIDE DEF k
      <4> QED BY <4>1, <3>2, <3>3, LevelFacts
    <3>7. A(j + 1) = Ahead(home[k], g, n)
      <4>1. /\ Before(A(j + 1), n) = A(j) /\ A(j + 1) \in 0..(n - 1)
        <5>1. j + 1 \in 1..n /\ j + 1 \in 0..n /\ (j + 1) - 1 = j
            BY <1>8, <1>1
        <5> QED BY <5>1, <1>5, <1>6
      <4>2. Before(Ahead(home[k], g, n), n) = Ahead(home[k], e, n) /\ Ahead(home[k], g, n) \in 0..(n - 1)
        <5>1. g \in 1..n /\ g \in 0..n /\ g - 1 = e
            BY <3>5, <1>1
        <5>2. \A m \in 1..n : Before(Ahead(home[k], m, n), n) = Ahead(home[k], m - 1, n)
          <6> DEFINE h == home[k]
          <6>1. h \in 0..(n - 1) /\ n \in Nat \ {0}
              BY <3>3, <1>1
          <6>2. \A m \in 1..n : Before(Ahead(h, m, n), n) = Ahead(h, m - 1, n)
            <7> HIDE DEF h
            <7> QED BY <6>1, RingSteps
          <6> QED BY <6>2
        <5>3. Ahead(home[k], g, n) \in 0..(n - 1)
          <6> HIDE DEF k, g
          <6> QED BY <5>1, <3>3, <1>1, AheadValue
        <5> HIDE DEF g, k
        <5> QED BY <5>1, <5>2, <5>3
      <4>3. \A y, z \in 0..(n - 1) : Before(y, n) = Before(z, n) => y = z
        <5> TAKE y, z \in 0..(n - 1)
        <5>1. /\ Before(y, n) = IF y = 0 THEN n - 1 ELSE y - 1
              /\ Before(z, n) = IF z = 0 THEN n - 1 ELSE z - 1
            BY <1>1, BeforeValue
        <5> QED BY <5>1, <1>1
      <4> HIDE DEF k, g
      <4> QED BY <4>1, <4>2, <4>3, <3>2
    <3>8. C[s].df = Level(g, mark[k]) /\ C[s].idx = k
        BY <2>2, <1>8, <3>6
    <3> HIDE DEF g, k
    <3> QED BY <3>1, <3>5, <3>7, <3>8, <2>2 DEF FromHome
  <2>3. ASSUME NEW j \in (room + 1)..(n - 1), s = A(j), C[s] = B[s]
        PROVE  C[s].idx \in I /\ FromHome(n, C[s], s, home, mark)
      BY <2>3, <1>10 DEF AsFarAsItSays
  <2> QED BY <2>1, <2>2, <2>3, <1>9
<1>13. Ordered(n, C)
  <2> SUFFICES ASSUME NEW s \in 0..(n - 1), C[s].df >= 2 * Fingerprints
               PROVE  C[Before(s, n)].df + Fingerprints >= C[s].df
      BY DEF Ordered
  <2>1. CASE s = p /\ C[s] = b
    <3>1. level >= 2 * Fingerprints
        BY <2>1
    <3>2. d >= 1
        BY <3>1, <1>1, LevelFacts DEF level
    <3> DEFINE e == d - 1
    <3>3. e \in 0..(d - 1) /\ e \in Nat /\ e + 1 = d /\ d \in 1..n
        BY <3>2, <1>1
    <3>4. Before(p, n) = Ahead(home[i], e, n)
      <4>1. \A m \in 1..n : Before(Ahead(home[i], m, n), n) = Ahead(home[i], m - 1, n)
          BY <1>18
      <4> QED BY <4>1, <3>3
    <3>5. level = Level(e, mark[i]) + Fingerprints /\ Level(e, mark[i]) >= Fingerprints
      <4>1. Level(e + 1, mark[i]) = Level(e, mark[i]) + Fingerprints /\ Level(e, mark[i]) >= Fingerprints
        <5> HIDE DEF e
        <5> QED BY <3>3, LevelFacts
      <4> QED BY <4>1, <3>3 DEF level
    <3>6. B[A(n - 1)].df >= Level(e, mark[i])
      <4> HIDE DEF e
      <4> QED BY <3>3, <3>4, <1>5
    <3>7. n - 1 \in (room + 1)..(n - 1)
      <4>1. A(n - 1) # A(room)
        <5>1. B[A(room)].df = 0
            BY <1>4 DEF Empty
        <5>2. Level(e, mark[i]) >= Fingerprints /\ Level(e, mark[i]) \in Nat
          <6> HIDE DEF e
          <6> QED BY <3>3, LevelFacts
        <5> HIDE DEF e
        <5> QED BY <5>1, <5>2, <3>6, FingerprintsFact
      <4>2. room # n - 1
          BY <4>1
      <4> QED BY <4>2, <1>1
    <3>8. C[Before(s, n)] = B[A(n - 1)]
        BY <3>7, <2>1, <1>4, <1>5
    <3>9. Level(e, mark[i]) \in Nat /\ B[A(n - 1)].df \in Nat
      <4>1. n - 1 \in 0..n
          BY <1>1
      <4>2. B[A(n - 1)].df \in Nat
          BY <4>1, <1>6, <1>7
      <4> HIDE DEF e
      <4> QED BY <4>2, <3>3, LevelFacts
    <3>10. C[s].df = level
        BY <2>1
    <3> HIDE DEF e
    <3> QED BY <3>5, <3>6, <3>8, <3>9, <3>10, <1>3, FingerprintsFact
  <2>2. ASSUME NEW j \in 0..(room - 1), s = A(j + 1)
        PROVE  C[Before(s, n)].df + Fingerprints >= C[s].df
    <3>1. Before(s, n) = A(j) /\ C[s].df = B[A(j)].df + Fingerprints /\ B[A(j)].df \in Nat
      <4>1. j + 1 \in 1..n /\ (j + 1) - 1 = j /\ j \in 0..n
          BY <1>8, <1>1
      <4> QED BY <4>1, <2>2, <1>5, <1>6, <1>7, <1>8
    <3>2. CASE j = 0
      <4>1. A(j) = p /\ B[p].df <= level
          BY <3>2, <1>5 DEF level
      <4> QED BY <4>1, <3>1, <1>3, <1>4, FingerprintsFact
    <3>3. CASE j # 0
      <4> DEFINE m == j - 1
      <4>1. m \in 0..(room - 1) /\ m + 1 = j /\ j \in 1..n /\ m \in 0..n
          BY <3>3, <1>8, <1>1
      <4>2. C[A(j)].df = B[A(m)].df + Fingerprints /\ B[A(m)].df >= Fingerprints
        <5>1. C[A(m + 1)].df = B[A(m)].df + Fingerprints /\ B[A(m)].df >= Fingerprints
          <6> HIDE DEF m
          <6> QED BY <4>1, <1>8
        <5> QED BY <5>1, <4>1
      <4>3. Before(A(j), n) = A(m) /\ A(j) \in 0..(n - 1) /\ B[A(m)].df \in Nat
        <5>1. A(m) \in 0..(n - 1)
          <6> HIDE DEF m
          <6> QED BY <4>1, <1>6
        <5>2. A(j) \in 0..(n - 1)
            BY <1>6, <1>8, <1>1
        <5> QED BY <5>1, <5>2, <4>1, <1>5, <1>7
      <4>4. B[A(j)].df >= 2 * Fingerprints => B[A(m)].df + Fingerprints >= B[A(j)].df
          BY <4>3, <1>10 DEF Ordered
      <4> HIDE DEF m
      <4> QED BY <4>2, <4>3, <4>4, <3>1, FingerprintsFact
    <3> QED BY <3>2, <3>3
  <2>3. ASSUME NEW j \in (room + 1)..(n - 1), s = A(j), C[s] = B[s]
        PROVE  C[Before(s, n)].df + Fingerprints >= C[s].df
    <3>1. /\ Before(s, n) = A(j - 1) /\ j - 1 \in 0..n
          /\ B[Before(s, n)].df + Fingerprints >= B[s].df
      <4>1. j \in 1..n /\ j - 1 \in 0..n
          BY <1>1
      <4> QED BY <4>1, <2>3, <1>5, <1>10 DEF Ordered
    <3>2. j # room + 1
      <4> SUFFICES ASSUME j = room + 1 PROVE FALSE
          OBVIOUS
      <4>1. B[Before(s, n)].df = 0
          BY <3>1, <1>4 DEF Empty
      <4>2. B[s].df \in Nat
          BY <1>7
      <4> QED BY <4>1, <4>2, <3>1, <2>3, FingerprintsFact
    <3>3. j - 1 \in (room + 1)..(n - 1)
        BY <3>2, <1>1
    <3>4. C[A(j - 1)] = B[A(j - 1)]
        BY <3>3, <1>4
    <3> QED BY <3>1, <3>4, <2>3
  <2> QED BY <2>1, <2>2, <2>3, <1>9
<1>14. Broken(n, C)
  <2>1. CASE room # n - 1
    <3> DEFINE j == room + 1
    <3>1. j \in (room + 1)..(n - 1) /\ j \in 1..n /\ j \in 0..n /\ j - 1 = room
        BY <2>1, <1>1
    <3>2. A(j) \in 0..(n - 1) /\ C[A(j)] = B[A(j)] /\ Before(A(j), n) = A(room)
      <4> HIDE DEF j
      <4> QED BY <3>1, <1>4, <1>5, <1>6
    <3>3. B[A(room)].df = 0
        BY <1>4 DEF Empty
    <3>4. ~(B[A(j)].df >= 2 * Fingerprints) /\ B[A(j)].df \in Nat
      <4> HIDE DEF j
      <4>1. B[A(j)].df >= 2 * Fingerprints => B[Before(A(j), n)].df + Fingerprints >= B[A(j)].df
          BY <3>2, <1>10 DEF Ordered
      <4>2. B[A(j)].df \in Nat
          BY <3>2, <1>7
      <4> QED BY <4>1, <4>2, <3>2, <3>3, FingerprintsFact
    <3> HIDE DEF j
    <3> QED BY <3>2, <3>4, FingerprintsFact DEF Broken
  <2>2. CASE room = n - 1
    <3>1. B[A(n - 1)].df = 0
        BY <2>2, <1>4 DEF Empty
    <3>2. d = 0
      <4> SUFFICES ASSUME d # 0 PROVE FALSE
          OBVIOUS
      <4> DEFINE e == d - 1
      <4>1. e \in 0..(d - 1) /\ e \in Nat /\ d \in 1..n /\ d - 1 = e
          BY <1>1
      <4>2. Before(p, n) = Ahead(home[i], e, n)
        <5>1. \A m \in 1..n : Before(Ahead(home[i], m, n), n) = Ahead(home[i], m - 1, n)
            BY <1>18
        <5> QED BY <5>1, <4>1
      <4>3. Level(e, mark[i]) >= Fingerprints
        <5> HIDE DEF e
        <5> QED BY <4>1, LevelFacts
      <4>4. B[Ahead(home[i], e, n)].df >= Level(e, mark[i]) /\ Level(e, mark[i]) \in Nat
        <5> HIDE DEF e
        <5> QED BY <4>1, LevelFacts
      <4> QED BY <4>2, <4>3, <4>4, <3>1, <1>5, FingerprintsFact
    <3>3. level < 2 * Fingerprints
      <4>1. ~(level >= 2 * Fingerprints)
          BY <3>2, <1>1, LevelFacts DEF level
      <4> QED BY <4>1, <1>3, FingerprintsFact
    <3>4. C[p].df = level
        BY <1>4
    <3> HIDE DEF p
    <3> QED BY <3>3, <3>4, <1>2 DEF Broken
  <2> QED BY <2>1, <2>2
<1>15. Known(n, C, I \cup {i})
  <2>1. C[p].df # 0 /\ C[p].idx = i
      BY <1>4, <1>3, FingerprintsFact
  <2>2. ASSUME NEW k \in I
        PROVE  \E s \in 0..(n - 1) : C[s].df # 0 /\ C[s].idx = k
    <3>1. PICK s \in 0..(n - 1) : B[s].df # 0 /\ B[s].idx = k
        BY <1>10 DEF Known
    <3>2. PICK j \in 0..(n - 1) : s = A(j)
        BY <1>5
    <3>3. j # room
        BY <3>1, <3>2, <1>4 DEF Empty
    <3>4. CASE j < room
      <4> DEFINE y == A(j + 1)
      <4>1. j \in 0..(room - 1) /\ j + 1 \in 0..n
          BY <3>4, <1>1
      <4>2. y \in 0..(n - 1) /\ C[y].df = B[s].df + Fingerprints /\ C[y].idx = k
          BY <4>1, <3>1, <3>2, <1>6, <1>8
      <4>3. B[s].df \in Nat
          BY <1>7
      <4> HIDE DEF y
      <4> QED BY <4>2, <4>3, FingerprintsFact
    <3>5. CASE j > room
      <4>1. j \in (room + 1)..(n - 1)
          BY <3>5, <1>1
      <4>2. C[s] = B[s]
          BY <4>1, <3>2, <1>4
      <4> QED BY <4>2, <3>1
    <3> QED BY <3>3, <3>4, <3>5, <1>1
  <2> HIDE DEF p
  <2> QED BY <2>1, <2>2, <1>2 DEF Known
<1>16. Once(n, C)
  <2> SUFFICES ASSUME NEW s \in 0..(n - 1), NEW y \in 0..(n - 1),
                      C[s].df # 0, C[y].df # 0, C[s].idx = C[y].idx
               PROVE  s = y
      BY DEF Once
  \* where the bucket came from
  <2>1. ASSUME NEW z \in 0..(n - 1), C[z].df # 0, C[z].idx # i
        PROVE  \E j \in 0..(n - 1) :
                  /\ B[A(j)].df # 0 /\ B[A(j)].idx = C[z].idx
                  /\ z = IF j < room THEN A(j + 1) ELSE A(j)
    <3>1. ~(z = p /\ C[z] = b)
        BY <2>1
    <3>2. ASSUME NEW j \in 0..(room - 1), z = A(j + 1)
          PROVE  /\ B[A(j)].df # 0 /\ B[A(j)].idx = C[z].idx
                 /\ j \in 0..(n - 1) /\ j < room
        BY <3>2, <1>8, FingerprintsFact
    <3>3. ASSUME NEW j \in (room + 1)..(n - 1), z = A(j), C[z] = B[z]
          PROVE  /\ B[A(j)].df # 0 /\ B[A(j)].idx = C[z].idx
                 /\ j \in 0..(n - 1) /\ ~(j < room)
        BY <3>3, <2>1, <1>1
    <3> QED BY <3>1, <3>2, <3>3, <1>9
  <2>2. ASSUME NEW z \in 0..(n - 1), C[z].df # 0, C[z].idx = i
        PROVE  z = p
    <3>1. ASSUME NEW j \in 0..(room - 1), z = A(j + 1) PROVE FALSE
        BY <3>1, <2>2, <1>8
    <3>2. ASSUME NEW j \in (room + 1)..(n - 1), z = A(j), C[z] = B[z] PROVE FALSE
        BY <3>2, <2>2, <1>10 DEF AsFarAsItSays
    <3> QED BY <3>1, <3>2, <1>9
  <2>3. CASE C[s].idx = i
      BY <2>2, <2>3
  <2>4. CASE C[s].idx # i
    <3>1. PICK j \in 0..(n - 1) : /\ B[A(j)].df # 0 /\ B[A(j)].idx = C[s].idx
                                  /\ s = IF j < room THEN A(j + 1) ELSE A(j)
        BY <2>1, <2>4
    <3>2. PICK k \in 0..(n - 1) : /\ B[A(k)].df # 0 /\ B[A(k)].idx = C[y].idx
                                  /\ y = IF k < room THEN A(k + 1) ELSE A(k)
        BY <2>1, <2>4
    <3>3. A(j) \in 0..(n - 1) /\ A(k) \in 0..(n - 1)
        BY <1>6, <1>1
    <3>4. A(j) = A(k)
        BY <3>1, <3>2, <3>3, <1>10 DEF Once
    <3>5. j = k
        BY <3>4, <1>5
    <3> QED BY <3>1, <3>2, <3>5
  <2> QED BY <2>3, <2>4
<1>17. /\ I \cup {i} \subseteq Nat /\ C \in Rings(n)
       /\ \A k \in I \cup {i} : home[k] \in 0..(n - 1) /\ mark[k] \in 0..(Fingerprints - 1)
    BY <1>4 DEF IsRing
<1> QED BY <1>1, <1>11, <1>12, <1>13, <1>14, <1>15, <1>16, <1>17 DEF IsRing
-----------------------------------------------------------------------------
(* The buckets behind bucket s move back by one, up to one that is empty   *)
(* or at home, as do_erase has it.                                         *)
GapEnd(B, s, n) ==
    Min({j \in 0..(n - 1) : j = n - 1 \/ B[Ahead(s, j + 1, n)].df < 2 * Fingerprints})

(* The buckets without bucket s, and the gap at its end.                   *)
GapClosed(B, s, n) ==
    [x \in DOMAIN B |->
        LET j == Offset(x, s, n) IN
            CASE j < GapEnd(B, s, n) -> [B[Ahead(s, j + 1, n)] EXCEPT !.df = @ - Fingerprints]
              [] j = GapEnd(B, s, n) -> Empty
              [] j > GapEnd(B, s, n) -> B[x]]

(* The same, bucket by bucket as seen from s.                              *)
ClosedUp(n, B, C, s, end) ==
    /\ C \in Rings(n)
    /\ B[Ahead(s, end + 1, n)].df < 2 * Fingerprints
    /\ \A j \in 1..end : B[Ahead(s, j, n)].df >= 2 * Fingerprints
    /\ \A j \in 1..end : C[Ahead(s, j - 1, n)] =
          [df |-> B[Ahead(s, j, n)].df - Fingerprints, idx |-> B[Ahead(s, j, n)].idx]
    /\ C[Ahead(s, end, n)] = Empty
    /\ \A j \in (end + 1)..(n - 1) : C[Ahead(s, j, n)] = B[Ahead(s, j, n)]

(* Closing a gap comes to an end, and is what ClosedUp says.               *)
LEMMA GapClosedFacts ==
    ASSUME NEW n \in Nat \ {0, 1}, NEW B \in Rings(n), Broken(n, B), NEW s \in 0..(n - 1)
    PROVE  \E end \in 0..(n - 1) : ClosedUp(n, B, GapClosed(B, s, n), s, end)
<1> DEFINE A(j) == Ahead(s, j, n)
           stops == {j \in 0..(n - 1) : j = n - 1 \/ B[A(j + 1)].df < 2 * Fingerprints}
           end == GapEnd(B, s, n)
           C == GapClosed(B, s, n)
<1>1. n \in Nat \ {0} /\ DOMAIN B = 0..(n - 1)
    BY DEF Rings
<1>2. \A j \in 0..n : A(j) \in 0..(n - 1)
    BY <1>1, AheadValue
<1>3. /\ \A x \in 0..(n - 1) : \E j \in 0..(n - 1) : x = A(j)
      /\ A(0) = A(n)
  <2>1. \A x \in 0..(n - 1) : \E j \in 0..(n - 1) : x = A(j)
      BY <1>1, RingCovers
  <2>2. A(0) = A(n)
      BY <1>1, RingEnds
  <2> QED BY <2>1, <2>2
<1>4. \A j \in 0..(n - 1) : j = Offset(A(j), s, n)
  <2> TAKE j \in 0..(n - 1)
  <2>1. j \in 0..n
      OBVIOUS
  <2> QED BY <2>1, <1>1, <1>2, OffsetValue
<1> HIDE DEF A
<1>5. ASSUME NEW x \in 0..(n - 1) PROVE B[x].df \in Nat /\ B[x].idx \in Nat /\ B[x] \in Entries
  <2>1. B[x] \in Entries
      BY DEF Rings
  <2> QED BY <2>1 DEF Entries
<1>6. end \in stops /\ \A j \in stops : end <= j
  <2>1. stops \in SUBSET Nat
      OBVIOUS
  <2>2. n - 1 \in stops
      OBVIOUS
  <2>3. end = Min(stops)
      BY DEF GapEnd, A
  <2>4. \E r \in stops : \A j \in stops : r <= j
    <3> HIDE DEF stops
    <3> QED BY <2>1, <2>2, LeastNumber
  <2> HIDE DEF stops, end
  <2> QED BY <2>3, <2>4 DEF Min
<1> HIDE DEF end
<1>7. end \in 0..(n - 1) /\ end + 1 \in 1..n /\ end + 1 \in 0..n
    BY <1>6
<1>8. \A j \in 1..end : B[A(j)].df >= 2 * Fingerprints
  <2> TAKE j \in 1..end
  <2> DEFINE m == j - 1
  <2>1. m \in 0..(n - 1) /\ m < end /\ m + 1 = j /\ m # n - 1 /\ j \in 0..n
      BY <1>7
  <2>2. ~(B[A(m + 1)].df < 2 * Fingerprints)
    <3> HIDE DEF m
    <3> QED BY <2>1, <1>6, <1>7
  <2>3. B[A(j)].df \in Nat
      BY <2>1, <1>2, <1>5
  <2> HIDE DEF m
  <2> QED BY <2>1, <2>2, <2>3, FingerprintsFact
<1>9. B[A(end + 1)].df < 2 * Fingerprints
  <2>1. CASE end = n - 1
    <3>1. PICK x \in 0..(n - 1) : B[x].df < 2 * Fingerprints
        BY DEF Broken
    <3>2. PICK j \in 0..(n - 1) : x = A(j)
        BY <1>3
    <3>3. CASE j = 0
      <4>1. end + 1 = n
          BY <2>1
      <4> QED BY <4>1, <3>1, <3>2, <3>3, <1>3
    <3>4. CASE j # 0
      <4>1. j \in 1..end
          BY <3>4, <2>1
      <4>2. B[x].df \in Nat
          BY <1>5
      <4> QED BY <4>1, <4>2, <3>1, <3>2, <1>8, FingerprintsFact
    <3> QED BY <3>3, <3>4
  <2>2. CASE end # n - 1
      BY <2>2, <1>6
  <2> QED BY <2>1, <2>2
<1>10. ASSUME NEW j \in 0..(n - 1)
       PROVE  C[A(j)] = IF j < end THEN [df |-> B[A(j + 1)].df - Fingerprints, idx |-> B[A(j + 1)].idx]
                        ELSE IF j = end THEN Empty ELSE B[A(j)]
  <2>1. A(j) \in 0..(n - 1) /\ A(j + 1) \in 0..(n - 1)
    <3>1. j \in 0..n /\ j + 1 \in 0..n
        OBVIOUS
    <3> QED BY <3>1, <1>2
  <2>2. C[A(j)] = CASE j < end -> [B[A(j + 1)] EXCEPT !.df = @ - Fingerprints]
                    [] j = end -> Empty
                    [] j > end -> B[A(j)]
      BY <2>1, <1>1, <1>4 DEF GapClosed, end, A
  <2>3. B[A(j + 1)] \in Entries
      BY <2>1, <1>5
  <2>4. [B[A(j + 1)] EXCEPT !.df = @ - Fingerprints]
        = [df |-> B[A(j + 1)].df - Fingerprints, idx |-> B[A(j + 1)].idx]
      BY <2>3 DEF Entries
  <2> QED BY <2>2, <2>4, <1>7
<1>11. \A j \in 1..end : C[A(j - 1)] = [df |-> B[A(j)].df - Fingerprints, idx |-> B[A(j)].idx]
  <2> TAKE j \in 1..end
  <2> DEFINE m == j - 1
  <2>1. m \in 0..(n - 1) /\ m < end /\ m + 1 = j
      BY <1>7
  <2>2. C[A(m)] = [df |-> B[A(m + 1)].df - Fingerprints, idx |-> B[A(m + 1)].idx]
    <3> HIDE DEF m, C
    <3> QED BY <2>1, <1>10
  <2> HIDE DEF C
  <2> QED BY <2>1, <2>2
<1>12. C[A(end)] = Empty
  <2>1. end \in 0..(n - 1) /\ ~(end < end)
      BY <1>7
  <2> HIDE DEF C
  <2> QED BY <2>1, <1>10
<1>13. \A j \in (end + 1)..(n - 1) : C[A(j)] = B[A(j)]
  <2> TAKE j \in (end + 1)..(n - 1)
  <2>1. j \in 0..(n - 1) /\ ~(j < end) /\ j # end
      BY <1>7
  <2> HIDE DEF C
  <2> QED BY <2>1, <1>10
<1>14. C \in Rings(n)
  <2>1. SUFFICES ASSUME NEW x \in 0..(n - 1) PROVE C[x] \in Entries
      BY <1>1 DEF Rings, GapClosed
  <2> HIDE DEF C
  <2>2. C[x] \in Entries
    <3>1. PICK j \in 0..(n - 1) : x = A(j)
        BY <1>3
    <3>2. CASE j < end
      <4>1. j + 1 \in 1..end /\ (j + 1) \in 0..n /\ (j + 1) - 1 = j
          BY <3>2, <1>7
      <4>2. C[x] = [df |-> B[A(j + 1)].df - Fingerprints, idx |-> B[A(j + 1)].idx]
          BY <3>1, <3>2, <1>10
      <4>3. /\ B[A(j + 1)].df >= 2 * Fingerprints
            /\ B[A(j + 1)].df \in Nat /\ B[A(j + 1)].idx \in Nat
          BY <4>1, <1>8, <1>2, <1>5
      <4> QED BY <4>2, <4>3, FingerprintsFact DEF Entries
    <3>3. CASE j = end
        BY <3>1, <3>3, <1>12 DEF Entries, Empty
    <3>4. CASE j > end
      <4>1. ~(j < end) /\ j # end
          BY <3>4, <1>7
      <4> QED BY <3>1, <4>1, <1>10, <1>5
    <3> QED BY <3>2, <3>3, <3>4, <1>7
  <2> QED BY <2>2
<1> HIDE DEF C
<1>15. ClosedUp(n, B, C, s, end)
    BY <1>8, <1>9, <1>11, <1>12, <1>13, <1>14 DEF ClosedUp, A
<1> QED BY <1>7, <1>15 DEF C

(* Closing the gap takes the key of bucket s out and leaves the others     *)
(* where a lookup finds them.                                              *)
LEMMA ClosingKeepsRing ==
    ASSUME NEW n, NEW B, NEW I, NEW home, NEW mark, IsRing(n, B, I, home, mark),
           NEW s \in 0..(n - 1), B[s].df # 0,
           NEW end \in 0..(n - 1), NEW C, ClosedUp(n, B, C, s, end)
    PROVE  IsRing(n, C, I \ {B[s].idx}, home, mark)
<1> DEFINE A(j) == Ahead(s, j, n)
           r == B[s].idx
<1>1. n \in Nat \ {0, 1} /\ n \in Nat \ {0}
    BY DEF IsRing
<1>2. /\ B[A(end + 1)].df < 2 * Fingerprints
      /\ \A j \in 1..end : B[A(j)].df >= 2 * Fingerprints
      /\ \A j \in 1..end :
            C[A(j - 1)] = [df |-> B[A(j)].df - Fingerprints, idx |-> B[A(j)].idx]
      /\ C[A(end)] = Empty
      /\ \A j \in (end + 1)..(n - 1) : C[A(j)] = B[A(j)]
      /\ C \in Rings(n)
    BY DEF ClosedUp
<1>3. \A j \in 0..n : A(j) \in 0..(n - 1)
    BY <1>1, AheadValue
<1>4. A(0) = s /\ A(n) = s
    BY <1>1, RingEnds
<1>5. \A x \in 0..(n - 1) : \E j \in 0..(n - 1) : x = A(j)
    BY <1>1, RingCovers
<1>6. \A j, k \in 0..(n - 1) : A(j) = A(k) => j = k
    BY <1>1, RingVisitsOnce
<1>7. \A j \in 1..n : Before(A(j), n) = A(j - 1)
    BY <1>1, RingSteps
<1>8. Before(s, n) = A(n - 1)
    BY <1>1, RingCloses
<1> HIDE DEF A
<1>9. ASSUME NEW x \in 0..(n - 1)
      PROVE  /\ B[x].df \in Nat /\ B[x].idx \in Nat
             /\ B[x].df = 0 => B[x] = Empty
  <2>1. B[x] \in Entries /\ (B[x].df = 0 => B[x] = Empty)
      BY DEF IsRing, Rings, EmptyIsEmpty
  <2> QED BY <2>1 DEF Entries
<1>10. /\ Ordered(n, B) /\ EmptyIsEmpty(n, B) /\ Known(n, B, I)
       /\ Once(n, B) /\ AsFarAsItSays(n, B, I, home, mark)
    BY DEF IsRing
<1>11. ASSUME NEW j \in 1..end
       PROVE  /\ j \in 0..(n - 1) /\ j \in 1..n /\ j \in 0..n /\ j - 1 \in 0..n
              /\ A(j) \in 0..(n - 1)
              /\ B[A(j)].df >= 2 * Fingerprints /\ B[A(j)].df \in Nat
              /\ C[A(j - 1)].df = B[A(j)].df - Fingerprints
              /\ C[A(j - 1)].idx = B[A(j)].idx
  <2>1. j \in 0..(n - 1) /\ j \in 1..n /\ j \in 0..n /\ j - 1 \in 0..n
      BY <1>1
  <2>2. A(j) \in 0..(n - 1)
      BY <2>1, <1>3
  <2>3. C[A(j - 1)] = [df |-> B[A(j)].df - Fingerprints, idx |-> B[A(j)].idx]
      BY <1>2
  <2>4. B[A(j)].df >= 2 * Fingerprints
      BY <1>2
  <2> QED BY <2>1, <2>2, <2>3, <2>4, <1>9
\* every bucket of C is one that moved back, the new empty one, or one of B
<1>12. ASSUME NEW x \in 0..(n - 1)
       PROVE  \/ \E j \in 1..end : x = A(j - 1)
              \/ x = A(end) /\ C[x] = Empty
              \/ \E j \in (end + 1)..(n - 1) : x = A(j) /\ C[x] = B[x]
  <2>1. PICK j \in 0..(n - 1) : x = A(j)
      BY <1>5
  <2>2. CASE j < end
    <3>1. j + 1 \in 1..end /\ (j + 1) - 1 = j
        BY <2>2, <1>1
    <3> QED BY <2>1, <3>1
  <2>3. CASE j = end
      BY <2>1, <2>3, <1>2
  <2>4. CASE j > end
    <3>1. j \in (end + 1)..(n - 1)
        BY <2>4, <1>1
    <3> QED BY <2>1, <3>1, <1>2
  <2> QED BY <2>2, <2>3, <2>4, <1>1
<1>13. EmptyIsEmpty(n, C)
  <2> SUFFICES ASSUME NEW x \in 0..(n - 1), C[x].df = 0 PROVE C[x] = Empty
      BY DEF EmptyIsEmpty
  <2>1. ASSUME NEW j \in 1..end, x = A(j - 1) PROVE FALSE
    <3>1. /\ B[A(j)].df >= 2 * Fingerprints /\ B[A(j)].df \in Nat
          /\ C[x].df = B[A(j)].df - Fingerprints
        BY <2>1, <1>11
    <3> QED BY <3>1, FingerprintsFact
  <2>2. ASSUME NEW j \in (end + 1)..(n - 1), x = A(j), C[x] = B[x] PROVE C[x] = Empty
      BY <2>2, <1>9
  <2> QED BY <2>1, <2>2, <1>12
\* what is in use came from behind the gap or was outside it, and is not r
<1>14. ASSUME NEW x \in 0..(n - 1), C[x].df # 0
       PROVE  \E j \in 1..(n - 1) :
                 /\ B[A(j)].df # 0 /\ B[A(j)].idx = C[x].idx
                 /\ x = IF j <= end THEN A(j - 1) ELSE A(j)
  <2>1. ASSUME NEW j \in 1..end, x = A(j - 1)
        PROVE  /\ j \in 1..(n - 1) /\ B[A(j)].df # 0 /\ B[A(j)].idx = C[x].idx /\ j <= end
    <3>1. /\ B[A(j)].df >= 2 * Fingerprints /\ B[A(j)].df \in Nat
          /\ C[x].idx = B[A(j)].idx
        BY <2>1, <1>11
    <3> QED BY <3>1, FingerprintsFact, <1>1
  <2>2. ASSUME NEW j \in (end + 1)..(n - 1), x = A(j), C[x] = B[x]
        PROVE  /\ j \in 1..(n - 1) /\ B[A(j)].df # 0 /\ B[A(j)].idx = C[x].idx /\ ~(j <= end)
      BY <2>2, <1>14, <1>1
  <2>3. ~(C[x] = Empty)
      BY <1>14 DEF Empty
  <2> QED BY <2>1, <2>2, <2>3, <1>12
<1>15. ASSUME NEW j \in 1..(n - 1), B[A(j)].df # 0
       PROVE  B[A(j)].idx \in I \ {r}
  <2>1. A(j) \in 0..(n - 1) /\ j \in 0..(n - 1) /\ 0 \in 0..(n - 1)
      BY <1>3, <1>1
  <2>2. B[A(j)].idx \in I
      BY <2>1, <1>15, <1>10 DEF AsFarAsItSays
  <2>3. A(j) # s
      BY <2>1, <1>4, <1>6
  <2>4. B[A(j)].idx # r
      BY <2>1, <2>3, <1>15, <1>10 DEF Once
  <2> QED BY <2>2, <2>4
<1>16. AsFarAsItSays(n, C, I \ {r}, home, mark)
  <2> SUFFICES ASSUME NEW x \in 0..(n - 1), C[x].df # 0
               PROVE  C[x].idx \in I \ {r} /\ FromHome(n, C[x], x, home, mark)
      BY DEF AsFarAsItSays
  <2>1. C[x].idx \in I \ {r}
      BY <1>14, <1>15
  <2>2. ASSUME NEW j \in 1..end, x = A(j - 1)
        PROVE  FromHome(n, C[x], x, home, mark)
    <3> DEFINE k == C[x].idx
    <3>1. /\ B[A(j)].df >= 2 * Fingerprints /\ B[A(j)].df \in Nat
          /\ C[x].df = B[A(j)].df - Fingerprints
          /\ k = B[A(j)].idx /\ A(j) \in 0..(n - 1) /\ j \in 1..n
        BY <2>2, <1>11
    <3>2. B[A(j)].df # 0
        BY <3>1, FingerprintsFact
    <3>3. PICK e \in 0..(n - 1) : A(j) = Ahead(home[k], e, n) /\ B[A(j)].df = Level(e, mark[k])
        BY <3>1, <3>2, <1>10 DEF AsFarAsItSays, FromHome
    <3>4. home[k] \in 0..(n - 1) /\ mark[k] \in 0..(Fingerprints - 1)
        BY <2>1 DEF IsRing
    <3>5. e >= 1
      <4>1. e \in Nat
          OBVIOUS
      <4> HIDE DEF k
      <4> QED BY <4>1, <3>1, <3>3, <3>4, LevelFacts
    <3> DEFINE g == e - 1
    <3>6. g \in 0..(n - 1) /\ g \in Nat /\ g + 1 = e /\ e \in 1..n
        BY <3>5, <1>1
    <3>7. x = Ahead(home[k], g, n)
      <4> DEFINE h == home[k]
      <4>1. h \in 0..(n - 1) /\ e \in 1..n
          BY <3>4, <3>6
      <4>2. Before(Ahead(h, e, n), n) = Ahead(h, e - 1, n)
        <5> HIDE DEF h
        <5> QED BY <4>1, <1>1, RingSteps
      <4> QED BY <4>2, <3>1, <3>3, <2>2, <1>7
    <3>8. C[x].df = Level(g, mark[k])
      <4>1. Level(g + 1, mark[k]) = Level(g, mark[k]) + Fingerprints /\ Level(g, mark[k]) \in Nat
        <5> HIDE DEF g, k
        <5> QED BY <3>4, <3>6, LevelFacts
      <4>2. B[A(j)].df = Level(g, mark[k]) + Fingerprints
          BY <4>1, <3>6, <3>3
      <4> HIDE DEF g, k
      <4> QED BY <4>1, <4>2, <3>1, FingerprintsFact
    <3> HIDE DEF g
    <3> QED BY <3>6, <3>7, <3>8 DEF FromHome
  <2>3. ASSUME NEW j \in (end + 1)..(n - 1), x = A(j), C[x] = B[x]
        PROVE  FromHome(n, C[x], x, home, mark)
      BY <2>3, <1>10 DEF AsFarAsItSays
  <2>4. ~(C[x] = Empty)
      BY DEF Empty
  <2> QED BY <2>1, <2>2, <2>3, <2>4, <1>12
<1>17. Ordered(n, C)
  <2> SUFFICES ASSUME NEW x \in 0..(n - 1), C[x].df >= 2 * Fingerprints
               PROVE  C[Before(x, n)].df + Fingerprints >= C[x].df
      BY DEF Ordered
  <2>1. ASSUME NEW j \in 1..end, x = A(j - 1)
        PROVE  C[Before(x, n)].df + Fingerprints >= C[x].df
    <3> DEFINE m == j - 1
    <3>1. /\ B[A(j)].df >= 2 * Fingerprints /\ B[A(j)].df \in Nat
          /\ C[x].df = B[A(j)].df - Fingerprints
          /\ A(j) \in 0..(n - 1) /\ j \in 1..n /\ m \in 0..n /\ m \in 0..(n - 1)
        BY <2>1, <1>11, <1>1
    <3>2. B[A(m)].df + Fingerprints >= B[A(j)].df /\ B[A(m)].df \in Nat
      <4>1. Before(A(j), n) = A(m)
          BY <3>1, <1>7
      <4>2. A(m) \in 0..(n - 1)
        <5> HIDE DEF m
        <5> QED BY <3>1, <1>3
      <4> HIDE DEF m
      <4> QED BY <4>1, <4>2, <3>1, <1>10, <1>9 DEF Ordered
    <3>3. CASE m # 0
      <4>1. m \in 1..end /\ m \in 1..n
          BY <3>3, <1>1
      <4>2. C[Before(x, n)].df = B[A(m)].df - Fingerprints /\ B[A(m)].df >= 2 * Fingerprints
        <5> HIDE DEF m
        <5>1. x = A(m)
            BY <2>1 DEF m
        <5>2. Before(x, n) = A(m - 1)
            BY <4>1, <5>1, <1>7
        <5> QED BY <5>2, <4>1, <1>11
      <4> HIDE DEF m
      <4> QED BY <4>2, <3>1, <3>2, FingerprintsFact
    <3>4. CASE m = 0
      <4>1. x = s /\ Before(x, n) = A(n - 1) /\ A(m) = s /\ n - 1 \in 0..n
          BY <3>4, <2>1, <1>4, <1>8, <1>1
      <4>2. A(n - 1) \in 0..(n - 1)
          BY <4>1, <1>3
      <4>3. B[s].df >= 2 * Fingerprints
          BY <4>1, <3>1, <3>2, <2>1, FingerprintsFact
      <4>4. B[A(n - 1)].df + Fingerprints >= B[s].df /\ B[A(n - 1)].df \in Nat
          BY <4>1, <4>2, <4>3, <1>8, <1>10, <1>9 DEF Ordered
      <4>5. end # n - 1
        <5> SUFFICES ASSUME end = n - 1 PROVE FALSE
            OBVIOUS
        <5>1. end + 1 = n
            BY <1>1
        <5>2. B[s].df < 2 * Fingerprints /\ B[s].df \in Nat
            BY <5>1, <1>2, <1>4, <1>9
        <5> QED BY <5>2, <4>3, FingerprintsFact
      <4>6. n - 1 \in (end + 1)..(n - 1)
          BY <4>5, <1>1
      <4>7. C[Before(x, n)] = B[A(n - 1)]
          BY <4>1, <4>6, <1>2
      <4>8. B[s].df + Fingerprints >= B[A(j)].df /\ B[s].df \in Nat
          BY <3>2, <4>1
      <4> HIDE DEF m
      <4> QED BY <4>4, <4>7, <4>8, <3>1, FingerprintsFact
    <3> QED BY <3>3, <3>4
  <2>2. CASE x = A(end) /\ C[x] = Empty
      BY <2>2, FingerprintsFact DEF Empty
  <2>3. ASSUME NEW j \in (end + 1)..(n - 1), x = A(j), C[x] = B[x]
        PROVE  C[Before(x, n)].df + Fingerprints >= C[x].df
    <3>1. j \in 1..n /\ Before(x, n) = A(j - 1)
        BY <2>3, <1>7, <1>1
    <3>2. B[Before(x, n)].df + Fingerprints >= B[x].df
        BY <2>3, <1>10 DEF Ordered
    <3>3. j # end + 1
      <4> SUFFICES ASSUME j = end + 1 PROVE FALSE
          OBVIOUS
      <4>1. B[x].df < 2 * Fingerprints /\ B[x].df \in Nat
          BY <2>3, <1>2, <1>9
      <4> QED BY <4>1, <2>3, FingerprintsFact
    <3>4. j - 1 \in (end + 1)..(n - 1)
        BY <3>3, <1>1
    <3>5. C[A(j - 1)] = B[A(j - 1)]
        BY <3>4, <1>2
    <3> QED BY <3>1, <3>2, <3>5, <2>3
  <2> QED BY <2>1, <2>2, <2>3, <1>12
<1>18. Broken(n, C)
  <2>1. A(end) \in 0..(n - 1)
      BY <1>3, <1>1
  <2> QED BY <2>1, <1>2, FingerprintsFact DEF Broken, Empty
<1>19. Known(n, C, I \ {r})
  <2> SUFFICES ASSUME NEW k \in I \ {r}
               PROVE  \E x \in 0..(n - 1) : C[x].df # 0 /\ C[x].idx = k
      BY DEF Known
  <2>1. PICK x \in 0..(n - 1) : B[x].df # 0 /\ B[x].idx = k
      BY <1>10 DEF Known
  <2>2. PICK j \in 0..(n - 1) : x = A(j)
      BY <1>5
  <2>3. j # 0
      BY <2>1, <2>2, <1>4
  <2>4. CASE j <= end
    <3>1. j \in 1..end
        BY <2>3, <2>4
    <3>2. /\ B[x].df >= 2 * Fingerprints /\ B[x].df \in Nat
          /\ C[A(j - 1)].df = B[x].df - Fingerprints
          /\ C[A(j - 1)].idx = k /\ j - 1 \in 0..n
        BY <3>1, <2>1, <2>2, <1>11
    <3>3. A(j - 1) \in 0..(n - 1)
        BY <3>2, <1>3
    <3>4. C[A(j - 1)].df # 0
        BY <3>2, FingerprintsFact
    <3> QED BY <3>2, <3>3, <3>4
  <2>5. CASE ~(j <= end)
    <3>1. j \in (end + 1)..(n - 1)
        BY <2>5, <1>1
    <3>2. C[x] = B[x]
        BY <3>1, <2>2, <1>2
    <3> QED BY <3>2, <2>1
  <2> QED BY <2>4, <2>5
<1>20. Once(n, C)
  <2> SUFFICES ASSUME NEW x \in 0..(n - 1), NEW y \in 0..(n - 1),
                      C[x].df # 0, C[y].df # 0, C[x].idx = C[y].idx
               PROVE  x = y
      BY DEF Once
  <2>1. PICK j \in 1..(n - 1) : /\ B[A(j)].df # 0 /\ B[A(j)].idx = C[x].idx
                                /\ x = IF j <= end THEN A(j - 1) ELSE A(j)
      BY <1>14
  <2>2. PICK k \in 1..(n - 1) : /\ B[A(k)].df # 0 /\ B[A(k)].idx = C[y].idx
                                /\ y = IF k <= end THEN A(k - 1) ELSE A(k)
      BY <1>14
  <2>3. /\ A(j) \in 0..(n - 1) /\ A(k) \in 0..(n - 1)
        /\ j \in 0..(n - 1) /\ k \in 0..(n - 1)
      BY <1>3, <1>1
  <2>4. A(j) = A(k)
      BY <2>1, <2>2, <2>3, <1>10 DEF Once
  <2>5. j = k
      BY <2>3, <2>4, <1>6
  <2> QED BY <2>1, <2>2, <2>5
<1>21. /\ I \ {r} \subseteq Nat /\ C \in Rings(n)
       /\ \A k \in I \ {r} : home[k] \in 0..(n - 1) /\ mark[k] \in 0..(Fingerprints - 1)
    BY <1>2 DEF IsRing
<1> QED BY <1>1, <1>13, <1>16, <1>17, <1>18, <1>19, <1>20, <1>21 DEF IsRing
-----------------------------------------------------------------------------
(* Only the homes and fingerprints of the indices in the ring matter.      *)
LEMMA RingOfSameHomes ==
    ASSUME NEW n, NEW B, NEW I, NEW home, NEW mark, IsRing(n, B, I, home, mark),
           NEW home2, NEW mark2,
           \A i \in I : home2[i] = home[i] /\ mark2[i] = mark[i]
    PROVE  IsRing(n, B, I, home2, mark2)
<1>1. AsFarAsItSays(n, B, I, home2, mark2)
  <2> SUFFICES ASSUME NEW s \in 0..(n - 1), B[s].df # 0
               PROVE  B[s].idx \in I /\ FromHome(n, B[s], s, home2, mark2)
      BY DEF AsFarAsItSays
  <2>1. B[s].idx \in I /\ FromHome(n, B[s], s, home, mark)
      BY DEF IsRing, AsFarAsItSays
  <2> QED BY <2>1 DEF FromHome
<1> QED BY <1>1 DEF IsRing

(* The bucket of one index learns a new one.                               *)
LEMMA RenamingKeepsRing ==
    ASSUME NEW n, NEW B, NEW I, NEW home, NEW mark, IsRing(n, B, I, home, mark),
           NEW back \in I, NEW r \in Nat, r \notin I, NEW x \in 0..(n - 1),
           B[x].df # 0, B[x].idx = back,
           NEW home2, NEW mark2, home2[r] = home[back], mark2[r] = mark[back],
           \A i \in I \ {back} : home2[i] = home[i] /\ mark2[i] = mark[i]
    PROVE  IsRing(n, [B EXCEPT ![x].idx = r], (I \ {back}) \cup {r}, home2, mark2)
<1> DEFINE C == [B EXCEPT ![x].idx = r]
           J == (I \ {back}) \cup {r}
<1>1. /\ n \in Nat \ {0, 1} /\ B \in Rings(n) /\ I \subseteq Nat
      /\ \A i \in I : home[i] \in 0..(n - 1) /\ mark[i] \in 0..(Fingerprints - 1)
      /\ EmptyIsEmpty(n, B) /\ AsFarAsItSays(n, B, I, home, mark)
      /\ Ordered(n, B) /\ Broken(n, B) /\ Known(n, B, I) /\ Once(n, B)
    BY DEF IsRing
<1>2. \A s \in 0..(n - 1) : B[s] \in Entries
    BY <1>1 DEF Rings
<1>3. \A s \in 0..(n - 1) : s # x => C[s] = B[s]
    BY <1>1 DEF Rings
<1>4. C[x].df = B[x].df /\ C[x].idx = r /\ C[x] \in Entries
  <2>1. C[x] = [B[x] EXCEPT !.idx = r]
      BY <1>1 DEF Rings
  <2>2. B[x] \in Entries
      BY <1>2
  <2> HIDE DEF C
  <2> QED BY <2>1, <2>2 DEF Entries
<1>5. C \in Rings(n)
  <2>1. C \in [0..(n - 1) -> {C[s] : s \in 0..(n - 1)}]
      BY <1>1 DEF Rings
  <2>2. \A s \in 0..(n - 1) : C[s] \in Entries
    <3> HIDE DEF C
    <3> QED BY <1>2, <1>3, <1>4
  <2> HIDE DEF C
  <2> QED BY <2>1, <2>2 DEF Rings
<1> HIDE DEF C
<1>6. \A s \in 0..(n - 1) : C[s].df = B[s].df
    BY <1>3, <1>4
<1>7. \A s \in 0..(n - 1) : s # x /\ B[s].df # 0 => B[s].idx # back /\ B[s].idx \in I
    BY <1>1 DEF Once, AsFarAsItSays
<1>8. EmptyIsEmpty(n, C)
    BY <1>1, <1>3, <1>4 DEF EmptyIsEmpty
<1>9. AsFarAsItSays(n, C, J, home2, mark2)
  <2> SUFFICES ASSUME NEW s \in 0..(n - 1), C[s].df # 0
               PROVE  C[s].idx \in J /\ FromHome(n, C[s], s, home2, mark2)
      BY DEF AsFarAsItSays
  <2>1. B[s].df # 0 /\ FromHome(n, B[s], s, home, mark)
      BY <1>1, <1>6 DEF AsFarAsItSays
  <2>2. CASE s = x
      BY <2>1, <2>2, <1>4 DEF FromHome
  <2>3. CASE s # x
    <3>1. C[s] = B[s] /\ B[s].idx \in I \ {back}
        BY <2>1, <2>3, <1>3, <1>7
    <3>2. home2[B[s].idx] = home[B[s].idx] /\ mark2[B[s].idx] = mark[B[s].idx]
        BY <3>1
    <3> QED BY <3>1, <3>2, <2>1 DEF FromHome
  <2> QED BY <2>2, <2>3
<1>10. Ordered(n, C)
  <2> SUFFICES ASSUME NEW s \in 0..(n - 1), C[s].df >= 2 * Fingerprints
               PROVE  C[Before(s, n)].df + Fingerprints >= C[s].df
      BY DEF Ordered
  <2>1. Before(s, n) \in 0..(n - 1)
      BY <1>1, BeforeValue
  <2> QED BY <2>1, <1>1, <1>6 DEF Ordered
<1>11. Broken(n, C)
    BY <1>1, <1>6 DEF Broken
<1>12. Known(n, C, J)
  <2> SUFFICES ASSUME NEW i \in J
               PROVE  \E s \in 0..(n - 1) : C[s].df # 0 /\ C[s].idx = i
      BY DEF Known
  <2>1. CASE i = r
      BY <2>1, <1>4
  <2>2. CASE i # r
    <3>1. i \in I /\ i # back
        BY <2>2
    <3>2. PICK s \in 0..(n - 1) : B[s].df # 0 /\ B[s].idx = i
        BY <3>1, <1>1 DEF Known
    <3>3. C[s] = B[s]
        BY <3>1, <3>2, <1>3
    <3> QED BY <3>2, <3>3
  <2> QED BY <2>1, <2>2
<1>13. Once(n, C)
  <2> SUFFICES ASSUME NEW s \in 0..(n - 1), NEW y \in 0..(n - 1),
                      C[s].df # 0, C[y].df # 0, C[s].idx = C[y].idx
               PROVE  s = y
      BY DEF Once
  <2>1. B[s].df # 0 /\ B[y].df # 0
      BY <1>6
  <2>2. CASE s # x /\ y # x
      BY <2>1, <2>2, <1>3, <1>1 DEF Once
  <2>3. CASE s = x /\ y # x
      BY <2>1, <2>3, <1>3, <1>4, <1>7
  <2>4. CASE s # x /\ y = x
      BY <2>1, <2>4, <1>3, <1>4, <1>7
  <2> QED BY <2>2, <2>3, <2>4
<1>14. /\ J \subseteq Nat
       /\ \A i \in J : home2[i] \in 0..(n - 1) /\ mark2[i] \in 0..(Fingerprints - 1)
    BY <1>1
<1> HIDE DEF J
<1>15. IsRing(n, C, J, home2, mark2)
    BY <1>1, <1>5, <1>8, <1>9, <1>10, <1>11, <1>12, <1>13, <1>14 DEF IsRing
<1> QED BY <1>15 DEF C, J

(* Where the bucket of an index is.                                        *)
LEMMA BucketOfIndex ==
    ASSUME NEW n, NEW B, NEW I, NEW home, NEW mark, IsRing(n, B, I, home, mark),
           NEW i \in I
    PROVE  \E d \in 0..(n - 1) :
              /\ B[Ahead(home[i], d, n)].idx = i
              /\ B[Ahead(home[i], d, n)].df = Level(d, mark[i])
              /\ \A e \in 0..d : B[Ahead(home[i], e, n)].df >= Level(e, mark[i])
              /\ \A e \in 0..(n - 1) :
                    B[Ahead(home[i], e, n)].df # 0 /\ B[Ahead(home[i], e, n)].idx = i => e = d
<1>1. PICK s \in 0..(n - 1) : B[s].df # 0 /\ B[s].idx = i
    BY DEF IsRing, Known
<1>2. PICK d \in 0..(n - 1) : s = Ahead(home[i], d, n) /\ B[s].df = Level(d, mark[i])
    BY <1>1 DEF IsRing, AsFarAsItSays, FromHome
<1>3. n \in Nat \ {0} /\ home[i] \in 0..(n - 1) /\ mark[i] \in 0..(Fingerprints - 1)
    BY DEF IsRing
<1>4. Level(d, mark[i]) \in Nat
  <2>1. d \in Nat
      BY <1>3
  <2> QED BY <1>3, <2>1, LevelFacts
<1>5. B[Ahead(home[i], d, n)].df >= Level(d, mark[i])
    BY <1>2, <1>4
<1>6. \A e \in 0..d : B[Ahead(home[i], e, n)].df >= Level(e, mark[i])
    BY <1>5, PathFromHome
<1>7. ASSUME NEW e \in 0..(n - 1),
             B[Ahead(home[i], e, n)].df # 0, B[Ahead(home[i], e, n)].idx = i
      PROVE  e = d
  <2> DEFINE h == home[i]
  <2>1. h \in 0..(n - 1) /\ e \in 0..n
      BY <1>3
  <2>2. Ahead(h, e, n) \in 0..(n - 1)
    <3> HIDE DEF h
    <3> QED BY <2>1, <1>3, AheadValue
  <2>3. Ahead(h, e, n) = s
      BY <2>2, <1>1, <1>7 DEF IsRing, Once
  <2>4. \A j, k \in 0..(n - 1) : Ahead(h, j, n) = Ahead(h, k, n) => j = k
    <3> HIDE DEF h
    <3> QED BY <2>1, <1>3, RingVisitsOnce
  <2> HIDE DEF h
  <2> QED BY <2>3, <2>4, <1>2 DEF h
<1> QED BY <1>1, <1>2, <1>6, <1>7

(* n steps from home no bucket is as far from its key's home.              *)
LEMMA LevelBound ==
    ASSUME NEW n, NEW B, NEW I, NEW home, NEW mark, IsRing(n, B, I, home, mark),
           NEW s \in 0..(n - 1), NEW f \in 0..(Fingerprints - 1)
    PROVE  B[s].df < Level(n, f) /\ B[s].df \in Nat /\ Level(n, f) \in Nat
<1>1. n \in Nat \ {0} /\ n \in Nat
    BY DEF IsRing
<1>2. Level(n, f) \in Nat /\ Level(n, f) >= Fingerprints
    BY <1>1, LevelFacts
<1>3. B[s].df \in Nat
    BY DEF IsRing, Rings, Entries
<1>4. CASE B[s].df = 0
    BY <1>4, <1>2, FingerprintsFact
<1>5. CASE B[s].df # 0
  <2>1. PICK d \in 0..(n - 1) : B[s].df = Level(d, mark[B[s].idx])
      BY <1>5 DEF IsRing, AsFarAsItSays, FromHome
  <2>2. mark[B[s].idx] \in 0..(Fingerprints - 1) /\ d \in Nat /\ d < n
    <3>1. B[s].idx \in I
        BY <1>5 DEF IsRing, AsFarAsItSays
    <3>2. d \in Nat /\ d < n
        BY <1>1
    <3> QED BY <3>1, <3>2 DEF IsRing
  <2>3. Level(d, mark[B[s].idx]) < Level(n, f)
      BY <2>2, <1>1, LevelLess
  <2> QED BY <2>1, <2>3, <1>2, <1>3
<1> QED BY <1>2, <1>3, <1>4, <1>5

(* Fewer indices than buckets leave an empty bucket.                       *)
LEMMA EmptyBucket ==
    ASSUME NEW n, NEW B, NEW I, NEW home, NEW mark, IsRing(n, B, I, home, mark),
           IsFiniteSet(I), Cardinality(I) < n
    PROVE  \E s \in 0..(n - 1) : B[s].df = 0 /\ B[s] = Empty
<1>1. n \in Nat
    BY DEF IsRing
<1>2. IsFiniteSet(0..(n - 1)) /\ Cardinality(0..(n - 1)) = n
    BY <1>1, FS_Interval
<1>3. SUFFICES ASSUME \A s \in 0..(n - 1) : B[s].df # 0 PROVE FALSE
    BY DEF IsRing, EmptyIsEmpty
<1> DEFINE f == [s \in 0..(n - 1) |-> B[s].idx]
<1>4. f \in [0..(n - 1) -> I]
    BY <1>3 DEF IsRing, AsFarAsItSays
<1>5. PICK s, x \in 0..(n - 1) : s # x /\ f[s] = f[x]
  <2> HIDE DEF f
  <2> QED BY <1>2, <1>4, FS_PigeonHole
<1> QED BY <1>3, <1>5 DEF IsRing, Once

(* Where next_while_less first meets a level that is not below the key's,  *)
(* the levels stay the key's up to its bucket.                             *)
LEMMA SameLevelAhead ==
    ASSUME NEW n, NEW B, NEW I, NEW home, NEW mark, IsRing(n, B, I, home, mark),
           NEW h \in 0..(n - 1), NEW f \in 0..(Fingerprints - 1),
           NEW d \in 0..(n - 1),
           \A e \in 0..d : B[Ahead(h, e, n)].df >= Level(e, f),
           NEW m \in 0..d, B[Ahead(h, m, n)].df <= Level(m, f)
    PROVE  \A e \in m..d : B[Ahead(h, e, n)].df = Level(e, f)
<1>1. n \in Nat \ {0} /\ d \in Nat /\ m \in Nat
    BY DEF IsRing
<1>2. \A e \in 0..n : Ahead(h, e, n) \in 0..(n - 1)
    BY <1>1, AheadValue
<1>3. \A e \in 0..n : B[Ahead(h, e, n)].df \in Nat
    BY <1>2 DEF IsRing, Rings, Entries
<1>4. \A e \in Nat : Level(e, f) \in Nat
    BY LevelFacts
<1> DEFINE T == {x \in 0..(d - m) : B[Ahead(h, m + x, n)].df = Level(m + x, f)}
<1>5. 0 \in T
  <2>1. m \in 0..n /\ m \in 0..d /\ m + 0 = m
      BY <1>1
  <2>2. B[Ahead(h, m, n)].df = Level(m, f)
      BY <2>1, <1>3, <1>4
  <2> QED BY <2>1, <2>2, <1>1
<1>6. ASSUME NEW x \in 1..(d - m), x - 1 \in T
      PROVE  x \in T
  <2> DEFINE e == m + x - 1
  <2>1. /\ e \in 0..n /\ e + 1 \in 1..n /\ e + 1 \in 0..n /\ e + 1 = m + x /\ e = m + (x - 1)
        /\ e \in Nat /\ (e + 1) - 1 = e /\ e + 1 \in 0..d /\ e + 1 \in Nat
      BY <1>1
  <2>2. B[Ahead(h, e, n)].df = Level(e, f)
      BY <1>6, <2>1
  <2> HIDE DEF e
  <2>3. Before(Ahead(h, e + 1, n), n) = Ahead(h, e, n)
    <3>1. \A j \in 1..n : Before(Ahead(h, j, n), n) = Ahead(h, j - 1, n)
        BY <1>1, RingSteps
    <3> QED BY <3>1, <2>1
  <2>4. Level(e + 1, f) = Level(e, f) + Fingerprints
      BY <2>1, LevelFacts
  <2>5. B[Ahead(h, e + 1, n)].df >= Level(e + 1, f)
      BY <2>1
  <2>6. B[Ahead(h, e + 1, n)].df >= 2 * Fingerprints =>
           B[Ahead(h, e, n)].df + Fingerprints >= B[Ahead(h, e + 1, n)].df
      BY <2>1, <2>3, <1>2 DEF IsRing, Ordered
  <2>7. Level(e, f) >= Fingerprints
      BY <2>1, LevelFacts
  <2>8. B[Ahead(h, e + 1, n)].df \in Nat /\ Level(e, f) \in Nat
      BY <2>1, <1>3, <1>4
  <2>9. B[Ahead(h, e + 1, n)].df = Level(e + 1, f)
      BY <2>2, <2>4, <2>5, <2>6, <2>7, <2>8, FingerprintsFact
  <2> QED BY <2>9, <2>1
<1>7. \A x \in 0..(d - m) : x \in T
  <2>1. d - m \in Nat
      BY <1>1
  <2> HIDE DEF T
  <2> QED BY <2>1, <1>5, <1>6, CountUp
<1>8. ASSUME NEW e \in m..d
      PROVE  B[Ahead(h, e, n)].df = Level(e, f)
  <2>1. e - m \in 0..(d - m) /\ m + (e - m) = e
      BY <1>1
  <2>2. e - m \in T
      BY <2>1, <1>7
  <2> QED BY <2>1, <2>2
<1> QED BY <1>8

-----------------------------------------------------------------------------
(* Powers of two, counted by subsets.                                      *)
LEMMA PowerIsNat ==
    ASSUME NEW n \in Nat
    PROVE  2 ^ n \in Nat \ {0}
<1>1. IsFiniteSet(1..n) /\ Cardinality(1..n) = n
    BY FS_Interval
<1>2. IsFiniteSet(SUBSET (1..n)) /\ Cardinality(SUBSET (1..n)) = 2 ^ n
    BY <1>1, FS_SUBSET
<1>3. Cardinality(SUBSET (1..n)) # 0
    BY <1>2, FS_EmptySet
<1> QED BY <1>2, <1>3, FS_CardinalityType

(* Powers of two, counted as sets of numbers: those of a sum.              *)
LEMMA PowerOfSum ==
    ASSUME NEW a \in Nat, NEW b \in Nat
    PROVE  2 ^ (a + b) = (2 ^ a) * (2 ^ b)
<1> DEFINE c == a + b
           A == 1..a
           B == (a + 1)..c
           both == (SUBSET A) \X (SUBSET B)
           f == [p \in both |-> p[1] \cup p[2]]
<1>1. IsFiniteSet(A) /\ Cardinality(A) = a
    BY FS_Interval
<1>2. c \in Nat /\ IsFiniteSet(B) /\ Cardinality(B) = b
  <2>1. a + 1 \in Int /\ c \in Int /\ c \in Nat /\ c - (a + 1) + 1 = b /\ (a + 1 > c <=> b = 0)
      OBVIOUS
  <2> DEFINE g == a + 1
  <2>2. IsFiniteSet(g..c) /\ Cardinality(g..c) = IF g > c THEN 0 ELSE c - g + 1
    <3> HIDE DEF c, g
    <3> QED BY <2>1, FS_Interval DEF g
  <2> QED BY <2>1, <2>2
<1>3. A \cup B = 1..c /\ A \cap B = {}
    OBVIOUS
<1>4. IsFiniteSet(1..c) /\ Cardinality(1..c) = c
  <2> HIDE DEF c
  <2> QED BY <1>2, FS_Interval
<1> HIDE DEF A, B, c
<1>5. /\ IsFiniteSet(SUBSET A) /\ Cardinality(SUBSET A) = 2 ^ a
      /\ IsFiniteSet(SUBSET B) /\ Cardinality(SUBSET B) = 2 ^ b
      /\ Cardinality(SUBSET (1..c)) = 2 ^ c
    BY <1>1, <1>2, <1>4, FS_SUBSET
<1>6. IsFiniteSet(both) /\ Cardinality(both) = Cardinality(SUBSET A) * Cardinality(SUBSET B)
  <2> DEFINE S == SUBSET A
             T == SUBSET B
  <2>1. IsFiniteSet(S) /\ IsFiniteSet(T)
      BY <1>5
  <2>2. IsFiniteSet(S \X T) /\ Cardinality(S \X T) = Cardinality(S) * Cardinality(T)
    <3> HIDE DEF S, T
    <3> QED BY <2>1, FS_Product
  <2> QED BY <2>2
<1>7. f \in Bijection(both, SUBSET (1..c))
  <2>1. ASSUME NEW p \in both
        PROVE  /\ p[1] \in SUBSET A /\ p[2] \in SUBSET B /\ p = <<p[1], p[2]>>
               /\ f[p] = p[1] \cup p[2]
      OBVIOUS
  <2>2. f \in [both -> SUBSET (1..c)]
    <3>1. \A p \in both : p[1] \cup p[2] \in SUBSET (1..c)
      <4> TAKE p \in both
      <4>1. p[1] \in SUBSET A /\ p[2] \in SUBSET B
          BY <2>1
      <4> HIDE DEF both
      <4> QED BY <4>1, <1>3
    <3> HIDE DEF both
    <3> QED BY <3>1
  <2>3. ASSUME NEW p \in both, NEW q \in both, f[p] = f[q] PROVE p = q
    <3>1. p[1] \cup p[2] = q[1] \cup q[2]
        BY <2>1, <2>3
    <3>2. /\ p[1] \in SUBSET A /\ p[2] \in SUBSET B /\ p = <<p[1], p[2]>>
          /\ q[1] \in SUBSET A /\ q[2] \in SUBSET B /\ q = <<q[1], q[2]>>
        BY <2>1
    <3> HIDE DEF both, f
    <3>3. p[1] = q[1] /\ p[2] = q[2]
      <4> DEFINE X == p[1]
                 Y == p[2]
                 Z == q[1]
                 W == q[2]
      <4>1. X \in SUBSET A /\ Y \in SUBSET B /\ Z \in SUBSET A /\ W \in SUBSET B
            /\ X \cup Y = Z \cup W
          BY <3>1, <3>2
      <4> HIDE DEF X, Y, Z, W
      <4>2. X = Z
          BY <4>1, <1>3
      <4>3. Y = W
          BY <4>1, <1>3
      <4> QED BY <4>2, <4>3 DEF X, Y, Z, W
    <3> QED BY <3>2, <3>3
  <2>4. ASSUME NEW U \in SUBSET (1..c) PROVE \E p \in both : f[p] = U
    <3> DEFINE X == U \cap A
               Y == U \cap B
    <3>1. X \in SUBSET A /\ Y \in SUBSET B /\ X \cup Y = U
        BY <1>3
    <3> HIDE DEF X, Y
    <3>2. <<X, Y>> \in both
        BY <3>1
    <3>3. f[<<X, Y>>] = X \cup Y
        BY <3>2
    <3> HIDE DEF f, both
    <3> QED BY <3>1, <3>2, <3>3
  <2> HIDE DEF f, both
  <2> QED BY <2>2, <2>3, <2>4 DEF Bijection, Injection, Surjection, IsInjective
<1>8. ExistsBijection(both, SUBSET (1..c))
  <2> HIDE DEF f, both
  <2> QED BY <1>7 DEF ExistsBijection
<1>9. Cardinality(SUBSET (1..c)) = Cardinality(both)
  <2> HIDE DEF both
  <2> QED BY <1>6, <1>8, FS_Bijection
<1> QED BY <1>5, <1>6, <1>9 DEF c

(* The powers that the growth of a table needs.                            *)
LEMMA SmallPowers == 2 ^ 1 = 2 /\ 2 ^ 2 = 4
<1>1. 2 ^ 1 = 2
  <2>1. IsFiniteSet({1}) /\ Cardinality({1}) = 1
      BY FS_Singleton
  <2>2. Cardinality(SUBSET {1}) = 2 ^ 1
      BY <2>1, FS_SUBSET
  <2>3. SUBSET {1} = {{}} \cup {{1}} /\ {1} \notin {{}}
      OBVIOUS
  <2>4. IsFiniteSet({{}}) /\ Cardinality({{}}) = 1
      BY FS_Singleton
  <2>5. Cardinality({{}} \cup {{1}}) = 2
    <3> DEFINE S == {{}}
               x == {1}
    <3>1. IsFiniteSet(S) /\ Cardinality(S) = 1 /\ x \notin S
        BY <2>3, <2>4
    <3>2. Cardinality(S \cup {x}) = 2
      <4> HIDE DEF S, x
      <4> QED BY <3>1, FS_AddElement
    <3> QED BY <3>2
  <2> QED BY <2>2, <2>3, <2>5
<1>2. 2 ^ (1 + 1) = (2 ^ 1) * (2 ^ 1)
    BY PowerOfSum
<1>3. 1 + 1 = 2 /\ 2 * 2 = 4
    OBVIOUS
<1> QED BY <1>1, <1>2, <1>3

-----------------------------------------------------------------------------
(***************************************************************************)
(* Tables.                                                                 *)
(***************************************************************************)

(* A larger table has more buckets, a table can always use some of them,   *)
(* and one with more buckets has room for one more key at least.           *)
LEMMA NumBucketsFacts ==
    ASSUME NEW b \in InitialBits..MaxBits
    PROVE  /\ b \in Nat /\ NumBuckets(b) \in Nat \ {0, 1} /\ NumBuckets(b) >= 4
           /\ Load(b) \in Nat /\ Load(b) < NumBuckets(b)
           /\ Capacity(b) \in Nat /\ Load(b) <= Capacity(b) /\ Capacity(b) <= NumBuckets(b)
<1> DEFINE c == b - 2
           m == 2 ^ c
<1>1. c \in Nat /\ 2 + c = b /\ b \in Nat
    BY TableAssumption DEF InitialBits
<1>2. m \in Nat \ {0}
  <2> HIDE DEF c
  <2> QED BY <1>1, PowerIsNat
<1>3. 2 ^ (2 + c) = (2 ^ 2) * m
  <2> HIDE DEF c
  <2> QED BY <1>1, PowerOfSum
<1>4. NumBuckets(b) = 4 * m
    BY <1>1, <1>3, SmallPowers DEF NumBuckets
<1> HIDE DEF m
<1>5. NumBuckets(b) \in Nat \ {0, 1} /\ NumBuckets(b) >= 4
    BY <1>2, <1>4
<1> DEFINE n == NumBuckets(b)
<1>6. Load(b) = (13421773 * n) \div 16777216
    BY DEF Load
<1>7. Load(b) \in Nat /\ Load(b) < n
  <2>1. n \in Nat /\ n >= 4
      BY <1>5
  <2> HIDE DEF n
  <2>2. (13421773 * n) \div 16777216 \in Nat /\ (13421773 * n) \div 16777216 < n
      BY <2>1
  <2> QED BY <2>2, <1>6
<1>8. Capacity(b) = n \/ Capacity(b) = Load(b)
    BY DEF Capacity
<1> QED BY <1>1, <1>5, <1>7, <1>8

(* More bits, more buckets and more room.                                  *)
LEMMA MoreBuckets ==
    ASSUME NEW b \in InitialBits..MaxBits, NEW c \in InitialBits..MaxBits, b <= c
    PROVE  NumBuckets(b) <= NumBuckets(c) /\ Load(b) <= Load(c)
<1> DEFINE e == c - b
           p == 2 ^ b
           q == 2 ^ e
<1>1. e \in Nat /\ b \in Nat /\ b + e = c
    BY TableAssumption DEF InitialBits
<1>2. p \in Nat \ {0} /\ q \in Nat \ {0}
  <2> HIDE DEF e
  <2> QED BY <1>1, PowerIsNat
<1>3. 2 ^ (b + e) = p * q
  <2> HIDE DEF e
  <2> QED BY <1>1, PowerOfSum
<1>4. NumBuckets(c) = p * q /\ NumBuckets(b) = p
    BY <1>1, <1>3 DEF NumBuckets
<1> HIDE DEF p, q
<1>5. p <= p * q
    BY <1>2
<1>6. \A m, n \in Nat : m <= n => (13421773 * m) \div 16777216 <= (13421773 * n) \div 16777216
    OBVIOUS
<1>7. p \in Nat /\ p * q \in Nat
    BY <1>2
<1> QED BY <1>4, <1>5, <1>6, <1>7 DEF Load

(* A table that gets one more bit has room for one more key.               *)
LEMMA OneMoreBit ==
    ASSUME NEW b \in InitialBits..MaxBits, b # MaxBits
    PROVE  b + 1 \in InitialBits..MaxBits /\ Load(b) + 1 <= Load(b + 1)
<1>1. b + 1 \in InitialBits..MaxBits /\ b \in Nat
    BY TableAssumption DEF InitialBits
<1>2. NumBuckets(b + 1) = NumBuckets(b) * 2
    BY <1>1, PowerOfSum, SmallPowers DEF NumBuckets
<1>3. NumBuckets(b) \in Nat /\ NumBuckets(b) >= 4
    BY NumBucketsFacts
<1>4. \A n \in Nat : n >= 4 => (13421773 * n) \div 16777216 + 1 <= (13421773 * (n * 2)) \div 16777216
    OBVIOUS
<1> QED BY <1>1, <1>2, <1>3, <1>4 DEF Load

(* Enough bits for a number of keys that a table can hold.                 *)
LEMMA BitsForFacts ==
    ASSUME NEW size \in Nat, CanHold(size)
    PROVE  BitsFor(size) \in InitialBits..MaxBits /\ Load(BitsFor(size)) >= size
<1> DEFINE S == {b \in InitialBits..MaxBits : Load(b) >= size}
<1>1. S \in SUBSET Nat
    BY TableAssumption DEF InitialBits
<1>2. MaxBits \in S
  <2>1. MaxBits \in InitialBits..MaxBits
      BY TableAssumption DEF InitialBits
  <2>2. Load(MaxBits) \in Nat
      BY <2>1, NumBucketsFacts
  <2> QED BY <2>1, <2>2 DEF CanHold
<1>3. BitsFor(size) = Min(S)
    BY DEF BitsFor
<1>4. \E x \in S : \A y \in S : x <= y
  <2> HIDE DEF S
  <2> QED BY <1>1, <1>2, LeastNumber
<1>5. Min(S) \in S
  <2> HIDE DEF S
  <2> QED BY <1>4 DEF Min
<1> QED BY <1>3, <1>5

(* The hash of every key has a home among the buckets.                     *)
LEMMA HomeFacts ==
    ASSUME hash \in [Keys -> HashValues], NEW k \in Keys, NEW b \in InitialBits..MaxBits
    PROVE  /\ Home(k, b) \in 0..(NumBuckets(b) - 1)
           /\ hash[k] % Fingerprints \in 0..(Fingerprints - 1)
<1> DEFINE c == WordBits - b
           m == 2 ^ c
           n == 2 ^ b
           w == 2 ^ WordBits
<1>1. b \in Nat /\ c \in Nat /\ c + b = WordBits /\ WordBits \in Nat
    BY TableAssumption DEF InitialBits
<1>2. m \in Nat \ {0} /\ n \in Nat \ {0} /\ w \in Nat
  <2> HIDE DEF c
  <2> QED BY <1>1, PowerIsNat
<1>3. w = m * n
  <2>1. 2 ^ (c + b) = m * n
    <3> HIDE DEF c
    <3> QED BY <1>1, PowerOfSum
  <2> QED BY <2>1, <1>1
<1>4. hash[k] \in 0..(w - 1)
    BY TableAssumption
<1>5. Home(k, b) = hash[k] \div m /\ NumBuckets(b) = n
    BY DEF Home, NumBuckets
<1> HIDE DEF m, n, w
<1>6. hash[k] \in Nat /\ hash[k] < m * n
    BY <1>2, <1>3, <1>4
<1>7. hash[k] \div m \in 0..(n - 1)
  <2> DEFINE h == hash[k]
  <2>1. h \in Nat /\ h < m * n
      BY <1>6
  <2> HIDE DEF h
  <2>2. h \div m \in 0..(n - 1)
      BY <2>1, <1>2
  <2> QED BY <2>2 DEF h
<1>8. hash[k] % Fingerprints \in 0..(Fingerprints - 1)
  <2> DEFINE h == hash[k]
  <2>1. h \in Nat
      BY <1>6
  <2> HIDE DEF h
  <2>2. h % Fingerprints \in 0..(Fingerprints - 1)
      BY <2>1, FingerprintsFact
  <2> QED BY <2>2 DEF h
<1> QED BY <1>5, <1>7, <1>8

(* The home bucket and the fingerprint of the value with index i.          *)
Homes(h, v, b) == [i \in 0..(Len(v) - 1) |-> h[v[i + 1]] \div 2 ^ (WordBits - b)]
Marks(h, v) == [i \in 0..(Len(v) - 1) |-> h[v[i + 1]] % Fingerprints]

(* A table has nothing but its three fields.                               *)
IsRecord(t) == t = [values |-> t.values, bits |-> t.bits, buckets |-> t.buckets]

(* The first m values are distinct and have their buckets.                 *)
IsFilled(h, t, m) ==
    /\ IsRecord(t)
    /\ t.values \in Seq(Keys) /\ t.bits \in InitialBits..MaxBits
    /\ m \in 0..Len(t.values)
    /\ \A i, j \in 1..m : t.values[i] = t.values[j] => i = j
    /\ IsRing(NumBuckets(t.bits), t.buckets, 0..(m - 1),
              Homes(h, t.values, t.bits), Marks(h, t.values))

(* A table between two operations.                                         *)
IsTable(h, t) ==
    /\ IsFilled(h, t, Len(t.values))
    /\ Len(t.values) <= Capacity(t.bits)

(* The key behind an index, its home and its fingerprint.                  *)
LEMMA KeyOfIndex ==
    ASSUME hash \in [Keys -> HashValues], NEW t, NEW m, IsFilled(hash, t, m),
           NEW i \in 1..m
    PROVE  /\ i \in 1..Len(t.values) /\ i - 1 \in 0..(m - 1)
           /\ t.values[i] \in Keys
           /\ Homes(hash, t.values, t.bits)[i - 1] = Home(t.values[i], t.bits)
           /\ Marks(hash, t.values)[i - 1] = hash[t.values[i]] % Fingerprints
<1>1. t.values \in Seq(Keys) /\ Len(t.values) \in Nat /\ m \in 0..Len(t.values)
    BY DEF IsFilled
<1>2. i \in 1..Len(t.values) /\ i - 1 \in 0..(m - 1) /\ i - 1 \in 0..(Len(t.values) - 1) /\ (i - 1) + 1 = i
    BY <1>1
<1>3. t.values[i] \in Keys
    BY <1>1, <1>2, ElementOfSeq
<1>4. Homes(hash, t.values, t.bits)[i - 1] = Home(t.values[i], t.bits)
    BY <1>2 DEF Homes, Home
<1>5. Marks(hash, t.values)[i - 1] = hash[t.values[i]] % Fingerprints
    BY <1>2 DEF Marks
<1> QED BY <1>2, <1>3, <1>4, <1>5

(* Slots and levels of the ring, in terms of the code.                     *)
LEMMA SlotAndLevel ==
    ASSUME NEW t, NEW k, NEW d
    PROVE  /\ Slot(t, k, d) = Ahead(Home(k, t.bits), d, NumBuckets(t.bits))
           /\ Bucket(t, k, d) = t.buckets[Ahead(Home(k, t.bits), d, NumBuckets(t.bits))]
           /\ DF(k, d) = Level(d, hash[k] % Fingerprints)
BY DEF Slot, Bucket, DF, Ahead, Level

-----------------------------------------------------------------------------
(***************************************************************************)
(* Probing.                                                                *)
(***************************************************************************)

(* What the ring says of the buckets that a key's probing looks at.        *)
LEMMA ProbedBuckets ==
    ASSUME hash \in [Keys -> HashValues], NEW t, NEW m, IsFilled(hash, t, m), NEW k \in Keys
    PROVE  /\ NumBuckets(t.bits) \in Nat /\ NumBuckets(t.bits) >= 4
           /\ \A d \in Distances(t) :
                 /\ Slot(t, k, d) \in 0..(NumBuckets(t.bits) - 1)
                 /\ Bucket(t, k, d) = t.buckets[Slot(t, k, d)]
                 /\ Bucket(t, k, d).df \in Nat
                 /\ DF(k, d) \in Nat /\ DF(k, d) >= Fingerprints
           /\ Passed(t, k, NumBuckets(t.bits))
<1> DEFINE n == NumBuckets(t.bits)
           h == Home(k, t.bits)
           f == hash[k] % Fingerprints
<1>1. t.bits \in InitialBits..MaxBits
    BY DEF IsFilled
<1>2. n \in Nat \ {0} /\ n \in Nat /\ n >= 4
    BY <1>1, NumBucketsFacts
<1>3. h \in 0..(n - 1) /\ f \in 0..(Fingerprints - 1)
    BY <1>1, HomeFacts
<1>4. IsRing(n, t.buckets, 0..(m - 1), Homes(hash, t.values, t.bits), Marks(hash, t.values))
    BY DEF IsFilled
<1>5. ASSUME NEW d \in 0..n
      PROVE  /\ Ahead(h, d, n) \in 0..(n - 1)
             /\ t.buckets[Ahead(h, d, n)].df \in Nat
             /\ t.buckets[Ahead(h, d, n)].df < Level(n, f)
             /\ Level(d, f) \in Nat /\ Level(d, f) >= Fingerprints
  <2>1. Ahead(h, d, n) \in 0..(n - 1)
    <3> HIDE DEF h, n
    <3> QED BY <1>2, <1>3, AheadValue
  <2>2. \A s \in 0..(n - 1) : t.buckets[s].df < Level(n, f) /\ t.buckets[s].df \in Nat
    <3> HIDE DEF n, f
    <3> QED BY <1>3, <1>4, LevelBound
  <2>3. d \in Nat
      BY <1>2
  <2>4. Level(d, f) \in Nat /\ Level(d, f) >= Fingerprints
    <3> HIDE DEF f
    <3> QED BY <2>3, <1>3, LevelFacts
  <2> QED BY <2>1, <2>2, <2>4
<1>6. \A d : /\ Slot(t, k, d) = Ahead(h, d, n)
             /\ Bucket(t, k, d) = t.buckets[Ahead(h, d, n)]
             /\ DF(k, d) = Level(d, f)
    BY SlotAndLevel
<1>7. Passed(t, k, n)
  <2>1. n \in 0..n
      BY <1>2
  <2>2. t.buckets[Ahead(h, n, n)].df < Level(n, f) /\ t.buckets[Ahead(h, n, n)].df \in Nat
        /\ Level(n, f) \in Nat
      BY <2>1, <1>5
  <2>3. DF(k, n) > Bucket(t, k, n).df
    <3> HIDE DEF n, h, f
    <3> QED BY <2>2, <1>6
  <2> QED BY <2>3 DEF Passed
<1>8. Distances(t) = 0..n
    BY DEF Distances
<1> HIDE DEF n, h, f
<1>9. \A d \in Distances(t) :
                 /\ Slot(t, k, d) \in 0..(n - 1)
                 /\ Bucket(t, k, d) = t.buckets[Slot(t, k, d)]
                 /\ Bucket(t, k, d).df \in Nat
                 /\ DF(k, d) \in Nat /\ DF(k, d) >= Fingerprints
    BY <1>5, <1>6, <1>8
<1> QED BY <1>2, <1>7, <1>9 DEF n

(* The bucket of the i-th value is d steps from its home, behind buckets   *)
(* that no probing for it passes, and no other one on the way refers to it.*)
LiesAt(t, i, d) ==
    LET k == t.values[i] IN
        /\ d \in 0..(NumBuckets(t.bits) - 1)
        /\ Bucket(t, k, d).idx = i - 1 /\ Bucket(t, k, d).df = DF(k, d)
        /\ \A e \in 0..d : Bucket(t, k, e).df >= DF(k, e)
        /\ \A e \in 0..(NumBuckets(t.bits) - 1) :
              Bucket(t, k, e).df # 0 /\ Bucket(t, k, e).idx = i - 1 => e = d

(* Every value lies somewhere.                                             *)
LEMMA ValueLiesSomewhere ==
    ASSUME hash \in [Keys -> HashValues], NEW t, NEW m, IsFilled(hash, t, m),
           NEW i \in 1..m
    PROVE  \E d \in 0..(NumBuckets(t.bits) - 1) : LiesAt(t, i, d)
<1> DEFINE n == NumBuckets(t.bits)
           k == t.values[i]
           B == t.buckets
           home == Homes(hash, t.values, t.bits)
           mark == Marks(hash, t.values)
           x == i - 1
           I == 0..(m - 1)
<1>1. x \in I /\ home[x] = Home(k, t.bits) /\ mark[x] = hash[k] % Fingerprints
    BY KeyOfIndex
<1>2. IsRing(n, B, I, home, mark)
    BY DEF IsFilled
<1>3. PICK d \in 0..(n - 1) :
              /\ B[Ahead(home[x], d, n)].idx = x
              /\ B[Ahead(home[x], d, n)].df = Level(d, mark[x])
              /\ \A e \in 0..d : B[Ahead(home[x], e, n)].df >= Level(e, mark[x])
              /\ \A e \in 0..(n - 1) :
                    B[Ahead(home[x], e, n)].df # 0 /\ B[Ahead(home[x], e, n)].idx = x => e = d
  <2> HIDE DEF n, B, home, mark, x, I
  <2> QED BY <1>1, <1>2, BucketOfIndex
<1>4. \A e : /\ Bucket(t, k, e) = B[Ahead(home[x], e, n)]
             /\ DF(k, e) = Level(e, mark[x])
  <2>1. \A e : /\ Bucket(t, k, e) = B[Ahead(Home(k, t.bits), e, n)]
               /\ DF(k, e) = Level(e, hash[k] % Fingerprints)
      BY SlotAndLevel
  <2> HIDE DEF k, home, mark, x
  <2> QED BY <1>1, <2>1
<1>5. LiesAt(t, i, d)
  <2>1. /\ Bucket(t, k, d).idx = x /\ Bucket(t, k, d).df = DF(k, d)
        /\ \A e \in 0..d : Bucket(t, k, e).df >= DF(k, e)
        /\ \A e \in 0..(n - 1) : Bucket(t, k, e).df # 0 /\ Bucket(t, k, e).idx = x => e = d
    <3> HIDE DEF n, k, B, home, mark, x
    <3> QED BY <1>3, <1>4
  <2> QED BY <2>1 DEF LiesAt
<1> QED BY <1>5

(* A key that matches is a value.                                          *)
LEMMA MatchIsValue ==
    ASSUME hash \in [Keys -> HashValues], NEW t, NEW m, IsFilled(hash, t, m), NEW k \in Keys,
           NEW d \in Distances(t), Matches(t, k, d)
    PROVE  \E i \in 1..m : t.values[i] = k /\ Bucket(t, k, d).idx = i - 1 /\ Bucket(t, k, d).df # 0
<1> DEFINE n == NumBuckets(t.bits)
           b == Bucket(t, k, d)
           s == Slot(t, k, d)
<1>1. /\ s \in 0..(n - 1) /\ b = t.buckets[s] /\ b.df \in Nat
      /\ DF(k, d) \in Nat /\ DF(k, d) >= Fingerprints
    BY ProbedBuckets
<1>2. b.df = DF(k, d) /\ t.values[b.idx + 1] = k
    BY DEF Matches
<1>3. b.df # 0
    BY <1>1, <1>2, FingerprintsFact
<1>4. b.idx \in 0..(m - 1)
    BY <1>1, <1>3 DEF IsFilled, IsRing, AsFarAsItSays
<1>5. m \in Nat
    BY DEF IsFilled
<1>6. b.idx + 1 \in 1..m /\ (b.idx + 1) - 1 = b.idx
    BY <1>4, <1>5
<1> HIDE DEF b
<1> QED BY <1>2, <1>3, <1>6 DEF b

(* The key of the value that lies at d matches there and nowhere before.   *)
LEMMA MatchesWhereItLies ==
    ASSUME hash \in [Keys -> HashValues], NEW t, NEW m, IsFilled(hash, t, m),
           NEW i \in 1..m, NEW d, LiesAt(t, i, d)
    PROVE  /\ d \in Distances(t) /\ Matches(t, t.values[i], d)
           /\ \A e \in Distances(t) : Matches(t, t.values[i], e) => e = d
           /\ \A e \in 0..d : ~Passed(t, t.values[i], e)
<1> DEFINE n == NumBuckets(t.bits)
           k == t.values[i]
<1>1. k \in Keys /\ i \in Nat
  <2>1. k \in Keys
      BY KeyOfIndex
  <2>2. m \in Nat
      BY DEF IsFilled
  <2> QED BY <2>1, <2>2
<1>2. /\ d \in 0..(n - 1)
      /\ Bucket(t, k, d).idx = i - 1 /\ Bucket(t, k, d).df = DF(k, d)
      /\ \A e \in 0..d : Bucket(t, k, e).df >= DF(k, e)
      /\ \A e \in 0..(n - 1) :
              Bucket(t, k, e).df # 0 /\ Bucket(t, k, e).idx = i - 1 => e = d
    BY DEF LiesAt
<1>3. /\ n \in Nat
      /\ Distances(t) = 0..n
      /\ \A e \in Distances(t) : Bucket(t, k, e).df \in Nat /\ DF(k, e) \in Nat
      /\ Passed(t, k, n)
    BY <1>1, ProbedBuckets DEF Distances
<1> HIDE DEF k
<1>4. d \in Distances(t)
    BY <1>2, <1>3
<1>5. Matches(t, k, d)
  <2>1. (i - 1) + 1 = i
      BY <1>1
  <2>2. t.values[Bucket(t, k, d).idx + 1] = k
      BY <2>1, <1>2 DEF k
  <2> QED BY <2>2, <1>2 DEF Matches
<1>6. ASSUME NEW e \in Distances(t), Matches(t, k, e)
      PROVE  e = d
  <2>1. PICK j \in 1..m : /\ t.values[j] = k /\ Bucket(t, k, e).idx = j - 1
                          /\ Bucket(t, k, e).df # 0
      BY <1>1, <1>6, MatchIsValue
  <2>2. j = i
      BY <2>1 DEF IsFilled, k
  <2>3. e # n
    <3> SUFFICES ASSUME e = n PROVE FALSE
        OBVIOUS
    <3>1. DF(k, e) > Bucket(t, k, e).df
        BY <1>3 DEF Passed
    <3>2. DF(k, e) = Bucket(t, k, e).df
        BY <1>6 DEF Matches
    <3> QED BY <3>1, <3>2, <1>3
  <2>4. e \in 0..(n - 1)
      BY <2>3, <1>3
  <2> QED BY <2>1, <2>2, <2>4, <1>2
<1>7. ASSUME NEW e \in 0..d
      PROVE  ~Passed(t, k, e)
  <2>1. e \in Distances(t)
      BY <1>2, <1>3
  <2>2. Bucket(t, k, e).df >= DF(k, e) /\ Bucket(t, k, e).df \in Nat /\ DF(k, e) \in Nat
      BY <2>1, <1>2, <1>3
  <2> QED BY <2>2 DEF Passed
<1> QED BY <1>4, <1>5, <1>6, <1>7 DEF k

(* The least of a set of distances.                                        *)
LEMMA LeastDistance ==
    ASSUME NEW n \in Nat, NEW S \in SUBSET (0..n), S # {}
    PROVE  /\ Min(S) \in S /\ Min(S) \in 0..n /\ \A e \in S : Min(S) <= e
           /\ \A e \in 0..(Min(S) - 1) : e \notin S
<1>1. S \in SUBSET Nat
    OBVIOUS
<1>2. \E x \in S : \A y \in S : x <= y
    BY <1>1, LeastNumber
<1>3. Min(S) \in S /\ \A e \in S : Min(S) <= e
    BY <1>2 DEF Min
<1>4. Min(S) \in 0..n
    BY <1>3
<1>5. \A e \in 0..(Min(S) - 1) : ~(Min(S) <= e)
  <2> DEFINE a == Min(S)
  <2>1. a \in 0..n
      BY <1>4
  <2> HIDE DEF a
  <2>2. \A e \in 0..(a - 1) : ~(a <= e)
      BY <2>1
  <2> QED BY <2>2 DEF a
<1> QED BY <1>3, <1>4, <1>5

(* All three loops of probing end where the value lies.                    *)
LEMMA ProbesFindValue ==
    ASSUME hash \in [Keys -> HashValues], NEW t, NEW m, IsFilled(hash, t, m),
           NEW i \in 1..m, NEW d, LiesAt(t, i, d)
    PROVE  /\ Probe(t, t.values[i]) = d
           /\ EraseProbe(t, t.values[i]) = d
           /\ Find(t, t.values[i]) = i - 1
<1> DEFINE n == NumBuckets(t.bits)
           k == t.values[i]
<1>1. k \in Keys
    BY KeyOfIndex
<1>2. /\ n \in Nat /\ n >= 4
      /\ \A e \in Distances(t) : Bucket(t, k, e).df \in Nat /\ DF(k, e) \in Nat
    BY <1>1, ProbedBuckets
<1>3. Distances(t) = 0..n
    BY DEF Distances
<1>4. /\ d \in Distances(t) /\ Matches(t, k, d)
      /\ \A e \in Distances(t) : Matches(t, k, e) => e = d
      /\ \A e \in 0..d : ~Passed(t, k, e)
    BY MatchesWhereItLies
<1>5. /\ d \in 0..(n - 1) /\ Bucket(t, k, d).idx = i - 1 /\ Bucket(t, k, d).df = DF(k, d)
      /\ \A e \in 0..d : Bucket(t, k, e).df >= DF(k, e)
    BY DEF LiesAt
<1> HIDE DEF k, n
<1>6. Probe(t, k) = d
  <2> DEFINE S == {e \in Distances(t) : Matches(t, k, e) \/ Passed(t, k, e)}
  <2>1. S \in SUBSET (0..n) /\ d \in S
      BY <1>3, <1>4
  <2>2. \A e \in S : ~(e < d)
      BY <1>2, <1>3, <1>4
  <2>3. Min(S) \in S /\ Min(S) \in 0..n /\ Min(S) <= d
    <3> HIDE DEF S
    <3> QED BY <2>1, <1>2, LeastDistance
  <2>4. Min(S) = d
    <3> HIDE DEF S
    <3> QED BY <2>2, <2>3, <1>2, <1>5
  <2> QED BY <2>4 DEF Probe
<1>7. Find(t, k) = i - 1
  <2> DEFINE S == {e \in Distances(t) : Matches(t, k, e) \/ (e >= 2 /\ Passed(t, k, e))}
  <2>1. S \in SUBSET (0..n) /\ d \in S
      BY <1>3, <1>4
  <2>2. \A e \in S : ~(e < d)
      BY <1>2, <1>3, <1>4
  <2>3. Min(S) \in S /\ Min(S) \in 0..n /\ Min(S) <= d
    <3> HIDE DEF S
    <3> QED BY <2>1, <1>2, LeastDistance
  <2>4. Min(S) = d
    <3> HIDE DEF S
    <3> QED BY <2>2, <2>3, <1>2, <1>5
  <2>5. t.values # <<>>
    <3>1. i \in 1..Len(t.values)
        BY KeyOfIndex
    <3> QED BY <3>1
  <2>6. Find(t, k) = IF t.values # <<>> /\ Matches(t, k, Min(S))
                     THEN Bucket(t, k, Min(S)).idx ELSE End(t)
      BY DEF Find
  <2> HIDE DEF S
  <2> QED BY <2>4, <2>5, <2>6, <1>4, <1>5
<1>8. EraseProbe(t, k) = d
  <2> DEFINE L == {e \in Distances(t) : DF(k, e) >= Bucket(t, k, e).df}
             a == NextWhileLess(t, k)
             S == {e \in Distances(t) : e >= a /\ (Matches(t, k, e) \/ DF(k, e) # Bucket(t, k, e).df)}
  <2>1. L \in SUBSET (0..n) /\ d \in L
      BY <1>2, <1>3, <1>4, <1>5
  <2>2. a = Min(L)
      BY DEF NextWhileLess
  <2>3. a \in L /\ a \in 0..n /\ a <= d
    <3>1. Min(L) \in L /\ Min(L) \in 0..n /\ Min(L) <= d
      <4> HIDE DEF L
      <4> QED BY <2>1, <1>2, LeastDistance
    <3> HIDE DEF L, a
    <3> QED BY <2>2, <3>1
  <2>4. DF(k, a) >= Bucket(t, k, a).df /\ a \in 0..d
    <3> HIDE DEF a
    <3> QED BY <2>3, <1>5, <1>2
  <2> HIDE DEF a, L
  <2>5. \A e \in a..d : Bucket(t, k, e).df = DF(k, e)
    <3> DEFINE h == Home(k, t.bits)
               f == hash[k] % Fingerprints
               B == t.buckets
    <3>1. IsRing(n, B, 0..(m - 1), Homes(hash, t.values, t.bits), Marks(hash, t.values))
        BY DEF IsFilled, n
    <3>2. h \in 0..(n - 1) /\ f \in 0..(Fingerprints - 1)
        BY <1>1, HomeFacts DEF IsFilled, n
    <3>3. \A e : Bucket(t, k, e) = B[Ahead(h, e, n)] /\ DF(k, e) = Level(e, f)
        BY SlotAndLevel DEF n
    <3> HIDE DEF h, f, B
    <3>4. \A e \in 0..d : B[Ahead(h, e, n)].df >= Level(e, f)
        BY <3>3, <1>5
    <3>5. a \in 0..d /\ B[Ahead(h, a, n)].df <= Level(a, f)
      <4>1. a \in Distances(t)
          BY <2>3, <1>3
      <4> QED BY <4>1, <3>3, <2>4, <1>2
    <3>6. \A e \in a..d : B[Ahead(h, e, n)].df = Level(e, f)
        BY <3>1, <3>2, <3>4, <3>5, <1>5, SameLevelAhead
    <3> QED BY <3>3, <3>6
  <2>6. S \in SUBSET (0..n) /\ d \in S
      BY <1>2, <1>3, <1>4, <2>4
  <2>7. \A e \in S : ~(e < d)
    <3> SUFFICES ASSUME NEW e \in S, e < d PROVE FALSE
        OBVIOUS
    <3>1. e \in a..d /\ e \in Distances(t) /\ e # d
        BY <2>4, <1>2, <1>3, <1>5
    <3>2. Bucket(t, k, e).df = DF(k, e)
        BY <3>1, <2>5
    <3> QED BY <3>1, <3>2, <1>4
  <2>8. Min(S) \in S /\ Min(S) \in 0..n /\ Min(S) <= d
    <3> HIDE DEF S
    <3> QED BY <2>6, <1>2, LeastDistance
  <2>9. Min(S) = d
    <3> HIDE DEF S
    <3> QED BY <2>7, <2>8, <1>2, <1>5
  <2> QED BY <2>9 DEF EraseProbe, a
<1> QED BY <1>6, <1>7, <1>8 DEF k

(* For any other key they end at a bucket that rules it out.               *)
LEMMA ProbesMissOthers ==
    ASSUME hash \in [Keys -> HashValues], NEW t, NEW m, IsFilled(hash, t, m),
           NEW k \in Keys, \A i \in 1..m : t.values[i] # k
    PROVE  /\ Probe(t, k) \in Distances(t) /\ ~Matches(t, k, Probe(t, k))
           /\ DF(k, Probe(t, k)) >= Bucket(t, k, Probe(t, k)).df
           /\ \A e \in 0..(Probe(t, k) - 1) : Bucket(t, k, e).df >= DF(k, e)
           /\ DF(k, EraseProbe(t, k)) # Bucket(t, k, EraseProbe(t, k)).df
           /\ Find(t, k) = End(t)
<1> DEFINE n == NumBuckets(t.bits)
<1>1. /\ n \in Nat /\ n >= 4
      /\ \A e \in Distances(t) : Bucket(t, k, e).df \in Nat /\ DF(k, e) \in Nat
      /\ Passed(t, k, n)
    BY ProbedBuckets
<1>2. Distances(t) = 0..n
    BY DEF Distances
<1> HIDE DEF n
<1>3. \A e \in Distances(t) : ~Matches(t, k, e)
  <2> SUFFICES ASSUME NEW e \in Distances(t), Matches(t, k, e) PROVE FALSE
      OBVIOUS
  <2>1. \E i \in 1..m : t.values[i] = k
      BY MatchIsValue
  <2> QED BY <2>1
<1>4. /\ Probe(t, k) \in Distances(t) /\ Passed(t, k, Probe(t, k))
      /\ \A e \in 0..(Probe(t, k) - 1) : e \in Distances(t) /\ ~Passed(t, k, e)
  <2> DEFINE S == {e \in Distances(t) : Matches(t, k, e) \/ Passed(t, k, e)}
  <2>1. S \in SUBSET (0..n) /\ n \in S
      BY <1>1, <1>2
  <2>2. Probe(t, k) = Min(S)
      BY DEF Probe
  <2>3. /\ Min(S) \in S /\ Min(S) \in 0..n
        /\ \A e \in 0..(Min(S) - 1) : e \notin S
    <3> HIDE DEF S
    <3> QED BY <2>1, <1>1, LeastDistance
  <2>4. \A e \in 0..(Min(S) - 1) : e \in Distances(t)
    <3> HIDE DEF S
    <3> QED BY <2>3, <1>1, <1>2
  <2>5. Min(S) \in Distances(t) /\ Passed(t, k, Min(S))
      BY <2>3, <1>3
  <2>6. \A e \in 0..(Min(S) - 1) : ~Passed(t, k, e)
      BY <2>3, <2>4
  <2> HIDE DEF S
  <2> QED BY <2>2, <2>4, <2>5, <2>6
<1>5. DF(k, Probe(t, k)) >= Bucket(t, k, Probe(t, k)).df
    BY <1>4, <1>1 DEF Passed
<1>6. \A e \in 0..(Probe(t, k) - 1) : Bucket(t, k, e).df >= DF(k, e)
    BY <1>4, <1>1 DEF Passed
<1>7. Find(t, k) = End(t)
  <2> DEFINE S == {e \in Distances(t) : Matches(t, k, e) \/ (e >= 2 /\ Passed(t, k, e))}
  <2>1. S \in SUBSET (0..n) /\ n \in S
      BY <1>1, <1>2
  <2>2. Min(S) \in S
    <3> HIDE DEF S
    <3> QED BY <2>1, <1>1, LeastDistance
  <2>3. ~Matches(t, k, Min(S))
      BY <2>2, <1>3
  <2>4. Find(t, k) = IF t.values # <<>> /\ Matches(t, k, Min(S))
                     THEN Bucket(t, k, Min(S)).idx ELSE End(t)
      BY DEF Find
  <2> HIDE DEF S
  <2> QED BY <2>3, <2>4
<1>8. DF(k, EraseProbe(t, k)) # Bucket(t, k, EraseProbe(t, k)).df
  <2> DEFINE L == {e \in Distances(t) : DF(k, e) >= Bucket(t, k, e).df}
             a == NextWhileLess(t, k)
             S == {e \in Distances(t) : e >= a /\ (Matches(t, k, e) \/ DF(k, e) # Bucket(t, k, e).df)}
  <2>1. DF(k, n) > Bucket(t, k, n).df /\ n \in Distances(t)
      BY <1>1, <1>2 DEF Passed
  <2>2. L \in SUBSET (0..n) /\ n \in L
      BY <2>1, <1>1, <1>2
  <2>3. a = Min(L)
      BY DEF NextWhileLess
  <2>4. Min(L) \in 0..n
    <3> HIDE DEF L
    <3> QED BY <2>2, <1>1, LeastDistance
  <2>5. a \in 0..n
    <3> HIDE DEF L, a
    <3> QED BY <2>3, <2>4
  <2> HIDE DEF a, L
  <2>6. S \in SUBSET (0..n) /\ n \in S
      BY <2>1, <2>5, <1>1, <1>2
  <2>7. Min(S) \in S
    <3> HIDE DEF S
    <3> QED BY <2>6, <1>1, LeastDistance
  <2>8. DF(k, Min(S)) # Bucket(t, k, Min(S)).df
      BY <2>7, <1>3
  <2>9. EraseProbe(t, k) = Min(S)
      BY DEF EraseProbe, a
  <2> HIDE DEF S
  <2> QED BY <2>8, <2>9
<1> QED BY <1>3, <1>4, <1>5, <1>6, <1>7, <1>8

(* Where a key whose place is not looked for goes.                         *)
LEMMA NextWhileLessFacts ==
    ASSUME hash \in [Keys -> HashValues], NEW t, NEW m, IsFilled(hash, t, m), NEW k \in Keys
    PROVE  /\ NextWhileLess(t, k) \in Distances(t)
           /\ DF(k, NextWhileLess(t, k)) >= Bucket(t, k, NextWhileLess(t, k)).df
           /\ \A e \in 0..(NextWhileLess(t, k) - 1) : Bucket(t, k, e).df >= DF(k, e)
<1> DEFINE n == NumBuckets(t.bits)
           L == {e \in Distances(t) : DF(k, e) >= Bucket(t, k, e).df}
<1>1. /\ n \in Nat
      /\ \A e \in Distances(t) : Bucket(t, k, e).df \in Nat /\ DF(k, e) \in Nat
      /\ Passed(t, k, n)
    BY ProbedBuckets
<1>2. Distances(t) = 0..n
    BY DEF Distances
<1> HIDE DEF n
<1>3. L \in SUBSET (0..n) /\ n \in L
    BY <1>1, <1>2 DEF Passed
<1>4. /\ Min(L) \in L /\ Min(L) \in 0..n
      /\ \A e \in 0..(Min(L) - 1) : e \notin L
  <2> HIDE DEF L
  <2> QED BY <1>3, <1>1, LeastDistance
<1>5. \A e \in 0..(Min(L) - 1) : e \in Distances(t)
  <2> HIDE DEF L
  <2> QED BY <1>4, <1>1, <1>2
<1>6. \A e \in 0..(Min(L) - 1) : Bucket(t, k, e).df >= DF(k, e)
    BY <1>4, <1>5, <1>1
<1>7. Min(L) \in Distances(t) /\ DF(k, Min(L)) >= Bucket(t, k, Min(L)).df
    BY <1>4
<1>8. NextWhileLess(t, k) = Min(L)
    BY DEF NextWhileLess
<1> HIDE DEF L
<1> QED BY <1>6, <1>7, <1>8

-----------------------------------------------------------------------------
(***************************************************************************)
(* Filling buckets.                                                        *)
(***************************************************************************)

(* A table with other buckets.                                             *)
LEMMA WithBuckets ==
    ASSUME NEW t, IsRecord(t), NEW B
    PROVE  [t EXCEPT !.buckets = B] = [values |-> t.values, bits |-> t.bits, buckets |-> B]
BY DEF IsRecord

(* A table with other values and buckets.                                  *)
LEMMA WithValuesAndBuckets ==
    ASSUME NEW t, IsRecord(t), NEW v, NEW B
    PROVE  [t EXCEPT !.values = v, !.buckets = B] = [values |-> v, bits |-> t.bits, buckets |-> B]
<1> DEFINE u == [t EXCEPT !.values = v, !.buckets = B]
<1>1. DOMAIN t = {"values", "bits", "buckets"}
    BY DEF IsRecord
<1>2. u.values = v /\ u.bits = t.bits /\ u.buckets = B /\ DOMAIN u = DOMAIN t
    BY <1>1
<1>3. u = [f \in DOMAIN u |-> u[f]]
    OBVIOUS
<1> HIDE DEF u
<1>4. u = [values |-> v, bits |-> t.bits, buckets |-> B]
    BY <1>1, <1>2, <1>3
<1> QED BY <1>4 DEF u

(* Placing the next value.                                                 *)
LEMMA PlacingFills ==
    ASSUME hash \in [Keys -> HashValues], NEW t, NEW m, IsFilled(hash, t, m),
           m < Len(t.values), m < NumBuckets(t.bits),
           NEW k, k = t.values[m + 1], \A i \in 1..m : t.values[i] # k,
           NEW d \in Distances(t),
           DF(k, d) >= Bucket(t, k, d).df,
           \A e \in 0..(d - 1) : Bucket(t, k, e).df >= DF(k, e)
    PROVE  LET u == [t EXCEPT !.buckets = PlaceAndShiftUp(@,
                        [df |-> DF(k, d), idx |-> m], Slot(t, k, d))]
           IN  /\ IsFilled(hash, u, m + 1)
               /\ u.values = t.values /\ u.bits = t.bits
<1> DEFINE n == NumBuckets(t.bits)
           B == t.buckets
           home == Homes(hash, t.values, t.bits)
           mark == Marks(hash, t.values)
           I == 0..(m - 1)
           h == home[m]
           f == mark[m]
           p == Slot(t, k, d)
           b == [df |-> DF(k, d), idx |-> m]
           C == PlaceAndShiftUp(B, b, p)
           u == [t EXCEPT !.buckets = PlaceAndShiftUp(@, b, p)]
<1>1. /\ t.values \in Seq(Keys) /\ Len(t.values) \in Nat /\ m \in Nat /\ m \in 0..(Len(t.values) - 1)
      /\ m + 1 \in 1..Len(t.values) /\ t.bits \in InitialBits..MaxBits
    BY DEF IsFilled
<1>2. k \in Keys
    BY <1>1, ElementOfSeq
<1>3. n \in Nat \ {0, 1} /\ n \in Nat \ {0} /\ n \in Nat
    BY <1>1, NumBucketsFacts
<1>4. h = Home(k, t.bits) /\ f = hash[k] % Fingerprints
    BY <1>1 DEF Homes, Marks, Home
<1>5. h \in 0..(n - 1) /\ f \in 0..(Fingerprints - 1)
    BY <1>1, <1>2, <1>4, HomeFacts
<1>6. IsRing(n, B, I, home, mark)
    BY DEF IsFilled
<1>7. B \in Rings(n) /\ m \notin I
    BY <1>1, <1>6 DEF IsRing
<1>8. PICK x \in 0..(n - 1) : B[x].df = 0 /\ B[x] = Empty
  <2>1. IsFiniteSet(I) /\ Cardinality(I) < n
    <3>1. /\ IsFiniteSet(0..(m - 1))
          /\ Cardinality(0..(m - 1)) = IF 0 > m - 1 THEN 0 ELSE (m - 1) - 0 + 1
      <4>1. 0 \in Int /\ m - 1 \in Int
          BY <1>1
      <4> QED BY <4>1, FS_Interval
    <3>2. Cardinality(0..(m - 1)) = m
        BY <3>1, <1>1
    <3>3. m < n
        OBVIOUS
    <3> HIDE DEF n
    <3> QED BY <3>1, <3>2, <3>3
  <2> HIDE DEF n, B, home, mark, I
  <2> QED BY <1>6, <2>1, EmptyBucket
<1>9. \A e : /\ Slot(t, k, e) = Ahead(h, e, n)
             /\ Bucket(t, k, e) = B[Ahead(h, e, n)]
             /\ DF(k, e) = Level(e, f)
  <2>1. \A e : /\ Slot(t, k, e) = Ahead(Home(k, t.bits), e, n)
               /\ Bucket(t, k, e) = B[Ahead(Home(k, t.bits), e, n)]
               /\ DF(k, e) = Level(e, hash[k] % Fingerprints)
      BY SlotAndLevel
  <2> HIDE DEF n, B, h, f
  <2> QED BY <1>4, <2>1
<1>10. d \in 0..n /\ Level(d, f) >= B[Ahead(h, d, n)].df
       /\ \A e \in 0..(d - 1) : B[Ahead(h, e, n)].df >= Level(e, f)
  <2>1. d \in 0..n
      BY DEF Distances
  <2> HIDE DEF n, B, h, f
  <2> QED BY <1>9, <2>1
<1>11. d # n
  <2> SUFFICES ASSUME d = n PROVE FALSE
      OBVIOUS
  <2>1. PICK e \in 0..(n - 1) : x = Ahead(h, e, n)
    <3> HIDE DEF n, h
    <3> QED BY <1>3, <1>5, RingCovers
  <2>2. Level(e, f) \in Nat /\ Level(e, f) >= Fingerprints
    <3> HIDE DEF n, f
    <3>1. e \in Nat
        BY <1>3
    <3> QED BY <3>1, <1>5, LevelFacts
  <2>3. e \in 0..(d - 1)
    <3> HIDE DEF n
    <3> QED BY <1>3
  <2>4. B[x].df >= Level(e, f)
    <3> HIDE DEF n, B, h, f
    <3> QED BY <2>1, <2>3, <1>10
  <2> HIDE DEF B, f
  <2> QED BY <2>2, <2>4, <1>8, FingerprintsFact
<1>12. d \in 0..(n - 1) /\ d \in Nat
  <2> HIDE DEF n
  <2> QED BY <1>3, <1>10, <1>11
<1>13. p = Ahead(h, d, n) /\ p \in 0..(n - 1)
  <2>1. p = Ahead(h, d, n)
      BY <1>9
  <2>2. Ahead(h, d, n) \in 0..(n - 1)
    <3> HIDE DEF h, n
    <3> QED BY <1>3, <1>5, <1>10, AheadValue
  <2> QED BY <2>1, <2>2
<1>14. b = [df |-> Level(d, f), idx |-> m] /\ b \in Entries
  <2>1. Level(d, f) \in Nat
    <3> HIDE DEF f, n
    <3> QED BY <1>5, <1>12, LevelFacts
  <2>2. DF(k, d) = Level(d, f)
      BY <1>9
  <2> HIDE DEF f
  <2> QED BY <1>1, <2>1, <2>2 DEF Entries
<1>15. PICK room \in 0..(n - 1) : ShiftedUp(n, B, C, b, p, room)
  <2> HIDE DEF n, B, b, p
  <2> QED BY <1>3, <1>7, <1>8, <1>13, <1>14, PlaceAndShiftUpFacts
<1>16. IsRing(n, C, I \cup {m}, home, mark)
  <2>1. ShiftedUp(n, B, C, [df |-> Level(d, f), idx |-> m], Ahead(h, d, n), room)
    <3> HIDE DEF n, B, b, p, C, h, f
    <3> QED BY <1>13, <1>14, <1>15
  <2>2. home[m] \in 0..(n - 1) /\ mark[m] \in 0..(Fingerprints - 1)
      BY <1>5
  <2>3. /\ \A e \in 0..(d - 1) : B[Ahead(home[m], e, n)].df >= Level(e, mark[m])
        /\ B[Ahead(home[m], d, n)].df <= Level(d, mark[m])
    <3>1. \A e \in 0..(d - 1) : B[Ahead(h, e, n)].df >= Level(e, f)
        BY <1>10
    <3>2. B[Ahead(h, d, n)].df <= Level(d, f)
      <4>1. Ahead(h, d, n) \in 0..(n - 1)
          BY <1>13
      <4>2. B[Ahead(h, d, n)].df \in Nat
          BY <4>1, <1>7 DEF Rings, Entries
      <4>3. Level(d, f) \in Nat
        <5> HIDE DEF f, n
        <5> QED BY <1>5, <1>12, LevelFacts
      <4> HIDE DEF B, h, f, n
      <4> QED BY <4>2, <4>3, <1>10
    <3> QED BY <3>1, <3>2
  <2>4. ShiftedUp(n, B, C, [df |-> Level(d, mark[m]), idx |-> m], Ahead(home[m], d, n), room)
      BY <2>1
  <2> HIDE DEF n, B, b, p, C, home, mark, I, h, f
  <2> QED BY <1>1, <1>6, <1>7, <1>8, <1>12, <2>2, <2>3, <2>4, PlacingKeepsRing
<1>17. I \cup {m} = 0..((m + 1) - 1)
    BY <1>1
<1>18. u = [values |-> t.values, bits |-> t.bits, buckets |-> C]
  <2>1. IsRecord(t)
      BY DEF IsFilled
  <2>2. u = [t EXCEPT !.buckets = C]
      OBVIOUS
  <2> HIDE DEF u, C
  <2> QED BY <2>1, <2>2, WithBuckets
<1>19. \A i, j \in 1..(m + 1) : t.values[i] = t.values[j] => i = j
  <2>1. \A i, j \in 1..m : t.values[i] = t.values[j] => i = j
      BY DEF IsFilled
  <2>2. \A i \in 1..(m + 1) : i \in 1..m \/ i = m + 1
      BY <1>1
  <2> QED BY <2>1, <2>2
<1> HIDE DEF u, C, n, B, home, mark, I, h, f, p, b
<1>20. u.values = t.values /\ u.bits = t.bits /\ u.buckets = C
    BY <1>18
<1>21. IsFilled(hash, u, m + 1)
  <2>1. IsRecord(u)
      BY <1>18, <1>20 DEF IsRecord
  <2>2. IsRing(n, C, 0..((m + 1) - 1), home, mark)
      BY <1>16, <1>17
  <2>3. m + 1 \in 0..Len(t.values)
      BY <1>1
  <2>4. n = NumBuckets(u.bits) /\ home = Homes(hash, u.values, u.bits) /\ mark = Marks(hash, u.values)
      BY <1>20 DEF n, home, mark
  <2>5. IsRing(NumBuckets(u.bits), u.buckets, 0..((m + 1) - 1),
               Homes(hash, u.values, u.bits), Marks(hash, u.values))
      BY <1>20, <2>2, <2>4
  <2> QED BY <1>1, <1>19, <1>20, <2>1, <2>3, <2>5 DEF IsFilled
<1> QED BY <1>20, <1>21 DEF u, p, b

(* Buckets of their own for no value at all.                               *)
LEMMA ClearedIsFilled ==
    ASSUME NEW h, NEW v \in Seq(Keys), NEW b \in InitialBits..MaxBits
    PROVE  IsFilled(h, [values |-> v, bits |-> b, buckets |-> Cleared(b)], 0)
<1> DEFINE n == NumBuckets(b)
           B == Cleared(b)
           t == [values |-> v, bits |-> b, buckets |-> B]
<1>1. n \in Nat \ {0, 1} /\ n \in Nat /\ n >= 4 /\ b \in Nat
    BY NumBucketsFacts
<1>2. B = [s \in 0..(n - 1) |-> Empty]
    BY DEF Cleared
<1> HIDE DEF n, B
<1>3. \A s \in 0..(n - 1) : B[s] = Empty /\ B[s].df = 0
    BY <1>2 DEF Empty
<1>4. B \in Rings(n)
    BY <1>2 DEF Rings, Entries, Empty
<1>5. \A home, mark : IsRing(n, B, {}, home, mark)
  <2>1. Broken(n, B)
    <3>1. 0 \in 0..(n - 1)
        BY <1>1
    <3> QED BY <3>1, <1>3, FingerprintsFact DEF Broken
  <2>2. EmptyIsEmpty(n, B) /\ Ordered(n, B) /\ Once(n, B)
    <3>1. \A s \in 0..(n - 1) : ~(B[s].df >= 2 * Fingerprints)
        BY <1>3, FingerprintsFact
    <3> QED BY <1>3, <3>1 DEF EmptyIsEmpty, Ordered, Once
  <2>3. \A home, mark : AsFarAsItSays(n, B, {}, home, mark)
      BY <1>3 DEF AsFarAsItSays
  <2> QED BY <1>1, <1>4, <2>1, <2>2, <2>3 DEF IsRing, Known
<1>6. 0..(0 - 1) = {}
    OBVIOUS
<1>7. IsRing(n, B, 0..(0 - 1), Homes(h, v, b), Marks(h, v))
    BY <1>5, <1>6
<1>8. t.values = v /\ t.bits = b /\ t.buckets = B /\ Len(v) \in Nat
    OBVIOUS
<1>9. \A i, j \in 1..0 : v[i] = v[j] => i = j
    OBVIOUS
<1> HIDE DEF t
<1>10. IsRecord(t)
    BY <1>8 DEF IsRecord, t
<1>11. IsRing(NumBuckets(t.bits), t.buckets, 0..(0 - 1), Homes(h, t.values, t.bits), Marks(h, t.values))
    BY <1>7, <1>8 DEF n
<1>12. IsFilled(h, t, 0)
    BY <1>8, <1>9, <1>10, <1>11 DEF IsFilled
<1> QED BY <1>12 DEF t, B

(* Placing the value that comes next, without having looked for it.        *)
LEMMA PlaceValueFills ==
    ASSUME hash \in [Keys -> HashValues], NEW t, NEW m, IsFilled(hash, t, m),
           m < Len(t.values), m < NumBuckets(t.bits),
           \A i \in 1..m : t.values[i] # t.values[m + 1]
    PROVE  /\ IsFilled(hash, PlaceValue(t, m + 1), m + 1)
           /\ PlaceValue(t, m + 1).values = t.values
           /\ PlaceValue(t, m + 1).bits = t.bits
<1> DEFINE k == t.values[m + 1]
           d == NextWhileLess(t, k)
           u == [t EXCEPT !.buckets = PlaceAndShiftUp(@,
                        [df |-> DF(k, d), idx |-> m], Slot(t, k, d))]
<1>1. k \in Keys /\ (m + 1) - 1 = m
  <2>1. t.values \in Seq(Keys) /\ m + 1 \in 1..Len(t.values) /\ m \in Nat
      BY DEF IsFilled
  <2> QED BY <2>1, ElementOfSeq
<1>2. PlaceValue(t, m + 1) = u
    BY <1>1 DEF PlaceValue
<1>3. /\ d \in Distances(t) /\ DF(k, d) >= Bucket(t, k, d).df
      /\ \A e \in 0..(d - 1) : Bucket(t, k, e).df >= DF(k, e)
  <2> HIDE DEF k
  <2> QED BY <1>1, NextWhileLessFacts
<1>4. IsFilled(hash, u, m + 1) /\ u.values = t.values /\ u.bits = t.bits
  <2>1. \A i \in 1..m : t.values[i] # k
      OBVIOUS
  <2>2. k = t.values[m + 1]
      OBVIOUS
  <2> HIDE DEF d, k
  <2> QED BY <1>3, <2>1, <2>2, PlacingFills
<1> HIDE DEF u
<1> QED BY <1>2, <1>4


(* The turns of clear_and_fill_buckets_from_values: n tables after c.      *)
IsFilling(f, n, c) == f = [i \in 0..n |-> IF i = 0 THEN c ELSE PlaceValue(f[i - 1], i)]

(* There is such a sequence of tables, for any number of turns.            *)
LEMMA FillingEnds ==
    ASSUME NEW n \in Nat, NEW c
    PROVE  \E f : IsFilling(f, n, c)
<1> DEFINE T == {m \in 0..n : \E g : g =
                    [i \in 0..m |-> IF i = 0 THEN c ELSE PlaceValue(g[i - 1], i)]}
<1>1. 0 \in T
  <2> DEFINE g == [i \in 0..0 |-> c]
  <2>1. g = [i \in 0..0 |-> IF i = 0 THEN c ELSE PlaceValue(g[i - 1], i)]
      OBVIOUS
  <2> HIDE DEF g
  <2>2. 0 \in 0..n
      OBVIOUS
  <2> QED BY <2>1, <2>2
<1>2. ASSUME NEW e \in 1..n, e - 1 \in T
      PROVE  e \in T
  <2>1. PICK g : g = [i \in 0..(e - 1) |-> IF i = 0 THEN c ELSE PlaceValue(g[i - 1], i)]
      BY <1>2
  <2> DEFINE q == [i \in 0..e |-> IF i = e THEN PlaceValue(g[e - 1], e) ELSE g[i]]
             w == [i \in 0..e |-> IF i = 0 THEN c ELSE PlaceValue(q[i - 1], i)]
  <2>2. ASSUME NEW i \in 0..e
        PROVE  q[i] = w[i]
    <3>1. CASE i = e
      <4>1. q[i - 1] = g[e - 1] /\ i # 0
          BY <3>1
      <4> QED BY <3>1, <4>1
    <3>2. CASE i # e
      <4>1. i \in 0..(e - 1) /\ q[i] = g[i]
          BY <3>2
      <4>2. i # 0 => q[i - 1] = g[i - 1]
          BY <4>1
      <4>3. g[i] = IF i = 0 THEN c ELSE PlaceValue(g[i - 1], i)
          BY <2>1, <4>1
      <4> QED BY <4>1, <4>2, <4>3
    <3> QED BY <3>1, <3>2
  <2>3. q = w
      BY <2>2
  <2>4. q = [i \in 0..e |-> IF i = 0 THEN c ELSE PlaceValue(q[i - 1], i)]
      BY <2>3
  <2> HIDE DEF q, w
  <2>5. e \in 0..n
      OBVIOUS
  <2> QED BY <2>4, <2>5
<1>3. \A e \in 0..n : e \in T
  <2> HIDE DEF T
  <2> QED BY <1>1, <1>2, CountUp
<1>4. n \in T
    BY <1>3
<1> QED BY <1>4 DEF IsFilling

(* Buckets anew for the same values.                                       *)
LEMMA RebuiltIsTable ==
    ASSUME hash \in [Keys -> HashValues], NEW v \in Seq(Keys), NEW b \in InitialBits..MaxBits,
           \A i, j \in 1..Len(v) : v[i] = v[j] => i = j,
           Len(v) <= Capacity(b)
    PROVE  /\ IsTable(hash, Rebuilt(v, b))
           /\ Rebuilt(v, b).values = v /\ Rebuilt(v, b).bits = b
<1> DEFINE n == Len(v)
           c == [values |-> v, bits |-> b, buckets |-> Cleared(b)]
           f == CHOOSE g : g = [i \in 0..n |-> IF i = 0 THEN c ELSE PlaceValue(g[i - 1], i)]
           T == {m \in 0..n : IsFilled(hash, f[m], m) /\ f[m].values = v /\ f[m].bits = b}
<1>1. n \in Nat /\ n <= NumBuckets(b) /\ NumBuckets(b) \in Nat
    BY NumBucketsFacts
<1>2. Rebuilt(v, b) = f[n]
    BY DEF Rebuilt
<1>3. f = [i \in 0..n |-> IF i = 0 THEN c ELSE PlaceValue(f[i - 1], i)]
  <2>1. \E g : IsFilling(g, n, c)
    <3> HIDE DEF c, n
    <3> QED BY <1>1, FillingEnds
  <2> HIDE DEF n, c
  <2> QED BY <2>1 DEF IsFilling
<1>4. \A i, j \in 1..n : v[i] = v[j] => i = j
    OBVIOUS
<1>5. IsFilled(hash, c, 0) /\ c.values = v /\ c.bits = b
    BY ClearedIsFilled
<1>6. n <= Capacity(b)
    OBVIOUS
<1> HIDE DEF f, c
<1>7. 0 \in T
  <2>1. f[0] = c
      BY <1>1, <1>3
  <2> QED BY <1>1, <1>5, <2>1
<1>8. ASSUME NEW e \in 1..n, e - 1 \in T
      PROVE  e \in T
  <2> DEFINE m == e - 1
             t == f[m]
  <2>1. m + 1 = e /\ m \in Nat /\ m < n /\ e # 0 /\ e \in 0..n
      BY <1>1
  <2>2. f[e] = PlaceValue(t, m + 1)
      BY <2>1, <1>3
  <2>3. IsFilled(hash, t, m) /\ t.values = v /\ t.bits = b
      BY <1>8
  <2>4. m < Len(t.values) /\ m < NumBuckets(t.bits)
      BY <2>1, <2>3, <1>1
  <2>5. \A i \in 1..m : t.values[i] # t.values[m + 1]
    <3>1. \A i \in 1..m : i \in 1..n /\ m + 1 \in 1..n /\ i # m + 1
        BY <2>1, <1>1
    <3> HIDE DEF m, n
    <3>2. \A i \in 1..m : v[i] # v[m + 1]
        BY <3>1, <1>4
    <3> QED BY <2>3, <3>2
  <2>6. /\ IsFilled(hash, PlaceValue(t, m + 1), m + 1)
        /\ PlaceValue(t, m + 1).values = t.values
        /\ PlaceValue(t, m + 1).bits = t.bits
    <3> HIDE DEF t, m
    <3> QED BY <2>3, <2>4, <2>5, PlaceValueFills
  <2> HIDE DEF t, m
  <2>7. IsFilled(hash, f[e], e) /\ f[e].values = v /\ f[e].bits = b
      BY <2>1, <2>2, <2>3, <2>6
  <2> QED BY <2>1, <2>7
<1>9. \A e \in 0..n : e \in T
  <2> HIDE DEF T, n
  <2> QED BY <1>1, <1>7, <1>8, CountUp
<1>10. n \in T
    BY <1>1, <1>9
<1>11. IsFilled(hash, f[n], n) /\ f[n].values = v /\ f[n].bits = b
    BY <1>10
<1>12. IsTable(hash, f[n])
    BY <1>6, <1>11 DEF IsTable
<1> HIDE DEF n
<1> QED BY <1>2, <1>11, <1>12

(* An initial table has no value.                                          *)
LEMMA FreshIsTable ==
    ASSUME hash \in [Keys -> HashValues]
    PROVE  IsTable(hash, Fresh) /\ Fresh.values = <<>>
<1>1. <<>> \in Seq(Keys) /\ InitialBits \in InitialBits..MaxBits
    BY TableAssumption DEF InitialBits
<1>2. Len(<<>>) = 0 /\ 0 <= Capacity(InitialBits)
    BY <1>1, NumBucketsFacts
<1> DEFINE v == <<>>
<1>3. \A i, j \in 1..Len(v) : v[i] = v[j] => i = j
    BY <1>2
<1>4. v \in Seq(Keys) /\ Len(v) <= Capacity(InitialBits)
    BY <1>1, <1>2
<1>5. IsTable(hash, Rebuilt(v, InitialBits)) /\ Rebuilt(v, InitialBits).values = v
  <2> HIDE DEF v
  <2> QED BY <1>1, <1>3, <1>4, RebuiltIsTable
<1> QED BY <1>5 DEF Fresh

(* Other values behind the first m leave the buckets of these alone.       *)
LEMMA OtherValues ==
    ASSUME NEW h, NEW t, NEW m, IsFilled(h, t, m), NEW v \in Seq(Keys), m <= Len(v),
           \A i \in 1..m : v[i] = t.values[i]
    PROVE  IsFilled(h, [values |-> v, bits |-> t.bits, buckets |-> t.buckets], m)
<1> DEFINE n == NumBuckets(t.bits)
           B == t.buckets
           home == Homes(h, t.values, t.bits)
           mark == Marks(h, t.values)
           home2 == Homes(h, v, t.bits)
           mark2 == Marks(h, v)
           I == 0..(m - 1)
           u == [values |-> v, bits |-> t.bits, buckets |-> t.buckets]
<1>1. /\ t.values \in Seq(Keys) /\ Len(t.values) \in Nat /\ m \in Nat /\ m <= Len(t.values)
      /\ Len(v) \in Nat /\ t.bits \in InitialBits..MaxBits
    BY DEF IsFilled
<1>2. IsRing(n, B, I, home, mark)
    BY DEF IsFilled
<1>3. \A i \in I : home2[i] = home[i] /\ mark2[i] = mark[i]
  <2> SUFFICES ASSUME NEW i \in I PROVE home2[i] = home[i] /\ mark2[i] = mark[i]
      OBVIOUS
  <2>1. i \in 0..(Len(v) - 1) /\ i \in 0..(Len(t.values) - 1) /\ i + 1 \in 1..m
      BY <1>1
  <2>2. v[i + 1] = t.values[i + 1]
      BY <2>1
  <2> QED BY <2>1, <2>2 DEF Homes, Marks
<1>4. IsRing(n, B, I, home2, mark2)
  <2> HIDE DEF n, B, I, home, mark, home2, mark2
  <2> QED BY <1>2, <1>3, RingOfSameHomes
<1>5. \A i, j \in 1..m : v[i] = v[j] => i = j
  <2>1. \A i, j \in 1..m : t.values[i] = t.values[j] => i = j
      BY DEF IsFilled
  <2> QED BY <2>1
<1>6. u.values = v /\ u.bits = t.bits /\ u.buckets = B
    OBVIOUS
<1> HIDE DEF u
<1>7. IsRecord(u)
    BY <1>6 DEF IsRecord, u
<1>8. IsRing(NumBuckets(u.bits), u.buckets, 0..(m - 1), Homes(h, u.values, u.bits), Marks(h, u.values))
    BY <1>4, <1>6
<1> HIDE DEF n, B, home, mark, home2, mark2, I
<1>9. m \in 0..Len(v)
    BY <1>1
<1> QED BY <1>1, <1>5, <1>6, <1>7, <1>8, <1>9 DEF IsFilled, u

(* A new key, if the table takes one more.                                 *)
LEMMA PlaceElementIsTable ==
    ASSUME hash \in [Keys -> HashValues], NEW t, IsTable(hash, t), NEW k \in Keys,
           \A i \in 1..Len(t.values) : t.values[i] # k,
           ~Overflows(t),
           NEW d \in Distances(t),
           DF(k, d) >= Bucket(t, k, d).df,
           \A e \in 0..(d - 1) : Bucket(t, k, e).df >= DF(k, e)
    PROVE  /\ IsTable(hash, PlaceElement(t, k, d))
           /\ PlaceElement(t, k, d).values = Append(t.values, k)
<1> DEFINE m == Len(t.values)
           b == t.bits
           v == Append(t.values, k)
<1>1. /\ t.values \in Seq(Keys) /\ m \in Nat /\ b \in InitialBits..MaxBits /\ IsRecord(t)
      /\ IsFilled(hash, t, m)
    BY DEF IsTable, IsFilled
<1>2. /\ v \in Seq(Keys) /\ Len(v) = m + 1
      /\ \A i \in 1..m : v[i] = t.values[i]
      /\ v[m + 1] = k
    BY <1>1, AppendProperties
<1>3. \A i, j \in 1..Len(v) : v[i] = v[j] => i = j
  <2>1. \A i, j \in 1..m : t.values[i] = t.values[j] => i = j
      BY <1>1 DEF IsFilled
  <2>2. \A i \in 1..Len(v) : i \in 1..m \/ i = m + 1
      BY <1>1, <1>2
  <2>3. \A i \in 1..m : v[i] = t.values[i] /\ v[i] # k
      BY <1>2
  <2> HIDE DEF v, m
  <2> QED BY <1>2, <2>1, <2>2, <2>3
<1>4. CASE Len(v) > Capacity(b)
  <2>1. PlaceElement(t, k, d) = Rebuilt(v, b + 1)
      BY <1>4 DEF PlaceElement
  <2>2. b # MaxBits
    <3> SUFFICES ASSUME b = MaxBits PROVE FALSE
        OBVIOUS
    <3>1. m + 1 > Capacity(b)
        BY <1>2, <1>4
    <3> QED BY <3>1 DEF Overflows
  <2>3. b + 1 \in InitialBits..MaxBits /\ Load(b) + 1 <= Load(b + 1)
    <3> HIDE DEF b
    <3> QED BY <1>1, <2>2, OneMoreBit
  <2>4. m <= Load(b)
    <3>1. m <= Capacity(b)
        BY DEF IsTable
    <3> QED BY <2>2, <3>1 DEF Capacity
  <2>5. Load(b + 1) <= Capacity(b + 1) /\ Load(b + 1) \in Nat /\ Capacity(b + 1) \in Nat /\ Load(b) \in Nat
    <3> DEFINE c == b + 1
    <3>1. c \in InitialBits..MaxBits
        BY <2>3
    <3>2. Load(c) <= Capacity(c) /\ Load(c) \in Nat /\ Capacity(c) \in Nat
      <4> HIDE DEF c
      <4> QED BY <3>1, NumBucketsFacts
    <3>3. Load(b) \in Nat
        BY <1>1, NumBucketsFacts
    <3> QED BY <3>2, <3>3
  <2>6. Len(v) <= Capacity(b + 1)
    <3> HIDE DEF m, b, v
    <3> QED BY <1>1, <1>2, <2>3, <2>4, <2>5
  <2>7. IsTable(hash, Rebuilt(v, b + 1)) /\ Rebuilt(v, b + 1).values = v
    <3> DEFINE c == b + 1
    <3>1. c \in InitialBits..MaxBits /\ Len(v) <= Capacity(c)
        BY <2>3, <2>6
    <3>2. IsTable(hash, Rebuilt(v, c)) /\ Rebuilt(v, c).values = v
      <4> HIDE DEF c, v
      <4> QED BY <3>1, <1>2, <1>3, RebuiltIsTable
    <3> QED BY <3>2
  <2> HIDE DEF v
  <2> QED BY <2>1, <2>7 DEF v
<1>5. CASE ~(Len(v) > Capacity(b))
  <2> DEFINE u == [values |-> v, bits |-> b, buckets |-> t.buckets]
             w == [u EXCEPT !.buckets = PlaceAndShiftUp(@,
                        [df |-> DF(k, d), idx |-> m], Slot(u, k, d))]
  <2>1. /\ u.values = v /\ u.bits = b /\ u.buckets = t.buckets
        /\ Slot(u, k, d) = Slot(t, k, d)
        /\ \A e : Bucket(u, k, e) = Bucket(t, k, e)
        /\ Distances(u) = Distances(t)
      BY DEF Slot, Bucket, Distances
  <2>2. PlaceElement(t, k, d) = w
    <3> DEFINE C == PlaceAndShiftUp(t.buckets, [df |-> DF(k, d), idx |-> m], Slot(t, k, d))
    <3>1. PlaceElement(t, k, d) = [t EXCEPT !.values = v, !.buckets = C]
        BY <1>5 DEF PlaceElement
    <3>2. w = [values |-> v, bits |-> b, buckets |-> C]
      <4>1. w = [u EXCEPT !.buckets = C]
          BY <2>1
      <4>2. IsRecord(u)
          BY DEF IsRecord
      <4> HIDE DEF u, w, C
      <4> QED BY <4>1, <4>2, <2>1, WithBuckets
    <3> HIDE DEF C, v, w
    <3>3. [t EXCEPT !.values = v, !.buckets = C] = [values |-> v, bits |-> b, buckets |-> C]
        BY <1>1, WithValuesAndBuckets
    <3> QED BY <3>1, <3>2, <3>3
  <2>3. IsFilled(hash, u, m)
    <3>1. m <= Len(v)
        BY <1>1, <1>2
    <3> HIDE DEF v, m
    <3> QED BY <1>1, <1>2, <3>1, OtherValues
  <2>4. m < Len(u.values) /\ m < NumBuckets(u.bits) /\ Len(v) <= Capacity(b)
    <3>1. Capacity(b) \in Nat /\ Capacity(b) <= NumBuckets(b) /\ NumBuckets(b) \in Nat
        BY <1>1, NumBucketsFacts
    <3> HIDE DEF m, v, b
    <3> QED BY <1>1, <1>2, <1>5, <2>1, <3>1
  <2>5. k = u.values[m + 1] /\ \A i \in 1..m : u.values[i] # k
    <3>1. \A i \in 1..m : v[i] = t.values[i] /\ v[i] # k
        BY <1>2
    <3> HIDE DEF v, m, u
    <3> QED BY <1>2, <2>1, <3>1
  <2>6. /\ DF(k, d) >= Bucket(u, k, d).df /\ d \in Distances(u)
        /\ \A e \in 0..(d - 1) : Bucket(u, k, e).df >= DF(k, e)
    <3> HIDE DEF u
    <3> QED BY <2>1
  <2>7. IsFilled(hash, w, m + 1) /\ w.values = v /\ w.bits = b
    <3>1. IsFilled(hash, w, m + 1) /\ w.values = u.values /\ w.bits = u.bits
      <4> HIDE DEF u, m
      <4> QED BY <2>3, <2>4, <2>5, <2>6, PlacingFills
    <3> HIDE DEF u, w
    <3> QED BY <2>1, <3>1
  <2> HIDE DEF w, v, m, b
  <2>8. IsTable(hash, w)
      BY <2>4, <2>7, <1>2 DEF IsTable
  <2> QED BY <2>2, <2>7, <2>8 DEF v
<1> QED BY <1>4, <1>5

-----------------------------------------------------------------------------
(***************************************************************************)
(* Erasing.                                                                *)
(***************************************************************************)

(* Value p taken out, the last one in its place.                           *)
HoleFilled(v, p) == Front(ReplaceAt(v, p, Last(v)))

(* One less, and the rest where it was.                                    *)
LEMMA HoleFilledFacts ==
    ASSUME NEW S, NEW v \in Seq(S), NEW p \in 1..Len(v)
    PROVE  /\ HoleFilled(v, p) \in Seq(S)
           /\ Len(HoleFilled(v, p)) = Len(v) - 1
           /\ \A i \in 1..(Len(v) - 1) :
                 HoleFilled(v, p)[i] = IF i = p THEN v[Len(v)] ELSE v[i]
<1> DEFINE l == Len(v)
           w == [v EXCEPT ![p] = v[l]]
<1>1. l \in Nat /\ l >= 1 /\ p \in 1..l
    OBVIOUS
<1>2. v[l] \in S /\ DOMAIN v = 1..l
    BY <1>1, ElementOfSeq
<1>3. w \in Seq(S) /\ Len(w) = l
    BY <1>1, <1>2, ExceptSeq
<1>4. \A i \in 1..l : w[i] = IF i = p THEN v[l] ELSE v[i]
    BY <1>2
<1>5. HoleFilled(v, p) = SubSeq(w, 1, l - 1)
  <2>1. HoleFilled(v, p) = SubSeq(w, 1, Len(w) - 1)
      BY DEF HoleFilled, Front, ReplaceAt, Last
  <2> HIDE DEF w, l
  <2> QED BY <2>1, <1>3
<1> HIDE DEF w
<1>6. /\ SubSeq(w, 1, l - 1) \in Seq(S)
      /\ Len(SubSeq(w, 1, l - 1)) = l - 1
      /\ \A i \in 1..(l - 1) : SubSeq(w, 1, l - 1)[i] = w[i]
  <2> DEFINE e == l - 1
  <2>1. e \in Nat /\ e <= l /\ 1 \in 1..(Len(w) + 1) /\ e \in 0..Len(w)
      BY <1>1, <1>3
  <2>2. /\ SubSeq(w, 1, e) \in Seq(S)
        /\ Len(SubSeq(w, 1, e)) = e
        /\ \A i \in 1..e : SubSeq(w, 1, e)[i] = w[i]
    <3> HIDE DEF e, l
    <3> QED BY <1>3, <2>1, SubSeqProperties
  <2> QED BY <2>2
<1>7. \A i \in 1..(l - 1) : i \in 1..l
    BY <1>1
<1> HIDE DEF l
<1>8. \A i \in 1..(l - 1) : HoleFilled(v, p)[i] = IF i = p THEN v[l] ELSE v[i]
    BY <1>4, <1>5, <1>6, <1>7
<1> QED BY <1>5, <1>6, <1>8 DEF l

(* Where no two are equal, just value p is gone.                           *)
LEMMA HoleFilledRange ==
    ASSUME NEW S, NEW v \in Seq(S), NEW p \in 1..Len(v),
           \A i, j \in 1..Len(v) : v[i] = v[j] => i = j
    PROVE  /\ Range(HoleFilled(v, p)) = Range(v) \ {v[p]}
           /\ \A i, j \in 1..Len(HoleFilled(v, p)) :
                 HoleFilled(v, p)[i] = HoleFilled(v, p)[j] => i = j
<1> DEFINE l == Len(v)
           w == HoleFilled(v, p)
<1>1. l \in Nat /\ p \in 1..l
    OBVIOUS
<1>2. w \in Seq(S) /\ Len(w) = l - 1 /\ \A i \in 1..(l - 1) : w[i] = IF i = p THEN v[l] ELSE v[i]
    BY HoleFilledFacts
<1> HIDE DEF w
<1>3. /\ Range(v) = {v[i] : i \in 1..l}
      /\ Range(w) = {w[i] : i \in 1..(l - 1)}
    BY <1>2 DEF Range
<1>4. \A i, j \in 1..l : v[i] = v[j] => i = j
    OBVIOUS
<1> HIDE DEF l
<1>5. ASSUME NEW i \in 1..(l - 1)
      PROVE  \E j \in 1..l : j # p /\ w[i] = v[j] /\ (i = p => j = l) /\ (i # p => j = i)
  <2>1. i \in 1..l /\ l \in 1..l /\ i # l
      BY <1>1
  <2>2. w[i] = IF i = p THEN v[l] ELSE v[i]
      BY <1>2
  <2>3. CASE i = p
      BY <2>1, <2>2, <2>3
  <2>4. CASE i # p
      BY <2>1, <2>2, <2>4
  <2> QED BY <2>3, <2>4
<1>6. ASSUME NEW j \in 1..l, j # p
      PROVE  \E i \in 1..(l - 1) : w[i] = v[j]
  <2>1. CASE j = l
    <3>1. p \in 1..(l - 1)
        BY <1>1, <1>6, <2>1
    <3> QED BY <3>1, <2>1, <1>2
  <2>2. CASE j # l
    <3>1. j \in 1..(l - 1)
        BY <1>1, <2>2
    <3> QED BY <3>1, <1>2, <1>6
  <2> QED BY <2>1, <2>2
<1>7. Range(w) = Range(v) \ {v[p]}
  <2>1. ASSUME NEW x \in Range(w) PROVE x \in Range(v) \ {v[p]}
    <3>1. PICK i \in 1..(l - 1) : x = w[i]
        BY <1>3
    <3>2. PICK j \in 1..l : j # p /\ x = v[j]
        BY <3>1, <1>5
    <3>3. x # v[p]
        BY <3>2, <1>1, <1>4
    <3> QED BY <3>2, <3>3, <1>3
  <2>2. ASSUME NEW x \in Range(v) \ {v[p]} PROVE x \in Range(w)
    <3>1. PICK j \in 1..l : x = v[j] /\ j # p
        BY <1>3
    <3>2. PICK i \in 1..(l - 1) : w[i] = v[j]
        BY <3>1, <1>6
    <3> QED BY <3>1, <3>2, <1>3
  <2> QED BY <2>1, <2>2
<1>8. ASSUME NEW i \in 1..(l - 1), NEW j \in 1..(l - 1), w[i] = w[j]
      PROVE  i = j
  <2>1. PICK a \in 1..l : w[i] = v[a] /\ (i = p => a = l) /\ (i # p => a = i)
      BY <1>5
  <2>2. PICK b \in 1..l : w[j] = v[b] /\ (j = p => b = l) /\ (j # p => b = j)
      BY <1>5
  <2>3. a = b
      BY <2>1, <2>2, <1>4, <1>8
  <2>4. i # l /\ j # l
      BY <1>1
  <2> QED BY <2>1, <2>2, <2>3, <2>4
<1>9. Len(w) = l - 1
    BY <1>2
<1> QED BY <1>7, <1>8, <1>9 DEF w

(* The search for the bucket with an index, from its home.                 *)
LEMMA FirstWithIndex ==
    ASSUME NEW n, NEW B, NEW I, NEW home, NEW mark, IsRing(n, B, I, home, mark),
           NEW i \in I
    PROVE  LET x == Ahead(home[i], Min({d \in 0..n : B[Ahead(home[i], d, n)].idx = i}), n)
           IN  x \in 0..(n - 1) /\ B[x].df # 0 /\ B[x].idx = i
<1> DEFINE h == home[i]
           f == mark[i]
           S == {d \in 0..n : B[Ahead(h, d, n)].idx = i}
           x == Ahead(h, Min(S), n)
<1>1. n \in Nat \ {0} /\ n \in Nat /\ h \in 0..(n - 1) /\ f \in 0..(Fingerprints - 1)
    BY DEF IsRing
<1>2. PICK d \in 0..(n - 1) :
              /\ B[Ahead(h, d, n)].idx = i
              /\ \A e \in 0..d : B[Ahead(h, e, n)].df >= Level(e, f)
  <2>1. \E d \in 0..(n - 1) :
              /\ B[Ahead(home[i], d, n)].idx = i
              /\ B[Ahead(home[i], d, n)].df = Level(d, mark[i])
              /\ \A e \in 0..d : B[Ahead(home[i], e, n)].df >= Level(e, mark[i])
              /\ \A e \in 0..(n - 1) :
                    B[Ahead(home[i], e, n)].df # 0 /\ B[Ahead(home[i], e, n)].idx = i => e = d
      BY BucketOfIndex
  <2> QED BY <2>1
<1> HIDE DEF h, f
<1>3. S \in SUBSET (0..n) /\ d \in S
    BY <1>1, <1>2
<1>4. Min(S) \in S /\ Min(S) \in 0..n /\ Min(S) <= d
  <2> HIDE DEF S
  <2> QED BY <1>1, <1>3, LeastDistance
<1>5. B[x].idx = i
    BY <1>4
<1> HIDE DEF S
<1>6. x \in 0..(n - 1)
    BY <1>1, <1>4, AheadValue
<1>7. B[x].df # 0
  <2>1. Min(S) \in 0..d /\ Min(S) \in Nat
      BY <1>1, <1>4
  <2>2. B[x].df >= Level(Min(S), f)
      BY <2>1, <1>2
  <2>3. Level(Min(S), f) \in Nat /\ Level(Min(S), f) >= Fingerprints
    <3> DEFINE e == Min(S)
    <3>1. e \in Nat
        BY <2>1
    <3> HIDE DEF e
    <3>2. Level(e, f) \in Nat /\ Level(e, f) >= Fingerprints
        BY <3>1, <1>1, LevelFacts
    <3> QED BY <3>2 DEF e
  <2> QED BY <2>2, <2>3, FingerprintsFact
<1> HIDE DEF x
<1> QED BY <1>5, <1>6, <1>7 DEF x, S, h

(* What do_erase makes of the table.                                       *)
LEMMA EraseBucketIsTable ==
    ASSUME hash \in [Keys -> HashValues], NEW t, IsTable(hash, t),
           NEW s \in 0..(NumBuckets(t.bits) - 1), t.buckets[s].df # 0
    PROVE  /\ IsTable(hash, EraseBucket(t, s))
           /\ t.buckets[s].idx + 1 \in 1..Len(t.values)
           /\ EraseBucket(t, s).values = HoleFilled(t.values, t.buckets[s].idx + 1)
           /\ EraseBucket(t, s).bits = t.bits
<1> DEFINE n == NumBuckets(t.bits)
           B == t.buckets
           v == t.values
           home == Homes(hash, v, t.bits)
           mark == Marks(hash, v)
           l == Len(v)
           back == l - 1
           moved == Last(v)
           I == 0..back
           r == B[s].idx
           p == r + 1
           C == GapClosed(B, s, n)
           w == HoleFilled(v, p)
           J == I \ {r}
           home2 == Homes(hash, w, t.bits)
           mark2 == Marks(hash, w)
           x == Slot(t, moved, Min({d \in Distances(t) : C[Slot(t, moved, d)].idx = back}))
           D == IF r = back THEN C ELSE [C EXCEPT ![x].idx = r]
           u == [values |-> w, bits |-> t.bits, buckets |-> D]
<1>1. /\ v \in Seq(Keys) /\ l \in Nat /\ t.bits \in InitialBits..MaxBits /\ IsRecord(t)
      /\ IsFilled(hash, t, l) /\ l <= Capacity(t.bits)
      /\ \A i, j \in 1..l : v[i] = v[j] => i = j
      /\ IsRing(n, B, I, home, mark)
    BY DEF IsTable, IsFilled
<1>2. n \in Nat \ {0, 1} /\ n \in Nat
    BY <1>1, NumBucketsFacts
<1>3. B \in Rings(n) /\ Broken(n, B) /\ AsFarAsItSays(n, B, I, home, mark)
    BY <1>1 DEF IsRing
<1>4. r \in I /\ r \in Nat /\ p \in 1..l /\ l >= 1 /\ back \in Nat /\ back \in I /\ back + 1 = l
  <2>1. r \in I
      BY <1>3 DEF AsFarAsItSays
  <2> HIDE DEF r
  <2> QED BY <2>1, <1>1
<1>5. /\ w \in Seq(Keys) /\ Len(w) = back
      /\ \A i \in 1..back : w[i] = IF i = p THEN v[l] ELSE v[i]
  <2> HIDE DEF p
  <2> QED BY <1>1, <1>4, HoleFilledFacts
<1>6. \A i, j \in 1..Len(w) : w[i] = w[j] => i = j
  <2> HIDE DEF p, v
  <2> QED BY <1>1, <1>4, HoleFilledRange
<1>7. EraseBucket(t, s) = u
  <2>1. EraseBucket(t, s) = [t EXCEPT !.values = w, !.buckets = D]
      BY DEF EraseBucket, HoleFilled, GapClosed, GapEnd, Offset, Ahead
  <2> HIDE DEF w, D
  <2> QED BY <2>1, <1>1, WithValuesAndBuckets
<1>8. IsRing(n, C, J, home, mark)
  <2>2. B[s].df # 0 /\ s \in 0..(n - 1)
      OBVIOUS
  <2>1. PICK end \in 0..(n - 1) : ClosedUp(n, B, C, s, end)
    <3> HIDE DEF n, B
    <3> QED BY <1>2, <1>3, <2>2, GapClosedFacts
  <2>3. IsRing(n, C, I \ {B[s].idx}, home, mark)
    <3>1. IsRing(n, B, I, home, mark)
        BY <1>1
    <3> HIDE DEF n, B, C, I, home, mark
    <3> QED BY <3>1, <2>1, <2>2, ClosingKeepsRing
  <2> QED BY <2>3
<1>9. \A i \in 0..(back - 1) :
         /\ i \in 0..(l - 1) /\ i + 1 \in 1..back
         /\ home2[i] = Home(w[i + 1], t.bits) /\ mark2[i] = hash[w[i + 1]] % Fingerprints
  <2> SUFFICES ASSUME NEW i \in 0..(back - 1)
               PROVE  /\ i \in 0..(l - 1) /\ i + 1 \in 1..back
                      /\ home2[i] = Home(w[i + 1], t.bits) /\ mark2[i] = hash[w[i + 1]] % Fingerprints
      OBVIOUS
  <2>1. i \in 0..(l - 1) /\ i + 1 \in 1..back
      BY <1>1
  <2>2. i \in 0..(Len(w) - 1)
    <3> HIDE DEF w, back
    <3> QED BY <1>5
  <2> HIDE DEF w
  <2> QED BY <2>1, <2>2 DEF Homes, Marks, Home
<1>10. \A i \in 0..(l - 1) :
         home[i] = Home(v[i + 1], t.bits) /\ mark[i] = hash[v[i + 1]] % Fingerprints
    BY DEF Homes, Marks, Home
<1>11. ASSUME NEW i \in 0..(back - 1), i # r
       PROVE  home2[i] = home[i] /\ mark2[i] = mark[i]
  <2>1. w[i + 1] = v[i + 1]
    <3>1. i + 1 \in 1..back /\ i + 1 # r + 1
        BY <1>9, <1>11, <1>4
    <3> HIDE DEF w
    <3> QED BY <3>1, <1>5
  <2> HIDE DEF w, home2, home, mark, mark2
  <2> QED BY <2>1, <1>9, <1>10
<1>12. IsRing(n, D, 0..(back - 1), home2, mark2)
  <2>1. CASE r = back
    <3>1. D = C /\ J = 0..(back - 1)
        BY <2>1, <1>4
    <3>2. \A i \in J : home2[i] = home[i] /\ mark2[i] = mark[i]
      <4>1. \A i \in J : i \in 0..(back - 1) /\ i # r
          BY <3>1
      <4> HIDE DEF J, home, home2, mark, mark2
      <4> QED BY <4>1, <1>11
    <3>3. IsRing(n, C, J, home2, mark2)
      <4> HIDE DEF n, C, J, home, mark, home2, mark2
      <4> QED BY <1>8, <3>2, RingOfSameHomes
    <3> HIDE DEF J, D, C
    <3> QED BY <3>1, <3>3
  <2>2. CASE r # back
    <3>1. back \in J /\ r \in 0..(back - 1) /\ r \notin J
          /\ (J \ {back}) \cup {r} = 0..(back - 1)
        BY <2>2, <1>4
    <3>2. moved = v[l] /\ home[back] = Home(moved, t.bits) /\ mark[back] = hash[moved] % Fingerprints
      <4>1. moved = v[l]
          BY DEF Last
      <4>2. home[back] = Home(v[back + 1], t.bits) /\ mark[back] = hash[v[back + 1]] % Fingerprints
          BY <1>4, <1>10
      <4> HIDE DEF moved, home, mark, back
      <4> QED BY <4>1, <4>2, <1>4
    <3>3. x \in 0..(n - 1) /\ C[x].df # 0 /\ C[x].idx = back
      <4>1. \A d : Slot(t, moved, d) = Ahead(home[back], d, n)
        <5>1. \A d : Slot(t, moved, d) = Ahead(Home(moved, t.bits), d, n)
            BY SlotAndLevel
        <5> HIDE DEF home, back, moved, n
        <5> QED BY <5>1, <3>2
      <4>2. {d \in Distances(t) : C[Slot(t, moved, d)].idx = back}
                = {d \in 0..n : C[Ahead(home[back], d, n)].idx = back}
        <5> HIDE DEF home, back, moved, C
        <5> QED BY <4>1 DEF Distances
      <4> DEFINE y == Ahead(home[back], Min({d \in 0..n : C[Ahead(home[back], d, n)].idx = back}), n)
      <4>3. x = y
        <5> HIDE DEF home, back, moved, C, n
        <5> QED BY <4>1, <4>2
      <4>4. y \in 0..(n - 1) /\ C[y].df # 0 /\ C[y].idx = back
        <5> HIDE DEF n, C, J, home, mark, back
        <5> QED BY <3>1, <1>8, FirstWithIndex
      <4> HIDE DEF x, y
      <4> QED BY <4>3, <4>4
    <3>4. home2[r] = home[back] /\ mark2[r] = mark[back]
      <4>1. w[r + 1] = v[l]
        <5>1. r + 1 \in 1..back
            BY <3>1, <1>9
        <5> HIDE DEF w, back
        <5> QED BY <5>1, <1>5
      <4>2. home2[r] = Home(w[r + 1], t.bits) /\ mark2[r] = hash[w[r + 1]] % Fingerprints
          BY <3>1, <1>9
      <4> HIDE DEF w, home2, mark2, home, mark, moved
      <4> QED BY <4>1, <4>2, <3>2
    <3>5. \A i \in J \ {back} : home2[i] = home[i] /\ mark2[i] = mark[i]
      <4>1. \A i \in J \ {back} : i \in 0..(back - 1) /\ i # r
          BY <1>4
      <4> HIDE DEF J, home, home2, mark, mark2
      <4> QED BY <4>1, <1>11
    <3>6. IsRing(n, [C EXCEPT ![x].idx = r], (J \ {back}) \cup {r}, home2, mark2)
      <4>1. back \in J /\ r \in Nat /\ r \notin J
          BY <1>4, <3>1
      <4> HIDE DEF n, C, J, home, mark, home2, mark2, x, r, back
      <4> QED BY <4>1, <1>8, <3>3, <3>4, <3>5, RenamingKeepsRing
    <3>7. D = [C EXCEPT ![x].idx = r]
        BY <2>2
    <3> HIDE DEF D, C, J, x, home2, mark2
    <3> QED BY <3>1, <3>6, <3>7
  <2> QED BY <2>1, <2>2
<1> HIDE DEF D, w, n, home2, mark2, C, x, home, mark, J
<1>13. u.values = w /\ u.bits = t.bits /\ u.buckets = D
    OBVIOUS
<1>14. IsTable(hash, u)
  <2>1. IsRecord(u)
      BY <1>13 DEF IsRecord
  <2> HIDE DEF u, B, v
  <2>2. Len(u.values) = back
      BY <1>5, <1>13
  <2>3. IsRing(NumBuckets(u.bits), u.buckets, 0..(Len(u.values) - 1),
               Homes(hash, u.values, u.bits), Marks(hash, u.values))
    <3> HIDE DEF back
    <3> QED BY <1>12, <1>13, <2>2 DEF n, home2, mark2
  <2>4. Len(u.values) <= Capacity(u.bits)
    <3>1. Capacity(t.bits) \in Nat
        BY <1>1, NumBucketsFacts
    <3> QED BY <1>1, <1>4, <1>13, <2>2, <3>1
  <2>5. Len(u.values) \in 0..Len(u.values)
    <3> HIDE DEF back
    <3> QED BY <2>2, <1>4
  <2> HIDE DEF back, l
  <2> QED BY <1>1, <1>5, <1>6, <1>13, <2>1, <2>3, <2>4, <2>5 DEF IsTable, IsFilled
<1> HIDE DEF u
<1> QED BY <1>4, <1>7, <1>13, <1>14 DEF w

(* A table's parts.                                                        *)
LEMMA TableFacts ==
    ASSUME NEW h, NEW t, IsTable(h, t)
    PROVE  /\ t.values \in Seq(Keys) /\ Len(t.values) \in Nat
           /\ t.bits \in InitialBits..MaxBits /\ IsRecord(t)
           /\ IsFilled(h, t, Len(t.values)) /\ Len(t.values) <= Capacity(t.bits)
           /\ \A i, j \in 1..Len(t.values) : t.values[i] = t.values[j] => i = j
BY DEF IsTable, IsFilled

(* erase(iterator) takes out the value it refers to.                       *)
LEMMA EraseAtIsTable ==
    ASSUME hash \in [Keys -> HashValues], NEW t, IsTable(hash, t),
           NEW i \in 0..(Len(t.values) - 1)
    PROVE  /\ IsTable(hash, EraseAt(t, i))
           /\ EraseAt(t, i).values = HoleFilled(t.values, i + 1)
           /\ EraseAt(t, i).bits = t.bits
<1> DEFINE n == NumBuckets(t.bits)
           B == t.buckets
           home == Homes(hash, t.values, t.bits)
           mark == Marks(hash, t.values)
           I == 0..(Len(t.values) - 1)
           k == t.values[i + 1]
           s == Slot(t, k, Min({d \in Distances(t) : Bucket(t, k, d).idx = i}))
           x == Ahead(home[i], Min({d \in 0..n : B[Ahead(home[i], d, n)].idx = i}), n)
<1>1. IsRing(n, B, I, home, mark)
    BY DEF IsTable, IsFilled
<1>2. EraseAt(t, i) = EraseBucket(t, s)
    BY DEF EraseAt
<1>3. home[i] = Home(k, t.bits)
    BY DEF Homes, Home
<1>4. \A d : Slot(t, k, d) = Ahead(home[i], d, n) /\ Bucket(t, k, d) = B[Ahead(home[i], d, n)]
  <2>1. \A d : /\ Slot(t, k, d) = Ahead(Home(k, t.bits), d, n)
               /\ Bucket(t, k, d) = B[Ahead(Home(k, t.bits), d, n)]
      BY SlotAndLevel
  <2> HIDE DEF home, k, n, B
  <2> QED BY <1>3, <2>1
<1>5. s = x
  <2>1. {d \in Distances(t) : Bucket(t, k, d).idx = i} = {d \in 0..n : B[Ahead(home[i], d, n)].idx = i}
    <3> HIDE DEF home, k, B
    <3> QED BY <1>4 DEF Distances
  <2> HIDE DEF home, k, B, n
  <2> QED BY <2>1, <1>4
<1>6. x \in 0..(n - 1) /\ B[x].df # 0 /\ B[x].idx = i
  <2>1. i \in I
      OBVIOUS
  <2> HIDE DEF n, B, I, home, mark
  <2> QED BY <1>1, <2>1, FirstWithIndex
<1> HIDE DEF x, s
<1>7. s \in 0..(NumBuckets(t.bits) - 1) /\ t.buckets[s].df # 0 /\ t.buckets[s].idx = i
    BY <1>5, <1>6
<1>8. /\ IsTable(hash, EraseBucket(t, s))
      /\ EraseBucket(t, s).values = HoleFilled(t.values, t.buckets[s].idx + 1)
      /\ EraseBucket(t, s).bits = t.bits
    BY <1>7, EraseBucketIsTable
<1> QED BY <1>2, <1>7, <1>8

(* erase(key) takes out the key, and only if it is there.                  *)
LEMMA EraseKeyIsTable ==
    ASSUME hash \in [Keys -> HashValues], NEW t, IsTable(hash, t), NEW k \in Keys,
           DF(k, EraseProbe(t, k)) = Bucket(t, k, EraseProbe(t, k)).df
    PROVE  LET u == EraseBucket(t, Slot(t, k, EraseProbe(t, k)))
           IN  /\ IsTable(hash, u)
               /\ \E p \in 1..Len(t.values) : t.values[p] = k /\ u.values = HoleFilled(t.values, p)
<1> DEFINE m == Len(t.values)
           d == EraseProbe(t, k)
           s == Slot(t, k, d)
           u == EraseBucket(t, s)
<1>1. IsFilled(hash, t, m) /\ m \in Nat
    BY TableFacts
<1>2. PICK p \in 1..m : t.values[p] = k
  <2> SUFFICES ASSUME \A i \in 1..m : t.values[i] # k PROVE FALSE
      OBVIOUS
  <2>1. DF(k, EraseProbe(t, k)) # Bucket(t, k, EraseProbe(t, k)).df
    <3> HIDE DEF m
    <3> QED BY <1>1, ProbesMissOthers
  <2> QED BY <2>1
<1>3. PICK e \in 0..(NumBuckets(t.bits) - 1) : LiesAt(t, p, e)
  <2> HIDE DEF m
  <2> QED BY <1>1, ValueLiesSomewhere
<1>4. d = e /\ d \in Distances(t)
  <2>1. EraseProbe(t, t.values[p]) = e
    <3> HIDE DEF m
    <3> QED BY <1>1, <1>3, ProbesFindValue
  <2>2. e \in Distances(t)
    <3> HIDE DEF m
    <3> QED BY <1>1, <1>3, MatchesWhereItLies
  <2> QED BY <1>2, <2>1, <2>2
<1>5. Bucket(t, k, d).idx = p - 1 /\ Bucket(t, k, d).df = DF(k, d)
    BY <1>2, <1>3, <1>4 DEF LiesAt
<1>6. /\ s \in 0..(NumBuckets(t.bits) - 1) /\ Bucket(t, k, d) = t.buckets[s]
      /\ DF(k, d) \in Nat /\ DF(k, d) >= Fingerprints
  <2> HIDE DEF m, d
  <2> QED BY <1>1, <1>4, ProbedBuckets
<1> HIDE DEF d, s
<1>7. t.buckets[s].df # 0 /\ t.buckets[s].idx + 1 = p
    BY <1>1, <1>5, <1>6, FingerprintsFact
<1>8. IsTable(hash, u) /\ u.values = HoleFilled(t.values, p)
    BY <1>6, <1>7, EraseBucketIsTable
<1> HIDE DEF u
<1> QED BY <1>2, <1>8 DEF u, s, d

(* emplace puts a key behind the others, if it is not there.               *)
LEMMA EmplaceIsTable ==
    ASSUME hash \in [Keys -> HashValues], NEW t, IsTable(hash, t), NEW k \in Keys,
           ~Matches(t, k, Probe(t, k)), ~Overflows(t)
    PROVE  LET u == PlaceElement(t, k, Probe(t, k))
           IN  /\ IsTable(hash, u) /\ u.values = Append(t.values, k)
               /\ k \notin Range(t.values)
<1> DEFINE m == Len(t.values)
           d == Probe(t, k)
<1>1. IsFilled(hash, t, m) /\ m \in Nat
    BY TableFacts
<1>2. ASSUME NEW p \in 1..m, t.values[p] = k
      PROVE  FALSE
  <2>1. PICK e \in 0..(NumBuckets(t.bits) - 1) : LiesAt(t, p, e)
    <3> HIDE DEF m
    <3> QED BY <1>1, ValueLiesSomewhere
  <2>2. Probe(t, t.values[p]) = e
    <3> HIDE DEF m
    <3> QED BY <1>1, <2>1, ProbesFindValue
  <2>3. Matches(t, t.values[p], e)
    <3> HIDE DEF m
    <3> QED BY <1>1, <2>1, MatchesWhereItLies
  <2> QED BY <1>2, <2>2, <2>3
<1>3. \A i \in 1..m : t.values[i] # k
    BY <1>2
<1>4. /\ d \in Distances(t) /\ DF(k, d) >= Bucket(t, k, d).df
      /\ \A e \in 0..(d - 1) : Bucket(t, k, e).df >= DF(k, e)
  <2> HIDE DEF m
  <2> QED BY <1>1, <1>3, ProbesMissOthers
<1>5. IsTable(hash, PlaceElement(t, k, d)) /\ PlaceElement(t, k, d).values = Append(t.values, k)
  <2> HIDE DEF d
  <2> QED BY <1>3, <1>4, PlaceElementIsTable
<1>6. k \notin Range(t.values)
  <2>1. t.values \in Seq(Keys)
      BY TableFacts
  <2> QED BY <1>3, <2>1 DEF Range
<1> QED BY <1>5, <1>6

(* clear() keeps the buckets and empties them.                             *)
LEMMA ClearIsTable ==
    ASSUME hash \in [Keys -> HashValues], NEW t, IsTable(hash, t)
    PROVE  LET u == [t EXCEPT !.values = <<>>, !.buckets = Cleared(t.bits)]
           IN  IsTable(hash, u) /\ u.values = <<>>
<1> DEFINE v == <<>>
           u == [values |-> v, bits |-> t.bits, buckets |-> Cleared(t.bits)]
<1>1. t.bits \in InitialBits..MaxBits /\ IsRecord(t)
    BY TableFacts
<1>2. v \in Seq(Keys) /\ Len(v) = 0 /\ Capacity(t.bits) \in Nat
    BY <1>1, NumBucketsFacts
<1>3. IsFilled(hash, u, 0)
  <2> HIDE DEF v
  <2> QED BY <1>1, <1>2, ClearedIsFilled
<1>4. u.values = v /\ u.bits = t.bits /\ Len(u.values) = 0
    OBVIOUS
<1>5. [t EXCEPT !.values = <<>>, !.buckets = Cleared(t.bits)] = u
    BY <1>1, WithValuesAndBuckets
<1> HIDE DEF u
<1>6. IsTable(hash, u)
    BY <1>2, <1>3, <1>4 DEF IsTable
<1> QED BY <1>4, <1>5, <1>6

(* rehash() and reserve() rebuild the buckets and keep the values.         *)
LEMMA ResizingIsTable ==
    ASSUME hash \in [Keys -> HashValues], NEW t, IsTable(hash, t), NEW count \in Nat,
           CanHold(Max({count, Len(t.values)}))
    PROVE  LET u == Rebuilt(t.values, BitsFor(Max({count, Len(t.values)})))
           IN  IsTable(hash, u) /\ u.values = t.values
<1> DEFINE size == Max({count, Len(t.values)})
           b == BitsFor(size)
<1>1. /\ t.values \in Seq(Keys) /\ Len(t.values) \in Nat
      /\ \A i, j \in 1..Len(t.values) : t.values[i] = t.values[j] => i = j
    BY TableFacts
<1>2. size \in Nat /\ Len(t.values) <= size
  <2> DEFINE l == Len(t.values)
  <2>1. l \in Nat
      BY <1>1
  <2> HIDE DEF l
  <2>2. Max({count, l}) \in {count, l} /\ l <= Max({count, l})
    <3>1. \E x \in {count, l} : \A y \in {count, l} : y <= x
      <4>1. CASE count <= l
          BY <2>1, <4>1
      <4>2. CASE ~(count <= l)
          BY <2>1, <4>2
      <4> QED BY <4>1, <4>2
    <3> QED BY <3>1 DEF Max
  <2>3. Max({count, l}) \in Nat /\ l <= Max({count, l})
      BY <2>1, <2>2
  <2> QED BY <2>3 DEF l
<1>3. b \in InitialBits..MaxBits /\ Load(b) >= size
  <2>1. CanHold(size)
      OBVIOUS
  <2> HIDE DEF size
  <2> QED BY <1>2, <2>1, BitsForFacts
<1>4. Len(t.values) <= Capacity(b)
  <2>1. Load(b) \in Nat /\ Capacity(b) \in Nat /\ Load(b) <= Capacity(b)
    <3> HIDE DEF b
    <3> QED BY <1>3, NumBucketsFacts
  <2> HIDE DEF b, size
  <2> QED BY <1>1, <1>2, <1>3, <2>1
<1>5. IsTable(hash, Rebuilt(t.values, b)) /\ Rebuilt(t.values, b).values = t.values
  <2> HIDE DEF b
  <2> QED BY <1>1, <1>3, <1>4, RebuiltIsTable
<1> QED BY <1>5

(* The index that erase(first, last) takes in turn n, and its turns.       *)
TurnAt(first, last, mid, n) ==
    IF first + n <= mid THEN first + n - 1 ELSE last - (first + n - mid)

IsErasing(f, m, t, first, last, mid) ==
    f = [n \in 0..m |-> IF n = 0 THEN t ELSE EraseAt(f[n - 1], TurnAt(first, last, mid, n))]

(* There is such a sequence of tables.                                     *)
LEMMA ErasingEnds ==
    ASSUME NEW m \in Nat, NEW t, NEW first, NEW last, NEW mid
    PROVE  \E f : IsErasing(f, m, t, first, last, mid)
<1> DEFINE A(i) == TurnAt(first, last, mid, i)
           T == {e \in 0..m : \E g : g =
                    [i \in 0..e |-> IF i = 0 THEN t ELSE EraseAt(g[i - 1], A(i))]}
<1> HIDE DEF A
<1>1. 0 \in T
  <2> DEFINE g == [i \in 0..0 |-> t]
  <2>1. g = [i \in 0..0 |-> IF i = 0 THEN t ELSE EraseAt(g[i - 1], A(i))]
      OBVIOUS
  <2> HIDE DEF g
  <2>2. 0 \in 0..m
      OBVIOUS
  <2> QED BY <2>1, <2>2
<1>2. ASSUME NEW e \in 1..m, e - 1 \in T
      PROVE  e \in T
  <2>1. PICK g : g = [i \in 0..(e - 1) |-> IF i = 0 THEN t ELSE EraseAt(g[i - 1], A(i))]
      BY <1>2
  <2> DEFINE q == [i \in 0..e |-> IF i = e THEN EraseAt(g[e - 1], A(e)) ELSE g[i]]
             w == [i \in 0..e |-> IF i = 0 THEN t ELSE EraseAt(q[i - 1], A(i))]
  <2>2. ASSUME NEW i \in 0..e
        PROVE  q[i] = w[i]
    <3>1. CASE i = e
      <4>1. q[i - 1] = g[e - 1] /\ i # 0
          BY <3>1
      <4> QED BY <3>1, <4>1
    <3>2. CASE i # e
      <4>1. i \in 0..(e - 1) /\ q[i] = g[i]
          BY <3>2
      <4>2. i # 0 => q[i - 1] = g[i - 1]
          BY <4>1
      <4>3. g[i] = IF i = 0 THEN t ELSE EraseAt(g[i - 1], A(i))
          BY <2>1, <4>1
      <4> QED BY <4>1, <4>2, <4>3
    <3> QED BY <3>1, <3>2
  <2>3. q = w
      BY <2>2
  <2>4. q = [i \in 0..e |-> IF i = 0 THEN t ELSE EraseAt(q[i - 1], A(i))]
      BY <2>3
  <2> HIDE DEF q, w
  <2>5. e \in 0..m
      OBVIOUS
  <2> QED BY <2>4, <2>5
<1>3. \A e \in 0..m : e \in T
  <2> HIDE DEF T
  <2> QED BY <1>1, <1>2, CountUp
<1>4. m \in T
    BY <1>3
<1> QED BY <1>4 DEF IsErasing, A

(* erase(first, last) takes every index of the range once, each while the  *)
(* table is still large enough to have it.                                 *)
TurnsCover(first, last, mid, l) ==
    LET A(n) == TurnAt(first, last, mid, n)
        c == last - first
    IN  /\ \A n \in 1..c : A(n) \in first..(last - 1) /\ A(n) < l - (n - 1)
        /\ \A m, n \in 1..c : m < n => A(n) # A(m) /\ A(n) < l - m
        /\ \A i \in first..(last - 1) : \E n \in 1..c : i = A(n)

(* It does where it changes sides at mid, as the code does.                *)
LEMMA TurnsOfRange ==
    ASSUME NEW l \in Nat, NEW last \in 0..l, NEW first \in 0..last, NEW mid \in first..last,
           mid - first <= l - last, mid = last \/ mid - first = l - last
    PROVE  TurnsCover(first, last, mid, l)
<1> DEFINE A(n) == TurnAt(first, last, mid, n)
           a == mid - first
           c == last - first
<1>1. /\ first \in Nat /\ last \in Nat /\ c \in Nat /\ last <= l /\ a \in Nat /\ mid = first + a
      /\ a <= c /\ a <= l - last /\ (a = c \/ a = l - last)
    OBVIOUS
<1> HIDE DEF a
<1>2. \A n \in 1..c : A(n) = IF n <= a THEN first + n - 1 ELSE last - (n - a)
    BY <1>1 DEF TurnAt
<1>3. \A n \in 1..c : A(n) \in first..(last - 1) /\ A(n) < l - (n - 1)
    BY <1>1, <1>2
<1>4. \A m, n \in 1..c : m < n => A(n) # A(m) /\ A(n) < l - m
    BY <1>1, <1>2
<1>5. ASSUME NEW i \in first..(last - 1)
      PROVE  \E n \in 1..c : i = A(n)
  <2>1. CASE i < first + a
    <3>1. i - first + 1 \in 1..c /\ i = A(i - first + 1)
        BY <1>1, <1>2, <2>1
    <3> QED BY <3>1
  <2>2. CASE ~(i < first + a)
    <3>1. last - i + a \in 1..c /\ i = A(last - i + a)
        BY <1>1, <1>2, <2>2
    <3> QED BY <3>1
  <2> QED BY <2>1, <2>2
<1> QED BY <1>3, <1>4, <1>5 DEF TurnsCover

(* The smaller of two numbers.                                             *)
LEMMA MinOfTwo ==
    ASSUME NEW a \in Nat, NEW b \in Nat
    PROVE  /\ Min({a, b}) \in Nat /\ Min({a, b}) <= a /\ Min({a, b}) <= b
           /\ Min({a, b}) = a \/ Min({a, b}) = b
<1>1. \E x \in {a, b} : \A y \in {a, b} : x <= y
  <2>1. CASE a <= b
      BY <2>1
  <2>2. CASE ~(a <= b)
      BY <2>2
  <2> QED BY <2>1, <2>2
<1> QED BY <1>1 DEF Min

(* Erasing a range takes out its keys.                                     *)
LEMMA RangeErasedIsTable ==
    ASSUME hash \in [Keys -> HashValues], NEW t, IsTable(hash, t),
           NEW last \in 0..Len(t.values), NEW first \in 0..last
    PROVE  LET u == RangeErased(t, first, last)
           IN  /\ IsTable(hash, u)
               /\ Range(u.values) = Range(t.values) \ {t.values[i] : i \in (first + 1)..last}
               /\ first = last => u = t
               /\ last = first + 1 => u.values = HoleFilled(t.values, last)
<1> DEFINE v == t.values
           l == Len(v)
           c == last - first
           a == Min({last - first, l - last})
           mid == first + a
           A(n) == TurnAt(first, last, mid, n)
           f == CHOOSE g : g = [n \in 0..c |-> IF n = 0 THEN t ELSE EraseAt(g[n - 1], A(n))]
           Gone(j) == {v[A(q) + 1] : q \in 1..j}
           Good(j) == /\ IsTable(hash, f[j])
                      /\ Len(f[j].values) = l - j
                      /\ Range(f[j].values) = Range(v) \ Gone(j)
                      /\ \A q \in (j + 1)..c : A(q) < l - j /\ f[j].values[A(q) + 1] = v[A(q) + 1]
           T == {j \in 0..c : Good(j)}
<1>1. v \in Seq(Keys) /\ l \in Nat
    BY TableFacts
<1>2. last \in Nat /\ first \in Nat /\ c \in Nat /\ last <= l /\ l - last \in Nat /\ last \in 0..l
    BY <1>1
<1>3. a \in Nat /\ a <= c /\ a <= l - last /\ (a = c \/ a = l - last)
  <2> DEFINE x == last - first
             y == l - last
  <2>1. x \in Nat /\ y \in Nat
      BY <1>2
  <2>2. Min({x, y}) \in Nat /\ Min({x, y}) <= x /\ Min({x, y}) <= y /\ (Min({x, y}) = x \/ Min({x, y}) = y)
    <3> HIDE DEF x, y
    <3> QED BY <2>1, MinOfTwo
  <2> QED BY <2>2
<1>4. RangeErased(t, first, last) = f[c]
    BY DEF RangeErased, TurnAt
<1>5. f = [n \in 0..c |-> IF n = 0 THEN t ELSE EraseAt(f[n - 1], A(n))]
  <2>1. \E g : IsErasing(g, c, t, first, last, mid)
    <3> HIDE DEF c, mid
    <3> QED BY <1>2, ErasingEnds
  <2> HIDE DEF c, mid
  <2> QED BY <2>1 DEF IsErasing
<1>6. /\ \A n \in 1..c : A(n) \in first..(last - 1) /\ A(n) < l - (n - 1)
      /\ \A m, n \in 1..c : m < n => A(n) # A(m) /\ A(n) < l - m
      /\ \A i \in first..(last - 1) : \E n \in 1..c : i = A(n)
  <2>1. /\ mid \in first..last /\ mid - first <= l - last
        /\ mid = last \/ mid - first = l - last
    <3> HIDE DEF l, a
    <3> QED BY <1>1, <1>2, <1>3
  <2>2. TurnsCover(first, last, mid, l)
    <3> HIDE DEF l, mid
    <3> QED BY <1>1, <1>2, <2>1, TurnsOfRange
  <2> HIDE DEF mid, l
  <2> QED BY <2>2 DEF TurnsCover
<1> HIDE DEF f, A, a, mid
<1>7. 0 \in T
  <2>1. f[0] = t
      BY <1>2, <1>5
  <2>2. \A q \in 1..c : A(q) < l
    <3> SUFFICES ASSUME NEW q \in 1..c PROVE A(q) < l
        OBVIOUS
    <3>1. A(q) \in first..(last - 1)
        BY <1>6
    <3> QED BY <3>1, <1>1, <1>2
  <2>3. Gone(0) = {}
      OBVIOUS
  <2>4. l - 0 = l /\ 0 \in 0..c
      BY <1>1, <1>2
  <2>6. \A q \in (0 + 1)..c : A(q) < l - 0 /\ t.values[A(q) + 1] = v[A(q) + 1]
      BY <2>2, <2>4
  <2>7. Len(t.values) = l - 0 /\ Range(t.values) = Range(v) \ {}
      BY <2>4
  <2> HIDE DEF Gone, c
  <2>5. Good(0)
    <3> HIDE DEF l, v
    <3> QED BY <2>1, <2>3, <2>6, <2>7
  <2> QED BY <2>4, <2>5
<1>8. ASSUME NEW e \in 1..c, e - 1 \in T
      PROVE  e \in T
  <2> DEFINE j == e - 1
             s == f[j]
             i == A(e)
             w == HoleFilled(s.values, i + 1)
  <2>1. j + 1 = e /\ j \in Nat /\ e # 0 /\ e \in 0..c /\ e \in (j + 1)..c /\ e \in Nat
      BY <1>2
  <2>2. f[e] = EraseAt(s, i)
      BY <2>1, <1>5
  <2>3. Good(j)
      BY <1>8
  <2>4. /\ IsTable(hash, s) /\ Len(s.values) = l - j
        /\ Range(s.values) = Range(v) \ Gone(j)
        /\ \A q \in (j + 1)..c : A(q) < l - j /\ s.values[A(q) + 1] = v[A(q) + 1]
      BY <2>3
  <2>5. i \in first..(last - 1) /\ i < l - j /\ s.values[i + 1] = v[i + 1]
    <3> HIDE DEF j, s
    <3> QED BY <2>1, <2>4, <1>6
  <2>6. i \in 0..(Len(s.values) - 1) /\ i + 1 \in 1..Len(s.values)
      BY <2>1, <2>4, <2>5, <1>1, <1>2
  <2>7. IsTable(hash, f[e]) /\ f[e].values = w
    <3> HIDE DEF s, i
    <3> QED BY <2>2, <2>4, <2>6, EraseAtIsTable
  <2>8. /\ s.values \in Seq(Keys)
        /\ \A x, y \in 1..Len(s.values) : s.values[x] = s.values[y] => x = y
    <3> HIDE DEF s
    <3> QED BY <2>4, TableFacts
  <2>9. /\ Len(w) = Len(s.values) - 1
        /\ \A x \in 1..(Len(s.values) - 1) :
              w[x] = IF x = i + 1 THEN s.values[Len(s.values)] ELSE s.values[x]
    <3> DEFINE p == i + 1
    <3>1. p \in 1..Len(s.values)
        BY <2>6
    <3>2. /\ Len(HoleFilled(s.values, p)) = Len(s.values) - 1
          /\ \A x \in 1..(Len(s.values) - 1) :
                HoleFilled(s.values, p)[x] = IF x = p THEN s.values[Len(s.values)] ELSE s.values[x]
      <4> HIDE DEF p, s
      <4> QED BY <2>8, <3>1, HoleFilledFacts
    <3> QED BY <3>2
  <2>10. Range(w) = Range(s.values) \ {s.values[i + 1]}
    <3> DEFINE p == i + 1
    <3>1. p \in 1..Len(s.values)
        BY <2>6
    <3>2. Range(HoleFilled(s.values, p)) = Range(s.values) \ {s.values[p]}
      <4> HIDE DEF p, s
      <4> QED BY <2>8, <3>1, HoleFilledRange
    <3> QED BY <3>2
  <2>11. Len(f[e].values) = l - e
    <3> HIDE DEF w, s
    <3> QED BY <2>1, <2>4, <2>7, <2>9, <1>1
  <2>12. Range(f[e].values) = Range(v) \ Gone(e)
    <3>1. Gone(e) = Gone(j) \cup {v[i + 1]}
      <4>1. \A q : q \in 1..e <=> q \in 1..j \/ q = e
          BY <2>1
      <4> HIDE DEF j, v
      <4> QED BY <4>1
    <3> HIDE DEF Gone, w, s, v, i
    <3> QED BY <3>1, <2>4, <2>5, <2>7, <2>10
  <2>13. ASSUME NEW q \in (e + 1)..c
         PROVE  A(q) < l - e /\ f[e].values[A(q) + 1] = v[A(q) + 1]
    <3>1. q \in 1..c /\ e < q /\ q \in (j + 1)..c
        BY <2>1
    <3>2. A(q) # i /\ A(q) < l - e /\ A(q) \in Nat
      <4>1. A(q) # i /\ A(q) < l - e
          BY <3>1, <1>6
      <4>2. A(q) \in first..(last - 1)
          BY <3>1, <1>6
      <4> QED BY <4>1, <4>2, <1>2
    <3>3. s.values[A(q) + 1] = v[A(q) + 1]
        BY <3>1, <2>4
    <3>4. A(q) + 1 \in 1..(Len(s.values) - 1) /\ A(q) + 1 # i + 1
      <4> DEFINE y == A(q)
                 m == Len(s.values)
      <4>1. y \in Nat /\ y # i /\ y < l - e /\ m = l - j /\ i \in Nat
          BY <3>2, <2>4, <2>5, <1>2
      <4> HIDE DEF y, m, i
      <4>2. y + 1 \in 1..(m - 1) /\ y + 1 # i + 1
        <5> HIDE DEF l
        <5> QED BY <4>1, <2>1, <1>1
      <4> QED BY <4>2 DEF y, m
    <3>5. w[A(q) + 1] = s.values[A(q) + 1]
      <4> HIDE DEF w, s, i
      <4> QED BY <3>4, <2>9
    <3> HIDE DEF w, s
    <3> QED BY <3>2, <3>3, <3>5, <2>7
  <2> HIDE DEF Gone, c
  <2>14. Good(e)
      BY <2>7, <2>11, <2>12, <2>13
  <2> QED BY <2>1, <2>14
<1>9. \A e \in 0..c : e \in T
  <2> HIDE DEF T, c
  <2> QED BY <1>2, <1>7, <1>8, CountUp
<1>10. Good(c)
  <2> HIDE DEF c
  <2>1. c \in T
    <3> HIDE DEF T
    <3> QED BY <1>2, <1>9
  <2> HIDE DEF Good
  <2> QED BY <2>1
<1>11. Gone(c) = {v[i] : i \in (first + 1)..last}
  <2>1. \A q \in 1..c : A(q) + 1 \in (first + 1)..last
      BY <1>2, <1>6
  <2>2. \A i \in (first + 1)..last : \E q \in 1..c : i = A(q) + 1
    <3> SUFFICES ASSUME NEW i \in (first + 1)..last PROVE \E q \in 1..c : i = A(q) + 1
        OBVIOUS
    <3>1. i - 1 \in first..(last - 1) /\ (i - 1) + 1 = i
        BY <1>2
    <3>2. PICK q \in 1..c : i - 1 = A(q)
        BY <3>1, <1>6
    <3> QED BY <3>1, <3>2
  <2> HIDE DEF c, v
  <2> QED BY <2>1, <2>2
<1>12. first = last => f[c] = t
  <2> SUFFICES ASSUME first = last PROVE f[c] = t
      OBVIOUS
  <2>1. c = 0
      BY <1>2
  <2>2. f[0] = t
      BY <1>2, <1>5
  <2> HIDE DEF c
  <2> QED BY <2>1, <2>2
<1>13. last = first + 1 => f[c].values = HoleFilled(v, last)
  <2> SUFFICES ASSUME last = first + 1 PROVE f[c].values = HoleFilled(v, last)
      OBVIOUS
  <2>1. c = 1 /\ 1 \in 0..c /\ 0 \in 0..c /\ 1 \in 1..c
      BY <1>2
  <2>2. A(1) \in first..(last - 1)
      BY <2>1, <1>6
  <2>3. A(1) = first /\ A(1) + 1 = last /\ A(1) \in 0..(l - 1)
      BY <2>2, <1>1, <1>2
  <2>4. f[0] = t /\ f[1] = EraseAt(f[0], A(1))
      BY <2>1, <1>5
  <2>5. f[1].values = HoleFilled(v, A(1) + 1)
    <3> DEFINE i == A(1)
    <3>1. i \in 0..(Len(t.values) - 1) /\ f[1] = EraseAt(t, i)
        BY <2>3, <2>4
    <3>2. EraseAt(t, i).values = HoleFilled(t.values, i + 1)
      <4> HIDE DEF i
      <4> QED BY <3>1, EraseAtIsTable
    <3> QED BY <3>1, <3>2
  <2> HIDE DEF c
  <2> QED BY <2>1, <2>3, <2>5
<1> HIDE DEF c, Gone
<1> QED BY <1>4, <1>10, <1>11, <1>12, <1>13

(* The turns of std::erase_if.                                             *)
IsWeeding(f, m, t, pred, l) ==
    f = [n \in 0..m |-> IF n = 0 THEN t ELSE EraseOrNot(f[n - 1], pred, l - n + 1)]

(* There is such a sequence of tables.                                     *)
LEMMA WeedingEnds ==
    ASSUME NEW m \in Nat, NEW t, NEW pred, NEW l
    PROVE  \E f : IsWeeding(f, m, t, pred, l)
<1> DEFINE A(i) == l - i + 1
           T == {e \in 0..m : \E g : g =
                    [i \in 0..e |-> IF i = 0 THEN t ELSE EraseOrNot(g[i - 1], pred, A(i))]}
<1> HIDE DEF A
<1>1. 0 \in T
  <2> DEFINE g == [i \in 0..0 |-> t]
  <2>1. g = [i \in 0..0 |-> IF i = 0 THEN t ELSE EraseOrNot(g[i - 1], pred, A(i))]
      OBVIOUS
  <2> HIDE DEF g
  <2>2. 0 \in 0..m
      OBVIOUS
  <2> QED BY <2>1, <2>2
<1>2. ASSUME NEW e \in 1..m, e - 1 \in T
      PROVE  e \in T
  <2>1. PICK g : g = [i \in 0..(e - 1) |-> IF i = 0 THEN t ELSE EraseOrNot(g[i - 1], pred, A(i))]
      BY <1>2
  <2> DEFINE q == [i \in 0..e |-> IF i = e THEN EraseOrNot(g[e - 1], pred, A(e)) ELSE g[i]]
             w == [i \in 0..e |-> IF i = 0 THEN t ELSE EraseOrNot(q[i - 1], pred, A(i))]
  <2>2. ASSUME NEW i \in 0..e
        PROVE  q[i] = w[i]
    <3>1. CASE i = e
      <4>1. q[i - 1] = g[e - 1] /\ i # 0
          BY <3>1
      <4> QED BY <3>1, <4>1
    <3>2. CASE i # e
      <4>1. i \in 0..(e - 1) /\ q[i] = g[i]
          BY <3>2
      <4>2. i # 0 => q[i - 1] = g[i - 1]
          BY <4>1
      <4>3. g[i] = IF i = 0 THEN t ELSE EraseOrNot(g[i - 1], pred, A(i))
          BY <2>1, <4>1
      <4> QED BY <4>1, <4>2, <4>3
    <3> QED BY <3>1, <3>2
  <2>3. q = w
      BY <2>2
  <2>4. q = [i \in 0..e |-> IF i = 0 THEN t ELSE EraseOrNot(q[i - 1], pred, A(i))]
      BY <2>3
  <2> HIDE DEF q, w
  <2>5. e \in 0..m
      OBVIOUS
  <2> QED BY <2>4, <2>5
<1>3. \A e \in 0..m : e \in T
  <2> HIDE DEF T
  <2> QED BY <1>1, <1>2, CountUp
<1>4. m \in T
    BY <1>3
<1> QED BY <1>4 DEF IsWeeding, A

(* What std::erase_if has done with the table t when the values behind the *)
(* first m have been looked at.                                            *)
Weeded(h, t, pred, m, u) ==
    /\ IsTable(h, u)
    /\ m <= Len(u.values)
    /\ \A i \in 1..m : u.values[i] = t.values[i]
    /\ \A i \in (m + 1)..Len(u.values) : u.values[i] \notin pred
    /\ Range(u.values) \subseteq Range(t.values)
    /\ Range(t.values) \ pred \subseteq Range(u.values)
    /\ pred = {} => u = t
    /\ \A q \in 1..Len(t.values) : pred = {t.values[q]} =>
          IF q <= m THEN u = t ELSE u.values = HoleFilled(t.values, q)

(* One more value looked at.                                               *)
LEMMA EraseOrNotWeeds ==
    ASSUME hash \in [Keys -> HashValues], NEW t, IsTable(hash, t), NEW pred,
           NEW m \in 1..Len(t.values), NEW u, Weeded(hash, t, pred, m, u)
    PROVE  Weeded(hash, t, pred, m - 1, EraseOrNot(u, pred, m))
<1> DEFINE v == t.values
           l == Len(v)
           x == u.values
           w == EraseOrNot(u, pred, m)
           y == w.values
<1>1. /\ v \in Seq(Keys) /\ l \in Nat /\ m \in Nat /\ m \in 1..l
      /\ \A i, j \in 1..l : v[i] = v[j] => i = j
    BY TableFacts
<1>2. /\ IsTable(hash, u) /\ m <= Len(x)
      /\ \A i \in 1..m : x[i] = v[i]
      /\ \A i \in (m + 1)..Len(x) : x[i] \notin pred
      /\ Range(x) \subseteq Range(v) /\ Range(v) \ pred \subseteq Range(x)
      /\ pred = {} => u = t
      /\ \A q \in 1..l : pred = {v[q]} =>
            IF q <= m THEN u = t ELSE x = HoleFilled(v, q)
    BY DEF Weeded
<1>3. /\ x \in Seq(Keys) /\ Len(x) \in Nat /\ m \in 1..Len(x)
      /\ \A i, j \in 1..Len(x) : x[i] = x[j] => i = j
    BY <1>1, <1>2, TableFacts
<1>4. x[m] = v[m]
    BY <1>1, <1>2
<1>5. CASE x[m] \notin pred
  <2>1. w = u
      BY <1>5 DEF EraseOrNot
  <2>2. ASSUME NEW i \in ((m - 1) + 1)..Len(x) PROVE x[i] \notin pred
    <3>1. i = m \/ i \in (m + 1)..Len(x)
        BY <1>3
    <3> QED BY <3>1, <1>2, <1>5
  <2>3. ASSUME NEW q \in 1..l, pred = {v[q]}
        PROVE  IF q <= m - 1 THEN u = t ELSE x = HoleFilled(v, q)
    <3>1. q # m
        BY <2>3, <1>4, <1>5
    <3>2. q <= m - 1 <=> q <= m
        BY <3>1, <1>1
    <3>3. IF q <= m THEN u = t ELSE x = HoleFilled(v, q)
        BY <1>2, <2>3
    <3> HIDE DEF v, x
    <3> QED BY <3>2, <3>3
  <2>4. m - 1 <= Len(x) /\ \A i \in 1..(m - 1) : x[i] = v[i]
      BY <1>1, <1>2, <1>3
  <2> HIDE DEF w
  <2> QED BY <1>2, <2>1, <2>2, <2>3, <2>4 DEF Weeded, w
<1>6. CASE x[m] \in pred
  <2> DEFINE i0 == m - 1
  <2>1. w = EraseAt(u, i0)
      BY <1>6 DEF EraseOrNot
  <2>2. i0 \in 0..(Len(x) - 1) /\ i0 + 1 = m
      BY <1>1, <1>3
  <2>3. IsTable(hash, w) /\ y = HoleFilled(x, m)
    <3>1. IsTable(hash, EraseAt(u, i0)) /\ EraseAt(u, i0).values = HoleFilled(u.values, i0 + 1)
      <4> HIDE DEF i0
      <4> QED BY <1>2, <2>2, EraseAtIsTable
    <3> HIDE DEF w, i0
    <3> QED BY <3>1, <2>1, <2>2
  <2> HIDE DEF w, y, i0
  <2>4. /\ Len(y) = Len(x) - 1
        /\ \A i \in 1..(Len(x) - 1) : y[i] = IF i = m THEN x[Len(x)] ELSE x[i]
    <3> HIDE DEF x
    <3> QED BY <1>3, <2>3, HoleFilledFacts
  <2>5. Range(y) = Range(x) \ {x[m]}
    <3> HIDE DEF x
    <3> QED BY <1>3, <2>3, HoleFilledRange
  <2>6. m - 1 <= Len(y) /\ \A i \in 1..(m - 1) : y[i] = v[i]
    <3>1. \A i \in 1..(m - 1) : i \in 1..(Len(x) - 1) /\ i # m /\ i \in 1..m
        BY <1>1, <1>3
    <3>2. m - 1 <= Len(y)
        BY <1>3, <2>4
    <3> HIDE DEF x, v
    <3> QED BY <3>1, <3>2, <2>4, <1>2
  <2>7. ASSUME NEW i \in ((m - 1) + 1)..Len(y) PROVE y[i] \notin pred
    <3>1. i \in 1..(Len(x) - 1)
        BY <1>1, <1>3, <2>4
    <3>2. CASE i = m
      <4>1. y[i] = x[Len(x)] /\ Len(x) \in (m + 1)..Len(x)
          BY <3>1, <3>2, <2>4, <1>3
      <4> QED BY <4>1, <1>2
    <3>3. CASE i # m
      <4>1. y[i] = x[i] /\ i \in (m + 1)..Len(x)
          BY <3>1, <3>3, <2>4, <1>3
      <4> QED BY <4>1, <1>2
    <3> QED BY <3>2, <3>3
  <2>8. Range(y) \subseteq Range(v) /\ Range(v) \ pred \subseteq Range(y)
    <3> HIDE DEF x, v
    <3> QED BY <1>2, <1>6, <2>5
  <2>9. pred # {}
      BY <1>6
  <2>10. ASSUME NEW q \in 1..l, pred = {v[q]}
         PROVE  IF q <= m - 1 THEN w = t ELSE y = HoleFilled(v, q)
    <3>1. q = m
        BY <2>10, <1>1, <1>4, <1>6
    <3>2. u = t
        BY <3>1, <2>10, <1>1, <1>2
    <3>3. y = HoleFilled(v, q) /\ ~(q <= m - 1)
        BY <3>1, <3>2, <2>3, <1>1
    <3> QED BY <3>3
  <2> QED BY <2>3, <2>6, <2>7, <2>8, <2>9, <2>10 DEF Weeded, w, y
<1> QED BY <1>5, <1>6

(* std::erase_if takes out the keys that meet the predicate.               *)
LEMMA ErasedIfIsTable ==
    ASSUME hash \in [Keys -> HashValues], NEW t, IsTable(hash, t), NEW pred
    PROVE  LET u == ErasedIf(t, pred)
           IN  /\ IsTable(hash, u)
               /\ Range(u.values) = Range(t.values) \ pred
               /\ pred = {} => u = t
               /\ \A q \in 1..Len(t.values) :
                     pred = {t.values[q]} => u.values = HoleFilled(t.values, q)
<1> DEFINE v == t.values
           l == Len(v)
           f == CHOOSE g : g = [n \in 0..l |-> IF n = 0 THEN t ELSE EraseOrNot(g[n - 1], pred, l - n + 1)]
           T == {n \in 0..l : Weeded(hash, t, pred, l - n, f[n])}
<1>1. v \in Seq(Keys) /\ l \in Nat
    BY TableFacts
<1>2. ErasedIf(t, pred) = f[l]
    BY DEF ErasedIf
<1>3. f = [n \in 0..l |-> IF n = 0 THEN t ELSE EraseOrNot(f[n - 1], pred, l - n + 1)]
  <2>1. \E g : IsWeeding(g, l, t, pred, l)
    <3> HIDE DEF l
    <3> QED BY <1>1, WeedingEnds
  <2> HIDE DEF l
  <2> QED BY <2>1 DEF IsWeeding
<1> HIDE DEF f
<1>4. 0 \in T
  <2>1. f[0] = t /\ l - 0 = l /\ 0 \in 0..l
      BY <1>1, <1>3
  <2>2. \A i \in (l + 1)..l : FALSE
      BY <1>1
  <2>3. \A q \in 1..l : q <= l
      BY <1>1
  <2>4. Weeded(hash, t, pred, l, t)
      BY <1>1, <2>2, <2>3 DEF Weeded
  <2> HIDE DEF l
  <2> QED BY <2>1, <2>4
<1>5. ASSUME NEW e \in 1..l, e - 1 \in T
      PROVE  e \in T
  <2> DEFINE m == l - (e - 1)
             u == f[e - 1]
  <2>1. m \in 1..l /\ m - 1 = l - e /\ l - e + 1 = m /\ e # 0 /\ e \in 0..l
      BY <1>1
  <2>2. f[e] = EraseOrNot(u, pred, m)
      BY <2>1, <1>3
  <2>3. Weeded(hash, t, pred, m, u)
      BY <1>5
  <2>4. Weeded(hash, t, pred, m - 1, EraseOrNot(u, pred, m))
    <3> HIDE DEF m, u
    <3> QED BY <2>1, <2>3, EraseOrNotWeeds
  <2> HIDE DEF m, u, l
  <2> QED BY <2>1, <2>2, <2>4
<1>6. \A e \in 0..l : e \in T
  <2> HIDE DEF T, l
  <2> QED BY <1>1, <1>4, <1>5, CountUp
<1>7. Weeded(hash, t, pred, 0, f[l])
  <2>1. l \in T /\ l - l = 0
      BY <1>1, <1>6
  <2> HIDE DEF l
  <2> QED BY <2>1
<1> DEFINE u == f[l]
<1>8. /\ IsTable(hash, u)
      /\ \A i \in (0 + 1)..Len(u.values) : u.values[i] \notin pred
      /\ Range(u.values) \subseteq Range(v) /\ Range(v) \ pred \subseteq Range(u.values)
      /\ pred = {} => u = t
      /\ \A q \in 1..l : pred = {v[q]} =>
            IF q <= 0 THEN u = t ELSE u.values = HoleFilled(v, q)
    BY <1>7 DEF Weeded
<1> HIDE DEF u
<1>9. Range(u.values) \cap pred = {}
  <2>1. u.values \in Seq(Keys)
      BY <1>8, TableFacts
  <2> QED BY <2>1, <1>8 DEF Range
<1>10. Range(u.values) = Range(v) \ pred
  <2> HIDE DEF v
  <2> QED BY <1>8, <1>9
<1>11. \A q \in 1..l : pred = {v[q]} => u.values = HoleFilled(v, q)
    BY <1>1, <1>8
<1> QED BY <1>2, <1>8, <1>10, <1>11 DEF u

(* Where value p comes a second time, none is gone.                        *)
LEMMA HoleFilledKeeps ==
    ASSUME NEW S, NEW v \in Seq(S), NEW p \in 1..Len(v), NEW q \in 1..(p - 1), v[q] = v[p]
    PROVE  Range(HoleFilled(v, p)) = Range(v)
<1> DEFINE l == Len(v)
           w == HoleFilled(v, p)
<1>1. l \in Nat /\ p \in 1..l /\ q \in 1..(l - 1) /\ q # p
    OBVIOUS
<1>2. w \in Seq(S) /\ Len(w) = l - 1 /\ \A i \in 1..(l - 1) : w[i] = IF i = p THEN v[l] ELSE v[i]
    BY HoleFilledFacts
<1> HIDE DEF w
<1>3. /\ Range(v) = {v[i] : i \in 1..l}
      /\ Range(w) = {w[i] : i \in 1..(l - 1)}
  <2>1. DOMAIN v = 1..l
      OBVIOUS
  <2>2. DOMAIN w = 1..(l - 1)
      BY <1>1, <1>2
  <2> HIDE DEF l
  <2> QED BY <2>1, <2>2 DEF Range
<1>4. v[q] = v[p]
    OBVIOUS
<1> HIDE DEF l
<1>5. ASSUME NEW i \in 1..(l - 1)
      PROVE  \E j \in 1..l : w[i] = v[j]
  <2>1. i \in 1..l /\ l \in 1..l
      BY <1>1
  <2> QED BY <2>1, <1>2
<1>6. ASSUME NEW j \in 1..l
      PROVE  \E i \in 1..(l - 1) : w[i] = v[j]
  <2>1. CASE j = p
    <3>1. w[q] = v[q]
        BY <1>1, <1>2
    <3> QED BY <3>1, <2>1, <1>1, <1>4
  <2>2. CASE j # p /\ j = l
    <3>1. p \in 1..(l - 1)
        BY <1>1, <2>2
    <3> QED BY <3>1, <2>2, <1>2
  <2>3. CASE j # p /\ j # l
    <3>1. j \in 1..(l - 1)
        BY <1>1, <2>3
    <3> QED BY <3>1, <2>3, <1>2
  <2> QED BY <2>1, <2>2, <2>3
<1>7. Range(w) = Range(v)
  <2>1. ASSUME NEW x \in Range(w) PROVE x \in Range(v)
    <3>1. PICK i \in 1..(l - 1) : x = w[i]
        BY <1>3
    <3> QED BY <3>1, <1>3, <1>5
  <2>2. ASSUME NEW x \in Range(v) PROVE x \in Range(w)
    <3>1. PICK j \in 1..l : x = v[j]
        BY <1>3
    <3>2. PICK i \in 1..(l - 1) : w[i] = v[j]
        BY <1>6
    <3> QED BY <3>1, <3>2, <1>3
  <2> QED BY <2>1, <2>2
<1> QED BY <1>7 DEF w

(* The turns of replace().                                                 *)
IsTaking(f, m, s) == f = [n \in 0..m |-> IF n = 0 THEN s ELSE PlaceOrDrop(f[n - 1])]

(* There is such a sequence of states.                                     *)
LEMMA TakingEnds ==
    ASSUME NEW m \in Nat, NEW s
    PROVE  \E f : IsTaking(f, m, s)
<1> DEFINE T == {e \in 0..m : \E g : g =
                    [i \in 0..e |-> IF i = 0 THEN s ELSE PlaceOrDrop(g[i - 1])]}
<1>1. 0 \in T
  <2> DEFINE g == [i \in 0..0 |-> s]
  <2>1. g = [i \in 0..0 |-> IF i = 0 THEN s ELSE PlaceOrDrop(g[i - 1])]
      OBVIOUS
  <2> HIDE DEF g
  <2>2. 0 \in 0..m
      OBVIOUS
  <2> QED BY <2>1, <2>2
<1>2. ASSUME NEW e \in 1..m, e - 1 \in T
      PROVE  e \in T
  <2>1. PICK g : g = [i \in 0..(e - 1) |-> IF i = 0 THEN s ELSE PlaceOrDrop(g[i - 1])]
      BY <1>2
  <2> DEFINE q == [i \in 0..e |-> IF i = e THEN PlaceOrDrop(g[e - 1]) ELSE g[i]]
             w == [i \in 0..e |-> IF i = 0 THEN s ELSE PlaceOrDrop(q[i - 1])]
  <2>2. ASSUME NEW i \in 0..e
        PROVE  q[i] = w[i]
    <3>1. CASE i = e
      <4>1. q[i - 1] = g[e - 1] /\ i # 0
          BY <3>1
      <4> QED BY <3>1, <4>1
    <3>2. CASE i # e
      <4>1. i \in 0..(e - 1) /\ q[i] = g[i]
          BY <3>2
      <4>2. i # 0 => q[i - 1] = g[i - 1]
          BY <4>1
      <4>3. g[i] = IF i = 0 THEN s ELSE PlaceOrDrop(g[i - 1])
          BY <2>1, <4>1
      <4> QED BY <4>1, <4>2, <4>3
    <3> QED BY <3>1, <3>2
  <2>3. q = w
      BY <2>2
  <2>4. q = [i \in 0..e |-> IF i = 0 THEN s ELSE PlaceOrDrop(q[i - 1])]
      BY <2>3
  <2> HIDE DEF q, w
  <2>5. e \in 0..m
      OBVIOUS
  <2> QED BY <2>4, <2>5
<1>3. \A e \in 0..m : e \in T
  <2> HIDE DEF T
  <2> QED BY <1>1, <1>2, CountUp
<1>4. m \in T
    BY <1>3
<1> QED BY <1>4 DEF IsTaking

(* The first n keys of a container differ, and are where they were.        *)
Differ(c, n) == \A i, j \in 1..n : c[i] = c[j] => i = j
KeepsPlaces(v, c, n) == n <= Len(v) /\ \A j \in 1..n : v[j] = c[j]

(* What replace() has done with the container c after i turns.             *)
Taken(h, c, bits, i, s) ==
    /\ s = [table |-> s.table, next |-> s.next]
    /\ s.next \in Nat \ {0}
    /\ (s.next - 1) + (Len(c) - Len(s.table.values)) = i
    /\ Len(s.table.values) <= Len(c)
    /\ IsFilled(h, s.table, s.next - 1)
    /\ s.table.bits = bits
    /\ Range(s.table.values) = Range(c)
    /\ \A n \in 1..Len(c) : Differ(c, n) => KeepsPlaces(s.table.values, c, n)

(* One more turn, which places a value or drops it.                        *)
LEMMA PlaceOrDropTakes ==
    ASSUME hash \in [Keys -> HashValues], NEW c \in Seq(Keys), NEW b \in InitialBits..MaxBits,
           Len(c) <= Load(b), NEW i \in 0..(Len(c) - 1), NEW s, Taken(hash, c, b, i, s)
    PROVE  Taken(hash, c, b, i + 1, PlaceOrDrop(s))
<1> DEFINE t == s.table
           v == t.values
           l == Len(v)
           m == s.next - 1
           k == v[s.next]
           d == Probe(t, k)
           r == PlaceOrDrop(s)
           z == Len(c)
<1>1. /\ s = [table |-> t, next |-> s.next] /\ s.next \in Nat \ {0}
      /\ m + (z - l) = i /\ l <= z
      /\ IsFilled(hash, t, m) /\ t.bits = b
      /\ Range(v) = Range(c)
      /\ \A n \in 1..z : Differ(c, n) => KeepsPlaces(v, c, n)
    BY DEF Taken
<1>2. /\ v \in Seq(Keys) /\ l \in Nat /\ IsRecord(t) /\ z \in Nat
      /\ \A x, y \in 1..m : v[x] = v[y] => x = y
  <2>1. IsFilled(hash, t, m)
      BY <1>1
  <2>2. /\ t.values \in Seq(Keys) /\ IsRecord(t)
        /\ \A x, y \in 1..m : t.values[x] = t.values[y] => x = y
    <3> HIDE DEF t, m
    <3> QED BY <2>1 DEF IsFilled
  <2> QED BY <2>2
<1>3. m \in Nat /\ m + 1 = s.next /\ m < l /\ s.next \in 1..l
  <2>1. i \in Nat /\ i < z
      BY <1>2
  <2> HIDE DEF t, l, z
  <2> QED BY <1>1, <1>2, <2>1
<1>4. k \in Keys
  <2> HIDE DEF t
  <2> QED BY <1>2, <1>3, ElementOfSeq
<1>5. CASE Matches(t, k, d)
  <2> DEFINE w == HoleFilled(v, s.next)
             u == [values |-> w, bits |-> t.bits, buckets |-> t.buckets]
  <2>1. r = [table |-> u, next |-> s.next]
    <3>1. r = [s EXCEPT !.table.values = w]
        BY <1>5 DEF PlaceOrDrop, HoleFilled
    <3>2. [s EXCEPT !.table.values = w] = [s EXCEPT !.table = [t EXCEPT !.values = w]]
        OBVIOUS
    <3>3. [t EXCEPT !.values = w] = u
      <4> HIDE DEF w
      <4> QED BY <1>2 DEF IsRecord
    <3> HIDE DEF w, u, r
    <3>4. [s EXCEPT !.table = u] = [table |-> u, next |-> s.next]
        BY <1>1
    <3> QED BY <3>1, <3>2, <3>3, <3>4
  <2>2. PICK q \in 1..m : v[q] = k
    <3> SUFFICES ASSUME \A x \in 1..m : v[x] # k PROVE FALSE
        OBVIOUS
    <3>1. ~Matches(t, k, Probe(t, k))
      <4> HIDE DEF t, k, m
      <4> QED BY <1>1, <1>4, ProbesMissOthers
    <3> QED BY <3>1, <1>5
  <2>3. q \in 1..(s.next - 1) /\ v[q] = v[s.next]
      BY <2>2
  <2>4. /\ w \in Seq(Keys) /\ Len(w) = l - 1
        /\ \A x \in 1..(l - 1) : w[x] = IF x = s.next THEN v[l] ELSE v[x]
    <3> HIDE DEF v
    <3> QED BY <1>2, <1>3, HoleFilledFacts
  <2>5. Range(w) = Range(v)
    <3> DEFINE p == s.next
    <3>1. v \in Seq(Keys) /\ p \in 1..Len(v) /\ q \in 1..(p - 1) /\ v[q] = v[p]
        BY <1>2, <1>3, <2>3
    <3>2. Range(HoleFilled(v, p)) = Range(v)
      <4> HIDE DEF v, p
      <4> QED BY <3>1, HoleFilledKeeps
    <3> QED BY <3>2
  <2> HIDE DEF w
  <2>6. \A x \in 1..m : w[x] = v[x]
    <3>1. \A x \in 1..m : x \in 1..(l - 1) /\ x # s.next
      <4>1. m \in Nat /\ m + 1 = s.next /\ m < l /\ l \in Nat
          BY <1>2, <1>3
      <4> HIDE DEF m, l
      <4> QED BY <4>1
    <3> HIDE DEF v, l
    <3> QED BY <3>1, <2>4
  <2>7. IsFilled(hash, u, m)
    <3>1. m <= Len(w)
      <4> HIDE DEF m, l, v, t
      <4> QED BY <1>2, <1>3, <2>4
    <3> HIDE DEF t, m
    <3> QED BY <1>1, <2>4, <2>6, <3>1, OtherValues
  <2>8. u.values = w /\ u.bits = b
      BY <1>1
  <2> HIDE DEF u, r
  <2>9. r.table = u /\ r.next = s.next
      BY <2>1
  <2>10. ASSUME NEW n \in 1..z, Differ(c, n)
         PROVE  KeepsPlaces(w, c, n)
    <3>1. n <= l /\ \A j \in 1..n : v[j] = c[j]
        BY <1>1, <2>10 DEF KeepsPlaces
    <3>2. n <= m
      <4> SUFFICES ASSUME ~(n <= m) PROVE FALSE
          OBVIOUS
      <4>1. s.next \in 1..n /\ q \in 1..n /\ q # s.next
          BY <1>2, <1>3
      <4>2. c[q] = c[s.next]
          BY <4>1, <3>1, <2>3
      <4> QED BY <4>1, <4>2, <2>10 DEF Differ
    <3>3. n <= Len(w) /\ \A j \in 1..n : j \in 1..m
        BY <3>2, <1>2, <1>3, <2>4
    <3>4. \A j \in 1..n : w[j] = c[j]
      <4> HIDE DEF v, m
      <4> QED BY <3>1, <3>3, <2>6
    <3> QED BY <3>3, <3>4 DEF KeepsPlaces
  <2>11. m + (z - Len(w)) = i + 1 /\ Len(w) <= z
    <3> HIDE DEF m, l, v, t, z
    <3> QED BY <1>1, <1>2, <1>3, <2>4
  <2>12. Range(w) = Range(c)
      BY <1>1, <2>5
  <2>13. r = [table |-> r.table, next |-> r.next]
      BY <2>1, <2>9
  <2> HIDE DEF v, t
  <2> QED BY <1>1, <2>7, <2>8, <2>9, <2>10, <2>11, <2>12, <2>13 DEF Taken, r
<1>6. CASE ~Matches(t, k, d)
  <2> DEFINE u == [t EXCEPT !.buckets = PlaceAndShiftUp(@,
                        [df |-> DF(k, d), idx |-> m], Slot(t, k, d))]
  <2>1. r = [table |-> u, next |-> s.next + 1]
      BY <1>6 DEF PlaceOrDrop
  <2>2. ASSUME NEW x \in 1..m, v[x] = k
        PROVE  FALSE
    <3>1. PICK e \in 0..(NumBuckets(t.bits) - 1) : LiesAt(t, x, e)
      <4> HIDE DEF m, t
      <4> QED BY <1>1, ValueLiesSomewhere
    <3>2. Probe(t, t.values[x]) = e
      <4> HIDE DEF m, t
      <4> QED BY <1>1, <3>1, ProbesFindValue
    <3>3. Matches(t, t.values[x], e)
      <4> HIDE DEF m, t
      <4> QED BY <1>1, <3>1, MatchesWhereItLies
    <3> QED BY <1>6, <2>2, <3>2, <3>3
  <2>3. \A x \in 1..m : t.values[x] # k
      BY <2>2
  <2>4. /\ d \in Distances(t) /\ DF(k, d) >= Bucket(t, k, d).df
        /\ \A e \in 0..(d - 1) : Bucket(t, k, e).df >= DF(k, e)
    <3> HIDE DEF m, t, k
    <3> QED BY <1>1, <1>4, <2>3, ProbesMissOthers
  <2>5. m < NumBuckets(t.bits)
    <3>1. Load(b) < NumBuckets(b) /\ Load(b) \in Nat /\ NumBuckets(b) \in Nat
        BY NumBucketsFacts
    <3>2. Len(c) <= Load(b) /\ z = Len(c)
        OBVIOUS
    <3> HIDE DEF t, l, z, m
    <3> QED BY <1>1, <1>2, <1>3, <3>1, <3>2
  <2>6. IsFilled(hash, u, m + 1) /\ u.values = v /\ u.bits = b
    <3>1. m < Len(t.values) /\ k = t.values[m + 1] /\ IsFilled(hash, t, m)
        BY <1>1, <1>3
    <3>2. IsFilled(hash, u, m + 1) /\ u.values = t.values /\ u.bits = t.bits
      <4> HIDE DEF m, t, k, d
      <4> QED BY <2>3, <2>4, <2>5, <3>1, PlacingFills
    <3> HIDE DEF u
    <3> QED BY <3>2, <1>1
  <2> HIDE DEF u, r
  <2>7. r.table = u /\ r.next = s.next + 1 /\ r = [table |-> r.table, next |-> r.next]
      BY <2>1
  <2>8. /\ (s.next + 1) - 1 = m + 1 /\ s.next + 1 \in Nat \ {0}
        /\ (m + 1) + (z - l) = i + 1
    <3>1. /\ m \in Nat /\ m + 1 = s.next /\ s.next \in Nat \ {0}
          /\ m + (z - l) = i /\ l \in Nat /\ z \in Nat
        BY <1>1, <1>2, <1>3
    <3> HIDE DEF m, l, z
    <3> QED BY <3>1
  <2> HIDE DEF v, t, m
  <2> QED BY <1>1, <2>6, <2>7, <2>8 DEF Taken, r
<1> QED BY <1>5, <1>6

(* replace() keeps one of each key of the container.                       *)
LEMMA ReplacedIsTable ==
    ASSUME hash \in [Keys -> HashValues], NEW t, IsTable(hash, t),
           NEW c \in Seq(Keys), CanHold(Len(c))
    PROVE  LET u == Replaced(t, c)
           IN  /\ IsTable(hash, u)
               /\ Range(u.values) = Range(c)
               /\ \A n \in 1..Len(c) : Differ(c, n) => KeepsPlaces(u.values, c, n)
<1> DEFINE z == Len(c)
           a == t.bits
           e == BitsFor(z)
           b == Max({a, e})
           s == [table |-> [values |-> c, bits |-> b, buckets |-> Cleared(b)], next |-> 1]
           f == CHOOSE g : g = [n \in 0..z |-> IF n = 0 THEN s ELSE PlaceOrDrop(g[n - 1])]
           T == {i \in 0..z : Taken(hash, c, b, i, f[i])}
<1>1. z \in Nat /\ a \in InitialBits..MaxBits /\ e \in InitialBits..MaxBits /\ Load(e) >= z
  <2>1. z \in Nat /\ CanHold(z) /\ a \in InitialBits..MaxBits
      BY TableFacts
  <2>2. e \in InitialBits..MaxBits /\ Load(e) >= z
    <3> HIDE DEF z
    <3> QED BY <2>1, BitsForFacts
  <2> QED BY <2>1, <2>2
<1>2. b \in InitialBits..MaxBits /\ z <= Load(b)
  <2>1. a \in Nat /\ e \in Nat
      BY <1>1, TableAssumption DEF InitialBits
  <2> HIDE DEF a, e
  <2>2. (b = a \/ b = e) /\ e <= b
    <3>1. \E x \in {a, e} : \A y \in {a, e} : x >= y
      <4>1. CASE a <= e
          BY <2>1, <4>1
      <4>2. CASE ~(a <= e)
          BY <2>1, <4>2
      <4> QED BY <4>1, <4>2
    <3> QED BY <3>1 DEF Max
  <2>3. b \in InitialBits..MaxBits
      BY <1>1, <2>2
  <2> HIDE DEF b
  <2>4. Load(e) <= Load(b)
      BY <1>1, <2>2, <2>3, MoreBuckets
  <2>5. Load(e) \in Nat /\ Load(b) \in Nat
      BY <1>1, <2>3, NumBucketsFacts
  <2> QED BY <1>1, <2>3, <2>4, <2>5
<1> HIDE DEF b
<1>3. Replaced(t, c) = f[z].table
    BY DEF Replaced, b
<1>4. f = [n \in 0..z |-> IF n = 0 THEN s ELSE PlaceOrDrop(f[n - 1])]
  <2>1. \E g : IsTaking(g, z, s)
    <3> HIDE DEF z, s
    <3> QED BY <1>1, TakingEnds
  <2> HIDE DEF z, s
  <2> QED BY <2>1 DEF IsTaking
<1> HIDE DEF f
<1>5. 0 \in T
  <2> DEFINE u == [values |-> c, bits |-> b, buckets |-> Cleared(b)]
  <2>1. IsFilled(hash, u, 0)
      BY <1>2, ClearedIsFilled
  <2>2. u.values = c /\ u.bits = b
      OBVIOUS
  <2>3. \A n \in 1..Len(c) : Differ(c, n) => KeepsPlaces(c, c, n)
    <3>1. \A n \in 1..z : n <= z
        BY <1>1
    <3> QED BY <3>1 DEF KeepsPlaces
  <2> HIDE DEF u
  <2>4. s.table = u /\ s.next = 1 /\ s = [table |-> s.table, next |-> s.next]
      BY DEF u
  <2> HIDE DEF s
  <2>5. s.next - 1 = 0 /\ z - z = 0 /\ s.next \in Nat \ {0} /\ z <= z
      BY <2>4, <1>1
  <2>6. Taken(hash, c, b, 0, s)
    <3>1. (s.next - 1) + (Len(c) - Len(s.table.values)) = 0
        BY <2>2, <2>4, <1>1
    <3> QED BY <2>1, <2>2, <2>3, <2>4, <2>5, <3>1 DEF Taken
  <2>7. f[0] = s /\ 0 \in 0..z
      BY <1>1, <1>4
  <2> HIDE DEF z
  <2> QED BY <2>6, <2>7
<1>6. ASSUME NEW n \in 1..z, n - 1 \in T
      PROVE  n \in T
  <2> DEFINE i == n - 1
             r == f[i]
  <2>1. i \in 0..(z - 1) /\ i + 1 = n /\ n # 0 /\ n \in 0..z
      BY <1>1
  <2>2. f[n] = PlaceOrDrop(r)
      BY <2>1, <1>4
  <2>3. Taken(hash, c, b, i, r)
      BY <1>6
  <2>4. Taken(hash, c, b, i + 1, PlaceOrDrop(r))
    <3> HIDE DEF i, r
    <3> QED BY <1>2, <2>1, <2>3, PlaceOrDropTakes
  <2> HIDE DEF i, r, z
  <2> QED BY <2>1, <2>2, <2>4
<1>7. \A n \in 0..z : n \in T
  <2> HIDE DEF T, z
  <2> QED BY <1>1, <1>5, <1>6, CountUp
<1>8. Taken(hash, c, b, z, f[z])
  <2>1. z \in T
      BY <1>1, <1>7
  <2> HIDE DEF z
  <2> QED BY <2>1
<1> DEFINE r == f[z]
           u == r.table
           m == r.next - 1
           l == Len(u.values)
<1>9. /\ r.next \in Nat \ {0} /\ m + (z - l) = z /\ l <= z /\ IsFilled(hash, u, m)
      /\ u.bits = b /\ Range(u.values) = Range(c)
      /\ \A n \in 1..z : Differ(c, n) => KeepsPlaces(u.values, c, n)
    BY <1>8 DEF Taken
<1> HIDE DEF r
<1>10. l \in Nat
    BY <1>9 DEF IsFilled
<1>11. m = l
  <2> HIDE DEF u, l, z
  <2> QED BY <1>1, <1>9, <1>10
<1>12. IsTable(hash, u)
  <2>1. Load(b) <= Capacity(b) /\ Load(b) \in Nat /\ Capacity(b) \in Nat
      BY <1>2, NumBucketsFacts
  <2>2. l <= Capacity(b)
    <3> HIDE DEF l, z, u
    <3> QED BY <1>1, <1>2, <1>9, <1>10, <2>1
  <2> HIDE DEF u, m
  <2> QED BY <1>9, <1>11, <2>2 DEF IsTable
<1> HIDE DEF u
<1> QED BY <1>3, <1>9, <1>12 DEF u, r
-----------------------------------------------------------------------------
(* The inductive invariant.                                                *)
TableInv == hash \in [Keys -> HashValues] /\ IsTable(hash, table)

(* It holds of the table that begins.                                      *)
LEMMA InitTable == Init => TableInv
<1> SUFFICES ASSUME Init PROVE TableInv
    OBVIOUS
<1>1. hash \in [Keys -> HashValues] /\ table = Fresh
    BY DEF Init
<1>2. IsTable(hash, Fresh)
    BY <1>1, FreshIsTable
<1> QED BY <1>1, <1>2 DEF TableInv

(* Every operation keeps it.                                               *)
LEMMA NextTable == TableInv /\ [Next]_vars => TableInv'
<1> SUFFICES ASSUME TableInv, [Next]_vars PROVE TableInv'
    OBVIOUS
<1>1. hash \in [Keys -> HashValues] /\ IsTable(hash, table)
    BY DEF TableInv
<1>2. ASSUME NEW u, IsTable(hash, u), table' = u, hash' = hash
      PROVE  TableInv'
    BY <1>1, <1>2 DEF TableInv
<1>3. ASSUME NEW k \in Keys, Emplace(k) PROVE TableInv'
  <2> DEFINE u == PlaceElement(table, k, Probe(table, k))
  <2>1. ~Matches(table, k, Probe(table, k)) /\ ~Overflows(table) /\ table' = u /\ hash' = hash
      BY <1>3 DEF Emplace
  <2>2. IsTable(hash, u)
      BY <1>1, <2>1, EmplaceIsTable
  <2> HIDE DEF u
  <2> QED BY <1>2, <2>1, <2>2
<1>4. ASSUME NEW k \in Keys, EraseKey(k) PROVE TableInv'
  <2> DEFINE u == EraseBucket(table, Slot(table, k, EraseProbe(table, k)))
  <2>1. /\ DF(k, EraseProbe(table, k)) = Bucket(table, k, EraseProbe(table, k)).df
        /\ table' = u /\ hash' = hash
      BY <1>4 DEF EraseKey
  <2>2. IsTable(hash, u)
      BY <1>1, <2>1, EraseKeyIsTable
  <2> HIDE DEF u
  <2> QED BY <1>2, <2>1, <2>2
<1>5. ASSUME NEW i \in 0..(Len(table.values) - 1), EraseIterator(i) PROVE TableInv'
  <2> DEFINE u == EraseAt(table, i)
  <2>1. table' = u /\ hash' = hash
      BY <1>5 DEF EraseIterator
  <2>2. IsTable(hash, u)
      BY <1>1, EraseAtIsTable
  <2> HIDE DEF u
  <2> QED BY <1>2, <2>1, <2>2
<1>6. ASSUME NEW last \in 0..Len(table.values), NEW first \in 0..last, EraseRange(first, last)
      PROVE  TableInv'
  <2> DEFINE u == RangeErased(table, first, last)
  <2>1. table' = u /\ hash' = hash
      BY <1>6 DEF EraseRange
  <2>2. IsTable(hash, u)
      BY <1>1, RangeErasedIsTable
  <2> HIDE DEF u
  <2> QED BY <1>2, <2>1, <2>2
<1>7. ASSUME NEW pred, EraseIf(pred) PROVE TableInv'
  <2> DEFINE u == ErasedIf(table, pred)
  <2>1. table' = u /\ hash' = hash
      BY <1>7 DEF EraseIf
  <2>2. IsTable(hash, u)
      BY <1>1, ErasedIfIsTable
  <2> HIDE DEF u
  <2> QED BY <1>2, <2>1, <2>2
<1>8. ASSUME NEW c \in Containers, Replace(c) PROVE TableInv'
  <2> DEFINE u == Replaced(table, c)
  <2>1. table' = u /\ hash' = hash /\ CanHold(Len(c)) /\ c \in Seq(Keys)
      BY <1>8, TableAssumption DEF Replace
  <2>2. IsTable(hash, u)
      BY <1>1, <2>1, ReplacedIsTable
  <2> HIDE DEF u
  <2> QED BY <1>2, <2>1, <2>2
<1>9. ASSUME Clear PROVE TableInv'
  <2> DEFINE u == [table EXCEPT !.values = <<>>, !.buckets = Cleared(table.bits)]
  <2>1. table' = u /\ hash' = hash
      BY <1>9 DEF Clear
  <2>2. IsTable(hash, u)
      BY <1>1, ClearIsTable
  <2> HIDE DEF u
  <2> QED BY <1>2, <2>1, <2>2
<1>10. ASSUME Copy \/ MovedFrom PROVE TableInv'
  <2>1. hash' = hash /\ (table' = table \/ table' = Fresh)
      BY <1>10 DEF Copy, MovedFrom
  <2>2. IsTable(hash, Fresh)
      BY <1>1, FreshIsTable
  <2> QED BY <1>1, <1>2, <2>1, <2>2
<1>11. ASSUME NEW count \in Counts, Rehash(count) \/ Reserve(count) PROVE TableInv'
  <2> DEFINE u == Rebuilt(table.values, BitsFor(Max({count, Len(table.values)})))
  <2>1. table' = u /\ hash' = hash /\ CanHold(Max({count, Len(table.values)})) /\ count \in Nat
      BY <1>11, TableAssumption DEF Rehash, Reserve
  <2>2. IsTable(hash, u)
      BY <1>1, <2>1, ResizingIsTable
  <2> HIDE DEF u
  <2> QED BY <1>2, <2>1, <2>2
<1>12. CASE UNCHANGED vars
    BY <1>1, <1>2, <1>12 DEF vars
<1> QED BY <1>3, <1>4, <1>5, <1>6, <1>7, <1>8, <1>9, <1>10, <1>11, <1>12 DEF Next

(* Between two operations every table is well formed: [the invariant]      *)
THEOREM TableIsWellFormed == Spec => []TableInv
<1> QED BY InitTable, NextTable, PTL DEF Spec

(* A value is found where it is, whatever the table has been through.      *)
LEMMA LookupIsExact ==
    ASSUME TableInv
    PROVE  LookupExact
<1> DEFINE t == table
           v == table.values
           l == Len(v)
<1>1. hash \in [Keys -> HashValues] /\ IsTable(hash, t)
    BY DEF TableInv
<1>2. v \in Seq(Keys) /\ l \in Nat /\ IsFilled(hash, t, l)
    BY <1>1, TableFacts
<1> SUFFICES ASSUME NEW k \in Keys
             PROVE  IF k \in Range(v) THEN Find(t, k) < End(t) /\ v[Find(t, k) + 1] = k
                                      ELSE Find(t, k) = End(t)
    BY DEF LookupExact
<1>3. ASSUME k \in Range(v) PROVE Find(t, k) < End(t) /\ v[Find(t, k) + 1] = k
  <2>1. PICK i \in 1..l : v[i] = k
      BY <1>2, <1>3 DEF Range
  <2>2. PICK d \in 0..(NumBuckets(t.bits) - 1) : LiesAt(t, i, d)
    <3> HIDE DEF l, t
    <3> QED BY <1>1, <1>2, ValueLiesSomewhere
  <2>3. Find(t, t.values[i]) = i - 1
    <3> HIDE DEF l, t
    <3> QED BY <1>1, <1>2, <2>2, ProbesFindValue
  <2>4. Find(t, k) = i - 1
      BY <2>1, <2>3
  <2> QED BY <2>1, <2>4, <1>2 DEF End
<1>4. ASSUME k \notin Range(v) PROVE Find(t, k) = End(t)
  <2>1. \A i \in 1..l : t.values[i] # k
      BY <1>2, <1>4 DEF Range
  <2> HIDE DEF l, t
  <2> QED BY <1>1, <1>2, <2>1, ProbesMissOthers
<1> QED BY <1>3, <1>4

(* Insertion, erasure and lookup find a value at the same bucket, and no   *)
(* other key at any.                                                       *)
LEMMA LoopsDoAgree ==
    ASSUME TableInv
    PROVE  LoopsAgree
<1> DEFINE t == table
           v == table.values
           l == Len(v)
<1>1. hash \in [Keys -> HashValues] /\ IsTable(hash, t)
    BY DEF TableInv
<1>2. v \in Seq(Keys) /\ l \in Nat /\ IsFilled(hash, t, l)
    BY <1>1, TableFacts
<1> SUFFICES ASSUME NEW k \in Keys
             PROVE  LET i == Probe(t, k)
                        e == EraseProbe(t, k)
                        erases == v # <<>> /\ DF(k, e) = Bucket(t, k, e).df
                    IN  /\ Matches(t, k, i) <=> Find(t, k) # End(t)
                        /\ erases <=> Find(t, k) # End(t)
                        /\ erases => e = i
    BY DEF LoopsAgree
<1>3. CASE k \in Range(v)
  <2>1. PICK i \in 1..l : v[i] = k
      BY <1>2, <1>3 DEF Range
  <2>2. PICK d \in 0..(NumBuckets(t.bits) - 1) : LiesAt(t, i, d)
    <3> HIDE DEF l, t
    <3> QED BY <1>1, <1>2, ValueLiesSomewhere
  <2>3. Probe(t, k) = d /\ EraseProbe(t, k) = d /\ Find(t, k) = i - 1
    <3>1. Probe(t, t.values[i]) = d /\ EraseProbe(t, t.values[i]) = d /\ Find(t, t.values[i]) = i - 1
      <4> HIDE DEF l, t
      <4> QED BY <1>1, <1>2, <2>2, ProbesFindValue
    <3> QED BY <2>1, <3>1
  <2>4. Matches(t, k, d)
    <3>1. Matches(t, t.values[i], d)
      <4> HIDE DEF l, t
      <4> QED BY <1>1, <1>2, <2>2, MatchesWhereItLies
    <3> QED BY <2>1, <3>1
  <2>5. DF(k, d) = Bucket(t, k, d).df
      BY <2>4 DEF Matches
  <2>6. i - 1 # End(t) /\ v # <<>>
      BY <1>2, <2>1 DEF End
  <2> HIDE DEF t
  <2> QED BY <2>3, <2>4, <2>5, <2>6
<1>4. CASE k \notin Range(v)
  <2>1. \A i \in 1..l : t.values[i] # k
      BY <1>2, <1>4 DEF Range
  <2>2. /\ ~Matches(t, k, Probe(t, k)) /\ Find(t, k) = End(t)
        /\ DF(k, EraseProbe(t, k)) # Bucket(t, k, EraseProbe(t, k)).df
    <3> HIDE DEF l, t
    <3> QED BY <1>1, <1>2, <2>1, ProbesMissOthers
  <2> HIDE DEF t
  <2> QED BY <2>2
<1> QED BY <1>3, <1>4

(* The buckets in use and the indices they hold.                           *)
LEMMA UsedFacts ==
    ASSUME TableInv
    PROVE  /\ Used = {s \in 0..(NumBuckets(table.bits) - 1) : table.buckets[s].df # 0}
           /\ IndexIsBijective
<1> DEFINE t == table
           l == Len(t.values)
           n == NumBuckets(t.bits)
           B == t.buckets
           U == {s \in 0..(n - 1) : B[s].df # 0}
           I == 0..(l - 1)
           f == [s \in U |-> B[s].idx]
           home == Homes(hash, t.values, t.bits)
           mark == Marks(hash, t.values)
<1>1. l \in Nat /\ IsFilled(hash, t, l)
    BY TableFacts DEF TableInv
<1>2. IsRing(n, B, I, home, mark)
    BY <1>1 DEF IsFilled
<1> HIDE DEF home, mark
<1>3. /\ n \in Nat /\ B \in Rings(n) /\ EmptyIsEmpty(n, B) /\ Known(n, B, I) /\ Once(n, B)
      /\ AsFarAsItSays(n, B, I, home, mark)
    BY <1>2 DEF IsRing
<1>4. Used = U
  <2>1. DOMAIN B = 0..(n - 1)
      BY <1>3 DEF Rings
  <2>2. \A s \in 0..(n - 1) : B[s] # Empty <=> B[s].df # 0
      BY <1>3 DEF EmptyIsEmpty, Empty
  <2> HIDE DEF n
  <2> QED BY <2>1, <2>2 DEF Used
<1>5. f \in [U -> I]
    BY <1>3 DEF AsFarAsItSays
<1>6. \A s, x \in U : f[s] = f[x] => s = x
    BY <1>3 DEF Once
<1>7. \A i \in I : \E s \in U : f[s] = i
    BY <1>3 DEF Known
<1>8. {B[s].idx : s \in U} = I
  <2>1. \A s \in U : f[s] = B[s].idx /\ f[s] \in I
      BY <1>5
  <2> HIDE DEF f, U, I, B
  <2> QED BY <1>7, <2>1
<1> HIDE DEF f, U
<1>9. IsFiniteSet(I) /\ Cardinality(I) = l
  <2>1. 0 \in Int /\ l - 1 \in Int
      BY <1>1
  <2>2. /\ IsFiniteSet(0..(l - 1))
        /\ Cardinality(0..(l - 1)) = IF 0 > l - 1 THEN 0 ELSE (l - 1) - 0 + 1
      BY <2>1, FS_Interval
  <2> HIDE DEF l
  <2> QED BY <1>1, <2>2
<1>10. f \in Injection(U, I) /\ f \in Surjection(U, I)
    BY <1>5, <1>6, <1>7 DEF Injection, Surjection, IsInjective
<1>11. Cardinality(U) = l
  <2> HIDE DEF I
  <2>1. Cardinality(U) = Cardinality(I)
      BY <1>9, <1>10, FS_Injection
  <2> QED BY <1>9, <2>1
<1> QED BY <1>4, <1>8, <1>11 DEF IndexIsBijective, U

(* The order that the early exits of probing need.                         *)
LEMMA OrderIsKept ==
    ASSUME TableInv
    PROVE  RobinHoodOrder
<1> DEFINE t == table
           l == Len(t.values)
           n == NumBuckets(t.bits)
           B == t.buckets
           I == 0..(l - 1)
           home == Homes(hash, t.values, t.bits)
           mark == Marks(hash, t.values)
<1>1. l \in Nat /\ IsFilled(hash, t, l) /\ hash \in [Keys -> HashValues]
    BY TableFacts DEF TableInv
<1>2. n \in Nat /\ Ordered(n, B) /\ AsFarAsItSays(n, B, I, home, mark)
    BY <1>1 DEF IsRing, IsFilled
<1> SUFFICES ASSUME NEW s \in Used
             PROVE  LET b == B[s]
                        k == t.values[b.idx + 1]
                        before == B[(s + n - 1) % n]
                    IN  /\ \E d \in Distances(t) : s = Slot(t, k, d) /\ b.df = DF(k, d)
                        /\ b.df >= 2 * Fingerprints => before.df + Fingerprints >= b.df
    BY DEF RobinHoodOrder
<1> DEFINE b == B[s]
           i == b.idx
           k == t.values[i + 1]
<1>3. s \in 0..(n - 1) /\ b.df # 0
    BY UsedFacts
<1>4. b.df >= 2 * Fingerprints => B[(s + n - 1) % n].df + Fingerprints >= b.df
    BY <1>2, <1>3 DEF Ordered, Before
<1>5. i \in I /\ FromHome(n, b, s, home, mark)
  <2> HIDE DEF n, B, I, home, mark
  <2> QED BY <1>2, <1>3 DEF AsFarAsItSays
<1>6. PICK d \in 0..(n - 1) : s = Ahead(home[i], d, n) /\ b.df = Level(d, mark[i])
    BY <1>5 DEF FromHome
<1>7. home[i] = Home(k, t.bits) /\ mark[i] = hash[k] % Fingerprints
  <2>1. i \in 0..(Len(t.values) - 1)
      BY <1>5
  <2> HIDE DEF i
  <2> QED BY <2>1 DEF Homes, Marks, Home
<1>8. s = Slot(t, k, d) /\ b.df = DF(k, d)
  <2>1. /\ Slot(t, k, d) = Ahead(Home(k, t.bits), d, n)
        /\ DF(k, d) = Level(d, hash[k] % Fingerprints)
      BY SlotAndLevel
  <2> HIDE DEF b, k, home, mark, n, i
  <2> QED BY <2>1, <1>6, <1>7
<1>9. d \in Distances(t)
    BY <1>2 DEF Distances
<1> HIDE DEF k
<1> QED BY <1>4, <1>8, <1>9 DEF k

(* Where no two of the first n keys are equal.                             *)
LEMMA ListIsInjective ==
    ASSUME NEW S, NEW v \in Seq(S)
    PROVE  IsInjective(v) <=> \A i, j \in 1..Len(v) : v[i] = v[j] => i = j
BY DEF IsInjective

(* Operations on many keys do just what they should to the keys.           *)
LEMMA BulkIsExact ==
    ASSUME TableInv
    PROVE  BulkOperationsExact
<1> DEFINE v == table.values
<1>1. hash \in [Keys -> HashValues] /\ IsTable(hash, table)
    BY DEF TableInv
<1>2. ASSUME NEW last \in 0..Len(v), NEW first \in 0..last
      PROVE  Range(RangeErased(table, first, last).values) =
                 Range(v) \ {v[i] : i \in (first + 1)..last}
    BY <1>1, RangeErasedIsTable
<1>3. ASSUME NEW pred
      PROVE  Range(ErasedIf(table, pred).values) = Range(v) \ pred
    BY <1>1, ErasedIfIsTable
<1>4. ASSUME NEW c \in Containers, CanHold(Len(c))
      PROVE  /\ Range(Replaced(table, c).values) = Range(c)
             /\ IsInjective(Replaced(table, c).values)
  <2> DEFINE u == Replaced(table, c)
  <2>1. c \in Seq(Keys)
      BY TableAssumption
  <2>2. IsTable(hash, u) /\ Range(u.values) = Range(c)
      BY <1>1, <1>4, <2>1, ReplacedIsTable
  <2> HIDE DEF u
  <2>3. u.values \in Seq(Keys) /\ \A i, j \in 1..Len(u.values) : u.values[i] = u.values[j] => i = j
      BY <2>2, TableFacts
  <2>4. IsInjective(u.values)
      BY <2>3, ListIsInjective
  <2> QED BY <2>2, <2>4 DEF u
<1> QED BY <1>2, <1>3, <1>4 DEF BulkOperationsExact

(* Where all buckets are used the next key is not placed among them.       *)
LEMMA InsertionDoesEnd ==
    ASSUME TableInv
    PROVE  InsertionEnds
<1> DEFINE l == Len(table.values)
           n == NumBuckets(table.bits)
           c == Capacity(table.bits)
<1>1. Cardinality(Used) = l
    BY UsedFacts DEF IndexIsBijective
<1>2. l \in Nat /\ l <= c /\ table.bits \in InitialBits..MaxBits
    BY TableFacts DEF TableInv
<1>3. n \in Nat /\ c \in Nat /\ c <= n
    BY <1>2, NumBucketsFacts
<1>4. l < n \/ l + 1 > c
  <2> HIDE DEF l, n, c
  <2> QED BY <1>2, <1>3
<1> QED BY <1>1, <1>4 DEF InsertionEnds

(* The values of a table are a list, and not too long.                     *)
LEMMA TableIsList ==
    ASSUME NEW h, NEW t, IsTable(h, t)
    PROVE  /\ Range(t.values) \subseteq Keys /\ IsInjective(t.values)
           /\ Len(t.values) <= 2 ^ MaxBits
<1> DEFINE v == t.values
           l == Len(v)
           b == t.bits
<1>1. /\ v \in Seq(Keys) /\ l \in Nat /\ b \in InitialBits..MaxBits /\ l <= Capacity(b)
      /\ \A i, j \in 1..l : v[i] = v[j] => i = j
    BY TableFacts
<1>2. Range(v) \subseteq Keys
    BY <1>1 DEF Range
<1>3. IsInjective(v)
    BY <1>1, ListIsInjective
<1> HIDE DEF b, v
<1>4. Capacity(b) \in Nat /\ Capacity(b) <= NumBuckets(b) /\ NumBuckets(b) \in Nat
    BY <1>1, NumBucketsFacts
<1>5. MaxBits \in InitialBits..MaxBits /\ b <= MaxBits
    BY <1>1, TableAssumption DEF InitialBits
<1>6. NumBuckets(b) <= NumBuckets(MaxBits) /\ NumBuckets(MaxBits) \in Nat
    BY <1>1, <1>5, MoreBuckets, NumBucketsFacts
<1>7. NumBuckets(MaxBits) = 2 ^ MaxBits
    BY DEF NumBuckets
<1>8. l <= 2 ^ MaxBits
  <2> DEFINE z == 2 ^ MaxBits
  <2>1. NumBuckets(MaxBits) = z
      BY <1>7
  <2> HIDE DEF z, l
  <2>2. l <= z
      BY <2>1, <1>1, <1>4, <1>6
  <2> QED BY <2>2 DEF z
<1> QED BY <1>2, <1>3, <1>8 DEF v

(* Some values of a list are none, one or more.                            *)
LEMMA NoneOneOrMore ==
    ASSUME NEW S, NEW v \in Seq(S), NEW G \in SUBSET Range(v)
    PROVE  \/ G = {}
           \/ \E q \in 1..Len(v) : G = {v[q]}
           \/ Cardinality(G) > 1
<1> DEFINE I == 1..Len(v)
           f == [i \in I |-> v[i]]
<1>1. Range(v) = {v[i] : i \in I}
    BY DEF Range
<1>2. IsFiniteSet(G)
  <2>1. IsFiniteSet(I)
    <3>1. 1 \in Int /\ Len(v) \in Int
        OBVIOUS
    <3> QED BY <3>1, FS_Interval
  <2>2. f \in Surjection(I, Range(v))
      BY <1>1 DEF Surjection
  <2>3. IsFiniteSet(Range(v))
    <3> HIDE DEF f, I
    <3> QED BY <2>1, <2>2, FS_Surjection
  <2> QED BY <2>3, FS_Subset
<1>3. Cardinality(G) \in Nat
    BY <1>2, FS_CardinalityType
<1>4. ASSUME Cardinality(G) = 0 PROVE G = {}
    BY <1>2, <1>4, FS_EmptySet
<1>5. ASSUME Cardinality(G) = 1 PROVE \E q \in 1..Len(v) : G = {v[q]}
  <2>1. PICK x : G = {x}
      BY <1>2, <1>5, FS_Singleton
  <2>2. x \in Range(v)
      BY <2>1
  <2> QED BY <1>1, <2>1, <2>2
<1>6. Cardinality(G) = 0 \/ Cardinality(G) = 1 \/ Cardinality(G) > 1
    BY <1>3
<1> QED BY <1>4, <1>5, <1>6

(* A prefix without duplicates.                                            *)
LEMMA PrefixDiffers ==
    ASSUME NEW S, NEW c \in Seq(S), NEW n \in 1..Len(c), IsInjective(SubSeq(c, 1, n))
    PROVE  Differ(c, n)
<1> DEFINE s == SubSeq(c, 1, n)
<1>1. n \in Nat /\ n <= Len(c) /\ n >= 1
    OBVIOUS
<1>2. \A i \in 1..n : c[i] \in S
    BY <1>1, ElementOfSeq
<1>3. s \in Seq(S) /\ Len(s) = n /\ \A i \in 1..n : s[i] = c[i]
    BY <1>1, <1>2, SubSeqProperties
<1>4. IsInjective(s)
    OBVIOUS
<1> HIDE DEF s
<1>5. \A i, j \in 1..n : s[i] = s[j] => i = j
    BY <1>3, <1>4, ListIsInjective
<1> QED BY <1>3, <1>5 DEF Differ

(* DenseSet means the same operators on sequences and sets.                *)
LEMMA SameOperators ==
    /\ \A s : Promise!Range(s) = Range(s)
    /\ \A s : Promise!IsInjective(s) = IsInjective(s)
    /\ \A s, i : Promise!Front(Promise!ReplaceAt(s, i, Promise!Last(s))) = HoleFilled(s, i)
    /\ \A S : Promise!Cardinality(S) = Cardinality(S)
<1>1. \A s : Promise!Range(s) = Range(s)
    BY DEF Range, Promise!Range
<1>2. \A s : Promise!IsInjective(s) = IsInjective(s)
    BY DEF IsInjective, Promise!IsInjective
<1>3. \A s, i : Promise!Front(Promise!ReplaceAt(s, i, Promise!Last(s))) = HoleFilled(s, i)
    BY DEF HoleFilled, Front, ReplaceAt, Last, Promise!Front, Promise!ReplaceAt, Promise!Last
<1>4. \A S : Promise!Cardinality(S) = Cardinality(S)
    BY DEF Cardinality, Promise!Cardinality
<1> QED BY <1>1, <1>2, <1>3, <1>4

(* Every step of the table is one of the list.                             *)
LEMMA InitIsList == Init => Promise!Init
<1> SUFFICES ASSUME Init PROVE Promise!Init
    OBVIOUS
<1>1. hash \in [Keys -> HashValues] /\ table = Fresh
    BY DEF Init
<1>2. Fresh.values = <<>>
    BY <1>1, FreshIsTable
<1> QED BY <1>1, <1>2 DEF Promise!Init

(* And every operation, whether it changes the list or just the buckets.   *)
LEMMA NextIsOfList == TableInv /\ [Next]_vars => [Promise!Next]_(table.values)
<1> SUFFICES ASSUME TableInv, [Next]_vars PROVE [Promise!Next]_(table.values)
    OBVIOUS
<1> DEFINE v == table.values
           l == Len(v)
<1>1. hash \in [Keys -> HashValues] /\ IsTable(hash, table)
    BY DEF TableInv
<1>2. /\ v \in Seq(Keys) /\ l \in Nat
      /\ \A i, j \in 1..l : v[i] = v[j] => i = j
    BY <1>1, TableFacts
<1>3. DOMAIN v = 1..l
    BY <1>2
<1>4. ASSUME NEW k \in Keys, Emplace(k) PROVE Promise!Next
  <2> DEFINE u == PlaceElement(table, k, Probe(table, k))
  <2>1. ~Matches(table, k, Probe(table, k)) /\ ~Overflows(table) /\ table' = u
      BY <1>4 DEF Emplace
  <2>2. IsTable(hash, u) /\ u.values = Append(v, k) /\ k \notin Range(v)
      BY <1>1, <2>1, EmplaceIsTable
  <2> HIDE DEF u
  <2>3. Len(Append(v, k)) <= 2 ^ MaxBits
      BY <2>2, TableIsList
  <2>4. Len(Append(v, k)) = l + 1
      BY <1>2
  <2>5. l < 2 ^ MaxBits
    <3> DEFINE z == 2 ^ MaxBits
    <3>1. l + 1 <= z /\ z \in Nat
      <4>1. MaxBits \in Nat
          BY TableAssumption
      <4>2. z \in Nat
          BY <4>1, PowerIsNat
      <4>3. l + 1 <= z
          BY <2>3, <2>4
      <4> QED BY <4>2, <4>3
    <3> HIDE DEF z, l
    <3>2. l < z
        BY <1>2, <3>1
    <3> QED BY <3>2 DEF z
  <2>6. Promise!Insert(k)
      BY <2>1, <2>2, <2>5, SameOperators DEF Promise!Insert
  <2> QED BY <2>6 DEF Promise!Next
<1>5. ASSUME NEW q \in 1..l, table'.values = HoleFilled(v, q) PROVE Promise!Next
  <2>1. Promise!Erase(q)
      BY <1>5, SameOperators DEF Promise!Erase
  <2> QED BY <1>3, <2>1 DEF Promise!Next
<1>6. ASSUME NEW u, IsTable(hash, u), table' = u, NEW G \in SUBSET Range(v),
             Cardinality(G) > 1, Range(u.values) = Range(v) \ G
      PROVE  Promise!Next
  <2>1. Range(u.values) \subseteq Keys /\ IsInjective(u.values) /\ Len(u.values) <= 2 ^ MaxBits
      BY <1>6, TableIsList
  <2>2. Promise!EraseAll(G)
      BY <1>6, <2>1, SameOperators DEF Promise!EraseAll, Promise!IsList
  <2>3. G \in SUBSET Promise!Range(v)
      BY SameOperators
  <2> QED BY <2>2, <2>3 DEF Promise!Next
<1>7. ASSUME NEW k \in Keys, EraseKey(k) PROVE Promise!Next
  <2> DEFINE u == EraseBucket(table, Slot(table, k, EraseProbe(table, k)))
  <2>1. /\ DF(k, EraseProbe(table, k)) = Bucket(table, k, EraseProbe(table, k)).df
        /\ table' = u
      BY <1>7 DEF EraseKey
  <2>2. \E q \in 1..l : u.values = HoleFilled(v, q)
      BY <1>1, <2>1, EraseKeyIsTable
  <2> HIDE DEF u
  <2> QED BY <1>5, <2>1, <2>2
<1>8. ASSUME NEW i \in 0..(l - 1), EraseIterator(i) PROVE Promise!Next
  <2>1. table' = EraseAt(table, i)
      BY <1>8 DEF EraseIterator
  <2>2. EraseAt(table, i).values = HoleFilled(v, i + 1)
      BY <1>1, EraseAtIsTable
  <2>3. i + 1 \in 1..l
      BY <1>2
  <2> HIDE DEF l
  <2> QED BY <1>5, <2>1, <2>2, <2>3
<1>9. ASSUME NEW last \in 0..l, NEW first \in 0..last, EraseRange(first, last)
      PROVE  [Promise!Next]_(table.values)
  <2> DEFINE u == RangeErased(table, first, last)
             G == {v[i] : i \in (first + 1)..last}
  <2>1. table' = u
      BY <1>9 DEF EraseRange
  <2>2. /\ IsTable(hash, u) /\ Range(u.values) = Range(v) \ G
        /\ first = last => u = table
        /\ last = first + 1 => u.values = HoleFilled(v, last)
      BY <1>1, RangeErasedIsTable
  <2>3. last \in Nat /\ first \in Nat /\ \A i \in (first + 1)..last : i \in 1..l
      BY <1>2
  <2>4. G \in SUBSET Range(v)
      BY <1>3, <2>3 DEF Range
  <2>5. \/ G = {}
        \/ \E q \in 1..l : G = {v[q]}
        \/ Cardinality(G) > 1
    <3> HIDE DEF G
    <3> QED BY <1>2, <2>4, NoneOneOrMore
  <2> HIDE DEF u
  <2>6. CASE G = {}
    <3>1. first = last
      <4> SUFFICES ASSUME first # last PROVE FALSE
          OBVIOUS
      <4>1. last \in (first + 1)..last
          BY <2>3
      <4> QED BY <4>1, <2>6
    <3> QED BY <3>1, <2>1, <2>2
  <2>7. ASSUME NEW q \in 1..l, G = {v[q]} PROVE Promise!Next
    <3>1. \A i \in (first + 1)..last : i = q
        BY <2>7, <2>3, <1>2
    <3>2. first # last
      <4> SUFFICES ASSUME first = last PROVE FALSE
          OBVIOUS
      <4>1. \A i \in (first + 1)..last : FALSE
          BY <2>3
      <4>2. G = {}
          BY <4>1
      <4> QED BY <4>2, <2>7
    <3>3. last = first + 1
      <4>1. first + 1 \in (first + 1)..last /\ last \in (first + 1)..last
          BY <2>3, <3>2
      <4> QED BY <4>1, <3>1, <2>3
    <3>4. last \in 1..l /\ u.values = HoleFilled(v, last)
        BY <3>3, <2>2, <2>3
    <3> QED BY <3>4, <2>1, <1>5
  <2>8. CASE Cardinality(G) > 1
    <3> HIDE DEF G
    <3> QED BY <2>1, <2>2, <2>4, <2>8, <1>6
  <2> QED BY <2>5, <2>6, <2>7, <2>8
<1>10. ASSUME NEW pred \in SUBSET Range(v), EraseIf(pred) PROVE [Promise!Next]_(table.values)
  <2> DEFINE u == ErasedIf(table, pred)
  <2>1. table' = u
      BY <1>10 DEF EraseIf
  <2>2. /\ IsTable(hash, u) /\ Range(u.values) = Range(v) \ pred
        /\ pred = {} => u = table
        /\ \A q \in 1..l : pred = {v[q]} => u.values = HoleFilled(v, q)
      BY <1>1, ErasedIfIsTable
  <2>3. \/ pred = {}
        \/ \E q \in 1..l : pred = {v[q]}
        \/ Cardinality(pred) > 1
      BY <1>2, NoneOneOrMore
  <2> HIDE DEF u
  <2>4. CASE pred = {}
      BY <2>1, <2>2, <2>4
  <2>5. ASSUME NEW q \in 1..l, pred = {v[q]} PROVE Promise!Next
      BY <2>1, <2>2, <2>5, <1>5
  <2>6. CASE Cardinality(pred) > 1
      BY <2>1, <2>2, <2>6, <1>6
  <2> QED BY <2>3, <2>4, <2>5, <2>6
<1>11. ASSUME NEW c \in Containers, Replace(c) PROVE Promise!Next
  <2> DEFINE u == Replaced(table, c)
  <2>1. table' = u /\ CanHold(Len(c)) /\ c \in Seq(Keys)
      BY <1>11, TableAssumption DEF Replace
  <2>2. /\ IsTable(hash, u) /\ Range(u.values) = Range(c)
        /\ \A n \in 1..Len(c) : Differ(c, n) => KeepsPlaces(u.values, c, n)
      BY <1>1, <2>1, ReplacedIsTable
  <2> HIDE DEF u
  <2>3. Range(u.values) \subseteq Keys /\ IsInjective(u.values) /\ Len(u.values) <= 2 ^ MaxBits
      BY <2>2, TableIsList
  <2>4. ASSUME NEW n \in DOMAIN c, IsInjective(SubSeq(c, 1, n))
        PROVE  u.values[n] = c[n]
    <3>1. n \in 1..Len(c) /\ n \in 1..n
        BY <2>1
    <3>2. Differ(c, n)
        BY <2>1, <2>4, <3>1, PrefixDiffers
    <3> QED BY <2>2, <3>1, <3>2 DEF KeepsPlaces
  <2>5. Promise!Assign(c)
      BY <2>1, <2>2, <2>3, <2>4, SameOperators DEF Promise!Assign, Promise!IsList
  <2> QED BY <2>5 DEF Promise!Next
<1>12. ASSUME Clear \/ MovedFrom PROVE Promise!Next
  <2>1. table'.values = <<>>
    <3>1. CASE Clear
      <4> DEFINE u == [table EXCEPT !.values = <<>>, !.buckets = Cleared(table.bits)]
      <4>1. table' = u
          BY <3>1 DEF Clear
      <4>2. u.values = <<>>
          BY <1>1, ClearIsTable
      <4> HIDE DEF u
      <4> QED BY <4>1, <4>2
    <3>2. CASE MovedFrom
      <4>1. table' = Fresh
          BY <3>2 DEF MovedFrom
      <4>2. Fresh.values = <<>>
          BY <1>1, FreshIsTable
      <4> QED BY <4>1, <4>2
    <3> QED BY <1>12, <3>1, <3>2
  <2> QED BY <2>1 DEF Promise!Next, Promise!Clear
<1>13. ASSUME Copy PROVE table'.values = table.values
  <2>1. Fresh.values = <<>>
      BY <1>1, FreshIsTable
  <2> QED BY <1>13, <2>1 DEF Copy
<1>14. ASSUME NEW count \in Counts, Rehash(count) \/ Reserve(count)
       PROVE  table'.values = table.values
  <2> DEFINE u == Rebuilt(table.values, BitsFor(Max({count, Len(table.values)})))
  <2>1. table' = u /\ CanHold(Max({count, Len(table.values)})) /\ count \in Nat
      BY <1>14, TableAssumption DEF Rehash, Reserve
  <2>2. u.values = table.values
      BY <1>1, <2>1, ResizingIsTable
  <2> HIDE DEF u
  <2> QED BY <2>1, <2>2
<1>15. CASE UNCHANGED vars
    BY <1>15 DEF vars
<1> QED BY <1>4, <1>7, <1>8, <1>9, <1>10, <1>11, <1>12, <1>13, <1>14, <1>15 DEF Next

(* find returns the index of a key that is in the table, and end() for any *)
(* other, after any sequence of operations.                                *)
THEOREM TableFindsItsKeys == Spec => []LookupExact
<1>1. TableInv => LookupExact
    BY LookupIsExact
<1> QED BY <1>1, TableIsWellFormed, PTL

(* The loops of insertion, of erasure and of lookup, which stop by         *)
(* different rules, come to the same bucket.                               *)
THEOREM TableLoopsAgree == Spec => []LoopsAgree
<1>1. TableInv => LoopsAgree
    BY LoopsDoAgree
<1> QED BY <1>1, TableIsWellFormed, PTL

(* Every value has one bucket in use, and every bucket in use one value:   *)
(* no operation loses, doubles or confuses an index.                       *)
THEOREM TableIndexIsBijective == Spec => []IndexIsBijective
<1>1. TableInv => IndexIsBijective
    BY UsedFacts
<1> QED BY <1>1, TableIsWellFormed, PTL

(* Buckets are as far from home as they say and in Robin Hood order, on    *)
(* which the early end of all loops depends.                               *)
THEOREM TableKeepsRobinHoodOrder == Spec => []RobinHoodOrder
<1>1. TableInv => RobinHoodOrder
    BY OrderIsKept
<1> QED BY <1>1, TableIsWellFormed, PTL

(* Erasing a range, erasing by a predicate and replacing all values leave  *)
(* exactly the keys that they should.                                      *)
THEOREM TableBulkIsExact == Spec => []BulkOperationsExact
<1>1. TableInv => BulkOperationsExact
    BY BulkIsExact
<1> QED BY <1>1, TableIsWellFormed, PTL

(* The loops of an insertion end, also where all buckets are in use.       *)
THEOREM TableInsertionEnds == Spec => []InsertionEnds
<1>1. TableInv => InsertionEnds
    BY InsertionDoesEnd
<1> QED BY <1>1, TableIsWellFormed, PTL

(* Whatever happens to the buckets, the table is a list of distinct keys:  *)
(* every operation is one that DenseSet allows, or leaves the list as it   *)
(* is.                                                                     *)
THEOREM TableImplementsDenseSet == Spec => IsDenseSet
<1> QED BY TableIsWellFormed, InitIsList, NextIsOfList, PTL
    DEF Spec, IsDenseSet, Promise!Spec
=============================================================================
