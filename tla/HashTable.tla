----------------------------- MODULE HashTable -----------------------------
(***************************************************************************)
(* ankerl::unordered_dense::detail::table, the container behind the        *)
(* netlist analysis, the search's visited set and g_explored_successors.   *)
(*                                                                         *)
(* The keys lie in the sequence values, without holes.  A bucket           *)
(* [df, idx] refers to values by index (from 0) and holds the distance     *)
(* from the key's home bucket, starting with 1, and some bits of its hash  *)
(* in one number df, as m_dist_and_fingerprint does.  An empty bucket has  *)
(* df = 0 and, like the memset of the code, idx = 0.  Buckets wrap around. *)
(* The code has 24 bits for the distance, which is at most the number of   *)
(* buckets: it does not overflow in tables of up to 2^23 of them.  Here    *)
(* the distance has no bound.                                              *)
(*                                                                         *)
(* The code's loops over buckets are stated as the least distance at which *)
(* they stop; where there is none the loop would not end.                  *)
(*                                                                         *)
(* The mapped value of a map moves with its key and is left out.  The load *)
(* factor keeps its default.  m_max_bucket_capacity, which is set whenever *)
(* buckets are allocated, is Capacity.                                     *)
(***************************************************************************)
EXTENDS Naturals, Sequences, SequencesExt

CONSTANTS
    Keys,           \* keys (numbers, for an order among them)
    HashValues,     \* the hash values they may have
    WordBits,       \* width of a hash value: 64
    Fingerprints,   \* Bucket::dist_inc, the number of fingerprints: 2^8
    MaxBits,        \* max_bucket_count() is 2^MaxBits: 2^32
    Counts,         \* arguments of reserve and rehash
    Containers      \* arguments of replace, sequences of keys

ASSUME TableAssumption ==
    /\ Keys \subseteq Nat
    /\ WordBits \in Nat /\ MaxBits \in 2..(WordBits - 1)
    /\ Fingerprints \in Nat \ {0}
    /\ HashValues \subseteq 0..(2 ^ WordBits - 1)
    /\ Counts \subseteq Nat /\ \A c \in Containers : c \in Seq(Keys)

VARIABLES
    hash,   \* mixed_hash of every key
    table   \* [values, bits, buckets]; bits is 64 - m_shifts

vars == <<hash, table>>

InitialBits == 2

NumBuckets(bits) == 2 ^ bits

(* max_load_factor is the float 0.8F, 13421773 / 2^24.                      *)
Load(bits) == (13421773 * NumBuckets(bits)) \div 16777216

(* Mutant: one more than there are buckets.                                *)
CapacityBeyond(bits) == IF bits = MaxBits THEN NumBuckets(bits) + 1 ELSE Load(bits)

(* At the maximum every bucket may be used.                                *)
Capacity(bits) == IF bits = MaxBits THEN NumBuckets(bits) ELSE Load(bits)

(* calc_shifts_for_size.  CanHold excludes sizes above the load of the     *)
(* largest table, 0.8 * 2^32: there the code comes out at 0 shifts and     *)
(* calc_num_buckets shifts a 64 bit one by 64, which is undefined.         *)
CanHold(size) == size <= Load(MaxBits)
BitsFor(size) == Min({b \in InitialBits..MaxBits : Load(b) >= size})

-----------------------------------------------------------------------------
(* Probing.                                                                *)

Empty == [df |-> 0, idx |-> 0]

Cleared(bits) == [s \in 0..(NumBuckets(bits) - 1) |-> Empty]

Home(k, bits) == hash[k] \div 2 ^ (WordBits - bits)

(* The bucket d steps of next() behind the home of k, and what a bucket at *)
(* that distance holds for k.                                              *)
Slot(t, k, d) == (Home(k, t.bits) + d) % NumBuckets(t.bits)
DF(k, d) == ((d + 1) * Fingerprints) + (hash[k] % Fingerprints)

Bucket(t, k, d) == t.buckets[Slot(t, k, d)]

Distances(t) == 0..NumBuckets(t.bits)

Matches(t, k, d) ==
    /\ DF(k, d) = Bucket(t, k, d).df
    /\ t.values[Bucket(t, k, d).idx + 1] = k

(* Mutant: equal counts as passed, whatever the key.                       *)
PassedOrEqual(t, k, d) == DF(k, d) >= Bucket(t, k, d).df

Passed(t, k, d) == DF(k, d) > Bucket(t, k, d).df

(* Where an insertion stops: at the key, or at the first bucket that is    *)
(* nearer to its home.                                                     *)
Probe(t, k) == Min({d \in Distances(t) : Matches(t, k, d) \/ Passed(t, k, d)})

(* Where an insertion stops that need not look for the key.                *)
NextWhileLess(t, k) == Min({d \in Distances(t) : DF(k, d) >= Bucket(t, k, d).df})

(* Mutant: looks at the first candidate only.                              *)
EraseProbeOnce(t, k) == NextWhileLess(t, k)

(* Where an erasure stops: the loop looks at keys only while dist and      *)
(* fingerprint are equal.                                                  *)
EraseProbe(t, k) ==
    Min({d \in Distances(t) :
            /\ d >= NextWhileLess(t, k)
            /\ Matches(t, k, d) \/ DF(k, d) # Bucket(t, k, d).df})

(* end(), as an index.                                                     *)
End(t) == Len(t.values)

(* do_find: the first two turns, unrolled, look for the key only.          *)
Find(t, k) ==
    LET d == Min({e \in Distances(t) : Matches(t, k, e) \/ (e >= 2 /\ Passed(t, k, e))})
    IN  IF t.values # <<>> /\ Matches(t, k, d) THEN Bucket(t, k, d).idx ELSE End(t)

-----------------------------------------------------------------------------
(* Changing buckets.                                                       *)

(* Mutant: the buckets that move on keep their distance.                   *)
PlaceAndShiftUpSameDistance(buckets, bucket, place) ==
    LET n     == Cardinality(DOMAIN buckets)
        At(j) == (place + j) % n
        room  == Min({j \in 0..(n - 1) : buckets[At(j)] = Empty})
        PlacedAt(j) == IF j = 0 THEN bucket ELSE buckets[At(j - 1)]
    IN  [s \in DOMAIN buckets |->
            LET j == (s + n - place) % n IN
                IF j <= room THEN PlacedAt(j) ELSE buckets[s]]

(* place_and_shift_up: every bucket up to the first empty one moves on by  *)
(* one.                                                                    *)
PlaceAndShiftUp(buckets, bucket, place) ==
    LET n     == Cardinality(DOMAIN buckets)
        At(j) == (place + j) % n
        room  == Min({j \in 0..(n - 1) : buckets[At(j)] = Empty})
        PlacedAt(j) ==
            IF j = 0 THEN bucket
            ELSE [buckets[At(j - 1)] EXCEPT !.df = @ + Fingerprints]
    IN  [s \in DOMAIN buckets |->
            LET j == (s + n - place) % n IN
                IF j <= room THEN PlacedAt(j) ELSE buckets[s]]

(* The next value gets a bucket.                                           *)
PlaceValue(t, i) ==
    LET k == t.values[i]
        d == NextWhileLess(t, k)
    IN  [t EXCEPT !.buckets = PlaceAndShiftUp(@,
            [df |-> DF(k, d), idx |-> i - 1], Slot(t, k, d))]

(* clear_and_fill_buckets_from_values, with buckets of another number.     *)
Rebuilt(values, bits) ==
    LET filled[i \in 0..Len(values)] ==
            IF i = 0 THEN [values |-> values, bits |-> bits, buckets |-> Cleared(bits)]
            ELSE PlaceValue(filled[i - 1], i)
    IN  filled[Len(values)]

Fresh == Rebuilt(<<>>, InitialBits)

(* Mutant: looks at the size before the value was added.                   *)
OverflowsLate(t) == t.bits = MaxBits /\ Len(t.values) > Capacity(t.bits)

(* increase_size gives up: the value that was added is taken away again.   *)
Overflows(t) == t.bits = MaxBits /\ Len(t.values) + 1 > Capacity(t.bits)

(* do_place_element: the value first, then its bucket, or more buckets.    *)
PlaceElement(t, k, d) ==
    LET values == Append(t.values, k) IN
        IF Len(values) > Capacity(t.bits)
        THEN Rebuilt(values, t.bits + 1)
        ELSE [t EXCEPT !.values = values,
                       !.buckets = PlaceAndShiftUp(@,
                           [df |-> DF(k, d), idx |-> Len(t.values)], Slot(t, k, d))]

(* Mutant: the bucket of the last value, which fills the hole, is not told.*)
EraseBucketStaleIndex(t, s) ==
    LET n       == NumBuckets(t.bits)
        At(j)   == (s + j) % n
        end     == Min({j \in 0..(n - 1) :
                           j = n - 1 \/ t.buckets[At(j + 1)].df < 2 * Fingerprints})
        shifted == [x \in DOMAIN t.buckets |->
                       LET j == (x + n - s) % n IN
                           CASE j < end -> [t.buckets[At(j + 1)] EXCEPT !.df = @ - Fingerprints]
                             [] j = end -> Empty
                             [] j > end -> t.buckets[x]]
    IN  [t EXCEPT !.values = Front(ReplaceAt(@, t.buckets[s].idx + 1, Last(@))),
                  !.buckets = shifted]

(* do_erase: the buckets behind the erased one move back by one, up to one *)
(* that is empty or at home; the last value fills the hole, and the bucket *)
(* that knew it by its old index, searched from its home, gets the new.    *)
EraseBucket(t, s) ==
    LET n       == NumBuckets(t.bits)
        At(j)   == (s + j) % n
        removed == t.buckets[s].idx
        back    == Len(t.values) - 1
        moved   == Last(t.values)
        end     == Min({j \in 0..(n - 1) :
                           j = n - 1 \/ t.buckets[At(j + 1)].df < 2 * Fingerprints})
        shifted == [x \in DOMAIN t.buckets |->
                       LET j == (x + n - s) % n IN
                           CASE j < end -> [t.buckets[At(j + 1)] EXCEPT !.df = @ - Fingerprints]
                             [] j = end -> Empty
                             [] j > end -> t.buckets[x]]
        known   == Slot(t, moved, Min({d \in Distances(t) :
                                          shifted[Slot(t, moved, d)].idx = back}))
    IN  [t EXCEPT !.values = Front(ReplaceAt(@, removed + 1, moved)),
                  !.buckets = IF removed = back THEN shifted
                              ELSE [shifted EXCEPT ![known].idx = removed]]

(* erase(iterator): no distances, just the bucket with the index.          *)
EraseAt(t, i) ==
    LET k == t.values[i + 1] IN
        EraseBucket(t, Slot(t, k, Min({d \in Distances(t) : Bucket(t, k, d).idx = i})))

(* Mutant: from left to right all the way.                                 *)
RangeErasedLeftToRight(t, first, last) ==
    LET Erase(u, i) == IF i < Len(u.values) THEN EraseAt(u, i) ELSE u
        erased[n \in 0..(last - first)] ==
            IF n = 0 THEN t ELSE Erase(erased[n - 1], first + n - 1)
    IN  erased[last - first]

(* erase(first, last): from the left while keys from behind last can fill  *)
(* the holes, then the rest of the range from the right.                   *)
RangeErased(t, first, last) ==
    LET mid   == first + Min({last - first, Len(t.values) - last})
        At(n) == IF first + n <= mid THEN first + n - 1 ELSE last - (first + n - mid)
        erased[n \in 0..(last - first)] ==
            IF n = 0 THEN t ELSE EraseAt(erased[n - 1], At(n))
    IN  erased[last - first]

(* std::erase_if, from the back.                                           *)
EraseOrNot(t, pred, i) == IF t.values[i] \in pred THEN EraseAt(t, i - 1) ELSE t

ErasedIf(t, pred) ==
    LET size == Len(t.values)
        left[n \in 0..size] ==
            IF n = 0 THEN t ELSE EraseOrNot(left[n - 1], pred, size - n + 1)
    IN  left[size]

(* replace: take over the container; a key met before is overwritten with  *)
(* the last one.  Every turn places a value or shortens the container.     *)
PlaceOrDrop(s) ==
    LET t == s.table
        k == t.values[s.next]
        d == Probe(t, k)
    IN  IF Matches(t, k, d)
        THEN [s EXCEPT !.table.values = Front(ReplaceAt(@, s.next, Last(@)))]
        ELSE [table |-> [t EXCEPT !.buckets = PlaceAndShiftUp(@,
                            [df |-> DF(k, d), idx |-> s.next - 1], Slot(t, k, d))],
              next  |-> s.next + 1]

Replaced(t, container) ==
    LET bits == Max({t.bits, BitsFor(Len(container))})
        turn[n \in 0..Len(container)] ==
            IF n = 0
            THEN [table |-> [values |-> container, bits |-> bits, buckets |-> Cleared(bits)],
                  next  |-> 1]
            ELSE PlaceOrDrop(turn[n - 1])
    IN  turn[Len(container)].table

-----------------------------------------------------------------------------

(* Up to renaming of the keys, any hash function.                          *)
Init ==
    /\ hash \in {h \in [Keys -> HashValues] : \A j, k \in Keys : j < k => h[j] <= h[k]}
    /\ table = Fresh

(* Mutant: inserts without having looked for the key.                      *)
EmplaceUnchecked(k) ==
    LET d == NextWhileLess(table, k) IN
        /\ ~Overflows(table)
        /\ table' = PlaceElement(table, k, d)
        /\ UNCHANGED hash

(* emplace, try_emplace and operator[].  A key that is there, and a table  *)
(* at its limit, stay as they are.                                         *)
Emplace(k) ==
    LET d == Probe(table, k) IN
        /\ ~Matches(table, k, d)
        /\ ~Overflows(table)
        /\ table' = PlaceElement(table, k, d)
        /\ UNCHANGED hash

EraseKey(k) ==
    LET d == EraseProbe(table, k) IN
        /\ table.values # <<>>
        /\ DF(k, d) = Bucket(table, k, d).df
        /\ table' = EraseBucket(table, Slot(table, k, d))
        /\ UNCHANGED hash

EraseRange(first, last) ==
    table' = RangeErased(table, first, last) /\ UNCHANGED hash

EraseIf(pred) == table' = ErasedIf(table, pred) /\ UNCHANGED hash

Replace(container) ==
    /\ CanHold(Len(container))
    /\ table' = Replaced(table, container)
    /\ UNCHANGED hash

EraseIterator(i) == table' = EraseAt(table, i) /\ UNCHANGED hash

(* The number of buckets stays.                                            *)
Clear ==
    /\ table' = [table EXCEPT !.values = <<>>, !.buckets = Cleared(table.bits)]
    /\ UNCHANGED hash

Rehash(count) ==
    LET size == Max({count, Len(table.values)}) IN
        /\ CanHold(size)
        /\ BitsFor(size) # table.bits
        /\ table' = Rebuilt(table.values, BitsFor(size))
        /\ UNCHANGED hash

Reserve(count) ==
    LET size == Max({count, Len(table.values)}) IN
        /\ CanHold(size)
        /\ BitsFor(size) > table.bits
        /\ table' = Rebuilt(table.values, BitsFor(size))
        /\ UNCHANGED hash

(* A copy, constructed or assigned: an empty one starts anew.              *)
Copy ==
    /\ table' = IF table.values = <<>> THEN Fresh ELSE table
    /\ UNCHANGED hash

(* What is left of a table that another one was moved from.                *)
MovedFrom == table' = Fresh /\ UNCHANGED hash

Next ==
    \/ \E k \in Keys : Emplace(k) \/ EraseKey(k)
    \/ \E i \in 0..(Len(table.values) - 1) : EraseIterator(i)
    \/ \E last \in 0..Len(table.values) : \E first \in 0..last : EraseRange(first, last)
    \/ \E pred \in SUBSET Range(table.values) : EraseIf(pred)
    \/ Clear \/ Copy \/ MovedFrom
    \/ \E count \in Counts : Rehash(count) \/ Reserve(count)
    \/ \E container \in Containers : Replace(container)

Spec == Init /\ [][Next]_vars

-----------------------------------------------------------------------------

Used == {s \in DOMAIN table.buckets : table.buckets[s] # Empty}

(* Whatever was erased, moved or rehashed before, looking a key up yields  *)
(* its place in values, and "end" for every other key.                     *)
LookupExact ==
    \A k \in Keys :
        IF k \in Range(table.values)
        THEN Find(table, k) < End(table) /\ table.values[Find(table, k) + 1] = k
        ELSE Find(table, k) = End(table)

(* The insertion, the erasure and the lookup have loops of their own, with *)
(* other stop conditions: they agree on which keys there are, and where.   *)
LoopsAgree ==
    \A k \in Keys :
        LET i == Probe(table, k)
            e == EraseProbe(table, k)
            erases == table.values # <<>> /\ DF(k, e) = Bucket(table, k, e).df
        IN  /\ Matches(table, k, i) <=> Find(table, k) # End(table)
            /\ erases <=> Find(table, k) # End(table)
            /\ erases => e = i

(* Every value is known to exactly one bucket, and no bucket refers to a   *)
(* value that is gone or has moved, although erasing moves the last one.   *)
IndexIsBijective ==
    /\ Cardinality(Used) = Len(table.values)
    /\ {table.buckets[s].idx : s \in Used} = 0..(Len(table.values) - 1)

(* Buckets are sorted as the early exits of the probing loops need it:     *)
(* each is as far from its key's home as it says, and at most one step     *)
(* further than the bucket before it, which is not empty if it is not at   *)
(* home; among keys with one home, by fingerprint.                         *)
RobinHoodOrder ==
    \A s \in Used :
        LET n == NumBuckets(table.bits)
            b == table.buckets[s]
            k == table.values[b.idx + 1]
            before == table.buckets[(s + n - 1) % n]
        IN  /\ \E d \in Distances(table) : s = Slot(table, k, d) /\ b.df = DF(k, d)
            /\ b.df >= 2 * Fingerprints => before.df + Fingerprints >= b.df

(* Operations on many keys go through the single erase() or overwrite      *)
(* values while they walk over them, although both reorder the values: no  *)
(* key is skipped or taken for another.                                    *)
BulkOperationsExact ==
    LET Content(t) == Range(t.values)
        keys == Content(table)
    IN  /\ \A last \in 0..Len(table.values) : \A first \in 0..last :
              Content(RangeErased(table, first, last)) =
                 keys \ {table.values[i] : i \in (first + 1)..last}
        /\ \A pred \in SUBSET keys : Content(ErasedIf(table, pred)) = keys \ pred
        /\ \A c \in Containers : CanHold(Len(c)) =>
              Content(Replaced(table, c)) = Range(c) /\ IsInjective(Replaced(table, c).values)

(* There always is an empty bucket for place_and_shift_up to end at, or    *)
(* the next insertion is refused or gets more buckets.                     *)
InsertionEnds ==
    \/ Cardinality(Used) < NumBuckets(table.bits)
    \/ Len(table.values) + 1 > Capacity(table.bits)

(* The table is a list of distinct keys in the order of their insertion.   *)
Promise == INSTANCE DenseSet WITH items <- table.values, MaxSize <- 2 ^ MaxBits

IsDenseSet == Promise!Spec
=============================================================================
