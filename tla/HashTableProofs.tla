-------------------------- MODULE HashTableProofs ---------------------------
(***************************************************************************)
(* Theorems about the hash table for every set of keys and values, every   *)
(* capacity and every hash function.  TableInv, the inductive invariant,   *)
(* adds to the types which variables the two loops use (LoopOK) and how    *)
(* the pairs are counted (CountOK): a removal keeps size a natural number  *)
(* because size is the number of pairs and of failed insertions, and       *)
(* ht_getValues fits its array because the values it has and the pairs     *)
(* ahead of its iterator add up.  MapInv adds what the refinement of        *)
(* KeyValueMap needs: PairsFound, and what the two loops have done so far. *)
(***************************************************************************)
EXTENDS HashTable, TLAPS, FiniteSetTheorems, SequenceTheorems

(* The smallest element of a set of natural numbers.  Min is a CHOOSE: that *)
(* a least element exists follows from the well-founded order on the finite *)
(* intervals that start at zero.                                            *)
LEMMA MinNat ==
  ASSUME NEW S \in SUBSET Nat, S # {}
  PROVE  Min(S) \in S /\ \A x \in S : Min(S) <= x
<1> DEFINE R == StrictSubsetOrdering(Nat)
           T == {0 .. x : x \in S}
<1>1. T \subseteq FiniteSubsetsOf(Nat)
  <2> SUFFICES ASSUME NEW x \in S PROVE 0 .. x \in FiniteSubsetsOf(Nat)
    OBVIOUS
  <2>1. IsFiniteSet(0 .. x)
    BY FS_Interval
  <2> QED BY <2>1 DEF FiniteSubsetsOf
<1>2. IsWellFoundedOn(R, FiniteSubsetsOf(Nat))
  BY FS_StrictSubsetOrderingWellFounded
<1>3. PICK t \in T : \A u \in T : ~(<<u, t>> \in R)
  <2> HIDE DEF R, T
  <2> SUFFICES T # {}
    BY <1>1, <1>2, WFMin
  <2> QED BY DEF T
<1>4. PICK x \in S : t = 0 .. x
  BY <1>3
<1>5. ASSUME NEW y \in S PROVE x <= y
  <2> SUFFICES ASSUME y < x PROVE FALSE
    OBVIOUS
  <2>1. 0 .. y \in T /\ <<0 .. y, 0 .. x>> \notin R
    BY <1>3, <1>4
  <2>2. 0 .. y \subseteq 0 .. x /\ x \in 0 .. x /\ x \notin 0 .. y
    OBVIOUS
  <2> QED BY <2>1, <2>2 DEF StrictSubsetOrdering
<1> QED BY <1>5 DEF Min
-----------------------------------------------------------------------------
(* Sequences *)

(* Removing a position closes the gap. *)
LEMMA RemoveAtProperties ==
  ASSUME NEW S, NEW s \in Seq(S), NEW i \in 1 .. Len(s)
  PROVE  /\ RemoveAt(s, i) \in Seq(S)
         /\ Len(RemoveAt(s, i)) = Len(s) - 1
         /\ \A j \in 1 .. Len(s) - 1 :
              RemoveAt(s, i)[j] = IF j < i THEN s[j] ELSE s[j + 1]
<1> DEFINE a == SubSeq(s, 1, i - 1)
           b == SubSeq(s, i + 1, Len(s))
<1>1. /\ a \in Seq(S) /\ Len(a) = i - 1
      /\ \A j \in 1 .. i - 1 : a[j] = s[j]
  OBVIOUS
<1>2. /\ b \in Seq(S) /\ Len(b) = Len(s) - i
      /\ \A j \in 1 .. Len(s) - i : b[j] = s[i + j]
  OBVIOUS
<1>3. RemoveAt(s, i) = a \o b
  BY DEF RemoveAt
<1> HIDE DEF a, b
<1>4. /\ a \o b \in Seq(S) /\ Len(a \o b) = Len(a) + Len(b)
      /\ \A j \in 1 .. Len(a) + Len(b) :
           (a \o b)[j] = IF j <= Len(a) THEN a[j] ELSE b[j - Len(a)]
  BY <1>1, <1>2, ConcatProperties
<1>5. ASSUME NEW j \in 1 .. Len(s) - 1
      PROVE  (a \o b)[j] = IF j < i THEN s[j] ELSE s[j + 1]
  <2>1. CASE j < i
    BY <2>1, <1>1, <1>2, <1>4
  <2>2. CASE j >= i
    <3>1. (a \o b)[j] = b[j - (i - 1)] /\ j - (i - 1) \in 1 .. Len(s) - i
      BY <2>2, <1>1, <1>2, <1>4
    <3>2. b[j - (i - 1)] = s[i + (j - (i - 1))]
      BY <3>1, <1>2
    <3>3. i + (j - (i - 1)) = j + 1
      OBVIOUS
    <3>4. (a \o b)[j] = s[j + 1]
      BY <3>1, <3>2, <3>3
    <3>5. ~(j < i)
      BY <2>2
    <3> QED BY <3>4, <3>5
  <2>3. j < i \/ j >= i
    OBVIOUS
  <2> HIDE DEF a, b
  <2> QED BY <2>1, <2>2, <2>3
<1> QED BY <1>1, <1>2, <1>3, <1>4, <1>5
-----------------------------------------------------------------------------
(* The invariant *)

(* Where the program is in a loop, and which variables the loop uses. *)
LoopOK ==
  /\ capacity = 0 => pc = "idle" /\ it = NoIterator
  /\ pc # "values" => local = NoIterator
  /\ pc # "free" => index = 0
  /\ pc = "idle" => out = <<>>
  /\ pc = "free" => it = NoIterator

(* The pairs are finitely many, and those ht_getValues has still to collect *)
(* make up for the values it lacks.                                         *)
CountOK ==
  /\ IsFiniteSet(Slots)
  /\ SizeCounts
  /\ pc = "values" =>
       /\ local.bucket \in 0 .. capacity
       /\ local.bucket < capacity => local.at # 0
       /\ Len(out) + Cardinality(Ahead(local)) + lost = size

TableInv == TypeOK /\ LoopOK /\ CountOK

(* The slots are the positions of the bucket lists. *)
LEMMA InSlots ==
  ASSUME TypeOK, NEW s
  PROVE  s \in Slots <=>
           \E b \in Indices : \E i \in 1 .. Len(buckets[b]) : s = <<b, i>>
<1>1. ASSUME NEW b \in Indices PROVE DOMAIN buckets[b] = 1 .. Len(buckets[b])
  BY DEF TypeOK
<1> QED BY <1>1 DEF Slots

(* firstNonEmptyBucketIndex: in range, not empty, and none before it. *)
LEMMA FirstNonEmptyFound ==
  ASSUME TypeOK, NEW offset \in 0 .. capacity
  PROVE  /\ FirstNonEmpty(offset) \in offset .. capacity
         /\ FirstNonEmpty(offset) < capacity => buckets[FirstNonEmpty(offset)] # <<>>
         /\ \A i \in offset .. capacity - 1 :
              i < FirstNonEmpty(offset) => buckets[i] = <<>>
<1> DEFINE S == {i \in offset .. capacity : i = capacity \/ buckets[i] # <<>>}
<1>1. capacity \in Nat
  BY CapacityAssumption DEF TypeOK
<1>2. S \in SUBSET Nat /\ S # {}
  <2>1. capacity \in S
    BY <1>1
  <2> QED BY <1>1, <2>1
<1>3. Min(S) \in S /\ \A x \in S : Min(S) <= x
  <2> HIDE DEF S
  <2> QED BY <1>2, MinNat
<1>4. FirstNonEmpty(offset) = Min(S)
  BY DEF FirstNonEmpty
<1>5. ASSUME NEW i \in offset .. capacity - 1, i < Min(S), buckets[i] # <<>>
      PROVE  FALSE
  <2>1. i \in S
    BY <1>1, <1>5
  <2>2. i \in Int /\ Min(S) \in Int /\ Min(S) <= i
    BY <1>2, <1>3, <2>1
  <2> QED BY <1>5, <2>2
<1>6. Min(S) \in offset .. capacity /\ (Min(S) < capacity => buckets[Min(S)] # <<>>)
  BY <1>1, <1>3
<1> HIDE DEF FirstNonEmpty, S
<1> QED BY <1>4, <1>5, <1>6

(* An iterator made by ht_createIterator or moved by ht_iteratorNext. *)
Placed(i) ==
  /\ i \in Iterators
  /\ i.bucket \in 0 .. capacity
  /\ i.bucket < capacity => i.at \in 1 .. Len(buckets[i.bucket])

(* An iterator set on the first non-empty bucket is well placed. *)
LEMMA IteratorAtPlaced ==
  ASSUME TypeOK, NEW offset \in 0 .. capacity
  PROVE  Placed(IteratorAt(FirstNonEmpty(offset)))
<1> DEFINE b == FirstNonEmpty(offset)
<1>1. /\ b \in 0 .. capacity /\ capacity \in Nat
      /\ b < capacity => buckets[b] \in Seq(Pairs) /\ buckets[b] # <<>>
  BY FirstNonEmptyFound, CapacityAssumption DEF TypeOK, Indices
<1> HIDE DEF b
<1>2. b < capacity => 1 \in 1 .. Len(buckets[b])
  BY <1>1
<1> QED BY <1>1, <1>2 DEF Placed, IteratorAt, Iterators, b

(* ht_createIterator *)
LEMMA BeginPlaced == TypeOK => Placed(Begin)
<1> SUFFICES ASSUME TypeOK PROVE Placed(Begin)
  OBVIOUS
<1>1. 0 \in 0 .. capacity
  BY CapacityAssumption DEF TypeOK
<1> QED BY <1>1, IteratorAtPlaced DEF Begin

(* ht_iteratorNext *)
LEMMA AfterPlaced ==
  ASSUME TypeOK, NEW i \in Iterators, HasNext(i), PointsToPair(i)
  PROVE  Placed(After(i))
<1>1. /\ capacity \in Nat /\ i.bucket \in Indices
      /\ i.at \in 1 .. Len(buckets[i.bucket])
      /\ i.at \in Nat /\ i.bucket \in Nat
      /\ Len(buckets[i.bucket]) \in Nat
  BY CapacityAssumption DEF TypeOK, HasNext, PointsToPair, Iterators, Indices
<1>2. CASE i.at < Len(buckets[i.bucket])
  BY <1>1, <1>2 DEF After, Placed, Iterators, Indices
<1>3. CASE ~(i.at < Len(buckets[i.bucket]))
  <2>1. i.bucket + 1 \in 0 .. capacity
    BY <1>1 DEF Indices
  <2> QED BY <1>3, <2>1, IteratorAtPlaced DEF After
<1> QED BY <1>2, <1>3

(* A well placed iterator reads no pair that is not there. *)
LEMMA PlacedPoints ==
  ASSUME NEW i, Placed(i)
  PROVE  i \in Iterators /\ PointsToPair(i)
BY DEF Placed, PointsToPair, HasNext, Iterators

(* What is ahead of an iterator: everything at first, nothing at the end, *)
(* and one pair less after each.                                          *)
LEMMA AheadOfBegin == TypeOK => Ahead(Begin) = Slots
<1> SUFFICES ASSUME TypeOK, NEW s \in Slots PROVE s \in Ahead(Begin)
  BY DEF Ahead
<1> DEFINE f == FirstNonEmpty(0)
<1>1. capacity \in Nat
  BY CapacityAssumption DEF TypeOK
<1>2. PICK b \in Indices : \E i \in 1 .. Len(buckets[b]) : s = <<b, i>>
  BY InSlots
<1>3. PICK i \in 1 .. Len(buckets[b]) : s = <<b, i>>
  BY <1>2
<1>4. buckets[b] # <<>>
  BY <1>3
<1>5. f \in 0 .. capacity /\ ~(b < f)
  BY <1>1, <1>4, FirstNonEmptyFound DEF Indices
<1> HIDE DEF f
<1>6. b > f \/ (b = f /\ f < capacity)
  BY <1>1, <1>5 DEF Indices
<1> QED BY <1>1, <1>3, <1>5, <1>6 DEF Ahead, Begin, IteratorAt, f

(* No pair is ahead of an iterator that has passed the last bucket. *)
LEMMA AheadOfEnd ==
  ASSUME TypeOK, NEW i \in Iterators, i.bucket = capacity
  PROVE  Ahead(i) = {}
<1> SUFFICES ASSUME NEW s \in Ahead(i) PROVE FALSE
  OBVIOUS
<1>1. capacity \in Nat
  BY CapacityAssumption DEF TypeOK
<1>2. PICK b \in Indices : s[1] = b
  BY InSlots DEF Ahead
<1> QED BY <1>1, <1>2 DEF Ahead, Indices

(* The pair returned, and only it, leaves what is ahead. *)
LEMMA AheadOfAfter ==
  ASSUME TypeOK, NEW i \in Iterators, HasNext(i), PointsToPair(i)
  PROVE  /\ <<i.bucket, i.at>> \in Ahead(i)
         /\ Ahead(After(i)) = Ahead(i) \ {<<i.bucket, i.at>>}
<1>1. /\ capacity \in Nat /\ i.bucket \in Indices
      /\ i.at \in 1 .. Len(buckets[i.bucket]) /\ i.at \in Nat /\ i.at # 0
      /\ i.bucket \in Nat /\ Len(buckets[i.bucket]) \in Nat
  BY CapacityAssumption DEF TypeOK, HasNext, PointsToPair, Iterators, Indices
<1>2. <<i.bucket, i.at>> \in Ahead(i)
  BY <1>1, InSlots DEF Ahead
<1>3. ASSUME NEW s \in Slots
      PROVE  s \in Ahead(After(i)) <=> s \in Ahead(i) /\ s # <<i.bucket, i.at>>
  <2>1. PICK b \in Indices : \E j \in 1 .. Len(buckets[b]) : s = <<b, j>>
    BY InSlots
  <2>2. PICK j \in 1 .. Len(buckets[b]) : s = <<b, j>>
    BY <2>1
  <2>3. b \in Nat /\ b < capacity /\ j \in Nat /\ Len(buckets[b]) \in Nat
    BY <1>1 DEF Indices, TypeOK
  <2>4. CASE i.at < Len(buckets[i.bucket])
    <3>1. After(i).bucket = i.bucket /\ After(i).at = i.at + 1
      BY <2>4 DEF After, Iterators
    <3> QED BY <1>1, <2>2, <2>3, <3>1 DEF Ahead
  <2>5. CASE ~(i.at < Len(buckets[i.bucket]))
    <3> DEFINE f == FirstNonEmpty(i.bucket + 1)
    <3>1. i.bucket + 1 \in 0 .. capacity
      BY <1>1 DEF Indices
    <3>2. /\ f \in i.bucket + 1 .. capacity
          /\ b \in i.bucket + 1 .. capacity - 1 => ~(b < f)
      <4>1. buckets[b] # <<>>
        BY <2>2
      <4> QED BY <3>1, <4>1, FirstNonEmptyFound
    <3>3. After(i) = IteratorAt(f)
      BY <2>5 DEF After
    <3> HIDE DEF f
    <3>4. /\ After(i).bucket = f
          /\ f < capacity => After(i).at = 1
      BY <3>3 DEF IteratorAt
    <3>5. s \in Ahead(After(i)) <=> b > i.bucket
      <4>1. CASE f < capacity
        BY <1>1, <2>2, <2>3, <3>2, <3>4, <4>1 DEF Ahead
      <4>2. CASE f = capacity
        BY <1>1, <2>2, <2>3, <3>2, <3>4, <4>2 DEF Ahead
      <4> QED BY <1>1, <3>2, <4>1, <4>2
    <3>6. s \in Ahead(i) /\ s # <<i.bucket, i.at>> <=> b > i.bucket
      BY <1>1, <2>2, <2>3, <2>5 DEF Ahead
    <3> QED BY <3>5, <3>6
  <2> QED BY <2>4, <2>5
<1> QED BY <1>2, <1>3 DEF Ahead
-----------------------------------------------------------------------------
(* The invariant holds initially and every action preserves it. *)

LEMMA NoIteratorPoints ==
  /\ NoIterator \in Iterators /\ PointsToPair(NoIterator)
  /\ PointsToPair(NoIterator)'
BY DEF NoIterator, Iterators, PointsToPair, HasNext

(* Initially there is no table. *)
LEMMA InitInv == Init => TableInv
<1> SUFFICES ASSUME Init PROVE TableInv
  OBVIOUS
<1> USE CapacityAssumption
<1>1. Indices = {} /\ capacity = 0
  BY DEF Init, Indices
<1>2. TypeOK
  <2>1. buckets \in [Indices -> Seq(Pairs)]
    BY <1>1 DEF Init
  <2>2. PointsToPair(it) /\ PointsToPair(local) /\ it \in Iterators /\ local \in Iterators
    BY NoIteratorPoints DEF Init
  <2>3. ret \in Seq(Pairs \cup Values)
    BY EmptySeq DEF Init
  <2>4. out \in Seq(IF pc = "free" THEN Pairs ELSE Values)
    BY EmptySeq DEF Init
  <2>5. /\ index \in 0 .. capacity /\ capacity \in {0, Capacity}
        /\ size \in Nat /\ lost \in Nat
    BY DEF Init
  <2>6. open \in BOOLEAN /\ pc \in {"idle", "values", "free"}
    BY DEF Init
  <2> QED BY <2>1, <2>2, <2>3, <2>4, <2>5, <2>6 DEF TypeOK
<1>3. LoopOK
  BY DEF Init, LoopOK
<1>4. CountOK
  <2>1. Slots = {}
    BY <1>1 DEF Slots
  <2> QED BY <2>1, FS_EmptySet DEF Init, CountOK, SizeCounts
<1> QED BY <1>2, <1>3, <1>4 DEF TableInv

(* Slots and iterators depend on the lists of pairs only. *)
LEMMA SlotsSame ==
  ASSUME UNCHANGED <<buckets, capacity>>
  PROVE  Indices' = Indices /\ Slots' = Slots /\ \A i : (Ahead(i) = Ahead(i)')
BY DEF Indices, Slots, Ahead

(* ht_createTable *)
LEMMA CreateTableInv ==
  ASSUME TableInv, CreateTable PROVE TableInv'
<1> USE CapacityAssumption DEF TableInv
<1>1. Indices' = 0 .. Capacity - 1 /\ capacity' = Capacity
  BY DEF CreateTable, Indices
<1>2. \A b \in Indices' : buckets'[b] = <<>>
  BY <1>1 DEF CreateTable
<1>3. pc = "idle" /\ pc' = "idle" /\ it' = NoIterator /\ local' = NoIterator
      /\ index' = 0 /\ out' = <<>>
  BY DEF CreateTable, LoopOK, iterator, loop
<1>4. TypeOK'
  BY <1>1, <1>2, <1>3, NoIteratorPoints DEF TypeOK, CreateTable, iterator, loop
<1>5. LoopOK'
  BY <1>1, <1>3 DEF LoopOK
<1>6. CountOK'
  <2>1. Slots' = {}
    BY <1>2 DEF Slots
  <2> QED BY <1>3, <2>1, FS_EmptySet DEF CreateTable, CountOK, SizeCounts
<1> QED BY <1>4, <1>5, <1>6

(* An action outside the loops that changes no list of pairs. *)
LEMMA TableUnchangedInv ==
  ASSUME TableInv, pc = "idle", UNCHANGED <<table, loop>>,
         open' \in BOOLEAN, it' \in Iterators, PointsToPair(it'),
         capacity = 0 => UNCHANGED it,
         ret' \in Seq(Pairs \cup Values)
  PROVE  TableInv'
<1> USE DEF TableInv
<1>1. UNCHANGED <<buckets, capacity, size, lost, pc, local, index, out>>
  BY DEF table, loop
<1>2. PointsToPair(it)' /\ PointsToPair(local)'
  BY <1>1 DEF TypeOK, PointsToPair, HasNext
<1>3. TypeOK'
  BY <1>1, <1>2, SlotsSame DEF TypeOK
<1>4. LoopOK'
  BY <1>1 DEF LoopOK
<1>5. CountOK'
  BY <1>1, SlotsSame DEF CountOK, SizeCounts
<1> QED BY <1>3, <1>4, <1>5

(* ht_createIterator *)
LEMMA CreateIteratorInv ==
  ASSUME TableInv, CreateIterator PROVE TableInv'
<1>1. Begin \in Iterators /\ PointsToPair(Begin)
  BY BeginPlaced, PlacedPoints DEF TableInv
<1> QED BY <1>1, TableUnchangedInv DEF CreateIterator

(* What an iterator returns is a pair. *)
LEMMA CurrentPair ==
  ASSUME TypeOK, NEW i \in Iterators, HasNext(i), PointsToPair(i)
  PROVE  Current(i) \in Pairs
BY CapacityAssumption DEF TypeOK, HasNext, PointsToPair, Iterators, Indices, Current

(* ht_iteratorNext *)
LEMMA IteratorNextInv ==
  ASSUME TableInv, IteratorNext PROVE TableInv'
<1>1. /\ it \in Iterators /\ HasNext(it) /\ PointsToPair(it) /\ TypeOK
      /\ open \in BOOLEAN
  BY DEF TableInv, TypeOK, IteratorNext
<1>2. After(it) \in Iterators /\ PointsToPair(After(it))
  BY <1>1, AfterPlaced, PlacedPoints
<1>3. Current(it) \in Pairs
  BY <1>1, CurrentPair
<1>4. capacity # 0
  BY <1>1, CapacityAssumption DEF HasNext, Iterators, TypeOK
<1> QED BY <1>1, <1>2, <1>3, <1>4, TableUnchangedInv DEF IteratorNext

(* getBucket stays inside the array. *)
LEMMA BucketOfKey ==
  ASSUME TypeOK, capacity > 0, NEW k \in Keys
  PROVE  BucketOf(k) \in Indices /\ buckets[BucketOf(k)] \in Seq(Pairs)
<1>1. Hash[k] \in Nat /\ capacity \in Nat \ {0}
  BY HashAssumption, CapacityAssumption DEF TypeOK
<1>2. BucketOf(k) \in Indices
  BY <1>1 DEF BucketOf, Indices
<1> QED BY <1>2 DEF TypeOK

(* ht_getValue *)
LEMMA GetValueInv ==
  ASSUME TableInv, NEW k \in Keys, GetValue(k) PROVE TableInv'
<1>1. BucketOf(k) \in Indices
  BY BucketOfKey DEF GetValue, TableInv
<1>2. ret' \in Seq(Pairs \cup Values)
  <2>1. buckets[BucketOf(k)] \in Seq(Pairs)
    BY <1>1 DEF TableInv, TypeOK
  <2>2. ASSUME NEW i \in 1 .. Len(buckets[BucketOf(k)]),
               ret' = <<buckets[BucketOf(k)][i].value>>
        PROVE  ret' \in Seq(Pairs \cup Values)
    <3>1. buckets[BucketOf(k)][i] \in Pairs
      BY <2>1
    <3>2. buckets[BucketOf(k)][i].value \in Values
      BY <3>1 DEF Pairs
    <3> QED BY <2>2, <3>2
  <2>3. <<>> \in Seq(Pairs \cup Values)
    BY EmptySeq
  <2> QED BY <2>2, <2>3 DEF GetValue
<1>3. UNCHANGED <<open, it>> /\ open \in BOOLEAN /\ it \in Iterators /\ PointsToPair(it)
  BY DEF GetValue, iterator, TableInv, TypeOK
<1> QED BY <1>2, <1>3, TableUnchangedInv DEF GetValue

(* The slots are the same when no list changes its length. *)
LEMMA SlotsByLength ==
  ASSUME TypeOK, TypeOK', capacity' = capacity,
         \A b \in Indices : Len(buckets'[b]) = Len(buckets[b])
  PROVE  Slots' = Slots
<1>1. Indices' = Indices
  BY DEF Indices
<1>2. \A b \in Indices : DOMAIN (buckets'[b]) = DOMAIN buckets[b]
  BY <1>1 DEF TypeOK
<1> QED BY <1>1, <1>2 DEF Slots

(* An insertion shortens no bucket. *)
LEMMA GrowInv ==
  ASSUME TableInv, pc = "idle", UNCHANGED <<capacity, iterator, loop>>,
         buckets' \in [Indices -> Seq(Pairs)], size' \in Nat, lost' \in Nat, ret' = <<>>,
         \A b \in Indices : Len(buckets'[b]) >= Len(buckets[b])
  PROVE  TypeOK' /\ LoopOK'
<1> USE DEF TableInv
<1>1. UNCHANGED <<open, it, pc, local, index, out>> /\ Indices' = Indices
  BY DEF iterator, loop, Indices
<1>2. PointsToPair(it)'
  <2> SUFFICES ASSUME HasNext(it)' PROVE it.at <= Len(buckets'[it.bucket])
    BY <1>1 DEF PointsToPair
  <2>1. /\ it.bucket \in Indices /\ it.at \in Nat
        /\ it.at <= Len(buckets[it.bucket])
    BY <1>1, CapacityAssumption
    DEF TypeOK, PointsToPair, HasNext, Iterators, Indices
  <2>2. /\ Len(buckets[it.bucket]) \in Nat /\ Len(buckets'[it.bucket]) \in Nat
        /\ Len(buckets'[it.bucket]) >= Len(buckets[it.bucket])
    BY <2>1 DEF TypeOK
  <2> QED BY <2>1, <2>2
<1>3. PointsToPair(local)'
  BY <1>1, NoIteratorPoints DEF LoopOK
<1>4. ret' \in Seq(Pairs \cup Values)
  BY EmptySeq
<1>5. TypeOK'
  BY <1>1, <1>2, <1>3, <1>4 DEF TypeOK
<1> QED BY <1>1, <1>5 DEF LoopOK

(* ht_insertElement: a new pair takes one new slot. *)
LEMMA InsertElementInv ==
  ASSUME TableInv, NEW k \in Keys, NEW v \in Values, InsertElement(k, v)
  PROVE  TableInv'
<1> DEFINE b == BucketOf(k)
           pair == [key |-> k, value |-> v]
<1> USE DEF TableInv
<1>1. /\ b \in Indices /\ buckets[b] \in Seq(Pairs) /\ pair \in Pairs
      /\ buckets \in [Indices -> Seq(Pairs)] /\ size \in Nat /\ lost \in Nat
  <2>1. b \in Indices /\ buckets[b] \in Seq(Pairs)
    BY BucketOfKey DEF InsertElement
  <2>2. pair \in Pairs
    BY DEF Pairs
  <2> HIDE DEF b, pair
  <2> QED BY <2>1, <2>2 DEF TypeOK
<1>2. /\ pc = "idle" /\ pc' = "idle" /\ ret' = <<>> /\ Indices' = Indices
      /\ UNCHANGED <<capacity, lost, iterator, loop>>
  BY DEF InsertElement, loop, Indices
<1>3. ASSUME NEW i \in 1 .. Len(buckets[b]),
             buckets' = [buckets EXCEPT ![b][i] = [key |-> @.key, value |-> v]],
             UNCHANGED size
      PROVE  TableInv'
  <2> DEFINE new == [key |-> buckets[b][i].key, value |-> v]
  <2>1. new \in Pairs
    <3> HIDE DEF b
    <3>1. buckets[b][i] \in Pairs
      BY <1>1
    <3>2. buckets[b][i].key \in Keys
      BY <3>1 DEF Pairs
    <3> QED BY <3>2 DEF Pairs
  <2>2. buckets' = [buckets EXCEPT ![b] = [buckets[b] EXCEPT ![i] = new]]
    BY <1>3
  <2> HIDE DEF new, b
  <2>3. /\ [buckets[b] EXCEPT ![i] = new] \in Seq(Pairs)
        /\ Len([buckets[b] EXCEPT ![i] = new]) = Len(buckets[b])
    BY <1>1, <2>1, ExceptSeq
  <2>4. /\ buckets' \in [Indices -> Seq(Pairs)]
        /\ \A c \in Indices : Len(buckets'[c]) = Len(buckets[c])
    BY <1>1, <2>2, <2>3
  <2>5. \A c \in Indices : Len(buckets[c]) \in Nat
    BY <1>1
  <2>6. TypeOK' /\ LoopOK'
    BY <1>1, <1>2, <1>3, <2>4, <2>5, GrowInv
  <2>7. Slots' = Slots
    BY <1>2, <2>4, <2>6, SlotsByLength
  <2> QED BY <1>2, <1>3, <2>6, <2>7 DEF CountOK, SizeCounts
<1>4. ASSUME buckets' = [buckets EXCEPT ![b] = Append(@, pair)],
             size' = size + 1
      PROVE  TableInv'
  <2> DEFINE n == Len(buckets[b]) + 1
  <2> HIDE DEF pair, b
  <2>1. /\ Append(buckets[b], pair) \in Seq(Pairs)
        /\ Len(Append(buckets[b], pair)) = n /\ n \in Nat
    BY <1>1
  <2> HIDE DEF n
  <2>2. /\ buckets' \in [Indices -> Seq(Pairs)]
        /\ \A c \in Indices : Len(buckets'[c]) = IF c = b THEN n ELSE Len(buckets[c])
    BY <1>1, <1>4, <2>1
  <2>3. \A c \in Indices : Len(buckets'[c]) >= Len(buckets[c])
    BY <1>1, <2>2 DEF n
  <2>4. TypeOK' /\ LoopOK'
    BY <1>1, <1>2, <1>4, <2>2, <2>3, GrowInv
  <2>5. Slots' = Slots \cup {<<b, n>>} /\ <<b, n>> \notin Slots
    <3>1. /\ \A c \in Indices : DOMAIN buckets[c] = 1 .. Len(buckets[c])
          /\ \A c \in Indices : DOMAIN (buckets'[c]) = 1 .. Len(buckets'[c])
      BY <1>1, <2>2
    <3>2. DOMAIN (buckets'[b]) = DOMAIN buckets[b] \cup {n} /\ n \notin DOMAIN buckets[b]
      BY <1>1, <2>2, <3>1 DEF n
    <3>3. \A c \in Indices : c # b => DOMAIN (buckets'[c]) = DOMAIN buckets[c]
      BY <1>1, <2>2, <3>1
    <3> QED BY <1>1, <1>2, <3>2, <3>3 DEF Slots
  <2>6. /\ IsFiniteSet(Slots') /\ Cardinality(Slots') = Cardinality(Slots) + 1
        /\ Cardinality(Slots) \in Nat
    BY <2>5, FS_AddElement, FS_CardinalityType DEF CountOK
  <2> QED BY <1>1, <1>2, <1>4, <2>4, <2>6 DEF CountOK, SizeCounts
<1> HIDE DEF pair
<1> QED BY <1>3, <1>4 DEF InsertElement, pair

(* ht_insertElement without memory for the node: one more pair is lost. *)
LEMMA InsertElementFailsInv ==
  ASSUME TableInv, NEW k \in Keys, NEW v \in Values, InsertElementFails(k, v)
  PROVE  TableInv'
<1> USE DEF TableInv
<1>1. /\ pc = "idle" /\ pc' = "idle" /\ ret' = <<>>
      /\ size' = size + 1 /\ lost' = lost + 1
      /\ UNCHANGED <<buckets, capacity, iterator, loop>>
  BY DEF InsertElementFails, loop
<1>2. /\ buckets \in [Indices -> Seq(Pairs)] /\ size \in Nat /\ lost \in Nat
      /\ \A b \in Indices : Len(buckets[b]) \in Nat
  BY DEF TypeOK
<1>3. TypeOK' /\ LoopOK'
  BY <1>1, <1>2, GrowInv
<1>4. Slots' = Slots /\ IsFiniteSet(Slots) /\ Cardinality(Slots) \in Nat
  BY <1>1, SlotsSame, FS_CardinalityType DEF CountOK
<1>5. CountOK'
  BY <1>1, <1>2, <1>4 DEF CountOK, SizeCounts
<1> QED BY <1>3, <1>5

(* ht_removeElement: the last slot of the bucket goes. *)
LEMMA RemoveElementInv ==
  ASSUME TableInv, NEW k \in Keys, RemoveElement(k)
  PROVE  TableInv'
<1> DEFINE b == BucketOf(k)
<1> USE DEF TableInv
<1>1. /\ b \in Indices /\ buckets[b] \in Seq(Pairs)
      /\ buckets \in [Indices -> Seq(Pairs)] /\ size \in Nat /\ lost \in Nat
  <2>1. b \in Indices /\ buckets[b] \in Seq(Pairs)
    BY BucketOfKey DEF RemoveElement
  <2> HIDE DEF b
  <2> QED BY <2>1 DEF TypeOK
<1>2. /\ pc = "idle" /\ open' = FALSE /\ it' = NoIterator /\ Indices' = Indices
      /\ UNCHANGED <<capacity, lost, pc, local, index, out>>
  BY DEF RemoveElement, CloseIterator, loop, Indices
<1>3. PointsToPair(it)' /\ PointsToPair(local)'
  BY <1>2, NoIteratorPoints DEF LoopOK
<1>4. LoopOK'
  BY <1>2 DEF LoopOK
<1>5. ASSUME NEW i \in 1 .. Len(buckets[b]),
             ret' = <<buckets[b][i]>>,
             buckets' = [buckets EXCEPT ![b] = RemoveAt(@, i)],
             size' = size - 1
      PROVE  TableInv'
  <2> DEFINE n == Len(buckets[b])
  <2> HIDE DEF b
  <2>1. /\ RemoveAt(buckets[b], i) \in Seq(Pairs)
        /\ Len(RemoveAt(buckets[b], i)) = n - 1
        /\ n \in Nat /\ n \in 1 .. n
    BY <1>1, RemoveAtProperties
  <2>2. buckets[b][i] \in Pairs
    BY <1>1
  <2> HIDE DEF n
  <2>3. /\ buckets' \in [Indices -> Seq(Pairs)]
        /\ \A c \in Indices :
             Len(buckets'[c]) = IF c = b THEN n - 1 ELSE Len(buckets[c])
    BY <1>1, <1>5, <2>1
  <2>4. Slots' = Slots \ {<<b, n>>} /\ <<b, n>> \in Slots
    <3>1. /\ \A c \in Indices : DOMAIN buckets[c] = 1 .. Len(buckets[c])
          /\ \A c \in Indices : DOMAIN (buckets'[c]) = 1 .. Len(buckets'[c])
      BY <1>1, <2>3
    <3>2. DOMAIN (buckets'[b]) = DOMAIN buckets[b] \ {n} /\ n \in DOMAIN buckets[b]
      BY <1>1, <2>1, <2>3, <3>1 DEF n
    <3>3. \A c \in Indices : c # b => DOMAIN (buckets'[c]) = DOMAIN buckets[c]
      BY <1>1, <2>3, <3>1
    <3> QED BY <1>1, <1>2, <3>2, <3>3 DEF Slots
  <2>5. /\ IsFiniteSet(Slots') /\ Cardinality(Slots') = Cardinality(Slots) - 1
        /\ Cardinality(Slots') \in Nat /\ Cardinality(Slots) \in Nat
    BY <2>4, FS_RemoveElement, FS_CardinalityType DEF CountOK
  <2>6. size' = Cardinality(Slots') + lost' /\ size' \in Nat /\ lost' \in Nat
    BY <1>1, <1>2, <1>5, <2>5 DEF CountOK, SizeCounts
  <2>7. ret' \in Seq(Pairs \cup Values)
    BY <1>5, <2>2
  <2>8. TypeOK'
    BY <1>2, <1>3, <2>3, <2>5, <2>6, <2>7, NoIteratorPoints DEF TypeOK
  <2> QED BY <1>2, <1>4, <2>5, <2>6, <2>8 DEF CountOK, SizeCounts
<1>6. ASSUME ret' = <<>>, UNCHANGED <<buckets, size>>
      PROVE  TableInv'
  <2> HIDE DEF b
  <2>1. ret' \in Seq(Pairs \cup Values)
    BY <1>6, EmptySeq
  <2>2. TypeOK'
    BY <1>2, <1>3, <1>6, <2>1, NoIteratorPoints DEF TypeOK
  <2>3. CountOK'
    BY <1>2, <1>6, SlotsSame DEF CountOK, SizeCounts
  <2> QED BY <1>4, <2>2, <2>3
<1> QED BY <1>5, <1>6 DEF RemoveElement

(* ht_getValues: every pair is ahead, no value is collected. *)
LEMMA StartValuesInv ==
  ASSUME TableInv, StartValues PROVE TableInv'
<1> USE DEF TableInv
<1>1. /\ pc = "idle" /\ pc' = "values" /\ local' = Begin /\ capacity > 0
      /\ UNCHANGED <<buckets, capacity, size, lost, open, it, index, out, ret>>
  BY DEF StartValues, table, iterator
<1>2. Placed(Begin)
  BY BeginPlaced
<1>3. PointsToPair(it)' /\ PointsToPair(local)'
  BY <1>1, <1>2, PlacedPoints DEF TypeOK, PointsToPair, HasNext
<1>4. out = <<>> /\ index = 0
  BY <1>1 DEF LoopOK
<1>5. TypeOK'
  <2>1. out' \in Seq(Values)
    BY <1>1, <1>4, EmptySeq
  <2> QED BY <1>1, <1>2, <1>3, <2>1, SlotsSame, PlacedPoints DEF TypeOK
<1>6. LoopOK'
  BY <1>1, <1>4 DEF LoopOK
<1>7. CountOK'
  <2>1. Slots' = Slots /\ Ahead(local)' = Slots
    BY <1>1, SlotsSame, AheadOfBegin DEF Ahead
  <2>2. /\ size = Cardinality(Slots) + lost /\ IsFiniteSet(Slots)
        /\ size \in Nat /\ lost \in Nat /\ Cardinality(Slots) \in Nat
    BY <1>1, FS_CardinalityType DEF CountOK, SizeCounts, TypeOK
  <2>3. /\ Begin.bucket \in 0 .. capacity
        /\ Begin.bucket < capacity => Begin.at # 0
    BY <1>2 DEF Placed
  <2>4. Len(out) = 0
    BY <1>4
  <2>5. Len(out') + Cardinality(Ahead(local)') + lost' = size'
    BY <1>1, <2>1, <2>2, <2>4
  <2> QED BY <1>1, <2>1, <2>2, <2>3, <2>5 DEF CountOK, SizeCounts
<1> QED BY <1>5, <1>6, <1>7

(* One turn of its loop moves one pair from ahead to collected. *)
LEMMA CollectValueInv ==
  ASSUME TableInv, CollectValue PROVE TableInv'
<1> USE DEF TableInv
<1>1. /\ pc = "values" /\ pc' = "values" /\ HasNext(local)
      /\ out' = Append(out, Current(local).value) /\ local' = After(local)
      /\ UNCHANGED <<buckets, capacity, size, lost, open, it, index, ret>>
  BY DEF CollectValue, table, iterator
<1>2. local \in Iterators /\ PointsToPair(local)
  BY DEF TypeOK
<1>3. Placed(After(local))
  BY <1>1, <1>2, AfterPlaced
<1>4. PointsToPair(it)' /\ PointsToPair(local)'
  BY <1>1, <1>3, PlacedPoints DEF TypeOK, PointsToPair, HasNext
<1>5. out \in Seq(Values) /\ Current(local).value \in Values
  BY <1>1, <1>2, CurrentPair DEF TypeOK, Pairs
<1>6. out' \in Seq(Values) /\ Len(out') = Len(out) + 1 /\ Len(out) \in Nat
  BY <1>1, <1>5
<1>7. TypeOK'
  BY <1>1, <1>3, <1>4, <1>6, SlotsSame, PlacedPoints DEF TypeOK
<1>8. LoopOK'
  BY <1>1 DEF LoopOK
<1>9. CountOK'
  <2> DEFINE a == Ahead(local)
             s == <<local.bucket, local.at>>
  <2>1. Slots' = Slots /\ Ahead(local)' = a \ {s} /\ s \in a
    BY <1>1, <1>2, SlotsSame, AheadOfAfter DEF Ahead
  <2>2. IsFiniteSet(Slots) /\ a \in SUBSET Slots
    BY DEF CountOK, Ahead
  <2>3. Len(out) + Cardinality(a) + lost = size /\ lost \in Nat
    BY <1>1 DEF CountOK, TypeOK
  <2> HIDE DEF a, s
  <2>4. IsFiniteSet(a) /\ Cardinality(a) \in Nat
    BY <2>2, FS_Subset, FS_CardinalityType
  <2>5. Cardinality(a \ {s}) = Cardinality(a) - 1
    BY <2>1, <2>4, FS_RemoveElement
  <2>6. Len(out') + Cardinality(Ahead(local)') + lost' = size'
    BY <1>1, <1>6, <2>1, <2>3, <2>4, <2>5
  <2>7. /\ After(local).bucket \in 0 .. capacity
        /\ After(local).bucket < capacity => After(local).at # 0
    BY <1>3 DEF Placed
  <2>8. IsFiniteSet(Slots') /\ SizeCounts'
    BY <1>1, <2>1 DEF CountOK, SizeCounts
  <2> QED BY <1>1, <2>6, <2>7, <2>8 DEF CountOK
<1> QED BY <1>7, <1>8, <1>9

(* Its return. *)
LEMMA EndValuesInv ==
  ASSUME TableInv, EndValues PROVE TableInv'
<1> USE DEF TableInv
<1>1. /\ pc = "values" /\ pc' = "idle" /\ local' = NoIterator /\ index' = 0
      /\ out' = <<>> /\ ret' = out
      /\ UNCHANGED <<buckets, capacity, size, lost, open, it>>
  BY DEF EndValues, EndLoop, table, iterator
<1>2. PointsToPair(it)' /\ PointsToPair(local)'
  BY <1>1, NoIteratorPoints DEF TypeOK, PointsToPair, HasNext
<1>3. ret' \in Seq(Pairs \cup Values) /\ out' \in Seq(Values)
  <2>1. out \in Seq(Values)
    BY <1>1 DEF TypeOK
  <2>2. out \in Seq(Pairs \cup Values)
    BY <2>1, SeqMonotonic
  <2> QED BY <1>1, <2>2, EmptySeq
<1>4. index' \in 0 .. capacity'
  BY <1>1, CapacityAssumption DEF TypeOK
<1>5. TypeOK'
  BY <1>1, <1>2, <1>3, <1>4, SlotsSame, NoIteratorPoints DEF TypeOK
<1>6. LoopOK'
  BY <1>1 DEF LoopOK
<1>7. CountOK'
  BY <1>1, SlotsSame DEF CountOK, SizeCounts
<1> QED BY <1>5, <1>6, <1>7

(* ht_freeTable *)
LEMMA StartFreeInv ==
  ASSUME TableInv, StartFree PROVE TableInv'
<1> USE DEF TableInv
<1>1. /\ pc = "idle" /\ pc' = "free" /\ open' = FALSE /\ it' = NoIterator
      /\ capacity > 0
      /\ UNCHANGED <<buckets, capacity, size, lost, local, index, out, ret>>
  BY DEF StartFree, CloseIterator, table
<1>2. out = <<>> /\ local = NoIterator
  BY <1>1 DEF LoopOK
<1>3. PointsToPair(it)' /\ PointsToPair(local)'
  BY <1>1, <1>2, NoIteratorPoints
<1>4. out' \in Seq(Pairs)
  BY <1>1, <1>2, EmptySeq
<1>5. TypeOK'
  BY <1>1, <1>3, <1>4, SlotsSame, NoIteratorPoints DEF TypeOK
<1>6. LoopOK'
  BY <1>1, <1>2 DEF LoopOK
<1>7. CountOK'
  BY <1>1, SlotsSame DEF CountOK, SizeCounts
<1> QED BY <1>5, <1>6, <1>7

(* One turn of its loop. *)
LEMMA FreeBucketInv ==
  ASSUME TableInv, FreeBucket PROVE TableInv'
<1> USE DEF TableInv
<1>1. /\ pc = "free" /\ pc' = "free" /\ index < capacity /\ index' = index + 1
      /\ out' = out \o buckets[index]
      /\ buckets' = [buckets EXCEPT ![index] = <<>>]
      /\ UNCHANGED <<capacity, size, lost, open, it, local, ret>>
      /\ Indices' = Indices
  BY DEF FreeBucket, iterator, Indices
<1>2. capacity \in Nat /\ index \in Indices /\ index' \in 0 .. capacity
  BY <1>1, CapacityAssumption DEF TypeOK, Indices
<1>3. buckets \in [Indices -> Seq(Pairs)] /\ buckets[index] \in Seq(Pairs)
  BY <1>2 DEF TypeOK
<1>4. buckets' \in [Indices -> Seq(Pairs)]
  BY <1>1, <1>3, EmptySeq
<1>5. out' \in Seq(Pairs)
  <2>1. out \in Seq(Pairs)
    BY <1>1 DEF TypeOK
  <2> QED BY <1>1, <1>3, <2>1, ConcatProperties
<1>6. PointsToPair(it)' /\ PointsToPair(local)'
  BY <1>1, NoIteratorPoints DEF LoopOK
<1>7. TypeOK'
  BY <1>1, <1>2, <1>4, <1>5, <1>6 DEF TypeOK
<1>8. LoopOK'
  BY <1>1, <1>2 DEF LoopOK
<1>9. CountOK'
  <2>1. Slots' \in SUBSET Slots
    <3>1. \A b \in Indices : DOMAIN (buckets'[b]) \subseteq DOMAIN buckets[b]
      BY <1>1, <1>2, <1>3
    <3> QED BY <1>1, <3>1 DEF Slots
  <2>2. IsFiniteSet(Slots')
    BY <2>1, FS_Subset DEF CountOK
  <2> QED BY <1>1, <2>2 DEF CountOK, SizeCounts
<1> QED BY <1>7, <1>8, <1>9

(* Its return. *)
LEMMA EndFreeInv ==
  ASSUME TableInv, EndFree PROVE TableInv'
<1> USE DEF TableInv
<1>1. /\ pc = "free" /\ pc' = "idle" /\ local' = NoIterator /\ index' = 0
      /\ out' = <<>> /\ ret' = out
      /\ buckets' = [i \in {} |-> <<>>] /\ capacity' = 0 /\ size' = 0 /\ lost' = 0
      /\ UNCHANGED <<open, it>>
  BY DEF EndFree, EndLoop, iterator
<1>2. Indices' = {}
  BY <1>1 DEF Indices
<1>3. it = NoIterator
  BY <1>1 DEF LoopOK
<1>4. PointsToPair(it)' /\ PointsToPair(local)'
  BY <1>1, <1>3, NoIteratorPoints
<1>5. ret' \in Seq(Pairs \cup Values)
  <2>1. out \in Seq(Pairs)
    BY <1>1 DEF TypeOK
  <2> QED BY <1>1, <2>1, SeqMonotonic
<1>6. out' \in Seq(Values) /\ index' \in 0 .. capacity'
  BY <1>1, EmptySeq
<1>7. buckets' \in [Indices' -> Seq(Pairs)]
  BY <1>1, <1>2
<1>8. TypeOK'
  BY <1>1, <1>3, <1>4, <1>5, <1>6, <1>7, NoIteratorPoints DEF TypeOK
<1>9. LoopOK'
  BY <1>1, <1>3 DEF LoopOK
<1>10. CountOK'
  <2>1. Slots' = {}
    BY <1>2 DEF Slots
  <2> QED BY <1>1, <2>1, FS_EmptySet DEF CountOK, SizeCounts
<1> QED BY <1>8, <1>9, <1>10

(* Every step of the specification. *)
LEMMA StepInv ==
  ASSUME TableInv, [Next]_vars PROVE TableInv'
<1>1. CASE CreateTable
  BY <1>1, CreateTableInv
<1>2. CASE CreateIterator
  BY <1>2, CreateIteratorInv
<1>3. CASE IteratorNext
  BY <1>3, IteratorNextInv
<1>4. CASE \E k \in Keys : RemoveElement(k)
  BY <1>4, RemoveElementInv
<1>5. CASE \E k \in Keys : GetValue(k)
  BY <1>5, GetValueInv
<1>6. CASE \E k \in Keys, v \in Values : InsertElement(k, v)
  BY <1>6, InsertElementInv
<1>7. CASE StartValues
  BY <1>7, StartValuesInv
<1>8. CASE StartFree
  BY <1>8, StartFreeInv
<1>9. CASE CollectValue
  BY <1>9, CollectValueInv
<1>10. CASE EndValues
  BY <1>10, EndValuesInv
<1>11. CASE FreeBucket
  BY <1>11, FreeBucketInv
<1>12. CASE EndFree
  BY <1>12, EndFreeInv
<1>13. CASE \E k \in Keys, v \in Values : InsertElementFails(k, v)
  BY <1>13, InsertElementFailsInv
<1>14. CASE UNCHANGED vars
  <2>1. UNCHANGED <<buckets, capacity, size, lost, open, it, pc, local, index, out, ret>>
    BY <1>14 DEF vars, table, iterator, loop
  <2>2. Slots' = Slots /\ Ahead(local)' = Ahead(local) /\ Indices' = Indices
    BY <2>1, SlotsSame DEF Ahead
  <2>3. TypeOK'
    BY <2>1, <2>2 DEF TableInv, TypeOK, PointsToPair, HasNext
  <2> QED BY <2>1, <2>2, <2>3 DEF TableInv, LoopOK, CountOK, SizeCounts
<1> QED
  BY <1>1, <1>2, <1>3, <1>4, <1>5, <1>6, <1>7, <1>8, <1>9, <1>10, <1>11, <1>12,
     <1>13, <1>14
  DEF Next, Loop

(* The invariant of the table. *)
LEMMA TableInvariant == Spec => []TableInv
<1>1. TableInv /\ [Next]_vars => TableInv'
  BY StepInv
<1> QED BY InitInv, <1>1, PTL DEF Spec

(* Every field of the table keeps its type, and an iterator that has a next *)
(* pair points to a pair that is there, for every hash function.            *)
THEOREM TableTypeCorrect == Spec => []TypeOK
BY TableInvariant, PTL DEF TableInv

(* size is the number of pairs and of failed insertions, whatever the calls. *)
THEOREM SizeCorrect == Spec => []SizeCounts
<1>1. TableInv => SizeCounts
  BY DEF TableInv, CountOK
<1> QED BY TableInvariant, <1>1, PTL

(* ht_getValues fills the array it allocated, but for one entry for every    *)
(* insertion that failed.                                                    *)
THEOREM ValuesFitArray == Spec => []ValuesFit
<1>1. TableInv => ValuesFit
  <2> SUFFICES ASSUME TableInv, pc = "values"
               PROVE  /\ Len(out) + lost <= size
                      /\ ~HasNext(local) => Len(out) + lost = size
    BY DEF ValuesFit
  <2>1. /\ IsFiniteSet(Slots) /\ Ahead(local) \in SUBSET Slots
        /\ Len(out) + Cardinality(Ahead(local)) + lost = size
        /\ local \in Iterators /\ TypeOK /\ out \in Seq(Values) /\ lost \in Nat
    BY DEF TableInv, CountOK, Ahead, TypeOK
  <2>2. Cardinality(Ahead(local)) \in Nat /\ Len(out) \in Nat
    BY <2>1, FS_Subset, FS_CardinalityType
  <2>3. ASSUME ~HasNext(local) PROVE Len(out) + lost = size
    <3>1. local.bucket = capacity
      BY <2>3, CapacityAssumption DEF TableInv, CountOK, TypeOK, HasNext
    <3>2. Cardinality(Ahead(local)) = 0
      BY <2>1, <3>1, AheadOfEnd, FS_EmptySet
    <3> QED BY <2>1, <2>2, <3>2
  <2> QED BY <2>1, <2>2, <2>3
<1> QED BY TableInvariant, <1>1, PTL
-----------------------------------------------------------------------------
(* Look-ups *)

(* What a look-up needs of the list s of bucket b. *)
Distinct(s, b) ==
  \A i \in 1 .. Len(s) :
    /\ BucketOf(s[i].key) = b
    /\ \A j \in 1 .. i - 1 : Name[s[i].key] # Name[s[j].key]

(* Look-ups find what is stored when the keys of a list are different. *)
LEMMA FoundIffDistinct ==
  ASSUME TypeOK, HasComparator
  PROVE  PairsFound <=> \A b \in Indices : Distinct(buckets[b], b)
<1>1. \A b \in Indices : DOMAIN buckets[b] = 1 .. Len(buckets[b])
  BY DEF TypeOK
<1>2. ASSUME NEW b \in Indices, NEW i \in DOMAIN buckets[b]
      PROVE  BucketOf(buckets[b][i].key) = b =>
               (IsFirstMatch(buckets[b][i].key, i) <=>
                 \A j \in 1 .. i - 1 : Name[buckets[b][i].key] # Name[buckets[b][j].key])
  BY <1>2 DEF IsFirstMatch, Matches
<1> QED BY <1>1, <1>2 DEF PairsFound, Distinct

(* The same of the next state. *)
LEMMA FoundIffDistinctNext ==
  ASSUME TypeOK', HasComparator
  PROVE  PairsFound' <=> \A b \in Indices' : Distinct(buckets[b], b)'
<1>1. \A b \in Indices' : DOMAIN (buckets'[b]) = 1 .. Len(buckets'[b])
  BY DEF TypeOK
<1>2. ASSUME NEW b \in Indices', NEW i \in DOMAIN (buckets'[b])
      PROVE  BucketOf(buckets[b][i].key)' = b =>
               (IsFirstMatch(buckets[b][i].key, i)' <=>
                 \A j \in 1 .. i - 1 : Name[buckets'[b][i].key] # Name[buckets'[b][j].key])
  BY <1>2 DEF IsFirstMatch, Matches
<1> QED BY <1>1, <1>2 DEF PairsFound, Distinct

(* A pair is added only where a look-up of its key finds nothing. *)
LEMMA InsertFound ==
  ASSUME TableInv, TypeOK', PairsFound, HasComparator,
         NEW k \in Keys, NEW v \in Values, InsertElement(k, v)
  PROVE  PairsFound'
<1> DEFINE b == BucketOf(k)
           pair == [key |-> k, value |-> v]
<1>1. /\ b \in Indices /\ buckets[b] \in Seq(Pairs)
      /\ buckets \in [Indices -> Seq(Pairs)]
  <2>1. TypeOK /\ capacity > 0
    BY DEF TableInv, InsertElement
  <2>2. b \in Indices /\ buckets[b] \in Seq(Pairs)
    BY <2>1, BucketOfKey
  <2> HIDE DEF b
  <2> QED BY <2>1, <2>2 DEF TypeOK
<1>2. capacity' = capacity /\ Indices' = Indices
  BY DEF InsertElement, Indices
<1>3. \A c \in Indices : Distinct(buckets[c], c)
  BY FoundIffDistinct DEF TableInv
<1>4. SUFFICES \A c \in Indices : Distinct(buckets'[c], c)
  BY <1>2, FoundIffDistinctNext DEF Distinct, BucketOf
<1>5. ASSUME NEW i \in 1 .. Len(buckets[b]),
             buckets' = [buckets EXCEPT ![b][i] = [key |-> @.key, value |-> v]],
             NEW c \in Indices
      PROVE  Distinct(buckets'[c], c)
  <2> DEFINE new == [key |-> buckets[b][i].key, value |-> v]
             s == [buckets[b] EXCEPT ![i] = new]
  <2>1. buckets' = [buckets EXCEPT ![b] = s]
    BY <1>5
  <2>2. /\ Len(s) = Len(buckets[b])
        /\ \A j \in 1 .. Len(buckets[b]) : s[j] = IF j = i THEN new ELSE buckets[b][j]
    BY <1>1
  <2>3. \A j \in 1 .. Len(buckets[b]) : s[j].key = buckets[b][j].key
    BY <2>2
  <2> HIDE DEF s, new, b
  <2>4. Distinct(s, b)
    <3>1. Distinct(buckets[b], b)
      BY <1>1, <1>3
    <3>2. Len(buckets[b]) \in Nat
      BY <1>1
    <3> QED BY <2>2, <2>3, <3>1, <3>2, SMTT(30) DEF Distinct
  <2>5. buckets'[c] = IF c = b THEN s ELSE buckets[c]
    BY <1>1, <2>1
  <2> QED BY <1>3, <2>4, <2>5
<1>6. ASSUME \A i \in 1 .. Len(buckets[b]) : ~IsFirstMatch(k, i),
             buckets' = [buckets EXCEPT ![b] = Append(@, pair)],
             NEW c \in Indices
      PROVE  Distinct(buckets'[c], c)
  <2>1. ASSUME NEW i \in 1 .. Len(buckets[b]), Name[k] = Name[buckets[b][i].key]
        PROVE  FALSE
    <3> DEFINE S == {j \in 1 .. Len(buckets[b]) : Name[k] = Name[buckets[b][j].key]}
    <3>1. S \in SUBSET Nat /\ S # {}
      BY <2>1
    <3>2. PICK m \in S : \A j \in S : m <= j
      <4> HIDE DEF S
      <4> QED BY <3>1, MinNat
    <3>3. /\ m \in 1 .. Len(buckets[b]) /\ Name[k] = Name[buckets[b][m].key]
          /\ Len(buckets[b]) \in Nat
      BY <1>1, <3>2
    <3>4. ASSUME NEW j \in 1 .. m - 1 PROVE Name[k] # Name[buckets[b][j].key]
      <4>1. j \in 1 .. Len(buckets[b]) /\ ~(m <= j)
        BY <3>3
      <4>2. j \notin S
        BY <3>2, <4>1
      <4> QED BY <4>1, <4>2
    <3>5. DOMAIN buckets[b] = 1 .. Len(buckets[b])
      BY <1>1
    <3>6. IsFirstMatch(k, m)
      BY <3>3, <3>4, <3>5 DEF IsFirstMatch, Matches
    <3> QED BY <1>6, <3>3, <3>6
  <2> DEFINE n == Len(buckets[b]) + 1
             s == Append(buckets[b], pair)
  <2>2. /\ Len(s) = n /\ n \in Nat
        /\ s[n].key = k
        /\ \A j \in 1 .. Len(buckets[b]) : s[j] = buckets[b][j]
    BY <1>1
  <2>3. Distinct(s, b)
    <3> SUFFICES ASSUME NEW i \in 1 .. n
                 PROVE  /\ BucketOf(s[i].key) = b
                        /\ \A j \in 1 .. i - 1 : Name[s[i].key] # Name[s[j].key]
      BY <2>2 DEF Distinct
    <3>1. Len(buckets[b]) \in Nat /\ Distinct(buckets[b], b)
      BY <1>1, <1>3
    <3>2. CASE i = n
      BY <2>1, <2>2, <3>1, <3>2
    <3>3. CASE i \in 1 .. Len(buckets[b])
      <4>1. \A j \in 1 .. i - 1 : s[j] = buckets[b][j]
        BY <2>2, <3>1, <3>3
      <4> HIDE DEF s
      <4> QED BY <2>2, <3>1, <3>3, <4>1, SMTT(30) DEF Distinct
    <3> QED BY <3>1, <3>2, <3>3
  <2>4. buckets'[c] = IF c = b THEN s ELSE buckets[c]
    BY <1>1, <1>6
  <2> HIDE DEF s
  <2> QED BY <1>3, <2>3, <2>4
<1> HIDE DEF pair
<1> QED BY <1>5, <1>6 DEF InsertElement, pair

(* A removal keeps the others, in their order. *)
LEMMA RemoveFoundStill ==
  ASSUME TableInv, TypeOK', PairsFound, HasComparator,
         NEW k \in Keys, RemoveElement(k)
  PROVE  PairsFound'
<1> DEFINE b == BucketOf(k)
<1>1. /\ b \in Indices /\ buckets[b] \in Seq(Pairs)
      /\ buckets \in [Indices -> Seq(Pairs)]
  <2>1. TypeOK /\ capacity > 0
    BY DEF TableInv, RemoveElement
  <2>2. b \in Indices /\ buckets[b] \in Seq(Pairs)
    BY <2>1, BucketOfKey
  <2> HIDE DEF b
  <2> QED BY <2>1, <2>2 DEF TypeOK
<1>2. capacity' = capacity /\ Indices' = Indices
  BY DEF RemoveElement, Indices
<1>3. \A c \in Indices : Distinct(buckets[c], c)
  BY FoundIffDistinct DEF TableInv
<1>4. SUFFICES \A c \in Indices : Distinct(buckets'[c], c)
  BY <1>2, FoundIffDistinctNext DEF Distinct, BucketOf
<1>5. ASSUME NEW i \in 1 .. Len(buckets[b]),
             buckets' = [buckets EXCEPT ![b] = RemoveAt(@, i)],
             NEW c \in Indices
      PROVE  Distinct(buckets'[c], c)
  <2> DEFINE s == RemoveAt(buckets[b], i)
             n == Len(buckets[b])
  <2> HIDE DEF b
  <2>1. /\ Len(s) = n - 1 /\ n \in Nat
        /\ \A j \in 1 .. n - 1 :
             s[j] = IF j < i THEN buckets[b][j] ELSE buckets[b][j + 1]
    BY <1>1, RemoveAtProperties
  <2>2. Distinct(s, b)
    <3> SUFFICES ASSUME NEW x \in 1 .. n - 1
                 PROVE  /\ BucketOf(s[x].key) = b
                        /\ \A y \in 1 .. x - 1 : Name[s[x].key] # Name[s[y].key]
      BY <2>1 DEF Distinct
    <3> DEFINE from(y) == IF y < i THEN y ELSE y + 1
    <3>1. /\ from(x) \in 1 .. n
          /\ \A y \in 1 .. x - 1 : from(y) \in 1 .. from(x) - 1
      BY <2>1
    <3>2. /\ s[x] = buckets[b][from(x)]
          /\ \A y \in 1 .. x - 1 : s[y] = buckets[b][from(y)]
      BY <2>1, SMTT(30)
    <3>3. Distinct(buckets[b], b)
      BY <1>1, <1>3
    <3> HIDE DEF from, s
    <3> QED BY <3>1, <3>2, <3>3, SMTT(30) DEF Distinct
  <2>3. buckets'[c] = IF c = b THEN s ELSE buckets[c]
    BY <1>1, <1>5
  <2> HIDE DEF s
  <2> QED BY <1>3, <2>2, <2>3
<1>6. ASSUME UNCHANGED buckets, NEW c \in Indices
      PROVE  Distinct(buckets'[c], c)
  BY <1>3, <1>6
<1> QED BY <1>5, <1>6 DEF RemoveElement

(* Every step. *)
LEMMA FoundStep ==
  ASSUME TableInv, TypeOK', PairsFound, [Next]_vars PROVE PairsFound'
<1> SUFFICES ASSUME HasComparator PROVE PairsFound'
  BY DEF PairsFound
<1>1. CASE UNCHANGED <<buckets, capacity>>
  <2>1. Indices' = Indices
    BY <1>1 DEF Indices
  <2>2. \A b \in Indices : Distinct(buckets[b], b)
    BY FoundIffDistinct DEF TableInv
  <2>3. \A b \in Indices' : Distinct(buckets[b], b)'
    BY <1>1, <2>1, <2>2 DEF Distinct, BucketOf
  <2> QED BY <2>3, FoundIffDistinctNext
<1>2. CASE CreateTable
  <2>1. \A b \in Indices' : buckets'[b] = <<>>
    BY <1>2, CapacityAssumption DEF CreateTable, Indices
  <2> QED BY <2>1 DEF PairsFound
<1>3. CASE EndFree
  <2>1. Indices' = {}
    BY <1>3 DEF EndFree, Indices
  <2> QED BY <2>1 DEF PairsFound
<1>4. CASE FreeBucket
  <2>1. /\ buckets' = [buckets EXCEPT ![index] = <<>>] /\ capacity' = capacity
        /\ Indices' = Indices /\ buckets \in [Indices -> Seq(Pairs)]
    BY <1>4 DEF FreeBucket, Indices, TableInv, TypeOK
  <2>2. \A b \in Indices : Distinct(buckets[b], b)
    BY FoundIffDistinct DEF TableInv
  <2>3. \A b \in Indices : Distinct(buckets'[b], b)
    BY <2>1, <2>2 DEF Distinct
  <2> QED BY <2>1, <2>3, FoundIffDistinctNext DEF Distinct, BucketOf
<1>5. CASE \E k \in Keys, v \in Values : InsertElement(k, v)
  BY <1>5, InsertFound
<1>6. CASE \E k \in Keys : RemoveElement(k)
  BY <1>6, RemoveFoundStill
<1> QED
  BY <1>1, <1>2, <1>3, <1>4, <1>5, <1>6
  DEF Next, Loop, vars, table, CreateIterator, IteratorNext, GetValue,
      StartValues, StartFree, CollectValue, EndValues, InsertElementFails

(* With a key comparator, every pair of the table is the one that a look-up *)
(* of its key finds.                                                        *)
THEOREM LookUpsFindPairs == Spec => []PairsFound
<1>1. Init => PairsFound
  BY DEF Init, PairsFound, Indices
<1>2. TableInv /\ TableInv' /\ PairsFound /\ [Next]_vars => PairsFound'
  BY FoundStep DEF TableInv
<1> QED BY TableInvariant, <1>1, <1>2, PTL DEF Spec
-----------------------------------------------------------------------------
(***************************************************************************)
(* The refinement of KeyValueMap by a table with a key comparator.  MapInv *)
(* adds to PairsFound what the two loops have behind them: ht_getValues    *)
(* the value of every pair its iterator has left, each once (Collected),   *)
(* ht_freeTable every pair of the buckets it has emptied, no name twice    *)
(* (Destroyed).                                                            *)
(***************************************************************************)

(* the pair in a slot *)
PairAt(s) == buckets[s[1]][s[2]]

NamesDiffer(S) == \A p, q \in S : Name[p.key] = Name[q.key] => p = q

Collected ==
  pc = "values" =>
    \E e \in [1 .. Len(out) -> Slots \ Ahead(local)] :
      /\ \A i, j \in 1 .. Len(out) : e[i] = e[j] => i = j
      /\ \A s \in Slots \ Ahead(local) : \E i \in 1 .. Len(out) : e[i] = s
      /\ \A i \in 1 .. Len(out) : out[i] = PairAt(e[i]).value

Destroyed ==
  pc = "free" =>
    /\ ~open
    /\ \A b \in Indices : b < index => buckets[b] = <<>>
    /\ \A i, j \in 1 .. Len(out) : Name[out[i].key] = Name[out[j].key] => i = j
    /\ \A i \in 1 .. Len(out), s \in Slots : Name[out[i].key] # Name[PairAt(s).key]

MapInv == TableInv /\ PairsFound /\ Collected /\ Destroyed

(* A slot is a bucket and a position, and holds a pair. *)
LEMMA SlotPair ==
  ASSUME TypeOK, NEW s \in Slots
  PROVE  /\ s = <<s[1], s[2]>> /\ s[1] \in Indices
         /\ s[2] \in 1 .. Len(buckets[s[1]]) /\ s[2] \in Nat
         /\ PairAt(s) \in Pairs /\ PairAt(s).key \in Keys
<1>1. PICK b \in Indices : \E i \in 1 .. Len(buckets[b]) : s = <<b, i>>
  BY InSlots
<1>2. PICK i \in 1 .. Len(buckets[b]) : s = <<b, i>>
  BY <1>1
<1>3. s[1] = b /\ s[2] = i
  BY <1>2
<1>4. buckets[b] \in Seq(Pairs)
  BY DEF TypeOK
<1>5. buckets[b][i] \in Pairs
  BY <1>4
<1>6. buckets[b][i].key \in Keys
  BY <1>5 DEF Pairs
<1> QED BY <1>2, <1>3, <1>5, <1>6 DEF PairAt

(* No two slots hold keys that compare equal. *)
LEMMA SlotsDiffer ==
  ASSUME TypeOK, PairsFound, HasComparator, NEW s \in Slots, NEW t \in Slots,
         Name[PairAt(s).key] = Name[PairAt(t).key]
  PROVE  s = t
<1>1. /\ s = <<s[1], s[2]>> /\ s[1] \in Indices /\ s[2] \in 1 .. Len(buckets[s[1]])
      /\ t = <<t[1], t[2]>> /\ t[1] \in Indices /\ t[2] \in 1 .. Len(buckets[t[1]])
      /\ PairAt(s).key \in Keys /\ PairAt(t).key \in Keys
  BY SlotPair
<1>2. Distinct(buckets[s[1]], s[1]) /\ Distinct(buckets[t[1]], t[1])
  BY <1>1, FoundIffDistinct
<1>3. BucketOf(PairAt(s).key) = s[1] /\ BucketOf(PairAt(t).key) = t[1]
  BY <1>1, <1>2 DEF Distinct, PairAt
<1>4. Hash[PairAt(s).key] = Hash[PairAt(t).key]
  BY <1>1, HashAssumption
<1>5. s[1] = t[1]
  BY <1>3, <1>4 DEF BucketOf
<1>6. ~(s[2] < t[2]) /\ ~(t[2] < s[2])
  <2>1. s[2] \in Int /\ t[2] \in Int
    BY <1>1
  <2>2. ASSUME s[2] < t[2] PROVE FALSE
    <3>1. s[2] \in 1 .. t[2] - 1
      BY <1>1, <2>2
    <3> QED BY <1>1, <1>2, <1>5, <3>1 DEF Distinct, PairAt
  <2>3. ASSUME t[2] < s[2] PROVE FALSE
    <3>1. t[2] \in 1 .. s[2] - 1
      BY <1>1, <2>3
    <3> QED BY <1>1, <1>2, <1>5, <3>1 DEF Distinct, PairAt
  <2> QED BY <2>2, <2>3
<1>7. s[2] = t[2]
  BY <1>1, <1>6
<1> QED BY <1>1, <1>5, <1>7

(* The pairs of the map: those of the slots, and those destroyed so far. *)
LEMMA StoredPairs ==
  ASSUME TableInv
  PROVE  /\ pc # "free" => Stored = {PairAt(s) : s \in Slots}
         /\ pc = "free" =>
              Stored = {PairAt(s) : s \in Slots} \cup {out[i] : i \in 1 .. Len(out)}
<1>1. pc = "free" => DOMAIN out = 1 .. Len(out)
  BY DEF TableInv, TypeOK
<1> QED BY <1>1 DEF Stored, PairAt

(* No two of them have the same name. *)
LEMMA StoredDiffer ==
  ASSUME MapInv, HasComparator
  PROVE  Stored \subseteq Pairs /\ NamesDiffer(Stored)
<1>1. TableInv /\ TypeOK /\ PairsFound /\ Destroyed
  BY DEF MapInv, TableInv
<1>2. \A s \in Slots : PairAt(s) \in Pairs
  BY <1>1, SlotPair
<1>3. \A s, t \in Slots :
        Name[PairAt(s).key] = Name[PairAt(t).key] => PairAt(s) = PairAt(t)
  BY <1>1, SlotsDiffer
<1>4. CASE pc # "free"
  BY <1>1, <1>2, <1>3, <1>4, StoredPairs DEF NamesDiffer
<1>5. CASE pc = "free"
  <2>1. Stored = {PairAt(s) : s \in Slots} \cup {out[i] : i \in 1 .. Len(out)}
    BY <1>1, <1>5, StoredPairs
  <2>2. \A i \in 1 .. Len(out) : out[i] \in Pairs
    BY <1>1, <1>5 DEF TypeOK
  <2>3. /\ \A i, j \in 1 .. Len(out) :
             Name[out[i].key] = Name[out[j].key] => out[i] = out[j]
        /\ \A i \in 1 .. Len(out), s \in Slots : Name[out[i].key] # Name[PairAt(s).key]
    BY <1>1, <1>5 DEF Destroyed
  <2> QED BY <1>2, <1>3, <2>1, <2>2, <2>3 DEF NamesDiffer
<1> QED BY <1>4, <1>5
-----------------------------------------------------------------------------
(* Maps made of pairs *)

With(f, n, p) == [m \in DOMAIN f \cup {n} |-> IF m = n THEN p ELSE f[m]]
WithValue(f, n, v) == [f EXCEPT ![n].value = v]

LEMMA MapOfIs ==
  ASSUME NEW S, NamesDiffer(S)
  PROVE  /\ DOMAIN MapOf(S) = {Name[p.key] : p \in S}
         /\ \A p \in S : MapOf(S)[Name[p.key]] = p
         /\ \A n \in DOMAIN MapOf(S) : MapOf(S)[n] \in S /\ Name[MapOf(S)[n].key] = n
<1>1. ASSUME NEW p \in S PROVE p = CHOOSE q \in S : Name[q.key] = Name[p.key]
  BY DEF NamesDiffer
<1>2. \A p \in S : MapOf(S)[Name[p.key]] = p
  BY <1>1 DEF MapOf
<1> QED BY <1>2 DEF MapOf

(* There is one map whose values are the pairs of S. *)
LEMMA MapOfEquals ==
  ASSUME NEW S, NamesDiffer(S), NEW f, f = [n \in {Name[p.key] : p \in S} |-> f[n]],
         \A p \in S : f[Name[p.key]] = p
  PROVE  MapOf(S) = f
<1>1. MapOf(S) = [n \in {Name[p.key] : p \in S} |-> MapOf(S)[n]]
  BY DEF MapOf
<1>2. ASSUME NEW n \in {Name[p.key] : p \in S} PROVE MapOf(S)[n] = f[n]
  BY MapOfIs
<1> QED BY <1>1, <1>2

(* A pair with a new name is added. *)
LEMMA MapOfAdded ==
  ASSUME NEW S, NamesDiffer(S), NEW q, \A p \in S : Name[p.key] # Name[q.key]
  PROVE  MapOf(S \cup {q}) = With(MapOf(S), Name[q.key], q)
<1> DEFINE f == [n \in DOMAIN MapOf(S) \cup {Name[q.key]} |->
                   IF n = Name[q.key] THEN q ELSE MapOf(S)[n]]
           T == S \cup {q}
<1>1. DOMAIN MapOf(S) = {Name[p.key] : p \in S} /\ \A p \in S : MapOf(S)[Name[p.key]] = p
  BY MapOfIs
<1>2. NamesDiffer(T)
  BY DEF NamesDiffer
<1>3. {Name[p.key] : p \in T} = DOMAIN MapOf(S) \cup {Name[q.key]}
  BY <1>1
<1>4. f = [n \in {Name[p.key] : p \in T} |-> f[n]]
  BY <1>3
<1>5. \A p \in T : f[Name[p.key]] = p
  BY <1>1
<1> HIDE DEF f, T
<1>6. MapOf(T) = f
  BY <1>2, <1>4, <1>5, MapOfEquals
<1> QED BY <1>6 DEF f, T, With

(* A pair leaves. *)
LEMMA MapOfDropped ==
  ASSUME NEW S, NamesDiffer(S), NEW q \in S
  PROVE  MapOf(S \ {q}) = [n \in DOMAIN MapOf(S) \ {Name[q.key]} |-> MapOf(S)[n]]
<1> DEFINE f == [n \in DOMAIN MapOf(S) \ {Name[q.key]} |-> MapOf(S)[n]]
           T == S \ {q}
<1>1. DOMAIN MapOf(S) = {Name[p.key] : p \in S} /\ \A p \in S : MapOf(S)[Name[p.key]] = p
  BY MapOfIs
<1>2. NamesDiffer(T)
  BY DEF NamesDiffer
<1>3. {Name[p.key] : p \in T} = DOMAIN MapOf(S) \ {Name[q.key]}
  BY <1>1 DEF NamesDiffer
<1>4. f = [n \in {Name[p.key] : p \in T} |-> f[n]]
  BY <1>3
<1>5. \A p \in T : f[Name[p.key]] = p
  <2> SUFFICES ASSUME NEW p \in T PROVE f[Name[p.key]] = p
    OBVIOUS
  <2>1. Name[p.key] \in DOMAIN MapOf(S) \ {Name[q.key]}
    BY <1>3
  <2> QED BY <1>1, <2>1
<1> HIDE DEF f, T
<1>6. MapOf(T) = f
  BY <1>2, <1>4, <1>5, MapOfEquals
<1> QED BY <1>6 DEF f, T

(* A pair gets another value. *)
LEMMA MapOfReplaced ==
  ASSUME NEW S \in SUBSET Pairs, NamesDiffer(S), NEW p \in S, NEW v
  PROVE  MapOf((S \ {p}) \cup {[key |-> p.key, value |-> v]})
           = WithValue(MapOf(S), Name[p.key], v)
<1> DEFINE q == [key |-> p.key, value |-> v]
           T == (S \ {p}) \cup {q}
           f == [MapOf(S) EXCEPT ![Name[p.key]].value = v]
<1>1. /\ DOMAIN MapOf(S) = {Name[r.key] : r \in S}
      /\ \A r \in S : MapOf(S)[Name[r.key]] = r
  BY MapOfIs
<1>2. q.key = p.key /\ [p EXCEPT !.value = v] = q
  BY DEF Pairs
<1>3. \A r \in S : r # p => Name[r.key] # Name[p.key]
  BY DEF NamesDiffer
<1>4. DOMAIN f = DOMAIN MapOf(S) /\ f = [n \in DOMAIN MapOf(S) |-> f[n]]
      /\ Name[p.key] \in DOMAIN MapOf(S)
  <2>1. Name[p.key] \in DOMAIN MapOf(S)
    BY <1>1
  <2>2. f = [n \in DOMAIN MapOf(S) |-> f[n]] /\ DOMAIN f = DOMAIN MapOf(S)
    OBVIOUS
  <2> QED BY <2>1, <2>2
<1>5. /\ f[Name[p.key]] = q
      /\ \A n \in DOMAIN MapOf(S) : n # Name[p.key] => f[n] = MapOf(S)[n]
  <2>1. MapOf(S)[Name[p.key]] = p
    BY <1>1
  <2>2. f[Name[p.key]] = [p EXCEPT !.value = v]
    BY <1>4, <2>1 DEF MapOf
  <2>3. \A n \in DOMAIN MapOf(S) : n # Name[p.key] => f[n] = MapOf(S)[n]
    BY DEF MapOf
  <2> QED BY <1>2, <2>2, <2>3
<1> HIDE DEF f, q
<1>6. NamesDiffer(T)
  BY <1>2, <1>3 DEF NamesDiffer
<1>7. {Name[r.key] : r \in T} = DOMAIN MapOf(S)
  BY <1>1, <1>2
<1>8. \A r \in T : f[Name[r.key]] = r
  BY <1>1, <1>2, <1>3, <1>5
<1> HIDE DEF T
<1>9. MapOf(T) = f
  BY <1>4, <1>6, <1>7, <1>8, MapOfEquals
<1> QED BY <1>9 DEF f, q, T, WithValue
-----------------------------------------------------------------------------
(* What the changes of a bucket do to the slots *)

(* In the next state a slot is still a position of a list. *)
LEMMA InSlotsNext ==
  ASSUME TypeOK', NEW s
  PROVE  s \in Slots' <=>
           \E b \in Indices' : \E i \in 1 .. Len(buckets'[b]) : s = <<b, i>>
<1>1. ASSUME NEW b \in Indices' PROVE DOMAIN (buckets'[b]) = 1 .. Len(buckets'[b])
  BY DEF TypeOK
<1> QED BY <1>1 DEF Slots

(* A pair is appended: one more slot. *)
LEMMA SlotAppended ==
  ASSUME TypeOK, NEW b \in Indices, NEW q,
         buckets' = [buckets EXCEPT ![b] = Append(@, q)], capacity' = capacity,
         NEW n, n = Len(buckets[b]) + 1
  PROVE  /\ Slots' = Slots \cup {<<b, n>>}
         /\ PairAt(<<b, n>>)' = q
         /\ \A s \in Slots : PairAt(s)' = PairAt(s)
<1>1. /\ buckets \in [Indices -> Seq(Pairs)] /\ buckets[b] \in Seq(Pairs)
      /\ Len(buckets[b]) \in Nat /\ n \in Nat /\ Indices' = Indices
  BY DEF TypeOK, Indices
<1>2. /\ buckets'[b] = Append(buckets[b], q)
      /\ \A c \in Indices : c # b => buckets'[c] = buckets[c]
  BY <1>1
<1>3. /\ DOMAIN (buckets'[b]) = DOMAIN buckets[b] \cup {n}
      /\ buckets'[b][n] = q
      /\ \A i \in 1 .. Len(buckets[b]) : buckets'[b][i] = buckets[b][i]
  BY <1>1, <1>2
<1>4. Slots' = Slots \cup {<<b, n>>}
  BY <1>1, <1>2, <1>3 DEF Slots
<1>5. ASSUME NEW s \in Slots PROVE buckets'[s[1]][s[2]] = buckets[s[1]][s[2]]
  <2>1. s[1] \in Indices /\ s[2] \in 1 .. Len(buckets[s[1]])
    BY SlotPair
  <2> QED BY <1>2, <1>3, <2>1
<1> QED BY <1>3, <1>4, <1>5 DEF PairAt

(* A pair is replaced in its place. *)
LEMMA SlotReplaced ==
  ASSUME TypeOK, NEW b \in Indices, NEW i \in 1 .. Len(buckets[b]), NEW q \in Pairs,
         buckets' = [buckets EXCEPT ![b] = [buckets[b] EXCEPT ![i] = q]],
         capacity' = capacity
  PROVE  /\ Slots' = Slots
         /\ PairAt(<<b, i>>)' = q
         /\ \A s \in Slots : s # <<b, i>> => PairAt(s)' = PairAt(s)
<1>1. /\ buckets \in [Indices -> Seq(Pairs)] /\ buckets[b] \in Seq(Pairs)
      /\ Indices' = Indices
  BY DEF TypeOK, Indices
<1>2. /\ buckets'[b] = [buckets[b] EXCEPT ![i] = q]
      /\ \A c \in Indices : c # b => buckets'[c] = buckets[c]
  BY <1>1
<1>3. /\ DOMAIN (buckets'[b]) = DOMAIN buckets[b]
      /\ buckets'[b][i] = q
      /\ \A j \in 1 .. Len(buckets[b]) : j # i => buckets'[b][j] = buckets[b][j]
  BY <1>1, <1>2
<1>4. Slots' = Slots
  <2>1. \A c \in Indices : DOMAIN (buckets'[c]) = DOMAIN buckets[c]
    BY <1>2, <1>3
  <2> QED BY <1>1, <2>1 DEF Slots
<1>5. ASSUME NEW s \in Slots, s # <<b, i>>
      PROVE  buckets'[s[1]][s[2]] = buckets[s[1]][s[2]]
  <2>1. s = <<s[1], s[2]>> /\ s[1] \in Indices /\ s[2] \in 1 .. Len(buckets[s[1]])
    BY SlotPair
  <2>2. s[1] # b \/ s[2] # i
    BY <1>5, <2>1
  <2> QED BY <1>2, <1>3, <2>1, <2>2
<1> QED BY <1>3, <1>4, <1>5 DEF PairAt

(* A pair is removed: the others keep their order, in one slot less. *)
LEMMA SlotRemoved ==
  ASSUME TypeOK, TypeOK', NEW b \in Indices, NEW i \in 1 .. Len(buckets[b]),
         buckets' = [buckets EXCEPT ![b] = RemoveAt(@, i)], capacity' = capacity
  PROVE  {PairAt(s)' : s \in Slots'} = {PairAt(s) : s \in Slots \ {<<b, i>>}}
<1> DEFINE n == Len(buckets[b])
<1>1. /\ buckets \in [Indices -> Seq(Pairs)] /\ buckets[b] \in Seq(Pairs)
      /\ n \in Nat /\ Indices' = Indices
  BY SMTT(30) DEF TypeOK, Indices
<1>2. /\ buckets'[b] = RemoveAt(buckets[b], i)
      /\ \A c \in Indices : c # b => buckets'[c] = buckets[c]
  BY <1>1
<1>3. /\ Len(buckets'[b]) = n - 1
      /\ \A j \in 1 .. n - 1 :
           buckets'[b][j] = IF j < i THEN buckets[b][j] ELSE buckets[b][j + 1]
  BY <1>1, <1>2, RemoveAtProperties, SMTT(30)
<1>4. ASSUME NEW s \in Slots'
      PROVE  \E t \in Slots \ {<<b, i>>} : PairAt(s)' = PairAt(t)
  <2>1. PICK c \in Indices : \E j \in 1 .. Len(buckets'[c]) : s = <<c, j>>
    BY <1>1, InSlotsNext
  <2>2. PICK j \in 1 .. Len(buckets'[c]) : s = <<c, j>>
    BY <2>1
  <2>3. PairAt(s)' = buckets'[c][j]
    BY <2>2 DEF PairAt
  <2>4. CASE c # b
    <3>1. s \in Slots \ {<<b, i>>} /\ PairAt(s) = buckets[c][j]
      BY <1>2, <2>2, <2>4, InSlots DEF PairAt
    <3> QED BY <1>2, <2>3, <2>4, <3>1
  <2>5. CASE c = b /\ j < i
    <3>1. j \in 1 .. n - 1 /\ j \in 1 .. n
      BY <1>1, <1>3, <2>2, <2>5
    <3>2. <<b, j>> \in Slots \ {<<b, i>>} /\ PairAt(<<b, j>>) = buckets[b][j]
      BY <2>5, <3>1, InSlots DEF PairAt
    <3> QED BY <1>3, <2>3, <2>5, <3>1, <3>2
  <2>6. CASE c = b /\ ~(j < i)
    <3>1. j \in 1 .. n - 1 /\ j + 1 \in 1 .. n /\ j + 1 # i
      BY <1>1, <1>3, <2>2, <2>6
    <3>2. <<b, j + 1>> \in Slots \ {<<b, i>>} /\ PairAt(<<b, j + 1>>) = buckets[b][j + 1]
      BY <3>1, InSlots DEF PairAt
    <3> QED BY <1>3, <2>3, <2>6, <3>1, <3>2
  <2> QED BY <2>4, <2>5, <2>6
<1>5. ASSUME NEW s \in Slots \ {<<b, i>>}
      PROVE  \E t \in Slots' : PairAt(t)' = PairAt(s)
  <2>1. PICK c \in Indices : \E j \in 1 .. Len(buckets[c]) : s = <<c, j>>
    BY InSlots
  <2>2. PICK j \in 1 .. Len(buckets[c]) : s = <<c, j>>
    BY <2>1
  <2>3. PairAt(s) = buckets[c][j]
    BY <2>2 DEF PairAt
  <2>4. CASE c # b
    <3>1. s \in Slots' /\ PairAt(s)' = buckets'[c][j]
      BY <1>1, <1>2, <2>2, <2>4, InSlotsNext DEF PairAt
    <3> QED BY <1>2, <2>3, <2>4, <3>1
  <2>5. CASE c = b /\ j < i
    <3>1. j \in 1 .. n - 1
      BY <1>1, <2>2, <2>5
    <3>2. <<b, j>> \in Slots' /\ PairAt(<<b, j>>)' = buckets'[b][j]
      BY <1>1, <1>3, <3>1, InSlotsNext DEF PairAt
    <3> QED BY <1>3, <2>3, <2>5, <3>1, <3>2
  <2>6. CASE c = b /\ ~(j < i)
    <3>1. j # i
      BY <2>2, <2>6
    <3>2. j - 1 \in 1 .. n - 1 /\ ~(j - 1 < i) /\ (j - 1) + 1 = j
      BY <1>1, <2>2, <2>6, <3>1
    <3>3. <<b, j - 1>> \in Slots' /\ PairAt(<<b, j - 1>>)' = buckets'[b][j - 1]
      BY <1>1, <1>3, <3>2, InSlotsNext DEF PairAt
    <3> QED BY <1>3, <2>3, <2>6, <3>2, <3>3
  <2> QED BY <2>4, <2>5, <2>6
<1> QED BY <1>4, <1>5
-----------------------------------------------------------------------------
(* Look-ups and the map *)

(* What a look-up finds is the entry of its key. *)
LEMMA KeyFound ==
  ASSUME MapInv, HasComparator, capacity > 0, NEW k \in Keys,
         NEW i \in 1 .. Len(buckets[BucketOf(k)]), IsFirstMatch(k, i),
         NEW p, p = buckets[BucketOf(k)][i]
  PROVE  /\ <<BucketOf(k), i>> \in Slots /\ PairAt(<<BucketOf(k), i>>) = p
         /\ p \in Stored /\ p \in Pairs /\ Name[p.key] = Name[k]
         /\ Name[k] \in DOMAIN Contents /\ Contents[Name[k]] = p
<1>1. TypeOK /\ TableInv
  BY DEF MapInv, TableInv
<1>2. BucketOf(k) \in Indices
  BY <1>1, BucketOfKey
<1>3. <<BucketOf(k), i>> \in Slots /\ PairAt(<<BucketOf(k), i>>) = p
  BY <1>1, <1>2, InSlots DEF PairAt
<1>4. p \in Stored
  BY <1>1, <1>3, StoredPairs
<1>5. Name[p.key] = Name[k]
  BY DEF IsFirstMatch, Matches
<1>6. Stored \subseteq Pairs /\ NamesDiffer(Stored)
  BY StoredDiffer
<1>7. MapOf(Stored)[Name[p.key]] = p /\ Name[p.key] \in DOMAIN MapOf(Stored)
  <2>1. /\ DOMAIN MapOf(Stored) = {Name[q.key] : q \in Stored}
        /\ \A q \in Stored : MapOf(Stored)[Name[q.key]] = q
    BY <1>6, MapOfIs
  <2> QED BY <1>4, <2>1
<1> QED BY <1>3, <1>4, <1>5, <1>6, <1>7 DEF Contents

(* A look-up that finds nothing is for a key the map lacks. *)
LEMMA KeyMissing ==
  ASSUME MapInv, HasComparator, pc # "free", capacity > 0, NEW k \in Keys,
         \A i \in 1 .. Len(buckets[BucketOf(k)]) : ~IsFirstMatch(k, i)
  PROVE  /\ \A p \in Stored : Name[p.key] # Name[k]
         /\ Name[k] \notin DOMAIN Contents
<1>1. TypeOK /\ TableInv /\ PairsFound
  BY DEF MapInv, TableInv
<1>2. SUFFICES ASSUME NEW s \in Slots, Name[PairAt(s).key] = Name[k] PROVE FALSE
  <2>1. \A p \in Stored : Name[p.key] # Name[k]
    BY <1>1, <1>2, StoredPairs
  <2> QED BY <2>1 DEF Contents, MapOf
<1>3. /\ s[1] \in Indices /\ s[2] \in 1 .. Len(buckets[s[1]]) /\ PairAt(s).key \in Keys
  BY <1>1, SlotPair
<1>4. DOMAIN buckets[s[1]] = 1 .. Len(buckets[s[1]])
  BY <1>1, <1>3 DEF TypeOK
<1>5. BucketOf(PairAt(s).key) = s[1] /\ IsFirstMatch(PairAt(s).key, s[2])
  BY <1>1, <1>3, <1>4 DEF PairsFound, PairAt
<1>6. Hash[k] = Hash[PairAt(s).key]
  BY <1>2, <1>3, HashAssumption
<1>7. BucketOf(k) = s[1]
  BY <1>5, <1>6 DEF BucketOf
<1>8. IsFirstMatch(k, s[2])
  BY <1>2, <1>5, <1>7 DEF IsFirstMatch, Matches
<1> QED BY <1>3, <1>7, <1>8
-----------------------------------------------------------------------------
(* The steps of the table are steps of the map *)

(* What the map sees when no list of pairs and no iterator changes. *)
LEMMA ViewUnchanged ==
  ASSUME TableInv, UNCHANGED <<buckets, capacity, open, it>>,
         pc = "free" <=> pc' = "free", pc = "free" => UNCHANGED out
  PROVE  Contents' = Contents /\ Remaining' = Remaining
<1>1. Stored' = Stored
  BY SlotsSame DEF Stored
<1>2. Names(Ahead(it))' = Names(Ahead(it))
  BY SlotsSame DEF Names, Ahead
<1> QED BY <1>1, <1>2 DEF Contents, Remaining, MapOf

(* ht_createTable *)
LEMMA CreateRefines ==
  ASSUME TableInv, CreateTable PROVE Map!Create
<1>1. /\ capacity = 0 /\ pc = "idle" /\ pc' = "idle" /\ ret' = <<>> /\ open' = open
      /\ Indices = {} /\ \A b \in Indices' : buckets'[b] = <<>>
  BY CapacityAssumption DEF CreateTable, Indices, iterator, loop
<1>2. Slots = {} /\ Slots' = {}
  BY <1>1 DEF Slots
<1>3. Stored = {} /\ Stored' = {}
  BY <1>1, <1>2 DEF Stored
<1>4. Remaining = {} /\ Remaining' = {}
  BY <1>2 DEF Remaining, Names, Ahead
<1>5. Contents = [n \in {} |-> {}] /\ Contents' = Contents
  BY <1>3 DEF Contents, MapOf
<1> QED BY <1>1, <1>4, <1>5 DEF Map!Create

(* ht_insertElement with a key the table has: the pair keeps its key. *)
LEMMA OverwriteRefines ==
  ASSUME MapInv, HasComparator, NEW k \in Keys, NEW v \in Values,
         pc = "idle", capacity > 0, NEW i \in 1 .. Len(buckets[BucketOf(k)]),
         IsFirstMatch(k, i),
         buckets' = [buckets EXCEPT ![BucketOf(k)][i] = [key |-> @.key, value |-> v]],
         ret' = <<>>, UNCHANGED <<capacity, pc, open, it>>
  PROVE  Map!Overwrite(k, v)
<1>bucket. PICK b : b = BucketOf(k)
  OBVIOUS
<1>pair. PICK p : p = buckets[b][i]
  OBVIOUS
<1> DEFINE q == [key |-> p.key, value |-> v]
           s == <<b, i>>
<1>1. TableInv /\ TypeOK /\ PairsFound
  BY DEF MapInv, TableInv
<1>2. b \in Indices /\ i \in 1 .. Len(buckets[b])
  BY <1>1, <1>bucket, BucketOfKey
<1>3. /\ s \in Slots /\ PairAt(s) = p /\ p \in Stored /\ p \in Pairs
      /\ Name[p.key] = Name[k] /\ Name[k] \in DOMAIN Contents
  BY <1>bucket, <1>pair, KeyFound
<1>4. buckets' = [buckets EXCEPT ![b] = [buckets[b] EXCEPT ![i] = q]]
  BY <1>bucket, <1>pair
<1>5. q \in Pairs
  BY <1>3 DEF Pairs
<1> HIDE DEF q
<1>6. /\ Slots' = Slots /\ PairAt(s)' = q
      /\ \A t \in Slots : t # s => PairAt(t)' = PairAt(t)
  BY <1>1, <1>2, <1>4, <1>5, SlotReplaced, ZenonT(40)
<1>7. \A t \in Slots : t # s => PairAt(t) # p
  BY <1>1, <1>3, SlotsDiffer
<1> HIDE DEF s
<1>8. Stored' = (Stored \ {p}) \cup {q}
  <2>1. Stored = {PairAt(t) : t \in Slots}
    BY <1>1, StoredPairs
  <2>2. Stored' = {PairAt(t)' : t \in Slots'}
    BY DEF Stored, PairAt
  <2>3. Stored' = {PairAt(t)' : t \in Slots}
    BY <1>6, <2>2
  <2>4. (Stored \ {p}) \cup {q} \subseteq Stored'
    BY <1>3, <1>6, <2>1, <2>3
  <2>5. Stored' \subseteq (Stored \ {p}) \cup {q}
    BY <1>3, <1>6, <1>7, <2>1, <2>3
  <2> QED BY <2>4, <2>5
<1>9. Contents' = [Contents EXCEPT ![Name[k]].value = v]
  <2>1. Stored \in SUBSET Pairs /\ NamesDiffer(Stored) /\ p \in Stored
    BY <1>3, StoredDiffer
  <2>2. MapOf((Stored \ {p}) \cup {[key |-> p.key, value |-> v]})
          = WithValue(MapOf(Stored), Name[p.key], v)
    BY <2>1, MapOfReplaced
  <2> QED BY <1>3, <1>8, <2>2 DEF Contents, q, WithValue
<1>10. Remaining' = Remaining
  <2>1. \A t \in Slots : PairAt(t)'.key = PairAt(t).key
    BY <1>3, <1>6 DEF q
  <2>2. Ahead(it)' = Ahead(it)
    BY <1>6 DEF Ahead
  <2>3. Ahead(it) \subseteq Slots
    BY DEF Ahead
  <2>4. Names(Ahead(it))' = Names(Ahead(it))
    BY <2>1, <2>2, <2>3 DEF Names, PairAt
  <2> QED BY <2>4 DEF Remaining
<1> QED BY <1>3, <1>9, <1>10 DEF Map!Overwrite

(* ht_insertElement with a new key: an iterator may or may not reach it. *)
LEMMA InsertRefines ==
  ASSUME MapInv, HasComparator, NEW k \in Keys, NEW v \in Values,
         pc = "idle", capacity > 0,
         \A i \in 1 .. Len(buckets[BucketOf(k)]) : ~IsFirstMatch(k, i),
         buckets' = [buckets EXCEPT ![BucketOf(k)] =
                       Append(@, [key |-> k, value |-> v])],
         ret' = <<>>, UNCHANGED <<capacity, pc, open, it>>
  PROVE  Map!Insert(k, v)
<1>bucket. PICK b : b = BucketOf(k)
  OBVIOUS
<1>slot. PICK n : n = Len(buckets[b]) + 1
  OBVIOUS
<1> DEFINE q == [key |-> k, value |-> v]
           s == <<b, n>>
<1>1. TableInv /\ TypeOK /\ PairsFound
  BY DEF MapInv, TableInv
<1>2. b \in Indices
  BY <1>1, <1>bucket, BucketOfKey
<1>3. Name[k] \notin DOMAIN Contents /\ \A p \in Stored : Name[p.key] # Name[k]
  BY KeyMissing
<1>4. /\ Slots' = Slots \cup {s} /\ PairAt(s)' = q
      /\ \A t \in Slots : PairAt(t)' = PairAt(t)
  <2>1. buckets' = [buckets EXCEPT ![b] = Append(@, q)]
    BY <1>bucket
  <2> HIDE DEF q
  <2> QED BY <1>1, <1>2, <1>slot, <2>1, SlotAppended
<1>5. q.key = k
  OBVIOUS
<1> HIDE DEF q, s
<1>6. Stored' = Stored \cup {q}
  <2>1. Stored = {PairAt(t) : t \in Slots}
    BY <1>1, StoredPairs
  <2>2. Stored' = {PairAt(t)' : t \in Slots'}
    BY DEF Stored, PairAt
  <2>3. Stored' = {PairAt(t)' : t \in Slots \cup {s}}
    BY <1>4, <2>2
  <2> QED BY <1>4, <2>1, <2>3
<1>7. Contents' = [m \in DOMAIN Contents \cup {Name[k]} |->
                     IF m = Name[k] THEN q ELSE Contents[m]]
  <2>1. NamesDiffer(Stored) /\ \A p \in Stored : Name[p.key] # Name[q.key]
    BY <1>3, <1>5, StoredDiffer
  <2>2. MapOf(Stored \cup {q}) = With(MapOf(Stored), Name[q.key], q)
    BY <2>1, MapOfAdded
  <2> QED BY <1>5, <1>6, <2>2 DEF Contents, With
<1>8. Remaining' = Remaining \/ (open /\ Remaining' = Remaining \cup {Name[k]})
  <2>1. Ahead(it)' = Ahead(it) \/ Ahead(it)' = Ahead(it) \cup {s}
    BY <1>4 DEF Ahead
  <2>2. Ahead(it) \subseteq Slots
    BY DEF Ahead
  <2>3. Names(Ahead(it)) = {Name[PairAt(t).key] : t \in Ahead(it)}
    BY DEF Names, PairAt
  <2>4. Names(Ahead(it))' = {Name[PairAt(t)'.key] : t \in Ahead(it)'}
    BY DEF Names, PairAt
  <2>5. \/ Names(Ahead(it))' = Names(Ahead(it))
        \/ Names(Ahead(it))' = Names(Ahead(it)) \cup {Name[k]}
    <3>1. CASE Ahead(it)' = Ahead(it)
      BY <1>4, <2>2, <2>3, <2>4, <3>1
    <3>2. CASE Ahead(it)' = Ahead(it) \cup {s}
      <4>1. Names(Ahead(it))' = {Name[PairAt(t)'.key] : t \in Ahead(it) \cup {s}}
        BY <2>4, <3>2
      <4>2. Name[PairAt(s)'.key] = Name[k]
        BY <1>4, <1>5
      <4> QED BY <1>4, <2>2, <2>3, <4>1, <4>2
    <3> QED BY <2>1, <3>1, <3>2
  <2> QED BY <2>5 DEF Remaining
<1> QED BY <1>3, <1>7, <1>8 DEF Map!Insert, q

(* ht_removeElement of a key the table has. *)
LEMMA RemoveRefines ==
  ASSUME MapInv, HasComparator, TypeOK', NEW k \in Keys,
         pc = "idle", capacity > 0, NEW i \in 1 .. Len(buckets[BucketOf(k)]),
         IsFirstMatch(k, i), ret' = <<buckets[BucketOf(k)][i]>>,
         buckets' = [buckets EXCEPT ![BucketOf(k)] = RemoveAt(@, i)],
         CloseIterator, UNCHANGED <<capacity, pc>>
  PROVE  Map!RemoveKey(k)
<1> DEFINE b == BucketOf(k)
           p == buckets[b][i]
           s == <<b, i>>
<1>1. TableInv /\ TypeOK /\ PairsFound
  BY DEF MapInv, TableInv
<1>2. b \in Indices
  BY <1>1, BucketOfKey
<1>3. /\ s \in Slots /\ PairAt(s) = p /\ p \in Stored /\ Name[p.key] = Name[k]
      /\ Name[k] \in DOMAIN Contents /\ Contents[Name[k]] = p
  BY KeyFound
<1> HIDE DEF b
<1>4. {PairAt(t)' : t \in Slots'} = {PairAt(t) : t \in Slots \ {s}}
  <2>1. buckets' = [buckets EXCEPT ![b] = RemoveAt(@, i)] /\ i \in 1 .. Len(buckets[b])
    BY DEF b
  <2> QED BY <1>1, <1>2, <2>1, SlotRemoved
<1>5. \A t \in Slots : t # s => PairAt(t) # p
  BY <1>1, <1>3, SlotsDiffer
<1>6. ret' = <<p>>
  BY DEF b
<1> HIDE DEF p, s
<1>7. Stored' = Stored \ {p}
  <2>1. Stored = {PairAt(t) : t \in Slots}
    BY <1>1, StoredPairs
  <2>2. Stored' = {PairAt(t)' : t \in Slots'}
    BY DEF Stored, PairAt
  <2> QED BY <1>3, <1>4, <1>5, <2>1, <2>2
<1>8. Contents' = [m \in DOMAIN Contents \ {Name[k]} |-> Contents[m]]
  <2>1. NamesDiffer(Stored)
    BY StoredDiffer
  <2>2. MapOf(Stored \ {p}) = [m \in DOMAIN MapOf(Stored) \ {Name[p.key]} |-> MapOf(Stored)[m]]
    BY <1>3, <2>1, MapOfDropped
  <2> QED BY <1>3, <1>7, <2>2 DEF Contents
<1>9. open' = FALSE /\ Remaining' = {}
  BY DEF CloseIterator, Remaining
<1> QED
  BY <1>3, <1>6, <1>8, <1>9 DEF Map!RemoveKey, Map!Without, Map!CloseIterator
(* ht_insertElement without memory for the node changes nothing a client *)
(* sees: it is a look-up that finds nothing.                             *)
LEMMA FailureRefines ==
  ASSUME MapInv, HasComparator, NEW k \in Keys, NEW v \in Values,
         InsertElementFails(k, v)
  PROVE  Map!GetValue(k)
<1>1. /\ pc = "idle" /\ pc' = "idle" /\ capacity > 0 /\ ret' = <<>>
      /\ UNCHANGED <<buckets, capacity, open, it, out>>
      /\ \A i \in 1 .. Len(buckets[BucketOf(k)]) : ~IsFirstMatch(k, i)
  BY DEF InsertElementFails, iterator, loop
<1>2. Contents' = Contents /\ Remaining' = Remaining
  BY <1>1, ViewUnchanged DEF MapInv
<1>3. Name[k] \notin DOMAIN Contents
  BY <1>1, KeyMissing
<1> QED BY <1>1, <1>2, <1>3 DEF Map!GetValue

(* ht_getValue *)
LEMMA GetValueRefines ==
  ASSUME MapInv, HasComparator, NEW k \in Keys, GetValue(k)
  PROVE  Map!GetValue(k)
<1>1. /\ pc = "idle" /\ pc' = "idle" /\ capacity > 0
      /\ UNCHANGED <<buckets, capacity, open, it, out>>
  BY DEF GetValue, table, iterator, loop
<1>2. Contents' = Contents /\ Remaining' = Remaining /\ open' = open
  BY <1>1, ViewUnchanged DEF MapInv
<1>3. ASSUME NEW i \in 1 .. Len(buckets[BucketOf(k)]), IsFirstMatch(k, i),
             ret' = <<buckets[BucketOf(k)][i].value>>
      PROVE  Map!GetValue(k)
  <2>1. PICK p : p = buckets[BucketOf(k)][i]
    OBVIOUS
  <2>2. Name[k] \in DOMAIN Contents /\ Contents[Name[k]] = p
    <3>1. MapInv /\ HasComparator /\ capacity > 0 /\ IsFirstMatch(k, i)
      BY <1>1, <1>3
    <3>2. /\ <<BucketOf(k), i>> \in Slots /\ PairAt(<<BucketOf(k), i>>) = p
          /\ p \in Stored /\ p \in Pairs /\ Name[p.key] = Name[k]
          /\ Name[k] \in DOMAIN Contents /\ Contents[Name[k]] = p
      BY <2>1, <3>1, KeyFound
    <3> QED BY <3>2
  <2> QED BY <1>2, <1>3, <2>1, <2>2 DEF Map!GetValue
<1>4. ASSUME \A i \in 1 .. Len(buckets[BucketOf(k)]) : ~IsFirstMatch(k, i), ret' = <<>>
      PROVE  Map!GetValue(k)
  <2>1. Name[k] \notin DOMAIN Contents
    BY <1>1, <1>4, KeyMissing
  <2> QED BY <1>2, <1>4, <2>1 DEF Map!GetValue
<1> QED BY <1>3, <1>4 DEF GetValue

(* ht_insertElement *)
LEMMA InsertElementRefines ==
  ASSUME MapInv, HasComparator, NEW k \in Keys, NEW v \in Values, InsertElement(k, v)
  PROVE  Map!Overwrite(k, v) \/ Map!Insert(k, v)
<1>1. /\ pc = "idle" /\ capacity > 0 /\ ret' = <<>>
      /\ UNCHANGED <<capacity, pc, open, it>>
  BY DEF InsertElement, iterator, loop
<1>2. ASSUME NEW i \in 1 .. Len(buckets[BucketOf(k)]), IsFirstMatch(k, i),
             buckets' = [buckets EXCEPT ![BucketOf(k)][i] = [key |-> @.key, value |-> v]]
      PROVE  Map!Overwrite(k, v)
  BY <1>1, <1>2, OverwriteRefines
<1>3. ASSUME \A i \in 1 .. Len(buckets[BucketOf(k)]) : ~IsFirstMatch(k, i),
             buckets' = [buckets EXCEPT ![BucketOf(k)] = Append(@, [key |-> k, value |-> v])]
      PROVE  Map!Insert(k, v)
  BY <1>1, <1>3, InsertRefines
<1> QED BY <1>2, <1>3 DEF InsertElement

(* ht_removeElement *)
LEMMA RemoveElementRefines ==
  ASSUME MapInv, TypeOK', HasComparator, NEW k \in Keys, RemoveElement(k)
  PROVE  Map!RemoveKey(k) \/ Map!RemoveNothing(k)
<1>1. /\ pc = "idle" /\ pc' = "idle" /\ capacity > 0 /\ CloseIterator
      /\ UNCHANGED <<capacity, pc>>
  BY DEF RemoveElement, loop
<1>2. ASSUME NEW i \in 1 .. Len(buckets[BucketOf(k)]), IsFirstMatch(k, i),
             ret' = <<buckets[BucketOf(k)][i]>>,
             buckets' = [buckets EXCEPT ![BucketOf(k)] = RemoveAt(@, i)]
      PROVE  Map!RemoveKey(k)
  BY <1>1, <1>2, RemoveRefines
<1>3. ASSUME \A i \in 1 .. Len(buckets[BucketOf(k)]) : ~IsFirstMatch(k, i),
             ret' = <<>>, UNCHANGED buckets
      PROVE  Map!RemoveNothing(k)
  <2>1. Name[k] \notin DOMAIN Contents
    BY <1>1, <1>3, KeyMissing
  <2>2. Stored' = Stored
    BY <1>1, <1>3, SlotsSame DEF Stored
  <2>3. Contents' = Contents /\ open' = FALSE /\ Remaining' = {}
    BY <1>1, <2>2 DEF Contents, CloseIterator, Remaining
  <2> QED BY <1>3, <2>1, <2>3 DEF Map!RemoveNothing, Map!CloseIterator
<1> QED BY <1>2, <1>3 DEF RemoveElement
-----------------------------------------------------------------------------
(* Iterators *)

(* The entry of a stored pair. *)
LEMMA EntryOf ==
  ASSUME MapInv, HasComparator, NEW p \in Stored
  PROVE  Name[p.key] \in DOMAIN Contents /\ Contents[Name[p.key]] = p
<1>1. NamesDiffer(Stored)
  BY StoredDiffer
<1>2. /\ DOMAIN MapOf(Stored) = {Name[q.key] : q \in Stored}
      /\ \A q \in Stored : MapOf(Stored)[Name[q.key]] = q
  BY <1>1, MapOfIs
<1> QED BY <1>2 DEF Contents

(* ht_createIterator has every pair ahead. *)
LEMMA CreateIteratorRefines ==
  ASSUME MapInv, CreateIterator PROVE Map!CreateIterator
<1>1. /\ pc = "idle" /\ pc' = "idle" /\ open' = TRUE /\ it' = Begin /\ ret' = <<>>
      /\ UNCHANGED <<buckets, capacity>> /\ TypeOK /\ TableInv
  BY DEF CreateIterator, table, loop, MapInv, TableInv
<1>2. Stored' = Stored
  BY <1>1, SlotsSame DEF Stored
<1>3. Ahead(it)' = Slots
  BY <1>1, AheadOfBegin DEF Ahead, Slots, Indices
<1>4. Remaining' = {Name[PairAt(s).key] : s \in Slots}
  BY <1>1, <1>3 DEF Remaining, Names, PairAt
<1>5. Stored = {PairAt(s) : s \in Slots}
  BY <1>1, StoredPairs
<1>6. DOMAIN Contents = {Name[PairAt(s).key] : s \in Slots}
  BY <1>5 DEF Contents, MapOf
<1> QED BY <1>1, <1>2, <1>4, <1>6 DEF Map!CreateIterator, Contents

(* ht_iteratorNext returns a pair of those ahead, and it alone. *)
LEMMA IteratorNextRefines ==
  ASSUME MapInv, HasComparator, IteratorNext PROVE Map!IteratorNext
<1>1. /\ pc = "idle" /\ pc' = "idle" /\ open /\ open' = open
      /\ HasNext(it) /\ ret' = <<Current(it)>> /\ it' = After(it)
      /\ UNCHANGED <<buckets, capacity>> /\ TypeOK /\ TableInv /\ PairsFound
      /\ it \in Iterators /\ PointsToPair(it)
  BY DEF IteratorNext, table, loop, MapInv, TableInv, TypeOK
<1>2. PICK s : s = <<it.bucket, it.at>>
  OBVIOUS
<1>3. s \in Ahead(it) /\ Ahead(it)' = Ahead(it) \ {s} /\ s \in Slots
  <2>1. s \in Ahead(it) /\ Ahead(After(it)) = Ahead(it) \ {s}
    BY <1>1, <1>2, AheadOfAfter
  <2>2. Ahead(it)' = Ahead(After(it))
    BY <1>1 DEF Ahead, Slots, Indices
  <2> QED BY <2>1, <2>2 DEF Ahead
<1>4. Current(it) = PairAt(s) /\ PairAt(s) \in Stored
  BY <1>1, <1>2, <1>3, StoredPairs DEF Current, PairAt
<1>5. Contents[Name[PairAt(s).key]] = PairAt(s)
  BY <1>4, EntryOf
<1>6. Remaining = {Name[PairAt(t).key] : t \in Ahead(it)}
  BY <1>1 DEF Remaining, Names, PairAt
<1>7. Remaining' = {Name[PairAt(t).key] : t \in Ahead(it) \ {s}}
  BY <1>1, <1>3 DEF Remaining, Names, PairAt
<1>8. \A t \in Ahead(it) : t # s => Name[PairAt(t).key] # Name[PairAt(s).key]
  BY <1>1, <1>3, SlotsDiffer DEF Ahead
<1>9. Remaining' = Remaining \ {Name[PairAt(s).key]} /\ Name[PairAt(s).key] \in Remaining
  BY <1>3, <1>6, <1>7, <1>8
<1>10. Contents' = Contents
  <2>1. Stored' = Stored
    BY <1>1, SlotsSame DEF Stored
  <2> QED BY <2>1 DEF Contents
<1>11. ret' = <<Contents[Name[PairAt(s).key]]>>
  BY <1>1, <1>4, <1>5
<1> QED BY <1>1, <1>9, <1>10, <1>11 DEF Map!IteratorNext
-----------------------------------------------------------------------------
(* ht_getValues and ht_freeTable *)

LEMMA MapCardinality == \A S : Map!Cardinality(S) = Cardinality(S)
  BY DEF Map!Cardinality, Cardinality

(* A list of all names, without repetitions. *)
LEMMA Enumeration ==
  ASSUME NEW n \in Nat, NEW S, NEW f \in [1 .. n -> S],
         \A i, j \in 1 .. n : f[i] = f[j] => i = j,
         \A x \in S : \E i \in 1 .. n : f[i] = x
  PROVE  f \in Map!SetToSeqs(S)
<1>1. IsFiniteSet(1 .. n) /\ Cardinality(1 .. n) = n
  <2>1. 1 \in Int /\ n \in Int
    OBVIOUS
  <2>2. /\ IsFiniteSet(1 .. n)
        /\ Cardinality(1 .. n) = IF 1 > n THEN 0 ELSE n - 1 + 1
    BY <2>1, FS_Interval
  <2> QED BY <2>2
<1>2. f \in Bijection(1 .. n, S)
  BY DEF Bijection, Injection, Surjection, IsInjective
<1>3. Cardinality(S) = n
  BY <1>1, <1>2, FS_Bijection DEF ExistsBijection
<1>4. Map!Cardinality(S) = n
  BY <1>3, MapCardinality
<1> QED BY <1>4 DEF Map!SetToSeqs

(* The array is returned once every pair has been collected. *)
LEMMA EndValuesRefines ==
  ASSUME MapInv, HasComparator, EndValues PROVE Map!GetValues
<1>1. /\ pc = "values" /\ pc' = "idle" /\ ~HasNext(local) /\ ret' = out
      /\ UNCHANGED <<buckets, capacity, open, it>> /\ TypeOK /\ TableInv /\ PairsFound
  BY DEF EndValues, EndLoop, table, iterator, MapInv, TableInv
<1>2. out \in Seq(Values) /\ Len(out) \in Nat /\ local \in Iterators
  BY <1>1 DEF TypeOK
<1>3. Ahead(local) = {}
  <2>1. local.bucket = capacity
    BY <1>1, CapacityAssumption DEF TableInv, CountOK, TypeOK, HasNext
  <2> QED BY <1>1, <1>2, <2>1, AheadOfEnd
<1>4. PICK e \in [1 .. Len(out) -> Slots] :
        /\ \A i, j \in 1 .. Len(out) : e[i] = e[j] => i = j
        /\ \A s \in Slots : \E i \in 1 .. Len(out) : e[i] = s
        /\ \A i \in 1 .. Len(out) : out[i] = PairAt(e[i]).value
  <2>1. Slots \ Ahead(local) = Slots
    BY <1>3
  <2> QED BY <1>1, <2>1 DEF MapInv, Collected
<1> DEFINE f == [i \in 1 .. Len(out) |-> Name[PairAt(e[i]).key]]
<1>5. \A s \in Slots : PairAt(s) \in Stored
  BY <1>1, StoredPairs
<1>6. DOMAIN Contents = {Name[PairAt(s).key] : s \in Slots}
  <2>1. Stored = {PairAt(s) : s \in Slots}
    BY <1>1, StoredPairs
  <2> QED BY <2>1 DEF Contents, MapOf
<1>7. f \in Map!SetToSeqs(DOMAIN Contents)
  <2>1. f \in [1 .. Len(out) -> DOMAIN Contents]
    BY <1>4, <1>6
  <2>2. \A i, j \in 1 .. Len(out) : f[i] = f[j] => i = j
    BY <1>1, <1>4, SlotsDiffer
  <2>3. \A x \in DOMAIN Contents : \E i \in 1 .. Len(out) : f[i] = x
    BY <1>4, <1>6
  <2> HIDE DEF f
  <2> QED BY <1>2, <2>1, <2>2, <2>3, Enumeration
<1>8. ret' = [i \in DOMAIN f |-> Contents[f[i]].value]
  <2>1. \A i \in 1 .. Len(out) : Contents[f[i]] = PairAt(e[i])
    BY <1>4, <1>5, EntryOf
  <2>2. out = [i \in 1 .. Len(out) |-> out[i]]
    BY <1>2
  <2>3. DOMAIN f = 1 .. Len(out)
    OBVIOUS
  <2> HIDE DEF f
  <2>4. \A i \in 1 .. Len(out) : out[i] = Contents[f[i]].value
    BY <1>4, <2>1
  <2> QED BY <1>1, <2>2, <2>3, <2>4
<1>9. Contents' = Contents /\ Remaining' = Remaining /\ open' = open
  BY <1>1, ViewUnchanged
<1> HIDE DEF f
<1> QED BY <1>7, <1>8, <1>9 DEF Map!GetValues

(* The pairs are destroyed once every bucket has been emptied. *)
LEMMA EndFreeRefines ==
  ASSUME MapInv, HasComparator, EndFree PROVE Map!Free
<1>1. /\ pc = "free" /\ pc' = "idle" /\ index = capacity /\ ret' = out /\ capacity' = 0
      /\ open' = open /\ ~open /\ TypeOK /\ TableInv /\ Destroyed
  BY DEF EndFree, EndLoop, iterator, MapInv, TableInv, Destroyed
<1>2. out \in Seq(Pairs) /\ Len(out) \in Nat
  BY <1>1 DEF TypeOK
<1>3. Slots = {}
  <2>1. \A b \in Indices : b < index
    BY <1>1, CapacityAssumption DEF Indices, TypeOK
  <2>2. \A b \in Indices : buckets[b] = <<>>
    BY <1>1, <2>1 DEF Destroyed
  <2> QED BY <2>2 DEF Slots
<1>4. Stored = {out[i] : i \in 1 .. Len(out)}
  BY <1>1, <1>3, StoredPairs
<1> DEFINE f == [i \in 1 .. Len(out) |-> Name[out[i].key]]
<1>5. DOMAIN Contents = {Name[out[i].key] : i \in 1 .. Len(out)}
  BY <1>4 DEF Contents, MapOf
<1>6. f \in Map!SetToSeqs(DOMAIN Contents)
  <2>1. f \in [1 .. Len(out) -> DOMAIN Contents]
    BY <1>5
  <2>2. \A i, j \in 1 .. Len(out) : f[i] = f[j] => i = j
    BY <1>1 DEF Destroyed
  <2>3. \A x \in DOMAIN Contents : \E i \in 1 .. Len(out) : f[i] = x
    BY <1>5
  <2> HIDE DEF f
  <2> QED BY <1>2, <2>1, <2>2, <2>3, Enumeration
<1>7. ret' = [i \in DOMAIN f |-> Contents[f[i]]]
  <2>1. \A i \in 1 .. Len(out) : Contents[f[i]] = out[i]
    BY <1>4, EntryOf
  <2>2. out = [i \in 1 .. Len(out) |-> out[i]]
    BY <1>2
  <2>3. DOMAIN f = 1 .. Len(out)
    OBVIOUS
  <2> HIDE DEF f
  <2> QED BY <1>1, <2>1, <2>2, <2>3
<1>8. Contents' = [n \in {} |-> {}]
  <2>1. Indices' = {}
    BY <1>1 DEF Indices
  <2>2. Stored' = {}
    BY <1>1, <2>1 DEF Stored, Slots
  <2> QED BY <2>2 DEF Contents, MapOf
<1>9. Remaining' = Remaining
  BY <1>1 DEF Remaining
<1> HIDE DEF f
<1> QED BY <1>1, <1>6, <1>7, <1>8, <1>9 DEF Map!Free

(* ht_freeTable empties one bucket: its pairs are destroyed, not lost. *)
LEMMA FreeBucketKeeps ==
  ASSUME MapInv, HasComparator, TableInv', FreeBucket
  PROVE  Destroyed' /\ Stored' = Stored
<1> DEFINE B == buckets[index]
           n == Len(out)
           m == Len(B)
<1>1. /\ pc = "free" /\ pc' = "free" /\ index' = index + 1 /\ out' = out \o B
      /\ buckets' = [buckets EXCEPT ![index] = <<>>]
      /\ open' = open /\ capacity' = capacity /\ index < capacity
      /\ TypeOK /\ TypeOK' /\ TableInv /\ PairsFound /\ Destroyed
  BY DEF FreeBucket, iterator, MapInv, TableInv
<1>2. /\ Indices' = Indices /\ index \in Indices /\ index \in Nat /\ out \in Seq(Pairs)
      /\ buckets \in [Indices -> Seq(Pairs)] /\ B \in Seq(Pairs)
      /\ n \in Nat /\ m \in Nat /\ capacity \in Nat
  BY <1>1, CapacityAssumption DEF TypeOK, Indices
<1>3. /\ buckets'[index] = <<>>
      /\ \A b \in Indices : b # index => buckets'[b] = buckets[b]
  BY <1>1, <1>2
<1>4. /\ Len(out') = n + m
      /\ \A i \in 1 .. n : i \in 1 .. n + m /\ out'[i] = out[i]
      /\ \A i \in 1 .. m : n + i \in 1 .. n + m /\ out'[n + i] = B[i]
      /\ \A i \in 1 .. n + m : i \in 1 .. n \/ \E j \in 1 .. m : i = n + j
  <2> HIDE DEF B
  <2>1. /\ Len(out') = n + m
        /\ \A i \in 1 .. n + m : out'[i] = IF i <= n THEN out[i] ELSE B[i - n]
    BY <1>1, <1>2, ConcatProperties
  <2>2. \A i \in 1 .. n + m : i \in 1 .. n \/ (i - n \in 1 .. m /\ i = n + (i - n))
    BY <1>2
  <2>3. \A i \in 1 .. m : n + i \in 1 .. n + m /\ ~(n + i <= n) /\ (n + i) - n = i
    BY <1>2
  <2>4. \A i \in 1 .. n : i \in 1 .. n + m /\ i <= n
    BY <1>2
  <2> HIDE DEF n, m
  <2> QED BY <2>1, <2>2, <2>3, <2>4
<1>5. ASSUME NEW s
      PROVE  s \in Slots <=> s \in Slots' \/ \E i \in 1 .. m : s = <<index, i>>
  <2>1. s \in Slots <=> \E b \in Indices : \E i \in 1 .. Len(buckets[b]) : s = <<b, i>>
    BY <1>1, InSlots
  <2>2. s \in Slots' <=> \E b \in Indices : \E i \in 1 .. Len(buckets'[b]) : s = <<b, i>>
    BY <1>1, <1>2, InSlotsNext
  <2>3. Len(buckets'[index]) = 0
    BY <1>3
  <2> QED BY <1>2, <1>3, <2>1, <2>2, <2>3, SMTT(30)
<1>6. \A s \in Slots' : s \in Slots /\ s[1] # index /\ PairAt(s)' = PairAt(s)
  <2> SUFFICES ASSUME NEW s \in Slots'
               PROVE  s \in Slots /\ s[1] # index /\ buckets'[s[1]][s[2]] = PairAt(s)
    BY DEF PairAt
  <2>1. PICK b \in Indices : \E i \in 1 .. Len(buckets'[b]) : s = <<b, i>>
    BY <1>1, <1>2, InSlotsNext
  <2>2. PICK i \in 1 .. Len(buckets'[b]) : s = <<b, i>>
    BY <2>1
  <2>3. b # index
    BY <1>3, <2>2
  <2> QED BY <1>3, <1>5, <2>2, <2>3 DEF PairAt
<1>7. \A i \in 1 .. m : <<index, i>> \in Slots /\ PairAt(<<index, i>>) = B[i]
  BY <1>5 DEF PairAt
<1> HIDE DEF B, n, m
<1>8. \A i, j \in 1 .. n + m : Name[out'[i].key] = Name[out'[j].key] => i = j
  <2>1. \A i, j \in 1 .. n : Name[out[i].key] = Name[out[j].key] => i = j
    BY <1>1 DEF Destroyed, n
  <2>2. ASSUME NEW i \in 1 .. n, NEW j \in 1 .. m PROVE Name[out[i].key] # Name[B[j].key]
    <3>1. <<index, j>> \in Slots /\ PairAt(<<index, j>>) = B[j]
      BY <1>7
    <3>2. Name[out[i].key] # Name[PairAt(<<index, j>>).key]
      BY <1>1, <3>1 DEF Destroyed, n
    <3> QED BY <3>1, <3>2
  <2>3. ASSUME NEW i \in 1 .. m, NEW j \in 1 .. m, Name[B[i].key] = Name[B[j].key]
        PROVE  i = j
    <3>1. <<index, i>> = <<index, j>>
      <4>1. Name[PairAt(<<index, i>>).key] = Name[PairAt(<<index, j>>).key]
        BY <1>7, <2>3
      <4>2. <<index, i>> \in Slots /\ <<index, j>> \in Slots /\ TypeOK /\ PairsFound
        BY <1>1, <1>7
      <4> QED BY <4>1, <4>2, SlotsDiffer
    <3> QED BY <3>1
  <2>4. ASSUME NEW i \in 1 .. n + m, NEW j \in 1 .. n + m,
               Name[out'[i].key] = Name[out'[j].key]
        PROVE  i = j
    <3>1. CASE i \in 1 .. n /\ j \in 1 .. n
      BY <1>4, <2>1, <2>4, <3>1
    <3>2. CASE i \in 1 .. n /\ \E y \in 1 .. m : j = n + y
      BY <1>4, <2>2, <2>4, <3>2
    <3>3. CASE j \in 1 .. n /\ \E x \in 1 .. m : i = n + x
      BY <1>4, <2>2, <2>4, <3>3
    <3>4. CASE (\E x \in 1 .. m : i = n + x) /\ \E y \in 1 .. m : j = n + y
      BY <1>4, <2>3, <2>4, <3>4
    <3> QED BY <1>4, <3>1, <3>2, <3>3, <3>4
  <2> QED BY <2>4
<1>9. \A i \in 1 .. n + m, s \in Slots' : Name[out'[i].key] # Name[PairAt(s)'.key]
  <2> SUFFICES ASSUME NEW i \in 1 .. n + m, NEW s \in Slots'
               PROVE  Name[out'[i].key] # Name[PairAt(s).key]
    BY <1>6
  <2>1. s \in Slots /\ s[1] # index
    BY <1>6
  <2>2. CASE i \in 1 .. n
    BY <1>1, <1>4, <2>1, <2>2 DEF Destroyed, n
  <2>3. ASSUME NEW x \in 1 .. m, i = n + x PROVE Name[out'[i].key] # Name[PairAt(s).key]
    <3>1. <<index, x>> \in Slots /\ PairAt(<<index, x>>) = B[x] /\ out'[i] = B[x]
      BY <1>4, <1>7, <2>3
    <3>2. s # <<index, x>>
      BY <2>1
    <3> QED BY <1>1, <2>1, <3>1, <3>2, SlotsDiffer
  <2> QED BY <1>4, <2>2, <2>3
<1>10. \A b \in Indices : b < index' => buckets'[b] = <<>>
  <2> SUFFICES ASSUME NEW b \in Indices, b < index + 1 PROVE buckets'[b] = <<>>
    BY <1>1
  <2>1. b < index \/ b = index
    BY <1>2 DEF Indices
  <2>2. b < index => buckets[b] = <<>>
    BY <1>1 DEF Destroyed
  <2> QED BY <1>3, <2>1, <2>2
<1>11. Destroyed'
  BY <1>1, <1>2, <1>4, <1>8, <1>9, <1>10, SMTT(30) DEF Destroyed, PairAt
<1>12. Stored' = Stored
  <2>1. Stored = {PairAt(s) : s \in Slots} \cup {out[i] : i \in 1 .. n}
    BY <1>1, StoredPairs DEF n
  <2>2. Stored' = {PairAt(s)' : s \in Slots'} \cup {out'[i] : i \in 1 .. n + m}
    <3>1. DOMAIN out' = 1 .. n + m
      BY <1>1, <1>4 DEF TypeOK
    <3> QED BY <1>1, <3>1 DEF Stored, PairAt
  <2>3. Stored' \subseteq Stored
    <3>1. \A s \in Slots' : PairAt(s)' \in Stored
      BY <1>6, <2>1
    <3>2. \A i \in 1 .. m : B[i] \in Stored
      BY <1>7, <2>1
    <3>3. \A i \in 1 .. n + m : out'[i] \in Stored
      BY <1>4, <2>1, <3>2
    <3> QED BY <2>2, <3>1, <3>3
  <2>4. Stored \subseteq Stored'
    <3>1. \A s \in Slots : PairAt(s) \in Stored'
      <4> SUFFICES ASSUME NEW s \in Slots PROVE PairAt(s) \in Stored'
        OBVIOUS
      <4>1. CASE s \in Slots'
        BY <1>6, <2>2, <4>1
      <4>2. CASE \E i \in 1 .. m : s = <<index, i>>
        BY <1>4, <1>7, <2>2, <4>2
      <4> QED BY <1>5, <4>1, <4>2
    <3>2. \A i \in 1 .. n : out[i] \in Stored'
      BY <1>4, <2>2
    <3> QED BY <2>1, <3>1, <3>2
  <2> QED BY <2>3, <2>4
<1> QED BY <1>11, <1>12

(* One turn of ht_getValues collects the value of the pair it leaves. *)
LEMMA CollectValueKeeps ==
  ASSUME MapInv, CollectValue PROVE Collected'
<1> DEFINE n == Len(out)
<1>1. /\ pc = "values" /\ HasNext(local) /\ local' = After(local)
      /\ out' = Append(out, Current(local).value)
      /\ UNCHANGED <<buckets, capacity>> /\ TypeOK
      /\ local \in Iterators /\ PointsToPair(local)
      /\ out \in Seq(Values) /\ n \in Nat
  BY DEF CollectValue, table, MapInv, TableInv, TypeOK
<1>2. PICK s : s = <<local.bucket, local.at>>
  OBVIOUS
<1>3. s \in Ahead(local) /\ s \in Slots /\ Ahead(local)' = Ahead(local) \ {s} /\ Slots' = Slots
  <2>1. s \in Ahead(local) /\ Ahead(After(local)) = Ahead(local) \ {s}
    BY <1>1, <1>2, AheadOfAfter
  <2>2. Ahead(local)' = Ahead(After(local)) /\ Slots' = Slots
    BY <1>1 DEF Ahead, Slots, Indices
  <2> QED BY <2>1, <2>2 DEF Ahead
<1>4. Current(local) = PairAt(s) /\ \A t \in Slots : PairAt(t)' = PairAt(t)
  BY <1>1, <1>2 DEF Current, PairAt
<1>5. PICK e \in [1 .. n -> Slots \ Ahead(local)] :
        /\ \A i, j \in 1 .. n : e[i] = e[j] => i = j
        /\ \A t \in Slots \ Ahead(local) : \E i \in 1 .. n : e[i] = t
        /\ \A i \in 1 .. n : out[i] = PairAt(e[i]).value
  BY <1>1 DEF MapInv, Collected
<1> DEFINE d == [i \in 1 .. n + 1 |-> IF i = n + 1 THEN s ELSE e[i]]
<1>6. /\ Len(out') = n + 1 /\ out'[n + 1] = PairAt(s).value
      /\ \A i \in 1 .. n : out'[i] = out[i]
  BY <1>1, <1>4
<1>7. Slots' \ Ahead(local)' = (Slots \ Ahead(local)) \cup {s}
  BY <1>3
<1>8. /\ \A i \in 1 .. n + 1 : i = n + 1 \/ i \in 1 .. n
      /\ \A i \in 1 .. n : i \in 1 .. n + 1 /\ i # n + 1
      /\ n + 1 \in 1 .. n + 1
  BY <1>1
<1>9. /\ d[n + 1] = s /\ \A i \in 1 .. n : d[i] = e[i]
      /\ d \in [1 .. n + 1 -> (Slots \ Ahead(local)) \cup {s}]
  BY <1>5, <1>8
<1> HIDE DEF n, d
<1>10. \A i, j \in 1 .. n + 1 : d[i] = d[j] => i = j
  BY <1>3, <1>5, <1>8, <1>9
<1>11. \A t \in (Slots \ Ahead(local)) \cup {s} : \E i \in 1 .. n + 1 : d[i] = t
  BY <1>5, <1>8, <1>9
<1>12. \A i \in 1 .. n + 1 : out'[i] = buckets'[d[i][1]][d[i][2]].value
  <2> SUFFICES ASSUME NEW i \in 1 .. n + 1
               PROVE  out'[i] = PairAt(d[i]).value
    BY <1>1 DEF PairAt
  <2> QED BY <1>5, <1>6, <1>8, <1>9
<1> QED BY <1>6, <1>7, <1>9, <1>10, <1>11, <1>12, SMTT(30) DEF Collected, PairAt

(* Initially nothing is stored. *)
LEMMA InitMap == Init => MapInv /\ Map!Init
<1> SUFFICES ASSUME Init PROVE MapInv /\ Map!Init
  OBVIOUS
<1>1. Indices = {} /\ Slots = {} /\ pc = "idle" /\ open = FALSE /\ ret = <<>>
  BY DEF Init, Indices, Slots
<1>2. Stored = {} /\ Remaining = {}
  BY <1>1 DEF Stored, Remaining
<1>3. Contents = [n \in {} |-> {}]
  BY <1>2 DEF Contents, MapOf
<1>4. MapInv
  BY <1>1, InitInv DEF MapInv, PairsFound, Collected, Destroyed
<1> QED BY <1>1, <1>2, <1>3, <1>4 DEF Map!Init

(* Outside the two loops there is nothing behind them. *)
LEMMA MapInvStep ==
  ASSUME MapInv, HasComparator, [Next]_vars PROVE MapInv'
<1>1. TableInv /\ TableInv' /\ TypeOK' /\ PairsFound'
  <2>1. TableInv /\ PairsFound
    BY DEF MapInv
  <2>2. TableInv' /\ TypeOK'
    BY <2>1, StepInv DEF TableInv
  <2> QED BY <2>1, <2>2, FoundStep
<1>2. Collected'
  <2>1. CASE pc' # "values"
    BY <2>1 DEF Collected
  <2>2. CASE CollectValue
    BY <2>2, CollectValueKeeps
  <2>3. CASE StartValues
    <3>1. /\ pc = "idle" /\ local' = Begin /\ out' = out /\ Slots' = Slots
          /\ UNCHANGED <<buckets, capacity>>
      BY <2>3, SlotsSame DEF StartValues, table
    <3>2. out = <<>> /\ Len(out') = 0
      BY <1>1, <3>1 DEF TableInv, LoopOK
    <3>3. Ahead(local)' = Slots
      BY <1>1, <3>1, AheadOfBegin DEF Ahead, Slots, Indices, TableInv
    <3>4. Slots' \ Ahead(local)' = {} /\ 1 .. Len(out') = {}
      BY <3>1, <3>2, <3>3
    <3>5. [i \in {} |-> 0] \in [1 .. Len(out') -> Slots' \ Ahead(local)']
      BY <3>4
    <3> QED BY <3>4, <3>5 DEF Collected
  <2>4. CASE UNCHANGED vars
    BY <2>4 DEF MapInv, Collected, PairAt, Slots, Ahead, Indices, vars, table, loop
  <2>5. pc' = "values" => CollectValue \/ StartValues \/ UNCHANGED vars
    <3>1. CASE CreateTable \/ CreateIterator \/ IteratorNext
      BY <3>1 DEF CreateTable, CreateIterator, IteratorNext, loop
    <3>2. CASE \E k \in Keys : RemoveElement(k) \/ GetValue(k)
      BY <3>2 DEF RemoveElement, GetValue, loop
    <3>3. CASE \E k \in Keys, v \in Values : InsertElement(k, v) \/ InsertElementFails(k, v)
      BY <3>3 DEF InsertElement, InsertElementFails, loop
    <3>4. CASE StartFree \/ EndValues \/ FreeBucket \/ EndFree
      BY <3>4 DEF StartFree, EndValues, FreeBucket, EndFree, EndLoop
    <3> QED BY <3>1, <3>2, <3>3, <3>4 DEF Next, Loop
  <2> QED BY <2>1, <2>2, <2>3, <2>4, <2>5
<1>3. Destroyed'
  <2>1. CASE pc' # "free"
    BY <2>1 DEF Destroyed
  <2>2. CASE FreeBucket
    BY <1>1, <2>2, FreeBucketKeeps
  <2>3. CASE StartFree
    <3>1. pc = "idle" /\ out' = out /\ index' = index /\ ~open'
          /\ capacity' = capacity
      BY <2>3 DEF StartFree, CloseIterator, table
    <3>2. Len(out') = 0 /\ index' = 0
      BY <1>1, <3>1 DEF TableInv, LoopOK
    <3>3. 1 .. Len(out') = {} /\ \A b \in Indices' : ~(b < index')
      BY <3>2 DEF Indices
    <3> QED BY <3>1, <3>3 DEF Destroyed
  <2>4. CASE UNCHANGED vars
    BY <2>4 DEF MapInv, Destroyed, PairAt, Slots, Indices, vars, table, iterator, loop
  <2>5. pc' = "free" => FreeBucket \/ StartFree \/ UNCHANGED vars
    <3>1. CASE CreateTable \/ CreateIterator \/ IteratorNext
      BY <3>1 DEF CreateTable, CreateIterator, IteratorNext, loop
    <3>2. CASE \E k \in Keys : RemoveElement(k) \/ GetValue(k)
      BY <3>2 DEF RemoveElement, GetValue, loop
    <3>3. CASE \E k \in Keys, v \in Values : InsertElement(k, v) \/ InsertElementFails(k, v)
      BY <3>3 DEF InsertElement, InsertElementFails, loop
    <3>4. CASE StartValues \/ CollectValue \/ EndValues \/ EndFree
      BY <3>4 DEF StartValues, CollectValue, EndValues, EndFree, EndLoop
    <3> QED BY <3>1, <3>2, <3>3, <3>4 DEF Next, Loop
  <2> QED BY <2>1, <2>2, <2>3, <2>4, <2>5
<1> QED BY <1>1, <1>2, <1>3 DEF MapInv

(* The turns of the loops and their starts change nothing a client sees, *)
(* but that ht_freeTable takes its iterator away.                        *)
LEMMA LoopRefines ==
  ASSUME MapInv, HasComparator, TableInv',
         StartValues \/ CollectValue \/ StartFree \/ FreeBucket
  PROVE  Map!DropIterator \/ UNCHANGED Map!vars
<1>1. TableInv
  BY DEF MapInv
<1>2. CASE StartValues \/ CollectValue
  <2>1. /\ pc # "free" /\ pc' # "free"
        /\ UNCHANGED <<buckets, capacity, open, it, ret>>
    BY <1>2 DEF StartValues, CollectValue, table, iterator
  <2>2. Contents' = Contents /\ Remaining' = Remaining
    BY <1>1, <2>1, ViewUnchanged
  <2> QED BY <2>1, <2>2 DEF Map!vars
<1>3. CASE StartFree
  <2>1. /\ pc = "idle" /\ pc' = "free" /\ open' = FALSE
        /\ UNCHANGED <<buckets, capacity, out, ret>>
    BY <1>3 DEF StartFree, CloseIterator, table
  <2>2. out = <<>>
    BY <1>1, <2>1 DEF TableInv, LoopOK
  <2>3. Stored' = Stored
    <3>1. {out'[i] : i \in DOMAIN out'} = {}
      BY <2>1, <2>2
    <3> QED BY <2>1, <3>1, SlotsSame DEF Stored
  <2>4. Contents' = Contents /\ Remaining' = {}
    BY <2>1, <2>3 DEF Contents, Remaining
  <2>5. open = FALSE => Remaining = {}
    BY DEF Remaining
  <2>6. open \in BOOLEAN
    BY <1>1 DEF TableInv, TypeOK
  <2> QED BY <2>1, <2>4, <2>5, <2>6 DEF Map!DropIterator, Map!CloseIterator, Map!vars
<1>4. CASE FreeBucket
  <2>1. ~open /\ open' = open /\ ret' = ret
    BY <1>4 DEF FreeBucket, iterator, MapInv, Destroyed
  <2>2. Contents' = Contents
    BY <1>4, FreeBucketKeeps DEF Contents
  <2> QED BY <2>1, <2>2 DEF Map!vars, Remaining
<1> QED BY <1>2, <1>3, <1>4

(* Every step of the table is a step of the map, or changes nothing of it. *)
LEMMA StepRefines ==
  ASSUME MapInv, HasComparator, TableInv', [Next]_vars
  PROVE  [Map!Next]_Map!vars
<1>1. TypeOK' /\ TableInv
  BY DEF TableInv, MapInv
<1>2. CASE CreateTable
  BY <1>1, <1>2, CreateRefines DEF Map!Next
<1>3. CASE CreateIterator
  BY <1>3, CreateIteratorRefines DEF Map!Next
<1>4. CASE IteratorNext
  BY <1>4, IteratorNextRefines DEF Map!Next
<1>5. ASSUME NEW k \in Keys, RemoveElement(k) PROVE Map!Next
  BY <1>1, <1>5, RemoveElementRefines DEF Map!Next
<1>6. ASSUME NEW k \in Keys, GetValue(k) PROVE Map!Next
  BY <1>6, GetValueRefines DEF Map!Next
<1>7. ASSUME NEW k \in Keys, NEW v \in Values, InsertElement(k, v) PROVE Map!Next
  BY <1>7, InsertElementRefines DEF Map!Next
<1>8. ASSUME NEW k \in Keys, NEW v \in Values, InsertElementFails(k, v) PROVE Map!Next
  BY <1>8, FailureRefines DEF Map!Next
<1>9. CASE StartValues \/ CollectValue \/ StartFree \/ FreeBucket
  BY <1>9, LoopRefines DEF Map!Next
<1>10. CASE EndValues
  BY <1>10, EndValuesRefines DEF Map!Next
<1>11. CASE EndFree
  BY <1>11, EndFreeRefines DEF Map!Next
<1>12. CASE UNCHANGED vars
  <2>1. UNCHANGED <<buckets, capacity, open, it, pc, out, ret>>
    BY <1>12 DEF vars, table, iterator, loop
  <2> QED BY <1>1, <2>1, ViewUnchanged DEF Map!vars
<1> QED
  BY <1>2, <1>3, <1>4, <1>5, <1>6, <1>7, <1>8, <1>9, <1>10, <1>11, <1>12
  DEF Next, Loop

(***************************************************************************)
(* A table with a key comparator (formal_grammar.c gives one to each of    *)
(* its tables) is the map KeyValueMap describes, whatever keys collide,    *)
(* whatever the order of the calls and whichever insertions fail.          *)
(***************************************************************************)
THEOREM TableImplementsMap == HasComparator => (Spec => KeepsPromise)
<1> SUFFICES ASSUME HasComparator PROVE Spec => KeepsPromise
  OBVIOUS
<1>1. MapInv /\ [Next]_vars => MapInv'
  BY MapInvStep
<1>2. MapInv /\ TableInv' /\ [Next]_vars => [Map!Next]_Map!vars
  BY StepRefines
<1>3. MapInv => TableInv
  BY DEF MapInv
<1> QED BY InitMap, <1>1, <1>2, <1>3, PTL DEF Spec, KeepsPromise, Map!Spec
=============================================================================
