----------------------------- MODULE HashTable ------------------------------
(***************************************************************************)
(* hash_table.c: an array of buckets, each a linked list of pairs.  A      *)
(* bucket is the sequence of its pairs and an iterator the position of the *)
(* pair it returns next, as CursorList promises and LinkedList keeps.      *)
(*                                                                         *)
(* A key is a pointer and Name[k] the characters it points to, so that two *)
(* keys may compare equal.  The loops of ht_getValues and ht_freeTable     *)
(* take one step per turn.                                                 *)
(*                                                                         *)
(* A list that runs out of memory leaves out the pair without a word       *)
(* (linked_list.c:75), and ht_insertElement counts it all the same.  The   *)
(* table's own allocations are not checked at all (a failure there is the  *)
(* end of the program), so they succeed.                                   *)
(***************************************************************************)
EXTENDS Integers, Sequences, SequencesExt, FiniteSets, FiniteSetsExt

CONSTANTS Keys, Values,
          Name,         \* the contents of a key
          Hash,         \* what the hash function returns for a key
          Capacity,     \* the capacity given to ht_createTable
          HasComparator, \* a key comparator was given
          MaxLost       \* bound on the pairs a list has no memory for

(* The hash function reads the contents of the key. *)
ASSUME HashAssumption ==
  /\ Hash \in [Keys -> Nat]
  /\ DOMAIN Name = Keys
  /\ \A k, l \in Keys : Name[k] = Name[l] => Hash[k] = Hash[l]

ASSUME CapacityAssumption == Capacity \in Nat \ {0}

ASSUME MaxLostAssumption == MaxLost \in Nat

VARIABLES
  buckets, capacity, size, \* the fields of the table; capacity 0: no table
  lost,                    \* how many pairs size counts that no list has
  open, it,                \* the client's iterator
  pc,                      \* "idle", "values" or "free"
  local, index, out,       \* the variables of ht_getValues and ht_freeTable
  ret                      \* what the last call returned or destroyed

table == <<buckets, capacity, size, lost>>
iterator == <<open, it>>
loop == <<pc, local, index, out>>
vars == <<table, iterator, loop, ret>>

Indices == 0 .. capacity - 1
Pairs == [key : Keys, value : Values]
NoIterator == [bucket |-> 0, at |-> 0]

Init ==
  /\ buckets = [i \in {} |-> <<>>] /\ capacity = 0 /\ size = 0 /\ lost = 0
  /\ open = FALSE /\ it = NoIterator
  /\ pc = "idle" /\ local = NoIterator /\ index = 0 /\ out = <<>>
  /\ ret = <<>>

CreateTable ==
  /\ pc = "idle" /\ capacity = 0
  /\ buckets' = [i \in 0 .. Capacity - 1 |-> <<>>]
  /\ capacity' = Capacity /\ size' = 0 /\ lost' = 0
  /\ ret' = <<>>
  /\ UNCHANGED <<iterator, loop>>

BucketOf(k) == Hash[k] % capacity

(* without a comparator, 0 (equal) is the result for different pointers *)
Matches(query, key) ==
  IF HasComparator THEN Name[query] = Name[key] ELSE query # key

IsFirstMatch(k, i) ==
  LET pairs == buckets[BucketOf(k)]
  IN  /\ i \in DOMAIN pairs /\ Matches(k, pairs[i].key)
      /\ \A j \in 1 .. i - 1 : ~Matches(k, pairs[j].key)

(* Faulty variant: the pair is added whether or not its key is there. *)
InsertAlways(k, v) ==
  /\ pc = "idle" /\ capacity > 0
  /\ buckets' = [buckets EXCEPT ![BucketOf(k)] = Append(@, [key |-> k, value |-> v])]
  /\ size' = size + 1
  /\ ret' = <<>>
  /\ UNCHANGED <<capacity, lost, iterator, loop>>

(* the existing pair keeps its key *)
InsertElement(k, v) ==
  /\ pc = "idle" /\ capacity > 0
  /\ \/ \E i \in 1 .. Len(buckets[BucketOf(k)]) :
          /\ IsFirstMatch(k, i)
          /\ buckets' = [buckets EXCEPT ![BucketOf(k)][i] = [key |-> @.key, value |-> v]]
          /\ UNCHANGED size
     \/ /\ \A i \in 1 .. Len(buckets[BucketOf(k)]) : ~IsFirstMatch(k, i)
        /\ buckets' = [buckets EXCEPT ![BucketOf(k)] =
                         Append(@, [key |-> k, value |-> v])]
        /\ size' = size + 1
  /\ ret' = <<>>
  /\ UNCHANGED <<capacity, lost, iterator, loop>>

(* ll_pushBack has no memory for the node *)
InsertElementFails(k, v) ==
  /\ pc = "idle" /\ capacity > 0 /\ lost < MaxLost
  /\ \A i \in 1 .. Len(buckets[BucketOf(k)]) : ~IsFirstMatch(k, i)
  /\ size' = size + 1 /\ lost' = lost + 1
  /\ ret' = <<>>
  /\ UNCHANGED <<buckets, capacity, iterator, loop>>

CloseIterator == open' = FALSE /\ it' = NoIterator

(* Faulty variant: the pair that leaves is still counted. *)
RemoveUncounted(k) ==
  /\ pc = "idle" /\ capacity > 0
  /\ \/ \E i \in 1 .. Len(buckets[BucketOf(k)]) :
          /\ IsFirstMatch(k, i)
          /\ ret' = <<buckets[BucketOf(k)][i]>>
          /\ buckets' = [buckets EXCEPT ![BucketOf(k)] = RemoveAt(@, i)]
     \/ /\ \A i \in 1 .. Len(buckets[BucketOf(k)]) : ~IsFirstMatch(k, i)
        /\ ret' = <<>>
        /\ UNCHANGED buckets
  /\ CloseIterator
  /\ UNCHANGED <<capacity, size, lost, loop>>

(* Faulty variant: the removal of a key the table lacks is counted. *)
RemoveAlwaysCounted(k) ==
  /\ pc = "idle" /\ capacity > 0
  /\ \/ \E i \in 1 .. Len(buckets[BucketOf(k)]) :
          /\ IsFirstMatch(k, i)
          /\ ret' = <<buckets[BucketOf(k)][i]>>
          /\ buckets' = [buckets EXCEPT ![BucketOf(k)] = RemoveAt(@, i)]
     \/ /\ \A i \in 1 .. Len(buckets[BucketOf(k)]) : ~IsFirstMatch(k, i)
        /\ ret' = <<>>
        /\ UNCHANGED buckets
  /\ size' = size - 1
  /\ CloseIterator
  /\ UNCHANGED <<capacity, lost, loop>>

(* the client drops its iterator, which may point to the freed pair *)
RemoveElement(k) ==
  /\ pc = "idle" /\ capacity > 0
  /\ \/ \E i \in 1 .. Len(buckets[BucketOf(k)]) :
          /\ IsFirstMatch(k, i)
          /\ ret' = <<buckets[BucketOf(k)][i]>>
          /\ buckets' = [buckets EXCEPT ![BucketOf(k)] = RemoveAt(@, i)]
          /\ size' = size - 1
     \/ /\ \A i \in 1 .. Len(buckets[BucketOf(k)]) : ~IsFirstMatch(k, i)
        /\ ret' = <<>>
        /\ UNCHANGED <<buckets, size>>
  /\ CloseIterator
  /\ UNCHANGED <<capacity, lost, loop>>

GetValue(k) ==
  /\ pc = "idle" /\ capacity > 0
  /\ \/ \E i \in 1 .. Len(buckets[BucketOf(k)]) :
          IsFirstMatch(k, i) /\ ret' = <<buckets[BucketOf(k)][i].value>>
     \/ /\ \A i \in 1 .. Len(buckets[BucketOf(k)]) : ~IsFirstMatch(k, i)
        /\ ret' = <<>>
  /\ UNCHANGED <<table, iterator, loop>>
-----------------------------------------------------------------------------
(* Iterators *)

FirstNonEmpty(offset) ==
  Min({i \in offset .. capacity : i = capacity \/ buckets[i] # <<>>})

IteratorAt(b) == [bucket |-> b, at |-> IF b < capacity THEN 1 ELSE 0]

Begin == IteratorAt(FirstNonEmpty(0))

HasNext(i) == i.bucket < capacity /\ i.at # 0

Current(i) == buckets[i.bucket][i.at]

(* Faulty variant: the search for the next bucket starts at this one. *)
AfterAgain(i) ==
  IF i.at < Len(buckets[i.bucket])
  THEN [i EXCEPT !.at = @ + 1]
  ELSE IteratorAt(FirstNonEmpty(i.bucket))

(* Faulty variant: the next bucket is taken even when it is empty. *)
AfterUnskipped(i) ==
  IF i.at < Len(buckets[i.bucket])
  THEN [i EXCEPT !.at = @ + 1]
  ELSE [bucket |-> i.bucket + 1,
        at |-> IF i.bucket + 1 < capacity /\ buckets[i.bucket + 1] # <<>> THEN 1 ELSE 0]

After(i) ==
  IF i.at < Len(buckets[i.bucket])
  THEN [i EXCEPT !.at = @ + 1]
  ELSE IteratorAt(FirstNonEmpty(i.bucket + 1))

CreateIterator ==
  /\ pc = "idle" /\ capacity > 0
  /\ open' = TRUE /\ it' = Begin
  /\ ret' = <<>>
  /\ UNCHANGED <<table, loop>>

IteratorNext ==
  /\ pc = "idle" /\ open /\ HasNext(it)
  /\ ret' = <<Current(it)>>
  /\ it' = After(it)
  /\ UNCHANGED <<table, open, loop>>
-----------------------------------------------------------------------------
(* ht_getValues *)

EndLoop == pc' = "idle" /\ local' = NoIterator /\ index' = 0 /\ out' = <<>>

StartValues ==
  /\ pc = "idle" /\ capacity > 0
  /\ pc' = "values" /\ local' = Begin
  /\ UNCHANGED <<table, iterator, index, out, ret>>

CollectValue ==
  /\ pc = "values" /\ HasNext(local)
  /\ out' = Append(out, Current(local).value)
  /\ local' = After(local)
  /\ UNCHANGED <<table, iterator, pc, index, ret>>

(* the NULL is written at values[size] *)
EndValues ==
  /\ pc = "values" /\ ~HasNext(local)
  /\ ret' = out
  /\ EndLoop
  /\ UNCHANGED <<table, iterator>>
-----------------------------------------------------------------------------
(* ht_freeTable *)

StartFree ==
  /\ pc = "idle" /\ capacity > 0
  /\ pc' = "free"
  /\ CloseIterator
  /\ UNCHANGED <<table, local, index, out, ret>>

(* Faulty variant: the loop does not go on to the next bucket. *)
FreeBucketAgain ==
  /\ pc = "free" /\ index < capacity
  /\ out' = out \o buckets[index]
  /\ buckets' = [buckets EXCEPT ![index] = <<>>]
  /\ UNCHANGED <<capacity, size, lost, iterator, pc, local, index, ret>>

FreeBucket ==
  /\ pc = "free" /\ index < capacity
  /\ out' = out \o buckets[index]
  /\ buckets' = [buckets EXCEPT ![index] = <<>>]
  /\ index' = index + 1
  /\ UNCHANGED <<capacity, size, lost, iterator, pc, local, ret>>

EndFree ==
  /\ pc = "free" /\ index = capacity
  /\ buckets' = [i \in {} |-> <<>>] /\ capacity' = 0 /\ size' = 0 /\ lost' = 0
  /\ ret' = out
  /\ EndLoop
  /\ UNCHANGED iterator
-----------------------------------------------------------------------------
Loop == CollectValue \/ EndValues \/ FreeBucket \/ EndFree

Next ==
  \/ CreateTable \/ CreateIterator \/ IteratorNext
  \/ \E k \in Keys : \/ RemoveElement(k) \/ GetValue(k)
                     \/ \E v \in Values : InsertElement(k, v) \/ InsertElementFails(k, v)
  \/ StartValues \/ StartFree \/ Loop

(* a call that has started goes on *)
Spec == Init /\ [][Next]_vars /\ WF_vars(Loop)
-----------------------------------------------------------------------------
(* Properties *)

Iterators == [bucket : Nat, at : Nat]

(* Every field keeps its type; an iterator with a next pair points to it,  *)
(* so ht_iteratorNext reads no pair that is not there.                     *)
PointsToPair(i) == HasNext(i) => i.at <= Len(buckets[i.bucket])

TypeOK ==
  /\ capacity \in {0, Capacity} /\ size \in Nat /\ lost \in Nat
  /\ buckets \in [Indices -> Seq(Pairs)]
  /\ open \in BOOLEAN /\ it \in Iterators /\ local \in Iterators
  /\ PointsToPair(it) /\ PointsToPair(local)
  /\ pc \in {"idle", "values", "free"} /\ index \in 0 .. capacity
  /\ ret \in Seq(Pairs \cup Values)
  /\ out \in Seq(IF pc = "free" THEN Pairs ELSE Values)

(***************************************************************************)
(* Every pair is the one that a look-up of its key finds: it is in the     *)
(* bucket of its key, and no pair with an equal key hides it or is hidden. *)
(***************************************************************************)
PairsFound ==
  HasComparator =>
    \A b \in Indices : \A i \in DOMAIN buckets[b] :
      BucketOf(buckets[b][i].key) = b /\ IsFirstMatch(buckets[b][i].key, i)

Slots == UNION {{b} \X DOMAIN buckets[b] : b \in Indices}

(* size counts the pairs and, until the table is freed, those a list had   *)
(* no memory for: no removal makes up for them, and ht_getValues allocates *)
(* size + 1 entries.                                                       *)
SizeCounts == pc # "free" => size = Cardinality(Slots) + lost

(***************************************************************************)
(* ht_getValues never writes past the array it allocated.  It leaves one   *)
(* entry in front of the NULL unwritten for each pair that a list had no   *)
(* memory for, and none without such failures.                             *)
(***************************************************************************)
ValuesFit ==
  pc = "values" =>
    /\ Len(out) + lost <= size
    /\ ~HasNext(local) => Len(out) + lost = size

(* ht_getValues and ht_freeTable return. *)
CallsReturn == pc # "idle" ~> pc = "idle"

(* hash_table.h:45-46: without a comparator, the table compares key        *)
(* pointers: a key that was inserted is found by its own pointer.          *)
FoundByPointer ==
  ~HasComparator =>
    \A b \in Indices : \A i \in DOMAIN buckets[b] :
      \E j \in DOMAIN buckets[b] : IsFirstMatch(buckets[b][i].key, j)
-----------------------------------------------------------------------------
(* The refinement of KeyValueMap.  While ht_freeTable runs, the pairs      *)
(* already destroyed still belong to the map.                              *)

Stored ==
  {buckets[s[1]][s[2]] : s \in Slots}
    \cup (IF pc = "free" THEN {out[i] : i \in DOMAIN out} ELSE {})

Ahead(i) ==
  {s \in Slots : \/ s[1] > i.bucket
                 \/ s[1] = i.bucket /\ i.at # 0 /\ s[2] >= i.at}

Names(slots) == {Name[buckets[s[1]][s[2]].key] : s \in slots}

MapOf(pairs) ==
  [n \in {Name[p.key] : p \in pairs} |-> CHOOSE p \in pairs : Name[p.key] = n]

Contents == MapOf(Stored)
Remaining == IF open THEN Names(Ahead(it)) ELSE {}

Map == INSTANCE KeyValueMap WITH map <- Contents, rest <- Remaining

(* The table is the map it promises to be, and its iterators return every  *)
(* pair once, whatever the order of the calls and whichever insertions     *)
(* fail.                                                                   *)
KeepsPromise == Map!Spec
=============================================================================
