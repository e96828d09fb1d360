-------------------------- MODULE LinkedListProofs --------------------------
(***************************************************************************)
(* Theorems about the linked list for every set of values and nodes.  The  *)
(* inductive invariant ListInv names the nodes in their order, c[1] to     *)
(* c[k], and says where the pointers of the list, of the iterator and of   *)
(* the call that is walking stand in it.                                   *)
(***************************************************************************)
EXTENDS LinkedList, Integers, SequencesExt, TLAPS, FiniteSetTheorems, SequenceTheorems
-----------------------------------------------------------------------------
(* Chains of nodes *)

(* the i-th of the k nodes of c, NULL before the first and after the last *)
At(c, k, i) == IF i \in 1..k THEN c[i] ELSE Null

(* Starting with first and following f, the nodes of f are c[1] to c[k].   *)
Links(f, first, c, k) ==
  /\ k \in Nat /\ c \in [1..k -> DOMAIN f]
  /\ \A i, j \in 1..k : c[i] = c[j] => i = j
  /\ \A n \in DOMAIN f : \E i \in 1..k : c[i] = n
  /\ first = At(c, k, 1)
  /\ \A i \in 1..k : f[c[i]] = At(c, k, i + 1)

(* c with n as its p+1st node, and without its p-th *)
Inserted(c, k, p, n) ==
  [i \in 1..(k + 1) |-> IF i <= p THEN c[i] ELSE IF i = p + 1 THEN n ELSE c[i - 1]]
Removed(c, k, p) == [i \in 1..(k - 1) |-> IF i < p THEN c[i] ELSE c[i + 1]]
-----------------------------------------------------------------------------
(* The invariant *)

(* list->back is the last node until a value is inserted behind it.        *)
BackOK(c, k) ==
  /\ back \in DOMAIN next \cup {Null}
  /\ ~inserted => back = At(c, k, k)

(* The call that searches has passed p nodes, none of which matches.       *)
SearchOK(c, k) ==
  \E p \in 0..k :
    /\ prev = At(c, k, p) /\ scan = At(c, k, p + 1)
    /\ \A i \in 1..p : data[c[i]] # query

ShapeOK(c, k) ==
  /\ Links(next, IF pc = "free" THEN scan ELSE front, c, k)
  /\ IF pc = "free" THEN k <= size ELSE k = size /\ BackOK(c, k)
  /\ pc \in {"find", "remove"} => SearchOK(c, k)

CallOK ==
  /\ pc \in {"find", "remove"} => query \in Values
  /\ pc = "idle" => prev = Null /\ scan = Null
  /\ pc = "free" => prev = Null /\ ~open

IteratorOK ==
  /\ {current, pEntry} \ {Null} \subseteq DOMAIN next
  /\ ~open => current = Null /\ pEntry = Null

ListInv ==
  /\ TypeOK /\ CallOK /\ IteratorOK
  /\ \E k \in Nat : \E c \in [1..k -> DOMAIN next] : ShapeOK(c, k)
-----------------------------------------------------------------------------
(* Inserting and removing a node *)

LEMMA LinksInsert ==
  ASSUME NEW f, NEW first, NEW c, NEW k, Links(f, first, c, k),
         NEW p \in 0..k, NEW n, n \notin DOMAIN f, n # Null, Null \notin DOMAIN f,
         NEW g, g = IF p = 0 THEN Set(f, n, first)
                    ELSE Set(Set(f, n, f[c[p]]), c[p], n)
  PROVE  Links(g, IF p = 0 THEN n ELSE first, Inserted(c, k, p, n), k + 1)
  <1> DEFINE d == Inserted(c, k, p, n)
  <1>1. /\ k \in Nat /\ k + 1 \in Nat /\ p \in Nat /\ c \in [1..k -> DOMAIN f]
        /\ \A i, j \in 1..k : c[i] = c[j] => i = j
        /\ \A m \in DOMAIN f : \E i \in 1..k : c[i] = m
        /\ first = At(c, k, 1)
        /\ \A i \in 1..k : f[c[i]] = At(c, k, i + 1)
    BY DEF Links
  <1>2. /\ DOMAIN g = DOMAIN f \cup {n}
        /\ \A m \in DOMAIN f : (p = 0 \/ m # c[p]) => g[m] = f[m]
        /\ p = 0 => g[n] = first
        /\ p # 0 => g[c[p]] = n /\ g[n] = f[c[p]]
    BY <1>1 DEF Set
  <1>3. /\ DOMAIN d = 1..(k + 1)
        /\ \A i \in 1..p : d[i] = c[i] /\ i \in 1..k
        /\ d[p + 1] = n /\ p + 1 \in 1..(k + 1)
        /\ \A i \in (p + 2)..(k + 1) : d[i] = c[i - 1] /\ i - 1 \in 1..k
    BY <1>1 DEF Inserted
  <1>4. \A i \in 1..(k + 1) : i \in 1..p \/ i = p + 1 \/ i \in (p + 2)..(k + 1)
    BY <1>1
  <1> HIDE DEF d
  <1>5. d \in [1..(k + 1) -> DOMAIN g]
    <2>1. ASSUME NEW i \in 1..(k + 1) PROVE d[i] \in DOMAIN g
      <3>1. \A l \in 1..k : c[l] \in DOMAIN f
        BY <1>1
      <3> QED
        BY <1>2, <1>3, <1>4, <3>1
    <2>2. d = [i \in 1..(k + 1) |-> d[i]]
      BY <1>1 DEF d, Inserted
    <2> QED
      BY <2>1, <2>2
  <1>6. \A i, j \in 1..(k + 1) : d[i] = d[j] => i = j
    <2> SUFFICES ASSUME NEW i \in 1..(k + 1), NEW j \in 1..(k + 1), d[i] = d[j]
                 PROVE  i = j
      OBVIOUS
    <2> DEFINE old(l) == IF l <= p THEN l ELSE l - 1
    <2>1. \A l \in 1..k : c[l] # n
      BY <1>1
    <2>2. \A l \in 1..(k + 1) : l # p + 1 => d[l] = c[old(l)] /\ old(l) \in 1..k
      <3> SUFFICES ASSUME NEW l \in 1..(k + 1), l # p + 1
                   PROVE  d[l] = c[old(l)] /\ old(l) \in 1..k
        OBVIOUS
      <3>1. CASE l \in 1..p
        BY <1>1, <1>3, <3>1
      <3>2. CASE l \in (p + 2)..(k + 1)
        BY <1>1, <1>3, <3>2
      <3> QED
        BY <1>4, <3>1, <3>2
    <2>3. CASE i = p + 1 \/ j = p + 1
      BY <1>3, <2>1, <2>2, <2>3
    <2>4. CASE i # p + 1 /\ j # p + 1
      <3>1. old(i) = old(j)
        <4> HIDE DEF old
        <4> QED
          BY <1>1, <2>2, <2>4
      <3> QED
        BY <1>1, <2>4, <3>1
    <2> QED
      BY <2>3, <2>4
  <1>7. \A m \in DOMAIN g : \E i \in 1..(k + 1) : d[i] = m
    <2> SUFFICES ASSUME NEW m \in DOMAIN f PROVE \E i \in 1..(k + 1) : d[i] = m
      BY <1>2, <1>3
    <2>1. PICK i \in 1..k : c[i] = m
      BY <1>1
    <2>2. CASE i <= p
      BY <1>1, <1>3, <2>1, <2>2
    <2>3. CASE i > p
      <3>1. i + 1 \in (p + 2)..(k + 1) /\ (i + 1) - 1 = i
        BY <1>1, <2>3
      <3> QED
        BY <1>3, <2>1, <3>1
    <2> QED
      BY <1>1, <2>2, <2>3
  <1>8. (IF p = 0 THEN n ELSE first) = At(d, k + 1, 1)
    BY <1>1, <1>3 DEF At
  <1>9. \A i \in 1..(k + 1) : g[d[i]] = At(d, k + 1, i + 1)
    <2> SUFFICES ASSUME NEW i \in 1..(k + 1) PROVE g[d[i]] = At(d, k + 1, i + 1)
      OBVIOUS
    <2>1. CASE i \in 1..p
      <3>1. CASE i = p
        BY <1>1, <1>2, <1>3, <2>1, <3>1 DEF At
      <3>2. CASE i # p
        <4>1. i + 1 \in 1..p /\ i \in 1..k /\ i + 1 \in 1..k /\ i + 1 \in 1..(k + 1) /\ p \in 1..k
          BY <1>1, <2>1, <3>2
        <4>2. d[i + 1] = c[i + 1] /\ d[i] = c[i] /\ c[i] # c[p] /\ c[i] \in DOMAIN f
          BY <1>1, <1>3, <2>1, <3>2, <4>1
        <4> QED
          BY <1>1, <1>2, <4>1, <4>2 DEF At
      <3> QED
        BY <3>1, <3>2
    <2>2. CASE i = p + 1
      <3>1. g[n] = At(c, k, p + 1)
        BY <1>1, <1>2
      <3>2. At(c, k, p + 1) = At(d, k + 1, p + 2)
        <4>1. CASE p + 1 \in 1..k
          <5>1. p + 2 \in (p + 2)..(k + 1) /\ (p + 2) - 1 = p + 1 /\ p + 2 \in 1..(k + 1)
            BY <1>1, <4>1
          <5> QED
            BY <1>3, <4>1, <5>1 DEF At
        <4>2. CASE p + 1 \notin 1..k
          BY <1>1, <4>2 DEF At
        <4> QED
          BY <4>1, <4>2
      <3>3. i + 1 = p + 2
        BY <1>1, <2>2
      <3> QED
        BY <1>3, <2>2, <3>1, <3>2, <3>3
    <2>3. CASE i \in (p + 2)..(k + 1)
      <3>1. d[i] = c[i - 1] /\ i - 1 \in 1..k /\ (p # 0 => p \in 1..k /\ i - 1 # p)
        BY <1>1, <1>3, <2>3
      <3>2. g[d[i]] = f[c[i - 1]]
        BY <1>1, <1>2, <3>1
      <3>3. f[c[i - 1]] = At(c, k, i)
        BY <1>1, <3>1
      <3>4. At(c, k, i) = At(d, k + 1, i + 1)
        <4>1. CASE i \in 1..k
          <5>1. i + 1 \in (p + 2)..(k + 1) /\ (i + 1) - 1 = i /\ i + 1 \in 1..(k + 1)
            BY <1>1, <2>3, <4>1
          <5> QED
            BY <1>3, <4>1, <5>1 DEF At
        <4>2. CASE i \notin 1..k
          BY <1>1, <4>2 DEF At
        <4> QED
          BY <4>1, <4>2
      <3> QED
        BY <3>2, <3>3, <3>4
    <2> QED
      BY <1>4, <2>1, <2>2, <2>3
  <1> QED
    BY <1>1, <1>5, <1>6, <1>7, <1>8, <1>9 DEF Links, d

LEMMA LinksRemove ==
  ASSUME NEW f, NEW first, NEW c, NEW k, Links(f, first, c, k),
         NEW p \in 1..k, Null \notin DOMAIN f,
         NEW g, g = Drop(IF p = 1 THEN f ELSE Set(f, c[p - 1], f[c[p]]), c[p])
  PROVE  Links(g, IF p = 1 THEN f[first] ELSE first, Removed(c, k, p), k - 1)
  <1> DEFINE d == Removed(c, k, p)
             old(i) == IF i < p THEN i ELSE i + 1
  <1>1. /\ k \in Nat /\ k - 1 \in Nat /\ p \in Nat /\ c \in [1..k -> DOMAIN f]
        /\ \A i, j \in 1..k : c[i] = c[j] => i = j
        /\ \A m \in DOMAIN f : \E i \in 1..k : c[i] = m
        /\ first = At(c, k, 1)
        /\ \A i \in 1..k : f[c[i]] = At(c, k, i + 1)
    BY DEF Links
  <1>2. /\ p # 1 => p - 1 \in 1..k /\ c[p - 1] \in DOMAIN f /\ c[p - 1] # c[p]
        /\ c[p] \in DOMAIN f
    BY <1>1
  <1>3. /\ DOMAIN g = DOMAIN f \ {c[p]}
        /\ \A m \in DOMAIN f : m # c[p] /\ (p = 1 \/ m # c[p - 1]) => g[m] = f[m]
        /\ p # 1 => g[c[p - 1]] = f[c[p]]
    BY <1>1, <1>2 DEF Set, Drop
  <1>4. /\ DOMAIN d = 1..(k - 1)
        /\ \A i \in 1..(k - 1) : d[i] = c[old(i)] /\ old(i) \in 1..k /\ old(i) # p
        /\ \A i, j \in 1..(k - 1) : old(i) = old(j) => i = j
    BY <1>1 DEF Removed
  <1>5. d \in [1..(k - 1) -> DOMAIN g]
    <2>1. ASSUME NEW i \in 1..(k - 1) PROVE d[i] \in DOMAIN g
      <3> HIDE DEF old, d
      <3>1. d[i] = c[old(i)] /\ old(i) \in 1..k /\ old(i) # p
        BY <1>4
      <3>2. c[old(i)] \in DOMAIN f /\ c[old(i)] # c[p]
        BY <1>1, <3>1
      <3> QED
        BY <1>3, <3>1, <3>2
    <2>2. d = [i \in 1..(k - 1) |-> d[i]]
      BY <1>1 DEF d, Removed
    <2> HIDE DEF d
    <2> QED
      BY <2>1, <2>2
  <1>6. \A i, j \in 1..(k - 1) : d[i] = d[j] => i = j
    <2> HIDE DEF old, d
    <2> SUFFICES ASSUME NEW i \in 1..(k - 1), NEW j \in 1..(k - 1), d[i] = d[j]
                 PROVE  i = j
      OBVIOUS
    <2>1. c[old(i)] = c[old(j)] /\ old(i) \in 1..k /\ old(j) \in 1..k
      BY <1>4
    <2>2. old(i) = old(j)
      BY <1>1, <2>1
    <2> QED
      BY <1>4, <2>2
  <1>7. \A m \in DOMAIN g : \E i \in 1..(k - 1) : d[i] = m
    <2> SUFFICES ASSUME NEW m \in DOMAIN f, m # c[p]
                 PROVE  \E i \in 1..(k - 1) : d[i] = m
      BY <1>3
    <2>1. PICK i \in 1..k : c[i] = m /\ i # p
      BY <1>1
    <2>2. CASE i < p
      BY <1>1, <1>4, <2>1, <2>2
    <2>3. CASE i > p
      <3>1. i - 1 \in 1..(k - 1) /\ old(i - 1) = i
        BY <1>1, <2>3
      <3> QED
        BY <1>4, <2>1, <3>1
    <2> QED
      BY <1>1, <2>1, <2>2, <2>3
  <1>8. ASSUME NEW i \in 1..k, i # p
        PROVE  At(c, k, i) = At(d, k - 1, IF i < p THEN i ELSE i - 1)
    <2>1. CASE i < p
      BY <1>1, <1>4, <2>1 DEF At
    <2>2. CASE i > p
      <3>1. i - 1 \in 1..(k - 1) /\ old(i - 1) = i
        BY <1>1, <2>2
      <3> QED
        BY <1>4, <2>2, <3>1 DEF At
    <2> QED
      BY <1>1, <1>8, <2>1, <2>2
  <1>9. At(c, k, k + 1) = Null /\ At(d, k - 1, k) = Null
    BY <1>1 DEF At
  <1>10. (IF p = 1 THEN f[first] ELSE first) = At(d, k - 1, 1)
    <2>1. CASE p = 1 /\ k = 1
      BY <1>1, <1>9, <2>1 DEF At
    <2>2. CASE p = 1 /\ k # 1
      <3>1. 2 \in 1..k /\ 1 \in 1..k /\ 2 # p /\ ~(2 < p) /\ 2 - 1 = 1 /\ 1 + 1 = 2
        BY <1>1, <2>2
      <3>2. f[first] = At(c, k, 2)
        BY <1>1, <3>1 DEF At
      <3> QED
        BY <1>8, <2>2, <3>1, <3>2
    <2>3. CASE p # 1
      <3>1. 1 \in 1..k /\ 1 < p
        BY <1>1, <2>3
      <3> QED
        BY <1>1, <1>8, <2>3, <3>1
    <2> QED
      BY <2>1, <2>2, <2>3
  <1>11. ASSUME NEW i \in 1..(k - 1) PROVE g[d[i]] = At(d, k - 1, i + 1)
    <2>1. d[i] = c[old(i)] /\ old(i) \in 1..k /\ old(i) # p
      BY <1>4
    <2>2. CASE p # 1 /\ i = p - 1
      <3>1. g[d[i]] = At(c, k, p + 1)
        BY <1>1, <1>3, <2>1, <2>2
      <3>2. CASE p = k
        BY <1>1, <1>9, <2>2, <3>1, <3>2
      <3>3. CASE p # k
        <4>1. p + 1 \in 1..k /\ p + 1 # p /\ ~(p + 1 < p) /\ (p + 1) - 1 = i + 1
          BY <1>1, <2>2, <3>3
        <4> QED
          BY <1>8, <3>1, <4>1
      <3> QED
        BY <3>2, <3>3
    <2>3. CASE p = 1 \/ i # p - 1
      <3>1. g[d[i]] = At(c, k, old(i) + 1)
        <4>1. p = 1 \/ old(i) # p - 1
          BY <1>1, <2>3
        <4> HIDE DEF old, d
        <4>2. /\ c[old(i)] \in DOMAIN f /\ c[old(i)] # c[p]
              /\ p = 1 \/ c[old(i)] # c[p - 1]
          BY <1>1, <1>2, <2>1, <4>1
        <4> QED
          BY <1>1, <1>3, <2>1, <4>2
      <3>2. CASE old(i) = k
        <4>1. i + 1 = k
          BY <1>1, <2>1, <2>3, <3>2
        <4> QED
          BY <1>9, <3>1, <3>2, <4>1
      <3>3. CASE old(i) # k
        <4>1. /\ old(i) + 1 \in 1..k /\ old(i) + 1 # p
              /\ (IF old(i) + 1 < p THEN old(i) + 1 ELSE (old(i) + 1) - 1) = i + 1
          BY <1>1, <2>1, <2>3, <3>3, SMTT(30)
        <4> HIDE DEF old, d
        <4> QED
          BY <1>8, <3>1, <4>1
      <3> QED
        BY <3>2, <3>3
    <2> QED
      BY <2>2, <2>3
  <1> HIDE DEF d
  <1> QED
    BY <1>1, <1>5, <1>6, <1>7, <1>10, <1>11 DEF Links, d
-----------------------------------------------------------------------------
(* The invariant is inductive *)

LEMMA InitListInv == Init => ListInv
  <1> SUFFICES ASSUME Init PROVE ListInv
    OBVIOUS
  <1>1. DOMAIN next = {} /\ DOMAIN data = {}
    BY DEF Init
  <1>2. TypeOK /\ CallOK /\ IteratorOK
    BY <1>1 DEF Init, TypeOK, CallOK, IteratorOK, Address
  <1>3. PICK c \in [1..0 -> DOMAIN next] : TRUE
    <2>1. [i \in 1..0 |-> Null] \in [1..0 -> DOMAIN next]
      OBVIOUS
    <2> QED
      BY <2>1
  <1>4. ShapeOK(c, 0)
    BY <1>1, <1>3 DEF Init, ShapeOK, Links, BackOK, At
  <1> QED
    BY <1>2, <1>3, <1>4 DEF ListInv

(* What the chain says of the nodes. *)
LEMMA Chained ==
  ASSUME ListInv, NEW k \in Nat, NEW c \in [1..k -> DOMAIN next], ShapeOK(c, k)
  PROVE  /\ Null \notin DOMAIN next /\ DOMAIN data = DOMAIN next
         /\ \A i \in 1..k : c[i] \in DOMAIN next /\ c[i] # Null
         /\ \A i, j \in 1..k : c[i] = c[j] => i = j
         /\ \A n \in DOMAIN next : \E i \in 1..k : c[i] = n
         /\ \A i \in 1..k : next[c[i]] = At(c, k, i + 1)
         /\ \A i \in Int : At(c, k, i) \in DOMAIN next \cup {Null}
         /\ pc # "free" => front = At(c, k, 1) /\ k = size
         /\ pc = "free" => scan = At(c, k, 1) /\ k <= size
  BY NullAssumption DEF ListInv, ShapeOK, Links, TypeOK, At

(* Both insertions put the new node behind another or in front of all.     *)
LEMMA InsertStep ==
  ASSUME ListInv, NEW v \in Values, NEW n \in Nodes,
         (PushBack(v, n) /\ ~inserted) \/ IteratorInsert(v, n)
  PROVE  ListInv'
  <1>1. PICK k \in Nat : \E c \in [1..k -> DOMAIN next] : ShapeOK(c, k)
    BY DEF ListInv
  <1>2. PICK c \in [1..k -> DOMAIN next] : ShapeOK(c, k)
    BY <1>1
  <1>3. /\ pc = "idle" /\ pc' = pc /\ UNCHANGED walk /\ k = size
        /\ size' = size + 1 /\ n \notin DOMAIN next /\ n # Null
        /\ data' = Set(data, n, v) /\ ret' = NoValue /\ open' = open
    BY <1>2, NullAssumption DEF PushBack, IteratorInsert, ShapeOK, walk, iterator
  <1>4. TypeOK /\ CallOK /\ IteratorOK
    BY DEF ListInv
  <1>5. ASSUME NEW p \in 0..k,
               front' = IF p = 0 THEN n ELSE front,
               next' = IF p = 0 THEN Set(next, n, front)
                       ELSE Set(Set(next, n, next[c[p]]), c[p], n),
               back' \in DOMAIN next \cup {n, Null}, inserted' \in BOOLEAN,
               ~inserted' => back' = n /\ p = k,
               {current', pEntry'} \ {Null} \subseteq DOMAIN next \cup {n},
               ~open => current' = Null /\ pEntry' = Null
        PROVE  ListInv'
    <2>1. Links(next, front, c, k)
      BY <1>2, <1>3 DEF ShapeOK
    <2>2. Links(next', front', Inserted(c, k, p, n), k + 1)
      <3>1. n \notin DOMAIN next /\ n # Null /\ Null \notin DOMAIN next
        BY <1>2, <1>3, Chained
      <3> QED
        BY <1>5, <2>1, <3>1, LinksInsert, SMTT(30)
    <2>3. Inserted(c, k, p, n) \in [1..(k + 1) -> DOMAIN next'] /\ k + 1 \in Nat
      BY <2>2 DEF Links
    <2>4. At(Inserted(c, k, k, n), k + 1, k + 1) = n
      BY DEF At, Inserted
    <2>5. c[p] \in DOMAIN next \/ p = 0
      OBVIOUS
    <2>6. /\ DOMAIN next' = DOMAIN next \cup {n}
          /\ next' \in [DOMAIN next' -> Address] /\ data' \in [DOMAIN next' -> Values]
      <3>1. /\ next \in [DOMAIN next -> Address] /\ data \in [DOMAIN next -> Values]
            /\ front \in Address /\ n \in Address
        BY <1>4 DEF TypeOK, Address
      <3>2. data' \in [DOMAIN next \cup {n} -> Values]
        BY <1>3, <3>1 DEF Set
      <3>3. next' \in [DOMAIN next \cup {n} -> Address]
        BY <1>5, <2>5, <3>1 DEF Set
      <3> QED
        BY <3>2, <3>3
    <2>7. BackOK(Inserted(c, k, p, n), k + 1)'
      BY <1>5, <2>4, <2>6 DEF BackOK
    <2>8. ShapeOK(Inserted(c, k, p, n), k + 1)'
      BY <1>3, <2>2, <2>7 DEF ShapeOK
    <2>9. TypeOK'
      BY <1>3, <1>4, <1>5, <2>6 DEF TypeOK, Address, walk
    <2>10. CallOK' /\ IteratorOK'
      BY <1>3, <1>4, <1>5, <2>6 DEF CallOK, IteratorOK, walk
    <2> QED
      BY <2>3, <2>8, <2>9, <2>10 DEF ListInv
  <1>6. CASE PushBack(v, n) /\ ~inserted
    <2>1. back = At(c, k, k) /\ back \in DOMAIN next \cup {Null}
      BY <1>2, <1>3, <1>6 DEF ShapeOK, BackOK
    <2>2. /\ k = 0 => back = Null /\ front = Null
          /\ k # 0 => back = c[k] /\ back # Null /\ next[c[k]] = Null
      <3>1. /\ front = At(c, k, 1) /\ \A i \in 1..k : c[i] # Null
            /\ \A i \in 1..k : next[c[i]] = At(c, k, i + 1)
        BY <1>2, <1>3, Chained
      <3>2. k # 0 => k \in 1..k /\ k + 1 \notin 1..k
        OBVIOUS
      <3> QED
        BY <2>1, <3>1, <3>2 DEF At
    <2>3. /\ back' = n /\ inserted' = inserted /\ UNCHANGED iterator
          /\ front' = IF k = 0 THEN n ELSE front
          /\ next' = IF k = 0 THEN Set(next, n, front)
                     ELSE Set(Set(next, n, next[c[k]]), c[k], n)
      BY <1>6, <2>2 DEF PushBack
    <2> QED
      BY <1>4, <1>5, <1>6, <2>3 DEF IteratorOK, iterator, TypeOK
  <1>7. CASE IteratorInsert(v, n)
    <2>1. PICK p \in 0..k : IF pEntry = Null THEN p = 0 ELSE p # 0 /\ c[p] = pEntry
      <3>1. CASE pEntry = Null
        BY <3>1
      <3>2. CASE pEntry # Null
        <4>1. pEntry \in DOMAIN next
          BY <1>4, <3>2 DEF IteratorOK
        <4>2. PICK i \in 1..k : c[i] = pEntry
          BY <1>2, <4>1, Chained
        <4> QED
          BY <3>2, <4>2
      <3> QED
        BY <3>1, <3>2
    <2>2. back' = back /\ back \in DOMAIN next \cup {Null} /\ open
      BY <1>2, <1>3, <1>7 DEF ShapeOK, BackOK, IteratorInsert
    <2>3. /\ inserted' = TRUE /\ current' = n /\ pEntry' = n
          /\ front' = IF p = 0 THEN n ELSE front
          /\ next' = IF p = 0 THEN Set(next, n, front)
                     ELSE Set(Set(next, n, next[c[p]]), c[p], n)
      BY <1>7, <2>1 DEF IteratorInsert
    <2> QED
      BY <1>5, <2>2, <2>3
  <1> QED
    BY <1>6, <1>7

(* The calls that leave the nodes alone keep their chain. *)
LEMMA ReadStep ==
  ASSUME ListInv,
         \/ CreateIterator \/ IteratorNext \/ SearchNext \/ SearchFails \/ Found
         \/ StartFree
         \/ \E v \in Values : Search("find", v) \/ Search("remove", v)
  PROVE  ListInv'
  <1>1. PICK k \in Nat : \E c \in [1..k -> DOMAIN next] : ShapeOK(c, k)
    BY DEF ListInv
  <1>2. PICK c \in [1..k -> DOMAIN next] : ShapeOK(c, k)
    BY <1>1
  <1>3. TypeOK /\ CallOK /\ IteratorOK
    BY DEF ListInv
  <1>4. /\ next' = next /\ data' = data /\ list' = list /\ inserted' = inserted
        /\ pc # "free"
    BY DEF CreateIterator, IteratorNext, SearchNext, SearchFails, Found, StartFree,
           Search
  <1>5. front' = front /\ back' = back /\ size' = size
    BY <1>4 DEF list
  <1>6. Links(next, front, c, k) /\ k = size /\ BackOK(c, k)
    BY <1>2, <1>4 DEF ShapeOK
  <1>7. BackOK(c, k)'
    BY <1>4, <1>5, <1>6 DEF BackOK
  <1>8. SUFFICES TypeOK' /\ CallOK' /\ IteratorOK' /\ ShapeOK(c, k)'
    BY <1>4 DEF ListInv
  <1>9. /\ front \in DOMAIN next \cup {Null}
        /\ \A n \in DOMAIN next : next[n] \in DOMAIN next \cup {Null}
        /\ \A n \in DOMAIN next : data[n] \in Values /\ next[n] \in Address
    <2>1. \A i \in Int : At(c, k, i) \in DOMAIN next \cup {Null}
      BY <1>2, Chained
    <2>2. ASSUME NEW n \in DOMAIN next PROVE next[n] \in DOMAIN next \cup {Null}
      <3>1. PICK i \in 1..k : c[i] = n
        BY <1>2, Chained
      <3>2. next[n] = At(c, k, i + 1) /\ i + 1 \in Int
        BY <1>6, <3>1 DEF Links
      <3> QED
        BY <2>1, <3>2
    <2>3. front = At(c, k, 1)
      BY <1>2, <1>4, Chained
    <2> QED
      BY <1>3, <2>1, <2>2, <2>3 DEF TypeOK
  <1>10. CASE CreateIterator \/ IteratorNext
    <2>1. UNCHANGED walk
      BY <1>10 DEF CreateIterator, IteratorNext
    <2>2. /\ open' = TRUE /\ ret' \in Values \cup {NoValue}
          /\ {current', pEntry'} \ {Null} \subseteq DOMAIN next
      BY <1>3, <1>9, <1>10 DEF CreateIterator, IteratorNext, IteratorOK
    <2>3. pc = "idle"
      BY <1>10 DEF CreateIterator, IteratorNext
    <2>4. ShapeOK(c, k)'
      BY <1>4, <1>5, <1>6, <1>7, <2>1, <2>3 DEF ShapeOK, walk
    <2>5. CallOK' /\ IteratorOK'
      BY <1>3, <1>4, <2>1, <2>2, <2>3 DEF CallOK, IteratorOK, walk
    <2>6. TypeOK'
      BY <1>3, <1>4, <1>5, <2>1, <2>2 DEF TypeOK, walk, Address
    <2> QED
      BY <2>4, <2>5, <2>6
  <1>11. ASSUME NEW v \in Values, Search("find", v) \/ Search("remove", v)
         PROVE  TypeOK' /\ CallOK' /\ IteratorOK' /\ ShapeOK(c, k)'
    <2>1. /\ pc' \in {"find", "remove"} /\ prev' = Null /\ scan' = front /\ query' = v
          /\ UNCHANGED iterator /\ ret' = ret
      BY <1>11 DEF Search
    <2>2. SearchOK(c, k)'
      <3>1. At(c, k, 0) = Null /\ At(c, k, 0 + 1) = front /\ 0 \in 0..k
        BY <1>6 DEF At, Links
      <3> QED
        BY <1>4, <2>1, <3>1 DEF SearchOK
    <2>3. ShapeOK(c, k)'
      BY <1>4, <1>5, <1>6, <1>7, <2>1, <2>2 DEF ShapeOK
    <2>4. CallOK' /\ IteratorOK'
      BY <1>3, <1>4, <2>1 DEF CallOK, IteratorOK, iterator
    <2>5. TypeOK'
      BY <1>3, <1>4, <1>5, <2>1 DEF TypeOK, iterator, Address
    <2> QED
      BY <2>3, <2>4, <2>5
  <1>12. CASE SearchNext
    <2>1. /\ pc \in {"find", "remove"} /\ scan # Null /\ data[scan] # query
          /\ prev' = scan /\ scan' = next[scan] /\ query' = query /\ pc' = pc
          /\ UNCHANGED iterator /\ ret' = ret
      BY <1>12 DEF SearchNext
    <2>2. PICK p \in 0..k : /\ prev = At(c, k, p) /\ scan = At(c, k, p + 1)
                            /\ \A i \in 1..p : data[c[i]] # query
      BY <1>2, <2>1 DEF ShapeOK, SearchOK
    <2>3. p + 1 \in 1..k /\ scan = c[p + 1] /\ next[scan] = At(c, k, (p + 1) + 1)
      <3>1. p + 1 \in 1..k /\ scan = c[p + 1]
        BY <2>1, <2>2 DEF At
      <3> QED
        BY <1>6, <3>1 DEF Links
    <2>4. SearchOK(c, k)'
      <3>1. At(c, k, p + 1) = prev' /\ At(c, k, (p + 1) + 1) = scan' /\ p + 1 \in 0..k
        BY <2>1, <2>2, <2>3
      <3>2. ASSUME NEW i \in 1..(p + 1) PROVE data[c[i]] # query
        BY <2>1, <2>2, <2>3
      <3> QED
        BY <1>4, <2>1, <3>1, <3>2 DEF SearchOK
    <2>5. ShapeOK(c, k)'
      BY <1>4, <1>5, <1>6, <1>7, <2>1, <2>4 DEF ShapeOK
    <2>6. CallOK' /\ IteratorOK'
      BY <1>3, <1>4, <2>1 DEF CallOK, IteratorOK, iterator
    <2>7. TypeOK'
      BY <1>3, <1>4, <1>5, <1>9, <2>1, <2>3 DEF TypeOK, iterator, Address
    <2> QED
      BY <2>5, <2>6, <2>7
  <1>13. CASE SearchFails \/ Found
    <2>1. pc' = "idle" /\ prev' = Null /\ scan' = Null /\ query' = NoValue
      BY <1>13 DEF SearchFails, Found, EndCall
    <2>2. \/ open' = open /\ current' = current /\ pEntry' = pEntry
          \/ open' = FALSE /\ current' = Null /\ pEntry' = Null
      BY <1>13 DEF SearchFails, Found, CloseIterator, iterator
    <2>3. ret' \in Values \cup {NoValue}
      <3>1. CASE SearchFails
        BY <3>1 DEF SearchFails
      <3>2. CASE Found
        BY <1>3, <3>2 DEF Found, CallOK
      <3> QED
        BY <1>13, <3>1, <3>2
    <2>4. ShapeOK(c, k)'
      BY <1>4, <1>5, <1>6, <1>7, <2>1 DEF ShapeOK
    <2>5. CallOK' /\ IteratorOK'
      BY <1>3, <1>4, <2>1, <2>2 DEF CallOK, IteratorOK
    <2>6. TypeOK'
      BY <1>3, <1>4, <1>5, <2>1, <2>2, <2>3 DEF TypeOK, Address
    <2> QED
      BY <2>4, <2>5, <2>6
  <1>14. CASE StartFree
    <2>1. /\ pc = "idle" /\ pc' = "free" /\ scan' = front /\ prev' = prev
          /\ query' = query /\ ret' = NoValue
          /\ open' = FALSE /\ current' = Null /\ pEntry' = Null
      BY <1>14 DEF StartFree, CloseIterator
    <2>2. ShapeOK(c, k)'
      BY <1>4, <1>5, <1>6, <2>1 DEF ShapeOK, Links
    <2>3. CallOK' /\ IteratorOK'
      BY <1>3, <1>4, <2>1 DEF CallOK, IteratorOK
    <2>4. TypeOK'
      BY <1>3, <1>4, <1>5, <2>1 DEF TypeOK, Address
    <2> QED
      BY <2>2, <2>3, <2>4
  <1> QED
    BY <1>10, <1>11, <1>12, <1>13, <1>14

(* A node leaves the list: ll_removeItem and ll_freeLinkedList. *)
LEMMA RemoveStep ==
  ASSUME ListInv, RemoveFound \/ FreeNode
  PROVE  ListInv'
  <1>1. PICK k \in Nat : \E c \in [1..k -> DOMAIN next] : ShapeOK(c, k)
    BY DEF ListInv
  <1>2. PICK c \in [1..k -> DOMAIN next] : ShapeOK(c, k)
    BY <1>1
  <1>3. TypeOK /\ CallOK /\ IteratorOK
    BY DEF ListInv
  <1>4. /\ scan # Null /\ data' = Drop(data, scan) /\ scan \in DOMAIN next
        /\ inserted' = inserted
        /\ open' = FALSE /\ current' = Null /\ pEntry' = Null
    <2>1. scan # Null /\ data' = Drop(data, scan) /\ inserted' = inserted
      BY DEF RemoveFound, FreeNode
    <2>2. open' = FALSE /\ current' = Null /\ pEntry' = Null
      BY <1>3 DEF RemoveFound, FreeNode, CloseIterator, CallOK, IteratorOK, iterator
    <2>3. CASE FreeNode
      <3>1. scan = At(c, k, 1)
        BY <1>2, <2>3, Chained DEF FreeNode
      <3> QED
        BY <1>2, <2>1, <2>2, <3>1, Chained DEF At
    <2>4. CASE RemoveFound
      <3>1. PICK p \in 0..k : scan = At(c, k, p + 1)
        BY <1>2, <2>4 DEF ShapeOK, SearchOK, RemoveFound
      <3> QED
        BY <1>2, <2>1, <2>2, <3>1 DEF At
    <2> QED
      BY <2>1, <2>2, <2>3, <2>4
  <1>5. ASSUME NEW p \in 1..k, scan = c[p],
               next' = Drop(IF p = 1 THEN next ELSE Set(next, c[p - 1], next[scan]), scan)
        PROVE  /\ Links(next', IF p = 1 THEN next[scan] ELSE c[1], Removed(c, k, p), k - 1)
               /\ Removed(c, k, p) \in [1..(k - 1) -> DOMAIN next'] /\ k - 1 \in Nat
               /\ DOMAIN next' = DOMAIN next \ {scan}
               /\ next' \in [DOMAIN next' -> Address]
               /\ data' \in [DOMAIN next' -> Values]
    <2> DEFINE first == IF pc = "free" THEN scan ELSE front
    <2>1. Links(next, first, c, k) /\ Null \notin DOMAIN next
      BY <1>2, Chained DEF ShapeOK
    <2>2. first = c[1] /\ 1 \in 1..k
      BY <2>1 DEF Links, At
    <2>3. Links(next', IF p = 1 THEN next[first] ELSE first, Removed(c, k, p), k - 1)
      BY <1>5, <2>1, LinksRemove
    <2>4. (IF p = 1 THEN next[first] ELSE first) = IF p = 1 THEN next[scan] ELSE c[1]
      BY <1>5, <2>2
    <2>5. /\ DOMAIN next' = DOMAIN next \ {scan} /\ data' \in [DOMAIN next' -> Values]
          /\ next' \in [DOMAIN next' -> Address]
      <3>1. /\ next \in [DOMAIN next -> Address] /\ data \in [DOMAIN next -> Values]
            /\ p # 1 => c[p - 1] \in DOMAIN next /\ c[p - 1] # scan
        <4>1. p # 1 => p - 1 \in 1..k /\ p - 1 # p
          OBVIOUS
        <4>2. \A i, j \in 1..k : c[i] = c[j] => i = j
          BY <1>2, Chained
        <4> QED
          BY <1>3, <1>5, <4>1, <4>2 DEF TypeOK
      <3>2. DOMAIN next' = DOMAIN next \ {scan}
        BY <1>5, <3>1 DEF Set, Drop
      <3>3. data' \in [DOMAIN next \ {scan} -> Values]
        BY <1>4, <3>1 DEF Drop
      <3>4. next' \in [DOMAIN next \ {scan} -> Address]
        BY <1>4, <1>5, <3>1 DEF Set, Drop
      <3> QED
        BY <3>2, <3>3, <3>4
    <2> HIDE DEF first
    <2> QED
      BY <2>3, <2>4, <2>5 DEF Links
  <1>6. CASE FreeNode
    <2>1. /\ pc = "free" /\ pc' = "free" /\ scan' = next[scan] /\ list' = list
          /\ prev' = prev /\ query' = query /\ ret' = ret
          /\ next' = Drop(next, scan)
      BY <1>6 DEF FreeNode
    <2>2. 1 \in 1..k /\ scan = c[1] /\ k <= size
      BY <1>2, <1>4, <2>1, Chained DEF At
    <2>3. /\ Links(next', scan', Removed(c, k, 1), k - 1)
          /\ Removed(c, k, 1) \in [1..(k - 1) -> DOMAIN next'] /\ k - 1 \in Nat
          /\ DOMAIN next' = DOMAIN next \ {scan}
          /\ next' \in [DOMAIN next' -> Address]
          /\ data' \in [DOMAIN next' -> Values]
      BY <1>5, <2>1, <2>2
    <2>4. ShapeOK(Removed(c, k, 1), k - 1)'
      BY <1>3, <2>1, <2>2, <2>3 DEF ShapeOK, list, TypeOK
    <2>5. scan' \in Address
      BY <1>3, <1>4, <2>1 DEF TypeOK
    <2>6. TypeOK'
      BY <1>3, <1>4, <2>1, <2>3, <2>5 DEF TypeOK, list, Address
    <2>7. CallOK' /\ IteratorOK'
      BY <1>3, <1>4, <2>1 DEF CallOK, IteratorOK
    <2> QED
      BY <2>3, <2>4, <2>6, <2>7 DEF ListInv
  <1>7. CASE RemoveFound
    <2>1. PICK p \in 0..k : prev = At(c, k, p) /\ scan = At(c, k, p + 1)
      BY <1>2, <1>7 DEF RemoveFound, ShapeOK, SearchOK
    <2>2. /\ p + 1 \in 1..k /\ scan = c[p + 1] /\ (p + 1) - 1 = p /\ 1 \in 1..k
          /\ IF p + 1 = 1 THEN prev = Null ELSE p \in 1..k /\ prev = c[p] /\ prev # Null
      <3>1. p + 1 \in 1..k /\ scan = c[p + 1]
        BY <1>4, <2>1 DEF At
      <3>2. \A i \in 1..k : c[i] # Null
        BY <1>2, Chained
      <3> QED
        BY <2>1, <3>1, <3>2 DEF At
    <2>3. next' = Drop(IF p + 1 = 1 THEN next ELSE Set(next, c[p + 1 - 1], next[scan]), scan)
      BY <1>7, <2>2 DEF RemoveFound
    <2>4. /\ Links(next', IF p + 1 = 1 THEN next[scan] ELSE c[1], Removed(c, k, p + 1), k - 1)
          /\ Removed(c, k, p + 1) \in [1..(k - 1) -> DOMAIN next'] /\ k - 1 \in Nat
          /\ DOMAIN next' = DOMAIN next \ {scan}
          /\ next' \in [DOMAIN next' -> Address]
          /\ data' \in [DOMAIN next' -> Values]
      <3>1. PICK q \in 1..k : q = p + 1
        BY <2>2
      <3>2. scan = c[q] /\ next' = Drop(IF q = 1 THEN next ELSE Set(next, c[q - 1], next[scan]), scan)
        BY <2>2, <2>3, <3>1
      <3> QED
        BY <1>5, <3>1, <3>2
    <2>5. /\ pc' = "idle" /\ prev' = Null /\ scan' = Null /\ query' = NoValue
          /\ pc = "remove" /\ size' = size - 1 /\ ret' = query
          /\ front' = IF scan = front THEN next[scan] ELSE front
          /\ back' = IF scan = back THEN prev ELSE back
      BY <1>7 DEF RemoveFound, EndCall
    <2>6. /\ front = c[1] /\ k = size
          /\ \A i, j \in 1..k : c[i] = c[j] => i = j
          /\ BackOK(c, k)
      BY <1>2, <2>2, <2>5, Chained DEF At, ShapeOK
    <2>7. front' = IF p + 1 = 1 THEN next[scan] ELSE c[1]
      BY <2>2, <2>5, <2>6
    <2>8. BackOK(Removed(c, k, p + 1), k - 1)'
      <3>1. back' \in DOMAIN next' \cup {Null}
        <4>1. back \in DOMAIN next \cup {Null}
          BY <2>6 DEF BackOK
        <4>2. prev # Null => prev \in DOMAIN next /\ prev # scan
          BY <2>2, <2>6
        <4> QED
          BY <2>4, <2>5, <4>1, <4>2
      <3>2. ASSUME ~inserted'
            PROVE  back' = At(Removed(c, k, p + 1), k - 1, k - 1)
        <4>1. back = c[k] /\ k \in 1..k
          BY <1>4, <2>2, <2>6, <3>2 DEF BackOK, At
        <4>2. CASE p + 1 = k
          <5>1. back' = prev
            BY <2>2, <2>5, <4>1, <4>2
          <5>2. CASE p = 0
            BY <2>2, <4>2, <5>1, <5>2 DEF At
          <5>3. CASE p # 0
            <6>1. /\ k - 1 = p /\ p \in 1..(k - 1)
                  /\ Removed(c, k, p + 1)[p] = c[p]
              BY <2>2, <4>2, <5>3 DEF Removed
            <6> QED
              BY <2>2, <5>1, <5>3, <6>1 DEF At
          <5> QED
            BY <5>2, <5>3
        <4>3. CASE p + 1 # k
          <5>1. back' = c[k]
            BY <2>2, <2>5, <2>6, <4>1, <4>3
          <5>2. k - 1 \in 1..(k - 1) /\ Removed(c, k, p + 1)[k - 1] = c[k]
            BY <2>2, <4>3 DEF Removed
          <5> QED
            BY <5>1, <5>2 DEF At
        <4> QED
          BY <4>2, <4>3
      <3> QED
        BY <3>1, <3>2 DEF BackOK
    <2>9. ShapeOK(Removed(c, k, p + 1), k - 1)'
      BY <2>4, <2>5, <2>6, <2>7, <2>8 DEF ShapeOK
    <2>10. front' \in Address /\ back' \in Address /\ size' \in Nat
      BY <1>3, <1>4, <2>4, <2>5, <2>6 DEF TypeOK
    <2>11. TypeOK'
      BY <1>3, <1>4, <2>4, <2>5, <2>10 DEF TypeOK, Address
    <2>12. CallOK' /\ IteratorOK'
      BY <1>4, <2>5 DEF CallOK, IteratorOK
    <2> QED
      BY <2>4, <2>9, <2>11, <2>12 DEF ListInv
  <1> QED
    BY <1>6, <1>7

LEMMA EndFreeStep ==
  ASSUME ListInv, EndFree
  PROVE  ListInv'
  <1>1. PICK k \in Nat : \E c \in [1..k -> DOMAIN next] : ShapeOK(c, k)
    BY DEF ListInv
  <1>2. PICK c \in [1..k -> DOMAIN next] : ShapeOK(c, k)
    BY <1>1
  <1>3. /\ scan = Null /\ pc = "free" /\ next' = next /\ data' = data
        /\ front' = Null /\ back' = Null /\ size' = 0 /\ inserted' = FALSE
        /\ pc' = "idle" /\ prev' = Null /\ scan' = Null /\ query' = NoValue
        /\ UNCHANGED <<iterator, ret>>
    BY DEF EndFree, EndCall
  <1>4. k = 0
    <2> SUFFICES ASSUME k # 0 PROVE FALSE
      OBVIOUS
    <2>1. 1 \in 1..k /\ scan = At(c, k, 1) /\ \A i \in 1..k : c[i] # Null
      BY <1>2, <1>3, Chained
    <2> QED
      BY <1>3, <2>1 DEF At
  <1>5. ShapeOK(c, 0)'
    BY <1>2, <1>3, <1>4 DEF ShapeOK, Links, BackOK, At
  <1>6. TypeOK' /\ CallOK' /\ IteratorOK'
    BY <1>3 DEF ListInv, TypeOK, CallOK, IteratorOK, iterator, Address
  <1> QED
    BY <1>3, <1>4, <1>5, <1>6 DEF ListInv

LEMMA ListStep == ListInv /\ [Next]_vars => ListInv'
  <1> SUFFICES ASSUME ListInv, [Next]_vars PROVE ListInv'
    OBVIOUS
  <1>1. CASE UNCHANGED vars
    BY <1>1 DEF vars, list, iterator, walk, ListInv, TypeOK, CallOK, IteratorOK,
                ShapeOK, BackOK, SearchOK
  <1> QED
    BY <1>1, InsertStep, ReadStep, RemoveStep, EndFreeStep DEF Next, Other, Push

LEMMA ListInvariant == Spec => []ListInv
  BY InitListInv, ListStep, PTL DEF Spec
-----------------------------------------------------------------------------
(* Every field keeps its type, whatever calls the program makes. *)
THEOREM ListTypeCorrect == Spec => []TypeOK
  <1>1. ListInv => TypeOK
    BY DEF ListInv
  <1> QED
    BY <1>1, ListInvariant, PTL

(***************************************************************************)
(* No node is lost and the list has no cycle: front, or the cursor of      *)
(* ll_freeLinkedList, reaches every node allocated once, size of them.     *)
(***************************************************************************)
THEOREM NodesLinked == Spec => []WellLinked
  <1>1. ListInv => WellLinked
    <2> SUFFICES ASSUME ListInv PROVE WellLinked
      OBVIOUS
    <2>1. PICK k \in Nat : \E c \in [1..k -> DOMAIN next] : ShapeOK(c, k)
      BY DEF ListInv
    <2>2. PICK c \in [1..k -> DOMAIN next] : ShapeOK(c, k)
      BY <2>1
    <2>3. /\ Links(next, IF pc = "free" THEN scan ELSE front, c, k)
          /\ pc # "free" => k = size
          /\ pc = "free" => k <= size
      BY <2>2 DEF ShapeOK
    <2>4. ChainFrom(IF pc = "free" THEN scan ELSE front, c, k)
      BY <2>3 DEF ChainFrom, Links, At
    <2>5. k \in 0..size
      BY <2>3 DEF ListInv, TypeOK
    <2>6. \A n \in DOMAIN next : \E i \in 1..k : c[i] = n
      BY <2>3 DEF Links
    <2> QED
      BY <2>3, <2>4, <2>5, <2>6 DEF WellLinked
  <1> QED
    BY <1>1, ListInvariant, PTL

(***************************************************************************)
(* list->back is the last node whenever the client may push: no push       *)
(* writes through a pointer to a node that was freed or is not the last.   *)
(***************************************************************************)
THEOREM BackPointsToLast == Spec => []BackIsLast
  <1>1. ListInv => BackIsLast
    <2> SUFFICES ASSUME ListInv, pc # "free", ~inserted
                 PROVE  IF size = 0 THEN back = Null
                        ELSE back \in DOMAIN next /\ next[back] = Null
      BY DEF BackIsLast
    <2>1. PICK k \in Nat : \E c \in [1..k -> DOMAIN next] : ShapeOK(c, k)
      BY DEF ListInv
    <2>2. PICK c \in [1..k -> DOMAIN next] : ShapeOK(c, k)
      BY <2>1
    <2>3. k = size /\ back = At(c, k, k)
      BY <2>2 DEF ShapeOK, BackOK
    <2>4. k # 0 => c[k] \in DOMAIN next /\ next[c[k]] = At(c, k, k + 1)
      BY <2>2 DEF ShapeOK, Links
    <2> QED
      BY <2>3, <2>4 DEF At
  <1> QED
    BY <1>1, ListInvariant, PTL

(* No pointer that a call will follow points to a freed node. *)
THEOREM PointersAlive == Spec => []NoDanglingPointer
  <1>1. ListInv => NoDanglingPointer
    <2> SUFFICES ASSUME ListInv PROVE NoDanglingPointer
      OBVIOUS
    <2>1. PICK k \in Nat : \E c \in [1..k -> DOMAIN next] : ShapeOK(c, k)
      BY DEF ListInv
    <2>2. PICK c \in [1..k -> DOMAIN next] : ShapeOK(c, k)
      BY <2>1
    <2>3. \A i \in Int : At(c, k, i) \in DOMAIN next \cup {Null}
      BY <2>2, Chained
    <2>4. {scan, prev} \subseteq DOMAIN next \cup {Null}
      <3>1. CASE pc \in {"find", "remove"}
        <4>1. PICK p \in 0..k : prev = At(c, k, p) /\ scan = At(c, k, p + 1)
          BY <2>2, <3>1 DEF ShapeOK, SearchOK
        <4> QED
          BY <2>3, <4>1
      <3>2. CASE pc \notin {"find", "remove"}
        BY <2>2, <2>3, <3>2, Chained DEF ListInv, TypeOK, CallOK
      <3> QED
        BY <3>1, <3>2
    <2>5. pc # "free" => {front, back} \subseteq DOMAIN next \cup {Null}
      <3>1. pc # "free" => front = At(c, k, 1) /\ BackOK(c, k)
        BY <2>2, Chained DEF ShapeOK
      <3> QED
        BY <2>3, <3>1 DEF BackOK
    <2> QED
      BY <2>4, <2>5 DEF ListInv, IteratorOK, NoDanglingPointer
  <1> QED
    BY <1>1, ListInvariant, PTL
-----------------------------------------------------------------------------
(* Sequences *)

(* The smallest element of a set of natural numbers.  Min is a CHOOSE: that *)
(* a least element exists follows from the well-founded order on the finite *)
(* intervals that start at zero.                                            *)
LEMMA MinNat ==
  ASSUME NEW S \in SUBSET Nat, S # {}
  PROVE  Min(S) \in S /\ \A x \in S : Min(S) <= x
  <1> DEFINE R == StrictSubsetOrdering(Nat)
             T == {0 .. x : x \in S}
  <1>1. T \subseteq FiniteSubsetsOf(Nat)
    <2> SUFFICES ASSUME NEW x \in S PROVE 0 .. x \in FiniteSubsetsOf(Nat)
      OBVIOUS
    <2>1. IsFiniteSet(0 .. x)
      BY FS_Interval
    <2> QED
      BY <2>1 DEF FiniteSubsetsOf
  <1>2. IsWellFoundedOn(R, FiniteSubsetsOf(Nat))
    BY FS_StrictSubsetOrderingWellFounded
  <1>3. PICK t \in T : \A u \in T : ~(<<u, t>> \in R)
    <2> HIDE DEF R, T
    <2> SUFFICES T # {}
      BY <1>1, <1>2, WFMin
    <2> QED
      BY DEF T
  <1>4. PICK x \in S : t = 0 .. x
    BY <1>3
  <1>5. ASSUME NEW y \in S PROVE x <= y
    <2> SUFFICES ASSUME y < x PROVE FALSE
      OBVIOUS
    <2>1. 0 .. y \in T /\ <<0 .. y, 0 .. x>> \notin R
      BY <1>3, <1>4
    <2>2. 0 .. y \subseteq 0 .. x /\ x \in 0 .. x /\ x \notin 0 .. y
      OBVIOUS
    <2> QED
      BY <2>1, <2>2 DEF StrictSubsetOrdering
  <1> QED
    BY <1>5 DEF Min
-----------------------------------------------------------------------------
(* The refinement mapping in terms of a chain *)

ChainIn(f, first, c, k) ==
  IF k = 0 THEN first = Null
  ELSE /\ c[1] = first /\ f[c[k]] = Null
       /\ \A i \in 1..(k - 1) : f[c[i]] = c[i + 1]

(* the values of the k nodes of c, and the position of a node *)
Data(d, c, k) == [i \in 1..k |-> d[c[i]]]
Position(n, c, k) == IF n = Null THEN 0 ELSE CHOOSE i \in 1..k : c[i] = n

(* There is one way to list the nodes from first to last. *)
LEMMA ChainUnique ==
  ASSUME NEW f, NEW first, NEW c, NEW k, Links(f, first, c, k), Null \notin DOMAIN f
  PROVE  c = CHOOSE d \in [1..k -> DOMAIN f] : ChainIn(f, first, d, k)
  <1>1. k \in Nat /\ c \in [1..k -> DOMAIN f] /\ ChainIn(f, first, c, k)
    BY DEF Links, At, ChainIn
  <1>2. ASSUME NEW d \in [1..k -> DOMAIN f], ChainIn(f, first, d, k)
        PROVE  d = c
    <2> DEFINE S == {i \in 1..k : d[i] # c[i]}
    <2> SUFFICES ASSUME S # {} PROVE FALSE
      BY <1>1
    <2>1. S \in SUBSET Nat
      BY <1>1
    <2>2. Min(S) \in S /\ \A x \in S : Min(S) <= x
      <3> HIDE DEF S
      <3> QED
        BY <2>1, MinNat
    <2>3. PICK m \in 1..k : d[m] # c[m] /\ \A x \in S : m <= x
      BY <2>2
    <2>4. m # 1
      BY <1>1, <1>2, <2>3 DEF ChainIn
    <2>5. m - 1 \in 1..(k - 1) /\ m - 1 \in 1..k /\ m - 1 \notin S /\ (m - 1) + 1 = m
      BY <1>1, <2>3, <2>4
    <2>6. d[m - 1] = c[m - 1]
      BY <2>5
    <2>7. f[c[m - 1]] = c[m] /\ f[d[m - 1]] = d[m]
      BY <1>1, <1>2, <2>5 DEF ChainIn
    <2> QED
      BY <2>3, <2>6, <2>7
  <1> QED
    BY <1>1, <1>2

LEMMA PositionIs ==
  ASSUME NEW f, NEW first, NEW c, NEW k, Links(f, first, c, k), Null \notin DOMAIN f,
         NEW i \in 1..k
  PROVE  Position(c[i], c, k) = i
  BY DEF Links, Position

(* What CursorList sees of a list that is not being freed, before and      *)
(* after a step.                                                           *)
LEMMA Mapped ==
  ASSUME NEW k, NEW c, Links(next, front, c, k), Null \notin DOMAIN next,
         size = k, pc # "free"
  PROVE  /\ Contents = Data(data, c, k)
         /\ PositionOf(pEntry) = Position(pEntry, c, k)
         /\ PositionOf(current) = Position(current, c, k)
  <1>1. Chain = CHOOSE d \in [1..k -> DOMAIN next] : ChainIn(next, front, d, k)
    BY DEF Chain, Chains, IsChain, ChainFrom, ChainIn
  <1>2. Chain = c
    BY <1>1, ChainUnique
  <1> QED
    BY <1>2 DEF Contents, PositionOf, Data, Position

LEMMA MappedNext ==
  ASSUME NEW k, NEW c, Links(next', front', c, k), Null \notin DOMAIN next',
         size' = k, pc' # "free"
  PROVE  /\ Contents' = Data(data', c, k)
         /\ PositionOf(pEntry)' = Position(pEntry', c, k)
         /\ PositionOf(current)' = Position(current', c, k)
  <1>1. Chain' = CHOOSE d \in [1..k -> DOMAIN next'] : ChainIn(next', front', d, k)
    BY DEF Chain, Chains, IsChain, ChainFrom, ChainIn
  <1>2. Chain' = c
    BY <1>1, ChainUnique
  <1> QED
    BY <1>2 DEF Contents, PositionOf, Data, Position

LEMMA DataSeq ==
  ASSUME NEW f, NEW first, NEW c, NEW k, Links(f, first, c, k),
         NEW d \in [DOMAIN f -> Values]
  PROVE  /\ Data(d, c, k) \in Seq(Values) /\ Len(Data(d, c, k)) = k /\ k \in Nat
         /\ \A i \in 1..k : Data(d, c, k)[i] = d[c[i]]
  <1>1. k \in Nat /\ \A i \in 1..k : d[c[i]] \in Values
    BY DEF Links
  <1> QED
    BY <1>1 DEF Data

(* a new node behind the p-th *)
LEMMA DataInserted ==
  ASSUME NEW f, NEW first, NEW c, NEW k, Links(f, first, c, k),
         NEW d \in [DOMAIN f -> Values], NEW p \in 0..k,
         NEW n, n \notin DOMAIN f, NEW v \in Values
  PROVE  /\ Data(Set(d, n, v), Inserted(c, k, p, n), k + 1)
              = Cursor!InsertAt(Data(d, c, k), p + 1, v)
         /\ p = k => Data(Set(d, n, v), Inserted(c, k, p, n), k + 1)
                       = Append(Data(d, c, k), v)
  <1> DEFINE s == Data(d, c, k)
             t == Data(Set(d, n, v), Inserted(c, k, p, n), k + 1)
             a == SubSeq(s, 1, p)
             b == SubSeq(s, p + 1, k)
  <1>1. /\ k \in Nat /\ p \in Nat /\ s \in Seq(Values) /\ Len(s) = k
        /\ \A i \in 1..k : s[i] = d[c[i]] /\ c[i] \in DOMAIN f /\ c[i] # n
    <2>1. /\ s \in Seq(Values) /\ Len(s) = k /\ k \in Nat
          /\ \A i \in 1..k : s[i] = d[c[i]]
      BY DataSeq
    <2>2. \A i \in 1..k : c[i] \in DOMAIN f
      BY DEF Links
    <2> HIDE DEF s
    <2> QED
      BY <2>1, <2>2
  <1>2. \A i \in 1..(k + 1) :
          t[i] = IF i <= p THEN s[i] ELSE IF i = p + 1 THEN v ELSE s[i - 1]
    <2> SUFFICES ASSUME NEW i \in 1..(k + 1)
                 PROVE  t[i] = IF i <= p THEN s[i] ELSE IF i = p + 1 THEN v ELSE s[i - 1]
      OBVIOUS
    <2>1. t[i] = Set(d, n, v)[Inserted(c, k, p, n)[i]]
      BY DEF Data
    <2>2. CASE i <= p
      BY <1>1, <2>1, <2>2 DEF Inserted, Set
    <2>3. CASE i = p + 1
      BY <1>1, <2>1, <2>3 DEF Inserted, Set
    <2>4. CASE i > p + 1
      <3>1. i - 1 \in 1..k /\ Inserted(c, k, p, n)[i] = c[i - 1]
        BY <1>1, <2>4 DEF Inserted
      <3> QED
        BY <1>1, <2>1, <2>4, <3>1 DEF Set
    <2> QED
      BY <1>1, <2>2, <2>3, <2>4
  <1>3. t \in Seq(Values) /\ Len(t) = k + 1
    <2>1. \A i \in 1..(k + 1) : t[i] \in Values
      <3> SUFFICES ASSUME NEW i \in 1..(k + 1) PROVE t[i] \in Values
        OBVIOUS
      <3>1. i <= p => i \in 1..k
        BY <1>1
      <3>2. i > p + 1 => i - 1 \in 1..k
        BY <1>1
      <3>3. \A j \in 1..k : s[j] \in Values
        BY <1>1
      <3> HIDE DEF s, t
      <3> QED
        BY <1>1, <1>2, <3>1, <3>2, <3>3
    <2>2. t = [i \in 1..(k + 1) |-> t[i]]
      BY DEF Data
    <2> HIDE DEF t
    <2> QED
      BY <1>1, <2>1, <2>2
  <1>4. /\ a \in Seq(Values) /\ Len(a) = p /\ \A i \in 1..p : a[i] = s[i]
        /\ b \in Seq(Values) /\ Len(b) = k - p /\ \A i \in 1..(k - p) : b[i] = s[p + i]
    <2> HIDE DEF s
    <2> QED
      BY <1>1
  <1>5. Cursor!InsertAt(s, p + 1, v) = a \o <<v>> \o b
    <2>1. (p + 1) - 1 = p
      BY <1>1
    <2> QED
      BY <1>1, <2>1 DEF Cursor!InsertAt
  <1> HIDE DEF s, t, a, b
  <1>6. t = a \o <<v>> \o b
    <2> DEFINE u == a \o <<v>>
    <2>1. /\ u \in Seq(Values) /\ Len(u) = p + 1 /\ u[p + 1] = v
          /\ \A i \in 1..p : u[i] = s[i]
      BY <1>1, <1>4
    <2> HIDE DEF u
    <2>2. /\ u \o b \in Seq(Values) /\ Len(u \o b) = k + 1
          /\ \A i \in 1..(k + 1) :
               (u \o b)[i] = IF i <= p + 1 THEN u[i] ELSE b[i - (p + 1)]
      <3>1. /\ u \o b \in Seq(Values) /\ Len(u \o b) = Len(u) + Len(b)
            /\ \A i \in 1..(Len(u) + Len(b)) :
                 (u \o b)[i] = IF i <= Len(u) THEN u[i] ELSE b[i - Len(u)]
        <4>1. u \in Seq(Values) /\ b \in Seq(Values)
          BY <1>4, <2>1
        <4> QED
          BY <4>1, ConcatProperties
      <3>2. Len(u) = p + 1 /\ Len(u) + Len(b) = k + 1
        BY <1>1, <1>4, <2>1
      <3> QED
        BY <3>1, <3>2
    <2>3. ASSUME NEW i \in 1..(k + 1) PROVE t[i] = (u \o b)[i]
      <3>1. CASE i <= p
        BY <1>1, <1>2, <2>1, <2>2, <3>1
      <3>2. CASE i = p + 1
        BY <1>1, <1>2, <2>1, <2>2, <3>2
      <3>3. CASE i > p + 1
        <4>1. i - (p + 1) \in 1..(k - p) /\ p + (i - (p + 1)) = i - 1
          BY <1>1, <3>3
        <4>2. b[i - (p + 1)] = s[i - 1]
          BY <1>4, <4>1
        <4>3. ~(i <= p) /\ ~(i <= p + 1) /\ i # p + 1
          BY <1>1, <3>3
        <4>4. t[i] = s[i - 1]
          BY <1>2, <4>3
        <4>5. (u \o b)[i] = b[i - (p + 1)]
          BY <2>2, <4>3
        <4> QED
          BY <4>2, <4>4, <4>5
      <3>4. i <= p \/ i = p + 1 \/ i > p + 1
        BY <1>1
      <3> QED
        BY <3>1, <3>2, <3>3, <3>4
    <2>4. t = u \o b
      BY <1>1, <1>3, <2>2, <2>3, SeqEqual
    <2> QED
      BY <2>4 DEF u
  <1>7. ASSUME p = k PROVE t = Append(s, v)
    <2>1. /\ Append(s, v) \in Seq(Values) /\ Len(Append(s, v)) = k + 1
          /\ Append(s, v)[k + 1] = v
          /\ \A i \in 1..k : Append(s, v)[i] = s[i]
      BY <1>1, AppendProperties
    <2>2. \A i \in 1..(k + 1) : t[i] = Append(s, v)[i]
      BY <1>1, <1>2, <1>7, <2>1
    <2> QED
      BY <1>1, <1>3, <2>1, <2>2, SeqEqual
  <1> QED
    BY <1>5, <1>6, <1>7 DEF s, t

(* Removing a position closes the gap. *)
LEMMA RemoveAtProperties ==
  ASSUME NEW S, NEW s \in Seq(S), NEW i \in 1 .. Len(s)
  PROVE  /\ Cursor!RemoveAt(s, i) \in Seq(S)
         /\ Len(Cursor!RemoveAt(s, i)) = Len(s) - 1
         /\ \A j \in 1 .. Len(s) - 1 :
              Cursor!RemoveAt(s, i)[j] = IF j < i THEN s[j] ELSE s[j + 1]
  <1> DEFINE a == SubSeq(s, 1, i - 1)
             b == SubSeq(s, i + 1, Len(s))
  <1>1. /\ a \in Seq(S) /\ Len(a) = i - 1
        /\ \A j \in 1 .. i - 1 : a[j] = s[j]
    OBVIOUS
  <1>2. /\ b \in Seq(S) /\ Len(b) = Len(s) - i
        /\ \A j \in 1 .. Len(s) - i : b[j] = s[i + j]
    OBVIOUS
  <1>3. Cursor!RemoveAt(s, i) = a \o b
    BY DEF Cursor!RemoveAt
  <1> HIDE DEF a, b
  <1>4. /\ a \o b \in Seq(S) /\ Len(a \o b) = Len(a) + Len(b)
        /\ \A j \in 1 .. Len(a) + Len(b) :
             (a \o b)[j] = IF j <= Len(a) THEN a[j] ELSE b[j - Len(a)]
    BY <1>1, <1>2, ConcatProperties
  <1>5. ASSUME NEW j \in 1 .. Len(s) - 1
        PROVE  (a \o b)[j] = IF j < i THEN s[j] ELSE s[j + 1]
    <2>1. CASE j < i
      BY <2>1, <1>1, <1>2, <1>4
    <2>2. CASE j >= i
      <3>1. (a \o b)[j] = b[j - (i - 1)] /\ j - (i - 1) \in 1 .. Len(s) - i
        BY <2>2, <1>1, <1>2, <1>4
      <3>2. b[j - (i - 1)] = s[i + (j - (i - 1))]
        BY <3>1, <1>2
      <3>3. i + (j - (i - 1)) = j + 1 /\ ~(j < i)
        BY <2>2
      <3> QED
        BY <3>1, <3>2, <3>3
    <2>3. j < i \/ j >= i
      OBVIOUS
    <2> QED
      BY <2>1, <2>2, <2>3
  <1>6. Len(a) + Len(b) = Len(s) - 1
    BY <1>1, <1>2
  <1> QED
    BY <1>3, <1>4, <1>5, <1>6

(* the p-th node goes, the first with the value v *)
LEMMA DataRemoved ==
  ASSUME NEW f, NEW first, NEW c, NEW k, Links(f, first, c, k),
         NEW d \in [DOMAIN f -> Values], NEW p \in 1..k, NEW v, v = d[c[p]],
         \A i \in 1..(p - 1) : d[c[i]] # v
  PROVE  /\ Cursor!Contains(Data(d, c, k), v)
         /\ Data(Drop(d, c[p]), Removed(c, k, p), k - 1)
              = Cursor!RemoveFirst(Data(d, c, k), v)
  <1> DEFINE s == Data(d, c, k)
             t == Data(Drop(d, c[p]), Removed(c, k, p), k - 1)
             I == {i \in 1..k : s[i] = v}
  <1>1. /\ k \in Nat /\ s \in Seq(Values) /\ Len(s) = k
        /\ \A i \in 1..k : s[i] = d[c[i]] /\ c[i] \in DOMAIN f
        /\ \A i, j \in 1..k : c[i] = c[j] => i = j
    <2>1. /\ s \in Seq(Values) /\ Len(s) = k /\ k \in Nat
          /\ \A i \in 1..k : s[i] = d[c[i]]
      BY DataSeq
    <2>2. /\ \A i \in 1..k : c[i] \in DOMAIN f
          /\ \A i, j \in 1..k : c[i] = c[j] => i = j
      BY DEF Links
    <2> HIDE DEF s
    <2> QED
      BY <2>1, <2>2
  <1>2. s[p] = v /\ Cursor!Contains(s, v)
    <2> HIDE DEF s
    <2> QED
      BY <1>1 DEF Cursor!Contains
  <1>3. Cursor!SelectInSeq(s, LAMBDA x : x = v) = p
    <2>1. Cursor!SelectInSeq(s, LAMBDA x : x = v) = IF I # {} THEN Cursor!Min(I) ELSE 0
      BY <1>1 DEF Cursor!SelectInSeq
    <2>2. p \in I /\ \A i \in I : p <= i
      <3> HIDE DEF s
      <3> QED
        BY <1>1, <1>2
    <2>3. I \subseteq Int
      BY <1>1
    <2>4. Cursor!Min(I) = p
      <3> HIDE DEF I
      <3>1. \A x \in I : (\A y \in I : x <= y) => x = p
        BY <2>2, <2>3
      <3> QED
        BY <2>2, <3>1 DEF Cursor!Min
    <2> QED
      BY <2>1, <2>2, <2>4
  <1>4. Cursor!RemoveFirst(s, v) = Cursor!RemoveAt(s, p)
    <2> HIDE DEF s
    <2> QED
      BY <1>1, <1>2, <1>3 DEF Cursor!RemoveFirst
  <1>5. \A i \in 1..(k - 1) : t[i] = IF i < p THEN s[i] ELSE s[i + 1]
    <2> SUFFICES ASSUME NEW i \in 1..(k - 1)
                 PROVE  t[i] = IF i < p THEN s[i] ELSE s[i + 1]
      OBVIOUS
    <2> DEFINE j == IF i < p THEN i ELSE i + 1
    <2>1. j \in 1..k /\ j # p /\ Removed(c, k, p)[i] = c[j]
      BY <1>1 DEF Removed
    <2>2. t[i] = Drop(d, c[p])[c[j]]
      BY <2>1 DEF Data
    <2>3. c[j] \in DOMAIN f \ {c[p]} /\ s[j] = d[c[j]]
      <3> HIDE DEF j, s
      <3> QED
        BY <1>1, <2>1
    <2>4. t[i] = s[j]
      BY <2>2, <2>3 DEF Drop
    <2> QED
      BY <2>4
  <1>6. t \in Seq(Values) /\ Len(t) = k - 1
    <2>1. \A i \in 1..(k - 1) : t[i] \in Values
      <3> HIDE DEF s, t
      <3> QED
        BY <1>1, <1>5
    <2>2. t = [i \in 1..(k - 1) |-> t[i]] /\ k - 1 \in Nat
      BY <1>1 DEF Data
    <2> HIDE DEF t
    <2> QED
      BY <2>1, <2>2
  <1> HIDE DEF s, t
  <1>7. t = Cursor!RemoveAt(s, p)
    <2>1. /\ Cursor!RemoveAt(s, p) \in Seq(Values) /\ Len(Cursor!RemoveAt(s, p)) = k - 1
          /\ \A j \in 1 .. k - 1 :
               Cursor!RemoveAt(s, p)[j] = IF j < p THEN s[j] ELSE s[j + 1]
      <3>1. s \in Seq(Values) /\ p \in 1..Len(s)
        BY <1>1
      <3>2. /\ Cursor!RemoveAt(s, p) \in Seq(Values)
            /\ Len(Cursor!RemoveAt(s, p)) = Len(s) - 1
            /\ \A j \in 1 .. Len(s) - 1 :
                 Cursor!RemoveAt(s, p)[j] = IF j < p THEN s[j] ELSE s[j + 1]
        BY <3>1, RemoveAtProperties
      <3> QED
        BY <1>1, <3>2
    <2> QED
      BY <1>5, <1>6, <2>1, SeqEqual
  <1> QED
    BY <1>2, <1>4, <1>7 DEF s, t
-----------------------------------------------------------------------------
(* The refinement *)

(* An insertion is one of CursorList's, a push is its push. *)
LEMMA InsertRefines ==
  ASSUME ListInv, NEW v \in Values, NEW n \in Nodes,
         (PushBack(v, n) /\ ~inserted) \/ IteratorInsert(v, n)
  PROVE  Cursor!Next
  <1>1. PICK k \in Nat : \E c \in [1..k -> DOMAIN next] : ShapeOK(c, k)
    BY DEF ListInv
  <1>2. PICK c \in [1..k -> DOMAIN next] : ShapeOK(c, k)
    BY <1>1
  <1>3. /\ pc = "idle" /\ pc' = "idle" /\ k = size /\ size' = k + 1
        /\ n \notin DOMAIN next /\ n # Null /\ data' = Set(data, n, v)
        /\ ret' = NoValue /\ open' = open
    BY <1>2, NullAssumption
    DEF PushBack, IteratorInsert, ShapeOK, walk, iterator
  <1>4. /\ Links(next, front, c, k) /\ Null \notin DOMAIN next /\ front = At(c, k, 1)
        /\ \A i \in 1..k : c[i] \in DOMAIN next /\ c[i] # Null
        /\ \A m \in DOMAIN next : \E i \in 1..k : c[i] = m
        /\ BackOK(c, k) /\ data \in [DOMAIN next -> Values]
        /\ {current, pEntry} \ {Null} \subseteq DOMAIN next
    <2>1. Links(next, front, c, k) /\ BackOK(c, k)
      BY <1>2, <1>3 DEF ShapeOK
    <2>2. data \in [DOMAIN next -> Values] /\ {current, pEntry} \ {Null} \subseteq DOMAIN next
      BY DEF ListInv, TypeOK, IteratorOK
    <2> QED
      BY <1>2, <1>3, <2>1, <2>2, Chained
  <1>5. ASSUME NEW p \in 0..k,
               next' = IF p = 0 THEN Set(next, n, front)
                       ELSE Set(Set(next, n, next[c[p]]), c[p], n),
               front' = IF p = 0 THEN n ELSE front
        PROVE  /\ Contents' = Cursor!InsertAt(Contents, p + 1, v)
               /\ p = k => Contents' = Append(Contents, v)
               /\ PositionOf(pEntry)' = Position(pEntry', Inserted(c, k, p, n), k + 1)
               /\ PositionOf(current)' = Position(current', Inserted(c, k, p, n), k + 1)
               /\ Links(next', front', Inserted(c, k, p, n), k + 1)
               /\ Null \notin DOMAIN next'
    <2>1. Links(next', front', Inserted(c, k, p, n), k + 1)
      BY <1>3, <1>4, <1>5, LinksInsert
    <2>2. Null \notin DOMAIN next'
      BY <1>3, <1>4, <1>5 DEF Set
    <2>3. /\ Contents' = Data(data', Inserted(c, k, p, n), k + 1)
          /\ PositionOf(pEntry)' = Position(pEntry', Inserted(c, k, p, n), k + 1)
          /\ PositionOf(current)' = Position(current', Inserted(c, k, p, n), k + 1)
      BY <1>3, <2>1, <2>2, MappedNext
    <2>4. Contents = Data(data, c, k)
      BY <1>3, <1>4, Mapped
    <2>5. /\ Data(Set(data, n, v), Inserted(c, k, p, n), k + 1)
               = Cursor!InsertAt(Data(data, c, k), p + 1, v)
          /\ p = k => Data(Set(data, n, v), Inserted(c, k, p, n), k + 1)
                        = Append(Data(data, c, k), v)
      <3>1. /\ Links(next, front, c, k) /\ data \in [DOMAIN next -> Values]
            /\ n \notin DOMAIN next
        BY <1>3, <1>4
      <3>2. /\ Data(Set(data, n, v), Inserted(c, k, p, n), k + 1)
                 = Cursor!InsertAt(Data(data, c, k), p + 1, v)
        BY <3>1, DataInserted, SMTT(30)
      <3>3. ASSUME p = k
            PROVE  Data(Set(data, n, v), Inserted(c, k, p, n), k + 1)
                     = Append(Data(data, c, k), v)
        BY <3>1, <3>3, DataInserted, SMTT(30)
      <3> QED
        BY <3>2, <3>3
    <2> QED
      BY <1>3, <2>1, <2>2, <2>3, <2>4, <2>5
  <1>6. CASE PushBack(v, n) /\ ~inserted
    <2>1. back = At(c, k, k)
      BY <1>4, <1>6 DEF BackOK
    <2>2. /\ k = 0 => back = Null /\ front = Null
          /\ k # 0 => back = c[k] /\ back # Null /\ next[c[k]] = Null
      <3>1. \A i \in 1..k : next[c[i]] = At(c, k, i + 1)
        BY <1>4 DEF Links
      <3>2. k # 0 => k \in 1..k /\ k + 1 \notin 1..k
        OBVIOUS
      <3> QED
        BY <1>4, <2>1, <3>1, <3>2 DEF At
    <2>3. /\ current' = current /\ pEntry' = pEntry
          /\ front' = IF k = 0 THEN n ELSE front
          /\ next' = IF k = 0 THEN Set(next, n, front)
                     ELSE Set(Set(next, n, next[c[k]]), c[k], n)
      BY <1>6, <2>2 DEF PushBack, iterator
    <2> DEFINE d == Inserted(c, k, k, n)
    <2>4. /\ Contents' = Append(Contents, v)
          /\ PositionOf(pEntry)' = Position(pEntry, d, k + 1)
          /\ PositionOf(current)' = Position(current, d, k + 1)
          /\ Links(next', front', d, k + 1) /\ Null \notin DOMAIN next'
      BY <1>5, <2>3
    <2>5. ASSUME NEW m, m = Null \/ m \in DOMAIN next
          PROVE  Position(m, d, k + 1) = Position(m, c, k)
      <3>1. CASE m = Null
        BY <3>1 DEF Position
      <3>2. CASE m # Null
        <4>1. PICK i \in 1..k : c[i] = m
          BY <1>4, <2>5, <3>2
        <4>2. Position(c[i], c, k) = i
          BY <1>4, PositionIs
        <4>3. i \in 1..(k + 1) /\ d[i] = c[i]
          BY DEF Inserted
        <4>4. Position(d[i], d, k + 1) = i
          <5> HIDE DEF d
          <5> QED
            BY <2>4, <4>3, PositionIs
        <4> QED
          BY <4>1, <4>2, <4>3, <4>4
      <3> QED
        BY <3>1, <3>2
    <2>6. /\ PositionOf(pEntry) = Position(pEntry, c, k)
          /\ PositionOf(current) = Position(current, c, k)
      BY <1>3, <1>4, Mapped
    <2>7. PositionOf(pEntry)' = PositionOf(pEntry) /\ PositionOf(current)' = PositionOf(current)
      <3> HIDE DEF d
      <3> QED
        BY <1>4, <2>4, <2>5, <2>6
    <2>8. Cursor!PushBack(v)
      BY <1>3, <2>4, <2>7 DEF Cursor!PushBack
    <2> QED
      BY <2>8 DEF Cursor!Next
  <1>7. CASE IteratorInsert(v, n)
    <2>1. PICK p \in 0..k : IF pEntry = Null THEN p = 0 ELSE p # 0 /\ c[p] = pEntry
      <3>1. CASE pEntry = Null
        BY <3>1
      <3>2. CASE pEntry # Null
        <4>1. PICK i \in 1..k : c[i] = pEntry
          BY <1>4, <3>2
        <4> QED
          BY <3>2, <4>1
      <3> QED
        BY <3>1, <3>2
    <2>2. PositionOf(pEntry) = p
      <3>1. PositionOf(pEntry) = Position(pEntry, c, k)
        BY <1>3, <1>4, Mapped
      <3>2. CASE pEntry = Null
        BY <2>1, <3>1, <3>2 DEF Position
      <3>3. CASE pEntry # Null
        BY <1>4, <2>1, <3>1, <3>3, PositionIs
      <3> QED
        BY <3>2, <3>3
    <2>3. /\ open /\ current' = n /\ pEntry' = n
          /\ front' = IF p = 0 THEN n ELSE front
          /\ next' = IF p = 0 THEN Set(next, n, front)
                     ELSE Set(Set(next, n, next[c[p]]), c[p], n)
      BY <1>7, <2>1 DEF IteratorInsert
    <2> DEFINE d == Inserted(c, k, p, n)
    <2>4. /\ Contents' = Cursor!InsertAt(Contents, p + 1, v)
          /\ PositionOf(pEntry)' = Position(n, d, k + 1)
          /\ PositionOf(current)' = Position(n, d, k + 1)
          /\ Links(next', front', d, k + 1) /\ Null \notin DOMAIN next'
      BY <1>5, <2>3
    <2>5. p + 1 \in 1..(k + 1) /\ d[p + 1] = n
      BY DEF Inserted
    <2>6. Position(n, d, k + 1) = p + 1
      <3> HIDE DEF d
      <3> QED
        BY <2>4, <2>5, PositionIs
    <2>7. Cursor!IteratorInsert(v)
      BY <1>3, <2>2, <2>3, <2>4, <2>6 DEF Cursor!IteratorInsert
    <2> QED
      BY <2>7 DEF Cursor!Next
  <1> QED
    BY <1>6, <1>7

LEMMA IteratorRefines ==
  ASSUME ListInv, CreateIterator \/ IteratorNext
  PROVE  Cursor!Next
  <1>1. PICK k \in Nat : \E c \in [1..k -> DOMAIN next] : ShapeOK(c, k)
    BY DEF ListInv
  <1>2. PICK c \in [1..k -> DOMAIN next] : ShapeOK(c, k)
    BY <1>1
  <1>3. /\ pc = "idle" /\ pc' = "idle" /\ next' = next /\ data' = data
        /\ front' = front /\ size' = size /\ k = size
        /\ Links(next, front, c, k)
    BY <1>2 DEF CreateIterator, IteratorNext, walk, list, ShapeOK
  <1>4. /\ Null \notin DOMAIN next /\ front = At(c, k, 1)
        /\ \A i \in 1..k : c[i] \in DOMAIN next /\ c[i] # Null
        /\ \A i \in 1..k : next[c[i]] = At(c, k, i + 1)
        /\ \A m \in DOMAIN next : \E i \in 1..k : c[i] = m
    <2>1. pc # "free"
      BY <1>3
    <2>2. ListInv /\ k \in Nat /\ c \in [1..k -> DOMAIN next] /\ ShapeOK(c, k)
      BY <1>2
    <2>3. /\ Null \notin DOMAIN next
          /\ pc # "free" => front = At(c, k, 1)
      BY <2>2, Chained
    <2>4. /\ \A i \in 1..k : c[i] \in DOMAIN next /\ c[i] # Null
          /\ \A i \in 1..k : next[c[i]] = At(c, k, i + 1)
      BY <2>2, Chained
    <2>5. \A m \in DOMAIN next : \E i \in 1..k : c[i] = m
      BY <2>2, Chained
    <2> QED
      BY <2>1, <2>3, <2>4, <2>5
  <1>5. /\ Contents = Data(data, c, k) /\ Contents' = Contents
        /\ PositionOf(pEntry) = Position(pEntry, c, k)
        /\ PositionOf(current) = Position(current, c, k)
        /\ PositionOf(pEntry)' = Position(pEntry', c, k)
        /\ PositionOf(current)' = Position(current', c, k)
    BY <1>3, <1>4, Mapped, MappedNext
  <1>6. /\ Contents \in Seq(Values) /\ Len(Contents) = k
        /\ \A i \in 1..k : Contents[i] = data[c[i]]
    <2>1. data \in [DOMAIN next -> Values]
      BY DEF ListInv, TypeOK
    <2> QED
      BY <1>3, <1>5, <2>1, DataSeq
  <1>7. ASSUME NEW i \in 1..(k + 1)
        PROVE  Position(At(c, k, i), c, k) = IF i = k + 1 THEN 0 ELSE i
    <2>1. CASE i \in 1..k
      <3>1. Position(c[i], c, k) = i
        <4>1. Links(next, front, c, k) /\ Null \notin DOMAIN next
          BY <1>3, <1>4
        <4> QED
          BY <2>1, <4>1, PositionIs
      <3> QED
        BY <2>1, <3>1 DEF At
    <2>2. CASE i = k + 1
      BY <2>2 DEF At, Position
    <2> QED
      BY <2>1, <2>2
  <1>8. CASE CreateIterator
    <2>1. open' = TRUE /\ ret' = NoValue /\ current' = front /\ pEntry' = Null
      BY <1>8 DEF CreateIterator
    <2>2. PositionOf(pEntry)' = 0
      BY <1>5, <2>1 DEF Position
    <2>3. PositionOf(current)' = Cursor!Start(Contents)
      <3>1. PositionOf(current)' = IF k = 0 THEN 0 ELSE 1
        BY <1>4, <1>5, <1>7, <2>1
      <3>2. Contents = <<>> <=> k = 0
        BY <1>6
      <3> QED
        BY <3>1, <3>2 DEF Cursor!Start
    <2>4. Cursor!CreateIterator
      BY <1>5, <2>1, <2>2, <2>3 DEF Cursor!CreateIterator
    <2> QED
      BY <2>4 DEF Cursor!Next
  <1>9. CASE IteratorNext
    <2>1. /\ open /\ current # Null /\ open' = open
          /\ ret' = data[current] /\ pEntry' = current /\ current' = next[current]
      BY <1>9 DEF IteratorNext
    <2>2. PICK i \in 1..k : c[i] = current
      BY <1>4, <2>1 DEF ListInv, IteratorOK
    <2>3. PositionOf(current) = i /\ PositionOf(pEntry)' = i
      BY <1>3, <1>4, <1>5, <2>1, <2>2, PositionIs
    <2>4. PositionOf(current)' = IF i = k THEN 0 ELSE i + 1
      <3>1. current' = At(c, k, i + 1) /\ i + 1 \in 1..(k + 1)
        BY <1>4, <2>1, <2>2
      <3> QED
        BY <1>5, <1>7, <3>1
    <2>5. ret' = Contents[i]
      BY <1>6, <2>1, <2>2
    <2>6. Cursor!IteratorNext
      BY <1>5, <1>6, <2>1, <2>3, <2>4, <2>5 DEF Cursor!IteratorNext
    <2> QED
      BY <2>6 DEF Cursor!Next
  <1> QED
    BY <1>8, <1>9

(* A search that ends finds what CursorList's sequence contains. *)
LEMMA SearchRefines ==
  ASSUME ListInv, SearchFails \/ Found \/ RemoveFound
  PROVE  Cursor!Next
  <1>1. PICK k \in Nat : \E c \in [1..k -> DOMAIN next] : ShapeOK(c, k)
    BY DEF ListInv
  <1>2. PICK c \in [1..k -> DOMAIN next] : ShapeOK(c, k)
    BY <1>1
  <1>3. /\ pc \in {"find", "remove"} /\ pc' = "idle" /\ query \in Values
        /\ k = size /\ Links(next, front, c, k)
        /\ data \in [DOMAIN next -> Values]
    BY <1>2 DEF SearchFails, Found, RemoveFound, EndCall, ShapeOK, ListInv, CallOK, TypeOK
  <1>4. /\ Null \notin DOMAIN next /\ front = At(c, k, 1)
        /\ \A i \in 1..k : c[i] \in DOMAIN next /\ c[i] # Null
        /\ \A i, j \in 1..k : c[i] = c[j] => i = j
    <2>1. pc # "free"
      BY <1>3
    <2> QED
      BY <1>2, <2>1, Chained
  <1>5. PICK p \in 0..k : /\ prev = At(c, k, p) /\ scan = At(c, k, p + 1)
                          /\ \A i \in 1..p : data[c[i]] # query
    BY <1>2, <1>3 DEF ShapeOK, SearchOK
  <1>6. Contents = Data(data, c, k)
    BY <1>3, <1>4, Mapped
  <1>7. /\ Contents \in Seq(Values) /\ Len(Contents) = k
        /\ \A i \in 1..k : Contents[i] = data[c[i]]
    BY <1>3, <1>6, DataSeq
  <1>8. ASSUME open' = FALSE, current' = Null, pEntry' = Null
        PROVE  open' = FALSE /\ PositionOf(pEntry)' = 0 /\ PositionOf(current)' = 0
    BY <1>8 DEF PositionOf
  <1>9. ASSUME next' = next, data' = data, list' = list
        PROVE  /\ Contents' = Contents
               /\ pEntry' = pEntry => PositionOf(pEntry)' = PositionOf(pEntry)
               /\ current' = current => PositionOf(current)' = PositionOf(current)
    <2>1. front' = front /\ size' = size
      BY <1>9 DEF list
    <2>2. /\ Contents' = Data(data', c, k)
          /\ PositionOf(pEntry)' = Position(pEntry', c, k)
          /\ PositionOf(current)' = Position(current', c, k)
      BY <1>3, <1>4, <1>9, <2>1, MappedNext
    <2>3. /\ PositionOf(pEntry) = Position(pEntry, c, k)
          /\ PositionOf(current) = Position(current, c, k)
      BY <1>3, <1>4, Mapped
    <2> QED
      BY <1>6, <1>9, <2>2, <2>3
  <1>10. CASE SearchFails
    <2>1. /\ scan = Null /\ ret' = NoValue /\ next' = next /\ data' = data /\ list' = list
          /\ IF pc = "remove" THEN open' = FALSE /\ current' = Null /\ pEntry' = Null
             ELSE open' = open /\ current' = current /\ pEntry' = pEntry
      BY <1>10 DEF SearchFails, CloseIterator, iterator
    <2>2. p = k
      BY <1>4, <1>5, <2>1 DEF At
    <2>3. ~Cursor!Contains(Contents, query)
      BY <1>5, <1>7, <2>2 DEF Cursor!Contains
    <2>4. CASE pc = "remove"
      <3>1. Cursor!RemoveNothing(query)
        BY <1>8, <1>9, <2>1, <2>3, <2>4 DEF Cursor!RemoveNothing, Cursor!CloseIterator
      <3> QED
        BY <1>3, <3>1 DEF Cursor!Next
    <2>5. CASE pc = "find"
      <3>1. Cursor!FindItem(query)
        BY <1>9, <2>1, <2>3, <2>5 DEF Cursor!FindItem
      <3> QED
        BY <1>3, <3>1 DEF Cursor!Next
    <2> QED
      BY <1>3, <2>4, <2>5
  <1>11. CASE Found
    <2>1. /\ scan # Null /\ data[scan] = query /\ ret' = query
          /\ next' = next /\ data' = data /\ list' = list
          /\ open' = open /\ current' = current /\ pEntry' = pEntry
      BY <1>11 DEF Found, iterator
    <2>2. p + 1 \in 1..k /\ c[p + 1] = scan
      BY <1>5, <2>1 DEF At
    <2>3. Cursor!Contains(Contents, query)
      BY <1>7, <2>1, <2>2 DEF Cursor!Contains
    <2>4. Cursor!FindItem(query)
      BY <1>9, <2>1, <2>3 DEF Cursor!FindItem
    <2> QED
      BY <1>3, <2>4 DEF Cursor!Next
  <1>12. CASE RemoveFound
    <2>1. /\ scan # Null /\ data[scan] = query /\ ret' = query
          /\ data' = Drop(data, scan) /\ size' = size - 1
          /\ next' = Drop(IF prev = Null THEN next ELSE Set(next, prev, next[scan]), scan)
          /\ front' = IF scan = front THEN next[scan] ELSE front
          /\ open' = FALSE /\ current' = Null /\ pEntry' = Null
      BY <1>12 DEF RemoveFound, CloseIterator
    <2>2. PICK q \in 1..k : q = p + 1 /\ c[q] = scan
      BY <1>5, <2>1 DEF At
    <2>3. IF q = 1 THEN prev = Null ELSE q - 1 \in 1..k /\ prev = c[q - 1] /\ prev # Null
      BY <1>4, <1>5, <2>2 DEF At
    <2>4. /\ next' = Drop(IF q = 1 THEN next ELSE Set(next, c[q - 1], next[c[q]]), c[q])
          /\ front' = IF q = 1 THEN next[front] ELSE front
      <3>1. front = c[1] /\ 1 \in 1..k
        BY <1>4, <2>2 DEF At
      <3>2. scan = front <=> q = 1
        BY <1>4, <2>2, <3>1
      <3> QED
        BY <2>1, <2>2, <2>3, <3>2
    <2>5. Links(next', front', Removed(c, k, q), k - 1)
      BY <1>3, <1>4, <2>4, LinksRemove
    <2>6. Null \notin DOMAIN next' /\ size' = k - 1
      <3>1. DOMAIN next' \subseteq DOMAIN next
        BY <1>4, <2>3, <2>4 DEF Drop, Set
      <3> QED
        BY <1>3, <1>4, <2>1, <3>1
    <2>7. Contents' = Data(data', Removed(c, k, q), k - 1)
      BY <1>3, <2>5, <2>6, MappedNext
    <2>8. /\ Cursor!Contains(Contents, query)
          /\ Contents' = Cursor!RemoveFirst(Contents, query)
      <3>1. query = data[c[q]] /\ \A i \in 1..(q - 1) : data[c[i]] # query
        BY <1>5, <2>1, <2>2
      <3>2. /\ Cursor!Contains(Data(data, c, k), query)
            /\ Data(Drop(data, c[q]), Removed(c, k, q), k - 1)
                 = Cursor!RemoveFirst(Data(data, c, k), query)
        BY <1>3, <3>1, DataRemoved
      <3> QED
        BY <1>6, <2>1, <2>2, <2>7, <3>2
    <2>9. Cursor!RemoveItem(query)
      BY <1>8, <2>1, <2>8 DEF Cursor!RemoveItem, Cursor!CloseIterator
    <2> QED
      BY <1>3, <2>9 DEF Cursor!Next
  <1> QED
    BY <1>10, <1>11, <1>12

(* The turns of the loops change nothing CursorList sees. *)
LEMMA LoopStutters ==
  ASSUME ListInv, ListInv',
         \/ SearchNext \/ FreeNode \/ EndFree
         \/ \E v \in Values : Search("find", v) \/ Search("remove", v)
  PROVE  UNCHANGED Cursor!vars
  <1>1. open' = open /\ current' = current /\ pEntry' = pEntry /\ ret' = ret
    BY DEF SearchNext, FreeNode, EndFree, Search, iterator
  <1>2. CASE pc # "free"
    <2>1. pc' # "free" /\ next' = next /\ data' = data /\ list' = list
      BY <1>2 DEF SearchNext, FreeNode, EndFree, Search
    <2>2. front' = front /\ size' = size
      BY <2>1 DEF list
    <2>3. Chain' = Chain
      BY <2>1, <2>2 DEF Chain, Chains, IsChain, ChainFrom
    <2> QED
      BY <1>1, <1>2, <2>1, <2>2, <2>3 DEF Cursor!vars, Contents, PositionOf
  <1>3. CASE pc = "free"
    <2>1. Contents = <<>>
      BY <1>3 DEF Contents
    <2>2. current = Null /\ pEntry = Null
      BY <1>3 DEF ListInv, CallOK, IteratorOK
    <2>3. /\ PositionOf(pEntry) = 0 /\ PositionOf(current) = 0
          /\ PositionOf(pEntry)' = 0 /\ PositionOf(current)' = 0
      BY <1>1, <2>2 DEF PositionOf
    <2>4. Contents' = <<>>
      <3>1. CASE pc' = "free"
        BY <3>1 DEF Contents
      <3>2. CASE pc' # "free"
        <4>1. size' = 0
          BY <1>3, <3>2 DEF SearchNext, FreeNode, EndFree, Search
        <4> QED
          BY <3>2, <4>1 DEF Contents
      <3> QED
        BY <3>1, <3>2
    <2> QED
      BY <1>1, <2>1, <2>3, <2>4 DEF Cursor!vars
  <1> QED
    BY <1>2, <1>3

LEMMA RefinementStep ==
  ListInv /\ ListInv' /\ [Next]_vars => [Cursor!Next]_(Cursor!vars)
  <1> SUFFICES ASSUME ListInv, ListInv', [Next]_vars
               PROVE  [Cursor!Next]_(Cursor!vars)
    OBVIOUS
  <1>1. CASE UNCHANGED vars
    <2>1. Chain' = Chain
      BY <1>1 DEF Chain, Chains, IsChain, ChainFrom, vars, list
    <2> QED
      BY <1>1, <2>1 DEF vars, list, iterator, walk, Cursor!vars, Contents, PositionOf
  <1>2. CASE StartFree
    <2>1. Contents' = <<>> /\ ret' = NoValue
      BY <1>2 DEF StartFree, Contents
    <2>2. open' = FALSE /\ PositionOf(pEntry)' = 0 /\ PositionOf(current)' = 0
      BY <1>2 DEF StartFree, CloseIterator, PositionOf
    <2> QED
      BY <2>1, <2>2 DEF Cursor!Next, Cursor!Free, Cursor!CloseIterator
  <1> QED
    BY <1>1, <1>2, InsertRefines, IteratorRefines, SearchRefines, LoopStutters
    DEF Next, Other, Push

(***************************************************************************)
(* The list implements CursorList, for every set of values and nodes: its  *)
(* calls do to the nodes what they promise to do to a sequence.            *)
(***************************************************************************)
THEOREM ListImplementsCursor == Spec => KeepsPromise
  <1>1. Init => Cursor!Init
    <2> SUFFICES ASSUME Init PROVE Cursor!Init
      OBVIOUS
    <2>1. Contents = <<>> /\ PositionOf(pEntry) = 0 /\ PositionOf(current) = 0
      BY DEF Init, Contents, PositionOf
    <2> QED
      BY <2>1 DEF Init, Cursor!Init
  <1> QED
    BY <1>1, ListInvariant, RefinementStep, PTL DEF Spec, KeepsPromise, Cursor!Spec
=============================================================================
