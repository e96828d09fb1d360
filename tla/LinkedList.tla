----------------------------- MODULE LinkedList -----------------------------
(***************************************************************************)
(* linked_list.c: nodes in the heap, the front and back pointers, the size *)
(* counter, one iterator, and the loops of the calls that walk the list.   *)
(* Null stands for NULL, and as an iterator's pEntry for &list->front; the *)
(* pEntry n is &n->next.  A comparator's "equal" is equality of values.    *)
(*                                                                         *)
(* Spec is the way src/ uses a list: no ll_pushBack once a value was       *)
(* inserted through an iterator (prs_splitDelimiters is the only user of   *)
(* ll_iteratorInsert, and the list is complete by then).  AnyOrderSpec     *)
(* allows every order of calls the header allows.                          *)
(***************************************************************************)
EXTENDS Naturals, Sequences, FiniteSets

CONSTANTS Values,  \* the data
          NoValue, \* NULL, as a result
          Nodes,   \* addresses malloc may return
          Null

ASSUME NullAssumption == Null \notin Nodes /\ NoValue \notin Values

VARIABLES
  next, data,        \* the fields of the allocated nodes
  front, back, size, \* list->front, list->back, list->size
  open,              \* the client holds an iterator
  current, pEntry,   \* its fields
  pc,                \* "idle", or the call that is walking the list
  prev, scan, query, \* that call's previousItem, currentItem and argument
  ret,               \* what the last call returned
  inserted           \* a value was inserted through an iterator

list == <<front, back, size>>
iterator == <<open, current, pEntry>>
walk == <<pc, prev, scan, query>>
vars == <<next, data, list, iterator, walk, ret, inserted>>

Init ==
  /\ next = [n \in {} |-> Null] /\ data = [n \in {} |-> NoValue]
  /\ front = Null /\ back = Null /\ size = 0
  /\ open = FALSE /\ current = Null /\ pEntry = Null
  /\ pc = "idle" /\ prev = Null /\ scan = Null /\ query = NoValue
  /\ ret = NoValue /\ inserted = FALSE

(* the fields of the nodes once n is allocated with the given contents *)
Set(f, n, x) == [m \in DOMAIN f \cup {n} |-> IF m = n THEN x ELSE f[m]]
Drop(f, n) == [m \in DOMAIN f \ {n} |-> f[m]]

(* Faulty variant: the node that was the last is not linked to the new one. *)
PushBackUnlinked(v, n) ==
  /\ pc = "idle" /\ n \notin DOMAIN next
  /\ data' = Set(data, n, v)
  /\ next' = Set(next, n, Null)
  /\ front' = IF back = Null THEN n ELSE front
  /\ back' = n
  /\ size' = size + 1
  /\ ret' = NoValue
  /\ UNCHANGED <<iterator, walk, inserted>>

PushBack(v, n) ==
  /\ pc = "idle" /\ n \notin DOMAIN next
  /\ data' = Set(data, n, v)
  /\ \/ /\ back # Null
        /\ next' = Set(Set(next, n, Null), back, n)
        /\ UNCHANGED front
     \/ /\ back = Null
        /\ next' = Set(next, n, Null)
        /\ front' = n
  /\ back' = n
  /\ size' = size + 1
  /\ ret' = NoValue
  /\ UNCHANGED <<iterator, walk, inserted>>

CreateIterator ==
  /\ pc = "idle"
  /\ open' = TRUE /\ current' = front /\ pEntry' = Null
  /\ ret' = NoValue
  /\ UNCHANGED <<next, data, list, walk, inserted>>

IteratorNext ==
  /\ pc = "idle" /\ open /\ current # Null
  /\ ret' = data[current]
  /\ pEntry' = current
  /\ current' = next[current]
  /\ UNCHANGED <<next, data, list, open, walk, inserted>>

(* Faulty variant: the iterator stays behind the new value. *)
IteratorInsertUnmoved(v, n) ==
  /\ pc = "idle" /\ open /\ n \notin DOMAIN next
  /\ data' = Set(data, n, v)
  /\ \/ /\ pEntry = Null
        /\ next' = Set(next, n, front) /\ front' = n
     \/ /\ pEntry # Null
        /\ next' = Set(Set(next, n, next[pEntry]), pEntry, n)
        /\ UNCHANGED front
  /\ size' = size + 1
  /\ inserted' = TRUE
  /\ ret' = NoValue
  /\ UNCHANGED <<open, current, pEntry, back, walk>>

(* list->back is not updated *)
IteratorInsert(v, n) ==
  /\ pc = "idle" /\ open /\ n \notin DOMAIN next
  /\ data' = Set(data, n, v)
  /\ \/ /\ pEntry = Null
        /\ next' = Set(next, n, front) /\ front' = n
     \/ /\ pEntry # Null
        /\ next' = Set(Set(next, n, next[pEntry]), pEntry, n)
        /\ UNCHANGED front
  /\ current' = n /\ pEntry' = n
  /\ size' = size + 1
  /\ inserted' = TRUE
  /\ ret' = NoValue
  /\ UNCHANGED <<open, back, walk>>
-----------------------------------------------------------------------------
(* ll_findItem and ll_removeItem *)

Search(call, v) ==
  /\ pc = "idle"
  /\ pc' = call
  /\ prev' = Null /\ scan' = front /\ query' = v
  /\ UNCHANGED <<next, data, list, iterator, ret, inserted>>

EndCall == pc' = "idle" /\ prev' = Null /\ scan' = Null /\ query' = NoValue
CloseIterator == open' = FALSE /\ current' = Null /\ pEntry' = Null

(* Faulty variant: currentItem does not move. *)
SearchStays ==
  /\ pc \in {"find", "remove"} /\ scan # Null /\ data[scan] # query
  /\ prev' = scan
  /\ UNCHANGED <<next, data, list, iterator, pc, scan, query, ret, inserted>>

(* one turn of either loop past a node that does not match *)
SearchNext ==
  /\ pc \in {"find", "remove"} /\ scan # Null /\ data[scan] # query
  /\ prev' = scan /\ scan' = next[scan]
  /\ UNCHANGED <<next, data, list, iterator, pc, query, ret, inserted>>

(* Faulty variant: the removal of a value the list lacks is counted. *)
SearchFailsCounted ==
  /\ pc \in {"find", "remove"} /\ scan = Null
  /\ ret' = NoValue
  /\ size' = IF pc = "remove" THEN size - 1 ELSE size
  /\ IF pc = "remove" THEN CloseIterator ELSE UNCHANGED iterator
  /\ EndCall
  /\ UNCHANGED <<next, data, front, back, inserted>>

SearchFails ==
  /\ pc \in {"find", "remove"} /\ scan = Null
  /\ ret' = NoValue
  /\ IF pc = "remove" THEN CloseIterator ELSE UNCHANGED iterator
  /\ EndCall
  /\ UNCHANGED <<next, data, list, inserted>>

Found ==
  /\ pc = "find" /\ scan # Null /\ data[scan] = query
  /\ ret' = data[scan]
  /\ EndCall
  /\ UNCHANGED <<next, data, list, iterator, inserted>>

(* Faulty variant: list->back keeps pointing to the node that is freed. *)
RemoveFoundBackKept ==
  /\ pc = "remove" /\ scan # Null /\ data[scan] = query
  /\ next' = Drop(IF prev = Null THEN next ELSE Set(next, prev, next[scan]), scan)
  /\ data' = Drop(data, scan)
  /\ front' = IF scan = front THEN next[scan] ELSE front
  /\ size' = size - 1
  /\ ret' = data[scan]
  /\ CloseIterator
  /\ EndCall
  /\ UNCHANGED <<back, inserted>>

RemoveFound ==
  /\ pc = "remove" /\ scan # Null /\ data[scan] = query
  /\ next' = Drop(IF prev = Null THEN next ELSE Set(next, prev, next[scan]), scan)
  /\ data' = Drop(data, scan)
  /\ front' = IF scan = front THEN next[scan] ELSE front
  /\ back' = IF scan = back THEN prev ELSE back
  /\ size' = size - 1
  /\ ret' = data[scan]
  /\ CloseIterator
  /\ EndCall
  /\ UNCHANGED inserted
-----------------------------------------------------------------------------
(* ll_freeLinkedList *)

StartFree ==
  /\ pc = "idle"
  /\ pc' = "free"
  /\ scan' = front
  /\ ret' = NoValue
  /\ CloseIterator
  /\ UNCHANGED <<next, data, list, prev, query, inserted>>

FreeNode ==
  /\ pc = "free" /\ scan # Null
  /\ scan' = next[scan]
  /\ next' = Drop(next, scan) /\ data' = Drop(data, scan)
  /\ UNCHANGED <<list, iterator, pc, prev, query, ret, inserted>>

(* Faulty variant: list->back survives, ll_pushBack would write through it. *)
EndFreeBackKept ==
  /\ pc = "free" /\ scan = Null
  /\ front' = Null /\ size' = 0
  /\ inserted' = FALSE
  /\ EndCall
  /\ UNCHANGED <<next, data, back, iterator, ret>>

EndFree ==
  /\ pc = "free" /\ scan = Null
  /\ front' = Null /\ back' = Null /\ size' = 0
  /\ inserted' = FALSE
  /\ EndCall
  /\ UNCHANGED <<next, data, iterator, ret>>
-----------------------------------------------------------------------------
Other ==
  \/ CreateIterator \/ IteratorNext
  \/ \E v \in Values, n \in Nodes : IteratorInsert(v, n)
  \/ \E v \in Values : Search("find", v) \/ Search("remove", v)
  \/ SearchNext \/ SearchFails \/ Found \/ RemoveFound
  \/ StartFree \/ FreeNode \/ EndFree

Push == \E v \in Values, n \in Nodes : PushBack(v, n)

Next == Other \/ (~inserted /\ Push)
AnyOrderNext == Other \/ Push

(* a call that has started returns *)
Walking == SearchNext \/ SearchFails \/ Found \/ RemoveFound \/ FreeNode \/ EndFree
Spec == Init /\ [][Next]_vars /\ WF_vars(Walking)
AnyOrderSpec == Init /\ [][AnyOrderNext]_vars
-----------------------------------------------------------------------------
(* Properties *)

Address == Nodes \cup {Null}

(* Every field keeps its type. *)
TypeOK ==
  /\ DOMAIN next \subseteq Nodes /\ next \in [DOMAIN next -> Address]
  /\ data \in [DOMAIN next -> Values]
  /\ front \in Address /\ back \in Address /\ size \in Nat
  /\ open \in BOOLEAN /\ current \in Address /\ pEntry \in Address
  /\ pc \in {"idle", "find", "remove", "free"}
  /\ prev \in Address /\ scan \in Address
  /\ query \in Values \cup {NoValue} /\ ret \in Values \cup {NoValue}
  /\ inserted \in BOOLEAN

(* c lists the nodes from first to the end of the list *)
ChainFrom(first, c, k) ==
  IF k = 0 THEN first = Null
  ELSE /\ c[1] = first /\ next[c[k]] = Null
       /\ \A i \in 1..(k - 1) : next[c[i]] = c[i + 1]

IsChain(c) == ChainFrom(front, c, size)
Chains == [1..size -> DOMAIN next]

(***************************************************************************)
(* The nodes allocated are those the front pointer reaches, each once, and *)
(* size counts them: no node is lost (it would be leaked and its value     *)
(* skipped by every walk) and the list has no cycle.  While                *)
(* ll_freeLinkedList runs, the nodes left are those its cursor reaches.    *)
(***************************************************************************)
WellLinked ==
  \E k \in 0..size : \E c \in [1..k -> DOMAIN next] :
    /\ pc # "free" => k = size
    /\ ChainFrom(IF pc = "free" THEN scan ELSE front, c, k)
    /\ \A n \in DOMAIN next : \E i \in 1..k : c[i] = n

(***************************************************************************)
(* ll_pushBack writes through list->back: it is the last node of the list  *)
(* whenever the client may push, and never a node already freed.           *)
(***************************************************************************)
BackIsLast ==
  pc # "free" /\ ~inserted =>
    IF size = 0 THEN back = Null
    ELSE back \in DOMAIN next /\ next[back] = Null

(* No pointer that a call will follow points to a freed node. *)
NoDanglingPointer ==
  /\ {current, pEntry, scan, prev} \ {Null} \subseteq DOMAIN next
  /\ pc # "free" => front \in DOMAIN next \cup {Null}
  /\ pc # "free" => back \in DOMAIN next \cup {Null}

(* A call that walks the list returns. *)
CallsReturn == pc # "idle" ~> pc = "idle"

(* The refinement of CursorList; a list being freed is already empty *)
Chain == CHOOSE c \in Chains : IsChain(c)
PositionOf(n) == IF n = Null THEN 0 ELSE CHOOSE i \in 1..size : Chain[i] = n
Contents == IF pc = "free" THEN <<>> ELSE [i \in 1..size |-> data[Chain[i]]]

Cursor == INSTANCE CursorList WITH
            seq <- Contents, before <- PositionOf(pEntry),
            upcoming <- PositionOf(current)

(* The list does what CursorList promises, whatever the order of the calls *)
(* the program may make.                                                   *)
KeepsPromise == Cursor!Spec

(* linked_list.h:80-86: ll_pushBack adds its element at the end, after the *)
(* elements that are already there, also after ll_iteratorInsert.          *)
NothingLost ==
  pc = "idle" => \E c \in Chains : IsChain(c)
=============================================================================
