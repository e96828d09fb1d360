---------------------------- MODULE KeyValueMap -----------------------------
(***************************************************************************)
(* What the hash table promises (hash_table.h): a map from key contents to *)
(* a value, which remembers the key pointer of the first insertion, and an *)
(* iterator that returns every pair of the map once, in an order that is   *)
(* not promised.  An iterator does not outlive a removal.  ret is the list *)
(* of the pairs or values the last call returned or gave to the            *)
(* destructor.                                                             *)
(***************************************************************************)
EXTENDS Naturals, Sequences, SequencesExt

CONSTANTS Keys, Values,
          Name   \* the contents of a key: equal for keys that compare equal

VARIABLES map,  \* contents -> [key, value]
          open, \* there is an iterator
          rest, \* what it has still to return
          ret

vars == <<map, open, rest, ret>>

CloseIterator == open' = FALSE /\ rest' = {}
Without(n) == [m \in DOMAIN map \ {n} |-> map[m]]

Init == map = [n \in {} |-> {}] /\ open = FALSE /\ rest = {} /\ ret = <<>>

Create ==
  /\ map = [n \in {} |-> {}] /\ ret' = <<>>
  /\ UNCHANGED <<map, open, rest>>

Overwrite(k, v) ==
  /\ Name[k] \in DOMAIN map
  /\ map' = [map EXCEPT ![Name[k]].value = v]
  /\ ret' = <<>>
  /\ UNCHANGED <<open, rest>>

(* an iterator may or may not come to a pair inserted behind its back *)
Insert(k, v) ==
  /\ Name[k] \notin DOMAIN map
  /\ map' = [n \in DOMAIN map \cup {Name[k]} |->
               IF n = Name[k] THEN [key |-> k, value |-> v] ELSE map[n]]
  /\ rest' = rest \/ (open /\ rest' = rest \cup {Name[k]})
  /\ ret' = <<>>
  /\ UNCHANGED open

RemoveKey(k) ==
  /\ Name[k] \in DOMAIN map
  /\ map' = Without(Name[k])
  /\ ret' = <<map[Name[k]]>>
  /\ CloseIterator

RemoveNothing(k) ==
  /\ Name[k] \notin DOMAIN map
  /\ ret' = <<>>
  /\ CloseIterator
  /\ UNCHANGED map

GetValue(k) ==
  /\ ret' = IF Name[k] \in DOMAIN map THEN <<map[Name[k]].value>> ELSE <<>>
  /\ UNCHANGED <<map, open, rest>>

GetValues ==
  /\ \E s \in SetToSeqs(DOMAIN map) : ret' = [i \in DOMAIN s |-> map[s[i]].value]
  /\ UNCHANGED <<map, open, rest>>

CreateIterator ==
  /\ open' = TRUE /\ rest' = DOMAIN map /\ ret' = <<>>
  /\ UNCHANGED map

IteratorNext ==
  /\ \E n \in rest : rest' = rest \ {n} /\ ret' = <<map[n]>>
  /\ UNCHANGED <<map, open>>

(* the client lets its iterator go before it frees the map *)
DropIterator ==
  /\ open
  /\ CloseIterator
  /\ UNCHANGED <<map, ret>>

(* every pair is given to the destructor once *)
Free ==
  /\ ~open
  /\ \E s \in SetToSeqs(DOMAIN map) : ret' = [i \in DOMAIN s |-> map[s[i]]]
  /\ map' = [n \in {} |-> {}]
  /\ UNCHANGED <<open, rest>>

Next ==
  \/ Create \/ CreateIterator \/ IteratorNext \/ GetValues
  \/ DropIterator \/ Free
  \/ \E k \in Keys : \/ RemoveKey(k) \/ RemoveNothing(k) \/ GetValue(k)
                     \/ \E v \in Values : Overwrite(k, v) \/ Insert(k, v)

Spec == Init /\ [][Next]_vars
=============================================================================
