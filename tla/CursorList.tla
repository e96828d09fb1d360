----------------------------- MODULE CursorList -----------------------------
(***************************************************************************)
(* What the linked list and its iterator promise (linked_list.h): a        *)
(* sequence of values, and a cursor made of the place where an insertion   *)
(* goes ("before" values precede it) and of the position of the value the  *)
(* next call of ll_iteratorNext returns (0 at the end).  An iterator does  *)
(* not outlive the removal of an element.                                  *)
(***************************************************************************)
EXTENDS Naturals, Sequences, SequencesExt

CONSTANTS Values, NoValue

VARIABLES seq,      \* the values, front first
          open,     \* there is an iterator
          before,   \* values before its insertion place
          upcoming, \* position of its next value, 0 at the end
          ret       \* what the last call returned

vars == <<seq, open, before, upcoming, ret>>

Start(s) == IF s = <<>> THEN 0 ELSE 1
CloseIterator == open' = FALSE /\ before' = 0 /\ upcoming' = 0

Init ==
  seq = <<>> /\ open = FALSE /\ before = 0 /\ upcoming = 0 /\ ret = NoValue

PushBack(v) ==
  /\ seq' = Append(seq, v)
  /\ ret' = NoValue
  /\ UNCHANGED <<open, before, upcoming>>

CreateIterator ==
  /\ open' = TRUE /\ before' = 0 /\ upcoming' = Start(seq)
  /\ ret' = NoValue
  /\ UNCHANGED seq

IteratorNext ==
  /\ open /\ upcoming # 0
  /\ ret' = seq[upcoming]
  /\ before' = upcoming
  /\ upcoming' = IF upcoming = Len(seq) THEN 0 ELSE upcoming + 1
  /\ UNCHANGED <<seq, open>>

(* the new value is the one the next call returns *)
IteratorInsert(v) ==
  /\ open
  /\ seq' = InsertAt(seq, before + 1, v)
  /\ before' = before + 1 /\ upcoming' = before + 1
  /\ ret' = NoValue
  /\ UNCHANGED open

FindItem(v) ==
  /\ ret' = IF Contains(seq, v) THEN v ELSE NoValue
  /\ UNCHANGED <<seq, open, before, upcoming>>

(* the first value equal to v goes *)
RemoveItem(v) ==
  /\ Contains(seq, v)
  /\ seq' = RemoveFirst(seq, v)
  /\ ret' = v
  /\ CloseIterator

RemoveNothing(v) ==
  /\ ~Contains(seq, v)
  /\ ret' = NoValue
  /\ CloseIterator
  /\ UNCHANGED seq

Free == seq' = <<>> /\ ret' = NoValue /\ CloseIterator

Next ==
  \/ \E v \in Values : \/ PushBack(v) \/ IteratorInsert(v) \/ FindItem(v)
                       \/ RemoveItem(v) \/ RemoveNothing(v)
  \/ CreateIterator \/ IteratorNext \/ Free

Spec == Init /\ [][Next]_vars
=============================================================================
