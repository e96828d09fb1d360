---------------------------- MODULE ErrorMessage ----------------------------
(***************************************************************************)
(* prs_getErrorMessage (parser_errors.c): the text of a code, the item and *)
(* its position behind it, and the terminator, written into a buffer of    *)
(* the caller.  Only lengths matter: the n-th character of the text of the *)
(* code is <<"text", n>>, of the item and its position <<"item", n>>.      *)
(***************************************************************************)
EXTENDS Integers

CONSTANTS Texts,     \* lengths of the texts in errorMessages
          Items,     \* lengths of " %s (%d:%d)" for an item of the grammar
          Capacities \* of the buffers callers pass

LengthsAssumption == Texts \subseteq Nat /\ Items \subseteq Nat \ {0}
CapacitiesAssumption == Capacities \subseteq Nat \ {0}

VARIABLES
  text, item, \* lengths; item is 0 without an error state
  capacity,   \* the argument
  memory,     \* bytes written so far, a function of their offset in the buffer
  total,      \* totalLength
  pc          \* "copy", "append", "terminate" or "done"

vars == <<text, item, capacity, memory, total, pc>>

NUL == <<"NUL", 0>>

Init ==
  /\ text \in Texts /\ item \in Items \cup {0}
  /\ capacity \in Capacities
  /\ memory = [p \in {} |-> NUL]
  /\ total = 0
  /\ pc = "copy"

(* writes "count" characters of "what" at offset "start" *)
Write(start, what, count) ==
  [p \in DOMAIN memory \cup start .. start + count - 1 |->
     IF p \in start .. start + count - 1 THEN <<what, p - start + 1>> ELSE memory[p]]
WriteNUL(m, p) == [q \in DOMAIN m \cup {p} |-> IF q = p THEN NUL ELSE m[q]]

(* one character is kept for the terminator *)
Room == capacity - 1
Copied == IF Room > text THEN text ELSE Room

CopyText ==
  /\ pc = "copy"
  /\ memory' = Write(0, "text", Copied)
  /\ total' = Copied
  /\ pc' = "append"
  /\ UNCHANGED <<text, item, capacity>>

Remaining == Room - total

(* Faulty variant: the item is written behind a terminator. *)
BehindTerminator == total + 1

CurrentPos == total

(* snprintf writes what fits in front of a NUL of its own, nothing without  *)
(* any room, and returns what it would have written                         *)
AppendItem ==
  /\ pc = "append" /\ item # 0
  /\ LET written == IF item < Remaining THEN item ELSE Remaining - 1 IN
       memory' = IF Remaining = 0 THEN memory
                 ELSE WriteNUL(Write(CurrentPos, "item", written), CurrentPos + written)
  /\ total' = total + item
  /\ pc' = "terminate"
  /\ UNCHANGED <<text, item, capacity>>

NoItem ==
  /\ pc = "append" /\ item = 0
  /\ pc' = "terminate"
  /\ UNCHANGED <<text, item, capacity, memory, total>>

Terminate ==
  /\ pc = "terminate"
  /\ memory' = WriteNUL(memory, total)
  /\ pc' = "done"
  /\ UNCHANGED <<text, item, capacity, total>>

Returned == pc = "done" /\ UNCHANGED vars

Next == CopyText \/ AppendItem \/ NoItem \/ Terminate \/ Returned

Spec == Init /\ [][Next]_vars /\ WF_vars(Next)
-----------------------------------------------------------------------------
Inside == 0 .. capacity - 1
Nuls == {p \in DOMAIN memory \cap Inside : memory[p] = NUL}
Ends(p) == p \in Nuls /\ \A q \in Nuls : p <= q
Message(p) == IF p < text THEN <<"text", p + 1>> ELSE <<"item", p - text + 1>>

(* what the text leaves of the room *)
Spare == Room - Copied

(***************************************************************************)
(* What the caller finds in its buffer, whatever the lengths:              *)
(* - Every byte is written inside of the buffer but the terminator, which  *)
(*   is outside when the item is longer than what the text leaves.         *)
(* - parser_errors.h:60 promises a terminated message.  There is none when *)
(*   the text leaves nothing and there is an item.                         *)
(* - The bytes in front of the first NUL are the beginning of the message, *)
(*   never bytes that were not written.  They are all of the length that   *)
(*   is returned when there is no item or a byte is left behind it; other- *)
(*   wise the NUL of snprintf is found earlier, before the last byte.      *)
(* - A message for which there is a byte more than its terminator needs is *)
(*   not cut, and its length is returned.                                  *)
(* main passes 255 bytes, more than any text has: only an item that is too *)
(* long makes the terminator miss the buffer.                              *)
(***************************************************************************)
MessageShown ==
  pc = "done" =>
    /\ DOMAIN memory \ Inside = IF item <= Spare THEN {} ELSE {total}
    /\ Nuls = {} <=> item # 0 /\ Spare = 0
    /\ \A end \in Nuls : Ends(end) =>
         /\ \A p \in 0 .. end - 1 : p \in DOMAIN memory /\ memory[p] = Message(p)
         /\ end = IF item = 0 \/ item < Spare THEN total ELSE Room - 1
    /\ text + item + (IF item = 0 THEN 0 ELSE 1) < capacity => total = text + item
=============================================================================
