------------------------------- MODULE Ranges -------------------------------
(***************************************************************************)
(* prs_extractRanges (range.c) on the text between the brackets of a       *)
(* token's value, "a-zA-Z0-9", one range per step.  The number of ranges   *)
(* comes from a copy of the text without its blanks, the ranges from the   *)
(* text itself.                                                            *)
(*                                                                         *)
(* A character is its code.  fg_extractToken passes the text behind the    *)
(* opening bracket and the length of the item less two, as a size_t; no    *)
(* item contains a blank.                                                  *)
(***************************************************************************)
EXTENDS RangePatterns, FiniteSets

CONSTANTS Inputs,   \* texts behind an opening bracket
          SizeValues, \* how many values a size_t has
          MaxBlock  \* calloc fails for more bytes

SizeAssumption ==
  /\ SizeValues \in Nat /\ MaxBlock \in 1 .. SizeValues - 2
  /\ \A i \in Inputs : i \in Seq(Nat) /\ Len(i) <= MaxBlock

Blanks == {32} \cup 9 .. 13

VARIABLES
  input,
  fromItem, \* called by fg_extractToken, not with a text of its own
  pc,       \* "start", "ranges", "done" or "aborted" (assertion failed)
  code,
  ranges,   \* the array filled by the loop, of rangesNumber elements
  number,   \* rangesNumber
  array,    \* rangeArray->ranges, its length the size
  blocks    \* "buffer" and "ranges" while allocated

vars == <<input, fromItem, pc, code, ranges, number, array, blocks>>

(* the characters of a text that its copy without blanks keeps *)
Solid(text) == {p \in DOMAIN text : text[p] \notin Blanks}
IsSolid(text) == Solid(text) = DOMAIN text
Length == IF fromItem THEN (Len(input) - 1) % SizeValues ELSE Len(input)

Init ==
  /\ input \in Inputs
  /\ fromItem \in IF IsSolid(input) THEN BOOLEAN ELSE {FALSE}
  /\ pc = "start" /\ code = "none"
  /\ ranges = <<>> /\ number = 0
  /\ array = <<>>
  /\ blocks = {}
-----------------------------------------------------------------------------
(* the range read at a position: a copy may have more characters than that *)
At(p) == IF p \in DOMAIN input THEN input[p] ELSE 0

RangeAt(p) == ExtractRange(At(p), At(p + 1), At(p + 2))
-----------------------------------------------------------------------------
(* prs_extractRanges *)

Return(c) == code' = c /\ pc' = "done"

NoText ==
  /\ pc = "start" /\ Length = 0
  /\ Return("PRS_OK")
  /\ UNCHANGED <<input, fromItem, ranges, number, array, blocks>>

(* str_removeWhitespaces asserts that it got a destination *)
NoBuffer ==
  /\ pc = "start" /\ Length > MaxBlock
  /\ pc' = "aborted"
  /\ UNCHANGED <<input, fromItem, code, ranges, number, array, blocks>>

(* Faulty variant: what the last range leaves is not looked at. *)
CountRangesRounded ==
  /\ pc = "start" /\ Length \in 1 .. MaxBlock
  /\ LET length == Cardinality(Solid(SubSeq(input, 1, Length))) IN
       IF length < 3
       THEN Return("PRS_INVALID_RANGE_PATTERN") /\ UNCHANGED <<number, blocks>>
       ELSE /\ number' = length \div 3
            /\ blocks' = {"buffer", "ranges"}
            /\ pc' = "ranges"
            /\ UNCHANGED code
  /\ UNCHANGED <<input, fromItem, ranges, array>>

(* a text of blanks is accepted, and the buffer is not freed *)
CountRanges ==
  /\ pc = "start" /\ Length \in 1 .. MaxBlock
  /\ LET length == Cardinality(Solid(SubSeq(input, 1, Length))) IN
     \/ /\ length = 0
        /\ blocks' = {"buffer"}
        /\ Return("PRS_OK")
        /\ UNCHANGED number
     \/ /\ length % 3 # 0
        /\ Return("PRS_INVALID_RANGE_PATTERN")
        /\ UNCHANGED <<number, blocks>>
     \/ /\ length # 0 /\ length % 3 = 0
        /\ number' = length \div 3
        /\ blocks' = {"buffer", "ranges"}
        /\ pc' = "ranges"
        /\ UNCHANGED code
  /\ UNCHANGED <<input, fromItem, ranges, array>>

(* Faulty variant: the array of ranges is not freed after an error. *)
FreeBuffer == blocks \ {"buffer"}

FreeBoth == blocks \ {"buffer", "ranges"}

NextRange ==
  /\ pc = "ranges" /\ Len(ranges) < number
  /\ LET result == RangeAt(3 * Len(ranges) + 1) IN
     \/ /\ result.code = "PRS_OK"
        /\ ranges' = Append(ranges, result.range)
        /\ UNCHANGED <<pc, code, blocks>>
     \/ /\ result.code # "PRS_OK"
        /\ blocks' = FreeBoth
        /\ Return(result.code)
        /\ UNCHANGED ranges
  /\ UNCHANGED <<input, fromItem, number, array>>

StoreRanges ==
  /\ pc = "ranges" /\ Len(ranges) = number
  /\ array' = ranges
  /\ blocks' = blocks \ {"buffer"}
  /\ Return("PRS_OK")
  /\ UNCHANGED <<input, fromItem, ranges, number>>

Returned == pc \in {"done", "aborted"} /\ UNCHANGED vars

Next == NoText \/ NoBuffer \/ CountRanges \/ NextRange \/ StoreRanges \/ Returned

Spec == Init /\ [][Next]_vars /\ WF_vars(Next)
-----------------------------------------------------------------------------
(* Reference: the patterns of range.h, one behind the other *)

Text == SubSeq(input, 1, Length)
Alike(x, y) == \E class \in {Digits, Upper, Lower} : x \in class /\ y \in class
Pattern(p) ==
  /\ p + 2 <= Len(Text) /\ Text[p + 1] = Dash
  /\ Alike(Text[p], Text[p + 2]) /\ Text[p] <= Text[p + 2]
PatternsThenBlanks(n) ==
  /\ \A k \in 0 .. n - 1 : Pattern(3 * k + 1)
  /\ \A p \in 3 * n + 1 .. Len(Text) : Text[p] \in Blanks
Lowered(c) == IF c \in Upper THEN c + 32 ELSE c
Covered(n) ==
  [k \in 1 .. n |-> [uppercaseLetter |-> Text[3 * k] \in Upper,
                     start |-> Lowered(Text[3 * k - 2]),
                     end |-> Lowered(Text[3 * k]) + 1]]

-----------------------------------------------------------------------------
(***************************************************************************)
(* Although blanks are counted out of one text and not of the other, a     *)
(* text is accepted exactly when it is a sequence of patterns, blanks      *)
(* allowed behind them only, and the array has the range of each.          *)
(***************************************************************************)
AcceptsPatterns ==
  pc = "done" =>
    IF code = "PRS_OK"
    THEN PatternsThenBlanks(Len(array)) /\ array = Covered(Len(array))
    ELSE \A n \in 0 .. Len(Text) : ~PatternsThenBlanks(n)

(***************************************************************************)
(* range.h:46-52 and :79-82: in a text without blanks the code is that of  *)
(* the first pattern that fails, found without a look at the others.       *)
(* Letters of both cases fail for the order of their codes, or for the one *)
(* that is not lowercase: A-z gets the code range.h:49 keeps for           *)
(* characters that are no letters.                                         *)
(***************************************************************************)
FirstErrorReported ==
  pc = "done" /\ IsSolid(Text) =>
    /\ code = SolidCode(Text)
    /\ Len(Text) % 3 = 0 /\ code # "PRS_OK" =>
         LET bad == {k \in 0 .. Len(Text) - 1 : k % 3 = 0 /\ ~Pattern(k + 1)}
             p == 1 + CHOOSE k \in bad : \A l \in bad : k <= l
         IN  /\ bad # {}
             /\ (code = "PRS_INVALID_RANGE_PATTERN") =
                  ~(Text[p + 1] = Dash /\ IsPattern(Text[p], Text[p + 2]))
             /\ code = "PRS_INVALID_RANGE" => Text[p] > Text[p + 2]
             /\ code = "PRS_INVALID_CHAR_RANGE" =>
                  Text[p] \in Upper /\ Text[p + 2] \in Lower

(***************************************************************************)
(* On every path the blocks left are those the range array owns, but for   *)
(* a text of blanks.                                                       *)
(***************************************************************************)
BlocksOwned ==
  pc = "done" /\ Solid(Text) # {} =>
    blocks = IF array = <<>> THEN {} ELSE {"ranges"}
=============================================================================
