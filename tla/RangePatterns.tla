---------------------------- MODULE RangePatterns ----------------------------
(***************************************************************************)
(* prs_extractRange (range.c): what three characters stand for in the text *)
(* of a range value.  A character is its code.                             *)
(***************************************************************************)
EXTENDS Integers, Sequences

Digits == 48 .. 57
Upper == 65 .. 90
Lower == 97 .. 122
Letters == Upper \cup Lower
Dash == 45

IsPattern(x, y) ==
  \/ x \in Letters /\ y \in Letters
  \/ x \in Digits /\ y \in Digits

IsUppercase(x, y) == x \in Upper /\ y \in Upper

(* both letters of an uppercase range are lowered *)
Bound(c, uppercase) == IF uppercase THEN c + 32 ELSE c
Allowed(x) == IF x \in Digits THEN Digits ELSE Lower

(* Faulty variant: the bounds are tested before their order. *)
RangeErrorBounds(x, y) ==
  CASE x \notin Allowed(x) \/ y \notin Allowed(x) -> "PRS_INVALID_CHAR_RANGE"
    [] x > y -> "PRS_INVALID_RANGE"
    [] OTHER -> "PRS_OK"

RangeError(x, y) ==
  CASE x > y -> "PRS_INVALID_RANGE"
    [] x <= y /\ (x \notin Allowed(x) \/ y \notin Allowed(x)) -> "PRS_INVALID_CHAR_RANGE"
    [] OTHER -> "PRS_OK"

ExtractRange(x, dash, y) ==
  LET uppercase == IsUppercase(x, y)
      first == Bound(x, uppercase)
      last == Bound(y, uppercase)
  IN  IF IsPattern(x, y) /\ dash = Dash
      THEN [code |-> RangeError(first, last),
            range |-> [uppercaseLetter |-> uppercase, start |-> first, end |-> last + 1]]
      ELSE [code |-> "PRS_INVALID_RANGE_PATTERN"]

(***************************************************************************)
(* The code prs_extractRanges returns for a text without blanks, for the   *)
(* modules that need no more of it; the property FirstErrorReported of     *)
(* module Ranges says that it is this one.                                 *)
(***************************************************************************)
CodeAt(text, n) == ExtractRange(text[3 * n + 1], text[3 * n + 2], text[3 * n + 3]).code

SolidCode(text) ==
  LET bad == {n \in 0 .. Len(text) : 3 * n + 3 <= Len(text) /\ CodeAt(text, n) # "PRS_OK"}
  IN  IF Len(text) % 3 # 0 THEN "PRS_INVALID_RANGE_PATTERN"
      ELSE IF bad = {} THEN "PRS_OK"
      ELSE CodeAt(text, CHOOSE n \in bad : \A m \in bad : n <= m)
=============================================================================
