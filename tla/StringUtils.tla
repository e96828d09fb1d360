----------------------------- MODULE StringUtils -----------------------------
(***************************************************************************)
(* string_utils.c, as its callers use it.  prs_extractGrammarItems copies  *)
(* a text with its blanks collapsed and splits the copy at the spaces;     *)
(* prs_extractRanges copies it without blanks; str_numberLength only has   *)
(* its tests.  Loops take one step per turn, pointers are numbers of       *)
(* characters, and allocation succeeds.                                    *)
(***************************************************************************)
EXTENDS Integers, Sequences, FiniteSets, FiniteSetsExt

CONSTANTS Texts, \* what the callers pass: sequences of characters
          Width  \* bits of an int

TextsAssumption == Texts \subseteq Seq(STRING)
WidthAssumption == Width \in Nat \ {0, 1}

Power(base) == LET power[e \in Nat] == IF e = 0 THEN 1 ELSE base * power[e - 1] IN power

Space == "space"
Blanks == {Space, "newline"} \* isspace
MinInt == -Power(2)[Width - 1]
Ints == MinInt .. -MinInt - 1

VARIABLES pc,     \* "collapse", "split", "strip", "digits" or "done"
          call,   \* the pc at the start
          text,   \* the source of the copy
          ptr,    \* characters of it (or of the copy, in "split") behind ptr1
          dest,   \* the copy
          words,  \* the list str_splitItems fills
          number, n, length \* str_numberLength: argument and locals

copying == <<ptr, dest, words>>
counting == <<n, length>>
vars == <<pc, call, text, copying, number, counting>>

Init ==
  /\ call \in {"collapse", "strip", "digits"} /\ pc = call
  /\ text \in IF call = "digits" THEN {<<>>} ELSE Texts
  /\ ptr = 0 /\ dest = <<>> /\ words = <<>>
  /\ number \in IF call = "digits" THEN Ints ELSE {0}
  /\ n = number /\ length = 0
-----------------------------------------------------------------------------
(* str_removeMultipleSpaces *)

(* Faulty variant: only spaces are taken together. *)
SkipsSpace(p) == p < Len(text) /\ text[p] = Space /\ text[p + 1] = Space

Skips(p) == p < Len(text) /\ text[p] \in Blanks /\ text[p + 1] \in Blanks

CollapseBlanks ==
  /\ pc = "collapse" /\ ptr < Len(text)
  /\ LET stop == Min({p \in ptr + 1 .. Len(text) : ~Skips(p)}) IN
       /\ dest' = Append(dest, IF text[stop] \in Blanks THEN Space ELSE text[stop])
       /\ ptr' = stop
  /\ UNCHANGED <<pc, call, text, words, number, counting>>

Collapsed ==
  /\ pc = "collapse" /\ ptr = Len(text)
  /\ pc' = "split"
  /\ ptr' = 0
  /\ UNCHANGED <<call, text, dest, words, number, counting>>
-----------------------------------------------------------------------------
(* str_splitItems *)

Separators == {p \in ptr + 1 .. Len(dest) : dest[p] = Space}

NextSeparator ==
  /\ pc = "split" /\ Separators # {}
  /\ LET separator == Min(Separators)
         word == SubSeq(dest, ptr + 1, separator - 1)
     IN  /\ words' = IF word = <<>> THEN words ELSE Append(words, word)
         /\ ptr' = separator
  /\ UNCHANGED <<pc, call, text, dest, number, counting>>

(* Faulty variant: a last word of one character is forgotten. *)
LastWordShort ==
  /\ pc = "split" /\ Separators = {}
  /\ words' = IF ptr + 1 < Len(dest)
              THEN Append(words, SubSeq(dest, ptr + 1, Len(dest))) ELSE words
  /\ pc' = "done"
  /\ UNCHANGED <<call, text, ptr, dest, number, counting>>

LastWord ==
  /\ pc = "split" /\ Separators = {}
  /\ words' = IF ptr < Len(dest)
              THEN Append(words, SubSeq(dest, ptr + 1, Len(dest))) ELSE words
  /\ pc' = "done"
  /\ UNCHANGED <<call, text, ptr, dest, number, counting>>
-----------------------------------------------------------------------------
(* str_removeWhitespaces *)

HasText == ptr < Len(text) /\ text[ptr + 1] # "NUL"

StripBlank ==
  /\ pc = "strip"
  /\ IF HasText
     THEN /\ dest' = IF text[ptr + 1] \in Blanks THEN dest
                     ELSE Append(dest, text[ptr + 1])
          /\ ptr' = ptr + 1
          /\ UNCHANGED pc
     ELSE pc' = "done" /\ UNCHANGED <<ptr, dest>>
  /\ UNCHANGED <<call, text, words, number, counting>>
-----------------------------------------------------------------------------
(* str_numberLength; the negation of the least int overflows, and wraps *)

FromTen(i) == i >= 10

CountDigit ==
  /\ pc = "digits"
  /\ \/ /\ n < 0 /\ n # MinInt
        /\ n' = -n /\ length' = length + 1
        /\ UNCHANGED pc
     \/ /\ n >= 0 /\ FromTen(n)
        /\ n' = n \div 10 /\ length' = length + 1
        /\ UNCHANGED pc
     \/ /\ n = MinInt
        /\ length' = length + 2
        /\ pc' = "done"
        /\ UNCHANGED n
     \/ /\ n >= 0 /\ ~FromTen(n)
        /\ length' = length + 1
        /\ pc' = "done"
        /\ UNCHANGED n
  /\ UNCHANGED <<call, text, copying, number>>

Returned == pc = "done" /\ UNCHANGED vars

Next ==
  \/ CollapseBlanks \/ Collapsed \/ NextSeparator \/ LastWord
  \/ StripBlank \/ CountDigit
  \/ Returned

Spec == Init /\ [][Next]_vars /\ WF_vars(Next)
-----------------------------------------------------------------------------
(* Reference definitions *)

(* how many positions of S are p or before p *)
Rank(S, p) == Cardinality({q \in S : q <= p})

Solids(t) == {p \in DOMAIN t : t[p] \notin Blanks}

(* t and u have the same characters, but for blanks, in the same order *)
SameButBlanks(t, u) ==
  /\ Cardinality(Solids(t)) = Cardinality(Solids(u))
  /\ \A p \in Solids(t), q \in Solids(u) :
       Rank(Solids(t), p) = Rank(Solids(u), q) => t[p] = u[q]

(* where the words of a text begin and end, and which they are *)
Starts(t) == {p \in Solids(t) : p = 1 \/ t[p - 1] \in Blanks}
WordEnd(t, p) == Min({q \in p .. Len(t) : q = Len(t) \/ t[q + 1] \in Blanks})
AreWords(list, t) ==
  /\ Len(list) = Cardinality(Starts(t))
  /\ \A p \in Starts(t) : list[Rank(Starts(t), p)] = SubSeq(t, p, WordEnd(t, p))

(* the text up to a terminator *)
Terminated(t) == SubSeq(t, 1, Min({p \in DOMAIN t : t[p] = "NUL"} \cup {Len(t) + 1}) - 1)

(* i is written with d characters, one of them for its sign *)
IsLength(d, i) ==
  LET size == IF i < 0 THEN -i ELSE i
      digits == IF i < 0 THEN d - 1 ELSE d
  IN  /\ digits >= 1 /\ size < Power(10)[digits]
      /\ digits = 1 \/ Power(10)[digits - 1] <= size
-----------------------------------------------------------------------------
(* Properties *)

(***************************************************************************)
(* str_removeMultipleSpaces: at every turn the copy has what was read but  *)
(* for blanks, no blank next to a blank, and is not longer, so that a      *)
(* destination of the length of the text and one more byte holds it.       *)
(***************************************************************************)
CopyFaithful ==
  pc = "collapse" =>
    /\ SameButBlanks(dest, SubSeq(text, 1, ptr))
    /\ \A p \in 1 .. Len(dest) - 1 : ~(dest[p] \in Blanks /\ dest[p + 1] \in Blanks)
    /\ Len(dest) <= ptr

(***************************************************************************)
(* The items str_splitItems finds in the collapsed copy are the words of   *)
(* the text that was copied, at either end of it as well;                  *)
(* str_removeWhitespaces copies the solid characters up to a terminator;   *)
(* and str_numberLength counts digits and sign, of any int but the least.  *)
(***************************************************************************)
ResultsRight ==
  pc = "done" =>
    CASE call = "collapse" -> AreWords(words, text)
      [] call = "strip" -> Solids(dest) = DOMAIN dest /\ SameButBlanks(dest, Terminated(text))
      [] call = "digits" -> number # MinInt => IsLength(length, number)
=============================================================================
