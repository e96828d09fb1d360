------------------------- MODULE LibraryCallsProofs --------------------------
(***************************************************************************)
(* Proofs about the functions of the library, for every argument: the      *)
(* invariant of each says what its local variables hold while it runs.     *)
(***************************************************************************)
EXTENDS LibraryCalls, Sequences, FiniteSets, TLAPS,
        FiniteSetTheorems, FunctionTheorems, SequenceTheorems, WellFoundedInduction
-----------------------------------------------------------------------------
(* Least elements and multiples *)

LessThan == {pair \in Nat \X Nat : pair[1] < pair[2]}

LEMMA LessThanWellFounded == IsWellFoundedOn(LessThan, Nat)
  <1>1. LessThan = OpToRel(<, Nat)
    BY DEF LessThan, OpToRel
  <1> QED
    BY <1>1, NatLessThanWellFounded

(* A set of natural numbers has a least element. *)
LEMMA LeastElement ==
  ASSUME NEW S, S \subseteq Nat, S # {}
  PROVE  \E x \in S : \A y \in S : x <= y
  <1>1. \A x, y \in Nat : <<y, x>> \in LessThan <=> y < x
    BY DEF LessThan
  <1>2. PICK x \in S : \A y \in S : <<y, x>> \notin LessThan
    BY LessThanWellFounded, WFMin
  <1>3. ASSUME NEW y \in S PROVE x <= y
    <2>1. <<y, x>> \notin LessThan /\ y \in Nat /\ x \in Nat
      BY <1>2
    <2>2. ~(y < x)
      BY <1>1, <2>1
    <2> QED
      BY <2>1, <2>2
  <1> QED
    BY <1>3

LEMMA Quotients ==
  ASSUME NEW s \in Nat \ {0}, NEW a \in Nat
  PROVE  \E k \in Nat : a = k * s + (a % s) /\ (a % s) \in 0 .. s - 1
  <1> DEFINE k == a \div s
  <1>1. k \in Nat /\ a = k * s + (a % s)
    OBVIOUS
  <1>2. (a % s) \in 0 .. s - 1
    OBVIOUS
  <1> QED
    BY <1>1, <1>2

LEMMA MultipleMod ==
  ASSUME NEW s \in Nat \ {0}, NEW k \in Nat
  PROVE  (k * s) % s = 0
  OBVIOUS

(* A multiple that is not 0 has one before it. *)
LEMMA MultipleBefore ==
  ASSUME NEW s \in Nat \ {0}, NEW a \in Nat, a >= s, a % s = 0
  PROVE  (a - s) % s = 0
  <1>1. PICK k \in Nat : a = k * s + (a % s)
    BY Quotients
  <1>2. k # 0
    BY <1>1
  <1>3. k - 1 \in Nat
    BY <1>2
  <1>4. a - s = (k - 1) * s
    BY <1>1
  <1> QED
    BY <1>3, <1>4, MultipleMod

LEMMA MultipleSum ==
  ASSUME NEW s \in Nat \ {0}, NEW a \in Nat, NEW b \in Nat, a % s = 0, b % s = 0
  PROVE  (a + b) % s = 0
  <1>1. PICK k \in Nat : a = k * s + (a % s)
    BY Quotients
  <1>2. PICK j \in Nat : b = j * s + (b % s)
    BY Quotients
  <1>3. a + b = (k + j) * s /\ k + j \in Nat
    BY <1>1, <1>2
  <1> QED
    BY <1>3, MultipleMod

(* Less than s before a multiple, only the multiple itself is one. *)
LEMMA MultipleAhead ==
  ASSUME NEW s \in Nat \ {0}, NEW a \in Nat, NEW b \in Nat,
         b % s = 0, a <= b, b < a + s
  PROVE  a < b <=> a % s # 0
  <1>1. CASE a = b
    BY <1>1
  <1>2. CASE a < b
    <2> SUFFICES ASSUME a % s = 0 PROVE FALSE
      BY <1>2
    <2>1. PICK k \in Nat : a = k * s + (a % s)
      BY Quotients
    <2>2. PICK j \in Nat : b = j * s + (b % s)
      BY Quotients
    <2>3. a = k * s /\ b = j * s
      BY <2>1, <2>2
    <2>4. j >= k + 1
      <3> SUFFICES ASSUME j <= k PROVE FALSE
        OBVIOUS
      <3>1. k - j \in Nat /\ (k - j) * s \in Nat
        OBVIOUS
      <3>2. a = b + (k - j) * s
        BY <2>3
      <3> QED
        BY <1>2, <3>1, <3>2
    <2>5. j - k - 1 \in Nat /\ (j - k - 1) * s \in Nat
      BY <2>4
    <2>6. b = a + s + (j - k - 1) * s
      BY <2>3
    <2> QED
      BY <2>5, <2>6
  <1> QED
    BY <1>1, <1>2

(* The first multiple behind a number is at most s behind it. *)
LEMMA MultipleBehind ==
  ASSUME NEW s \in Nat \ {0}, NEW a \in Nat
  PROVE  \E m \in Nat : m >= a /\ m <= a + s /\ m % s = 0
  <1>1. PICK k \in Nat : a = k * s + (a % s) /\ (a % s) \in 0 .. s - 1
    BY Quotients
  <1> DEFINE r == a % s
             m == (k + 1) * s
  <1>2. m \in Nat
    OBVIOUS
  <1>3. m = k * s + s /\ r \in 0 .. s - 1 /\ a = k * s + r
    BY <1>1
  <1>4. k * s \in Nat
    OBVIOUS
  <1>5. m >= a /\ m <= a + s
    <2> HIDE DEF m, r
    <2> QED
      BY <1>2, <1>3, <1>4
  <1>6. m % s = 0
    BY MultipleMod
  <1> QED
    BY <1>2, <1>5, <1>6
-----------------------------------------------------------------------------
(* prs_readGrammar *)

NulFree(bytes) == \A p \in DOMAIN bytes : bytes[p] # "NUL"

(* The buffer holds what is stored, and has no step to spare; without a    *)
(* terminator in the stream that is all that was read.  There is a buffer  *)
(* from the first line on, and steps make it up.                           *)
ReadingOK ==
  /\ arg1 \in Seq(STRING) /\ local1 \in 0 .. Len(arg1)
  /\ local2 \in Seq(STRING) /\ local3 \in Nat
  /\ Len(local2) <= local3 /\ local3 < Len(local2) + Step /\ local3 % Step = 0
  /\ pc = "read" /\ local3 = 0 => local1 = 0
  /\ pc = "read" /\ local3 # 0 => local1 # 0 /\ Reading!StartsWithText(arg1)
  /\ pc = "done" => local4 = {Len(local2)} /\ Reading!StartsWithText(arg1)
  /\ pc = "crashed" => ~Reading!StartsWithText(arg1)
  /\ NulFree(arg1) /\ pc # "failed" => local2 = SubSeq(arg1, 1, local1)
  /\ NulFree(arg1) /\ pc = "done" => local1 = Len(arg1)

ReadingInv == function = "prs_readGrammar" => ReadingOK

LEMMA StepTypes == Step \in Nat /\ Step >= 2 /\ Streams \subseteq Seq(STRING)
  BY ArgumentsAssumption DEF Reading!StepAssumption, Reading!InputsAssumption

(* The least element of a set, as the modules name it. *)
LEMMA ReadingMin ==
  ASSUME NEW S, S \subseteq Nat, S # {}
  PROVE  Reading!Min(S) \in S /\ \A y \in S : Reading!Min(S) <= y
  BY LeastElement DEF Reading!Min

(* fgets delivers something as long as there is something. *)
LEMMA LineEnds ==
  ASSUME ReadingOK, local1 < Len(arg1)
  PROVE  Reading!LineEnd \in local1 + 1 .. Len(arg1)
  <1> DEFINE S == {p \in local1 + 1 .. Len(arg1) : arg1[p] = "newline"}
                    \cup {local1 + Step - 1, Len(arg1)}
  <1>1. Len(arg1) \in Nat /\ local1 \in Nat
    BY DEF ReadingOK
  <1>2. S \subseteq Nat /\ S # {} /\ Len(arg1) \in S
    BY <1>1, StepTypes
  <1>3. \A y \in S : y >= local1 + 1
    BY <1>1, StepTypes
  <1>4. Reading!LineEnd = Reading!Min(S)
    BY DEF Reading!LineEnd
  <1> HIDE DEF S
  <1>5. Reading!Min(S) \in S /\ Reading!Min(S) <= Len(arg1)
    BY <1>2, ReadingMin
  <1> DEFINE m == Reading!Min(S)
  <1>6. m \in Nat /\ m >= local1 + 1 /\ m <= Len(arg1)
    BY <1>2, <1>3, <1>5
  <1>7. Reading!LineEnd = m
    BY <1>4
  <1> HIDE DEF m
  <1> QED
    BY <1>1, <1>6, <1>7

LEMMA Lines ==
  ASSUME ReadingOK, local1 < Len(arg1)
  PROVE  /\ Reading!Line \in Seq(STRING)
         /\ NulFree(arg1) =>
              Reading!Line = SubSeq(arg1, local1 + 1, Reading!LineEnd)
  <1> DEFINE e == Reading!LineEnd
             nuls == {p \in local1 + 1 .. e : arg1[p] = "NUL"}
             m == Reading!Min(nuls \cup {e + 1})
  <1>1. Len(arg1) \in Nat /\ local1 \in Nat /\ arg1 \in Seq(STRING)
    BY DEF ReadingOK
  <1>2. e \in local1 + 1 .. Len(arg1)
    BY LineEnds
  <1>3. Reading!Line = SubSeq(arg1, local1 + 1, m - 1)
    BY DEF Reading!Line
  <1> HIDE DEF e
  <1>4. nuls \cup {e + 1} \subseteq Nat /\ nuls \cup {e + 1} # {}
    BY <1>1, <1>2
  <1>5. m \in nuls \cup {e + 1}
    BY <1>4, ReadingMin
  <1>6. m \in local1 + 1 .. e + 1
    BY <1>1, <1>2, <1>5
  <1> HIDE DEF m
  <1>7. \A i \in local1 + 1 .. m - 1 : arg1[i] \in STRING
    BY <1>1, <1>2, <1>6
  <1>8. SubSeq(arg1, local1 + 1, m - 1) \in Seq(STRING)
    BY <1>1, <1>2, <1>6, <1>7, SubSeqProperties
  <1>9. NulFree(arg1) => nuls = {}
    BY <1>1, <1>2 DEF NulFree
  <1>10. NulFree(arg1) => m = e + 1
    BY <1>5, <1>9
  <1>11. NulFree(arg1) => m - 1 = e
    BY <1>2, <1>10
  <1> QED
    BY <1>3, <1>8, <1>11 DEF e

(* The first line has text for strlen unless it starts with a NUL. *)
LEMMA FirstLine ==
  ASSUME ReadingOK, local1 = 0, arg1 # <<>>
  PROVE  Reading!Line # <<>> <=> Reading!StartsWithText(arg1)
  <1> DEFINE e == Reading!LineEnd
             nuls == {p \in 1 .. e : arg1[p] = "NUL"}
             m == Reading!Min(nuls \cup {e + 1})
  <1>1. Len(arg1) \in Nat /\ arg1 \in Seq(STRING) /\ Len(arg1) > 0
    BY DEF ReadingOK
  <1>2. e \in 1 .. Len(arg1)
    BY <1>1, LineEnds
  <1>3. Reading!Line = SubSeq(arg1, 1, m - 1)
    BY DEF Reading!Line
  <1> HIDE DEF e
  <1>4. nuls \cup {e + 1} \subseteq Nat /\ nuls \cup {e + 1} # {}
    BY <1>1, <1>2
  <1>5. m \in nuls \cup {e + 1} /\ \A y \in nuls \cup {e + 1} : m <= y
    BY <1>4, ReadingMin
  <1>6. m \in 1 .. e + 1
    BY <1>1, <1>2, <1>5
  <1>7. m = 1 <=> arg1[1] = "NUL"
    <2>1. CASE arg1[1] = "NUL"
      <3>1. 1 \in nuls
        BY <1>2, <2>1
      <3> QED
        BY <1>2, <1>5, <1>6, <2>1, <3>1
    <2>2. CASE arg1[1] # "NUL"
      <3>1. 1 \notin nuls \cup {e + 1}
        BY <1>2, <2>2
      <3> QED
        BY <1>5, <2>2, <3>1
    <2> QED
      BY <2>1, <2>2
  <1> HIDE DEF m
  <1>8. \A i \in 1 .. m - 1 : arg1[i] \in STRING
    BY <1>1, <1>2, <1>6
  <1>9. Len(SubSeq(arg1, 1, m - 1)) = m - 1
    BY <1>1, <1>2, <1>6, <1>8, SubSeqProperties
  <1>10. SubSeq(arg1, 1, m - 1) = <<>> <=> m = 1
    BY <1>6, <1>9, SubSeqEmpty
  <1> QED
    BY <1>3, <1>7, <1>10 DEF Reading!StartsWithText

(* The capacity grows by the fewest steps. *)
LEMMA Growth ==
  ASSUME NEW size \in Nat, local3 \in Nat, size > local3, local3 % Step = 0
  PROVE  /\ Reading!Grown(size) \in Nat /\ Reading!Grown(size) % Step = 0
         /\ size <= Reading!Grown(size) /\ Reading!Grown(size) < size + Step
  <1> DEFINE S == {c \in local3 .. size + Step : (c - local3) % Step = 0 /\ c >= size}
             g == Reading!Min(S)
  <1>1. Reading!Grown(size) = g
    BY DEF Reading!Grown
  <1>2. Step \in Nat \ {0}
    BY StepTypes
  <1>3. \E m \in Nat : m >= size - local3 /\ m <= size - local3 + Step /\ m % Step = 0
    <2> DEFINE a == size - local3
    <2>1. a \in Nat
      OBVIOUS
    <2> HIDE DEF a
    <2>2. \E m \in Nat : m >= a /\ m <= a + Step /\ m % Step = 0
      BY <1>2, <2>1, MultipleBehind
    <2> QED
      BY <2>2 DEF a
  <1> PICK m \in Nat : m >= size - local3 /\ m <= size - local3 + Step /\ m % Step = 0
    BY <1>3
  <1>4. local3 + m \in S
    <2>1. local3 + m \in local3 .. size + Step /\ local3 + m >= size
      BY <1>2
    <2>2. (local3 + m) - local3 = m
      OBVIOUS
    <2> QED
      BY <2>1, <2>2
  <1>5. S \subseteq Nat
    BY <1>2
  <1>6. g \in S /\ \A y \in S : g <= y
    <2> HIDE DEF S
    <2> QED
      BY <1>4, <1>5, ReadingMin
  <1> HIDE DEF g
  <1>7. g \in Nat /\ g >= size /\ g <= size + Step /\ (g - local3) % Step = 0
    BY <1>2, <1>6
  <1>8. g # size + Step
    <2> SUFFICES ASSUME g = size + Step PROVE FALSE
      OBVIOUS
    <2>1. g - local3 \in Nat /\ g - local3 >= Step
      BY <1>2, <1>7
    <2>2. ((g - local3) - Step) % Step = 0
      BY <1>2, <1>7, <2>1, MultipleBefore
    <2>3. (g - Step) - local3 = (g - local3) - Step
      BY <1>2, <1>7
    <2>4. g - Step = size
      BY <1>2
    <2>5. size \in S
      BY <1>2, <2>2, <2>3, <2>4
    <2> QED
      BY <1>2, <1>6, <2>5
  <1>9. g % Step = 0
    <2> DEFINE d == g - local3
    <2>1. d \in Nat /\ d % Step = 0 /\ g = local3 + d
      BY <1>2, <1>7
    <2> HIDE DEF d
    <2> QED
      BY <1>2, <2>1, MultipleSum
  <1> QED
    BY <1>1, <1>2, <1>7, <1>8, <1>9

LEMMA ReadLineStep ==
  ASSUME ReadingOK, Reading!ReadLine
  PROVE  ReadingOK'
  <1>1. /\ pc = "read" /\ pc' = pc /\ local1 < Len(arg1) /\ Reading!Line # <<>>
        /\ arg1' = arg1 /\ local1' = Reading!LineEnd
        /\ local2' = local2 \o Reading!Line
        /\ local3' = IF Reading!Fits(Reading!Line) THEN local3
                     ELSE Reading!Grown(Len(local2) + Len(Reading!Line))
    BY DEF Reading!ReadLine, Reading!Stored
  <1>2. /\ arg1 \in Seq(STRING) /\ local1 \in Nat /\ local1 <= Len(arg1)
        /\ Len(arg1) \in Nat
        /\ local2 \in Seq(STRING) /\ local3 \in Nat
        /\ Len(local2) <= local3 /\ local3 < Len(local2) + Step /\ local3 % Step = 0
    BY DEF ReadingOK
  <1>3. Reading!LineEnd \in local1 + 1 .. Len(arg1)
    BY <1>1, LineEnds
  <1> DEFINE line == Reading!Line
             end == Reading!LineEnd
  <1>4. line \in Seq(STRING) /\ (NulFree(arg1) => line = SubSeq(arg1, local1 + 1, end))
    BY <1>1, Lines
  <1>5. Reading!Fits(line) = (Len(local2) + Len(line) <= local3)
    BY DEF Reading!Fits
  <1> HIDE DEF line, end
  <1>6. Len(line) \in Nat /\ Len(local2) \in Nat
    BY <1>2, <1>4
  <1>7. local2' \in Seq(STRING) /\ Len(local2') = Len(local2) + Len(line)
    BY <1>1, <1>2, <1>4, ConcatProperties DEF line
  <1>8. /\ local3' \in Nat /\ local3' % Step = 0
        /\ Len(local2') <= local3' /\ local3' < Len(local2') + Step
    <2>1. CASE Len(local2) + Len(line) <= local3
      <3>1. local3' = local3
        BY <1>1, <1>5, <2>1 DEF line
      <3> QED
        BY <1>2, <1>6, <1>7, <2>1, <3>1, StepTypes
    <2>2. CASE ~(Len(local2) + Len(line) <= local3)
      <3>1. local3' = Reading!Grown(Len(local2) + Len(line))
        BY <1>1, <1>5, <2>2 DEF line
      <3>2. Len(local2) + Len(line) \in Nat /\ Len(local2) + Len(line) > local3
        BY <1>2, <1>6, <2>2
      <3> QED
        BY <1>2, <1>7, <3>1, <3>2, Growth
    <2> QED
      BY <2>1, <2>2
  <1>9. NulFree(arg1) => local2' = SubSeq(arg1, 1, end)
    <2> SUFFICES ASSUME NulFree(arg1) PROVE local2' = SubSeq(arg1, 1, end)
      OBVIOUS
    <2>1. local2 = SubSeq(arg1, 1, local1) /\ line = SubSeq(arg1, local1 + 1, end)
      BY <1>1, <1>4 DEF ReadingOK
    <2>2. end \in local1 .. Len(arg1) /\ local1 \in 1 - 1 .. Len(arg1)
      BY <1>2, <1>3 DEF end
    <2>3. SubSeq(arg1, 1, local1) \o SubSeq(arg1, local1 + 1, end) = SubSeq(arg1, 1, end)
      BY <1>2, <2>2, ConcatAdjacentSubSeq
    <2> QED
      BY <1>1, <2>1, <2>3 DEF line
  <1>10. local1' \in 0 .. Len(arg1) /\ local1' = end
    BY <1>1, <1>2, <1>3 DEF end
  <1>11. Reading!StartsWithText(arg1)
    <2>1. CASE local3 # 0
      BY <1>1, <2>1 DEF ReadingOK
    <2>2. CASE local3 = 0
      <3>1. local1 = 0 /\ arg1 # <<>>
        BY <1>1, <1>2, <2>2 DEF ReadingOK
      <3> QED
        BY <1>1, <3>1, FirstLine
    <2> QED
      BY <2>1, <2>2
  <1>12. Len(line) # 0
    BY <1>1, <1>4, EmptySeq DEF line
  <1>13. local3' # 0 /\ local1' # 0
    BY <1>2, <1>3, <1>6, <1>7, <1>8, <1>10, <1>12 DEF end
  <1> QED
    BY <1>1, <1>2, <1>7, <1>8, <1>9, <1>10, <1>11, <1>13
    DEF ReadingOK, NulFree, Reading!StartsWithText

LEMMA ReadingStep == ReadingInv /\ [Next]_vars => ReadingInv'
  <1> SUFFICES ASSUME ReadingInv, [Next]_vars PROVE ReadingInv'
    OBVIOUS
  <1>1. CASE function = "prs_readGrammar" /\ Reading!Next
    <2>1. ReadingOK
      BY <1>1 DEF ReadingInv
    <2>2. CASE Reading!ReadLine
      BY <2>1, <2>2, ReadLineStep DEF ReadingInv
    <2>3. CASE Reading!OutOfMemory
      <3>1. /\ arg1' = arg1 /\ local1' = Reading!LineEnd /\ local2' = <<>>
            /\ local3' = 0 /\ pc' = "failed" /\ local1 < Len(arg1)
        BY <2>3 DEF Reading!OutOfMemory
      <3>2. local1' \in 0 .. Len(arg1)
        BY <2>1, <3>1, LineEnds DEF ReadingOK
      <3>3. local2' \in Seq(STRING) /\ Len(local2') = 0
        BY <3>1
      <3> QED
        BY <2>1, <3>1, <3>2, <3>3, StepTypes DEF ReadingInv, ReadingOK
    <2>4. ASSUME NulFree(arg1), Reading!AtEnd PROVE local1 = Len(arg1)
      <3>1. local1 = Len(arg1) \/ Reading!Line = <<>>
        BY <2>4 DEF Reading!AtEnd
      <3>2. arg1 \in Seq(STRING) /\ local1 \in 0 .. Len(arg1) /\ Len(arg1) \in Nat
        BY <2>1 DEF ReadingOK
      <3>3. ASSUME local1 # Len(arg1) PROVE FALSE
        <4>1. local1 < Len(arg1)
          BY <3>2, <3>3
        <4>2. Reading!LineEnd \in local1 + 1 .. Len(arg1)
          BY <2>1, <4>1, LineEnds
        <4>3. <<>> = SubSeq(arg1, local1 + 1, Reading!LineEnd)
          BY <2>1, <2>4, <3>1, <3>3, <4>1, Lines
        <4>4. \A i \in local1 + 1 .. Reading!LineEnd : arg1[i] \in STRING
          BY <3>2, <4>2
        <4> DEFINE line == SubSeq(arg1, local1 + 1, Reading!LineEnd)
        <4>5. Len(line) = Reading!LineEnd - (local1 + 1) + 1
          BY <3>2, <4>2, <4>4, SubSeqProperties
        <4>6. Len(<<>>) = 0
          OBVIOUS
        <4>7. Len(line) = 0
          BY <4>3, <4>6
        <4> HIDE DEF line
        <4> QED
          BY <3>2, <4>2, <4>5, <4>7
      <3> QED
        BY <3>3
    <2>5. CASE Reading!EndOfInput
      <3>1. /\ pc = "read" /\ pc' = "done" /\ arg1' = arg1 /\ local1' = local1
            /\ local2' = local2 /\ local3' = local3 /\ local3 # 0
            /\ local4' = {Len(local2)} /\ Reading!AtEnd
        BY <2>5 DEF Reading!EndOfInput, Reading!AtEnd
      <3> QED
        BY <2>1, <2>4, <3>1 DEF ReadingInv, ReadingOK, NulFree, Reading!StartsWithText
    <2>6. CASE Reading!NullWrite
      <3>1. /\ pc = "read" /\ pc' = "crashed" /\ arg1' = arg1 /\ local1' = local1
            /\ local2' = local2 /\ local3' = local3 /\ local3 = 0
            /\ local1 = Len(arg1) \/ Reading!Line = <<>>
        BY <2>6 DEF Reading!NullWrite, Reading!AtEnd
      <3>2. local1 = 0 /\ arg1 \in Seq(STRING)
        BY <2>1, <3>1 DEF ReadingOK
      <3>3. ~Reading!StartsWithText(arg1)
        <4>1. CASE arg1 = <<>>
          BY <4>1 DEF Reading!StartsWithText
        <4>2. CASE arg1 # <<>>
          <5>1. Len(arg1) # 0
            BY <3>2, <4>2, EmptySeq
          <5> QED
            BY <2>1, <3>1, <3>2, <4>2, <5>1, FirstLine
        <4> QED
          BY <4>1, <4>2
      <3> QED
        BY <2>1, <3>1, <3>3 DEF ReadingInv, ReadingOK, NulFree, Reading!StartsWithText
    <2>7. CASE Reading!Returned
      BY <2>1, <2>7
      DEF Reading!Returned, Reading!vars, ReadingInv, ReadingOK, NulFree,
          Reading!StartsWithText
    <2> QED
      BY <1>1, <2>2, <2>3, <2>5, <2>6, <2>7 DEF Reading!Next
  <1>2. CASE function' = function /\ function # "prs_readGrammar"
    BY <1>2 DEF ReadingInv
  <1>3. CASE UNCHANGED vars
    BY <1>3 DEF vars, ReadingInv, ReadingOK, NulFree, Reading!StartsWithText
  <1> QED
    BY <1>1, <1>2, <1>3
    DEF Next, RunStrings, RunReading, RunRanging, RunMessage, RunEquality

LEMMA InitReadingInv == Init => ReadingInv
  <1> SUFFICES ASSUME Init, function = "prs_readGrammar" PROVE ReadingOK
    BY DEF ReadingInv
  <1>1. arg1 \in Streams /\ local1 = 0 /\ local2 = <<>> /\ local3 = 0 /\ pc = "read"
    BY DEF Init, Reading!Init
  <1>2. arg1 \in Seq(STRING)
    BY <1>1, StepTypes
  <1>3. Len(arg1) \in Nat /\ local2 \in Seq(STRING) /\ Len(local2) = 0
    BY <1>1, <1>2
  <1>4. SubSeq(arg1, 1, 0) = <<>>
    BY SubSeqEmpty
  <1> QED
    BY <1>1, <1>2, <1>3, <1>4, StepTypes DEF ReadingOK

(***************************************************************************)
(* For every stream and every step, what prs_readGrammar stores fits its   *)
(* buffer, which is less than a step larger; the terminator is written     *)
(* outside of it exactly when the step divides what is stored, and through *)
(* NULL exactly when the stream is empty or starts with a NUL              *)
(* (parser.c:154-174).                                                     *)
(***************************************************************************)
THEOREM TerminatorIsPlaced == Spec => []TerminatorPlaced
  <1>1. ReadingInv => TerminatorPlaced
    <2> SUFFICES ASSUME ReadingOK PROVE Reading!TerminatorPlaced
      BY DEF ReadingInv, TerminatorPlaced
    <2> DEFINE n == Len(local2)
    <2>1. n \in Nat /\ local3 \in Nat /\ n <= local3 /\ local3 < n + Step
      BY DEF ReadingOK
    <2>2. n < local3 <=> n % Step # 0
      <3>1. local3 % Step = 0 /\ Step \in Nat \ {0}
        BY StepTypes DEF ReadingOK
      <3> HIDE DEF n
      <3> QED
        BY <2>1, <3>1, MultipleAhead
    <2>3. {n} \subseteq 0 .. local3 - 1 <=> n < local3
      BY <2>1
    <2> QED
      BY <2>1, <2>2, <2>3 DEF ReadingOK, Reading!TerminatorPlaced, Reading!Buffer
  <1> QED
    BY <1>1, InitReadingInv, ReadingStep, PTL DEF Spec

(***************************************************************************)
(* prs_readGrammar returns the whole of a stream without terminators,      *)
(* wherever fgets cuts its lines and whatever the capacity they meet.      *)
(***************************************************************************)
THEOREM ContentIsFile == Spec => []WholeFileRead
  <1>1. ReadingInv => WholeFileRead
    <2> SUFFICES ASSUME ReadingOK, pc = "done", NulFree(arg1) PROVE local2 = arg1
      BY DEF ReadingInv, WholeFileRead, Reading!WholeFileRead, NulFree
    <2>1. local2 = SubSeq(arg1, 1, Len(arg1)) /\ arg1 \in Seq(STRING)
      BY DEF ReadingOK
    <2> QED
      BY <2>1, SubSeqFull
  <1> QED
    BY <1>1, InitReadingInv, ReadingStep, PTL DEF Spec
-----------------------------------------------------------------------------
(* prs_getErrorMessage *)

(* What the text leaves free, and how much of the message is shown. *)
Left == arg3 - 1 - Message!Copied
ItemShown ==
  IF arg2 = 0 \/ Left = 0 THEN 0 ELSE IF arg2 < Left THEN arg2 ELSE Left - 1
Shown == Message!Copied + ItemShown

(* The first bytes of the buffer are the first characters of the message. *)
Shows(length) ==
  \A p \in 0 .. length - 1 : p \in DOMAIN local1 /\ local1[p] = Message!Message(p)

(* The bytes written so far; snprintf ends what it writes. *)
MessageOK ==
  /\ arg1 \in Nat /\ arg2 \in Nat /\ arg3 \in Nat \ {0}
  /\ pc = "copy" => DOMAIN local1 = {} /\ local2 = 0
  /\ pc = "append" =>
       /\ local2 = Message!Copied /\ DOMAIN local1 = 0 .. local2 - 1
       /\ Shows(local2)
  /\ pc = "terminate" =>
       /\ local2 = Message!Copied + arg2
       /\ DOMAIN local1 = IF arg2 = 0 \/ Left = 0 THEN 0 .. Shown - 1 ELSE 0 .. Shown
       /\ Shows(Shown)
       /\ arg2 # 0 /\ Left # 0 => local1[Shown] = Message!NUL
  /\ Message!MessageShown

MessageInv == function = "prs_getErrorMessage" => MessageOK

LEMMA LengthTypes ==
  /\ TextSizes \subseteq Nat /\ ItemSizes \subseteq Nat \ {0}
  /\ BufferSizes \subseteq Nat \ {0}
  BY ArgumentsAssumption DEF Message!LengthsAssumption, Message!CapacitiesAssumption

(* The text is cut where the room for it ends; an item is only appended    *)
(* behind a whole text.                                                    *)
LEMMA CopiedLength ==
  ASSUME arg1 \in Nat, arg3 \in Nat \ {0}
  PROVE  /\ Message!Copied \in Nat /\ Message!Copied < arg3 /\ Message!Copied <= arg1
         /\ Left \in Nat /\ Left = arg3 - 1 - Message!Copied
         /\ Left # 0 => Message!Copied = arg1
         /\ arg1 < arg3 => Message!Copied = arg1
  BY DEF Left, Message!Copied, Message!Room

LEMMA SpareIsLeft == Message!Spare = Left
  BY DEF Message!Spare, Message!Room, Left

LEMMA ShownLength ==
  ASSUME arg1 \in Nat, arg2 \in Nat, arg3 \in Nat \ {0}
  PROVE  /\ ItemShown \in Nat /\ Shown \in Nat /\ Shown = Message!Copied + ItemShown
         /\ arg2 = 0 \/ Left = 0 => Shown = Message!Copied
         /\ arg2 # 0 /\ Left # 0 => Shown < arg3 - 1 /\ Shown <= arg1 + arg2
  BY CopiedLength DEF ItemShown, Shown

LEMMA CharactersAreNotNul == \A p : Message!Message(p) # Message!NUL
  <1>1. "text" # "NUL" /\ "item" # "NUL"
    OBVIOUS
  <1> QED
    BY <1>1 DEF Message!Message, Message!NUL

LEMMA CopyTextStep ==
  ASSUME MessageOK, Message!CopyText
  PROVE  MessageOK'
  <1>1. /\ pc = "copy" /\ pc' = "append" /\ local2' = Message!Copied
        /\ local1' = Message!Write(0, "text", Message!Copied)
        /\ arg1' = arg1 /\ arg2' = arg2 /\ arg3' = arg3
    BY DEF Message!CopyText
  <1>2. /\ arg1 \in Nat /\ arg2 \in Nat /\ arg3 \in Nat \ {0}
        /\ DOMAIN local1 = {}
    BY <1>1 DEF MessageOK
  <1>3. Message!Copied' = Message!Copied
    BY <1>1 DEF Message!Copied, Message!Room
  <1> DEFINE c == Message!Copied
  <1>4. c \in Nat /\ c <= arg1
    BY <1>2, CopiedLength
  <1>5. /\ DOMAIN local1' = 0 .. c - 1
        /\ \A p \in 0 .. c - 1 : local1'[p] = <<"text", p - 0 + 1>>
    <2> HIDE DEF c
    <2>1. local1' = [p \in DOMAIN local1 \cup 0 .. 0 + c - 1 |->
                       IF p \in 0 .. 0 + c - 1 THEN <<"text", p - 0 + 1>> ELSE local1[p]]
      BY <1>1 DEF Message!Write, c
    <2>2. DOMAIN local1 \cup 0 .. 0 + c - 1 = 0 .. c - 1
      BY <1>2, <1>4
    <2>3. 0 .. 0 + c - 1 = 0 .. c - 1
      BY <1>4
    <2> QED
      BY <2>1, <2>2, <2>3
  <1>6. \A p \in 0 .. c - 1 : local1'[p] = Message!Message(p)'
    <2> HIDE DEF c
    <2> SUFFICES ASSUME NEW p \in 0 .. c - 1 PROVE local1'[p] = Message!Message(p)'
      OBVIOUS
    <2>1. p - 0 + 1 = p + 1 /\ p < arg1
      BY <1>2, <1>4
    <2> QED
      BY <1>1, <1>5, <2>1 DEF Message!Message
  <1>7. Shows(local2)'
    BY <1>1, <1>5, <1>6 DEF Shows
  <1> QED
    BY <1>1, <1>2, <1>3, <1>5, <1>7 DEF MessageOK, Message!MessageShown

LEMMA AppendItemStep ==
  ASSUME MessageOK, Message!AppendItem
  PROVE  MessageOK'
  <1>1. /\ pc = "append" /\ pc' = "terminate" /\ arg2 # 0
        /\ local2' = local2 + arg2
        /\ arg1' = arg1 /\ arg2' = arg2 /\ arg3' = arg3
    BY DEF Message!AppendItem
  <1>2. /\ arg1 \in Nat /\ arg2 \in Nat /\ arg3 \in Nat \ {0}
        /\ local2 = Message!Copied /\ DOMAIN local1 = 0 .. local2 - 1
        /\ Shows(local2)
    BY <1>1 DEF MessageOK
  <1>3. Message!Copied' = Message!Copied /\ Left' = Left /\ Shown' = Shown
    BY <1>1 DEF Message!Copied, Message!Room, Left, Shown, ItemShown
  <1>4. Message!Remaining = Left
    BY <1>2 DEF Message!Remaining, Message!Room, Left
  <1> DEFINE c == Message!Copied
  <1>5. /\ c \in Nat /\ Left \in Nat /\ c <= arg1 /\ (Left # 0 => c = arg1)
        /\ Shown \in Nat /\ Shown = c + ItemShown /\ ItemShown \in Nat
    BY <1>2, CopiedLength, ShownLength
  <1>6. \A p : Message!Message(p)' = Message!Message(p)
    BY <1>1 DEF Message!Message
  <1> HIDE DEF c
  <1>7. CASE Left = 0
    <2>1. local1' = local1 /\ Shown = c
      BY <1>1, <1>2, <1>4, <1>7, ShownLength DEF Message!AppendItem, c
    <2>2. Shows(Shown)'
      BY <1>2, <1>3, <1>6, <2>1 DEF Shows, c
    <2> QED
      BY <1>1, <1>2, <1>3, <1>7, <2>1, <2>2 DEF MessageOK, Message!MessageShown, c
  <1>8. CASE Left # 0
    <2> DEFINE w == Message!Write(local2, "item", ItemShown)
    <2>1. ItemShown = IF arg2 < Message!Remaining THEN arg2 ELSE Message!Remaining - 1
      BY <1>1, <1>4, <1>8 DEF ItemShown
    <2>2. local1' = Message!WriteNUL(w, local2 + ItemShown)
      BY <1>4, <1>8, <2>1 DEF Message!AppendItem, Message!CurrentPos
    <2>3. local2 + ItemShown = Shown
      BY <1>2, <1>5 DEF c
    <2>4. w = [p \in DOMAIN local1 \cup c .. c + ItemShown - 1 |->
                 IF p \in c .. c + ItemShown - 1 THEN <<"item", p - c + 1>> ELSE local1[p]]
      BY <1>2 DEF Message!Write, c
    <2>5. DOMAIN w = 0 .. Shown - 1
      <3>1. DOMAIN local1 \cup c .. c + ItemShown - 1 = 0 .. Shown - 1
        BY <1>2, <1>5 DEF c
      <3> QED
        BY <2>4, <3>1
    <2> HIDE DEF w
    <2>6. ASSUME NEW p \in 0 .. Shown - 1 PROVE w[p] = Message!Message(p)
      <3>1. CASE p < c
        <4>1. p \in 0 .. local2 - 1 /\ p \notin c .. c + ItemShown - 1
          BY <1>2, <1>5, <3>1 DEF c
        <4>2. w[p] = local1[p]
          BY <2>4, <2>5, <4>1
        <4> QED
          BY <1>2, <4>1, <4>2 DEF Shows
      <3>2. CASE p >= c
        <4>1. p \in c .. c + ItemShown - 1 /\ ~(p < arg1) /\ c = arg1
          BY <1>2, <1>5, <1>8, <3>2
        <4>2. w[p] = <<"item", p - c + 1>>
          BY <2>4, <2>5, <4>1
        <4> QED
          BY <4>1, <4>2 DEF Message!Message
      <3> QED
        BY <1>5, <3>1, <3>2
    <2>7. local1' = [q \in 0 .. Shown |-> IF q = Shown THEN Message!NUL ELSE w[q]]
      <3>1. DOMAIN w \cup {Shown} = 0 .. Shown
        BY <1>5, <2>5
      <3> QED
        BY <2>2, <2>3, <3>1 DEF Message!WriteNUL
    <2>8. DOMAIN local1' = 0 .. Shown /\ local1'[Shown] = Message!NUL
      BY <1>5, <2>7
    <2>9. \A p \in 0 .. Shown - 1 : p \in DOMAIN local1' /\ local1'[p] = Message!Message(p)
      BY <1>5, <2>6, <2>7
    <2>10. Shows(Shown)'
      BY <1>3, <1>6, <2>9 DEF Shows
    <2> QED
      BY <1>1, <1>2, <1>3, <1>8, <2>8, <2>10 DEF MessageOK, Message!MessageShown
  <1> QED
    BY <1>7, <1>8

LEMMA NoItemStep ==
  ASSUME MessageOK, Message!NoItem
  PROVE  MessageOK'
  <1>1. /\ pc = "append" /\ pc' = "terminate" /\ arg2 = 0
        /\ local2' = local2 /\ local1' = local1
        /\ arg1' = arg1 /\ arg2' = arg2 /\ arg3' = arg3
    BY DEF Message!NoItem
  <1>2. /\ arg1 \in Nat /\ arg2 \in Nat /\ arg3 \in Nat \ {0}
        /\ local2 = Message!Copied /\ DOMAIN local1 = 0 .. local2 - 1
        /\ Shows(local2)
    BY <1>1 DEF MessageOK
  <1>3. Message!Copied' = Message!Copied /\ Left' = Left /\ Shown' = Shown
    BY <1>1 DEF Message!Copied, Message!Room, Left, Shown, ItemShown
  <1>4. Shown = local2 /\ local2 \in Nat
    BY <1>1, <1>2, ShownLength, CopiedLength
  <1>5. Shows(Shown)'
    BY <1>1, <1>2, <1>3, <1>4 DEF Shows, Message!Message
  <1>6. local2' = Message!Copied' + arg2'
    BY <1>1, <1>2, <1>3, <1>4
  <1> QED
    BY <1>1, <1>2, <1>3, <1>4, <1>5, <1>6 DEF MessageOK, Message!MessageShown

(* Where the bytes in front of the terminator end. *)
LEMMA WrittenLength ==
  ASSUME MessageOK, pc = "terminate"
  PROVE  /\ Shown \in Nat /\ local2 \in Nat /\ Shown <= local2
         /\ arg2 = 0 => local2 = Shown /\ Shown < arg3
         /\ arg2 # 0 /\ Left = 0 => local2 >= arg3
         /\ arg2 # 0 /\ Left # 0 => Shown < arg3
         /\ arg2 # 0 /\ arg2 < Left => local2 = Shown
         /\ arg2 >= Left /\ Left # 0 => Shown = arg3 - 2 /\ Shown < local2
         /\ IF arg2 <= Left THEN local2 < arg3 ELSE local2 >= arg3
         /\ arg1 + arg2 + (IF arg2 = 0 THEN 0 ELSE 1) < arg3 => local2 = arg1 + arg2
  <1> DEFINE c == Message!Copied
  <1>1. /\ arg1 \in Nat /\ arg2 \in Nat /\ arg3 \in Nat \ {0}
        /\ local2 = c + arg2
    BY DEF MessageOK
  <1>2. /\ c \in Nat /\ c < arg3 /\ c <= arg1
        /\ Left \in Nat /\ Left = arg3 - 1 - c
        /\ Left # 0 => c = arg1
        /\ arg1 < arg3 => c = arg1
    BY <1>1, CopiedLength
  <1>3. Shown = c + ItemShown
    BY DEF Shown
  <1>4. ItemShown = IF arg2 = 0 \/ Left = 0 THEN 0
                    ELSE IF arg2 < Left THEN arg2 ELSE Left - 1
    BY DEF ItemShown
  <1> HIDE DEF c
  <1>5. CASE arg2 = 0
    BY <1>1, <1>2, <1>3, <1>4, <1>5
  <1>6. CASE arg2 # 0 /\ Left = 0
    BY <1>1, <1>2, <1>3, <1>4, <1>6
  <1>7. CASE arg2 # 0 /\ Left # 0
    BY <1>1, <1>2, <1>3, <1>4, <1>7
  <1> QED
    BY <1>5, <1>6, <1>7

LEMMA TerminateStep ==
  ASSUME MessageOK, Message!Terminate
  PROVE  MessageOK'
  <1>1. /\ pc = "terminate" /\ pc' = "done" /\ local2' = local2
        /\ local1' = Message!WriteNUL(local1, local2)
        /\ arg1' = arg1 /\ arg2' = arg2 /\ arg3' = arg3
    BY DEF Message!Terminate
  <1>2. /\ arg1 \in Nat /\ arg2 \in Nat /\ arg3 \in Nat \ {0}
        /\ DOMAIN local1 = IF arg2 = 0 \/ Left = 0 THEN 0 .. Shown - 1 ELSE 0 .. Shown
        /\ Shows(Shown)
        /\ arg2 # 0 /\ Left # 0 => local1[Shown] = Message!NUL
    BY <1>1 DEF MessageOK
  <1>3. /\ Shown \in Nat /\ local2 \in Nat /\ Shown <= local2
        /\ arg2 = 0 => local2 = Shown /\ Shown < arg3
        /\ arg2 # 0 /\ Left = 0 => local2 >= arg3
        /\ arg2 # 0 /\ Left # 0 => Shown < arg3
        /\ arg2 # 0 /\ arg2 < Left => local2 = Shown
        /\ arg2 >= Left /\ Left # 0 => Shown = arg3 - 2 /\ Shown < local2
        /\ IF arg2 <= Left THEN local2 < arg3 ELSE local2 >= arg3
        /\ arg1 + arg2 + (IF arg2 = 0 THEN 0 ELSE 1) < arg3 => local2 = arg1 + arg2
        /\ Left \in Nat
    BY <1>1, <1>2, WrittenLength, CopiedLength
  <1> DEFINE s == Shown
  <1>4. /\ DOMAIN local1' = DOMAIN local1 \cup {local2}
        /\ local1'[local2] = Message!NUL
        /\ \A q \in DOMAIN local1 : q # local2 => local1'[q] = local1[q]
    BY <1>1 DEF Message!WriteNUL
  <1> HIDE DEF s
  <1>5. \A p \in 0 .. s - 1 : p \in DOMAIN local1' /\ local1'[p] = Message!Message(p)
    BY <1>2, <1>3, <1>4 DEF Shows, s
  <1>6. /\ \A p \in DOMAIN local1' : p \in 0 .. s - 1 \/ p = s \/ p = local2
        /\ s \in Nat
    BY <1>2, <1>3, <1>4 DEF s
  <1>7. \A p \in 0 .. s - 1 : local1'[p] # Message!NUL
    BY <1>5, CharactersAreNotNul
  <1> DEFINE nuls == {p \in DOMAIN local1' \cap 0 .. arg3 - 1 : local1'[p] = Message!NUL}
  <1>8. Message!Nuls' = nuls
    BY <1>1 DEF Message!Nuls, Message!Inside, Message!NUL
  <1>9. \A p \in nuls : p = s \/ p = local2
    BY <1>6, <1>7
  <1>10. nuls \subseteq Nat
    BY <1>2
  <1>11. \A p \in nuls : p < arg3
    BY <1>2
  <1>12. arg2 # 0 /\ Left # 0 => s \in nuls
    <2> SUFFICES ASSUME arg2 # 0, Left # 0 PROVE s \in nuls
      OBVIOUS
    <2>1. s \in DOMAIN local1 /\ local1[s] = Message!NUL
      BY <1>2, <1>3 DEF s
    <2>2. s \in DOMAIN local1' /\ local1'[s] = Message!NUL
      BY <1>4, <2>1
    <2>3. s \in 0 .. arg3 - 1
      BY <1>2, <1>3 DEF s
    <2> QED
      BY <2>2, <2>3
  <1>13. local2 \in 0 .. arg3 - 1 => local2 \in nuls
    BY <1>4
  <1> HIDE DEF nuls
  <1>14. nuls = {} <=> arg2 # 0 /\ Left = 0
    <2>1. CASE arg2 = 0
      <3>1. local2 \in 0 .. arg3 - 1
        BY <1>2, <1>3, <2>1
      <3> QED
        BY <1>13, <2>1, <3>1
    <2>2. CASE arg2 # 0 /\ Left # 0
      BY <1>12, <2>2
    <2>3. CASE arg2 # 0 /\ Left = 0
      <3>1. ASSUME NEW p \in nuls PROVE FALSE
        <4>1. p < arg3 /\ p \in Nat /\ local2 >= arg3
          BY <1>3, <1>10, <1>11, <2>3, <3>1
        <4>2. p = s /\ p # local2
          BY <1>2, <1>3, <1>9, <3>1, <4>1
        <4>3. s \in DOMAIN local1
          BY <1>4, <3>1, <4>2 DEF nuls
        <4> QED
          BY <1>2, <1>6, <2>3, <4>3 DEF s
      <3> QED
        BY <2>3, <3>1
    <2> QED
      BY <2>1, <2>2, <2>3
  <1>15. ASSUME NEW end \in nuls, \A q \in nuls : end <= q
         PROVE  /\ end = IF arg2 = 0 \/ arg2 < Left THEN local2 ELSE arg3 - 2
                /\ end = s
    <2>1. end \in Nat /\ (end = s \/ end = local2)
      BY <1>9, <1>10
    <2>2. CASE arg2 = 0 \/ arg2 < Left
      BY <1>3, <2>1, <2>2 DEF s
    <2>3. CASE arg2 # 0 /\ arg2 >= Left
      <3>1. Left # 0
        BY <1>14, <1>15, <2>3
      <3>2. end <= s
        BY <1>12, <1>15, <2>3, <3>1
      <3>3. s = arg3 - 2 /\ s < local2
        BY <1>3, <2>3, <3>1 DEF s
      <3> QED
        BY <1>2, <1>3, <1>6, <2>1, <2>3, <3>2, <3>3
    <2> QED
      BY <1>2, <1>3, <2>2, <2>3
  <1>16. DOMAIN local1' \ (0 .. arg3 - 1) = IF arg2 <= Left THEN {} ELSE {local2}
    <2>1. \A p \in DOMAIN local1 : p \in 0 .. arg3 - 1
      <3>1. arg2 = 0 \/ Left = 0 => Shown < arg3
        BY <1>2, CopiedLength, ShownLength
      <3> QED
        BY <1>2, <1>3, <3>1
    <2>2. local2 \in 0 .. arg3 - 1 <=> arg2 <= Left
      BY <1>2, <1>3
    <2> QED
      BY <1>4, <2>1, <2>2
  <1>17. Message!MessageShown'
    <2>1. \A p : Message!Message(p)' = Message!Message(p)
      BY <1>1 DEF Message!Message
    <2>2. Message!Spare' = Left /\ Message!Room' - 1 = arg3 - 2
      BY <1>1, <1>2, SpareIsLeft DEF Message!Spare, Message!Room, Message!Copied
    <2>3. Message!Inside' = 0 .. arg3 - 1
      BY <1>1 DEF Message!Inside
    <2>4. \A end \in nuls : (\A q \in nuls : end <= q) =>
            /\ \A p \in 0 .. end - 1 :
                 p \in DOMAIN local1' /\ local1'[p] = Message!Message(p)
            /\ end = IF arg2' = 0 \/ arg2' < Left THEN local2' ELSE arg3 - 2
      <3> SUFFICES ASSUME NEW end \in nuls, \A q \in nuls : end <= q
                   PROVE  /\ \A p \in 0 .. end - 1 :
                               p \in DOMAIN local1' /\ local1'[p] = Message!Message(p)
                          /\ end = IF arg2' = 0 \/ arg2' < Left THEN local2' ELSE arg3 - 2
        OBVIOUS
      <3>1. end = s /\ end = IF arg2 = 0 \/ arg2 < Left THEN local2 ELSE arg3 - 2
        BY <1>15
      <3> QED
        BY <1>1, <1>5, <3>1
    <2>5. /\ DOMAIN local1' \ Message!Inside' = IF arg2' <= Left THEN {} ELSE {local2'}
          /\ nuls = {} <=> arg2' # 0 /\ Left = 0
          /\ arg1' + arg2' + (IF arg2' = 0 THEN 0 ELSE 1) < arg3' =>
               local2' = arg1' + arg2'
      BY <1>1, <1>3, <1>14, <1>16, <2>3
    <2> QED
      BY <1>8, <2>1, <2>2, <2>4, <2>5 DEF Message!MessageShown, Message!Ends
  <1> QED
    BY <1>1, <1>2, <1>17 DEF MessageOK

LEMMA MessageStep == MessageInv /\ [Next]_vars => MessageInv'
  <1> SUFFICES ASSUME MessageInv, [Next]_vars PROVE MessageInv'
    OBVIOUS
  <1>1. ASSUME MessageOK, UNCHANGED <<arg1, arg2, arg3, local1, local2, pc>> PROVE MessageOK'
    BY <1>1 DEF MessageOK, Shows, Shown, ItemShown, Left, Message!MessageShown,
                Message!Message, Message!Copied, Message!Room, Message!Nuls,
                Message!Ends, Message!Inside, Message!Spare
  <1>2. CASE function = "prs_getErrorMessage" /\ Message!Next
    <2>1. MessageOK
      BY <1>2 DEF MessageInv
    <2>2. CASE Message!Returned
      BY <1>1, <2>1, <2>2 DEF Message!Returned, Message!vars, MessageInv
    <2> QED
      BY <1>2, <2>1, <2>2, CopyTextStep, AppendItemStep, NoItemStep, TerminateStep
      DEF Message!Next, MessageInv
  <1>3. CASE function' = function /\ function # "prs_getErrorMessage"
    BY <1>3 DEF MessageInv
  <1>4. CASE UNCHANGED vars
    BY <1>1, <1>4 DEF vars, MessageInv
  <1> QED
    BY <1>2, <1>3, <1>4
    DEF Next, RunStrings, RunReading, RunRanging, RunMessage, RunEquality

LEMMA InitMessageInv == Init => MessageInv
  <1> SUFFICES ASSUME Init, function = "prs_getErrorMessage" PROVE MessageOK
    BY DEF MessageInv
  <1>1. /\ arg1 \in TextSizes /\ arg2 \in ItemSizes \cup {0} /\ arg3 \in BufferSizes
        /\ DOMAIN local1 = {} /\ local2 = 0 /\ pc = "copy"
    BY DEF Init, Message!Init
  <1> QED
    BY <1>1, LengthTypes DEF MessageOK, Message!MessageShown

(***************************************************************************)
(* For all lengths of the text, the item and the buffer: the terminator of *)
(* prs_getErrorMessage is the only byte written outside of the buffer, and *)
(* it is for an item longer than what the text leaves; there is no NUL in  *)
(* the buffer exactly when the text leaves nothing and there is an item;   *)
(* and what is in front of the first NUL is the beginning of the message,  *)
(* of the length returned exactly when there is no item or there is a byte *)
(* left behind it (parser_errors.c:47-69).                                 *)
(***************************************************************************)
THEOREM MessageIsShown == Spec => []MessageShown
  <1>1. MessageInv => MessageShown
    BY DEF MessageInv, MessageOK, MessageShown
  <1> QED
    BY <1>1, InitMessageInv, MessageStep, PTL DEF Spec
-----------------------------------------------------------------------------
(* prs_extractRanges *)

Kept == Cardinality(Ranging!Solid(Ranging!Text))
Patterns(n) == \A k \in 0 .. n - 1 : Ranging!Pattern(3 * k + 1)

(* Pattern n + 1 is the first that fails, and c says why. *)
FailsAt(n, c) ==
  LET x == Ranging!Text[3 * n + 1]
      y == Ranging!Text[3 * n + 3]
  IN  /\ Patterns(n) /\ 3 * n + 3 <= Len(Ranging!Text) /\ ~Ranging!Pattern(3 * n + 1)
      /\ c = "PRS_INVALID_RANGE_PATTERN" <=>
           ~(Ranging!Text[3 * n + 2] = Ranging!Dash /\ Ranging!IsPattern(x, y))
      /\ c = "PRS_INVALID_RANGE" => x > y
      /\ c = "PRS_INVALID_CHAR_RANGE" => x \in Ranging!Upper /\ y \in Ranging!Lower
      /\ c = Ranging!CodeAt(Ranging!Text, n)

ErrorCodes == {"PRS_INVALID_RANGE_PATTERN", "PRS_INVALID_RANGE", "PRS_INVALID_CHAR_RANGE"}

(***************************************************************************)
(* The ranges so far are those of the patterns at the start of the text,   *)
(* which has three characters other than blanks for each range to come     *)
(* and each there is.                                                      *)
(***************************************************************************)
RangingOK ==
  /\ arg1 \in Seq(Nat) /\ Len(arg1) <= MaxBlock
  /\ pc = "start" => local2 = <<>> /\ local4 = <<>> /\ local5 = {}
  /\ pc = "ranges" =>
       /\ Ranging!Length \in 1 .. MaxBlock
       /\ local3 \in Nat \ {0} /\ Kept = 3 * local3
       /\ \E n \in 0 .. local3 : /\ Len(local2) = n /\ Patterns(n)
                                 /\ local2 = Ranging!Covered(n)
       /\ local4 = <<>> /\ local5 = {"buffer", "ranges"}
  /\ pc = "done" /\ local1 = "PRS_OK" =>
       /\ Ranging!Length \in 0 .. MaxBlock
       /\ \E n \in Nat : /\ Len(local4) = n /\ Ranging!PatternsThenBlanks(n)
                        /\ local4 = Ranging!Covered(n)
  /\ pc = "done" /\ local1 # "PRS_OK" =>
       /\ \A n \in Nat : ~Ranging!PatternsThenBlanks(n)
       /\ Ranging!Length \in 1 .. MaxBlock
       /\ Ranging!IsSolid(Ranging!Text) /\ Len(Ranging!Text) % 3 # 0 =>
            local1 = "PRS_INVALID_RANGE_PATTERN"
       /\ Ranging!IsSolid(Ranging!Text) /\ Len(Ranging!Text) % 3 = 0 =>
            \E n \in Nat, c \in ErrorCodes : local1 = c /\ FailsAt(n, c)
  /\ Ranging!BlocksOwned

RangingInv == function = "prs_extractRanges" => RangingOK

LEMMA SizeTypes ==
  /\ SizeValues \in Nat /\ MaxBlock \in 1 .. SizeValues - 2
  /\ \A i \in RangeTexts : i \in Seq(Nat) /\ Len(i) <= MaxBlock
  BY ArgumentsAssumption DEF Ranging!SizeAssumption

LEMMA SmallMod ==
  ASSUME NEW n \in Nat \ {0}, NEW a \in 0 .. n - 1
  PROVE  a % n = a
  OBVIOUS

LEMMA WrappedMod ==
  ASSUME NEW n \in Nat \ {0}
  PROVE  (0 - 1) % n = n - 1
  <1> DEFINE k == (0 - 1) \div n
             r == (0 - 1) % n
  <1>1. k \in Int /\ r \in 0 .. n - 1 /\ 0 - 1 = k * n + r
    OBVIOUS
  <1> HIDE DEF k, r
  <1>2. k < 0
    <2>1. k * n = -1 - r
      BY <1>1
    <2> QED
      BY <1>1, <2>1
  <1>3. k + 1 \in Int /\ k + 1 <= 0 /\ (k + 1) * n = k * n + n
    BY <1>1, <1>2
  <1>4. (k + 1) * n <= 0
    BY <1>3
  <1> QED
    BY <1>1, <1>3, <1>4 DEF r

(* A length that can be allocated lies in the text: that of an empty item  *)
(* wraps to more than any block.                                           *)
LEMMA TextLength ==
  ASSUME RangingOK, Ranging!Length \in 0 .. MaxBlock
  PROVE  /\ Ranging!Length \in 0 .. Len(arg1) /\ Len(arg1) \in Nat
         /\ Ranging!Text \in Seq(Nat) /\ Len(Ranging!Text) = Ranging!Length
         /\ DOMAIN Ranging!Text = 1 .. Ranging!Length
         /\ \A p \in 1 .. Ranging!Length : Ranging!Text[p] = arg1[p] /\ Ranging!At(p) = arg1[p]
  <1>1. arg1 \in Seq(Nat) /\ Len(arg1) \in Nat /\ Len(arg1) <= MaxBlock
    BY DEF RangingOK
  <1> DEFINE length == Ranging!Length
  <1>2. length \in 0 .. Len(arg1)
    <2>1. CASE ~arg2
      <3>1. length = Len(arg1)
        BY <2>1 DEF Ranging!Length
      <3> QED
        BY <1>1, <3>1
    <2>2. CASE arg2 /\ Len(arg1) = 0
      <3>1. length = (0 - 1) % SizeValues
        BY <2>2 DEF Ranging!Length
      <3>2. SizeValues \in Nat \ {0}
        BY SizeTypes
      <3>3. length = SizeValues - 1
        BY <3>1, <3>2, WrappedMod
      <3> QED
        BY <3>3, SizeTypes
    <2>3. CASE arg2 /\ Len(arg1) # 0
      <3>1. Len(arg1) - 1 \in 0 .. SizeValues - 1
        BY <1>1, <2>3, SizeTypes
      <3>3. SizeValues \in Nat \ {0}
        BY SizeTypes
      <3>2. (Len(arg1) - 1) % SizeValues = Len(arg1) - 1
        BY <3>1, <3>3, SmallMod
      <3> QED
        BY <1>1, <2>3, <3>1, <3>2 DEF Ranging!Length
    <2> QED
      BY <2>1, <2>2, <2>3
  <1>3. Ranging!Text = SubSeq(arg1, 1, length)
    BY DEF Ranging!Text
  <1> HIDE DEF length
  <1>4. \A i \in 1 .. length : arg1[i] \in Nat
    BY <1>1, <1>2
  <1> DEFINE text == SubSeq(arg1, 1, length)
  <1>5. /\ text \in Seq(Nat) /\ Len(text) = IF 1 <= length THEN length - 1 + 1 ELSE 0
        /\ \A i \in 1 .. length - 1 + 1 : text[i] = arg1[1 + i - 1]
    BY <1>1, <1>2, <1>4, SubSeqProperties
  <1> HIDE DEF text
  <1>6. Len(text) = length /\ length - 1 + 1 = length
    BY <1>1, <1>2, <1>5
  <1>7. DOMAIN text = 1 .. length
    BY <1>5, <1>6
  <1>8. \A p \in 1 .. length : text[p] = arg1[p] /\ Ranging!At(p) = arg1[p]
    <2> SUFFICES ASSUME NEW p \in 1 .. length
                 PROVE  text[p] = arg1[p] /\ Ranging!At(p) = arg1[p]
      OBVIOUS
    <2>1. 1 + p - 1 = p /\ p \in 1 .. length - 1 + 1 /\ p \in DOMAIN arg1
      BY <1>1, <1>2, <1>6
    <2> QED
      BY <1>5, <2>1 DEF Ranging!At
  <1> QED
    BY <1>1, <1>2, <1>3, <1>5, <1>6, <1>7, <1>8 DEF length, text

LEMMA CountedLengths ==
  ASSUME RangingOK, Ranging!Length \in 0 .. MaxBlock
  PROVE  /\ IsFiniteSet(Ranging!Solid(Ranging!Text))
         /\ Kept \in 0 .. Ranging!Length
         /\ Kept = 0 => Ranging!Solid(Ranging!Text) = {}
         /\ Ranging!IsSolid(Ranging!Text) => Kept = Len(Ranging!Text)
  <1> DEFINE solid == Ranging!Solid(Ranging!Text)
             length == Ranging!Length
  <1>1. length \in Nat /\ DOMAIN Ranging!Text = 1 .. length /\ Len(Ranging!Text) = length
    BY TextLength
  <1>2. solid \subseteq 1 .. length
    BY <1>1 DEF Ranging!Solid
  <1>3. Kept = Cardinality(solid)
    BY DEF Kept
  <1>4. Ranging!IsSolid(Ranging!Text) => solid = 1 .. length
    BY <1>1 DEF Ranging!IsSolid
  <1> HIDE DEF solid, length
  <1>5. IsFiniteSet(1 .. length) /\ Cardinality(1 .. length) = length
    BY <1>1, FS_Interval
  <1>6. IsFiniteSet(solid) /\ Cardinality(solid) <= length
    BY <1>2, <1>5, FS_Subset
  <1>7. Cardinality(solid) \in Nat /\ (Cardinality(solid) = 0 <=> solid = {})
    BY <1>6, FS_CardinalityType, FS_EmptySet
  <1> QED
    BY <1>1, <1>3, <1>4, <1>5, <1>6, <1>7 DEF solid, length

(* A position is one of the three of a pattern. *)
LEMMA PatternPositions ==
  ASSUME NEW n \in Nat, NEW p \in 1 .. 3 * n
  PROVE  \E k \in 0 .. n - 1 : p = 3 * k + 1 \/ p = 3 * k + 2 \/ p = 3 * k + 3
  <1> DEFINE k == (p - 1) \div 3
  <1>1. k \in Nat /\ p - 1 = 3 * k + ((p - 1) % 3) /\ ((p - 1) % 3) \in 0 .. 2
    OBVIOUS
  <1>2. k \in 0 .. n - 1
    BY <1>1
  <1>3. p = 3 * k + 1 \/ p = 3 * k + 2 \/ p = 3 * k + 3
    BY <1>1
  <1> QED
    BY <1>2, <1>3

(* No character of a pattern is left out. *)
LEMMA PatternsSolid ==
  ASSUME RangingOK, Ranging!Length \in 0 .. MaxBlock, NEW n \in Nat, Patterns(n)
  PROVE  1 .. 3 * n \subseteq Ranging!Solid(Ranging!Text)
  <1>1. /\ Ranging!Length \in Nat /\ DOMAIN Ranging!Text = 1 .. Ranging!Length
        /\ Len(Ranging!Text) = Ranging!Length
    BY TextLength
  <1> SUFFICES ASSUME NEW p \in 1 .. 3 * n PROVE p \in Ranging!Solid(Ranging!Text)
    OBVIOUS
  <1>2. PICK k \in 0 .. n - 1 : p = 3 * k + 1 \/ p = 3 * k + 2 \/ p = 3 * k + 3
    BY PatternPositions
  <1> DEFINE q == 3 * k + 1
  <1>3. Ranging!Pattern(q)
    BY DEF Patterns
  <1>4. q \in Nat /\ q >= 1 /\ (p = q \/ p = q + 1 \/ p = q + 2)
    BY <1>2
  <1> HIDE DEF q
  <1>5. /\ q + 2 <= Ranging!Length /\ Ranging!Text[q + 1] = 45
        /\ Ranging!Text[q] \in (48 .. 57) \cup (65 .. 90) \cup (97 .. 122)
        /\ Ranging!Text[q + 2] \in (48 .. 57) \cup (65 .. 90) \cup (97 .. 122)
    <2>1. /\ q + 2 <= Len(Ranging!Text) /\ Ranging!Text[q + 1] = 45
          /\ Ranging!Alike(Ranging!Text[q], Ranging!Text[q + 2])
      BY <1>3 DEF Ranging!Pattern, Ranging!Dash
    <2>2. ASSUME NEW x, NEW y, Ranging!Alike(x, y)
          PROVE  /\ x \in (48 .. 57) \cup (65 .. 90) \cup (97 .. 122)
                 /\ y \in (48 .. 57) \cup (65 .. 90) \cup (97 .. 122)
      BY <2>2 DEF Ranging!Alike, Ranging!Digits, Ranging!Upper, Ranging!Lower
    <2> QED
      BY <1>1, <2>1, <2>2
  <1>6. p \in 1 .. Ranging!Length
    BY <1>1, <1>4, <1>5
  <1>7. \A c \in (48 .. 57) \cup (65 .. 90) \cup (97 .. 122) \cup {45} :
          c \notin {32} \cup 9 .. 13
    OBVIOUS
  <1>8. Ranging!Text[p] \notin {32} \cup 9 .. 13
    BY <1>4, <1>5, <1>7
  <1> QED
    BY <1>1, <1>6, <1>8 DEF Ranging!Solid, Ranging!Blanks

(* A text of n patterns and blanks has three times n characters to count. *)
LEMMA PatternsCounted ==
  ASSUME RangingOK, Ranging!Length \in 0 .. MaxBlock, NEW n \in Nat,
         Ranging!PatternsThenBlanks(n)
  PROVE  Kept = 3 * n
  <1>1. /\ Ranging!Length \in Nat /\ DOMAIN Ranging!Text = 1 .. Ranging!Length
        /\ Len(Ranging!Text) = Ranging!Length
    BY TextLength
  <1>2. Patterns(n) /\ \A p \in 3 * n + 1 .. Ranging!Length : Ranging!Text[p] \in Ranging!Blanks
    BY <1>1 DEF Ranging!PatternsThenBlanks, Patterns
  <1>3. 1 .. 3 * n \subseteq Ranging!Solid(Ranging!Text)
    BY <1>2, PatternsSolid
  <1>4. ASSUME NEW p \in Ranging!Solid(Ranging!Text) PROVE p \in 1 .. 3 * n
    <2>1. p \in 1 .. Ranging!Length /\ Ranging!Text[p] \notin Ranging!Blanks
      BY <1>1 DEF Ranging!Solid
    <2>2. p \notin 3 * n + 1 .. Ranging!Length
      BY <1>2, <2>1
    <2> QED
      BY <1>1, <2>1, <2>2
  <1>5. Ranging!Solid(Ranging!Text) = 1 .. 3 * n
    BY <1>3, <1>4
  <1>6. 3 * n \in Nat
    OBVIOUS
  <1>7. Cardinality(1 .. 3 * n) = 3 * n
    BY <1>6, FS_Interval
  <1> QED
    BY <1>5, <1>7 DEF Kept

(* And the other way round: what the patterns leave are blanks. *)
LEMMA RestIsBlank ==
  ASSUME RangingOK, Ranging!Length \in 0 .. MaxBlock, NEW n \in Nat, Patterns(n),
         Kept = 3 * n
  PROVE  Ranging!PatternsThenBlanks(n)
  <1> DEFINE solid == Ranging!Solid(Ranging!Text)
  <1>1. /\ Ranging!Length \in Nat /\ DOMAIN Ranging!Text = 1 .. Ranging!Length
        /\ Len(Ranging!Text) = Ranging!Length
    BY TextLength
  <1>2. 3 * n \in Nat /\ 1 .. 3 * n \subseteq solid
    BY PatternsSolid
  <1>3. IsFiniteSet(solid) /\ Cardinality(solid) = 3 * n
    BY CountedLengths DEF Kept
  <1> HIDE DEF solid
  <1>4. Cardinality(1 .. 3 * n) = 3 * n
    BY <1>2, FS_Interval
  <1>5. solid = 1 .. 3 * n
    BY <1>2, <1>3, <1>4, FS_Subset
  <1>6. ASSUME NEW p \in 3 * n + 1 .. Len(Ranging!Text) PROVE Ranging!Text[p] \in Ranging!Blanks
    <2>1. p \notin solid /\ p \in DOMAIN Ranging!Text
      BY <1>1, <1>2, <1>5
    <2> QED
      BY <2>1 DEF solid, Ranging!Solid
  <1> QED
    BY <1>6 DEF Ranging!PatternsThenBlanks, Patterns

(* The classes of characters. *)
LEMMA CharacterClasses ==
  ASSUME NEW x \in Nat, NEW y \in Nat
  PROVE  /\ Ranging!IsPattern(x, y) <=>
              \/ x \in 48 .. 57 /\ y \in 48 .. 57
              \/ /\ x \in (65 .. 90) \cup (97 .. 122)
                 /\ y \in (65 .. 90) \cup (97 .. 122)
         /\ Ranging!Alike(x, y) <=>
              \/ x \in 48 .. 57 /\ y \in 48 .. 57
              \/ x \in 65 .. 90 /\ y \in 65 .. 90
              \/ x \in 97 .. 122 /\ y \in 97 .. 122
         /\ Ranging!IsUppercase(x, y) <=> x \in 65 .. 90 /\ y \in 65 .. 90
  <1>1. Ranging!Alike(x, y) <=>
          \/ x \in 48 .. 57 /\ y \in 48 .. 57
          \/ x \in 65 .. 90 /\ y \in 65 .. 90
          \/ x \in 97 .. 122 /\ y \in 97 .. 122
    BY DEF Ranging!Alike, Ranging!Digits, Ranging!Upper, Ranging!Lower
  <1> QED
    BY <1>1 DEF Ranging!IsPattern, Ranging!IsUppercase, Ranging!Letters, Ranging!Digits,
                Ranging!Upper, Ranging!Lower

(* The code of the bounds of a range, lowered as prs_extractRange does. *)
LEMMA BoundCodes ==
  ASSUME NEW x \in Nat, NEW y \in Nat, Ranging!IsPattern(x, y),
         NEW c, c = LET u == Ranging!IsUppercase(x, y) IN
                    Ranging!RangeError(Ranging!Bound(x, u), Ranging!Bound(y, u))
  PROVE  /\ c \in {"PRS_OK", "PRS_INVALID_RANGE", "PRS_INVALID_CHAR_RANGE"}
         /\ c = "PRS_OK" <=> Ranging!Alike(x, y) /\ x <= y
         /\ c = "PRS_INVALID_RANGE" => x > y
         /\ c = "PRS_INVALID_CHAR_RANGE" => x \in Ranging!Upper /\ y \in Ranging!Lower
  <1>1. \A a, b \in Nat :
          Ranging!RangeError(a, b) =
            IF a > b THEN "PRS_INVALID_RANGE"
            ELSE IF a \notin Ranging!Allowed(a) \/ b \notin Ranging!Allowed(a)
                 THEN "PRS_INVALID_CHAR_RANGE" ELSE "PRS_OK"
    BY DEF Ranging!RangeError
  <1>2. \A a : Ranging!Allowed(a) = IF a \in 48 .. 57 THEN 48 .. 57 ELSE 97 .. 122
    BY DEF Ranging!Allowed, Ranging!Digits, Ranging!Lower
  <1>3. CASE Ranging!IsUppercase(x, y)
    <2>1. x \in 65 .. 90 /\ y \in 65 .. 90
      BY <1>3, CharacterClasses
    <2>2. c = Ranging!RangeError(x + 32, y + 32)
      BY <1>3 DEF Ranging!Bound
    <2>3. x + 32 \in 97 .. 122 /\ y + 32 \in 97 .. 122 /\ x + 32 \notin 48 .. 57
      BY <2>1
    <2>4. c = IF x + 32 > y + 32 THEN "PRS_INVALID_RANGE" ELSE "PRS_OK"
      BY <1>1, <1>2, <2>2, <2>3
    <2>5. Ranging!Alike(x, y)
      BY <2>1, CharacterClasses
    <2> QED
      BY <2>1, <2>4, <2>5
  <1>4. CASE ~Ranging!IsUppercase(x, y)
    <2>1. c = Ranging!RangeError(x, y)
      BY <1>4 DEF Ranging!Bound
    <2>2. c = IF x > y THEN "PRS_INVALID_RANGE"
              ELSE IF x \notin Ranging!Allowed(x) \/ y \notin Ranging!Allowed(x)
                   THEN "PRS_INVALID_CHAR_RANGE" ELSE "PRS_OK"
      BY <1>1, <2>1
    <2>3. CASE x \in 48 .. 57
      <3>1. y \in 48 .. 57 /\ Ranging!Alike(x, y)
        BY <2>3, CharacterClasses
      <3> QED
        BY <1>2, <2>2, <2>3, <3>1
    <2>4. CASE x \in 97 .. 122
      <3>1. y \in 65 .. 90 \/ y \in 97 .. 122
        BY <2>4, CharacterClasses
      <3>2. Ranging!Alike(x, y) <=> y \in 97 .. 122
        BY <2>4, <3>1, CharacterClasses
      <3> QED
        BY <1>2, <2>2, <2>4, <3>1, <3>2
    <2>5. CASE x \in 65 .. 90
      <3>1. y \in 97 .. 122 /\ ~Ranging!Alike(x, y)
        BY <1>4, <2>5, CharacterClasses
      <3>2. x \notin Ranging!Allowed(x)
        BY <1>2, <2>5
      <3> QED
        BY <2>2, <2>5, <3>1, <3>2 DEF Ranging!Upper, Ranging!Lower
    <2> QED
      BY <2>3, <2>4, <2>5, CharacterClasses
  <1> QED
    BY <1>3, <1>4

(* What prs_extractRange finds at the next pattern. *)
LEMMA ExtractedRange ==
  ASSUME RangingOK, Ranging!Length \in 1 .. MaxBlock,
         NEW n \in Nat, 3 * n + 3 <= Ranging!Length,
         NEW result, result = Ranging!RangeAt(3 * n + 1)
  PROVE  /\ result.code = "PRS_OK" =>
              /\ Ranging!Pattern(3 * n + 1)
              /\ result.range = [uppercaseLetter |-> Ranging!Text[3 * n + 3] \in Ranging!Upper,
                                 start |-> Ranging!Lowered(Ranging!Text[3 * n + 1]),
                                 end |-> Ranging!Lowered(Ranging!Text[3 * n + 3]) + 1]
         /\ result.code # "PRS_OK" =>
              \E c \in ErrorCodes : result.code = c /\ (Patterns(n) => FailsAt(n, c))
         /\ Ranging!CodeAt(Ranging!Text, n) = result.code
         /\ Ranging!Pattern(3 * n + 1) => result.code = "PRS_OK"
  <1> DEFINE p == 3 * n + 1
             x == Ranging!Text[p]
             y == Ranging!Text[p + 2]
             u == Ranging!IsUppercase(x, y)
  <1>1. /\ Ranging!Text \in Seq(Nat) /\ Len(Ranging!Text) = Ranging!Length
        /\ DOMAIN Ranging!Text = 1 .. Ranging!Length
        /\ \A i \in 1 .. Ranging!Length : Ranging!At(i) = arg1[i] /\ Ranging!Text[i] = arg1[i]
    BY TextLength
  <1>2. /\ p \in 1 .. Ranging!Length /\ p + 1 \in 1 .. Ranging!Length
        /\ p + 2 \in 1 .. Ranging!Length /\ p + 2 = 3 * n + 3 /\ p + 1 = 3 * n + 2
    OBVIOUS
  <1>3. x \in Nat /\ y \in Nat
    BY <1>1, <1>2
  <1>4. Ranging!At(p) = x /\ Ranging!At(p + 2) = y /\ Ranging!At(p + 1) = Ranging!Text[p + 1]
    BY <1>1, <1>2
  <1> HIDE DEF p
  <1>5. Ranging!Pattern(p) <=> Ranging!Text[p + 1] = Ranging!Dash /\ Ranging!Alike(x, y) /\ x <= y
    BY <1>1, <1>2 DEF Ranging!Pattern
  <1>6. result = Ranging!RangeAt(p)
    BY DEF p
  <1>9. Ranging!CodeAt(Ranging!Text, n) = result.code
    BY <1>2, <1>4, <1>6 DEF Ranging!RangeAt, Ranging!CodeAt, p
  <1>7. CASE Ranging!IsPattern(x, y) /\ Ranging!Text[p + 1] = Ranging!Dash
    <2>1. result = [code |-> Ranging!RangeError(Ranging!Bound(x, u), Ranging!Bound(y, u)),
                    range |-> [uppercaseLetter |-> u, start |-> Ranging!Bound(x, u),
                               end |-> Ranging!Bound(y, u) + 1]]
      BY <1>4, <1>6, <1>7 DEF Ranging!RangeAt, Ranging!ExtractRange
    <2>2. /\ result.code = Ranging!RangeError(Ranging!Bound(x, u), Ranging!Bound(y, u))
          /\ result.range = [uppercaseLetter |-> u, start |-> Ranging!Bound(x, u),
                             end |-> Ranging!Bound(y, u) + 1]
      BY <2>1
    <2> HIDE DEF x, y, u
    <2>3. PICK c : c = Ranging!RangeError(Ranging!Bound(x, u), Ranging!Bound(y, u))
      OBVIOUS
    <2>4. /\ c \in {"PRS_OK", "PRS_INVALID_RANGE", "PRS_INVALID_CHAR_RANGE"}
          /\ c = "PRS_OK" <=> Ranging!Alike(x, y) /\ x <= y
          /\ c = "PRS_INVALID_RANGE" => x > y
          /\ c = "PRS_INVALID_CHAR_RANGE" => x \in Ranging!Upper /\ y \in Ranging!Lower
      <3>1. c = LET v == Ranging!IsUppercase(x, y) IN
                Ranging!RangeError(Ranging!Bound(x, v), Ranging!Bound(y, v))
        BY <2>3 DEF u
      <3> QED
        BY <1>3, <1>7, <3>1, BoundCodes
    <2>5. ASSUME c = "PRS_OK"
          PROVE  u = (y \in Ranging!Upper) /\ Ranging!Bound(x, u) = Ranging!Lowered(x)
                 /\ Ranging!Bound(y, u) = Ranging!Lowered(y)
      <3>1. u <=> x \in 65 .. 90 /\ y \in 65 .. 90
        BY <1>3, CharacterClasses DEF u
      <3>2. \/ x \in 48 .. 57 /\ y \in 48 .. 57
            \/ x \in 65 .. 90 /\ y \in 65 .. 90
            \/ x \in 97 .. 122 /\ y \in 97 .. 122
        BY <1>3, <2>4, <2>5, CharacterClasses
      <3>3. u \in BOOLEAN
        BY DEF u, Ranging!IsUppercase
      <3>4. (u <=> x \in 65 .. 90) /\ (u <=> y \in 65 .. 90)
        BY <3>1, <3>2
      <3> QED
        BY <3>3, <3>4 DEF Ranging!Bound, Ranging!Lowered, Ranging!Upper
    <2>6. ASSUME c = "PRS_OK"
          PROVE  /\ Ranging!Pattern(p)
                 /\ result.range = [uppercaseLetter |-> y \in Ranging!Upper,
                                    start |-> Ranging!Lowered(x),
                                    end |-> Ranging!Lowered(y) + 1]
      BY <1>5, <1>7, <2>2, <2>4, <2>5, <2>6
    <2>7. ASSUME c # "PRS_OK" 
          PROVE  c \in ErrorCodes /\ ~Ranging!Pattern(p) /\ (Patterns(n) => FailsAt(n, c))
      <3>1. ~Ranging!Pattern(p)
        BY <1>5, <2>4, <2>7
      <3>2. c \in ErrorCodes /\ c # "PRS_INVALID_RANGE_PATTERN"
        BY <2>4, <2>7 DEF ErrorCodes
      <3> QED
        BY <1>1, <1>2, <1>7, <1>9, <2>2, <2>3, <2>4, <3>1, <3>2 DEF FailsAt, p, x, y
    <2> QED
      BY <1>2, <1>9, <2>2, <2>3, <2>6, <2>7 DEF p, x, y
  <1>8. CASE ~(Ranging!IsPattern(x, y) /\ Ranging!Text[p + 1] = Ranging!Dash)
    <2>1. result = [code |-> "PRS_INVALID_RANGE_PATTERN"]
      BY <1>4, <1>6, <1>8 DEF Ranging!RangeAt, Ranging!ExtractRange
    <2>2. result.code = "PRS_INVALID_RANGE_PATTERN"
      BY <2>1
    <2>3. Ranging!Alike(x, y) => Ranging!IsPattern(x, y)
      <3> HIDE DEF x, y
      <3> QED
        BY <1>3, CharacterClasses
    <2>4. ~Ranging!Pattern(p)
      BY <1>5, <1>8, <2>3
    <2>5. Patterns(n) => FailsAt(n, "PRS_INVALID_RANGE_PATTERN")
      BY <1>1, <1>2, <1>8, <1>9, <2>2, <2>4 DEF FailsAt, p
    <2> QED
      BY <1>9, <2>2, <2>4, <2>5 DEF ErrorCodes, p
  <1> QED
    BY <1>7, <1>8

(* The text is not changed, and with it nothing that is said of it. *)
LEMMA TextFixed ==
  ASSUME UNCHANGED <<arg1, arg2>>
  PROVE  /\ Ranging!Length' = Ranging!Length /\ Ranging!Text' = Ranging!Text
         /\ Kept' = Kept
         /\ Ranging!Solid(Ranging!Text)' = Ranging!Solid(Ranging!Text)
         /\ Ranging!IsSolid(Ranging!Text)' = Ranging!IsSolid(Ranging!Text)
         /\ \A n \in Nat : /\ Patterns(n)' = Patterns(n)
                          /\ Ranging!PatternsThenBlanks(n)' = Ranging!PatternsThenBlanks(n)
                          /\ Ranging!Covered(n)' = Ranging!Covered(n)
         /\ \A n \in Nat, c \in ErrorCodes : FailsAt(n, c)' = FailsAt(n, c)
  <1>1. Ranging!Length' = Ranging!Length
    BY DEF Ranging!Length
  <1>2. Ranging!Text' = Ranging!Text
    BY <1>1 DEF Ranging!Text
  <1>3. Ranging!Solid(Ranging!Text)' = Ranging!Solid(Ranging!Text)
    BY <1>2 DEF Ranging!Solid
  <1>4. Kept' = Kept
    BY <1>3 DEF Kept
  <1>5. Ranging!IsSolid(Ranging!Text)' = Ranging!IsSolid(Ranging!Text)
    BY <1>2 DEF Ranging!IsSolid, Ranging!Solid
  <1>6. \A p : Ranging!Pattern(p)' = Ranging!Pattern(p)
    BY <1>2 DEF Ranging!Pattern
  <1>7. \A n \in Nat : Patterns(n)' = Patterns(n)
    BY <1>6 DEF Patterns
  <1>8. \A n \in Nat : Ranging!PatternsThenBlanks(n)' = Ranging!PatternsThenBlanks(n)
    BY <1>2, <1>6 DEF Ranging!PatternsThenBlanks
  <1>9. \A n \in Nat : Ranging!Covered(n)' = Ranging!Covered(n)
    BY <1>2 DEF Ranging!Covered
  <1>10. \A n \in Nat, c \in ErrorCodes : FailsAt(n, c)' = FailsAt(n, c)
    BY <1>2, <1>6, <1>7 DEF FailsAt
  <1> QED
    BY <1>1, <1>2, <1>3, <1>4, <1>5, <1>7, <1>8, <1>9, <1>10

LEMMA CoveredLength ==
  ASSUME NEW n \in Nat
  PROVE  DOMAIN Ranging!Covered(n) = 1 .. n /\ Ranging!Covered(0) = <<>>
  BY DEF Ranging!Covered

LEMMA NoTextStep ==
  ASSUME RangingOK, Ranging!NoText PROVE RangingOK'
  <1>1. /\ pc = "start" /\ Ranging!Length = 0 /\ local1' = "PRS_OK" /\ pc' = "done"
        /\ arg1' = arg1 /\ arg2' = arg2 /\ local4' = local4 /\ local5' = local5
    BY DEF Ranging!NoText, Ranging!Return
  <1>2. local4 = <<>> /\ local5 = {} /\ arg1 \in Seq(Nat) /\ Len(arg1) <= MaxBlock
    BY <1>1 DEF RangingOK
  <1>3. 0 \in 0 .. MaxBlock
    BY SizeTypes
  <1>4. Len(Ranging!Text) = 0
    BY <1>1, <1>3, TextLength
  <1>5. Ranging!PatternsThenBlanks(0)
    BY <1>4 DEF Ranging!PatternsThenBlanks
  <1>6. Ranging!PatternsThenBlanks(0)' /\ Ranging!Covered(0)' = <<>>
    BY <1>1, <1>5, TextFixed, CoveredLength
  <1>7. Len(local4') = 0 /\ 0 \in Nat
    BY <1>1, <1>2
  <1>8. Ranging!BlocksOwned'
    BY <1>1, <1>2 DEF Ranging!BlocksOwned
  <1>9. Ranging!Length' \in 0 .. MaxBlock
    BY <1>1, <1>3, TextFixed
  <1> QED
    BY <1>1, <1>2, <1>6, <1>7, <1>8, <1>9 DEF RangingOK

LEMMA SameCardinality == \A S : Ranging!Cardinality(S) = Cardinality(S)
  BY DEF Ranging!Cardinality, Cardinality

LEMMA CountRangesStep ==
  ASSUME RangingOK, Ranging!CountRanges PROVE RangingOK'
  <1>1. /\ pc = "start" /\ Ranging!Length \in 1 .. MaxBlock
        /\ arg1' = arg1 /\ arg2' = arg2 /\ local2' = local2 /\ local4' = local4
        /\ \/ /\ Kept = 0 /\ local5' = {"buffer"} /\ local1' = "PRS_OK" /\ pc' = "done"
           \/ /\ Kept % 3 # 0 /\ local1' = "PRS_INVALID_RANGE_PATTERN" /\ pc' = "done"
              /\ local5' = local5
           \/ /\ Kept # 0 /\ Kept % 3 = 0 /\ local3' = Kept \div 3
              /\ local5' = {"buffer", "ranges"} /\ pc' = "ranges"
    <2>1. Kept = Cardinality(Ranging!Solid(SubSeq(arg1, 1, Ranging!Length)))
      BY DEF Kept, Ranging!Text
    <2>2. PICK length : length = Cardinality(Ranging!Solid(SubSeq(arg1, 1, Ranging!Length)))
      OBVIOUS
    <2>3. /\ pc = "start" /\ Ranging!Length \in 1 .. MaxBlock
          /\ arg1' = arg1 /\ arg2' = arg2 /\ local2' = local2 /\ local4' = local4
      BY DEF Ranging!CountRanges
    <2>4. \/ /\ length = 0 /\ local5' = {"buffer"} /\ local1' = "PRS_OK" /\ pc' = "done"
          \/ /\ length % 3 # 0 /\ local1' = "PRS_INVALID_RANGE_PATTERN" /\ pc' = "done"
             /\ local5' = local5
          \/ /\ length # 0 /\ length % 3 = 0 /\ local3' = length \div 3
             /\ local5' = {"buffer", "ranges"} /\ pc' = "ranges"
      <3>1. length = Ranging!Cardinality(Ranging!Solid(SubSeq(arg1, 1, Ranging!Length)))
        BY <2>2, SameCardinality
      <3> QED
        BY <3>1 DEF Ranging!CountRanges, Ranging!Return
    <2> QED
      BY <2>1, <2>2, <2>3, <2>4
  <1>2. /\ arg1 \in Seq(Nat) /\ Len(arg1) <= MaxBlock
        /\ local2 = <<>> /\ local4 = <<>> /\ local5 = {}
    BY <1>1 DEF RangingOK
  <1>3. /\ Ranging!Length \in 0 .. MaxBlock /\ Ranging!Length' \in 1 .. MaxBlock
        /\ Ranging!Length' \in 0 .. MaxBlock
    BY <1>1, TextFixed
  <1>4. /\ Kept \in Nat
        /\ Kept = 0 => Ranging!Solid(Ranging!Text) = {}
        /\ Ranging!IsSolid(Ranging!Text) => Kept = Len(Ranging!Text)
    BY <1>3, CountedLengths
  <1>5. Patterns(0)
    BY DEF Patterns
  <1>6. Patterns(0)' /\ Ranging!Covered(0)' = <<>> /\ Kept' = Kept
    BY <1>1, <1>5, TextFixed, CoveredLength
  <1>7. Len(local2') = 0 /\ Len(local4') = 0 /\ 0 \in Nat
    BY <1>1, <1>2
  <1>8. CASE Kept = 0 /\ local5' = {"buffer"} /\ local1' = "PRS_OK" /\ pc' = "done"
    <2>1. Kept = 3 * 0
      BY <1>8
    <2>2. Ranging!PatternsThenBlanks(0)
      BY <1>3, <1>5, <1>7, <2>1, RestIsBlank
    <2>3. Ranging!PatternsThenBlanks(0)'
      BY <1>1, <1>7, <2>2, TextFixed
    <2>4. Ranging!Solid(Ranging!Text)' = {}
      BY <1>1, <1>4, <1>8, TextFixed
    <2>5. Ranging!BlocksOwned'
      BY <2>4 DEF Ranging!BlocksOwned
    <2> QED
      BY <1>1, <1>2, <1>3, <1>6, <1>7, <1>8, <2>3, <2>5 DEF RangingOK
  <1>9. CASE /\ Kept % 3 # 0 /\ local1' = "PRS_INVALID_RANGE_PATTERN" /\ pc' = "done"
             /\ local5' = local5
    <2>1. ASSUME NEW n \in Nat PROVE ~Ranging!PatternsThenBlanks(n)
      <3>1. SUFFICES ASSUME Ranging!PatternsThenBlanks(n) PROVE FALSE
        OBVIOUS
      <3>2. Kept = 3 * n
        BY <1>3, <3>1, PatternsCounted
      <3>3. Kept = n * 3 /\ 3 \in Nat \ {0}
        BY <3>2
      <3> QED
        BY <1>9, <3>3, MultipleMod
    <2>2. \A n \in Nat : ~Ranging!PatternsThenBlanks(n)'
      BY <1>1, <2>1, TextFixed
    <2>3. ~(Ranging!IsSolid(Ranging!Text) /\ Len(Ranging!Text) % 3 = 0)
      BY <1>4, <1>9
    <2>4. ~(Ranging!IsSolid(Ranging!Text)' /\ Len(Ranging!Text') % 3 = 0)
      BY <1>1, <2>3, TextFixed
    <2>5. Ranging!BlocksOwned'
      BY <1>1, <1>2, <1>9 DEF Ranging!BlocksOwned
    <2> QED
      BY <1>1, <1>2, <1>3, <1>9, <2>2, <2>4, <2>5 DEF RangingOK
  <1>10. CASE /\ Kept # 0 /\ Kept % 3 = 0 /\ local3' = Kept \div 3
              /\ local5' = {"buffer", "ranges"} /\ pc' = "ranges"
    <2>1. PICK k : k = Kept \div 3
      OBVIOUS
    <2>2. k \in Nat \ {0} /\ Kept = 3 * k
      BY <1>4, <1>10, <2>1
    <2>3. local3' \in Nat \ {0} /\ Kept' = 3 * local3' /\ 0 \in 0 .. local3'
      BY <1>6, <1>10, <2>1, <2>2
    <2>4. \E n \in 0 .. local3' : /\ Len(local2') = n /\ Patterns(n)'
                                 /\ local2' = Ranging!Covered(n)'
      BY <1>1, <1>2, <1>6, <1>7, <2>3
    <2>5. Ranging!BlocksOwned'
      BY <1>10 DEF Ranging!BlocksOwned
    <2> QED
      BY <1>1, <1>2, <1>3, <1>10, <2>3, <2>4, <2>5 DEF RangingOK
  <1> QED
    BY <1>1, <1>8, <1>9, <1>10

LEMMA NextRangeStep ==
  ASSUME RangingOK, Ranging!NextRange PROVE RangingOK'
  <1>1. /\ pc = "ranges" /\ Len(local2) < local3
        /\ arg1' = arg1 /\ arg2' = arg2 /\ local3' = local3 /\ local4' = local4
    BY DEF Ranging!NextRange
  <1>2. PICK n \in 0 .. local3 : /\ Len(local2) = n /\ Patterns(n)
                                /\ local2 = Ranging!Covered(n)
    BY <1>1 DEF RangingOK
  <1>3. /\ arg1 \in Seq(Nat) /\ Len(arg1) <= MaxBlock
        /\ Ranging!Length \in 1 .. MaxBlock /\ Ranging!Length \in 0 .. MaxBlock
        /\ local3 \in Nat \ {0} /\ Kept = 3 * local3 /\ n \in Nat /\ n < local3
        /\ local4 = <<>> /\ local5 = {"buffer", "ranges"}
    BY <1>1, <1>2 DEF RangingOK
  <1>4. /\ Kept \in 0 .. Ranging!Length /\ Ranging!Length \in Nat
        /\ Ranging!Text \in Seq(Nat) /\ Len(Ranging!Text) = Ranging!Length
    BY <1>3, CountedLengths, TextLength
  <1>5. 3 * n + 3 <= Ranging!Length
    BY <1>3, <1>4
  <1>6. PICK result : result = Ranging!RangeAt(3 * n + 1)
    OBVIOUS
  <1>7. /\ result.code = "PRS_OK" =>
             /\ Ranging!Pattern(3 * n + 1)
             /\ result.range = [uppercaseLetter |-> Ranging!Text[3 * n + 3] \in Ranging!Upper,
                                start |-> Ranging!Lowered(Ranging!Text[3 * n + 1]),
                                end |-> Ranging!Lowered(Ranging!Text[3 * n + 3]) + 1]
        /\ result.code # "PRS_OK" =>
             \E c \in ErrorCodes : result.code = c /\ FailsAt(n, c)
    BY <1>2, <1>3, <1>5, <1>6, ExtractedRange
  <1>8. \/ /\ result.code = "PRS_OK" /\ local2' = Append(local2, result.range)
           /\ pc' = pc /\ local1' = local1 /\ local5' = local5
        \/ /\ result.code # "PRS_OK" /\ local5' = {} /\ local1' = result.code
           /\ pc' = "done"
    <2>1. result = Ranging!RangeAt(3 * Len(local2) + 1)
      BY <1>2, <1>6
    <2>2. Ranging!FreeBoth = {}
      BY <1>3 DEF Ranging!FreeBoth
    <2> QED
      BY <2>1, <2>2 DEF Ranging!NextRange, Ranging!Return
  <1>9. CASE /\ result.code = "PRS_OK" /\ local2' = Append(local2, result.range)
             /\ pc' = pc /\ local1' = local1 /\ local5' = local5
    <2>1. n + 1 \in Nat /\ n + 1 \in 0 .. local3
      BY <1>3
    <2>2. Patterns(n + 1)
      <3>1. ASSUME NEW k \in 0 .. n PROVE Ranging!Pattern(3 * k + 1)
        <4>1. CASE k = n
          BY <1>7, <1>9, <4>1
        <4>2. CASE k \in 0 .. n - 1
          BY <1>2, <4>2 DEF Patterns
        <4> QED
          BY <1>3, <4>1, <4>2
      <3>2. (n + 1) - 1 = n
        BY <1>3
      <3> QED
        BY <3>1, <3>2 DEF Patterns
    <2>3. local2' = Ranging!Covered(n + 1)
      <3> DEFINE covered == Ranging!Covered(n + 1)
                 entry(k) == [uppercaseLetter |-> Ranging!Text[3 * k] \in Ranging!Upper,
                              start |-> Ranging!Lowered(Ranging!Text[3 * k - 2]),
                              end |-> Ranging!Lowered(Ranging!Text[3 * k]) + 1]
      <3>1. covered = [k \in 1 .. n + 1 |-> entry(k)]
        BY DEF Ranging!Covered
      <3>2. local2 = [k \in 1 .. n |-> entry(k)]
        BY <1>2 DEF Ranging!Covered
      <3>3. result.range = entry(n + 1)
        <4>1. 3 * (n + 1) = 3 * n + 3 /\ 3 * (n + 1) - 2 = 3 * n + 1
          BY <1>3
        <4> QED
          BY <1>7, <1>9, <4>1
      <3> HIDE DEF entry, covered
      <3>4. Append(local2, result.range) = [k \in 1 .. n + 1 |-> entry(k)]
        BY <1>2, <1>3, <3>2, <3>3
      <3> QED
        BY <1>9, <3>1, <3>4 DEF covered
    <2>4. Len(local2') = n + 1
      <3>1. DOMAIN Ranging!Covered(n + 1) = 1 .. n + 1
        BY <2>1, CoveredLength
      <3>2. local2' = [k \in 1 .. n + 1 |-> local2'[k]]
        BY <2>3, <3>1 DEF Ranging!Covered
      <3> QED
        BY <2>1, <2>3, <3>1, <3>2
    <2>5. \E m \in 0 .. local3' : /\ Len(local2') = m /\ Patterns(m)'
                                 /\ local2' = Ranging!Covered(m)'
      <3>1. PICK m \in Nat : m = n + 1
        BY <2>1
      <3>2. Patterns(m)' /\ local2' = Ranging!Covered(m)'
        BY <1>1, <2>2, <2>3, <3>1, TextFixed
      <3> QED
        BY <1>1, <2>1, <2>4, <3>1, <3>2
    <2>6. Ranging!Length' \in 1 .. MaxBlock /\ Kept' = Kept
      BY <1>1, <1>3, TextFixed
    <2>7. Ranging!BlocksOwned'
      BY <1>1, <1>9 DEF Ranging!BlocksOwned
    <2> QED
      BY <1>1, <1>3, <1>9, <2>5, <2>6, <2>7 DEF RangingOK
  <1>10. CASE /\ result.code # "PRS_OK" /\ local5' = {} /\ local1' = result.code
              /\ pc' = "done"
    <2>1. PICK c \in ErrorCodes : result.code = c /\ FailsAt(n, c)
      BY <1>7, <1>10
    <2>2. ASSUME NEW m \in Nat PROVE ~Ranging!PatternsThenBlanks(m)
      <3> SUFFICES ASSUME Ranging!PatternsThenBlanks(m) PROVE FALSE
        OBVIOUS
      <3>1. Kept = 3 * m
        BY <1>3, PatternsCounted
      <3>2. n \in 0 .. m - 1
        BY <1>3, <3>1
      <3>3. Ranging!Pattern(3 * n + 1)
        BY <3>2 DEF Ranging!PatternsThenBlanks
      <3> QED
        BY <2>1, <3>3 DEF FailsAt
    <2>3. \A m \in Nat : ~Ranging!PatternsThenBlanks(m)'
      BY <1>1, <2>2, TextFixed
    <2>4. FailsAt(n, c)' /\ Ranging!Length' \in 1 .. MaxBlock
      BY <1>1, <1>3, <2>1, TextFixed
    <2>5. \E m \in Nat, d \in ErrorCodes : local1' = d /\ FailsAt(m, d)'
      BY <1>3, <1>10, <2>1, <2>4
    <2>6. local1' # "PRS_OK"
      BY <1>10
    <2>7. Ranging!BlocksOwned'
      BY <1>1, <1>3, <1>10 DEF Ranging!BlocksOwned
    <2>8. Ranging!IsSolid(Ranging!Text)' => Len(Ranging!Text') % 3 = 0
      <3>1. Kept = local3 * 3 /\ 3 \in Nat \ {0}
        BY <1>3
      <3>2. Kept % 3 = 0
        BY <1>3, <3>1, MultipleMod
      <3>3. Ranging!IsSolid(Ranging!Text) => Kept = Len(Ranging!Text)
        BY <1>3, CountedLengths
      <3>4. Ranging!IsSolid(Ranging!Text) => Len(Ranging!Text) % 3 = 0
        BY <3>2, <3>3
      <3> QED
        BY <1>1, <3>4, TextFixed
    <2> QED
      BY <1>1, <1>3, <1>10, <2>3, <2>4, <2>5, <2>6, <2>7, <2>8 DEF RangingOK
  <1> QED
    BY <1>8, <1>9, <1>10

LEMMA StoreRangesStep ==
  ASSUME RangingOK, Ranging!StoreRanges PROVE RangingOK'
  <1>1. /\ pc = "ranges" /\ Len(local2) = local3
        /\ arg1' = arg1 /\ arg2' = arg2 /\ local4' = local2 /\ local1' = "PRS_OK"
        /\ pc' = "done" /\ local5' = local5 \ {"buffer"}
    BY DEF Ranging!StoreRanges, Ranging!Return
  <1>2. PICK n \in 0 .. local3 : /\ Len(local2) = n /\ Patterns(n)
                                /\ local2 = Ranging!Covered(n)
    BY <1>1 DEF RangingOK
  <1>3. /\ arg1 \in Seq(Nat) /\ Len(arg1) <= MaxBlock
        /\ Ranging!Length \in 0 .. MaxBlock
        /\ n \in Nat /\ n # 0 /\ Kept = 3 * n /\ local5 = {"buffer", "ranges"}
    BY <1>1, <1>2 DEF RangingOK
  <1>4. Ranging!PatternsThenBlanks(n)
    BY <1>2, <1>3, RestIsBlank
  <1>5. Ranging!PatternsThenBlanks(n)' /\ local4' = Ranging!Covered(n)'
    BY <1>1, <1>2, <1>3, <1>4, TextFixed
  <1>6. Len(local4') = n /\ local4' # <<>>
    BY <1>1, <1>2, <1>3
  <1>7. local5' = {"ranges"}
    BY <1>1, <1>3
  <1>8. Ranging!BlocksOwned'
    BY <1>6, <1>7 DEF Ranging!BlocksOwned
  <1>9. Ranging!Length' \in 0 .. MaxBlock
    BY <1>1, <1>3, TextFixed
  <1> QED
    BY <1>1, <1>3, <1>5, <1>6, <1>8, <1>9 DEF RangingOK

LEMMA RangingStutters ==
  ASSUME RangingOK, UNCHANGED <<arg1, arg2, pc, local1, local2, local3, local4, local5>>
  PROVE  RangingOK'
  <1>1. /\ arg1 \in Seq(Nat) /\ Len(arg1) <= MaxBlock
        /\ pc = "start" => local2 = <<>> /\ local4 = <<>> /\ local5 = {}
    BY DEF RangingOK
  <1>2. pc = "ranges" =>
          /\ Ranging!Length' \in 1 .. MaxBlock
          /\ local3 \in Nat \ {0} /\ Kept' = 3 * local3
          /\ \E n \in 0 .. local3 : /\ Len(local2) = n /\ Patterns(n)'
                                    /\ local2 = Ranging!Covered(n)'
          /\ local4 = <<>> /\ local5 = {"buffer", "ranges"}
    BY TextFixed DEF RangingOK
  <1>3. pc = "done" /\ local1 = "PRS_OK" =>
          /\ Ranging!Length' \in 0 .. MaxBlock
          /\ \E n \in Nat : /\ Len(local4) = n /\ Ranging!PatternsThenBlanks(n)'
                           /\ local4 = Ranging!Covered(n)'
    BY TextFixed DEF RangingOK
  <1>4. pc = "done" /\ local1 # "PRS_OK" =>
          /\ \A n \in Nat : ~Ranging!PatternsThenBlanks(n)'
          /\ Ranging!Length' \in 1 .. MaxBlock
          /\ Ranging!IsSolid(Ranging!Text)' /\ Len(Ranging!Text') % 3 # 0 =>
               local1 = "PRS_INVALID_RANGE_PATTERN"
          /\ Ranging!IsSolid(Ranging!Text)' /\ Len(Ranging!Text') % 3 = 0 =>
               \E n \in Nat, c \in ErrorCodes : local1 = c /\ FailsAt(n, c)'
    BY TextFixed DEF RangingOK
  <1>5. Ranging!BlocksOwned'
    BY TextFixed DEF RangingOK, Ranging!BlocksOwned
  <1> QED
    BY <1>1, <1>2, <1>3, <1>4, <1>5 DEF RangingOK

LEMMA RangingStep == RangingInv /\ [Next]_vars => RangingInv'
  <1> SUFFICES ASSUME RangingInv, [Next]_vars PROVE RangingInv'
    OBVIOUS
  <1>1. CASE function = "prs_extractRanges" /\ Ranging!Next
    <2>1. RangingOK
      BY <1>1 DEF RangingInv
    <2>2. CASE Ranging!NoText
      BY <2>1, <2>2, NoTextStep DEF RangingInv
    <2>3. CASE Ranging!NoBuffer
      BY <2>1, <2>3 DEF Ranging!NoBuffer, RangingInv, RangingOK, Ranging!BlocksOwned
    <2>4. CASE Ranging!CountRanges
      BY <2>1, <2>4, CountRangesStep DEF RangingInv
    <2>5. CASE Ranging!NextRange
      BY <2>1, <2>5, NextRangeStep DEF RangingInv
    <2>6. CASE Ranging!StoreRanges
      BY <2>1, <2>6, StoreRangesStep DEF RangingInv
    <2>7. CASE Ranging!Returned
      <3>1. RangingOK'
        <4>1. UNCHANGED <<arg1, arg2, pc, local1, local2, local3, local4, local5>>
          BY <2>7 DEF Ranging!Returned, Ranging!vars
        <4> QED
          BY <2>1, <4>1, RangingStutters
      <3> QED
        BY <3>1 DEF RangingInv
    <2> QED
      BY <1>1, <2>2, <2>3, <2>4, <2>5, <2>6, <2>7 DEF Ranging!Next
  <1>2. CASE function' = function /\ function # "prs_extractRanges"
    BY <1>2 DEF RangingInv
  <1>3. CASE UNCHANGED vars
    <2>1. UNCHANGED <<arg1, arg2, pc, local1, local2, local3, local4, local5>>
      BY <1>3 DEF vars
    <2> QED
      BY <1>3, <2>1, RangingStutters DEF vars, RangingInv
  <1> QED
    BY <1>1, <1>2, <1>3
    DEF Next, RunStrings, RunReading, RunRanging, RunMessage, RunEquality

LEMMA InitRangingInv == Init => RangingInv
  <1> SUFFICES ASSUME Init, function = "prs_extractRanges" PROVE RangingOK
    BY DEF RangingInv
  <1>1. /\ arg1 \in RangeTexts /\ pc = "start" /\ local2 = <<>> /\ local4 = <<>>
        /\ local5 = {}
    BY DEF Init, Ranging!Init
  <1> QED
    BY <1>1, SizeTypes DEF RangingOK, Ranging!BlocksOwned

(* The invariant says that the ranges are those of the text, *)
LEMMA PatternsAccepted == RangingOK => Ranging!AcceptsPatterns
  <1> SUFFICES ASSUME RangingOK, pc = "done" PROVE Ranging!AcceptsPatterns
    BY DEF Ranging!AcceptsPatterns
  <1>1. CASE local1 = "PRS_OK"
    <2>1. PICK n \in Nat : /\ Len(local4) = n /\ Ranging!PatternsThenBlanks(n)
                          /\ local4 = Ranging!Covered(n)
      BY <1>1 DEF RangingOK
    <2> QED
      BY <1>1, <2>1 DEF Ranging!AcceptsPatterns
  <1>2. CASE local1 # "PRS_OK"
    <2>1. \A n \in Nat : ~Ranging!PatternsThenBlanks(n)
      BY <1>2 DEF RangingOK
    <2>2. \A n \in 0 .. Len(Ranging!Text) : n \in Nat
      OBVIOUS
    <2> QED
      BY <1>2, <2>1, <2>2 DEF Ranging!AcceptsPatterns
  <1> QED
    BY <1>1, <1>2

(* that the code of a text without blanks is that of its characters alone, *)
LEMMA SolidText ==
  ASSUME RangingOK, pc = "done", Ranging!IsSolid(Ranging!Text)
  PROVE  local1 = Ranging!SolidCode(Ranging!Text)
  <1> DEFINE text == Ranging!Text
             bad == {n \in 0 .. Len(text) : /\ 3 * n + 3 <= Len(text)
                                            /\ Ranging!CodeAt(text, n) # "PRS_OK"}
             least == CHOOSE n \in bad : \A m \in bad : n <= m
  <1>1. /\ Ranging!Length \in 0 .. MaxBlock /\ Ranging!Length \in Nat
        /\ Len(text) = Ranging!Length /\ Kept = Len(text)
    <2>1. Ranging!Length \in 0 .. MaxBlock
      BY DEF RangingOK
    <2> QED
      BY <2>1, TextLength, CountedLengths
  <1>2. Ranging!SolidCode(text) =
          IF Len(text) % 3 # 0 THEN "PRS_INVALID_RANGE_PATTERN"
          ELSE IF bad = {} THEN "PRS_OK" ELSE Ranging!CodeAt(text, least)
    BY DEF Ranging!SolidCode
  <1>3. ASSUME NEW n \in Nat, 3 * n + 3 <= Len(text), Ranging!Pattern(3 * n + 1)
        PROVE  Ranging!CodeAt(text, n) = "PRS_OK"
    <2>1. Ranging!Length \in 1 .. MaxBlock /\ 3 * n + 3 <= Ranging!Length
      BY <1>1, <1>3
    <2> HIDE DEF text
    <2>2. PICK result : result = Ranging!RangeAt(3 * n + 1)
      OBVIOUS
    <2> QED
      BY <1>3, <2>1, <2>2, ExtractedRange DEF text
  <1> HIDE DEF text
  <1>4. CASE local1 = "PRS_OK"
    <2>1. PICK m \in Nat : Ranging!PatternsThenBlanks(m)
      BY <1>4 DEF RangingOK
    <2>2. Kept = m * 3 /\ 3 \in Nat \ {0}
      BY <1>1, <2>1, PatternsCounted
    <2>3. Len(text) % 3 = 0 /\ Len(text) = 3 * m
      BY <1>1, <2>2, MultipleMod
    <2>4. ASSUME NEW n \in bad PROVE FALSE
      <3>1. n \in Nat /\ 3 * n + 3 <= Len(text) /\ Ranging!CodeAt(text, n) # "PRS_OK"
        BY <1>1, <2>4
      <3>2. n \in 0 .. m - 1
        BY <2>3, <3>1
      <3>3. Ranging!Pattern(3 * n + 1)
        BY <2>1, <3>2 DEF Ranging!PatternsThenBlanks
      <3> QED
        BY <1>3, <3>1, <3>3
    <2>5. bad = {}
      BY <2>4
    <2> HIDE DEF bad, least
    <2> QED
      BY <1>2, <1>4, <2>3, <2>5 DEF text
  <1>5. CASE local1 # "PRS_OK" /\ Len(text) % 3 # 0
    <2>1. local1 = "PRS_INVALID_RANGE_PATTERN"
      BY <1>5 DEF RangingOK, text
    <2> HIDE DEF bad, least
    <2> QED
      BY <1>2, <1>5, <2>1 DEF text
  <1>6. CASE local1 # "PRS_OK" /\ Len(text) % 3 = 0
    <2>1. PICK n \in Nat, c \in ErrorCodes : local1 = c /\ FailsAt(n, c)
      BY <1>6 DEF RangingOK, text
    <2>2. /\ Patterns(n) /\ 3 * n + 3 <= Len(text) /\ local1 = Ranging!CodeAt(text, n)
      BY <2>1 DEF FailsAt, text
    <2>3. n \in bad
      BY <1>1, <1>6, <2>2
    <2>4. ASSUME NEW m \in bad PROVE n <= m
      <3>1. m \in Nat /\ 3 * m + 3 <= Len(text) /\ Ranging!CodeAt(text, m) # "PRS_OK"
        BY <1>1, <2>4
      <3>2. ~Ranging!Pattern(3 * m + 1)
        BY <1>3, <3>1
      <3>3. m \notin 0 .. n - 1
        BY <2>2, <3>2 DEF Patterns
      <3> QED
        BY <3>1, <3>3
    <2>5. \A m \in bad : m \in Int
      BY <1>1
    <2> HIDE DEF bad
    <2>6. least \in bad /\ \A m \in bad : least <= m
      BY <2>3, <2>4
    <2> HIDE DEF least
    <2>7. least = n
      BY <2>3, <2>4, <2>5, <2>6
    <2> QED
      BY <1>2, <1>6, <2>2, <2>3, <2>7 DEF text
  <1> QED
    BY <1>4, <1>5, <1>6

(* and that an error is that of the least pattern that fails. *)
LEMMA ErrorOfFirst ==
  ASSUME RangingOK, pc = "done", Ranging!IsSolid(Ranging!Text),
         Len(Ranging!Text) % 3 = 0, local1 # "PRS_OK",
         local1 = Ranging!SolidCode(Ranging!Text)
  PROVE  Ranging!FirstErrorReported
  <1>1. PICK n \in Nat, c \in ErrorCodes : local1 = c /\ FailsAt(n, c)
    BY DEF RangingOK
  <1>2. Len(Ranging!Text) \in Nat
    <2>1. Ranging!Length \in 0 .. MaxBlock
      BY DEF RangingOK
    <2> QED
      BY <2>1, TextLength
  <1>3. Patterns(n) /\ 3 * n + 3 <= Len(Ranging!Text) /\ ~Ranging!Pattern(3 * n + 1)
    BY <1>1 DEF FailsAt
  <1> DEFINE bad == {k \in 0 .. Len(Ranging!Text) - 1 : k % 3 = 0 /\ ~Ranging!Pattern(k + 1)}
             least == CHOOSE k \in bad : \A l \in bad : k <= l
  <1>4. (3 * n) % 3 = 0
    <2>1. 3 * n = n * 3 /\ 3 \in Nat \ {0}
      OBVIOUS
    <2> QED
      BY <2>1, MultipleMod
  <1>5. 3 * n \in bad
    BY <1>2, <1>3, <1>4
  <1>6. ASSUME NEW k \in bad PROVE 3 * n <= k
    <2>1. k \in Nat /\ k % 3 = 0 /\ ~Ranging!Pattern(k + 1)
      BY <1>2
    <2> HIDE DEF bad
    <2>2. 3 \in Nat \ {0}
      OBVIOUS
    <2>3. PICK j \in Nat : k = j * 3 + (k % 3)
      BY <2>1, <2>2, Quotients
    <2>4. k = 3 * j
      BY <2>1, <2>3
    <2>5. j \notin 0 .. n - 1
      BY <1>3, <2>1, <2>4 DEF Patterns
    <2> QED
      BY <2>4, <2>5
  <1>7. bad \subseteq Int
    OBVIOUS
  <1>8. least = 3 * n
    <2> HIDE DEF bad
    <2>1. \E k \in bad : \A l \in bad : k <= l
      BY <1>5, <1>6
    <2>2. least \in bad /\ \A l \in bad : least <= l
      BY <2>1
    <2> HIDE DEF least
    <2> QED
      BY <1>5, <1>6, <1>7, <2>2
  <1>9. bad # {}
    BY <1>5
  <1>10. /\ (local1 = "PRS_INVALID_RANGE_PATTERN") =
              ~(/\ Ranging!Text[3 * n + 2] = Ranging!Dash
                /\ Ranging!IsPattern(Ranging!Text[3 * n + 1], Ranging!Text[3 * n + 3]))
         /\ local1 = "PRS_INVALID_RANGE" => Ranging!Text[3 * n + 1] > Ranging!Text[3 * n + 3]
         /\ local1 = "PRS_INVALID_CHAR_RANGE" =>
              /\ Ranging!Text[3 * n + 1] \in Ranging!Upper
              /\ Ranging!Text[3 * n + 3] \in Ranging!Lower
    BY <1>1 DEF FailsAt
  <1> DEFINE p == 1 + least
  <1>11. p = 3 * n + 1 /\ p + 1 = 3 * n + 2 /\ p + 2 = 3 * n + 3
    <2> HIDE DEF least
    <2> QED
      BY <1>8
  <1>12. /\ (local1 = "PRS_INVALID_RANGE_PATTERN") =
              ~(/\ Ranging!Text[p + 1] = Ranging!Dash
                /\ Ranging!IsPattern(Ranging!Text[p], Ranging!Text[p + 2]))
         /\ local1 = "PRS_INVALID_RANGE" => Ranging!Text[p] > Ranging!Text[p + 2]
         /\ local1 = "PRS_INVALID_CHAR_RANGE" =>
              Ranging!Text[p] \in Ranging!Upper /\ Ranging!Text[p + 2] \in Ranging!Lower
    <2> HIDE DEF p
    <2> QED
      BY <1>10, <1>11
  <1> QED
    BY <1>9, <1>12 DEF Ranging!FirstErrorReported

(***************************************************************************)
(* For every text and every width of a size, prs_extractRanges accepts     *)
(* exactly the sequences of patterns, blanks behind them, and stores the   *)
(* range of each (range.c:14-109).                                         *)
(***************************************************************************)
THEOREM PatternsAreAccepted == Spec => []AcceptsPatterns
  <1>1. RangingInv => AcceptsPatterns
    BY PatternsAccepted DEF RangingInv, AcceptsPatterns
  <1> QED
    BY <1>1, InitRangingInv, RangingStep, PTL DEF Spec

(* Its code is that of the first pattern that fails (range.h:46-52). *)
THEOREM ErrorIsFirst == Spec => []FirstErrorReported
  <1>1. RangingOK => Ranging!FirstErrorReported
    BY SolidText, ErrorOfFirst DEF Ranging!FirstErrorReported
  <1>2. RangingInv => FirstErrorReported
    BY <1>1 DEF RangingInv, FirstErrorReported
  <1> QED
    BY <1>2, InitRangingInv, RangingStep, PTL DEF Spec

(***************************************************************************)
(* And on every path it leaves the block of the array of ranges, if it     *)
(* found some, and no other (range.c:57-109), but for a text of blanks.    *)
(***************************************************************************)
THEOREM OwnedBlocksLeft == Spec => []BlocksOwned
  <1>1. RangingInv => BlocksOwned
    BY DEF RangingInv, RangingOK, BlocksOwned
  <1> QED
    BY <1>1, InitRangingInv, RangingStep, PTL DEF Spec
-----------------------------------------------------------------------------
(* fg_ruleEquals and fg_productionRuleEquals *)

(* The stack of calls, whatever is in its frames. *)
IsStack(s) == s \in Seq({s[j] : j \in DOMAIN s})

LEMMA OwnRange ==
  ASSUME NEW S, NEW s \in Seq(S) PROVE IsStack(s)
  BY DEF IsStack

LEMMA StackPushed ==
  ASSUME NEW s, IsStack(s), Len(s) \in Nat \ {0}, NEW f
  PROVE  /\ IsStack(Append(s, f)) /\ Len(Append(s, f)) = Len(s) + 1
         /\ Append(s, f)[1] = s[1]
  <1> DEFINE frames == {s[j] : j \in DOMAIN s} \cup {f}
             pushed == Append(s, f)
  <1>1. s \in Seq(frames) /\ f \in frames /\ DOMAIN s = 1 .. Len(s)
    BY DEF IsStack
  <1> HIDE DEF frames
  <1>2. /\ pushed \in Seq(frames) /\ Len(pushed) = Len(s) + 1
        /\ \A j \in 1 .. Len(s) : pushed[j] = s[j]
    BY <1>1
  <1> HIDE DEF pushed
  <1>3. IsStack(pushed)
    BY <1>2, OwnRange
  <1> QED
    BY <1>2, <1>3 DEF pushed

LEMMA StackPopped ==
  ASSUME NEW s, IsStack(s), Len(s) \in Nat \ {0, 1}
  PROVE  /\ IsStack(Equality!Front(s)) /\ Len(Equality!Front(s)) = Len(s) - 1
         /\ Equality!Front(s)[1] = s[1]
  <1> DEFINE frames == {s[j] : j \in DOMAIN s}
             popped == SubSeq(s, 1, Len(s) - 1)
  <1>1. s \in Seq(frames) /\ DOMAIN s = 1 .. Len(s) /\ Len(s) - 1 \in Nat \ {0}
    BY DEF IsStack
  <1> HIDE DEF frames
  <1>2. \A j \in 1 .. Len(s) - 1 : s[j] \in frames
    BY <1>1
  <1>3. /\ popped \in Seq(frames) /\ Len(popped) = Len(s) - 1 /\ popped[1] = s[1]
    <2>1. /\ popped \in Seq(frames)
          /\ Len(popped) = IF 1 <= Len(s) - 1 THEN Len(s) - 1 - 1 + 1 ELSE 0
          /\ \A j \in 1 .. Len(s) - 1 - 1 + 1 : popped[j] = s[1 + j - 1]
      BY <1>1, <1>2, SubSeqProperties
    <2> HIDE DEF popped
    <2>2. 1 \in 1 .. Len(s) - 1 - 1 + 1 /\ 1 + 1 - 1 = 1 /\ Len(s) - 1 - 1 + 1 = Len(s) - 1
      BY <1>1
    <2>3. Len(popped) = Len(s) - 1
      BY <1>1, <2>1, <2>2
    <2> QED
      BY <2>1, <2>2, <2>3
  <1>4. Equality!Front(s) = popped
    BY DEF Equality!Front
  <1> HIDE DEF popped
  <1>5. IsStack(popped)
    BY <1>3, OwnRange
  <1> QED
    BY <1>3, <1>4, <1>5

LEMMA StackReplaced ==
  ASSUME NEW s, IsStack(s), Len(s) \in Nat \ {0}, NEW f,
         NEW t, t = [s EXCEPT ![Len(s)] = f]
  PROVE  /\ IsStack(t) /\ Len(t) = Len(s)
         /\ t[1] = IF Len(s) = 1 THEN f ELSE s[1]
  <1> DEFINE frames == {s[j] : j \in DOMAIN s} \cup {f}
  <1>1. s \in Seq(frames) /\ f \in frames /\ DOMAIN s = 1 .. Len(s)
    BY DEF IsStack
  <1> HIDE DEF frames
  <1>2. /\ t \in Seq(frames) /\ Len(t) = Len(s)
        /\ t[1] = IF Len(s) = 1 THEN f ELSE s[1]
    BY <1>1
  <1>3. IsStack(t)
    BY <1>2, OwnRange
  <1> QED
    BY <1>2, <1>3
-----------------------------------------------------------------------------
First == arg2[2][1]
Second == arg2[2][2]
List(r) == arg1[r].list

(* the frame of the comparison that the client called *)
FrameAt(p, i) ==
  [r1 |-> First, r2 |-> Second,
   comparator |-> IF arg2[1] = "fg_ruleEquals" THEN "fg_PRItemEquals" ELSE "prItemComparator",
   p |-> p, i |-> i]

FlatProductions == Equality!IsFlat(List(First)[1]) /\ Equality!IsFlat(List(Second)[1])

FlatRules == Equality!IsFlatRule(First) /\ Equality!IsFlatRule(Second)

(* Different rules are compared.  Of rules without references, the items   *)
(* that were compared all differ.                                          *)
Differ(q, k) == \A j \in 1 .. k : ~Equality!SameItem(List(First)[q][j], List(Second)[q][j])
RuleItems(p, i, n, w, b) ==
  /\ n = 1 /\ p <= Len(List(First)) + 1
  /\ \A q \in 1 .. p - 1 : Differ(q, Len(List(First)[q]))
  /\ i >= 1 => p <= Len(List(First)) /\ i <= Len(List(First)[p]) + 1 /\ Differ(p, i - 1)
  /\ w = "returned" =>
       /\ p <= Len(List(First)) /\ i \in 1 .. Len(List(First)[p])
       /\ b = Equality!SameItem(List(First)[p][i], List(Second)[p][i])

(* The productions that were compared have the same lengths, *)
RuleBase(p, i, n, w, b) ==
  /\ arg1[First].name = arg1[Second].name /\ Len(List(First)) = Len(List(Second))
  /\ \A q \in 1 .. p - 1 : Len(List(First)[q]) = Len(List(Second)[q])
  /\ i >= 1 => Len(List(First)[p]) = Len(List(Second)[p])
  /\ n > 1 \/ w = "returned" => i >= 1
  /\ First # Second
  /\ FlatRules => RuleItems(p, i, n, w, b)

(* and the items that were compared, of productions without references,    *)
(* are the same.                                                           *)
ProductionBase(p, i, n, w, b) ==
  LET p1 == List(First)[1]
      p2 == List(Second)[1]
  IN FlatProductions =>
       /\ n = 1
       /\ \/ p = 1
          \/ p = 2 /\ i = 0 /\ w = "compare" /\ Equality!SameItems(p1, p2)
       /\ p = 1 /\ i >= 1 =>
            /\ Len(p1) = Len(p2) /\ i <= Len(p1) + 1
            /\ \A j \in 1 .. i - 1 : Equality!SameItem(p1[j], p2[j])
       /\ w = "returned" => i \in 1 .. Len(p1) /\ b = Equality!SameItem(p1[i], p2[i])

Base(p, i, n, w, b) ==
  IF arg2[1] = "fg_ruleEquals" THEN RuleBase(p, i, n, w, b) ELSE ProductionBase(p, i, n, w, b)

(* The functions called refer to no rule. *)
Flat == IF arg2[1] = "fg_ruleEquals" THEN FlatRules ELSE FlatProductions

Settled(b) ==
  IF arg2[1] = "fg_productionRuleEquals"
  THEN FlatProductions => b = Equality!SameItems(List(First)[1], List(Second)[1])
  ELSE /\ b => Equality!SameShape(First, Second)
       /\ FlatRules =>
            b = (First = Second \/ (/\ Equality!SameShape(First, Second)
                                   /\ Equality!NoItemSame(First, Second)))

CallTyped ==
  /\ arg1 \in Grammars
  /\ arg2 \in {"fg_ruleEquals", "fg_productionRuleEquals"} \X Calls

EqualityOK ==
  /\ CallTyped /\ local2 \in BOOLEAN
  /\ pc = "call" => local1 = <<>>
  /\ pc \in {"compare", "returned"} =>
       /\ IsStack(local1)
       /\ \E p \in Nat \ {0}, i \in Nat, n \in Nat \ {0}, w \in {"compare", "returned"},
             b \in BOOLEAN :
            /\ Len(local1) = n /\ pc = w /\ local2 = b
            /\ local1[1] = FrameAt(p, i) /\ Base(p, i, n, w, b)
  /\ Equality!ComparisonAnswers

EqualityInv == function = "equality" => EqualityOK

LEMMA Constants ==
  /\ Equality!TokensAssumption /\ Equality!GrammarsAssumption /\ Equality!CallsAssumption
  BY ArgumentsAssumption

(* Every rule has productions, and these have items. *)
LEMMA ListTypes ==
  ASSUME CallTyped, NEW r, r = First \/ r = Second
  PROVE  /\ Len(List(r)) \in Nat \ {0} /\ DOMAIN List(r) = 1 .. Len(List(r))
         /\ \A p \in 1 .. Len(List(r)) :
              /\ Len(List(r)[p]) \in Nat /\ DOMAIN List(r)[p] = 1 .. Len(List(r)[p])
              /\ \A i \in 1 .. Len(List(r)[p]) :
                   List(r)[p][i].type = "FG_TOKEN_ITEM" => List(r)[p][i].value \in DOMAIN Tokens
  <1>1. arg1 \in Grammars /\ arg2[2] \in Calls
    BY DEF CallTyped
  <1>2. r \in DOMAIN arg1
    BY <1>1, Constants DEF Equality!CallsAssumption, First, Second
  <1> DEFINE list == List(r)
  <1>3. /\ list # <<>> /\ list \in Seq(Equality!ToSet(list))
        /\ \A p \in DOMAIN list :
             /\ list[p] \in Seq(Equality!ToSet(list[p]))
             /\ \A i \in DOMAIN list[p] :
                  list[p][i].type = "FG_TOKEN_ITEM" => list[p][i].value \in DOMAIN Tokens
    BY <1>1, <1>2, Constants DEF Equality!GrammarsAssumption, List
  <1> HIDE DEF list
  <1>4. Len(list) \in Nat /\ DOMAIN list = 1 .. Len(list)
    BY <1>3
  <1>5. Len(list) # 0
    BY <1>3
  <1>6. \A p \in DOMAIN list : Len(list[p]) \in Nat /\ DOMAIN list[p] = 1 .. Len(list[p])
    BY <1>3
  <1> QED
    BY <1>3, <1>4, <1>5, <1>6 DEF list

RangeRecord == [uppercaseLetter : BOOLEAN, start : Int, end : Int]

LEMMA SameRanges ==
  ASSUME NEW v \in Seq(RangeRecord), NEW u \in Seq(RangeRecord)
  PROVE  Equality!RangesEqual(v, u) <=> v = u
  <1>1. ASSUME NEW x \in RangeRecord, NEW y \in RangeRecord,
               x.uppercaseLetter = y.uppercaseLetter, x.start = y.start, x.end = y.end
        PROVE  x = y
    BY <1>1 DEF RangeRecord
  <1>2. ASSUME Equality!RangesEqual(v, u) PROVE v = u
    <2>1. /\ Len(v) = Len(u)
          /\ \A i \in DOMAIN v :
               /\ v[i].uppercaseLetter = u[i].uppercaseLetter
               /\ v[i].start = u[i].start /\ v[i].end = u[i].end
      BY <1>2 DEF Equality!RangesEqual
    <2>2. ASSUME NEW i \in DOMAIN v PROVE v[i] = u[i]
      <3>1. v[i] \in RangeRecord /\ u[i] \in RangeRecord
        BY <2>1
      <3> QED
        BY <1>1, <2>1, <3>1
    <2> QED
      BY <2>1, <2>2
  <1>3. ASSUME v = u PROVE Equality!RangesEqual(v, u)
    BY <1>3 DEF Equality!RangesEqual
  <1> QED
    BY <1>2, <1>3

(* fg_tokenEquals compares all there is of a token. *)
LEMMA SameTokens ==
  ASSUME NEW a \in DOMAIN Tokens, NEW b \in DOMAIN Tokens
  PROVE  Equality!TokenEquals(a, b) <=> Tokens[a] = Tokens[b]
  <1> DEFINE t == Tokens[a]
             u == Tokens[b]
  <1>1. /\ t = [name |-> t.name, type |-> t.type, quantifier |-> t.quantifier, value |-> t.value]
        /\ u = [name |-> u.name, type |-> u.type, quantifier |-> u.quantifier, value |-> u.value]
        /\ t.type = "FG_RANGE_TOKEN" =>
             t.value \in Seq(RangeRecord)
        /\ u.type = "FG_RANGE_TOKEN" =>
             u.value \in Seq(RangeRecord)
    BY Constants DEF Equality!TokensAssumption, RangeRecord
  <1>2. Equality!TokenEquals(a, b) <=>
          \/ a = b
          \/ /\ t.type = u.type /\ t.name = u.name /\ t.quantifier = u.quantifier
             /\ IF t.type = "FG_RANGE_TOKEN" THEN Equality!RangesEqual(t.value, u.value)
                ELSE t.value = u.value
    BY DEF Equality!TokenEquals
  <1>3. a = b => t = u
    OBVIOUS
  <1> HIDE DEF t, u
  <1>4. t.type = "FG_RANGE_TOKEN" /\ t.type = u.type =>
          (Equality!RangesEqual(t.value, u.value) <=> t.value = u.value)
    BY <1>1, SameRanges
  <1>5. /\ t.type = u.type /\ t.name = u.name /\ t.quantifier = u.quantifier
        /\ t.value = u.value
        => t = u
    BY <1>1
  <1>6. (t = u) <=> Equality!TokenEquals(a, b)
    BY <1>2, <1>3, <1>4, <1>5
  <1> QED
    BY <1>6 DEF t, u

LEMMA BaseFixed ==
  ASSUME UNCHANGED <<arg1, arg2>>
  PROVE  /\ \A p \in Nat, i \in Nat : FrameAt(p, i)' = FrameAt(p, i)
         /\ \A p \in Nat, i \in Nat, n \in Nat, w \in {"compare", "returned"}, b \in BOOLEAN :
              Base(p, i, n, w, b)' = Base(p, i, n, w, b)
         /\ \A b \in BOOLEAN : Settled(b)' = Settled(b)
         /\ CallTyped' = CallTyped
  BY DEF FrameAt, Base, RuleBase, ProductionBase, FlatProductions, First, Second, List,
         Settled, Equality!SameShape, Equality!NoItemSame, CallTyped, RuleItems, Differ,
         FlatRules, Equality!IsFlatRule

(* The comparison goes on, *)
LEMMA Continue ==
  ASSUME CallTyped, UNCHANGED <<arg1, arg2>>, NEW p \in Nat \ {0}, NEW i \in Nat,
         NEW n \in Nat \ {0}, NEW w \in {"compare", "returned"}, NEW b \in BOOLEAN,
         pc' = w, local2' = b, IsStack(local1'), Len(local1') = n, local1'[1] = FrameAt(p, i),
         Base(p, i, n, w, b)
  PROVE  EqualityOK'
  <1>1. CallTyped' /\ Base(p, i, n, w, b)' /\ local1'[1] = FrameAt(p, i)'
    BY BaseFixed
  <1>2. pc' \notin {"call", "done"} /\ local2' \in BOOLEAN
    OBVIOUS
  <1>3. IsStack(local1)'
    BY DEF IsStack
  <1>4. Equality!ComparisonAnswers'
    BY <1>2 DEF Equality!ComparisonAnswers
  <1> QED
    BY <1>1, <1>2, <1>3, <1>4 DEF EqualityOK

(* or it has its answer. *)
LEMMA Finish ==
  ASSUME CallTyped, local2 \in BOOLEAN, UNCHANGED <<arg1, arg2, local2>>, pc' = "done",
         NEW b \in BOOLEAN, local3' = b, Settled(b)
  PROVE  EqualityOK'
  <1>1. CallTyped' /\ local2' \in BOOLEAN
    BY BaseFixed
  <1>2. Equality!ComparisonAnswers'
    BY DEF Equality!ComparisonAnswers, Settled, FlatProductions, FlatRules, First, Second,
           List, Equality!SameShape, Equality!NoItemSame, Equality!IsFlatRule
  <1> QED
    BY <1>1, <1>2 DEF EqualityOK

(* What happens on top of a call leaves its frame where it is. *)
LEMMA Deeper ==
  ASSUME EqualityOK, pc \in {"compare", "returned"}, Len(local1) # 1,
         UNCHANGED <<arg1, arg2>>, pc' \in {"compare", "returned"}, local2' \in BOOLEAN,
         IsStack(local1'), Len(local1') \in Nat \ {0}, local1'[1] = local1[1]
  PROVE  EqualityOK'
  <1>1. PICK p \in Nat \ {0}, i \in Nat, n \in Nat \ {0}, w \in {"compare", "returned"},
             b \in BOOLEAN :
          /\ Len(local1) = n /\ pc = w /\ local2 = b
          /\ local1[1] = FrameAt(p, i) /\ Base(p, i, n, w, b)
    BY DEF EqualityOK
  <1>2. PICK m \in Nat \ {0}, v \in {"compare", "returned"}, c \in BOOLEAN :
          Len(local1') = m /\ pc' = v /\ local2' = c
    OBVIOUS
  <1>3. n > 1
    BY <1>1
  <1>4. Base(p, i, m, v, c)
    BY <1>1, <1>3 DEF Base, RuleBase, RuleItems, ProductionBase
  <1>5. CallTyped /\ local1'[1] = FrameAt(p, i)
    BY <1>1 DEF EqualityOK
  <1> QED
    BY <1>2, <1>4, <1>5, Continue

LEMMA AnswerStep ==
  ASSUME EqualityOK, pc \in {"compare", "returned"}, UNCHANGED <<arg1, arg2>>,
         NEW b \in BOOLEAN, Equality!Answer(b), Len(local1) = 1 => Settled(b)
  PROVE  EqualityOK'
  <1>1. /\ local1' = Equality!Front(local1)
        /\ IF Len(local1) = 1 THEN local3' = b /\ pc' = "done" /\ local2' = local2
           ELSE local2' = b /\ pc' = "returned"
    BY DEF Equality!Answer
  <1>2. CallTyped /\ local2 \in BOOLEAN /\ IsStack(local1) /\ Len(local1) \in Nat \ {0}
    BY DEF EqualityOK
  <1>3. CASE Len(local1) = 1
    BY <1>1, <1>2, <1>3, Finish
  <1>4. CASE Len(local1) # 1
    <2>1. Len(local1) \in Nat \ {0, 1}
      BY <1>2, <1>4
    <2>2. /\ IsStack(Equality!Front(local1))
          /\ Len(Equality!Front(local1)) = Len(local1) - 1
          /\ Equality!Front(local1)[1] = local1[1]
      BY <1>2, <2>1, StackPopped
    <2>3. IsStack(local1') /\ Len(local1') \in Nat \ {0} /\ local1'[1] = local1[1]
      BY <1>1, <2>1, <2>2
    <2>4. pc' \in {"compare", "returned"} /\ local2' \in BOOLEAN
      BY <1>1, <1>4
    <2> QED
      BY <1>4, <2>3, <2>4, Deeper
  <1> QED
    BY <1>3, <1>4

(* The frame on top is replaced. *)
LEMMA ReplaceStep ==
  ASSUME EqualityOK, pc \in {"compare", "returned"}, UNCHANGED <<arg1, arg2, local2>>,
         NEW f, Equality!Replace(f), pc' = "compare",
         Len(local1) = 1 =>
           \E p \in Nat \ {0}, i \in Nat : f = FrameAt(p, i) /\ Base(p, i, 1, "compare", local2)
  PROVE  EqualityOK'
  <1>1. local1' = [local1 EXCEPT ![Len(local1)] = f]
    BY DEF Equality!Replace
  <1>2. CallTyped /\ local2 \in BOOLEAN /\ IsStack(local1) /\ Len(local1) \in Nat \ {0}
    BY DEF EqualityOK
  <1>3. /\ IsStack(local1') /\ Len(local1') = Len(local1)
        /\ local1'[1] = IF Len(local1) = 1 THEN f ELSE local1[1]
    BY <1>1, <1>2, StackReplaced
  <1>4. CASE Len(local1) = 1
    <2>1. PICK p \in Nat \ {0}, i \in Nat :
            f = FrameAt(p, i) /\ Base(p, i, 1, "compare", local2)
      BY <1>4
    <2>2. PICK b \in BOOLEAN : b = local2
      BY <1>2
    <2>3. Base(p, i, 1, "compare", b)
      BY <2>1, <2>2
    <2>4. /\ pc' = "compare" /\ local2' = b /\ Len(local1') = 1 /\ local1'[1] = FrameAt(p, i)
          /\ 1 \in Nat \ {0} /\ "compare" \in {"compare", "returned"}
      BY <1>3, <1>4, <2>1, <2>2
    <2> QED
      BY <1>2, <1>3, <2>3, <2>4, Continue
  <1>5. CASE Len(local1) # 1
    <2>1. Len(local1') \in Nat \ {0} /\ local1'[1] = local1[1] /\ pc' \in {"compare", "returned"}
          /\ local2' \in BOOLEAN
      BY <1>2, <1>3, <1>5
    <2> QED
      BY <1>3, <1>5, <2>1, Deeper
  <1> QED
    BY <1>4, <1>5

(* The comparison that the client called is on top. *)
LEMMA BaseOnTop ==
  ASSUME EqualityOK, pc \in {"compare", "returned"}, Len(local1) = 1
  PROVE  \E p \in Nat \ {0}, i \in Nat :
           /\ Equality!top = FrameAt(p, i) /\ local1[1] = FrameAt(p, i)
           /\ Base(p, i, 1, pc, local2)
           /\ Equality!top.p = p /\ Equality!top.i = i
           /\ Equality!top.r1 = First /\ Equality!top.r2 = Second
           /\ Equality!top.comparator = IF arg2[1] = "fg_ruleEquals" THEN "fg_PRItemEquals"
                                        ELSE "prItemComparator"
           /\ Equality!Count(Equality!top) =
                IF arg2[1] = "fg_ruleEquals" THEN Len(List(First)) ELSE 1
           /\ Equality!Items(Equality!top, Equality!top.r1) = List(First)[p]
           /\ Equality!Items(Equality!top, Equality!top.r2) = List(Second)[p]
  <1>1. PICK p \in Nat \ {0}, i \in Nat :
          local1[1] = FrameAt(p, i) /\ Base(p, i, 1, pc, local2)
    BY DEF EqualityOK
  <1>2. Equality!top = FrameAt(p, i)
    BY <1>1 DEF Equality!top, Equality!Last
  <1>3. PICK f : f = Equality!top
    OBVIOUS
  <1>4. /\ f.p = p /\ f.i = i /\ f.r1 = First /\ f.r2 = Second
        /\ f.comparator = IF arg2[1] = "fg_ruleEquals" THEN "fg_PRItemEquals"
                          ELSE "prItemComparator"
    BY <1>2, <1>3 DEF FrameAt
  <1>5. /\ Equality!Count(f) = IF arg2[1] = "fg_ruleEquals" THEN Len(List(First)) ELSE 1
        /\ Equality!Items(f, f.r1) = List(First)[p] /\ Equality!Items(f, f.r2) = List(Second)[p]
    BY <1>4 DEF Equality!Count, Equality!Items, List
  <1> QED
    BY <1>1, <1>2, <1>3, <1>4, <1>5

(* The productions of the call, in terms of the items compared. *)
LEMMA SameProductions ==
  ASSUME CallTyped
  PROVE  LET p1 == List(First)[1]
             p2 == List(Second)[1]
         IN /\ Len(p1) \in Nat /\ Len(p2) \in Nat /\ DOMAIN p1 = 1 .. Len(p1)
            /\ Equality!SameItems(p1, p2) \in BOOLEAN
            /\ Equality!SameItems(p1, p2) <=>
                 Len(p1) = Len(p2) /\ \A j \in 1 .. Len(p1) : Equality!SameItem(p1[j], p2[j])
  <1>1. 1 \in 1 .. Len(List(First)) /\ 1 \in 1 .. Len(List(Second))
    BY ListTypes
  <1>2. /\ Len(List(First)[1]) \in Nat /\ Len(List(Second)[1]) \in Nat
        /\ DOMAIN List(First)[1] = 1 .. Len(List(First)[1])
    BY <1>1, ListTypes
  <1> QED
    BY <1>2 DEF Equality!SameItems, Equality!SameItem

(* The rules of the call, in terms of the items compared. *)
LEMMA SameRules ==
  ASSUME CallTyped
  PROVE  /\ Equality!SameShape(First, Second) \in BOOLEAN
         /\ Equality!NoItemSame(First, Second) \in BOOLEAN
         /\ Equality!SameShape(First, Second) <=>
              /\ arg1[First].name = arg1[Second].name
              /\ Len(List(First)) = Len(List(Second))
              /\ \A q \in 1 .. Len(List(First)) : Len(List(First)[q]) = Len(List(Second)[q])
         /\ Equality!NoItemSame(First, Second) <=>
              \A q \in 1 .. Len(List(First)) : Differ(q, Len(List(First)[q]))
  <1>1. /\ DOMAIN List(First) = 1 .. Len(List(First))
        /\ \A q \in 1 .. Len(List(First)) :
             DOMAIN List(First)[q] = 1 .. Len(List(First)[q])
    BY ListTypes
  <1> QED
    BY <1>1 DEF Equality!SameShape, Equality!NoItemSame, Differ, List

LEMMA CallStep ==
  ASSUME EqualityOK, Equality!Call PROVE EqualityOK'
  <1>1. pc = "call" /\ arg1' = arg1 /\ arg2' = arg2 /\ local2' = local2
    BY DEF Equality!Call
  <1>2. CallTyped /\ local2 \in BOOLEAN
    BY DEF EqualityOK
  <1>3. PICK result :
          result = IF arg2[1] = "fg_ruleEquals" THEN Equality!RuleEquals(First, Second)
                   ELSE Equality!ProductionRuleEquals(First, Second)
    OBVIOUS
  <1>4. IF "answer" \in DOMAIN result
        THEN local3' = result.answer /\ pc' = "done" /\ UNCHANGED local1
        ELSE local1' = <<result.frame>> /\ pc' = "compare"
    BY <1>3 DEF Equality!Call, First, Second
  <1>5. CASE First = Second
    <2>1. result = [answer |-> TRUE]
      BY <1>3, <1>5 DEF Equality!RuleEquals, Equality!ProductionRuleEquals
    <2>2. local3' = TRUE /\ pc' = "done"
      BY <1>4, <2>1
    <2>3. Settled(TRUE)
      <3>1. Equality!SameShape(First, Second)
        BY <1>5 DEF Equality!SameShape
      <3>2. Equality!SameItems(List(First)[1], List(Second)[1])
        BY <1>5 DEF Equality!SameItems, Equality!SameItem
      <3>3. Equality!SameItems(List(First)[1], List(Second)[1]) \in BOOLEAN
        BY <1>2, SameProductions
      <3> QED
        BY <1>5, <3>1, <3>2, <3>3 DEF Settled
    <2> QED
      BY <1>1, <1>2, <2>2, <2>3, Finish
  <1>6. CASE /\ First # Second /\ arg2[1] = "fg_ruleEquals"
             /\ arg1[First].name # arg1[Second].name \/ Len(List(First)) # Len(List(Second))
    <2>1. result = [answer |-> FALSE]
      BY <1>3, <1>6 DEF Equality!RuleEquals, List
    <2>2. local3' = FALSE /\ pc' = "done"
      BY <1>4, <2>1
    <2>3. Settled(FALSE)
      BY <1>2, <1>6, SameRules DEF Settled
    <2> QED
      BY <1>1, <1>2, <2>2, <2>3, Finish
  <1>7. CASE /\ First # Second
             /\ arg2[1] = "fg_ruleEquals" =>
                  arg1[First].name = arg1[Second].name /\ Len(List(First)) = Len(List(Second))
    <2>1. result = [frame |-> FrameAt(1, 0)]
      BY <1>3, <1>7 DEF Equality!RuleEquals, Equality!ProductionRuleEquals, Equality!Frame,
                        FrameAt, List
    <2>2. PICK f : f = FrameAt(1, 0)
      OBVIOUS
    <2>3. local1' = <<f>> /\ pc' = "compare"
      BY <1>4, <2>1, <2>2
    <2>4. <<f>> \in Seq({f}) /\ Len(<<f>>) = 1 /\ <<f>>[1] = f
      OBVIOUS
    <2>5. IsStack(<<f>>)
      BY <2>4, OwnRange
    <2>6. PICK b \in BOOLEAN : b = local2
      BY <1>2
    <2>7. Base(1, 0, 1, "compare", b)
      <3>1. Len(List(First)) \in Nat
        BY <1>2, ListTypes
      <3> QED
        BY <1>7, <3>1 DEF Base, RuleBase, RuleItems, ProductionBase
    <2>8. /\ IsStack(local1') /\ Len(local1') = 1 /\ local1'[1] = FrameAt(1, 0)
          /\ pc' = "compare" /\ local2' = b
          /\ 1 \in Nat \ {0} /\ 0 \in Nat /\ "compare" \in {"compare", "returned"}
      BY <1>1, <2>2, <2>3, <2>4, <2>5, <2>6
    <2> QED
      BY <1>1, <1>2, <2>7, <2>8, Continue
  <1> QED
    BY <1>5, <1>6, <1>7

LEMMA ProductionsEndStep ==
  ASSUME EqualityOK, Equality!ProductionsEnd PROVE EqualityOK'
  <1>1. /\ pc = "compare" /\ Equality!top.p > Equality!Count(Equality!top)
        /\ Equality!Answer(TRUE) /\ UNCHANGED <<arg1, arg2>>
    BY DEF Equality!ProductionsEnd
  <1>2. ASSUME Len(local1) = 1 PROVE Settled(TRUE)
    <2>1. PICK p \in Nat \ {0}, i \in Nat :
            /\ Base(p, i, 1, pc, local2) /\ Equality!top.p = p
            /\ Equality!Count(Equality!top) =
                 IF arg2[1] = "fg_ruleEquals" THEN Len(List(First)) ELSE 1
      BY <1>1, <1>2, BaseOnTop
    <2>2. CallTyped
      BY DEF EqualityOK
    <2>3. CASE arg2[1] = "fg_ruleEquals"
      <3>1. DOMAIN List(First) = 1 .. Len(List(First)) /\ Len(List(First)) \in Nat
        BY <2>2, ListTypes
      <3>2. RuleBase(p, i, 1, pc, local2) /\ p > Len(List(First))
        BY <1>1, <2>1, <2>3 DEF Base
      <3>3. \A q \in DOMAIN List(First) : Len(List(First)[q]) = Len(List(Second)[q])
        BY <3>1, <3>2 DEF RuleBase
      <3>4. Equality!SameShape(First, Second)
        BY <3>2, <3>3 DEF Equality!SameShape, List, RuleBase
      <3>5. ASSUME FlatRules PROVE Equality!NoItemSame(First, Second)
        <4>1. \A q \in 1 .. p - 1 : Differ(q, Len(List(First)[q]))
          BY <3>2, <3>5 DEF RuleBase, RuleItems
        <4>2. \A q \in 1 .. Len(List(First)) : q \in 1 .. p - 1
          BY <3>1, <3>2
        <4> QED
          BY <2>2, <4>1, <4>2, SameRules
      <3> QED
        BY <2>2, <2>3, <3>4, <3>5, SameRules DEF Settled
    <2>4. CASE arg2[1] = "fg_productionRuleEquals"
      <3>1. ProductionBase(p, i, 1, pc, local2) /\ p # 1
        BY <1>1, <2>1, <2>4 DEF Base
      <3>2. Equality!SameItems(List(First)[1], List(Second)[1]) \in BOOLEAN
        BY DEF Equality!SameItems
      <3> QED
        BY <2>4, <3>1, <3>2 DEF Settled, ProductionBase
    <2> QED
      BY <2>2, <2>3, <2>4 DEF CallTyped
  <1> QED
    BY <1>1, <1>2, AnswerStep

LEMMA NextProductionStep ==
  ASSUME EqualityOK, Equality!NextProduction PROVE EqualityOK'
  <1>1. /\ pc = "compare" /\ Equality!top.p <= Equality!Count(Equality!top) /\ Equality!top.i = 0
        /\ UNCHANGED <<arg1, arg2>>
    BY DEF Equality!NextProduction, Equality!Comparing
  <1>2. CallTyped /\ arg2[1] \in {"fg_ruleEquals", "fg_productionRuleEquals"}
    BY DEF EqualityOK, CallTyped
  <1> DEFINE x1 == Equality!Items(Equality!top, Equality!top.r1)
             x2 == Equality!Items(Equality!top, Equality!top.r2)
  <1>3. CASE Len(x1) # Len(x2) /\ Equality!Answer(FALSE)
    <2>1. ASSUME Len(local1) = 1 PROVE Settled(FALSE)
      <3>1. PICK p \in Nat \ {0}, i \in Nat :
              /\ Base(p, i, 1, pc, local2) /\ Equality!top.p = p
              /\ Equality!Count(Equality!top) =
                   IF arg2[1] = "fg_ruleEquals" THEN Len(List(First)) ELSE 1
              /\ x1 = List(First)[p] /\ x2 = List(Second)[p]
        BY <1>1, <2>1, BaseOnTop
      <3>2. CASE arg2[1] = "fg_productionRuleEquals"
        <4>1. p = 1
          BY <1>1, <3>1, <3>2
        <4>2. ~Equality!SameItems(List(First)[1], List(Second)[1])
          BY <1>3, <3>1, <4>1 DEF Equality!SameItems
        <4> QED
          BY <1>2, <3>2, <4>2, SameProductions DEF Settled
      <3>3. CASE arg2[1] = "fg_ruleEquals"
        <4>1. p \in 1 .. Len(List(First)) /\ First # Second
          BY <1>1, <1>2, <3>1, <3>3, ListTypes DEF Base, RuleBase
        <4>2. ~Equality!SameShape(First, Second)
          BY <1>2, <1>3, <3>1, <4>1, SameRules
        <4> QED
          BY <3>3, <4>1, <4>2 DEF Settled
      <3> QED
        BY <1>2, <3>2, <3>3
    <2> QED
      BY <1>1, <1>3, <2>1, AnswerStep
  <1>4. CASE /\ Len(x1) = Len(x2) /\ Equality!Replace([Equality!top EXCEPT !.i = 1])
             /\ UNCHANGED <<local2, local3, pc>>
    <2>1. ASSUME Len(local1) = 1
          PROVE  \E p \in Nat \ {0}, i \in Nat :
                   /\ [Equality!top EXCEPT !.i = 1] = FrameAt(p, i)
                   /\ Base(p, i, 1, "compare", local2)
      <3>1. PICK p \in Nat \ {0}, i \in Nat :
              /\ Base(p, i, 1, pc, local2) /\ Equality!top.p = p /\ Equality!top.i = i
              /\ Equality!top = FrameAt(p, i)
              /\ Equality!Count(Equality!top) =
                   IF arg2[1] = "fg_ruleEquals" THEN Len(List(First)) ELSE 1
              /\ x1 = List(First)[p] /\ x2 = List(Second)[p]
        BY <1>1, <2>1, BaseOnTop
      <3>2. [Equality!top EXCEPT !.i = 1] = FrameAt(p, 1)
        BY <3>1 DEF FrameAt
      <3>3. Len(List(First)[p]) = Len(List(Second)[p])
        BY <1>4, <3>1
      <3>4. CASE arg2[1] = "fg_ruleEquals"
        <4>1. p \in 1 .. Len(List(First)) /\ Len(List(First)[p]) \in Nat
          BY <1>1, <1>2, <3>1, <3>4, ListTypes
        <4>2. RuleBase(p, 0, 1, pc, local2)
          BY <1>1, <3>1, <3>4 DEF Base
        <4>3. FlatRules => RuleItems(p, 1, 1, "compare", local2)
          <5>1. Differ(p, 1 - 1)
            BY DEF Differ
          <5> QED
            BY <4>1, <4>2, <5>1 DEF RuleBase, RuleItems
        <4>4. RuleBase(p, 1, 1, "compare", local2)
          BY <3>3, <4>2, <4>3 DEF RuleBase
        <4> QED
          BY <3>2, <3>4, <4>4 DEF Base
      <3>5. CASE arg2[1] = "fg_productionRuleEquals"
        <4>1. p = 1
          BY <1>1, <3>1, <3>5
        <4>2. Len(List(First)[1]) \in Nat
          BY <1>2, SameProductions
        <4>3. ProductionBase(1, 1, 1, "compare", local2)
          BY <3>3, <4>1, <4>2 DEF ProductionBase
        <4> QED
          BY <3>2, <3>5, <4>1, <4>3 DEF Base
      <3> QED
        BY <1>2, <3>4, <3>5
    <2>2. pc' = "compare" /\ local2' = local2
      BY <1>1, <1>4
    <2>3. PICK f : f = [Equality!top EXCEPT !.i = 1]
      OBVIOUS
    <2>4. /\ Equality!Replace(f)
          /\ Len(local1) = 1 =>
               \E p \in Nat \ {0}, i \in Nat :
                 f = FrameAt(p, i) /\ Base(p, i, 1, "compare", local2)
      BY <1>4, <2>1, <2>3
    <2> QED
      BY <1>1, <2>2, <2>4, ReplaceStep
  <1> QED
    BY <1>3, <1>4 DEF Equality!NextProduction

LEMMA NextItemStep ==
  ASSUME EqualityOK, Equality!NextItem PROVE EqualityOK'
  <1>1. pc = "returned" /\ UNCHANGED <<arg1, arg2>>
    BY DEF Equality!NextItem
  <1>2. /\ CallTyped /\ arg2[1] \in {"fg_ruleEquals", "fg_productionRuleEquals"}
        /\ local2 \in BOOLEAN
    BY DEF EqualityOK, CallTyped
  <1>3. CASE ~Equality!ComparatorIsZero /\ Equality!Answer(FALSE)
    <2>1. ASSUME Len(local1) = 1 PROVE Settled(FALSE)
      <3>1. PICK p \in Nat \ {0}, i \in Nat :
              /\ Base(p, i, 1, pc, local2)
              /\ Equality!top.comparator = IF arg2[1] = "fg_ruleEquals" THEN "fg_PRItemEquals"
                                           ELSE "prItemComparator"
        BY <1>1, <2>1, BaseOnTop
      <3>2. CASE arg2[1] = "fg_productionRuleEquals"
        <4>1. local2 = FALSE
          BY <1>2, <1>3, <3>1, <3>2 DEF Equality!ComparatorIsZero
        <4>2. ProductionBase(p, i, 1, pc, local2)
          BY <3>1, <3>2 DEF Base
        <4>3. FlatProductions =>
                /\ i \in 1 .. Len(List(First)[1])
                /\ ~Equality!SameItem(List(First)[1][i], List(Second)[1][i])
          BY <1>1, <4>1, <4>2 DEF ProductionBase
        <4>4. FlatProductions => ~Equality!SameItems(List(First)[1], List(Second)[1])
          BY <1>2, <4>3, SameProductions
        <4> QED
          BY <1>2, <3>2, <4>4, SameProductions DEF Settled
      <3>3. CASE arg2[1] = "fg_ruleEquals"
        <4>1. local2 = TRUE
          BY <1>2, <1>3, <3>1, <3>3 DEF Equality!ComparatorIsZero
        <4>2. RuleBase(p, i, 1, pc, local2)
          BY <3>1, <3>3 DEF Base
        <4>3. ASSUME FlatRules
              PROVE  First # Second /\ ~Equality!NoItemSame(First, Second)
          <5>1. /\ p \in 1 .. Len(List(First)) /\ i \in 1 .. Len(List(First)[p])
                /\ Equality!SameItem(List(First)[p][i], List(Second)[p][i])
                /\ First # Second
            BY <1>1, <1>2, <4>1, <4>2, <4>3, ListTypes DEF RuleBase, RuleItems
          <5> QED
            BY <1>2, <5>1, SameRules DEF Differ
        <4> QED
          BY <1>2, <3>3, <4>3, SameRules DEF Settled
      <3> QED
        BY <1>2, <3>2, <3>3
    <2> QED
      BY <1>1, <1>3, <2>1, AnswerStep
  <1>4. CASE /\ Equality!ComparatorIsZero
             /\ Equality!Replace(Equality!FollowingItem(Equality!top))
             /\ pc' = "compare" /\ local2' = local2
    <2>1. ASSUME Len(local1) = 1
          PROVE  \E p \in Nat \ {0}, i \in Nat :
                   /\ Equality!FollowingItem(Equality!top) = FrameAt(p, i)
                   /\ Base(p, i, 1, "compare", local2)
      <3>1. PICK p \in Nat \ {0}, i \in Nat :
              /\ Base(p, i, 1, pc, local2) /\ Equality!top = FrameAt(p, i)
              /\ Equality!top.comparator = IF arg2[1] = "fg_ruleEquals" THEN "fg_PRItemEquals"
                                           ELSE "prItemComparator"
        BY <1>1, <2>1, BaseOnTop
      <3>2. Equality!FollowingItem(Equality!top) = FrameAt(p, i + 1) /\ i + 1 \in Nat
        BY <3>1 DEF Equality!FollowingItem, FrameAt
      <3>3. CASE arg2[1] = "fg_ruleEquals"
        <4>1. local2 = FALSE
          BY <1>2, <1>4, <3>1, <3>3 DEF Equality!ComparatorIsZero
        <4>2. RuleBase(p, i, 1, pc, local2)
          BY <3>1, <3>3 DEF Base
        <4>3. FlatRules => RuleItems(p, i + 1, 1, "compare", local2)
          <5> SUFFICES ASSUME FlatRules PROVE RuleItems(p, i + 1, 1, "compare", local2)
            OBVIOUS
          <5>1. /\ RuleItems(p, i, 1, pc, local2) /\ i \in 1 .. Len(List(First)[p])
                /\ p <= Len(List(First)) /\ Differ(p, i - 1)
                /\ ~Equality!SameItem(List(First)[p][i], List(Second)[p][i])
            BY <1>1, <4>1, <4>2 DEF RuleBase, RuleItems
          <5>2. \A j \in 1 .. i + 1 - 1 : j = i \/ j \in 1 .. i - 1
            OBVIOUS
          <5>3. Differ(p, i + 1 - 1)
            BY <5>1, <5>2 DEF Differ
          <5>4. Len(List(First)[p]) \in Nat
            BY <1>2, <5>1, ListTypes
          <5>5. /\ 1 = 1 /\ p <= Len(List(First)) + 1
                /\ \A q \in 1 .. p - 1 : Differ(q, Len(List(First)[q]))
                /\ i + 1 <= Len(List(First)[p]) + 1
            BY <5>1, <5>4 DEF RuleItems
          <5> QED
            BY <5>1, <5>3, <5>5 DEF RuleItems
        <4>4. RuleBase(p, i + 1, 1, "compare", local2)
          BY <1>1, <4>2, <4>3 DEF RuleBase
        <4> QED
          BY <3>2, <3>3, <4>4 DEF Base
      <3>4. CASE arg2[1] = "fg_productionRuleEquals"
        <4>1. local2 = TRUE
          BY <1>2, <1>4, <3>1, <3>4 DEF Equality!ComparatorIsZero
        <4>2. ProductionBase(p, i, 1, pc, local2)
          BY <3>1, <3>4 DEF Base
        <4>3. Len(List(First)[1]) \in Nat
          BY <1>2, SameProductions
        <4>4. ProductionBase(p, i + 1, 1, "compare", local2)
          <5> SUFFICES ASSUME FlatProductions
                       PROVE  ProductionBase(p, i + 1, 1, "compare", local2)
            BY DEF ProductionBase
          <5>1. /\ p = 1 /\ i \in 1 .. Len(List(First)[1])
                /\ Len(List(First)[1]) = Len(List(Second)[1])
                /\ Equality!SameItem(List(First)[1][i], List(Second)[1][i])
                /\ \A j \in 1 .. i - 1 : Equality!SameItem(List(First)[1][j], List(Second)[1][j])
            BY <1>1, <4>1, <4>2 DEF ProductionBase
          <5>2. \A j \in 1 .. i + 1 - 1 : j = i \/ j \in 1 .. i - 1
            OBVIOUS
          <5> QED
            BY <4>3, <5>1, <5>2 DEF ProductionBase
        <4> QED
          BY <3>2, <3>4, <4>4 DEF Base
      <3> QED
        BY <1>2, <3>3, <3>4
    <2>2. PICK f : f = Equality!FollowingItem(Equality!top)
      OBVIOUS
    <2>3. /\ Equality!Replace(f)
          /\ Len(local1) = 1 =>
               \E p \in Nat \ {0}, i \in Nat :
                 f = FrameAt(p, i) /\ Base(p, i, 1, "compare", local2)
      BY <1>4, <2>1, <2>2
    <2> QED
      BY <1>1, <1>4, <2>3, ReplaceStep
  <1> QED
    BY <1>3, <1>4 DEF Equality!NextItem

LEMMA ProductionEndStep ==
  ASSUME EqualityOK, Equality!ProductionEnd PROVE EqualityOK'
  <1> DEFINE items == Equality!Items(Equality!top, Equality!top.r1)
             g == [Equality!top EXCEPT !.p = @ + 1, !.i = 0]
  <1>1. /\ pc = "compare" /\ Equality!top.p <= Equality!Count(Equality!top)
        /\ Equality!top.i > Len(items)
        /\ Equality!Replace(g)
        /\ UNCHANGED <<arg1, arg2, local2, pc>>
    BY DEF Equality!ProductionEnd, Equality!Comparing
  <1>2. CallTyped /\ arg2[1] \in {"fg_ruleEquals", "fg_productionRuleEquals"}
    BY DEF EqualityOK, CallTyped
  <1>3. ASSUME Len(local1) = 1
        PROVE  \E p \in Nat \ {0}, i \in Nat :
                 g = FrameAt(p, i) /\ Base(p, i, 1, "compare", local2)
    <2>1. PICK p \in Nat \ {0}, i \in Nat :
            /\ Base(p, i, 1, pc, local2) /\ Equality!top.p = p /\ Equality!top.i = i
            /\ Equality!top = FrameAt(p, i)
            /\ Equality!Count(Equality!top) =
                 IF arg2[1] = "fg_ruleEquals" THEN Len(List(First)) ELSE 1
            /\ items = List(First)[p]
      BY <1>1, <1>3, BaseOnTop
    <2>2. g = FrameAt(p + 1, 0) /\ p + 1 \in Nat \ {0} /\ 0 \in Nat
      <3>1. PICK f : f = Equality!top
        OBVIOUS
      <3>2. PICK c : c = IF arg2[1] = "fg_ruleEquals" THEN "fg_PRItemEquals"
                         ELSE "prItemComparator"
        OBVIOUS
      <3>3. /\ f = [r1 |-> First, r2 |-> Second, comparator |-> c, p |-> p, i |-> i]
            /\ FrameAt(p + 1, 0) =
                 [r1 |-> First, r2 |-> Second, comparator |-> c, p |-> p + 1, i |-> 0]
        BY <2>1, <3>1, <3>2 DEF FrameAt
      <3>4. [f EXCEPT !.p = f.p + 1, !.i = 0] = FrameAt(p + 1, 0)
        <4>1. /\ DOMAIN f = {"r1", "r2", "comparator", "p", "i"} /\ f.r1 = First
              /\ f.r2 = Second /\ f.comparator = c /\ f.p = p /\ f.i = i
          BY <3>3
        <4>2. PICK h : h = [f EXCEPT !.p = f.p + 1, !.i = 0]
          OBVIOUS
        <4>3. /\ h = [x \in {"r1", "r2", "comparator", "p", "i"} |-> h[x]]
              /\ h.r1 = First /\ h.r2 = Second /\ h.comparator = c /\ h.p = p + 1 /\ h.i = 0
          BY <4>1, <4>2
        <4>4. h = [r1 |-> First, r2 |-> Second, comparator |-> c, p |-> p + 1, i |-> 0]
          BY <4>3
        <4> QED
          BY <3>3, <4>2, <4>4
      <3>5. g = [f EXCEPT !.p = f.p + 1, !.i = 0]
        BY <3>1
      <3> QED
        BY <3>4, <3>5
    <2>3. CASE arg2[1] = "fg_ruleEquals"
      <3>1. p \in 1 .. Len(List(First))
        BY <1>1, <1>2, <2>1, <2>3, ListTypes
      <3>2. Len(List(First)[p]) \in Nat
        BY <1>2, <3>1, ListTypes
      <3>3. i >= 1
        BY <1>1, <2>1, <3>2
      <3>4. RuleBase(p, i, 1, pc, local2)
        BY <2>1, <2>3 DEF Base
      <3>5. \A q \in 1 .. p + 1 - 1 : q = p \/ q \in 1 .. p - 1
        OBVIOUS
      <3>6. FlatRules => RuleItems(p + 1, 0, 1, "compare", local2)
        <4> SUFFICES ASSUME FlatRules PROVE RuleItems(p + 1, 0, 1, "compare", local2)
          OBVIOUS
        <4>1. /\ \A q \in 1 .. p - 1 : Differ(q, Len(List(First)[q]))
              /\ i <= Len(List(First)[p]) + 1 /\ Differ(p, i - 1)
          BY <3>3, <3>4 DEF RuleBase, RuleItems
        <4>2. i - 1 = Len(List(First)[p])
          BY <1>1, <2>1, <3>2, <4>1
        <4>3. \A q \in 1 .. p + 1 - 1 : Differ(q, Len(List(First)[q]))
          BY <3>5, <4>1, <4>2
        <4> QED
          BY <1>1, <3>1, <4>3 DEF RuleItems
      <3>7. RuleBase(p + 1, 0, 1, "compare", local2)
        BY <3>3, <3>4, <3>5, <3>6 DEF RuleBase
      <3> QED
        BY <2>2, <2>3, <3>7 DEF Base
    <2>4. CASE arg2[1] = "fg_productionRuleEquals"
      <3>1. p = 1 /\ ProductionBase(p, i, 1, pc, local2)
        BY <1>1, <2>1, <2>4 DEF Base
      <3>2. Len(List(First)[1]) \in Nat /\ i > Len(List(First)[1])
        BY <1>1, <1>2, <2>1, <3>1, SameProductions
      <3>3. FlatProductions =>
              /\ Len(List(First)[1]) = Len(List(Second)[1])
              /\ \A j \in 1 .. Len(List(First)[1]) :
                   Equality!SameItem(List(First)[1][j], List(Second)[1][j])
        BY <3>1, <3>2 DEF ProductionBase
      <3>4. FlatProductions => Equality!SameItems(List(First)[1], List(Second)[1])
        BY <1>2, <3>3, SameProductions
      <3>5. ProductionBase(2, 0, 1, "compare", local2)
        BY <3>4 DEF ProductionBase
      <3> QED
        BY <2>2, <2>4, <3>1, <3>5 DEF Base
    <2> QED
      BY <1>2, <2>3, <2>4
  <1>4. PICK f : f = g
    OBVIOUS
  <1> HIDE DEF g
  <1>5. /\ Equality!Replace(f)
        /\ Len(local1) = 1 =>
             \E p \in Nat \ {0}, i \in Nat :
               f = FrameAt(p, i) /\ Base(p, i, 1, "compare", local2)
    BY <1>1, <1>3, <1>4
  <1>6. pc' = "compare" /\ local2' = local2
    BY <1>1
  <1> QED
    BY <1>1, <1>5, <1>6, ReplaceStep

(* What fg_PRItemEquals knows of two items without calling ll_isEqual. *)
LEMMA KnownStep ==
  ASSUME EqualityOK, pc = "compare", Equality!top.p <= Equality!Count(Equality!top),
         Equality!top.i \in 1 .. Len(Equality!Items(Equality!top, Equality!top.r1)),
         UNCHANGED <<arg1, arg2, local1>>, pc' = "returned",
         NEW b \in BOOLEAN, local2' = b,
         LET x == Equality!Items(Equality!top, Equality!top.r1)[Equality!top.i]
             y == Equality!Items(Equality!top, Equality!top.r2)[Equality!top.i]
         IN Flat /\ Len(local1) = 1 /\ x.type # "FG_RULE_ITEM" => b = Equality!SameItem(x, y)
  PROVE  EqualityOK'
  <1>1. /\ CallTyped /\ arg2[1] \in {"fg_ruleEquals", "fg_productionRuleEquals"}
        /\ IsStack(local1) /\ Len(local1) \in Nat \ {0}
    BY DEF EqualityOK, CallTyped
  <1>2. CASE Len(local1) = 1
    <2>1. PICK p \in Nat \ {0}, i \in Nat :
            /\ Base(p, i, 1, pc, local2) /\ Equality!top.p = p /\ Equality!top.i = i
            /\ local1[1] = FrameAt(p, i)
            /\ Equality!Count(Equality!top) =
                 IF arg2[1] = "fg_ruleEquals" THEN Len(List(First)) ELSE 1
            /\ Equality!Items(Equality!top, Equality!top.r1) = List(First)[p]
            /\ Equality!Items(Equality!top, Equality!top.r2) = List(Second)[p]
      BY <1>2, BaseOnTop
    <2> DEFINE x == List(First)[p][i]
               y == List(Second)[p][i]
    <2>2. Flat /\ x.type # "FG_RULE_ITEM" => b = Equality!SameItem(x, y)
      BY <1>2, <2>1
    <2>3. i \in 1 .. Len(List(First)[p])
      BY <2>1
    <2>4. CASE arg2[1] = "fg_ruleEquals"
      <3>1. i >= 1
        BY <1>1, <2>3
      <3>2. RuleBase(p, i, 1, pc, local2) /\ p \in 1 .. Len(List(First))
        BY <1>1, <2>1, <2>4, ListTypes DEF Base
      <3>3. FlatRules => x.type # "FG_RULE_ITEM"
        <4>1. /\ p \in DOMAIN List(First) /\ i \in DOMAIN List(First)[p]
          BY <1>1, <2>3, <3>2, ListTypes
        <4> QED
          BY <4>1 DEF FlatRules, Equality!IsFlatRule, Equality!IsFlat, List
      <3>4. FlatRules => RuleItems(p, i, 1, "returned", b)
        <4> SUFFICES ASSUME FlatRules PROVE RuleItems(p, i, 1, "returned", b)
          OBVIOUS
        <4>1. RuleItems(p, i, 1, pc, local2)
          BY <3>2 DEF RuleBase
        <4>2. b = Equality!SameItem(x, y)
          BY <2>2, <2>4, <3>3 DEF Flat
        <4> HIDE DEF x, y
        <4>3. b = Equality!SameItem(List(First)[p][i], List(Second)[p][i])
          BY <4>2 DEF x, y
        <4> QED
          BY <2>3, <3>2, <4>1, <4>3 DEF RuleItems
      <3>5. RuleBase(p, i, 1, "returned", b)
        BY <3>1, <3>2, <3>4 DEF RuleBase
      <3>6. Base(p, i, 1, "returned", b)
        BY <2>4, <3>5 DEF Base
      <3> QED
        BY <1>1, <1>2, <2>1, <3>6, Continue
    <2>5. CASE arg2[1] = "fg_productionRuleEquals"
      <3>1. p = 1 /\ ProductionBase(p, i, 1, pc, local2)
        BY <2>1, <2>5 DEF Base
      <3>2. FlatProductions => x.type # "FG_RULE_ITEM"
        BY <1>1, <2>3, <3>1, SameProductions DEF FlatProductions, Equality!IsFlat
      <3>3. ProductionBase(p, i, 1, "returned", b)
        BY <2>2, <2>3, <2>5, <3>1, <3>2 DEF ProductionBase, Flat
      <3>4. Base(p, i, 1, "returned", b)
        BY <2>5, <3>3 DEF Base
      <3> QED
        BY <1>1, <1>2, <2>1, <3>4, Continue
    <2> QED
      BY <1>1, <2>4, <2>5
  <1>3. CASE Len(local1) # 1
    <2>1. IsStack(local1') /\ Len(local1') \in Nat \ {0} /\ local1'[1] = local1[1]
      BY <1>1
    <2> QED
      BY <1>3, <2>1, Deeper
  <1> QED
    BY <1>2, <1>3

(* A reference to a rule is called from the frame on top. *)
LEMMA PushStep ==
  ASSUME EqualityOK, pc = "compare", Equality!top.p <= Equality!Count(Equality!top),
         Equality!top.i \in 1 .. Len(Equality!Items(Equality!top, Equality!top.r1)),
         Equality!Items(Equality!top, Equality!top.r1)[Equality!top.i].type = "FG_RULE_ITEM",
         NEW f, local1' = Append(local1, f), UNCHANGED <<arg1, arg2, local2, pc>>
  PROVE  EqualityOK'
  <1>1. /\ CallTyped /\ arg2[1] \in {"fg_ruleEquals", "fg_productionRuleEquals"}
        /\ IsStack(local1) /\ Len(local1) \in Nat \ {0} /\ local2 \in BOOLEAN
    BY DEF EqualityOK, CallTyped
  <1>2. IsStack(local1') /\ Len(local1') = Len(local1) + 1 /\ local1'[1] = local1[1]
    <2>1. IsStack(Append(local1, f)) /\ Len(Append(local1, f)) = Len(local1) + 1
          /\ Append(local1, f)[1] = local1[1]
      BY <1>1, StackPushed
    <2> QED
      BY <2>1
  <1>3. CASE Len(local1) = 1
    <2>1. PICK p \in Nat \ {0}, i \in Nat :
            /\ Base(p, i, 1, pc, local2) /\ Equality!top.p = p /\ Equality!top.i = i
            /\ local1[1] = FrameAt(p, i)
            /\ Equality!Count(Equality!top) =
                 IF arg2[1] = "fg_ruleEquals" THEN Len(List(First)) ELSE 1
            /\ Equality!Items(Equality!top, Equality!top.r1) = List(First)[p]
      BY <1>3, BaseOnTop
    <2>2. i \in 1 .. Len(List(First)[p]) /\ List(First)[p][i].type = "FG_RULE_ITEM"
      BY <2>1
    <2>3. PICK b \in BOOLEAN : b = local2
      BY <1>1
    <2>4. Base(p, i, 2, "compare", b)
      <3>1. CASE arg2[1] = "fg_ruleEquals"
        <4>1. i >= 1
          BY <1>1, <2>2
        <4>2. p \in DOMAIN List(First) /\ i \in DOMAIN List(First)[p]
          BY <1>1, <2>1, <2>2, <3>1, ListTypes
        <4>3. ~FlatRules
          BY <2>2, <4>2 DEF FlatRules, Equality!IsFlatRule, Equality!IsFlat, List
        <4> QED
          BY <2>1, <3>1, <4>1, <4>3 DEF Base, RuleBase
      <3>2. CASE arg2[1] = "fg_productionRuleEquals"
        <4>1. p = 1
          BY <2>1, <3>2
        <4>2. ~FlatProductions
          BY <1>1, <2>2, <4>1, SameProductions DEF FlatProductions, Equality!IsFlat
        <4> QED
          BY <3>2, <4>2 DEF Base, ProductionBase
      <3> QED
        BY <1>1, <3>1, <3>2
    <2>5. /\ Len(local1') = 2 /\ local1'[1] = FrameAt(p, i) /\ pc' = "compare" /\ local2' = b
          /\ 2 \in Nat \ {0} /\ "compare" \in {"compare", "returned"}
      BY <1>2, <1>3, <2>1, <2>3
    <2> QED
      BY <1>1, <1>2, <2>4, <2>5, Continue
  <1>4. CASE Len(local1) # 1
    <2>1. Len(local1') \in Nat \ {0} /\ pc' \in {"compare", "returned"} /\ local2' \in BOOLEAN
      BY <1>1, <1>2
    <2> QED
      BY <1>2, <1>4, <2>1, Deeper
  <1> QED
    BY <1>3, <1>4

LEMMA CompareItemsStep ==
  ASSUME EqualityOK, Equality!CompareItems PROVE EqualityOK'
  <1> DEFINE items1 == Equality!Items(Equality!top, Equality!top.r1)
             items2 == Equality!Items(Equality!top, Equality!top.r2)
             i == Equality!top.i
             x1 == items1[i]
             x2 == items2[i]
             known(b) == local2' = b /\ pc' = "returned" /\ UNCHANGED local1
  <1>1. /\ pc = "compare" /\ Equality!top.p <= Equality!Count(Equality!top)
        /\ i \in 1 .. Len(items1) /\ UNCHANGED <<arg1, arg2, local3>>
    BY DEF Equality!CompareItems, Equality!Comparing
  <1>2. CallTyped /\ local2 \in BOOLEAN
    BY DEF EqualityOK
  <1>3. ASSUME NEW b \in BOOLEAN, known(b),
               Flat /\ Len(local1) = 1 /\ x1.type # "FG_RULE_ITEM"
               => b = Equality!SameItem(x1, x2)
        PROVE  EqualityOK'
    BY <1>1, <1>3, KnownStep
  <1>4. CASE x1.type # x2.type /\ known(FALSE)
    <2>1. FALSE = Equality!SameItem(x1, x2)
      BY <1>4 DEF Equality!SameItem
    <2> QED
      BY <1>3, <1>4, <2>1
  <1>5. CASE /\ x1.type = x2.type /\ x1.type = "FG_STRING_ITEM"
             /\ known(x1.value = x2.value)
    <2>1. (x1.value = x2.value) = Equality!SameItem(x1, x2) /\ (x1.value = x2.value) \in BOOLEAN
      BY <1>5 DEF Equality!SameItem
    <2> QED
      BY <1>3, <1>5, <2>1
  <1>6. CASE /\ x1.type = x2.type /\ x1.type = "FG_TOKEN_ITEM"
             /\ known(Equality!TokenEquals(x1.value, x2.value))
    <2>1. PICK b \in BOOLEAN : b = Equality!TokenEquals(x1.value, x2.value)
      BY DEF Equality!TokenEquals
    <2>2. ASSUME Flat, Len(local1) = 1
          PROVE  b = Equality!SameItem(x1, x2)
      <3>1. PICK p \in Nat \ {0}, q \in Nat :
              /\ Base(p, q, 1, pc, local2) /\ Equality!top.p = p /\ i = q
              /\ Equality!Count(Equality!top) =
                   IF arg2[1] = "fg_ruleEquals" THEN Len(List(First)) ELSE 1
              /\ items1 = List(First)[p] /\ items2 = List(Second)[p]
        BY <1>1, <2>2, BaseOnTop
      <3>2. q \in 1 .. Len(List(First)[p])
        BY <1>1, <3>1
      <3>3. /\ p \in 1 .. Len(List(First)) /\ p \in 1 .. Len(List(Second))
            /\ Len(List(First)[p]) = Len(List(Second)[p])
        <4>1. Len(List(First)) \in Nat \ {0} /\ Len(List(Second)) \in Nat \ {0}
          BY <1>2, ListTypes
        <4>2. CASE arg2[1] = "fg_ruleEquals"
          <5>1. RuleBase(p, q, 1, pc, local2) /\ p \in 1 .. Len(List(First))
            BY <1>1, <3>1, <4>1, <4>2 DEF Base
          <5>2. q >= 1
            BY <1>2, <3>2, <5>1, ListTypes
          <5> QED
            BY <4>1, <5>1, <5>2 DEF RuleBase
        <4>3. CASE arg2[1] # "fg_ruleEquals"
          <5>1. p = 1 /\ ProductionBase(p, q, 1, pc, local2) /\ FlatProductions
            BY <1>1, <2>2, <3>1, <4>3 DEF Base, Flat
          <5>2. q >= 1
            BY <1>2, <3>2, <4>1, <5>1, ListTypes
          <5> QED
            BY <4>1, <5>1, <5>2 DEF ProductionBase
        <4> QED
          BY <4>2, <4>3
      <3>4. /\ x1 = List(First)[p][q] /\ x2 = List(Second)[p][q]
        BY <3>1
      <3>5. x1.value \in DOMAIN Tokens /\ x2.value \in DOMAIN Tokens
        <4>1. /\ \A j \in 1 .. Len(List(First)[p]) :
                   List(First)[p][j].type = "FG_TOKEN_ITEM" => List(First)[p][j].value \in DOMAIN Tokens
              /\ \A j \in 1 .. Len(List(Second)[p]) :
                   List(Second)[p][j].type = "FG_TOKEN_ITEM" => List(Second)[p][j].value \in DOMAIN Tokens
          BY <1>2, <3>3, ListTypes
        <4>2. x1.type = "FG_TOKEN_ITEM" /\ x2.type = "FG_TOKEN_ITEM"
          BY <1>6
        <4> HIDE DEF x1, x2
        <4> QED
          BY <3>2, <3>3, <3>4, <4>1, <4>2
      <3> HIDE DEF x1, x2
      <3>6. b <=> Tokens[x1.value] = Tokens[x2.value]
        BY <2>1, <3>5, SameTokens
      <3> QED
        BY <1>6, <3>6 DEF Equality!SameItem
    <2> QED
      BY <1>3, <1>6, <2>1, <2>2
  <1>7. CASE /\ x1.type = x2.type /\ x1.type = "FG_RULE_ITEM"
             /\ LET result == Equality!RuleEquals(x1.value, x2.value) IN
                  IF "answer" \in DOMAIN result THEN known(result.answer)
                  ELSE /\ pc' = IF Len(local1) = MaxDepth THEN "overflow" ELSE pc
                       /\ local1' = IF Len(local1) = MaxDepth THEN local1
                                    ELSE Append(local1, result.frame)
                       /\ UNCHANGED local2
    <2>1. PICK result : result = Equality!RuleEquals(x1.value, x2.value)
      OBVIOUS
    <2>2. "answer" \in DOMAIN result => result.answer \in BOOLEAN
      BY <2>1 DEF Equality!RuleEquals
    <2>3. CASE "answer" \in DOMAIN result
      BY <1>3, <1>7, <2>1, <2>2, <2>3
    <2>4. CASE "answer" \notin DOMAIN result /\ Len(local1) = MaxDepth
      <3>1. pc' = "overflow" /\ local2' = local2
        BY <1>7, <2>1, <2>4
      <3>2. CallTyped'
        BY <1>1, <1>2, BaseFixed
      <3>3. Equality!ComparisonAnswers'
        BY <3>1 DEF Equality!ComparisonAnswers
      <3> QED
        BY <1>2, <3>1, <3>2, <3>3 DEF EqualityOK
    <2>5. CASE "answer" \notin DOMAIN result /\ Len(local1) # MaxDepth
      <3>1. PICK f : f = result.frame
        OBVIOUS
      <3>2. local1' = Append(local1, f) /\ pc' = pc /\ local2' = local2
        BY <1>7, <2>1, <2>5, <3>1
      <3> QED
        BY <1>1, <1>7, <3>2, PushStep
    <2> QED
      BY <2>3, <2>4, <2>5
  <1> QED
    BY <1>4, <1>5, <1>6, <1>7 DEF Equality!CompareItems

LEMMA EqualityStutters ==
  ASSUME EqualityOK, UNCHANGED <<arg1, arg2, pc, local1, local2, local3>>
  PROVE  EqualityOK'
  <1>1. CASE pc \in {"compare", "returned"}
    <2>1. PICK p \in Nat \ {0}, i \in Nat, n \in Nat \ {0}, w \in {"compare", "returned"},
               b \in BOOLEAN :
            /\ Len(local1) = n /\ pc = w /\ local2 = b
            /\ local1[1] = FrameAt(p, i) /\ Base(p, i, n, w, b)
      BY <1>1 DEF EqualityOK
    <2>2. CallTyped /\ IsStack(local1')
      BY <1>1 DEF EqualityOK
    <2> QED
      BY <2>1, <2>2, Continue
  <1>2. CASE pc = "done"
    <2>1. CallTyped /\ local2 \in BOOLEAN /\ CallTyped'
      BY BaseFixed DEF EqualityOK
    <2>2. Equality!ComparisonAnswers'
      BY <1>2 DEF EqualityOK, Equality!ComparisonAnswers, Equality!SameShape,
                  Equality!NoItemSame, Equality!IsFlatRule
    <2> QED
      BY <1>2, <2>1, <2>2 DEF EqualityOK
  <1>3. CASE pc \notin {"compare", "returned", "done"}
    <2>1. CallTyped /\ local2 \in BOOLEAN /\ CallTyped' /\ (pc = "call" => local1 = <<>>)
      BY BaseFixed DEF EqualityOK
    <2> QED
      BY <1>3, <2>1 DEF EqualityOK, Equality!ComparisonAnswers
  <1> QED
    BY <1>1, <1>2, <1>3

LEMMA EqualityStep == EqualityInv /\ [Next]_vars => EqualityInv'
  <1> SUFFICES ASSUME EqualityInv, [Next]_vars PROVE EqualityInv'
    OBVIOUS
  <1>1. CASE function = "equality" /\ Equality!Next
    <2>1. EqualityOK
      BY <1>1 DEF EqualityInv
    <2>2. CASE Equality!Call
      BY <2>1, <2>2, CallStep DEF EqualityInv
    <2>3. CASE Equality!ProductionsEnd
      BY <2>1, <2>3, ProductionsEndStep DEF EqualityInv
    <2>4. CASE Equality!NextProduction
      BY <2>1, <2>4, NextProductionStep DEF EqualityInv
    <2>5. CASE Equality!CompareItems
      BY <2>1, <2>5, CompareItemsStep DEF EqualityInv
    <2>6. CASE Equality!NextItem
      BY <2>1, <2>6, NextItemStep DEF EqualityInv
    <2>7. CASE Equality!ProductionEnd
      BY <2>1, <2>7, ProductionEndStep DEF EqualityInv
    <2>8. CASE Equality!Returned
      <3>1. UNCHANGED <<arg1, arg2, pc, local1, local2, local3>>
        BY <2>8 DEF Equality!Returned, Equality!vars
      <3> QED
        BY <2>1, <3>1, EqualityStutters DEF EqualityInv
    <2> QED
      BY <1>1, <2>2, <2>3, <2>4, <2>5, <2>6, <2>7, <2>8 DEF Equality!Next
  <1>2. CASE function' = function /\ function # "equality"
    BY <1>2 DEF EqualityInv
  <1>3. CASE UNCHANGED vars
    <2>1. UNCHANGED <<function, arg1, arg2, pc, local1, local2, local3>>
      BY <1>3 DEF vars
    <2> QED
      BY <2>1, EqualityStutters DEF EqualityInv
  <1> QED
    BY <1>1, <1>2, <1>3
    DEF Next, RunStrings, RunReading, RunRanging, RunMessage, RunEquality

LEMMA InitEqualityInv == Init => EqualityInv
  <1> SUFFICES ASSUME Init, function = "equality" PROVE EqualityOK
    BY DEF EqualityInv
  <1>1. Equality!Init
    BY DEF Init
  <1>2. CallTyped /\ local2 \in BOOLEAN /\ pc = "call" /\ local1 = <<>>
    BY <1>1 DEF Equality!Init, CallTyped
  <1> QED
    BY <1>2 DEF EqualityOK, Equality!ComparisonAnswers

(***************************************************************************)
(* For all grammars, tokens and depths of the stack: productions without   *)
(* references are equal to fg_productionRuleEquals exactly when their      *)
(* items are; different rules without references are equal to              *)
(* fg_ruleEquals exactly when they have one name and one shape and no item *)
(* of the one is that of the other (formal_grammar.c:256-382).             *)
(***************************************************************************)
THEOREM ComparisonIsKnown == Spec => []ComparisonAnswers
  <1>1. EqualityInv => ComparisonAnswers
    BY DEF EqualityInv, EqualityOK, ComparisonAnswers
  <1> QED
    BY <1>1, InitEqualityInv, EqualityStep, PTL DEF Spec
-----------------------------------------------------------------------------
(* What the texts of string_utils.c and the copies of them consist of *)
Char == STRING \cup Strings!Blanks
-----------------------------------------------------------------------------
(* Ranks: how many elements of a set are not greater than a number *)

LEMMA RankIsCardinality ==
  /\ \A S : Strings!Cardinality(S) = Cardinality(S)
  /\ \A S, p : Strings!Rank(S, p) = Cardinality({q \in S : q <= p})
  BY DEF Strings!Rank, Strings!Cardinality, Cardinality

(* A function onto a set that never takes a value twice shows that it has as many elements. *)
LEMMA SameSize ==
  ASSUME NEW n \in Nat, NEW S, \A x \in S : x \in 1 .. n, NEW T, NEW f \in [S -> T],
         \A p, q \in S : p # q => f[p] # f[q],
         \A y \in T : \E p \in S : f[p] = y
  PROVE  Cardinality(S) = Cardinality(T)
  <1>1. IsFiniteSet(1 .. n)
    BY FS_Interval
  <1>2. IsFiniteSet(S)
    BY <1>1, FS_Subset
  <1>3. f \in Bijection(S, T)
    BY DEF Bijection, Injection, Surjection, IsInjective
  <1>4. ExistsBijection(S, T)
    BY <1>3 DEF ExistsBijection
  <1> QED
    BY <1>2, <1>4, FS_Bijection

LEMMA RankTypes ==
  ASSUME NEW n \in Nat, NEW S, \A x \in S : x \in 1 .. n, NEW p \in Nat
  PROVE  /\ IsFiniteSet({q \in S : q <= p})
         /\ Strings!Rank(S, p) \in Nat /\ Strings!Rank(S, p) <= p
  <1> DEFINE before == {q \in S : q <= p}
  <1>1. IsFiniteSet(1 .. p) /\ Cardinality(1 .. p) = p
    BY FS_Interval
  <1>2. \A q \in before : q \in 1 .. p
    OBVIOUS
  <1>3. IsFiniteSet(before) /\ Cardinality(before) <= p
    BY <1>1, <1>2, FS_Subset
  <1>4. Cardinality(before) \in Nat
    BY <1>3, FS_CardinalityType
  <1> QED
    BY <1>3, <1>4, RankIsCardinality

LEMMA RankNext ==
  ASSUME NEW n \in Nat, NEW S, \A x \in S : x \in 1 .. n, NEW p \in Nat
  PROVE  Strings!Rank(S, p + 1) =
           IF p + 1 \in S THEN Strings!Rank(S, p) + 1 ELSE Strings!Rank(S, p)
  <1> DEFINE before == {q \in S : q <= p}
             after == {q \in S : q <= p + 1}
  <1>1. IsFiniteSet(before) /\ p + 1 \notin before
    BY RankTypes
  <1>2. CASE p + 1 \in S
    <2>1. after = before \cup {p + 1}
      BY <1>2
    <2> HIDE DEF before, after
    <2>2. Cardinality(after) = Cardinality(before) + 1
      BY <1>1, <2>1, FS_AddElement
    <2> QED
      BY <1>2, <2>2, RankIsCardinality DEF before, after
  <1>3. CASE p + 1 \notin S
    <2>1. after = before
      BY <1>3
    <2> QED
      BY <1>3, <2>1, RankIsCardinality
  <1> QED
    BY <1>2, <1>3

(* Between two numbers the rank grows by the elements between them. *)
LEMMA RankBetween ==
  ASSUME NEW n \in Nat, NEW S, \A x \in S : x \in 1 .. n, NEW p \in Nat, NEW q \in Nat, p <= q
  PROVE  /\ Strings!Rank(S, q) =
              Strings!Rank(S, p) + Cardinality({x \in S : p < x /\ x <= q})
         /\ IsFiniteSet({x \in S : p < x /\ x <= q})
         /\ Cardinality({x \in S : p < x /\ x <= q}) \in Nat
  <1> DEFINE before == {x \in S : x <= p}
             between == {x \in S : p < x /\ x <= q}
             all == {x \in S : x <= q}
  <1>1. IsFiniteSet(before) /\ IsFiniteSet(all)
    BY RankTypes
  <1>2. between \subseteq all
    OBVIOUS
  <1>3. all = before \cup between /\ before \cap between = {}
    OBVIOUS
  <1> HIDE DEF before, between, all
  <1>4. IsFiniteSet(between)
    BY <1>1, <1>2, FS_Subset
  <1>5. Cardinality(before) \in Nat /\ Cardinality(between) \in Nat
    BY <1>1, <1>4, FS_CardinalityType
  <1>6. Cardinality(all) = Cardinality(before) + Cardinality(between)
    BY <1>1, <1>3, <1>4, <1>5, FS_Union, FS_EmptySet
  <1> QED
    BY <1>4, <1>5, <1>6, RankIsCardinality DEF before, between, all

LEMMA RankGrows ==
  ASSUME NEW n \in Nat, NEW S, \A x \in S : x \in 1 .. n, NEW p \in Nat, NEW q \in Nat, p <= q
  PROVE  /\ Strings!Rank(S, p) <= Strings!Rank(S, q)
         /\ q \in S /\ p < q => Strings!Rank(S, p) < Strings!Rank(S, q)
         /\ (\A x \in p + 1 .. q : x \notin S) => Strings!Rank(S, q) = Strings!Rank(S, p)
         /\ (\A x \in p + 1 .. q : x \in S) => Strings!Rank(S, q) = Strings!Rank(S, p) + (q - p)
  <1> DEFINE between == {x \in S : p < x /\ x <= q}
  <1>1. /\ Strings!Rank(S, q) = Strings!Rank(S, p) + Cardinality(between)
        /\ IsFiniteSet(between) /\ Cardinality(between) \in Nat
    BY RankBetween
  <1>2. Strings!Rank(S, p) \in Nat /\ Strings!Rank(S, q) \in Nat
    BY RankTypes
  <1>3. q \in S /\ p < q => between # {}
    OBVIOUS
  <1>4. (\A x \in p + 1 .. q : x \notin S) => between = {}
    OBVIOUS
  <1>5. (\A x \in p + 1 .. q : x \in S) => between = p + 1 .. q
    OBVIOUS
  <1>6. Cardinality(p + 1 .. q) = q - p
    <2>1. p + 1 \in Int /\ q \in Int
      OBVIOUS
    <2>2. Cardinality(p + 1 .. q) = IF p + 1 > q THEN 0 ELSE q - (p + 1) + 1
      BY <2>1, FS_Interval
    <2> QED
      BY <2>2
  <1> HIDE DEF between
  <1>7. Cardinality(between) = 0 <=> between = {}
    BY <1>1, FS_EmptySet
  <1> QED
    BY <1>1, <1>2, <1>3, <1>4, <1>5, <1>6, <1>7

(* Ranks tell the elements apart. *)
LEMMA RankUnique ==
  ASSUME NEW n \in Nat, NEW S, \A x \in S : x \in 1 .. n, NEW p \in S, NEW q \in S,
         Strings!Rank(S, p) = Strings!Rank(S, q)
  PROVE  p = q
  <1>1. p \in Nat /\ q \in Nat
    OBVIOUS
  <1>2. Strings!Rank(S, p) \in Nat
    BY <1>1, RankTypes
  <1>3. ASSUME p < q PROVE Strings!Rank(S, p) < Strings!Rank(S, q)
    <2>1. p <= q
      BY <1>1, <1>3
    <2> QED
      BY <1>1, <1>3, <2>1, RankGrows
  <1>4. ASSUME q < p PROVE Strings!Rank(S, q) < Strings!Rank(S, p)
    <2>1. q <= p
      BY <1>1, <1>4
    <2> QED
      BY <1>1, <1>4, <2>1, RankGrows
  <1> QED
    BY <1>1, <1>2, <1>3, <1>4

(* An increasing function onto a set keeps the ranks. *)
KeepsOrder(f, S, n, T, m) ==
  /\ n \in Nat /\ \A x \in S : x \in 1 .. n
  /\ m \in Nat /\ \A y \in T : y \in 1 .. m
  /\ f \in [S -> T]
  /\ \A p, q \in S : p < q => f[p] < f[q]
  /\ \A y \in T : \E p \in S : f[p] = y

LEMMA RankKept ==
  ASSUME NEW f, NEW S, NEW n, NEW T, NEW m, KeepsOrder(f, S, n, T, m)
  PROVE  /\ Cardinality(S) = Cardinality(T)
         /\ \A p \in S : Strings!Rank(S, p) = Strings!Rank(T, f[p])
  <1> n \in Nat /\ m \in Nat /\ f \in [S -> T]
    BY DEF KeepsOrder
  <1> /\ \A x \in S : x \in 1 .. n
      /\ \A y \in T : y \in 1 .. m
      /\ \A p, q \in S : p < q => f[p] < f[q]
      /\ \A y \in T : \E p \in S : f[p] = y
    BY DEF KeepsOrder
  <1>1. \A p, q \in S : p \in Nat /\ q \in Nat /\ f[p] \in Nat /\ f[q] \in Nat
    OBVIOUS
  <1>2. \A p, q \in S : p # q => f[p] # f[q]
    BY <1>1
  <1>3. Cardinality(S) = Cardinality(T)
    BY <1>2, SameSize
  <1>4. ASSUME NEW p \in S PROVE Strings!Rank(S, p) = Strings!Rank(T, f[p])
    <2> DEFINE before == {q \in S : q <= p}
               image == {y \in T : y <= f[p]}
               g == [q \in before |-> f[q]]
    <2>1. \A q \in before : q \in 1 .. n
      OBVIOUS
    <2>2. \A q \in before : f[q] \in image
      <3> SUFFICES ASSUME NEW q \in before PROVE f[q] \in image
        OBVIOUS
      <3>1. q \in S /\ q <= p /\ f[q] \in T
        OBVIOUS
      <3>2. q = p \/ q < p
        BY <1>1, <3>1
      <3> QED
        BY <1>1, <3>1, <3>2
    <2>3. g \in [before -> image]
      BY <2>2
    <2>4. \A q, r \in before : q # r => g[q] # g[r]
      BY <1>2
    <2>5. \A y \in image : \E q \in before : g[q] = y
      <3> SUFFICES ASSUME NEW y \in image PROVE \E q \in before : g[q] = y
        OBVIOUS
      <3>1. PICK q \in S : f[q] = y
        OBVIOUS
      <3>2. ~(p < q)
        BY <1>1, <3>1
      <3>3. q \in before
        BY <1>1, <3>2
      <3> QED
        BY <3>1, <3>3
    <2> HIDE DEF before, image, g
    <2>6. Cardinality(before) = Cardinality(image)
      BY <2>1, <2>3, <2>4, <2>5, SameSize
    <2> QED
      BY <2>6, RankIsCardinality DEF before, image
  <1> QED
    BY <1>3, <1>4

LEMMA RankOfElement ==
  ASSUME NEW n \in Nat, NEW S, \A x \in S : x \in 1 .. n, NEW p \in S
  PROVE  Strings!Rank(S, p) \in Nat /\ Strings!Rank(S, p) >= 1
  <1>1. p \in Nat /\ 0 < p /\ 0 <= p /\ 0 \in Nat
    OBVIOUS
  <1>2. Strings!Rank(S, 0) < Strings!Rank(S, p)
    BY <1>1, RankGrows
  <1>3. Strings!Rank(S, 0) \in Nat
    BY <1>1, RankTypes
  <1>4. Strings!Rank(S, p) \in Nat
    BY <1>1, RankTypes
  <1> QED
    BY <1>2, <1>3, <1>4
-----------------------------------------------------------------------------
(* str_removeMultipleSpaces *)

(* the characters the copy takes, and what it makes of them *)
Skipped(t, p) == p < Len(t) /\ t[p] \in Strings!Blanks /\ t[p + 1] \in Strings!Blanks
Taken(t) == {p \in 1 .. Len(t) : ~Skipped(t, p)}
CopyOf(c) == IF c \in Strings!Blanks THEN Strings!Space ELSE c

(* d is the copy of the first p characters of t: the n-th character of it  *)
(* comes from the n-th that is kept.                                       *)
IsCollapsed(d, t, p) ==
  /\ Len(d) = Strings!Rank(Taken(t), p)
  /\ \A q \in Taken(t) : q <= p => d[Strings!Rank(Taken(t), q)] = CopyOf(t[q])
  /\ \A e \in 1 .. Len(d) : \E q \in Taken(t) : q <= p /\ Strings!Rank(Taken(t), q) = e

LEMMA TakenIn ==
  ASSUME NEW t \in Seq(Char)
  PROVE  /\ Len(t) \in Nat
         /\ \A x \in Taken(t) : x \in 1 .. Len(t)
         /\ \A p \in 1 .. Len(t) : t[p] \notin Strings!Blanks => p \in Taken(t)
         /\ \A p \in 1 .. Len(t) : p = Len(t) => p \in Taken(t)
  BY DEF Taken, Skipped

LEMMA Collapsing ==
  ASSUME NEW t \in Seq(Char), NEW d \in Seq(Char), NEW p \in Nat, NEW s \in Nat,
         p < s, s <= Len(t), IsCollapsed(d, t, p), s \in Taken(t),
         \A x \in p + 1 .. s - 1 : x \notin Taken(t)
  PROVE  IsCollapsed(Append(d, CopyOf(t[s])), t, s)
  <1> DEFINE K == Taken(t)
             R(x) == Strings!Rank(K, x)
             copy == Append(d, CopyOf(t[s]))
  <1>1. /\ Len(t) \in Nat /\ \A x \in K : x \in 1 .. Len(t)
        /\ s \in K /\ \A x \in p + 1 .. s - 1 : x \notin K
    BY TakenIn
  <1>2. /\ Len(d) \in Nat /\ Len(d) = R(p)
        /\ \A q \in K : q <= p => d[R(q)] = CopyOf(t[q])
        /\ \A e \in 1 .. Len(d) : \E q \in K : q <= p /\ R(q) = e
    BY DEF IsCollapsed
  <1>3. /\ Len(copy) = Len(d) + 1 /\ copy[Len(d) + 1] = CopyOf(t[s])
        /\ \A i \in 1 .. Len(d) : copy[i] = d[i]
    BY <1>2, AppendProperties
  <1>4. \A q \in K : q <= s => q <= p \/ q = s
    BY <1>1
  <1> HIDE DEF K, copy
  <1>5. s - 1 \in Nat /\ p <= s - 1 /\ s - 1 + 1 = s
    OBVIOUS
  <1>6. R(s - 1) = R(p)
    <2> HIDE DEF R
    <2> DEFINE r == s - 1
    <2>1. r \in Nat /\ p <= r /\ \A x \in p + 1 .. r : x \notin K
      BY <1>1, <1>5
    <2> HIDE DEF r
    <2>2. R(r) = R(p)
      BY <1>1, <2>1, RankGrows DEF R
    <2> QED
      BY <2>2 DEF r
  <1>7. R(s) = R(p) + 1
    <2>1. R(s - 1 + 1) = IF s - 1 + 1 \in K THEN R(s - 1) + 1 ELSE R(s - 1)
      BY <1>1, <1>5, RankNext
    <2> QED
      BY <1>1, <1>5, <1>6, <2>1
  <1>8. \A q \in K : q <= p => R(q) \in 1 .. Len(d)
    <2> SUFFICES ASSUME NEW q \in K, q <= p PROVE R(q) \in 1 .. Len(d)
      OBVIOUS
    <2>1. q \in Nat
      BY <1>1
    <2>2. R(q) \in Nat /\ R(q) >= 1
      BY <1>1, RankOfElement
    <2>3. R(q) <= R(p)
      BY <1>1, <2>1, RankGrows
    <2> QED
      BY <1>2, <2>2, <2>3
  <1>9. \A q \in K : q <= s => copy[R(q)] = CopyOf(t[q])
    BY <1>2, <1>3, <1>4, <1>7, <1>8
  <1>10. \A e \in 1 .. Len(copy) : \E q \in K : q <= s /\ R(q) = e
    <2> SUFFICES ASSUME NEW e \in 1 .. Len(copy) PROVE \E q \in K : q <= s /\ R(q) = e
      OBVIOUS
    <2>1. CASE e = Len(d) + 1
      BY <1>1, <1>2, <1>7, <2>1
    <2>2. CASE e # Len(d) + 1
      <3>1. e \in 1 .. Len(d)
        BY <1>2, <1>3, <2>2
      <3>2. PICK q \in K : q <= p /\ R(q) = e
        BY <1>2, <3>1
      <3>3. q <= s
        BY <1>1, <3>2
      <3> QED
        BY <3>2, <3>3
    <2> QED
      BY <2>1, <2>2
  <1> QED
    BY <1>2, <1>3, <1>7, <1>9, <1>10 DEF IsCollapsed, K, copy

(* Taken together, the positions kept and the copy have the same order. *)
LEMMA CollapsedRanks ==
  ASSUME NEW t \in Seq(Char), NEW d \in Seq(Char), NEW p \in 0 .. Len(t),
         IsCollapsed(d, t, p)
  PROVE  /\ \A q \in Taken(t) : q <= p =>
              /\ Strings!Rank(Taken(t), q) \in 1 .. Len(d)
              /\ d[Strings!Rank(Taken(t), q)] = CopyOf(t[q])
         /\ \A q, r \in Taken(t) :
              /\ q < r => Strings!Rank(Taken(t), q) < Strings!Rank(Taken(t), r)
              /\ Strings!Rank(Taken(t), q) = Strings!Rank(Taken(t), r) => q = r
         /\ \A e \in 1 .. Len(d) :
              \E q \in Taken(t) : q <= p /\ Strings!Rank(Taken(t), q) = e
         /\ Len(d) <= p
  <1> DEFINE K == Taken(t)
             R(x) == Strings!Rank(K, x)
  <1>1. Len(t) \in Nat /\ \A x \in K : x \in 1 .. Len(t)
    BY TakenIn
  <1>2. /\ Len(d) \in Nat /\ Len(d) = R(p)
        /\ \A q \in K : q <= p => d[R(q)] = CopyOf(t[q])
        /\ \A e \in 1 .. Len(d) : \E q \in K : q <= p /\ R(q) = e
    BY DEF IsCollapsed
  <1> HIDE DEF K
  <1>3. p \in Nat /\ \A q \in K : q \in Nat
    BY <1>1
  <1>4. R(p) <= p
    BY <1>1, <1>3, RankTypes
  <1>5. ASSUME NEW q \in K, q <= p PROVE R(q) \in 1 .. Len(d)
    <2>1. R(q) \in Nat /\ R(q) >= 1
      BY <1>1, RankOfElement
    <2>2. R(q) <= R(p)
      BY <1>1, <1>3, <1>5, RankGrows
    <2> QED
      BY <1>2, <2>1, <2>2
  <1>6. ASSUME NEW q \in K, NEW r \in K, q < r PROVE R(q) < R(r)
    <2>1. q \in Nat /\ r \in Nat /\ q <= r
      BY <1>3, <1>6
    <2> QED
      BY <1>1, <1>6, <2>1, RankGrows
  <1>7. ASSUME NEW q \in K, NEW r \in K, R(q) = R(r) PROVE q = r
    BY <1>1, <1>7, RankUnique
  <1> QED
    BY <1>2, <1>4, <1>5, <1>6, <1>7 DEF K

LEMMA Prefixes ==
  ASSUME NEW t \in Seq(Char), NEW p \in 0 .. Len(t)
  PROVE  LET u == SubSeq(t, 1, p)
         IN  Len(u) = p /\ DOMAIN u = 1 .. p /\ \A i \in 1 .. p : u[i] = t[i]
  <1> DEFINE u == SubSeq(t, 1, p)
  <1>1. p \in Nat /\ \A i \in 1 .. p : t[i] \in Char
    OBVIOUS
  <1>2. /\ u \in Seq(Char)
        /\ Len(u) = p - 1 + 1 /\ \A i \in 1 .. p - 1 + 1 : u[i] = t[1 + i - 1]
    BY <1>1, SubSeqProperties
  <1> HIDE DEF u
  <1>3. DOMAIN u = 1 .. Len(u)
    BY <1>2
  <1> QED
    BY <1>1, <1>2, <1>3 DEF u

(* The copy has the characters that are not blanks, in the same order. *)
LEMMA CopySame ==
  ASSUME NEW t \in Seq(Char), NEW d \in Seq(Char), NEW p \in 0 .. Len(t),
         IsCollapsed(d, t, p)
  PROVE  Strings!SameButBlanks(d, SubSeq(t, 1, p))
  <1> DEFINE K == Taken(t)
             R(x) == Strings!Rank(K, x)
             u == SubSeq(t, 1, p)
             S == Strings!Solids(u)
             T == Strings!Solids(d)
             f == [q \in S |-> R(q)]
  <1>1. /\ \A q \in K : q <= p => R(q) \in 1 .. Len(d) /\ d[R(q)] = CopyOf(t[q])
        /\ \A q, r \in K : q < r => R(q) < R(r)
        /\ \A e \in 1 .. Len(d) : \E q \in K : q <= p /\ R(q) = e
    BY CollapsedRanks
  <1>2. /\ Len(t) \in Nat /\ p \in Nat /\ p <= Len(t) /\ Len(d) \in Nat
        /\ \A x \in K : x \in 1 .. Len(t)
        /\ \A q \in 1 .. Len(t) : t[q] \notin Strings!Blanks => q \in K
    BY TakenIn
  <1>3. Len(u) = p /\ DOMAIN u = 1 .. p /\ \A i \in 1 .. p : u[i] = t[i]
    BY Prefixes
  <1> HIDE DEF K, u
  <1>4. \A q : q \in S <=> q \in 1 .. p /\ t[q] \notin Strings!Blanks
    BY <1>3 DEF Strings!Solids
  <1>5. \A e : e \in T <=> e \in 1 .. Len(d) /\ d[e] \notin Strings!Blanks
    BY DEF Strings!Solids
  <1> HIDE DEF S, T
  <1>6. Strings!Space \in Strings!Blanks
    BY DEF Strings!Blanks
  <1>7. ASSUME NEW q \in S
        PROVE  q \in K /\ q <= p /\ R(q) \in T /\ d[R(q)] = t[q] /\ u[q] = t[q]
    <2>1. q \in 1 .. p /\ q \in 1 .. Len(t) /\ t[q] \notin Strings!Blanks
      BY <1>2, <1>4, <1>7
    <2>2. q \in K
      BY <1>2, <2>1
    <2>3. R(q) \in 1 .. Len(d) /\ d[R(q)] = CopyOf(t[q]) /\ CopyOf(t[q]) = t[q]
      BY <1>1, <2>1, <2>2 DEF CopyOf
    <2> QED
      BY <1>3, <1>5, <2>1, <2>2, <2>3
  <1>8. \A e \in T : \E q \in S : R(q) = e
    <2> SUFFICES ASSUME NEW e \in T PROVE \E q \in S : R(q) = e
      OBVIOUS
    <2>1. e \in 1 .. Len(d) /\ d[e] \notin Strings!Blanks
      BY <1>5
    <2>2. PICK q \in K : q <= p /\ R(q) = e
      BY <1>1, <2>1
    <2>3. d[e] = CopyOf(t[q])
      BY <1>1, <2>2
    <2>4. t[q] \notin Strings!Blanks
      BY <1>6, <2>1, <2>3 DEF CopyOf
    <2>5. q \in 1 .. p
      BY <1>2, <2>2
    <2> QED
      BY <1>4, <2>2, <2>4, <2>5
  <1>9. f \in [S -> T] /\ \A q \in S : f[q] = R(q)
    BY <1>7
  <1> HIDE DEF f
  <1>10. /\ \A q \in S : q \in 1 .. p
         /\ \A e \in T : e \in 1 .. Len(d)
         /\ \A q, r \in S : q < r => f[q] < f[r]
         /\ \A e \in T : \E q \in S : f[q] = e
    BY <1>1, <1>4, <1>5, <1>7, <1>8, <1>9
  <1>11. /\ Cardinality(S) = Cardinality(T)
         /\ \A q \in S : Strings!Rank(S, q) = Strings!Rank(T, f[q])
    <2>1. KeepsOrder(f, S, p, T, Len(d))
      BY <1>2, <1>9, <1>10 DEF KeepsOrder
    <2> QED
      BY <2>1, RankKept
  <1>12. ASSUME NEW e \in T, NEW q \in S, Strings!Rank(T, e) = Strings!Rank(S, q)
         PROVE  d[e] = u[q]
    <2>1. f[q] \in T /\ Strings!Rank(T, e) = Strings!Rank(T, f[q])
      BY <1>9, <1>11, <1>12
    <2>2. e = f[q]
      BY <1>2, <1>10, <2>1, RankUnique
    <2> QED
      BY <1>7, <1>9, <2>2
  <1> QED
    BY <1>11, <1>12, RankIsCardinality DEF Strings!SameButBlanks, S, T, u

LEMMA CopySingle ==
  ASSUME NEW t \in Seq(Char), NEW d \in Seq(Char), NEW p \in 0 .. Len(t),
         IsCollapsed(d, t, p), NEW e \in 1 .. Len(d) - 1
  PROVE  ~(d[e] \in Strings!Blanks /\ d[e + 1] \in Strings!Blanks)
  <1> DEFINE K == Taken(t)
             R(x) == Strings!Rank(K, x)
  <1> SUFFICES ASSUME d[e] \in Strings!Blanks, d[e + 1] \in Strings!Blanks PROVE FALSE
    OBVIOUS
  <1>1. /\ \A q \in K : q <= p => R(q) \in 1 .. Len(d) /\ d[R(q)] = CopyOf(t[q])
        /\ \A q, r \in K : q < r => R(q) < R(r)
        /\ \A q, r \in K : R(q) = R(r) => q = r
        /\ \A x \in 1 .. Len(d) : \E q \in K : q <= p /\ R(q) = x
    BY CollapsedRanks
  <1>2. /\ Len(t) \in Nat /\ Len(d) \in Nat
        /\ \A x \in K : x \in 1 .. Len(t)
        /\ \A q \in 1 .. Len(t) : t[q] \notin Strings!Blanks => q \in K
    BY TakenIn
  <1>3. e \in 1 .. Len(d) /\ e + 1 \in 1 .. Len(d)
    BY <1>2
  <1>4. PICK q \in K : q <= p /\ R(q) = e
    BY <1>1, <1>3
  <1>5. PICK r \in K : r <= p /\ R(r) = e + 1
    BY <1>1, <1>3
  <1>6. q \in 1 .. Len(t) /\ r \in 1 .. Len(t)
    BY <1>2
  <1>7. q < r
    <2>1. q # r /\ ~(r < q)
      BY <1>1, <1>3, <1>4, <1>5
    <2> QED
      BY <1>2, <1>6, <2>1
  <1>8. t[q] \in Strings!Blanks /\ t[r] \in Strings!Blanks
    BY <1>1, <1>4, <1>5 DEF CopyOf
  <1>9. t[q + 1] \notin Strings!Blanks /\ q + 1 \in 1 .. Len(t)
    BY <1>2, <1>6, <1>7, <1>8 DEF K, Taken, Skipped
  <1>10. q + 1 \in K
    BY <1>2, <1>9
  <1>11. R(q + 1) = e + 1
    <2>1. R(q + 1) = IF q + 1 \in K THEN R(q) + 1 ELSE R(q)
      <3> HIDE DEF K
      <3>1. q \in Nat
        BY <1>6
      <3> QED
        BY <1>2, <3>1, RankNext
    <2> QED
      BY <1>4, <1>10, <2>1
  <1>12. q + 1 = r
    BY <1>1, <1>5, <1>10, <1>11
  <1> QED
    BY <1>8, <1>9, <1>12
-----------------------------------------------------------------------------
(* str_splitItems: words *)

LEMMA StringsMin ==
  ASSUME NEW S, S \subseteq Nat, S # {}
  PROVE  Strings!Min(S) \in S /\ \A y \in S : Strings!Min(S) <= y
  BY LeastElement DEF Strings!Min

(* A word ends at the last character of the text, or in front of a blank.  *)
LEMMA WordEnds ==
  ASSUME NEW t \in Seq(Char), NEW p \in 1 .. Len(t)
  PROVE  LET e == Strings!WordEnd(t, p)
         IN  /\ e \in p .. Len(t)
             /\ e = Len(t) \/ t[e + 1] \in Strings!Blanks
             /\ \A q \in p .. Len(t) : q < e => q # Len(t) /\ t[q + 1] \notin Strings!Blanks
  <1> DEFINE S == {q \in p .. Len(t) : q = Len(t) \/ t[q + 1] \in Strings!Blanks}
             e == Strings!WordEnd(t, p)
  <1>1. Len(t) \in Nat /\ p \in Nat /\ p <= Len(t)
    OBVIOUS
  <1>2. S \subseteq Nat /\ Len(t) \in S
    BY <1>1
  <1>3. e = Strings!Min(S)
    BY DEF Strings!WordEnd
  <1>4. \A q \in S : q \in p .. Len(t) /\ (q = Len(t) \/ t[q + 1] \in Strings!Blanks)
    OBVIOUS
  <1>5. \A q \in p .. Len(t) : q \notin S => q # Len(t) /\ t[q + 1] \notin Strings!Blanks
    OBVIOUS
  <1> HIDE DEF S, e
  <1>6. e \in S /\ \A q \in S : e <= q
    BY <1>2, <1>3, StringsMin
  <1>7. \A q \in p .. Len(t) : q < e => q \notin S
    BY <1>1, <1>2, <1>6
  <1> QED
    BY <1>4, <1>5, <1>6, <1>7 DEF e

LEMMA WordEndIs ==
  ASSUME NEW t \in Seq(Char), NEW p \in 1 .. Len(t), NEW e \in p .. Len(t),
         e = Len(t) \/ t[e + 1] \in Strings!Blanks,
         \A q \in p .. Len(t) : q < e => q # Len(t) /\ t[q + 1] \notin Strings!Blanks
  PROVE  Strings!WordEnd(t, p) = e
  <1> DEFINE w == Strings!WordEnd(t, p)
  <1>1. /\ w \in p .. Len(t)
        /\ w = Len(t) \/ t[w + 1] \in Strings!Blanks
        /\ \A q \in p .. Len(t) : q < w => q # Len(t) /\ t[q + 1] \notin Strings!Blanks
    BY WordEnds
  <1> HIDE DEF w
  <1>2. Len(t) \in Nat /\ p \in Nat
    OBVIOUS
  <1>3. ~(w < e) /\ ~(e < w)
    BY <1>1, <1>2
  <1> QED
    BY <1>1, <1>2, <1>3 DEF w

(* The words of the copy begin where those of the text do. *)
LEMMA SameStarts ==
  ASSUME NEW t \in Seq(Char), NEW d \in Seq(Char), IsCollapsed(d, t, Len(t))
  PROVE  KeepsOrder([q \in Strings!Starts(t) |-> Strings!Rank(Taken(t), q)],
                    Strings!Starts(t), Len(t), Strings!Starts(d), Len(d))
  <1> DEFINE K == Taken(t)
             R(x) == Strings!Rank(K, x)
             S == Strings!Starts(t)
             T == Strings!Starts(d)
             f == [q \in S |-> R(q)]
  <1>1. Len(t) \in Nat /\ Len(t) \in 0 .. Len(t) /\ Len(d) \in Nat
    OBVIOUS
  <1>2. /\ \A q \in K : q <= Len(t) => R(q) \in 1 .. Len(d) /\ d[R(q)] = CopyOf(t[q])
        /\ \A q, r \in K : q < r => R(q) < R(r)
        /\ \A e \in 1 .. Len(d) : \E q \in K : q <= Len(t) /\ R(q) = e
    BY <1>1, CollapsedRanks
  <1>3. /\ \A x \in K : x \in 1 .. Len(t)
        /\ \A q \in 1 .. Len(t) : t[q] \notin Strings!Blanks => q \in K
        /\ \A q \in 1 .. Len(t) :
             q + 1 \in 1 .. Len(t) /\ t[q + 1] \notin Strings!Blanks => q \in K
    BY TakenIn DEF Taken, Skipped
  <1>4. \A q : q \in S <=> /\ q \in 1 .. Len(t) /\ t[q] \notin Strings!Blanks
                           /\ q = 1 \/ t[q - 1] \in Strings!Blanks
    BY DEF Strings!Starts, Strings!Solids
  <1>5. \A e : e \in T <=> /\ e \in 1 .. Len(d) /\ d[e] \notin Strings!Blanks
                           /\ e = 1 \/ d[e - 1] \in Strings!Blanks
    BY DEF Strings!Starts, Strings!Solids
  <1>6. Strings!Space \in Strings!Blanks
    BY DEF Strings!Blanks
  <1> HIDE DEF S, T
  <1>7. \A q \in 2 .. Len(t) : q - 1 \in K /\ q \in K => R(q) = R(q - 1) + 1
    <2> SUFFICES ASSUME NEW q \in 2 .. Len(t), q - 1 \in K, q \in K
                 PROVE  R(q) = R(q - 1) + 1
      OBVIOUS
    <2>1. q - 1 \in Nat /\ q - 1 + 1 = q
      BY <1>1
    <2> HIDE DEF K
    <2>2. R(q - 1 + 1) = IF q - 1 + 1 \in K THEN R(q - 1) + 1 ELSE R(q - 1)
      BY <1>1, <1>3, <2>1, RankNext
    <2> QED
      BY <2>1, <2>2
  <1> HIDE DEF K
  <1>8. ASSUME NEW q \in S PROVE q \in K /\ q \in 1 .. Len(t) /\ R(q) \in T
    <2>1. q \in 1 .. Len(t) /\ t[q] \notin Strings!Blanks /\ q \in K
      BY <1>3, <1>4
    <2>2. R(q) \in 1 .. Len(d) /\ d[R(q)] = t[q]
      BY <1>1, <1>2, <2>1 DEF CopyOf
    <2>3. CASE q = 1
      <3>1. R(0 + 1) = IF 0 + 1 \in K THEN R(0) + 1 ELSE R(0)
        BY <1>1, <1>3, RankNext
      <3>2. R(0) \in Nat /\ R(0) <= 0
        BY <1>1, <1>3, RankTypes
      <3>3. R(q) = 1
        BY <2>1, <2>3, <3>1, <3>2
      <3> QED
        BY <1>5, <2>1, <2>2, <3>3
    <2>4. CASE q # 1
      <3>1. q - 1 \in 1 .. Len(t) /\ q \in 2 .. Len(t) /\ q - 1 + 1 = q
        BY <1>1, <2>1, <2>4
      <3>2. t[q - 1] \in Strings!Blanks
        BY <1>4, <2>4
      <3>3. q - 1 \in K
        BY <1>3, <2>1, <3>1
      <3>4. R(q - 1) \in 1 .. Len(d) /\ d[R(q - 1)] = CopyOf(t[q - 1])
        BY <1>1, <1>2, <3>1, <3>3
      <3>5. R(q) - 1 = R(q - 1)
        BY <1>7, <2>1, <3>1, <3>3, <3>4
      <3>6. d[R(q) - 1] \in Strings!Blanks
        BY <1>6, <3>2, <3>4, <3>5 DEF CopyOf
      <3> QED
        BY <1>5, <2>1, <2>2, <3>6
    <2> QED
      BY <2>1, <2>3, <2>4
  <1>9. ASSUME NEW e \in T PROVE \E q \in S : R(q) = e
    <2>1. e \in 1 .. Len(d) /\ d[e] \notin Strings!Blanks /\ (e = 1 \/ d[e - 1] \in Strings!Blanks)
      BY <1>5
    <2>2. PICK q \in K : q <= Len(t) /\ R(q) = e
      BY <1>2, <2>1
    <2>3. q \in 1 .. Len(t) /\ t[q] \notin Strings!Blanks
      BY <1>2, <1>3, <1>6, <2>1, <2>2 DEF CopyOf
    <2>4. ASSUME q # 1, t[q - 1] \notin Strings!Blanks PROVE FALSE
      <3>1. q - 1 \in 1 .. Len(t) /\ q \in 2 .. Len(t)
        BY <1>1, <2>3, <2>4
      <3>2. q - 1 \in K
        BY <1>3, <2>4, <3>1
      <3>3. R(q - 1) \in 1 .. Len(d) /\ d[R(q - 1)] = t[q - 1]
        BY <1>1, <1>2, <2>4, <3>1, <3>2 DEF CopyOf
      <3>4. e = R(q - 1) + 1
        BY <1>7, <2>2, <3>1, <3>2
      <3>5. e # 1 /\ e - 1 = R(q - 1)
        BY <3>3, <3>4
      <3> QED
        BY <2>1, <2>4, <3>3, <3>5
    <2> QED
      BY <1>4, <2>2, <2>3, <2>4
  <1>10. f \in [S -> T] /\ \A q \in S : f[q] = R(q)
    BY <1>8
  <1>11. \A q, r \in S : q < r => f[q] < f[r]
    BY <1>2, <1>8, <1>10
  <1>12. \A e \in T : \E q \in S : f[q] = e
    BY <1>9, <1>10
  <1>13. \A e \in T : e \in 1 .. Len(d)
    BY <1>5
  <1>14. KeepsOrder(f, S, Len(t), T, Len(d))
    <2> HIDE DEF f
    <2> QED
      BY <1>1, <1>8, <1>10, <1>11, <1>12, <1>13 DEF KeepsOrder
  <1> QED
    BY <1>14 DEF S, T, K

LEMMA SameWord ==
  ASSUME NEW t \in Seq(Char), NEW d \in Seq(Char), IsCollapsed(d, t, Len(t)),
         NEW x \in Strings!Starts(t)
  PROVE  LET y == Strings!Rank(Taken(t), x)
         IN  SubSeq(t, x, Strings!WordEnd(t, x)) = SubSeq(d, y, Strings!WordEnd(d, y))
  <1> DEFINE K == Taken(t)
             R(p) == Strings!Rank(K, p)
             y == R(x)
             e == Strings!WordEnd(t, x)
             end == R(e)
  <1>1. Len(t) \in Nat /\ Len(t) \in 0 .. Len(t) /\ Len(d) \in Nat
    OBVIOUS
  <1>2. /\ \A q \in K : q <= Len(t) => R(q) \in 1 .. Len(d) /\ d[R(q)] = CopyOf(t[q])
        /\ \A q, r \in K : q < r => R(q) < R(r)
        /\ \A i \in 1 .. Len(d) : \E q \in K : q <= Len(t) /\ R(q) = i
    BY <1>1, CollapsedRanks
  <1>3. /\ \A q \in K : q \in 1 .. Len(t)
        /\ \A q \in 1 .. Len(t) : t[q] \notin Strings!Blanks => q \in K
        /\ \A q \in 1 .. Len(t) : q \notin K => t[q + 1] \in Strings!Blanks
    BY TakenIn DEF Taken, Skipped
  <1>4. x \in 1 .. Len(t) /\ t[x] \notin Strings!Blanks
    BY DEF Strings!Starts, Strings!Solids
  <1>5. /\ e \in x .. Len(t)
        /\ e = Len(t) \/ t[e + 1] \in Strings!Blanks
        /\ \A q \in x .. Len(t) : q < e => q # Len(t) /\ t[q + 1] \notin Strings!Blanks
    BY <1>4, WordEnds
  <1>6. R(Len(t)) = Len(d)
    BY DEF IsCollapsed
  <1>7. Strings!Space \in Strings!Blanks
    BY DEF Strings!Blanks
  <1>8. y = R(x)
    BY DEF y
  <1> HIDE DEF K, e, y
  <1>9. \A q \in x .. e : q \in 1 .. Len(t) /\ t[q] \notin Strings!Blanks /\ q \in K
    <2> SUFFICES ASSUME NEW q \in x .. e
                 PROVE  q \in 1 .. Len(t) /\ t[q] \notin Strings!Blanks
      BY <1>3
    <2>1. q \in 1 .. Len(t)
      BY <1>1, <1>4, <1>5
    <2>2. CASE q = x
      BY <1>4, <2>1, <2>2
    <2>3. CASE q # x
      <3>1. q - 1 \in x .. Len(t) /\ q - 1 < e /\ q - 1 + 1 = q
        BY <1>1, <1>4, <1>5, <2>1, <2>3
      <3> QED
        BY <1>5, <2>1, <3>1
    <2> QED
      BY <2>2, <2>3
  <1>10. \A q \in x .. e : R(q) = R(x) + (q - x)
    <2> SUFFICES ASSUME NEW q \in x .. e PROVE R(q) = R(x) + (q - x)
      OBVIOUS
    <2>1. x \in Nat /\ q \in Nat /\ x <= q /\ \A p \in x + 1 .. q : p \in K
      BY <1>1, <1>4, <1>5, <1>9
    <2> QED
      BY <1>1, <1>3, <2>1, RankGrows
  <1>11. \A q \in x .. e : R(q) \in 1 .. Len(d) /\ d[R(q)] = t[q]
    BY <1>1, <1>2, <1>9 DEF CopyOf
  <1>12. /\ x \in Nat /\ e \in Nat /\ x <= e /\ x \in x .. e /\ e \in x .. e
         /\ y \in 1 .. Len(d) /\ end \in 1 .. Len(d) /\ end = y + (e - x)
    <2>1. x \in Nat /\ e \in Nat /\ x <= e /\ x \in x .. e /\ e \in x .. e
      BY <1>1, <1>4, <1>5
    <2> QED
      BY <1>8, <1>10, <1>11, <2>1
  <1>13. end = Len(d) \/ d[end + 1] \in Strings!Blanks
    <2>1. CASE e = Len(t)
      BY <1>6, <2>1
    <2>2. CASE e # Len(t) /\ end # Len(d)
      <3>1. t[e + 1] \in Strings!Blanks /\ end + 1 \in 1 .. Len(d)
        <4>1. end \in 1 .. Len(d) /\ end # Len(d)
          BY <1>12, <2>2
        <4>2. end + 1 \in 1 .. Len(d)
          <5> HIDE DEF end
          <5> QED
            BY <1>1, <4>1
        <4> QED
          BY <1>5, <2>2, <4>2
      <3>2. PICK r \in K : r <= Len(t) /\ R(r) = end + 1
        BY <1>2, <3>1
      <3>3. r \in 1 .. Len(t) /\ d[end + 1] = CopyOf(t[r])
        BY <1>2, <1>3, <3>2
      <3>4. e \in K /\ e < r
        <4>1. e \in K /\ R(e) = end
          BY <1>9, <1>12
        <4>2. ~(r < e) /\ r # e
          BY <1>2, <1>12, <3>2, <4>1
        <4> QED
          BY <1>12, <3>3, <4>1, <4>2
      <3>5. t[r] \in Strings!Blanks
        <4>1. CASE r = e + 1
          BY <3>1, <4>1
        <4>2. CASE r # e + 1
          <5>1. r - 1 \in 1 .. Len(t) /\ e < r - 1 /\ r - 1 < r /\ r - 1 + 1 = r
            BY <1>1, <1>12, <3>3, <3>4, <4>2
          <5>2. r - 1 \notin K
            <6> SUFFICES ASSUME r - 1 \in K PROVE FALSE
              OBVIOUS
            <6>1. R(e) < R(r - 1) /\ R(r - 1) < R(r)
              BY <1>2, <3>2, <3>4, <5>1
            <6>2. R(r - 1) \in 1 .. Len(d)
              BY <1>1, <1>2, <5>1
            <6> QED
              BY <1>12, <3>2, <6>1, <6>2
          <5> QED
            BY <1>3, <5>1, <5>2
        <4> QED
          BY <4>1, <4>2
      <3> QED
        BY <1>7, <3>3, <3>5 DEF CopyOf
    <2> QED
      BY <2>1, <2>2
  <1>14. \A i \in y .. Len(d) : i < end => i # Len(d) /\ d[i + 1] \notin Strings!Blanks
    <2> SUFFICES ASSUME NEW i \in y .. Len(d), i < end
                 PROVE  i # Len(d) /\ d[i + 1] \notin Strings!Blanks
      OBVIOUS
    <2> DEFINE q == x + (i - y) + 1
    <2>1. q \in x .. e /\ i + 1 = y + (q - x) /\ i # Len(d)
      BY <1>1, <1>12
    <2> HIDE DEF q
    <2>2. R(q) = i + 1
      BY <1>8, <1>10, <2>1
    <2> QED
      BY <1>9, <1>11, <2>1, <2>2
  <1>15. Strings!WordEnd(d, y) = end
    <2>1. end \in y .. Len(d)
      BY <1>12
    <2> HIDE DEF end
    <2> QED
      BY <1>12, <1>13, <1>14, <2>1, WordEndIs
  <1> DEFINE word == SubSeq(t, x, e)
             copy == SubSeq(d, y, end)
  <1> HIDE DEF R, end
  <1>16. /\ word \in Seq(Char) /\ Len(word) = e - x + 1
         /\ \A i \in 1 .. e - x + 1 : word[i] = t[x + i - 1]
    <2>1. \A i \in x .. e : t[i] \in Char
      BY <1>9
    <2> QED
      BY <1>12, <2>1, SubSeqProperties
  <1>17. /\ copy \in Seq(Char) /\ Len(copy) = end - y + 1
         /\ \A i \in 1 .. end - y + 1 : copy[i] = d[y + i - 1]
    <2>1. y \in Int /\ end \in Int /\ y <= end /\ \A i \in y .. end : d[i] \in Char
      BY <1>12
    <2> QED
      BY <2>1, SubSeqProperties
  <1> HIDE DEF word, copy
  <1>18. \A i \in 1 .. Len(word) : word[i] = copy[i]
    <2> SUFFICES ASSUME NEW i \in 1 .. Len(word) PROVE word[i] = copy[i]
      OBVIOUS
    <2>1. i \in 1 .. e - x + 1 /\ i \in 1 .. end - y + 1
      BY <1>12, <1>16
    <2>2. x + i - 1 \in x .. e /\ y + i - 1 = y + ((x + i - 1) - x)
      BY <1>12, <2>1
    <2>3. R(x + i - 1) = y + i - 1
      BY <1>8, <1>10, <2>2
    <2> QED
      BY <1>11, <1>16, <1>17, <2>1, <2>2, <2>3
  <1>19. word = copy
    <2>1. word \in Seq(Char) /\ copy \in Seq(Char) /\ Len(word) = Len(copy)
      BY <1>12, <1>16, <1>17
    <2> QED
      BY <1>18, <2>1, SeqEqual
  <1> QED
    BY <1>15, <1>19 DEF word, copy, e, y, K, R

LEMMA WordsOfCopy ==
  ASSUME NEW t \in Seq(Char), NEW d \in Seq(Char), IsCollapsed(d, t, Len(t)),
         NEW list, Strings!AreWords(list, d)
  PROVE  Strings!AreWords(list, t)
  <1> DEFINE S == Strings!Starts(t)
             T == Strings!Starts(d)
             f == [q \in S |-> Strings!Rank(Taken(t), q)]
  <1>1. KeepsOrder(f, S, Len(t), T, Len(d))
    BY SameStarts
  <1>2. \A x \in S : f[x] = Strings!Rank(Taken(t), x)
    OBVIOUS
  <1>3. /\ Len(list) = Cardinality(T)
        /\ \A y \in T : list[Strings!Rank(T, y)] = SubSeq(d, y, Strings!WordEnd(d, y))
    BY RankIsCardinality DEF Strings!AreWords
  <1> HIDE DEF f
  <1>4. /\ Cardinality(S) = Cardinality(T)
        /\ \A x \in S : Strings!Rank(S, x) = Strings!Rank(T, f[x])
    <2> HIDE DEF S, T
    <2> QED
      BY <1>1, RankKept
  <1>5. \A x \in S : f[x] \in T
    <2> HIDE DEF S, T
    <2> QED
      BY <1>1 DEF KeepsOrder
  <1>6. \A x \in S : SubSeq(t, x, Strings!WordEnd(t, x))
                       = SubSeq(d, f[x], Strings!WordEnd(d, f[x]))
    <2> SUFFICES ASSUME NEW x \in S
                 PROVE  SubSeq(t, x, Strings!WordEnd(t, x))
                          = SubSeq(d, f[x], Strings!WordEnd(d, f[x]))
      OBVIOUS
    <2>1. f[x] = Strings!Rank(Taken(t), x) /\ x \in Strings!Starts(t)
      BY <1>2
    <2> QED
      BY <2>1, SameWord
  <1>7. \A x \in S : list[Strings!Rank(S, x)] = SubSeq(t, x, Strings!WordEnd(t, x))
    BY <1>3, <1>4, <1>5, <1>6
  <1> QED
    BY <1>3, <1>4, <1>7, RankIsCardinality DEF Strings!AreWords

(* A blank of the copy is a space. *)
LEMMA CopySpaces ==
  ASSUME NEW t \in Seq(Char), NEW d \in Seq(Char), NEW p \in 0 .. Len(t),
         IsCollapsed(d, t, p), NEW e \in 1 .. Len(d)
  PROVE  d[e] \in Strings!Blanks <=> d[e] = Strings!Space
  <1>1. Strings!Space \in Strings!Blanks
    BY DEF Strings!Blanks
  <1>2. PICK q \in Taken(t) : q <= p /\ Strings!Rank(Taken(t), q) = e
    BY CollapsedRanks
  <1>3. d[e] = CopyOf(t[q])
    BY <1>2, CollapsedRanks
  <1> QED
    BY <1>1, <1>3 DEF CopyOf

(* The list has the words that begin in the first p characters. *)
WordsTo(list, d, p) ==
  /\ Len(list) = Strings!Rank(Strings!Starts(d), p)
  /\ \A x \in Strings!Starts(d) : x <= p =>
       list[Strings!Rank(Strings!Starts(d), x)] = SubSeq(d, x, Strings!WordEnd(d, x))

LEMMA StartsIn ==
  ASSUME NEW d \in Seq(Char)
  PROVE  Len(d) \in Nat /\ \A x \in Strings!Starts(d) : x \in 1 .. Len(d)
  BY DEF Strings!Starts, Strings!Solids

LEMMA NoWord ==
  ASSUME NEW d \in Seq(Char), NEW list, NEW p \in Nat, WordsTo(list, d, p),
         NEW q \in Nat, p <= q, \A x \in p + 1 .. q : x \notin Strings!Starts(d)
  PROVE  WordsTo(list, d, q)
  <1> DEFINE S == Strings!Starts(d)
  <1>1. Len(d) \in Nat /\ \A x \in S : x \in 1 .. Len(d)
    BY StartsIn
  <1>2. \A x \in p + 1 .. q : x \notin S
    OBVIOUS
  <1> HIDE DEF S
  <1>3. Strings!Rank(S, q) = Strings!Rank(S, p)
    BY <1>1, <1>2, RankGrows
  <1>4. \A x \in S : x <= q => x <= p
    BY <1>1, <1>2
  <1> QED
    BY <1>3, <1>4 DEF WordsTo, S

LEMMA WordAdded ==
  ASSUME NEW d \in Seq(Char), NEW list \in Seq(Seq(Char)), NEW p \in Nat,
         WordsTo(list, d, p), p = 0 \/ d[p] \in Strings!Blanks,
         NEW e \in p + 1 .. Len(d), \A x \in p + 1 .. e : d[x] \notin Strings!Blanks,
         e = Len(d) \/ d[e + 1] \in Strings!Blanks
  PROVE  /\ SubSeq(d, p + 1, e) \in Seq(Char)
         /\ WordsTo(Append(list, SubSeq(d, p + 1, e)), d, p + 1)
  <1> DEFINE S == Strings!Starts(d)
             R(x) == Strings!Rank(S, x)
             word == SubSeq(d, p + 1, e)
             longer == Append(list, word)
  <1>1. Len(d) \in Nat /\ \A x \in S : x \in 1 .. Len(d)
    BY StartsIn
  <1>2. p + 1 \in 1 .. Len(d) /\ e \in Nat /\ p + 1 <= e /\ p + 1 - 1 = p
    BY <1>1
  <1>3. p + 1 \in S
    BY <1>2 DEF Strings!Starts, Strings!Solids
  <1>4. word \in Seq(Char)
    <2>1. \A x \in p + 1 .. e : d[x] \in Char
      BY <1>1, <1>2
    <2> QED
      BY <1>2, <2>1, SubSeqProperties
  <1>5. Strings!WordEnd(d, p + 1) = e
    <2>1. \A x \in p + 1 .. Len(d) : x < e => x # Len(d) /\ d[x + 1] \notin Strings!Blanks
      BY <1>1, <1>2
    <2> QED
      BY <1>2, <2>1, WordEndIs
  <1>6. /\ Len(list) = R(p)
        /\ \A x \in S : x <= p => list[R(x)] = SubSeq(d, x, Strings!WordEnd(d, x))
    BY DEF WordsTo
  <1> HIDE DEF word
  <1>7. /\ Len(list) \in Nat /\ Len(longer) = Len(list) + 1
        /\ longer[Len(list) + 1] = word
        /\ \A i \in 1 .. Len(list) : longer[i] = list[i]
    BY <1>4, AppendProperties
  <1> HIDE DEF S, longer
  <1>8. R(p + 1) = R(p) + 1
    <2>1. R(p + 1) = IF p + 1 \in S THEN R(p) + 1 ELSE R(p)
      BY <1>1, RankNext
    <2> QED
      BY <1>3, <2>1
  <1>9. ASSUME NEW x \in S, x <= p + 1
        PROVE  longer[R(x)] = SubSeq(d, x, Strings!WordEnd(d, x))
    <2>1. CASE x = p + 1
      BY <1>5, <1>6, <1>7, <1>8, <2>1 DEF word
    <2>2. CASE x # p + 1
      <3>1. x \in Nat /\ x <= p
        BY <1>1, <1>9, <2>2
      <3>2. R(x) \in Nat /\ R(x) >= 1
        BY <1>1, RankOfElement
      <3>3. R(x) <= R(p)
        BY <1>1, <3>1, RankGrows
      <3>4. R(x) \in 1 .. Len(list)
        BY <1>6, <1>7, <3>2, <3>3
      <3> QED
        BY <1>6, <1>7, <3>1, <3>4
    <2> QED
      BY <2>1, <2>2
  <1> QED
    BY <1>4, <1>6, <1>7, <1>8, <1>9 DEF WordsTo, word, longer, S

LEMMA AllWords ==
  ASSUME NEW d \in Seq(Char), NEW list, WordsTo(list, d, Len(d))
  PROVE  Strings!AreWords(list, d)
  <1> DEFINE S == Strings!Starts(d)
  <1>1. Len(d) \in Nat /\ \A x \in S : x \in 1 .. Len(d)
    BY StartsIn
  <1>2. \A x \in S : x <= Len(d)
    BY <1>1
  <1>3. {x \in S : x <= Len(d)} = S
    BY <1>2
  <1>4. Strings!Rank(S, Len(d)) = Cardinality(S)
    BY <1>3, RankIsCardinality
  <1> QED
    BY <1>2, <1>4, RankIsCardinality DEF WordsTo, Strings!AreWords
-----------------------------------------------------------------------------
(* str_removeWhitespaces *)

(* d is the copy without blanks of the first p characters of t. *)
IsStripped(d, t, p) ==
  /\ Len(d) = Strings!Rank(Strings!Solids(t), p)
  /\ \A q \in Strings!Solids(t) : q <= p => d[Strings!Rank(Strings!Solids(t), q)] = t[q]
  /\ \A e \in 1 .. Len(d) : d[e] \notin Strings!Blanks

LEMMA SolidsIn ==
  ASSUME NEW d \in Seq(Char)
  PROVE  /\ Len(d) \in Nat
         /\ \A x : x \in Strings!Solids(d) <=> x \in 1 .. Len(d) /\ d[x] \notin Strings!Blanks
  BY DEF Strings!Solids

LEMMA Stripping ==
  ASSUME NEW t \in Seq(Char), NEW d \in Seq(Char), NEW p \in Nat, p < Len(t),
         IsStripped(d, t, p)
  PROVE  IF t[p + 1] \in Strings!Blanks THEN IsStripped(d, t, p + 1)
         ELSE IsStripped(Append(d, t[p + 1]), t, p + 1)
  <1> DEFINE S == Strings!Solids(t)
             R(x) == Strings!Rank(S, x)
             copy == Append(d, t[p + 1])
  <1>1. /\ Len(t) \in Nat /\ \A x \in S : x \in 1 .. Len(t)
        /\ p + 1 \in 1 .. Len(t) /\ (p + 1 \in S <=> t[p + 1] \notin Strings!Blanks)
    BY SolidsIn
  <1>2. /\ Len(d) \in Nat /\ Len(d) = R(p)
        /\ \A q \in S : q <= p => d[R(q)] = t[q]
        /\ \A e \in 1 .. Len(d) : d[e] \notin Strings!Blanks
    BY DEF IsStripped
  <1>3. /\ Len(copy) = Len(d) + 1 /\ copy[Len(d) + 1] = t[p + 1]
        /\ \A i \in 1 .. Len(d) : copy[i] = d[i]
    BY <1>1, AppendProperties
  <1> HIDE DEF S, copy
  <1>4. R(p + 1) = IF p + 1 \in S THEN R(p) + 1 ELSE R(p)
    BY <1>1, RankNext
  <1>5. \A q \in S : q <= p + 1 => q <= p \/ q = p + 1
    BY <1>1
  <1>6. CASE t[p + 1] \in Strings!Blanks
    <2>1. \A q \in S : q <= p + 1 => q <= p
      BY <1>1, <1>5, <1>6
    <2> QED
      BY <1>1, <1>2, <1>4, <1>6, <2>1 DEF IsStripped, S
  <1>7. CASE t[p + 1] \notin Strings!Blanks
    <2>1. ASSUME NEW q \in S, q <= p PROVE R(q) \in 1 .. Len(d)
      <3>1. q \in Nat /\ R(q) \in Nat /\ R(q) >= 1
        BY <1>1, RankOfElement
      <3>2. R(q) <= R(p)
        BY <1>1, <2>1, <3>1, RankGrows
      <3> QED
        BY <1>2, <3>1, <3>2
    <2>2. \A q \in S : q <= p + 1 => copy[R(q)] = t[q]
      BY <1>1, <1>2, <1>3, <1>4, <1>5, <1>7, <2>1
    <2>3. \A e \in 1 .. Len(copy) : copy[e] \notin Strings!Blanks
      <3> SUFFICES ASSUME NEW e \in 1 .. Len(copy) PROVE copy[e] \notin Strings!Blanks
        OBVIOUS
      <3>1. e = Len(d) + 1 \/ e \in 1 .. Len(d)
        BY <1>2, <1>3
      <3> QED
        BY <1>2, <1>3, <1>7, <3>1
    <2> QED
      BY <1>1, <1>2, <1>3, <1>4, <1>7, <2>2, <2>3 DEF IsStripped, S, copy
  <1> QED
    BY <1>6, <1>7

LEMMA StrippedSame ==
  ASSUME NEW t \in Seq(Char), NEW d \in Seq(Char), NEW p \in 0 .. Len(t),
         IsStripped(d, t, p)
  PROVE  Strings!Solids(d) = DOMAIN d /\ Strings!SameButBlanks(d, SubSeq(t, 1, p))
  <1> DEFINE A == Strings!Solids(t)
             u == SubSeq(t, 1, p)
             S == Strings!Solids(u)
             T == Strings!Solids(d)
  <1>1. /\ Len(t) \in Nat /\ p \in Nat /\ p <= Len(t) /\ Len(d) \in Nat
        /\ \A x : x \in A <=> x \in 1 .. Len(t) /\ t[x] \notin Strings!Blanks
        /\ \A x : x \in T <=> x \in 1 .. Len(d) /\ d[x] \notin Strings!Blanks
    BY SolidsIn
  <1>2. /\ Len(d) = Strings!Rank(A, p)
        /\ \A q \in A : q <= p => d[Strings!Rank(A, q)] = t[q]
        /\ \A e \in 1 .. Len(d) : d[e] \notin Strings!Blanks
    BY DEF IsStripped
  <1>3. T = 1 .. Len(d) /\ T = DOMAIN d
    <2>1. DOMAIN d = 1 .. Len(d)
      OBVIOUS
    <2> HIDE DEF T
    <2> QED
      BY <1>1, <1>2, <2>1
  <1>4. DOMAIN u = 1 .. p /\ \A i \in 1 .. p : u[i] = t[i]
    BY Prefixes
  <1> HIDE DEF u
  <1>5. \A x : x \in S <=> x \in 1 .. p /\ t[x] \notin Strings!Blanks
    BY <1>4 DEF Strings!Solids
  <1> HIDE DEF A, S, T
  <1>6. S = {x \in A : x <= p}
    BY <1>1, <1>5
  <1>7. Cardinality(S) = Cardinality(T)
    <2>1. 1 \in Int /\ Len(d) \in Int
      OBVIOUS
    <2>2. Cardinality(1 .. Len(d)) = IF 1 > Len(d) THEN 0 ELSE Len(d) - 1 + 1
      BY <2>1, FS_Interval
    <2>3. Cardinality(T) = Len(d)
      BY <1>1, <1>3, <2>2
    <2> QED
      BY <1>2, <1>6, <2>3, RankIsCardinality
  <1>8. \A q \in S : q \in A /\ q <= p /\ Strings!Rank(S, q) = Strings!Rank(A, q)
    <2> SUFFICES ASSUME NEW q \in S PROVE Strings!Rank(S, q) = Strings!Rank(A, q)
      BY <1>6
    <2>1. {x \in S : x <= q} = {x \in A : x <= q}
      BY <1>1, <1>5
    <2> QED
      BY <2>1, RankIsCardinality
  <1>9. \A e \in T : Strings!Rank(T, e) = e
    <2> SUFFICES ASSUME NEW e \in T PROVE Strings!Rank(T, e) = e
      OBVIOUS
    <2>1. e \in Nat /\ 1 <= e /\ {x \in T : x <= e} = 1 .. e
      BY <1>1, <1>3
    <2>2. Cardinality(1 .. e) = e
      BY <2>1, FS_Interval
    <2> QED
      BY <2>1, <2>2, RankIsCardinality
  <1>10. ASSUME NEW e \in T, NEW q \in S, Strings!Rank(T, e) = Strings!Rank(S, q)
         PROVE  d[e] = u[q]
    BY <1>1, <1>2, <1>4, <1>5, <1>8, <1>9, <1>10
  <1> QED
    BY <1>3, <1>7, <1>10, RankIsCardinality DEF Strings!SameButBlanks, S, T, u

(* The text ends at its first terminator. *)
LEMMA TextEnds ==
  ASSUME NEW t \in Seq(Char), NEW p \in 0 .. Len(t),
         \A i \in 1 .. p : t[i] # "NUL", p = Len(t) \/ t[p + 1] = "NUL"
  PROVE  Strings!Terminated(t) = SubSeq(t, 1, p)
  <1> DEFINE n == Len(t)
             S == {i \in DOMAIN t : t[i] = "NUL"} \cup {n + 1}
  <1>1. n \in Nat /\ p \in Nat /\ p <= n
    OBVIOUS
  <1>2. \A i : i \in DOMAIN t <=> i \in Nat /\ 1 <= i /\ i <= n
    OBVIOUS
  <1>3. p = n \/ t[p + 1] = "NUL"
    OBVIOUS
  <1>4. Strings!Terminated(t) = SubSeq(t, 1, Strings!Min(S) - 1)
    BY DEF Strings!Terminated
  <1> HIDE DEF n
  <1>5. S \subseteq Nat
    BY <1>1, <1>2
  <1>6. p + 1 \in S
    BY <1>1, <1>2, <1>3
  <1>7. \A i \in S : i \in Nat /\ p + 1 <= i
    <2> SUFFICES ASSUME NEW i \in S PROVE i \in Nat /\ p + 1 <= i
      OBVIOUS
    <2>1. CASE i = n + 1
      BY <1>1, <2>1
    <2>2. CASE i # n + 1
      <3>1. i \in Nat /\ 1 <= i /\ t[i] = "NUL"
        BY <1>2, <2>2
      <3>2. i \notin 1 .. p
        BY <3>1
      <3> QED
        BY <1>1, <3>1, <3>2
    <2> QED
      BY <2>1, <2>2
  <1> HIDE DEF S
  <1> DEFINE least == Strings!Min(S)
  <1>8. least \in S /\ least <= p + 1
    BY <1>5, <1>6, StringsMin
  <1>9. Strings!Terminated(t) = SubSeq(t, 1, least - 1)
    BY <1>4
  <1> HIDE DEF least
  <1>10. least - 1 = p
    BY <1>1, <1>7, <1>8
  <1> QED
    BY <1>9, <1>10
-----------------------------------------------------------------------------
(* str_numberLength: powers *)

(* Induction over a set of numbers. *)
LEMMA AllNumbers ==
  ASSUME NEW S, 0 \in S, \A n \in Nat : n \in S => n + 1 \in S
  PROVE  \A n \in Nat : n \in S
  <1> DEFINE rest == {n \in Nat : n \notin S}
  <1> SUFFICES ASSUME rest # {} PROVE FALSE
    OBVIOUS
  <1>1. PICK x \in rest : \A y \in rest : x <= y
    <2>1. rest \subseteq Nat
      OBVIOUS
    <2> QED
      BY <2>1, LeastElement
  <1>2. x \in Nat /\ x \notin S /\ x # 0
    OBVIOUS
  <1>3. x - 1 \in Nat /\ x - 1 + 1 = x
    BY <1>2
  <1>4. x - 1 \notin rest
    BY <1>1, <1>2, <1>3
  <1> QED
    BY <1>2, <1>3, <1>4

(* The powers up to the n-th, as functions on an initial segment. *)
PowersTo(b, n) == {g \in [0 .. n -> Nat] : g[0] = 1 /\ \A e \in 1 .. n : g[e] = b * g[e - 1]}

LEMMA PowersExist ==
  ASSUME NEW b \in Nat
  PROVE  \A n \in Nat : PowersTo(b, n) # {}
  <1> DEFINE S == {n \in Nat : PowersTo(b, n) # {}}
  <1>1. 0 \in S
    <2> DEFINE g == [e \in 0 .. 0 |-> 1]
    <2>1. g \in PowersTo(b, 0)
      BY DEF PowersTo
    <2> QED
      BY <2>1
  <1>2. ASSUME NEW n \in Nat, n \in S PROVE n + 1 \in S
    <2>1. PICK g : g \in PowersTo(b, n)
      BY <1>2
    <2>2. g \in [0 .. n -> Nat] /\ g[0] = 1 /\ \A e \in 1 .. n : g[e] = b * g[e - 1]
      BY <2>1 DEF PowersTo
    <2> DEFINE h == [e \in 0 .. n + 1 |-> IF e = n + 1 THEN b * g[n] ELSE g[e]]
    <2>3. n \in 0 .. n /\ g[n] \in Nat /\ b * g[n] \in Nat
      BY <2>2
    <2>4. h \in [0 .. n + 1 -> Nat]
      <3> SUFFICES ASSUME NEW e \in 0 .. n + 1, e # n + 1 PROVE g[e] \in Nat
        BY <2>3
      <3>1. e \in 0 .. n
        OBVIOUS
      <3> QED
        BY <2>2, <3>1
    <2>5. h[0] = 1
      BY <2>2
    <2>6. ASSUME NEW e \in 1 .. n + 1 PROVE h[e] = b * h[e - 1]
      <3>1. e \in 0 .. n + 1 /\ e - 1 \in 0 .. n + 1 /\ e - 1 # n + 1
        OBVIOUS
      <3>2. h[e - 1] = g[e - 1]
        BY <3>1
      <3>3. CASE e = n + 1
        <4>1. h[e] = b * g[n] /\ e - 1 = n
          BY <3>1, <3>3
        <4> QED
          BY <3>2, <4>1
      <3>4. CASE e # n + 1
        <4>1. h[e] = g[e] /\ e \in 1 .. n
          BY <3>1, <3>4
        <4> QED
          BY <2>2, <3>2, <4>1
      <3> QED
        BY <3>3, <3>4
    <2> HIDE DEF h
    <2>7. h \in PowersTo(b, n + 1)
      BY <2>4, <2>5, <2>6 DEF PowersTo
    <2> QED
      BY <2>7
  <1> HIDE DEF S
  <1>3. \A n \in Nat : n \in S
    BY <1>1, <1>2, AllNumbers
  <1> QED
    BY <1>3 DEF S

LEMMA PowersAgree ==
  ASSUME NEW b \in Nat, NEW m \in Nat, NEW n \in Nat, m <= n,
         NEW g \in PowersTo(b, m), NEW h \in PowersTo(b, n)
  PROVE  \A e \in 0 .. m : g[e] = h[e]
  <1> DEFINE S == {e \in Nat : e <= m => g[e] = h[e]}
  <1>1. /\ g[0] = 1 /\ \A e \in 1 .. m : g[e] = b * g[e - 1]
        /\ h[0] = 1 /\ \A e \in 1 .. n : h[e] = b * h[e - 1]
    BY DEF PowersTo
  <1>2. 0 \in S
    BY <1>1
  <1>3. ASSUME NEW e \in Nat, e \in S PROVE e + 1 \in S
    <2> SUFFICES ASSUME e + 1 <= m PROVE g[e + 1] = h[e + 1]
      OBVIOUS
    <2>1. e + 1 \in 1 .. m /\ e + 1 \in 1 .. n /\ e + 1 - 1 = e /\ e <= m
      OBVIOUS
    <2>2. g[e + 1] = b * g[e] /\ h[e + 1] = b * h[e] /\ g[e] = h[e]
      BY <1>1, <1>3, <2>1
    <2> QED
      BY <2>2
  <1> HIDE DEF S
  <1>4. \A e \in Nat : e \in S
    BY <1>2, <1>3, AllNumbers
  <1> QED
    BY <1>4 DEF S

LEMMA PowerIsFunction ==
  ASSUME NEW b \in Nat
  PROVE  Strings!Power(b) =
           [e \in Nat |-> IF e = 0 THEN 1 ELSE b * Strings!Power(b)[e - 1]]
  <1> DEFINE P(n) == CHOOSE g \in PowersTo(b, n) : TRUE
             f == [n \in Nat |-> P(n)[n]]
  <1>1. \A n \in Nat : P(n) \in PowersTo(b, n)
    BY PowersExist
  <1> HIDE DEF P
  <1>2. ASSUME NEW e \in Nat PROVE f[e] = IF e = 0 THEN 1 ELSE b * f[e - 1]
    <2>1. CASE e = 0
      <3>1. f[0] = P(0)[0] /\ P(0) \in PowersTo(b, 0)
        BY <1>1
      <3> QED
        BY <2>1, <3>1 DEF PowersTo
    <2>2. CASE e # 0
      <3>1. e - 1 \in Nat /\ e - 1 <= e /\ e \in 1 .. e /\ e - 1 \in 0 .. e - 1
        BY <2>2
      <3>2. P(e) \in PowersTo(b, e) /\ P(e - 1) \in PowersTo(b, e - 1)
        BY <1>1, <3>1
      <3>3. P(e - 1)[e - 1] = P(e)[e - 1]
        BY <3>1, <3>2, PowersAgree
      <3>4. P(e)[e] = b * P(e)[e - 1]
        BY <3>1, <3>2 DEF PowersTo
      <3>5. f[e] = P(e)[e] /\ f[e - 1] = P(e - 1)[e - 1]
        BY <3>1
      <3> QED
        BY <2>2, <3>3, <3>4, <3>5
    <2> QED
      BY <2>1, <2>2
  <1>3. f = [e \in Nat |-> IF e = 0 THEN 1 ELSE b * f[e - 1]]
    <2>1. f = [e \in Nat |-> f[e]]
      OBVIOUS
    <2> HIDE DEF f
    <2> QED
      BY <1>2, <2>1
  <1> HIDE DEF f
  <1>4. \E g : g = [e \in Nat |-> IF e = 0 THEN 1 ELSE b * g[e - 1]]
    BY <1>3
  <1> QED
    BY <1>4 DEF Strings!Power

LEMMA Powers ==
  ASSUME NEW b \in Nat, b >= 1
  PROVE  /\ Strings!Power(b)[0] = 1
         /\ \A e \in Nat : /\ Strings!Power(b)[e] \in Nat /\ Strings!Power(b)[e] >= 1
                           /\ Strings!Power(b)[e + 1] = b * Strings!Power(b)[e]
  <1> DEFINE p == Strings!Power(b)
             S == {e \in Nat : p[e] \in Nat /\ p[e] >= 1}
  <1>1. p = [e \in Nat |-> IF e = 0 THEN 1 ELSE b * p[e - 1]]
    BY PowerIsFunction
  <1> HIDE DEF p
  <1>2. p[0] = 1
    BY <1>1
  <1>3. \A e \in Nat : p[e + 1] = b * p[e]
    <2> SUFFICES ASSUME NEW e \in Nat PROVE p[e + 1] = b * p[e]
      OBVIOUS
    <2>1. e + 1 \in Nat /\ e + 1 # 0 /\ e + 1 - 1 = e
      OBVIOUS
    <2>2. p[e + 1] = b * p[e + 1 - 1]
      BY <1>1, <2>1
    <2> QED
      BY <2>1, <2>2
  <1>4. 0 \in S
    BY <1>2
  <1>5. ASSUME NEW e \in Nat, e \in S PROVE e + 1 \in S
    <2>1. p[e] \in Nat /\ p[e] >= 1 /\ p[e + 1] = b * p[e]
      BY <1>3, <1>5
    <2>2. \A x, y \in Nat : x >= 1 /\ y >= 1 => x * y \in Nat /\ x * y >= 1
      OBVIOUS
    <2>3. p[e + 1] \in Nat /\ p[e + 1] >= 1
      BY <2>1, <2>2
    <2> QED
      BY <2>3
  <1> HIDE DEF S
  <1>6. \A e \in Nat : e \in S
    BY <1>4, <1>5, AllNumbers
  <1> QED
    BY <1>2, <1>3, <1>6 DEF S, p

LEMMA Monotone ==
  ASSUME NEW p \in Nat, NEW x \in Nat, NEW y \in Nat, x <= y
  PROVE  x * p <= y * p
  <1> DEFINE k == y - x
  <1>1. k \in Nat /\ y = x + k
    OBVIOUS
  <1> HIDE DEF k
  <1>2. y * p = x * p + k * p
    BY <1>1
  <1>3. k * p \in Nat /\ x * p \in Nat
    BY <1>1
  <1> QED
    BY <1>2, <1>3

(* A division by ten takes a digit away. *)
LEMMA DigitTaken ==
  ASSUME NEW n \in Nat, NEW p \in Nat, NEW size \in Nat,
         n * p <= size, size < (n + 1) * p
  PROVE  (n \div 10) * (10 * p) <= size /\ size < ((n \div 10) + 1) * (10 * p)
  <1> DEFINE q == n \div 10
  <1>1. q \in Nat /\ 10 * q <= n /\ n + 1 <= 10 * q + 10
    OBVIOUS
  <1> HIDE DEF q
  <1>2. q * (10 * p) = (10 * q) * p /\ (q + 1) * (10 * p) = (10 * q + 10) * p
    BY <1>1
  <1>3. 10 * q \in Nat /\ n + 1 \in Nat /\ 10 * q + 10 \in Nat
    BY <1>1
  <1>4. (10 * q) * p <= n * p
    BY <1>1, <1>3, Monotone
  <1>5. (n + 1) * p <= (10 * q + 10) * p
    BY <1>1, <1>3, Monotone
  <1> DEFINE a == (10 * q) * p
             b == (10 * q + 10) * p
             c == n * p
             d == (n + 1) * p
  <1>6. a \in Nat /\ b \in Nat /\ c \in Nat /\ d \in Nat
    BY <1>3
  <1>7. c <= size /\ size < d /\ a <= c /\ d <= b
    BY <1>4, <1>5
  <1>8. q * (10 * p) = a /\ (q + 1) * (10 * p) = b
    BY <1>2
  <1> HIDE DEF a, b, c, d
  <1>9. a <= size /\ size < b
    BY <1>6, <1>7
  <1> QED
    BY <1>8, <1>9 DEF q
-----------------------------------------------------------------------------
(* The functions of string_utils.c *)

(* A text is collapsed, and the copy split. *)
CollapseOK ==
  /\ pc \in {"collapse", "split", "done"}
  /\ local1 \in 0 .. Len(IF pc = "collapse" THEN arg2 ELSE local2)
  /\ IsCollapsed(local2, arg2, IF pc = "collapse" THEN local1 ELSE Len(arg2))
  /\ pc = "collapse" => local3 = <<>>
  /\ pc = "split" =>
       /\ local1 = 0 \/ local2[local1] \in Strings!Blanks
       /\ WordsTo(local3, local2, local1)
  /\ pc = "done" => Strings!AreWords(local3, local2)

StripOK ==
  /\ pc \in {"strip", "done"}
  /\ local1 \in 0 .. Len(arg2)
  /\ IsStripped(local2, arg2, local1)
  /\ \A i \in 1 .. local1 : arg2[i] # "NUL"
  /\ pc = "done" => ~Strings!HasText

(* The digits counted are those behind the ones of n. *)
Size == IF arg3 < 0 THEN -arg3 ELSE arg3
Sign == IF arg3 < 0 THEN 1 ELSE 0
Counting(k) ==
  /\ local4 \in Nat /\ k \in Nat /\ local5 = k + Sign
  /\ local4 * Strings!Power(10)[k] <= Size
  /\ Size < (local4 + 1) * Strings!Power(10)[k]
  /\ k # 0 => local4 >= 1

DigitsOK ==
  /\ pc \in {"digits", "done"}
  /\ arg3 \in Int
  /\ pc = "digits" => \/ arg3 < 0 /\ local4 = arg3 /\ local5 = 0
                      \/ \E k \in Nat : Counting(k)
  /\ pc = "done" => (arg3 # Strings!MinInt => Strings!IsLength(local5, arg3))

StringsOK ==
  /\ arg1 \in {"collapse", "strip", "digits"}
  /\ arg2 \in Seq(Char)
  /\ local2 \in Seq(Char)
  /\ local3 \in Seq(Seq(Char))
  /\ arg1 = "collapse" => CollapseOK
  /\ arg1 = "strip" => StripOK
  /\ arg1 = "digits" => DigitsOK

StringsInv == function = "strings" => StringsOK

LEMMA StringTypes ==
  /\ StringTexts \subseteq Seq(Char)
  /\ Strings!MinInt \in Int /\ Strings!MinInt < 0
  <1>1. StringTexts \subseteq Seq(Char) /\ Width \in Nat \ {0, 1}
    <2>1. StringTexts \subseteq Seq(STRING) /\ Width \in Nat \ {0, 1}
      BY ArgumentsAssumption DEF Strings!TextsAssumption, Strings!WidthAssumption
    <2>2. STRING \subseteq Char
      BY DEF Char
    <2>3. ASSUME NEW t \in Seq(STRING) PROVE t \in Seq(Char)
      BY <2>2, <2>3, SeqMonotonic
    <2> QED
      BY <2>1, <2>3
  <1>2. Width - 1 \in Nat
    BY <1>1
  <1>3. Strings!Power(2)[Width - 1] \in Nat /\ Strings!Power(2)[Width - 1] >= 1
    BY <1>2, Powers
  <1> QED
    BY <1>1, <1>3 DEF Strings!MinInt

LEMMA CollapseStep ==
  ASSUME StringsOK, Strings!CollapseBlanks PROVE StringsOK'
  <1> DEFINE S == {p \in local1 + 1 .. Len(arg2) : ~Strings!Skips(p)}
             stop == Strings!Min(S)
  <1>1. /\ pc = "collapse" /\ local1 < Len(arg2)
        /\ local2' = Append(local2, CopyOf(arg2[stop])) /\ local1' = stop
        /\ pc' = pc /\ arg1' = arg1 /\ arg2' = arg2 /\ local3' = local3
    BY DEF Strings!CollapseBlanks, CopyOf
  <1>2. /\ arg2 \in Seq(Char) /\ local2 \in Seq(Char) /\ local3 \in Seq(Seq(Char))
        /\ arg1 = "collapse"
        /\ local1 \in 0 .. Len(arg2) /\ IsCollapsed(local2, arg2, local1) /\ local3 = <<>>
    BY <1>1 DEF StringsOK, CollapseOK, StripOK, DigitsOK
  <1>3. Len(arg2) \in Nat /\ local1 \in Nat
    BY <1>2
  <1>4. \A p \in local1 + 1 .. Len(arg2) : p \in Taken(arg2) <=> p \in S
    BY <1>2, <1>3 DEF Taken, Skipped, Strings!Skips
  <1>5. S \subseteq Nat /\ \A p \in S : p \in local1 + 1 .. Len(arg2)
    BY <1>3
  <1> HIDE DEF S
  <1>6. Len(arg2) \in S
    <2>1. Len(arg2) \in Taken(arg2) /\ Len(arg2) \in local1 + 1 .. Len(arg2)
      <3>1. Len(arg2) \in 1 .. Len(arg2) /\ Len(arg2) \in local1 + 1 .. Len(arg2)
        BY <1>1, <1>3
      <3> QED
        BY <1>2, <3>1, TakenIn
    <2> QED
      BY <1>4, <2>1
  <1>7. stop \in S /\ \A p \in S : stop <= p
    BY <1>5, <1>6, StringsMin
  <1> HIDE DEF stop
  <1>8. stop \in Nat /\ local1 < stop /\ stop <= Len(arg2) /\ stop \in Taken(arg2)
    <2>1. stop \in local1 + 1 .. Len(arg2)
      BY <1>5, <1>7
    <2> QED
      BY <1>3, <1>4, <1>7, <2>1
  <1>9. \A x \in local1 + 1 .. stop - 1 : x \notin Taken(arg2)
    <2> SUFFICES ASSUME NEW x \in local1 + 1 .. stop - 1 PROVE x \notin Taken(arg2)
      OBVIOUS
    <2>1. x \in local1 + 1 .. Len(arg2) /\ ~(stop <= x)
      BY <1>3, <1>8
    <2> QED
      BY <1>4, <1>7, <2>1
  <1>10. IsCollapsed(Append(local2, CopyOf(arg2[stop])), arg2, stop)
    BY <1>2, <1>3, <1>8, <1>9, Collapsing
  <1>11. local2' \in Seq(Char)
    <2>1. CopyOf(arg2[stop]) \in Char
      <3>1. stop \in 1 .. Len(arg2)
        BY <1>3, <1>8
      <3>2. arg2[stop] \in Char
        BY <1>2, <3>1
      <3>3. Strings!Space \in Char
        BY DEF Char, Strings!Blanks
      <3> QED
        BY <3>2, <3>3 DEF CopyOf
    <2> QED
      BY <1>1, <1>2, <2>1, AppendProperties
  <1>12. local1' \in 0 .. Len(arg2') /\ IsCollapsed(local2', arg2', local1')
    BY <1>1, <1>3, <1>8, <1>10
  <1> QED
    BY <1>1, <1>2, <1>11, <1>12 DEF StringsOK, CollapseOK

LEMMA CollapsedStep ==
  ASSUME StringsOK, Strings!Collapsed PROVE StringsOK'
  <1>1. /\ pc = "collapse" /\ local1 = Len(arg2) /\ pc' = "split" /\ local1' = 0
        /\ arg1' = arg1 /\ arg2' = arg2 /\ local2' = local2 /\ local3' = local3
    BY DEF Strings!Collapsed
  <1>2. /\ arg2 \in Seq(Char) /\ local2 \in Seq(Char) /\ local3 \in Seq(Seq(Char))
        /\ arg1 = "collapse" /\ local3 = <<>> /\ IsCollapsed(local2, arg2, local1)
    BY <1>1 DEF StringsOK, CollapseOK, StripOK, DigitsOK
  <1>3. WordsTo(local3, local2, 0)
    <2>1. Len(local2) \in Nat /\ \A x \in Strings!Starts(local2) : x \in 1 .. Len(local2)
      BY <1>2, StartsIn
    <2>2. Strings!Rank(Strings!Starts(local2), 0) = 0
      <3> DEFINE T == Strings!Starts(local2)
      <3> HIDE DEF T
      <3>1. Strings!Rank(T, 0) \in Nat /\ Strings!Rank(T, 0) <= 0
        BY <2>1, RankTypes DEF T
      <3> QED
        BY <3>1 DEF T
    <2>3. \A x \in Strings!Starts(local2) : ~(x <= 0)
      BY <2>1
    <2> QED
      BY <1>2, <2>2, <2>3 DEF WordsTo
  <1>4. 0 \in 0 .. Len(local2)
    BY <1>2
  <1>5. IsCollapsed(local2', arg2', Len(arg2')) /\ WordsTo(local3', local2', local1')
        /\ local1' \in 0 .. Len(local2')
    BY <1>1, <1>2, <1>3, <1>4
  <1> QED
    BY <1>1, <1>2, <1>5 DEF StringsOK, CollapseOK

LEMMA NextWord ==
  ASSUME NEW d \in Seq(Char), NEW list \in Seq(Seq(Char)), NEW p \in Nat,
         WordsTo(list, d, p), p = 0 \/ d[p] \in Strings!Blanks,
         NEW e \in p .. Len(d), \A x \in p + 1 .. e : d[x] \notin Strings!Blanks,
         e = Len(d) \/ d[e + 1] \in Strings!Blanks,
         NEW q \in e .. e + 1, q <= Len(d)
  PROVE  LET word == SubSeq(d, p + 1, e)
             longer == IF p = e THEN list ELSE Append(list, word)
         IN  /\ p # e => word # <<>>
             /\ longer \in Seq(Seq(Char))
             /\ WordsTo(longer, d, q)
  <1>1. /\ Len(d) \in Nat /\ e \in Nat /\ q \in Nat /\ p <= q
        /\ \A x \in Strings!Starts(d) : /\ x \in 1 .. Len(d) /\ d[x] \notin Strings!Blanks
                                        /\ x = 1 \/ d[x - 1] \in Strings!Blanks
    BY DEF Strings!Starts, Strings!Solids
  <1>2. q = e + 1 => q \notin Strings!Starts(d)
    BY <1>1
  <1>3. CASE p = e
    <2>1. \A x \in p + 1 .. q : x \notin Strings!Starts(d)
      BY <1>1, <1>2, <1>3
    <2>2. WordsTo(list, d, q)
      BY <1>1, <2>1, NoWord
    <2> QED
      BY <1>3, <2>2
  <1>4. CASE p # e
    <2> DEFINE word == SubSeq(d, p + 1, e)
               longer == Append(list, word)
    <2>1. e \in p + 1 .. Len(d) /\ p + 1 \in Int /\ p + 1 <= e /\ p + 1 \in Nat /\ p + 1 <= q
      BY <1>1, <1>4
    <2>2. word \in Seq(Char) /\ WordsTo(longer, d, p + 1)
      BY <2>1, WordAdded
    <2>3. \A x \in p + 1 .. e : d[x] \in Char
      BY <1>1
    <2>4. Len(word) = e - (p + 1) + 1
      BY <1>1, <2>1, <2>3, SubSeqProperties
    <2>5. Len(<<>>) = 0
      OBVIOUS
    <2>6. word # <<>>
      <3> HIDE DEF word
      <3> QED
        BY <1>1, <2>1, <2>4, <2>5
    <2>7. longer \in Seq(Seq(Char))
      <3> HIDE DEF word
      <3> QED
        BY <2>2, AppendProperties
    <2>8. \A x \in p + 1 + 1 .. q : x \notin Strings!Starts(d)
      <3> SUFFICES ASSUME NEW x \in p + 1 + 1 .. q, x \in Strings!Starts(d) PROVE FALSE
        OBVIOUS
      <3>1. x # 1 /\ d[x - 1] \in Strings!Blanks /\ x # e + 1
        BY <1>1, <1>2
      <3>2. x - 1 \in p + 1 .. e
        BY <1>1, <3>1
      <3> QED
        BY <3>1, <3>2
    <2>9. WordsTo(longer, d, q)
      <3> HIDE DEF longer
      <3> QED
        BY <1>1, <2>1, <2>2, <2>8, NoWord
    <2> QED
      BY <1>4, <2>6, <2>7, <2>9
  <1> QED
    BY <1>3, <1>4

LEMMA SplitTypes ==
  ASSUME StringsOK, pc = "split"
  PROVE  /\ arg2 \in Seq(Char) /\ local2 \in Seq(Char) /\ local3 \in Seq(Seq(Char))
         /\ arg1 = "collapse" /\ IsCollapsed(local2, arg2, Len(arg2))
         /\ local1 \in Nat /\ Len(local2) \in Nat /\ local1 <= Len(local2)
         /\ local1 = 0 \/ local2[local1] \in Strings!Blanks
         /\ WordsTo(local3, local2, local1)
         /\ \A x \in 1 .. Len(local2) :
              local2[x] \in Strings!Blanks <=> local2[x] = Strings!Space
  <1>1. /\ arg2 \in Seq(Char) /\ local2 \in Seq(Char) /\ local3 \in Seq(Seq(Char))
        /\ arg1 = "collapse" /\ IsCollapsed(local2, arg2, Len(arg2))
        /\ local1 \in 0 .. Len(local2) /\ (local1 = 0 \/ local2[local1] \in Strings!Blanks)
        /\ WordsTo(local3, local2, local1)
    BY DEF StringsOK, CollapseOK, StripOK, DigitsOK
  <1>2. Len(arg2) \in 0 .. Len(arg2)
    BY <1>1
  <1> QED
    BY <1>1, <1>2, CopySpaces

LEMMA NextSeparatorStep ==
  ASSUME StringsOK, Strings!NextSeparator PROVE StringsOK'
  <1> DEFINE S == {p \in local1 + 1 .. Len(local2) : local2[p] = Strings!Space}
             q == Strings!Min(S)
             e == q - 1
             word == SubSeq(local2, local1 + 1, e)
  <1>1. /\ pc = "split" /\ S # {} /\ local1' = q
        /\ local3' = IF word = <<>> THEN local3 ELSE Append(local3, word)
        /\ pc' = pc /\ arg1' = arg1 /\ arg2' = arg2 /\ local2' = local2
    BY DEF Strings!NextSeparator, Strings!Separators
  <1>2. /\ arg2 \in Seq(Char) /\ local2 \in Seq(Char) /\ local3 \in Seq(Seq(Char))
        /\ arg1 = "collapse" /\ IsCollapsed(local2, arg2, Len(arg2))
        /\ local1 \in Nat /\ Len(local2) \in Nat /\ local1 <= Len(local2)
        /\ local1 = 0 \/ local2[local1] \in Strings!Blanks
        /\ WordsTo(local3, local2, local1)
        /\ \A x \in 1 .. Len(local2) :
             local2[x] \in Strings!Blanks <=> local2[x] = Strings!Space
    BY <1>1, SplitTypes
  <1>3. S \subseteq Nat /\ \A p \in S : p \in local1 + 1 .. Len(local2) /\ local2[p] = Strings!Space
    BY <1>2
  <1>4. \A p \in local1 + 1 .. Len(local2) : p \notin S => local2[p] # Strings!Space
    OBVIOUS
  <1> HIDE DEF S
  <1>5. q \in S /\ \A p \in S : q <= p
    BY <1>1, <1>3, StringsMin
  <1> HIDE DEF q
  <1>6. /\ q \in local1 + 1 .. Len(local2) /\ local2[q] \in Strings!Blanks
        /\ e \in local1 .. Len(local2) /\ q \in e .. e + 1 /\ q <= Len(local2) /\ e + 1 = q
        /\ q \in Nat
    <2>1. q \in local1 + 1 .. Len(local2) /\ local2[q] = Strings!Space
      BY <1>3, <1>5
    <2>2. q \in 1 .. Len(local2)
      BY <1>2, <2>1
    <2> QED
      BY <1>2, <2>1, <2>2
  <1>7. \A x \in local1 + 1 .. e : local2[x] \notin Strings!Blanks
    <2> SUFFICES ASSUME NEW x \in local1 + 1 .. e PROVE local2[x] \notin Strings!Blanks
      OBVIOUS
    <2>1. x \in local1 + 1 .. Len(local2) /\ ~(q <= x) /\ x \in 1 .. Len(local2)
      BY <1>2, <1>6
    <2> QED
      BY <1>2, <1>4, <1>5, <2>1
  <1> HIDE DEF e
  <1> DEFINE longer == IF local1 = e THEN local3 ELSE Append(local3, word)
  <1>8. /\ local1 # e => word # <<>>
        /\ longer \in Seq(Seq(Char)) /\ WordsTo(longer, local2, q)
    BY <1>2, <1>6, <1>7, NextWord
  <1>9. local3' = longer
    <2>1. local1 = e => word = <<>>
      BY <1>2, SubSeqEmpty
    <2> QED
      BY <1>1, <1>8, <2>1
  <1> HIDE DEF longer
  <1>10. /\ local1' \in 0 .. Len(local2') /\ local2'[local1'] \in Strings!Blanks
         /\ WordsTo(local3', local2', local1') /\ IsCollapsed(local2', arg2', Len(arg2'))
    <2>1. q \in 0 .. Len(local2)
      BY <1>2, <1>6
    <2>2. WordsTo(local3', local2', local1')
      BY <1>1, <1>8, <1>9
    <2> QED
      BY <1>1, <1>2, <1>6, <2>1, <2>2
  <1> QED
    BY <1>1, <1>2, <1>8, <1>9, <1>10 DEF StringsOK, CollapseOK

LEMMA LastWordStep ==
  ASSUME StringsOK, Strings!LastWord PROVE StringsOK'
  <1> DEFINE e == Len(local2)
             word == SubSeq(local2, local1 + 1, e)
  <1>1. /\ pc = "split" /\ local1' = local1
        /\ \A p \in local1 + 1 .. e : local2[p] # Strings!Space
        /\ local3' = IF local1 < e THEN Append(local3, word) ELSE local3
        /\ pc' = "done" /\ arg1' = arg1 /\ arg2' = arg2 /\ local2' = local2
    BY DEF Strings!LastWord, Strings!Separators
  <1>2. /\ arg2 \in Seq(Char) /\ local2 \in Seq(Char) /\ local3 \in Seq(Seq(Char))
        /\ arg1 = "collapse" /\ IsCollapsed(local2, arg2, Len(arg2))
        /\ local1 \in Nat /\ e \in Nat /\ local1 <= e
        /\ local1 = 0 \/ local2[local1] \in Strings!Blanks
        /\ WordsTo(local3, local2, local1)
        /\ \A x \in 1 .. e : local2[x] \in Strings!Blanks <=> local2[x] = Strings!Space
    BY <1>1, SplitTypes
  <1>3. \A x \in local1 + 1 .. e : local2[x] \notin Strings!Blanks
    BY <1>1, <1>2
  <1>4. e \in local1 .. e /\ e \in e .. e + 1 /\ e <= e
    BY <1>2
  <1> DEFINE longer == IF local1 = e THEN local3 ELSE Append(local3, word)
  <1>5. longer \in Seq(Seq(Char)) /\ WordsTo(longer, local2, e)
    BY <1>2, <1>3, <1>4, NextWord
  <1>6. local3' = longer
    BY <1>1, <1>2
  <1> HIDE DEF longer
  <1>7. Strings!AreWords(longer, local2)
    BY <1>2, <1>5, AllWords
  <1>8. /\ local1' \in 0 .. Len(local2') /\ IsCollapsed(local2', arg2', Len(arg2'))
        /\ local3' \in Seq(Seq(Char))
    <2>1. local1 \in 0 .. e
      BY <1>2
    <2> QED
      BY <1>1, <1>2, <1>5, <1>6, <2>1
  <1>9. Strings!AreWords(local3, local2)'
    BY <1>1, <1>6, <1>7
  <1> QED
    BY <1>1, <1>2, <1>8, <1>9 DEF StringsOK, CollapseOK

LEMMA StripBlankStep ==
  ASSUME StringsOK, Strings!StripBlank PROVE StringsOK'
  <1> DEFINE c == arg2[local1 + 1]
  <1>1. pc = "strip" /\ arg1' = arg1 /\ arg2' = arg2 /\ local3' = local3
    BY DEF Strings!StripBlank
  <1>2. /\ arg2 \in Seq(Char) /\ local2 \in Seq(Char) /\ local3 \in Seq(Seq(Char))
        /\ arg1 = "strip" /\ local1 \in 0 .. Len(arg2) /\ IsStripped(local2, arg2, local1)
        /\ \A i \in 1 .. local1 : arg2[i] # "NUL"
    BY <1>1 DEF StringsOK, CollapseOK, StripOK, DigitsOK
  <1>3. local1 \in Nat /\ Len(arg2) \in Nat
    BY <1>2
  <1>4. CASE Strings!HasText
    <2>1. /\ local1 < Len(arg2) /\ c # "NUL"
          /\ local2' = IF c \in Strings!Blanks THEN local2 ELSE Append(local2, c)
          /\ local1' = local1 + 1 /\ pc' = pc
      BY <1>4 DEF Strings!StripBlank, Strings!HasText
    <2>2. local1 + 1 \in 1 .. Len(arg2)
      BY <1>3, <2>1
    <2>3. c \in Char
      BY <1>2, <2>2
    <2> HIDE DEF c
    <2>4. local2' \in Seq(Char)
      BY <1>2, <2>1, <2>3, AppendProperties
    <2>5. IsStripped(local2', arg2, local1 + 1)
      BY <1>2, <1>3, <2>1, Stripping DEF c
    <2>6. ASSUME NEW i \in 1 .. local1 + 1 PROVE arg2[i] # "NUL"
      <3>1. CASE i = local1 + 1
        BY <2>1, <3>1 DEF c
      <3>2. CASE i # local1 + 1
        <4>1. i \in 1 .. local1
          BY <1>3, <3>2
        <4> QED
          BY <1>2, <4>1
      <3> QED
        BY <3>1, <3>2
    <2>7. local1' \in 0 .. Len(arg2')
      BY <1>1, <1>3, <2>1
    <2>8. IsStripped(local2, arg2, local1)' /\ \A i \in 1 .. local1' : arg2'[i] # "NUL"
      BY <1>1, <2>1, <2>5, <2>6
    <2> QED
      BY <1>1, <1>2, <2>1, <2>4, <2>7, <2>8 DEF StringsOK, StripOK
  <1>5. CASE ~Strings!HasText
    <2>1. pc' = "done" /\ local1' = local1 /\ local2' = local2
      BY <1>5 DEF Strings!StripBlank
    <2>2. ~Strings!HasText'
      BY <1>1, <1>5, <2>1 DEF Strings!HasText
    <2>3. /\ IsStripped(local2, arg2, local1)' /\ local1' \in 0 .. Len(arg2')
          /\ \A i \in 1 .. local1' : arg2'[i] # "NUL"
      BY <1>1, <1>2, <2>1
    <2> QED
      BY <1>1, <1>2, <2>1, <2>2, <2>3 DEF StringsOK, StripOK
  <1> QED
    BY <1>4, <1>5

(* The digit left over is the first one. *)
LEMMA LastDigit ==
  ASSUME NEW k \in Nat, Counting(k), arg3 \in Int, local4 < 10
  PROVE  Strings!IsLength(local5 + 1, arg3)
  <1> DEFINE p == Strings!Power(10)[k]
             size == Size
             sign == Sign
  <1>1. /\ local4 \in Nat /\ local5 = k + sign
        /\ local4 * p <= size /\ size < (local4 + 1) * p
        /\ k # 0 => local4 >= 1
    BY DEF Counting
  <1>2. p \in Nat /\ Strings!Power(10)[k + 1] = 10 * p
    BY Powers
  <1>3. size \in Nat /\ sign \in {0, 1}
    BY DEF Size, Sign
  <1> HIDE DEF p, size, sign
  <1>4. (local4 + 1) * p <= 10 * p
    BY <1>1, <1>2, Monotone
  <1>5. size < 10 * p
    <2> DEFINE a == (local4 + 1) * p
               b == 10 * p
    <2>1. a \in Nat /\ b \in Nat /\ size < a /\ a <= b
      BY <1>1, <1>2, <1>4
    <2> HIDE DEF a, b
    <2>2. size < b
      BY <1>3, <2>1
    <2> QED
      BY <2>2 DEF b
  <1>6. k # 0 => p <= size
    <2> SUFFICES ASSUME k # 0 PROVE p <= size
      OBVIOUS
    <2>1. 1 * p <= local4 * p /\ 1 * p = p
      BY <1>1, <1>2, Monotone
    <2> DEFINE a == local4 * p
    <2>2. a \in Nat /\ p <= a /\ a <= size
      BY <1>1, <1>2, <2>1
    <2> HIDE DEF a
    <2> QED
      BY <1>2, <1>3, <2>2
  <1> DEFINE m == k + 1
             d == local5 + 1
  <1>7. m \in Nat /\ m >= 1 /\ (k = 0 => m = 1) /\ m - 1 = k /\ d - sign = m /\ d \in Int
    BY <1>1, <1>3
  <1>8. size < Strings!Power(10)[m] /\ (m = 1 \/ Strings!Power(10)[m - 1] <= size)
    BY <1>2, <1>5, <1>6, <1>7 DEF p
  <1> HIDE DEF m, d
  <1>9. Strings!IsLength(d, arg3)
    <2>1. CASE arg3 < 0
      <3>1. size = -arg3 /\ d - 1 = m
        BY <1>7, <2>1 DEF size, sign, Size, Sign
      <3> QED
        BY <1>7, <1>8, <2>1, <3>1 DEF Strings!IsLength
    <2>2. CASE ~(arg3 < 0)
      <3>1. size = arg3 /\ d = m
        BY <1>7, <2>2 DEF size, sign, Size, Sign
      <3> QED
        BY <1>7, <1>8, <2>2, <3>1 DEF Strings!IsLength
    <2> QED
      BY <2>1, <2>2
  <1> QED
    BY <1>9 DEF d

LEMMA CountDigitStep ==
  ASSUME StringsOK, Strings!CountDigit PROVE StringsOK'
  <1>1. /\ pc = "digits" /\ arg1' = arg1 /\ arg2' = arg2 /\ arg3' = arg3
        /\ local2' = local2 /\ local3' = local3
    BY DEF Strings!CountDigit, Strings!copying
  <1>2. arg1 = "digits" /\ arg3 \in Int
    BY <1>1 DEF StringsOK, CollapseOK, StripOK, DigitsOK
  <1>3. \/ arg3 < 0 /\ local4 = arg3 /\ local5 = 0
        \/ \E k \in Nat : Counting(k)
    BY <1>1, <1>2 DEF StringsOK, DigitsOK
  <1>4. Size' = Size /\ Sign' = Sign /\ Size \in Nat /\ Sign \in {0, 1}
    BY <1>1, <1>2 DEF Size, Sign
  <1>5. Strings!MinInt \in Int /\ Strings!MinInt < 0
    BY StringTypes
  <1>6. ASSUME NEW k \in Nat, Counting(k)
        PROVE  /\ local4 \in Nat /\ local5 = k + Sign
               /\ local4 * Strings!Power(10)[k] <= Size
               /\ Size < (local4 + 1) * Strings!Power(10)[k]
    BY <1>6 DEF Counting
  <1> SUFFICES DigitsOK'
    BY <1>1, <1>2 DEF StringsOK
  <1>7. CASE local4 < 0 /\ local4 # Strings!MinInt /\ local4' = -local4
             /\ local5' = local5 + 1 /\ pc' = pc
    <2>1. arg3 < 0 /\ local4 = arg3 /\ local5 = 0
      BY <1>3, <1>6, <1>7
    <2>2. Strings!Power(10)[0] = 1
      BY Powers
    <2>3. Size = local4' /\ local4' \in Nat /\ Sign = 1 /\ local5' = 0 + Sign
      BY <1>2, <1>7, <2>1 DEF Size, Sign
    <2>4. local4' * Strings!Power(10)[0] <= Size /\ Size < (local4' + 1) * Strings!Power(10)[0]
      BY <2>2, <2>3
    <2>5. Counting(0)'
      BY <1>4, <2>3, <2>4 DEF Counting
    <2> QED
      BY <1>1, <1>2, <1>7, <2>5 DEF DigitsOK
  <1>8. CASE local4 >= 0 /\ local4 >= 10 /\ local4' = local4 \div 10
             /\ local5' = local5 + 1 /\ pc' = pc
    <2>1. PICK k \in Nat : Counting(k)
      BY <1>2, <1>3, <1>8
    <2> DEFINE p == Strings!Power(10)[k]
    <2>2. p \in Nat /\ Strings!Power(10)[k + 1] = 10 * p
      BY Powers
    <2>3. local4 \in Nat /\ local5 = k + Sign /\ local4 * p <= Size /\ Size < (local4 + 1) * p
      BY <1>6, <2>1
    <2> HIDE DEF p
    <2>4. (local4 \div 10) * (10 * p) <= Size /\ Size < ((local4 \div 10) + 1) * (10 * p)
      BY <1>4, <2>2, <2>3, DigitTaken
    <2>5. local4 \div 10 \in Nat /\ local4 \div 10 >= 1 /\ k + 1 \in Nat
          /\ local5' = k + 1 + Sign
      BY <1>4, <1>8, <2>3
    <2>6. Counting(k + 1)'
      BY <1>4, <1>8, <2>2, <2>4, <2>5 DEF Counting
    <2>7. \E j \in Nat : Counting(j)'
      BY <2>5, <2>6
    <2> QED
      BY <1>1, <1>2, <1>8, <2>7 DEF DigitsOK
  <1>9. CASE local4 = Strings!MinInt /\ local5' = local5 + 2 /\ pc' = "done"
    <2>1. arg3 = Strings!MinInt
      BY <1>3, <1>5, <1>6, <1>9
    <2>2. arg3' = Strings!MinInt'
      BY <1>1, <2>1 DEF Strings!MinInt
    <2> QED
      BY <1>1, <1>2, <1>9, <2>2 DEF DigitsOK
  <1>10. CASE local4 >= 0 /\ local4 < 10 /\ local5' = local5 + 1 /\ pc' = "done"
    <2>1. PICK k \in Nat : Counting(k)
      BY <1>2, <1>3, <1>10
    <2>2. Strings!IsLength(local5 + 1, arg3)
      BY <1>2, <1>10, <2>1, LastDigit
    <2>3. Strings!IsLength(local5', arg3')
      BY <1>1, <1>10, <2>2
    <2> QED
      BY <1>1, <1>2, <1>10, <2>3 DEF DigitsOK
  <1>11. local4 \in Int
    BY <1>2, <1>3, <1>6
  <1> QED
    BY <1>7, <1>8, <1>9, <1>10, <1>11 DEF Strings!CountDigit, Strings!FromTen

LEMMA StringsStutter ==
  ASSUME StringsOK,
         UNCHANGED <<arg1, arg2, arg3, pc, local1, local2, local3, local4, local5>>
  PROVE  StringsOK'
  <1>1. CollapseOK => CollapseOK'
    BY DEF CollapseOK
  <1>2. StripOK => StripOK'
    BY DEF StripOK, Strings!HasText
  <1>3. DigitsOK => DigitsOK'
    BY DEF DigitsOK, Counting, Size, Sign
  <1> QED
    BY <1>1, <1>2, <1>3 DEF StringsOK

LEMMA StringsStep == StringsInv /\ [Next]_vars => StringsInv'
  <1> SUFFICES ASSUME StringsInv, [Next]_vars PROVE StringsInv'
    OBVIOUS
  <1>1. CASE function = "strings" /\ Strings!Next
    <2>1. StringsOK
      BY <1>1 DEF StringsInv
    <2>2. CASE Strings!CollapseBlanks
      BY <2>1, <2>2, CollapseStep DEF StringsInv
    <2>3. CASE Strings!Collapsed
      BY <2>1, <2>3, CollapsedStep DEF StringsInv
    <2>4. CASE Strings!NextSeparator
      BY <2>1, <2>4, NextSeparatorStep DEF StringsInv
    <2>5. CASE Strings!LastWord
      BY <2>1, <2>5, LastWordStep DEF StringsInv
    <2>6. CASE Strings!StripBlank
      BY <2>1, <2>6, StripBlankStep DEF StringsInv
    <2>7. CASE Strings!CountDigit
      BY <2>1, <2>7, CountDigitStep DEF StringsInv
    <2>8. CASE Strings!Returned
      <3>1. UNCHANGED <<arg1, arg2, arg3, pc, local1, local2, local3, local4, local5>>
        BY <2>8 DEF Strings!Returned, Strings!vars, Strings!copying, Strings!counting
      <3> QED
        BY <2>1, <3>1, StringsStutter DEF StringsInv
    <2> QED
      BY <1>1, <2>2, <2>3, <2>4, <2>5, <2>6, <2>7, <2>8 DEF Strings!Next
  <1>2. CASE function' = function /\ function # "strings"
    BY <1>2 DEF StringsInv
  <1>3. CASE UNCHANGED vars
    <2>1. UNCHANGED <<function, arg1, arg2, arg3, pc, local1, local2, local3, local4, local5>>
      BY <1>3 DEF vars
    <2> QED
      BY <2>1, StringsStutter DEF StringsInv
  <1> QED
    BY <1>1, <1>2, <1>3
    DEF Next, RunStrings, RunReading, RunRanging, RunMessage, RunEquality

LEMMA InitStringsInv == Init => StringsInv
  <1> SUFFICES ASSUME Init, function = "strings" PROVE StringsOK
    BY DEF StringsInv
  <1>1. Strings!Init
    BY DEF Init
  <1>2. /\ arg1 \in {"collapse", "strip", "digits"} /\ pc = arg1
        /\ local1 = 0 /\ local2 = <<>> /\ local3 = <<>> /\ local4 = arg3 /\ local5 = 0
        /\ arg1 = "digits" => arg2 = <<>> /\ arg3 \in Strings!Ints
        /\ arg1 # "digits" => arg2 \in StringTexts
    BY <1>1 DEF Strings!Init
  <1>3. arg2 \in Seq(Char) /\ local2 \in Seq(Char) /\ local3 \in Seq(Seq(Char))
    <2>1. <<>> \in Seq(Char) /\ <<>> \in Seq(Seq(Char))
      OBVIOUS
    <2>2. arg2 \in Seq(Char)
      BY <1>2, <2>1, StringTypes
    <2> QED
      BY <1>2, <2>1, <2>2
  <1>4. Len(arg2) \in Nat /\ local1 \in 0 .. Len(arg2) /\ Len(<<>>) = 0
    BY <1>2, <1>3
  <1>5. CASE arg1 = "collapse"
    <2> DEFINE S == Taken(arg2)
    <2>1. \A q \in S : q \in 1 .. Len(arg2)
      BY <1>4 DEF Taken
    <2>2. Strings!Rank(S, 0) = 0 /\ \A q \in S : ~(q <= 0)
      <3> HIDE DEF S
      <3>1. Strings!Rank(S, 0) \in Nat /\ Strings!Rank(S, 0) <= 0
        BY <1>4, <2>1, RankTypes
      <3> QED
        BY <1>4, <2>1, <3>1
    <2>3. IsCollapsed(local2, arg2, local1)
      BY <1>2, <1>4, <2>2 DEF IsCollapsed
    <2> QED
      BY <1>2, <1>3, <1>4, <1>5, <2>3 DEF StringsOK, CollapseOK
  <1>6. CASE arg1 = "strip"
    <2> DEFINE S == Strings!Solids(arg2)
    <2>1. \A q \in S : q \in 1 .. Len(arg2)
      BY <1>3, SolidsIn
    <2>2. Strings!Rank(S, 0) = 0 /\ \A q \in S : ~(q <= 0)
      <3> HIDE DEF S
      <3>1. Strings!Rank(S, 0) \in Nat /\ Strings!Rank(S, 0) <= 0
        BY <1>4, <2>1, RankTypes
      <3> QED
        BY <1>4, <2>1, <3>1
    <2>3. IsStripped(local2, arg2, local1)
      BY <1>2, <1>4, <2>2 DEF IsStripped
    <2> QED
      BY <1>2, <1>3, <1>4, <1>6, <2>3 DEF StringsOK, StripOK
  <1>7. CASE arg1 = "digits"
    <2>1. arg3 \in Int
      BY <1>2, <1>7, StringTypes DEF Strings!Ints
    <2>2. CASE arg3 < 0
      BY <1>2, <1>3, <1>7, <2>1, <2>2 DEF StringsOK, DigitsOK
    <2>3. CASE ~(arg3 < 0)
      <3>1. Strings!Power(10)[0] = 1
        BY Powers
      <3>2. Size = local4 /\ Sign = 0 /\ local4 \in Nat
        BY <1>2, <2>1, <2>3 DEF Size, Sign
      <3>3. Counting(0)
        BY <1>2, <3>1, <3>2 DEF Counting
      <3> QED
        BY <1>2, <1>3, <1>7, <2>1, <3>3 DEF StringsOK, DigitsOK
    <2> QED
      BY <2>2, <2>3
  <1> QED
    BY <1>2, <1>5, <1>6, <1>7

LEMMA CopyRight == StringsOK => Strings!CopyFaithful
  <1> SUFFICES ASSUME StringsOK, pc = "collapse" PROVE Strings!CopyFaithful
    BY DEF Strings!CopyFaithful
  <1>1. /\ arg2 \in Seq(Char) /\ local2 \in Seq(Char)
        /\ local1 \in 0 .. Len(arg2) /\ IsCollapsed(local2, arg2, local1)
    BY DEF StringsOK, CollapseOK, StripOK, DigitsOK
  <1>2. Strings!SameButBlanks(local2, SubSeq(arg2, 1, local1))
    BY <1>1, CopySame
  <1>3. \A e \in 1 .. Len(local2) - 1 :
          ~(local2[e] \in Strings!Blanks /\ local2[e + 1] \in Strings!Blanks)
    BY <1>1, CopySingle
  <1>4. Len(local2) <= local1
    BY <1>1, CollapsedRanks
  <1> QED
    BY <1>2, <1>3, <1>4 DEF Strings!CopyFaithful

LEMMA ResultRight == StringsOK => Strings!ResultsRight
  <1> SUFFICES ASSUME StringsOK, pc = "done" PROVE Strings!ResultsRight
    BY DEF Strings!ResultsRight
  <1>1. arg1 \in {"collapse", "strip", "digits"} /\ arg2 \in Seq(Char) /\ local2 \in Seq(Char)
    BY DEF StringsOK
  <1>2. CASE arg1 = "collapse"
    <2>1. IsCollapsed(local2, arg2, Len(arg2)) /\ Strings!AreWords(local3, local2)
      BY <1>2 DEF StringsOK, CollapseOK
    <2>2. Strings!AreWords(local3, arg2)
      BY <1>1, <2>1, WordsOfCopy
    <2> QED
      BY <1>2, <2>2 DEF Strings!ResultsRight
  <1>3. CASE arg1 = "strip"
    <2>1. /\ local1 \in 0 .. Len(arg2) /\ IsStripped(local2, arg2, local1)
          /\ \A i \in 1 .. local1 : arg2[i] # "NUL"
          /\ ~Strings!HasText
      BY <1>3 DEF StringsOK, StripOK
    <2>2. local1 = Len(arg2) \/ arg2[local1 + 1] = "NUL"
      BY <1>1, <2>1 DEF Strings!HasText
    <2>3. Strings!Terminated(arg2) = SubSeq(arg2, 1, local1)
      BY <1>1, <2>1, <2>2, TextEnds
    <2>4. Strings!Solids(local2) = DOMAIN local2
          /\ Strings!SameButBlanks(local2, SubSeq(arg2, 1, local1))
      BY <1>1, <2>1, StrippedSame
    <2> QED
      BY <1>3, <2>3, <2>4 DEF Strings!ResultsRight
  <1>4. CASE arg1 = "digits"
    <2>1. arg3 # Strings!MinInt => Strings!IsLength(local5, arg3)
      BY <1>4 DEF StringsOK, DigitsOK
    <2> QED
      BY <1>4, <2>1 DEF Strings!ResultsRight
  <1> QED
    BY <1>1, <1>2, <1>3, <1>4

(***************************************************************************)
(* For every text: at each turn of str_removeMultipleSpaces the copy has   *)
(* the solid characters that were read, in their order, never two blanks   *)
(* side by side, and is no longer than what was read                       *)
(* (string_utils.c:50-76).                                                  *)
(***************************************************************************)
THEOREM CopiesAreFaithful == Spec => []CopyFaithful
  <1>1. StringsInv => CopyFaithful
    BY CopyRight DEF StringsInv, CopyFaithful
  <1> QED
    BY <1>1, InitStringsInv, StringsStep, PTL DEF Spec

(***************************************************************************)
(* For every text and every width of an int: str_splitItems finds in the   *)
(* collapsed copy the words of the text itself, str_removeWhitespaces      *)
(* copies the solid characters up to the terminator, and str_numberLength  *)
(* counts the characters of any int but the least                          *)
(* (string_utils.c:9-48, 93-134).                                                *)
(***************************************************************************)
THEOREM ResultsAreRight == Spec => []ResultsRight
  <1>1. StringsInv => ResultsRight
    BY ResultRight DEF StringsInv, ResultsRight
  <1> QED
    BY <1>1, InitStringsInv, StringsStep, PTL DEF Spec
=============================================================================
