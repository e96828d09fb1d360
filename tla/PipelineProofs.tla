--------------------------- MODULE PipelineProofs ---------------------------
(***************************************************************************)
(* Proofs about the way from the text of a grammar file to its diagnostic, *)
(* for every file: the list stays in the order of the source while it is   *)
(* filled and split, the items are the tokens of the source, each is found *)
(* again at its own line and column, every declaration of an accepted      *)
(* file is stored, and a reported error stands where the item at fault     *)
(* does.                                                                   *)
(***************************************************************************)
EXTENDS Pipeline, TLAPS, FiniteSetTheorems, WellFoundedInduction
-----------------------------------------------------------------------------
(* The inductive invariant of the extraction *)

(* No character behind the position, or behind the words already split,    *)
(* belongs to an item; a block lies behind its segment.                    *)
Reach ==
  /\ extractPc = "extract" =>
       \A n \in DOMAIN stringItems : stringItems[n].to <= sourcePos
  /\ extractPc = "words" =>
       /\ \A n \in DOMAIN stringItems : stringItems[n].to < segment.from
       /\ \A n \in DOMAIN stringItems : stringItems[n].to <= segment.to
       /\ blockEnd # 0 => segment.to < blockEnd

(* The cursor never passes the items it has located, so that the next one  *)
(* occurs behind it.                                                       *)
Located ==
  /\ extractPc # "lost"
  /\ extractPc \in {"extract", "words"} => at = 0
  /\ extractPc \in {"extract", "words", "split"} => cursor = 0 /\ positions = <<>>
  /\ extractPc \in {"locate", "done"} => Len(positions) = at
  /\ extractPc = "locate" => cursor <= IF at = 0 THEN 0 ELSE stringItems[at].to
  /\ extractPc = "done" => at = Len(stringItems)

ExtractionInv == E!TypeOK /\ SourceOrder /\ Reach /\ Located

(* The stages of the program do not overlap. *)
StageOK ==
  /\ stage \in {"read", "extract", "parse", "exit", "crashed"}
  /\ stage \in {"read", "crashed"} => extractPc = "extract" /\ stringItems = <<>>
  /\ stage \in {"read", "extract", "crashed"} => pc = "declaration" /\ heap = {}
-----------------------------------------------------------------------------
(* Least and greatest elements *)

LessThan == {pair \in Nat \X Nat : pair[1] < pair[2]}

LEMMA LessThanWellFounded == IsWellFoundedOn(LessThan, Nat)
  <1>1. LessThan = OpToRel(<, Nat)
    BY DEF LessThan, OpToRel
  <1> QED
    BY <1>1, NatLessThanWellFounded

(* A set of natural numbers has a least element. *)
LEMMA Least ==
  ASSUME NEW S, S \subseteq Nat, S # {}
  PROVE  E!Min(S) \in S /\ \A y \in S : E!Min(S) <= y
  <1>1. \A x, y \in Nat : <<y, x>> \in LessThan <=> y < x
    BY DEF LessThan
  <1>2. PICK x \in S : \A y \in S : <<y, x>> \notin LessThan
    BY LessThanWellFounded, WFMin
  <1>3. ASSUME NEW y \in S PROVE x <= y
    <2>1. <<y, x>> \notin LessThan /\ y \in Nat /\ x \in Nat
      BY <1>2
    <2>2. ~(y < x)
      BY <1>1, <2>1
    <2> QED
      BY <2>1, <2>2
  <1> QED
    BY <1>3 DEF E!Min

(* A set of natural numbers below a bound has a greatest element. *)
LEMMA Greatest ==
  ASSUME NEW b \in Nat, NEW S, S \subseteq 0 .. b, S # {}
  PROVE  E!Max(S) \in S /\ \A y \in S : y <= E!Max(S)
  <1> DEFINE T == {b - y : y \in S}
  <1>1. T \subseteq Nat /\ T # {}
    <2>1. \A y \in S : y \in 0 .. b /\ b - y \in Nat
      OBVIOUS
    <2> QED
      BY <2>1
  <1>2. E!Min(T) \in T /\ \A y \in T : E!Min(T) <= y
    BY <1>1, Least
  <1>3. PICK x \in S : E!Min(T) = b - x
    BY <1>2
  <1>4. ASSUME NEW y \in S PROVE y <= x
    <2>1. b - y \in T
      OBVIOUS
    <2>2. b - x <= b - y
      BY <1>2, <1>3, <2>1
    <2>3. x \in Nat /\ y \in Nat
      OBVIOUS
    <2> QED
      BY <2>2, <2>3
  <1>5. \A z \in S : (\A y \in S : z >= y) => \A y \in S : y <= z
    OBVIOUS
  <1>6. \A y \in S : x >= y
    BY <1>4
  <1> QED
    BY <1>6 DEF E!Max
-----------------------------------------------------------------------------
(* The source and the characters in it *)

LEMMA EndIsNat == ASSUME E!TypeOK PROVE E!End \in Nat /\ E!End = Len(source)
  <1>1. source \in Seq(STRING)
    BY FilesAssumption DEF E!TypeOK
  <1> QED
    BY <1>1 DEF E!End

LEMMA FirstQuote ==
  ASSUME E!TypeOK, NEW a \in Nat, a >= 1, E!Quotes(a, E!End) # {}
  PROVE  /\ E!Min(E!Quotes(a, E!End)) \in a .. E!End
         /\ E!Min(E!Quotes(a, E!End)) \in E!Quotes(a, E!End)
         /\ \A p \in E!Quotes(a, E!End) : E!Min(E!Quotes(a, E!End)) <= p
  <1>1. E!Quotes(a, E!End) \subseteq a .. E!End
    BY DEF E!Quotes, E!Where
  <1>2. E!Quotes(a, E!End) \subseteq Nat
    BY <1>1, EndIsNat
  <1> QED
    BY <1>1, <1>2, Least

(* A block ends behind its start. *)
LEMMA BlockEndsBehind ==
  ASSUME E!TypeOK, NEW start \in 1 .. E!End, NEW end \in E!BlockEnds(start)
  PROVE  end \in start .. E!End
  <1>1. E!End \in Nat /\ start + 1 \in Nat /\ start + 1 >= 1
    BY EndIsNat
  <1>2. CASE E!Quotes(start + 1, E!End) = {}
    BY <1>1, <1>2 DEF E!BlockEnds
  <1>3. CASE E!Quotes(start + 1, E!End) # {}
    <2>1. E!Min(E!Quotes(start + 1, E!End)) \in start + 1 .. E!End
      BY <1>1, <1>3, FirstQuote
    <2>2. end = E!Min(E!Quotes(start + 1, E!End))
      BY <1>3 DEF E!BlockEnds
    <2> QED
      BY <1>1, <2>1, <2>2
  <1> QED
    BY <1>2, <1>3
-----------------------------------------------------------------------------
(* The loop of prs_extractGrammarItems *)

LEMMA ElementsOf ==
  ASSUME NEW T, NEW s \in Seq(T)
  PROVE  Len(s) \in Nat /\ DOMAIN s = 1 .. Len(s) /\ \A n \in DOMAIN s : s[n] \in T
  OBVIOUS

LEMMA Concatenation ==
  ASSUME NEW T, NEW s \in Seq(T), NEW t \in Seq(T)
  PROVE  /\ s \o t \in Seq(T) /\ Len(s \o t) = Len(s) + Len(t)
         /\ \A m \in 1 .. Len(s) : (s \o t)[m] = s[m]
         /\ \A m \in Len(s) + 1 .. Len(s) + Len(t) : (s \o t)[m] = t[m - Len(s)]
  OBVIOUS

LEMMA IntervalFields ==
  ASSUME NEW T, NEW i \in [from : T, to : T]
  PROVE  i = E!Interval(i.from, i.to) /\ i.from \in T /\ i.to \in T
  BY DEF E!Interval

LEMMA ItemTypes ==
  ASSUME E!TypeOK
  PROVE  /\ Len(stringItems) \in Nat /\ DOMAIN stringItems = 1 .. Len(stringItems)
         /\ \A n \in DOMAIN stringItems :
              /\ stringItems[n] = E!Interval(stringItems[n].from, stringItems[n].to)
              /\ stringItems[n].from \in 1 .. E!End /\ stringItems[n].to \in 1 .. E!End
              /\ stringItems[n].from <= stringItems[n].to
  <1>1. stringItems \in Seq([from : 1 .. E!End, to : 1 .. E!End])
    BY DEF E!TypeOK
  <1>2. \A n \in DOMAIN stringItems : stringItems[n] \in [from : 1 .. E!End, to : 1 .. E!End]
    BY <1>1, ElementsOf
  <1>3. \A i \in [from : 1 .. E!End, to : 1 .. E!End] :
          i = E!Interval(i.from, i.to) /\ i.from \in 1 .. E!End /\ i.to \in 1 .. E!End
    BY IntervalFields
  <1>4. \A n \in DOMAIN stringItems : stringItems[n].from <= stringItems[n].to
    BY DEF E!TypeOK
  <1> QED
    BY <1>1, <1>2, <1>3, <1>4, ElementsOf

LEMMA BeginBlockInv ==
  ASSUME ExtractionInv, E!BeginBlock PROVE ExtractionInv'
  <1> DEFINE start == E!Min(E!Quotes(sourcePos + 1, E!End))
  <1>1. E!TypeOK /\ E!End \in Nat /\ sourcePos \in 0 .. E!End
    BY EndIsNat DEF ExtractionInv, E!TypeOK
  <1>2. start \in sourcePos + 1 .. E!End
    BY <1>1, FirstQuote DEF E!BeginBlock
  <1>3. PICK end \in E!BlockEnds(start) :
          IF start = sourcePos + 1
          THEN sourcePos' = end /\ UNCHANGED <<extractPc, segment, blockEnd>>
          ELSE E!SplitText(start - 1, end)
    BY DEF E!BeginBlock
  <1> HIDE DEF start
  <1>4. end \in start .. E!End
    BY <1>1, <1>2, <1>3, BlockEndsBehind
  <1>5. /\ extractPc = "extract"
        /\ UNCHANGED <<source, stringItems, count, result, at, cursor, place, positions>>
    BY DEF E!BeginBlock, E!locating
  <1>6. CASE start = sourcePos + 1
    <2>1. sourcePos' = end /\ UNCHANGED <<extractPc, segment, blockEnd>>
      BY <1>3, <1>6
    <2>2. E!TypeOK'
      BY <1>1, <1>2, <1>4, <1>5, <2>1 DEF E!TypeOK, E!End
    <2>3. SourceOrder' /\ Located'
      BY <1>5, <2>1 DEF ExtractionInv, SourceOrder, E!SourceOrder, Located
    <2>4. Reach'
      BY <1>1, <1>2, <1>4, <1>5, <2>1, ItemTypes DEF ExtractionInv, Reach
    <2> QED
      BY <2>2, <2>3, <2>4 DEF ExtractionInv
  <1>7. CASE start # sourcePos + 1
    <2>1. /\ segment' = [from |-> sourcePos + 1, to |-> start - 1]
          /\ blockEnd' = end /\ extractPc' = "words" /\ sourcePos' = sourcePos
      BY <1>3, <1>7 DEF E!SplitText, E!Interval
    <2>2. E!TypeOK'
      BY <1>1, <1>2, <1>4, <1>5, <1>7, <2>1 DEF E!TypeOK, E!End
    <2>3. SourceOrder' /\ Located'
      BY <1>5, <2>1 DEF ExtractionInv, SourceOrder, E!SourceOrder, Located
    <2>4. Reach'
      BY <1>1, <1>2, <1>4, <1>5, <1>7, <2>1, ItemTypes DEF ExtractionInv, Reach
    <2> QED
      BY <2>2, <2>3, <2>4 DEF ExtractionInv
  <1> QED
    BY <1>6, <1>7

LEMMA UnendedBlockInv ==
  ASSUME ExtractionInv, E!UnendedBlock PROVE ExtractionInv'
  <1>1. E!TypeOK /\ extractPc = "extract" /\ extractPc' = "locate" /\ result' = -1
    BY DEF ExtractionInv, E!UnendedBlock
  <1>2. UNCHANGED <<source, sourcePos, segment, blockEnd, stringItems, count, at,
                    cursor, place, positions>>
    BY DEF E!UnendedBlock, E!extracting, E!locating
  <1>3. E!TypeOK'
    BY <1>1, <1>2 DEF E!TypeOK, E!End
  <1>4. SourceOrder' /\ Reach' /\ Located'
    BY <1>1, <1>2 DEF ExtractionInv, SourceOrder, E!SourceOrder, Located, Reach
  <1> QED
    BY <1>3, <1>4 DEF ExtractionInv

LEMMA BeginTailInv ==
  ASSUME ExtractionInv, E!BeginTail PROVE ExtractionInv'
  <1>1. /\ E!TypeOK /\ E!End \in Nat /\ sourcePos \in 0 .. E!End
        /\ extractPc = "extract" /\ sourcePos < E!End
    BY EndIsNat DEF ExtractionInv, E!TypeOK, E!BeginTail
  <1>2. /\ segment' = [from |-> sourcePos + 1, to |-> E!End]
        /\ blockEnd' = 0 /\ extractPc' = "words" /\ sourcePos' = sourcePos
        /\ UNCHANGED <<source, stringItems, count, result, at, cursor, place, positions>>
    BY DEF E!BeginTail, E!SplitText, E!Interval, E!locating
  <1>3. E!TypeOK'
    BY <1>1, <1>2 DEF E!TypeOK, E!End
  <1>4. SourceOrder' /\ Located'
    BY <1>1, <1>2 DEF ExtractionInv, SourceOrder, E!SourceOrder, Located
  <1>5. Reach'
    BY <1>1, <1>2, ItemTypes DEF ExtractionInv, Reach
  <1> QED
    BY <1>3, <1>4, <1>5 DEF ExtractionInv

LEMMA SourceEndInv ==
  ASSUME ExtractionInv, E!SourceEnd PROVE ExtractionInv'
  <1>1. /\ E!TypeOK /\ extractPc = "extract" /\ extractPc' = "split"
        /\ UNCHANGED <<source, sourcePos, segment, blockEnd, stringItems, count,
                       result, at, cursor, place, positions>>
    BY DEF ExtractionInv, E!SourceEnd, E!extracting, E!locating
  <1>2. E!TypeOK'
    BY <1>1 DEF E!TypeOK, E!End
  <1>3. SourceOrder' /\ Reach' /\ Located'
    BY <1>1 DEF ExtractionInv, SourceOrder, E!SourceOrder, Located, Reach
  <1> QED
    BY <1>2, <1>3 DEF ExtractionInv

(* An item behind all others goes to the end of the list. *)
LEMMA PushOrder ==
  ASSUME ExtractionInv, NEW a \in 1 .. E!End, NEW b \in a .. E!End,
         E!Push(E!Interval(a, b)),
         \A n \in DOMAIN stringItems : stringItems[n].to < a
  PROVE  /\ stringItems' \in Seq([from : 1 .. E!End, to : 1 .. E!End])
         /\ \A n \in DOMAIN stringItems' : stringItems'[n].from <= stringItems'[n].to
         /\ count' \in Nat
         /\ SourceOrder'
         /\ \A n \in DOMAIN stringItems' : stringItems'[n].to <= b
         /\ Len(stringItems') = Len(stringItems) + 1
  <1> DEFINE i == [from |-> a, to |-> b]
             k == Len(stringItems)
  <1>1. /\ E!TypeOK /\ E!End \in Nat /\ k \in Nat
        /\ stringItems \in Seq([from : 1 .. E!End, to : 1 .. E!End])
        /\ DOMAIN stringItems = 1 .. k /\ count \in Nat
        /\ \A n \in DOMAIN stringItems :
             stringItems[n].from \in 1 .. E!End /\ stringItems[n].to \in 1 .. E!End
             /\ stringItems[n].from <= stringItems[n].to
    BY EndIsNat, ItemTypes DEF ExtractionInv, E!TypeOK
  <1>2. i \in [from : 1 .. E!End, to : 1 .. E!End] /\ i.from = a /\ i.to = b /\ a <= b
    BY <1>1
  <1>3. stringItems' = Append(stringItems, i) /\ count' = count + 1
    BY DEF E!Push, E!Interval
  <1> HIDE DEF i
  <1>4. /\ stringItems' \in Seq([from : 1 .. E!End, to : 1 .. E!End])
        /\ DOMAIN stringItems' = 1 .. k + 1 /\ Len(stringItems') = k + 1
        /\ stringItems'[k + 1] = i
        /\ \A n \in 1 .. k : stringItems'[n] = stringItems[n]
    BY <1>1, <1>2, <1>3
  <1> HIDE DEF k
  <1>5. \A n \in 1 .. k + 1 : n = k + 1 \/ n \in 1 .. k
    BY <1>1
  <1>6. ASSUME NEW m \in DOMAIN stringItems', NEW n \in DOMAIN stringItems', m < n
        PROVE  stringItems'[m].to < stringItems'[n].from
    <2>1. m \in 1 .. k
      BY <1>1, <1>4, <1>6
    <2>2. CASE n \in 1 .. k
      BY <1>1, <1>4, <1>6, <2>1, <2>2 DEF ExtractionInv, SourceOrder, E!SourceOrder
    <2>3. CASE n = k + 1
      BY <1>1, <1>2, <1>4, <2>1, <2>3
    <2> QED
      BY <1>4, <1>5, <2>2, <2>3
  <1>7. \A n \in DOMAIN stringItems' :
          stringItems'[n].from <= stringItems'[n].to /\ stringItems'[n].to <= b
    <2>1. ASSUME NEW n \in 1 .. k
          PROVE  stringItems'[n].from <= stringItems'[n].to /\ stringItems'[n].to <= b
      <3>1. stringItems'[n] = stringItems[n] /\ n \in DOMAIN stringItems
        BY <1>1, <1>4
      <3>2. /\ stringItems[n].to < a /\ stringItems[n].to \in 1 .. E!End
            /\ stringItems[n].from <= stringItems[n].to
        BY <1>1, <3>1
      <3>3. \A t \in 1 .. E!End : t < a => t <= b
        BY <1>1
      <3> QED
        BY <3>1, <3>2, <3>3
    <2>2. stringItems'[k + 1].from <= stringItems'[k + 1].to /\ stringItems'[k + 1].to <= b
      BY <1>1, <1>2, <1>4
    <2> QED
      BY <1>4, <1>5, <2>1, <2>2
  <1>8. SourceOrder'
    BY <1>6 DEF SourceOrder, E!SourceOrder
  <1>9. count' \in Nat /\ Len(stringItems') = Len(stringItems) + 1
    BY <1>1, <1>3, <1>4 DEF k
  <1> QED
    BY <1>4, <1>7, <1>8, <1>9

LEMMA NextWordInv ==
  ASSUME ExtractionInv, E!NextWord PROVE ExtractionInv'
  <1> DEFINE S == E!Where(E!Blanks, segment.from, segment.to) \cup {segment.to + 1}
             blank == E!Min(S)
  <1>1. /\ E!TypeOK /\ E!End \in Nat /\ extractPc = "words"
        /\ segment \in [from : 1 .. E!End + 2, to : 0 .. E!End]
        /\ segment.from \in 1 .. E!End + 2 /\ segment.to \in 0 .. E!End
        /\ segment.from <= segment.to
    BY EndIsNat DEF ExtractionInv, E!TypeOK, E!NextWord
  <1>2. S \subseteq segment.from .. segment.to + 1 /\ S \subseteq Nat /\ S # {}
    BY <1>1 DEF E!Where
  <1>3. blank \in segment.from .. segment.to + 1
    BY <1>2, Least
  <1>4. /\ segment' = [segment EXCEPT !.from = blank + 1]
        /\ IF E!Length(E!Interval(segment.from, blank - 1)) = 0
           THEN UNCHANGED <<stringItems, count>>
           ELSE E!Push(E!Interval(segment.from, blank - 1))
        /\ UNCHANGED <<source, extractPc, sourcePos, blockEnd, result, at, cursor,
                       place, positions>>
    BY DEF E!NextWord, E!Behind, E!locating
  <1> HIDE DEF blank, S
  <1>5. /\ segment' \in [from : 1 .. E!End + 2, to : 0 .. E!End]
        /\ segment'.from = blank + 1 /\ segment'.to = segment.to
    BY <1>1, <1>3, <1>4
  <1>6. E!Length(E!Interval(segment.from, blank - 1)) = blank - segment.from
    BY <1>1, <1>3 DEF E!Length, E!Interval
  <1>7. CASE blank = segment.from
    <2>1. UNCHANGED <<stringItems, count>>
      BY <1>1, <1>4, <1>6, <1>7
    <2>2. E!TypeOK'
      BY <1>1, <1>4, <1>5, <2>1 DEF E!TypeOK, E!End
    <2>3. SourceOrder' /\ Located'
      BY <1>4, <2>1 DEF ExtractionInv, SourceOrder, E!SourceOrder, Located
    <2>4. Reach'
      BY <1>1, <1>4, <1>5, <1>7, <2>1, ItemTypes DEF ExtractionInv, Reach
    <2> QED
      BY <2>2, <2>3, <2>4 DEF ExtractionInv
  <1>8. CASE blank # segment.from
    <2>1. /\ E!Push(E!Interval(segment.from, blank - 1))
          /\ segment.from \in 1 .. E!End /\ blank - 1 \in segment.from .. E!End
      BY <1>1, <1>3, <1>4, <1>6, <1>8
    <2>2. \A n \in DOMAIN stringItems : stringItems[n].to < segment.from
      BY <1>1 DEF ExtractionInv, Reach
    <2>3. /\ stringItems' \in Seq([from : 1 .. E!End, to : 1 .. E!End])
          /\ \A n \in DOMAIN stringItems' : stringItems'[n].from <= stringItems'[n].to
          /\ count' \in Nat
          /\ SourceOrder'
          /\ \A n \in DOMAIN stringItems' : stringItems'[n].to <= blank - 1
      BY <2>1, <2>2, PushOrder
    <2>4. at' = 0
      BY <1>1, <1>4 DEF ExtractionInv, Located
    <2>5. Len(stringItems') \in Nat /\ at' \in 0 .. Len(stringItems')
      BY <2>3, <2>4
    <2>6. E!TypeOK'
      BY <1>1, <1>4, <1>5, <2>3, <2>5 DEF E!TypeOK, E!End
    <2>7. Located'
      BY <1>1, <1>4 DEF ExtractionInv, Located
    <2>8. \A n \in DOMAIN stringItems' : stringItems'[n].to \in 1 .. E!End
      <3>1. \A n \in DOMAIN stringItems' : stringItems'[n] \in [from : 1 .. E!End, to : 1 .. E!End]
        BY <2>3, ElementsOf
      <3> QED
        BY <3>1
    <2>9. \A n \in DOMAIN stringItems' :
            stringItems'[n].to < segment'.from /\ stringItems'[n].to <= segment'.to
      <3> TAKE n \in DOMAIN stringItems'
      <3>1. stringItems'[n].to \in Nat /\ stringItems'[n].to <= blank - 1
        BY <1>1, <2>3, <2>8
      <3> QED
        BY <1>1, <1>3, <1>5, <3>1
    <2>10. Reach'
      BY <1>1, <1>4, <1>5, <2>9 DEF ExtractionInv, Reach
    <2> QED
      BY <2>3, <2>6, <2>7, <2>10 DEF ExtractionInv
  <1> QED
    BY <1>7, <1>8

LEMMA EndWordsInv ==
  ASSUME ExtractionInv, E!EndWords PROVE ExtractionInv'
  <1>1. /\ E!TypeOK /\ E!End \in Nat /\ extractPc = "words"
        /\ segment.from \in 1 .. E!End + 2 /\ segment.to \in 0 .. E!End
        /\ segment.from > segment.to /\ blockEnd \in 0 .. E!End
    BY EndIsNat DEF ExtractionInv, E!TypeOK, E!EndWords
  <1>2. UNCHANGED <<source, segment, blockEnd, result, at, cursor, place, positions>>
    BY DEF E!EndWords, E!locating
  <1>3. CASE blockEnd = 0
    <2>1. extractPc' = "split" /\ UNCHANGED <<sourcePos, stringItems, count>>
      BY <1>3 DEF E!EndWords
    <2>2. E!TypeOK'
      BY <1>1, <1>2, <2>1 DEF E!TypeOK, E!End
    <2>3. SourceOrder' /\ Located' /\ Reach'
      BY <1>1, <1>2, <2>1 DEF ExtractionInv, SourceOrder, E!SourceOrder, Located, Reach
    <2> QED
      BY <2>2, <2>3 DEF ExtractionInv
  <1>4. CASE blockEnd # 0
    <2>1. /\ E!Push(E!Interval(segment.to + 1, blockEnd))
          /\ sourcePos' = blockEnd /\ extractPc' = "extract"
      BY <1>4 DEF E!EndWords
    <2>2. /\ segment.to < blockEnd
          /\ \A n \in DOMAIN stringItems : stringItems[n].to <= segment.to
      BY <1>1, <1>4 DEF ExtractionInv, Reach
    <2>3. segment.to + 1 \in 1 .. E!End /\ blockEnd \in segment.to + 1 .. E!End
      BY <1>1, <2>2
    <2>4. \A n \in DOMAIN stringItems : stringItems[n].to < segment.to + 1
      BY <1>1, <2>2, ItemTypes
    <2>5. /\ stringItems' \in Seq([from : 1 .. E!End, to : 1 .. E!End])
          /\ \A n \in DOMAIN stringItems' : stringItems'[n].from <= stringItems'[n].to
          /\ count' \in Nat
          /\ SourceOrder'
          /\ \A n \in DOMAIN stringItems' : stringItems'[n].to <= blockEnd
      BY <2>1, <2>3, <2>4, PushOrder
    <2>6. at' = 0
      BY <1>1, <1>2 DEF ExtractionInv, Located
    <2>7. Len(stringItems') \in Nat /\ at' \in 0 .. Len(stringItems')
      BY <2>5, <2>6
    <2>8. E!TypeOK'
      BY <1>1, <1>2, <2>1, <2>5, <2>7 DEF E!TypeOK, E!End
    <2>9. Located'
      BY <1>1, <1>2, <2>1 DEF ExtractionInv, Located
    <2>10. Reach'
      BY <2>1, <2>5 DEF Reach
    <2> QED
      BY <2>5, <2>8, <2>9, <2>10 DEF ExtractionInv
  <1> QED
    BY <1>3, <1>4
-----------------------------------------------------------------------------
(* prs_splitDelimiters *)

(* The piece cut off starts behind the start of the item and is not empty. *)
LEMMA CutInside ==
  ASSUME E!TypeOK, NEW n \in DOMAIN stringItems, E!Splits(stringItems[n])
  PROVE  /\ E!Cut(stringItems[n]) \in stringItems[n].from + 1 .. stringItems[n].to
         /\ E!Min(E!Signs(stringItems[n])) \in E!Signs(stringItems[n])
         /\ E!Min(E!Signs(stringItems[n])) \in stringItems[n].from .. stringItems[n].to
         /\ \A p \in E!Signs(stringItems[n]) : E!Min(E!Signs(stringItems[n])) <= p
  <1> DEFINE a == stringItems[n].from
             b == stringItems[n].to
             S == E!Signs(stringItems[n])
  <1>1. a \in Nat /\ b \in Nat /\ a >= 1
    BY ItemTypes, EndIsNat
  <1>2. S \subseteq a .. b /\ S # {} /\ b - a + 1 > 1
    BY DEF E!Splits, E!Signs, E!Where, E!Length
  <1>3. S \subseteq Nat
    BY <1>1, <1>2
  <1>4. E!Min(S) \in S /\ \A p \in S : E!Min(S) <= p
    BY <1>2, <1>3, Least
  <1>5. E!Cut(stringItems[n]) = IF E!Min(S) = a THEN E!Min(S) + 1 ELSE E!Min(S)
    BY DEF E!Cut
  <1>6. E!Min(S) \in a .. b
    BY <1>2, <1>4
  <1> HIDE DEF S, a, b
  <1>7. E!Cut(stringItems[n]) \in a + 1 .. b
    BY <1>1, <1>2, <1>5, <1>6
  <1> QED
    BY <1>4, <1>6, <1>7 DEF S, a, b

Intervals == [from : 1 .. E!End, to : 1 .. E!End]

IsCut(cut, list, n, e, x) == cut = E!InsertAfter([list EXCEPT ![n].to = e], n, x)

(* The list with an item cut in two: the items in front of it, the two     *)
(* pieces, and the items behind it.                                        *)
LEMMA CutList ==
  ASSUME NEW list \in Seq(Intervals), NEW n \in DOMAIN list,
         NEW x \in Intervals, NEW e \in 1 .. E!End,
         NEW cut, IsCut(cut, list, n, e, x)
  PROVE  /\ cut \in Seq(Intervals)
         /\ Len(cut) = Len(list) + 1
         /\ DOMAIN cut = 1 .. Len(list) + 1
         /\ \A m \in 1 .. n - 1 : cut[m] = list[m]
         /\ cut[n].from = list[n].from /\ cut[n].to = e
         /\ cut[n + 1] = x
         /\ \A m \in n + 2 .. Len(list) + 1 : cut[m] = list[m - 1]
  <1> DEFINE k == Len(list)
             y == [list[n] EXCEPT !.to = e]
             l == [list EXCEPT ![n].to = e]
             first == SubSeq(l, 1, n)
             last == SubSeq(l, n + 1, k)
  <1>1. k \in Nat /\ DOMAIN list = 1 .. k /\ n \in 1 .. k /\ list[n] \in Intervals
    BY ElementsOf
  <1>2. y \in Intervals /\ y.from = list[n].from /\ y.to = e
    BY <1>1 DEF Intervals
  <1>3. l = [list EXCEPT ![n] = y]
    OBVIOUS
  <1> HIDE DEF y, l, k
  <1>4. /\ l \in Seq(Intervals) /\ Len(l) = k /\ l[n] = y
        /\ \A m \in 1 .. k : m # n => l[m] = list[m]
    BY <1>1, <1>2, <1>3 DEF k
  <1>5. first \in Seq(Intervals) /\ Len(first) = n /\ \A m \in 1 .. n : first[m] = l[m]
    BY <1>1, <1>4
  <1>6. last \in Seq(Intervals) /\ Len(last) = k - n /\ \A m \in 1 .. k - n : last[m] = l[m + n]
    <2>1. n + 1 \in 1 .. k + 1 /\ k - (n + 1) + 1 = k - n /\ \A m \in 1 .. k - n : n + 1 + m - 1 = m + n
      BY <1>1
    <2> QED
      BY <1>1, <1>4, <2>1
  <1> HIDE DEF first, last
  <1>7. <<x>> \in Seq(Intervals) /\ Len(<<x>>) = 1 /\ <<x>>[1] = x
    BY DEF Intervals
  <1> DEFINE front == first \o <<x>>
  <1>8. /\ front \in Seq(Intervals) /\ Len(front) = n + 1
        /\ \A m \in 1 .. n : front[m] = first[m]
        /\ front[n + 1] = x
    BY <1>1, <1>5, <1>7
  <1> HIDE DEF front
  <1>10. cut = front \o last
    BY <1>4 DEF IsCut, E!InsertAfter, first, last, front, l
  <1>9. /\ cut \in Seq(Intervals) /\ Len(cut) = k + 1
        /\ \A m \in 1 .. n + 1 : cut[m] = front[m]
        /\ \A m \in n + 2 .. k + 1 : cut[m] = last[m - (n + 1)]
    <2>1. /\ cut \in Seq(Intervals) /\ Len(cut) = Len(front) + Len(last)
          /\ \A m \in 1 .. Len(front) : cut[m] = front[m]
          /\ \A m \in Len(front) + 1 .. Len(front) + Len(last) :
               cut[m] = last[m - Len(front)]
      BY <1>6, <1>8, <1>10, Concatenation
    <2>2. Len(front) = n + 1 /\ Len(last) = k - n
      BY <1>6, <1>8
    <2>3. n + 1 + (k - n) = k + 1 /\ n + 1 + 1 = n + 2
      BY <1>1
    <2> QED
      BY <2>1, <2>2, <2>3
  <1>11. \A m \in 1 .. n - 1 : cut[m] = list[m]
    <2> TAKE m \in 1 .. n - 1
    <2>1. m \in 1 .. n + 1 /\ m \in 1 .. n /\ m \in 1 .. k /\ m # n
      BY <1>1
    <2> QED
      BY <1>4, <1>5, <1>8, <1>9, <2>1
  <1>12. cut[n] = y /\ cut[n + 1] = x
    <2>1. n \in 1 .. n + 1 /\ n + 1 \in 1 .. n + 1 /\ n \in 1 .. n
      BY <1>1
    <2> QED
      BY <1>4, <1>5, <1>8, <1>9, <2>1
  <1>13. \A m \in n + 2 .. k + 1 : cut[m] = list[m - 1]
    <2> TAKE m \in n + 2 .. k + 1
    <2>1. m - (n + 1) \in 1 .. k - n /\ m - (n + 1) + n = m - 1 /\ m - 1 \in 1 .. k /\ m - 1 # n
      BY <1>1
    <2> QED
      BY <1>4, <1>6, <1>9, <2>1
  <1>14. DOMAIN cut = 1 .. k + 1
    BY <1>1, <1>9
  <1> QED
    BY <1>2, <1>9, <1>11, <1>12, <1>13, <1>14 DEF k

(* The list after a turn of the iterator that splits its item. *)
LEMMA SplitList ==
  ASSUME E!TypeOK, E!SplitItem, E!Splits(stringItems[at + 1])
  PROVE  LET n == at + 1
             i == stringItems[n]
             cut == E!Cut(i) IN
         /\ n \in DOMAIN stringItems /\ at \in Nat
         /\ cut \in i.from + 1 .. i.to
         /\ stringItems' \in Seq(Intervals)
         /\ Len(stringItems') = Len(stringItems) + 1
         /\ DOMAIN stringItems' = 1 .. Len(stringItems) + 1
         /\ \A m \in 1 .. n - 1 : stringItems'[m] = stringItems[m]
         /\ stringItems'[n].from = i.from /\ stringItems'[n].to = cut - 1
         /\ stringItems'[n + 1].from = cut /\ stringItems'[n + 1].to = i.to
         /\ \A m \in n + 2 .. Len(stringItems) + 1 : stringItems'[m] = stringItems[m - 1]
  <1> DEFINE n == at + 1
             i == stringItems[n]
             cut == E!Cut(i)
             x == E!Interval(cut, i.to)
  <1>1. at \in Nat /\ n \in DOMAIN stringItems /\ E!End \in Nat
    BY EndIsNat, ItemTypes DEF E!TypeOK, E!SplitItem
  <1>2. i.from \in 1 .. E!End /\ i.to \in 1 .. E!End
    BY <1>1, ItemTypes
  <1>3. cut \in i.from + 1 .. i.to
    BY <1>1, CutInside
  <1>4. cut - 1 \in 1 .. E!End /\ cut \in 1 .. E!End
    BY <1>1, <1>2, <1>3
  <1>5. x \in Intervals /\ x.from = cut /\ x.to = i.to
    BY <1>2, <1>4 DEF E!Interval, Intervals
  <1>6. stringItems \in Seq(Intervals)
    BY DEF E!TypeOK, Intervals
  <1>7. stringItems' = E!InsertAfter([stringItems EXCEPT ![n].to = cut - 1], n, x)
    BY DEF E!SplitItem
  <1> DEFINE list == E!InsertAfter([stringItems EXCEPT ![n].to = cut - 1], n, x)
  <1> HIDE DEF n, cut, x
  <1>8. /\ list \in Seq(Intervals)
        /\ Len(list) = Len(stringItems) + 1
        /\ DOMAIN list = 1 .. Len(stringItems) + 1
        /\ \A m \in 1 .. n - 1 : list[m] = stringItems[m]
        /\ list[n].from = stringItems[n].from /\ list[n].to = cut - 1
        /\ list[n + 1] = x
        /\ \A m \in n + 2 .. Len(stringItems) + 1 : list[m] = stringItems[m - 1]
    <2>1. /\ stringItems \in Seq(Intervals) /\ n \in DOMAIN stringItems
          /\ x \in Intervals /\ cut - 1 \in 1 .. E!End
      BY <1>1, <1>4, <1>5, <1>6
    <2>2. IsCut(list, stringItems, n, cut - 1, x)
      BY DEF IsCut
    <2> HIDE DEF list
    <2> QED
      BY <2>1, <2>2, CutList
  <1> HIDE DEF list
  <1>9. stringItems' = list
    BY <1>7 DEF list
  <1> QED
    BY <1>1, <1>3, <1>5, <1>8, <1>9 DEF n, cut

LEMMA SplitItemInv ==
  ASSUME ExtractionInv, E!SplitItem PROVE ExtractionInv'
  <1>1. /\ E!TypeOK /\ E!End \in Nat /\ extractPc = "split" /\ at < Len(stringItems)
        /\ at \in Nat /\ Len(stringItems) \in Nat /\ count \in Nat /\ at' = at + 1
        /\ UNCHANGED <<source, extractPc, sourcePos, segment, blockEnd, result,
                       cursor, place, positions>>
    BY EndIsNat, ItemTypes
    DEF ExtractionInv, E!TypeOK, E!SplitItem, E!extracting, E!locating
  <1>2. Reach' /\ Located'
    BY <1>1 DEF ExtractionInv, Reach, Located
  <1>3. CASE ~E!Splits(stringItems[at + 1])
    <2>1. UNCHANGED <<stringItems, count>>
      BY <1>3 DEF E!SplitItem
    <2>2. E!TypeOK'
      BY <1>1, <2>1 DEF E!TypeOK, E!End
    <2>3. SourceOrder'
      BY <2>1 DEF ExtractionInv, SourceOrder, E!SourceOrder
    <2> QED
      BY <1>2, <2>2, <2>3 DEF ExtractionInv
  <1>4. CASE E!Splits(stringItems[at + 1])
    <2> DEFINE n == at + 1
               k == Len(stringItems)
               a == stringItems[n].from
               b == stringItems[n].to
               cut == E!Cut(stringItems[n])
    <2>1. /\ n \in DOMAIN stringItems /\ cut \in a + 1 .. b
          /\ stringItems' \in Seq([from : 1 .. E!End, to : 1 .. E!End])
          /\ Len(stringItems') = k + 1
          /\ DOMAIN stringItems' = 1 .. k + 1
          /\ \A m \in 1 .. n - 1 : stringItems'[m] = stringItems[m]
          /\ stringItems'[n].from = a /\ stringItems'[n].to = cut - 1
          /\ stringItems'[n + 1].from = cut /\ stringItems'[n + 1].to = b
          /\ \A m \in n + 2 .. k + 1 : stringItems'[m] = stringItems[m - 1]
      BY <1>1, <1>4, SplitList DEF Intervals
    <2>2. count' = count + 1
      BY <1>4 DEF E!SplitItem
    <2>3. /\ DOMAIN stringItems = 1 .. k
          /\ \A m \in 1 .. k : /\ stringItems[m].from \in 1 .. E!End
                               /\ stringItems[m].to \in 1 .. E!End
                               /\ stringItems[m].from <= stringItems[m].to
      BY <1>1, ItemTypes
    <2>4. \A l, m \in 1 .. k : l < m => stringItems[l].to < stringItems[m].from
      BY <2>3 DEF ExtractionInv, SourceOrder, E!SourceOrder
    <2>5. a \in 1 .. E!End /\ b \in 1 .. E!End /\ k \in Nat /\ n \in 1 .. k
      BY <1>1, <2>1, <2>3
    <2> HIDE DEF n, k, a, b, cut
    (* what the items of the new list are *)
    <2> DEFINE Old(m) == IF m <= n THEN m ELSE m - 1
    <2>6. ASSUME NEW m \in 1 .. k + 1
          PROVE  /\ Old(m) \in 1 .. k
                 /\ m <= n => Old(m) = m
                 /\ m > n => Old(m) = m - 1
                 /\ stringItems'[m].from = IF m = n + 1 THEN cut ELSE stringItems[Old(m)].from
                 /\ stringItems'[m].to = IF m = n THEN cut - 1 ELSE stringItems[Old(m)].to
                 /\ stringItems[Old(m)].from <= stringItems'[m].from
                 /\ stringItems'[m].from <= stringItems'[m].to
                 /\ stringItems'[m].to <= stringItems[Old(m)].to
                 /\ stringItems'[m].from \in Nat /\ stringItems'[m].to \in Nat
      <3>1. Old(m) \in 1 .. k /\ (m <= n => Old(m) = m) /\ (m > n => Old(m) = m - 1)
        BY <2>5
      <3>2. /\ stringItems[Old(m)].from \in Nat /\ stringItems[Old(m)].to \in Nat
            /\ stringItems[Old(m)].from <= stringItems[Old(m)].to
        BY <1>1, <2>3, <3>1
      <3>3. cut \in Nat /\ cut - 1 \in Nat /\ a <= cut - 1 /\ cut <= b
        BY <1>1, <2>1, <2>5
      <3>4. m \in 1 .. n - 1 \/ m = n \/ m = n + 1 \/ m \in n + 2 .. k + 1
        BY <2>5
      <3> HIDE DEF Old
      <3>5. CASE m \in 1 .. n - 1
        <4>1. Old(m) = m /\ m # n /\ m # n + 1
          BY <2>5, <3>1, <3>5
        <4>2. stringItems'[m] = stringItems[m]
          BY <2>1, <3>5
        <4> QED
          BY <3>1, <3>2, <4>1, <4>2
      <3>6. CASE m = n
        <4>1. Old(m) = n /\ m # n + 1
          BY <2>5, <3>1, <3>6
        <4>2. stringItems[n].from = a /\ stringItems[n].to = b
          BY DEF a, b
        <4> QED
          <5>1. stringItems'[m].from = a /\ stringItems'[m].to = cut - 1
            BY <2>1, <3>6
          <5>2. a \in Nat /\ b \in Nat
            BY <1>1, <2>5
          <5> QED
            BY <3>1, <3>3, <3>6, <4>1, <4>2, <5>1, <5>2
      <3>7. CASE m = n + 1
        <4>1. Old(m) = n /\ m # n
          BY <2>5, <3>1, <3>7
        <4>2. stringItems[n].from = a /\ stringItems[n].to = b
          BY DEF a, b
        <4> QED
          <5>1. stringItems'[m].from = cut /\ stringItems'[m].to = b
            BY <2>1, <3>7
          <5>2. a \in Nat /\ b \in Nat
            BY <1>1, <2>5
          <5>3. ~(m <= n)
            BY <2>5, <3>7
          <5> QED
            BY <3>1, <3>3, <3>7, <4>1, <4>2, <5>1, <5>2, <5>3
      <3>8. CASE m \in n + 2 .. k + 1
        <4>1. Old(m) = m - 1 /\ m # n /\ m # n + 1
          BY <2>5, <3>1, <3>8
        <4>2. stringItems'[m] = stringItems[m - 1]
          BY <2>1, <3>8
        <4> QED
          BY <3>1, <3>2, <4>1, <4>2
      <3> QED
        BY <3>4, <3>5, <3>6, <3>7, <3>8
    <2> HIDE DEF Old
    <2>7. ASSUME NEW m \in 1 .. k + 1
          PROVE  stringItems'[m].from <= stringItems'[m].to
      BY <2>6
    <2>8. ASSUME NEW l \in 1 .. k + 1, NEW m \in 1 .. k + 1, l < m
          PROVE  stringItems'[l].to < stringItems'[m].from
      <3>1. CASE l = n /\ m = n + 1
        <4>1. stringItems'[l].to = cut - 1 /\ stringItems'[m].from = cut
          BY <2>1, <3>1
        <4> QED
          BY <2>1, <2>5, <4>1
      <3>2. CASE ~(l = n /\ m = n + 1)
        <4>1. Old(l) < Old(m) /\ Old(l) \in 1 .. k /\ Old(m) \in 1 .. k
          BY <2>5, <2>6, <2>8, <3>2
        <4>2. stringItems[Old(l)].to < stringItems[Old(m)].from
          BY <2>4, <4>1
        <4>3. stringItems'[l].to <= stringItems[Old(l)].to /\ stringItems'[l].to \in Nat
          BY <2>6
        <4>4. stringItems[Old(m)].from <= stringItems'[m].from /\ stringItems'[m].from \in Nat
          BY <2>6
        <4>5. stringItems[Old(l)].to \in Nat /\ stringItems[Old(m)].from \in Nat
          BY <1>1, <2>3, <4>1
        <4> QED
          BY <4>2, <4>3, <4>4, <4>5
      <3> QED
        BY <3>1, <3>2
    <2>9. at' \in 0 .. Len(stringItems')
      BY <1>1, <2>1 DEF k
    <2>10. \A m \in DOMAIN stringItems' : stringItems'[m].from <= stringItems'[m].to
      BY <2>1, <2>7
    <2>11. E!TypeOK'
      BY <1>1, <2>1, <2>2, <2>9, <2>10 DEF E!TypeOK, E!End
    <2>12. SourceOrder'
      BY <2>1, <2>8 DEF SourceOrder, E!SourceOrder
    <2> QED
      BY <1>2, <2>11, <2>12 DEF ExtractionInv
  <1> QED
    BY <1>3, <1>4

LEMMA ItemsSplitInv ==
  ASSUME ExtractionInv, E!ItemsSplit PROVE ExtractionInv'
  <1>1. /\ E!TypeOK /\ extractPc = "split" /\ extractPc' = "locate"
        /\ at = Len(stringItems) /\ at' = 0 /\ result' = count
        /\ UNCHANGED <<source, sourcePos, segment, blockEnd, stringItems, count,
                       cursor, place, positions>>
    BY DEF ExtractionInv, E!ItemsSplit, E!extracting, E!locating
  <1>2. Len(stringItems) \in Nat
    BY <1>1, ItemTypes
  <1>3. E!TypeOK'
    BY <1>1, <1>2 DEF E!TypeOK, E!End
  <1>4. SourceOrder' /\ Reach' /\ Located'
    BY <1>1 DEF ExtractionInv, SourceOrder, E!SourceOrder, Reach, Located
  <1> QED
    BY <1>3, <1>4 DEF ExtractionInv
-----------------------------------------------------------------------------
(* prs_computeItemsPosition *)

LEMMA SameCardinality == \A S : E!Cardinality(S) = Cardinality(S)
  BY DEF E!Cardinality, Cardinality, E!IsFiniteSet, IsFiniteSet

(* The next item lies behind the cursor, so strstr finds its text there or *)
(* in front of it.                                                         *)
LEMMA ItemIsFound ==
  ASSUME ExtractionInv, extractPc = "locate", at < Len(stringItems)
  PROVE  /\ at + 1 \in DOMAIN stringItems /\ at \in Nat /\ cursor \in Nat
         /\ cursor < stringItems[at + 1].from
         /\ stringItems[at + 1].from \in E!Occurrences(stringItems[at + 1])
         /\ E!Min(E!Occurrences(stringItems[at + 1])) \in E!Occurrences(stringItems[at + 1])
         /\ E!Min(E!Occurrences(stringItems[at + 1])) \in cursor + 1 .. stringItems[at + 1].from
  <1> DEFINE n == at + 1
             i == stringItems[n]
             S == E!Occurrences(i)
  <1>1. /\ E!End \in Nat /\ at \in Nat /\ n \in DOMAIN stringItems /\ cursor \in Nat
        /\ i.from \in 1 .. E!End /\ i.to \in 1 .. E!End /\ i.from <= i.to
    <2>1. E!TypeOK
      BY DEF ExtractionInv
    <2>2. E!End \in Nat /\ at \in Nat /\ cursor \in Nat /\ n \in DOMAIN stringItems
      BY <2>1, EndIsNat, ItemTypes DEF E!TypeOK
    <2> QED
      BY <2>1, <2>2, ItemTypes
  <1>2. cursor < i.from
    <2>1. CASE at = 0
      BY <1>1, <2>1 DEF ExtractionInv, Located
    <2>2. CASE at # 0
      <3>1. at \in DOMAIN stringItems /\ at < n
        BY <1>1, <2>2, ItemTypes DEF ExtractionInv
      <3>2. stringItems[at].to < i.from /\ stringItems[at].to \in 1 .. E!End
        BY <1>1, <3>1, ItemTypes DEF ExtractionInv, SourceOrder, E!SourceOrder
      <3>3. cursor <= stringItems[at].to
        BY <2>2 DEF ExtractionInv, Located
      <3> QED
        BY <1>1, <3>2, <3>3
    <2> QED
      BY <2>1, <2>2
  <1>3. i.from \in S
    BY <1>1, <1>2 DEF E!Occurrences, E!Length
  <1>4. S \subseteq cursor + 1 .. E!End
    BY <1>1 DEF E!Occurrences, E!Length
  <1> HIDE DEF S
  <1>5. S \subseteq Nat /\ S # {}
    BY <1>1, <1>3, <1>4
  <1>6. E!Min(S) \in S /\ E!Min(S) <= i.from
    BY <1>3, <1>5, Least
  <1>7. E!Min(S) \in cursor + 1 .. i.from
    <2>1. E!Min(S) \in cursor + 1 .. E!End
      BY <1>4, <1>6
    <2> HIDE DEF i
    <2> QED
      BY <1>1, <1>6, <2>1
  <1> QED
    BY <1>1, <1>2, <1>3, <1>6, <1>7 DEF S

LEMMA PlaceTypes ==
  ASSUME E!TypeOK, NEW p \in Nat, p > cursor
  PROVE  E!PlaceBefore(p) \in Nat \X Nat
  <1> DEFINE N == E!Where({E!Newline}, cursor + 1, p - 1)
  <1>1. cursor \in Nat /\ place[1] \in Nat /\ place[2] \in Nat
    BY EndIsNat DEF E!TypeOK
  <1>2. N \subseteq cursor + 1 .. p - 1 /\ N \subseteq 0 .. p
    BY <1>1 DEF E!Where
  <1>3. IsFiniteSet(N)
    <2>1. IsFiniteSet(cursor + 1 .. p - 1)
      BY <1>1, FS_Interval
    <2> QED
      BY <1>2, <2>1, FS_Subset
  <1>4. E!Cardinality(N) \in Nat
    BY <1>3, SameCardinality, FS_CardinalityType
  <1>5. E!PlaceBefore(p) = << place[1] + E!Cardinality(N),
                              IF N = {} THEN place[2] + (p - 1 - cursor) ELSE p - E!Max(N) >>
    BY DEF E!PlaceBefore
  <1> HIDE DEF N
  <1>6. N # {} => E!Max(N) \in 0 .. p
    BY <1>2, Greatest
  <1>7. (IF N = {} THEN place[2] + (p - 1 - cursor) ELSE p - E!Max(N)) \in Nat
    BY <1>1, <1>6
  <1> QED
    BY <1>1, <1>4, <1>5, <1>7

LEMMA LocateItemInv ==
  ASSUME ExtractionInv, E!LocateItem PROVE ExtractionInv'
  <1> DEFINE n == at + 1
             i == stringItems[n]
             start == E!Min(E!Occurrences(i))
             before == E!PlaceBefore(start)
  <1>1. extractPc = "locate" /\ at < Len(stringItems) /\ E!TypeOK
    BY DEF E!LocateItem, ExtractionInv
  <1>2. /\ n \in DOMAIN stringItems /\ at \in Nat /\ cursor \in Nat
        /\ start \in E!Occurrences(i) /\ start \in cursor + 1 .. i.from
    BY <1>1, ItemIsFound
  <1>3. /\ positions' = Append(positions, before)
        /\ cursor' = start + (i.to - i.from + 1) - 1
        /\ place' = [before EXCEPT ![2] = @ + (i.to - i.from + 1)]
        /\ at' = at + 1 /\ extractPc' = "locate"
        /\ UNCHANGED <<source, sourcePos, segment, blockEnd, stringItems, count, result>>
    BY <1>1, <1>2 DEF E!LocateItem, E!ItemEnd, E!Length, E!extracting
  <1>4. /\ E!End \in Nat /\ i.from \in 1 .. E!End /\ i.to \in 1 .. E!End /\ i.from <= i.to
        /\ Len(stringItems) \in Nat
    BY <1>1, <1>2, EndIsNat, ItemTypes
  <1> HIDE DEF n, i, start
  <1>5. start \in Nat /\ start > cursor
    BY <1>2, <1>4
  <1>6. before \in Nat \X Nat
    BY <1>1, <1>5, PlaceTypes
  <1> HIDE DEF before
  <1>7. place' \in Nat \X Nat
    <2>1. \A c \in Nat : c + (i.to - i.from + 1) \in Nat
      BY <1>4
    <2>2. place' = <<before[1], before[2] + (i.to - i.from + 1)>>
      BY <1>3, <1>6
    <2> QED
      BY <1>6, <2>1, <2>2
  <1>8. cursor' \in 0 .. E!End /\ cursor' <= i.to
    <2>1. start <= i.from
      BY <1>2, <1>4, <1>5
    <2> QED
      BY <1>3, <1>4, <1>5, <2>1
  <1>9. positions \in Seq(Nat \X Nat) /\ Len(positions) = at
    BY <1>1 DEF E!TypeOK, ExtractionInv, Located
  <1>10. positions' \in Seq(Nat \X Nat) /\ Len(positions') = at'
    BY <1>2, <1>3, <1>6, <1>9
  <1>11. at' \in 0 .. Len(stringItems)
    BY <1>1, <1>2, <1>3, <1>4
  <1>12. E!TypeOK'
    BY <1>1, <1>3, <1>7, <1>8, <1>10, <1>11 DEF E!TypeOK, E!End
  <1>13. SourceOrder' /\ Reach'
    BY <1>3 DEF ExtractionInv, SourceOrder, E!SourceOrder, Reach
  <1>14. Located'
    BY <1>2, <1>3, <1>8, <1>10 DEF Located, n, i
  <1> QED
    BY <1>12, <1>13, <1>14 DEF ExtractionInv

LEMMA ItemsLocatedInv ==
  ASSUME ExtractionInv, E!ItemsLocated PROVE ExtractionInv'
  <1>1. /\ E!TypeOK /\ extractPc = "locate" /\ extractPc' = "done"
        /\ at = Len(stringItems)
        /\ UNCHANGED <<source, sourcePos, segment, blockEnd, stringItems, count,
                       result, at, cursor, place, positions>>
    BY DEF ExtractionInv, E!ItemsLocated, E!extracting, E!locating
  <1>2. E!TypeOK'
    BY <1>1 DEF E!TypeOK, E!End
  <1>3. SourceOrder' /\ Reach' /\ Located'
    BY <1>1 DEF ExtractionInv, SourceOrder, E!SourceOrder, Reach, Located
  <1> QED
    BY <1>2, <1>3 DEF ExtractionInv
-----------------------------------------------------------------------------
(* What the items are: the invariant about their text *)

Elements == {stringItems[n] : n \in DOMAIN stringItems}

(* where the block that starts at q ends, also when no quote ends it *)
EndsOf(q) ==
  IF E!Quotes(q + 1, E!End) = {} THEN {E!End} ELSE {E!Min(E!Quotes(q + 1, E!End))}

(* behind a quote that opens a block no quote ends *)
Unended(p) == \E q \in 1 .. p : E!Opens(q) /\ E!Quotes(q + 1, E!End) = {}

(* An item is a block that is not left out, or text between blocks.  The   *)
(* text starts and ends where a word may: prs_splitDelimiters cuts it at   *)
(* delimiters only.                                                        *)
BlockItem(i) ==
  E!Opens(i.from) /\ i.to \in EndsOf(i.from) /\ i.from > 1 /\ ~E!Closes(i.from - 1)

TextItem(i) ==
  /\ \A p \in i.from .. i.to : E!Outside(p) /\ source[p] \notin E!Blanks
  /\ ~(E!InWord(i.from - 1) /\ E!InWord(i.from))
  /\ ~(E!InWord(i.to) /\ E!InWord(i.to + 1))

Faithful == \A i \in Elements : BlockItem(i) \/ TextItem(i)

(* there is nothing left to split *)
Whole(i) == E!IsBlock(i) \/ E!Signs(i) = {} \/ i.from = i.to

SplitOK ==
  /\ extractPc = "split" => \A i \in {stringItems[n] : n \in 1 .. at} : Whole(i)
  /\ extractPc \in {"locate", "done"} /\ result # -1 => \A i \in Elements : Whole(i)

(* A segment lies outside of the blocks, from one to the next. *)
SegmentOK ==
  /\ extractPc = "extract" /\ sourcePos < E!End =>
       \A p \in 1 .. E!End : p = sourcePos => E!Closes(p)
  /\ extractPc = "words" =>
       /\ \A p \in (segment.from .. segment.to) \cup {segment.to} : E!Outside(p)
       /\ segment.to >= 1
       /\ \A p \in 1 .. segment.to :
            p = segment.from - 1 => source[p] \in E!Blanks \cup {E!Backquote}
       /\ IF blockEnd = 0 THEN segment.to = E!End
          ELSE \A p \in 1 .. E!End :
                 p = segment.to + 1 => E!Opens(p) /\ blockEnd \in EndsOf(p)

(* No character is lost, but for blanks and the blocks that are left out. *)
Accounted(p) ==
  \/ source[p] \in E!Blanks
  \/ \E i \in Elements : p \in i.from .. i.to
  \/ \E b \in E!Skipped : p \in b.from .. b.to
  \/ Unended(p)

Complete ==
  /\ extractPc = "extract" => \A p \in 1 .. sourcePos : Accounted(p)
  /\ extractPc = "words" => \A p \in 1 .. segment.to : p < segment.from => Accounted(p)
  /\ extractPc = "split" \/ (extractPc \in {"locate", "done"} /\ result # -1) =>
       \A p \in 1 .. E!End : Accounted(p)
  /\ extractPc \in {"locate", "done"} =>
       \A p \in 1 .. E!End : (\E i \in Elements : p < i.from) => Accounted(p)

Counted ==
  /\ extractPc \in {"extract", "words", "split"} => result = 0 /\ count = Len(stringItems)
  /\ extractPc \in {"locate", "done"} =>
       IF result = -1 THEN ~E!BalancedQuotes ELSE result = Len(stringItems)

TextInv == Faithful /\ SplitOK /\ SegmentOK /\ Complete /\ Counted
-----------------------------------------------------------------------------
(* Counting quotes *)

LEMMA Parity == \A n \in Nat : /\ n % 2 \in {0, 1}
                               /\ n % 2 = 0 => (n + 1) % 2 = 1
                               /\ n % 2 = 1 => (n + 1) % 2 = 0
  OBVIOUS

LEMMA BeforeNext ==
  ASSUME NEW p \in Nat, p >= 1
  PROVE  /\ E!Before(p) \in Nat
         /\ source[p] = E!Backquote => E!Before(p + 1) = E!Before(p) + 1
         /\ source[p] # E!Backquote => E!Before(p + 1) = E!Before(p)
  <1> DEFINE S == E!Quotes(1, p - 1)
             T == E!Quotes(1, p + 1 - 1)
  <1>1. IsFiniteSet(S)
    <2>1. S \subseteq 1 .. p - 1
      BY DEF E!Quotes, E!Where
    <2>2. IsFiniteSet(1 .. p - 1)
      BY FS_Interval
    <2> QED
      BY <2>1, <2>2, FS_Subset
  <1>2. p \notin S
    BY DEF E!Quotes, E!Where
  <1>3. T = IF source[p] = E!Backquote THEN S \cup {p} ELSE S
    <2>1. \A x : x \in 1 .. p + 1 - 1 <=> x \in 1 .. p - 1 \/ x = p
      OBVIOUS
    <2> QED
      BY <2>1 DEF E!Quotes, E!Where
  <1>4. E!Before(p) = Cardinality(S) /\ E!Before(p + 1) = Cardinality(T)
    BY SameCardinality DEF E!Before
  <1> HIDE DEF S, T
  <1>5. Cardinality(S) \in Nat /\ Cardinality(S \cup {p}) = Cardinality(S) + 1
    BY <1>1, <1>2, FS_CardinalityType, FS_AddElement
  <1> QED
    BY <1>3, <1>4, <1>5

LEMMA BeforeFirst == E!Before(1) = 0
  <1>1. E!Quotes(1, 1 - 1) = {}
    BY DEF E!Quotes, E!Where
  <1> QED
    BY <1>1, SameCardinality, FS_EmptySet DEF E!Before

LEMMA BeforeSame ==
  ASSUME NEW a \in Nat, NEW b \in Nat, 1 <= a, a <= b,
         \A p \in a .. b - 1 : source[p] # E!Backquote
  PROVE  E!Before(b) = E!Before(a)
  <1>1. E!Quotes(1, b - 1) = E!Quotes(1, a - 1)
    <2>1. \A p : p \in 1 .. b - 1 <=> p \in 1 .. a - 1 \/ p \in a .. b - 1
      OBVIOUS
    <2> QED
      BY <2>1 DEF E!Quotes, E!Where
  <1> QED
    BY <1>1 DEF E!Before

(* A closing quote is followed by text. *)
LEMMA BehindClosed ==
  ASSUME NEW p \in Nat, p >= 1, E!Closes(p)
  PROVE  E!Before(p + 1) % 2 = 0
  <1>1. E!Before(p) \in Nat /\ E!Before(p) % 2 = 1 /\ E!Before(p + 1) = E!Before(p) + 1
    BY BeforeNext DEF E!Closes
  <1> QED
    BY <1>1, Parity

(* The first quote behind an opening one closes it, and what is between    *)
(* them is not outside of the blocks.                                      *)
LEMMA InsideBlock ==
  ASSUME E!TypeOK, NEW q \in 1 .. E!End, E!Opens(q), NEW e \in EndsOf(q)
  PROVE  /\ e \in q .. E!End
         /\ E!Quotes(q + 1, E!End) # {} => e > q /\ E!Closes(e)
         /\ \A p \in q + 1 .. e : E!Before(p) % 2 = 1
         /\ \A p \in q + 1 .. e - 1 : source[p] # E!Backquote
  <1>1. E!End \in Nat /\ q \in Nat /\ q >= 1
    BY EndIsNat
  <1>2. E!Before(q + 1) % 2 = 1
    <2>1. E!Before(q) \in Nat /\ E!Before(q) % 2 = 0 /\ E!Before(q + 1) = E!Before(q) + 1
      BY <1>1, BeforeNext DEF E!Opens
    <2> QED
      BY <2>1, Parity
  <1>3. /\ e \in q .. E!End
        /\ \A p \in q + 1 .. e - 1 : source[p] # E!Backquote
        /\ E!Quotes(q + 1, E!End) # {} => e > q /\ source[e] = E!Backquote
    <2>1. CASE E!Quotes(q + 1, E!End) = {}
      <3>1. e = E!End
        BY <2>1 DEF EndsOf
      <3>2. \A p \in q + 1 .. E!End : source[p] # E!Backquote
        BY <2>1 DEF E!Quotes, E!Where
      <3> QED
        BY <1>1, <2>1, <3>1, <3>2
    <2>2. CASE E!Quotes(q + 1, E!End) # {}
      <3>1. e = E!Min(E!Quotes(q + 1, E!End))
        BY <2>2 DEF EndsOf
      <3>2. /\ e \in q + 1 .. E!End /\ e \in E!Quotes(q + 1, E!End)
            /\ \A p \in E!Quotes(q + 1, E!End) : e <= p
        BY <1>1, <2>2, <3>1, FirstQuote
      <3>3. source[e] = E!Backquote
        BY <3>2 DEF E!Quotes, E!Where
      <3>4. ASSUME NEW p \in q + 1 .. e - 1, source[p] = E!Backquote PROVE FALSE
        <4>1. p \in E!Quotes(q + 1, E!End)
          BY <1>1, <3>2, <3>4 DEF E!Quotes, E!Where
        <4>2. e <= p
          BY <3>2, <4>1
        <4> QED
          BY <1>1, <3>2, <4>2
      <3>5. e \in q .. E!End /\ e > q
        BY <1>1, <3>2
      <3> QED
        BY <3>3, <3>4, <3>5
    <2> QED
      BY <2>1, <2>2
  <1>4. ASSUME NEW p \in q + 1 .. e PROVE E!Before(p) % 2 = 1
    <2>1. p \in Nat /\ 1 <= q + 1 /\ q + 1 <= p /\ q + 1 \in Nat
      BY <1>1
    <2>2. \A x \in q + 1 .. p - 1 : source[x] # E!Backquote
      BY <1>1, <1>3
    <2>3. E!Before(p) = E!Before(q + 1)
      BY <2>1, <2>2, BeforeSame
    <2> QED
      BY <1>2, <2>3
  <1>5. E!Quotes(q + 1, E!End) # {} => e \in q + 1 .. e
    BY <1>1, <1>3
  <1> QED
    BY <1>3, <1>4, <1>5 DEF E!Closes
-----------------------------------------------------------------------------
(* The invariant is kept *)

(* What is said about the source does not change with the list. *)
LEMMA SourceFixed ==
  ASSUME source' = source
  PROVE  /\ E!End' = E!End
         /\ \A p : /\ E!Outside(p)' <=> E!Outside(p)
                   /\ E!Opens(p)' <=> E!Opens(p)
                   /\ E!Closes(p)' <=> E!Closes(p)
                   /\ EndsOf(p)' = EndsOf(p)
                   /\ Unended(p)' <=> Unended(p)
         /\ \A i : /\ BlockItem(i)' <=> BlockItem(i)
                   /\ TextItem(i)' <=> TextItem(i)
                   /\ Whole(i)' <=> Whole(i)
         /\ E!Skipped' = E!Skipped
         /\ E!BalancedQuotes' <=> E!BalancedQuotes
  <1>1. E!End' = E!End
    BY DEF E!End
  <1>2. \A c, a, b : E!Where(c, a, b)' = E!Where(c, a, b)
    BY DEF E!Where
  <1>3. \A a, b : E!Quotes(a, b)' = E!Quotes(a, b)
    BY <1>2 DEF E!Quotes
  <1>4. \A p : E!Before(p)' = E!Before(p)
    BY <1>3 DEF E!Before
  <1>5. \A p : /\ E!Outside(p)' <=> E!Outside(p)
               /\ E!Opens(p)' <=> E!Opens(p)
               /\ E!Closes(p)' <=> E!Closes(p)
    BY <1>4 DEF E!Outside, E!Opens, E!Closes
  <1>6. \A p : E!InWord(p)' <=> E!InWord(p)
    BY <1>1, <1>5 DEF E!InWord
  <1>7. \A p : EndsOf(p)' = EndsOf(p)
    BY <1>1, <1>3 DEF EndsOf
  <1>8. \A p : Unended(p)' <=> Unended(p)
    BY <1>1, <1>3, <1>5 DEF Unended
  <1>9. \A i : BlockItem(i)' <=> BlockItem(i)
    BY <1>5, <1>7 DEF BlockItem
  <1>10. \A i : TextItem(i)' <=> TextItem(i)
    BY <1>5, <1>6 DEF TextItem
  <1>11. \A i : Whole(i)' <=> Whole(i)
    BY <1>2 DEF Whole, E!Signs, E!IsBlock
  <1>12. E!BlockTokens' = E!BlockTokens
    BY <1>1, <1>3, <1>5 DEF E!BlockTokens
  <1>13. E!Skipped' = E!Skipped
    BY <1>5, <1>12 DEF E!Skipped
  <1>14. E!BalancedQuotes' <=> E!BalancedQuotes
    BY <1>1, <1>3 DEF E!BalancedQuotes
  <1> QED
    BY <1>1, <1>5, <1>7, <1>8, <1>9, <1>10, <1>11, <1>13, <1>14

LEMMA AccountedKept ==
  ASSUME source' = source,
         \A p : (\E i \in Elements : p \in i.from .. i.to)
                  => \E i \in Elements' : p \in i.from .. i.to
  PROVE  \A p : Accounted(p) => Accounted(p)'
  <1>1. E!Skipped' = E!Skipped /\ \A p : Unended(p)' <=> Unended(p)
    BY SourceFixed
  <1> QED
    BY <1>1 DEF Accounted

(* A step that leaves the list alone. *)
LEMMA ListSame ==
  ASSUME source' = source, stringItems' = stringItems
  PROVE  /\ Elements' = Elements
         /\ \A p : Accounted(p) => Accounted(p)'
         /\ Faithful => Faithful'
  <1>1. Elements' = Elements
    BY DEF Elements
  <1>2. \A p : Accounted(p) => Accounted(p)'
    BY <1>1, AccountedKept
  <1>3. Faithful => Faithful'
    BY <1>1, SourceFixed DEF Faithful
  <1> QED
    BY <1>1, <1>2, <1>3

(* An item goes to the end of the list. *)
LEMMA ListPushed ==
  ASSUME source' = source, E!TypeOK, NEW i, E!Push(i)
  PROVE  /\ Elements' = Elements \cup {i}
         /\ \A p : Accounted(p) => Accounted(p)'
         /\ \A p \in i.from .. i.to : Accounted(p)'
         /\ Faithful /\ (BlockItem(i) \/ TextItem(i)) => Faithful'
         /\ Len(stringItems') = Len(stringItems) + 1 /\ count' = count + 1
  <1>1. stringItems' = Append(stringItems, i) /\ count' = count + 1
    BY DEF E!Push
  <1>2. Len(stringItems) \in Nat /\ DOMAIN stringItems = 1 .. Len(stringItems)
    BY ItemTypes
  <1>3. \E T : stringItems \in Seq(T)
    BY DEF E!TypeOK
  <1>4. /\ DOMAIN stringItems' = 1 .. Len(stringItems) + 1
        /\ Len(stringItems') = Len(stringItems) + 1
        /\ stringItems'[Len(stringItems) + 1] = i
        /\ \A n \in 1 .. Len(stringItems) : stringItems'[n] = stringItems[n]
    BY <1>1, <1>2, <1>3
  <1>5. \A n : n \in 1 .. Len(stringItems) + 1
                 <=> n \in 1 .. Len(stringItems) \/ n = Len(stringItems) + 1
    BY <1>2
  <1>6. Elements' = Elements \cup {i}
    BY <1>2, <1>4, <1>5 DEF Elements
  <1>7. \A p : Accounted(p) => Accounted(p)'
    BY <1>6, AccountedKept
  <1>8. \A p \in i.from .. i.to : Accounted(p)'
    BY <1>6 DEF Accounted
  <1>9. Faithful /\ (BlockItem(i) \/ TextItem(i)) => Faithful'
    BY <1>6, SourceFixed DEF Faithful
  <1> QED
    BY <1>1, <1>4, <1>6, <1>7, <1>8, <1>9

(* While text is extracted the position is at the end of a block, so that  *)
(* what follows, up to the next quote, is outside of the blocks.           *)
LEMMA OutsideFollows ==
  ASSUME E!TypeOK, TextInv, extractPc = "extract", sourcePos < E!End,
         NEW b \in sourcePos + 1 .. E!End,
         \A p \in sourcePos + 1 .. b - 1 : source[p] # E!Backquote
  PROVE  /\ \A p \in sourcePos + 1 .. b : E!Before(p) % 2 = 0
         /\ \A p \in sourcePos + 1 .. b - 1 : E!Outside(p)
  <1>1. sourcePos \in Nat /\ E!End \in Nat
    BY EndIsNat DEF E!TypeOK
  <1>2. E!Before(sourcePos + 1) % 2 = 0
    <2>1. CASE sourcePos = 0
      BY <2>1, BeforeFirst
    <2>2. CASE sourcePos # 0
      <3>1. sourcePos \in 1 .. E!End
        BY <1>1, <2>2
      <3>2. E!Closes(sourcePos)
        BY <3>1 DEF TextInv, SegmentOK
      <3> QED
        BY <1>1, <2>2, <3>2, BehindClosed
    <2> QED
      BY <2>1, <2>2
  <1>3. ASSUME NEW p \in sourcePos + 1 .. b PROVE E!Before(p) % 2 = 0
    <2>1. p \in Nat /\ sourcePos + 1 \in Nat /\ 1 <= sourcePos + 1 /\ sourcePos + 1 <= p
      BY <1>1
    <2>2. \A x \in sourcePos + 1 .. p - 1 : source[x] # E!Backquote
      BY <1>1
    <2>3. E!Before(p) = E!Before(sourcePos + 1)
      BY <2>1, <2>2, BeforeSame
    <2> QED
      BY <1>2, <2>3
  <1>4. \A p \in sourcePos + 1 .. b - 1 : p \in sourcePos + 1 .. b
    BY <1>1
  <1> QED
    BY <1>3, <1>4 DEF E!Outside

(* Without a quote behind an opening one the quotes are not balanced. *)
LEMMA LastOpens ==
  ASSUME E!TypeOK, NEW q \in 1 .. E!End, E!Opens(q), E!Quotes(q + 1, E!End) = {}
  PROVE  ~E!BalancedQuotes
  <1>1. E!End \in Nat /\ q \in Nat /\ q >= 1 /\ q + 1 <= E!End + 1 /\ q <= q
    BY EndIsNat
  <1>2. E!Before(q + 1) % 2 = 1
    <2>1. E!Before(q) \in Nat /\ E!Before(q) % 2 = 0 /\ E!Before(q + 1) = E!Before(q) + 1
      BY <1>1, BeforeNext DEF E!Opens
    <2> QED
      BY <2>1, Parity
  <1>3. \A p \in q + 1 .. E!End + 1 - 1 : source[p] # E!Backquote
    <2>1. \A p \in q + 1 .. E!End : source[p] # E!Backquote
      BY DEF E!Quotes, E!Where
    <2>2. E!End + 1 - 1 = E!End
      BY <1>1
    <2> QED
      BY <2>1, <2>2
  <1>4. E!Before(E!End + 1) = E!Before(q + 1)
    <2>1. q + 1 \in Nat /\ E!End + 1 \in Nat /\ 1 <= q + 1
      BY <1>1
    <2> QED
      BY <1>1, <1>3, <2>1, BeforeSame
  <1>5. E!Before(E!End + 1) = E!Cardinality(E!Quotes(1, E!End))
    <2>1. PICK p \in Nat : p = E!End + 1
      BY <1>1
    <2>2. p - 1 = E!End
      BY <1>1, <2>1
    <2>3. E!Before(p) = E!Cardinality(E!Quotes(1, p - 1))
      BY DEF E!Before
    <2>4. E!Before(p) = E!Cardinality(E!Quotes(1, E!End))
      BY <2>2, <2>3, Zenon
    <2> QED
      BY <2>1, <2>4, Zenon
  <1> QED
    BY <1>2, <1>4, <1>5 DEF E!BalancedQuotes

(* The first quote behind the position opens a block. *)
LEMMA BlockOpens ==
  ASSUME E!TypeOK, TextInv, extractPc = "extract",
         E!Quotes(sourcePos + 1, E!End) # {}
  PROVE  LET start == E!Min(E!Quotes(sourcePos + 1, E!End)) IN
         /\ start \in sourcePos + 1 .. E!End /\ sourcePos < E!End
         /\ E!Opens(start)
         /\ \A p \in sourcePos + 1 .. start - 1 : E!Outside(p)
  <1> DEFINE start == E!Min(E!Quotes(sourcePos + 1, E!End))
  <1>1. sourcePos \in Nat /\ E!End \in Nat
    BY EndIsNat DEF E!TypeOK
  <1>2. /\ start \in sourcePos + 1 .. E!End /\ start \in E!Quotes(sourcePos + 1, E!End)
        /\ \A p \in E!Quotes(sourcePos + 1, E!End) : start <= p
    BY <1>1, FirstQuote
  <1> HIDE DEF start
  <1>3. sourcePos < E!End /\ source[start] = E!Backquote
    BY <1>1, <1>2 DEF E!Quotes, E!Where
  <1>4. ASSUME NEW p \in sourcePos + 1 .. start - 1, source[p] = E!Backquote PROVE FALSE
    <2>1. p \in E!Quotes(sourcePos + 1, E!End)
      BY <1>1, <1>2, <1>4 DEF E!Quotes, E!Where
    <2>2. start <= p
      BY <1>2, <2>1
    <2> QED
      BY <1>1, <1>2, <2>2
  <1>5. /\ \A p \in sourcePos + 1 .. start : E!Before(p) % 2 = 0
        /\ \A p \in sourcePos + 1 .. start - 1 : E!Outside(p)
    BY <1>2, <1>3, <1>4, OutsideFollows
  <1>6. E!Before(start) % 2 = 0
    BY <1>1, <1>2, <1>5
  <1> QED
    BY <1>2, <1>3, <1>5, <1>6 DEF start, E!Opens

LEMMA BlockEndsInside ==
  ASSUME NEW start, NEW end \in E!BlockEnds(start)
  PROVE  end \in EndsOf(start)
  BY DEF E!BlockEnds, EndsOf

(* A block that starts at the position is left out, or runs to the end. *)
LEMMA BlockAccounted ==
  ASSUME E!TypeOK, NEW start \in 1 .. E!End, NEW end \in EndsOf(start),
         E!Opens(start), start = 1 \/ E!Closes(start - 1)
  PROVE  \A p \in start .. end : Accounted(p)
  <1>1. E!End \in Nat /\ end \in start .. E!End
    BY EndIsNat, InsideBlock
  <1>2. CASE E!Quotes(start + 1, E!End) = {}
    <2>1. \A p \in start .. end : start \in 1 .. p
      BY <1>1
    <2> QED
      BY <1>2, <2>1 DEF Accounted, Unended
  <1>3. CASE E!Quotes(start + 1, E!End) # {}
    <2> DEFINE b == E!Interval(start, end)
    <2>1. b.from = start /\ b.to = end
      BY DEF E!Interval
    <2>2. end = E!Min(E!Quotes(start + 1, E!End))
      BY <1>3 DEF EndsOf
    <2>3. b \in E!BlockTokens
      BY <1>3, <2>2 DEF E!BlockTokens
    <2>4. b \in E!Skipped
      BY <2>1, <2>3 DEF E!Skipped
    <2> HIDE DEF b
    <2> QED
      BY <2>1, <2>4 DEF Accounted
  <1> QED
    BY <1>2, <1>3

LEMMA BeginBlockText ==
  ASSUME E!TypeOK, TextInv, E!BeginBlock PROVE TextInv'
  <1> DEFINE start == E!Min(E!Quotes(sourcePos + 1, E!End))
  <1>1. /\ extractPc = "extract" /\ sourcePos \in Nat /\ E!End \in Nat
        /\ E!Quotes(sourcePos + 1, E!End) # {}
    BY EndIsNat DEF E!TypeOK, E!BeginBlock
  <1>2. /\ start \in sourcePos + 1 .. E!End /\ sourcePos < E!End
        /\ E!Opens(start)
        /\ \A p \in sourcePos + 1 .. start - 1 : E!Outside(p)
    BY <1>1, BlockOpens
  <1>3. PICK end \in E!BlockEnds(start) :
          IF start = sourcePos + 1
          THEN sourcePos' = end /\ UNCHANGED <<extractPc, segment, blockEnd>>
          ELSE E!SplitText(start - 1, end)
    BY DEF E!BeginBlock
  <1> HIDE DEF start
  <1>4. /\ end \in EndsOf(start) /\ end \in start .. E!End
        /\ E!Quotes(start + 1, E!End) # {} => E!Closes(end)
    <2>1. end \in EndsOf(start) /\ start \in 1 .. E!End
      BY <1>1, <1>2, BlockEndsInside
    <2> QED
      BY <1>2, <2>1, InsideBlock
  <1>5. UNCHANGED <<source, stringItems, count, result, at>>
    BY DEF E!BeginBlock
  <1>6. /\ Elements' = Elements /\ Faithful' /\ \A p : Accounted(p) => Accounted(p)'
        /\ E!End' = E!End
        /\ \A p : (E!Closes(p)' <=> E!Closes(p)) /\ (E!Outside(p)' <=> E!Outside(p))
        /\ \A p : (E!Opens(p)' <=> E!Opens(p)) /\ EndsOf(p)' = EndsOf(p)
    BY <1>5, ListSame, SourceFixed DEF TextInv
  <1>7. result = 0 /\ count = Len(stringItems) /\ \A p \in 1 .. sourcePos : Accounted(p)
    BY <1>1 DEF TextInv, Counted, Complete
  <1>8. \A p \in 1 .. E!End : p = sourcePos => E!Closes(p)
    BY <1>1, <1>2 DEF TextInv, SegmentOK
  <1>9. CASE start = sourcePos + 1
    <2>1. sourcePos' = end /\ extractPc' = "extract"
      BY <1>1, <1>3, <1>9
    <2>2. start = 1 \/ E!Closes(start - 1)
      <3>1. start - 1 = sourcePos /\ (sourcePos = 0 => start = 1)
        BY <1>1, <1>9
      <3>2. sourcePos # 0 => sourcePos \in 1 .. E!End
        BY <1>1, <1>2
      <3> QED
        BY <1>8, <3>1, <3>2
    <2>3. \A p \in start .. end : Accounted(p)
      BY <1>1, <1>2, <1>4, <2>2, BlockAccounted
    <2>4. \A p \in 1 .. end : p \in 1 .. sourcePos \/ p \in start .. end
      BY <1>1, <1>4, <1>9
    <2>5. Complete'
      BY <1>6, <1>7, <2>1, <2>3, <2>4 DEF Complete
    <2>6. sourcePos' < E!End => E!Closes(end)
      <3>1. E!Quotes(start + 1, E!End) = {} => end = E!End
        BY <1>4 DEF EndsOf
      <3> QED
        BY <1>1, <1>4, <2>1, <3>1
    <2>7. SegmentOK'
      BY <1>6, <2>1, <2>6 DEF SegmentOK
    <2>8. SplitOK' /\ Counted'
      BY <1>5, <1>7, <2>1 DEF SplitOK, Counted
    <2> QED
      BY <1>6, <2>5, <2>7, <2>8 DEF TextInv
  <1>10. CASE start # sourcePos + 1
    <2>1. /\ segment' = [from |-> sourcePos + 1, to |-> start - 1]
          /\ blockEnd' = end /\ extractPc' = "words" /\ sourcePos' = sourcePos
      BY <1>3, <1>10 DEF E!SplitText, E!Interval
    <2>2. segment'.from = sourcePos + 1 /\ segment'.to = start - 1
      BY <2>1
    <2>3. \A p \in 1 .. start - 1 : p < sourcePos + 1 => p \in 1 .. sourcePos
      BY <1>1
    <2>4. Complete'
      BY <1>6, <1>7, <2>1, <2>2, <2>3 DEF Complete
    <2>5. start - 1 \in sourcePos + 1 .. start - 1 /\ start - 1 >= 1 /\ end # 0
      BY <1>1, <1>2, <1>4, <1>10
    <2>6. \A p \in (sourcePos + 1 .. start - 1) \cup {start - 1} : E!Outside(p)
      BY <1>2, <2>5
    <2>7. \A p \in 1 .. start - 1 : p = sourcePos + 1 - 1 => source[p] = E!Backquote
      <3> TAKE p \in 1 .. start - 1
      <3>1. p \in 1 .. E!End /\ sourcePos + 1 - 1 = sourcePos
        BY <1>1, <1>2
      <3> QED
        BY <1>8, <3>1 DEF E!Closes
    <2>8. \A p \in 1 .. E!End : p = start - 1 + 1 => E!Opens(p) /\ end \in EndsOf(p)
      <3>1. start - 1 + 1 = start
        BY <1>1, <1>2
      <3> QED
        BY <1>2, <1>4, <3>1
    <2>9. SegmentOK'
      <3>1. \A p \in (segment'.from .. segment'.to) \cup {segment'.to} : E!Outside(p)'
        BY <1>6, <2>2, <2>6
      <3>2. \A p \in 1 .. segment'.to :
              p = segment'.from - 1 => source'[p] \in E!Blanks \cup {E!Backquote}
        <4> TAKE p \in 1 .. segment'.to
        <4>1. p \in 1 .. start - 1 /\ segment'.from - 1 = sourcePos + 1 - 1
          BY <1>1, <1>2, <2>2
        <4>2. p = segment'.from - 1 => source[p] = E!Backquote
          BY <2>7, <4>1
        <4> QED
          BY <1>5, <4>2
      <3>3. \A p \in 1 .. E!End' :
              p = segment'.to + 1 => E!Opens(p)' /\ blockEnd' \in EndsOf(p)'
        BY <1>6, <2>1, <2>2, <2>8
      <3>4. segment'.to >= 1 /\ blockEnd' # 0 /\ extractPc' = "words"
        BY <2>1, <2>2, <2>5
      <3> QED
        BY <3>1, <3>2, <3>3, <3>4 DEF SegmentOK
    <2>10. SplitOK' /\ Counted'
      BY <1>5, <1>7, <2>1 DEF SplitOK, Counted
    <2> QED
      BY <1>6, <2>4, <2>9, <2>10 DEF TextInv
  <1> QED
    BY <1>9, <1>10

LEMMA BeginTailText ==
  ASSUME E!TypeOK, TextInv, E!BeginTail PROVE TextInv'
  <1>1. /\ extractPc = "extract" /\ sourcePos \in Nat /\ E!End \in Nat
        /\ sourcePos < E!End /\ E!Quotes(sourcePos + 1, E!End) = {}
    BY EndIsNat DEF E!TypeOK, E!BeginTail
  <1>2. /\ segment' = [from |-> sourcePos + 1, to |-> E!End]
        /\ blockEnd' = 0 /\ extractPc' = "words" /\ sourcePos' = sourcePos
        /\ UNCHANGED <<source, stringItems, count, result, at>>
    BY DEF E!BeginTail, E!SplitText, E!Interval
  <1>3. segment'.from = sourcePos + 1 /\ segment'.to = E!End
    BY <1>2
  <1>4. /\ Elements' = Elements /\ Faithful' /\ \A p : Accounted(p) => Accounted(p)'
        /\ E!End' = E!End
        /\ \A p : E!Outside(p)' <=> E!Outside(p)
    BY <1>2, ListSame, SourceFixed DEF TextInv
  <1>5. result = 0 /\ count = Len(stringItems) /\ \A p \in 1 .. sourcePos : Accounted(p)
    BY <1>1 DEF TextInv, Counted, Complete
  <1>6. \A p \in 1 .. E!End : p = sourcePos => E!Closes(p)
    BY <1>1 DEF TextInv, SegmentOK
  <1>7. \A p \in 1 .. E!End : p < sourcePos + 1 => p \in 1 .. sourcePos
    BY <1>1
  <1>8. Complete'
    BY <1>2, <1>3, <1>4, <1>5, <1>7 DEF Complete
  <1>9. \A p \in sourcePos + 1 .. E!End : source[p] # E!Backquote
    BY <1>1 DEF E!Quotes, E!Where
  <1>10. \A p \in sourcePos + 1 .. E!End : E!Outside(p)
    <2>1. E!End \in sourcePos + 1 .. E!End
      BY <1>1
    <2>2. /\ \A p \in sourcePos + 1 .. E!End : E!Before(p) % 2 = 0
      BY <1>1, <1>9, <2>1, OutsideFollows
    <2> QED
      BY <1>9, <2>2 DEF E!Outside
  <1>11. E!End \in sourcePos + 1 .. E!End /\ E!End >= 1
    BY <1>1
  <1>12. \A p \in 1 .. E!End : p = sourcePos + 1 - 1 => source[p] = E!Backquote
    <2> TAKE p \in 1 .. E!End
    <2>1. sourcePos + 1 - 1 = sourcePos
      BY <1>1
    <2> QED
      BY <1>6, <2>1 DEF E!Closes
  <1>13. SegmentOK'
    <2>1. \A p \in (segment'.from .. segment'.to) \cup {segment'.to} : E!Outside(p)'
      BY <1>3, <1>4, <1>10, <1>11
    <2>2. \A p \in 1 .. segment'.to :
            p = segment'.from - 1 => source'[p] \in E!Blanks \cup {E!Backquote}
      <3> TAKE p \in 1 .. segment'.to
      <3>1. p \in 1 .. E!End /\ segment'.from - 1 = sourcePos + 1 - 1
        BY <1>1, <1>3
      <3>2. p = segment'.from - 1 => source[p] = E!Backquote
        BY <1>12, <3>1
      <3> QED
        BY <1>2, <3>2
    <2>3. /\ segment'.to >= 1 /\ blockEnd' = 0 /\ extractPc' = "words"
          /\ segment'.to = E!End'
      BY <1>2, <1>3, <1>4, <1>11
    <2> QED
      BY <2>1, <2>2, <2>3 DEF SegmentOK
  <1>14. SplitOK' /\ Counted'
    BY <1>2, <1>5 DEF SplitOK, Counted
  <1> QED
    BY <1>4, <1>8, <1>13, <1>14 DEF TextInv

LEMMA SourceEndText ==
  ASSUME E!TypeOK, TextInv, ExtractionInv, E!SourceEnd PROVE TextInv'
  <1>1. /\ extractPc = "extract" /\ extractPc' = "split" /\ sourcePos = E!End
        /\ UNCHANGED <<source, sourcePos, segment, blockEnd, stringItems, count,
                       result, at>>
    BY DEF E!SourceEnd, E!extracting
  <1>2. at = 0 /\ {n \in 1 .. at : TRUE} = {}
    BY <1>1 DEF ExtractionInv, Located
  <1>3. /\ Faithful' /\ \A p : Accounted(p) => Accounted(p)'
        /\ E!End' = E!End
    BY <1>1, ListSame, SourceFixed DEF TextInv
  <1>4. Complete'
    BY <1>1, <1>3 DEF TextInv, Complete
  <1>5. SegmentOK' /\ Counted'
    BY <1>1 DEF TextInv, SegmentOK, Counted
  <1>6. SplitOK'
    BY <1>1, <1>2 DEF SplitOK
  <1> QED
    BY <1>3, <1>4, <1>5, <1>6 DEF TextInv

LEMMA UnendedBlockText ==
  ASSUME E!TypeOK, TextInv, ExtractionInv, E!UnendedBlock PROVE TextInv'
  <1> DEFINE start == E!Min(E!Quotes(sourcePos + 1, E!End))
  <1>1. /\ extractPc = "extract" /\ sourcePos \in Nat /\ E!End \in Nat
        /\ E!Quotes(sourcePos + 1, E!End) # {} /\ E!Quotes(start + 1, E!End) = {}
        /\ extractPc' = "locate" /\ result' = -1
        /\ UNCHANGED <<source, sourcePos, segment, blockEnd, stringItems, count, at>>
    BY EndIsNat DEF E!TypeOK, E!UnendedBlock, E!extracting
  <1>2. start \in sourcePos + 1 .. E!End /\ E!Opens(start)
    BY <1>1, BlockOpens
  <1> HIDE DEF start
  <1>3. /\ Elements' = Elements /\ Faithful' /\ \A p : Accounted(p) => Accounted(p)'
        /\ E!End' = E!End /\ (E!BalancedQuotes' <=> E!BalancedQuotes)
    BY <1>1, ListSame, SourceFixed DEF TextInv
  <1>4. ~E!BalancedQuotes
    BY <1>1, <1>2, LastOpens
  <1>5. ASSUME NEW p \in 1 .. E!End, NEW i \in Elements, p < i.from PROVE Accounted(p)
    <2>1. i.to <= sourcePos /\ i.from \in Nat /\ i.to \in Nat /\ i.from <= i.to
      BY <1>1, ItemTypes DEF Elements, ExtractionInv, Reach
    <2>2. p \in 1 .. sourcePos
      BY <1>1, <1>5, <2>1
    <2> QED
      BY <1>1, <2>2 DEF TextInv, Complete
  <1>6. Complete'
    BY <1>1, <1>3, <1>5 DEF Complete
  <1>7. SegmentOK' /\ SplitOK'
    BY <1>1 DEF SegmentOK, SplitOK
  <1>8. Counted'
    BY <1>1, <1>3, <1>4 DEF Counted
  <1> QED
    BY <1>3, <1>6, <1>7, <1>8 DEF TextInv

LEMMA NextWordText ==
  ASSUME E!TypeOK, TextInv, E!NextWord PROVE TextInv'
  <1> DEFINE S == E!Where(E!Blanks, segment.from, segment.to) \cup {segment.to + 1}
             blank == E!Min(S)
             a == segment.from
             b == segment.to
             word == E!Interval(a, blank - 1)
  <1>1. /\ E!End \in Nat /\ extractPc = "words" /\ a \in Nat /\ a >= 1
        /\ b \in 0 .. E!End /\ a <= b
        /\ segment \in [from : 1 .. E!End + 2, to : 0 .. E!End]
    BY EndIsNat DEF E!TypeOK, E!NextWord
  <1>2. /\ segment' = [segment EXCEPT !.from = blank + 1]
        /\ IF E!Length(word) = 0 THEN UNCHANGED <<stringItems, count>> ELSE E!Push(word)
        /\ UNCHANGED <<source, extractPc, sourcePos, blockEnd, result, at>>
    BY DEF E!NextWord, E!Behind
  <1>3. S \subseteq a .. b + 1 /\ S \subseteq Nat /\ S # {}
    BY <1>1 DEF E!Where
  <1>4. blank \in S /\ \A p \in S : blank <= p
    BY <1>3, Least
  <1>5. \A p \in a .. blank - 1 : source[p] \notin E!Blanks
    <2> SUFFICES ASSUME NEW p \in a .. blank - 1, source[p] \in E!Blanks PROVE FALSE
      OBVIOUS
    <2>1. blank \in a .. b + 1
      BY <1>3, <1>4
    <2>2. p \in a .. b
      BY <1>1, <2>1
    <2>3. p \in S
      BY <2>2 DEF E!Where
    <2>4. blank <= p
      BY <1>4, <2>3
    <2> HIDE DEF blank, S
    <2> QED
      BY <1>1, <2>1, <2>4
  <1>6. blank <= b => source[blank] \in E!Blanks
    <2>1. blank # b + 1 => source[blank] \in E!Blanks
      BY <1>4 DEF E!Where
    <2>2. b + 1 # b /\ ~(b + 1 <= b)
      BY <1>1
    <2> QED
      BY <2>1, <2>2
  <1>7. blank \in a .. b + 1
    BY <1>3, <1>4
  <1> HIDE DEF blank, S
  <1>8. /\ segment'.from = blank + 1 /\ segment'.to = b
        /\ word.from = a /\ word.to = blank - 1 /\ E!Length(word) = blank - a
    BY <1>1, <1>2, <1>7 DEF E!Length, E!Interval
  <1> HIDE DEF word, a, b
  <1>9. /\ \A p \in (a .. b) \cup {b} : E!Outside(p)
        /\ b >= 1
        /\ \A p \in 1 .. b : p = a - 1 => source[p] \in E!Blanks \cup {E!Backquote}
        /\ IF blockEnd = 0 THEN b = E!End
           ELSE \A p \in 1 .. E!End : p = b + 1 => E!Opens(p) /\ blockEnd \in EndsOf(p)
    BY <1>1 DEF TextInv, SegmentOK, a, b
  <1>10. /\ E!End' = E!End /\ \A p : E!Outside(p)' <=> E!Outside(p)
         /\ \A p : (E!Opens(p)' <=> E!Opens(p)) /\ EndsOf(p)' = EndsOf(p)
    BY <1>2, SourceFixed
  <1>11. \A p \in 1 .. b : p < a => Accounted(p)
    BY <1>1 DEF TextInv, Complete, a, b
  <1>12. SegmentOK'
    <2>1. \A p \in (segment'.from .. segment'.to) \cup {segment'.to} : E!Outside(p)'
      <3>1. \A p \in blank + 1 .. b : p \in a .. b
        BY <1>1, <1>7
      <3> QED
        BY <1>8, <1>9, <1>10, <3>1
    <2>2. \A p \in 1 .. segment'.to :
            p = segment'.from - 1 => source'[p] \in E!Blanks \cup {E!Backquote}
      <3>1. blank + 1 - 1 = blank
        BY <1>1, <1>7
      <3> TAKE p \in 1 .. segment'.to
      <3>2. p <= b /\ segment'.from - 1 = blank
        BY <1>1, <1>7, <1>8, <3>1
      <3>3. p = segment'.from - 1 => source[p] \in E!Blanks
        BY <1>6, <3>2
      <3> QED
        BY <1>2, <3>3
    <2>3. IF blockEnd' = 0 THEN segment'.to = E!End'
          ELSE \A p \in 1 .. E!End' :
                 p = segment'.to + 1 => E!Opens(p)' /\ blockEnd' \in EndsOf(p)'
      BY <1>2, <1>8, <1>9, <1>10
    <2>4. segment'.to >= 1
      BY <1>8, <1>9
    <2> QED
      BY <1>1, <1>2, <2>1, <2>2, <2>3, <2>4 DEF SegmentOK
  <1>13. SplitOK'
    BY <1>1, <1>2 DEF SplitOK
  <1>14. result = 0 /\ count = Len(stringItems)
    BY <1>1 DEF TextInv, Counted
  <1>15. CASE blank = a
    <2>1. UNCHANGED <<stringItems, count>>
      BY <1>1, <1>2, <1>8, <1>15
    <2>2. Faithful' /\ \A p : Accounted(p) => Accounted(p)'
      BY <1>2, <2>1, ListSame DEF TextInv
    <2>3. \A p \in 1 .. b : p < blank + 1 => Accounted(p)
      <3> TAKE p \in 1 .. b
      <3>1. p < blank + 1 => p < a \/ p = blank
        BY <1>1, <1>15
      <3>2. p = blank => Accounted(p)
        BY <1>6 DEF Accounted
      <3> QED
        BY <1>11, <3>1, <3>2
    <2>4. Complete'
      BY <1>1, <1>2, <1>8, <2>2, <2>3 DEF Complete
    <2>5. Counted'
      BY <1>1, <1>2, <1>14, <2>1 DEF Counted
    <2> QED
      BY <1>12, <1>13, <2>2, <2>4, <2>5 DEF TextInv
  <1>16. CASE blank # a
    <2>1. E!Push(word)
      BY <1>1, <1>2, <1>7, <1>8, <1>16
    <2>2. /\ \A p : Accounted(p) => Accounted(p)'
          /\ \A p \in a .. blank - 1 : Accounted(p)'
          /\ Faithful /\ (BlockItem(word) \/ TextItem(word)) => Faithful'
          /\ Len(stringItems') = Len(stringItems) + 1 /\ count' = count + 1
      BY <1>2, <1>8, <2>1, ListPushed
    <2>3. TextItem(word)
      <3>1. \A p \in a .. blank - 1 : E!Outside(p) /\ source[p] \notin E!Blanks
        <4>1. \A p \in a .. blank - 1 : p \in a .. b
          BY <1>1, <1>7
        <4> QED
          BY <1>5, <1>9, <4>1
      <3>2. ~E!InWord(a - 1)
        <4>1. CASE a = 1
          BY <4>1 DEF E!InWord
        <4>2. CASE a # 1
          <5>1. a - 1 \in 1 .. b
            BY <1>1, <4>2
          <5>2. source[a - 1] \in E!Blanks \cup {E!Backquote}
            BY <1>9, <5>1
          <5> QED
            BY <5>2 DEF E!InWord, E!Outside
        <4> QED
          BY <4>1, <4>2
      <3>3. ~E!InWord(blank - 1 + 1)
        <4>1. blank - 1 + 1 = blank
          BY <1>1, <1>7
        <4>2. CASE blank <= b
          BY <1>6, <4>1, <4>2 DEF E!InWord
        <4>3. CASE ~(blank <= b)
          <5>1. blank = b + 1
            BY <1>1, <1>7, <4>3
          <5>2. CASE blockEnd = 0
            <6>1. blank \notin 1 .. E!End
              BY <1>1, <1>9, <5>1, <5>2
            <6> QED
              BY <4>1, <6>1 DEF E!InWord
          <5>3. CASE blockEnd # 0
            BY <1>9, <4>1, <5>1, <5>3 DEF E!InWord, E!Outside, E!Opens
          <5> QED
            BY <5>2, <5>3
        <4> QED
          BY <4>2, <4>3
      <3> QED
        BY <1>8, <3>1, <3>2, <3>3 DEF TextItem
    <2>4. Faithful'
      BY <2>2, <2>3 DEF TextInv
    <2>5. \A p \in 1 .. b : p < blank + 1 => Accounted(p)'
      <3> TAKE p \in 1 .. b
      <3>1. p < blank + 1 => p < a \/ p \in a .. blank - 1 \/ p = blank
        BY <1>1, <1>7
      <3>2. p = blank => Accounted(p)
        BY <1>6 DEF Accounted
      <3> QED
        BY <1>11, <2>2, <3>1, <3>2
    <2>6. Complete'
      BY <1>1, <1>2, <1>8, <2>5 DEF Complete
    <2>7. Counted'
      BY <1>1, <1>2, <1>14, <2>2 DEF Counted
    <2> QED
      BY <1>12, <1>13, <2>4, <2>6, <2>7 DEF TextInv
  <1> QED
    BY <1>15, <1>16

LEMMA EndWordsText ==
  ASSUME ExtractionInv, TextInv, E!EndWords PROVE TextInv'
  <1> DEFINE b == segment.to
  <1>1. /\ E!TypeOK /\ E!End \in Nat /\ extractPc = "words"
        /\ b \in 0 .. E!End /\ segment.from \in Nat /\ segment.from > b
        /\ blockEnd \in 0 .. E!End
    BY EndIsNat DEF ExtractionInv, E!TypeOK, E!EndWords
  <1>2. UNCHANGED <<source, segment, blockEnd, result, at>>
    BY DEF E!EndWords
  <1>3. /\ \A p \in (segment.from .. b) \cup {b} : E!Outside(p)
        /\ b >= 1
        /\ IF blockEnd = 0 THEN b = E!End
           ELSE \A p \in 1 .. E!End : p = b + 1 => E!Opens(p) /\ blockEnd \in EndsOf(p)
        /\ \A p \in 1 .. b : p < segment.from => Accounted(p)
        /\ result = 0 /\ count = Len(stringItems)
    BY <1>1 DEF TextInv, SegmentOK, Complete, Counted
  <1> HIDE DEF b
  <1>4. \A p \in 1 .. b : Accounted(p)
    BY <1>1, <1>3
  <1>5. at = 0 /\ {n \in 1 .. at : TRUE} = {}
    BY <1>1 DEF ExtractionInv, Located
  <1>6. E!End' = E!End /\ \A p : E!Closes(p)' <=> E!Closes(p)
    BY <1>2, SourceFixed
  <1>7. CASE blockEnd = 0
    <2>1. extractPc' = "split" /\ UNCHANGED <<sourcePos, stringItems, count>>
      BY <1>7 DEF E!EndWords
    <2>2. Faithful' /\ \A p : Accounted(p) => Accounted(p)'
      BY <1>2, <2>1, ListSame DEF TextInv
    <2>3. Complete'
      BY <1>3, <1>4, <1>6, <1>7, <2>1, <2>2 DEF Complete
    <2>4. SegmentOK' /\ Counted'
      BY <1>2, <1>3, <2>1 DEF SegmentOK, Counted
    <2>5. SplitOK'
      BY <1>2, <1>5, <2>1 DEF SplitOK
    <2> QED
      BY <2>2, <2>3, <2>4, <2>5 DEF TextInv
  <1>8. CASE blockEnd # 0
    <2> DEFINE block == E!Interval(b + 1, blockEnd)
    <2>1. E!Push(block) /\ sourcePos' = blockEnd /\ extractPc' = "extract"
      BY <1>8 DEF E!EndWords, b
    <2>2. block.from = b + 1 /\ block.to = blockEnd
      BY DEF E!Interval
    <2> HIDE DEF block
    <2>3. b < blockEnd
      BY <1>1, <1>8 DEF ExtractionInv, Reach, b
    <2>4. b + 1 \in 1 .. E!End /\ b + 1 > 1 /\ b + 1 - 1 = b
      BY <1>1, <1>3, <2>3
    <2>5. E!Opens(b + 1) /\ blockEnd \in EndsOf(b + 1)
      BY <1>3, <1>8, <2>4
    <2>6. BlockItem(block)
      <3>1. ~E!Closes(b)
        BY <1>3 DEF E!Closes, E!Outside
      <3> QED
        <4>1. block.from = b + 1 /\ block.from - 1 = b /\ block.from > 1
          BY <1>1, <2>2, <2>4
        <4> QED
          BY <2>2, <2>5, <3>1, <4>1 DEF BlockItem
    <2>7. /\ \A p : Accounted(p) => Accounted(p)'
          /\ \A p \in b + 1 .. blockEnd : Accounted(p)'
          /\ Faithful'
          /\ Len(stringItems') = Len(stringItems) + 1 /\ count' = count + 1
      BY <1>1, <1>2, <2>1, <2>2, <2>6, ListPushed DEF TextInv
    <2>8. \A p \in 1 .. blockEnd : Accounted(p)'
      <3>1. \A p \in 1 .. blockEnd : p \in 1 .. b \/ p \in b + 1 .. blockEnd
        BY <1>1
      <3> QED
        BY <1>4, <2>7, <3>1
    <2>9. Complete'
      BY <2>1, <2>8 DEF Complete
    <2>10. blockEnd < E!End => E!Closes(blockEnd)
      <3>1. E!Quotes(b + 1 + 1, E!End) # {} => E!Closes(blockEnd)
        BY <1>1, <2>4, <2>5, InsideBlock
      <3>2. E!Quotes(b + 1 + 1, E!End) = {} => blockEnd = E!End
        BY <2>5 DEF EndsOf
      <3> QED
        BY <1>1, <3>1, <3>2
    <2>11. SegmentOK'
      BY <1>6, <2>1, <2>10 DEF SegmentOK
    <2>12. SplitOK' /\ Counted'
      BY <1>2, <1>3, <2>1, <2>7 DEF SplitOK, Counted
    <2> QED
      BY <2>7, <2>9, <2>11, <2>12 DEF TextInv
  <1> QED
    BY <1>7, <1>8

(* The pieces of a text item are text items, and the first is whole. *)
LEMMA PiecesAreText ==
  ASSUME E!TypeOK, NEW n \in DOMAIN stringItems, E!Splits(stringItems[n]),
         TextItem(stringItems[n]), NEW x, NEW y,
         x.from = stringItems[n].from, x.to = E!Cut(stringItems[n]) - 1,
         y.from = E!Cut(stringItems[n]), y.to = stringItems[n].to
  PROVE  TextItem(x) /\ TextItem(y) /\ Whole(x)
  <1> DEFINE i == stringItems[n]
             a == stringItems[n].from
             b == stringItems[n].to
             cut == E!Cut(stringItems[n])
             sign == E!Min(E!Signs(stringItems[n]))
  <1>1. /\ E!End \in Nat /\ a \in 1 .. E!End /\ b \in 1 .. E!End
        /\ cut \in a + 1 .. b /\ sign \in E!Signs(i) /\ sign \in a .. b
        /\ \A p \in E!Signs(i) : sign <= p
        /\ cut = IF sign = a THEN sign + 1 ELSE sign
    BY EndIsNat, ItemTypes, CutInside DEF E!Cut
  <1>2. source[sign] \in E!Delimiters
    BY <1>1 DEF E!Signs, E!Where
  <1>3. ~E!InWord(sign)
    BY <1>2 DEF E!InWord
  <1>4. /\ \A p \in a .. b : E!Outside(p) /\ source[p] \notin E!Blanks
        /\ ~(E!InWord(a - 1) /\ E!InWord(a))
        /\ ~(E!InWord(b) /\ E!InWord(b + 1))
    BY DEF TextItem
  <1>5. Whole(x)
    <2>1. CASE sign = a
      <3>1. x.from = x.to
        BY <1>1, <2>1
      <3> QED
        BY <3>1 DEF Whole
    <2>2. CASE sign # a
      <3>1. E!Signs(x) = {}
        <4> SUFFICES ASSUME NEW p \in a .. cut - 1, source[p] \in E!Delimiters PROVE FALSE
          BY DEF E!Signs, E!Where
        <4>1. p \in a .. b /\ p < sign
          BY <1>1, <2>2
        <4>2. p \in E!Signs(i)
          BY <4>1 DEF E!Signs, E!Where
        <4>3. sign <= p
          BY <1>1, <4>2
        <4> QED
          BY <1>1, <4>1, <4>3
      <3> QED
        BY <3>1 DEF Whole
    <2> QED
      BY <2>1, <2>2
  <1> HIDE DEF i, a, b, cut, sign
  <1>6. x.from = a /\ x.to = cut - 1 /\ y.from = cut /\ y.to = b
    BY DEF a, b, cut
  <1>7. ~(E!InWord(cut - 1) /\ E!InWord(cut))
    <2>1. cut = sign \/ cut - 1 = sign
      BY <1>1
    <2> QED
      BY <1>3, <2>1
  <1>8. cut - 1 + 1 = cut /\ \A p : p \in a .. cut - 1 \/ p \in cut .. b => p \in a .. b
    BY <1>1
  <1>9. TextItem(x)
    BY <1>4, <1>6, <1>7, <1>8 DEF TextItem
  <1>10. TextItem(y)
    BY <1>4, <1>6, <1>7, <1>8 DEF TextItem
  <1> QED
    BY <1>5, <1>9, <1>10

LEMMA SplitItemText ==
  ASSUME ExtractionInv, TextInv, E!SplitItem PROVE TextInv'
  <1> DEFINE n == at + 1
             k == Len(stringItems)
             i == stringItems[n]
  <1>1. /\ E!TypeOK /\ E!End \in Nat /\ extractPc = "split" /\ at < k
        /\ at \in Nat /\ k \in Nat /\ n \in DOMAIN stringItems /\ at' = at + 1
        /\ DOMAIN stringItems = 1 .. k
        /\ UNCHANGED <<source, extractPc, sourcePos, segment, blockEnd, result>>
    BY EndIsNat, ItemTypes DEF ExtractionInv, E!TypeOK, E!SplitItem, E!extracting
  <1>2. /\ i.from \in 1 .. E!End /\ i.to \in 1 .. E!End /\ i.from <= i.to
    BY <1>1, ItemTypes
  <1>3. i \in Elements
    BY <1>1 DEF Elements
  <1>4. /\ E!End' = E!End
        /\ \A x : /\ BlockItem(x)' <=> BlockItem(x)
                  /\ TextItem(x)' <=> TextItem(x)
                  /\ Whole(x)' <=> Whole(x)
    BY <1>1, SourceFixed
  <1>5. /\ \A p \in 1 .. E!End : Accounted(p)
        /\ \A x \in {stringItems[m] : m \in 1 .. at} : Whole(x)
        /\ result = 0 /\ count = k
    BY <1>1 DEF TextInv, Complete, SplitOK, Counted
  <1>6. SegmentOK'
    BY <1>1 DEF SegmentOK
  <1>7. CASE ~E!Splits(i)
    <2>1. UNCHANGED <<stringItems, count>>
      BY <1>7 DEF E!SplitItem
    <2>2. Faithful' /\ \A p : Accounted(p) => Accounted(p)'
      BY <1>1, <2>1, ListSame DEF TextInv
    <2>3. Complete' /\ Counted'
      BY <1>1, <1>4, <1>5, <2>1, <2>2 DEF Complete, Counted
    <2>4. Whole(i)
      <3>1. E!IsBlock(i) \/ E!Signs(i) = {} \/ ~(i.to - i.from + 1 > 1)
        BY <1>7 DEF E!Splits, E!Length
      <3>2. ~(i.to - i.from + 1 > 1) => i.from = i.to
        BY <1>1, <1>2
      <3> QED
        BY <3>1, <3>2 DEF Whole
    <2>5. \A m \in 1 .. at' : m \in 1 .. at \/ m = n
      BY <1>1
    <2>6. \A m \in 1 .. at' : Whole(stringItems[m])
      BY <1>5, <2>4, <2>5
    <2>7. \A x \in {stringItems'[m] : m \in 1 .. at'} : Whole(x)'
      BY <1>4, <2>1, <2>6
    <2>8. SplitOK'
      BY <1>1, <2>7 DEF SplitOK
    <2> QED
      BY <1>6, <2>2, <2>3, <2>8 DEF TextInv
  <1>8. CASE E!Splits(i)
    <2> DEFINE x == stringItems'[n]
               y == stringItems'[n + 1]
               cut == E!Cut(i)
    <2>1. /\ cut \in i.from + 1 .. i.to
          /\ Len(stringItems') = k + 1
          /\ DOMAIN stringItems' = 1 .. k + 1
          /\ \A m \in 1 .. n - 1 : stringItems'[m] = stringItems[m]
          /\ x.from = i.from /\ x.to = cut - 1
          /\ y.from = cut /\ y.to = i.to
          /\ \A m \in n + 2 .. k + 1 : stringItems'[m] = stringItems[m - 1]
      BY <1>1, <1>8, SplitList
    <2>2. count' = count + 1
      BY <1>8 DEF E!SplitItem
    <2>3. TextItem(i)
      <3>1. ~BlockItem(i)
        BY <1>8 DEF E!Splits, E!IsBlock, BlockItem, E!Opens
      <3> QED
        BY <1>3, <3>1 DEF TextInv, Faithful
    <2>4. TextItem(x) /\ TextItem(y) /\ Whole(x)
      BY <1>1, <1>8, <2>1, <2>3, PiecesAreText
    <2> HIDE DEF x, y, cut
    <2>5. \A m \in 1 .. k + 1 :
            m \in 1 .. n - 1 \/ m = n \/ m = n + 1 \/ m \in n + 2 .. k + 1
      BY <1>1
    <2>6. \A z \in Elements' : z \in Elements \/ z = x \/ z = y
      <3> SUFFICES ASSUME NEW m \in 1 .. k + 1
                   PROVE  stringItems'[m] \in Elements \/ stringItems'[m] = x \/ stringItems'[m] = y
        BY <2>1 DEF Elements
      <3>1. m \in 1 .. n - 1 => m \in 1 .. k
        BY <1>1
      <3>2. m \in n + 2 .. k + 1 => m - 1 \in 1 .. k
        BY <1>1
      <3> QED
        BY <1>1, <2>1, <2>5, <3>1, <3>2 DEF Elements, x, y
    <2>7. x \in Elements' /\ y \in Elements'
      <3>1. n \in 1 .. k + 1 /\ n + 1 \in 1 .. k + 1
        BY <1>1
      <3> QED
        BY <2>1, <3>1 DEF Elements, x, y
    <2>8. \A z \in Elements : z = i \/ z \in Elements'
      <3> SUFFICES ASSUME NEW m \in 1 .. k, m # n PROVE stringItems[m] \in Elements'
        BY <1>1 DEF Elements
      <3>1. CASE m < n
        <4>1. m \in 1 .. n - 1 /\ m \in 1 .. k + 1
          BY <1>1, <3>1
        <4> QED
          BY <2>1, <4>1 DEF Elements
      <3>2. CASE m > n
        <4>1. m + 1 \in n + 2 .. k + 1 /\ m + 1 \in 1 .. k + 1 /\ m + 1 - 1 = m
          BY <1>1, <3>2
        <4>2. stringItems'[m + 1] = stringItems[m]
          BY <2>1, <4>1
        <4> QED
          BY <2>1, <4>1, <4>2 DEF Elements
      <3> QED
        BY <1>1, <3>1, <3>2
    <2>9. Faithful'
      <3>1. \A z \in Elements' : BlockItem(z) \/ TextItem(z)
        BY <2>4, <2>6 DEF TextInv, Faithful
      <3> QED
        BY <1>4, <3>1 DEF Faithful
    <2>10. \A p \in i.from .. i.to : p \in x.from .. x.to \/ p \in y.from .. y.to
      BY <1>1, <1>2, <2>1
    <2>11. \A p : (\E z \in Elements : p \in z.from .. z.to)
                    => \E z \in Elements' : p \in z.from .. z.to
      BY <2>7, <2>8, <2>10
    <2>12. \A p : Accounted(p) => Accounted(p)'
      BY <1>1, <2>11, AccountedKept
    <2>13. Complete' /\ Counted'
      BY <1>1, <1>4, <1>5, <2>1, <2>2, <2>12 DEF Complete, Counted
    <2>14. \A m \in 1 .. at' : m \in 1 .. n - 1 \/ m = n
      BY <1>1
    <2>15. \A m \in 1 .. n - 1 : m \in 1 .. at
      BY <1>1
    <2>16. \A m \in 1 .. at' : Whole(stringItems'[m])
      BY <1>5, <2>1, <2>4, <2>14, <2>15 DEF x
    <2>17. \A z \in {stringItems'[m] : m \in 1 .. at'} : Whole(z)'
      BY <1>4, <2>16
    <2>18. SplitOK'
      BY <1>1, <2>17 DEF SplitOK
    <2> QED
      BY <1>6, <2>9, <2>13, <2>18 DEF TextInv
  <1> QED
    BY <1>7, <1>8

LEMMA ItemsSplitText ==
  ASSUME ExtractionInv, TextInv, E!ItemsSplit PROVE TextInv'
  <1>1. /\ E!TypeOK /\ extractPc = "split" /\ extractPc' = "locate"
        /\ at = Len(stringItems) /\ result' = count
        /\ UNCHANGED <<source, sourcePos, segment, blockEnd, stringItems, count>>
    BY DEF ExtractionInv, E!ItemsSplit, E!extracting
  <1>2. DOMAIN stringItems = 1 .. at /\ Len(stringItems) \in Nat
    BY <1>1, ItemTypes
  <1>3. /\ Elements' = Elements /\ Faithful' /\ \A p : Accounted(p) => Accounted(p)'
        /\ E!End' = E!End /\ \A i : Whole(i)' <=> Whole(i)
    BY <1>1, ListSame, SourceFixed DEF TextInv
  <1>4. /\ \A p \in 1 .. E!End : Accounted(p)
        /\ \A i \in Elements : Whole(i)
        /\ count = Len(stringItems)
    BY <1>1, <1>2 DEF TextInv, Complete, SplitOK, Counted, Elements
  <1>5. result' # -1
    BY <1>1, <1>2, <1>4
  <1>6. Complete'
    BY <1>1, <1>3, <1>4 DEF Complete
  <1>7. SplitOK' /\ SegmentOK'
    BY <1>1, <1>3, <1>4 DEF SplitOK, SegmentOK
  <1>8. Counted'
    BY <1>1, <1>4, <1>5 DEF Counted
  <1> QED
    BY <1>3, <1>6, <1>7, <1>8 DEF TextInv

(* Locating the items leaves them as they are. *)
LEMMA LocatingText ==
  ASSUME ExtractionInv, TextInv, E!LocateItem \/ E!ItemsLocated PROVE TextInv'
  <1>1. /\ extractPc = "locate"
        /\ UNCHANGED <<source, stringItems, count, result>>
    BY DEF E!LocateItem, E!ItemsLocated, E!extracting
  <1>2. extractPc' \in {"locate", "done", "lost"}
    BY DEF E!LocateItem, E!ItemsLocated
  <1>3. /\ Elements' = Elements /\ Faithful' /\ \A p : Accounted(p) => Accounted(p)'
        /\ E!End' = E!End /\ (\A i : Whole(i)' <=> Whole(i))
        /\ (E!BalancedQuotes' <=> E!BalancedQuotes)
    BY <1>1, ListSame, SourceFixed DEF TextInv
  <1>4. Complete'
    BY <1>1, <1>2, <1>3 DEF TextInv, Complete
  <1>5. SplitOK' /\ SegmentOK'
    BY <1>1, <1>2, <1>3 DEF TextInv, SplitOK, SegmentOK
  <1>6. Counted'
    BY <1>1, <1>2, <1>3 DEF TextInv, Counted
  <1> QED
    BY <1>3, <1>4, <1>5, <1>6 DEF TextInv

LEMMA TextStutters ==
  ASSUME TextInv, UNCHANGED extraction PROVE TextInv'
  <1>1. UNCHANGED <<source, extractPc, sourcePos, segment, blockEnd, stringItems,
                    count, result, at>>
    BY DEF extraction
  <1>2. /\ Elements' = Elements /\ Faithful' /\ \A p : Accounted(p) => Accounted(p)'
        /\ E!End' = E!End /\ (\A i : Whole(i)' <=> Whole(i))
        /\ (E!BalancedQuotes' <=> E!BalancedQuotes)
        /\ \A p : /\ E!Outside(p)' <=> E!Outside(p)
                  /\ E!Opens(p)' <=> E!Opens(p)
                  /\ E!Closes(p)' <=> E!Closes(p)
                  /\ EndsOf(p)' = EndsOf(p)
    BY <1>1, ListSame, SourceFixed DEF TextInv
  <1>3. Complete'
    BY <1>1, <1>2 DEF TextInv, Complete
  <1>4. SplitOK' /\ SegmentOK' /\ Counted'
    BY <1>1, <1>2 DEF TextInv, SplitOK, SegmentOK, Counted
  <1> QED
    BY <1>2, <1>3, <1>4 DEF TextInv
-----------------------------------------------------------------------------
(* The items are the tokens *)

LEMMA BlockTokenEnds ==
  ASSUME NEW q, NEW e
  PROVE  E!Interval(q, e) \in E!BlockTokens <=>
           /\ q \in 1 .. E!End /\ E!Opens(q) /\ E!Quotes(q + 1, E!End) # {}
           /\ e \in EndsOf(q)
  BY DEF E!BlockTokens, EndsOf, E!Interval

(* Each block token is an interval that starts with its opening quote; no  *)
(* other character in it is outside of the blocks or opens one.            *)
LEMMA InBlockToken ==
  ASSUME E!TypeOK, NEW b \in E!BlockTokens
  PROVE  /\ b = E!Interval(b.from, b.to)
         /\ b.from \in 1 .. E!End /\ E!Opens(b.from) /\ b.to \in EndsOf(b.from)
         /\ E!Quotes(b.from + 1, E!End) # {}
         /\ \A p \in b.from .. b.to : ~E!Outside(p) /\ (E!Opens(p) => p = b.from)
  <1>1. PICK q \in 1 .. E!End :
          /\ E!Opens(q) /\ E!Quotes(q + 1, E!End) # {}
          /\ b = E!Interval(q, E!Min(E!Quotes(q + 1, E!End)))
    BY DEF E!BlockTokens
  <1>2. b.from = q /\ b = E!Interval(b.from, b.to) /\ b.to \in EndsOf(q)
    BY <1>1 DEF E!Interval, EndsOf
  <1>3. /\ \A p \in q + 1 .. b.to : E!Before(p) % 2 = 1
        /\ b.to \in q .. E!End /\ E!End \in Nat
    BY <1>1, <1>2, InsideBlock, EndIsNat
  <1>4. \A p \in q .. b.to : p = q \/ p \in q + 1 .. b.to
    BY <1>3
  <1>5. ~E!Outside(q)
    BY <1>1 DEF E!Outside, E!Opens
  <1>6. \A p \in q + 1 .. b.to : ~E!Outside(p) /\ ~E!Opens(p)
    <2> TAKE p \in q + 1 .. b.to
    <2>1. E!Before(p) % 2 = 1
      BY <1>3
    <2>2. E!Before(p) % 2 # 0
      BY <2>1
    <2> QED
      BY <2>2 DEF E!Outside, E!Opens
  <1> QED
    BY <1>1, <1>2, <1>4, <1>5, <1>6

(* When the quotes are balanced, every block ends. *)
LEMMA BalancedEnds ==
  ASSUME E!TypeOK, E!BalancedQuotes, NEW q \in 1 .. E!End, E!Opens(q)
  PROVE  E!Quotes(q + 1, E!End) # {}
  BY LastOpens

LEMMA SkippedAreBlocks == E!Skipped \subseteq E!BlockTokens
  BY DEF E!Skipped

(* A word ends where the first character behind its start is followed by   *)
(* none of it.                                                             *)
LEMMA WordEnd ==
  ASSUME E!TypeOK, NEW a \in 1 .. E!End, NEW b \in a .. E!End,
         \A p \in a .. b : E!InWord(p), ~E!InWord(b + 1)
  PROVE  b = E!Min({q \in a .. E!End : ~E!InWord(q + 1)})
  <1> DEFINE S == {q \in a .. E!End : ~E!InWord(q + 1)}
  <1>1. E!End \in Nat /\ S \subseteq Nat /\ b \in S
    BY EndIsNat
  <1>2. E!Min(S) \in S /\ E!Min(S) <= b
    BY <1>1, Least
  <1>3. \A q \in S : q >= b
    <2> SUFFICES ASSUME NEW q \in a .. E!End, q < b PROVE E!InWord(q + 1)
      BY <1>1
    <2>1. q + 1 \in a .. b
      BY <1>1
    <2> QED
      BY <2>1
  <1>4. E!Min(S) \in Nat /\ b \in Nat
    BY <1>1, <1>2
  <1> HIDE DEF S
  <1>5. E!Min(S) = b
    BY <1>2, <1>3, <1>4
  <1> QED
    BY <1>5 DEF S

(* An item that is not to be split any more is a token. *)
LEMMA ItemIsToken ==
  ASSUME ExtractionInv, TextInv, E!BalancedQuotes, NEW i \in Elements, Whole(i)
  PROVE  i \in E!Tokens \ E!Skipped
  <1>1. /\ E!TypeOK /\ E!End \in Nat /\ i = E!Interval(i.from, i.to)
        /\ i.from \in 1 .. E!End /\ i.to \in 1 .. E!End /\ i.from <= i.to
    BY EndIsNat, ItemTypes DEF ExtractionInv, Elements
  <1>2. CASE BlockItem(i)
    <2>1. E!Quotes(i.from + 1, E!End) # {}
      BY <1>1, <1>2, BalancedEnds DEF BlockItem
    <2>2. E!Interval(i.from, i.to) \in E!BlockTokens
      BY <1>1, <1>2, <2>1, BlockTokenEnds DEF BlockItem
    <2>3. i \notin E!Skipped
      <3>1. i.from # 1 /\ ~E!Closes(i.from - 1)
        BY <1>1, <1>2 DEF BlockItem
      <3> QED
        BY <3>1 DEF E!Skipped
    <2> QED
      BY <1>1, <2>2, <2>3 DEF E!Tokens
  <1>3. CASE TextItem(i)
    <2>1. i.from \in i.from .. i.to /\ i.to \in i.from .. i.to
      BY <1>1
    <2>2. \A p \in i.from .. i.to : E!Outside(p) /\ source[p] \notin E!Blanks
      BY <1>3 DEF TextItem
    <2>3. i \notin E!Skipped
      <3>1. i \notin E!BlockTokens
        BY <1>1, <2>1, <2>2, InBlockToken
      <3> QED
        BY <3>1, SkippedAreBlocks
    <2>4. CASE E!Signs(i) # {}
      <3>1. ~E!IsBlock(i)
        BY <2>1, <2>2 DEF E!IsBlock, E!Outside
      <3>2. i.from = i.to
        BY <2>4, <3>1 DEF Whole
      <3>3. PICK p \in i.from .. i.to : source[p] \in E!Delimiters
        BY <2>4 DEF E!Signs, E!Where
      <3>4. p = i.from
        BY <1>1, <3>2
      <3>5. i.from \in {x \in E!Where(E!Delimiters, 1, E!End) : E!Outside(x)}
        BY <1>1, <2>1, <2>2, <3>3, <3>4 DEF E!Where
      <3>6. E!Interval(i.from, i.from) \in E!SignTokens
        BY <3>5 DEF E!SignTokens
      <3> QED
        BY <1>1, <2>3, <3>2, <3>6 DEF E!Tokens
    <2>5. CASE E!Signs(i) = {}
      <3>1. \A p \in i.from .. i.to : E!InWord(p)
        <4> TAKE p \in i.from .. i.to
        <4>1. p \in 1 .. E!End
          BY <1>1
        <4>2. source[p] \notin E!Delimiters
          BY <2>5 DEF E!Signs, E!Where
        <4> QED
          BY <2>2, <4>1, <4>2 DEF E!InWord
      <3>2. ~E!InWord(i.from - 1) /\ ~E!InWord(i.to + 1)
        BY <1>3, <2>1, <3>1 DEF TextItem
      <3>3. i.to = E!Min({q \in i.from .. E!End : ~E!InWord(q + 1)})
        BY <1>1, <3>1, <3>2, WordEnd
      <3>4. i.from \in {q \in 1 .. E!End : E!InWord(q) /\ ~E!InWord(q - 1)}
        BY <1>1, <2>1, <3>1, <3>2
      <3>5. i \in E!WordTokens
        BY <1>1, <3>3, <3>4 DEF E!WordTokens
      <3> QED
        BY <2>3, <3>5 DEF E!Tokens
    <2> QED
      BY <2>4, <2>5
  <1> QED
    BY <1>2, <1>3 DEF TextInv, Faithful

(* Every character of the source is accounted for, so the token that       *)
(* starts with it is the item it belongs to.                               *)
LEMMA TokenIsItem ==
  ASSUME ExtractionInv, TextInv, E!BalancedQuotes,
         \A p \in 1 .. E!End : Accounted(p), \A i \in Elements : Whole(i),
         NEW t \in E!Tokens \ E!Skipped
  PROVE  t \in Elements
  <1>1. E!TypeOK /\ E!End \in Nat
    BY EndIsNat DEF ExtractionInv
  <1>2. \A p \in 1 .. E!End : ~Unended(p)
    <2> SUFFICES ASSUME NEW p \in 1 .. E!End, NEW q \in 1 .. p, E!Opens(q),
                        E!Quotes(q + 1, E!End) = {}
                 PROVE  FALSE
      BY DEF Unended
    <2>1. q \in 1 .. E!End
      BY <1>1
    <2> QED
      BY <1>1, <2>1, BalancedEnds
  <1>3. \A i \in Elements :
          /\ i = E!Interval(i.from, i.to) /\ i.from \in 1 .. E!End
          /\ i.to \in 1 .. E!End /\ i.from <= i.to
    BY <1>1, ItemTypes DEF Elements
  <1>4. \A i \in Elements : BlockItem(i) => i \in E!BlockTokens
    <2> SUFFICES ASSUME NEW i \in Elements, BlockItem(i) PROVE i \in E!BlockTokens
      OBVIOUS
    <2>1. E!Quotes(i.from + 1, E!End) # {}
      BY <1>1, <1>3, BalancedEnds DEF BlockItem
    <2>2. E!Interval(i.from, i.to) \in E!BlockTokens
      BY <1>3, <2>1, BlockTokenEnds DEF BlockItem
    <2> QED
      BY <1>3, <2>2
  (* a character outside of the blocks that is no blank is in a text item *)
  <1>5. ASSUME NEW p \in 1 .. E!End, E!Outside(p), source[p] \notin E!Blanks
        PROVE  \E i \in Elements : TextItem(i) /\ p \in i.from .. i.to
    <2>1. \A b \in E!BlockTokens : p \notin b.from .. b.to
      BY <1>1, <1>5, InBlockToken
    <2>2. \A b \in E!Skipped : p \notin b.from .. b.to
      BY <2>1, SkippedAreBlocks
    <2>3. PICK i \in Elements : p \in i.from .. i.to
      BY <1>2, <1>5, <2>2 DEF Accounted
    <2>4. ~BlockItem(i)
      BY <1>4, <2>1, <2>3
    <2> QED
      BY <2>3, <2>4 DEF TextInv, Faithful
  <1>6. CASE t \in E!BlockTokens
    <2>1. /\ t = E!Interval(t.from, t.to) /\ t.from \in 1 .. E!End /\ E!Opens(t.from)
          /\ t.to \in EndsOf(t.from)
      BY <1>1, <1>6, InBlockToken
    <2>2. \A b \in E!BlockTokens : t.from \in b.from .. b.to => b = t
      <3> SUFFICES ASSUME NEW b \in E!BlockTokens, t.from \in b.from .. b.to PROVE b = t
        OBVIOUS
      <3>1. t.from = b.from /\ b.to \in EndsOf(b.from) /\ b = E!Interval(b.from, b.to)
        BY <1>1, <2>1, InBlockToken
      <3>2. t.to = b.to
        BY <2>1, <3>1 DEF EndsOf
      <3> QED
        BY <2>1, <3>1, <3>2
    <2>3. \A b \in E!Skipped : t.from \notin b.from .. b.to
      BY <2>2, SkippedAreBlocks
    <2>4. source[t.from] = E!Backquote
      BY <2>1 DEF E!Opens
    <2>5. source[t.from] \notin E!Blanks
      BY <2>4 DEF E!Backquote, E!Blanks, E!Newline
    <2>6. PICK i \in Elements : t.from \in i.from .. i.to
      BY <1>2, <2>1, <2>3, <2>5 DEF Accounted
    <2>7. ~TextItem(i)
      BY <2>4, <2>6 DEF TextItem, E!Outside
    <2>8. i \in E!BlockTokens
      BY <1>4, <2>7 DEF TextInv, Faithful
    <2> QED
      BY <2>2, <2>6, <2>8
  <1>7. CASE t \in E!SignTokens
    <2>1. PICK p \in E!Where(E!Delimiters, 1, E!End) : E!Outside(p) /\ t = E!Interval(p, p)
      BY <1>7 DEF E!SignTokens
    <2>2. p \in 1 .. E!End /\ source[p] \in E!Delimiters
      BY <2>1 DEF E!Where
    <2>3. source[p] \notin E!Blanks
      BY <2>2 DEF E!Delimiters, E!Blanks, E!Newline
    <2>4. PICK i \in Elements : TextItem(i) /\ p \in i.from .. i.to
      BY <1>5, <2>1, <2>2, <2>3
    <2>5. E!Signs(i) # {}
      BY <2>2, <2>4 DEF E!Signs, E!Where
    <2>6. ~E!IsBlock(i)
      <3>1. i.from \in i.from .. i.to
        BY <1>1, <1>3
      <3> QED
        BY <2>4, <3>1 DEF TextItem, E!IsBlock, E!Outside
    <2>7. i.from = i.to
      BY <2>5, <2>6 DEF Whole
    <2>8. p = i.from /\ p = i.to
      BY <1>1, <1>3, <2>2, <2>4, <2>7
    <2> QED
      BY <1>3, <2>1, <2>8
  <1>8. CASE t \in E!WordTokens
    <2>1. PICK p \in 1 .. E!End :
            /\ E!InWord(p) /\ ~E!InWord(p - 1)
            /\ t = E!Interval(p, E!Min({q \in p .. E!End : ~E!InWord(q + 1)}))
      BY <1>8 DEF E!WordTokens
    <2>2. E!Outside(p) /\ source[p] \notin E!Blanks /\ source[p] \notin E!Delimiters
      BY <2>1 DEF E!InWord
    <2>3. PICK i \in Elements : TextItem(i) /\ p \in i.from .. i.to
      BY <1>5, <2>2
    <2>4. E!Signs(i) = {}
      <3>1. ~E!IsBlock(i)
        <4>1. i.from \in i.from .. i.to
          BY <1>1, <1>3
        <4> QED
          BY <2>3, <4>1 DEF TextItem, E!IsBlock, E!Outside
      <3>2. i.from = i.to => E!Signs(i) = {}
        <4> SUFFICES ASSUME i.from = i.to, NEW q \in i.from .. i.to,
                            source[q] \in E!Delimiters
                     PROVE  FALSE
          BY DEF E!Signs, E!Where
        <4>1. q = p
          BY <1>1, <1>3, <2>3
        <4> QED
          BY <2>2, <4>1
      <3> QED
        BY <3>1, <3>2 DEF Whole
    <2>5. \A q \in i.from .. i.to : E!InWord(q)
      <3> TAKE q \in i.from .. i.to
      <3>1. q \in 1 .. E!End
        BY <1>1, <1>3
      <3>2. source[q] \notin E!Delimiters
        BY <2>4 DEF E!Signs, E!Where
      <3> QED
        BY <2>3, <3>1, <3>2 DEF TextItem, E!InWord
    <2>6. p = i.from
      <3> SUFFICES ASSUME p # i.from PROVE FALSE
        OBVIOUS
      <3>1. p - 1 \in i.from .. i.to
        BY <1>1, <1>3, <2>3
      <3> QED
        BY <2>1, <2>5, <3>1
    <2>7. ~E!InWord(i.to + 1)
      <3>1. i.to \in i.from .. i.to
        BY <1>1, <1>3
      <3> QED
        BY <2>3, <2>5, <3>1 DEF TextItem
    <2>8. i.to = E!Min({q \in i.from .. E!End : ~E!InWord(q + 1)})
      BY <1>1, <1>3, <2>5, <2>7, WordEnd
    <2> QED
      BY <1>3, <2>1, <2>6, <2>8
  <1> QED
    BY <1>6, <1>7, <1>8 DEF E!Tokens

LEMMA ItemsAreTokens == ExtractionInv /\ TextInv => TokensExtracted
  <1> SUFFICES ASSUME ExtractionInv, TextInv, E!Extracted PROVE
        /\ E!BalancedQuotes => Elements = E!Tokens \ E!Skipped
        /\ IF result = -1 THEN ~E!BalancedQuotes ELSE result = Len(stringItems)
    BY DEF TokensExtracted, E!TokensExtracted, Elements
  <1>1. extractPc \in {"locate", "done"}
    BY DEF ExtractionInv, Located, E!Extracted
  <1>2. IF result = -1 THEN ~E!BalancedQuotes ELSE result = Len(stringItems)
    BY <1>1 DEF TextInv, Counted
  <1>3. ASSUME E!BalancedQuotes PROVE Elements = E!Tokens \ E!Skipped
    <2>1. result # -1
      BY <1>2, <1>3
    <2>2. /\ \A p \in 1 .. E!End : Accounted(p)
          /\ \A i \in Elements : Whole(i)
      BY <1>1, <2>1 DEF TextInv, Complete, SplitOK
    <2>3. Elements \subseteq E!Tokens \ E!Skipped
      BY <1>3, <2>2, ItemIsToken
    <2>4. E!Tokens \ E!Skipped \subseteq Elements
      BY <1>3, <2>2, TokenIsItem
    <2> QED
      BY <2>3, <2>4
  <1> QED
    BY <1>2, <1>3
-----------------------------------------------------------------------------
(* The places of the items *)

(* Without blocks left out the cursor is at the end of the last item       *)
(* located, and the line and column are those of the next character until  *)
(* an item spans lines.                                                    *)
PlacesOK ==
  /\ extractPc \in {"extract", "words", "split"} => place = <<1, 1>>
  /\ E!Skipped = {} =>
       /\ extractPc = "locate" => cursor = IF at = 0 THEN 0 ELSE stringItems[at].to
       /\ extractPc = "locate" /\ (\A i \in {stringItems[m] : m \in 1 .. at} : ~E!SpansLines(i)) =>
            \A p \in {cursor + 1} : place = E!TruePlace(p)
       /\ extractPc \in {"locate", "done"} =>
            \A n \in 1 .. at :
              (\A i \in {stringItems[m] : m \in 1 .. n - 1} : ~E!SpansLines(i)) =>
                \A p \in {stringItems[n].from} : positions[n] = E!TruePlace(p)

PositionsInv == ExtractionInv /\ TextInv /\ PlacesOK

LEMMA PlacesFixed ==
  ASSUME source' = source
  PROVE  /\ \A i : E!SpansLines(i)' <=> E!SpansLines(i)
         /\ \A p : E!TruePlace(p)' = E!TruePlace(p)
         /\ E!Skipped' = E!Skipped
  <1>1. \A c, a, b : E!Where(c, a, b)' = E!Where(c, a, b)
    BY DEF E!Where
  <1>2. \A i : E!SpansLines(i)' <=> E!SpansLines(i)
    BY <1>1 DEF E!SpansLines
  <1>3. \A p : E!TruePlace(p)' = E!TruePlace(p)
    BY <1>1 DEF E!TruePlace
  <1> QED
    BY <1>2, <1>3, SourceFixed

(* strstr finds the text of the item at its own place: what lies between   *)
(* the cursor and the item are blanks, and no item starts with one.        *)
LEMMA FoundAtItsPlace ==
  ASSUME PositionsInv, extractPc = "locate", at < Len(stringItems), E!Skipped = {}
  PROVE  E!Min(E!Occurrences(stringItems[at + 1])) = stringItems[at + 1].from
  <1> DEFINE n == at + 1
             i == stringItems[n]
             start == E!Min(E!Occurrences(i))
  <1>1. /\ n \in DOMAIN stringItems /\ at \in Nat /\ cursor \in Nat
        /\ start \in E!Occurrences(i) /\ start \in cursor + 1 .. i.from
    BY ItemIsFound DEF PositionsInv
  <1>2. /\ E!TypeOK /\ E!End \in Nat /\ DOMAIN stringItems = 1 .. Len(stringItems)
        /\ Len(stringItems) \in Nat
        /\ \A m \in DOMAIN stringItems :
             /\ stringItems[m].from \in 1 .. E!End /\ stringItems[m].to \in 1 .. E!End
             /\ stringItems[m].from <= stringItems[m].to
        /\ \A l, m \in DOMAIN stringItems : l < m => stringItems[l].to < stringItems[m].from
    BY EndIsNat, ItemTypes DEF PositionsInv, ExtractionInv, SourceOrder, E!SourceOrder
  <1>3. i \in Elements /\ i.from \in i.from .. i.to
    BY <1>1, <1>2 DEF Elements
  <1>4. BlockItem(i) \/ TextItem(i)
    BY <1>3 DEF PositionsInv, TextInv, Faithful
  <1>5. source[start] = source[i.from]
    <2> HIDE DEF i, start
    <2>1. \A k \in 0 .. E!Length(i) - 1 : source[start + k] = source[i.from + k]
      BY <1>1 DEF E!Occurrences
    <2>2. source[start + 0] = source[i.from + 0]
      <3>1. i.from \in Int /\ i.to \in Int /\ i.from <= i.to
        BY <1>1, <1>2 DEF i
      <3>2. 0 \in 0 .. E!Length(i) - 1
        BY <3>1 DEF E!Length
      <3> QED
        BY <2>1, <3>2
    <2>3. start + 0 = start /\ i.from + 0 = i.from
      <3>1. start \in Int /\ i.from \in Int
        BY <1>1, <1>2 DEF i
      <3> QED
        BY <3>1
    <2> QED
      BY <2>2, <2>3
  <1>6. source[i.from] \notin E!Blanks
    <2>1. CASE BlockItem(i)
      BY <2>1 DEF BlockItem, E!Opens, E!Backquote, E!Blanks, E!Newline
    <2>2. CASE TextItem(i)
      BY <1>3, <2>2 DEF TextItem
    <2> QED
      BY <1>4, <2>1, <2>2
  <1>7. cursor = IF at = 0 THEN 0 ELSE stringItems[at].to
    BY DEF PositionsInv, PlacesOK
  <1> SUFFICES ASSUME start # i.from PROVE FALSE
    OBVIOUS
  <1>8. start < i.from /\ start \in 1 .. E!End
    BY <1>1, <1>2
  <1>9. Accounted(start)
    BY <1>3, <1>8 DEF PositionsInv, TextInv, Complete
  <1> HIDE DEF start
  <1>10. ASSUME NEW x \in Elements, start \in x.from .. x.to PROVE FALSE
    <2>1. PICK m \in DOMAIN stringItems : x = stringItems[m]
      BY DEF Elements
    <2>2. m < n \/ m = n \/ n < m
      BY <1>1, <1>2
    <2>3. CASE m < n
      <3>1. at \in DOMAIN stringItems /\ at # 0 /\ (m = at \/ m < at)
        BY <1>1, <1>2, <2>3
      <3>2. stringItems[m].to <= stringItems[at].to
        <4>1. m < at => /\ stringItems[m].to < stringItems[at].from
                        /\ stringItems[at].from <= stringItems[at].to
          BY <1>2, <3>1
        <4> QED
          BY <1>2, <3>1, <4>1
      <3>3. cursor = stringItems[at].to
        BY <1>7, <3>1
      <3> QED
        BY <1>1, <1>2, <1>10, <2>1, <3>1, <3>2, <3>3
    <2>4. CASE m = n
      BY <1>2, <1>8, <1>10, <2>1, <2>4
    <2>5. CASE n < m
      <3>1. i.to < x.from /\ i.from <= i.to
        BY <1>1, <1>2, <2>1, <2>5
      <3> QED
        BY <1>1, <1>2, <1>8, <1>10, <2>1, <3>1
    <2> QED
      BY <2>2, <2>3, <2>4, <2>5
  <1>11. ~Unended(start)
    <2> SUFFICES ASSUME NEW q \in 1 .. start, E!Opens(q), E!Quotes(q + 1, E!End) = {}
                 PROVE  FALSE
      BY DEF Unended
    <2>1. q \in 1 .. E!End /\ i.from \in q + 1 .. E!End
      BY <1>1, <1>2, <1>8
    <2>2. CASE BlockItem(i)
      <3>1. i.from \in E!Quotes(q + 1, E!End)
        BY <2>1, <2>2 DEF BlockItem, E!Opens, E!Quotes, E!Where
      <3> QED
        BY <3>1
    <2>3. CASE TextItem(i)
      <3>1. E!End \in EndsOf(q)
        BY DEF EndsOf
      <3>2. E!Before(i.from) % 2 = 1
        BY <1>2, <2>1, <3>1, InsideBlock
      <3>3. E!Before(i.from) % 2 = 0
        BY <1>3, <2>3 DEF TextItem, E!Outside
      <3> QED
        BY <3>2, <3>3
    <2> QED
      BY <1>4, <2>2, <2>3
  <1> QED
    BY <1>5, <1>6, <1>9, <1>10, <1>11 DEF Accounted

LEMMA NewlinesFinite ==
  ASSUME NEW a \in Nat, NEW b \in Int
  PROVE  /\ E!Where({E!Newline}, a, b) \subseteq a .. b
         /\ IsFiniteSet(E!Where({E!Newline}, a, b))
         /\ E!Cardinality(E!Where({E!Newline}, a, b)) \in Nat
  <1>1. E!Where({E!Newline}, a, b) \subseteq a .. b
    BY DEF E!Where
  <1>2. IsFiniteSet(E!Where({E!Newline}, a, b))
    <2>1. a \in Int /\ b \in Int
      OBVIOUS
    <2>2. IsFiniteSet(a .. b)
      BY <2>1, FS_Interval
    <2> QED
      BY <1>1, <2>2, FS_Subset
  <1> QED
    BY <1>1, <1>2, SameCardinality, FS_CardinalityType

(* Counting on from the true place of the next character gives the true    *)
(* place of a later one.                                                   *)
LEMMA PlaceIsTrue ==
  ASSUME cursor \in Nat, place = E!TruePlace(cursor + 1), NEW p \in Nat, p > cursor
  PROVE  E!PlaceBefore(p) = E!TruePlace(p)
  <1> DEFINE A == E!Where({E!Newline}, 1, cursor)
             B == E!Where({E!Newline}, cursor + 1, p - 1)
             C == E!Where({E!Newline}, 1, p - 1)
  <1>1. cursor + 1 - 1 = cursor /\ cursor + 1 \in Nat /\ p - 1 \in Nat
    OBVIOUS
  <1>2. /\ A \subseteq 1 .. cursor /\ B \subseteq cursor + 1 .. p - 1
        /\ IsFiniteSet(A) /\ IsFiniteSet(B)
        /\ E!Cardinality(A) \in Nat /\ E!Cardinality(B) \in Nat
    <2> HIDE DEF A, B
    <2>1. 1 \in Nat /\ cursor \in Int /\ p - 1 \in Int /\ cursor + 1 \in Nat
      BY <1>1
    <2>2. A \subseteq 1 .. cursor /\ IsFiniteSet(A) /\ E!Cardinality(A) \in Nat
      BY <2>1, NewlinesFinite DEF A
    <2>3. B \subseteq cursor + 1 .. p - 1 /\ IsFiniteSet(B) /\ E!Cardinality(B) \in Nat
      BY <2>1, NewlinesFinite DEF B
    <2> QED
      BY <2>2, <2>3
  <1>3. C = A \cup B
    <2>1. \A x : x \in 1 .. p - 1 <=> x \in 1 .. cursor \/ x \in cursor + 1 .. p - 1
      OBVIOUS
    <2> QED
      BY <2>1 DEF E!Where
  <1>4. A \cap B = {}
    <2>1. \A x : ~(x \in 1 .. cursor /\ x \in cursor + 1 .. p - 1)
      OBVIOUS
    <2> QED
      BY <1>2, <2>1
  <1>5. PICK q \in Nat : q = cursor + 1
    BY <1>1
  <1>6. place = <<1 + E!Cardinality(A), q - E!Max(A \cup {0})>>
    <2>1. PICK r : r = q - 1
      OBVIOUS
    <2>2. r = cursor
      BY <1>5, <2>1
    <2>3. place = <<1 + E!Cardinality(E!Where({E!Newline}, 1, r)),
                    q - E!Max(E!Where({E!Newline}, 1, r) \cup {0})>>
      BY <1>5, <2>1, Zenon DEF E!TruePlace
    <2>4. E!Where({E!Newline}, 1, r) = A
      BY <2>2, Zenon
    <2> HIDE DEF A
    <2> QED
      BY <2>3, <2>4
  <1>7. E!TruePlace(p) = <<1 + E!Cardinality(C), p - E!Max(C \cup {0})>>
    BY DEF E!TruePlace
  <1>8. E!PlaceBefore(p) = << place[1] + E!Cardinality(B),
                              IF B = {} THEN place[2] + (p - 1 - cursor) ELSE p - E!Max(B) >>
    BY DEF E!PlaceBefore
  <1> HIDE DEF A, B, C
  <1>9. E!Cardinality(C) = E!Cardinality(A) + E!Cardinality(B)
    <2>1. Cardinality(A \cup B) = Cardinality(A) + Cardinality(B) - Cardinality({})
      BY <1>2, <1>4, FS_Union
    <2>2. Cardinality({}) = 0
      BY FS_EmptySet
    <2> QED
      BY <1>2, <1>3, <2>1, <2>2, SameCardinality
  <1>10. E!Max(A \cup {0}) \in A \cup {0} /\ E!Max(A \cup {0}) \in 0 .. cursor
    <2>1. A \cup {0} \subseteq 0 .. cursor
      BY <1>2
    <2>2. E!Max(A \cup {0}) \in A \cup {0}
      BY <2>1, Greatest
    <2> QED
      BY <2>1, <2>2
  <1>11. CASE B = {}
    <2>1. C = A
      BY <1>3, <1>11
    <2>2. q - E!Max(A \cup {0}) + (p - 1 - cursor) = p - E!Max(A \cup {0})
      BY <1>5, <1>10
    <2> QED
      BY <1>2, <1>6, <1>7, <1>8, <1>9, <1>11, <2>1, <2>2
  <1>12. CASE B # {}
    <2>1. B \subseteq 0 .. p - 1 /\ C \cup {0} \subseteq 0 .. p - 1
      BY <1>2, <1>3
    <2>2. E!Max(B) \in B /\ \A y \in B : y <= E!Max(B)
      BY <1>1, <1>12, <2>1, Greatest
    <2>3. E!Max(C \cup {0}) \in C \cup {0} /\ \A y \in C \cup {0} : y <= E!Max(C \cup {0})
      BY <1>1, <2>1, Greatest
    <2>4. E!Max(B) \in cursor + 1 .. p - 1 /\ E!Max(B) \in C \cup {0}
      BY <1>2, <1>3, <2>2
    <2>5. E!Max(B) <= E!Max(C \cup {0}) /\ E!Max(C \cup {0}) \in 0 .. p - 1
      BY <2>1, <2>3, <2>4
    <2>6. E!Max(C \cup {0}) \in B
      <3>1. E!Max(C \cup {0}) \notin A
        <4>1. \A x \in 0 .. p - 1 : E!Max(B) <= x => x \notin 1 .. cursor /\ x # 0
          BY <2>4
        <4> QED
          BY <1>2, <2>5, <4>1
      <3>2. E!Max(C \cup {0}) # 0
        BY <2>4, <2>5
      <3> QED
        BY <1>3, <2>3, <3>1, <3>2
    <2>7. E!Max(C \cup {0}) <= E!Max(B)
      BY <2>2, <2>6
    <2>8. E!Max(C \cup {0}) = E!Max(B)
      BY <2>4, <2>5, <2>7
    <2>9. 1 + E!Cardinality(A) + E!Cardinality(B) = 1 + E!Cardinality(C)
      BY <1>2, <1>9
    <2>10. E!PlaceBefore(p) = <<1 + E!Cardinality(A) + E!Cardinality(B), p - E!Max(B)>>
      <3>1. place[1] = 1 + E!Cardinality(A)
        BY <1>6
      <3> QED
        BY <1>8, <1>12, <3>1
    <2> QED
      BY <1>7, <2>8, <2>9, <2>10
  <1> QED
    BY <1>11, <1>12

(* Behind an item on one line the column has moved by its length. *)
LEMMA PlaceBehind ==
  ASSUME NEW i, i.from \in Nat, i.from >= 1, i.to \in Nat, i.from <= i.to,
         ~E!SpansLines(i),
         NEW q, q = i.to + 1
  PROVE  E!TruePlace(q) = [E!TruePlace(i.from) EXCEPT ![2] = @ + (i.to - i.from + 1)]
  <1> DEFINE A == E!Where({E!Newline}, 1, i.from - 1)
             B == E!Where({E!Newline}, 1, q - 1)
  <1>1. A = B
    <2>1. \A x : x \in 1 .. q - 1 <=> x \in 1 .. i.from - 1 \/ x \in i.from .. i.to
      OBVIOUS
    <2> QED
      BY <2>1 DEF E!SpansLines, E!Where
  <1>2. A \subseteq 1 .. i.from - 1
    BY DEF E!Where
  <1>3. /\ E!TruePlace(i.from) = <<1 + E!Cardinality(A), i.from - E!Max(A \cup {0})>>
        /\ E!TruePlace(q) = <<1 + E!Cardinality(B), q - E!Max(B \cup {0})>>
    BY DEF E!TruePlace
  <1> HIDE DEF A, B
  <1>4. E!Max(A \cup {0}) \in 0 .. i.from - 1
    <2>1. A \cup {0} \subseteq 0 .. i.from - 1 /\ i.from - 1 \in Nat
      BY <1>2
    <2>2. E!Max(A \cup {0}) \in A \cup {0}
      BY <2>1, Greatest
    <2> QED
      BY <2>1, <2>2
  <1>5. i.from - E!Max(A \cup {0}) + (i.to - i.from + 1) = q - E!Max(A \cup {0})
    BY <1>4
  <1> QED
    BY <1>1, <1>3, <1>5

LEMMA FirstPlace == E!TruePlace(1) = <<1, 1>>
  <1>1. E!Where({E!Newline}, 1, 1 - 1) = {}
    BY DEF E!Where
  <1>2. E!Cardinality({}) = 0
    BY SameCardinality, FS_EmptySet
  <1>3. E!Max({0}) = 0
    <2>1. {0} \subseteq 0 .. 0 /\ 0 \in Nat
      OBVIOUS
    <2>2. E!Max({0}) \in {0}
      BY <2>1, Greatest
    <2> QED
      BY <2>2
  <1>4. {} \cup {0} = {0}
    OBVIOUS
  <1> QED
    BY <1>1, <1>2, <1>3, <1>4 DEF E!TruePlace

LEMMA LocateItemPlaces ==
  ASSUME PositionsInv, E!LocateItem PROVE PlacesOK'
  <1> DEFINE n == at + 1
             i == stringItems[n]
             Clear(k) == \A x \in {stringItems[m] : m \in 1 .. k} : ~E!SpansLines(x)
  <1>1. /\ ExtractionInv /\ TextInv /\ PlacesOK /\ E!TypeOK
        /\ extractPc = "locate" /\ at < Len(stringItems)
    BY DEF PositionsInv, ExtractionInv, E!LocateItem
  <1>2. /\ n \in DOMAIN stringItems /\ at \in Nat /\ cursor \in Nat /\ cursor < i.from
        /\ E!Occurrences(i) # {}
    BY <1>1, ItemIsFound
  <1>3. /\ i.from \in Nat /\ i.to \in Nat /\ i.from >= 1 /\ i.from <= i.to
    BY <1>1, <1>2, ItemTypes, EndIsNat DEF ExtractionInv
  <1>4. /\ UNCHANGED <<source, stringItems>> /\ extractPc' = "locate" /\ at' = n
        /\ positions' = Append(positions, E!PlaceBefore(E!Min(E!Occurrences(i))))
        /\ cursor' = E!ItemEnd(E!Min(E!Occurrences(i)), i)
        /\ place' = [E!PlaceBefore(E!Min(E!Occurrences(i))) EXCEPT ![2] = @ + E!Length(i)]
    BY <1>1, <1>2 DEF E!LocateItem, E!extracting
  <1>5. /\ \A x : E!SpansLines(x)' <=> E!SpansLines(x)
        /\ \A p : E!TruePlace(p)' = E!TruePlace(p)
        /\ E!Skipped' = E!Skipped
    BY <1>4, PlacesFixed
  <1>6. /\ positions \in Seq(Nat \X Nat) /\ Len(positions) = at
    BY <1>1 DEF E!TypeOK, ExtractionInv, Located
  <1>7. ASSUME E!Skipped = {}
        PROVE  /\ cursor' = i.to
               /\ Clear(n) => \A p \in {cursor' + 1} : place' = E!TruePlace(p)
               /\ \A k \in 1 .. n :
                    Clear(k - 1) =>
                      \A p \in {stringItems[k].from} : positions'[k] = E!TruePlace(p)
    <2>1. E!Min(E!Occurrences(i)) = i.from
      BY <1>1, <1>7, FoundAtItsPlace
    <2>2. cursor' = i.to
      BY <1>3, <1>4, <2>1 DEF E!ItemEnd, E!Length
    <2>3. ASSUME Clear(at) PROVE E!PlaceBefore(i.from) = E!TruePlace(i.from)
      <3>1. place = E!TruePlace(cursor + 1)
        BY <1>1, <1>7, <2>3 DEF PlacesOK
      <3> HIDE DEF i, n
      <3>2. i.from > cursor
        BY <1>2, <1>3
      <3> QED
        BY <1>2, <1>3, <3>1, <3>2, PlaceIsTrue
    <2>4. ASSUME Clear(n) PROVE \A p \in {cursor' + 1} : place' = E!TruePlace(p)
      <3>1. Clear(at)
        BY <1>2, <2>4
      <3>2. ~E!SpansLines(i)
        BY <1>2, <2>4
      <3>3. place' = [E!TruePlace(i.from) EXCEPT ![2] = @ + (i.to - i.from + 1)]
        BY <1>4, <2>1, <2>3, <3>1 DEF E!Length
      <3>4. PICK q : q = i.to + 1
        OBVIOUS
      <3>5. E!TruePlace(q) = [E!TruePlace(i.from) EXCEPT ![2] = @ + (i.to - i.from + 1)]
        BY <1>3, <3>2, <3>4, PlaceBehind
      <3> QED
        BY <2>2, <3>3, <3>4, <3>5
    <2>5. ASSUME NEW k \in 1 .. n, Clear(k - 1)
          PROVE  \A p \in {stringItems[k].from} : positions'[k] = E!TruePlace(p)
      <3>1. CASE k = n
        <4>1. k - 1 = at
          BY <1>2, <3>1
        <4>2. Clear(at)
          BY <2>5, <4>1
        <4>3. positions'[n] = E!PlaceBefore(i.from)
          BY <1>2, <1>4, <1>6, <2>1
        <4> QED
          BY <2>3, <3>1, <4>2, <4>3
      <3>2. CASE k # n
        <4>1. k \in 1 .. at
          BY <1>2, <3>2
        <4>2. positions'[k] = positions[k]
          BY <1>2, <1>4, <1>6, <4>1
        <4> QED
          BY <1>1, <1>7, <2>5, <4>1, <4>2 DEF PlacesOK
      <3> QED
        BY <3>1, <3>2
    <2> QED
      BY <2>2, <2>4, <2>5
  <1>8. n # 0
    BY <1>2
  <1> HIDE DEF n
  <1> QED
    BY <1>4, <1>5, <1>7, <1>8 DEF PlacesOK

(* The steps that do not locate an item. *)
LEMMA OtherPlaces ==
  ASSUME PositionsInv, UNCHANGED <<source, place, positions, cursor>>,
         \/ /\ extractPc \in {"extract", "words", "split"}
            /\ extractPc' = "locate" => at' = 0
            /\ extractPc' \in {"extract", "words", "split", "locate"}
         \/ /\ UNCHANGED <<stringItems, at>>
            /\ extractPc' = extractPc \/ (extractPc = "locate" /\ extractPc' = "done")
  PROVE  PlacesOK'
  <1>1. PlacesOK /\ Located
    BY DEF PositionsInv, ExtractionInv
  <1>2. /\ \A x : E!SpansLines(x)' <=> E!SpansLines(x)
        /\ \A p : E!TruePlace(p)' = E!TruePlace(p)
        /\ E!Skipped' = E!Skipped
    BY PlacesFixed
  <1>3. CASE extractPc \in {"extract", "words", "split"} /\ extractPc' = "locate" /\ at' = 0
    <2>1. place = <<1, 1>> /\ cursor = 0
      BY <1>1, <1>3 DEF PlacesOK, Located
    <2>2. \A p : p = 1 => E!TruePlace(p) = <<1, 1>>
      BY FirstPlace
    <2>3. \A p \in {cursor' + 1} : p = 1
      BY <2>1
    <2> QED
      BY <1>2, <1>3, <2>1, <2>2, <2>3 DEF PlacesOK
  <1>4. CASE /\ extractPc \in {"extract", "words", "split"}
             /\ extractPc' \in {"extract", "words", "split"}
    BY <1>1, <1>4 DEF PlacesOK
  <1>5. CASE /\ UNCHANGED <<stringItems, at>>
             /\ extractPc' = extractPc \/ (extractPc = "locate" /\ extractPc' = "done")
    BY <1>1, <1>2, <1>5 DEF PlacesOK
  <1> QED
    BY <1>3, <1>4, <1>5
-----------------------------------------------------------------------------
(* The whole program *)

LEMMA InitExtractionInv == Init => ExtractionInv
  <1> SUFFICES ASSUME Init PROVE ExtractionInv
    OBVIOUS
  <1>1. /\ source \in Files /\ extractPc = "extract" /\ sourcePos = 0
        /\ segment = [from |-> 1, to |-> 0] /\ blockEnd = 0 /\ stringItems = <<>>
        /\ count = 0 /\ result = 0 /\ at = 0 /\ cursor = 0 /\ place = <<1, 1>>
        /\ positions = <<>>
    BY DEF Init, E!Init, E!Interval
  <1>2. E!End \in Nat
    BY <1>1, FilesAssumption DEF E!End
  <1>3. segment \in [from : 1 .. E!End + 2, to : 0 .. E!End]
    BY <1>1, <1>2
  <1>4. E!TypeOK
    BY <1>1, <1>2, <1>3 DEF E!TypeOK
  <1>5. SourceOrder /\ Reach /\ Located
    BY <1>1 DEF SourceOrder, E!SourceOrder, Reach, Located
  <1> QED
    BY <1>4, <1>5 DEF ExtractionInv

LEMMA ExtractionStutters == ExtractionInv /\ UNCHANGED extraction => ExtractionInv'
  <1> SUFFICES ASSUME ExtractionInv, UNCHANGED extraction PROVE ExtractionInv'
    OBVIOUS
  <1>1. UNCHANGED <<source, extractPc, sourcePos, segment, blockEnd, stringItems,
                    count, result, at, cursor, place, positions>>
    BY DEF extraction
  <1>2. E!TypeOK'
    BY <1>1 DEF ExtractionInv, E!TypeOK, E!End
  <1>3. SourceOrder' /\ Reach' /\ Located'
    BY <1>1 DEF ExtractionInv, SourceOrder, E!SourceOrder, Reach, Located
  <1> QED
    BY <1>2, <1>3 DEF ExtractionInv

LEMMA ExtractInv == ExtractionInv /\ E!Extract => ExtractionInv'
  BY BeginBlockInv, UnendedBlockInv, BeginTailInv, SourceEndInv, NextWordInv,
     EndWordsInv, SplitItemInv, ItemsSplitInv, LocateItemInv, ItemsLocatedInv
  DEF E!Extract

LEMMA ExtractionStep == ExtractionInv /\ [Next]_vars => ExtractionInv'
  <1> SUFFICES ASSUME ExtractionInv, [Next]_vars PROVE ExtractionInv'
    OBVIOUS
  <1>1. E!Extract \/ UNCHANGED extraction
    BY DEF Next, vars, ReadFile, ReadFails, ReadNothing, ExtractItems, BeginParsing, ParseItems,
           Exit, Exited
  <1> QED
    BY <1>1, ExtractInv, ExtractionStutters

LEMMA ExtractionIsInvariant == Spec => []ExtractionInv
  <1> QED
    BY InitExtractionInv, ExtractionStep, PTL DEF Spec

LEMMA StageStep == StageOK /\ [Next]_vars => StageOK'
  <1> SUFFICES ASSUME StageOK, [Next]_vars PROVE StageOK'
    OBVIOUS
  <1>1. CASE ReadFile
    BY <1>1 DEF StageOK, ReadFile, extraction, parsing
  <1>2. CASE ReadFails \/ ReadNothing
    BY <1>2 DEF StageOK, ReadFails, ReadNothing, extraction, parsing
  <1>3. CASE ExtractItems
    BY <1>3 DEF StageOK, ExtractItems, parsing
  <1>4. CASE BeginParsing
    BY <1>4 DEF StageOK, BeginParsing
  <1>5. CASE ParseItems
    BY <1>5 DEF StageOK, ParseItems
  <1>6. CASE Exit
    BY <1>6 DEF StageOK, Exit
  <1>7. CASE UNCHANGED vars
    BY <1>7 DEF StageOK, vars, extraction, parsing
  <1> QED
    BY <1>1, <1>2, <1>3, <1>4, <1>5, <1>6, <1>7 DEF Next, Exited

(* Every variable of the extraction keeps its type, an item is never empty *)
(* and lies in the source, and the parser has not begun before the items   *)
(* are handed to it.                                                       *)
THEOREM PipelineTypeCorrect == Spec => []TypeOK
  <1>1. Init => StageOK
    BY DEF Init, E!Init, P!Init, StageOK
  <1>2. ExtractionInv /\ StageOK => TypeOK
    BY DEF ExtractionInv, StageOK, TypeOK
  <1> QED
    BY <1>1, <1>2, StageStep, ExtractionIsInvariant, PTL DEF Spec

(* The list is in the order of the source and no two items overlap, also   *)
(* while prs_splitDelimiters inserts behind its iterator, for every file.  *)
THEOREM ItemsInSourceOrder == Spec => []SourceOrder
  <1>1. ExtractionInv => SourceOrder
    BY DEF ExtractionInv
  <1> QED
    BY <1>1, ExtractionIsInvariant, PTL

LEMMA InitPositionsInv == Init => PositionsInv
  <1> SUFFICES ASSUME Init PROVE PositionsInv
    OBVIOUS
  <1>1. ExtractionInv
    BY InitExtractionInv
  <1>2. /\ extractPc = "extract" /\ sourcePos = 0 /\ stringItems = <<>>
        /\ count = 0 /\ result = 0 /\ place = <<1, 1>>
    BY DEF Init, E!Init
  <1>3. Elements = {}
    BY <1>2 DEF Elements
  <1>4. TextInv
    BY <1>2, <1>3 DEF TextInv, Faithful, SplitOK, SegmentOK, Complete, Counted
  <1>5. PlacesOK
    BY <1>2 DEF PlacesOK
  <1> QED
    BY <1>1, <1>4, <1>5 DEF PositionsInv

LEMMA PositionsStep == PositionsInv /\ [Next]_vars => PositionsInv'
  <1> SUFFICES ASSUME PositionsInv, [Next]_vars PROVE PositionsInv'
    OBVIOUS
  <1>1. ExtractionInv /\ TextInv /\ E!TypeOK /\ Located
    BY DEF PositionsInv, ExtractionInv
  <1>2. ExtractionInv'
    BY <1>1, ExtractionStep
  <1>3. CASE UNCHANGED extraction
    <2>1. TextInv'
      BY <1>1, <1>3, TextStutters
    <2>2. PlacesOK'
      BY <1>3, OtherPlaces DEF extraction
    <2> QED
      BY <1>2, <2>1, <2>2 DEF PositionsInv
  <1>4. CASE E!Extract
    <2>1. TextInv'
      BY <1>1, <1>4, BeginBlockText, BeginTailText, SourceEndText, UnendedBlockText,
         NextWordText, EndWordsText, SplitItemText, ItemsSplitText, LocatingText
      DEF E!Extract
    <2>2. PlacesOK'
      <3>1. CASE \/ E!BeginBlock \/ E!UnendedBlock \/ E!BeginTail \/ E!SourceEnd
                 \/ E!NextWord \/ E!EndWords \/ E!SplitItem \/ E!ItemsSplit
        <4>1. /\ UNCHANGED <<source, place, positions, cursor>>
              /\ extractPc \in {"extract", "words", "split"}
              /\ extractPc' \in {"extract", "words", "split", "locate"}
          BY <3>1 DEF E!BeginBlock, E!UnendedBlock, E!BeginTail, E!SourceEnd, E!NextWord,
               E!EndWords, E!SplitItem, E!ItemsSplit, E!SplitText, E!locating
        <4>2. extractPc' = "locate" => at' = 0
          BY <1>1, <3>1 DEF Located, E!BeginBlock, E!UnendedBlock, E!BeginTail,
               E!SourceEnd, E!NextWord, E!EndWords, E!SplitItem, E!ItemsSplit, E!SplitText
        <4> QED
          BY <4>1, <4>2, OtherPlaces
      <3>2. CASE E!LocateItem
        BY <3>2, LocateItemPlaces
      <3>3. CASE E!ItemsLocated
        BY <3>3, OtherPlaces DEF E!ItemsLocated, E!locating, E!extracting
      <3> QED
        BY <1>4, <3>1, <3>2, <3>3 DEF E!Extract
    <2> QED
      BY <1>2, <2>1, <2>2 DEF PositionsInv
  <1> QED
    BY <1>3, <1>4 DEF Next, vars, ReadFile, ReadFails, ReadNothing, ExtractItems, BeginParsing,
       ParseItems, Exit, Exited

LEMMA PositionsIsInvariant == Spec => []PositionsInv
  <1> QED
    BY InitPositionsInv, PositionsStep, PTL DEF Spec

(* What prs_extractGrammarItems finds in a file whose quotes are balanced  *)
(* are its tokens, except the blocks it passes over at its position; it    *)
(* returns their number, and -1 only for a block that does not end.        *)
THEOREM TokensAreExtracted == Spec => []TokensExtracted
  <1>1. PositionsInv => TokensExtracted
    BY ItemsAreTokens DEF PositionsInv
  <1> QED
    BY <1>1, PositionsIsInvariant, PTL

(* prs_computeItemsPosition finds every item of the list, and the line and *)
(* column it computes from the text of an item alone are the true ones, as *)
(* long as no block was left out and no item before it spans lines.        *)
THEOREM PositionsAreExact == Spec => []PositionsExact
  <1>1. PositionsInv => PositionsExact
    <2> SUFFICES ASSUME PositionsInv PROVE PositionsExact
      OBVIOUS
    <2>1. ExtractionInv /\ E!TypeOK /\ Located /\ PlacesOK
      BY DEF PositionsInv, ExtractionInv
    <2>2. /\ at \in Nat /\ positions \in Seq(Nat \X Nat) /\ Len(stringItems) \in Nat
          /\ at <= Len(stringItems) /\ DOMAIN stringItems = 1 .. Len(stringItems)
          /\ extractPc \in {"extract", "words", "split", "locate", "done"}
      BY <2>1, ItemTypes DEF Located, E!TypeOK
    <2>3. extractPc # "lost" /\ (extractPc = "done" => Len(positions) = Len(stringItems))
      BY <2>1 DEF Located
    <2>4. ASSUME NEW n \in DOMAIN positions, E!Skipped = {},
                 \A m \in 1 .. n - 1 : ~E!SpansLines(stringItems[m])
          PROVE  positions[n] = E!TruePlace(stringItems[n].from)
      <3>1. positions # <<>>
        BY <2>4
      <3>2. extractPc \in {"locate", "done"} /\ Len(positions) = at
        BY <2>1, <2>2, <3>1 DEF Located
      <3>3. n \in 1 .. at
        BY <2>2, <2>4, <3>2
      <3> QED
        BY <2>1, <2>4, <3>2, <3>3 DEF PlacesOK
    <2> QED
      BY <2>3, <2>4 DEF PositionsExact, E!PositionsExact
  <1> QED
    BY <1>1, PositionsIsInvariant, PTL
-----------------------------------------------------------------------------
(* From end to end: the parser behind the extraction *)

(* The parser's invariants, for every list of items with texts of a file. *)
PS == INSTANCE GrammarParserSafety WITH Sources <- Seq(P!Items), Names <- Texts

(* what the parser is handed *)
Given == [n \in DOMAIN stringItems |-> Item(stringItems[n])]

(* The parser has not moved before it is given the items, and afterwards   *)
(* neither they nor the list they come from change.                        *)
HandedOver ==
  /\ stage \in {"read", "extract", "crashed"} => P!Init
  /\ stage = "parse" \/ pc # "declaration" => extractPc = "done" /\ items = Given

ProgramInv == PositionsInv /\ HandedOver /\ PS!ErrorInv /\ PS!NamesInv

LEMMA SameItems == P!Items = PS!Items
  BY DEF P!Items, PS!Items, P!Kinds, PS!Kinds, P!Blocks, PS!Blocks, P!Quantifiers,
         PS!Quantifiers, P!RangeErrors, PS!RangeErrors, P!Fatal, PS!Fatal

LEMMA SameInit ==
  ASSUME P!Init PROVE PS!Init
  BY DEF P!Init, PS!Init, P!NoToken, PS!NoToken, P!NoRule, PS!NoRule, P!NoProduction,
         PS!NoProduction, P!EmptyTable, PS!EmptyTable, P!ZeroToken, PS!ZeroToken,
         P!EmptyRule, PS!EmptyRule, P!EmptyProduction, PS!EmptyProduction

(* the actions of the two instances, which differ in the lists they start from *)
LEMMA SameParse == P!Parse => PS!Parse
  BY DEF P!Parse, PS!Parse, P!DeclarationsEnd, PS!DeclarationsEnd, P!AtEnd,
     PS!AtEnd, P!scratch, PS!scratch, P!UnknownItem, PS!UnknownItem, P!NextIs,
     PS!NextIs, P!frame, PS!frame, P!grammar, PS!grammar, P!BeginToken,
     PS!BeginToken, P!ZeroToken, PS!ZeroToken, P!TokenBlocks, PS!TokenBlocks,
     P!Struct, PS!Struct, P!TokenContents, PS!TokenContents, P!BeginRule,
     PS!BeginRule, P!EmptyRule, PS!EmptyRule, P!RuleBlocks, PS!RuleBlocks,
     P!RuleContents, PS!RuleContents, P!ProductionBlocks, PS!ProductionBlocks,
     P!PRItemsBlocks, PS!PRItemsBlocks, P!PRItemBlocks, PS!PRItemBlocks,
     P!TokenEqual, PS!TokenEqual, P!Advance, PS!Advance, P!TokenValue,
     PS!TokenValue, P!RejectToken, PS!RejectToken, P!FreeTokenContents,
     PS!FreeTokenContents, P!ExtractValue, PS!ExtractValue, P!Blocks,
     PS!Blocks, P!Fatal, PS!Fatal, P!AbortOn, PS!AbortOn, P!AcceptValue, PS!AcceptValue, P!RangeErrors, PS!RangeErrors,
     P!Text, PS!Text, P!TokenEnd, PS!TokenEnd, P!EndToken, PS!EndToken,
     P!QuantifierOf, PS!QuantifierOf, P!Quantifiers, PS!Quantifiers,
     P!TokenSemicolon, PS!TokenSemicolon, P!TokenFailed, PS!TokenFailed,
     P!FailToken, PS!FailToken, P!NoToken, PS!NoToken, P!TokenExists,
     PS!TokenExists, P!StoreToken, PS!StoreToken, P!Insert, PS!Insert,
     P!RuleEqual, PS!RuleEqual, P!BeginProduction, PS!BeginProduction,
     P!EndRule, PS!EndRule, P!FreeRuleContents, PS!FreeRuleContents,
     P!EmptyProduction, PS!EmptyProduction, P!ExtractPRItem, PS!ExtractPRItem,
     P!PRItem, PS!PRItem, P!RejectPRItem, PS!RejectPRItem, P!PRItemError,
     PS!PRItemError, P!EmptyProductionRule, PS!EmptyProductionRule,
     P!ProductionFailed, PS!ProductionFailed, P!NoProduction, PS!NoProduction,
     P!PushProduction, PS!PushProduction, P!RuleFailed, PS!RuleFailed,
     P!NoRule, PS!NoRule, P!RuleExists, PS!RuleExists, P!StoreRule,
     PS!StoreRule

LEMMA SameResolve == P!Resolve => PS!Resolve
  BY DEF P!Resolve, PS!Resolve, P!StartResolving, PS!StartResolving,
     P!scratch, PS!scratch, P!grammar, PS!grammar, P!TokensResolved,
     PS!TokensResolved, P!RulesResolved, PS!RulesResolved, P!frame, PS!frame,
     P!ResolveToken, PS!ResolveToken, P!IteratorNext, PS!IteratorNext, P!Text,
     PS!Text, P!ResolveRule, PS!ResolveRule, P!ResolveProduction,
     PS!ResolveProduction, P!Unknown, PS!Unknown, P!TableOf, PS!TableOf,
     P!ResolveItem, PS!ResolveItem, P!LastFailure, PS!LastFailure, P!FailsAt,
     PS!FailsAt

LEMMA SameClean == P!Clean => PS!Clean
  BY DEF P!Clean, PS!Clean, P!ReportError, PS!ReportError, P!frame, PS!frame,
     P!grammar, PS!grammar, P!scratch, PS!scratch, P!FreeItems, PS!FreeItems,
     P!FreeGrammar, PS!FreeGrammar, P!TableBlocks, PS!TableBlocks,
     P!TokenBlocks, PS!TokenBlocks, P!Struct, PS!Struct, P!TokenContents,
     PS!TokenContents, P!RuleBlocks, PS!RuleBlocks, P!RuleContents,
     PS!RuleContents, P!ProductionBlocks, PS!ProductionBlocks,
     P!PRItemsBlocks, PS!PRItemsBlocks, P!PRItemBlocks, PS!PRItemBlocks,
     P!EmptyTable, PS!EmptyTable, P!NoToken, PS!NoToken, P!ZeroToken,
     PS!ZeroToken

LEMMA ParserStarts == PS!Init => PS!ErrorInv /\ PS!NamesInv
  BY SameItems, PS!InitErrorInv, PS!InitNamesInv

LEMMA ParserStartsNext == PS!Init' => PS!ErrorInv' /\ PS!NamesInv'
  BY ParserStarts, PTL

LEMMA ParserGoesOn ==
  PS!ErrorInv /\ PS!NamesInv /\ [PS!Next]_(PS!vars) => PS!ErrorInv' /\ PS!NamesInv'
  BY SameItems, PS!ErrorStep, PS!NamesStep

(* the text behind the first character *)
LEMMA TailOfText ==
  ASSUME NEW s \in Seq(STRING), NEW a \in 1 .. Len(s), NEW b \in 1 .. Len(s), a < b
  PROVE  Tail(SubSeq(s, a, b)) = SubSeq(s, a + 1, b)
  OBVIOUS

LEMMA TextStarts ==
  ASSUME NEW s \in Seq(STRING), NEW a \in 1 .. Len(s), NEW b \in a .. Len(s)
  PROVE  SubSeq(s, a, b)[1] = s[a] /\ Len(SubSeq(s, a, b)) = b - a + 1
  OBVIOUS

LEMMA NotEmpty == ASSUME NEW s, Len(s) >= 1 PROVE s # <<>>
  <1>1. ~(Len(<<>>) >= 1)
    OBVIOUS
  <1> QED
    BY <1>1, Zenon

LEMMA TextOfStrings ==
  ASSUME NEW s \in Seq(STRING), NEW a \in 1 .. Len(s), NEW b \in a .. Len(s)
  PROVE  SubSeq(s, a, b) \in Seq(STRING)
  OBVIOUS

LEMMA SecondOfText ==
  ASSUME NEW s \in Seq(STRING), NEW a \in 1 .. Len(s), NEW b \in 1 .. Len(s), a < b
  PROVE  SubSeq(s, a, b)[2] = s[a + 1]
  OBVIOUS

(* prs_extractRanges answers with one of its codes. *)
LEMMA RangeAnswers ==
  ASSUME NEW text PROVE R!SolidCode(text) \in {"PRS_OK"} \cup P!RangeErrors
  <1>1. \A x, y : R!RangeError(x, y) \in {"PRS_OK"} \cup P!RangeErrors
    BY DEF R!RangeError, P!RangeErrors
  <1>2. \A x, dash, y : R!ExtractRange(x, dash, y).code \in {"PRS_OK"} \cup P!RangeErrors
    <2> SUFFICES ASSUME NEW x, NEW dash, NEW y
                 PROVE  R!ExtractRange(x, dash, y).code \in {"PRS_OK"} \cup P!RangeErrors
      OBVIOUS
    <2> DEFINE u == R!IsUppercase(x, y)
               c == R!RangeError(R!Bound(x, u), R!Bound(y, u))
    <2>1. c \in {"PRS_OK"} \cup P!RangeErrors
      BY <1>1
    <2>2. R!ExtractRange(x, dash, y).code \in {c, "PRS_INVALID_RANGE_PATTERN"}
      <3> HIDE DEF c
      <3>1. CASE R!IsPattern(x, y) /\ dash = R!Dash
        BY <3>1 DEF R!ExtractRange, c, u
      <3>2. CASE ~(R!IsPattern(x, y) /\ dash = R!Dash)
        BY <3>2 DEF R!ExtractRange
      <3> QED
        BY <3>1, <3>2
    <2> HIDE DEF c
    <2> QED
      BY <2>1, <2>2 DEF P!RangeErrors
  <1>3. \A n : R!CodeAt(text, n) \in {"PRS_OK"} \cup P!RangeErrors
    BY <1>2 DEF R!CodeAt
  <1> QED
    BY <1>3 DEF R!SolidCode, P!RangeErrors

LEMMA KindOfText ==
  ASSUME NEW text \in Seq(STRING), text # <<>>
  PROVE  /\ KindOf(text) \in P!Kinds
         /\ KindOf(text) = "tokenDecl" => Len(text) > 1 /\ IsUpper(text[2])
         /\ KindOf(text) = "ruleDecl" => Len(text) > 1 /\ IsLower(text[2])
         /\ KindOf(text) \in {"tokenDecl", "ruleDecl"} => text[1] = "%"
         /\ text[1] = "%" => KindOf(text) \in {"tokenDecl", "ruleDecl", "other"}
         /\ KindOf(text) = "upper" => IsUpper(text[1])
         /\ KindOf(text) = "lower" => IsLower(text[1])
  <1>1. Len(text) = 1 \/ Len(text) = 2 \/ Len(text) > 2
    <2>1. Len(text) \in Nat /\ Len(text) # 0
      OBVIOUS
    <2>2. \A n \in Nat : n # 0 => n = 1 \/ n = 2 \/ n > 2
      OBVIOUS
    <2> QED
      BY <2>1, <2>2, Zenon
  <1>2. CASE text[1] = "%"
    <2>1. KindOf(text) = DeclarationKind(text)
      BY <1>2 DEF KindOf, E!Backquote
    <2>2. /\ DeclarationKind(text) \in {"tokenDecl", "ruleDecl", "other"}
          /\ DeclarationKind(text) = "tokenDecl" => Len(text) > 1 /\ IsUpper(text[2])
          /\ DeclarationKind(text) = "ruleDecl" => Len(text) > 1 /\ IsLower(text[2])
      BY DEF DeclarationKind
    <2> QED
      BY <1>2, <2>1, <2>2 DEF P!Kinds
  <1>3. CASE text[1] = E!Backquote
    <2>1. KindOf(text) = BlockKind(text) /\ text[1] # "%"
      BY <1>3 DEF KindOf, E!Backquote
    <2>2. BlockKind(text) \in {"loneQuote", "openBlock", "emptyBlock", "block"}
      BY DEF BlockKind
    <2> QED
      BY <2>1, <2>2 DEF P!Kinds, P!Blocks, P!Fatal
  <1>4. CASE text[1] = "["
    <2>1. KindOf(text) = RangeKind(text) /\ text[1] # "%"
      BY <1>4 DEF KindOf, E!Backquote
    <2>2. RangeKind(text) \in {"loneBracket", "emptyRange", "range"} \cup P!RangeErrors
      <3> DEFINE answer == R!SolidCode([k \in 1 .. Len(text) - 2 |-> Code[text[k + 1]]])
      <3>1. answer \in {"PRS_OK"} \cup P!RangeErrors
        BY RangeAnswers
      <3>2. RangeKind(text) = CASE Len(text) = 1 -> "loneBracket"
                                [] Len(text) = 2 -> "emptyRange"
                                [] Len(text) > 2 /\ answer = "PRS_OK" -> "range"
                                [] OTHER -> answer
        BY DEF RangeKind
      <3> HIDE DEF answer
      <3> QED
        BY <1>1, <3>1, <3>2
    <2> QED
      BY <2>1, <2>2 DEF P!Kinds, P!RangeErrors, P!Fatal
  <1>5. CASE text[1] \notin {"%", E!Backquote, "["}
    <2>1. KindOf(text) = SignKind(text[1])
      BY <1>5 DEF KindOf
    <2>2. /\ SignKind(text[1]) \in {"upper", "lower", "equal", "semicolon", "pipe", "plus",
                                   "qmark", "star", "other"}
          /\ SignKind(text[1]) = "upper" => IsUpper(text[1])
          /\ SignKind(text[1]) = "lower" => IsLower(text[1])
      BY DEF SignKind
    <2> QED
      BY <1>5, <2>1, <2>2 DEF P!Kinds, P!Quantifiers
  <1> QED
    BY <1>2, <1>3, <1>4, <1>5

LEMMA PartOfText ==
  ASSUME NEW s \in Seq(STRING), NEW a \in DOMAIN s, NEW b \in DOMAIN s
  PROVE  SubSeq(s, a, b) \in {SubSeq(s, c, d) : c, d \in DOMAIN s}
  BY SMTT(30)

LEMMA ItemOfText ==
  ASSUME ExtractionInv, NEW n \in DOMAIN stringItems
  PROVE  LET i == stringItems[n] IN
         /\ Item(i).kind \in P!Kinds /\ Item(i).text \in Texts
         /\ Item(i).kind \in {"tokenDecl", "ruleDecl"} =>
              source[i.from] = "%" /\ Item(i).text = SubSeq(source, i.from + 1, i.to)
         /\ source[i.from] = "%" =>
              Item(i).kind \in {"tokenDecl", "ruleDecl", "other"}
         /\ Item(i).kind \in {"tokenDecl", "upper"} =>
              Item(i).text # <<>> /\ IsUpper(Item(i).text[1])
         /\ Item(i).kind \in {"ruleDecl", "lower"} =>
              Item(i).text # <<>> /\ IsLower(Item(i).text[1])
  <1> DEFINE i == stringItems[n]
             text == SubSeq(source, i.from, i.to)
  <1>1. /\ source \in Files /\ source \in Seq(STRING) /\ E!TypeOK
        /\ i.from \in 1 .. Len(source) /\ i.to \in i.from .. Len(source)
        /\ i.to \in 1 .. Len(source) /\ DOMAIN source = 1 .. Len(source)
        /\ Len(source) \in Nat
    <2>1. E!TypeOK /\ source \in Files
      BY DEF ExtractionInv, E!TypeOK
    <2>2. source \in Seq(STRING)
      BY <2>1, FilesAssumption
    <2> QED
      BY <2>1, <2>2, ItemTypes DEF E!End
  <1> HIDE DEF i
  <1>2. /\ text[1] = source[i.from] /\ Len(text) = i.to - i.from + 1
        /\ text \in Seq(STRING) /\ text # <<>>
    <2>1. text[1] = source[i.from] /\ Len(text) = i.to - i.from + 1
      BY <1>1, TextStarts
    <2>2. text \in Seq(STRING)
      BY <1>1, TextOfStrings
    <2>3. Len(text) >= 1
      BY <1>1, <2>1
    <2> QED
      BY <2>1, <2>2, <2>3, NotEmpty
  <1>3. \A a, b \in 1 .. Len(source) : SubSeq(source, a, b) \in Texts
    <2> SUFFICES ASSUME NEW a \in 1 .. Len(source), NEW b \in 1 .. Len(source)
                 PROVE  SubSeq(source, a, b) \in Texts
      OBVIOUS
    <2> DEFINE Parts(f) == {SubSeq(f, c, d) : c, d \in DOMAIN f}
    <2>1. Texts = UNION {Parts(f) : f \in Files}
      BY DEF Texts
    <2>2. SubSeq(source, a, b) \in Parts(source)
      <3>1. a \in DOMAIN source /\ b \in DOMAIN source
        BY <1>1
      <3> QED
        BY <1>1, <3>1, PartOfText, SMTT(30)
    <2> HIDE DEF Parts
    <2> QED
      BY <1>1, <2>1, <2>2
  <1>4. Item(i).kind = KindOf(text)
    BY DEF Item
  <1>5. CASE KindOf(text) \in {"tokenDecl", "ruleDecl"}
    <2>1. text[1] = "%" /\ Len(text) > 1
      BY <1>2, <1>5, KindOfText
    <2>2. i.from < i.to /\ i.from + 1 \in 1 .. Len(source)
      BY <1>1, <1>2, <2>1
    <2>3. Item(i).text = Tail(text)
      BY <1>5 DEF Item
    <2>4. Tail(text) = SubSeq(source, i.from + 1, i.to) /\ text[2] = source[i.from + 1]
      BY <1>1, <2>2, TailOfText, SecondOfText
    <2>5. Item(i).text # <<>> /\ Item(i).text[1] = text[2]
      <3> DEFINE a == i.from + 1
                 tail == SubSeq(source, a, i.to)
      <3>1. a \in 1 .. Len(source) /\ i.to \in a .. Len(source)
        BY <1>1, <2>2
      <3> HIDE DEF a
      <3>2. tail[1] = source[a] /\ Len(tail) = i.to - a + 1
        BY <1>1, <3>1, TextStarts
      <3>3. Len(tail) >= 1
        BY <1>1, <3>1, <3>2
      <3>4. tail # <<>>
        BY <3>3, NotEmpty
      <3>5. Item(i).text = tail /\ text[2] = source[a]
        BY <2>3, <2>4 DEF a
      <3> HIDE DEF tail, text
      <3> QED
        BY <3>2, <3>4, <3>5
    <2> QED
      BY <1>1, <1>2, <1>3, <1>4, <1>5, <2>1, <2>2, <2>3, <2>4, <2>5, KindOfText DEF i
  <1>6. CASE KindOf(text) \notin {"tokenDecl", "ruleDecl"}
    <2>1. Item(i).text = text
      BY <1>6 DEF Item
    <2> QED
      BY <1>1, <1>2, <1>3, <1>4, <1>6, <2>1, KindOfText DEF i
  <1> QED
    BY <1>5, <1>6

LEMMA GivenTypes ==
  ASSUME ExtractionInv
  PROVE  Given \in Seq(P!Items) /\ DOMAIN Given = 1 .. Len(stringItems)
  <1>1. DOMAIN stringItems = 1 .. Len(stringItems) /\ Len(stringItems) \in Nat
    BY ItemTypes DEF ExtractionInv
  <1>2. \A n \in 1 .. Len(stringItems) : Item(stringItems[n]) \in P!Items
    <2> SUFFICES ASSUME NEW n \in 1 .. Len(stringItems)
                 PROVE  Item(stringItems[n]) \in P!Items
      OBVIOUS
    <2>1. Item(stringItems[n]).kind \in P!Kinds /\ Item(stringItems[n]).text \in Texts
      BY <1>1, ItemOfText
    <2> QED
      BY <2>1 DEF Item, P!Items
  <1> QED
    BY <1>1, <1>2 DEF Given

LEMMA InitProgramInv == Init => ProgramInv
  <1> SUFFICES ASSUME Init PROVE ProgramInv
    OBVIOUS
  <1>1. PositionsInv
    BY InitPositionsInv
  <1>2. P!Init /\ stage = "read"
    BY DEF Init
  <1>3. HandedOver
    BY <1>2 DEF HandedOver, P!Init
  <1> QED
    BY <1>1, <1>2, <1>3, SameInit, ParserStarts DEF ProgramInv

(* The parser begins with the items. *)
LEMMA BeginParsingInv ==
  ASSUME ProgramInv, BeginParsing
  PROVE  HandedOver' /\ PS!ErrorInv' /\ PS!NamesInv'
  <1>1. /\ ExtractionInv /\ extractPc = "done" /\ P!Init
        /\ items' = Given /\ UNCHANGED <<extraction, parsing>> /\ stage' = "parse"
    BY DEF ProgramInv, PositionsInv, ExtractionInv, Located, HandedOver, BeginParsing, Given
  <1>2. HandedOver'
    BY <1>1 DEF HandedOver, extraction, Given, Item
  <1>3. PS!Init
    BY <1>1, SameInit
  <1>4. PS!Init'
    BY <1>1, <1>3, GivenTypes DEF PS!Init, parsing
  <1> QED
    BY <1>2, <1>4, ParserStartsNext

LEMMA ProgramStep == ProgramInv /\ [Next]_vars => ProgramInv'
  <1> SUFFICES ASSUME ProgramInv, [Next]_vars PROVE ProgramInv'
    OBVIOUS
  <1>1. PositionsInv'
    BY PositionsStep DEF ProgramInv
  <1>2. CASE BeginParsing
    BY <1>1, <1>2, BeginParsingInv DEF ProgramInv
  <1>3. CASE ParseItems
    <2>1. /\ stage = "parse" /\ stage' = "parse" /\ UNCHANGED extraction
          /\ extractPc = "done" /\ items = Given
      BY <1>3 DEF ParseItems, ProgramInv, HandedOver
    <2>2. PS!Next
      BY <1>3, SameParse, SameResolve, SameClean DEF ParseItems, PS!Next
    <2>3. PS!ErrorInv' /\ PS!NamesInv'
      BY <2>2, ParserGoesOn DEF ProgramInv
    <2>4. items' = items
      BY <2>2, SameItems, PS!ItemsKept
    <2>5. HandedOver'
      BY <2>1, <2>4 DEF HandedOver, extraction, Given, Item
    <2> QED
      BY <1>1, <2>3, <2>5 DEF ProgramInv
  <1>4. CASE \/ ReadFile \/ ReadFails \/ ReadNothing \/ ExtractItems \/ Exit
            \/ UNCHANGED vars
    <2>1. UNCHANGED <<items, parsing>>
      BY <1>4 DEF ReadFile, ReadFails, ReadNothing, ExtractItems, Exit, vars
    <2>2. UNCHANGED PS!vars
      BY <2>1 DEF parsing, PS!vars
    <2>3. PS!ErrorInv' /\ PS!NamesInv'
      BY <2>2, ParserGoesOn DEF ProgramInv
    <2>4. HandedOver'
      <3>1. CASE ReadFile \/ ReadFails \/ ReadNothing \/ ExtractItems
        <4>1. P!Init /\ stage' \in {"read", "extract", "exit", "crashed"}
          BY <3>1 DEF ReadFile, ReadFails, ReadNothing, ExtractItems, ProgramInv, HandedOver
        <4> QED
          BY <2>1, <4>1 DEF HandedOver, P!Init, parsing
      <3>2. CASE Exit
        BY <3>2 DEF Exit, HandedOver, ProgramInv, extraction, parsing, Given, Item
      <3>3. CASE UNCHANGED vars
        BY <3>3 DEF vars, HandedOver, ProgramInv, extraction, parsing, Given, Item, P!Init
      <3> QED
        BY <1>4, <3>1, <3>2, <3>3
    <2> QED
      BY <1>1, <2>3, <2>4 DEF ProgramInv
  <1> QED
    BY <1>2, <1>3, <1>4 DEF Next, Exited

LEMMA ProgramIsInvariant == Spec => []ProgramInv
  <1> QED
    BY InitProgramInv, ProgramStep, PTL DEF Spec

LEMMA DeclarationsAreWords ==
  ASSUME TokensExtracted, E!Extracted, E!BalancedQuotes, NEW i, source[i.from] = "%"
  PROVE  i \in Elements <=> i \in E!WordTokens
  <1>1. Elements = E!Tokens \ E!Skipped
    BY DEF TokensExtracted, E!TokensExtracted, Elements
  <1>2. i \notin E!BlockTokens
    <2>1. \A b \in E!BlockTokens : source[b.from] = E!Backquote
      BY DEF E!BlockTokens, E!Opens, E!Interval
    <2> QED
      BY <2>1 DEF E!Backquote
  <1>3. i \notin E!SignTokens
    <2>1. \A b \in E!SignTokens : source[b.from] \in E!Delimiters
      BY DEF E!SignTokens, E!Where, E!Interval
    <2> QED
      BY <2>1 DEF E!Delimiters
  <1> QED
    BY <1>1, <1>2, <1>3, SkippedAreBlocks DEF E!Tokens

(* No letter is both uppercase and lowercase. *)
LEMMA LetterCases == \A c : ~(IsUpper(c) /\ IsLower(c))
  BY DEF IsUpper, IsLower, R!Upper, R!Lower

(* Once every declaration is stored, the tables have the names declared. *)
LEMMA NamesDeclared ==
  ASSUME ProgramInv, pc \in {"resolved", "unresolved"}, E!BalancedQuotes
  PROVE  /\ DOMAIN tokens = DeclaredTokens /\ DOMAIN rules = DeclaredRules
         /\ Declared = DeclaredTokens \cup DeclaredRules
  <1>1. /\ ExtractionInv /\ TextInv /\ extractPc = "done" /\ items = Given
    BY DEF ProgramInv, PositionsInv, HandedOver
  <1>2. /\ DOMAIN items = DOMAIN stringItems /\ Len(items) = Len(stringItems)
        /\ DOMAIN stringItems = 1 .. Len(stringItems)
        /\ \A n \in DOMAIN stringItems : items[n] = Item(stringItems[n])
    BY <1>1, GivenTypes, ItemTypes DEF Given, ExtractionInv
  <1>3. TokensExtracted /\ E!Extracted
    BY <1>1, ItemsAreTokens DEF E!Extracted
  <1>4. /\ \A x \in DOMAIN tokens : \E n \in 1 .. Len(items) :
             items[n].kind = "tokenDecl" /\ items[n].text = x
        /\ \A x \in DOMAIN rules : \E n \in 1 .. Len(items) :
             items[n].kind = "ruleDecl" /\ items[n].text = x
        /\ \A n \in 1 .. Len(items) :
             /\ items[n].kind # "other"
             /\ items[n].kind = "tokenDecl" => items[n].text \in DOMAIN tokens
             /\ items[n].kind = "ruleDecl" => items[n].text \in DOMAIN rules
    BY SameItems, PS!NamesOfAccepted DEF ProgramInv
  <1>5. ASSUME NEW n \in 1 .. Len(items), items[n].kind \in {"tokenDecl", "ruleDecl"}
        PROVE  /\ items[n].text \in Declared
               /\ items[n].kind = "tokenDecl" => items[n].text \in DeclaredTokens
               /\ items[n].kind = "ruleDecl" => items[n].text \in DeclaredRules
    <2>1. PICK i : i = stringItems[n]
      OBVIOUS
    <2>2. /\ i \in Elements /\ source[i.from] = "%"
          /\ items[n].text = SubSeq(source, i.from + 1, i.to)
      BY <1>1, <1>2, <1>5, <2>1, ItemOfText DEF Elements
    <2>3. items[n].text \in Declared
      BY <1>3, <2>2, DeclarationsAreWords DEF Declared
    <2>4. /\ items[n].text # <<>>
          /\ items[n].kind = "tokenDecl" => IsUpper(items[n].text[1])
          /\ items[n].kind = "ruleDecl" => IsLower(items[n].text[1])
      BY <1>1, <1>2, <1>5, ItemOfText
    <2> QED
      BY <2>3, <2>4 DEF DeclaredTokens, DeclaredRules
  <1>6. ASSUME NEW x \in Declared
        PROVE  \/ x \in DOMAIN tokens /\ x \in DeclaredTokens
               \/ x \in DOMAIN rules /\ x \in DeclaredRules
    <2>1. PICK w \in E!WordTokens :
            source[w.from] = "%" /\ x = SubSeq(source, w.from + 1, w.to)
      BY <1>6 DEF Declared
    <2>2. w \in Elements
      BY <1>3, <2>1, DeclarationsAreWords
    <2>3. PICK n \in DOMAIN stringItems : w = stringItems[n]
      BY <2>2 DEF Elements
    <2>4. items[n].kind \in {"tokenDecl", "ruleDecl"} /\ items[n].text = x
      BY <1>1, <1>2, <1>4, <2>1, <2>3, ItemOfText
    <2> QED
      BY <1>2, <1>4, <1>5, <2>4
  <1>7. DeclaredTokens \subseteq Declared /\ DeclaredRules \subseteq Declared
        /\ DeclaredTokens \cap DeclaredRules = {}
    BY LetterCases DEF DeclaredTokens, DeclaredRules
  <1>8. DOMAIN tokens = DeclaredTokens
    <2>1. \A x \in DOMAIN tokens : x \in DeclaredTokens
      BY <1>4, <1>5
    <2>2. \A x \in DeclaredTokens : x \in DOMAIN tokens
      BY <1>6, <1>7
    <2> QED
      BY <2>1, <2>2
  <1>9. DOMAIN rules = DeclaredRules
    <2>1. \A x \in DOMAIN rules : x \in DeclaredRules
      BY <1>4, <1>5
    <2>2. \A x \in DeclaredRules : x \in DOMAIN rules
      BY <1>6, <1>7
    <2> QED
      BY <2>1, <2>2
  <1> QED
    BY <1>6, <1>7, <1>8, <1>9

(* The line and column of the error message are those of the item that is  *)
(* wrong, for every file without a block left out and without an item over *)
(* several lines in front of it, range values and blocks included; and a   *)
(* symbol the resolver stops at is declared nowhere in the file.           *)
THEOREM ErrorPlaceIsTrue == Spec => []ErrorPlaceTrue
  <1>1. ProgramInv => ErrorPlaceTrue
    <2> SUFFICES ASSUME ProgramInv, pc \in {"failed", "unresolved"} PROVE ErrorPlaceTrue
      BY DEF ErrorPlaceTrue
    <2>1. ExtractionInv /\ PlacesOK /\ extractPc = "done" /\ items = Given
      BY DEF ProgramInv, PositionsInv, HandedOver
    <2>2. /\ positions \in Seq(Nat \X Nat) /\ Len(positions) = at /\ at = Len(stringItems)
      BY <2>1 DEF ExtractionInv, Located, E!TypeOK
    <2>3. /\ Given \in Seq(P!Items) /\ Len(Given) = Len(stringItems)
          /\ Len(stringItems) \in Nat /\ DOMAIN Given = DOMAIN stringItems
      BY <2>1, GivenTypes, ItemTypes DEF ExtractionInv
    <2>4. /\ errItem \in 1 .. Len(items)
          /\ pc = "unresolved" =>
               \/ items[errItem].kind = "upper" /\ items[errItem].text \notin DOMAIN tokens
               \/ items[errItem].kind = "lower" /\ items[errItem].text \notin DOMAIN rules
      BY SameItems, PS!ErrorIsItem DEF ProgramInv
    <2>5. errItem \in 1 .. at /\ DOMAIN positions = 1 .. at /\ errItem \in DOMAIN items
      BY <2>1, <2>2, <2>3, <2>4
    <2>6. ASSUME E!Skipped = {}, \A n \in 1 .. errItem - 1 : ~E!SpansLines(stringItems[n])
          PROVE  /\ errItem \in DOMAIN positions
                 /\ positions[errItem] = E!TruePlace(stringItems[errItem].from)
      BY <2>1, <2>5, <2>6 DEF PlacesOK
    <2>7. ASSUME pc = "unresolved", E!BalancedQuotes
          PROVE  items[errItem].text \notin Declared
      <3>1. PICK name : name = items[errItem].text
        OBVIOUS
      <3>2. /\ items[errItem].kind = "upper" => name # <<>> /\ IsUpper(name[1])
            /\ items[errItem].kind = "lower" => name # <<>> /\ IsLower(name[1])
        <4>1. items[errItem] = Item(stringItems[errItem]) /\ errItem \in DOMAIN stringItems
          BY <2>1, <2>3, <2>5 DEF Given
        <4> QED
          BY <2>1, <3>1, <4>1, ItemOfText
      <3>3. DOMAIN tokens = DeclaredTokens /\ DOMAIN rules = DeclaredRules
        BY <2>7, NamesDeclared
      <3> QED
        BY <2>4, <2>7, <3>1, <3>2, <3>3 DEF DeclaredTokens, DeclaredRules
    <2> QED
      BY <2>5, <2>6, <2>7 DEF ErrorPlaceTrue
  <1> QED
    BY <1>1, ProgramIsInvariant, PTL

(* When the program accepts a file whose quotes are balanced, the names in *)
(* its tables are exactly those the file declares outside of its blocks,   *)
(* the uppercase ones as tokens and the lowercase ones as rules, whatever  *)
(* their values are: strings, ranges or references.                        *)
THEOREM DeclarationsAreStored == Spec => []EveryDeclarationStored
  <1>1. ProgramInv => EveryDeclarationStored
    BY NamesDeclared DEF EveryDeclarationStored
  <1> QED
    BY <1>1, ProgramIsInvariant, PTL
=============================================================================
