--------------------------- MODULE ItemExtraction ---------------------------
(***************************************************************************)
(* From the text of a grammar to the list of its items: the loop over      *)
(* string blocks of prs_extractGrammarItems, the words str_splitItems      *)
(* finds between them, prs_splitDelimiters over the list and               *)
(* prs_computeItemsPosition, in the order main calls them (main.c:43-46).  *)
(*                                                                         *)
(* A source is a sequence of characters and an item the interval of the    *)
(* source its text was copied from, which is exact: a copy only loses      *)
(* blanks, and no word contains one (module StringUtils shows that the     *)
(* words of the collapsed copy are those of the text).  The interval is    *)
(* not in the code: prs_computeItemsPosition sees the text alone.          *)
(***************************************************************************)
EXTENDS Integers, Sequences, FiniteSets, FiniteSetsExt, SequencesExt

CONSTANT Sources \* contents of a grammar file, without NUL

Backquote == "backquote"
Newline == "newline"
Blanks == {"blank", Newline} \* a tab is a blank that does not end a line
Delimiters == {"+", "|", "?", ";", "="}

VARIABLES
  source,
  pc,        \* "extract", "words", "split", "locate", "done" or "lost"
  sourcePos, \* characters of the source already extracted
  segment,   \* text between blocks: how far it is split, where it ends
  blockEnd,  \* end of the block behind the segment, 0 without a block
  items,     \* the list: intervals of the source
  count,     \* extractedItems and what prs_splitDelimiters adds
  result,    \* what prs_extractGrammarItems returned
  at,        \* items an iterator has returned
  cursor,    \* prs_computeItemsPosition: characters behind it
  place,     \* and line and column of the next character
  positions  \* line and column of the first items of the list

extracting == <<sourcePos, segment, blockEnd>>
locating == <<cursor, place, positions>>
vars == <<source, pc, extracting, items, count, result, at, locating>>

End == Len(source)
Where(chars, a, b) == {p \in a .. b : source[p] \in chars}
Quotes(a, b) == Where({Backquote}, a, b)
Interval(a, b) == [from |-> a, to |-> b]
Length(i) == i.to - i.from + 1

Init ==
  /\ source \in Sources
  /\ pc = "extract"
  /\ sourcePos = 0 /\ segment = Interval(1, 0) /\ blockEnd = 0
  /\ items = <<>> /\ count = 0 /\ result = 0
  /\ at = 0
  /\ cursor = 0 /\ place = <<1, 1>> /\ positions = <<>>
-----------------------------------------------------------------------------
(* The loop of prs_extractGrammarItems *)

(* The limit of the second memchr is sourcePos too large: behind the first *)
(* block, a missing end may be found in the bytes after the terminator,    *)
(* and the copied block then reads as the rest of the source.              *)
BlockEnds(start) ==
  LET ends == Quotes(start + 1, End)
  IN  IF ends # {} THEN {Min(ends)} ELSE {e \in {End} : sourcePos >= 2}

Push(i) == items' = Append(items, i) /\ count' = count + 1

SplitText(to, end) ==
  /\ segment' = Interval(sourcePos + 1, to)
  /\ blockEnd' = end
  /\ pc' = "words"
  /\ UNCHANGED sourcePos

(* a block at the current position is passed over *)
BeginBlock ==
  /\ pc = "extract" /\ Quotes(sourcePos + 1, End) # {}
  /\ LET start == Min(Quotes(sourcePos + 1, End)) IN
       \E end \in BlockEnds(start) :
         IF start = sourcePos + 1
         THEN sourcePos' = end /\ UNCHANGED <<pc, segment, blockEnd>>
         ELSE SplitText(start - 1, end)
  /\ UNCHANGED <<source, items, count, result, at, locating>>

(* the items stay as they are, and main goes on with them *)
UnendedBlock ==
  /\ pc = "extract" /\ Quotes(sourcePos + 1, End) # {}
  /\ Quotes(Min(Quotes(sourcePos + 1, End)) + 1, End) = {}
  /\ result' = -1
  /\ pc' = "locate"
  /\ UNCHANGED <<source, extracting, items, count, at, locating>>

BeginTail ==
  /\ pc = "extract" /\ sourcePos < End /\ Quotes(sourcePos + 1, End) = {}
  /\ SplitText(End, 0)
  /\ UNCHANGED <<source, items, count, result, at, locating>>

SourceEnd ==
  /\ pc = "extract" /\ sourcePos = End
  /\ pc' = "split"
  /\ UNCHANGED <<source, extracting, items, count, result, at, locating>>

Behind(p) == p + 1

(* one turn of str_splitItems: up to the next blank, or to the end *)
NextWord ==
  /\ pc = "words" /\ segment.from <= segment.to
  /\ LET blank == Min(Where(Blanks, segment.from, segment.to) \cup {segment.to + 1})
         word == Interval(segment.from, blank - 1)
     IN  /\ segment' = [segment EXCEPT !.from = Behind(blank)]
         /\ IF Length(word) = 0 THEN UNCHANGED <<items, count>> ELSE Push(word)
  /\ UNCHANGED <<source, pc, sourcePos, blockEnd, result, at, locating>>

EndWords ==
  /\ pc = "words" /\ segment.from > segment.to
  /\ IF blockEnd = 0
     THEN /\ pc' = "split"
          /\ UNCHANGED <<sourcePos, items, count>>
     ELSE /\ Push(Interval(segment.to + 1, blockEnd))
          /\ sourcePos' = blockEnd
          /\ pc' = "extract"
  /\ UNCHANGED <<source, segment, blockEnd, result, at, locating>>
-----------------------------------------------------------------------------
(* prs_splitDelimiters: the iterator moves onto the item it inserts, which *)
(* is the next to be split (module LinkedList).                            *)

IsBlock(i) == source[i.from] = Backquote
Signs(i) == Where(Delimiters, i.from, i.to)
(* Faulty variants: without the test for blocks, for single characters. *)
SplitsBlocks(i) == Signs(i) # {} /\ Length(i) > 1
SplitsSigns(i) == ~IsBlock(i) /\ Signs(i) # {}

Splits(i) == ~IsBlock(i) /\ Signs(i) # {} /\ Length(i) > 1

(* the delimiter ends the item, unless it starts with it *)
Cut(i) ==
  LET sign == Min(Signs(i)) IN IF sign = i.from THEN sign + 1 ELSE sign

(* Faulty variant: the node is linked in front of the current one. *)
InsertBefore(list, n, x) ==
  SubSeq(list, 1, n - 1) \o <<x>> \o SubSeq(list, n, Len(list))

InsertAfter(list, n, x) ==
  SubSeq(list, 1, n) \o <<x>> \o SubSeq(list, n + 1, Len(list))

SplitItem ==
  /\ pc = "split" /\ at < Len(items)
  /\ LET i == items[at + 1] IN
       IF Splits(i)
       THEN /\ items' = InsertAfter([items EXCEPT ![at + 1].to = Cut(i) - 1],
                                    at + 1, Interval(Cut(i), i.to))
            /\ count' = count + 1
       ELSE UNCHANGED <<items, count>>
  /\ at' = at + 1
  /\ UNCHANGED <<source, pc, extracting, result, locating>>

ItemsSplit ==
  /\ pc = "split" /\ at = Len(items)
  /\ result' = count
  /\ at' = 0
  /\ pc' = "locate"
  /\ UNCHANGED <<source, extracting, items, count, locating>>
-----------------------------------------------------------------------------
(* prs_computeItemsPosition *)

(* strstr: where the text of the item occurs in the rest of the source *)
Occurrences(i) ==
  {p \in cursor + 1 .. End - Length(i) + 1 :
     \A k \in 0 .. Length(i) - 1 : source[p + k] = source[i.from + k]}

(* Faulty variant: a new line does not reset the column. *)
PlaceBeforeOnOneLine(p) ==
  << place[1] + Cardinality(Where({Newline}, cursor + 1, p - 1)),
     place[2] + (p - 1 - cursor) >>

(* the place behind the characters up to p, from the place of the cursor *)
PlaceBefore(p) ==
  LET newlines == Where({Newline}, cursor + 1, p - 1) IN
    << place[1] + Cardinality(newlines),
       IF newlines = {} THEN place[2] + (p - 1 - cursor) ELSE p - Max(newlines) >>

ItemEnd(start, i) == start + Length(i) - 1

(* the column moves by the length of the item, whatever it contains *)
LocateItem ==
  /\ pc = "locate" /\ at < Len(items)
  /\ LET i == items[at + 1]
         start == Min(Occurrences(i))
     IN  IF Occurrences(i) = {}
         THEN pc' = "lost" /\ UNCHANGED <<at, locating>>
         ELSE /\ positions' = Append(positions, PlaceBefore(start))
              /\ cursor' = ItemEnd(start, i)
              /\ place' = [PlaceBefore(start) EXCEPT ![2] = @ + Length(i)]
              /\ at' = at + 1
              /\ UNCHANGED pc
  /\ UNCHANGED <<source, extracting, items, count, result>>

ItemsLocated ==
  /\ pc = "locate" /\ at = Len(items)
  /\ pc' = "done"
  /\ UNCHANGED <<source, extracting, items, count, result, at, locating>>

Returned == pc \in {"done", "lost"} /\ UNCHANGED vars

Extract ==
  \/ BeginBlock \/ UnendedBlock \/ BeginTail \/ SourceEnd \/ NextWord \/ EndWords
  \/ SplitItem \/ ItemsSplit
  \/ LocateItem \/ ItemsLocated

Next == Extract \/ Returned

Spec == Init /\ [][Next]_vars /\ WF_vars(Next)
-----------------------------------------------------------------------------
(* Reference: the tokens of a text, without an order of extraction *)

Before(p) == Cardinality(Quotes(1, p - 1))
Outside(p) == source[p] # Backquote /\ Before(p) % 2 = 0
Opens(p) == source[p] = Backquote /\ Before(p) % 2 = 0
Closes(p) == source[p] = Backquote /\ Before(p) % 2 = 1

InWord(p) ==
  p \in 1 .. End /\ Outside(p) /\ source[p] \notin Blanks \cup Delimiters
BlockTokens ==
  {Interval(p, Min(Quotes(p + 1, End))) :
     p \in {q \in 1 .. End : Opens(q) /\ Quotes(q + 1, End) # {}}}
SignTokens ==
  {Interval(p, p) : p \in {q \in Where(Delimiters, 1, End) : Outside(q)}}
WordTokens ==
  {Interval(p, Min({q \in p .. End : ~InWord(q + 1)})) :
     p \in {q \in 1 .. End : InWord(q) /\ ~InWord(q - 1)}}
Tokens == BlockTokens \cup SignTokens \cup WordTokens

BalancedQuotes == Cardinality(Quotes(1, End)) % 2 = 0

(* the blocks with nothing between them and the previous block, or the     *)
(* start of the source                                                     *)
Skipped == {b \in BlockTokens : b.from = 1 \/ Closes(b.from - 1)}

TruePlace(p) ==
  << 1 + Cardinality(Where({Newline}, 1, p - 1)),
     p - Max(Where({Newline}, 1, p - 1) \cup {0}) >>

Extracted == pc \in {"locate", "done", "lost"}
SpansLines(i) == Where({Newline}, i.from, i.to) # {}
-----------------------------------------------------------------------------
(* Properties *)

TypeOK ==
  /\ source \in Sources
  /\ pc \in {"extract", "words", "split", "locate", "done", "lost"}
  /\ sourcePos \in 0 .. End /\ blockEnd \in 0 .. End
  /\ segment \in [from : 1 .. End + 2, to : 0 .. End]
  /\ items \in Seq([from : 1 .. End, to : 1 .. End])
  /\ \A n \in DOMAIN items : items[n].from <= items[n].to
  /\ count \in Nat /\ result \in Nat \cup {-1}
  /\ at \in 0 .. Len(items)
  /\ cursor \in 0 .. End /\ place \in (Nat \X Nat)
  /\ positions \in Seq(Nat \X Nat)

(***************************************************************************)
(* The list is in the order of the source and no character is in two       *)
(* items, while items are added, split in place and inserted.              *)
(***************************************************************************)
SourceOrder ==
  \A m, n \in DOMAIN items : m < n => items[m].to < items[n].from

(***************************************************************************)
(* prs_extractGrammarItems finds the tokens of a source with balanced      *)
(* quotes, and leaves out the blocks it takes to be at its position.       *)
(* parser.h:54: it returns the number of the items; it returns -1 only for *)
(* a block that does not end.                                              *)
(***************************************************************************)
TokensExtracted ==
  Extracted =>
    /\ BalancedQuotes => {items[n] : n \in DOMAIN items} = Tokens \ Skipped
    /\ IF result = -1 THEN ~BalancedQuotes ELSE result = Len(items)

(***************************************************************************)
(* prs_computeItemsPosition finds every item of the list, also after a     *)
(* failed extraction: main ignores its result, and an item it missed would *)
(* have a line and column that nobody set.  The place it gives is the true *)
(* one although it only knows the text of the item, which may occur        *)
(* elsewhere: when no block was left out and no item before it spans lines.*)
(***************************************************************************)
PositionsExact ==
  /\ pc # "lost" /\ (pc = "done" => Len(positions) = Len(items))
  /\ \A n \in DOMAIN positions :
       Skipped = {} /\ (\A m \in 1 .. n - 1 : ~SpansLines(items[m])) =>
         positions[n] = TruePlace(items[n].from)
=============================================================================
