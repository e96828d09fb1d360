--------------------------- MODULE MCLibraryCalls ----------------------------
EXTENDS LibraryCalls, Sequences, SequencesExt

(* Every text of up to five characters: letters, both kinds of blanks and  *)
(* the terminator.                                                         *)
MCStringTexts == BoundedSeq({"a", "space", "newline", "NUL"}, 5)

(* Streams of up to seven bytes, read three bytes at a time: lines shorter *)
(* and longer than that, and sizes that are multiples of the step.         *)
MCStreams == BoundedSeq({"x", "newline", "NUL"}, 7)

(* Texts and items of every length up to three more than the buffer has.   *)
MCTextSizes == 1 .. 6
MCItemSizes == 1 .. 6
MCBufferSizes == 1 .. 9
-----------------------------------------------------------------------------
(***************************************************************************)
(* Every text of up to four characters over letters of both cases at both  *)
(* ends of the alphabet, digits, a blank, the dash and the closing         *)
(* bracket; and two or three patterns of a catalogue, with or without a    *)
(* bracket and blanks behind them.                                         *)
(***************************************************************************)
Chars == {32, 45, 48, 57, 65, 90, 97, 122, 93}
Patterns == {<<x, 45, y>> : x, y \in {48, 57, 90, 97}} \cup {<<65, 32, 97>>, <<32, 45, 65>>}
Ends == {<<>>, <<93>>, <<32, 32, 32, 93>>}

MCRangeTexts ==
  BoundedSeq(Chars, 4)
  \cup {p \o q \o e : p, q \in Patterns, e \in Ends}
  \cup {p \o <<97, 45, 122>> \o q : p, q \in Patterns}
-----------------------------------------------------------------------------
(***************************************************************************)
(* Two grammars of a rule a and a rule b each, with productions of up to   *)
(* two items over a string, tokens of which two are equal and the others   *)
(* differ in their range or quantifier only, and references.               *)
(***************************************************************************)
Token(name, quantifier, y) ==
  [name |-> name, type |-> "FG_RANGE_TOKEN", quantifier |-> quantifier,
   value |-> <<[uppercaseLetter |-> FALSE, start |-> 97, end |-> y]>>]
MCTokens ==
  [t \in {"T", "sameT", "longerT", "optionalT"} |->
     CASE t \in {"T", "sameT"} -> Token("T", "PRS_PLUS_QUANTIFIER", 100)
       [] t = "longerT" -> Token("T", "PRS_PLUS_QUANTIFIER", 120)
       [] OTHER -> Token("T", "PRS_QMARK_QUANTIFIER", 100)]

StringItem == [type |-> "FG_STRING_ITEM", value |-> "x"]
Use(t) == [type |-> "FG_TOKEN_ITEM", value |-> t]
Ref(r) == [type |-> "FG_RULE_ITEM", value |-> r]

One(x) == << <<x>> >>
Two(x, y) == << <<x, y>> >>
Lists1 ==
  {One(Use("T")), One(StringItem), Two(StringItem, Use("T")), Two(Use("T"), StringItem),
   One(Ref(<<1, "b">>)), One(Ref(<<1, "a">>)), Two(Use("T"), Ref(<<1, "b">>)),
   Two(Ref(<<1, "b">>), Ref(<<1, "a">>)), << <<StringItem>>, <<Ref(<<1, "b">>), StringItem>> >>}
Lists2 ==
  {One(Use(t)) : t \in DOMAIN MCTokens}
  \cup {One(StringItem), Two(StringItem, Use("sameT")), Two(Use("sameT"), StringItem),
        Two(StringItem, Use("longerT")), One(Ref(<<2, "b">>)), One(Ref(<<2, "a">>)),
        Two(StringItem, Ref(<<2, "b">>)), Two(Use("sameT"), Ref(<<2, "b">>)),
        << <<Use("T")>>, <<Ref(<<2, "b">>), Use("T")>> >>}
ListsB(g) == {<< <<StringItem>> >>, << <<Use("T")>>, <<StringItem>> >>, << <<Ref(<<g, "a">>)>> >>}

Addresses == {1, 2} \X {"a", "b"}
Grammar(a1, b1, a2, b2) ==
  [r \in Addresses |->
     [name |-> r[2],
      list |-> CASE r = <<1, "a">> -> a1 [] r = <<1, "b">> -> b1
                 [] r = <<2, "a">> -> a2 [] OTHER -> b2]]
MCGrammars ==
  {Grammar(a1, b1, a2, b2) :
     a1 \in Lists1, b1 \in ListsB(1), a2 \in Lists2, b2 \in ListsB(2)}
MCCalls == { << <<1, "a">>, <<2, "a">> >>, << <<1, "a">>, <<1, "b">> >> }
=============================================================================
