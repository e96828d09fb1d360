----------------------------- MODULE MCPipeline -----------------------------
(***************************************************************************)
(* For the extraction: every source of up to five characters over a        *)
(* letter, a delimiter, a blank, a new line and the backquote, and longer  *)
(* ones in which blocks span lines, touch, repeat a text or do not end.    *)
(* For the parser behind it: a rule with every short right-hand side       *)
(* written with or without blanks, and every pair of declarations of a     *)
(* catalogue, valid, invalid or cut off, in one line or in two.  And the   *)
(* files that crash the program: an empty one, and a lone bracket or quote *)
(* where a value is expected.                                              *)
(***************************************************************************)
EXTENDS Pipeline, SequencesExt

B == "backquote"
N == "newline"
S == "blank"

Short == BoundedSeq({"a", "=", S, N, B}, 5)
Long ==
  { <<"%", "a", "=", "b", N, "|", B, "a", S, "b", B, ";">>,
    <<S, B, "a", N, B, S, "a", ";", "a", N, "=", "a">>,
    <<"a", "b", S, "b", B, "b", B, B, "b", B, "b">>,
    <<"a", B, S, S, B, "b", ";", S, B, "b", N, "b">>,
    <<"a", "b", "=", ";", "+", "b", S, S, "a", "b", "*", "?">> }

Pieces == {<<"A">>, <<"b">>, <<B, "x", B>>, <<B>>, <<";">>, <<"|">>, <<S>>, <<N>>}
RightSides == {FlattenSeq(s) : s \in BoundedSeq(Pieces, 3)}
Declarations ==
  { <<"%", "A", "=", B, "x", B, ";">>,
    <<"%", "A", S, "=", N, "B", "?", ";">>,
    <<"%", "B", "=", "A", S, "*", S, ";">>,
    <<"%", "b", "=", "b", "|", "A", ";">>,
    <<"%", "b", "=", B, "x", B, ";", ";">>,
    <<"%", "A", "=", B, "x">>,
    <<"%", "b", "=", "+", "A", ";">>,
    <<"%", "A", "=", "[", "a", "-", "x", "A", "-", "B", "]", "+", ";">> }

(* values that start with a bracket, one that is no value but for its      *)
(* bracket, and values cut off behind their first character                *)
Ranges ==
  { <<"[", "]">>, <<"[", "b">>, <<"[", "x", "-", "a", "]">>, <<"[", "A", "-", "a", "]">>,
    <<"[", "a", "-", "]">>, <<"[", "a", "-", "b", "x", "-", "a", "A", "=", "a", "]">>,
    <<"[", "a", "-", "b", B>>, <<"[">>, <<"%", "[">> }
Valued ==
  {<<"%", "A", "=">> \o v \o <<";">> : v \in Ranges}
  \cup {<<"%", "b", "=">> \o v \o <<";">> : v \in Ranges}
  \cup {<<"%", "b", "=", B, "x", B, ";", "%", "A", "=", B>>,
        <<"%", "b", "=", B, "x", B, "b", B>>}

MCFiles ==
  Short \cup Long
  \cup {<<"%", "b", "=">> \o s : s \in RightSides}
  \cup {d \o s \o e : d, e \in Declarations, s \in {<<>>, <<N>>}}
  \cup Valued

MCCode ==
  [a |-> 97, b |-> 98, x |-> 120, A |-> 65, B |-> 66, newline |-> 10, blank |-> 32,
   backquote |-> 96]
  @@ "%" :> 37 @@ "*" :> 42 @@ "+" :> 43 @@ "-" :> 45 @@ ";" :> 59 @@ "=" :> 61
  @@ "?" :> 63 @@ "[" :> 91 @@ "]" :> 93 @@ "|" :> 124
=============================================================================
