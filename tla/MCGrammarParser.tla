-------------------------- MODULE MCGrammarParser --------------------------
(***************************************************************************)
(* The parser on small item lists: every short continuation of a           *)
(* declaration, and every combination of up to three declarations of a     *)
(* catalogue that share names, refer to each other or fail.                *)
(***************************************************************************)
EXTENDS GrammarParser, SequencesExt

MCNames == {"A", "B", "a", "b", "-"}

Sign(kind) == [kind |-> kind, text |-> "-"]
Id(kind, text) == [kind |-> kind, text |-> text]
DeclA == Id("tokenDecl", "A")
Decla == Id("ruleDecl", "a")
Equal == Sign("equal")
End == Sign("semicolon")

Starts == {Id("upper", "A"), Id("upper", "B"), Id("lower", "a")}
          \cup {Sign(k) : k \in Kinds \ {"tokenDecl", "ruleDecl", "upper", "lower"}}
          \cup {DeclA}
Usual == {Id("upper", "B"), Sign("block"), Sign("pipe"), Sign("plus"), End}

Short == {<<d>> \o s : d \in {DeclA, Decla}, s \in BoundedSeq(Starts, 2)}
         \cup {<<d, Equal>> \o s : d \in {DeclA, Decla}, s \in BoundedSeq(Starts, 2)}
         \cup {<<d, Equal>> \o s : d \in {DeclA, Decla}, s \in BoundedSeq(Usual, 5)}
         \cup {<<i>> : i \in Starts}

Catalogue ==
  { <<DeclA, Equal, Sign("range"), Sign("star"), End>>,
    <<DeclA, Equal, Id("upper", "B"), End>>,
    <<Id("tokenDecl", "B"), Equal, Sign("block"), End>>,
    <<Id("tokenDecl", "B"), Equal, Sign("block"), Sign("qmark")>>,
    <<Decla, Equal, Id("lower", "b"), Sign("block"), Sign("pipe"),
      Id("upper", "A"), End>>,
    <<Decla, Equal, Id("upper", "B"), Id("lower", "a"), Sign("pipe"),
      Id("lower", "b"), End>>,
    <<Id("ruleDecl", "b"), Equal, Sign("block"), Sign("pipe"), End>>,
    <<Id("ruleDecl", "b"), Equal, Id("lower", "a"), Sign("plus"), End>> }

MCSources == Short \cup {<<>>}
             \cup {FlattenSeq(ds) : ds \in BoundedSeq(Catalogue, 3)}
=============================================================================
