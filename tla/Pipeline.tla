------------------------------ MODULE Pipeline ------------------------------
(***************************************************************************)
(* main (main.c): the source is read, its items are extracted and located  *)
(* (module ItemExtraction), parsed, resolved, and an error is reported     *)
(* (module GrammarParser).  Neither the result of prs_extractGrammarItems  *)
(* nor that of prs_computeItemsPosition is looked at.  Handing the items   *)
(* over, Item gives each the kind by which the parser tells it from        *)
(* others, and its text.  The terminator that prs_readGrammar writes       *)
(* behind the buffer of some files (module ReadGrammar) is taken to do no  *)
(* harm here, but for the empty file.                                      *)
(***************************************************************************)
EXTENDS Integers, Sequences, FiniteSets

CONSTANTS Files, \* contents of a grammar file, sequences of characters
          Code   \* the code of each character in them

ASSUME FilesAssumption == \A f \in Files : f \in Seq(STRING)
ASSUME CodeAssumption ==
  \A f \in Files : \A p \in DOMAIN f : f[p] \in DOMAIN Code /\ Code[f[p]] \in Nat

VARIABLES
  stage, \* "read", "extract", "parse", "exit" or "crashed"
  \* of ItemExtraction
  source, extractPc, sourcePos, segment, blockEnd, stringItems, count, result,
  at, cursor, place, positions,
  \* of GrammarParser
  items, pos, pc, decl, token, rule, production, tokens, rules, entry,
  entryRule, pending, errItem, code, heap

extraction == <<source, extractPc, sourcePos, segment, blockEnd, stringItems, count,
                result, at, cursor, place, positions>>
parsing == <<pos, pc, decl, token, rule, production, tokens, rules, entry,
             entryRule, pending, errItem, code, heap>>
vars == <<stage, extraction, items, parsing>>

(* every text an item of a file may have *)
Texts == UNION {{SubSeq(f, a, b) : a, b \in DOMAIN f} : f \in Files}

E == INSTANCE ItemExtraction WITH Sources <- Files, pc <- extractPc, items <- stringItems
P == INSTANCE GrammarParser WITH Sources <- {<<>>}, Names <- Texts
R == INSTANCE RangePatterns

Init ==
  /\ stage = "read"
  /\ E!Init
  /\ P!Init
-----------------------------------------------------------------------------
(* The kind of an item is what the parser finds out of its characters. *)

IsUpper(c) == Code[c] \in R!Upper
IsLower(c) == Code[c] \in R!Lower

(* prs_parseGrammarItems *)
DeclarationKind(text) ==
  CASE Len(text) > 1 /\ IsUpper(text[2]) -> "tokenDecl"
    [] Len(text) > 1 /\ IsLower(text[2]) -> "ruleDecl"
    [] OTHER -> "other"

(* fg_extractPRItem, and fg_extractToken for the length *)
BlockKind(text) ==
  CASE Len(text) = 1 -> "loneQuote"
    [] Len(text) > 1 /\ \A p \in 2 .. Len(text) : text[p] # E!Backquote -> "openBlock"
    [] Len(text) = 2 /\ text[2] = E!Backquote -> "emptyBlock"
    [] OTHER -> "block"

(***************************************************************************)
(* What prs_extractRanges answers to fg_extractToken, that gives it the    *)
(* characters between the first one and the last, whatever that is.        *)
(***************************************************************************)
RangeKind(text) ==
  LET answer == R!SolidCode([k \in 1 .. Len(text) - 2 |-> Code[text[k + 1]]]) IN
  CASE Len(text) = 1 -> "loneBracket"
    [] Len(text) = 2 -> "emptyRange"
    [] Len(text) > 2 /\ answer = "PRS_OK" -> "range"
    [] OTHER -> answer

(* the first character tells the others *)
SignKind(first) ==
  CASE IsUpper(first) -> "upper"
    [] IsLower(first) -> "lower"
    [] first = "=" -> "equal"
    [] first = ";" -> "semicolon"
    [] first = "|" -> "pipe"
    [] first = "+" -> "plus"
    [] first = "?" -> "qmark"
    [] first = "*" -> "star"
    [] OTHER -> "other"

KindOf(text) ==
  CASE text[1] = "%" -> DeclarationKind(text)
    [] text[1] = E!Backquote -> BlockKind(text)
    [] text[1] = "[" -> RangeKind(text)
    [] OTHER -> SignKind(text[1])

(* a declaration's name is the text behind its '%' *)
Item(i) ==
  LET text == SubSeq(source, i.from, i.to)
      kind == KindOf(text)
  IN  [kind |-> kind,
       text |-> IF kind \in {"tokenDecl", "ruleDecl"} THEN Tail(text) ELSE text]

ReadFile ==
  /\ stage = "read" /\ source # <<>>
  /\ stage' = "extract"
  /\ UNCHANGED <<extraction, items, parsing>>

(* fopen or prs_readGrammar fails *)
ReadFails ==
  /\ stage = "read"
  /\ stage' = "exit"
  /\ UNCHANGED <<extraction, items, parsing>>

(* without a line to read, the terminator is written through NULL *)
ReadNothing ==
  /\ stage = "read" /\ source = <<>>
  /\ stage' = "crashed"
  /\ UNCHANGED <<extraction, items, parsing>>

ExtractItems ==
  /\ stage = "extract"
  /\ E!Extract
  /\ UNCHANGED <<stage, items, parsing>>

BeginParsing ==
  /\ stage = "extract" /\ extractPc \in {"done", "lost"}
  /\ items' = [n \in DOMAIN stringItems |-> Item(stringItems[n])]
  /\ stage' = "parse"
  /\ UNCHANGED <<extraction, parsing>>

ParseItems ==
  /\ stage = "parse"
  /\ P!Parse \/ P!Resolve \/ P!Clean
  /\ UNCHANGED <<stage, extraction>>

Exit ==
  /\ stage = "parse" /\ pc = "done"
  /\ stage' = "exit"
  /\ UNCHANGED <<extraction, items, parsing>>

(* also by a signal: of NULL, of an assertion or of memory run over *)
Exited ==
  /\ \/ stage \in {"exit", "crashed"}
     \/ stage = "parse" /\ pc = "aborted"
  /\ UNCHANGED vars

Next ==
  \/ ReadFile \/ ReadFails \/ ReadNothing \/ ExtractItems \/ BeginParsing \/ ParseItems \/ Exit
  \/ Exited

Spec == Init /\ [][Next]_vars /\ WF_vars(Next)
-----------------------------------------------------------------------------
(* the names the words of the source declare, outside of its blocks *)
Declared ==
  {SubSeq(source, w.from + 1, w.to) : w \in {v \in E!WordTokens : source[v.from] = "%"}}
DeclaredTokens == {n \in Declared : n # <<>> /\ IsUpper(n[1])}
DeclaredRules == {n \in Declared : n # <<>> /\ IsLower(n[1])}

(* The variables of the extraction keep their types (those of the parser   *)
(* are checked in its own run): an item is never empty, and the stages of  *)
(* the program do not overlap.                                             *)
TypeOK ==
  /\ stage \in {"read", "extract", "parse", "exit", "crashed"}
  /\ E!TypeOK
  /\ stage \in {"read", "crashed"} => extractPc = "extract" /\ stringItems = <<>>
  /\ stage \in {"read", "extract", "crashed"} => pc = "declaration" /\ heap = {}

(* The list of items is in the order of the source, none overlaps another, *)
(* while the iterator of prs_splitDelimiters walks the list it changes.    *)
SourceOrder == E!SourceOrder

(* The items are the tokens of the source, and they are counted. *)
TokensExtracted == E!TokensExtracted

(* The lines and columns found are those of the items. *)
PositionsExact == E!PositionsExact

(***************************************************************************)
(* From end to end: when the program accepts a source whose quotes are     *)
(* balanced, every declaration written in it is in the grammar, under its  *)
(* name and in the table of its kind, and nothing else is.                 *)
(***************************************************************************)
EveryDeclarationStored ==
  pc = "resolved" /\ E!BalancedQuotes =>
    /\ DOMAIN tokens = DeclaredTokens /\ DOMAIN rules = DeclaredRules
    /\ Declared = DeclaredTokens \cup DeclaredRules

(***************************************************************************)
(* From end to end: the line and column of the error message are those of  *)
(* the item the parser or the resolver found wrong, when no block was left *)
(* out and no item in front of it spans lines.  Lines and columns count    *)
(* from 1 as parser.c:184-185 does, not from 0 as in README.md:170-181.    *)
(* The symbol the resolver stops at is declared nowhere in the source.     *)
(***************************************************************************)
ErrorPlaceTrue ==
  pc \in {"failed", "unresolved"} =>
    /\ errItem \in DOMAIN items
    /\ E!Skipped = {} /\ (\A n \in 1 .. errItem - 1 : ~E!SpansLines(stringItems[n])) =>
         /\ errItem \in DOMAIN positions
         /\ positions[errItem] = E!TruePlace(stringItems[errItem].from)
    /\ pc = "unresolved" /\ E!BalancedQuotes => items[errItem].text \notin Declared

(***************************************************************************)
(* The files with which the program does not end in a crash: the empty one *)
(* does (parser.c:174), a lone bracket may where a value is expected       *)
(* (formal_grammar.c:88: an assertion fails), and so may a backquote that  *)
(* opens a block at the very end (formal_grammar.c:77-79).                 *)
(***************************************************************************)
Processable ==
  /\ source # <<>>
  /\ \A w \in E!WordTokens : source[w.from] = "[" => w.from < w.to
  /\ E!BalancedQuotes \/ source[E!End] # E!Backquote

=============================================================================
