-------------------------- MODULE GrammarLanguage --------------------------
(***************************************************************************)
(* What a grammar file is, one declaration at a time: the promise that     *)
(* prs_parseGrammarItems keeps.  A declaration is judged as a whole        *)
(* segment of the item list and read in one step; the parser of module     *)
(* GrammarParser finds the same verdict item by item.  A segment is given  *)
(* by the number s of the items before it and the index e of its last      *)
(* item.                                                                   *)
(*                                                                         *)
(* This is the language of the code, which is not the one documented:      *)
(* - the documents end a block with a backtick (README.md:76); the value   *)
(*   of a token may be a block without its end (kind "openBlock");         *)
(* - README.md:70-82 gives rules the same values as tokens, ranges and     *)
(*   quantified ones included; rules have neither;                         *)
(* - parser.h:85 asks for one declaration or more; the empty list is       *)
(*   accepted.                                                             *)
(* At a value that aborts the parser (its kinds Fatal) there is no verdict.*)
(***************************************************************************)
EXTENDS Naturals, Sequences

VARIABLES items,      \* the item list
          consumed,   \* items that belong to the declarations read so far
          tokenNames, \* names declared as tokens
          ruleNames,  \* names declared as rules
          verdict     \* "reading", "accepted" or "rejected"

vars == <<items, consumed, tokenNames, ruleNames, verdict>>

KindAt(i) == items[i].kind
Name(s) == items[s + 1].text

(* "%NAME = value ;" or "%NAME = value quantifier ;", value not NAME itself *)
IsToken(s, e) ==
  /\ e \in {s + 4, s + 5} /\ e <= Len(items)
  /\ KindAt(s + 1) = "tokenDecl" /\ KindAt(s + 2) = "equal"
  /\ \/ KindAt(s + 3) \in {"block", "emptyBlock", "openBlock", "range",
                           "emptyRange"}
     \/ KindAt(s + 3) = "upper" /\ items[s + 3].text # Name(s)
  /\ e = s + 5 => KindAt(s + 4) \in {"plus", "qmark", "star"}
  /\ KindAt(e) = "semicolon"

(* "%name = items | items ... ;": no empty alternative but the last *)
IsRule(s, e) ==
  /\ e >= s + 4 /\ e <= Len(items)
  /\ KindAt(s + 1) = "ruleDecl" /\ KindAt(s + 2) = "equal"
  /\ \A i \in (s + 3)..(e - 1) :
       KindAt(i) \in {"block", "upper", "lower", "pipe"}
  /\ \A i \in (s + 2)..(e - 2) :
       KindAt(i + 1) = "pipe" => KindAt(i) \notin {"equal", "pipe"}
  /\ KindAt(e) = "semicolon"

ReadToken(e) ==
  /\ verdict = "reading"
  /\ IsToken(consumed, e)
  /\ Name(consumed) \notin tokenNames
  /\ consumed' = e
  /\ tokenNames' = tokenNames \cup {Name(consumed)}
  /\ UNCHANGED <<items, ruleNames, verdict>>

ReadRule(e) ==
  /\ verdict = "reading"
  /\ IsRule(consumed, e)
  /\ Name(consumed) \notin ruleNames
  /\ consumed' = e
  /\ ruleNames' = ruleNames \cup {Name(consumed)}
  /\ UNCHANGED <<items, tokenNames, verdict>>

Accept ==
  /\ verdict = "reading" /\ consumed = Len(items)
  /\ verdict' = "accepted"
  /\ UNCHANGED <<items, consumed, tokenNames, ruleNames>>

(* there are items left and no new declaration starts with them *)
Reject ==
  /\ verdict = "reading" /\ consumed < Len(items)
  /\ \A e \in 1..Len(items) :
       /\ IsToken(consumed, e) => Name(consumed) \in tokenNames
       /\ IsRule(consumed, e) => Name(consumed) \in ruleNames
  /\ verdict' = "rejected"
  /\ UNCHANGED <<items, consumed, tokenNames, ruleNames>>

(* the grammar is freed *)
Discard ==
  /\ verdict # "reading"
  /\ tokenNames' = {} /\ ruleNames' = {}
  /\ UNCHANGED <<items, consumed, verdict>>

Init ==
  /\ consumed = 0
  /\ tokenNames = {} /\ ruleNames = {}
  /\ verdict = "reading"

Next ==
  \/ \E e \in 1..Len(items) : ReadToken(e) \/ ReadRule(e)
  \/ Accept \/ Reject \/ Discard

Spec == Init /\ [][Next]_vars
=============================================================================
