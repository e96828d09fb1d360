--------------------------- MODULE ParserSessions ---------------------------
(***************************************************************************)
(* Several parses in one process, as the unit tests make them              *)
(* (test/test_parser.cpp): a new grammar after the previous one was freed, *)
(* or a second item list parsed into a grammar that already holds          *)
(* declarations.  The static error state of parser_errors.c outlives every *)
(* list.  The lists are laid end to end in "items", so that an index names *)
(* one item for ever; the items up to "base" belong to lists that the      *)
(* client has freed.                                                       *)
(***************************************************************************)
EXTENDS GrammarParser

CONSTANT MaxLists \* lists parsed in one process

VARIABLES base,   \* items of the lists already freed
          reused, \* the grammar holds declarations of a freed list
          lists   \* lists parsed so far

session == <<base, reused, lists>>
allVars == <<vars, session>>

SessionsInit == Init /\ base = 0 /\ reused = FALSE /\ lists = 1

(* the client fills a fresh list, prs_parseGrammarItems starts on it *)
LoadList ==
  /\ lists < MaxLists
  /\ lists' = lists + 1
  /\ \E source \in Sources : items' = items \o source
  /\ base' = Len(items) /\ pos' = Len(items)
  /\ entryRule' = 0
  /\ pc' = "declaration"
  /\ UNCHANGED <<decl, scratch, grammar, errItem, heap>>

(* fg_createGrammar and a first list *)
NewGrammar ==
  /\ pc = "done"
  /\ LoadList
  /\ reused' = FALSE
  /\ code' = "PRS_OK" /\ pending' = {}

(* a second list for the same grammar *)
ParseMore ==
  /\ pc = "parsed"
  /\ LoadList
  /\ reused' = TRUE
  /\ UNCHANGED <<code, pending>>

(* the symbols of a reused grammar are gone: the tests free it unresolved *)
Abandon ==
  /\ pc = "parsed" /\ reused
  /\ pc' = "clean"
  /\ UNCHANGED <<frame, pos, decl, scratch, errItem, code, heap, session>>

Run ==
  /\ \/ Parse
     \/ (pc = "parsed" => ~reused) /\ Resolve
     \/ Clean
  /\ UNCHANGED session

SessionsTerminated == pc \in {"done", "aborted"} /\ UNCHANGED allVars

SessionsNext ==
  Run \/ NewGrammar \/ ParseMore \/ Abandon \/ SessionsTerminated

SessionsSpec == SessionsInit /\ [][SessionsNext]_allVars
-----------------------------------------------------------------------------
(***************************************************************************)
(* The entry of a grammar is NULL or a rule stored in it, also after a     *)
(* second list failed or declared no rule.                                 *)
(***************************************************************************)
EntryIsStored == entry # 0 => \E n \in DOMAIN rules : rules[n].at = entry

(* DeclarationsKept of the parser, from list to list of the same grammar. *)
DeclarationsKeptAcrossLists ==
  [][pc' # "done" =>
       /\ \A n \in DOMAIN tokens :
            n \in DOMAIN tokens' /\ SameDeclaration(tokens[n], tokens'[n])
       /\ \A n \in DOMAIN rules :
            n \in DOMAIN rules' /\ SameDeclaration(rules[n], rules'[n])]_allVars

(***************************************************************************)
(* README.md:168: an error reports where it is in the given grammar.       *)
(***************************************************************************)
ErrorInThisList == pc = "failed" => errItem > base
=============================================================================
