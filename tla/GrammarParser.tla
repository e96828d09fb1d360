--------------------------- MODULE GrammarParser ---------------------------
(***************************************************************************)
(* The parser proper: prs_parseGrammarItems and prs_resolveSymbols         *)
(* (parser.c), the extraction functions they call (formal_grammar.c), the  *)
(* error state they set (parser_errors.c) and the order in which main      *)
(* calls, reports and frees (main.c).                                      *)
(*                                                                         *)
(* An item of the list is abstracted to what the code tests: the class of  *)
(* its first characters ("kind") and the identifier it carries ("text").   *)
(* A pointer to an item is its index in the list, 0 is NULL.  The heap is  *)
(* the set of blocks allocated and not yet freed; a block is named by the  *)
(* kind of structure it holds and the item it was allocated for, and a     *)
(* pointer field that owns memory is the set of the blocks it points to    *)
(* ({} is NULL).  The two hash tables are maps from a name to the          *)
(* structure stored under it (module HashTable models the table itself).   *)
(***************************************************************************)
EXTENDS Naturals, Sequences

CONSTANTS Names,    \* identifiers that occur in the source
          Sources   \* item lists the parser may be given

RangeErrors == {"PRS_INVALID_CHAR_RANGE", "PRS_INVALID_RANGE",
                "PRS_INVALID_RANGE_PATTERN"}
Blocks == {"block", "emptyBlock", "openBlock"}
Quantifiers == {"plus", "qmark", "star"}
Fatal == {"loneBracket", "loneQuote"}

(***************************************************************************)
(* tokenDecl is "%A...", ruleDecl "%a...", upper and lower an identifier;  *)
(* block is a string block, emptyBlock is "``", openBlock a block without  *)
(* its closing mark; range is a bracket item prs_extractRanges accepts,    *)
(* emptyRange is "[]", an item of a kind in RangeErrors is a bracket item  *)
(* it refuses with that code; star is any item that starts with '*'.  The  *)
(* two kinds in Fatal are "[" and "`" alone: their length less two wraps.  *)
(***************************************************************************)
Kinds == {"tokenDecl", "ruleDecl", "upper", "lower", "range", "emptyRange",
          "equal", "semicolon", "pipe", "other"}
           \cup Blocks \cup Quantifiers \cup RangeErrors \cup Fatal
Items == [kind: Kinds, text: Names]

ASSUME SourcesAssumption == Sources \subseteq Seq(Items)

VARIABLES
  items,      \* the list of items
  pos,        \* items the iterator has returned so far
  pc,         \* control point
  decl,       \* stringItem of prs_parseGrammarItems: the declaration's name
  token,      \* the fg_Token under construction
  rule,       \* the fg_Rule under construction
  production, \* the production rule under construction
  tokens,     \* g->tokens
  rules,      \* g->rules
  entry,      \* g->entry
  entryRule,  \* local of prs_parseGrammarItems
  pending,    \* names the resolver's hash table iterator has still to return
  errItem,    \* _currentState.stringItem
  code,       \* the error code returned
  heap        \* blocks allocated and not freed

grammar == <<tokens, rules, entry>>
scratch == <<token, rule, production>>
frame == <<items, grammar, entryRule, pending>> \* what extracting leaves alone
vars == <<items, pos, pc, decl, token, rule, production, tokens, rules,
          entry, entryRule, pending, errItem, code, heap>>
-----------------------------------------------------------------------------
(* Structures and the blocks they own                                      *)

ZeroToken(at) == [at |-> at, name |-> {}, type |-> "FG_RANGE_TOKEN",
                  value |-> {}, symbol |-> 0, ref |-> 0,
                  quantifier |-> "PRS_NO_QUANTIFIER"]
EmptyRule(at) == [at |-> at, name |-> {}, list |-> <<>>]
EmptyProduction(at) == [at |-> at, items |-> <<>>]
NoToken == ZeroToken(0)
NoRule == EmptyRule(0)
NoProduction == EmptyProduction(0)
EmptyTable == [n \in {} |-> NoToken]

Struct(site, at) == IF at = 0 THEN {} ELSE {<<site, at>>}

TokenContents(t) == t.name \cup t.value
TokenBlocks(t) == Struct("token", t.at) \cup TokenContents(t)

PRItemBlocks(x) == Struct("prItem", x.at) \cup x.value
PRItemsBlocks(xs) == UNION {PRItemBlocks(xs[i]) : i \in DOMAIN xs}
ProductionBlocks(p) == Struct("production", p.at) \cup PRItemsBlocks(p.items)
RuleContents(r) ==
  r.name \cup UNION {ProductionBlocks(r.list[i]) : i \in DOMAIN r.list}
RuleBlocks(r) == Struct("rule", r.at) \cup RuleContents(r)

Insert(table, name, value) ==
  [n \in DOMAIN table \cup {name} |-> IF n = name THEN value ELSE table[n]]
-----------------------------------------------------------------------------
(* The iterator over the item list *)

AtEnd == pos = Len(items)
NextIs(kinds) == ~AtEnd /\ items[pos + 1].kind \in kinds
(* Faulty variant: expectCharFromIt without ll_iteratorHasNext. *)
AdvanceUnchecked == pos' = pos + 1

Advance == pos' = IF AtEnd THEN pos ELSE pos + 1
Text(i) == items[i].text

Init ==
  /\ items \in Sources
  /\ pos = 0 /\ decl = 0 /\ pc = "declaration"
  /\ token = NoToken /\ rule = NoRule /\ production = NoProduction
  /\ tokens = EmptyTable /\ rules = EmptyTable
  /\ entry = 0 /\ entryRule = 0
  /\ pending = {}
  /\ errItem = 0 /\ code = "PRS_OK"
  /\ heap = {}
-----------------------------------------------------------------------------
(* prs_parseGrammarItems: one declaration per turn of the loop *)

DeclarationsEnd ==
  /\ pc = "declaration" /\ AtEnd
  /\ entry' = entryRule
  /\ pc' = "parsed"
  /\ UNCHANGED <<items, pos, decl, scratch, tokens, rules, entryRule, pending,
                 errItem, code, heap>>

(* Faulty variant: an unknown item ends the loop. *)
UnknownItemEnds ==
  /\ pc = "declaration" /\ ~AtEnd /\ ~NextIs({"tokenDecl", "ruleDecl"})
  /\ entry' = entryRule
  /\ pc' = "parsed"
  /\ UNCHANGED <<items, pos, decl, scratch, tokens, rules, entryRule, pending,
                 errItem, code, heap>>

UnknownItem ==
  /\ pc = "declaration" /\ ~AtEnd /\ ~NextIs({"tokenDecl", "ruleDecl"})
  /\ pos' = pos + 1
  /\ decl' = pos + 1
  /\ errItem' = pos + 1
  /\ code' = "PRS_UNKNOWN_ITEM"
  /\ pc' = "failed"
  /\ UNCHANGED <<frame, scratch, heap>>

BeginToken ==
  /\ pc = "declaration" /\ NextIs({"tokenDecl"})
  /\ pos' = pos + 1
  /\ decl' = pos + 1
  /\ token' = [ZeroToken(pos + 1) EXCEPT !.name = {<<"tokenName", pos + 1>>}]
  /\ heap' = heap \cup TokenBlocks(token')
  /\ pc' = "tokenEqual"
  /\ UNCHANGED <<frame, rule, production, errItem, code>>

BeginRule ==
  /\ pc = "declaration" /\ NextIs({"ruleDecl"})
  /\ pos' = pos + 1
  /\ decl' = pos + 1
  /\ rule' = [EmptyRule(pos + 1) EXCEPT !.name = {<<"ruleName", pos + 1>>}]
  /\ heap' = heap \cup RuleBlocks(rule')
  /\ pc' = "ruleEqual"
  /\ UNCHANGED <<frame, token, production, errItem, code>>
-----------------------------------------------------------------------------
(* fg_extractToken *)

(* Faulty variant: fg_freeToken without its memset. *)
FreeTokenUnzeroed ==
  /\ token' = token
  /\ heap' = heap \ TokenContents(token)

(* fg_freeToken: frees what the token owns and zeroes it *)
FreeTokenContents ==
  /\ token' = ZeroToken(token.at)
  /\ heap' = heap \ TokenContents(token)

RejectToken(c) ==
  /\ FreeTokenContents
  /\ code' = c
  /\ pc' = "tokenFailed"

TokenEqual ==
  /\ pc = "tokenEqual"
  /\ Advance
  /\ \/ NextIs({"equal"}) /\ pc' = "tokenValue" /\ UNCHANGED code
     \/ ~NextIs({"equal"}) /\ pc' = "tokenFailed" /\ code' = "FG_TOKEN_INVALID"
  /\ UNCHANGED <<frame, decl, scratch, errItem, heap>>

AcceptValue(type, blocks, symbol) ==
  /\ token' = [token EXCEPT !.type = type, !.value = blocks,
                            !.symbol = symbol]
  /\ heap' = heap \cup blocks
  /\ pc' = "tokenEnd"
  /\ UNCHANGED code

(***************************************************************************)
(* For "[" prs_extractRanges gets no memory and an assertion of            *)
(* str_removeWhitespaces ends the program; for "`" strncpy fills memory    *)
(* with zeros far beyond the block.  Nothing is returned or freed.         *)
(***************************************************************************)
AbortOn(kind) ==
  kind \in Fatal /\ pc' = "aborted" /\ UNCHANGED <<token, heap, code>>

ExtractValue(kind, i) ==
  \/ /\ kind \in Blocks
     /\ AcceptValue("FG_STRING_TOKEN", {<<"tokenString", decl>>}, 0)
  \/ /\ kind = "range"
     /\ AcceptValue("FG_RANGE_TOKEN", {<<"tokenRanges", decl>>}, 0)
  \/ kind = "emptyRange" /\ AcceptValue("FG_RANGE_TOKEN", {}, 0)
  \/ kind \in RangeErrors /\ RejectToken(kind)
  \/ /\ kind = "upper" /\ Text(i) # Text(decl)
     /\ AcceptValue("FG_REF_TOKEN", {}, i)
  \/ kind = "upper" /\ Text(i) = Text(decl) /\ RejectToken("FG_TOKEN_SELF_REF")
  \/ kind = "semicolon" /\ RejectToken("FG_TOKEN_MISSING_VALUE")
  \/ AbortOn(kind)
  \/ /\ kind \notin Blocks \cup RangeErrors \cup Fatal
                      \cup {"range", "emptyRange", "upper", "semicolon"}
     /\ RejectToken("FG_TOKEN_UNKNOWN_VALUE_TYPE")

TokenValue ==
  /\ pc = "tokenValue"
  /\ Advance
  /\ \/ AtEnd /\ RejectToken("FG_TOKEN_MISSING_VALUE")
     \/ ~AtEnd /\ ExtractValue(items[pos + 1].kind, pos + 1)
  /\ UNCHANGED <<frame, decl, rule, production, errItem>>

(***************************************************************************)
(* The enumeration has no negative member, so the build gives it an        *)
(* unsigned type: "quantifier >= 0" always holds and the initial -1 is     *)
(* stored when the declaration has no quantifier.                          *)
(***************************************************************************)
QuantifierOf(kind) ==
  CASE kind = "plus"  -> "PRS_PLUS_QUANTIFIER"
    [] kind = "qmark" -> "PRS_QMARK_QUANTIFIER"
    [] kind = "star"  -> "PRS_STAR_QUANTIFIER"
    [] OTHER          -> "UINT_MAX"

EndToken(kind) ==
  /\ token' = [token EXCEPT !.quantifier = QuantifierOf(kind)]
  /\ pc' = "tokenStore"
  /\ UNCHANGED <<heap, code>>

TokenEnd ==
  /\ pc = "tokenEnd"
  /\ Advance
  /\ \/ AtEnd /\ RejectToken("FG_TOKEN_MISSING_END")
     \/ NextIs({"semicolon"}) /\ EndToken("semicolon")
     \/ /\ NextIs(Quantifiers)
        /\ pc' = "tokenSemicolon"
        /\ UNCHANGED <<token, heap, code>>
     \/ /\ ~AtEnd /\ ~NextIs(Quantifiers \cup {"semicolon"})
        /\ RejectToken("FG_RULE_MISSING_END")
  /\ UNCHANGED <<frame, decl, rule, production, errItem>>

TokenSemicolon ==
  /\ pc = "tokenSemicolon"
  /\ Advance
  /\ \/ NextIs({"semicolon"}) /\ EndToken(items[pos].kind)
     \/ /\ ~NextIs({"semicolon"})
        /\ code' = "FG_TOKEN_MISSING_END"
        /\ pc' = "tokenFailed"
        /\ UNCHANGED <<token, heap>>
  /\ UNCHANGED <<frame, decl, rule, production, errItem>>
-----------------------------------------------------------------------------
(* prs_parseGrammarItems, after fg_extractToken *)

FailToken ==
  /\ heap' = heap \ TokenBlocks(token)
  /\ token' = NoToken
  /\ errItem' = decl
  /\ pc' = "failed"

TokenFailed ==
  /\ pc = "tokenFailed"
  /\ FailToken
  /\ UNCHANGED <<frame, pos, decl, rule, production, code>>

TokenExists ==
  /\ pc = "tokenStore" /\ Text(decl) \in DOMAIN tokens
  /\ FailToken
  /\ code' = "FG_TOKEN_EXISTS"
  /\ UNCHANGED <<frame, pos, decl, rule, production>>

(* Faulty variant: ht_getValue is not asked first. *)
StoreTokenUnasked ==
  /\ pc = "tokenStore"
  /\ tokens' = Insert(tokens, Text(decl), token)
  /\ token' = NoToken
  /\ pc' = "declaration"
  /\ UNCHANGED <<items, pos, decl, rule, production, rules, entry, entryRule,
                 pending, errItem, code, heap>>

StoreToken ==
  /\ pc = "tokenStore" /\ Text(decl) \notin DOMAIN tokens
  /\ tokens' = Insert(tokens, Text(decl), token)
  /\ token' = NoToken
  /\ pc' = "declaration"
  /\ UNCHANGED <<items, pos, decl, rule, production, rules, entry, entryRule,
                 pending, errItem, code, heap>>
-----------------------------------------------------------------------------
(* fg_extractRule, fg_extractProductionRule and fg_extractPRItem *)

(* fg_freeRule: frees what rule r owns and empties it *)
FreeRuleContents(r) ==
  /\ rule' = EmptyRule(r.at)
  /\ heap' = heap \ RuleContents(r)

RuleEqual ==
  /\ pc = "ruleEqual"
  /\ Advance
  /\ \/ NextIs({"equal"}) /\ pc' = "production" /\ UNCHANGED code
     \/ ~NextIs({"equal"}) /\ pc' = "ruleFailed" /\ code' = "FG_RULE_INVALID"
  /\ UNCHANGED <<frame, decl, scratch, errItem, heap>>

(* Faulty variant: the end of the list is taken for the rule's semicolon. *)
EndRuleUnended(list, hasEnd) ==
  /\ rule' = [rule EXCEPT !.list = list]
  /\ pc' = "ruleStore"
  /\ UNCHANGED <<heap, code>>

(* the end of fg_extractRule, once its loop has extracted "list" *)
EndRule(list, hasEnd) ==
  LET extracted == [rule EXCEPT !.list = list] IN
  \/ /\ list = <<>>
     /\ FreeRuleContents(extracted)
     /\ code' = "FG_RULE_EMPTY" /\ pc' = "ruleFailed"
  \/ /\ list # <<>> /\ ~hasEnd
     /\ FreeRuleContents(extracted)
     /\ code' = "FG_RULE_MISSING_END" /\ pc' = "ruleFailed"
  \/ /\ list # <<>> /\ hasEnd
     /\ rule' = extracted
     /\ pc' = "ruleStore"
     /\ UNCHANGED <<heap, code>>

(* the head of fg_extractRule's loop *)
BeginProduction ==
  /\ pc = "production"
  /\ Advance
  /\ \/ AtEnd /\ EndRule(rule.list, FALSE) /\ UNCHANGED production
     \/ NextIs({"semicolon"}) /\ EndRule(rule.list, TRUE) /\ UNCHANGED production
     \/ /\ ~AtEnd /\ ~NextIs({"semicolon"})
        /\ production' = EmptyProduction(pos + 1)
        /\ heap' = heap \cup Struct("production", pos + 1)
        /\ pc' = "prItem"
        /\ UNCHANGED <<rule, code>>
  /\ UNCHANGED <<frame, decl, token, errItem>>

PRItem(i) ==
  LET kind == items[i].kind IN
  [at |-> i,
   type |-> CASE kind = "block" -> "FG_STRING_ITEM"
              [] kind = "lower" -> "FG_RULE_ITEM"
              [] OTHER          -> "FG_TOKEN_ITEM",
   value |-> IF kind = "block" THEN {<<"prString", i>>} ELSE {},
   symbol |-> IF kind = "block" THEN 0 ELSE i,
   ref |-> 0]

PRItemError(kind) ==
  CASE kind \in {"openBlock", "loneQuote"} -> "FG_STRING_BLOCK_MISSING_END"
    [] kind = "emptyBlock" -> "FG_STRING_BLOCK_EMPTY"
    [] OTHER -> "FG_PRITEM_UNKNOWN_TYPE"

(* one turn of fg_extractProductionRule's loop; items[pos] is the current item *)
ExtractPRItem ==
  /\ pc = "prItem" /\ items[pos].kind \in {"block", "upper", "lower"}
  /\ production' = [production EXCEPT !.items = Append(@, PRItem(pos))]
  /\ heap' = heap \cup PRItemBlocks(PRItem(pos))
  /\ Advance
  /\ pc' = IF AtEnd THEN "productionEnd" ELSE "prItem"
  /\ UNCHANGED <<frame, decl, token, rule, errItem, code>>

RejectPRItem ==
  /\ pc = "prItem"
  /\ items[pos].kind \notin {"block", "upper", "lower", "pipe", "semicolon"}
  /\ errItem' = pos
  /\ code' = PRItemError(items[pos].kind)
  /\ heap' = heap \ PRItemsBlocks(production.items)
  /\ production' = EmptyProduction(production.at)
  /\ pc' = "productionFailed"
  /\ UNCHANGED <<frame, pos, decl, token, rule>>

EmptyProductionRule ==
  /\ pc = "prItem" /\ items[pos].kind \in {"pipe", "semicolon"}
  /\ production.items = <<>>
  /\ code' = "FG_PR_EMPTY"
  /\ pc' = "productionFailed"
  /\ UNCHANGED <<frame, pos, decl, scratch, errItem, heap>>

ProductionFailed ==
  /\ pc = "productionFailed"
  /\ rule' = EmptyRule(rule.at)
  /\ heap' = heap \ (RuleContents(rule) \cup Struct("production", production.at))
  /\ production' = NoProduction
  /\ pc' = "ruleFailed"
  /\ UNCHANGED <<frame, pos, decl, token, errItem, code>>

(* the production rule is complete: it joins the rule's list *)
PushProduction ==
  /\ production.items # <<>>
  /\ production' = NoProduction
  /\ LET list == Append(rule.list, production) IN
     \/ /\ pc = "prItem" /\ items[pos].kind = "semicolon"
        /\ EndRule(list, TRUE)
     \/ /\ pc = "prItem" /\ items[pos].kind = "pipe"
        /\ rule' = [rule EXCEPT !.list = list]
        /\ pc' = "production"
        /\ UNCHANGED <<heap, code>>
     \/ pc = "productionEnd" /\ EndRule(list, FALSE)
  /\ UNCHANGED <<frame, pos, decl, token, errItem>>
-----------------------------------------------------------------------------
(* prs_parseGrammarItems, after fg_extractRule *)

(* Faulty variant: the error state of the production rule item is lost. *)
RuleFailedUnconditionally ==
  /\ pc = "ruleFailed"
  /\ heap' = heap \ RuleBlocks(rule)
  /\ rule' = NoRule
  /\ errItem' = decl
  /\ pc' = "failed"
  /\ UNCHANGED <<frame, pos, decl, token, production, code>>

RuleFailed ==
  /\ pc = "ruleFailed"
  /\ heap' = heap \ RuleBlocks(rule)
  /\ rule' = NoRule
  /\ errItem' = IF errItem = 0 THEN decl ELSE errItem
  /\ pc' = "failed"
  /\ UNCHANGED <<frame, pos, decl, token, production, code>>

(* Faulty variant: the rule that is refused is not freed. *)
RuleExistsUnfreed ==
  /\ pc = "ruleStore" /\ Text(decl) \in DOMAIN rules
  /\ rule' = NoRule
  /\ errItem' = decl
  /\ code' = "FG_RULE_EXISTS"
  /\ pc' = "failed"
  /\ UNCHANGED <<frame, pos, decl, token, production, heap>>

RuleExists ==
  /\ pc = "ruleStore" /\ Text(decl) \in DOMAIN rules
  /\ heap' = heap \ RuleBlocks(rule)
  /\ rule' = NoRule
  /\ errItem' = decl
  /\ code' = "FG_RULE_EXISTS"
  /\ pc' = "failed"
  /\ UNCHANGED <<frame, pos, decl, token, production>>

(* Faulty variant: every rule becomes the entry rule. *)
StoreRuleAsEntry ==
  /\ pc = "ruleStore" /\ Text(decl) \notin DOMAIN rules
  /\ rules' = Insert(rules, Text(decl), rule)
  /\ rule' = NoRule
  /\ entryRule' = rule.at
  /\ pc' = "declaration"
  /\ UNCHANGED <<items, pos, decl, token, production, tokens, entry, pending,
                 errItem, code, heap>>

StoreRule ==
  /\ pc = "ruleStore" /\ Text(decl) \notin DOMAIN rules
  /\ rules' = Insert(rules, Text(decl), rule)
  /\ rule' = NoRule
  /\ entryRule' = IF entryRule = 0 THEN rule.at ELSE entryRule
  /\ pc' = "declaration"
  /\ UNCHANGED <<items, pos, decl, token, production, tokens, entry, pending,
                 errItem, code, heap>>
-----------------------------------------------------------------------------
(* prs_resolveSymbols; the order of the hash table's iterator is arbitrary *)

StartResolving ==
  /\ pc = "parsed"
  /\ pending' = DOMAIN tokens
  /\ pc' = "resolveTokens"
  /\ UNCHANGED <<items, pos, decl, scratch, grammar, entryRule, errItem, code,
                 heap>>

(* Faulty variant: ht_iteratorNext does not move on. *)
IteratorStays(n) == n \in pending /\ UNCHANGED pending

(* ht_iteratorNext returns the pair of name n *)
IteratorNext(n) == n \in pending /\ pending' = pending \ {n}

ResolveToken(n) ==
  LET t == tokens[n] IN
  /\ pc = "resolveTokens" /\ IteratorNext(n)
  /\ \/ t.type # "FG_REF_TOKEN" /\ UNCHANGED <<tokens, errItem, code, pc>>
     \/ /\ t.type = "FG_REF_TOKEN" /\ Text(t.symbol) \in DOMAIN tokens
        /\ tokens' = [tokens EXCEPT ![n].ref = tokens[Text(t.symbol)].at]
        /\ UNCHANGED <<errItem, code, pc>>
     \/ /\ t.type = "FG_REF_TOKEN" /\ Text(t.symbol) \notin DOMAIN tokens
        /\ errItem' = t.symbol
        /\ code' = "FG_UNKNOWN_TOKEN"
        /\ pc' = "unresolved"
        /\ UNCHANGED tokens
  /\ UNCHANGED <<items, pos, decl, scratch, rules, entry, entryRule, heap>>

TokensResolved ==
  /\ pc = "resolveTokens" /\ pending = {}
  /\ pending' = DOMAIN rules
  /\ pc' = "resolveRules"
  /\ UNCHANGED <<items, pos, decl, scratch, grammar, entryRule, errItem, code,
                 heap>>

TableOf(x) == IF x.type = "FG_RULE_ITEM" THEN rules ELSE tokens

(* Faulty variant: rules are looked up among the tokens. *)
UnknownToken(x) == x.type # "FG_STRING_ITEM" /\ Text(x.symbol) \notin DOMAIN tokens

Unknown(x) == x.type # "FG_STRING_ITEM" /\ Text(x.symbol) \notin DOMAIN TableOf(x)

FailsAt(p, i) ==
  /\ i \in DOMAIN p.items /\ Unknown(p.items[i])
  /\ \A j \in 1..(i - 1) : ~Unknown(p.items[j])

(* Faulty variant: references to rules are left unresolved. *)
ResolveTokenItem(x) ==
  IF x.type = "FG_TOKEN_ITEM"
    THEN [x EXCEPT !.ref = tokens[Text(x.symbol)].at] ELSE x

ResolveItem(x) ==
  IF x.type = "FG_STRING_ITEM" THEN x
  ELSE [x EXCEPT !.ref = TableOf(x)[Text(x.symbol)].at]

(* a production rule is resolved up to its first unknown symbol *)
ResolveProduction(p) ==
  [p EXCEPT !.items = [i \in DOMAIN p.items |->
     IF \E j \in 1..i : Unknown(p.items[j]) THEN p.items[i]
     ELSE ResolveItem(p.items[i])]]

(***************************************************************************)
(* The callback of ll_forEachItem leaves a production rule at its first    *)
(* unknown symbol but the traversal goes on: the error that remains is     *)
(* that of the last production rule that has one.                          *)
(***************************************************************************)
LastFailure(list, p, i) ==
  /\ p \in DOMAIN list /\ FailsAt(list[p], i)
  /\ \A q \in (p + 1)..Len(list) : \A j \in DOMAIN list[q].items :
       ~Unknown(list[q].items[j])

ResolveRule(n) ==
  LET list == rules[n].list IN
  /\ pc = "resolveRules" /\ IteratorNext(n)
  /\ rules' = [rules EXCEPT ![n].list =
                 [p \in DOMAIN list |-> ResolveProduction(list[p])]]
  /\ \/ /\ \A p \in DOMAIN list : \A i \in DOMAIN list[p].items :
             ~Unknown(list[p].items[i])
        /\ UNCHANGED <<errItem, code, pc>>
     \/ \E p \in DOMAIN list : \E i \in DOMAIN list[p].items :
        /\ LastFailure(list, p, i)
        /\ errItem' = list[p].items[i].symbol
        /\ code' = IF list[p].items[i].type = "FG_RULE_ITEM"
                     THEN "FG_UNKNOWN_RULE" ELSE "FG_UNKNOWN_TOKEN"
        /\ pc' = "unresolved"
  /\ UNCHANGED <<items, pos, decl, scratch, tokens, entry, entryRule, heap>>

RulesResolved ==
  /\ pc = "resolveRules" /\ pending = {}
  /\ pc' = "resolved"
  /\ UNCHANGED <<frame, pos, decl, scratch, errItem, code, heap>>
-----------------------------------------------------------------------------
(* main: report, then free the items, then the grammar that refers to them *)

ReportError ==
  /\ pc \in {"failed", "unresolved"}
  /\ pc' = "clean"
  /\ UNCHANGED <<frame, pos, decl, scratch, errItem, code, heap>>

FreeItems ==
  /\ pc \in {"clean", "resolved"}
  /\ pc' = "itemsFreed"
  /\ UNCHANGED <<frame, pos, decl, scratch, errItem, code, heap>>

TableBlocks ==
  (UNION {TokenBlocks(tokens[n]) : n \in DOMAIN tokens})
    \cup (UNION {RuleBlocks(rules[n]) : n \in DOMAIN rules})

(* Faulty variant: fg_freeGrammar forgets g->entry. *)
FreeTables ==
  /\ pc = "itemsFreed"
  /\ heap' = heap \ TableBlocks
  /\ tokens' = EmptyTable /\ rules' = EmptyTable
  /\ pc' = "done"
  /\ UNCHANGED <<items, pos, decl, scratch, entry, entryRule, pending, errItem,
                 code>>

FreeGrammar ==
  /\ pc = "itemsFreed"
  /\ heap' = heap \ TableBlocks
  /\ tokens' = EmptyTable /\ rules' = EmptyTable /\ entry' = 0
  /\ pc' = "done"
  /\ UNCHANGED <<items, pos, decl, scratch, entryRule, pending, errItem, code>>

Terminated == pc \in {"done", "aborted"} /\ UNCHANGED vars
-----------------------------------------------------------------------------
Parse ==
  \/ DeclarationsEnd \/ UnknownItem \/ BeginToken \/ BeginRule
  \/ TokenEqual \/ TokenValue \/ TokenEnd \/ TokenSemicolon
  \/ TokenFailed \/ TokenExists \/ StoreToken
  \/ RuleEqual \/ BeginProduction \/ ExtractPRItem \/ RejectPRItem
  \/ EmptyProductionRule \/ ProductionFailed \/ PushProduction
  \/ RuleFailed \/ RuleExists \/ StoreRule

Resolve ==
  \/ StartResolving \/ TokensResolved \/ RulesResolved
  \/ \E n \in pending : ResolveToken(n) \/ ResolveRule(n)

Clean == ReportError \/ FreeItems \/ FreeGrammar

Next == Parse \/ Resolve \/ Clean \/ Terminated

(* the program is sequential: it keeps running until it returns *)
Spec == Init /\ [][Next]_vars /\ WF_vars(Next)
-----------------------------------------------------------------------------
(* Types *)

ParseControl == {"declaration", "tokenEqual", "tokenValue", "tokenEnd",
                 "tokenSemicolon", "tokenStore", "tokenFailed", "ruleEqual",
                 "production", "prItem", "productionEnd", "productionFailed",
                 "ruleStore", "ruleFailed", "aborted"}
ResolveControl == {"parsed", "resolveTokens", "resolveRules", "resolved"}
CleanControl == {"failed", "unresolved", "clean", "itemsFreed", "done"}
Control == ParseControl \cup ResolveControl \cup CleanControl

TokenCodes == {"FG_TOKEN_INVALID", "FG_TOKEN_MISSING_END",
               "FG_TOKEN_MISSING_VALUE", "FG_TOKEN_UNKNOWN_VALUE_TYPE",
               "FG_TOKEN_SELF_REF", "FG_TOKEN_EXISTS"} \cup RangeErrors
RuleCodes == {"FG_RULE_EMPTY", "FG_RULE_INVALID", "FG_RULE_MISSING_END",
              "FG_RULE_EXISTS", "FG_PR_EMPTY"}
PRItemCodes == {"FG_PRITEM_UNKNOWN_TYPE", "FG_STRING_BLOCK_MISSING_END",
                "FG_STRING_BLOCK_EMPTY"}
ResolveCodes == {"FG_UNKNOWN_TOKEN", "FG_UNKNOWN_RULE"}
Codes == {"PRS_OK", "PRS_UNKNOWN_ITEM"} \cup TokenCodes \cup RuleCodes
           \cup PRItemCodes \cup ResolveCodes

TokenTypes == {"FG_RANGE_TOKEN", "FG_REF_TOKEN", "FG_STRING_TOKEN"}
PRItemTypes == {"FG_RULE_ITEM", "FG_STRING_ITEM", "FG_TOKEN_ITEM"}
QuantifierValues == {"PRS_NO_QUANTIFIER", "PRS_PLUS_QUANTIFIER",
                     "PRS_QMARK_QUANTIFIER", "PRS_STAR_QUANTIFIER", "UINT_MAX"}
Sites == {"token", "tokenName", "tokenString", "tokenRanges", "rule",
          "ruleName", "production", "prItem", "prString"}

Pointer == 0..Len(items)
Block == Sites \X (1..Len(items))
Tokens == [at: Pointer, name: SUBSET Block, type: TokenTypes,
           value: SUBSET Block, symbol: Pointer, ref: Pointer,
           quantifier: QuantifierValues]
PRItems == [at: Pointer, type: PRItemTypes, value: SUBSET Block,
            symbol: Pointer, ref: Pointer]
Productions == [at: Pointer, items: Seq(PRItems)]
Rules == [at: Pointer, name: SUBSET Block, list: Seq(Productions)]

(* Every variable keeps its type; a pointer to an item stays in the list. *)
TypeOK ==
  /\ items \in Seq(Items)
  /\ pos \in Pointer /\ decl \in Pointer /\ errItem \in Pointer
  /\ pc \in Control
  /\ token \in Tokens /\ rule \in Rules /\ production \in Productions
  /\ DOMAIN tokens \subseteq Names /\ tokens \in [DOMAIN tokens -> Tokens]
  /\ DOMAIN rules \subseteq Names /\ rules \in [DOMAIN rules -> Rules]
  /\ entry \in Pointer /\ entryRule \in Pointer
  /\ pending \subseteq Names
  /\ code \in Codes
  /\ heap \subseteq Block
-----------------------------------------------------------------------------
(* Properties *)

(* what prs_parseGrammarItems answers; nothing after "aborted" *)
Verdict ==
  IF pc \in ParseControl THEN "reading"
  ELSE IF code \in {"PRS_OK"} \cup ResolveCodes THEN "accepted" ELSE "rejected"

(***************************************************************************)
(* Memory: on every path, errors included, the blocks in use are exactly   *)
(* those some live structure owns.  A block nobody owns is a leak; a field *)
(* that still points to a freed block would be freed again by the caller   *)
(* that cleans up after fg_extractToken, fg_extractRule or                 *)
(* fg_extractProductionRule, and no two table entries share a structure.   *)
(***************************************************************************)
HeapIsOwned ==
  /\ heap = TableBlocks \cup TokenBlocks(token) \cup RuleBlocks(rule)
              \cup ProductionBlocks(production)
  /\ \A m, n \in DOMAIN tokens : tokens[m].at = tokens[n].at => m = n
  /\ \A m, n \in DOMAIN rules : rules[m].at = rules[n].at => m = n

(***************************************************************************)
(* Diagnostics: when parsing fails, the item prs_getErrorMessage names is  *)
(* the offending production rule item for the codes about such an item and *)
(* the name of the failing declaration for every other code, and no        *)
(* declaration ended between that name and the last item taken.  When      *)
(* resolving fails it is a reference nobody declares, of the kind the code *)
(* says.                                                                   *)
(***************************************************************************)
ErrorLocated ==
  /\ pc = "failed" =>
       /\ code \notin {"PRS_OK"} \cup ResolveCodes
       /\ errItem = IF code \in PRItemCodes THEN pos ELSE decl
       /\ decl \in 1..pos
       /\ \A i \in decl..(pos - 1) : items[i].kind # "semicolon"
  /\ pc = "unresolved" =>
       /\ errItem \in 1..Len(items)
       /\ \/ /\ code = "FG_UNKNOWN_TOKEN" /\ items[errItem].kind = "upper"
             /\ Text(errItem) \notin DOMAIN tokens
          \/ /\ code = "FG_UNKNOWN_RULE" /\ items[errItem].kind = "lower"
             /\ Text(errItem) \notin DOMAIN rules

(***************************************************************************)
(* References: a resolved pointer is that of a structure stored in the     *)
(* grammar, never of one freed on an error path, and once                  *)
(* prs_resolveSymbols has returned PRS_OK every symbol points to the       *)
(* declaration of its own name.                                            *)
(***************************************************************************)
RefersTo(symbol, ref, table) ==
  symbol # 0 =>
    \/ ref = 0 /\ pc # "resolved"
    \/ Text(symbol) \in DOMAIN table /\ ref = table[Text(symbol)].at

ReferencesSound ==
  /\ \A n \in DOMAIN tokens : RefersTo(tokens[n].symbol, tokens[n].ref, tokens)
  /\ \A n \in DOMAIN rules : \A p \in DOMAIN rules[n].list :
       \A i \in DOMAIN rules[n].list[p].items :
         LET x == rules[n].list[p].items[i] IN
         RefersTo(x.symbol, x.ref, TableOf(x))

(***************************************************************************)
(* The entry of the grammar is its first rule, and NULL as long as parsing *)
(* has not succeeded.                                                      *)
(***************************************************************************)
EntryIsFirstRule ==
  LET rulesAt == {rules[n].at : n \in DOMAIN rules} IN
  IF Verdict = "accepted" /\ rulesAt # {}
    THEN entry \in rulesAt /\ \A at \in rulesAt : entry <= at
    ELSE entry = 0

(***************************************************************************)
(* A declaration that was stored is never replaced or dropped by a later   *)
(* one; only the resolver completes it, until the grammar is freed.        *)
(***************************************************************************)
SameDeclaration(d, e) == d.at = e.at /\ d.name = e.name

DeclarationsKept ==
  [][pc' # "done" =>
       /\ \A n \in DOMAIN tokens :
            n \in DOMAIN tokens' /\ SameDeclaration(tokens[n], tokens'[n])
       /\ \A n \in DOMAIN rules :
            n \in DOMAIN rules' /\ SameDeclaration(rules[n], rules'[n])]_vars

(***************************************************************************)
(* The program returns from every item list, or it ends on an item in      *)
(* Fatal that is the value of a token declaration, on nothing else.        *)
(***************************************************************************)
FatalValueTaken ==
  /\ pc = "aborted"
  /\ items[pos].kind \in Fatal
  /\ decl = pos - 2 /\ items[decl].kind = "tokenDecl"

Termination == <>(pc = "done" \/ FatalValueTaken)
-----------------------------------------------------------------------------
(***************************************************************************)
(* The abstract specification and the parser's refinement of it: the       *)
(* parser accepts exactly the grammars of module GrammarLanguage and       *)
(* declares the same names in the same order.                              *)
(***************************************************************************)
Consumed == IF pc = "declaration" \/ Verdict = "accepted" THEN pos ELSE decl - 1

Language == INSTANCE GrammarLanguage WITH
              consumed <- Consumed, tokenNames <- DOMAIN tokens,
              ruleNames <- DOMAIN rules, verdict <- Verdict

ReadsLanguage == Language!Spec
-----------------------------------------------------------------------------
(* What the documentation says and the code does not do *)

(***************************************************************************)
(* formal_grammar.h:169-170: a pipe announces more production rules and an *)
(* empty production rule is refused with FG_PR_EMPTY.                      *)
(***************************************************************************)
TrailingPipeRefused ==
  pc = "parsed" => \A i \in 1..(Len(items) - 1) :
    ~(items[i].kind = "pipe" /\ items[i + 1].kind = "semicolon")

(***************************************************************************)
(* formal_grammar.h:97-98: a token declaration that is not ended by a      *)
(* semicolon is reported as an invalid token, not as a rule.               *)
(***************************************************************************)
TokenEndReported ==
  pc = "failed" /\ items[decl].kind = "tokenDecl" => code # "FG_RULE_MISSING_END"

(* range.h:15: the value for "no quantifier" is PRS_NO_QUANTIFIER = 0. *)
QuantifierInEnumeration ==
  \A n \in DOMAIN tokens : tokens[n].quantifier # "UINT_MAX"
=============================================================================
