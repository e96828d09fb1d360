------------------------ MODULE GrammarParserSafety -------------------------
(***************************************************************************)
(* Proofs of the parser's type correctness and of its safety properties,   *)
(* for every set of item lists: pointers stay in the list, declarations    *)
(* are kept, the entry is the first rule, an error is reported at the item *)
(* that is wrong, references are sound.                                    *)
(***************************************************************************)
EXTENDS GrammarParser, TLAPS

(***************************************************************************)
(* What TypeOK needs to be inductive: while a declaration is extracted its *)
(* name is an item already taken, and the resolver's iterator only returns *)
(* names of the table it runs over.                                        *)
(***************************************************************************)
Extracting == ParseControl \ {"declaration"}

ControlOK ==
  /\ decl <= pos
  /\ pc \in Extracting => decl >= 1
  /\ pc = "resolveTokens" => pending \subseteq DOMAIN tokens
  /\ pc = "resolveRules" => pending \subseteq DOMAIN rules

TypeInv == TypeOK /\ ControlOK
-----------------------------------------------------------------------------
(* Lemmas about the structures *)

(* The list does not change, and with it the types that depend on it. *)
LEMMA SameTypes ==
  ASSUME items' = items
  PROVE  /\ Pointer' = Pointer /\ Block' = Block /\ Tokens' = Tokens
         /\ Productions' = Productions /\ Rules' = Rules
  BY DEF Pointer, Block, Tokens, PRItems, Productions, Rules

(* Pointers into a list. *)
LEMMA Pointers ==
  ASSUME items \in Seq(Items), NEW i \in Nat, i < Len(items)
  PROVE  i + 1 \in Pointer /\ i \in Pointer /\ i + 1 \in 1..Len(items)
  BY DEF Pointer

(* Structures as they are allocated. *)
LEMMA FreshStructures ==
  ASSUME items \in Seq(Items), NEW i \in Pointer
  PROVE  /\ ZeroToken(i) \in Tokens
         /\ EmptyRule(i) \in Rules
         /\ EmptyProduction(i) \in Productions
  <1>1. 0 \in Pointer
    BY DEF Pointer
  <1> QED
    BY <1>1 DEF ZeroToken, EmptyRule, EmptyProduction, Tokens, Rules,
                Productions, TokenTypes, QuantifierValues

LEMMA NoStructures ==
  ASSUME items \in Seq(Items)
  PROVE  NoToken \in Tokens /\ NoRule \in Rules /\ NoProduction \in Productions
  <1>1. 0 \in Pointer
    BY DEF Pointer
  <1> QED
    BY <1>1, FreshStructures DEF NoToken, NoRule, NoProduction

(* The blocks allocated for an item of the list. *)
LEMMA FreshBlocks ==
  ASSUME NEW i \in 1..Len(items), NEW site \in Sites
  PROVE  <<site, i>> \in Block /\ Struct(site, i) \subseteq Block
  BY DEF Block, Struct

(* The production rule item made from an item of the list. *)
LEMMA FreshPRItem ==
  ASSUME items \in Seq(Items), NEW i \in 1..Len(items)
  PROVE  PRItem(i) \in PRItems /\ PRItemBlocks(PRItem(i)) \subseteq Block
  <1>1. i \in Pointer /\ 0 \in Pointer
    BY DEF Pointer
  <1>2. <<"prString", i>> \in Block /\ Struct("prItem", i) \subseteq Block
    BY FreshBlocks DEF Sites
  <1>3. PRItem(i) \in PRItems
    BY <1>1, <1>2 DEF PRItem, PRItems, PRItemTypes
  <1>4. PRItem(i).at = i /\ PRItem(i).value \subseteq Block
    BY <1>3 DEF PRItem, PRItems
  <1> QED
    BY <1>2, <1>3, <1>4 DEF PRItemBlocks

(* Lists of a rule. *)
LEMMA RuleLists ==
  ASSUME NEW r \in Rules, NEW p \in Productions
  PROVE  /\ r.at \in Pointer
         /\ r.list \in Seq(Productions)
         /\ Append(r.list, p) \in Seq(Productions)
         /\ \A list \in Seq(Productions) : [r EXCEPT !.list = list] \in Rules
  BY DEF Rules

LEMMA CodeValues ==
  /\ "PRS_OK" \in Codes /\ "PRS_UNKNOWN_ITEM" \in Codes
  /\ "FG_TOKEN_INVALID" \in Codes /\ "FG_TOKEN_MISSING_END" \in Codes
  /\ "FG_TOKEN_MISSING_VALUE" \in Codes /\ "FG_TOKEN_SELF_REF" \in Codes
  /\ "FG_TOKEN_UNKNOWN_VALUE_TYPE" \in Codes /\ "FG_TOKEN_EXISTS" \in Codes
  /\ "FG_RULE_EMPTY" \in Codes /\ "FG_RULE_INVALID" \in Codes
  /\ "FG_RULE_MISSING_END" \in Codes /\ "FG_RULE_EXISTS" \in Codes
  /\ "FG_PR_EMPTY" \in Codes /\ RangeErrors \subseteq Codes
  /\ "FG_UNKNOWN_TOKEN" \in Codes /\ "FG_UNKNOWN_RULE" \in Codes
  /\ \A kind : PRItemError(kind) \in Codes
  BY DEF Codes, TokenCodes, RuleCodes, ResolveCodes, PRItemCodes, PRItemError

LEMMA ControlValues ==
  /\ "declaration" \in Control /\ "tokenEqual" \in Control
  /\ "tokenValue" \in Control /\ "tokenEnd" \in Control
  /\ "tokenSemicolon" \in Control /\ "tokenStore" \in Control
  /\ "tokenFailed" \in Control /\ "ruleEqual" \in Control
  /\ "production" \in Control /\ "prItem" \in Control
  /\ "productionEnd" \in Control /\ "productionFailed" \in Control
  /\ "ruleStore" \in Control /\ "ruleFailed" \in Control
  /\ "parsed" \in Control /\ "resolveTokens" \in Control
  /\ "resolveRules" \in Control /\ "resolved" \in Control
  /\ "failed" \in Control /\ "unresolved" \in Control
  /\ "clean" \in Control /\ "itemsFreed" \in Control /\ "done" \in Control
  /\ "aborted" \in Control
  BY DEF Control, ParseControl, ResolveControl, CleanControl

(* A table with one more entry. *)
LEMMA InsertTypes ==
  ASSUME NEW S, NEW table, DOMAIN table \subseteq Names,
         table \in [DOMAIN table -> S], NEW n \in Names, NEW v \in S
  PROVE  /\ DOMAIN Insert(table, n, v) \subseteq Names
         /\ Insert(table, n, v) \in [DOMAIN Insert(table, n, v) -> S]
  BY DEF Insert
-----------------------------------------------------------------------------
(* Lemmas about the parts that several actions share *)

LEMMA TypeFacts ==
  ASSUME TypeInv
  PROVE  /\ items \in Seq(Items) /\ Len(items) \in Nat /\ 0 \in Pointer
         /\ pos \in Nat /\ decl \in Nat /\ decl <= pos /\ pos <= Len(items)
         /\ pc \in Extracting => decl \in 1..Len(items) /\ pos \in 1..Len(items)
         /\ \A i \in 1..Len(items) : items[i] \in Items /\ i \in Pointer
  BY DEF TypeInv, TypeOK, ControlOK, Pointer

LEMMA NextItem ==
  ASSUME TypeInv, ~AtEnd
  PROVE  pos + 1 \in 1..Len(items) /\ pos + 1 \in Pointer /\ pos < Len(items)
  BY TypeFacts DEF AtEnd, Pointer

LEMMA AdvanceTypes ==
  ASSUME TypeInv, Advance
  PROVE  pos' \in Pointer /\ pos <= pos'
  BY TypeFacts, NextItem DEF Advance, Pointer

LEMMA RejectTokenTypes ==
  ASSUME TypeInv, NEW c \in Codes, RejectToken(c)
  PROVE  /\ token' \in Tokens /\ heap' \subseteq Block
         /\ code' \in Codes /\ pc' = "tokenFailed"
  <1>1. token.at \in Pointer
    BY DEF TypeInv, TypeOK, Tokens
  <1> QED
    BY <1>1, TypeFacts, FreshStructures
    DEF TypeInv, TypeOK, RejectToken, FreeTokenContents

LEMMA AcceptValueTypes ==
  ASSUME TypeInv, NEW type \in TokenTypes, NEW blocks \in SUBSET Block,
         NEW symbol \in Pointer, AcceptValue(type, blocks, symbol)
  PROVE  /\ token' \in Tokens /\ heap' \subseteq Block
         /\ code' = code /\ pc' = "tokenEnd"
  BY DEF TypeInv, TypeOK, AcceptValue, Tokens

LEMMA ExtractValueTypes ==
  ASSUME TypeInv, pc = "tokenValue", NEW i \in Pointer, NEW kind,
         ExtractValue(kind, i)
  PROVE  /\ token' \in Tokens /\ heap' \subseteq Block
         /\ code' \in Codes /\ pc' \in {"tokenFailed", "tokenEnd", "aborted"}
  <1>1. decl \in 1..Len(items) /\ 0 \in Pointer
    BY TypeFacts DEF Extracting, ParseControl
  <1>2. {<<"tokenString", decl>>} \in SUBSET Block
    BY <1>1, FreshBlocks DEF Sites
  <1>3. {<<"tokenRanges", decl>>} \in SUBSET Block
    BY <1>1, FreshBlocks DEF Sites
  <1>4. {} \in SUBSET Block /\ code \in Codes
    BY DEF TypeInv, TypeOK
  <1>5. TokenTypes = {"FG_RANGE_TOKEN", "FG_REF_TOKEN", "FG_STRING_TOKEN"}
    BY DEF TokenTypes
  <1>6. CASE \E c \in Codes : RejectToken(c)
    BY <1>6, RejectTokenTypes
  <1>7. CASE \E type \in TokenTypes, blocks \in SUBSET Block, symbol \in Pointer :
               AcceptValue(type, blocks, symbol)
    BY <1>4, <1>7, AcceptValueTypes
  <1>8. CASE AbortOn(kind)
    BY <1>8 DEF AbortOn, TypeInv, TypeOK
  <1> QED
    BY <1>1, <1>2, <1>3, <1>4, <1>5, <1>6, <1>7, <1>8, CodeValues DEF ExtractValue

LEMMA EndTokenTypes ==
  ASSUME TypeInv, NEW kind, EndToken(kind)
  PROVE  /\ token' \in Tokens /\ heap' \subseteq Block
         /\ code' \in Codes /\ pc' = "tokenStore"
  <1>1. QuantifierOf(kind) \in QuantifierValues
    BY DEF QuantifierOf, QuantifierValues
  <1> QED
    BY <1>1 DEF TypeInv, TypeOK, EndToken, Tokens

LEMMA EndRuleTypes ==
  ASSUME TypeInv, NEW list \in Seq(Productions), NEW hasEnd,
         EndRule(list, hasEnd)
  PROVE  /\ rule' \in Rules /\ heap' \subseteq Block
         /\ code' \in Codes /\ pc' \in {"ruleFailed", "ruleStore"}
  <1>1. [rule EXCEPT !.list = list] \in Rules
    BY DEF TypeInv, TypeOK, Rules
  <1>2. [rule EXCEPT !.list = list].at \in Pointer
    BY <1>1 DEF Rules
  <1> QED
    BY <1>1, <1>2, TypeFacts, FreshStructures, CodeValues
    DEF TypeInv, TypeOK, EndRule, FreeRuleContents
-----------------------------------------------------------------------------
(* The invariant is preserved by every action *)

LEMMA BeginTypes ==
  TypeInv /\ (UnknownItem \/ BeginToken \/ BeginRule) => TypeInv'
  <1> SUFFICES ASSUME TypeInv, UnknownItem \/ BeginToken \/ BeginRule
               PROVE  TypeInv'
    OBVIOUS
  <1>1. items' = items /\ ~AtEnd /\ pos' = pos + 1 /\ decl' = pos + 1
    BY DEF UnknownItem, BeginToken, BeginRule, NextIs, frame
  <1>2. pos + 1 \in 1..Len(items) /\ pos + 1 \in Pointer
    BY <1>1, NextItem
  <1>3. ControlOK'
    BY <1>1, <1>2 DEF UnknownItem, BeginToken, BeginRule, ControlOK, Extracting
  <1>4. CASE UnknownItem
    <2>1. TypeOK'
      BY <1>1, <1>2, <1>4, SameTypes, CodeValues, ControlValues
      DEF TypeInv, TypeOK, UnknownItem, frame, scratch, grammar
    <2> QED
      BY <1>3, <2>1 DEF TypeInv
  <1>5. CASE BeginToken
    <2>1. <<"tokenName", pos + 1>> \in Block /\ Struct("token", pos + 1) \subseteq Block
      BY <1>2, FreshBlocks DEF Sites
    <2>2. ZeroToken(pos + 1) \in Tokens
      BY <1>2, TypeFacts, FreshStructures
    <2>3. token' \in Tokens
      BY <1>5, <2>1, <2>2 DEF BeginToken, Tokens
    <2>4. TokenBlocks(token') \subseteq Block
      BY <1>5, <2>1 DEF BeginToken, TokenBlocks, TokenContents, ZeroToken
    <2>5. TypeOK'
      BY <1>1, <1>2, <1>5, <2>3, <2>4, SameTypes, ControlValues
      DEF TypeInv, TypeOK, BeginToken, frame, grammar
    <2> QED
      BY <1>3, <2>5 DEF TypeInv
  <1>6. CASE BeginRule
    <2>1. <<"ruleName", pos + 1>> \in Block /\ Struct("rule", pos + 1) \subseteq Block
      BY <1>2, FreshBlocks DEF Sites
    <2>2. EmptyRule(pos + 1) \in Rules
      BY <1>2, TypeFacts, FreshStructures
    <2>3. rule' \in Rules
      BY <1>6, <2>1, <2>2 DEF BeginRule, Rules
    <2>4. RuleBlocks(rule') \subseteq Block
      BY <1>6, <2>1 DEF BeginRule, RuleBlocks, RuleContents, EmptyRule
    <2>5. TypeOK'
      BY <1>1, <1>2, <1>6, <2>3, <2>4, SameTypes, ControlValues
      DEF TypeInv, TypeOK, BeginRule, frame, grammar
    <2> QED
      BY <1>3, <2>5 DEF TypeInv
  <1> QED
    BY <1>4, <1>5, <1>6

LEMMA TokenTypesKept ==
  TypeInv /\ (TokenEqual \/ TokenValue \/ TokenEnd \/ TokenSemicolon) => TypeInv'
  <1> SUFFICES ASSUME TypeInv,
                      TokenEqual \/ TokenValue \/ TokenEnd \/ TokenSemicolon
               PROVE  TypeInv'
    OBVIOUS
  <1>1. /\ items' = items /\ Advance /\ decl' = decl
       /\ rule' = rule /\ production' = production
       /\ UNCHANGED <<tokens, rules, entry, entryRule, pending, errItem>>
    BY DEF TokenEqual, TokenValue, TokenEnd, TokenSemicolon, frame, scratch,
           grammar
  <1>2. pos' \in Pointer /\ pos <= pos' /\ pos' \in Nat
    BY <1>1, AdvanceTypes DEF Pointer
  <1>3. pc \in Extracting /\ decl >= 1
    BY DEF TypeInv, ControlOK, TokenEqual, TokenValue, TokenEnd, TokenSemicolon,
           Extracting, ParseControl
  <1>4. /\ token' \in Tokens /\ heap' \subseteq Block /\ code' \in Codes
       /\ pc' \in {"tokenValue", "tokenEnd", "tokenSemicolon", "tokenStore",
                   "tokenFailed", "aborted"}
    <2>1. CASE TokenEqual
      BY <2>1, CodeValues DEF TypeInv, TypeOK, TokenEqual, scratch
    <2>2. CASE TokenValue
      <3>1. CASE AtEnd
        BY <2>2, <3>1, RejectTokenTypes, CodeValues DEF TokenValue
      <3>2. CASE ~AtEnd
        BY <2>2, <3>2, NextItem, ExtractValueTypes DEF TokenValue
      <3> QED
        BY <3>1, <3>2
    <2>3. CASE TokenEnd
      BY <2>3, RejectTokenTypes, EndTokenTypes, CodeValues
      DEF TypeInv, TypeOK, TokenEnd
    <2>4. CASE TokenSemicolon
      BY <2>4, EndTokenTypes, CodeValues DEF TypeInv, TypeOK, TokenSemicolon
    <2> QED
      BY <2>1, <2>2, <2>3, <2>4
  <1>5. TypeOK'
    BY <1>1, <1>2, <1>4, SameTypes, ControlValues DEF TypeInv, TypeOK
  <1>6. ControlOK'
    BY <1>1, <1>2, <1>3, <1>4, TypeFacts DEF ControlOK
  <1> QED
    BY <1>5, <1>6 DEF TypeInv

LEMMA TokenStoreTypes ==
  TypeInv /\ (TokenFailed \/ TokenExists \/ StoreToken) => TypeInv'
  <1> SUFFICES ASSUME TypeInv, TokenFailed \/ TokenExists \/ StoreToken
               PROVE  TypeInv'
    OBVIOUS
  <1>1. NoToken \in Tokens
    BY TypeFacts, NoStructures
  <1>2. items' = items /\ pos' = pos /\ decl' = decl
    BY DEF TokenFailed, TokenExists, StoreToken, frame
  <1>3. ControlOK'
    BY <1>2 DEF TypeInv, ControlOK, Extracting, ParseControl, TokenFailed,
                TokenExists, StoreToken, FailToken, frame, grammar
  <1>4. CASE TokenFailed \/ TokenExists
    <2>1. TypeOK'
      BY <1>1, <1>2, <1>4, SameTypes, CodeValues, ControlValues
      DEF TypeInv, TypeOK, TokenFailed, TokenExists, FailToken, frame, grammar
    <2> QED
      BY <1>3, <2>1 DEF TypeInv
  <1>5. CASE StoreToken
    <2>1. Text(decl) \in Names
      BY <1>5, TypeFacts DEF StoreToken, Extracting, ParseControl, Text, Items
    <2>2. DOMAIN tokens' \subseteq Names /\ tokens' \in [DOMAIN tokens' -> Tokens]
      BY <1>5, <2>1, InsertTypes DEF TypeInv, TypeOK, StoreToken
    <2>3. TypeOK'
      BY <1>1, <1>2, <1>5, <2>2, SameTypes, ControlValues
      DEF TypeInv, TypeOK, StoreToken
    <2> QED
      BY <1>3, <2>3 DEF TypeInv
  <1> QED
    BY <1>4, <1>5

LEMMA ProductionTypesKept ==
  TypeInv /\ (RuleEqual \/ BeginProduction \/ PushProduction) => TypeInv'
  <1> SUFFICES ASSUME TypeInv, RuleEqual \/ BeginProduction \/ PushProduction
               PROVE  TypeInv'
    OBVIOUS
  <1>1. /\ items' = items /\ decl' = decl /\ token' = token
       /\ UNCHANGED <<tokens, rules, entry, entryRule, pending, errItem>>
    BY DEF RuleEqual, BeginProduction, PushProduction, frame, scratch, grammar
  <1>2. Advance \/ pos' = pos
    BY DEF RuleEqual, BeginProduction, PushProduction
  <1>2a. pos' \in Pointer /\ pos <= pos' /\ pos' \in Nat
    BY <1>2, AdvanceTypes, TypeFacts DEF Pointer
  <1>3. /\ pc \in Extracting /\ decl >= 1
    BY DEF TypeInv, ControlOK, RuleEqual, BeginProduction, PushProduction,
           Extracting, ParseControl
  <1>4. /\ rule' \in Rules /\ production' \in Productions
       /\ heap' \subseteq Block /\ code' \in Codes
       /\ pc' \in {"production", "prItem", "ruleFailed", "ruleStore"}
    <2>1. CASE RuleEqual
      BY <2>1, CodeValues DEF TypeInv, TypeOK, RuleEqual, scratch
    <2>2. CASE BeginProduction
      <3>1. rule.list \in Seq(Productions)
        BY DEF TypeInv, TypeOK, Rules
      <3>2. CASE ~AtEnd /\ ~NextIs({"semicolon"})
        <4>1. /\ EmptyProduction(pos + 1) \in Productions
             /\ Struct("production", pos + 1) \subseteq Block
          BY <3>2, NextItem, TypeFacts, FreshStructures, FreshBlocks DEF Sites
        <4> QED
          BY <2>2, <3>1, <3>2, <4>1, EndRuleTypes
          DEF TypeInv, TypeOK, BeginProduction, NextIs
      <3>3. CASE AtEnd \/ NextIs({"semicolon"})
        BY <2>2, <3>1, <3>3, EndRuleTypes
        DEF TypeInv, TypeOK, BeginProduction, NextIs
      <3> QED
        BY <3>2, <3>3
    <2>3. CASE PushProduction
      <3>1. Append(rule.list, production) \in Seq(Productions)
        BY RuleLists DEF TypeInv, TypeOK
      <3>2. [rule EXCEPT !.list = Append(rule.list, production)] \in Rules
        BY <3>1, RuleLists DEF TypeInv, TypeOK
      <3>3. NoProduction \in Productions
        BY TypeFacts, NoStructures
      <3> QED
        BY <2>3, <3>1, <3>2, <3>3, EndRuleTypes
        DEF TypeInv, TypeOK, PushProduction
    <2> QED
      BY <2>1, <2>2, <2>3
  <1>5. TypeOK'
    BY <1>1, <1>2a, <1>4, SameTypes, ControlValues DEF TypeInv, TypeOK
  <1>6. ControlOK'
    BY <1>1, <1>2a, <1>3, <1>4, TypeFacts DEF ControlOK
  <1> QED
    BY <1>5, <1>6 DEF TypeInv

LEMMA PRItemTypesKept ==
  TypeInv /\ (ExtractPRItem \/ RejectPRItem \/ EmptyProductionRule
                \/ ProductionFailed) => TypeInv'
  <1> SUFFICES ASSUME TypeInv, ExtractPRItem \/ RejectPRItem
                                 \/ EmptyProductionRule \/ ProductionFailed
               PROVE  TypeInv'
    OBVIOUS
  <1>1. /\ items' = items /\ decl' = decl /\ token' = token
       /\ UNCHANGED <<tokens, rules, entry, entryRule, pending>>
    BY DEF ExtractPRItem, RejectPRItem, EmptyProductionRule, ProductionFailed,
           frame, scratch, grammar
  <1>2. Advance \/ pos' = pos
    BY DEF ExtractPRItem, RejectPRItem, EmptyProductionRule, ProductionFailed
  <1>2a. pos' \in Pointer /\ pos <= pos' /\ pos' \in Nat
    BY <1>2, AdvanceTypes, TypeFacts DEF Pointer
  <1>3. pc \in Extracting /\ decl >= 1 /\ pos \in 1..Len(items) /\ pos \in Pointer
    BY TypeFacts DEF ExtractPRItem, RejectPRItem, EmptyProductionRule,
                     ProductionFailed, Extracting, ParseControl
  <1>4. rule.at \in Pointer /\ production.at \in Pointer
    BY DEF TypeInv, TypeOK, Rules, Productions
  <1>5. EmptyRule(rule.at) \in Rules /\ EmptyProduction(production.at) \in Productions
    BY <1>4, TypeFacts, FreshStructures
  <1>6. /\ rule' \in Rules /\ production' \in Productions
       /\ heap' \subseteq Block /\ code' \in Codes /\ errItem' \in Pointer
       /\ pc' \in {"prItem", "productionEnd", "productionFailed", "ruleFailed"}
    <2>1. CASE ExtractPRItem
      <3>1. PRItem(pos) \in PRItems /\ PRItemBlocks(PRItem(pos)) \subseteq Block
        BY <1>3, TypeFacts, FreshPRItem
      <3>2. production' \in Productions
        <4>1. production.items \in Seq(PRItems)
          BY DEF TypeInv, TypeOK, Productions
        <4>2. Append(production.items, PRItem(pos)) \in Seq(PRItems)
          BY <3>1, <4>1
        <4> QED
          BY <2>1, <4>2 DEF TypeInv, TypeOK, ExtractPRItem, Productions
      <3> QED
        BY <2>1, <3>1, <3>2 DEF TypeInv, TypeOK, ExtractPRItem
    <2>2. CASE RejectPRItem
      BY <1>3, <1>5, <2>2, CodeValues DEF TypeInv, TypeOK, RejectPRItem
    <2>3. CASE EmptyProductionRule
      BY <2>3, CodeValues DEF TypeInv, TypeOK, EmptyProductionRule, scratch
    <2>4. CASE ProductionFailed
      BY <1>5, <2>4, TypeFacts, NoStructures DEF TypeInv, TypeOK, ProductionFailed
    <2> QED
      BY <2>1, <2>2, <2>3, <2>4
  <1>7. TypeOK'
    BY <1>1, <1>2a, <1>6, SameTypes, ControlValues DEF TypeInv, TypeOK
  <1>8. ControlOK'
    BY <1>1, <1>2a, <1>3, <1>6, TypeFacts DEF ControlOK
  <1> QED
    BY <1>7, <1>8 DEF TypeInv

LEMMA RuleStoreTypes ==
  TypeInv /\ (RuleFailed \/ RuleExists \/ StoreRule) => TypeInv'
  <1> SUFFICES ASSUME TypeInv, RuleFailed \/ RuleExists \/ StoreRule
               PROVE  TypeInv'
    OBVIOUS
  <1>1. NoRule \in Rules
    BY TypeFacts, NoStructures
  <1>2. items' = items /\ pos' = pos /\ decl' = decl
    BY DEF RuleFailed, RuleExists, StoreRule, frame
  <1>3. ControlOK'
    BY <1>2 DEF TypeInv, ControlOK, Extracting, ParseControl, RuleFailed,
                RuleExists, StoreRule, frame, grammar
  <1>4. CASE RuleFailed \/ RuleExists
    <2>1. TypeOK'
      BY <1>1, <1>2, <1>4, SameTypes, CodeValues, ControlValues
      DEF TypeInv, TypeOK, RuleFailed, RuleExists, frame, grammar
    <2> QED
      BY <1>3, <2>1 DEF TypeInv
  <1>5. CASE StoreRule
    <2>1. Text(decl) \in Names
      BY <1>5, TypeFacts DEF StoreRule, Extracting, ParseControl, Text, Items
    <2>2. DOMAIN rules' \subseteq Names /\ rules' \in [DOMAIN rules' -> Rules]
      BY <1>5, <2>1, InsertTypes DEF TypeInv, TypeOK, StoreRule
    <2>3. entryRule' \in Pointer
      BY <1>5 DEF TypeInv, TypeOK, StoreRule, Rules
    <2>4. TypeOK'
      BY <1>1, <1>2, <1>5, <2>2, <2>3, SameTypes, ControlValues
      DEF TypeInv, TypeOK, StoreRule
    <2> QED
      BY <1>3, <2>4 DEF TypeInv
  <1> QED
    BY <1>4, <1>5

LEMMA ResolveTokenTypes ==
  ASSUME TypeInv, NEW n \in Names, ResolveToken(n)
  PROVE  TypeInv'
  <1>1. n \in DOMAIN tokens /\ tokens[n] \in Tokens
    BY DEF TypeInv, TypeOK, ControlOK, ResolveToken, IteratorNext
  <1>2. /\ items' = items /\ pos' = pos /\ decl' = decl
       /\ UNCHANGED <<rules, entry, entryRule, scratch, heap>>
       /\ pending' = pending \ {n} /\ pc' \in {"resolveTokens", "unresolved"}
    BY DEF ResolveToken, IteratorNext
  <1>3. code' \in Codes /\ errItem' \in Pointer
    BY <1>1, CodeValues DEF TypeInv, TypeOK, ResolveToken, Tokens
  <1>4. DOMAIN tokens' = DOMAIN tokens /\ tokens' \in [DOMAIN tokens -> Tokens]
    <2>1. CASE tokens' = tokens
      BY <2>1 DEF TypeInv, TypeOK
    <2>2. ASSUME NEW m \in DOMAIN tokens,
                 tokens' = [tokens EXCEPT ![n].ref = tokens[m].at]
          PROVE  DOMAIN tokens' = DOMAIN tokens /\ tokens' \in [DOMAIN tokens -> Tokens]
      <3>1. tokens[m].at \in Pointer
        BY DEF TypeInv, TypeOK, Tokens
      <3>2. [tokens[n] EXCEPT !.ref = tokens[m].at] \in Tokens
        BY <1>1, <3>1 DEF Tokens
      <3> QED
        BY <1>1, <2>2, <3>2 DEF TypeInv, TypeOK
    <2> QED
      BY <2>1, <2>2 DEF ResolveToken
  <1>5. TypeOK'
    BY <1>2, <1>3, <1>4, SameTypes, ControlValues DEF TypeInv, TypeOK, scratch
  <1>6. ControlOK'
    BY <1>2, <1>4 DEF TypeInv, ControlOK, ResolveToken, Extracting, ParseControl
  <1> QED
    BY <1>5, <1>6 DEF TypeInv

(* Resolving changes only the pointers of a production rule. *)
LEMMA ResolveProductionTypes ==
  ASSUME TypeInv, NEW p \in Productions
  PROVE  ResolveProduction(p) \in Productions
  <1>1. p.items \in Seq(PRItems) /\ p = [at |-> p.at, items |-> p.items]
    BY DEF Productions
  <1>2. ASSUME NEW i \in DOMAIN p.items, ~Unknown(p.items[i])
        PROVE  ResolveItem(p.items[i]) \in PRItems
    <2> DEFINE x == p.items[i]
    <2>1. x \in PRItems
      BY <1>1
    <2>2. CASE x.type = "FG_STRING_ITEM"
      BY <2>1, <2>2 DEF ResolveItem
    <2>3. CASE x.type # "FG_STRING_ITEM"
      <3>1. Text(x.symbol) \in DOMAIN TableOf(x)
        BY <1>2, <2>3 DEF Unknown
      <3>2. TableOf(x)[Text(x.symbol)].at \in Pointer
        BY <3>1 DEF TypeInv, TypeOK, TableOf, Tokens, Rules
      <3> QED
        BY <2>1, <2>3, <3>2 DEF ResolveItem, PRItems
    <2> QED
      BY <2>2, <2>3
  <1> DEFINE resolved == [i \in DOMAIN p.items |->
                            IF \E j \in 1..i : Unknown(p.items[j]) THEN p.items[i]
                            ELSE ResolveItem(p.items[i])]
  <1>3. ASSUME NEW i \in DOMAIN p.items
        PROVE  resolved[i] \in PRItems
    <2>1. p.items[i] \in PRItems /\ i \in 1..i
      BY <1>1
    <2> QED
      BY <1>2, <2>1
  <1>4. resolved \in Seq(PRItems)
    <2>1. DOMAIN p.items = 1..Len(p.items) /\ Len(p.items) \in Nat
      BY <1>1
    <2> HIDE DEF resolved
    <2>2. resolved \in [1..Len(p.items) -> PRItems]
      BY <1>3, <2>1 DEF resolved
    <2> QED
      BY <2>1, <2>2
  <1> HIDE DEF resolved
  <1>5. [p EXCEPT !.items = resolved] \in Productions
    BY <1>4 DEF Productions
  <1> QED
    BY <1>5 DEF ResolveProduction, resolved

LEMMA ResolveRuleTypes ==
  ASSUME TypeInv, NEW n \in Names, ResolveRule(n)
  PROVE  TypeInv'
  <1> DEFINE list == rules[n].list
             resolved == [p \in DOMAIN list |-> ResolveProduction(list[p])]
  <1>1. n \in DOMAIN rules /\ rules[n] \in Rules
    BY DEF TypeInv, TypeOK, ControlOK, ResolveRule, IteratorNext
  <1>2. list \in Seq(Productions) /\ DOMAIN list = 1..Len(list) /\ Len(list) \in Nat
    BY <1>1 DEF Rules
  <1>3. resolved \in Seq(Productions)
    <2>1. \A p \in 1..Len(list) : ResolveProduction(list[p]) \in Productions
      BY <1>2, ResolveProductionTypes
    <2> HIDE DEF list
    <2>2. resolved \in [1..Len(list) -> Productions]
      BY <1>2, <2>1
    <2> HIDE DEF resolved
    <2> QED
      BY <1>2, <2>2
  <1>4. /\ items' = items /\ pos' = pos /\ decl' = decl
       /\ UNCHANGED <<tokens, entry, entryRule, scratch, heap>>
       /\ pending' = pending \ {n} /\ pc' \in {"resolveRules", "unresolved"}
       /\ rules' = [rules EXCEPT ![n].list = resolved]
    BY DEF ResolveRule, IteratorNext
  <1>5. code' \in Codes /\ errItem' \in Pointer
    <2>1. CASE UNCHANGED <<errItem, code>>
      BY <2>1 DEF TypeInv, TypeOK
    <2>2. ASSUME NEW p \in DOMAIN list, NEW i \in DOMAIN list[p].items,
                 errItem' = list[p].items[i].symbol
          PROVE  errItem' \in Pointer
      <3> HIDE DEF list
      <3>1. list[p] \in Productions
        BY <1>2
      <3>2. list[p].items \in Seq(PRItems)
        BY <3>1 DEF Productions
      <3>3. list[p].items[i] \in PRItems
        BY <3>2
      <3> QED
        BY <2>2, <3>3 DEF PRItems
    <2> QED
      BY <2>1, <2>2, CodeValues DEF ResolveRule
  <1>6. DOMAIN rules' = DOMAIN rules /\ rules' \in [DOMAIN rules -> Rules]
    <2> HIDE DEF resolved
    <2>1. [rules[n] EXCEPT !.list = resolved] \in Rules
      BY <1>1, <1>3 DEF Rules
    <2> QED
      BY <1>1, <1>4, <2>1 DEF TypeInv, TypeOK
  <1>7. TypeOK'
    BY <1>4, <1>5, <1>6, SameTypes, ControlValues DEF TypeInv, TypeOK, scratch
  <1>8. ControlOK'
    BY <1>4, <1>6 DEF TypeInv, ControlOK, ResolveRule, Extracting, ParseControl
  <1> QED
    BY <1>7, <1>8 DEF TypeInv

LEMMA ControlStepTypes ==
  TypeInv /\ (DeclarationsEnd \/ StartResolving \/ TokensResolved
                \/ RulesResolved \/ Clean \/ UNCHANGED vars) => TypeInv'
  <1> SUFFICES ASSUME TypeInv,
                      DeclarationsEnd \/ StartResolving \/ TokensResolved
                        \/ RulesResolved \/ Clean \/ UNCHANGED vars
               PROVE  TypeInv'
    OBVIOUS
  <1>1. CASE FreeGrammar
    <2>1. /\ DOMAIN tokens' = {} /\ tokens' \in [DOMAIN tokens' -> Tokens]
         /\ DOMAIN rules' = {} /\ rules' \in [DOMAIN rules' -> Rules]
      BY <1>1 DEF FreeGrammar, EmptyTable
    <2>2. TypeOK'
      BY <1>1, <2>1, TypeFacts, SameTypes, ControlValues
      DEF TypeInv, TypeOK, FreeGrammar, scratch
    <2>3. ControlOK'
      BY <1>1 DEF TypeInv, ControlOK, FreeGrammar, Extracting, ParseControl
    <2> QED
      BY <2>2, <2>3 DEF TypeInv
  <1>2. CASE \/ DeclarationsEnd \/ StartResolving \/ TokensResolved
             \/ RulesResolved \/ ReportError \/ FreeItems \/ UNCHANGED vars
    <2>1. TypeOK'
      BY <1>2, SameTypes, ControlValues
      DEF TypeInv, TypeOK, DeclarationsEnd, StartResolving, TokensResolved,
          RulesResolved, ReportError, FreeItems, vars, frame, scratch, grammar
    <2>2. ControlOK'
      BY <1>2 DEF TypeInv, ControlOK, DeclarationsEnd, StartResolving,
                  TokensResolved, RulesResolved, ReportError, FreeItems, vars,
                  frame, grammar, Extracting, ParseControl
    <2> QED
      BY <2>1, <2>2 DEF TypeInv
  <1> QED
    BY <1>1, <1>2 DEF Clean

LEMMA TypeInvStep == TypeInv /\ [Next]_vars => TypeInv'
  <1> SUFFICES ASSUME TypeInv, [Next]_vars PROVE TypeInv'
    OBVIOUS
  <1>1. \A n \in pending : n \in Names
    BY DEF TypeInv, TypeOK
  <1>2. CASE \E n \in pending : ResolveToken(n) \/ ResolveRule(n)
    BY <1>1, <1>2, ResolveTokenTypes, ResolveRuleTypes
  <1> QED
    BY <1>2, BeginTypes, TokenTypesKept, TokenStoreTypes, ProductionTypesKept,
       PRItemTypesKept, RuleStoreTypes, ControlStepTypes
    DEF Next, Parse, Resolve, Clean, Terminated

LEMMA InitTypeInv == Init => TypeInv
  <1> SUFFICES ASSUME Init PROVE TypeInv
    OBVIOUS
  <1>1. items \in Seq(Items) /\ Len(items) \in Nat
    BY SourcesAssumption DEF Init
  <1>2. token \in Tokens /\ rule \in Rules /\ production \in Productions
    BY <1>1, NoStructures DEF Init
  <1>3. /\ DOMAIN tokens = {} /\ tokens \in [DOMAIN tokens -> Tokens]
       /\ DOMAIN rules = {} /\ rules \in [DOMAIN rules -> Rules]
    BY DEF Init, EmptyTable
  <1>4. TypeOK
    BY <1>1, <1>2, <1>3, CodeValues, ControlValues DEF Init, TypeOK, Pointer
  <1>5. ControlOK
    BY DEF Init, ControlOK, Extracting
  <1> QED
    BY <1>4, <1>5 DEF TypeInv

LEMMA TypeInvariant == Spec => []TypeInv
  BY InitTypeInv, TypeInvStep, PTL DEF Spec

(***************************************************************************)
(* Every structure of the parser keeps its type on every path, and no      *)
(* pointer to an item leaves the list (prs_parseGrammarItems and what it   *)
(* calls).                                                                 *)
(***************************************************************************)
THEOREM TypeCorrect == Spec => []TypeOK
  BY TypeInvariant, PTL DEF TypeInv
-----------------------------------------------------------------------------
(* The inductive invariants *)

RuleControl == {"ruleEqual", "production", "prItem", "productionEnd",
                "productionFailed", "ruleStore", "ruleFailed"}
FailedControl == {"tokenFailed", "productionFailed", "ruleFailed", "failed"}
CleaningControl == {"clean", "itemsFreed", "done"}

(* The code that is returned is known at every control point: it is still  *)
(* PRS_OK as long as nothing has failed, and later says what has.          *)
CodeOK ==
  /\ pc \notin FailedControl \cup CleaningControl \cup {"unresolved"} => code = "PRS_OK"
  /\ pc = "tokenFailed" => code \in TokenCodes \cup {"FG_RULE_MISSING_END"}
  /\ pc \in {"productionFailed", "ruleFailed"} => code \in RuleCodes \cup PRItemCodes
  /\ pc = "failed" => code \notin {"PRS_OK"} \cup ResolveCodes
  /\ pc = "unresolved" => code \in ResolveCodes

RulesAt == {rules[n].at : n \in DOMAIN rules}

(* Rules are stored in the order of their declarations. *)
EntryOK ==
  /\ pc \in RuleControl => rule.at = decl
  /\ RulesAt \subseteq 1..decl
  /\ pc # "done" =>
       IF RulesAt = {} THEN entryRule = 0
       ELSE entryRule \in RulesAt /\ \A at \in RulesAt : entryRule <= at
  /\ pc = "done" => RulesAt = {}
  /\ entry = IF Verdict = "accepted" /\ pc # "done" THEN entryRule ELSE 0

EntryInv == TypeInv /\ CodeOK /\ EntryOK

NoSemicolon(a, b) == \A i \in a..b : items[i].kind # "semicolon"

(* Nothing is reported before it fails, and the declaration that is being  *)
(* extracted has not ended: where the next item may be its semicolon, the  *)
(* items taken have none.                                                  *)
PlaceOK ==
  /\ pc \in ParseControl \ {"productionFailed", "ruleFailed"} => errItem = 0
  /\ pc \in {"productionFailed", "ruleFailed"} =>
       errItem = IF code \in PRItemCodes THEN pos ELSE 0
  /\ pc = "failed" => errItem = IF code \in PRItemCodes THEN pos ELSE decl
  /\ pc \in Extracting \cup {"failed"} => decl >= 1 /\ NoSemicolon(decl, pos - 1)
  /\ pc \in {"tokenEqual", "tokenValue", "tokenEnd", "tokenSemicolon",
             "ruleEqual", "production"} => NoSemicolon(decl, pos)

IsItem(i, kind) == i \in 1..Len(items) /\ items[i].kind = kind
TokenSymbolOK(t) ==
  IF t.type = "FG_REF_TOKEN" THEN IsItem(t.symbol, "upper") ELSE t.symbol = 0
PRItemSymbolOK(x) ==
  CASE x.type = "FG_RULE_ITEM"  -> IsItem(x.symbol, "lower")
    [] x.type = "FG_TOKEN_ITEM" -> IsItem(x.symbol, "upper")
    [] OTHER -> x.symbol = 0
ProductionSymbolsOK(p) == \A i \in DOMAIN p.items : PRItemSymbolOK(p.items[i])
RuleSymbolsOK(r) == \A p \in DOMAIN r.list : ProductionSymbolsOK(r.list[p])

(* A symbol is an item of the kind its structure says. *)
SymbolsOK ==
  /\ TokenSymbolOK(token) /\ RuleSymbolsOK(rule) /\ ProductionSymbolsOK(production)
  /\ \A n \in DOMAIN tokens : TokenSymbolOK(tokens[n])
  /\ \A n \in DOMAIN rules : RuleSymbolsOK(rules[n])

(* What prs_resolveSymbols could not resolve is declared nowhere. *)
UnresolvedOK ==
  pc = "unresolved" =>
    /\ errItem \in 1..Len(items)
    /\ \/ /\ code = "FG_UNKNOWN_TOKEN" /\ items[errItem].kind = "upper"
          /\ Text(errItem) \notin DOMAIN tokens
       \/ /\ code = "FG_UNKNOWN_RULE" /\ items[errItem].kind = "lower"
          /\ Text(errItem) \notin DOMAIN rules

ErrorInv == TypeInv /\ CodeOK /\ PlaceOK /\ SymbolsOK /\ UnresolvedOK

TokenRefOK(t, resolved) ==
  t.symbol # 0 =>
    \/ t.ref = 0 /\ ~resolved
    \/ Text(t.symbol) \in DOMAIN tokens /\ t.ref = tokens[Text(t.symbol)].at
PRItemRefOK(x, resolved) ==
  x.symbol # 0 =>
    \/ x.ref = 0 /\ ~resolved
    \/ Text(x.symbol) \in DOMAIN TableOf(x) /\ x.ref = TableOf(x)[Text(x.symbol)].at
ProductionRefsOK(p, resolved) ==
  \A i \in DOMAIN p.items : PRItemRefOK(p.items[i], resolved)
RuleRefsOK(r, resolved) ==
  \A p \in DOMAIN r.list : ProductionRefsOK(r.list[p], resolved)

NoProductionRefs(p) == \A i \in DOMAIN p.items : p.items[i].ref = 0
NoRuleRefs(r) == \A p \in DOMAIN r.list : NoProductionRefs(r.list[p])

Unreferenced ==
  /\ token.ref = 0 /\ NoProductionRefs(production) /\ NoRuleRefs(rule)
  /\ \A n \in DOMAIN tokens : tokens[n].ref = 0
  /\ \A n \in DOMAIN rules : NoRuleRefs(rules[n])

(* What the resolver's iterators have returned is resolved. *)
TokenDone(n) ==
  \/ pc \in {"resolveRules", "resolved"}
  \/ pc = "resolveTokens" /\ n \notin pending
RuleDone(n) ==
  \/ pc = "resolved"
  \/ pc = "resolveRules" /\ n \notin pending

(* While it parses no reference is set; what the resolver has done holds,  *)
(* unless it failed.                                                       *)
RefsOK ==
  /\ pc \in ParseControl \cup {"parsed", "failed"} => Unreferenced
  /\ \A n \in DOMAIN tokens : TokenRefOK(tokens[n], TokenDone(n))
  /\ \A n \in DOMAIN rules : RuleRefsOK(rules[n], RuleDone(n))

RefsInv == TypeInv /\ SymbolsOK /\ RefsOK
-----------------------------------------------------------------------------
(* Stored declarations are kept *)

Kept ==
  pc' # "done" =>
    /\ \A n \in DOMAIN tokens :
         n \in DOMAIN tokens' /\ SameDeclaration(tokens[n], tokens'[n])
    /\ \A n \in DOMAIN rules :
         n \in DOMAIN rules' /\ SameDeclaration(rules[n], rules'[n])

(* Most actions leave the tables alone. *)
LEMMA TablesKept ==
  ASSUME tokens' = tokens, rules' = rules
  PROVE  Kept
  BY DEF Kept, SameDeclaration

LEMMA QuietTables ==
  ASSUME \/ DeclarationsEnd \/ UnknownItem \/ BeginToken \/ BeginRule
         \/ TokenEqual \/ TokenValue \/ TokenEnd \/ TokenSemicolon
         \/ TokenFailed \/ TokenExists
         \/ RuleEqual \/ BeginProduction \/ ExtractPRItem \/ RejectPRItem
         \/ EmptyProductionRule \/ ProductionFailed \/ PushProduction
         \/ RuleFailed \/ RuleExists
         \/ StartResolving \/ TokensResolved \/ RulesResolved
         \/ ReportError \/ FreeItems \/ UNCHANGED vars
  PROVE  tokens' = tokens /\ rules' = rules
  BY DEF DeclarationsEnd, UnknownItem, BeginToken, BeginRule, TokenEqual, TokenValue,
         TokenEnd, TokenSemicolon, TokenFailed, TokenExists, RuleEqual,
         BeginProduction, ExtractPRItem, RejectPRItem, EmptyProductionRule,
         ProductionFailed, PushProduction, RuleFailed, RuleExists, StartResolving,
         TokensResolved, RulesResolved, ReportError, FreeItems, vars, frame, grammar

(* An entry of a table with one more is that one or one of the others. *)
LEMMA InsertEntries ==
  ASSUME NEW table, NEW n, NEW v
  PROVE  \A m \in DOMAIN Insert(table, n, v) :
           \/ m = n /\ Insert(table, n, v)[m] = v
           \/ m \in DOMAIN table /\ Insert(table, n, v)[m] = table[m]
  BY DEF Insert

(* The resolver completes an entry in place. *)
LEMMA ResolveKeeps ==
  ASSUME TypeInv, NEW n \in pending
  PROVE  /\ ResolveToken(n) =>
              /\ rules' = rules /\ DOMAIN tokens' = DOMAIN tokens
              /\ \A m \in DOMAIN tokens : m # n => tokens'[m] = tokens[m]
              /\ n \in DOMAIN tokens
              /\ \/ tokens'[n] = tokens[n]
                 \/ \E at \in Pointer : tokens'[n] = [tokens[n] EXCEPT !.ref = at]
         /\ ResolveRule(n) =>
              /\ tokens' = tokens /\ DOMAIN rules' = DOMAIN rules
              /\ \A m \in DOMAIN rules : m # n => rules'[m] = rules[m]
              /\ n \in DOMAIN rules
              /\ rules'[n] =
                   [rules[n] EXCEPT !.list =
                      [p \in DOMAIN rules[n].list |-> ResolveProduction(rules[n].list[p])]]
  <1>1. CASE ResolveToken(n)
    <2>1. /\ rules' = rules /\ n \in DOMAIN tokens /\ pc # "resolveRules"
         /\ tokens \in [DOMAIN tokens -> Tokens]
      BY <1>1 DEF TypeInv, TypeOK, ControlOK, ResolveToken
    <2>2. tokens' = tokens \/ \E at \in Pointer : tokens' = [tokens EXCEPT ![n].ref = at]
      <3>1. CASE tokens' = tokens
        BY <3>1
      <3>2. CASE tokens' # tokens
        <4>1. /\ Text(tokens[n].symbol) \in DOMAIN tokens
             /\ tokens' = [tokens EXCEPT ![n].ref = tokens[Text(tokens[n].symbol)].at]
          BY <1>1, <3>2 DEF ResolveToken
        <4>2. tokens[Text(tokens[n].symbol)].at \in Pointer
          BY <2>1, <4>1 DEF Tokens
        <4> QED
          BY <4>1, <4>2
      <3> QED
        BY <3>1, <3>2
    <2> QED
      BY <2>1, <2>2, <1>1 DEF ResolveToken, ResolveRule
  <1>2. CASE ResolveRule(n)
    <2>1. n \in DOMAIN rules /\ tokens' = tokens /\ pc = "resolveRules"
      BY <1>2 DEF TypeInv, ControlOK, ResolveRule
    <2> QED
      BY <2>1, <1>2 DEF ResolveRule, ResolveToken
  <1> QED
    BY <1>1, <1>2

LEMMA KeptStep == TypeInv /\ [Next]_vars => Kept \/ UNCHANGED vars
  <1> SUFFICES ASSUME TypeInv, [Next]_vars PROVE Kept
    OBVIOUS
  <1>1. CASE tokens' = tokens /\ rules' = rules
    BY <1>1, TablesKept
  <1>2. CASE StoreToken
    <2>1. rules' = rules /\ Text(decl) \notin DOMAIN tokens
      BY <1>2 DEF StoreToken
    <2>2. \A n \in DOMAIN tokens : n \in DOMAIN tokens' /\ tokens'[n] = tokens[n]
      BY <1>2, <2>1 DEF StoreToken, Insert
    <2> QED
      BY <2>1, <2>2 DEF Kept, SameDeclaration
  <1>3. CASE StoreRule
    <2>1. tokens' = tokens /\ Text(decl) \notin DOMAIN rules
      BY <1>3 DEF StoreRule
    <2>2. \A n \in DOMAIN rules : n \in DOMAIN rules' /\ rules'[n] = rules[n]
      BY <1>3, <2>1 DEF StoreRule, Insert
    <2> QED
      BY <2>1, <2>2 DEF Kept, SameDeclaration
  <1>4. ASSUME NEW n \in pending, ResolveToken(n) PROVE Kept
    <2>1. tokens \in [DOMAIN tokens -> Tokens]
      BY DEF TypeInv, TypeOK
    <2> QED
      BY <1>4, <2>1, ResolveKeeps DEF Kept, SameDeclaration, Tokens
  <1>5. ASSUME NEW n \in pending, ResolveRule(n) PROVE Kept
    <2>1. rules \in [DOMAIN rules -> Rules]
      BY DEF TypeInv, TypeOK
    <2> QED
      BY <1>5, <2>1, ResolveKeeps DEF Kept, SameDeclaration, Rules
  <1>6. CASE FreeGrammar
    BY <1>6 DEF FreeGrammar, Kept
  <1> QED
    BY <1>1, <1>2, <1>3, <1>4, <1>5, <1>6, QuietTables
    DEF Next, Parse, Resolve, Clean, Terminated

(***************************************************************************)
(* No step of the parser or the resolver replaces a stored declaration or  *)
(* drops it, until main frees the grammar (ht_insertElement overwrites,    *)
(* and parser.c:287 asks first whether the name is there).                 *)
(***************************************************************************)
THEOREM StoredDeclarationsKept == Spec => DeclarationsKept
  <1>1. TypeInv /\ [Next]_vars => [Kept]_vars
    BY KeptStep
  <1> QED
    BY <1>1, TypeInvariant, PTL DEF Spec, DeclarationsKept, Kept
-----------------------------------------------------------------------------
(* The code that is returned *)

LEMMA CodeSets ==
  /\ "PRS_OK" \notin TokenCodes \cup RuleCodes \cup PRItemCodes \cup ResolveCodes
  /\ "PRS_UNKNOWN_ITEM" \notin TokenCodes \cup RuleCodes \cup PRItemCodes \cup ResolveCodes
  /\ ResolveCodes \cap (TokenCodes \cup RuleCodes \cup PRItemCodes) = {}
  /\ PRItemCodes \cap (TokenCodes \cup RuleCodes) = {}
  /\ "FG_RULE_MISSING_END" \in RuleCodes /\ "FG_RULE_EXISTS" \in RuleCodes
  /\ "FG_RULE_EMPTY" \in RuleCodes /\ "FG_RULE_INVALID" \in RuleCodes
  /\ "FG_PR_EMPTY" \in RuleCodes
  /\ "FG_TOKEN_INVALID" \in TokenCodes /\ "FG_TOKEN_MISSING_END" \in TokenCodes
  /\ "FG_TOKEN_MISSING_VALUE" \in TokenCodes /\ "FG_TOKEN_SELF_REF" \in TokenCodes
  /\ "FG_TOKEN_UNKNOWN_VALUE_TYPE" \in TokenCodes /\ "FG_TOKEN_EXISTS" \in TokenCodes
  /\ RangeErrors \subseteq TokenCodes
  /\ \A kind : PRItemError(kind) \in PRItemCodes
  BY DEF TokenCodes, RuleCodes, PRItemCodes, ResolveCodes, RangeErrors, PRItemError

LEMMA CodeStep == TypeInv /\ CodeOK /\ [Next]_vars => CodeOK'
  <1> SUFFICES ASSUME TypeInv, CodeOK, [Next]_vars PROVE CodeOK'
    OBVIOUS
  <1> USE CodeSets DEF CodeOK, FailedControl, CleaningControl
  <1>1. CASE \/ DeclarationsEnd \/ UnknownItem \/ BeginToken \/ BeginRule
    BY <1>1 DEF DeclarationsEnd, UnknownItem, BeginToken, BeginRule
  <1>2. CASE TokenEqual \/ TokenEnd \/ TokenSemicolon
    BY <1>2 DEF TokenEqual, TokenEnd, TokenSemicolon, RejectToken, EndToken
  <1>3. CASE TokenValue
    <2>1. \/ pc' \in {"tokenEnd", "aborted"} /\ code' = code
          \/ pc' = "tokenFailed" /\ code' \in TokenCodes
      BY <1>3 DEF TokenValue, ExtractValue, AbortOn, RejectToken, AcceptValue
    <2> QED
      BY <1>3, <2>1 DEF TokenValue
  <1>4. CASE TokenFailed \/ TokenExists \/ StoreToken
    BY <1>4 DEF TokenFailed, TokenExists, StoreToken, FailToken
  <1>5. CASE RuleEqual \/ BeginProduction \/ PushProduction
    <2>1. \A list, hasEnd : EndRule(list, hasEnd) =>
            \/ pc' = "ruleStore" /\ code' = code
            \/ pc' = "ruleFailed" /\ code' \in RuleCodes
      BY DEF EndRule
    <2> QED
      BY <1>5, <2>1 DEF RuleEqual, BeginProduction, PushProduction
  <1>6. CASE \/ ExtractPRItem \/ RejectPRItem \/ EmptyProductionRule
             \/ ProductionFailed
    BY <1>6 DEF ExtractPRItem, RejectPRItem, EmptyProductionRule, ProductionFailed
  <1>7. CASE RuleFailed \/ RuleExists \/ StoreRule
    BY <1>7 DEF RuleFailed, RuleExists, StoreRule
  <1>8. CASE \/ StartResolving \/ TokensResolved \/ RulesResolved
             \/ ReportError \/ FreeItems \/ FreeGrammar \/ UNCHANGED vars
    BY <1>8 DEF StartResolving, TokensResolved, RulesResolved, ReportError,
                FreeItems, FreeGrammar, vars
  <1>9. ASSUME NEW n \in pending, ResolveToken(n) \/ ResolveRule(n) PROVE CodeOK'
    BY <1>9 DEF ResolveToken, ResolveRule, ResolveCodes
  <1> QED
    BY <1>1, <1>2, <1>3, <1>4, <1>5, <1>6, <1>7, <1>8, <1>9
    DEF Next, Parse, Resolve, Clean, Terminated
-----------------------------------------------------------------------------
(* The entry rule *)

LEMMA RuleAtStep ==
  ASSUME TypeInv, pc \in RuleControl => rule.at = decl, [Next]_vars
  PROVE  (pc \in RuleControl => rule.at = decl)'
  <1> USE DEF RuleControl
  <1>1. CASE BeginRule
    BY <1>1 DEF BeginRule, EmptyRule
  <1>2. CASE \/ RuleEqual \/ BeginProduction \/ ExtractPRItem \/ RejectPRItem
             \/ EmptyProductionRule \/ ProductionFailed \/ PushProduction
    <2>1. pc \in RuleControl /\ decl' = decl
      BY <1>2 DEF RuleEqual, BeginProduction, ExtractPRItem, RejectPRItem,
                  EmptyProductionRule, ProductionFailed, PushProduction
    <2>2. \A list : /\ [rule EXCEPT !.list = list].at = rule.at
                    /\ EmptyRule(rule.at).at = rule.at
      BY DEF TypeInv, TypeOK, Rules, EmptyRule
    <2>3. \A list, hasEnd : EndRule(list, hasEnd) => rule'.at = rule.at
      BY <2>2 DEF EndRule, FreeRuleContents
    <2>4. CASE RuleEqual \/ ExtractPRItem \/ RejectPRItem \/ EmptyProductionRule
      BY <2>1, <2>4 DEF RuleEqual, ExtractPRItem, RejectPRItem, EmptyProductionRule, scratch
    <2>5. CASE BeginProduction
      BY <2>1, <2>3, <2>5 DEF BeginProduction
    <2>6. CASE ProductionFailed
      BY <2>1, <2>2, <2>6 DEF ProductionFailed
    <2>7. CASE PushProduction
      BY <2>1, <2>2, <2>3, <2>7 DEF PushProduction
    <2> QED
      BY <1>2, <2>4, <2>5, <2>6, <2>7
  <1>3. CASE \/ DeclarationsEnd \/ UnknownItem \/ BeginToken
             \/ TokenEqual \/ TokenValue \/ TokenEnd \/ TokenSemicolon
             \/ TokenFailed \/ TokenExists \/ StoreToken
             \/ RuleFailed \/ RuleExists \/ StoreRule
             \/ StartResolving \/ TokensResolved \/ RulesResolved
             \/ ReportError \/ FreeItems \/ FreeGrammar
    <2>1. \A kind, i : ExtractValue(kind, i) => pc' \in {"tokenEnd", "tokenFailed", "aborted"}
      BY DEF ExtractValue, AbortOn, RejectToken, AcceptValue
    <2> QED
      BY <1>3, <2>1
      DEF DeclarationsEnd, UnknownItem, BeginToken, TokenEqual, TokenValue, TokenEnd,
          TokenSemicolon, TokenFailed, TokenExists, StoreToken, RuleFailed,
          RuleExists, StoreRule, StartResolving, TokensResolved, RulesResolved,
          ReportError, FreeItems, FreeGrammar, RejectToken, EndToken, FailToken
  <1>4. ASSUME NEW n \in pending, ResolveToken(n) \/ ResolveRule(n)
        PROVE  (pc \in RuleControl => rule.at = decl)'
    BY <1>4 DEF ResolveToken, ResolveRule
  <1>5. CASE UNCHANGED vars
    BY <1>5 DEF vars
  <1> QED
    BY <1>1, <1>2, <1>3, <1>4, <1>5 DEF Next, Parse, Resolve, Clean, Terminated

(* What the verdict is before the clean-up, and how it stays during it. *)
VerdictOK ==
  /\ pc \in ParseControl \cup {"failed"} => Verdict # "accepted"
  /\ pc \in ResolveControl \cup {"unresolved"} => Verdict = "accepted"

LEMMA Verdicts ==
  /\ CodeOK /\ pc \in Control => VerdictOK
  /\ CodeOK' /\ pc' \in Control => VerdictOK'
  BY CodeSets DEF VerdictOK, CodeOK, FailedControl, CleaningControl, Verdict, Control,
                  ParseControl, ResolveControl, CleanControl

(* What the steps leave alone, and how the declaration they read advances. *)
LEMMA ParsingSteps ==
  ASSUME TypeInv, [Next]_vars, pc \in ParseControl, ~DeclarationsEnd, ~StoreRule
  PROVE  /\ entry' = entry /\ entryRule' = entryRule /\ rules' = rules
         /\ decl <= decl' /\ decl' \in Nat
         /\ pc' \in ParseControl \cup {"failed"}
  <1>1. pos \in Nat /\ decl \in Nat /\ decl <= pos
    BY TypeFacts
  <1>2. \A kind, i : ExtractValue(kind, i) => pc' \in {"tokenEnd", "tokenFailed", "aborted"}
    BY DEF ExtractValue, AbortOn, RejectToken, AcceptValue
  <1>3. \A list, hasEnd : EndRule(list, hasEnd) => pc' \in {"ruleStore", "ruleFailed"}
    BY DEF EndRule
  <1>4. CASE \/ UnknownItem \/ BeginToken \/ BeginRule
    BY <1>1, <1>4 DEF UnknownItem, BeginToken, BeginRule, frame, grammar, ParseControl
  <1>5. CASE \/ TokenEqual \/ TokenValue \/ TokenEnd \/ TokenSemicolon
    BY <1>1, <1>2, <1>5
    DEF TokenEqual, TokenValue, TokenEnd, TokenSemicolon, RejectToken, EndToken,
        frame, grammar, ParseControl
  <1>6. CASE \/ TokenFailed \/ TokenExists \/ StoreToken
    BY <1>1, <1>6
    DEF TokenFailed, TokenExists, StoreToken, FailToken, frame, grammar, ParseControl
  <1>7. CASE \/ RuleEqual \/ BeginProduction \/ ExtractPRItem \/ RejectPRItem
             \/ EmptyProductionRule \/ ProductionFailed \/ PushProduction
    <2>1. UNCHANGED frame /\ decl' = decl
      BY <1>7 DEF RuleEqual, BeginProduction, ExtractPRItem, RejectPRItem,
                  EmptyProductionRule, ProductionFailed, PushProduction
    <2>2. pc' \in ParseControl
      BY <1>3, <1>7
      DEF RuleEqual, BeginProduction, ExtractPRItem, RejectPRItem, EmptyProductionRule,
          ProductionFailed, PushProduction, ParseControl
    <2> QED
      BY <1>1, <2>1, <2>2 DEF frame, grammar
  <1>8. CASE RuleFailed \/ RuleExists
    BY <1>1, <1>8 DEF RuleFailed, RuleExists, frame, grammar, ParseControl
  <1>9. CASE Terminated \/ UNCHANGED vars
    BY <1>1, <1>9 DEF Terminated, vars
  <1>10. ~Resolve /\ ~Clean
    BY DEF Resolve, StartResolving, TokensResolved, RulesResolved, ResolveToken,
           ResolveRule, Clean, ReportError, FreeItems, FreeGrammar, ParseControl
  <1> QED
    BY <1>4, <1>5, <1>6, <1>7, <1>8, <1>9, <1>10 DEF Next, Parse

(* Resolving and cleaning up keep what the verdict depends on. *)
LEMMA LaterSteps ==
  ASSUME TypeInv, CodeOK, [Next]_vars, pc \notin ParseControl, ~FreeGrammar
  PROVE  /\ entry' = entry /\ entryRule' = entryRule /\ decl' = decl
         /\ pc' \notin ParseControl /\ (pc' = "done" => pc = "done")
         /\ (Verdict = "accepted") = (Verdict = "accepted")'
         /\ RulesAt' = RulesAt
  <1>1. ~Parse
    BY DEF Parse, DeclarationsEnd, UnknownItem, BeginToken, BeginRule, TokenEqual,
           TokenValue, TokenEnd, TokenSemicolon, TokenFailed, TokenExists, StoreToken,
           RuleEqual, BeginProduction, ExtractPRItem, RejectPRItem,
           EmptyProductionRule, ProductionFailed, PushProduction, RuleFailed,
           RuleExists, StoreRule, ParseControl
  <1>2. CASE \/ StartResolving \/ TokensResolved \/ RulesResolved
             \/ ReportError \/ FreeItems \/ UNCHANGED vars
    BY <1>2
    DEF StartResolving, TokensResolved, RulesResolved, ReportError, FreeItems, vars,
        frame, grammar, ParseControl, Verdict, RulesAt
  <1>3. ASSUME NEW n \in pending, ResolveToken(n)
        PROVE  /\ entry' = entry /\ entryRule' = entryRule /\ decl' = decl
               /\ pc \in ResolveControl /\ pc' \in ResolveControl \cup {"unresolved"}
               /\ code = "PRS_OK" /\ code' \in {"PRS_OK"} \cup ResolveCodes
               /\ RulesAt' = RulesAt
    BY <1>3
    DEF ResolveToken, CodeOK, FailedControl, CleaningControl, ResolveControl,
        ResolveCodes, RulesAt
  <1>4. ASSUME NEW n \in pending, ResolveRule(n)
        PROVE  /\ entry' = entry /\ entryRule' = entryRule /\ decl' = decl
               /\ pc \in ResolveControl /\ pc' \in ResolveControl \cup {"unresolved"}
               /\ code = "PRS_OK" /\ code' \in {"PRS_OK"} \cup ResolveCodes
               /\ RulesAt' = RulesAt
    <2>1. \A m \in DOMAIN rules : rules'[m].at = rules[m].at
      <3>1. rules \in [DOMAIN rules -> Rules]
        BY DEF TypeInv, TypeOK
      <3> QED
        BY <1>4, <3>1, ResolveKeeps DEF Rules
    <2>2. DOMAIN rules' = DOMAIN rules
      BY <1>4, ResolveKeeps
    <2> QED
      BY <1>4, <2>1, <2>2
      DEF ResolveRule, CodeOK, FailedControl, CleaningControl, ResolveControl,
          ResolveCodes, RulesAt
  <1>5. \A p \in ResolveControl \cup {"unresolved"} : p \notin ParseControl /\ p # "done"
    BY DEF ResolveControl, ParseControl
  <1> QED
    BY <1>1, <1>2, <1>3, <1>4, <1>5
    DEF Next, Resolve, Clean, Terminated, Verdict

LEMMA EntryStep == EntryInv /\ [Next]_vars => EntryInv'
  <1> SUFFICES ASSUME EntryInv, [Next]_vars PROVE EntryInv'
    OBVIOUS
  <1>1. TypeInv' /\ CodeOK' /\ (pc \in RuleControl => rule.at = decl)'
    BY TypeInvStep, CodeStep, RuleAtStep DEF EntryInv, EntryOK
  <1>2. pc \in Control /\ pc' \in Control /\ decl \in Nat
    BY <1>1, TypeFacts DEF EntryInv, TypeInv, TypeOK
  <1>3. CASE pc \in ParseControl /\ ~DeclarationsEnd /\ ~StoreRule
    <2>1. /\ entry' = entry /\ entryRule' = entryRule /\ rules' = rules
          /\ decl <= decl' /\ decl' \in Nat
          /\ pc' \in ParseControl \cup {"failed"}
      BY <1>3, ParsingSteps DEF EntryInv
    <2>2. Verdict # "accepted" /\ Verdict' # "accepted"
      BY <1>1, <1>2, <1>3, <2>1, Verdicts DEF EntryInv, VerdictOK
    <2>3. RulesAt' = RulesAt /\ pc # "done" /\ pc' # "done"
      BY <1>3, <2>1 DEF RulesAt, ParseControl
    <2>4. RulesAt \subseteq 1..decl'
      BY <1>2, <2>1 DEF EntryInv, EntryOK
    <2> QED
      BY <1>1, <2>1, <2>2, <2>3, <2>4 DEF EntryInv, EntryOK
  <1>4. CASE DeclarationsEnd
    <2>1. /\ entry' = entryRule /\ entryRule' = entryRule /\ decl' = decl
          /\ RulesAt' = RulesAt /\ pc # "done" /\ pc' = "parsed"
      BY <1>4 DEF DeclarationsEnd, RulesAt
    <2>2. Verdict' = "accepted"
      BY <1>1, <1>2, <2>1, Verdicts DEF ResolveControl, VerdictOK
    <2> QED
      BY <1>1, <2>1, <2>2 DEF EntryInv, EntryOK
  <1>5. CASE StoreRule
    <2>1. /\ entry' = entry /\ decl' = decl /\ pc = "ruleStore" /\ pc' = "declaration"
          /\ entryRule' = IF entryRule = 0 THEN rule.at ELSE entryRule
          /\ Text(decl) \notin DOMAIN rules
      BY <1>5 DEF StoreRule
    <2>2. Verdict # "accepted" /\ Verdict' # "accepted"
      BY <1>1, <1>2, <2>1, Verdicts DEF EntryInv, ParseControl, VerdictOK
    <2>3. rule.at = decl /\ decl >= 1
      BY <2>1 DEF EntryInv, EntryOK, RuleControl, TypeInv, ControlOK, Extracting,
                  ParseControl
    <2>4. RulesAt' = RulesAt \cup {decl}
      <3>1. DOMAIN rules' = DOMAIN rules \cup {Text(decl)}
        BY <1>5 DEF StoreRule, Insert
      <3>2. rules'[Text(decl)] = rule
        BY <1>5 DEF StoreRule, Insert
      <3>3. \A n \in DOMAIN rules : rules'[n] = rules[n]
        BY <1>5, <2>1 DEF StoreRule, Insert
      <3> QED
        BY <2>3, <3>1, <3>2, <3>3 DEF RulesAt
    <2>5. entryRule \in Nat /\ RulesAt \subseteq 1..decl
      BY <1>2 DEF EntryInv, EntryOK, TypeInv, TypeOK, Pointer
    <2>6. IF RulesAt = {} THEN entryRule = 0
          ELSE entryRule \in RulesAt /\ \A at \in RulesAt : entryRule <= at
      BY <2>1 DEF EntryInv, EntryOK
    <2>7. entryRule' \in RulesAt' /\ \A at \in RulesAt' : entryRule' <= at
      BY <1>2, <2>1, <2>3, <2>4, <2>5, <2>6
    <2>8. RulesAt' \subseteq 1..decl'
      BY <1>2, <2>1, <2>3, <2>4, <2>5
    <2> QED
      BY <1>1, <2>1, <2>2, <2>7, <2>8 DEF EntryInv, EntryOK
  <1>6. CASE FreeGrammar
    <2>1. /\ RulesAt' = {} /\ entry' = 0 /\ pc' = "done"
      BY <1>6 DEF FreeGrammar, RulesAt, EmptyTable
    <2> QED
      BY <1>1, <2>1 DEF EntryOK, EntryInv
  <1>7. CASE pc \notin ParseControl /\ ~FreeGrammar
    <2>1. /\ entry' = entry /\ entryRule' = entryRule /\ decl' = decl
          /\ pc' \notin ParseControl /\ (pc' = "done" => pc = "done")
          /\ (Verdict = "accepted") = (Verdict = "accepted")'
          /\ RulesAt' = RulesAt
      BY <1>7, LaterSteps DEF EntryInv
    <2>2. pc = "done" => pc' = "done"
      BY DEF Next, Parse, Resolve, Clean, Terminated, vars, DeclarationsEnd,
             UnknownItem, BeginToken, BeginRule, TokenEqual, TokenValue, TokenEnd,
             TokenSemicolon, TokenFailed, TokenExists, StoreToken, RuleEqual,
             BeginProduction, ExtractPRItem, RejectPRItem, EmptyProductionRule,
             ProductionFailed, PushProduction, RuleFailed, RuleExists, StoreRule,
             StartResolving, TokensResolved, RulesResolved, ResolveToken, ResolveRule,
             ReportError, FreeItems, FreeGrammar
    <2> QED
      BY <1>1, <2>1, <2>2 DEF EntryInv, EntryOK
  <1>8. StoreRule \/ DeclarationsEnd => pc \in ParseControl
    BY DEF StoreRule, DeclarationsEnd, ParseControl
  <1> QED
    BY <1>3, <1>4, <1>5, <1>6, <1>7

LEMMA InitEntryInv == Init => EntryInv
  <1> SUFFICES ASSUME Init PROVE EntryInv
    OBVIOUS
  <1>1. RulesAt = {} /\ Verdict = "reading"
    BY DEF Init, RulesAt, EmptyTable, Verdict, ParseControl
  <1> QED
    BY <1>1, InitTypeInv
    DEF Init, EntryInv, EntryOK, CodeOK, RuleControl, FailedControl, CleaningControl

LEMMA EntryIsFirst == EntryInv => EntryIsFirstRule
  <1> SUFFICES ASSUME EntryInv PROVE EntryIsFirstRule
    OBVIOUS
  <1>1. RulesAt = {rules[n].at : n \in DOMAIN rules}
    BY DEF RulesAt
  <1> QED
    BY <1>1 DEF EntryInv, EntryOK, EntryIsFirstRule

(***************************************************************************)
(* The entry of a grammar that was accepted is the first of its rules, and *)
(* there is none otherwise (parser.c:293-302): the rules are stored in the *)
(* order of the list, a rule that is refused is not, and the entry is set  *)
(* once the whole list has been accepted.                                  *)
(***************************************************************************)
THEOREM EntryCorrect == Spec => []EntryIsFirstRule
  BY InitEntryInv, EntryStep, EntryIsFirst, PTL DEF Spec
-----------------------------------------------------------------------------
(* Symbols are items of the kind their structure says *)

LEMMA ItemsKept == [Next]_vars => items' = items
  BY DEF Next, Parse, Resolve, Clean, Terminated, vars, DeclarationsEnd, UnknownItem,
         BeginToken, BeginRule, TokenEqual, TokenValue, TokenEnd, TokenSemicolon,
         TokenFailed, TokenExists, StoreToken, RuleEqual, BeginProduction,
         ExtractPRItem, RejectPRItem, EmptyProductionRule, ProductionFailed,
         PushProduction, RuleFailed, RuleExists, StoreRule, StartResolving,
         TokensResolved, RulesResolved, ResolveToken, ResolveRule, ReportError,
         FreeItems, FreeGrammar, frame

LEMMA EmptySymbols ==
  /\ \A at : TokenSymbolOK(ZeroToken(at)) /\ RuleSymbolsOK(EmptyRule(at))
               /\ ProductionSymbolsOK(EmptyProduction(at))
  /\ TokenSymbolOK(NoToken) /\ RuleSymbolsOK(NoRule) /\ ProductionSymbolsOK(NoProduction)
  BY DEF NoToken, NoRule, NoProduction, ZeroToken, EmptyRule, EmptyProduction,
         TokenSymbolOK, RuleSymbolsOK, ProductionSymbolsOK

(* what the scratch structures become, by the definitions of this state *)
LEMMA TokenSymbolKept ==
  ASSUME TypeInv, SymbolsOK, [Next]_vars
  PROVE  TokenSymbolOK(token')
  <1>1. TokenSymbolOK(token) /\ token \in Tokens
    BY DEF SymbolsOK, TypeInv, TypeOK
  <1>2. CASE token' = token \/ token' = NoToken \/ \E at : token' = ZeroToken(at)
    BY <1>1, <1>2, EmptySymbols
  <1>3. CASE \E q : token' = [token EXCEPT !.quantifier = q]
    BY <1>1, <1>3 DEF TokenSymbolOK, Tokens
  <1>4. CASE BeginToken
    <2>1. token'.type = "FG_RANGE_TOKEN" /\ token'.symbol = 0
      BY <1>4 DEF BeginToken, ZeroToken
    <2> QED
      BY <2>1 DEF TokenSymbolOK
  <1>5. CASE TokenValue
    <2>1. CASE (\E c : RejectToken(c)) \/ token' = token
      BY <1>2, <2>1 DEF RejectToken, FreeTokenContents
    <2>2. \A type, blocks, symbol : AcceptValue(type, blocks, symbol) =>
            token'.type = type /\ token'.symbol = symbol
      BY <1>1 DEF AcceptValue, Tokens
    <2>3. CASE ~AtEnd /\ ExtractValue(items[pos + 1].kind, pos + 1)
      <3>1. pos + 1 \in 1..Len(items)
        BY <2>3, NextItem
      <3> QED
        BY <2>1, <2>2, <2>3, <3>1 DEF ExtractValue, AbortOn, TokenSymbolOK, IsItem
    <2> QED
      BY <1>5, <2>1, <2>3 DEF TokenValue
  <1>6. CASE TokenEnd \/ TokenSemicolon
    BY <1>2, <1>3, <1>6
    DEF TokenEnd, TokenSemicolon, EndToken, RejectToken, FreeTokenContents
  <1>7. CASE \/ DeclarationsEnd \/ UnknownItem \/ BeginRule \/ TokenEqual
             \/ TokenFailed \/ TokenExists \/ StoreToken
             \/ RuleEqual \/ BeginProduction \/ ExtractPRItem \/ RejectPRItem
             \/ EmptyProductionRule \/ ProductionFailed \/ PushProduction
             \/ RuleFailed \/ RuleExists \/ StoreRule
             \/ StartResolving \/ TokensResolved \/ RulesResolved
             \/ ReportError \/ FreeItems \/ FreeGrammar \/ UNCHANGED vars
    BY <1>2, <1>7
    DEF DeclarationsEnd, UnknownItem, BeginRule, TokenEqual, TokenFailed, TokenExists,
        StoreToken, FailToken, RuleEqual, BeginProduction, ExtractPRItem, RejectPRItem,
        EmptyProductionRule, ProductionFailed, PushProduction, RuleFailed, RuleExists,
        StoreRule, StartResolving, TokensResolved, RulesResolved, ReportError,
        FreeItems, FreeGrammar, vars, scratch
  <1>8. ASSUME NEW n \in pending, ResolveToken(n) \/ ResolveRule(n)
        PROVE  TokenSymbolOK(token')
    BY <1>2, <1>8 DEF ResolveToken, ResolveRule, scratch
  <1> QED
    BY <1>4, <1>5, <1>6, <1>7, <1>8 DEF Next, Parse, Resolve, Clean, Terminated

LEMMA ProductionSymbolsKept ==
  ASSUME TypeInv, SymbolsOK, [Next]_vars
  PROVE  ProductionSymbolsOK(production')
  <1>1. /\ ProductionSymbolsOK(production)
        /\ production \in Productions /\ production.items \in Seq(PRItems)
    BY DEF SymbolsOK, TypeInv, TypeOK, Productions
  <1>2. CASE \/ production' = production \/ production' = NoProduction
             \/ \E at : production' = EmptyProduction(at)
    BY <1>1, <1>2, EmptySymbols
  <1>3. CASE ExtractPRItem
    <2>1. production'.items = Append(production.items, PRItem(pos))
      BY <1>1, <1>3 DEF ExtractPRItem, Productions
    <2>2. pos \in 1..Len(items) /\ items[pos].kind \in {"block", "upper", "lower"}
      BY <1>3, TypeFacts DEF ExtractPRItem, Extracting, ParseControl
    <2>3. PRItemSymbolOK(PRItem(pos))
      BY <2>2 DEF PRItem, PRItemSymbolOK, IsItem
    <2>4. \A i \in DOMAIN production'.items :
            \/ i \in DOMAIN production.items /\ production'.items[i] = production.items[i]
            \/ production'.items[i] = PRItem(pos)
      BY <1>1, <2>1
    <2> QED
      BY <1>1, <2>3, <2>4 DEF ProductionSymbolsOK
  <1>4. CASE \/ DeclarationsEnd \/ UnknownItem \/ BeginToken \/ BeginRule
             \/ TokenEqual \/ TokenValue \/ TokenEnd \/ TokenSemicolon
             \/ TokenFailed \/ TokenExists \/ StoreToken
             \/ RuleEqual \/ BeginProduction \/ RejectPRItem
             \/ EmptyProductionRule \/ ProductionFailed \/ PushProduction
             \/ RuleFailed \/ RuleExists \/ StoreRule
             \/ StartResolving \/ TokensResolved \/ RulesResolved
             \/ ReportError \/ FreeItems \/ FreeGrammar \/ UNCHANGED vars
    BY <1>2, <1>4
    DEF DeclarationsEnd, UnknownItem, BeginToken, BeginRule, TokenEqual, TokenValue,
        TokenEnd, TokenSemicolon, TokenFailed, TokenExists, StoreToken, RuleEqual,
        BeginProduction, RejectPRItem, EmptyProductionRule, ProductionFailed,
        PushProduction, RuleFailed, RuleExists, StoreRule, StartResolving,
        TokensResolved, RulesResolved, ReportError, FreeItems, FreeGrammar, vars, scratch
  <1>5. ASSUME NEW n \in pending, ResolveToken(n) \/ ResolveRule(n)
        PROVE  ProductionSymbolsOK(production')
    BY <1>2, <1>5 DEF ResolveToken, ResolveRule, scratch
  <1> QED
    BY <1>3, <1>4, <1>5 DEF Next, Parse, Resolve, Clean, Terminated

LEMMA RuleSymbolsKept ==
  ASSUME TypeInv, SymbolsOK, [Next]_vars
  PROVE  RuleSymbolsOK(rule')
  <1>1. /\ RuleSymbolsOK(rule) /\ ProductionSymbolsOK(production)
        /\ rule \in Rules /\ rule.list \in Seq(Productions)
        /\ production \in Productions
    BY DEF SymbolsOK, TypeInv, TypeOK, Rules
  <1>2. CASE \/ rule' = rule \/ rule' = NoRule \/ \E at : rule' = EmptyRule(at)
    BY <1>1, <1>2, EmptySymbols
  <1>3. RuleSymbolsOK([rule EXCEPT !.list = Append(rule.list, production)])
    <2>1. [rule EXCEPT !.list = Append(rule.list, production)].list
            = Append(rule.list, production)
      BY <1>1 DEF Rules
    <2>2. \A p \in DOMAIN Append(rule.list, production) :
            \/ /\ p \in DOMAIN rule.list
               /\ Append(rule.list, production)[p] = rule.list[p]
            \/ Append(rule.list, production)[p] = production
      BY <1>1
    <2> QED
      BY <1>1, <2>1, <2>2 DEF RuleSymbolsOK
  <1>4. [rule EXCEPT !.list = rule.list] = rule
    BY <1>1 DEF Rules
  <1>5. \A list, hasEnd : EndRule(list, hasEnd) =>
          \/ rule' = [rule EXCEPT !.list = list]
          \/ \E at : rule' = EmptyRule(at)
    BY DEF EndRule, FreeRuleContents
  <1>6. CASE BeginRule
    <2>1. rule'.list = <<>>
      BY <1>6 DEF BeginRule, EmptyRule
    <2> QED
      BY <2>1 DEF RuleSymbolsOK
  <1>7. CASE BeginProduction
    BY <1>2, <1>4, <1>5, <1>7 DEF BeginProduction
  <1>8. CASE PushProduction
    <2>1. \/ rule' = [rule EXCEPT !.list = Append(rule.list, production)]
          \/ \E at : rule' = EmptyRule(at)
      BY <1>5, <1>8 DEF PushProduction
    <2> QED
      BY <1>2, <1>3, <2>1
  <1>9. CASE \/ DeclarationsEnd \/ UnknownItem \/ BeginToken
             \/ TokenEqual \/ TokenValue \/ TokenEnd \/ TokenSemicolon
             \/ TokenFailed \/ TokenExists \/ StoreToken
             \/ RuleEqual \/ ExtractPRItem \/ RejectPRItem
             \/ EmptyProductionRule \/ ProductionFailed
             \/ RuleFailed \/ RuleExists \/ StoreRule
             \/ StartResolving \/ TokensResolved \/ RulesResolved
             \/ ReportError \/ FreeItems \/ FreeGrammar \/ UNCHANGED vars
    BY <1>2, <1>9
    DEF DeclarationsEnd, UnknownItem, BeginToken, TokenEqual, TokenValue,
        TokenEnd, TokenSemicolon, TokenFailed, TokenExists, StoreToken, RuleEqual,
        ExtractPRItem, RejectPRItem, EmptyProductionRule, ProductionFailed,
        RuleFailed, RuleExists, StoreRule, StartResolving,
        TokensResolved, RulesResolved, ReportError, FreeItems, FreeGrammar, vars, scratch
  <1>10. ASSUME NEW n \in pending, ResolveToken(n) \/ ResolveRule(n)
        PROVE  RuleSymbolsOK(rule')
    BY <1>2, <1>10 DEF ResolveToken, ResolveRule, scratch
  <1> QED
    BY <1>6, <1>7, <1>8, <1>9, <1>10 DEF Next, Parse, Resolve, Clean, Terminated

(* What the resolver does to a production changes no symbol. *)
LEMMA ResolvedSymbols ==
  ASSUME NEW p \in Productions
  PROVE  /\ DOMAIN ResolveProduction(p).items = DOMAIN p.items
         /\ \A i \in DOMAIN p.items :
              /\ ResolveProduction(p).items[i].type = p.items[i].type
              /\ ResolveProduction(p).items[i].symbol = p.items[i].symbol
         /\ ProductionSymbolsOK(p) => ProductionSymbolsOK(ResolveProduction(p))
  <1>1. p.items \in Seq(PRItems)
    BY DEF Productions
  <1>2. \A i \in DOMAIN p.items : p.items[i] \in PRItems
    BY <1>1
  <1>3. /\ DOMAIN ResolveProduction(p).items = DOMAIN p.items
        /\ \A i \in DOMAIN p.items :
             ResolveProduction(p).items[i] \in {p.items[i], ResolveItem(p.items[i])}
    BY DEF ResolveProduction, Productions
  <1>4. \A x \in PRItems : ResolveItem(x).type = x.type /\ ResolveItem(x).symbol = x.symbol
    BY DEF ResolveItem, PRItems
  <1>5. \A i \in DOMAIN p.items :
          /\ ResolveProduction(p).items[i].type = p.items[i].type
          /\ ResolveProduction(p).items[i].symbol = p.items[i].symbol
    BY <1>2, <1>3, <1>4
  <1> QED
    BY <1>3, <1>5 DEF ProductionSymbolsOK, PRItemSymbolOK

LEMMA TableSymbolsKept ==
  ASSUME TypeInv, SymbolsOK, [Next]_vars
  PROVE  /\ \A n \in DOMAIN tokens' : TokenSymbolOK(tokens'[n])
         /\ \A n \in DOMAIN rules' : RuleSymbolsOK(rules'[n])
  <1>1. /\ \A n \in DOMAIN tokens : TokenSymbolOK(tokens[n]) /\ tokens[n] \in Tokens
        /\ \A n \in DOMAIN rules : RuleSymbolsOK(rules[n]) /\ rules[n] \in Rules
        /\ TokenSymbolOK(token) /\ RuleSymbolsOK(rule)
    BY DEF SymbolsOK, TypeInv, TypeOK
  <1>2. CASE tokens' = tokens /\ rules' = rules
    BY <1>1, <1>2
  <1>3. CASE StoreToken
    <2>1. rules' = rules /\ tokens' = Insert(tokens, Text(decl), token)
      BY <1>3 DEF StoreToken
    <2>2. \A n \in DOMAIN tokens' :
            \/ tokens'[n] = token
            \/ n \in DOMAIN tokens /\ tokens'[n] = tokens[n]
      BY <2>1, InsertEntries
    <2> QED
      BY <1>1, <2>1, <2>2
  <1>4. CASE StoreRule
    <2>1. tokens' = tokens /\ rules' = Insert(rules, Text(decl), rule)
      BY <1>4 DEF StoreRule
    <2>2. \A n \in DOMAIN rules' :
            \/ rules'[n] = rule
            \/ n \in DOMAIN rules /\ rules'[n] = rules[n]
      BY <2>1, InsertEntries
    <2> QED
      BY <1>1, <2>1, <2>2
  <1>5. ASSUME NEW n \in pending, ResolveToken(n)
        PROVE  /\ \A m \in DOMAIN tokens' : TokenSymbolOK(tokens'[m])
               /\ \A m \in DOMAIN rules' : RuleSymbolsOK(rules'[m])
    <2>1. \A at : /\ [tokens[n] EXCEPT !.ref = at].type = tokens[n].type
                  /\ [tokens[n] EXCEPT !.ref = at].symbol = tokens[n].symbol
      BY <1>1, <1>5, ResolveKeeps DEF Tokens
    <2>2. \A at : TokenSymbolOK([tokens[n] EXCEPT !.ref = at])
      BY <1>1, <1>5, <2>1, ResolveKeeps DEF TokenSymbolOK
    <2> QED
      BY <1>1, <1>5, <2>2, ResolveKeeps
  <1>6. ASSUME NEW n \in pending, ResolveRule(n)
        PROVE  /\ \A m \in DOMAIN tokens' : TokenSymbolOK(tokens'[m])
               /\ \A m \in DOMAIN rules' : RuleSymbolsOK(rules'[m])
    <2>1. n \in DOMAIN rules /\ rules[n].list \in Seq(Productions)
      BY <1>1, <1>6, ResolveKeeps DEF Rules
    <2>2. rules'[n].list =
            [p \in DOMAIN rules[n].list |-> ResolveProduction(rules[n].list[p])]
      BY <1>1, <1>6, <2>1, ResolveKeeps DEF Rules
    <2>3. \A p \in DOMAIN rules[n].list : rules[n].list[p] \in Productions
      BY <2>1
    <2>4. RuleSymbolsOK(rules'[n])
      BY <1>1, <2>1, <2>2, <2>3, ResolvedSymbols DEF RuleSymbolsOK
    <2> QED
      BY <1>1, <1>6, <2>4, ResolveKeeps
  <1>7. CASE FreeGrammar
    BY <1>7 DEF FreeGrammar, EmptyTable
  <1> QED
    BY <1>2, <1>3, <1>4, <1>5, <1>6, <1>7, QuietTables
    DEF Next, Parse, Resolve, Clean, Terminated

LEMMA SymbolsStep == TypeInv /\ SymbolsOK /\ [Next]_vars => SymbolsOK'
  <1> SUFFICES ASSUME TypeInv, SymbolsOK, [Next]_vars PROVE SymbolsOK'
    OBVIOUS
  <1>1. items' = items
    BY ItemsKept
  <1>2. /\ TokenSymbolOK(token') /\ RuleSymbolsOK(rule') /\ ProductionSymbolsOK(production')
        /\ \A n \in DOMAIN tokens' : TokenSymbolOK(tokens'[n])
        /\ \A n \in DOMAIN rules' : RuleSymbolsOK(rules'[n])
    BY TokenSymbolKept, ProductionSymbolsKept, RuleSymbolsKept, TableSymbolsKept
  <1>3. TokenSymbolOK(token)' /\ \A n \in DOMAIN tokens' : TokenSymbolOK(tokens[n])'
    BY <1>1, <1>2 DEF TokenSymbolOK, IsItem
  <1>4. ProductionSymbolsOK(production)'
    BY <1>1, <1>2 DEF ProductionSymbolsOK, PRItemSymbolOK, IsItem
  <1>5. RuleSymbolsOK(rule)'
    BY <1>1, <1>2 DEF RuleSymbolsOK, ProductionSymbolsOK, PRItemSymbolOK, IsItem
  <1>6. ASSUME NEW n \in DOMAIN rules' PROVE RuleSymbolsOK(rules[n])'
    BY <1>1, <1>2 DEF RuleSymbolsOK, ProductionSymbolsOK, PRItemSymbolOK, IsItem
  <1> QED
    BY <1>3, <1>4, <1>5, <1>6 DEF SymbolsOK
-----------------------------------------------------------------------------
(* Errors are reported at the item that is wrong *)

LEMMA NextPlace ==
  ASSUME TypeInv, pc \in Extracting, NoSemicolon(decl, pos), Advance
  PROVE  /\ pos' \in Nat /\ NoSemicolon(decl, pos' - 1) /\ NoSemicolon(decl, pos - 1)
         /\ \A kinds : NextIs(kinds) /\ "semicolon" \notin kinds => NoSemicolon(decl, pos')
         /\ ~NextIs({"semicolon"}) => NoSemicolon(decl, pos')
  <1>1. pos \in Nat /\ decl \in Nat /\ decl >= 1
    BY TypeFacts DEF TypeInv, ControlOK
  <1>2. pos' \in {pos, pos + 1}
    BY DEF Advance
  <1>3. CASE pos' = pos
    <2>1. AtEnd
      BY <1>1, <1>3 DEF Advance
    <2> QED
      BY <1>1, <1>3, <2>1 DEF NextIs, NoSemicolon
  <1>4. CASE pos' = pos + 1 /\ ~AtEnd
    BY <1>1, <1>4 DEF NextIs, NoSemicolon
  <1> QED
    BY <1>1, <1>2, <1>3, <1>4 DEF Advance

LEMMA ParsePlaces ==
  ASSUME TypeInv, CodeOK, PlaceOK, Parse
  PROVE  PlaceOK'
  <1>1. pos \in Nat /\ decl \in Nat /\ decl <= pos
    BY TypeFacts
  <1>2. items' = items
    BY ItemsKept DEF Next
  <1>3. CASE DeclarationsEnd
    BY <1>3 DEF DeclarationsEnd, PlaceOK, ParseControl, Extracting
  <1>4. CASE UnknownItem \/ BeginToken \/ BeginRule
    <2>1. /\ pc = "declaration" /\ pos' = pos + 1 /\ decl' = pos + 1
          /\ items[pos + 1].kind # "semicolon" \/ UnknownItem
      BY <1>4 DEF UnknownItem, BeginToken, BeginRule, NextIs
    <2>2. /\ errItem = 0 /\ NoSemicolon(decl, pos - 1)' /\ decl' >= 1
          /\ ~UnknownItem => NoSemicolon(decl, pos)'
      BY <1>1, <1>2, <2>1 DEF PlaceOK, ParseControl, NoSemicolon
    <2>3. CASE UnknownItem
      BY <1>4, <2>1, <2>2, <2>3, CodeSets
      DEF UnknownItem, PlaceOK, ParseControl, Extracting
    <2>4. CASE BeginToken
      BY <2>1, <2>2, <2>4 DEF BeginToken, UnknownItem, PlaceOK, ParseControl, Extracting
    <2>5. CASE BeginRule
      BY <2>1, <2>2, <2>5 DEF BeginRule, UnknownItem, PlaceOK, ParseControl, Extracting
    <2> QED
      BY <1>4, <2>3, <2>4, <2>5
  <1>5. CASE TokenEqual \/ TokenValue \/ TokenEnd \/ TokenSemicolon \/ RuleEqual
    <2>1. /\ pc \in {"tokenEqual", "tokenValue", "tokenEnd", "tokenSemicolon", "ruleEqual"}
          /\ Advance /\ decl' = decl /\ errItem' = errItem
      BY <1>5 DEF TokenEqual, TokenValue, TokenEnd, TokenSemicolon, RuleEqual
    <2>2. pc \in Extracting /\ decl >= 1 /\ errItem = 0 /\ NoSemicolon(decl, pos)
      BY <2>1 DEF PlaceOK, ParseControl, Extracting
    <2>3. /\ NoSemicolon(decl, pos - 1)'
          /\ \/ NoSemicolon(decl, pos)'
             \/ NextIs({"semicolon"})
      BY <1>2, <2>1, <2>2, NextPlace DEF NoSemicolon
    <2>4. /\ pc' \in {"tokenFailed", "tokenStore", "ruleFailed", "production",
                      "tokenValue", "tokenEnd", "tokenSemicolon", "aborted"}
          /\ pc' = "ruleFailed" => code' = "FG_RULE_INVALID"
          /\ pc' \in {"production", "tokenValue", "tokenEnd", "tokenSemicolon", "aborted"} =>
               ~NextIs({"semicolon"})
      <3>1. CASE TokenValue
        BY <3>1 DEF TokenValue, ExtractValue, AbortOn, RejectToken, AcceptValue, NextIs,
                    Blocks, RangeErrors, Fatal
      <3>2. CASE TokenEqual \/ TokenEnd \/ TokenSemicolon \/ RuleEqual
        BY <3>2 DEF TokenEqual, TokenEnd, TokenSemicolon, RuleEqual, RejectToken,
                    EndToken, NextIs, Quantifiers
      <3> QED
        BY <1>5, <3>1, <3>2
    <2> QED
      BY <2>1, <2>2, <2>3, <2>4, CodeSets DEF PlaceOK, ParseControl, Extracting
  <1>6. CASE TokenFailed \/ TokenExists \/ RuleExists
    <2>1. /\ pc \in {"tokenFailed", "tokenStore", "ruleStore"} /\ pc' = "failed"
          /\ decl' = decl /\ pos' = pos /\ errItem' = decl
          /\ \/ code' = code /\ pc = "tokenFailed"
             \/ code' \in {"FG_TOKEN_EXISTS", "FG_RULE_EXISTS"}
      BY <1>6 DEF TokenFailed, TokenExists, RuleExists, FailToken
    <2>2. code' \notin PRItemCodes
      BY <2>1, CodeSets DEF CodeOK
    <2>3. decl >= 1 /\ NoSemicolon(decl, pos - 1)'
      BY <1>2, <2>1 DEF PlaceOK, ParseControl, Extracting, NoSemicolon
    <2> QED
      BY <2>1, <2>2, <2>3 DEF PlaceOK, ParseControl, Extracting
  <1>7. CASE StoreToken \/ StoreRule
    BY <1>7 DEF StoreToken, StoreRule, PlaceOK, ParseControl, Extracting
  <1>8. CASE BeginProduction
    <2>1. /\ pc = "production" /\ Advance /\ decl' = decl /\ errItem' = errItem
          /\ pc' \in {"ruleFailed", "ruleStore", "prItem"}
          /\ pc' = "ruleFailed" => code' \in {"FG_RULE_EMPTY", "FG_RULE_MISSING_END"}
      BY <1>8 DEF BeginProduction, EndRule
    <2>2. pc \in Extracting /\ decl >= 1 /\ errItem = 0 /\ NoSemicolon(decl, pos)
      BY <2>1 DEF PlaceOK, ParseControl, Extracting
    <2>3. NoSemicolon(decl, pos - 1)'
      BY <1>2, <2>1, <2>2, NextPlace DEF NoSemicolon
    <2> QED
      BY <2>1, <2>2, <2>3, CodeSets DEF PlaceOK, ParseControl, Extracting
  <1>9. CASE ExtractPRItem
    <2>1. /\ pc = "prItem" /\ Advance /\ decl' = decl /\ errItem' = errItem
          /\ pc' \in {"productionEnd", "prItem"} /\ items[pos].kind # "semicolon"
      BY <1>9 DEF ExtractPRItem
    <2>2. /\ pc \in Extracting /\ decl >= 1 /\ errItem = 0 /\ NoSemicolon(decl, pos - 1)
      BY <2>1 DEF PlaceOK, ParseControl, Extracting
    <2>3. NoSemicolon(decl, pos)
      BY <1>1, <2>1, <2>2 DEF NoSemicolon
    <2>4. NoSemicolon(decl, pos - 1)'
      BY <1>2, <2>1, <2>2, <2>3, NextPlace DEF NoSemicolon
    <2> QED
      BY <2>1, <2>2, <2>4 DEF PlaceOK, ParseControl, Extracting
  <1>10. CASE RejectPRItem \/ EmptyProductionRule
    <2>1. /\ pc = "prItem" /\ pos' = pos /\ decl' = decl /\ pc' = "productionFailed"
          /\ errItem' = IF code' \in PRItemCodes THEN pos ELSE errItem
      BY <1>10, CodeSets DEF RejectPRItem, EmptyProductionRule
    <2>2. decl >= 1 /\ errItem = 0 /\ NoSemicolon(decl, pos - 1)'
      BY <1>2, <2>1 DEF PlaceOK, ParseControl, Extracting, NoSemicolon
    <2> QED
      BY <2>1, <2>2 DEF PlaceOK, ParseControl, Extracting
  <1>11. CASE ProductionFailed
    <2>1. /\ pc = "productionFailed" /\ pos' = pos /\ decl' = decl /\ pc' = "ruleFailed"
          /\ errItem' = errItem /\ code' = code
      BY <1>11 DEF ProductionFailed
    <2>2. /\ decl >= 1 /\ NoSemicolon(decl, pos - 1)'
          /\ errItem = IF code \in PRItemCodes THEN pos ELSE 0
      BY <1>2, <2>1 DEF PlaceOK, ParseControl, Extracting, NoSemicolon
    <2> QED
      BY <2>1, <2>2 DEF PlaceOK, ParseControl, Extracting
  <1>12. CASE PushProduction
    <2>1. /\ pc \in {"prItem", "productionEnd"} /\ pos' = pos /\ decl' = decl
          /\ errItem' = errItem /\ pc' \in {"ruleFailed", "ruleStore", "production"}
          /\ pc' = "ruleFailed" => code' \in {"FG_RULE_EMPTY", "FG_RULE_MISSING_END"}
          /\ pc' = "production" => items[pos].kind = "pipe"
      BY <1>12 DEF PushProduction, EndRule
    <2>2. decl >= 1 /\ errItem = 0 /\ NoSemicolon(decl, pos - 1)
      BY <2>1 DEF PlaceOK, ParseControl, Extracting
    <2>3. /\ NoSemicolon(decl, pos - 1)'
          /\ pc' = "production" => NoSemicolon(decl, pos)'
      BY <1>1, <1>2, <2>1, <2>2 DEF NoSemicolon
    <2> QED
      BY <2>1, <2>2, <2>3, CodeSets DEF PlaceOK, ParseControl, Extracting
  <1>13. CASE RuleFailed
    <2>1. /\ pc = "ruleFailed" /\ pos' = pos /\ decl' = decl /\ pc' = "failed"
          /\ errItem' = IF errItem = 0 THEN decl ELSE errItem
          /\ code' = code
      BY <1>13 DEF RuleFailed
    <2>2. /\ decl >= 1 /\ NoSemicolon(decl, pos - 1)'
          /\ errItem = IF code \in PRItemCodes THEN pos ELSE 0
      BY <1>2, <2>1 DEF PlaceOK, ParseControl, Extracting, NoSemicolon
    <2> QED
      BY <1>1, <2>1, <2>2 DEF PlaceOK, ParseControl, Extracting
  <1> QED
    BY <1>3, <1>4, <1>5, <1>6, <1>7, <1>8, <1>9, <1>10, <1>11, <1>12, <1>13 DEF Parse

LEMMA PlaceStep == TypeInv /\ CodeOK /\ PlaceOK /\ [Next]_vars => PlaceOK'
  <1> SUFFICES ASSUME TypeInv, CodeOK, PlaceOK, [Next]_vars PROVE PlaceOK'
    OBVIOUS
  <1>1. CASE UNCHANGED vars
    BY <1>1 DEF vars, PlaceOK, NoSemicolon
  <1>2. CASE Resolve \/ Clean
    <2>1. pc' \in {"resolveTokens", "resolveRules", "resolved", "unresolved", "clean",
                   "itemsFreed", "done"}
      BY <1>2 DEF Resolve, StartResolving, TokensResolved, RulesResolved, ResolveToken,
                  ResolveRule, Clean, ReportError, FreeItems, FreeGrammar
    <2> QED
      BY <2>1 DEF PlaceOK, ParseControl, Extracting
  <1> QED
    BY <1>1, <1>2, ParsePlaces DEF Next, Terminated

LEMMA UnresolvedStep ==
  TypeInv /\ SymbolsOK /\ UnresolvedOK /\ [Next]_vars => UnresolvedOK'
  <1> SUFFICES ASSUME TypeInv, SymbolsOK, UnresolvedOK, [Next]_vars,
                      pc' = "unresolved"
               PROVE  UnresolvedOK'
    BY DEF UnresolvedOK
  <1>1. items' = items
    BY ItemsKept
  <1>2. ASSUME NEW n \in pending, ResolveToken(n) PROVE UnresolvedOK'
    <2>1. /\ n \in DOMAIN tokens /\ tokens' = tokens
          /\ tokens[n].type = "FG_REF_TOKEN" /\ Text(tokens[n].symbol) \notin DOMAIN tokens
          /\ errItem' = tokens[n].symbol /\ code' = "FG_UNKNOWN_TOKEN"
      BY <1>2, ResolveKeeps DEF ResolveToken
    <2>2. IsItem(tokens[n].symbol, "upper")
      BY <2>1 DEF SymbolsOK, TokenSymbolOK
    <2> QED
      BY <1>1, <2>1, <2>2 DEF UnresolvedOK, IsItem, Text
  <1>3. ASSUME NEW n \in pending, ResolveRule(n) PROVE UnresolvedOK'
    <2>1. /\ n \in DOMAIN rules /\ tokens' = tokens /\ DOMAIN rules' = DOMAIN rules
          /\ rules[n] \in Rules /\ rules[n].list \in Seq(Productions)
      BY <1>3, ResolveKeeps DEF TypeInv, TypeOK, Rules
    <2>2. PICK p \in DOMAIN rules[n].list : \E i \in DOMAIN rules[n].list[p].items :
            /\ LastFailure(rules[n].list, p, i)
            /\ errItem' = rules[n].list[p].items[i].symbol
            /\ code' = IF rules[n].list[p].items[i].type = "FG_RULE_ITEM"
                         THEN "FG_UNKNOWN_RULE" ELSE "FG_UNKNOWN_TOKEN"
      BY <1>3 DEF ResolveRule
    <2>3. PICK i \in DOMAIN rules[n].list[p].items :
            /\ Unknown(rules[n].list[p].items[i])
            /\ errItem' = rules[n].list[p].items[i].symbol
            /\ code' = IF rules[n].list[p].items[i].type = "FG_RULE_ITEM"
                         THEN "FG_UNKNOWN_RULE" ELSE "FG_UNKNOWN_TOKEN"
      BY <2>2 DEF LastFailure, FailsAt
    <2> DEFINE x == rules[n].list[p].items[i]
    <2>4. x.type \in PRItemTypes
      <3>1. rules[n].list[p] \in Productions
        BY <2>1
      <3>2. rules[n].list[p].items \in Seq(PRItems)
        BY <3>1 DEF Productions
      <3>3. x \in PRItems
        BY <2>3, <3>2
      <3> QED
        BY <3>3 DEF PRItems
    <2>5. PRItemSymbolOK(x)
      BY <2>1, <2>3 DEF SymbolsOK, RuleSymbolsOK, ProductionSymbolsOK
    <2> QED
      BY <1>1, <2>1, <2>3, <2>4, <2>5
      DEF UnresolvedOK, PRItemSymbolOK, PRItemTypes, IsItem, Unknown, TableOf, Text
  <1>4. CASE UNCHANGED vars
    BY <1>4 DEF vars, UnresolvedOK, Text
  <1>5. ~StartResolving /\ ~TokensResolved /\ ~RulesResolved /\ ~Clean
    BY DEF StartResolving, TokensResolved, RulesResolved, Clean, ReportError, FreeItems,
           FreeGrammar
  <1>6. ~Parse
    <2>1. \A kind, i : ExtractValue(kind, i) => pc' # "unresolved"
      BY DEF ExtractValue, AbortOn, RejectToken, AcceptValue
    <2>2. \A list, hasEnd : EndRule(list, hasEnd) => pc' # "unresolved"
      BY DEF EndRule
    <2> QED
      BY <2>1, <2>2
      DEF Parse, DeclarationsEnd, UnknownItem, BeginToken, BeginRule, TokenEqual,
          TokenValue, TokenEnd, TokenSemicolon, TokenFailed, TokenExists, StoreToken,
          RuleEqual, BeginProduction, ExtractPRItem, RejectPRItem,
          EmptyProductionRule, ProductionFailed, PushProduction, RuleFailed,
          RuleExists, StoreRule, RejectToken, EndToken, FailToken
  <1> QED
    BY <1>2, <1>3, <1>4, <1>5, <1>6 DEF Next, Resolve, Terminated

LEMMA ErrorStep == ErrorInv /\ [Next]_vars => ErrorInv'
  BY TypeInvStep, CodeStep, PlaceStep, SymbolsStep, UnresolvedStep DEF ErrorInv

LEMMA InitErrorInv == Init => ErrorInv
  <1> SUFFICES ASSUME Init PROVE ErrorInv
    OBVIOUS
  <1>1. CodeOK /\ PlaceOK /\ UnresolvedOK
    BY DEF Init, CodeOK, PlaceOK, UnresolvedOK, FailedControl, CleaningControl,
           ParseControl, Extracting
  <1>2. SymbolsOK
    BY EmptySymbols DEF Init, SymbolsOK, EmptyTable
  <1> QED
    BY <1>1, <1>2, InitTypeInv DEF ErrorInv

LEMMA ErrorsLocated == ErrorInv => ErrorLocated
  <1> SUFFICES ASSUME ErrorInv PROVE ErrorLocated
    OBVIOUS
  <1>1. pos \in Nat /\ decl \in Nat /\ decl <= pos
    BY TypeFacts DEF ErrorInv
  <1>2. UnresolvedOK
    BY DEF ErrorInv
  <1>3. ASSUME pc = "failed"
        PROVE  /\ code \notin {"PRS_OK"} \cup ResolveCodes
               /\ errItem = IF code \in PRItemCodes THEN pos ELSE decl
               /\ decl \in 1..pos
               /\ \A i \in decl..(pos - 1) : items[i].kind # "semicolon"
    BY <1>1, <1>3 DEF ErrorInv, CodeOK, PlaceOK, NoSemicolon
  <1> QED
    BY <1>2, <1>3 DEF ErrorLocated, UnresolvedOK

(***************************************************************************)
(* Every error is reported at the item that is wrong: an item of a         *)
(* production is named itself (formal_grammar.c:293), any other failure    *)
(* names the declaration it is in, which has not ended (parser.c:255 and   *)
(* :281), and a reference that cannot be resolved is one nobody declares.  *)
(***************************************************************************)
THEOREM ErrorsAtTheirItem == Spec => []ErrorLocated
  BY InitErrorInv, ErrorStep, ErrorsLocated, PTL DEF Spec
-----------------------------------------------------------------------------
(* References are sound *)

LEMMA EmptyReferences ==
  /\ \A at : /\ ZeroToken(at).ref = 0
             /\ NoRuleRefs(EmptyRule(at)) /\ NoProductionRefs(EmptyProduction(at))
  /\ NoToken.ref = 0 /\ NoRuleRefs(NoRule) /\ NoProductionRefs(NoProduction)
  BY DEF NoToken, NoRule, NoProduction, ZeroToken, EmptyRule, EmptyProduction,
         NoRuleRefs, NoProductionRefs

LEMMA UnreferencedStep ==
  ASSUME TypeInv, Unreferenced, Parse
  PROVE  Unreferenced'
  <1>1. /\ token \in Tokens /\ token.ref = 0
        /\ production \in Productions /\ production.items \in Seq(PRItems)
        /\ NoProductionRefs(production)
        /\ rule \in Rules /\ rule.list \in Seq(Productions) /\ NoRuleRefs(rule)
        /\ \A n \in DOMAIN tokens : tokens[n].ref = 0
        /\ \A n \in DOMAIN rules : NoRuleRefs(rules[n])
    BY DEF Unreferenced, TypeInv, TypeOK, Productions, Rules
  <1>2. token'.ref = 0
    <2>1. CASE token' = token \/ token' = NoToken \/ \E at : token' = ZeroToken(at)
      BY <1>1, <2>1, EmptyReferences
    <2>2. CASE \E q : token' = [token EXCEPT !.quantifier = q]
      BY <1>1, <2>2 DEF Tokens
    <2>3. CASE BeginToken
      BY <2>3 DEF BeginToken, ZeroToken
    <2>4. CASE TokenValue
      <3>1. \A type, blocks, symbol : AcceptValue(type, blocks, symbol) => token'.ref = 0
        BY <1>1 DEF AcceptValue, Tokens
      <3>2. \A c : RejectToken(c) => token'.ref = 0
        BY EmptyReferences DEF RejectToken, FreeTokenContents
      <3>3. AbortOn(items[pos + 1].kind) => token'.ref = 0
        BY <2>1 DEF AbortOn
      <3> QED
        BY <2>4, <3>1, <3>2, <3>3 DEF TokenValue, ExtractValue
    <2>5. CASE TokenEnd \/ TokenSemicolon
      BY <2>1, <2>2, <2>5
      DEF TokenEnd, TokenSemicolon, EndToken, RejectToken, FreeTokenContents
    <2>6. CASE ~(BeginToken \/ TokenValue \/ TokenEnd \/ TokenSemicolon)
      BY <2>1, <2>6
      DEF Parse, DeclarationsEnd, UnknownItem, BeginRule, TokenEqual, TokenFailed,
          TokenExists, StoreToken, FailToken, RuleEqual, BeginProduction,
          ExtractPRItem, RejectPRItem, EmptyProductionRule, ProductionFailed,
          PushProduction, RuleFailed, RuleExists, StoreRule, scratch
    <2> QED
      BY <2>3, <2>4, <2>5, <2>6
  <1>3. NoProductionRefs(production')
    <2>1. CASE ExtractPRItem
      <3>1. production'.items = Append(production.items, PRItem(pos))
        BY <1>1, <2>1 DEF ExtractPRItem, Productions
      <3>2. \A i \in DOMAIN production'.items :
              \/ i \in DOMAIN production.items /\ production'.items[i] = production.items[i]
              \/ production'.items[i] = PRItem(pos)
        BY <1>1, <3>1
      <3> QED
        BY <1>1, <3>2 DEF NoProductionRefs, PRItem
    <2>2. CASE ~ExtractPRItem
      <3>1. \/ production' = production \/ production' = NoProduction
            \/ \E at : production' = EmptyProduction(at)
        BY <2>2
        DEF Parse, DeclarationsEnd, UnknownItem, BeginToken, BeginRule, TokenEqual,
            TokenValue, TokenEnd, TokenSemicolon, TokenFailed, TokenExists, StoreToken,
            RuleEqual, BeginProduction, RejectPRItem, EmptyProductionRule,
            ProductionFailed, PushProduction, RuleFailed, RuleExists, StoreRule, scratch
      <3> QED
        BY <1>1, <3>1, EmptyReferences
    <2> QED
      BY <2>1, <2>2
  <1>4. NoRuleRefs(rule')
    <2>1. NoRuleRefs([rule EXCEPT !.list = Append(rule.list, production)])
      <3>1. [rule EXCEPT !.list = Append(rule.list, production)].list
              = Append(rule.list, production)
        BY <1>1 DEF Rules
      <3>2. \A p \in DOMAIN Append(rule.list, production) :
              \/ /\ p \in DOMAIN rule.list
                 /\ Append(rule.list, production)[p] = rule.list[p]
              \/ Append(rule.list, production)[p] = production
        BY <1>1
      <3> QED
        BY <1>1, <3>1, <3>2 DEF NoRuleRefs
    <2>2. [rule EXCEPT !.list = rule.list] = rule
      BY <1>1 DEF Rules
    <2>3. \A list, hasEnd : EndRule(list, hasEnd) =>
            \/ rule' = [rule EXCEPT !.list = list]
            \/ \E at : rule' = EmptyRule(at)
      BY DEF EndRule, FreeRuleContents
    <2>4. CASE BeginRule
      <3>1. rule'.list = <<>>
        BY <2>4 DEF BeginRule, EmptyRule
      <3> QED
        BY <3>1 DEF NoRuleRefs
    <2>5. CASE BeginProduction
      BY <1>1, <2>2, <2>3, <2>5, EmptyReferences DEF BeginProduction
    <2>6. CASE PushProduction
      <3>1. \/ rule' = [rule EXCEPT !.list = Append(rule.list, production)]
            \/ \E at : rule' = EmptyRule(at)
        BY <2>3, <2>6 DEF PushProduction
      <3> QED
        BY <2>1, <3>1, EmptyReferences
    <2>7. CASE ~(BeginRule \/ BeginProduction \/ PushProduction)
      <3>1. \/ rule' = rule \/ rule' = NoRule \/ \E at : rule' = EmptyRule(at)
        BY <2>7
        DEF Parse, DeclarationsEnd, UnknownItem, BeginToken, TokenEqual,
            TokenValue, TokenEnd, TokenSemicolon, TokenFailed, TokenExists, StoreToken,
            RuleEqual, ExtractPRItem, RejectPRItem, EmptyProductionRule,
            ProductionFailed, RuleFailed, RuleExists, StoreRule, scratch
      <3> QED
        BY <1>1, <3>1, EmptyReferences
    <2> QED
      BY <2>4, <2>5, <2>6, <2>7
  <1>5. /\ \A n \in DOMAIN tokens' : tokens'[n].ref = 0
        /\ \A n \in DOMAIN rules' : NoRuleRefs(rules'[n])
    <2>1. CASE StoreToken
      <3>1. rules' = rules /\ tokens' = Insert(tokens, Text(decl), token)
        BY <2>1 DEF StoreToken
      <3>2. \A n \in DOMAIN tokens' :
              \/ tokens'[n] = token
              \/ n \in DOMAIN tokens /\ tokens'[n] = tokens[n]
        BY <3>1, InsertEntries
      <3> QED
        BY <1>1, <3>1, <3>2
    <2>2. CASE StoreRule
      <3>1. tokens' = tokens /\ rules' = Insert(rules, Text(decl), rule)
        BY <2>2 DEF StoreRule
      <3>2. \A n \in DOMAIN rules' :
              \/ rules'[n] = rule
              \/ n \in DOMAIN rules /\ rules'[n] = rules[n]
        BY <3>1, InsertEntries
      <3> QED
        BY <1>1, <3>1, <3>2
    <2> QED
      BY <1>1, <2>1, <2>2, QuietTables DEF Parse
  <1> QED
    BY <1>2, <1>3, <1>4, <1>5 DEF Unreferenced, NoRuleRefs, NoProductionRefs

(* As long as no reference is set, all of them are sound. *)
LEMMA UnreferencedNext ==
  ASSUME Unreferenced', \A n : ~TokenDone(n)' /\ ~RuleDone(n)'
  PROVE  RefsOK'
  BY DEF Unreferenced, NoRuleRefs, NoProductionRefs, TokenRefOK, RuleRefsOK,
         ProductionRefsOK, PRItemRefOK, RefsOK

LEMMA ParseRefs ==
  ASSUME TypeInv, RefsOK, Parse
  PROVE  RefsOK'
  <1>1. pc \in ParseControl /\ pc' \in ParseControl \cup {"parsed", "failed"}
    BY DEF Parse, DeclarationsEnd, UnknownItem, BeginToken, BeginRule, TokenEqual,
           TokenValue, TokenEnd, TokenSemicolon, TokenFailed, TokenExists, StoreToken,
           FailToken, RejectToken, ExtractValue, AbortOn, AcceptValue, EndToken, EndRule,
           RuleEqual, BeginProduction, ExtractPRItem, RejectPRItem,
           EmptyProductionRule, ProductionFailed, PushProduction, RuleFailed,
           RuleExists, StoreRule, ParseControl
  <1>2. Unreferenced'
    BY <1>1, UnreferencedStep DEF RefsOK
  <1>3. \A n : ~TokenDone(n)' /\ ~RuleDone(n)'
    BY <1>1 DEF TokenDone, RuleDone, ParseControl
  <1> QED
    BY <1>2, <1>3, UnreferencedNext

(* A step that changes neither table and completes none of them. *)
LEMMA QuietRefs ==
  ASSUME RefsOK, items' = items, tokens' = tokens, rules' = rules,
         pc' \notin ParseControl \cup {"parsed", "failed"},
         \A n \in DOMAIN tokens : TokenDone(n)' => TokenDone(n),
         \A n \in DOMAIN rules : RuleDone(n)' => RuleDone(n)
  PROVE  RefsOK'
  <1>1. ASSUME NEW n \in DOMAIN tokens PROVE TokenRefOK(tokens[n], TokenDone(n))'
    BY DEF RefsOK, TokenRefOK, Text
  <1>2. ASSUME NEW n \in DOMAIN rules, NEW p \in DOMAIN rules[n].list,
               NEW i \in DOMAIN rules[n].list[p].items
        PROVE  PRItemRefOK(rules[n].list[p].items[i], RuleDone(n))'
    <2>1. PRItemRefOK(rules[n].list[p].items[i], RuleDone(n))
      BY DEF RefsOK, RuleRefsOK, ProductionRefsOK
    <2>2. RuleDone(n)' => RuleDone(n)
      OBVIOUS
    <2> QED
      BY <2>1, <2>2 DEF PRItemRefOK, TableOf, Text
  <1> QED
    BY <1>1, <1>2 DEF RefsOK, RuleRefsOK, ProductionRefsOK

LEMMA ResolveTokenRefs ==
  ASSUME TypeInv, SymbolsOK, RefsOK, NEW n \in pending, ResolveToken(n)
  PROVE  RefsOK'
  <1>1. /\ items' = items /\ rules' = rules /\ DOMAIN tokens' = DOMAIN tokens
        /\ \A m \in DOMAIN tokens : m # n => tokens'[m] = tokens[m]
        /\ n \in DOMAIN tokens
    BY ResolveKeeps, ItemsKept DEF ResolveToken
  <1>2. /\ pc = "resolveTokens" /\ pc' \in {"resolveTokens", "unresolved"}
        /\ pending' = pending \ {n}
    BY DEF ResolveToken, IteratorNext
  <1>3. \A m \in DOMAIN tokens : tokens[m] \in Tokens
    BY DEF TypeInv, TypeOK
  <1>4. \A m \in DOMAIN tokens : tokens'[m].at = tokens[m].at
    BY <1>1, <1>3, ResolveKeeps DEF Tokens
  <1>5. ASSUME NEW m \in DOMAIN tokens, m # n
        PROVE  TokenRefOK(tokens[m], TokenDone(m))'
    <2>1. TokenDone(m)' => TokenDone(m)
      BY <1>2, <1>5 DEF TokenDone
    <2>2. TokenRefOK(tokens[m], TokenDone(m))
      BY DEF RefsOK
    <2> QED
      BY <1>1, <1>4, <1>5, <2>1, <2>2 DEF TokenRefOK, Text
  <1>6. TokenRefOK(tokens[n], TokenDone(n))'
    <2>1. TokenRefOK(tokens[n], FALSE)
      BY <1>1 DEF RefsOK, TokenRefOK
    <2>2. CASE tokens[n].type # "FG_REF_TOKEN"
      <3>1. tokens'[n] = tokens[n] /\ tokens[n].symbol = 0
        BY <1>1, <2>2 DEF ResolveToken, SymbolsOK, TokenSymbolOK
      <3> QED
        BY <3>1 DEF TokenRefOK
    <2>3. CASE /\ tokens[n].type = "FG_REF_TOKEN"
               /\ Text(tokens[n].symbol) \in DOMAIN tokens
      <3>1. tokens'[n] = [tokens[n] EXCEPT !.ref = tokens[Text(tokens[n].symbol)].at]
        BY <1>1, <2>3 DEF ResolveToken
      <3>2. /\ tokens'[n].symbol = tokens[n].symbol
            /\ tokens'[n].ref = tokens[Text(tokens[n].symbol)].at
        BY <1>1, <1>3, <3>1 DEF Tokens
      <3> QED
        BY <1>1, <1>4, <2>3, <3>2 DEF TokenRefOK, Text
    <2>4. CASE /\ tokens[n].type = "FG_REF_TOKEN"
               /\ Text(tokens[n].symbol) \notin DOMAIN tokens
      <3>1. tokens' = tokens /\ pc' = "unresolved"
        BY <2>4 DEF ResolveToken
      <3>2. ~TokenDone(n)'
        BY <3>1 DEF TokenDone
      <3> QED
        BY <1>1, <2>1, <3>1, <3>2 DEF TokenRefOK, Text
    <2> QED
      BY <2>2, <2>3, <2>4
  <1>7. ASSUME NEW m \in DOMAIN rules PROVE RuleRefsOK(rules[m], RuleDone(m))'
    <2>1. ~RuleDone(m)'
      BY <1>2 DEF RuleDone
    <2>2. RuleRefsOK(rules[m], RuleDone(m))
      BY DEF RefsOK
    <2> QED
      BY <1>1, <1>4, <2>1, <2>2
      DEF RuleRefsOK, ProductionRefsOK, PRItemRefOK, TableOf, Text
  <1> QED
    BY <1>1, <1>2, <1>5, <1>6, <1>7 DEF RefsOK, ParseControl

LEMMA ResolveRuleRefs ==
  ASSUME TypeInv, SymbolsOK, RefsOK, NEW n \in pending, ResolveRule(n)
  PROVE  RefsOK'
  <1>1. /\ items' = items /\ tokens' = tokens /\ DOMAIN rules' = DOMAIN rules
        /\ \A m \in DOMAIN rules : m # n => rules'[m] = rules[m]
        /\ n \in DOMAIN rules
    BY ResolveKeeps, ItemsKept DEF ResolveRule
  <1>2. /\ pc = "resolveRules" /\ pc' \in {"resolveRules", "unresolved"}
        /\ pending' = pending \ {n}
    BY DEF ResolveRule, IteratorNext
  <1>3. \A m \in DOMAIN rules : rules[m] \in Rules
    BY DEF TypeInv, TypeOK
  <1>4. \A m \in DOMAIN rules : rules'[m].at = rules[m].at
    BY <1>1, <1>3, ResolveKeeps DEF Rules
  <1>5. ASSUME NEW m \in DOMAIN tokens PROVE TokenRefOK(tokens[m], TokenDone(m))'
    <2>1. TokenRefOK(tokens[m], TokenDone(m)) /\ TokenDone(m)
      BY <1>2 DEF RefsOK, TokenDone
    <2> QED
      BY <1>1, <2>1 DEF TokenRefOK, Text
  <1>6. ASSUME NEW m \in DOMAIN rules, m # n
        PROVE  RuleRefsOK(rules[m], RuleDone(m))'
    <2>1. RuleDone(m)' => RuleDone(m)
      BY <1>2, <1>6 DEF RuleDone
    <2>2. rules'[m] = rules[m]
      BY <1>1, <1>6
    <2>3. ASSUME NEW p \in DOMAIN rules[m].list, NEW i \in DOMAIN rules[m].list[p].items
          PROVE  PRItemRefOK(rules[m].list[p].items[i], RuleDone(m))'
      <3>1. PRItemRefOK(rules[m].list[p].items[i], RuleDone(m))
        BY DEF RefsOK, RuleRefsOK, ProductionRefsOK
      <3> QED
        BY <1>1, <1>4, <2>1, <2>2, <3>1 DEF PRItemRefOK, TableOf, Text
    <2> QED
      BY <2>2, <2>3 DEF RuleRefsOK, ProductionRefsOK
  <1>7. RuleRefsOK(rules[n], RuleDone(n))'
    <2> DEFINE list == rules[n].list
    <2>1. list \in Seq(Productions)
      BY <1>1, <1>3 DEF Rules
    <2>2. rules'[n].list = [p \in DOMAIN list |-> ResolveProduction(list[p])]
      BY <1>1, <1>3, ResolveKeeps DEF Rules
    <2>3. ASSUME NEW p \in DOMAIN list, NEW i \in DOMAIN list[p].items
          PROVE  PRItemRefOK(rules[n].list[p].items[i], RuleDone(n))'
      <3> DEFINE x == list[p].items[i]
                 y == ResolveProduction(list[p]).items[i]
      <3>1. list[p] \in Productions /\ list[p].items \in Seq(PRItems)
        <4>1. list[p] \in Productions
          BY <2>1
        <4> QED
          BY <4>1 DEF Productions
      <3>2. x \in PRItems /\ i \in Nat \ {0}
        BY <3>1
      <3>3. PRItemRefOK(x, FALSE)
        BY <1>1 DEF RefsOK, RuleRefsOK, ProductionRefsOK, PRItemRefOK
      <3>4. y = IF \E j \in 1..i : Unknown(list[p].items[j]) THEN x ELSE ResolveItem(x)
        BY <3>1 DEF ResolveProduction, Productions
      <3>5. y.type = x.type /\ y.symbol = x.symbol
        BY <3>1, ResolvedSymbols
      <3>6. CASE \E j \in 1..i : Unknown(list[p].items[j])
        <4>1. \E j \in DOMAIN list[p].items : Unknown(list[p].items[j])
          BY <3>1, <3>6
        <4>2. pc' = "unresolved"
          BY <4>1 DEF ResolveRule
        <4>3. ~RuleDone(n)'
          BY <4>2 DEF RuleDone
        <4>4. y = x
          BY <3>4, <3>6
        <4>5. rules'[n].list[p].items[i] = x
          BY <2>2, <4>4
        <4> QED
          BY <1>1, <1>4, <3>3, <4>3, <4>5 DEF PRItemRefOK, TableOf, Text
      <3>7. CASE ~\E j \in 1..i : Unknown(list[p].items[j])
        <4>1. y = ResolveItem(x) /\ ~Unknown(x)
          BY <3>2, <3>4, <3>7
        <4>2. rules'[n].list[p].items[i] = y
          BY <2>2
        <4>3. CASE x.type = "FG_STRING_ITEM"
          <5>1. x.symbol = 0
            BY <1>1, <4>3 DEF SymbolsOK, RuleSymbolsOK, ProductionSymbolsOK, PRItemSymbolOK
          <5> QED
            BY <3>5, <4>2, <5>1 DEF PRItemRefOK
        <4>4. CASE x.type # "FG_STRING_ITEM"
          <5>1. Text(x.symbol) \in DOMAIN TableOf(x)
            BY <4>1, <4>4 DEF Unknown
          <5>2. y.ref = TableOf(x)[Text(x.symbol)].at
            BY <3>2, <4>1, <4>4 DEF ResolveItem, PRItems
          <5> HIDE DEF x, y
          <5> QED
            BY <1>1, <1>4, <3>5, <4>2, <5>1, <5>2 DEF PRItemRefOK, TableOf, Text
        <4> QED
          BY <4>3, <4>4
      <3> QED
        BY <3>6, <3>7
    <2>4. \A p \in DOMAIN list : DOMAIN rules'[n].list[p].items = DOMAIN list[p].items
      BY <2>1, <2>2, ResolvedSymbols
    <2> QED
      BY <2>2, <2>3, <2>4 DEF RuleRefsOK, ProductionRefsOK
  <1> QED
    BY <1>1, <1>2, <1>5, <1>6, <1>7 DEF RefsOK, ParseControl

LEMMA RefsStep == RefsInv /\ [Next]_vars => RefsInv'
  <1> SUFFICES ASSUME TypeInv, SymbolsOK, RefsOK, [Next]_vars PROVE RefsOK'
    BY TypeInvStep, SymbolsStep DEF RefsInv
  <1>1. CASE Parse
    BY <1>1, ParseRefs
  <1>2. CASE StartResolving \/ TokensResolved \/ RulesResolved \/ ReportError \/ FreeItems
    <2>1. items' = items /\ tokens' = tokens /\ rules' = rules
      BY <1>2, QuietTables, ItemsKept
    <2>2. /\ pc' \notin ParseControl \cup {"parsed", "failed"}
          /\ \A n \in DOMAIN tokens : TokenDone(n)' => TokenDone(n)
          /\ \A n \in DOMAIN rules : RuleDone(n)' => RuleDone(n)
      BY <1>2 DEF StartResolving, TokensResolved, RulesResolved, ReportError, FreeItems,
                  TokenDone, RuleDone, ParseControl, frame
    <2> QED
      BY <2>1, <2>2, QuietRefs
  <1>3. ASSUME NEW n \in pending, ResolveToken(n) PROVE RefsOK'
    BY <1>3, ResolveTokenRefs
  <1>4. ASSUME NEW n \in pending, ResolveRule(n) PROVE RefsOK'
    BY <1>4, ResolveRuleRefs
  <1>5. CASE FreeGrammar
    BY <1>5 DEF FreeGrammar, EmptyTable, RefsOK, ParseControl
  <1>6. CASE UNCHANGED vars
    <2>1. /\ UNCHANGED <<items, pc, tokens, rules, pending>>
          /\ UNCHANGED <<token, rule, production>>
      BY <1>6 DEF vars
    <2>2. CASE pc \in ParseControl \cup {"parsed", "failed"}
      <3>1. Unreferenced /\ \A n : ~TokenDone(n) /\ ~RuleDone(n)
        BY <2>2 DEF RefsOK, TokenDone, RuleDone, ParseControl
      <3>2. Unreferenced' /\ \A n : ~TokenDone(n)' /\ ~RuleDone(n)'
        BY <2>1, <3>1 DEF Unreferenced, NoRuleRefs, NoProductionRefs, TokenDone, RuleDone
      <3> QED
        BY <3>2, UnreferencedNext
    <2>3. CASE pc \notin ParseControl \cup {"parsed", "failed"}
      <3>1. \A n : TokenDone(n)' = TokenDone(n) /\ RuleDone(n)' = RuleDone(n)
        BY <2>1 DEF TokenDone, RuleDone
      <3> QED
        BY <2>1, <2>3, <3>1, QuietRefs
    <2> QED
      BY <2>2, <2>3
  <1> QED
    BY <1>1, <1>2, <1>3, <1>4, <1>5, <1>6 DEF Next, Resolve, Clean, Terminated

LEMMA InitRefsInv == Init => RefsInv
  <1> SUFFICES ASSUME Init PROVE RefsInv
    OBVIOUS
  <1>1. TypeInv
    BY InitTypeInv
  <1>2. SymbolsOK
    BY InitErrorInv DEF ErrorInv
  <1>3. RefsOK
    BY EmptyReferences DEF Init, EmptyTable, RefsOK, Unreferenced
  <1> QED
    BY <1>1, <1>2, <1>3 DEF RefsInv

LEMMA ReferencesAreOK == RefsInv => ReferencesSound
  <1> SUFFICES ASSUME TypeInv, RefsOK PROVE ReferencesSound
    BY DEF RefsInv
  <1>1. pc = "resolved" => \A n : TokenDone(n) /\ RuleDone(n)
    BY DEF TokenDone, RuleDone
  <1>2. ASSUME NEW n \in DOMAIN tokens
        PROVE  RefersTo(tokens[n].symbol, tokens[n].ref, tokens)
    BY <1>1 DEF RefsOK, TokenRefOK, RefersTo
  <1>3. ASSUME NEW n \in DOMAIN rules, NEW p \in DOMAIN rules[n].list,
               NEW i \in DOMAIN rules[n].list[p].items
        PROVE  LET x == rules[n].list[p].items[i]
               IN  RefersTo(x.symbol, x.ref, TableOf(x))
    BY <1>1 DEF RefsOK, RuleRefsOK, ProductionRefsOK, PRItemRefOK, RefersTo
  <1> QED
    BY <1>2, <1>3 DEF ReferencesSound

(***************************************************************************)
(* A resolved reference is a declaration that is stored, and when          *)
(* prs_resolveSymbols returns PRS_OK every reference is resolved to the    *)
(* declaration of its own name, for every set of item lists.               *)
(***************************************************************************)
THEOREM ReferencesResolved == Spec => []ReferencesSound
  BY InitRefsInv, RefsStep, ReferencesAreOK, PTL DEF Spec
-----------------------------------------------------------------------------
(* The names stored are those declared *)

Declaring == {"tokenDecl", "ruleDecl"}
StoredNames ==
  ({"tokenDecl"} \X DOMAIN tokens) \cup ({"ruleDecl"} \X DOMAIN rules)
Declared(i) == <<items[i].kind, Text(i)>>

(* Nothing unknown in the first k items, and the names they declare are in *)
(* the grammar.                                                            *)
Settled(k) ==
  \A i \in 1..k : /\ items[i].kind # "other"
                  /\ items[i].kind \in Declaring => Declared(i) \in StoredNames

(* No declaration begins inside of another. *)
Inside(a, b) == \A i \in a..b : items[i].kind \notin Declaring \cup {"other"}

(* The item a production is at has been taken, but not looked at. *)
LookedAt == IF pc = "prItem" THEN pos - 1 ELSE pos

(* The kind of the declaration that is being extracted. *)
Reading == IF pc \in RuleControl THEN "ruleDecl" ELSE "tokenDecl"

NamesOK ==
  /\ \A n \in StoredNames : \E i \in 1..Len(items) : Declared(i) = n
  /\ pc \in Extracting => items[decl].kind = Reading
  /\ pc = "declaration" => Settled(pos)
  /\ pc \in Extracting \ FailedControl => Settled(decl - 1) /\ Inside(decl + 1, LookedAt)
  /\ pc \in ResolveControl \cup {"unresolved"} => Settled(Len(items))

NamesInv == TypeInv /\ NamesOK

LEMMA NamesSame ==
  ASSUME items' = items, StoredNames' = StoredNames
  PROVE  /\ \A k : Settled(k) => Settled(k)'
         /\ \A a, b : Inside(a, b) => Inside(a, b)'
         /\ (\A n \in StoredNames : \E i \in 1..Len(items) : Declared(i) = n) =>
            (\A n \in StoredNames : \E i \in 1..Len(items) : Declared(i) = n)'
  BY DEF Settled, Inside, Declared, Text

(* The next item is taken, and belongs to the declaration. *)
LEMMA NextInside ==
  ASSUME TypeInv, Inside(decl + 1, pos), Advance, UNCHANGED <<items, decl>>,
         ~AtEnd, items[pos + 1].kind \notin Declaring \cup {"other"}
  PROVE  Inside(decl + 1, pos)'
  <1>1. pos \in Nat /\ decl \in Nat /\ pos' = pos + 1
    BY TypeFacts DEF Advance
  <1>2. \A i \in decl + 1..pos + 1 : i \in decl + 1..pos \/ i = pos + 1
    BY <1>1
  <1> QED
    BY <1>1, <1>2 DEF Inside

LEMMA ParseNames ==
  ASSUME TypeInv, NamesOK, Parse PROVE NamesOK'
  <1>1. pos \in Nat /\ decl \in Nat /\ decl <= pos /\ pos <= Len(items) /\ Len(items) \in Nat
    BY TypeFacts
  <1>2. items' = items
    BY ItemsKept DEF Next
  <1>3. CASE DeclarationsEnd
    <2>1. /\ pc = "declaration" /\ pc' = "parsed" /\ StoredNames' = StoredNames /\ pos = Len(items)
      BY <1>3 DEF DeclarationsEnd, StoredNames, AtEnd
    <2> QED
      BY <1>2, <2>1, NamesSame DEF NamesOK, Extracting, ParseControl, ResolveControl
  <1>4. CASE UnknownItem
    <2>1. pc' = "failed" /\ StoredNames' = StoredNames
      BY <1>4 DEF UnknownItem, StoredNames, frame, grammar
    <2> QED
      BY <1>2, <2>1, NamesSame DEF NamesOK, Extracting, ParseControl, ResolveControl
  <1>5. CASE BeginToken \/ BeginRule
    <2>1. /\ pc = "declaration" /\ pc' \in {"tokenEqual", "ruleEqual"} /\ StoredNames' = StoredNames
          /\ pos' = pos + 1 /\ decl' = pos + 1 /\ items[pos + 1].kind = Reading'
      BY <1>5 DEF BeginToken, BeginRule, StoredNames, frame, grammar, NextIs, Reading,
                  RuleControl
    <2>2. Settled(decl - 1)'
      <3>1. decl' - 1 = pos
        BY <1>1, <2>1
      <3> QED
        BY <1>2, <2>1, <3>1 DEF NamesOK, Settled, Declared, Text
    <2>3. Inside(decl + 1, pos)'
      BY <1>1, <2>1 DEF Inside
    <2> QED
      BY <1>2, <2>1, <2>2, <2>3, NamesSame
      DEF NamesOK, LookedAt, Extracting, ParseControl, ResolveControl
  <1>6. CASE \/ TokenEqual \/ TokenValue \/ TokenEnd \/ TokenSemicolon \/ RuleEqual
    <2>1. /\ pc \in {"tokenEqual", "tokenValue", "tokenEnd", "tokenSemicolon", "ruleEqual"}
          /\ Advance /\ decl' = decl /\ StoredNames' = StoredNames
      BY <1>6 DEF TokenEqual, TokenValue, TokenEnd, TokenSemicolon, RuleEqual, StoredNames,
              frame, grammar
    <2>2. \/ pc' \in {"tokenFailed", "ruleFailed"}
          \/ /\ pc' \in {"tokenValue", "tokenEnd", "tokenSemicolon", "tokenStore", "production",
                        "aborted"}
             /\ ~AtEnd /\ items[pos + 1].kind \notin Declaring \cup {"other"}
      <3>1. CASE TokenValue
        BY <3>1 DEF TokenValue, ExtractValue, AbortOn, RejectToken, AcceptValue, Blocks,
                    Fatal, Declaring
      <3>2. CASE TokenEqual \/ TokenEnd \/ TokenSemicolon \/ RuleEqual
        BY <3>2 DEF TokenEqual, TokenEnd, TokenSemicolon, RuleEqual, RejectToken,
           EndToken, NextIs, Quantifiers, Declaring
      <3> QED
        BY <1>6, <3>1, <3>2
    <2>3. /\ Settled(decl - 1) /\ Inside(decl + 1, pos) /\ items[decl].kind = Reading
      BY <2>1 DEF NamesOK, LookedAt, Extracting, ParseControl, FailedControl
    <2>4. Settled(decl - 1)' /\ (items[decl].kind = Reading)'
      <3>1. pc' \in RuleControl <=> pc \in RuleControl
        BY <1>6, <2>1, <2>2 DEF TokenEqual, TokenValue, TokenEnd, TokenSemicolon, RuleEqual,
           ExtractValue, AbortOn, RejectToken, AcceptValue, EndToken, RuleControl
      <3> QED
        BY <1>2, <2>1, <2>3, <3>1, NamesSame DEF Reading
    <2>5. CASE pc' \in {"tokenFailed", "ruleFailed"}
      BY <1>2, <2>1, <2>4, <2>5, NamesSame
      DEF NamesOK, Extracting, ParseControl, FailedControl, ResolveControl
    <2>6. CASE ~AtEnd /\ items[pos + 1].kind \notin Declaring \cup {"other"}
      <3>1. Inside(decl + 1, pos)'
        BY <1>2, <2>1, <2>3, <2>6, NextInside
      <3> QED
        BY <1>2, <2>1, <2>2, <2>4, <3>1, NamesSame
        DEF NamesOK, LookedAt, Extracting, ParseControl, FailedControl, ResolveControl
    <2> QED
      BY <2>2, <2>5, <2>6
  <1>7. CASE TokenFailed \/ TokenExists \/ RuleFailed \/ RuleExists
    <2>1. pc' = "failed" /\ StoredNames' = StoredNames
      BY <1>7 DEF TokenFailed, TokenExists, RuleFailed, RuleExists, FailToken, StoredNames,
         frame, grammar
    <2> QED
      BY <1>2, <2>1, NamesSame DEF NamesOK, Extracting, ParseControl, ResolveControl
  <1>8. CASE StoreToken \/ StoreRule
    <2>1. /\ pc \in {"tokenStore", "ruleStore"} /\ pc' = "declaration"
          /\ UNCHANGED <<pos, decl>>
      BY <1>8 DEF StoreToken, StoreRule
    <2>2. /\ Settled(decl - 1) /\ Inside(decl + 1, pos) /\ items[decl].kind = Reading
          /\ decl \in 1..Len(items)
      BY <2>1, TypeFacts DEF NamesOK, LookedAt, Extracting, ParseControl, FailedControl
    <2>5. StoredNames' = StoredNames \cup {Declared(decl)}
      <3>1. \A table, n, v : DOMAIN Insert(table, n, v) = DOMAIN table \cup {n}
        BY DEF Insert
      <3>2. CASE StoreToken
        <4>1. /\ DOMAIN tokens' = DOMAIN tokens \cup {Text(decl)} /\ rules' = rules
              /\ Declared(decl) = <<"tokenDecl", Text(decl)>>
          BY <2>2, <3>1, <3>2 DEF StoreToken, Declared, Reading, RuleControl
        <4> QED
          BY <4>1 DEF StoredNames
      <3>3. CASE StoreRule
        <4>1. /\ DOMAIN rules' = DOMAIN rules \cup {Text(decl)} /\ tokens' = tokens
              /\ Declared(decl) = <<"ruleDecl", Text(decl)>>
          BY <2>2, <3>1, <3>3 DEF StoreRule, Declared, Reading, RuleControl
        <4> QED
          BY <4>1 DEF StoredNames
      <3> QED
        BY <1>8, <3>2, <3>3
    <2>3. Settled(pos)'
      <3> SUFFICES ASSUME NEW i \in 1..pos
                   PROVE  /\ items[i].kind # "other"
                          /\ items[i].kind \in Declaring => Declared(i) \in StoredNames'
        BY <1>2, <2>1 DEF Settled, Declared, Text
      <3>1. i \in 1..decl - 1 \/ i = decl \/ i \in decl + 1..pos
        BY <1>1
      <3> QED
        BY <2>1, <2>2, <2>5, <3>1 DEF Settled, Inside, Reading
    <2>4. (\A n \in StoredNames : \E i \in 1..Len(items) : Declared(i) = n)'
      BY <1>2, <2>1, <2>2, <2>5 DEF NamesOK, Declared, Text
    <2> QED
      BY <2>1, <2>3, <2>4 DEF NamesOK, Extracting, ParseControl, ResolveControl
  <1>9. CASE BeginProduction \/ ExtractPRItem \/ PushProduction
    <2>1. /\ pc \in {"production", "prItem", "productionEnd"}
          /\ decl' = decl /\ StoredNames' = StoredNames
      BY <1>9 DEF BeginProduction, ExtractPRItem, PushProduction, StoredNames, frame, grammar
    <2>2. /\ Settled(decl - 1) /\ Inside(decl + 1, LookedAt)
          /\ items[decl].kind = "ruleDecl"
      BY <2>1 DEF NamesOK, Extracting, ParseControl, FailedControl, Reading, RuleControl
    <2>3. Settled(decl - 1)' /\ (items[decl].kind = "ruleDecl")'
      BY <1>2, <2>1, <2>2, NamesSame
    <2>4. \/ pc' = "ruleFailed"
          \/ /\ pc' \in {"ruleStore", "production", "prItem", "productionEnd"}
             /\ Inside(decl + 1, LookedAt)'
      <3>1. CASE BeginProduction
        <4>1. /\ pc = "production" /\ Advance
              /\ \/ pc' = "ruleFailed"
                 \/ pc' = "ruleStore" /\ NextIs({"semicolon"})
                 \/ pc' = "prItem" /\ ~AtEnd
          BY <3>1 DEF BeginProduction, EndRule
        <4>2. CASE pc' = "ruleStore" /\ NextIs({"semicolon"})
          <5>1. ~AtEnd /\ items[pos + 1].kind \notin Declaring \cup {"other"}
            BY <4>2 DEF NextIs, Declaring
          <5>2. Inside(decl + 1, pos)
            BY <2>2, <4>1 DEF LookedAt
          <5>3. Inside(decl + 1, pos)'
            BY <1>2, <2>1, <4>1, <5>1, <5>2, NextInside
          <5> QED
            BY <4>2, <5>3 DEF LookedAt
        <4>3. CASE pc' = "prItem" /\ ~AtEnd
          <5>1. LookedAt = pos /\ LookedAt' = pos
            BY <1>1, <4>1, <4>3 DEF LookedAt, Advance
          <5> QED
            BY <1>2, <2>1, <2>2, <4>3, <5>1 DEF Inside
        <4> QED
          BY <4>1, <4>2, <4>3
      <3>2. CASE ExtractPRItem
        <4>1. /\ pc = "prItem" /\ items[pos].kind \in {"block", "upper", "lower"}
              /\ Advance /\ pc' = IF AtEnd THEN "productionEnd" ELSE "prItem"
          BY <3>2 DEF ExtractPRItem
        <4>2. LookedAt = pos - 1 /\ LookedAt' = pos
          BY <1>1, <4>1 DEF LookedAt, Advance
        <4>3. \A i \in decl + 1..pos : i \in decl + 1..pos - 1 \/ i = pos
          BY <1>1
        <4> QED
          BY <1>2, <2>1, <2>2, <4>1, <4>2, <4>3 DEF Inside, Declaring
      <3>3. CASE PushProduction
        <4>1. /\ pos' = pos
              /\ \/ pc' = "ruleFailed"
                 \/ /\ pc = "prItem" /\ items[pos].kind \in {"semicolon", "pipe"}
                    /\ pc' \in {"ruleStore", "production"}
          BY <3>3 DEF PushProduction, EndRule
        <4>2. CASE /\ pc = "prItem" /\ items[pos].kind \in {"semicolon", "pipe"}
                   /\ pc' \in {"ruleStore", "production"}
          <5>1. LookedAt = pos - 1 /\ LookedAt' = pos
            BY <4>1, <4>2 DEF LookedAt
          <5>2. \A i \in decl + 1..pos : i \in decl + 1..pos - 1 \/ i = pos
            BY <1>1
          <5> QED
            BY <1>2, <2>1, <2>2, <4>2, <5>1, <5>2 DEF Inside, Declaring
        <4> QED
          BY <4>1, <4>2
      <3> QED
        BY <1>9, <3>1, <3>2, <3>3
    <2>5. Reading' = "ruleDecl"
      BY <2>4 DEF Reading, RuleControl
    <2> QED
      BY <1>2, <2>1, <2>3, <2>4, <2>5, NamesSame
      DEF NamesOK, Extracting, ParseControl, FailedControl, ResolveControl
  <1>10. CASE RejectPRItem \/ EmptyProductionRule \/ ProductionFailed
    <2>1. /\ pc \in {"prItem", "productionFailed"}
          /\ pc' \in {"productionFailed", "ruleFailed"} /\ decl' = decl /\ StoredNames' = StoredNames
      BY <1>10 DEF RejectPRItem, EmptyProductionRule, ProductionFailed, StoredNames,
         frame, grammar
    <2>2. items[decl].kind = "ruleDecl" /\ Reading' = "ruleDecl"
      BY <2>1 DEF NamesOK, Extracting, ParseControl, Reading, RuleControl
    <2> QED
      BY <1>2, <2>1, <2>2, NamesSame
      DEF NamesOK, Extracting, ParseControl, FailedControl, ResolveControl
  <1> QED
    BY <1>3, <1>4, <1>5, <1>6, <1>7, <1>8, <1>9, <1>10 DEF Parse

LEMMA NamesStep == NamesInv /\ [Next]_vars => NamesInv'
  <1> SUFFICES ASSUME NamesInv, [Next]_vars PROVE NamesInv'
    OBVIOUS
  <1>1. TypeInv /\ NamesOK /\ TypeInv' /\ items' = items
    BY TypeInvStep, ItemsKept DEF NamesInv
  <1>2. CASE UNCHANGED vars
    <2>1. UNCHANGED <<pos, decl, pc>> /\ StoredNames' = StoredNames
      BY <1>2 DEF vars, StoredNames
    <2>2. LookedAt' = LookedAt /\ Reading' = Reading
      BY <2>1 DEF LookedAt, Reading
    <2> QED
      BY <1>1, <2>1, <2>2, NamesSame DEF NamesInv, NamesOK
  <1>3. CASE Resolve
    <2>1. /\ pc \in ResolveControl /\ pc' \in ResolveControl \cup {"unresolved"}
      BY <1>3 DEF Resolve, StartResolving, TokensResolved, RulesResolved, ResolveToken,
         ResolveRule, ResolveControl
    <2>2. StoredNames' = StoredNames
      <3>1. CASE StartResolving \/ TokensResolved \/ RulesResolved
        BY <3>1 DEF StartResolving, TokensResolved, RulesResolved, StoredNames, frame, grammar
      <3>2. ASSUME NEW n \in pending, ResolveToken(n) PROVE StoredNames' = StoredNames
        BY <3>2 DEF ResolveToken, StoredNames
      <3>3. ASSUME NEW n \in pending, ResolveRule(n) PROVE StoredNames' = StoredNames
        BY <3>3 DEF ResolveRule, StoredNames
      <3> QED
        BY <1>3, <3>1, <3>2, <3>3 DEF Resolve
    <2> QED
      BY <1>1, <2>1, <2>2, NamesSame
      DEF NamesInv, NamesOK, Extracting, ParseControl, ResolveControl
  <1>4. CASE ReportError \/ FreeItems
    <2>1. pc' \in {"clean", "itemsFreed"} /\ StoredNames' = StoredNames
      BY <1>4 DEF ReportError, FreeItems, StoredNames, frame, grammar
    <2> QED
      BY <1>1, <2>1, NamesSame
      DEF NamesInv, NamesOK, Extracting, ParseControl, ResolveControl
  <1>5. CASE FreeGrammar
    <2>1. pc' = "done" /\ StoredNames' = {}
      BY <1>5 DEF FreeGrammar, StoredNames, EmptyTable
    <2> QED
      BY <1>1, <2>1 DEF NamesInv, NamesOK, Extracting, ParseControl, ResolveControl
  <1> QED
    BY <1>1, <1>2, <1>3, <1>4, <1>5, ParseNames DEF Next, Clean, Terminated, NamesInv

LEMMA InitNamesInv == Init => NamesInv
  <1> SUFFICES ASSUME Init PROVE NamesInv
    OBVIOUS
  <1>1. pc = "declaration" /\ pos = 0 /\ StoredNames = {}
    BY DEF Init, StoredNames, EmptyTable
  <1>2. NamesOK
    BY <1>1 DEF NamesOK, Settled, Extracting, ParseControl, ResolveControl
  <1> QED
    BY <1>2, InitTypeInv DEF NamesInv

(* What a caller needs to know of a list that was accepted, *)
LEMMA NamesOfAccepted ==
  ASSUME NamesInv, pc \in {"resolved", "unresolved"}
  PROVE  /\ \A n \in DOMAIN tokens : \E i \in 1..Len(items) :
              items[i].kind = "tokenDecl" /\ items[i].text = n
         /\ \A n \in DOMAIN rules : \E i \in 1..Len(items) :
              items[i].kind = "ruleDecl" /\ items[i].text = n
         /\ \A i \in 1..Len(items) :
              /\ items[i].kind # "other"
              /\ items[i].kind = "tokenDecl" => items[i].text \in DOMAIN tokens
              /\ items[i].kind = "ruleDecl" => items[i].text \in DOMAIN rules
  <1>1. Settled(Len(items)) /\ \A n \in StoredNames : \E i \in 1..Len(items) : Declared(i) = n
    BY DEF NamesInv, NamesOK, ResolveControl
  <1>2. /\ \A n : n \in DOMAIN tokens <=> <<"tokenDecl", n>> \in StoredNames
        /\ \A n : n \in DOMAIN rules <=> <<"ruleDecl", n>> \in StoredNames
    BY DEF StoredNames
  <1>3. \A i \in 1..Len(items) : \A k, n :
          Declared(i) = <<k, n>> <=> items[i].kind = k /\ items[i].text = n
    BY DEF Declared, Text
  <1>4. ASSUME NEW n \in DOMAIN tokens
        PROVE  \E i \in 1..Len(items) : items[i].kind = "tokenDecl" /\ items[i].text = n
    <2>1. <<"tokenDecl", n>> \in StoredNames
      BY <1>2
    <2>2. PICK i \in 1..Len(items) : Declared(i) = <<"tokenDecl", n>>
      BY <1>1, <2>1
    <2> QED
      BY <1>3, <2>2
  <1>5. ASSUME NEW n \in DOMAIN rules
        PROVE  \E i \in 1..Len(items) : items[i].kind = "ruleDecl" /\ items[i].text = n
    <2>1. <<"ruleDecl", n>> \in StoredNames
      BY <1>2
    <2>2. PICK i \in 1..Len(items) : Declared(i) = <<"ruleDecl", n>>
      BY <1>1, <2>1
    <2> QED
      BY <1>3, <2>2
  <1>6. ASSUME NEW i \in 1..Len(items)
        PROVE  /\ items[i].kind # "other"
               /\ items[i].kind = "tokenDecl" => items[i].text \in DOMAIN tokens
               /\ items[i].kind = "ruleDecl" => items[i].text \in DOMAIN rules
    <2>1. /\ items[i].kind # "other"
          /\ items[i].kind \in Declaring => Declared(i) \in StoredNames
      BY <1>1 DEF Settled
    <2> QED
      BY <1>2, <2>1 DEF Declaring, Declared, Text
  <1> QED
    BY <1>4, <1>5, <1>6

(* and of one that was refused *)
LEMMA ErrorIsItem ==
  ASSUME ErrorInv, pc \in {"failed", "unresolved"}
  PROVE  /\ errItem \in 1..Len(items)
         /\ pc = "unresolved" =>
              \/ items[errItem].kind = "upper" /\ items[errItem].text \notin DOMAIN tokens
              \/ items[errItem].kind = "lower" /\ items[errItem].text \notin DOMAIN rules
  <1>1. /\ pos \in Nat /\ decl \in Nat /\ decl <= pos /\ pos <= Len(items)
        /\ Len(items) \in Nat
    BY TypeFacts DEF ErrorInv
  <1>2. CASE pc = "failed"
    BY <1>1, <1>2 DEF ErrorInv, PlaceOK
  <1>3. CASE pc = "unresolved"
    BY <1>3 DEF ErrorInv, UnresolvedOK, Text
  <1> QED
    BY <1>2, <1>3
=============================================================================
