------------------------ MODULE GrammarParserMemory -------------------------
(***************************************************************************)
(* Proof that the parser neither leaks nor frees twice: on every path the  *)
(* heap is what the live structures own, for every set of item lists.      *)
(***************************************************************************)
EXTENDS GrammarParserSafety
-----------------------------------------------------------------------------
(* The inductive invariant *)

TokenControl == {"tokenEqual", "tokenValue", "tokenEnd", "tokenSemicolon",
                 "tokenStore", "tokenFailed", "aborted"}
ProductionControl == {"prItem", "productionEnd", "productionFailed"}

(* The blocks of S are those of sites at items a to b. *)
Within(S, sites, a, b) == \A x \in S : x[1] \in sites /\ x[2] \in a..b

(* The last item that what is stored may belong to. *)
Stored == IF pc \in Extracting THEN decl - 1 ELSE pos

(* What is stored lies before the declaration that is being extracted. *)
StoredOK ==
  /\ Within(TableBlocks, Sites, 1, Stored)
  /\ \A n \in DOMAIN tokens : tokens[n].at \in 1..Stored
  /\ \A n \in DOMAIN rules : rules[n].at \in 1..Stored
  /\ \A m, n \in DOMAIN tokens : tokens[m].at = tokens[n].at => m = n
  /\ \A m, n \in DOMAIN rules : rules[m].at = rules[n].at => m = n

(* The token under construction; a value is only given to one without. *)
TokenOK ==
  IF pc \in TokenControl
    THEN /\ token.at = decl
         /\ Within(TokenContents(token), {"tokenName", "tokenString", "tokenRanges"},
                   decl, decl)
         /\ pc \in {"tokenEqual", "tokenValue"} => token.value = {}
    ELSE token = NoToken

(* The production rule under construction; one that failed is empty. *)
ProductionOK ==
  IF pc \in ProductionControl
    THEN /\ production.at \in decl..pos
         /\ Within(PRItemsBlocks(production.items), {"prItem", "prString"},
                   production.at, pos)
         /\ pc = "productionFailed" => production.items = <<>>
    ELSE production = NoProduction

(* The rule under construction lies before its next production rule. *)
RuleOK ==
  IF pc \in RuleControl
    THEN /\ rule.at = decl
         /\ Within(RuleContents(rule), {"ruleName", "production", "prItem", "prString"},
                   decl, IF pc \in ProductionControl THEN production.at - 1 ELSE pos)
    ELSE rule = NoRule

HeapOK ==
  heap = TableBlocks \cup TokenBlocks(token) \cup RuleBlocks(rule)
           \cup ProductionBlocks(production)

MemoryInv == TypeInv /\ StoredOK /\ TokenOK /\ ProductionOK /\ RuleOK /\ HeapOK
-----------------------------------------------------------------------------
(* The blocks of structures *)

LEMMA Apart ==
  ASSUME NEW S, NEW U, NEW s, NEW u, NEW a \in Nat, NEW b \in Nat, NEW c \in Nat,
         NEW d \in Nat, Within(S, s, a, b), Within(U, u, c, d),
         b < c \/ s \cap u = {}
  PROVE  S \cap U = {}
  BY DEF Within

LEMMA EmptyBlocks ==
  /\ \A at : /\ TokenContents(ZeroToken(at)) = {} /\ RuleContents(EmptyRule(at)) = {}
             /\ PRItemsBlocks(EmptyProduction(at).items) = {}
             /\ TokenBlocks(ZeroToken(at)) = Struct("token", at)
             /\ RuleBlocks(EmptyRule(at)) = Struct("rule", at)
             /\ ProductionBlocks(EmptyProduction(at)) = Struct("production", at)
             /\ ZeroToken(at).at = at /\ EmptyRule(at).at = at
             /\ EmptyProduction(at).at = at /\ EmptyProduction(at).items = <<>>
  /\ TokenBlocks(NoToken) = {} /\ RuleBlocks(NoRule) = {}
  /\ ProductionBlocks(NoProduction) = {}
  <1>1. \A at : /\ TokenContents(ZeroToken(at)) = {} /\ RuleContents(EmptyRule(at)) = {}
                /\ PRItemsBlocks(EmptyProduction(at).items) = {}
                /\ ZeroToken(at).at = at /\ EmptyRule(at).at = at
                /\ EmptyProduction(at).at = at /\ EmptyProduction(at).items = <<>>
    BY DEF ZeroToken, EmptyRule, EmptyProduction, TokenContents, RuleContents,
           PRItemsBlocks
  <1>2. \A at : /\ TokenBlocks(ZeroToken(at)) = Struct("token", at)
                /\ RuleBlocks(EmptyRule(at)) = Struct("rule", at)
                /\ ProductionBlocks(EmptyProduction(at)) = Struct("production", at)
    BY <1>1 DEF TokenBlocks, RuleBlocks, ProductionBlocks
  <1>3. \A site : Struct(site, 0) = {}
    BY DEF Struct
  <1> QED
    BY <1>1, <1>2, <1>3 DEF NoToken, NoRule, NoProduction

LEMMA AppendedItem ==
  ASSUME NEW xs \in Seq(PRItems), NEW x
  PROVE  PRItemsBlocks(Append(xs, x)) = PRItemsBlocks(xs) \cup PRItemBlocks(x)
  <1>1. /\ DOMAIN Append(xs, x) = DOMAIN xs \cup {Len(xs) + 1}
        /\ \A i \in DOMAIN xs : Append(xs, x)[i] = xs[i]
        /\ Append(xs, x)[Len(xs) + 1] = x
    OBVIOUS
  <1> QED
    BY <1>1 DEF PRItemsBlocks

ListBlocks(list) == UNION {ProductionBlocks(list[i]) : i \in DOMAIN list}

LEMMA AppendedProduction ==
  ASSUME NEW r \in Rules, NEW p
  PROVE  LET s == [r EXCEPT !.list = Append(r.list, p)] IN
         RuleContents(s) = RuleContents(r) \cup ProductionBlocks(p) /\ s.at = r.at
  <1>1. ASSUME NEW list \in Seq(Productions)
        PROVE  ListBlocks(Append(list, p)) = ListBlocks(list) \cup ProductionBlocks(p)
    <2>1. /\ DOMAIN Append(list, p) = DOMAIN list \cup {Len(list) + 1}
          /\ \A i \in DOMAIN list : Append(list, p)[i] = list[i]
          /\ Append(list, p)[Len(list) + 1] = p
      OBVIOUS
    <2> QED
      BY <2>1 DEF ListBlocks
  <1>2. \A s : RuleContents(s) = s.name \cup ListBlocks(s.list)
    BY DEF RuleContents, ListBlocks
  <1> DEFINE s == [r EXCEPT !.list = Append(r.list, p)]
  <1>3. /\ s.name = r.name /\ s.list = Append(r.list, p) /\ s.at = r.at
        /\ r.list \in Seq(Productions)
    BY DEF Rules
  <1> HIDE DEF s
  <1>4. RuleContents(s) = RuleContents(r) \cup ProductionBlocks(p)
    BY <1>1, <1>2, <1>3
  <1> QED
    BY <1>3, <1>4 DEF s
-----------------------------------------------------------------------------
(* The structures under construction *)

(* How the iterator and the current declaration move. *)
LEMMA Moves ==
  ASSUME TypeInv, [Next]_vars
  PROVE  /\ pos \in Nat /\ decl \in Nat /\ decl <= pos /\ pos' \in Nat /\ pos <= pos'
         /\ Stored \in Nat /\ Stored' \in Nat /\ Stored <= Stored'
  <1>1. /\ pos \in Nat /\ decl \in Nat /\ decl <= pos /\ pos' \in Nat /\ decl' <= pos'
        /\ decl' \in Nat
    <2>1. TypeInv'
      BY TypeInvStep
    <2> QED
      BY <2>1, TypeFacts DEF TypeInv, TypeOK, ControlOK, Pointer
  <1>2. (pc \in Extracting => decl >= 1) /\ (pc' \in Extracting => decl' >= 1)
    BY TypeInvStep DEF TypeInv, ControlOK
  <1>3. CASE UnknownItem \/ BeginToken \/ BeginRule
    <2>1. pos' = pos + 1 /\ decl' = pos + 1 /\ pc \notin Extracting
      BY <1>3 DEF UnknownItem, BeginToken, BeginRule, Extracting
    <2> QED
      BY <1>1, <1>2, <2>1 DEF Stored
  <1>4. CASE Parse /\ ~(UnknownItem \/ BeginToken \/ BeginRule)
    <2>1. /\ pos' \in {pos, pos + 1} /\ decl' = decl
          /\ pc' \in Extracting => pc \in Extracting
      BY <1>4
      DEF Parse, DeclarationsEnd, TokenEqual, TokenValue, TokenEnd, TokenSemicolon,
          TokenFailed, TokenExists, StoreToken, FailToken, RuleEqual, BeginProduction,
          ExtractPRItem, RejectPRItem, EmptyProductionRule, ProductionFailed,
          PushProduction, RuleFailed, RuleExists, StoreRule, Advance, Extracting,
          ParseControl
    <2> QED
      BY <1>1, <1>2, <2>1 DEF Stored
  <1>5. CASE Resolve \/ Clean \/ UNCHANGED vars
    <2>1. /\ pos' = pos /\ decl' = decl
          /\ pc' \in Extracting => pc \in Extracting
      BY <1>5
      DEF Resolve, Clean, StartResolving, ResolveToken, TokensResolved, ResolveRule,
          RulesResolved, ReportError, FreeItems, FreeGrammar, vars, Extracting,
          ParseControl
    <2> QED
      BY <1>1, <1>2, <2>1 DEF Stored
  <1> QED
    BY <1>3, <1>4, <1>5 DEF Next, Terminated

LEMMA TokenStep ==
  ASSUME TypeInv, TokenOK, [Next]_vars
  PROVE  TokenOK'
  <1> USE DEF TokenControl
  <1>1. token \in Tokens
    BY DEF TypeInv, TypeOK
  <1>2. pos \in Nat /\ decl \in Nat
    BY Moves
  <1>3. CASE BeginToken
    <2>1. /\ token'.at = decl' /\ token'.value = {}
          /\ token'.name = {<<"tokenName", decl'>>} /\ pc' = "tokenEqual" /\ decl' \in Nat
      BY <1>2, <1>3 DEF BeginToken, ZeroToken
    <2> QED
      BY <2>1 DEF TokenOK, TokenContents, Within
  <1>4. CASE TokenEqual
    BY <1>4 DEF TokenEqual, TokenOK, scratch, Within
  <1>5. CASE TokenValue
    <2>1. /\ token.at = decl /\ decl' = decl /\ pc = "tokenValue"
          /\ Within(token.name, {"tokenName", "tokenString", "tokenRanges"}, decl, decl)
      BY <1>5 DEF TokenValue, TokenOK, TokenContents, Within
    <2>2. ASSUME NEW c, RejectToken(c) PROVE TokenOK'
      <3>1. /\ token'.at = decl' /\ TokenContents(token') = {} /\ pc' = "tokenFailed"
        BY <2>1, <2>2, EmptyBlocks DEF RejectToken, FreeTokenContents
      <3> QED
        BY <3>1 DEF TokenOK, Within
    <2>3. ASSUME NEW type, NEW symbol,
                 NEW site \in {"tokenName", "tokenString", "tokenRanges"},
                 NEW blocks \in SUBSET {<<site, decl>>}, AcceptValue(type, blocks, symbol)
          PROVE  TokenOK'
      <3>1. /\ token'.at = decl' /\ token'.name = token.name /\ token'.value = blocks
            /\ pc' = "tokenEnd"
        BY <1>1, <2>1, <2>3 DEF AcceptValue, Tokens
      <3>2. Within(blocks, {"tokenName", "tokenString", "tokenRanges"}, decl, decl)
        BY <1>2 DEF Within
      <3> QED
        BY <2>1, <3>1, <3>2 DEF TokenOK, TokenContents, Within
    <2>4. ASSUME NEW kind, AbortOn(kind) PROVE TokenOK'
      BY <2>1, <2>4 DEF AbortOn, TokenOK, Within
    <2> QED
      BY <1>5, <2>2, <2>3, <2>4 DEF TokenValue, ExtractValue
  <1>6. CASE TokenEnd \/ TokenSemicolon
    <2>1. /\ token.at = decl /\ decl' = decl
          /\ Within(TokenContents(token), {"tokenName", "tokenString", "tokenRanges"},
                    decl, decl)
          /\ pc' \in {"tokenStore", "tokenSemicolon", "tokenFailed"}
      BY <1>6 DEF TokenEnd, TokenSemicolon, TokenOK, RejectToken, EndToken
    <2>2. \/ token' = token
          \/ token' = ZeroToken(token.at)
          \/ \E q : token' = [token EXCEPT !.quantifier = q]
      BY <1>6 DEF TokenEnd, TokenSemicolon, RejectToken, FreeTokenContents, EndToken
    <2>3. \A q : LET t == [token EXCEPT !.quantifier = q] IN
            t.at = token.at /\ TokenContents(t) = TokenContents(token)
      BY <1>1 DEF Tokens, TokenContents
    <2>4. token'.at = token.at /\ TokenContents(token') \in {{}, TokenContents(token)}
      BY <2>2, <2>3, EmptyBlocks
    <2> QED
      BY <2>1, <2>4 DEF TokenOK, Within
  <1>7. CASE TokenFailed \/ TokenExists \/ StoreToken
    BY <1>7 DEF TokenFailed, TokenExists, StoreToken, FailToken, TokenOK
  <1>8. CASE \/ DeclarationsEnd \/ UnknownItem \/ BeginRule
             \/ RuleEqual \/ BeginProduction \/ ExtractPRItem \/ RejectPRItem
             \/ EmptyProductionRule \/ ProductionFailed \/ PushProduction
             \/ RuleFailed \/ RuleExists \/ StoreRule
             \/ StartResolving \/ TokensResolved \/ RulesResolved
             \/ ReportError \/ FreeItems \/ FreeGrammar
             \/ \E n \in pending : ResolveToken(n) \/ ResolveRule(n)
    <2>1. token' = token /\ pc \notin TokenControl /\ pc' \notin TokenControl
      BY <1>8
      DEF DeclarationsEnd, UnknownItem, BeginRule, RuleEqual, BeginProduction,
          ExtractPRItem, RejectPRItem, EmptyProductionRule, ProductionFailed,
          PushProduction, EndRule, RuleFailed, RuleExists, StoreRule, StartResolving,
          TokensResolved, RulesResolved, ReportError, FreeItems, FreeGrammar,
          ResolveToken, ResolveRule, scratch
    <2> QED
      BY <2>1 DEF TokenOK
  <1>9. CASE UNCHANGED vars
    BY <1>9 DEF vars, TokenOK, Within
  <1> QED
    BY <1>3, <1>4, <1>5, <1>6, <1>7, <1>8, <1>9
    DEF Next, Parse, Resolve, Clean, Terminated

LEMMA ProductionStep ==
  ASSUME TypeInv, ProductionOK, [Next]_vars
  PROVE  ProductionOK'
  <1> USE DEF ProductionControl
  <1>1. production \in Productions /\ production.items \in Seq(PRItems)
    BY DEF TypeInv, TypeOK, Productions
  <1>2. pos \in Nat /\ decl \in Nat /\ decl <= pos /\ pos' \in Nat /\ pos <= pos'
    BY Moves
  <1>3. CASE BeginProduction
    <2>1. CASE pc' = "prItem"
      <3>1. /\ production' = EmptyProduction(pos + 1) /\ pos' = pos + 1 /\ decl' = decl
        BY <1>3, <2>1 DEF BeginProduction, EndRule, Advance
      <3> QED
        BY <1>2, <2>1, <3>1, EmptyBlocks DEF ProductionOK, Within
    <2>2. CASE pc' # "prItem"
      BY <1>3, <2>2 DEF BeginProduction, EndRule, ProductionOK
    <2> QED
      BY <2>1, <2>2
  <1>4. CASE ExtractPRItem
    <2>1. /\ production'.at = production.at
          /\ production'.items = Append(production.items, PRItem(pos))
          /\ pc = "prItem" /\ pc' \in {"prItem", "productionEnd"} /\ decl' = decl
      BY <1>1, <1>4 DEF ExtractPRItem, Productions
    <2>2. PRItemsBlocks(production'.items)
            = PRItemsBlocks(production.items) \cup PRItemBlocks(PRItem(pos))
      BY <1>1, <2>1, AppendedItem
    <2>3. /\ production.at \in decl..pos
          /\ Within(PRItemsBlocks(production.items), {"prItem", "prString"},
                    production.at, pos)
      BY <2>1 DEF ProductionOK
    <2>4. Within(PRItemBlocks(PRItem(pos)), {"prItem", "prString"}, production.at, pos)
      BY <1>2, <2>3 DEF PRItemBlocks, PRItem, Struct, Within
    <2> QED
      BY <1>2, <2>1, <2>2, <2>3, <2>4 DEF ProductionOK, Within
  <1>5. CASE RejectPRItem \/ EmptyProductionRule
    <2>1. /\ pc = "prItem" /\ pc' = "productionFailed" /\ decl' = decl
          /\ production'.at = production.at /\ production'.items = <<>>
          /\ PRItemsBlocks(production'.items) = {}
      BY <1>5, EmptyBlocks DEF RejectPRItem, EmptyProductionRule, scratch, EmptyProduction
    <2> QED
      BY <1>2, <2>1 DEF ProductionOK, Within
  <1>6. CASE ProductionFailed \/ PushProduction
    BY <1>6 DEF ProductionFailed, PushProduction, EndRule, ProductionOK
  <1>7. CASE \/ DeclarationsEnd \/ UnknownItem \/ BeginToken \/ BeginRule
             \/ TokenEqual \/ TokenValue \/ TokenEnd \/ TokenSemicolon
             \/ TokenFailed \/ TokenExists \/ StoreToken
             \/ RuleEqual \/ RuleFailed \/ RuleExists \/ StoreRule
             \/ StartResolving \/ TokensResolved \/ RulesResolved
             \/ ReportError \/ FreeItems \/ FreeGrammar
             \/ \E n \in pending : ResolveToken(n) \/ ResolveRule(n)
    <2>1. \A kind, i : ExtractValue(kind, i) => pc' \in {"tokenEnd", "tokenFailed", "aborted"}
      BY DEF ExtractValue, AbortOn, RejectToken, AcceptValue
    <2>2. /\ production' = production
          /\ pc \notin ProductionControl /\ pc' \notin ProductionControl
      BY <1>7, <2>1
      DEF DeclarationsEnd, UnknownItem, BeginToken, BeginRule, TokenEqual, TokenValue,
          TokenEnd, TokenSemicolon, RejectToken, EndToken, TokenFailed, TokenExists,
          StoreToken, FailToken, RuleEqual, RuleFailed, RuleExists, StoreRule,
          StartResolving, TokensResolved, RulesResolved, ReportError, FreeItems,
          FreeGrammar, ResolveToken, ResolveRule, scratch
    <2> QED
      BY <2>2 DEF ProductionOK
  <1>8. CASE UNCHANGED vars
    BY <1>8 DEF vars, ProductionOK, Within
  <1> QED
    BY <1>3, <1>4, <1>5, <1>6, <1>7, <1>8 DEF Next, Parse, Resolve, Clean, Terminated

LEMMA RuleStep ==
  ASSUME TypeInv, ProductionOK, RuleOK, [Next]_vars
  PROVE  RuleOK'
  <1> DEFINE sites == {"ruleName", "production", "prItem", "prString"}
  <1> USE DEF RuleControl, ProductionControl
  <1>1. rule \in Rules /\ production \in Productions
    BY DEF TypeInv, TypeOK
  <1>2. pos \in Nat /\ decl \in Nat /\ decl <= pos /\ pos' \in Nat /\ pos <= pos'
    BY Moves
  <1>3. \A list, hasEnd : EndRule(list, hasEnd) =>
          /\ rule' \in {[rule EXCEPT !.list = list], EmptyRule(rule.at)}
          /\ pc' \in {"ruleFailed", "ruleStore"}
    <2>1. \A list : [rule EXCEPT !.list = list].at = rule.at
      BY <1>1 DEF Rules
    <2> QED
      BY <2>1 DEF EndRule, FreeRuleContents
  <1>4. [rule EXCEPT !.list = rule.list] = rule
    BY <1>1 DEF Rules
  <1>5. CASE BeginRule
    <2>1. /\ rule'.at = decl' /\ rule'.name = {<<"ruleName", decl'>>}
          /\ rule'.list = <<>> /\ pc' = "ruleEqual" /\ decl' = pos + 1 /\ pos' = pos + 1
      BY <1>5 DEF BeginRule, EmptyRule
    <2>2. RuleContents(rule') = {<<"ruleName", decl'>>}
      BY <2>1 DEF RuleContents
    <2> QED
      BY <1>2, <2>1, <2>2 DEF RuleOK, Within
  <1>6. CASE RuleEqual
    <2>1. /\ rule' = rule /\ pc = "ruleEqual" /\ pc' \in {"production", "ruleFailed"}
          /\ decl' = decl
      BY <1>6 DEF RuleEqual, scratch
    <2> QED
      BY <1>2, <2>1 DEF RuleOK, Within
  <1>7. CASE BeginProduction
    <2>1. /\ pc = "production" /\ decl' = decl
          /\ rule.at = decl /\ Within(RuleContents(rule), sites, decl, pos)
      BY <1>7 DEF BeginProduction, RuleOK
    <2>2. \/ rule' \in {rule, EmptyRule(rule.at)} /\ pc' \in {"ruleFailed", "ruleStore"}
          \/ rule' = rule /\ pc' = "prItem" /\ production' = EmptyProduction(pos + 1)
      BY <1>3, <1>4, <1>7 DEF BeginProduction
    <2>3. rule'.at = rule.at /\ Within(RuleContents(rule'), sites, decl, pos)
      BY <2>1, <2>2, EmptyBlocks DEF Within
    <2>4. pc' = "prItem" => production'.at = pos + 1
      BY <2>2, EmptyBlocks
    <2> QED
      BY <1>2, <2>1, <2>2, <2>3, <2>4 DEF RuleOK, Within
  <1>8. CASE ExtractPRItem \/ RejectPRItem \/ EmptyProductionRule
    <2>1. /\ pc = "prItem" /\ pc' \in ProductionControl /\ decl' = decl
          /\ rule' = rule /\ production'.at = production.at
      BY <1>1, <1>8 DEF ExtractPRItem, RejectPRItem, EmptyProductionRule, scratch,
                        EmptyProduction, Productions
    <2> QED
      BY <2>1 DEF RuleOK, Within
  <1>9. CASE ProductionFailed
    <2>1. /\ pc = "productionFailed" /\ pc' = "ruleFailed" /\ decl' = decl
          /\ rule'.at = rule.at /\ RuleContents(rule') = {}
      BY <1>9, EmptyBlocks DEF ProductionFailed
    <2> QED
      BY <2>1 DEF RuleOK, Within
  <1>10. CASE PushProduction
    <2> DEFINE pushed == [rule EXCEPT !.list = Append(rule.list, production)]
    <2>1. /\ pc \in {"prItem", "productionEnd"} /\ decl' = decl
          /\ pc' \in {"production", "ruleFailed", "ruleStore"}
          /\ rule' \in {pushed, EmptyRule(rule.at)}
      BY <1>3, <1>10 DEF PushProduction
    <2>2. /\ rule.at = decl /\ production.at \in decl..pos
          /\ Within(RuleContents(rule), sites, decl, production.at - 1)
          /\ Within(PRItemsBlocks(production.items), {"prItem", "prString"},
                    production.at, pos)
      BY <2>1 DEF RuleOK, ProductionOK
    <2>3. /\ RuleContents(pushed) = RuleContents(rule) \cup ProductionBlocks(production)
          /\ pushed.at = rule.at
      BY <1>1, AppendedProduction
    <2>4. Within(ProductionBlocks(production), sites, decl, pos)
      BY <1>2, <2>2 DEF ProductionBlocks, Struct, Within
    <2>5. Within(RuleContents(rule'), sites, decl, pos) /\ rule'.at = rule.at
      <3> HIDE DEF pushed
      <3> QED
        BY <1>2, <2>1, <2>2, <2>3, <2>4, EmptyBlocks DEF Within
    <2> QED
      BY <1>2, <2>1, <2>2, <2>5 DEF RuleOK, Within
  <1>11. CASE RuleFailed \/ RuleExists \/ StoreRule
    BY <1>11 DEF RuleFailed, RuleExists, StoreRule, RuleOK
  <1>12. CASE \/ DeclarationsEnd \/ UnknownItem \/ BeginToken
              \/ TokenEqual \/ TokenValue \/ TokenEnd \/ TokenSemicolon
              \/ TokenFailed \/ TokenExists \/ StoreToken
              \/ StartResolving \/ TokensResolved \/ RulesResolved
              \/ ReportError \/ FreeItems \/ FreeGrammar
              \/ \E n \in pending : ResolveToken(n) \/ ResolveRule(n)
    <2>1. \A kind, i : ExtractValue(kind, i) => pc' \in {"tokenEnd", "tokenFailed", "aborted"}
      BY DEF ExtractValue, AbortOn, RejectToken, AcceptValue
    <2>2. rule' = rule /\ pc \notin RuleControl /\ pc' \notin RuleControl
      BY <1>12, <2>1
      DEF DeclarationsEnd, UnknownItem, BeginToken, TokenEqual, TokenValue,
          TokenEnd, TokenSemicolon, RejectToken, EndToken, TokenFailed, TokenExists,
          StoreToken, FailToken, StartResolving, TokensResolved, RulesResolved,
          ReportError, FreeItems, FreeGrammar, ResolveToken, ResolveRule, scratch
    <2> QED
      BY <2>2 DEF RuleOK
  <1>13. CASE UNCHANGED vars
    BY <1>13 DEF vars, RuleOK, Within
  <1> QED
    BY <1>5, <1>6, <1>7, <1>8, <1>9, <1>10, <1>11, <1>12, <1>13
    DEF Next, Parse, Resolve, Clean, Terminated
-----------------------------------------------------------------------------
(* The tables *)

TokensOwn(table) == UNION {TokenBlocks(table[n]) : n \in DOMAIN table}
RulesOwn(table) == UNION {RuleBlocks(table[n]) : n \in DOMAIN table}

LEMMA TableMembers ==
  /\ \A b : b \in TableBlocks <=>
       \/ \E n \in DOMAIN tokens : b \in TokenBlocks(tokens[n])
       \/ \E n \in DOMAIN rules : b \in RuleBlocks(rules[n])
  /\ \A b : b \in TableBlocks' <=>
       \/ \E n \in DOMAIN tokens' : b \in TokenBlocks(tokens'[n])
       \/ \E n \in DOMAIN rules' : b \in RuleBlocks(rules'[n])
  <1>1. TableBlocks = TokensOwn(tokens) \cup RulesOwn(rules)
    BY DEF TableBlocks, TokensOwn, RulesOwn
  <1>2. TableBlocks' = TokensOwn(tokens') \cup RulesOwn(rules')
    BY DEF TableBlocks, TokensOwn, RulesOwn
  <1>3. ASSUME NEW table, NEW b
        PROVE  b \in TokensOwn(table) <=> \E n \in DOMAIN table : b \in TokenBlocks(table[n])
    BY DEF TokensOwn
  <1>4. ASSUME NEW table, NEW b
        PROVE  b \in RulesOwn(table) <=> \E n \in DOMAIN table : b \in RuleBlocks(table[n])
    BY DEF RulesOwn
  <1> QED
    BY <1>1, <1>2, <1>3, <1>4

LEMMA ResolvedProductionBlocks ==
  ASSUME NEW p \in Productions
  PROVE  ProductionBlocks(ResolveProduction(p)) = ProductionBlocks(p)
  <1> DEFINE q == ResolveProduction(p)
  <1>1. p.items \in Seq(PRItems)
    BY DEF Productions
  <1>2. /\ q.at = p.at /\ DOMAIN q.items = DOMAIN p.items
        /\ \A i \in DOMAIN p.items : q.items[i] \in {p.items[i], ResolveItem(p.items[i])}
    BY DEF ResolveProduction, Productions
  <1>3. \A x \in PRItems : PRItemBlocks(ResolveItem(x)) = PRItemBlocks(x)
    BY DEF ResolveItem, PRItems, PRItemBlocks
  <1>4. \A i \in DOMAIN p.items : PRItemBlocks(q.items[i]) = PRItemBlocks(p.items[i])
    BY <1>1, <1>2, <1>3
  <1> HIDE DEF q
  <1>5. PRItemsBlocks(q.items) = PRItemsBlocks(p.items)
    BY <1>2, <1>4 DEF PRItemsBlocks
  <1>6. ProductionBlocks(q) = ProductionBlocks(p)
    BY <1>2, <1>5 DEF ProductionBlocks
  <1> QED
    BY <1>6 DEF q

(* What the tables own grows with what is stored, and by nothing else. *)
LEMMA TablesStep ==
  ASSUME TypeInv, [Next]_vars, ~FreeGrammar
  PROVE  /\ StoreToken => TableBlocks' = TableBlocks \cup TokenBlocks(token)
         /\ StoreRule => TableBlocks' = TableBlocks \cup RuleBlocks(rule)
         /\ ~StoreToken /\ ~StoreRule =>
              /\ TableBlocks' = TableBlocks
              /\ DOMAIN tokens' = DOMAIN tokens /\ DOMAIN rules' = DOMAIN rules
              /\ \A n \in DOMAIN tokens : tokens'[n].at = tokens[n].at
              /\ \A n \in DOMAIN rules : rules'[n].at = rules[n].at
  <1>1. CASE StoreToken
    <2>1. /\ rules' = rules /\ DOMAIN tokens' = DOMAIN tokens \cup {Text(decl)}
          /\ tokens'[Text(decl)] = token
          /\ \A n \in DOMAIN tokens : tokens'[n] = tokens[n]
          /\ pc = "tokenStore"
      BY <1>1 DEF StoreToken, Insert
    <2>2. ~StoreRule
      BY <2>1 DEF StoreRule
    <2>3. \A b : b \in TableBlocks' <=> b \in TableBlocks \/ b \in TokenBlocks(token)
      BY <2>1, TableMembers
    <2> QED
      BY <1>1, <2>2, <2>3
  <1>2. CASE StoreRule
    <2>1. /\ tokens' = tokens /\ DOMAIN rules' = DOMAIN rules \cup {Text(decl)}
          /\ rules'[Text(decl)] = rule
          /\ \A n \in DOMAIN rules : rules'[n] = rules[n]
          /\ pc = "ruleStore"
      BY <1>2 DEF StoreRule, Insert
    <2>2. ~StoreToken
      BY <2>1 DEF StoreToken
    <2>3. \A b : b \in TableBlocks' <=> b \in TableBlocks \/ b \in RuleBlocks(rule)
      BY <2>1, TableMembers
    <2> QED
      BY <1>2, <2>2, <2>3
  <1>3. CASE tokens' = tokens /\ rules' = rules /\ ~StoreToken /\ ~StoreRule
    <2>1. \A b : b \in TableBlocks' <=> b \in TableBlocks
      BY <1>3, TableMembers
    <2> QED
      BY <1>3, <2>1
  <1>4. ASSUME NEW n \in pending, ResolveToken(n), ~StoreToken, ~StoreRule
        PROVE  /\ TableBlocks' = TableBlocks
               /\ DOMAIN tokens' = DOMAIN tokens /\ DOMAIN rules' = DOMAIN rules
               /\ \A m \in DOMAIN tokens : tokens'[m].at = tokens[m].at
               /\ \A m \in DOMAIN rules : rules'[m].at = rules[m].at
    <2>1. /\ tokens[n] \in Tokens
          /\ \A at : LET t == [tokens[n] EXCEPT !.ref = at] IN
               t.at = tokens[n].at /\ t.name = tokens[n].name /\ t.value = tokens[n].value
      BY <1>4, ResolveKeeps DEF TypeInv, TypeOK, Tokens
    <2>2. /\ tokens'[n].at = tokens[n].at /\ tokens'[n].name = tokens[n].name
          /\ tokens'[n].value = tokens[n].value
      BY <1>4, <2>1, ResolveKeeps
    <2>3. TokenBlocks(tokens'[n]) = TokenBlocks(tokens[n])
      BY <2>2 DEF TokenBlocks, TokenContents
    <2>4. \A b : b \in TableBlocks' <=> b \in TableBlocks
      BY <1>4, <2>3, ResolveKeeps, TableMembers
    <2> QED
      BY <1>4, <2>2, <2>4, ResolveKeeps
  <1>5. ASSUME NEW n \in pending, ResolveRule(n), ~StoreToken, ~StoreRule
        PROVE  /\ TableBlocks' = TableBlocks
               /\ DOMAIN tokens' = DOMAIN tokens /\ DOMAIN rules' = DOMAIN rules
               /\ \A m \in DOMAIN tokens : tokens'[m].at = tokens[m].at
               /\ \A m \in DOMAIN rules : rules'[m].at = rules[m].at
    <2> DEFINE list == rules[n].list
    <2>1. rules[n] \in Rules /\ list \in Seq(Productions)
      BY <1>5, ResolveKeeps DEF TypeInv, TypeOK, Rules
    <2>2. /\ rules'[n].at = rules[n].at /\ rules'[n].name = rules[n].name
          /\ rules'[n].list = [p \in DOMAIN list |-> ResolveProduction(list[p])]
      BY <1>5, <2>1, ResolveKeeps DEF Rules
    <2>3. \A p \in DOMAIN list : list[p] \in Productions
      BY <2>1
    <2> HIDE DEF list
    <2>4. /\ DOMAIN rules'[n].list = DOMAIN list
          /\ \A p \in DOMAIN list :
               ProductionBlocks(rules'[n].list[p]) = ProductionBlocks(list[p])
      BY <2>2, <2>3, ResolvedProductionBlocks
    <2>5. ListBlocks(rules'[n].list) = ListBlocks(list)
      BY <2>4 DEF ListBlocks
    <2>6. \A r : RuleBlocks(r) = Struct("rule", r.at) \cup (r.name \cup ListBlocks(r.list))
      BY DEF RuleBlocks, RuleContents, ListBlocks
    <2>7. RuleBlocks(rules'[n]) = RuleBlocks(rules[n])
      BY <2>2, <2>5, <2>6 DEF list
    <2>8. \A b : b \in TableBlocks' <=> b \in TableBlocks
      BY <1>5, <2>7, ResolveKeeps, TableMembers
    <2> QED
      BY <1>5, <2>2, <2>8, ResolveKeeps
  <1> QED
    BY <1>1, <1>2, <1>3, <1>4, <1>5, QuietTables
    DEF Next, Parse, Resolve, Clean, Terminated

(* The blocks of the token and the rule that are stored. *)
LEMMA StoredBlocks ==
  ASSUME TypeInv, TokenOK, ProductionOK, RuleOK
  PROVE  /\ pc \in TokenControl =>
              /\ token.at = decl /\ Within(TokenBlocks(token), Sites, decl, pos)
              /\ rule = NoRule /\ production = NoProduction
         /\ pc \in RuleControl =>
              /\ rule.at = decl /\ Within(RuleBlocks(rule), Sites, decl, pos)
              /\ token = NoToken
         /\ pc \in ProductionControl => pc \in RuleControl
         /\ pc \in RuleControl \cup TokenControl => pc \in Extracting /\ decl >= 1
  <1> USE DEF TokenControl, RuleControl, ProductionControl
  <1>1. pos \in Nat /\ decl \in Nat /\ decl <= pos /\ production.at \in Nat
    <2>1. production.at \in Nat
      BY DEF TypeInv, TypeOK, Productions, Pointer
    <2> QED
      BY <2>1, TypeFacts DEF TypeInv, ControlOK
  <1>2. pc \in RuleControl \cup TokenControl => pc \in Extracting /\ decl >= 1
    BY DEF TypeInv, ControlOK, Extracting, ParseControl
  <1>3. ASSUME pc \in TokenControl
        PROVE  Within(TokenBlocks(token), Sites, decl, pos) /\ token.at = decl
    <2>1. /\ token.at = decl
          /\ Within(TokenContents(token), {"tokenName", "tokenString", "tokenRanges"},
                    decl, decl)
      BY <1>3 DEF TokenOK
    <2> QED
      BY <1>1, <2>1 DEF TokenBlocks, Struct, Within, Sites
  <1>4. ASSUME pc \in RuleControl
        PROVE  Within(RuleBlocks(rule), Sites, decl, pos) /\ rule.at = decl
    <2>1. /\ rule.at = decl
          /\ Within(RuleContents(rule), {"ruleName", "production", "prItem", "prString"},
                    decl, IF pc \in ProductionControl THEN production.at - 1 ELSE pos)
          /\ pc \in ProductionControl => production.at \in decl..pos
      BY <1>4 DEF RuleOK, ProductionOK
    <2>2. Within(RuleContents(rule), Sites, decl, pos)
      BY <1>1, <2>1 DEF Within, Sites
    <2> QED
      BY <1>1, <2>1, <2>2 DEF RuleBlocks, Struct, Within, Sites
  <1> QED
    BY <1>2, <1>3, <1>4 DEF TokenOK, ProductionOK, RuleOK

LEMMA StoredStep ==
  ASSUME TypeInv, StoredOK, TokenOK, ProductionOK, RuleOK, [Next]_vars
  PROVE  StoredOK'
  <1>1. /\ Stored \in Nat /\ Stored' \in Nat /\ Stored <= Stored'
        /\ pos \in Nat /\ decl \in Nat /\ decl <= pos /\ pos' \in Nat
    BY Moves
  <1>2. /\ Within(TableBlocks, Sites, 1, Stored')
        /\ \A n \in DOMAIN tokens : tokens[n].at \in 1..Stored'
        /\ \A n \in DOMAIN rules : rules[n].at \in 1..Stored'
    BY <1>1 DEF StoredOK, Within
  <1>3. CASE StoreToken
    <2>1. /\ pc \in TokenControl /\ Stored = decl - 1 /\ Stored' = pos
      BY <1>3 DEF StoreToken, TokenControl, Stored, Extracting, ParseControl
    <2>2. /\ token.at = decl /\ decl >= 1 /\ Within(TokenBlocks(token), Sites, decl, pos)
      BY <2>1, StoredBlocks
    <2>3. rules' = rules /\ tokens' = Insert(tokens, Text(decl), token)
      BY <1>3 DEF StoreToken
    <2>4. \A n \in DOMAIN tokens' :
            \/ n = Text(decl) /\ tokens'[n] = token
            \/ n \in DOMAIN tokens /\ tokens'[n] = tokens[n]
      BY <2>3, InsertEntries
    <2>5. \A n \in DOMAIN tokens : tokens[n].at # token.at
      BY <1>1, <2>1, <2>2 DEF StoredOK
    <2>6. Within(TableBlocks', Sites, 1, Stored')
      <3>1. TableBlocks' = TableBlocks \cup TokenBlocks(token)
        <4>1. ~FreeGrammar
          BY <1>3 DEF StoreToken, FreeGrammar
        <4> QED
          BY <1>3, <4>1, TablesStep
      <3> QED
        BY <1>1, <1>2, <2>1, <2>2, <3>1 DEF Within
    <2>7. \A n \in DOMAIN tokens' : tokens'[n].at \in 1..Stored'
      BY <1>1, <1>2, <2>1, <2>2, <2>4
    <2>8. \A m, n \in DOMAIN tokens' : tokens'[m].at = tokens'[n].at => m = n
      BY <2>4, <2>5 DEF StoredOK
    <2> QED
      BY <1>2, <2>3, <2>6, <2>7, <2>8 DEF StoredOK, Within, Sites
  <1>4. CASE StoreRule
    <2>1. /\ pc \in RuleControl /\ Stored = decl - 1 /\ Stored' = pos
      BY <1>4 DEF StoreRule, RuleControl, Stored, Extracting, ParseControl
    <2>2. /\ rule.at = decl /\ decl >= 1 /\ Within(RuleBlocks(rule), Sites, decl, pos)
      BY <2>1, StoredBlocks
    <2>3. tokens' = tokens /\ rules' = Insert(rules, Text(decl), rule)
      BY <1>4 DEF StoreRule
    <2>4. \A n \in DOMAIN rules' :
            \/ n = Text(decl) /\ rules'[n] = rule
            \/ n \in DOMAIN rules /\ rules'[n] = rules[n]
      BY <2>3, InsertEntries
    <2>5. \A n \in DOMAIN rules : rules[n].at # rule.at
      BY <1>1, <2>1, <2>2 DEF StoredOK
    <2>6. Within(TableBlocks', Sites, 1, Stored')
      <3>1. TableBlocks' = TableBlocks \cup RuleBlocks(rule)
        <4>1. ~FreeGrammar
          BY <1>4 DEF StoreRule, FreeGrammar
        <4> QED
          BY <1>4, <4>1, TablesStep
      <3> QED
        BY <1>1, <1>2, <2>1, <2>2, <3>1 DEF Within
    <2>7. \A n \in DOMAIN rules' : rules'[n].at \in 1..Stored'
      BY <1>1, <1>2, <2>1, <2>2, <2>4
    <2>8. \A m, n \in DOMAIN rules' : rules'[m].at = rules'[n].at => m = n
      BY <2>4, <2>5 DEF StoredOK
    <2> QED
      BY <1>2, <2>3, <2>6, <2>7, <2>8 DEF StoredOK, Within, Sites
  <1>5. CASE FreeGrammar
    <2>1. DOMAIN tokens' = {} /\ DOMAIN rules' = {}
      BY <1>5 DEF FreeGrammar, EmptyTable
    <2>2. \A b : b \notin TableBlocks'
      BY <2>1, TableMembers
    <2> QED
      BY <2>1, <2>2 DEF StoredOK, Within
  <1>6. CASE ~StoreToken /\ ~StoreRule /\ ~FreeGrammar
    <2>1. /\ TableBlocks' = TableBlocks
          /\ DOMAIN tokens' = DOMAIN tokens /\ DOMAIN rules' = DOMAIN rules
          /\ \A n \in DOMAIN tokens : tokens'[n].at = tokens[n].at
          /\ \A n \in DOMAIN rules : rules'[n].at = rules[n].at
      BY <1>6, TablesStep
    <2> QED
      BY <1>2, <2>1 DEF StoredOK, Within
  <1> QED
    BY <1>3, <1>4, <1>5, <1>6
-----------------------------------------------------------------------------
(* The heap *)

(* What is under construction shares no block with what is stored, nor a   *)
(* structure with what it owns.                                            *)
LEMMA TokenApart ==
  ASSUME TypeInv, StoredOK, TokenOK, ProductionOK, RuleOK, pc \in TokenControl
  PROVE  /\ TableBlocks \cap TokenBlocks(token) = {}
         /\ Struct("token", token.at) \cap TokenContents(token) = {}
  <1>1. pos \in Nat /\ decl \in Nat /\ decl <= pos
    BY TypeFacts DEF TypeInv, ControlOK
  <1>2. /\ Stored = decl - 1 /\ decl >= 1
        /\ Within(TokenBlocks(token), Sites, decl, pos)
    BY StoredBlocks DEF Stored
  <1>3. TableBlocks \cap TokenBlocks(token) = {}
    BY <1>1, <1>2 DEF StoredOK, Within
  <1>4. Struct("token", token.at) \cap TokenContents(token) = {}
    BY DEF TokenOK, Struct, Within
  <1> QED
    BY <1>3, <1>4

LEMMA RuleApart ==
  ASSUME TypeInv, StoredOK, TokenOK, ProductionOK, RuleOK, pc \in RuleControl
  PROVE  /\ TableBlocks \cap RuleBlocks(rule) = {}
         /\ TableBlocks \cap ProductionBlocks(production) = {}
         /\ Struct("rule", rule.at) \cap RuleContents(rule) = {}
         /\ Struct("rule", rule.at) \cap ProductionBlocks(production) = {}
         /\ RuleContents(rule) \cap ProductionBlocks(production) = {}
         /\ Struct("production", production.at) \cap PRItemsBlocks(production.items) = {}
  <1>1. pos \in Nat /\ decl \in Nat /\ decl <= pos
    BY TypeFacts DEF TypeInv, ControlOK
  <1>2. /\ Stored = decl - 1 /\ decl >= 1
        /\ Within(RuleBlocks(rule), Sites, decl, pos)
    BY StoredBlocks DEF Stored
  <1>3. TableBlocks \cap RuleBlocks(rule) = {}
    BY <1>1, <1>2 DEF StoredOK, Within
  <1>4. Struct("rule", rule.at) \cap RuleContents(rule) = {}
    BY DEF RuleOK, Struct, Within
  <1>5. CASE pc \in ProductionControl
    <2>1. /\ production.at \in decl..pos
          /\ Within(PRItemsBlocks(production.items), {"prItem", "prString"},
                    production.at, pos)
          /\ Within(RuleContents(rule), {"ruleName", "production", "prItem", "prString"},
                    decl, production.at - 1)
      BY <1>5 DEF ProductionOK, RuleOK
    <2>2. Within(ProductionBlocks(production), {"production", "prItem", "prString"},
                 production.at, pos)
      BY <1>1, <2>1 DEF ProductionBlocks, Struct, Within
    <2>3. TableBlocks \cap ProductionBlocks(production) = {}
      BY <1>1, <1>2, <2>1, <2>2 DEF StoredOK, Within
    <2>4. Struct("rule", rule.at) \cap ProductionBlocks(production) = {}
      BY <2>2 DEF Struct, Within
    <2>5. RuleContents(rule) \cap ProductionBlocks(production) = {}
      BY <1>1, <2>1, <2>2 DEF Within
    <2>6. Struct("production", production.at) \cap PRItemsBlocks(production.items) = {}
      BY <2>1 DEF Struct, Within
    <2> QED
      BY <1>3, <1>4, <2>3, <2>4, <2>5, <2>6
  <1>6. CASE pc \notin ProductionControl
    <2>1. /\ ProductionBlocks(production) = {}
          /\ PRItemsBlocks(production.items) = {}
      BY <1>6, EmptyBlocks DEF ProductionOK, NoProduction
    <2> QED
      BY <1>3, <1>4, <2>1
  <1> QED
    BY <1>5, <1>6

(* fg_freeToken, wherever it is called. *)
LEMMA RejectHeap ==
  ASSUME TypeInv, StoredOK, TokenOK, ProductionOK, RuleOK, HeapOK, pc \in TokenControl,
         FreeTokenContents, TableBlocks' = TableBlocks, rule' = rule, production' = production
  PROVE  HeapOK'
  <1>1. /\ RuleBlocks(rule) = {} /\ ProductionBlocks(production) = {}
        /\ TokenBlocks(token) = Struct("token", token.at) \cup TokenContents(token)
        /\ TokenBlocks(token') = Struct("token", token.at)
        /\ heap' = heap \ TokenContents(token)
    BY StoredBlocks, EmptyBlocks DEF FreeTokenContents, TokenBlocks
  <1>2. heap' = TableBlocks \cup Struct("token", token.at)
    BY <1>1, TokenApart DEF HeapOK
  <1> QED
    BY <1>1, <1>2 DEF HeapOK

(* The end of fg_extractRule, wherever its loop ends. *)
LEMMA EndRuleHeap ==
  ASSUME NEW list, NEW hasEnd, NEW C, EndRule(list, hasEnd), rule \in Rules,
         C = RuleContents([rule EXCEPT !.list = list]), TableBlocks' = TableBlocks,
         token' = NoToken, production' = NoProduction,
         heap = TableBlocks \cup Struct("rule", rule.at) \cup C,
         TableBlocks \cap C = {}, Struct("rule", rule.at) \cap C = {}
  PROVE  HeapOK'
  <1>1. [rule EXCEPT !.list = list].at = rule.at
    BY DEF Rules
  <1>2. \/ rule' = EmptyRule(rule.at) /\ heap' = heap \ C
        \/ rule' = [rule EXCEPT !.list = list] /\ heap' = heap
    BY <1>1 DEF EndRule, FreeRuleContents
  <1>3. heap' = TableBlocks \cup RuleBlocks(rule')
    <2>1. CASE rule' = EmptyRule(rule.at) /\ heap' = heap \ C
      BY <2>1, EmptyBlocks
    <2>2. CASE rule' = [rule EXCEPT !.list = list] /\ heap' = heap
      BY <1>1, <2>2 DEF RuleBlocks
    <2> QED
      BY <1>2, <2>1, <2>2
  <1>4. TokenBlocks(token') = {} /\ ProductionBlocks(production') = {}
    BY EmptyBlocks
  <1> QED
    BY <1>3, <1>4 DEF HeapOK

LEMMA TokenHeap ==
  ASSUME TypeInv, StoredOK, TokenOK, ProductionOK, RuleOK, HeapOK,
         \/ BeginToken \/ TokenEqual \/ TokenValue \/ TokenEnd \/ TokenSemicolon
         \/ TokenFailed \/ TokenExists \/ StoreToken
  PROVE  HeapOK'
  <1>1. token \in Tokens
    BY DEF TypeInv, TypeOK
  <1>2. /\ rule' = rule /\ production' = production
        /\ RuleBlocks(rule) = {} /\ ProductionBlocks(production) = {}
    <2>1. pc \notin RuleControl \cup ProductionControl
      BY DEF BeginToken, TokenEqual, TokenValue, TokenEnd, TokenSemicolon, TokenFailed,
             TokenExists, StoreToken, RuleControl, ProductionControl
    <2>2. rule = NoRule /\ production = NoProduction
      BY <2>1 DEF RuleOK, ProductionOK
    <2>3. rule' = rule /\ production' = production
      BY DEF BeginToken, TokenEqual, TokenValue, TokenEnd, TokenSemicolon, TokenFailed,
             TokenExists, StoreToken, scratch
    <2> QED
      BY <2>2, <2>3, EmptyBlocks
  <1>3. heap = TableBlocks \cup TokenBlocks(token)
    BY <1>2 DEF HeapOK
  <1>4. ASSUME ~StoreToken PROVE TableBlocks' = TableBlocks
    <2>1. ~StoreRule /\ ~FreeGrammar
      BY <1>4 DEF BeginToken, TokenEqual, TokenValue, TokenEnd, TokenSemicolon,
                  TokenFailed, TokenExists, StoreRule, FreeGrammar
    <2> QED
      BY <1>4, <2>1, TablesStep DEF Next, Parse
  <1>5. ASSUME ~StoreToken, heap' = TableBlocks \cup TokenBlocks(token') PROVE HeapOK'
    BY <1>2, <1>4, <1>5 DEF HeapOK
  <1>6. CASE BeginToken
    <2>1. ~StoreToken /\ pc \notin TokenControl /\ heap' = heap \cup TokenBlocks(token')
      BY <1>6 DEF BeginToken, StoreToken, TokenControl
    <2>2. TokenBlocks(token) = {}
      BY <2>1, EmptyBlocks DEF TokenOK
    <2> QED
      BY <1>3, <1>5, <2>1, <2>2
  <1>7. CASE TokenEqual
    <2>1. ~StoreToken /\ heap' = heap /\ token' = token
      BY <1>7 DEF TokenEqual, StoreToken, scratch
    <2> QED
      BY <1>3, <1>5, <2>1
  <1>8. CASE TokenValue
    <2>1. ~StoreToken /\ pc \in TokenControl /\ token.value = {}
      BY <1>8 DEF TokenValue, StoreToken, TokenControl, TokenOK
    <2>2. ASSUME NEW c, RejectToken(c) PROVE HeapOK'
      BY <1>2, <1>4, <2>1, <2>2, RejectHeap DEF RejectToken
    <2>3. ASSUME NEW type, NEW blocks, NEW symbol, AcceptValue(type, blocks, symbol)
          PROVE  HeapOK'
      <3>1. /\ token'.at = token.at /\ token'.name = token.name /\ token'.value = blocks
            /\ heap' = heap \cup blocks
        BY <1>1, <2>3 DEF AcceptValue, Tokens
      <3>2. TokenBlocks(token') = TokenBlocks(token) \cup blocks
        BY <2>1, <3>1 DEF TokenBlocks, TokenContents
      <3> QED
        BY <1>3, <1>5, <2>1, <3>1, <3>2
    <2>4. ASSUME NEW kind, AbortOn(kind) PROVE HeapOK'
      BY <1>3, <1>5, <2>1, <2>4 DEF AbortOn
    <2> QED
      BY <1>8, <2>2, <2>3, <2>4 DEF TokenValue, ExtractValue
  <1>9. CASE TokenEnd \/ TokenSemicolon
    <2>1. ~StoreToken /\ pc \in TokenControl
      BY <1>9 DEF TokenEnd, TokenSemicolon, StoreToken, TokenControl
    <2>2. ASSUME NEW c, RejectToken(c) PROVE HeapOK'
      BY <1>2, <1>4, <2>1, <2>2, RejectHeap DEF RejectToken
    <2>3. ASSUME NEW kind, EndToken(kind) PROVE HeapOK'
      <3>1. /\ token'.at = token.at /\ token'.name = token.name
            /\ token'.value = token.value /\ heap' = heap
        BY <1>1, <2>3 DEF EndToken, Tokens
      <3>2. TokenBlocks(token') = TokenBlocks(token)
        BY <3>1 DEF TokenBlocks, TokenContents
      <3> QED
        BY <1>3, <1>5, <2>1, <3>1, <3>2
    <2>4. ASSUME token' = token, heap' = heap PROVE HeapOK'
      BY <1>3, <1>5, <2>1, <2>4
    <2> QED
      BY <1>9, <2>2, <2>3, <2>4 DEF TokenEnd, TokenSemicolon
  <1>10. CASE TokenFailed \/ TokenExists
    <2>1. ~StoreToken /\ pc \in TokenControl
      BY <1>10 DEF TokenFailed, TokenExists, StoreToken, TokenControl
    <2>2. heap' = heap \ TokenBlocks(token) /\ TokenBlocks(token') = {}
      BY <1>10, EmptyBlocks DEF TokenFailed, TokenExists, FailToken
    <2>3. heap' = TableBlocks
      BY <1>3, <2>1, <2>2, TokenApart
    <2> QED
      BY <1>5, <2>1, <2>2, <2>3
  <1>11. CASE StoreToken
    <2>1. heap' = heap /\ TokenBlocks(token') = {}
      BY <1>11, EmptyBlocks DEF StoreToken
    <2>2. TableBlocks' = TableBlocks \cup TokenBlocks(token)
      <3>1. ~FreeGrammar
        BY <1>11 DEF StoreToken, FreeGrammar
      <3> QED
        BY <1>11, <3>1, TablesStep DEF Next, Parse
    <2> QED
      BY <1>2, <1>3, <2>1, <2>2 DEF HeapOK
  <1> QED
    BY <1>6, <1>7, <1>8, <1>9, <1>10, <1>11

LEMMA RuleHeap ==
  ASSUME TypeInv, StoredOK, TokenOK, ProductionOK, RuleOK, HeapOK,
         \/ BeginRule \/ RuleEqual \/ BeginProduction \/ ExtractPRItem \/ RejectPRItem
         \/ EmptyProductionRule \/ ProductionFailed \/ PushProduction
         \/ RuleFailed \/ RuleExists \/ StoreRule
  PROVE  HeapOK'
  <1>1. /\ rule \in Rules /\ production \in Productions
        /\ production.items \in Seq(PRItems)
    BY DEF TypeInv, TypeOK, Productions
  <1>2. token' = token /\ token = NoToken /\ TokenBlocks(token) = {}
    <2>1. pc \notin TokenControl
      BY DEF BeginRule, RuleEqual, BeginProduction, ExtractPRItem, RejectPRItem,
             EmptyProductionRule, ProductionFailed, PushProduction, RuleFailed,
             RuleExists, StoreRule, TokenControl
    <2>2. token' = token
      BY DEF BeginRule, RuleEqual, BeginProduction, ExtractPRItem, RejectPRItem,
             EmptyProductionRule, ProductionFailed, PushProduction, RuleFailed,
             RuleExists, StoreRule, scratch
    <2> QED
      BY <2>1, <2>2, EmptyBlocks DEF TokenOK
  <1>3. heap = TableBlocks \cup RuleBlocks(rule) \cup ProductionBlocks(production)
    BY <1>2 DEF HeapOK
  <1>4. ASSUME ~StoreRule PROVE TableBlocks' = TableBlocks
    <2>1. ~StoreToken /\ ~FreeGrammar
      BY <1>4 DEF BeginRule, RuleEqual, BeginProduction, ExtractPRItem, RejectPRItem,
                  EmptyProductionRule, ProductionFailed, PushProduction, RuleFailed,
                  RuleExists, StoreToken, FreeGrammar
    <2> QED
      BY <1>4, <2>1, TablesStep DEF Next, Parse
  <1>5. ASSUME ~StoreRule,
               heap' = TableBlocks \cup RuleBlocks(rule') \cup ProductionBlocks(production')
        PROVE  HeapOK'
    BY <1>2, <1>4, <1>5 DEF HeapOK
  <1>6. CASE BeginRule
    <2>1. /\ ~StoreRule /\ pc \notin RuleControl /\ production' = production
          /\ heap' = heap \cup RuleBlocks(rule')
      BY <1>6 DEF BeginRule, StoreRule, RuleControl
    <2>2. RuleBlocks(rule) = {}
      BY <2>1, EmptyBlocks DEF RuleOK
    <2> QED
      BY <1>3, <1>5, <2>1, <2>2
  <1>7. CASE RuleEqual \/ EmptyProductionRule
    <2>1. ~StoreRule /\ heap' = heap /\ rule' = rule /\ production' = production
      BY <1>7 DEF RuleEqual, EmptyProductionRule, StoreRule, scratch
    <2> QED
      BY <1>3, <1>5, <2>1
  <1>8. CASE BeginProduction
    <2>1. /\ ~StoreRule /\ pc \in RuleControl /\ production = NoProduction
      BY <1>8 DEF BeginProduction, StoreRule, RuleControl, ProductionControl, ProductionOK
    <2>2. ProductionBlocks(production) = {}
      BY <2>1, EmptyBlocks
    <2>3. ASSUME NEW hasEnd, EndRule(rule.list, hasEnd), production' = production
          PROVE  HeapOK'
      <3>1. [rule EXCEPT !.list = rule.list] = rule
        BY <1>1 DEF Rules
      <3>2. heap = TableBlocks \cup Struct("rule", rule.at) \cup RuleContents(rule)
        BY <1>3, <2>2 DEF RuleBlocks
      <3>3. /\ TableBlocks \cap RuleContents(rule) = {}
            /\ Struct("rule", rule.at) \cap RuleContents(rule) = {}
        BY <2>1, RuleApart DEF RuleBlocks
      <3> QED
        BY <1>1, <1>2, <1>4, <2>1, <2>3, <3>1, <3>2, <3>3, EndRuleHeap
    <2>4. ASSUME production' = EmptyProduction(pos + 1), rule' = rule,
                 heap' = heap \cup Struct("production", pos + 1)
          PROVE  HeapOK'
      BY <1>3, <1>5, <2>1, <2>2, <2>4, EmptyBlocks
    <2> QED
      BY <1>8, <2>3, <2>4 DEF BeginProduction
  <1>9. CASE ExtractPRItem
    <2>1. /\ ~StoreRule /\ rule' = rule /\ production'.at = production.at
          /\ production'.items = Append(production.items, PRItem(pos))
          /\ heap' = heap \cup PRItemBlocks(PRItem(pos))
      BY <1>1, <1>9 DEF ExtractPRItem, StoreRule, Productions
    <2>2. ProductionBlocks(production')
            = ProductionBlocks(production) \cup PRItemBlocks(PRItem(pos))
      BY <1>1, <2>1, AppendedItem DEF ProductionBlocks
    <2> QED
      BY <1>3, <1>5, <2>1, <2>2
  <1>10. CASE RejectPRItem
    <2>1. /\ ~StoreRule /\ pc \in RuleControl /\ rule' = rule
          /\ production' = EmptyProduction(production.at)
          /\ heap' = heap \ PRItemsBlocks(production.items)
      BY <1>10 DEF RejectPRItem, StoreRule, RuleControl
    <2>2. /\ ProductionBlocks(production') = Struct("production", production.at)
          /\ ProductionBlocks(production)
               = Struct("production", production.at) \cup PRItemsBlocks(production.items)
          /\ RuleBlocks(rule) = Struct("rule", rule.at) \cup RuleContents(rule)
      BY <2>1, EmptyBlocks DEF ProductionBlocks, RuleBlocks
    <2>3. heap' = TableBlocks \cup RuleBlocks(rule) \cup Struct("production", production.at)
      BY <1>3, <2>1, <2>2, RuleApart
    <2> QED
      BY <1>5, <2>1, <2>2, <2>3
  <1>11. CASE ProductionFailed
    <2>1. /\ ~StoreRule /\ pc \in RuleControl /\ production.items = <<>>
          /\ rule' = EmptyRule(rule.at) /\ production' = NoProduction
          /\ heap' = heap \ (RuleContents(rule) \cup Struct("production", production.at))
      BY <1>11 DEF ProductionFailed, StoreRule, RuleControl, ProductionControl, ProductionOK
    <2>2. /\ RuleBlocks(rule') = Struct("rule", rule.at) /\ ProductionBlocks(production') = {}
          /\ ProductionBlocks(production) = Struct("production", production.at)
          /\ RuleBlocks(rule) = Struct("rule", rule.at) \cup RuleContents(rule)
      BY <2>1, EmptyBlocks DEF ProductionBlocks, RuleBlocks, PRItemsBlocks
    <2>3. heap' = TableBlocks \cup Struct("rule", rule.at)
      BY <1>3, <2>1, <2>2, RuleApart
    <2> QED
      BY <1>5, <2>1, <2>2, <2>3
  <1>12. CASE PushProduction
    <2> DEFINE list == Append(rule.list, production)
               pushed == [rule EXCEPT !.list = list]
    <2>1. /\ ~StoreRule /\ pc \in RuleControl /\ production' = NoProduction
      BY <1>12 DEF PushProduction, StoreRule, RuleControl
    <2>2. /\ RuleContents(pushed) = RuleContents(rule) \cup ProductionBlocks(production)
          /\ pushed.at = rule.at
      BY <1>1, AppendedProduction
    <2>3. RuleBlocks(rule) = Struct("rule", rule.at) \cup RuleContents(rule)
      BY DEF RuleBlocks
    <2>4. RuleBlocks(pushed) = RuleBlocks(rule) \cup ProductionBlocks(production)
      BY <2>2, <2>3 DEF RuleBlocks
    <2>5. ASSUME NEW hasEnd, EndRule(list, hasEnd) PROVE HeapOK'
      <3> HIDE DEF list
      <3>1. heap = TableBlocks \cup Struct("rule", rule.at) \cup RuleContents(pushed)
        BY <1>3, <2>2, <2>3
      <3>2. /\ TableBlocks \cap RuleContents(pushed) = {}
            /\ Struct("rule", rule.at) \cap RuleContents(pushed) = {}
        BY <2>1, <2>2, <2>3, RuleApart
      <3> QED
        BY <1>1, <1>2, <1>4, <2>1, <2>5, <3>1, <3>2, EndRuleHeap
    <2>6. ASSUME rule' = pushed, heap' = heap PROVE HeapOK'
      <3> HIDE DEF pushed
      <3> QED
        BY <1>3, <1>5, <2>1, <2>4, <2>6, EmptyBlocks
    <2> QED
      BY <1>12, <2>5, <2>6 DEF PushProduction
  <1>13. CASE RuleFailed \/ RuleExists
    <2>1. /\ ~StoreRule /\ pc \in RuleControl \ ProductionControl
          /\ rule' = NoRule /\ production' = production
          /\ heap' = heap \ RuleBlocks(rule)
      BY <1>13 DEF RuleFailed, RuleExists, StoreRule, RuleControl, ProductionControl
    <2>2. ProductionBlocks(production) = {} /\ RuleBlocks(rule') = {}
      BY <2>1, EmptyBlocks DEF ProductionOK
    <2>3. heap' = TableBlocks
      BY <1>3, <2>1, <2>2, RuleApart
    <2> QED
      BY <1>5, <2>1, <2>2, <2>3
  <1>14. CASE StoreRule
    <2>1. heap' = heap /\ production' = production /\ RuleBlocks(rule') = {}
      BY <1>14, EmptyBlocks DEF StoreRule
    <2>2. TableBlocks' = TableBlocks \cup RuleBlocks(rule)
      <3>1. ~FreeGrammar
        BY <1>14 DEF StoreRule, FreeGrammar
      <3> QED
        BY <1>14, <3>1, TablesStep DEF Next, Parse
    <2> QED
      BY <1>2, <1>3, <2>1, <2>2 DEF HeapOK
  <1> QED
    BY <1>6, <1>7, <1>8, <1>9, <1>10, <1>11, <1>12, <1>13, <1>14

LEMMA HeapStep ==
  ASSUME TypeInv, StoredOK, TokenOK, ProductionOK, RuleOK, HeapOK, [Next]_vars
  PROVE  HeapOK'
  <1>1. CASE \/ BeginToken \/ TokenEqual \/ TokenValue \/ TokenEnd \/ TokenSemicolon
             \/ TokenFailed \/ TokenExists \/ StoreToken
    BY <1>1, TokenHeap
  <1>2. CASE \/ BeginRule \/ RuleEqual \/ BeginProduction \/ ExtractPRItem \/ RejectPRItem
             \/ EmptyProductionRule \/ ProductionFailed \/ PushProduction
             \/ RuleFailed \/ RuleExists \/ StoreRule
    BY <1>2, RuleHeap
  <1>3. CASE FreeGrammar
    <2>1. /\ pc = "itemsFreed" /\ heap' = heap \ TableBlocks
          /\ token' = token /\ rule' = rule /\ production' = production
          /\ DOMAIN tokens' = {} /\ DOMAIN rules' = {}
      BY <1>3 DEF FreeGrammar, EmptyTable, scratch
    <2>2. token = NoToken /\ rule = NoRule /\ production = NoProduction
      BY <2>1 DEF TokenOK, RuleOK, ProductionOK, TokenControl, RuleControl,
                  ProductionControl
    <2>3. TableBlocks' = {}
      BY <2>1, TableMembers
    <2> QED
      BY <2>1, <2>2, <2>3, EmptyBlocks DEF HeapOK
  <1>4. CASE \/ DeclarationsEnd \/ UnknownItem \/ UNCHANGED vars
             \/ StartResolving \/ TokensResolved \/ RulesResolved
             \/ ReportError \/ FreeItems
             \/ \E n \in pending : ResolveToken(n) \/ ResolveRule(n)
    <2>1. heap' = heap /\ token' = token /\ rule' = rule /\ production' = production
      BY <1>4 DEF DeclarationsEnd, UnknownItem, vars, StartResolving, TokensResolved,
                  RulesResolved, ReportError, FreeItems, ResolveToken, ResolveRule,
                  scratch
    <2>2. TableBlocks' = TableBlocks
      <3>1. CASE tokens' = tokens /\ rules' = rules
        <4>1. \A b : b \in TableBlocks' <=> b \in TableBlocks
          BY <3>1, TableMembers
        <4> QED
          BY <4>1
      <3>2. CASE \E n \in pending : ResolveToken(n) \/ ResolveRule(n)
        <4>1. ~StoreToken /\ ~StoreRule /\ ~FreeGrammar
          BY <3>2 DEF ResolveToken, ResolveRule, StoreToken, StoreRule, FreeGrammar
        <4> QED
          BY <4>1, TablesStep
      <3> QED
        BY <1>4, <3>1, <3>2, QuietTables
    <2> QED
      BY <2>1, <2>2 DEF HeapOK
  <1> QED
    BY <1>1, <1>2, <1>3, <1>4 DEF Next, Parse, Resolve, Clean, Terminated

LEMMA MemoryStep == MemoryInv /\ [Next]_vars => MemoryInv'
  BY TypeInvStep, StoredStep, TokenStep, ProductionStep, RuleStep, HeapStep DEF MemoryInv

LEMMA InitMemoryInv == Init => MemoryInv
  <1> SUFFICES ASSUME Init PROVE MemoryInv
    OBVIOUS
  <1>1. TypeInv
    BY InitTypeInv
  <1>2. /\ token = NoToken /\ rule = NoRule /\ production = NoProduction
        /\ DOMAIN tokens = {} /\ DOMAIN rules = {} /\ heap = {} /\ pc = "declaration"
    BY DEF Init, EmptyTable
  <1>3. TableBlocks = {}
    BY <1>2, TableMembers
  <1>4. TokenOK /\ ProductionOK /\ RuleOK
    BY <1>2 DEF TokenOK, ProductionOK, RuleOK, TokenControl, ProductionControl, RuleControl
  <1> QED
    BY <1>1, <1>2, <1>3, <1>4, EmptyBlocks DEF MemoryInv, HeapOK, StoredOK, Within

(***************************************************************************)
(* On every path, errors included, the blocks in use are exactly those a   *)
(* live structure owns, and no two table entries share a structure, for    *)
(* every set of item lists.                                                *)
(***************************************************************************)
THEOREM MemoryCorrect == Spec => []HeapIsOwned
  <1>1. MemoryInv => HeapIsOwned
    BY DEF MemoryInv, StoredOK, HeapOK, HeapIsOwned
  <1> QED
    BY <1>1, InitMemoryInv, MemoryStep, PTL DEF Spec
=============================================================================
