---------------------- MODULE GrammarParserRefinement -----------------------
(***************************************************************************)
(* Proof that the parser implements GrammarLanguage, for every set of item *)
(* lists: reading item by item it accepts exactly the grammars, and        *)
(* declares the names, that the abstract specification reads declaration   *)
(* by declaration.                                                         *)
(***************************************************************************)
EXTENDS GrammarParserSafety
-----------------------------------------------------------------------------
(* The inductive invariant *)

Kind(i) == items[i].kind
TokenHead == {"tokenEqual", "tokenValue", "tokenEnd", "tokenSemicolon", "tokenStore"}
RuleHead == {"production", "prItem", "productionEnd"}

(* No declaration starts after item s. *)
NoSegment(s) ==
  \A e \in 1..Len(items) : ~Language!IsToken(s, e) /\ ~Language!IsRule(s, e)

ValueOK(i) ==
  \/ Kind(i) \in {"block", "emptyBlock", "openBlock", "range", "emptyRange"}
  \/ Kind(i) = "upper" /\ Text(i) # Text(decl)

(* The part of a token declaration that was read is the beginning of one. *)
TokenRead ==
  /\ pc \in TokenHead => Kind(decl) = "tokenDecl"
  /\ pc = "tokenEqual" => pos = decl
  /\ pc \in TokenHead \ {"tokenEqual"} => Kind(decl + 1) = "equal"
  /\ pc = "tokenValue" => pos = decl + 1
  /\ pc \in {"tokenEnd", "tokenSemicolon"} => ValueOK(decl + 2)
  /\ pc = "tokenEnd" => pos = decl + 2
  /\ pc = "tokenSemicolon" => pos = decl + 3 /\ Kind(pos) \in Quantifiers
  /\ pc = "tokenStore" => Language!IsToken(decl - 1, pos)

(* Items a to b belong to production rules and leave none empty. *)
Alternatives(a, b) ==
  /\ \A i \in a..b : Kind(i) \in {"block", "upper", "lower", "pipe"}
  /\ \A i \in a..b : Kind(i) = "pipe" => Kind(i - 1) \notin {"equal", "pipe"}

(* The part of a rule declaration that was read is the beginning of one,   *)
(* and the structures tell where its last production rule begins.          *)
RuleRead ==
  /\ pc = "ruleEqual" => pos = decl /\ Kind(decl) = "ruleDecl" /\ rule.list = <<>>
  /\ pc \in RuleHead => Kind(decl) = "ruleDecl" /\ Kind(decl + 1) = "equal"
  /\ pc = "production" =>
       /\ Alternatives(decl + 2, pos)
       /\ IF rule.list = <<>> THEN pos = decl + 1
          ELSE pos > decl + 1 /\ Kind(pos) = "pipe"
  /\ pc = "prItem" =>
       /\ pos >= decl + 2 /\ Alternatives(decl + 2, pos - 1)
       /\ IF production.items = <<>>
            THEN Kind(pos - 1) \in {"equal", "pipe"} /\ Kind(pos) # "semicolon"
            ELSE pos > decl + 2 /\ Kind(pos - 1) \in {"block", "upper", "lower"}
  /\ pc = "productionEnd" => AtEnd /\ Alternatives(decl + 2, pos)
  /\ pc = "ruleStore" => Language!IsRule(decl - 1, pos)

(* A declaration is only refused when it is none. *)
FailRead == pc \in {"tokenFailed", "productionFailed", "ruleFailed"} => NoSegment(decl - 1)

ReadInv == TypeInv /\ CodeOK /\ TokenRead /\ RuleRead /\ FailRead
-----------------------------------------------------------------------------
(* Declarations *)

LEMMA Places ==
  ASSUME TypeInv
  PROVE  /\ pos \in Nat /\ decl \in Nat /\ decl <= pos /\ Len(items) \in Nat
         /\ pos <= Len(items)
         /\ pc \in Extracting => decl >= 1
  BY TypeFacts DEF TypeInv, TypeOK, ControlOK, Pointer

(* The segments of GrammarLanguage, where the current declaration begins. *)
LEMMA Segments ==
  ASSUME TypeInv, decl >= 1, NEW e \in Nat
  PROVE  /\ Language!IsToken(decl - 1, e) <=>
              /\ e \in {decl + 3, decl + 4} /\ e <= Len(items)
              /\ Kind(decl) = "tokenDecl" /\ Kind(decl + 1) = "equal"
              /\ ValueOK(decl + 2)
              /\ e = decl + 4 => Kind(decl + 3) \in Quantifiers
              /\ Kind(e) = "semicolon"
         /\ Language!IsRule(decl - 1, e) <=>
              /\ e >= decl + 3 /\ e <= Len(items)
              /\ Kind(decl) = "ruleDecl" /\ Kind(decl + 1) = "equal"
              /\ Alternatives(decl + 2, e - 1)
              /\ Kind(e) = "semicolon"
  <1>1. /\ decl \in Nat /\ decl - 1 + 1 = decl /\ decl - 1 + 2 = decl + 1
        /\ decl - 1 + 3 = decl + 2 /\ decl - 1 + 4 = decl + 3 /\ decl - 1 + 5 = decl + 4
    BY Places
  <1>2. Language!IsToken(decl - 1, e) <=>
              /\ e \in {decl + 3, decl + 4} /\ e <= Len(items)
              /\ Kind(decl) = "tokenDecl" /\ Kind(decl + 1) = "equal"
              /\ ValueOK(decl + 2)
              /\ e = decl + 4 => Kind(decl + 3) \in Quantifiers
              /\ Kind(e) = "semicolon"
    BY <1>1 DEF Language!IsToken, Language!KindAt, Language!Name, Kind, ValueOK, Text,
                Quantifiers
  <1>3. Alternatives(decl + 2, e - 1) <=>
          /\ \A i \in (decl + 2)..(e - 1) : Kind(i) \in {"block", "upper", "lower", "pipe"}
          /\ \A i \in (decl + 1)..(e - 2) :
               Kind(i + 1) = "pipe" => Kind(i) \notin {"equal", "pipe"}
    <2>1. ASSUME Alternatives(decl + 2, e - 1), NEW i \in (decl + 1)..(e - 2),
                 Kind(i + 1) = "pipe"
          PROVE  Kind(i) \notin {"equal", "pipe"}
      <3>1. i + 1 \in (decl + 2)..(e - 1) /\ (i + 1) - 1 = i
        BY <1>1
      <3> QED
        BY <2>1, <3>1 DEF Alternatives
    <2>2. ASSUME \A i \in (decl + 1)..(e - 2) :
                   Kind(i + 1) = "pipe" => Kind(i) \notin {"equal", "pipe"},
                 NEW i \in (decl + 2)..(e - 1), Kind(i) = "pipe"
          PROVE  Kind(i - 1) \notin {"equal", "pipe"}
      <3>1. i - 1 \in (decl + 1)..(e - 2) /\ (i - 1) + 1 = i
        BY <1>1
      <3> QED
        BY <2>2, <3>1
    <2> QED
      BY <2>1, <2>2 DEF Alternatives
  <1>4. Language!IsRule(decl - 1, e) <=>
              /\ e >= decl + 3 /\ e <= Len(items)
              /\ Kind(decl) = "ruleDecl" /\ Kind(decl + 1) = "equal"
              /\ Alternatives(decl + 2, e - 1)
              /\ Kind(e) = "semicolon"
    BY <1>1, <1>3 DEF Language!IsRule, Language!KindAt, Kind
  <1> QED
    BY <1>2, <1>4

-----------------------------------------------------------------------------
(* Reading a token declaration *)

LEMMA TokenReadStep ==
  ASSUME TypeInv, TokenRead, [Next]_vars
  PROVE  TokenRead'
  <1> USE DEF TokenHead
  <1>1. items' = items
    BY ItemsKept
  <1>2. pos \in Nat /\ decl \in Nat /\ decl <= pos /\ (pc \in Extracting => decl >= 1)
    BY Places
  <1>3. CASE BeginToken
    BY <1>1, <1>3 DEF BeginToken, NextIs, TokenRead, Kind
  <1>4. CASE TokenEqual
    <2>1. CASE NextIs({"equal"})
      BY <1>1, <1>2, <1>4, <2>1 DEF TokenEqual, Advance, NextIs, TokenRead, Kind
    <2>2. CASE ~NextIs({"equal"})
      BY <1>4, <2>2 DEF TokenEqual, TokenRead
    <2> QED
      BY <2>1, <2>2
  <1>5. CASE TokenValue
    <2>1. CASE pc' = "tokenEnd"
      <3>1. ~AtEnd /\ ExtractValue(items[pos + 1].kind, pos + 1)
        BY <1>5, <2>1 DEF TokenValue, RejectToken
      <3>2. pos' = pos + 1 /\ decl' = decl /\ pos = decl + 1
        BY <1>5, <3>1 DEF TokenValue, Advance, TokenRead
      <3>3. Kind(decl) = "tokenDecl" /\ Kind(decl + 1) = "equal"
        BY <1>5 DEF TokenValue, TokenRead
      <3>4. ValueOK(pos + 1)
        BY <2>1, <3>1 DEF ExtractValue, AbortOn, RejectToken, AcceptValue, ValueOK, Kind, Text, Blocks
      <3>5. pos + 1 = decl + 2
        BY <1>2, <3>2
      <3> QED
        BY <1>1, <2>1, <3>2, <3>3, <3>4, <3>5 DEF TokenRead, Kind, ValueOK, Text
    <2>2. CASE pc' # "tokenEnd"
      <3>1. pc' \in {"tokenFailed", "aborted"}
        BY <1>5, <2>2 DEF TokenValue, ExtractValue, AbortOn, RejectToken, AcceptValue
      <3> QED
        BY <3>1 DEF TokenRead
    <2> QED
      BY <2>1, <2>2
  <1>6. CASE TokenEnd \/ TokenSemicolon
    <2>1. /\ Kind(decl) = "tokenDecl" /\ Kind(decl + 1) = "equal" /\ ValueOK(decl + 2)
          /\ decl' = decl /\ decl >= 1
          /\ \/ pc = "tokenEnd" /\ pos = decl + 2
             \/ pc = "tokenSemicolon" /\ pos = decl + 3 /\ Kind(pos) \in Quantifiers
      BY <1>2, <1>6 DEF TokenEnd, TokenSemicolon, TokenRead, Extracting, ParseControl
    <2>2. CASE pc' = "tokenFailed"
      BY <2>2 DEF TokenRead
    <2>3. CASE pc' = "tokenSemicolon"
      <3>1. pc = "tokenEnd" /\ NextIs(Quantifiers)
        BY <1>6, <2>3 DEF TokenEnd, TokenSemicolon, EndToken, RejectToken
      <3>2. pos' = pos + 1 /\ Kind(pos + 1) \in Quantifiers /\ pos + 1 = decl + 3
        BY <1>2, <1>6, <2>1, <3>1 DEF TokenEnd, TokenSemicolon, Advance, NextIs, Kind
      <3> QED
        BY <1>1, <2>1, <2>3, <3>2 DEF TokenRead, Kind, ValueOK, Text
    <2>4. CASE pc' = "tokenStore"
      <3>1. NextIs({"semicolon"})
        BY <1>6, <2>4 DEF TokenEnd, TokenSemicolon, RejectToken
      <3>2. /\ pos' = pos + 1 /\ Kind(pos + 1) = "semicolon" /\ pos + 1 <= Len(items)
        BY <1>6, <3>1, Places DEF TokenEnd, TokenSemicolon, Advance, NextIs, AtEnd, Kind
      <3>3. /\ pos + 1 \in {decl + 3, decl + 4}
            /\ pos + 1 = decl + 4 => Kind(decl + 3) \in Quantifiers
        BY <1>2, <2>1
      <3>4. Language!IsToken(decl - 1, pos + 1)
        BY <1>2, <2>1, <3>2, <3>3, Segments
      <3>5. Language!IsToken(decl - 1, pos)'
        BY <1>1, <2>1, <3>2, <3>4 DEF Language!IsToken, Language!KindAt, Language!Name
      <3> QED
        BY <1>1, <2>1, <2>4, <3>5 DEF TokenRead, Kind
    <2> QED
      BY <1>6, <2>2, <2>3, <2>4 DEF TokenEnd, TokenSemicolon, EndToken, RejectToken
  <1>7. CASE pc' \notin TokenHead
    BY <1>7 DEF TokenRead
  <1>8. CASE UNCHANGED vars
    BY <1>8 DEF vars, TokenRead, Kind, ValueOK, Text, Language!IsToken, Language!KindAt,
                Language!Name
  <1> QED
    <2>1. CASE \/ DeclarationsEnd \/ UnknownItem \/ BeginRule
               \/ TokenFailed \/ TokenExists \/ StoreToken
               \/ RuleEqual \/ BeginProduction \/ ExtractPRItem \/ RejectPRItem
               \/ EmptyProductionRule \/ ProductionFailed \/ PushProduction
               \/ RuleFailed \/ RuleExists \/ StoreRule
               \/ StartResolving \/ TokensResolved \/ RulesResolved
               \/ ReportError \/ FreeItems \/ FreeGrammar
               \/ \E n \in pending : ResolveToken(n) \/ ResolveRule(n)
      <3>1. pc' \notin TokenHead
        BY <2>1
        DEF DeclarationsEnd, UnknownItem, BeginRule, TokenFailed, TokenExists, FailToken,
            StoreToken, RuleEqual, BeginProduction, ExtractPRItem, RejectPRItem,
            EmptyProductionRule, ProductionFailed, PushProduction, EndRule, RuleFailed,
            RuleExists, StoreRule, StartResolving, TokensResolved, RulesResolved,
            ReportError, FreeItems, FreeGrammar, ResolveToken, ResolveRule
      <3> QED
        BY <1>7, <3>1
    <2> QED
      BY <1>3, <1>4, <1>5, <1>6, <1>8, <2>1
      DEF Next, Parse, Resolve, Clean, Terminated

LEMMA TokenRefused ==
  ASSUME TypeInv, TokenRead, TokenEqual \/ TokenValue \/ TokenEnd \/ TokenSemicolon,
         pc' = "tokenFailed"
  PROVE  NoSegment(decl - 1)
  <1>1. /\ pos \in Nat /\ decl \in Nat /\ decl <= pos /\ decl >= 1 /\ pos <= Len(items)
        /\ Len(items) \in Nat
    BY Places DEF TokenEqual, TokenValue, TokenEnd, TokenSemicolon, Extracting, ParseControl
  <1>2. Kind(decl) = "tokenDecl"
    BY DEF TokenEqual, TokenValue, TokenEnd, TokenSemicolon, TokenRead, TokenHead
  <1> SUFFICES ASSUME NEW e \in 1..Len(items), Language!IsToken(decl - 1, e) PROVE FALSE
    BY <1>1, <1>2, Segments DEF NoSegment
  <1>3. /\ e \in {decl + 3, decl + 4} /\ e <= Len(items) /\ e \in Nat
        /\ Kind(decl + 1) = "equal" /\ ValueOK(decl + 2)
        /\ e = decl + 4 => Kind(decl + 3) \in Quantifiers
        /\ Kind(e) = "semicolon"
    BY <1>1, Segments
  <1>4. CASE TokenEqual
    BY <1>1, <1>3, <1>4 DEF TokenEqual, NextIs, AtEnd, TokenRead, Kind
  <1>5. CASE TokenValue
    <2>1. pos = decl + 1 /\ pos + 1 = decl + 2
      BY <1>1, <1>5 DEF TokenValue, TokenRead
    <2>2. ~AtEnd /\ ExtractValue(items[pos + 1].kind, pos + 1)
      BY <1>1, <1>3, <1>5, <2>1 DEF TokenValue, AtEnd
    <2> QED
      BY <1>3, <2>1, <2>2 DEF ExtractValue, AbortOn, AcceptValue, RejectToken, ValueOK, Kind, Text,
                              Blocks, RangeErrors
  <1>6. CASE TokenEnd
    BY <1>1, <1>3, <1>6 DEF TokenEnd, NextIs, AtEnd, TokenRead, EndToken, Kind
  <1>7. CASE TokenSemicolon
    BY <1>1, <1>3, <1>7 DEF TokenSemicolon, NextIs, AtEnd, TokenRead, EndToken, Kind,
                           Quantifiers
  <1> QED
    BY <1>4, <1>5, <1>6, <1>7
-----------------------------------------------------------------------------
(* Reading a rule declaration *)

LEMMA RuleReadStep ==
  ASSUME TypeInv, RuleRead, [Next]_vars
  PROVE  RuleRead'
  <1> USE DEF RuleHead
  <1>1. items' = items
    BY ItemsKept
  <1>2. /\ pos \in Nat /\ decl \in Nat /\ decl <= pos /\ pos <= Len(items)
        /\ (pc \in Extracting => decl >= 1) /\ Len(items) \in Nat
    BY Places
  <1>3. /\ rule \in Rules /\ rule.list \in Seq(Productions)
        /\ production \in Productions /\ production.items \in Seq(PRItems)
    BY DEF TypeInv, TypeOK, Rules, Productions
  <1>4. ASSUME NEW e \in Nat, pos' = e, decl' = decl, decl >= 1, Kind(decl) = "ruleDecl",
               Kind(decl + 1) = "equal", Alternatives(decl + 2, e - 1), e >= decl + 3,
               Kind(e) = "semicolon", e <= Len(items), pc' = "ruleStore"
        PROVE  RuleRead'
    <2>1. Language!IsRule(decl - 1, e)
      BY <1>4, Segments
    <2>2. Language!IsRule(decl - 1, pos)'
      BY <1>1, <1>4, <2>1 DEF Language!IsRule, Language!KindAt
    <2> QED
      BY <1>4, <2>2 DEF RuleRead
  <1>5. CASE BeginRule
    <2>1. /\ pos' = pos + 1 /\ decl' = pos + 1 /\ Kind(pos + 1) = "ruleDecl"
          /\ pc' = "ruleEqual" /\ rule'.list = <<>>
      BY <1>5 DEF BeginRule, NextIs, Kind, EmptyRule
    <2> QED
      BY <1>1, <2>1 DEF RuleRead, Kind
  <1>6. CASE RuleEqual
    <2>1. CASE NextIs({"equal"})
      <3>1. /\ pc' = "production" /\ pos' = pos + 1 /\ decl' = decl /\ rule' = rule
            /\ pos = decl /\ Kind(decl) = "ruleDecl" /\ Kind(decl + 1) = "equal"
            /\ rule.list = <<>>
        BY <1>6, <2>1 DEF RuleEqual, Advance, NextIs, RuleRead, Kind, scratch
      <3>2. Alternatives(decl + 2, pos)'
        BY <1>2, <3>1 DEF Alternatives
      <3> QED
        BY <1>1, <3>1, <3>2 DEF RuleRead, Kind
    <2>2. CASE ~NextIs({"equal"})
      BY <1>6, <2>2 DEF RuleEqual, RuleRead
    <2> QED
      BY <2>1, <2>2
  <1>7. CASE BeginProduction
    <2>1. /\ Kind(decl) = "ruleDecl" /\ Kind(decl + 1) = "equal" /\ decl' = decl
          /\ Alternatives(decl + 2, pos) /\ decl >= 1
          /\ IF rule.list = <<>> THEN pos = decl + 1
             ELSE pos > decl + 1 /\ Kind(pos) = "pipe"
      BY <1>2, <1>7 DEF BeginProduction, RuleRead, Extracting, ParseControl
    <2>2. CASE pc' = "prItem"
      <3>1. /\ pos' = pos + 1 /\ production'.items = <<>> /\ Kind(pos + 1) # "semicolon"
        BY <1>7, <2>2 DEF BeginProduction, EndRule, Advance, NextIs, EmptyProduction, Kind
      <3>2. Kind(pos) \in {"equal", "pipe"} /\ pos' >= decl' + 2 /\ pos' - 1 = pos
        BY <1>2, <2>1, <3>1
      <3>3. Alternatives(decl + 2, pos - 1)'
        BY <1>1, <2>1, <3>2 DEF Alternatives, Kind
      <3> QED
        BY <1>1, <2>1, <2>2, <3>1, <3>2, <3>3 DEF RuleRead, Kind
    <2>3. CASE pc' = "ruleStore"
      <3>1. /\ pos' = pos + 1 /\ rule.list # <<>> /\ Kind(pos + 1) = "semicolon"
            /\ ~AtEnd
        BY <1>7, <2>3 DEF BeginProduction, EndRule, Advance, NextIs, Kind
      <3>2. /\ pos + 1 \in Nat /\ pos + 1 >= decl + 3 /\ (pos + 1) - 1 = pos
            /\ pos + 1 <= Len(items)
        BY <1>2, <2>1, <3>1 DEF AtEnd
      <3>3. Alternatives(decl + 2, (pos + 1) - 1)
        BY <2>1, <3>2
      <3> QED
        BY <1>4, <2>1, <2>3, <3>1, <3>2, <3>3
    <2>4. CASE pc' = "ruleFailed"
      BY <2>4 DEF RuleRead
    <2> QED
      BY <1>7, <2>2, <2>3, <2>4 DEF BeginProduction, EndRule
  <1>8. CASE ExtractPRItem
    <2>1. /\ Kind(decl) = "ruleDecl" /\ Kind(decl + 1) = "equal" /\ decl' = decl
          /\ pos >= decl + 2 /\ Alternatives(decl + 2, pos - 1)
          /\ Kind(pos) \in {"block", "upper", "lower"}
      BY <1>8 DEF ExtractPRItem, RuleRead, Kind
    <2>2. Alternatives(decl + 2, pos)
      BY <1>2, <2>1 DEF Alternatives
    <2>3. CASE AtEnd
      <3>1. pos' = pos /\ pc' = "productionEnd" /\ AtEnd'
        BY <1>1, <1>8, <2>3 DEF ExtractPRItem, Advance, AtEnd
      <3> QED
        BY <1>1, <2>1, <2>2, <3>1 DEF RuleRead, Kind, Alternatives
    <2>4. CASE ~AtEnd
      <3>1. /\ pos' = pos + 1 /\ pc' = "prItem"
            /\ production'.items = Append(production.items, PRItem(pos))
        BY <1>3, <1>8, <2>4 DEF ExtractPRItem, Advance, Productions
      <3>2. pos' - 1 = pos /\ pos' >= decl' + 2 /\ pos' > decl' + 2
        BY <1>2, <2>1, <3>1
      <3>3. production'.items # <<>>
        BY <1>3, <3>1
      <3>4. Alternatives(decl + 2, pos - 1)'
        BY <1>1, <2>1, <2>2, <3>2 DEF Alternatives, Kind
      <3> QED
        BY <1>1, <2>1, <3>1, <3>2, <3>3, <3>4 DEF RuleRead, Kind
    <2> QED
      BY <2>3, <2>4
  <1>9. CASE PushProduction
    <2>1. /\ Kind(decl) = "ruleDecl" /\ Kind(decl + 1) = "equal" /\ decl' = decl /\ pos' = pos
          /\ decl >= 1
      BY <1>2, <1>9 DEF PushProduction, RuleRead, Extracting, ParseControl
    <2>2. pc = "prItem" =>
            /\ pos > decl + 2 /\ Alternatives(decl + 2, pos - 1)
            /\ Kind(pos - 1) \in {"block", "upper", "lower"}
      BY <1>9 DEF PushProduction, RuleRead
    <2>3. CASE pc' = "production"
      <3>1. /\ pc = "prItem" /\ Kind(pos) = "pipe"
            /\ rule' = [rule EXCEPT !.list = Append(rule.list, production)]
        BY <1>9, <2>3 DEF PushProduction, EndRule, Kind
      <3>2. rule'.list # <<>>
        BY <1>3, <3>1 DEF Rules
      <3>3. Alternatives(decl + 2, pos)
        BY <1>2, <2>2, <3>1 DEF Alternatives
      <3>4. pos > decl + 1
        BY <1>2, <2>2, <3>1
      <3> QED
        BY <1>1, <2>1, <2>3, <3>1, <3>2, <3>3, <3>4 DEF RuleRead, Kind, Alternatives
    <2>4. CASE pc' = "ruleStore"
      <3>1. pc = "prItem" /\ Kind(pos) = "semicolon"
        BY <1>9, <2>4 DEF PushProduction, EndRule, Kind
      <3>2. pos >= decl + 3
        BY <1>2, <2>2, <3>1
      <3> QED
        BY <1>2, <1>4, <2>1, <2>2, <2>4, <3>1, <3>2
    <2>5. CASE pc' = "ruleFailed"
      BY <2>5 DEF RuleRead
    <2> QED
      BY <1>9, <2>3, <2>4, <2>5 DEF PushProduction, EndRule
  <1>10. CASE UNCHANGED vars
    BY <1>10 DEF vars, RuleRead, Kind, Alternatives, AtEnd, Language!IsRule, Language!KindAt
  <1>11. CASE \/ DeclarationsEnd \/ UnknownItem \/ BeginToken
              \/ TokenEqual \/ TokenValue \/ TokenEnd \/ TokenSemicolon
              \/ TokenFailed \/ TokenExists \/ StoreToken
              \/ RejectPRItem \/ EmptyProductionRule \/ ProductionFailed
              \/ RuleFailed \/ RuleExists \/ StoreRule
              \/ StartResolving \/ TokensResolved \/ RulesResolved
              \/ ReportError \/ FreeItems \/ FreeGrammar
              \/ \E n \in pending : ResolveToken(n) \/ ResolveRule(n)
    <2>1. \A kind, i : ExtractValue(kind, i) => pc' \in {"tokenEnd", "tokenFailed", "aborted"}
      BY DEF ExtractValue, AbortOn, RejectToken, AcceptValue
    <2>2. pc' \notin RuleHead \cup {"ruleEqual", "ruleStore"}
      BY <1>11, <2>1
      DEF DeclarationsEnd, UnknownItem, BeginToken, TokenEqual, TokenValue, TokenEnd,
          TokenSemicolon, RejectToken, EndToken, TokenFailed, TokenExists, FailToken,
          StoreToken, RejectPRItem, EmptyProductionRule, ProductionFailed, RuleFailed,
          RuleExists, StoreRule, StartResolving, TokensResolved, RulesResolved,
          ReportError, FreeItems, FreeGrammar, ResolveToken, ResolveRule
    <2> QED
      BY <2>2 DEF RuleRead
  <1> QED
    BY <1>5, <1>6, <1>7, <1>8, <1>9, <1>10, <1>11 DEF Next, Parse, Resolve, Clean, Terminated

(* Where extracting a rule fails, no rule was begun. *)
LEMMA RuleRefused ==
  ASSUME TypeInv, RuleRead,
         \/ RuleEqual \/ BeginProduction \/ RejectPRItem \/ EmptyProductionRule
         \/ PushProduction,
         pc' \in {"productionFailed", "ruleFailed"}
  PROVE  NoSegment(decl - 1)
  <1>1. /\ pos \in Nat /\ decl \in Nat /\ decl <= pos /\ decl >= 1 /\ pos <= Len(items)
        /\ Len(items) \in Nat
    BY Places DEF RuleEqual, BeginProduction, RejectPRItem, EmptyProductionRule,
                  PushProduction, Extracting, ParseControl
  <1>2. Kind(decl) = "ruleDecl"
    BY DEF RuleEqual, BeginProduction, RejectPRItem, EmptyProductionRule,
           PushProduction, RuleRead, RuleHead
  <1> SUFFICES ASSUME NEW e \in 1..Len(items), Language!IsRule(decl - 1, e) PROVE FALSE
    BY <1>1, <1>2, Segments DEF NoSegment
  <1>3. /\ e >= decl + 3 /\ e <= Len(items) /\ e \in Nat /\ Kind(decl + 1) = "equal"
        /\ Alternatives(decl + 2, e - 1) /\ Kind(e) = "semicolon"
    BY <1>1, Segments
  <1>4. CASE RuleEqual
    BY <1>1, <1>3, <1>4 DEF RuleEqual, NextIs, AtEnd, RuleRead, Kind
  <1>5. ASSUME NEW last \in Nat, last >= decl + 1, Alternatives(decl + 2, last),
               \/ last = Len(items)
               \/ /\ last + 1 <= Len(items)
                  /\ \/ Kind(last + 1) \notin {"block", "upper", "lower", "pipe", "semicolon"}
                     \/ Kind(last + 1) = "semicolon" /\ last = decl + 1
                     \/ Kind(last + 1) = "pipe" /\ Kind(last) \in {"equal", "pipe"}
        PROVE  FALSE
    <2>1. e > last
      BY <1>1, <1>3, <1>5 DEF Alternatives
    <2>2. CASE e = last + 1
      BY <1>1, <1>3, <1>5, <2>2
    <2>3. CASE e > last + 1
      <3>1. last + 1 \in (decl + 2)..(e - 1) /\ (last + 1) - 1 = last
        BY <1>1, <1>3, <1>5, <2>3
      <3>2. /\ Kind(last + 1) \in {"block", "upper", "lower", "pipe"}
            /\ Kind(last + 1) = "pipe" => Kind(last) \notin {"equal", "pipe"}
        BY <1>3, <3>1 DEF Alternatives
      <3> QED
        BY <1>1, <1>3, <1>5, <2>3, <3>2
    <2> QED
      BY <1>1, <1>3, <1>5, <2>1, <2>2, <2>3
  <1>6. CASE BeginProduction
    <2>1. /\ Alternatives(decl + 2, pos)
          /\ IF rule.list = <<>> THEN pos = decl + 1 ELSE pos > decl + 1
      BY <1>6 DEF BeginProduction, RuleRead
    <2>2. AtEnd \/ (NextIs({"semicolon"}) /\ rule.list = <<>>)
      BY <1>6 DEF BeginProduction, EndRule
    <2>3. /\ pos >= decl + 1
          /\ \/ pos = Len(items)
             \/ pos + 1 <= Len(items) /\ Kind(pos + 1) = "semicolon" /\ pos = decl + 1
      BY <1>1, <2>1, <2>2 DEF AtEnd, NextIs, Kind
    <2> QED
      BY <1>1, <1>5, <2>1, <2>3
  <1>7. CASE RejectPRItem \/ EmptyProductionRule
    <2>1. /\ pos >= decl + 2 /\ Alternatives(decl + 2, pos - 1)
          /\ \/ Kind(pos) \notin {"block", "upper", "lower", "pipe", "semicolon"}
             \/ Kind(pos) = "pipe" /\ Kind(pos - 1) \in {"equal", "pipe"}
      BY <1>7 DEF RejectPRItem, EmptyProductionRule, RuleRead, Kind
    <2>2. pos - 1 \in Nat /\ pos - 1 >= decl + 1 /\ (pos - 1) + 1 = pos
      BY <1>1, <2>1
    <2> HIDE DEF Alternatives
    <2> QED
      BY <1>1, <1>5, <2>1, <2>2
  <1>8. CASE PushProduction
    <2>1. Append(rule.list, production) # <<>>
      BY DEF TypeInv, TypeOK, Rules
    <2>2. pc = "productionEnd"
      BY <1>8, <2>1 DEF PushProduction, EndRule
    <2>3. Alternatives(decl + 2, pos) /\ pos = Len(items)
      BY <2>2 DEF RuleRead, AtEnd
    <2>4. pos >= decl + 1
      BY <1>1, <1>3, <2>3
    <2> QED
      BY <1>1, <1>5, <2>3, <2>4
  <1> QED
    BY <1>4, <1>6, <1>7, <1>8

LEMMA FailReadStep ==
  ASSUME TypeInv, TokenRead, RuleRead, FailRead, [Next]_vars
  PROVE  FailRead'
  <1> DEFINE failing == {"tokenFailed", "productionFailed", "ruleFailed"}
  <1> SUFFICES ASSUME pc' \in failing PROVE NoSegment(decl - 1)'
    BY DEF FailRead
  <1>1. items' = items
    BY ItemsKept
  <1>2. \/ TokenEqual \/ TokenValue \/ TokenEnd \/ TokenSemicolon
        \/ RuleEqual \/ BeginProduction \/ RejectPRItem \/ EmptyProductionRule
        \/ PushProduction \/ ProductionFailed \/ UNCHANGED vars
    BY DEF Next, Parse, Resolve, Clean, Terminated, DeclarationsEnd, UnknownItem,
           BeginToken, BeginRule, TokenFailed, TokenExists, StoreToken, FailToken,
           ExtractPRItem, RuleFailed, RuleExists, StoreRule, StartResolving,
           ResolveToken, TokensResolved, ResolveRule, RulesResolved, ReportError,
           FreeItems, FreeGrammar
  <1>3. decl' = decl
    BY <1>2 DEF TokenEqual, TokenValue, TokenEnd, TokenSemicolon, RuleEqual,
                BeginProduction, RejectPRItem, EmptyProductionRule, PushProduction,
                ProductionFailed, vars
  <1>4. NoSegment(decl - 1)
    <2>1. CASE TokenEqual \/ TokenValue \/ TokenEnd \/ TokenSemicolon
      <3>1. pc' = "tokenFailed"
        BY <2>1 DEF TokenEqual, TokenValue, ExtractValue, AbortOn, AcceptValue, RejectToken,
                    TokenEnd, TokenSemicolon, EndToken
      <3> QED
        BY <2>1, <3>1, TokenRefused
    <2>2. CASE \/ RuleEqual \/ BeginProduction \/ RejectPRItem \/ EmptyProductionRule
               \/ PushProduction
      <3>1. pc' # "tokenFailed"
        BY <2>2 DEF RuleEqual, BeginProduction, RejectPRItem, EmptyProductionRule,
                    PushProduction, EndRule
      <3> QED
        BY <2>2, <3>1, RuleRefused
    <2>3. CASE ProductionFailed
      BY <2>3 DEF ProductionFailed, FailRead
    <2>4. CASE UNCHANGED vars
      BY <2>4 DEF vars, FailRead
    <2> QED
      BY <1>2, <2>1, <2>2, <2>3, <2>4
  <1> QED
    BY <1>1, <1>3, <1>4
    DEF NoSegment, Language!IsToken, Language!IsRule, Language!KindAt, Language!Name

LEMMA ReadStep == ReadInv /\ [Next]_vars => ReadInv'
  BY TypeInvStep, CodeStep, TokenReadStep, RuleReadStep, FailReadStep DEF ReadInv

LEMMA InitReadInv == Init => ReadInv
  <1> SUFFICES ASSUME Init PROVE ReadInv
    OBVIOUS
  <1>1. TypeInv /\ CodeOK
    BY InitTypeInv, InitEntryInv DEF EntryInv
  <1>2. TokenRead /\ RuleRead /\ FailRead
    BY DEF Init, TokenRead, RuleRead, FailRead, TokenHead, RuleHead
  <1> QED
    BY <1>1, <1>2 DEF ReadInv
-----------------------------------------------------------------------------
(* The refinement *)

(* What the steps of extraction leave alone: they stutter.                 *)
LEMMA ExtractionStutters ==
  ASSUME ReadInv, ReadInv',
         \/ BeginToken \/ BeginRule \/ TokenEqual \/ TokenValue \/ TokenEnd
         \/ TokenSemicolon \/ RuleEqual \/ BeginProduction \/ ExtractPRItem
         \/ RejectPRItem \/ EmptyProductionRule \/ ProductionFailed \/ PushProduction
  PROVE  Language!vars' = Language!vars
  <1>1. /\ items' = items /\ tokens' = tokens /\ rules' = rules
        /\ pc \in ParseControl /\ pc' \in Extracting
    <2>1. items' = items /\ tokens' = tokens /\ rules' = rules
      BY QuietTables, ItemsKept DEF Next, Parse
    <2>2. pc \in ParseControl /\ pc' \in Extracting
      BY DEF BeginToken, BeginRule, TokenEqual, TokenValue, ExtractValue, AbortOn, RejectToken,
             AcceptValue, TokenEnd, TokenSemicolon, EndToken, RuleEqual, BeginProduction,
             ExtractPRItem, RejectPRItem, EmptyProductionRule, ProductionFailed,
             PushProduction, EndRule, Extracting, ParseControl
    <2> QED
      BY <2>1, <2>2
  <1>2. Verdict = "reading" /\ Verdict' = "reading"
    BY <1>1 DEF Verdict, Extracting
  <1>3. Consumed' = Consumed
    <2>1. CASE BeginToken \/ BeginRule
      <3>1. pc = "declaration" /\ pos \in Nat /\ decl' = pos + 1
        BY <2>1, Places DEF BeginToken, BeginRule, ReadInv
      <3>2. Consumed = pos /\ Consumed' = decl' - 1
        BY <1>1, <1>2, <3>1 DEF Consumed, Extracting
      <3> QED
        BY <3>1, <3>2
    <2>2. CASE ~(BeginToken \/ BeginRule)
      <3>1. pc # "declaration" /\ decl' = decl
        BY <2>2 DEF TokenEqual, TokenValue, TokenEnd, TokenSemicolon, RuleEqual,
                    BeginProduction, ExtractPRItem, RejectPRItem, EmptyProductionRule,
                    ProductionFailed, PushProduction
      <3> QED
        BY <1>1, <1>2, <3>1 DEF Consumed, Extracting
    <2> QED
      BY <2>1, <2>2
  <1> QED
    BY <1>1, <1>2, <1>3 DEF Language!vars

LEMMA StoreReads ==
  ASSUME ReadInv, StoreToken \/ StoreRule
  PROVE  Language!Next
  <1>1. /\ decl \in Nat /\ decl >= 1 /\ decl - 1 + 1 = decl
        /\ pos \in 1..Len(items) /\ pc \in Extracting
    BY Places DEF ReadInv, StoreToken, StoreRule, Extracting, ParseControl
  <1>2. /\ Verdict = "reading" /\ Verdict' = "reading" /\ Consumed = decl - 1
        /\ Consumed' = pos /\ Language!Name(Consumed) = Text(decl)
    <2>1. /\ pc \in {"tokenStore", "ruleStore"} /\ pc' = "declaration" /\ pos' = pos
      BY DEF StoreToken, StoreRule
    <2>2. Verdict = "reading" /\ Verdict' = "reading"
      BY <2>1 DEF Verdict, ParseControl
    <2> QED
      BY <1>1, <2>1, <2>2 DEF Consumed, Language!Name, Text
  <1>3. CASE StoreToken
    <2>1. /\ Language!IsToken(decl - 1, pos) /\ Text(decl) \notin DOMAIN tokens
          /\ DOMAIN tokens' = DOMAIN tokens \cup {Text(decl)} /\ rules' = rules
          /\ items' = items
      BY <1>3 DEF StoreToken, Insert, ReadInv, TokenRead
    <2>2. Language!ReadToken(pos)
      BY <1>2, <2>1 DEF Language!ReadToken
    <2> QED
      BY <1>1, <2>2 DEF Language!Next
  <1>4. CASE StoreRule
    <2>1. /\ Language!IsRule(decl - 1, pos) /\ Text(decl) \notin DOMAIN rules
          /\ DOMAIN rules' = DOMAIN rules \cup {Text(decl)} /\ tokens' = tokens
          /\ items' = items
      BY <1>4 DEF StoreRule, Insert, ReadInv, RuleRead
    <2>2. Language!ReadRule(pos)
      BY <1>2, <2>1 DEF Language!ReadRule
    <2> QED
      BY <1>1, <2>2 DEF Language!Next
  <1> QED
    BY <1>3, <1>4

(* A declaration of the other kind is none of this. *)
LEMMA OneKind ==
  ASSUME TypeInv, decl >= 1, NEW e \in 1..Len(items)
  PROVE  /\ Kind(decl) = "tokenDecl" => ~Language!IsRule(decl - 1, e)
         /\ Kind(decl) = "ruleDecl" => ~Language!IsToken(decl - 1, e)
  <1>1. e \in Nat
    OBVIOUS
  <1> QED
    BY <1>1, Segments

LEMMA FailureRejects ==
  ASSUME ReadInv, CodeOK',
         UnknownItem \/ TokenFailed \/ TokenExists \/ RuleFailed \/ RuleExists
  PROVE  Language!Next
  <1>1. /\ pos \in Nat /\ decl \in Nat /\ decl <= pos /\ Len(items) \in Nat
        /\ pos <= Len(items)
        /\ pc \in Extracting => decl >= 1
    BY Places DEF ReadInv
  <1>2. /\ items' = items /\ tokens' = tokens /\ rules' = rules
        /\ pc \in ParseControl /\ pc' = "failed"
    <2>1. items' = items /\ tokens' = tokens /\ rules' = rules
      BY QuietTables, ItemsKept DEF Next, Parse
    <2> QED
      BY <2>1 DEF UnknownItem, TokenFailed, TokenExists, FailToken, RuleFailed,
                  RuleExists, ParseControl
  <1>3. Verdict = "reading" /\ Verdict' = "rejected"
    BY <1>2 DEF Verdict, CodeOK, ParseControl
  <1>4. Consumed' = decl' - 1
    BY <1>2, <1>3 DEF Consumed
  <1>5. CASE UnknownItem
    <2>1. /\ pc = "declaration" /\ ~AtEnd /\ decl' = pos + 1
          /\ Kind(pos + 1) \notin {"tokenDecl", "ruleDecl"}
      BY <1>5 DEF UnknownItem, NextIs, Kind
    <2>2. Consumed = pos /\ Consumed' = pos /\ pos < Len(items)
      BY <1>1, <1>4, <2>1 DEF Consumed, AtEnd
    <2>3. \A e : ~Language!IsToken(pos, e) /\ ~Language!IsRule(pos, e)
      BY <2>1 DEF Language!IsToken, Language!IsRule, Language!KindAt, Kind
    <2> QED
      BY <1>2, <1>3, <2>2, <2>3 DEF Language!Next, Language!Reject
  <1>6. CASE ~UnknownItem
    <2>1. /\ pc \in Extracting /\ decl' = decl
      BY <1>6 DEF TokenFailed, TokenExists, FailToken, RuleFailed, RuleExists,
                  Extracting, ParseControl
    <2>2. /\ Consumed = decl - 1 /\ Consumed' = decl - 1 /\ decl - 1 < Len(items)
          /\ decl - 1 + 1 = decl
      BY <1>1, <1>3, <1>4, <2>1 DEF Consumed, Extracting
    <2>3. Language!Name(decl - 1) = Text(decl)
      BY <2>2 DEF Language!Name, Text
    <2>4. \A e \in 1..Len(items) :
            /\ Language!IsToken(decl - 1, e) => Text(decl) \in DOMAIN tokens
            /\ Language!IsRule(decl - 1, e) => Text(decl) \in DOMAIN rules
      <3>1. CASE TokenFailed \/ RuleFailed
        BY <3>1 DEF TokenFailed, RuleFailed, ReadInv, FailRead, NoSegment
      <3>2. CASE TokenExists
        <4>1. Kind(decl) = "tokenDecl" /\ Text(decl) \in DOMAIN tokens
          BY <3>2 DEF TokenExists, ReadInv, TokenRead, TokenHead
        <4> QED
          BY <1>1, <2>1, <4>1, OneKind DEF ReadInv
      <3>3. CASE RuleExists
        <4>1. Language!IsRule(decl - 1, pos) /\ Text(decl) \in DOMAIN rules
          BY <3>3 DEF RuleExists, ReadInv, RuleRead
        <4>2. Kind(decl) = "ruleDecl"
          BY <1>1, <2>1, <4>1, Segments DEF ReadInv
        <4> QED
          BY <1>1, <2>1, <4>1, <4>2, OneKind DEF ReadInv
      <3> QED
        BY <1>6, <3>1, <3>2, <3>3
    <2> QED
      BY <1>2, <1>3, <2>2, <2>3, <2>4 DEF Language!Next, Language!Reject
  <1> QED
    BY <1>5, <1>6

(* Resolving and cleaning up leave the grammar's language alone. *)
LEMMA LaterStutters ==
  ASSUME ReadInv, ReadInv',
         \/ StartResolving \/ TokensResolved \/ RulesResolved
         \/ ReportError \/ FreeItems
         \/ \E n \in pending : ResolveToken(n) \/ ResolveRule(n)
  PROVE  Language!vars' = Language!vars
  <1>1. /\ pos' = pos /\ decl' = decl /\ items' = items
        /\ pc \notin ParseControl /\ pc' \notin ParseControl
        /\ \/ code' = code
           \/ pc \in ResolveControl /\ pc' \in ResolveControl \cup {"unresolved"}
    BY DEF StartResolving, TokensResolved, RulesResolved, ReportError, FreeItems,
           ResolveToken, ResolveRule, ParseControl, ResolveControl, frame
  <1>2. DOMAIN tokens' = DOMAIN tokens /\ DOMAIN rules' = DOMAIN rules
    BY QuietTables, ResolveKeeps DEF ReadInv
  <1>3. Verdict' = Verdict
    <2>1. pc \in Control /\ pc' \in Control
      BY DEF ReadInv, TypeInv, TypeOK
    <2>2. VerdictOK /\ VerdictOK'
      BY <2>1, Verdicts DEF ReadInv
    <2>3. CASE code' = code
      BY <1>1, <2>3 DEF Verdict
    <2>4. CASE pc \in ResolveControl /\ pc' \in ResolveControl \cup {"unresolved"}
      BY <2>2, <2>4 DEF VerdictOK
    <2> QED
      BY <1>1, <2>3, <2>4
  <1>4. Consumed' = Consumed
    BY <1>1, <1>3 DEF Consumed, ParseControl
  <1> QED
    BY <1>1, <1>2, <1>3, <1>4 DEF Language!vars

LEMMA RefinementStep ==
  ReadInv /\ ReadInv' /\ [Next]_vars => [Language!Next]_(Language!vars)
  <1> SUFFICES ASSUME ReadInv, ReadInv', [Next]_vars
               PROVE  [Language!Next]_(Language!vars)
    OBVIOUS
  <1>1. CASE DeclarationsEnd
    <2>1. /\ pc = "declaration" /\ AtEnd /\ pc' = "parsed" /\ pos' = pos
          /\ items' = items /\ tokens' = tokens /\ rules' = rules /\ code' = "PRS_OK"
      BY <1>1 DEF DeclarationsEnd, ReadInv, CodeOK, FailedControl, CleaningControl
    <2>2. Verdict = "reading" /\ Verdict' = "accepted"
      BY <2>1 DEF Verdict, ParseControl
    <2>3. Consumed = Len(items) /\ Consumed' = Len(items)
      BY <2>1, <2>2 DEF Consumed, AtEnd
    <2> QED
      BY <2>1, <2>2, <2>3 DEF Language!Next, Language!Accept
  <1>2. CASE StoreToken \/ StoreRule
    BY <1>2, StoreReads
  <1>3. CASE UnknownItem \/ TokenFailed \/ TokenExists \/ RuleFailed \/ RuleExists
    BY <1>3, FailureRejects DEF ReadInv
  <1>4. CASE FreeGrammar
    <2>1. /\ pc = "itemsFreed" /\ pc' = "done" /\ pos' = pos /\ decl' = decl
          /\ items' = items /\ code' = code /\ DOMAIN tokens' = {} /\ DOMAIN rules' = {}
      BY <1>4 DEF FreeGrammar, EmptyTable
    <2>2. Verdict' = Verdict /\ Verdict # "reading" /\ Consumed' = Consumed
      BY <2>1 DEF Verdict, Consumed, ParseControl
    <2> QED
      BY <2>1, <2>2 DEF Language!Next, Language!Discard
  <1>5. CASE UNCHANGED vars
    BY <1>5 DEF vars, Language!vars, Consumed, Verdict
  <1> QED
    BY <1>1, <1>2, <1>3, <1>4, <1>5, ExtractionStutters, LaterStutters
    DEF Next, Parse, Resolve, Clean, Terminated

(***************************************************************************)
(* The parser implements GrammarLanguage, for every set of item lists: it  *)
(* declares the names and accepts the item lists that the language does,   *)
(* and rejects only where no new declaration begins.                       *)
(***************************************************************************)
THEOREM ParserImplementsLanguage == Spec => ReadsLanguage
  <1>1. Init => Language!Init
    <2> SUFFICES ASSUME Init PROVE Language!Init
      OBVIOUS
    <2>1. /\ pc = "declaration" /\ pos = 0 /\ DOMAIN tokens = {} /\ DOMAIN rules = {}
      BY DEF Init, EmptyTable
    <2>2. Consumed = 0 /\ Verdict = "reading"
      BY <2>1 DEF Consumed, Verdict, ParseControl
    <2> QED
      BY <2>1, <2>2 DEF Language!Init
  <1> QED
    BY <1>1, InitReadInv, ReadStep, RefinementStep, PTL
    DEF Spec, ReadsLanguage, Language!Spec
=============================================================================
