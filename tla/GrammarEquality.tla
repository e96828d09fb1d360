-------------------------- MODULE GrammarEquality --------------------------
(***************************************************************************)
(* The comparison of resolved grammars: fg_ruleEquals and                  *)
(* fg_productionRuleEquals (formal_grammar.c), which call each other       *)
(* through ll_isEqual (linked_list.c).  Rules may refer to each other, so  *)
(* the calls are kept on a stack: a frame is one pair of lists of          *)
(* productions, and what is left of it to compare.  A rule or a token is   *)
(* named by its address.                                                   *)
(***************************************************************************)
EXTENDS Integers, Sequences, FiniteSets, SequencesExt

CONSTANTS Grammars, \* from the addresses of rules to their name and list
          Tokens,   \* from the addresses of tokens to their fields
          Calls,    \* pairs of rules a client compares
          MaxDepth  \* of calls of ll_isEqual over productions, then the stack overflows

CallsAssumption ==
  \A g \in Grammars, c \in Calls : c[1] \in DOMAIN g /\ c[2] \in DOMAIN g
DepthAssumption == MaxDepth \in Nat \ {0}

(* a token has these fields and no other *)
TokensAssumption ==
  \A a \in DOMAIN Tokens : LET t == Tokens[a] IN
    /\ t = [name |-> t.name, type |-> t.type, quantifier |-> t.quantifier, value |-> t.value]
    /\ t.type = "FG_RANGE_TOKEN" =>
         t.value \in Seq([uppercaseLetter : BOOLEAN, start : Int, end : Int])

(* resolved rules: a list of productions, not empty, whose items of tokens *)
(* have their addresses                                                    *)
GrammarsAssumption ==
  \A g \in Grammars : \A r \in DOMAIN g : LET list == g[r].list IN
    /\ list # <<>> /\ list \in Seq(ToSet(list))
    /\ \A p \in DOMAIN list :
         /\ list[p] \in Seq(ToSet(list[p]))
         /\ \A i \in DOMAIN list[p] : LET item == list[p][i] IN
              /\ item.type \in {"FG_STRING_ITEM", "FG_TOKEN_ITEM", "FG_RULE_ITEM"}
              /\ item.type = "FG_TOKEN_ITEM" => item.value \in DOMAIN Tokens

VARIABLES rules,    \* the grammars
          call,     \* the function called and the rules
          stack,    \* frames, the innermost last
          compared, \* TRUE: fg_PRItemEquals has returned "equal"
          equal,
          pc        \* "call", "compare", "returned" (from fg_PRItemEquals),
                    \* "done" or "overflow"

vars == <<rules, call, stack, compared, equal, pc>>

(* prs_rangeEquals and prs_rangeArrayEquals *)
RangesEqual(ra1, ra2) ==
  /\ Len(ra1) = Len(ra2)
  /\ \A i \in DOMAIN ra1 :
       /\ ra1[i].uppercaseLetter = ra2[i].uppercaseLetter
       /\ ra1[i].start = ra2[i].start /\ ra1[i].end = ra2[i].end

(* Faulty variant: a token is compared without its name and quantifier. *)
TokenEqualsValue(a1, a2) ==
  LET t1 == Tokens[a1] t2 == Tokens[a2] IN
  t1.type = t2.type /\ (IF t1.type = "FG_RANGE_TOKEN" THEN RangesEqual(t1.value, t2.value)
                        ELSE t1.value = t2.value)

(* fg_tokenEquals; the value of a reference is its text, line and column,  *)
(* which prs_stringItemEquals compares                                     *)
TokenEquals(a1, a2) ==
  LET t1 == Tokens[a1] t2 == Tokens[a2] IN
  \/ a1 = a2
  \/ /\ t1.type = t2.type /\ t1.name = t2.name /\ t1.quantifier = t2.quantifier
     /\ IF t1.type = "FG_RANGE_TOKEN" THEN RangesEqual(t1.value, t2.value)
        ELSE t1.value = t2.value

Frame(r1, r2, comparator) ==
  [r1 |-> r1, r2 |-> r2, comparator |-> comparator, p |-> 1, i |-> 0]

Init ==
  /\ rules \in Grammars
  /\ call \in {"fg_ruleEquals", "fg_productionRuleEquals"} \X Calls
  /\ stack = <<>> /\ compared = FALSE /\ equal = FALSE
  /\ pc = "call"
-----------------------------------------------------------------------------
top == Last(stack)
(* how many productions a frame compares: all, or the first *)
Count(f) == IF f.comparator = "prItemComparator" THEN 1 ELSE Len(rules[f.r1].list)
Items(f, r) == rules[r].list[f.p]
Comparing == pc = "compare" /\ top.p <= Count(top)
Replace(f) == stack' = [stack EXCEPT ![Len(stack)] = f]

(* fg_ruleEquals, up to its call of ll_isEqual: an answer, or a frame *)
RuleEquals(r1, r2) ==
  IF r1 = r2 THEN [answer |-> TRUE]
  ELSE IF rules[r1].name # rules[r2].name \/ Len(rules[r1].list) # Len(rules[r2].list)
       THEN [answer |-> FALSE]
       ELSE [frame |-> Frame(r1, r2, "fg_PRItemEquals")]

(* fg_productionRuleEquals on the first productions of the rules *)
ProductionRuleEquals(r1, r2) ==
  IF r1 = r2 THEN [answer |-> TRUE]
  ELSE [frame |-> Frame(r1, r2, "prItemComparator")]

Call ==
  /\ pc = "call"
  /\ LET r1 == call[2][1]
         r2 == call[2][2]
         result == IF call[1] = "fg_ruleEquals" THEN RuleEquals(r1, r2)
                   ELSE ProductionRuleEquals(r1, r2)
     IN  IF "answer" \in DOMAIN result
         THEN equal' = result.answer /\ pc' = "done" /\ UNCHANGED stack
         ELSE stack' = <<result.frame>> /\ pc' = "compare" /\ UNCHANGED equal
  /\ UNCHANGED <<rules, call, compared>>

(* the innermost list comparison has its answer, and with it the function  *)
(* that called it and the comparison of items that called that             *)
Answer(b) ==
  /\ stack' = Front(stack)
  /\ IF Len(stack) = 1
     THEN equal' = b /\ pc' = "done" /\ UNCHANGED compared
     ELSE compared' = b /\ pc' = "returned" /\ UNCHANGED equal

ProductionsEnd ==
  /\ pc = "compare" /\ top.p > Count(top)
  /\ Answer(TRUE)
  /\ UNCHANGED <<rules, call>>

(* the sizes of two productions *)
NextProduction ==
  /\ Comparing /\ top.i = 0
  /\ IF Len(Items(top, top.r1)) # Len(Items(top, top.r2)) THEN Answer(FALSE)
     ELSE /\ Replace([top EXCEPT !.i = 1])
          /\ UNCHANGED <<compared, equal, pc>>
  /\ UNCHANGED <<rules, call>>

(* fg_PRItemEquals on the current items of the productions *)
CompareItems ==
  /\ Comparing /\ top.i \in 1 .. Len(Items(top, top.r1))
  /\ LET x1 == Items(top, top.r1)[top.i]
         x2 == Items(top, top.r2)[top.i]
         known(b) == compared' = b /\ pc' = "returned" /\ UNCHANGED stack
     IN  \/ x1.type # x2.type /\ known(FALSE)
         \/ /\ x1.type = x2.type /\ x1.type = "FG_STRING_ITEM"
            /\ known(x1.value = x2.value)
         \/ /\ x1.type = x2.type /\ x1.type = "FG_TOKEN_ITEM"
            /\ known(TokenEquals(x1.value, x2.value))
         \/ /\ x1.type = x2.type /\ x1.type = "FG_RULE_ITEM"
            /\ LET result == RuleEquals(x1.value, x2.value) IN
                 IF "answer" \in DOMAIN result THEN known(result.answer)
                 ELSE /\ pc' = IF Len(stack) = MaxDepth THEN "overflow" ELSE pc
                      /\ stack' = IF Len(stack) = MaxDepth THEN stack
                                  ELSE Append(stack, result.frame)
                      /\ UNCHANGED compared
  /\ UNCHANGED <<rules, call, equal>>

(***************************************************************************)
(* ll_isEqual goes on when the comparator returns 0.  prItemComparator     *)
(* returns 0 for equal items.  fg_PRItemEquals, which fg_ruleEquals passes *)
(* for the productions of a rule, returns 1 for equal items (it returns a  *)
(* bool to a caller that takes an int, which compilers extend).            *)
(***************************************************************************)
ComparatorIsZero ==
  IF top.comparator = "prItemComparator" THEN compared ELSE ~compared

(* Faulty variant: the iterators stay where they are. *)
StuckItem(f) == f

FollowingItem(f) == [f EXCEPT !.i = f.i + 1]

NextItem ==
  /\ pc = "returned"
  /\ IF ComparatorIsZero
     THEN /\ Replace(FollowingItem(top))
          /\ pc' = "compare"
          /\ UNCHANGED <<compared, equal>>
     ELSE Answer(FALSE)
  /\ UNCHANGED <<rules, call>>

(* the inner ll_isEqual returns true, and its caller 0 *)
ProductionEnd ==
  /\ Comparing /\ top.i > Len(Items(top, top.r1))
  /\ Replace([top EXCEPT !.p = @ + 1, !.i = 0])
  /\ UNCHANGED <<rules, call, compared, equal, pc>>

Returned == pc \in {"done", "overflow"} /\ UNCHANGED vars

Next ==
  \/ Call \/ ProductionsEnd \/ NextProduction \/ CompareItems \/ NextItem \/ ProductionEnd
  \/ Returned

Spec == Init /\ [][Next]_vars /\ WF_vars(Next)
-----------------------------------------------------------------------------
(* Reference definitions *)

RefersTo(r) ==
  {x.value : x \in {y \in UNION {ToSet(rules[r].list[p]) : p \in DOMAIN rules[r].list} :
                      y.type = "FG_RULE_ITEM"}}

Acyclic ==
  \A rs \in SUBSET DOMAIN rules :
    rs = {} \/ \E r \in rs : RefersTo(r) \cap rs = {}

IsFlat(production) == \A i \in DOMAIN production : production[i].type # "FG_RULE_ITEM"
IsFlatRule(r) == \A p \in DOMAIN rules[r].list : IsFlat(rules[r].list[p])

SameItem(x1, x2) ==
  /\ x1.type = x2.type
  /\ IF x1.type = "FG_TOKEN_ITEM" THEN Tokens[x1.value] = Tokens[x2.value]
     ELSE x1.value = x2.value
SameItems(p1, p2) ==
  Len(p1) = Len(p2) /\ \A i \in DOMAIN p1 : SameItem(p1[i], p2[i])
SameShape(r1, r2) ==
  /\ rules[r1].name = rules[r2].name /\ Len(rules[r1].list) = Len(rules[r2].list)
  /\ \A p \in DOMAIN rules[r1].list :
       Len(rules[r1].list[p]) = Len(rules[r2].list[p])
NoItemSame(r1, r2) ==
  \A p \in DOMAIN rules[r1].list : \A i \in DOMAIN rules[r1].list[p] :
    ~SameItem(rules[r1].list[p][i], rules[r2].list[p][i])
-----------------------------------------------------------------------------
(***************************************************************************)
(* What the comparisons answer.  fg_productionRuleEquals is right for      *)
(* productions that refer to no rule: they are equal exactly when their    *)
(* items are, one by one.  fg_ruleEquals is not: two different rules that  *)
(* refer to no rule are equal to it when they have one name, as many       *)
(* productions of the same lengths, and at every place a DIFFERENT item;   *)
(* rules with the same productions are not, once there is an item.         *)
(* Whatever the items refer to, it calls no rules equal that differ in     *)
(* their name or in the number or lengths of their productions.            *)
(***************************************************************************)
ComparisonAnswers ==
  pc = "done" =>
    LET r1 == call[2][1]
        r2 == call[2][2]
    IN  IF call[1] = "fg_productionRuleEquals"
        THEN IsFlat(rules[r1].list[1]) /\ IsFlat(rules[r2].list[1]) =>
               equal = SameItems(rules[r1].list[1], rules[r2].list[1])
        ELSE /\ equal => SameShape(r1, r2)
             /\ IsFlatRule(r1) /\ IsFlatRule(r2) =>
                  equal = (r1 = r2 \/ (SameShape(r1, r2) /\ NoItemSame(r1, r2)))
=============================================================================
