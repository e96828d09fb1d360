------------------------ MODULE ParserSessionsProofs ------------------------
(***************************************************************************)
(* Proofs about several parses in one process, for every set of item lists *)
(* and every number of parses: whatever an earlier list left behind, the   *)
(* memory is owned, the entry is a stored rule and declarations are kept.  *)
(* The steps of the parser are those of the single parse, proved in        *)
(* GrammarParserSafety and GrammarParserMemory.                            *)
(***************************************************************************)
EXTENDS ParserSessions, GrammarParserMemory
-----------------------------------------------------------------------------
(* The inductive invariant *)

IsStoredRule(at) == at = 0 \/ at \in RulesAt

(* The entry that parsing leaves is its first rule so far or, in a grammar *)
(* that is reused, the one the list before left; fg_freeGrammar frees the  *)
(* rules but not the variable of the function that has returned.           *)
EntryStored ==
  /\ IsStoredRule(entry)
  /\ pc # "done" => IsStoredRule(entryRule)

SessionsInv == MemoryInv /\ EntryStored
-----------------------------------------------------------------------------
(* The steps between two lists *)

(* The types of the structures in the lists parsed so far are those in a   *)
(* process that goes on to another list.                                   *)
LEMMA LongerList ==
  ASSUME items \in Seq(Items), items' \in Seq(Items), Len(items) <= Len(items')
  PROVE  /\ Pointer \subseteq Pointer' /\ Block \subseteq Block'
         /\ Tokens \subseteq Tokens' /\ Productions \subseteq Productions'
         /\ Rules \subseteq Rules'
  <1>1. Len(items) \in Nat /\ Len(items') \in Nat
    OBVIOUS
  <1>2. Pointer \subseteq Pointer'
    BY <1>1 DEF Pointer
  <1>3. Block \subseteq Block'
    BY <1>1 DEF Block
  <1>4. SUBSET Block \subseteq SUBSET Block'
    BY <1>3
  <1>5. Tokens \subseteq Tokens'
    BY <1>2, <1>4 DEF Tokens
  <1>6. PRItems \subseteq PRItems'
    BY <1>2, <1>4 DEF PRItems
  <1>7. Productions \subseteq Productions'
    BY <1>2, <1>6 DEF Productions
  <1>8. Rules \subseteq Rules'
    BY <1>2, <1>4, <1>7 DEF Rules
  <1> QED
    BY <1>2, <1>3, <1>5, <1>7, <1>8

(* A list that is loaded follows the ones before it. *)
LEMMA LoadedList ==
  ASSUME TypeInv, LoadList
  PROVE  /\ items' \in Seq(Items) /\ Len(items) <= Len(items')
         /\ pos <= pos' /\ pos' = Len(items) /\ pos' \in Pointer'
  <1>1. PICK source \in Sources : items' = items \o source
    BY DEF LoadList
  <1>2. source \in Seq(Items) /\ items \in Seq(Items)
    BY SourcesAssumption, TypeFacts
  <1>3. items' \in Seq(Items) /\ Len(items') = Len(items) + Len(source)
    BY <1>1, <1>2
  <1>4. Len(items) \in Nat /\ Len(source) \in Nat
    BY <1>2
  <1>5. pos' = Len(items) /\ pos <= Len(items)
    BY TypeFacts DEF LoadList
  <1> QED
    BY <1>3, <1>4, <1>5 DEF Pointer

LEMMA LoadTypes ==
  ASSUME TypeInv, LoadList, code' \in Codes, pending' \subseteq Names
  PROVE  TypeInv'
  <1>1. /\ items' \in Seq(Items) /\ Len(items) <= Len(items')
        /\ pos <= pos' /\ pos' \in Pointer'
    BY LoadedList
  <1>2. /\ Pointer \subseteq Pointer' /\ Block \subseteq Block'
        /\ Tokens \subseteq Tokens' /\ Productions \subseteq Productions'
        /\ Rules \subseteq Rules'
    BY <1>1, LongerList, TypeFacts
  <1>3. /\ entryRule' = 0 /\ pc' = "declaration" /\ decl' = decl /\ errItem' = errItem
        /\ token' = token /\ rule' = rule /\ production' = production
        /\ tokens' = tokens /\ rules' = rules /\ entry' = entry /\ heap' = heap
    BY DEF LoadList, scratch, grammar
  <1>4. TypeOK
    BY DEF TypeInv
  <1>5. tokens' \in [DOMAIN tokens' -> Tokens']
    BY <1>2, <1>3, <1>4 DEF TypeOK
  <1>6. rules' \in [DOMAIN rules' -> Rules']
    BY <1>2, <1>3, <1>4 DEF TypeOK
  <1>7. 0 \in Pointer
    BY TypeFacts
  <1>8. decl' \in Pointer' /\ errItem' \in Pointer' /\ entry' \in Pointer'
    BY <1>2, <1>3, <1>4 DEF TypeOK
  <1>9. TypeOK'
    BY <1>1, <1>2, <1>3, <1>4, <1>5, <1>6, <1>7, <1>8, ControlValues DEF TypeOK
  <1>10. decl' <= pos'
    BY <1>1, <1>3, LoadedList, TypeFacts
  <1>11. ControlOK'
    BY <1>3, <1>10 DEF ControlOK, Extracting
  <1> QED
    BY <1>9, <1>11 DEF TypeInv

(* What lies within the items of a list lies within those of a longer one. *)
LEMMA WithinMore ==
  ASSUME NEW S, NEW sites, NEW a \in Nat, NEW b \in Nat, NEW c \in Nat, b <= c,
         Within(S, sites, a, b)
  PROVE  Within(S, sites, a, c)
  BY DEF Within

(* Between two lists nothing is under construction, and what is stored     *)
(* lies before the list that is loaded.                                    *)
LEMMA LoadMemory ==
  ASSUME MemoryInv, LoadList, pc \in {"parsed", "done"}, TypeInv'
  PROVE  MemoryInv'
  <1>1. /\ pc' = "declaration" /\ heap' = heap
        /\ token' = token /\ rule' = rule /\ production' = production
        /\ tokens' = tokens /\ rules' = rules
    BY DEF LoadList, scratch, grammar
  <1>2. pos \in Nat /\ pos' \in Nat /\ pos <= pos'
    BY LoadedList, TypeFacts DEF MemoryInv
  <1>3. Stored = pos /\ Stored' = pos'
    BY <1>1 DEF Stored, Extracting, ParseControl
  <1>4. TableBlocks' = TableBlocks
    BY <1>1 DEF TableBlocks
  <1>5. Within(TableBlocks', Sites, 1, Stored')
    BY <1>2, <1>3, <1>4, WithinMore DEF MemoryInv, StoredOK
  <1>6. /\ \A n \in DOMAIN tokens : tokens[n].at \in 1..Stored
        /\ \A n \in DOMAIN rules : rules[n].at \in 1..Stored
    BY DEF MemoryInv, StoredOK
  <1>7. /\ \A n \in DOMAIN tokens : tokens[n].at \in 1..Stored'
        /\ \A n \in DOMAIN rules : rules[n].at \in 1..Stored'
    BY <1>2, <1>3, <1>6
  <1>8. StoredOK'
    BY <1>1, <1>5, <1>7 DEF MemoryInv, StoredOK
  <1>9. TokenOK' /\ ProductionOK' /\ RuleOK'
    BY <1>1 DEF MemoryInv, TokenOK, ProductionOK, RuleOK, TokenControl,
                ProductionControl, RuleControl
  <1>10. HeapOK'
    BY <1>1, <1>4 DEF MemoryInv, HeapOK
  <1> QED
    BY <1>8, <1>9, <1>10 DEF MemoryInv

LEMMA AbandonMemory ==
  ASSUME MemoryInv, Abandon
  PROVE  MemoryInv'
  <1>1. /\ pc = "parsed" /\ pc' = "clean"
        /\ items' = items /\ pos' = pos /\ decl' = decl /\ errItem' = errItem
        /\ token' = token /\ rule' = rule /\ production' = production
        /\ tokens' = tokens /\ rules' = rules /\ entry' = entry
        /\ entryRule' = entryRule /\ pending' = pending
        /\ code' = code /\ heap' = heap
    BY DEF Abandon, frame, grammar, scratch
  <1>2. TypeOK'
    BY <1>1, SameTypes, ControlValues DEF MemoryInv, TypeInv, TypeOK
  <1>3. ControlOK'
    BY <1>1 DEF MemoryInv, TypeInv, ControlOK, Extracting, ParseControl
  <1>4. Stored' = Stored /\ TableBlocks' = TableBlocks
    BY <1>1 DEF Stored, TableBlocks, Extracting, ParseControl
  <1>5. StoredOK'
    BY <1>1, <1>4 DEF MemoryInv, StoredOK
  <1>6. TokenOK' /\ ProductionOK' /\ RuleOK'
    BY <1>1 DEF MemoryInv, TokenOK, ProductionOK, RuleOK, TokenControl,
                ProductionControl, RuleControl
  <1>7. HeapOK'
    BY <1>1, <1>4 DEF MemoryInv, HeapOK
  <1> QED
    BY <1>2, <1>3, <1>5, <1>6, <1>7 DEF MemoryInv, TypeInv
-----------------------------------------------------------------------------
(* The entry of a grammar that several lists are parsed into *)

(* A rule that is stored stays stored until the grammar is freed. *)
LEMMA StoredRulesKept ==
  ASSUME Kept, pc' # "done"
  PROVE  RulesAt \subseteq RulesAt'
  BY DEF Kept, SameDeclaration, RulesAt

(* The entry changes at the end of a list and with the grammar, the first  *)
(* rule of a list where it is stored.                                      *)
LEMMA EntrySteps ==
  ASSUME [Next]_vars, ~FreeGrammar
  PROVE  /\ entry' \in {entry, entryRule}
         /\ \/ entryRule' = entryRule
            \/ StoreRule /\ entryRule' \in {entryRule, rule.at}
         /\ pc' = "done" => pc = "done" /\ UNCHANGED vars
  <1>1. \A kind, i : ExtractValue(kind, i) => pc' \in {"tokenEnd", "tokenFailed", "aborted"}
    BY DEF ExtractValue, AbortOn, RejectToken, AcceptValue
  <1>2. \A list, hasEnd : EndRule(list, hasEnd) => pc' \in {"ruleStore", "ruleFailed"}
    BY DEF EndRule
  <1>3. CASE DeclarationsEnd \/ StoreRule
    BY <1>3 DEF DeclarationsEnd, StoreRule
  <1>4. CASE \/ UnknownItem \/ BeginToken \/ BeginRule
             \/ TokenEqual \/ TokenValue \/ TokenEnd \/ TokenSemicolon
             \/ TokenFailed \/ TokenExists \/ StoreToken
    BY <1>1, <1>4
    DEF UnknownItem, BeginToken, BeginRule, TokenEqual, TokenValue, TokenEnd,
        TokenSemicolon, TokenFailed, TokenExists, StoreToken, RejectToken, EndToken,
        FailToken, frame, grammar
  <1>5. CASE \/ RuleEqual \/ BeginProduction \/ ExtractPRItem \/ RejectPRItem
             \/ EmptyProductionRule \/ ProductionFailed \/ PushProduction
             \/ RuleFailed \/ RuleExists
    BY <1>2, <1>5
    DEF RuleEqual, BeginProduction, ExtractPRItem, RejectPRItem, EmptyProductionRule,
        ProductionFailed, PushProduction, RuleFailed, RuleExists, frame, grammar
  <1>6. CASE StartResolving \/ TokensResolved \/ RulesResolved \/ ReportError \/ FreeItems
    BY <1>6 DEF StartResolving, TokensResolved, RulesResolved, ReportError, FreeItems,
                frame, grammar
  <1>7. ASSUME NEW n \in pending, ResolveToken(n) \/ ResolveRule(n)
        PROVE  entry' = entry /\ entryRule' = entryRule /\ pc' # "done"
    BY <1>7 DEF ResolveToken, ResolveRule
  <1>8. CASE Terminated \/ UNCHANGED vars
    BY <1>8 DEF Terminated, vars
  <1> QED
    BY <1>3, <1>4, <1>5, <1>6, <1>7, <1>8 DEF Next, Parse, Resolve, Clean

LEMMA RunEntry ==
  ASSUME TypeInv, EntryStored, [Next]_vars
  PROVE  EntryStored'
  <1>1. CASE FreeGrammar
    BY <1>1 DEF FreeGrammar, EntryStored, IsStoredRule
  <1>2. CASE pc = "done" /\ UNCHANGED vars
    BY <1>2 DEF vars, EntryStored, IsStoredRule, RulesAt
  <1>3. CASE ~FreeGrammar /\ pc' # "done"
    <2>1. pc # "done"
      BY <1>3 DEF Next, Parse, Resolve, Clean, Terminated, vars, DeclarationsEnd,
             UnknownItem, BeginToken, BeginRule, TokenEqual, TokenValue, TokenEnd,
             TokenSemicolon, TokenFailed, TokenExists, StoreToken, RuleEqual,
             BeginProduction, ExtractPRItem, RejectPRItem, EmptyProductionRule,
             ProductionFailed, PushProduction, RuleFailed, RuleExists, StoreRule,
             StartResolving, TokensResolved, RulesResolved, ResolveToken, ResolveRule,
             ReportError, FreeItems
    <2>2. RulesAt \subseteq RulesAt'
      <3>1. CASE UNCHANGED vars
        BY <3>1 DEF vars, RulesAt
      <3> QED
        BY <1>3, <3>1, KeptStep, StoredRulesKept
    <2>3. IsStoredRule(entry) /\ IsStoredRule(entryRule)
      BY <2>1 DEF EntryStored
    <2>4. IsStoredRule(entry)' /\ (entryRule' = entryRule => IsStoredRule(entryRule)')
      BY <1>3, <2>2, <2>3, EntrySteps DEF IsStoredRule
    <2>5. CASE StoreRule
      <3>1. Text(decl) \in DOMAIN rules' /\ rules'[Text(decl)] = rule
        BY <2>5 DEF StoreRule, Insert
      <3>2. rule.at \in RulesAt'
        BY <3>1 DEF RulesAt
      <3> QED
        BY <1>3, <2>2, <2>3, <2>4, <3>2, EntrySteps DEF EntryStored, IsStoredRule
    <2> QED
      BY <1>3, <2>4, <2>5, EntrySteps DEF EntryStored
  <1> QED
    BY <1>1, <1>2, <1>3, EntrySteps
-----------------------------------------------------------------------------
(* Every step of the process *)

(* The steps of the parser, the resolver and the clean-up. *)
LEMMA RunIsNext == Run => Next
  BY DEF Run, Next

LEMMA InitSessionsInv == SessionsInit => SessionsInv
  <1> SUFFICES ASSUME SessionsInit PROVE SessionsInv
    OBVIOUS
  <1>1. Init
    BY DEF SessionsInit
  <1> QED
    BY <1>1, InitMemoryInv DEF Init, SessionsInv, EntryStored, IsStoredRule

LEMMA SessionsStep == SessionsInv /\ [SessionsNext]_allVars => SessionsInv'
  <1> SUFFICES ASSUME SessionsInv, [SessionsNext]_allVars PROVE SessionsInv'
    OBVIOUS
  <1>1. TypeInv /\ MemoryInv /\ EntryStored
    BY DEF SessionsInv, MemoryInv
  <1>2. CASE [Next]_vars
    BY <1>1, <1>2, MemoryStep, RunEntry DEF SessionsInv
  <1>3. CASE NewGrammar \/ ParseMore
    <2>1. LoadList /\ pc \in {"parsed", "done"}
      BY <1>3 DEF NewGrammar, ParseMore
    <2>2. code' \in Codes /\ pending' \subseteq Names
      BY <1>1, <1>3, CodeValues DEF NewGrammar, ParseMore, TypeInv, TypeOK
    <2>3. MemoryInv'
      BY <1>1, <2>1, <2>2, LoadTypes, LoadMemory
    <2>4. EntryStored'
      BY <1>1, <2>1 DEF LoadList, grammar, EntryStored, IsStoredRule, RulesAt
    <2> QED
      BY <2>3, <2>4 DEF SessionsInv
  <1>4. CASE Abandon
    <2>1. EntryStored'
      BY <1>1, <1>4 DEF Abandon, frame, grammar, EntryStored, IsStoredRule, RulesAt
    <2> QED
      BY <1>1, <1>4, <2>1, AbandonMemory DEF SessionsInv
  <1>5. UNCHANGED allVars => UNCHANGED vars
    BY DEF allVars
  <1> QED
    BY <1>2, <1>3, <1>4, <1>5, RunIsNext DEF SessionsNext, SessionsTerminated

LEMMA SessionsInvariant == SessionsSpec => []SessionsInv
  BY InitSessionsInv, SessionsStep, PTL DEF SessionsSpec

(***************************************************************************)
(* The blocks in use are those a live structure owns, after any number of  *)
(* lists parsed in one process and whichever of them failed: a list that   *)
(* is refused leaves no block behind in the grammar it was parsed into.    *)
(***************************************************************************)
THEOREM MemoryCorrectAcrossLists == SessionsSpec => []HeapIsOwned
  <1>1. SessionsInv => HeapIsOwned
    BY DEF SessionsInv, MemoryInv, StoredOK, HeapOK, HeapIsOwned
  <1> QED
    BY <1>1, SessionsInvariant, PTL

(***************************************************************************)
(* The entry of a grammar is NULL or a rule stored in it, after any number *)
(* of lists: a list that fails leaves the entry alone, and entryRule only  *)
(* takes a rule that ht_insertElement has stored (parser.c:293-302).       *)
(***************************************************************************)
THEOREM EntryCorrectAcrossLists == SessionsSpec => []EntryIsStored
  <1>1. SessionsInv => EntryIsStored
    BY DEF SessionsInv, EntryStored, IsStoredRule, RulesAt, EntryIsStored
  <1> QED
    BY <1>1, SessionsInvariant, PTL

(***************************************************************************)
(* A declaration that is stored is neither replaced nor dropped by a later *)
(* list of the same grammar, accepted or not, until the grammar is freed.  *)
(***************************************************************************)
THEOREM DeclarationsKeptBetweenLists == SessionsSpec => DeclarationsKeptAcrossLists
  <1>1. SessionsInv /\ [SessionsNext]_allVars => [Kept]_allVars
    <2> SUFFICES ASSUME SessionsInv, SessionsNext PROVE Kept
      BY DEF allVars
    <2>1. CASE tokens' = tokens /\ rules' = rules
      BY <2>1, TablesKept
    <2>2. CASE Run
      <3>1. CASE UNCHANGED vars
        BY <2>1, <3>1 DEF vars
      <3> QED
        BY <2>2, <3>1, RunIsNext, KeptStep DEF SessionsInv, MemoryInv
    <2> QED
      BY <2>1, <2>2
      DEF SessionsNext, NewGrammar, ParseMore, LoadList, Abandon, SessionsTerminated,
          frame, grammar, allVars, vars
  <1> QED
    BY <1>1, SessionsInvariant, PTL DEF SessionsSpec, DeclarationsKeptAcrossLists, Kept
=============================================================================
