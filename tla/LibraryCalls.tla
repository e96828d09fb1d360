---------------------------- MODULE LibraryCalls -----------------------------
(***************************************************************************)
(* The functions of the library that keep no state between two calls: a    *)
(* client calls one of them with some arguments, and it runs until it      *)
(* returns.  A module of its own describes each function; here they share  *)
(* what a call has, its arguments and its local variables, which the       *)
(* instances name as the code does.                                        *)
(***************************************************************************)
EXTENDS Integers

CONSTANTS StringTexts, Width,                \* of StringUtils
          Streams, Step,                     \* of ReadGrammar
          RangeTexts, SizeValues, MaxBlock,    \* of Ranges
          TextSizes, ItemSizes, BufferSizes, \* of ErrorMessage
          Grammars, Tokens, Calls, MaxDepth  \* of GrammarEquality

VARIABLES function, pc,
          arg1, arg2, arg3,
          local1, local2, local3, local4, local5

vars == <<function, pc, arg1, arg2, arg3, local1, local2, local3, local4, local5>>

Strings == INSTANCE StringUtils
             WITH Texts <- StringTexts, call <- arg1, text <- arg2, number <- arg3,
                  ptr <- local1, dest <- local2, words <- local3, n <- local4,
                  length <- local5

Reading == INSTANCE ReadGrammar
             WITH Inputs <- Streams, input <- arg1,
                  read <- local1, content <- local2, capacity <- local3,
                  nul <- local4

Ranging == INSTANCE Ranges
             WITH Inputs <- RangeTexts, input <- arg1, fromItem <- arg2,
                  code <- local1, ranges <- local2, number <- local3, array <- local4,
                  blocks <- local5

Message == INSTANCE ErrorMessage
             WITH Texts <- TextSizes, Items <- ItemSizes, Capacities <- BufferSizes,
                  text <- arg1, item <- arg2, capacity <- arg3,
                  memory <- local1, total <- local2

Equality == INSTANCE GrammarEquality
              WITH rules <- arg1, call <- arg2,
                   stack <- local1, compared <- local2, equal <- local3

ASSUME ArgumentsAssumption ==
  /\ Strings!TextsAssumption /\ Strings!WidthAssumption
  /\ Reading!InputsAssumption /\ Reading!StepAssumption
  /\ Ranging!SizeAssumption
  /\ Message!LengthsAssumption /\ Message!CapacitiesAssumption
  /\ Equality!TokensAssumption /\ Equality!GrammarsAssumption
  /\ Equality!CallsAssumption /\ Equality!DepthAssumption

Unused == "unused"
-----------------------------------------------------------------------------
Init ==
  \/ function = "strings" /\ Strings!Init
  \/ /\ function = "prs_readGrammar" /\ Reading!Init
     /\ arg2 = Unused /\ arg3 = Unused /\ local5 = Unused
  \/ function = "prs_extractRanges" /\ Ranging!Init /\ arg3 = Unused
  \/ /\ function = "prs_getErrorMessage" /\ Message!Init
     /\ local3 = Unused /\ local4 = Unused /\ local5 = Unused
  \/ /\ function = "equality" /\ Equality!Init
     /\ arg3 = Unused /\ local4 = Unused /\ local5 = Unused

RunStrings ==
  function = "strings" /\ Strings!Next /\ UNCHANGED function

RunReading ==
  /\ function = "prs_readGrammar" /\ Reading!Next
  /\ UNCHANGED <<function, arg2, arg3, local5>>

RunRanging ==
  function = "prs_extractRanges" /\ Ranging!Next /\ UNCHANGED <<function, arg3>>

RunMessage ==
  /\ function = "prs_getErrorMessage" /\ Message!Next
  /\ UNCHANGED <<function, local3, local4, local5>>

RunEquality ==
  /\ function = "equality" /\ Equality!Next
  /\ UNCHANGED <<function, arg3, local4, local5>>

Next == RunStrings \/ RunReading \/ RunRanging \/ RunMessage \/ RunEquality

(* the functions are sequential: they run until they return *)
Spec == Init /\ [][Next]_vars /\ WF_vars(Next)
-----------------------------------------------------------------------------
(* Properties: those of the modules, of the function that runs *)

(* The copies str_removeMultipleSpaces makes fit and lose only blanks. *)
CopyFaithful == function = "strings" => Strings!CopyFaithful

(* The words, the stripped copy and the number of digits are the true ones. *)
ResultsRight == function = "strings" => Strings!ResultsRight

(***************************************************************************)
(* The bytes prs_readGrammar stores fit its buffer; its terminator does    *)
(* not when Step divides their number, nor when there are none.            *)
(***************************************************************************)
TerminatorPlaced == function = "prs_readGrammar" => Reading!TerminatorPlaced

(* prs_readGrammar returns the whole content of the file. *)
WholeFileRead == function = "prs_readGrammar" => Reading!WholeFileRead

(* prs_extractRanges accepts exactly the sequences of patterns. *)
AcceptsPatterns == function = "prs_extractRanges" => Ranging!AcceptsPatterns

(* Its code is that of the first pattern that fails. *)
FirstErrorReported == function = "prs_extractRanges" => Ranging!FirstErrorReported

(* It leaves only the blocks of the range array, on every path. *)
BlocksOwned == function = "prs_extractRanges" => Ranging!BlocksOwned

(***************************************************************************)
(* What prs_getErrorMessage leaves in the buffer: the message or its       *)
(* beginning, where it ends, and whether the terminator is inside.         *)
(***************************************************************************)
MessageShown == function = "prs_getErrorMessage" => Message!MessageShown

(***************************************************************************)
(* What the comparisons of productions and of rules answer: that of rules  *)
(* takes items that differ for equal ones (formal_grammar.c:257).          *)
(***************************************************************************)
ComparisonAnswers == function = "equality" => Equality!ComparisonAnswers

(***************************************************************************)
(* The calls that come to an end are the others than these: an empty file  *)
(* (NULL is written through, parser.c:174), a lone bracket (its length     *)
(* wraps, the buffer of formal_grammar.c:88 is not to be had and           *)
(* str_removeWhitespaces asserts one) and rules that lead back to          *)
(* themselves (formal_grammar.c:256-266 and :320-382 call each other).     *)
(***************************************************************************)
Answerable ==
  /\ function = "prs_readGrammar" => Reading!StartsWithText(arg1)
  /\ function = "prs_extractRanges" => Ranging!Length <= MaxBlock
  /\ function = "equality" => Equality!Acyclic

(* Each of those returns, with a result or with the error it documents. *)
CallReturns == Answerable => <>(pc \in {"done", "failed"})
=============================================================================
