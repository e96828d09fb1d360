----------------------------- MODULE ReadGrammar -----------------------------
(***************************************************************************)
(* prs_readGrammar (parser.c): the lines fgets delivers are collected in a *)
(* buffer that grows by Step bytes, and a terminator is written behind the *)
(* text when the stream ends, where there is room for it or not.  Step is  *)
(* 512 in the code, the size of fgets' buffer too.                         *)
(***************************************************************************)
EXTENDS Integers, Sequences, FiniteSetsExt

CONSTANTS Inputs, \* contents of the stream
          Step

InputsAssumption == Inputs \subseteq Seq(STRING)
StepAssumption == Step \in Nat \ {0, 1}

VARIABLES input,
          read,     \* bytes of the input fgets has delivered
          content,  \* the bytes stored; their number is "pos" in the code
          capacity, \* of fileContent; 0: NULL
          nul,      \* where in fileContent the terminator was written
          pc        \* "read", "done", "failed" (-1 is returned) or "crashed"

vars == <<input, read, content, capacity, nul, pc>>

Init ==
  /\ input \in Inputs
  /\ read = 0 /\ content = <<>> /\ capacity = 0 /\ nul = {}
  /\ pc = "read"

(* fgets: up to Step - 1 bytes, not beyond a new line *)
LineEnd ==
  Min({p \in read + 1 .. Len(input) : input[p] = "newline"}
        \cup {read + Step - 1, Len(input)})

(* what strlen and memcpy see of them *)
Line ==
  LET nuls == {p \in read + 1 .. LineEnd : input[p] = "NUL"}
  IN  SubSeq(input, read + 1, Min(nuls \cup {LineEnd + 1}) - 1)

(* Faulty variant: the bytes already stored are forgotten. *)
FitsAlone(line) == Len(line) <= capacity

Fits(line) == Len(content) + Len(line) <= capacity

(* the first capacity in steps that holds them *)
Grown(size) == Min({c \in capacity .. size + Step : (c - capacity) % Step = 0 /\ c >= size})

(* Faulty variant: every line is copied to the start of the buffer. *)
StoredFirst(line) == line \o SubSeq(content, Len(line) + 1, Len(content))

Stored(line) == content \o line

ReadLine ==
  /\ pc = "read" /\ read < Len(input) /\ Line # <<>>
  /\ capacity' = IF Fits(Line) THEN capacity ELSE Grown(Len(content) + Len(Line))
  /\ content' = Stored(Line)
  /\ read' = LineEnd
  /\ UNCHANGED <<input, nul, pc>>

(* realloc fails *)
OutOfMemory ==
  /\ pc = "read" /\ read < Len(input) /\ Line # <<>> /\ ~Fits(Line)
  /\ content' = <<>> /\ capacity' = 0
  /\ read' = LineEnd
  /\ pc' = "failed"
  /\ UNCHANGED <<input, nul>>

(* the end of the stream, or a line that starts with a NUL *)
AtEnd == pc = "read" /\ (read = Len(input) \/ Line = <<>>)

(* The terminator goes behind the bytes stored, wherever the buffer ends. *)
EndOfInput ==
  /\ AtEnd /\ capacity # 0
  /\ nul' = {Len(content)}
  /\ pc' = "done"
  /\ UNCHANGED <<input, read, content, capacity>>

(* Without a buffer, it is written through NULL. *)
NullWrite ==
  /\ AtEnd /\ capacity = 0
  /\ pc' = "crashed"
  /\ UNCHANGED <<input, read, content, capacity, nul>>

Returned == pc \in {"done", "failed", "crashed"} /\ UNCHANGED vars

Next == ReadLine \/ OutOfMemory \/ EndOfInput \/ NullWrite \/ Returned

Spec == Init /\ [][Next]_vars /\ WF_vars(Next)
-----------------------------------------------------------------------------
(* There is a first line, which is not empty for strlen. *)
StartsWithText(stream) == stream # <<>> /\ stream[1] # "NUL"

(* the offsets of the buffer *)
Buffer == 0 .. capacity - 1

(***************************************************************************)
(* Where prs_readGrammar writes.  The bytes stored always fit the buffer,  *)
(* which is never a whole step too large.  The terminator does not always: *)
(* it is written behind the buffer when Step divides the size of the text, *)
(* and through NULL when the stream has nothing to store.                  *)
(***************************************************************************)
TerminatorPlaced ==
  /\ Len(content) <= capacity /\ capacity < Len(content) + Step
  /\ pc = "done" =>
       StartsWithText(input) /\ (nul \subseteq Buffer <=> Len(content) % Step # 0)
  /\ pc = "crashed" => ~StartsWithText(input)

(***************************************************************************)
(* test_parser.cpp:69: the content is that of the file, however its lines  *)
(* compare to the buffer of fgets and to the steps of the capacity.        *)
(***************************************************************************)
WholeFileRead ==
  pc = "done" /\ (\A p \in DOMAIN input : input[p] # "NUL") => content = input
=============================================================================
