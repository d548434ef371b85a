------------------------------ MODULE ToolCall ------------------------------
(***************************************************************************)
(* One call of a tool that reads what it is asked about in one piece, and  *)
(* the answer that is computed from it.  The modules that extend this one  *)
(* say which questions there are, what the answer is, and what it must be. *)
(***************************************************************************)
EXTENDS Naturals, Sequences, SequencesExt, FiniteSetsExt, Functions

VARIABLES
  question,   \* the tool, and all it reads
  answer      \* <<>> before the answer, then <<the answer>>

Answered(tool) == answer # <<>> /\ question.tool = tool
Reply == answer[1]

\* The first records of a list, how many there are, and whether some are left out.
Bounded(list, limit) ==
  [count |-> Len(list), shown |-> SubSeq(list, 1, Min({Len(list), limit})), truncated |-> Len(list) > limit]

\* A bounded list is the one meant: all of it is counted, and no more is left
\* out than the limit requires.
Shows(bounded, list, limit) ==
  /\ bounded.count = Len(list)
  /\ IsPrefix(bounded.shown, list)
  /\ IF bounded.truncated THEN Len(bounded.shown) = limit /\ limit < Len(list)
     ELSE Len(bounded.shown) = Len(list)
=============================================================================
