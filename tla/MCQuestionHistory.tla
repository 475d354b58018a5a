------------------------- MODULE MCQuestionHistory --------------------------
(* Instances of QuestionHistory for TLC. *)
EXTENDS QuestionHistory, TLC

\* No step tells one question from another.
QuestionSymmetry == Permutations(Questions)

\* The bound of the run: once a mark has saved in the middle of a question, the
\* last question is no longer asked.
MarksWithTwo == spilled = {} \/ \E q \in Questions : At(q, "new")
=============================================================================
