---------------------------- MODULE MCStudyPlan -----------------------------
(* Instances of StudyPlan for TLC. *)
EXTENDS StudyPlan, TLC

\* No step tells one concept from another.
ConceptSymmetry == Permutations(Concepts)

\* Nothing is promised of a plan that was restored half made: what is done to
\* it after that is not explored.
NotHurt == ~hurt
=============================================================================
