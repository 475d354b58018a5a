---------------------------- MODULE LearnerPlan -----------------------------
(***************************************************************************)
(* What the study plan promises a learner.  Each concept the paper needs   *)
(* is studied or not and known or not.  Saying that a concept is known, or *)
(* taking that back, never changes what was studied; a restart brings back *)
(* the plan as it was last saved.  A plan may be saved while it is half    *)
(* made; once such a one is read back nothing more is promised.            *)
(***************************************************************************)
CONSTANT Concepts

VARIABLES studied,   \* concepts the learner has studied
          known,     \* concepts the learner said they already know
          kept,      \* the two as last saved
          spoilt,    \* what was last saved is half made
          lost       \* and was read back

pvars == <<studied, known, kept, spoilt, lost>>

Marks == [studied : SUBSET Concepts, known : SUBSET Concepts]

Init == /\ studied \in SUBSET Concepts
        /\ known \in SUBSET Concepts
        /\ kept = [studied |-> studied, known |-> known]
        /\ spoilt = FALSE /\ lost = FALSE

\* A concept can be studied, or found not studied after all, while it is in
\* the plan.
MarkStudied(c) == /\ c \notin known
                  /\ studied' = studied \cup {c}
                  /\ UNCHANGED <<known, kept, spoilt, lost>>

UnmarkStudied(c) == /\ c \notin known
                    /\ studied' = studied \ {c}
                    /\ UNCHANGED <<known, kept, spoilt, lost>>

MarkKnown(c) == known' = known \cup {c} /\ UNCHANGED <<studied, kept, spoilt, lost>>

UnmarkKnown(c) == known' = known \ {c} /\ UNCHANGED <<studied, kept, spoilt, lost>>

Save == /\ kept' = [studied |-> studied, known |-> known]
        /\ spoilt' = FALSE
        /\ UNCHANGED <<studied, known, lost>>

\* What is saved then may be anything, but what is in memory does not change.
SaveHalfMade == /\ kept' \in Marks
                /\ spoilt' = TRUE
                /\ UNCHANGED <<studied, known, lost>>

Restore == /\ ~spoilt
           /\ studied' = kept.studied /\ known' = kept.known
           /\ UNCHANGED <<kept, spoilt, lost>>

RestoreHalfMade == /\ spoilt
                   /\ lost' = TRUE
                   /\ UNCHANGED <<kept, spoilt>>

Next == \/ lost /\ lost'
        \/ \E c \in Concepts : \/ MarkStudied(c) \/ UnmarkStudied(c)
                               \/ MarkKnown(c) \/ UnmarkKnown(c)
        \/ Save \/ SaveHalfMade \/ Restore \/ RestoreHalfMade

Spec == Init /\ [][Next]_pvars
=============================================================================
