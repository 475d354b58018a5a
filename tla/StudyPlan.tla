----------------------------- MODULE StudyPlan ------------------------------
(***************************************************************************)
(* The study plan of one session: marking concepts as studied or known and *)
(* taking it back (backend/platform/prereqai_platform.py), on the paper    *)
(* and the report of the session, and what its saved file holds meanwhile. *)
(*                                                                         *)
(* The marks run one at a time, on the event-loop thread, but they change  *)
(* the paper in place, step by step, while a question on a worker thread   *)
(* may save the session.  A rebuild of the plan may fail at any stage and  *)
(* is then rolled back from copies taken before it.                        *)
(*                                                                         *)
(* Only the concepts the paper does not cover itself are modelled: the     *)
(* others are never planned.  The order of the plan, its hours, resources  *)
(* and actions follow from which concepts are in it and are left out.      *)
(***************************************************************************)
CONSTANT Concepts   \* the prerequisites that need external study

VARIABLES
  paper,    \* session.paper: the fields a mark changes
  report,   \* session.report: the sections that show them
  file,     \* the saved paper and report
  backup,   \* the copies a rebuild is rolled back to
  op,       \* the mark under way: its next step and locals
  stale,    \* history: a mark failed after changing the paper
  torn,     \* history: the file was saved while a plan was being rebuilt, or from
            \* a plan restored from such a file
  hurt      \* history: the plan was restored from such a file

taint == <<torn, hurt>>
vars  == <<paper, report, file, backup, op, stale, taint>>

-----------------------------------------------------------------------------
\* known: missing_prerequisites satisfied with KNOWN_REASON; plan: learning_plan;
\* listed, done: study_progress and its completed entries; remembered:
\* studied_while_known.
Papers  == [known : SUBSET Concepts, plan : SUBSET Concepts, listed : SUBSET Concepts,
            done : SUBSET Concepts, remembered : SUBSET Concepts]
Reports == [known : SUBSET Concepts, plan : SUBSET Concepts, listed : SUBSET Concepts,
            done : SUBSET Concepts]

\* What report_generator.generate shows of a paper.
Generated(p) == [known |-> p.known, plan |-> p.plan, listed |-> p.listed, done |-> p.done]

\* _refresh_progress copies the sections of PROGRESS_REPORT_KEYS.
Refreshed(r, p) == [r EXCEPT !.listed = p.listed, !.done = p.done]

Rebuilding == {"reset", "replan", "drop", "flag", "clear", "list", "complete", "publish"}
Steps      == Rebuilding \cup {"refresh", "save"}
\* wanted: the names _personalize drops; studied: the names it marks completed.
Ops  == [step : Steps, wanted : SUBSET Concepts, studied : SUBSET Concepts]
NoOp == [step |-> "none", wanted |-> {}, studied |-> {}]
Rest == op = NoOp

At(s)   == op.step = s
Then(s) == op' = [op EXCEPT !.step = s]

\* The plan of a new analysis whose learner knows K and has studied S.
Analysed(K, S) == [known |-> K, plan |-> Concepts \ K, listed |-> Concepts \ K,
                   done |-> S \ K, remembered |-> {}]

\* What backup holds when no rebuild is under way.
NoCopy == [paper |-> Analysed({}, {}), report |-> Generated(Analysed({}, {}))]

\* A file of an older version may list known concepts as studied.
OldFile(K, S, B) == [Analysed(K, S) EXCEPT !.listed = @ \cup B, !.done = @ \cup B]

-----------------------------------------------------------------------------
(* Marking studied, on the session's paper; the report follows.            *)

SetStudied(c) ==
  /\ Rest /\ c \in paper.listed
  /\ \/ paper' = [paper EXCEPT !.done = @ \cup {c}]
     \/ paper' = [paper EXCEPT !.done = @ \ {c}]
  /\ op' = [step |-> "refresh", wanted |-> {}, studied |-> {}]
  /\ UNCHANGED <<report, file, backup, stale, taint>>

Refresh ==
  /\ At("refresh")
  /\ report' = Refreshed(report, paper)
  /\ stale' = FALSE
  /\ Then("save")
  /\ UNCHANGED <<paper, file, backup, taint>>

\* Readiness or report generation fails: the mark stays, the report does not follow.
RefreshFails ==
  /\ At("refresh")
  /\ stale' = TRUE
  /\ op' = NoOp
  /\ UNCHANGED <<paper, report, file, backup, taint>>

-----------------------------------------------------------------------------
(* Marking known: copy, remember that it was studied, rebuild without it.  *)

\* Slip: the rebuild is given a list of the list of names.
MutantMarkKnownList(c) ==
  /\ Rest /\ c \in paper.plan
  /\ backup' = [paper |-> paper, report |-> report]
  /\ paper' = [paper EXCEPT !.remembered = @ \cup ({c} \cap paper.done)]
  /\ op' = [step |-> "drop", wanted |-> {{c}}, studied |-> paper.done \ {c}]
  /\ UNCHANGED <<report, file, stale, taint>>

\* Slip: the note that c was studied is taken before the copies.
MutantMarkKnown(c) ==
  LET noted == [paper EXCEPT !.remembered = @ \cup ({c} \cap paper.done)] IN
  /\ Rest /\ c \in paper.plan
  /\ backup' = [paper |-> noted, report |-> report]
  /\ paper' = noted
  /\ op' = [step |-> "drop", wanted |-> {c}, studied |-> paper.done \ {c}]
  /\ UNCHANGED <<report, file, stale, taint>>

MarkKnown(c) ==
  /\ Rest /\ c \in paper.plan
  /\ backup' = [paper |-> paper, report |-> report]
  /\ paper' = [paper EXCEPT !.remembered = @ \cup ({c} \cap paper.done)]
  /\ op' = [step |-> "drop", wanted |-> {c}, studied |-> paper.done \ {c}]
  /\ UNCHANGED <<report, file, stale, taint>>

\* Slip: what was studied before it was known is not given back.
MutantUnmarkKnown(c) ==
  /\ Rest /\ c \in paper.known
  /\ backup' = [paper |-> paper, report |-> report]
  /\ paper' = [paper EXCEPT !.remembered = @ \ {c}]
  /\ op' = [step |-> "reset", wanted |-> paper.known \ {c}, studied |-> paper.done]
  /\ UNCHANGED <<report, file, stale, taint>>

\* Taking it back: the analysis-time plan is rebuilt, then the concepts that
\* stay known are dropped again.
UnmarkKnown(c) ==
  /\ Rest /\ c \in paper.known
  /\ backup' = [paper |-> paper, report |-> report]
  /\ paper' = [paper EXCEPT !.remembered = @ \ {c}]
  /\ op' = [step |-> "reset", wanted |-> paper.known \ {c},
            studied |-> paper.done \cup ({c} \cap paper.remembered)]
  /\ UNCHANGED <<report, file, stale, taint>>

\* One stage of a rebuild: the paper changes in place.
Stage(s, after, p) ==
  /\ At(s)
  /\ paper' = p
  /\ Then(after)
  /\ UNCHANGED <<report, file, backup, stale, taint>>

\* missing_prerequisite_analyzer.analyze forgets who said what; the planner
\* plans what is missing.
Reset  == Stage("reset", "replan", [paper EXCEPT !.known = {}])
Replan == Stage("replan", "drop", [paper EXCEPT !.plan = Concepts \ paper.known])

\* _personalize.
Drop == Stage("drop", "flag", [paper EXCEPT !.plan = @ \ op.wanted])

\* Slip: the session is saved before the rebuild has succeeded.
MutantFlag ==
  /\ At("flag")
  /\ paper' = [paper EXCEPT !.known = @ \cup op.wanted]
  /\ file' = [paper |-> paper', report |-> report]
  /\ Then("clear")
  /\ UNCHANGED <<report, backup, stale, taint>>

Flag == Stage("flag", "clear", [paper EXCEPT !.known = @ \cup op.wanted])

Clear == Stage("clear", "list", [paper EXCEPT !.listed = {}, !.done = {}])
List == Stage("list", "complete", [paper EXCEPT !.listed = @ \cup paper.plan])
Complete == Stage("complete", "publish",
                  [paper EXCEPT !.done = @ \cup (op.studied \cap paper.listed)])

\* Slip: only the progress sections of the report are renewed.
MutantPublish ==
  /\ At("publish")
  /\ report' = Refreshed(report, paper)
  /\ stale' = FALSE
  /\ Then("save")
  /\ backup' = NoCopy
  /\ UNCHANGED <<paper, file, taint>>

Publish ==
  /\ At("publish")
  /\ report' = Generated(paper)
  /\ stale' = FALSE
  /\ Then("save")
  /\ backup' = NoCopy
  /\ UNCHANGED <<paper, file, taint>>

\* A stage raises: session.paper, session.report = backup.
Rollback ==
  /\ op.step \in Rebuilding
  /\ paper' = backup.paper
  /\ report' = backup.report
  /\ op' = NoOp
  /\ backup' = NoCopy
  /\ UNCHANGED <<file, stale, taint>>

-----------------------------------------------------------------------------
(* Saving and restoring.                                                   *)

Save ==
  /\ At("save")
  /\ file' = [paper |-> paper, report |-> report]
  /\ torn' = hurt
  /\ op' = NoOp
  /\ UNCHANGED <<paper, report, backup, stale, hurt>>

\* The file cannot be written: the change stays in memory only.
SaveFails ==
  /\ At("save")
  /\ op' = NoOp
  /\ UNCHANGED <<paper, report, file, backup, stale, taint>>

\* A question answered on a worker thread saves the session as it is, even
\* while a mark rebuilds its plan.
WorkerSave ==
  /\ file' = [paper |-> paper, report |-> report]
  /\ torn' = (hurt \/ op.step \in Rebuilding)
  /\ UNCHANGED <<paper, report, backup, op, stale, hurt>>

\* _reconcile_known_and_studied, on every restore from the file.
Clash(p) == p.done \cap p.known

Reconciled(p) == [p EXCEPT !.remembered = @ \cup Clash(p), !.listed = @ \ Clash(p),
                           !.done = @ \ Clash(p)]

\* The repair refreshes the report too, as best it can.
RestoredReports(f) ==
  IF Clash(f.paper) = {} THEN {f.report}
  ELSE {f.report, Refreshed(f.report, Reconciled(f.paper))}

\* The report was saved behind the paper, or the repair could not refresh it.
Behind(f, r) == \/ f.report # Generated(f.paper)
                \/ Clash(f.paper) # {} /\ r = f.report

\* The server restarts, or has evicted the session, and reads it back.
Restore ==
  /\ paper' = Reconciled(file.paper)
  /\ \E r \in RestoredReports(file) : report' = r /\ stale' = Behind(file, r)
  /\ hurt' = torn
  /\ op' = NoOp
  /\ backup' = NoCopy
  /\ UNCHANGED <<file, torn>>

-----------------------------------------------------------------------------
\* The session is new, or restored from a file of this or an older version.
Init ==
  /\ \E K, S \in SUBSET Concepts : \E B \in SUBSET K :
       file = [paper |-> OldFile(K, S, B), report |-> Generated(OldFile(K, S, B))]
  /\ paper = Reconciled(file.paper)
  /\ \E r \in RestoredReports(file) : report = r /\ stale = Behind(file, r)
  /\ backup = NoCopy
  /\ op = NoOp
  /\ torn = FALSE /\ hurt = FALSE

Mark(c) == SetStudied(c) \/ MarkKnown(c) \/ UnmarkKnown(c)
Rebuild == Reset \/ Replan \/ Drop \/ Flag \/ Clear \/ List \/ Complete \/ Publish \/ Rollback

Next == \/ \E c \in Concepts : Mark(c)
        \/ Refresh \/ RefreshFails \/ Rebuild
        \/ Save \/ SaveFails \/ WorkerSave \/ Restore

Spec == Init /\ [][Next]_vars

-----------------------------------------------------------------------------
(* Properties.                                                             *)

\* Every variable has its type.
TypeOK ==
  /\ paper \in Papers /\ report \in Reports
  /\ file \in [paper : Papers, report : Reports]
  /\ backup \in [paper : Papers, report : Reports]
  /\ op \in Ops \cup {NoOp}
  /\ stale \in BOOLEAN /\ torn \in BOOLEAN /\ hurt \in BOOLEAN

\* No rebuild is under way: what is in memory is what the learner gets.
Settled == Rest \/ op.step \in {"refresh", "save"}

\* A plan that makes sense: every concept is either known or planned, progress
\* follows the plan, and only known concepts are remembered as studied.
Whole(p) == /\ p.plan = Concepts \ p.known
            /\ p.listed = p.plan
            /\ p.done \subseteq p.listed
            /\ p.remembered \subseteq p.known

\* After any sequence of marks, undos, failed rebuilds, saves and restores the
\* plan makes sense (_personalize, unmark_concept_known, the rollbacks), unless
\* one saved half-made was read back.
PlanWhole == Settled /\ ~hurt => Whole(paper)

\* What the learner is shown agrees with the plan once the change is published,
\* except after a mark whose refresh failed (the report sections).
ReportAgrees == (Rest \/ At("save")) /\ ~stale /\ ~hurt => report = Generated(paper)

\* Whenever no mark is under way the saved file restores to a plan that makes
\* sense (session_manager.save, _reconcile_known_and_studied): a failed rebuild
\* or save leaves it so, and a half-made plan that a question saved is gone with
\* the next save that is not in a rebuild.
FileWhole == Rest /\ ~torn => Whole(Reconciled(file.paper))

\* When the code rolls a failed rebuild back, what is saved is as whole as what
\* is in memory (mark_concept_known's comment).
FailureLeavesWhole == [][Rollback => Whole(Reconciled(file'.paper))]_vars

\* The marks a learner made are what counts, whatever the rebuilds do: while
\* the plan is being rebuilt, the copies taken before it stand for it.
Shown == IF Settled THEN paper ELSE backup.paper
StudiedIn(p) == p.done \cup p.remembered

Plan == INSTANCE LearnerPlan WITH
          studied <- StudiedIn(Shown), known <- Shown.known,
          kept <- [studied |-> StudiedIn(file.paper), known |-> file.paper.known],
          spoilt <- torn, lost <- hurt
PlanSpec == Plan!Spec
=============================================================================
