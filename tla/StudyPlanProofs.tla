-------------------------- MODULE StudyPlanProofs ---------------------------
(***************************************************************************)
(* The study plan makes sense after every sequence of marks, undos, failed *)
(* rebuilds, saves and restores, and the marks are what LearnerPlan says:  *)
(* knowing a concept never changes what was studied.  Both hold for every  *)
(* set of concepts, whenever questions save the session, as long as no     *)
(* plan saved half-made is read back; and a file written since by a save   *)
(* outside a rebuild is no such file.                                      *)
(*                                                                         *)
(* Neither is inductive alone: while a plan is rebuilt it makes no sense.  *)
(* RebuildInv says, stage by stage, what is already as it will be, from    *)
(* the copies the rebuild started with.  Sound is the invariant of a plan  *)
(* that is not hurt, and IInv adds that a hurt one has a torn file.        *)
(***************************************************************************)
EXTENDS StudyPlan, TLAPS

-----------------------------------------------------------------------------
(* The inductive invariant.                                                *)

\* The stages after the known concepts are flagged.
Late == {"clear", "list", "complete", "publish"}

\* The rebuild under way drops c, which the learner now knows.
Dropping(c, b) ==
  /\ op.step \notin {"reset", "replan"}
  /\ c \notin b.known /\ op.wanted = {c} /\ op.studied = b.done \ {c}
  /\ paper.remembered = b.remembered \cup ({c} \cap b.done)
  /\ op.step \notin Late => paper.known = b.known
  /\ op.step = "drop" => paper.plan = b.plan
  /\ op.step # "drop" => paper.plan = b.plan \ {c}
  /\ op.step \in Late => paper.known = b.known \cup {c}

\* The rebuild under way brings c back: all is planned anew, then what is
\* still known is dropped again.
Returning(c, b) ==
  /\ c \in b.known /\ op.wanted = b.known \ {c}
  /\ op.studied = b.done \cup ({c} \cap b.remembered)
  /\ paper.remembered = b.remembered \ {c}
  /\ op.step \in {"replan", "drop", "flag"} => paper.known = {}
  /\ op.step = "drop" => paper.plan = Concepts
  /\ op.step \in Late \cup {"flag"} => paper.plan = Concepts \ op.wanted
  /\ op.step \in Late => paper.known = op.wanted

\* How far the progress list has come.
Progressing ==
  /\ op.step = "list" => paper.listed = {} /\ paper.done = {}
  /\ op.step = "complete" => paper.listed = paper.plan /\ paper.done = {}
  /\ op.step = "publish" => /\ paper.listed = paper.plan
                            /\ paper.done = op.studied \cap paper.listed

RebuildInv ==
  op.step \in Rebuilding =>
    /\ Whole(backup.paper)
    /\ \E c \in Concepts : Dropping(c, backup.paper) \/ Returning(c, backup.paper)
    /\ Progressing

FileInv == ~torn => Whole(Reconciled(file.paper))

Sound == TypeOK /\ ~hurt /\ PlanWhole /\ RebuildInv /\ FileInv

IInv == TypeOK /\ (hurt => torn) /\ (~hurt => Sound)

-----------------------------------------------------------------------------
(* Lemmas about plans.                                                     *)

\* In a plan that makes sense nothing is both known and studied, so restoring
\* it changes nothing of what counts.
LEMMA WholeReconciled ==
  ASSUME NEW p \in Papers, Whole(p)
  PROVE  Whole(Reconciled(p))
BY DEF Papers, Whole, Reconciled, Clash

\* A rebuild that has reached its end has made a plan that makes sense, in
\* which the same concepts are studied as before it.
LEMMA Rebuilt ==
  ASSUME Sound, At("publish")
  PROVE  /\ Whole(paper)
         /\ StudiedIn(paper) = StudiedIn(backup.paper)
         /\ \E c \in Concepts : \/ paper.known = backup.paper.known \cup {c}
                                \/ paper.known = backup.paper.known \ {c}
<1> DEFINE b == backup.paper
<1>1. /\ b \in Papers /\ paper \in Papers /\ Whole(b)
      /\ paper.listed = paper.plan /\ paper.done = op.studied \cap paper.listed
  BY DEF Sound, TypeOK, RebuildInv, Progressing, At, Rebuilding
<1>2. PICK c \in Concepts : Dropping(c, b) \/ Returning(c, b)
  BY DEF Sound, RebuildInv, At, Rebuilding
<1>3. CASE Dropping(c, b)
  <2>1. paper.known = b.known \cup {c} /\ paper.plan = b.plan \ {c}
    BY <1>3 DEF Dropping, At, Late
  <2>2. op.studied = b.done \ {c} /\ paper.remembered = b.remembered \cup ({c} \cap b.done)
    BY <1>3 DEF Dropping
  <2> QED BY <1>1, <2>1, <2>2 DEF Papers, Whole, StudiedIn
<1>4. CASE Returning(c, b)
  <2>1. paper.known = b.known \ {c} /\ paper.plan = Concepts \ (b.known \ {c})
    BY <1>4 DEF Returning, At, Late
  <2>2. /\ op.studied = b.done \cup ({c} \cap b.remembered)
        /\ paper.remembered = b.remembered \ {c} /\ c \in b.known
    BY <1>4 DEF Returning
  <2>3. /\ paper.listed = paper.plan /\ paper.done \subseteq paper.listed
        /\ paper.remembered \subseteq paper.known /\ paper.plan = Concepts \ paper.known
    BY <1>1, <2>1, <2>2 DEF Papers, Whole
  <2>4. b.done \subseteq Concepts \ b.known /\ b.remembered \subseteq b.known
    BY <1>1 DEF Whole
  <2>5. paper.done = b.done \cup ({c} \cap b.remembered)
    BY <1>1, <2>1, <2>2, <2>4
  <2>6. StudiedIn(paper) = StudiedIn(b)
    BY <2>2, <2>5 DEF StudiedIn
  <2> QED BY <2>1, <2>3, <2>6 DEF Whole
<1> QED BY <1>2, <1>3, <1>4

-----------------------------------------------------------------------------
(* Types.                                                                  *)

\* The report of a plan has its type, and so has its refresh.
LEMMA GeneratedType ==
  ASSUME NEW p \in Papers
  PROVE  Generated(p) \in Reports /\ \A r \in Reports : Refreshed(r, p) \in Reports
BY DEF Papers, Reports, Generated, Refreshed

\* The next stage of a mark under way is a mark under way.
LEMMA ThenType ==
  ASSUME TypeOK, NEW s \in Steps, NEW after \in Steps, At(s), Then(after)
  PROVE  op' \in Ops
BY DEF TypeOK, At, Then, NoOp, Ops, Steps, Rebuilding

\* The state the server starts with is well typed.
LEMMA TypeInit == Init => TypeOK
<1> SUFFICES ASSUME Init PROVE TypeOK
  OBVIOUS
<1>1. NoOp \in Ops \cup {NoOp} /\ NoCopy \in [paper : Papers, report : Reports]
  BY DEF NoCopy, Papers, Reports, Analysed, Generated
<1>2. file \in [paper : Papers, report : Reports]
  <2>1. PICK K, S \in SUBSET Concepts : \E B \in SUBSET K :
          file = [paper |-> OldFile(K, S, B), report |-> Generated(OldFile(K, S, B))]
    BY DEF Init
  <2>2. PICK B \in SUBSET K :
          file = [paper |-> OldFile(K, S, B), report |-> Generated(OldFile(K, S, B))]
    BY <2>1
  <2>3. OldFile(K, S, B) \in Papers
    BY DEF OldFile, Analysed, Papers
  <2> QED BY <2>2, <2>3, GeneratedType
<1>3. Reconciled(file.paper) \in Papers
  BY <1>2 DEF Reconciled, Clash, Papers
<1>4. \A r \in RestoredReports(file) : r \in Reports
  BY <1>2, <1>3 DEF RestoredReports, Refreshed, Papers, Reports
<1>5. \A r : Behind(file, r) \in BOOLEAN
  BY DEF Behind
<1>6. /\ paper \in Papers /\ report \in Reports /\ stale \in BOOLEAN
      /\ backup \in [paper : Papers, report : Reports] /\ op \in Ops \cup {NoOp}
      /\ torn \in BOOLEAN /\ hurt \in BOOLEAN
  BY <1>1, <1>3, <1>4, <1>5 DEF Init
<1> QED BY <1>2, <1>6 DEF TypeOK

\* Every step keeps the types.
LEMMA TypeNext == TypeOK /\ [Next]_vars => TypeOK'
<1> SUFFICES ASSUME TypeOK, [Next]_vars PROVE TypeOK'
  OBVIOUS
<1> USE DEF TypeOK, taint
<1>0. NoCopy \in [paper : Papers, report : Reports]
  BY DEF NoCopy, Papers, Reports, Analysed, Generated
<1>1. CASE \E c \in Concepts : SetStudied(c)
  BY <1>1 DEF SetStudied, Papers, Ops, Steps
<1>2. CASE \E c \in Concepts : MarkKnown(c)
  BY <1>2 DEF MarkKnown, Papers, Ops, Steps, Rebuilding
<1>3. CASE \E c \in Concepts : UnmarkKnown(c)
  BY <1>3 DEF UnmarkKnown, Papers, Ops, Steps, Rebuilding
<1>4. CASE Refresh \/ RefreshFails
  <2>1. CASE Refresh
    BY <2>1, ThenType, GeneratedType DEF Refresh, Steps
  <2>2. CASE RefreshFails
    BY <2>2 DEF RefreshFails
  <2> QED BY <1>4, <2>1, <2>2
<1>5. ASSUME NEW s, NEW after \in Steps, NEW p \in Papers, Stage(s, after, p), s \in Rebuilding
      PROVE  TypeOK'
  BY <1>5 DEF Stage, At, Then, NoOp, Ops, Rebuilding
<1>6. CASE Reset \/ Replan \/ Drop \/ Flag
  <2>1. op.step \in Rebuilding /\ op.step # "none" /\ op \in Ops
    BY <1>6 DEF Reset, Replan, Drop, Flag, Stage, At, NoOp, Rebuilding
  <2> QED BY <1>5, <1>6, <2>1 DEF Reset, Replan, Drop, Flag, Papers, Steps, Rebuilding, Ops
<1>7. CASE Clear \/ List \/ Complete
  <2>1. op.step \in Rebuilding /\ op.step # "none" /\ op \in Ops
    BY <1>7 DEF Clear, List, Complete, Stage, At, NoOp, Rebuilding
  <2> QED BY <1>5, <1>7, <2>1 DEF Clear, List, Complete, Papers, Steps, Rebuilding, Ops
<1>8. CASE Publish
  <2>1. op' \in Ops
    BY <1>8, ThenType DEF Publish, Steps, Rebuilding
  <2> QED BY <1>0, <1>8, <2>1, GeneratedType DEF Publish
<1>9. CASE Rollback
  BY <1>0, <1>9 DEF Rollback
<1>10. CASE Save \/ SaveFails \/ WorkerSave
  <2>1. torn' \in BOOLEAN
    BY <1>10 DEF Save, SaveFails, WorkerSave
  <2> QED BY <1>10, <2>1 DEF Save, SaveFails, WorkerSave
<1>11. CASE Restore
  <2>1. Reconciled(file.paper) \in Papers
    BY DEF Reconciled, Clash, Papers
  <2>2. \A r \in RestoredReports(file) : r \in Reports
    BY <2>1 DEF RestoredReports, Refreshed, Papers, Reports
  <2> QED BY <1>0, <1>11, <2>1, <2>2 DEF Restore, Behind
<1>12. CASE UNCHANGED vars
  BY <1>12 DEF vars
<1> QED BY <1>1, <1>2, <1>3, <1>4, <1>6, <1>7, <1>8, <1>9, <1>10, <1>11, <1>12
       DEF Next, Mark, Rebuild

-----------------------------------------------------------------------------
(* Every step keeps the rest of the invariant.                             *)

\* A server starts with a plan that makes sense, whatever file it reads.
LEMMA InvInit == Init => IInv /\ Sound
<1> SUFFICES ASSUME Init PROVE IInv /\ Sound
  OBVIOUS
<1>1. TypeOK
  BY TypeInit
<1>2. PICK K, S \in SUBSET Concepts : \E B \in SUBSET K :
        file = [paper |-> OldFile(K, S, B), report |-> Generated(OldFile(K, S, B))]
  BY DEF Init
<1>3. PICK B \in SUBSET K : file.paper = OldFile(K, S, B)
  BY <1>2
<1>4. FileInv /\ ~hurt
  BY <1>3 DEF Init, FileInv, OldFile, Analysed, Reconciled, Clash, Whole
<1>5. op.step \notin Rebuilding /\ Whole(paper)
  BY <1>4 DEF Init, NoOp, Rebuilding, FileInv
<1> QED BY <1>1, <1>4, <1>5 DEF IInv, Sound, PlanWhole, RebuildInv

\* Steps of a mark other than the stages of a rebuild.
LEMMA MarkInv ==
  ASSUME Sound, TypeOK', NEW c \in Concepts, Mark(c)
  PROVE  Sound'
<1> USE DEF Sound, TypeOK, taint
<1>1. Whole(paper)
  BY DEF Mark, SetStudied, MarkKnown, UnmarkKnown, PlanWhole, Settled
<1>2. FileInv' /\ ~hurt'
  BY DEF Mark, SetStudied, MarkKnown, UnmarkKnown, FileInv
<1>3. CASE SetStudied(c)
  <2>1. Whole(paper)'
    BY <1>1, <1>3 DEF SetStudied, Whole, Papers
  <2>2. op'.step \notin Rebuilding
    BY <1>3 DEF SetStudied, Rebuilding
  <2> QED BY <1>2, <2>1, <2>2 DEF PlanWhole, RebuildInv
<1>4. CASE MarkKnown(c)
  <2>1. op'.step = "drop" /\ backup'.paper = paper /\ ~Settled'
    BY <1>4 DEF MarkKnown, Settled, Rest, NoOp
  <2>2. /\ op'.wanted = {c} /\ op'.studied = paper.done \ {c}
        /\ paper'.known = paper.known /\ paper'.plan = paper.plan
        /\ paper'.remembered = paper.remembered \cup ({c} \cap paper.done)
        /\ c \notin paper.known
    BY <1>1, <1>4 DEF MarkKnown, Whole, Papers
  <2>3. Dropping(c, backup.paper)'
    BY <2>1, <2>2 DEF Dropping, Late
  <2>4. Progressing'
    BY <2>1 DEF Progressing
  <2> QED BY <1>1, <1>2, <2>1, <2>3, <2>4 DEF RebuildInv, PlanWhole
<1>5. CASE UnmarkKnown(c)
  <2>1. op'.step = "reset" /\ backup'.paper = paper /\ ~Settled'
    BY <1>5 DEF UnmarkKnown, Settled, Rest, NoOp
  <2>2. Returning(c, backup.paper)'
    BY <1>5, <2>1 DEF UnmarkKnown, Returning, Late, Papers
  <2>3. Progressing'
    BY <2>1 DEF Progressing
  <2> QED BY <1>1, <1>2, <2>1, <2>2, <2>3 DEF RebuildInv, PlanWhole
<1> QED BY <1>3, <1>4, <1>5 DEF Mark

\* One stage of a rebuild brings the paper to what the next stage starts from.
LEMMA StageInv ==
  ASSUME Sound, TypeOK', Reset \/ Replan \/ Drop \/ Flag \/ Clear \/ List \/ Complete
  PROVE  Sound'
<1> USE DEF Sound, TypeOK, taint
<1> DEFINE b == backup.paper
<1>1. op \in Ops /\ op.step \in Rebuilding /\ UNCHANGED <<file, backup, torn, hurt>>
      /\ op'.wanted = op.wanted /\ op'.studied = op.studied
      /\ paper'.remembered = paper.remembered
  <2>1. /\ UNCHANGED <<file, backup, torn, hurt>> /\ op.step \in Rebuilding /\ op \in Ops
        /\ \E after : Then(after)
    BY DEF Reset, Replan, Drop, Flag, Clear, List, Complete, Stage, At, NoOp, Rebuilding
  <2>2. paper'.remembered = paper.remembered
    BY DEF Reset, Replan, Drop, Flag, Clear, List, Complete, Stage, Papers
  <2> QED BY <2>1, <2>2 DEF Then, Ops
<1>2. op'.step \in Rebuilding /\ ~Settled'
  BY <1>1 DEF Reset, Replan, Drop, Flag, Clear, List, Complete, Stage, Then, Settled,
             Rest, NoOp, Ops, Rebuilding
<1>3. Whole(b) /\ b' = b /\ FileInv' /\ ~hurt'
  BY <1>1 DEF RebuildInv, FileInv
<1>4. PICK c \in Concepts : Dropping(c, b) \/ Returning(c, b)
  BY <1>1 DEF RebuildInv
<1> DEFINE Staged == Progressing' /\ (Dropping(c, b)' \/ Returning(c, b)')
<1>5. ASSUME Reset \/ Replan PROVE Staged
  <2>1. CASE Reset
    <3>1. op.step = "reset" /\ op'.step = "replan" /\ paper'.known = {}
      BY <1>1, <2>1 DEF Reset, Stage, At, Then, Ops, Papers
    <3> QED BY <1>1, <1>3, <1>4, <3>1 DEF Dropping, Returning, Late, Progressing
  <2>2. CASE Replan
    <3>1. /\ op.step = "replan" /\ op'.step = "drop"
          /\ paper'.known = paper.known /\ paper'.plan = Concepts \ paper.known
      BY <1>1, <2>2 DEF Replan, Stage, At, Then, Ops, Papers
    <3> QED BY <1>1, <1>3, <1>4, <3>1 DEF Dropping, Returning, Late, Progressing
  <2> QED BY <1>5, <2>1, <2>2
<1>6. ASSUME Drop \/ Flag PROVE Staged
  <2>1. CASE Drop
    <3>1. /\ op.step = "drop" /\ op'.step = "flag"
          /\ paper'.known = paper.known /\ paper'.plan = paper.plan \ op.wanted
      BY <1>1, <2>1 DEF Drop, Stage, At, Then, Ops, Papers
    <3> QED BY <1>1, <1>3, <1>4, <3>1 DEF Dropping, Returning, Late, Progressing
  <2>2. CASE Flag
    <3>1. /\ op.step = "flag" /\ op'.step = "clear"
          /\ paper'.known = paper.known \cup op.wanted /\ paper'.plan = paper.plan
      BY <1>1, <2>2 DEF Flag, Stage, At, Then, Ops, Papers
    <3> QED BY <1>1, <1>3, <1>4, <3>1 DEF Dropping, Returning, Late, Progressing
  <2> QED BY <1>6, <2>1, <2>2
<1>7. ASSUME Clear \/ List \/ Complete PROVE Staged
  <2>1. /\ op.step \in Late /\ op'.step \in Late
        /\ paper'.known = paper.known /\ paper'.plan = paper.plan
    BY <1>1, <1>7 DEF Clear, List, Complete, Stage, At, Then, Ops, Papers, Late
  <2>2. Dropping(c, b) => Dropping(c, b)'
    BY <1>1, <1>3, <2>1 DEF Dropping, Late
  <2>3. Returning(c, b) => Returning(c, b)'
    BY <1>1, <1>3, <2>1 DEF Returning, Late
  <2>4. Progressing'
    <3>1. CASE Clear
      BY <1>1, <3>1 DEF Clear, Stage, At, Then, Ops, Papers, Progressing
    <3>2. CASE List
      <4>1. op.step = "list" /\ op'.step = "complete"
        BY <1>1, <3>2 DEF List, Stage, At, Then, Ops
      <4>2. paper.listed = {} /\ paper.done = {}
        BY <1>1, <4>1 DEF RebuildInv, Progressing
      <4> QED BY <3>2, <4>1, <4>2 DEF List, Stage, Papers, Progressing
    <3>3. CASE Complete
      <4>1. op.step = "complete" /\ op'.step = "publish"
        BY <1>1, <3>3 DEF Complete, Stage, At, Then, Ops
      <4>2. paper.listed = paper.plan /\ paper.done = {}
        BY <1>1, <4>1 DEF RebuildInv, Progressing
      <4> QED BY <1>1, <3>3, <4>1, <4>2 DEF Complete, Stage, Papers, Progressing
    <3> QED BY <1>7, <3>1, <3>2, <3>3
  <2> QED BY <1>4, <2>2, <2>3, <2>4
<1>8. Progressing' /\ \E d \in Concepts : Dropping(d, b)' \/ Returning(d, b)'
  BY <1>5, <1>6, <1>7
<1> QED BY <1>2, <1>3, <1>8 DEF RebuildInv, PlanWhole
\* A rebuild that ends, well or not, and everything else.
LEMMA RestInv ==
  ASSUME Sound, TypeOK',
         \/ Publish \/ Rollback \/ Refresh \/ RefreshFails
         \/ Save \/ SaveFails \/ WorkerSave \/ (Restore /\ ~torn)
  PROVE  Sound'
<1> USE DEF Sound, TypeOK, taint
<1>1. CASE Publish
  <2>1. Whole(paper)' /\ op'.step \notin Rebuilding
    BY <1>1, Rebuilt DEF Publish, At, Then, NoOp, Ops, Rebuilding
  <2> QED BY <1>1, <2>1 DEF Publish, RebuildInv, PlanWhole, FileInv
<1>2. CASE Rollback
  <2>1. Whole(paper)' /\ op'.step \notin Rebuilding
    BY <1>2 DEF Rollback, RebuildInv, NoOp, Rebuilding
  <2> QED BY <1>2, <2>1 DEF Rollback, RebuildInv, PlanWhole, FileInv
<1>3. CASE Refresh \/ RefreshFails
  <2>1. Whole(paper) /\ op'.step \notin Rebuilding
    BY <1>3 DEF Refresh, RefreshFails, PlanWhole, Settled, At, Then, NoOp, Ops, Rebuilding
  <2> QED BY <1>3, <2>1 DEF Refresh, RefreshFails, RebuildInv, PlanWhole, FileInv
<1>4. CASE Save \/ SaveFails
  <2>1. Whole(paper) /\ op'.step \notin Rebuilding /\ paper' = paper /\ ~hurt'
    BY <1>4 DEF Save, SaveFails, PlanWhole, Settled, At, NoOp, Rebuilding
  <2>2. FileInv'
    BY <1>4, <2>1, WholeReconciled DEF Save, SaveFails, FileInv
  <2> QED BY <2>1, <2>2 DEF RebuildInv, PlanWhole
<1>5. CASE WorkerSave
  <2>1. UNCHANGED <<paper, backup, op, hurt>>
    BY <1>5 DEF WorkerSave
  <2>2. CASE op.step \in Rebuilding
    <3>1. torn'
      BY <1>5, <2>2 DEF WorkerSave
    <3> QED BY <2>1, <3>1 DEF FileInv, RebuildInv, PlanWhole, Settled, Rest, Dropping, Returning,
              Progressing
  <2>3. CASE op.step \notin Rebuilding
    <3>1. Whole(paper)
      BY <2>3 DEF PlanWhole, Settled, Rest, Ops, Steps
    <3>2. FileInv'
      BY <1>5, <3>1, WholeReconciled DEF WorkerSave, FileInv
    <3> QED BY <2>1, <2>3, <3>1, <3>2 DEF RebuildInv, PlanWhole
  <2> QED BY <2>2, <2>3
<1>6. CASE Restore /\ ~torn
  <2>1. Whole(paper)' /\ op'.step \notin Rebuilding
    BY <1>6 DEF Restore, FileInv, NoOp, Rebuilding
  <2> QED BY <1>6, <2>1 DEF Restore, RebuildInv, PlanWhole, FileInv
<1> QED BY <1>1, <1>2, <1>3, <1>4, <1>5, <1>6

\* Nothing happens: the invariant speaks of unchanged variables only.
LEMMA StutterInv == Sound /\ UNCHANGED vars => Sound'
BY DEF vars, taint, Sound, TypeOK, PlanWhole, Settled, Rest, RebuildInv, Dropping, Returning,
       Progressing, FileInv

\* What taints a plan and its file: once a plan is hurt it stays so.
LEMMA TaintNext ==
  ASSUME hurt => torn, [Next]_vars
  PROVE  /\ Restore \/ hurt' = hurt
         /\ hurt => hurt' /\ torn'
         /\ Restore => hurt' = torn /\ torn' = torn
<1> USE DEF taint
<1>1. CASE \E c \in Concepts : Mark(c)
  BY <1>1 DEF Mark, SetStudied, MarkKnown, UnmarkKnown, Restore
<1>2. CASE Rebuild \/ Refresh \/ RefreshFails
  BY <1>2 DEF Rebuild, Reset, Replan, Drop, Flag, Clear, List, Complete, Stage, Publish,
    Rollback, Refresh, RefreshFails, Restore
<1>3. CASE Save \/ SaveFails \/ WorkerSave
  <2>1. hurt' = hurt
    BY <1>3 DEF Save, SaveFails, WorkerSave
  <2>2. hurt => torn'
    BY <1>3 DEF Save, SaveFails, WorkerSave
  <2>3. Restore => hurt' = torn /\ torn' = torn
    BY DEF Restore
  <2> QED BY <2>1, <2>2, <2>3
<1>5. CASE Restore
  BY <1>5 DEF Restore
<1>4. CASE UNCHANGED vars
  BY <1>4 DEF vars, Restore
<1> QED BY <1>1, <1>2, <1>3, <1>4, <1>5 DEF Next

\* Every step keeps the invariant.
LEMMA InvNext == IInv /\ [Next]_vars => IInv'
<1> SUFFICES ASSUME IInv, [Next]_vars PROVE IInv'
  OBVIOUS
<1>1. TypeOK'
  BY TypeNext DEF IInv
<1>2. CASE hurt \/ (Restore /\ torn)
  <2>1. hurt' /\ torn'
    BY <1>2, TaintNext DEF IInv
  <2> QED BY <1>1, <2>1 DEF IInv
<1>3. CASE ~hurt /\ ~(Restore /\ torn)
  <2> SUFFICES Sound'
    BY DEF IInv, Sound
  <2>0. Sound
    BY <1>3 DEF IInv
  <2>1. CASE \E c \in Concepts : Mark(c)
    BY <1>1, <2>0, <2>1, MarkInv
  <2>2. CASE Reset \/ Replan \/ Drop \/ Flag \/ Clear \/ List \/ Complete
    BY <1>1, <2>0, <2>2, StageInv
  <2>3. CASE \/ Publish \/ Rollback \/ Refresh \/ RefreshFails
             \/ Save \/ SaveFails \/ WorkerSave \/ Restore
    BY <1>1, <1>3, <2>0, <2>3, RestInv
  <2>4. CASE UNCHANGED vars
    BY <2>0, <2>4, StutterInv
  <2> QED BY <2>1, <2>2, <2>3, <2>4 DEF Next, Rebuild
<1> QED BY <1>2, <1>3

LEMMA Invariant == Spec => []IInv
BY InvInit, InvNext, PTL DEF Spec

-----------------------------------------------------------------------------
(* The theorems.                                                           *)

\* The types of the plan, the report, the file and the mark under way.
THEOREM TypeCorrect == Spec => []TypeOK
BY TypeInit, TypeNext, PTL DEF Spec

\* Between rebuilds every concept is known or planned and not both, and progress
\* follows the plan, after any marks, failures, saves and restores, unless a plan
\* saved half-made was read back.
THEOREM PlanMakesSense == Spec => []PlanWhole
<1>1. IInv => PlanWhole
  BY DEF IInv, Sound, PlanWhole
<1> QED BY <1>1, Invariant, PTL

\* What is saved restores to such a plan, whenever questions save the session:
\* after a failed rebuild or save too, and also once a half-made plan in the file
\* has been saved over outside a rebuild.
THEOREM FileMakesSense == Spec => []FileWhole
<1>1. IInv => FileWhole
  BY DEF IInv, Sound, FileInv, FileWhole
<1> QED BY <1>1, Invariant, PTL

-----------------------------------------------------------------------------
(* The study plan does what LearnerPlan promises.                          *)

\* The learner starts with what the file says was studied and known.
LEMMA PlanInit == Init => Plan!Init
<1> SUFFICES ASSUME Init PROVE Plan!Init
  OBVIOUS
<1>1. paper \in Papers /\ file.paper \in Papers /\ Shown = paper
  BY TypeInit DEF TypeOK, Init, Shown, Settled, Rest
<1>2. StudiedIn(paper) = StudiedIn(file.paper) /\ paper.known = file.paper.known
  BY <1>1 DEF Init, Reconciled, Clash, StudiedIn, Papers
<1>3. StudiedIn(paper) \in SUBSET Concepts /\ paper.known \in SUBSET Concepts
  BY <1>1 DEF StudiedIn, Papers
<1>4. torn = FALSE /\ hurt = FALSE
  BY DEF Init
<1> QED BY <1>1, <1>2, <1>3, <1>4 DEF Plan!Init

\* What marking, rebuilding and ending a rebuild do to what the learner marked.
LEMMA PlanMarks ==
  ASSUME Sound, Rebuild \/ \E c \in Concepts : Mark(c)
  PROVE  [Plan!Next]_(Plan!pvars)
<1> USE DEF Sound, TypeOK, taint
<1> DEFINE b == backup.paper
<1>1. CASE \E c \in Concepts : SetStudied(c)
  <2>1. PICK c \in Concepts : SetStudied(c)
    BY <1>1
  <2>2. Shown = paper /\ Shown' = paper' /\ Whole(paper)
    BY <2>1 DEF SetStudied, Shown, Settled, PlanWhole
  <2>3. /\ c \notin paper.known /\ c \notin paper.remembered
        /\ paper'.known = paper.known /\ paper'.remembered = paper.remembered /\ file' = file /\ UNCHANGED taint
        /\ paper'.done = paper.done \cup {c} \/ paper'.done = paper.done \ {c}
    BY <2>1, <2>2 DEF SetStudied, Whole, Papers
  <2>4. \/ StudiedIn(paper)' = StudiedIn(paper) \cup {c}
        \/ StudiedIn(paper)' = StudiedIn(paper) \ {c}
    BY <2>3 DEF StudiedIn
  <2>5. Plan!MarkStudied(c) \/ Plan!UnmarkStudied(c)
    BY <2>2, <2>3, <2>4 DEF Plan!MarkStudied, Plan!UnmarkStudied, StudiedIn
  <2> QED BY <2>5 DEF Plan!Next
<1>2. CASE \E c \in Concepts : MarkKnown(c) \/ UnmarkKnown(c)
  <2>1. Shown = paper /\ Shown' = paper /\ file' = file /\ UNCHANGED taint
    BY <1>2 DEF MarkKnown, UnmarkKnown, Shown, Settled, Rest, NoOp
  <2> QED BY <2>1 DEF Plan!pvars, StudiedIn
<1>3. CASE Reset \/ Replan \/ Drop \/ Flag \/ Clear \/ List \/ Complete
  <2>1. op.step \in Rebuilding /\ op \in Ops /\ UNCHANGED <<file, backup, torn, hurt>>
    BY <1>3 DEF Reset, Replan, Drop, Flag, Clear, List, Complete, Stage, At, NoOp, Rebuilding
  <2>2. op'.step \in Rebuilding
    BY <1>3, <2>1 DEF Reset, Replan, Drop, Flag, Clear, List, Complete, Stage, Then, Ops, Rebuilding
  <2>3. Shown = b /\ Shown' = b
    BY <2>1, <2>2 DEF Shown, Settled, Rest, NoOp, Rebuilding
  <2> QED BY <2>1, <2>3 DEF Plan!pvars, StudiedIn
<1>4. CASE Publish
  <2>1. /\ op \in Ops /\ op.step = "publish" /\ op'.step = "save"
        /\ UNCHANGED <<paper, file, torn, hurt>>
    BY <1>4 DEF Publish, At, Then, NoOp, Ops
  <2>2. Shown = b /\ Shown' = paper
    BY <2>1 DEF Shown, Settled, Rest, NoOp
  <2>3. PICK c \in Concepts : \/ paper.known = b.known \cup {c}
                              \/ paper.known = b.known \ {c}
    BY <2>1, Rebuilt DEF At
  <2>4. StudiedIn(paper) = StudiedIn(b)
    BY <2>1, Rebuilt DEF At
  <2>5. Plan!MarkKnown(c) \/ Plan!UnmarkKnown(c)
    BY <2>1, <2>2, <2>3, <2>4 DEF Plan!MarkKnown, Plan!UnmarkKnown, StudiedIn
  <2> QED BY <2>5 DEF Plan!Next
<1>5. CASE Rollback
  <2>1. Shown = b /\ Shown' = b /\ file' = file /\ UNCHANGED taint
    BY <1>5 DEF Rollback, Shown, Settled, Rest, NoOp, Rebuilding
  <2> QED BY <2>1 DEF Plan!pvars, StudiedIn
<1> QED BY <1>1, <1>2, <1>3, <1>4, <1>5 DEF Rebuild, Mark

\* What saving and restoring do to it.
LEMMA PlanSaves ==
  ASSUME Sound, Refresh \/ RefreshFails \/ Save \/ SaveFails \/ WorkerSave \/ Restore
  PROVE  [Plan!Next]_(Plan!pvars)
<1> USE DEF Sound, TypeOK, taint
<1>1. CASE Refresh \/ RefreshFails \/ SaveFails
  <2>1. Shown = paper /\ Shown' = paper /\ file' = file /\ UNCHANGED taint
    BY <1>1 DEF Refresh, RefreshFails, SaveFails, At, Then, Shown, Settled, Rest, NoOp, Ops
  <2> QED BY <2>1 DEF Plan!pvars, StudiedIn
<1>2. CASE Save \/ (WorkerSave /\ op.step \notin Rebuilding)
  <2>1. /\ Shown = paper /\ Shown' = paper /\ file'.paper = paper
        /\ torn' = FALSE /\ hurt' = hurt
    BY <1>2 DEF Save, WorkerSave, At, Shown, Settled, Rest, Ops, Steps
  <2>2. Plan!Save
    BY <2>1 DEF Plan!Save, StudiedIn
  <2> QED BY <2>2 DEF Plan!Next
<1>3. CASE WorkerSave /\ op.step \in Rebuilding
  <2>1. /\ Shown' = Shown /\ paper \in Papers /\ file'.paper = paper
        /\ torn' = TRUE /\ hurt' = hurt
    BY <1>3 DEF WorkerSave, Shown, Settled, Rest, At
  <2>2. StudiedIn(file'.paper) \in SUBSET Concepts /\ file'.paper.known \in SUBSET Concepts
    BY <2>1 DEF StudiedIn, Papers
  <2>3. Plan!SaveHalfMade
    BY <2>1, <2>2 DEF Plan!SaveHalfMade, Plan!Marks, StudiedIn
  <2> QED BY <2>3 DEF Plan!Next
<1>4. CASE Restore /\ ~torn
  <2>1. /\ Shown' = paper' /\ paper' = Reconciled(file.paper) /\ file' = file
        /\ UNCHANGED taint
    BY <1>4 DEF Restore, Shown, Settled, Rest
  <2>2. StudiedIn(paper)' = StudiedIn(file.paper) /\ paper'.known = file.paper.known
    BY <2>1 DEF Reconciled, Clash, StudiedIn, Papers
  <2>3. Plan!Restore
    BY <1>4, <2>1, <2>2 DEF Plan!Restore, StudiedIn
  <2> QED BY <2>3 DEF Plan!Next
<1>5. CASE Restore /\ torn
  <2>1. Plan!RestoreHalfMade
    BY <1>5 DEF Restore, Plan!RestoreHalfMade, StudiedIn
  <2> QED BY <2>1 DEF Plan!Next
<1> QED BY <1>1, <1>2, <1>3, <1>4, <1>5

\* Every mark, undo, rebuild, failure, save and restore is a step LearnerPlan
\* allows, or none: knowing a concept never changes what was studied, a failed
\* rebuild changes nothing, a restart brings back what was saved.
THEOREM ImplementsLearnerPlan == Spec => PlanSpec
<1>1. IInv /\ [Next]_vars => [Plan!Next]_(Plan!pvars)
  <2> SUFFICES ASSUME IInv, [Next]_vars PROVE [Plan!Next]_(Plan!pvars)
    OBVIOUS
  <2>1. CASE UNCHANGED vars
    BY <2>1 DEF vars, taint, Plan!pvars, Shown, Settled, Rest, StudiedIn
  <2>2. CASE hurt
    <3>1. hurt'
      BY <2>2, TaintNext DEF IInv
    <3> QED BY <2>2, <3>1 DEF Plan!Next
  <2>3. CASE ~hurt /\ ~UNCHANGED vars
    <3>1. Sound
      BY <2>3 DEF IInv
    <3> QED BY <2>3, <3>1, PlanMarks, PlanSaves DEF Next
  <2> QED BY <2>1, <2>2, <2>3
<1> QED BY <1>1, PlanInit, Invariant, PTL DEF Spec, PlanSpec, Plan!Spec
-----------------------------------------------------------------------------
(* The report agrees with the plan.  A mark that changes progress renews   *)
(* only the progress sections, so the others must have agreed all along,   *)
(* in memory, in the copies and in the file, even while progress is stale. *)

\* The sections that a refresh leaves alone.
Shows(r, p) == r.known = p.known /\ r.plan = p.plan

ReportInv ==
  ~hurt =>
    /\ Settled => Shows(report, paper)
    /\ op.step \in Rebuilding =>
         /\ Shows(backup.report, backup.paper)
         /\ ~stale => backup.report = Generated(backup.paper)
    /\ ~torn => Shows(file.report, file.paper)
    /\ ReportAgrees

\* A refresh of a report whose other sections agree makes it the paper's.
LEMMA RefreshedShows ==
  ASSUME NEW r \in Reports, NEW p \in Papers, Shows(r, p)
  PROVE  Refreshed(r, p) = Generated(p)
<1> DEFINE f == Refreshed(r, p)
<1>1. f = [known |-> f.known, plan |-> f.plan, listed |-> f.listed, done |-> f.done]
  <2>1. f \in Reports
    BY GeneratedType
  <2> HIDE DEF f
  <2> QED BY <2>1 DEF Reports
<1>2. f.known = r.known /\ f.plan = r.plan /\ f.listed = p.listed /\ f.done = p.done
  BY DEF Reports, Refreshed
<1> HIDE DEF f
<1>3. f = Generated(p)
  BY <1>1, <1>2 DEF Shows, Generated
<1> QED BY <1>3 DEF f

LEMMA GeneratedShows ==
  ASSUME NEW r, NEW p \in Papers, r = Generated(p)
  PROVE  Shows(r, p)
BY DEF Generated, Shows

\* What a restore brings back: the sections it does not repair agree, and all
\* of them do unless it says otherwise.
LEMMA RestoredShows ==
  ASSUME NEW f \in [paper : Papers, report : Reports], Shows(f.report, f.paper),
         NEW r \in RestoredReports(f)
  PROVE  /\ Shows(r, Reconciled(f.paper))
         /\ ~Behind(f, r) => r = Generated(Reconciled(f.paper))
<1>1. /\ f.paper \in Papers /\ f.report \in Reports
      /\ Reconciled(f.paper).known = f.paper.known /\ Reconciled(f.paper).plan = f.paper.plan
      /\ Reconciled(f.paper) \in Papers
  BY DEF Papers, Reconciled, Clash
<1>2. CASE Clash(f.paper) = {}
  <2>1. r = f.report
    BY <1>2 DEF RestoredReports
  <2>2. Generated(Reconciled(f.paper)) = Generated(f.paper)
    BY <1>1, <1>2 DEF Papers, Reconciled, Generated
  <2> QED BY <1>1, <2>1, <2>2 DEF Shows, Behind
<1>3. CASE Clash(f.paper) # {}
  <2>1. r = f.report \/ r = Refreshed(f.report, Reconciled(f.paper))
    BY <1>3 DEF RestoredReports
  <2>2. Shows(f.report, Reconciled(f.paper))
    BY <1>1 DEF Shows
  <2>3. Refreshed(f.report, Reconciled(f.paper)) = Generated(Reconciled(f.paper))
    BY <1>1, <2>2, RefreshedShows
  <2>4. Shows(Refreshed(f.report, Reconciled(f.paper)), Reconciled(f.paper))
    BY <1>1, <2>3, GeneratedShows
  <2> QED BY <1>3, <2>1, <2>2, <2>3, <2>4 DEF Behind
<1> QED BY <1>2, <1>3

LEMMA ReportInit == Init => ReportInv
<1> SUFFICES ASSUME Init PROVE ReportInv
  OBVIOUS
<1>1. file \in [paper : Papers, report : Reports] /\ paper \in Papers
  BY TypeInit DEF TypeOK
<1>2. Shows(file.report, file.paper)
  <2>1. file.report = Generated(file.paper)
    BY DEF Init
  <2> QED BY <1>1, <2>1, GeneratedShows
<1>3. PICK r \in RestoredReports(file) : report = r /\ stale = Behind(file, r)
  BY DEF Init
<1>4. /\ Shows(r, Reconciled(file.paper))
      /\ ~Behind(file, r) => r = Generated(Reconciled(file.paper))
  BY <1>1, <1>2, RestoredShows
<1>5. op = NoOp /\ paper = Reconciled(file.paper)
  BY DEF Init
<1> QED BY <1>2, <1>3, <1>4, <1>5 DEF ReportInv, ReportAgrees, NoOp, Rebuilding

\* Every step keeps the sections in agreement.
LEMMA ReportNext == IInv /\ ReportInv /\ [Next]_vars => ReportInv'
<1> SUFFICES ASSUME IInv, ReportInv, [Next]_vars, ~hurt' PROVE ReportInv'
  BY DEF ReportInv
<1> USE DEF taint
<1>a. ~hurt /\ (Restore => ~torn) /\ TypeOK
  BY TaintNext DEF IInv
<1>0. /\ paper \in Papers /\ report \in Reports /\ file \in [paper : Papers, report : Reports]
      /\ ~torn => Shows(file.report, file.paper)
  BY <1>a DEF TypeOK, ReportInv
<1>1. CASE \E c \in Concepts : Mark(c)
  <2>1. PICK c \in Concepts : Mark(c)
    BY <1>1
  <2>2. Rest /\ file' = file /\ torn' = torn /\ stale' = stale /\ report' = report
    BY <2>1 DEF Mark, SetStudied, MarkKnown, UnmarkKnown
  <2>3. Shows(report, paper) /\ (~stale => report = Generated(paper))
    BY <1>a, <2>2 DEF ReportInv, ReportAgrees, Settled
  <2>4. CASE SetStudied(c)
    <3>1. op'.step = "refresh" /\ paper'.known = paper.known /\ paper'.plan = paper.plan
      BY <1>0, <2>4 DEF SetStudied, Papers
    <3>2. op' # NoOp
      BY <3>1 DEF NoOp
    <3> QED BY <1>0, <2>2, <2>3, <3>1, <3>2 DEF ReportInv, ReportAgrees, Rest, At, Rebuilding, Shows
  <2>5. CASE MarkKnown(c) \/ UnmarkKnown(c)
    <3>1. op'.step \in {"drop", "reset"} /\ backup' = [paper |-> paper, report |-> report]
      BY <2>5 DEF MarkKnown, UnmarkKnown
    <3>2. ~Settled' /\ ~Rest' /\ ~At("save")'
      BY <3>1 DEF Settled, Rest, NoOp, At
    <3> QED BY <1>0, <2>2, <2>3, <3>1, <3>2 DEF ReportInv, ReportAgrees, Shows
  <2> QED BY <2>1, <2>4, <2>5 DEF Mark
<1>2. CASE Reset \/ Replan \/ Drop \/ Flag \/ Clear \/ List \/ Complete
  <2>1. /\ op.step \in Rebuilding /\ op'.step \in Rebuilding
        /\ UNCHANGED <<report, file, backup, stale, torn, hurt>>
    BY <1>a, <1>2 DEF Reset, Replan, Drop, Flag, Clear, List, Complete, Stage, At, Then, TypeOK, Ops,
      NoOp, Rebuilding
  <2>2. ~Settled' /\ ~Rest' /\ ~At("save")'
    BY <2>1 DEF Settled, Rest, NoOp, At, Rebuilding
  <2> QED BY <2>1, <2>2 DEF ReportInv, ReportAgrees
<1>3. CASE Publish
  <2>1. /\ report' = Generated(paper) /\ paper' = paper /\ file' = file /\ torn' = torn
        /\ op'.step = "save"
    BY <1>3 DEF Publish, At, Then, TypeOK, Ops, NoOp
  <2>2. Shows(report', paper')
    BY <1>0, <2>1, GeneratedShows
  <2> QED BY <1>0, <2>1, <2>2 DEF ReportInv, ReportAgrees, Rebuilding, Generated
<1>4. CASE Rollback
  <2>1. /\ paper' = backup.paper /\ report' = backup.report /\ op' = NoOp
        /\ file' = file /\ torn' = torn /\ stale' = stale
        /\ Shows(backup.report, backup.paper) /\ (~stale => backup.report = Generated(backup.paper))
    BY <1>4 DEF Rollback, ReportInv
  <2> QED BY <1>0, <2>1 DEF ReportInv, ReportAgrees, NoOp, Rebuilding, Shows, Generated
<1>5. CASE Refresh
  <2>1. /\ report' = Refreshed(report, paper) /\ paper' = paper /\ file' = file /\ torn' = torn
        /\ op'.step = "save" /\ Shows(report, paper)
    BY <1>5 DEF Refresh, At, Then, TypeOK, Ops, NoOp, ReportInv, Settled
  <2>2. report' = Generated(paper') /\ Shows(report', paper')
    BY <1>0, <2>1, RefreshedShows, GeneratedShows
  <2> QED BY <1>0, <2>1, <2>2 DEF ReportInv, ReportAgrees, Rebuilding, Generated
<1>6. CASE RefreshFails
  <2>1. /\ Shows(report, paper) /\ op' = NoOp /\ stale' = TRUE
        /\ UNCHANGED <<paper, report, file, torn>>
    BY <1>a, <1>6 DEF RefreshFails, At, ReportInv, Settled
  <2> QED BY <1>0, <2>1 DEF ReportInv, ReportAgrees, NoOp, Rebuilding, Shows
<1>7. CASE Save \/ SaveFails
  <2>1. /\ Shows(report, paper) /\ (~stale => report = Generated(paper))
        /\ op' = NoOp /\ UNCHANGED <<paper, report, stale>>
    BY <1>a, <1>7 DEF Save, SaveFails, At, ReportInv, ReportAgrees, Settled
  <2>2. ~torn' => Shows(file'.report, file'.paper)
    BY <1>0, <1>7, <2>1 DEF Save, SaveFails
  <2> QED BY <2>1, <2>2 DEF ReportInv, ReportAgrees, NoOp, Rebuilding, Shows, Generated
<1>8. CASE WorkerSave
  <2>1. /\ UNCHANGED <<paper, report, backup, op, stale>>
        /\ file' = [paper |-> paper, report |-> report]
        /\ ~torn' => op.step \notin Rebuilding
    BY <1>8 DEF WorkerSave
  <2>2. op.step \notin Rebuilding => Shows(report, paper)
    BY <1>a DEF ReportInv, Settled, Rest, TypeOK, Ops, Steps
  <2>3. ~torn' => Shows(file'.report, file'.paper)
    BY <2>1, <2>2
  <2>4. Settled' = Settled /\ Rest' = Rest /\ At("save")' = At("save")
    BY <2>1 DEF Settled, Rest, At
  <2> QED BY <1>a, <2>1, <2>3, <2>4 DEF ReportInv, ReportAgrees, Shows, Generated
<1>9. CASE Restore
  <2>1. PICK r \in RestoredReports(file) : report' = r /\ stale' = Behind(file, r)
    BY <1>9 DEF Restore
  <2>2. /\ Shows(r, Reconciled(file.paper))
        /\ ~Behind(file, r) => r = Generated(Reconciled(file.paper))
    BY <1>0, <1>a, <1>9, RestoredShows
  <2>3. op' = NoOp /\ paper' = Reconciled(file.paper) /\ file' = file /\ torn' = torn
    BY <1>9 DEF Restore
  <2> QED BY <1>0, <2>1, <2>2, <2>3 DEF ReportInv, ReportAgrees, NoOp, Rebuilding
<1>10. CASE UNCHANGED vars
  BY <1>10 DEF vars, ReportInv, ReportAgrees, Settled, Rest, At, Shows, Generated
<1> QED BY <1>1, <1>2, <1>3, <1>4, <1>5, <1>6, <1>7, <1>8, <1>9, <1>10 DEF Next, Rebuild

\* After every published change the report shows the plan, unless a refresh
\* failed (_refresh_progress, _personalize) or a plan saved half-made was read
\* back.
THEOREM ReportFollows == Spec => []ReportAgrees
<1>1. ReportInv => ReportAgrees
  BY DEF ReportInv, ReportAgrees
<1> QED BY <1>1, Invariant, ReportInit, ReportNext, PTL DEF Spec
=============================================================================
