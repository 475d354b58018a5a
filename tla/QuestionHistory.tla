-------------------------- MODULE QuestionHistory ---------------------------
(***************************************************************************)
(* The questions of one session (POST /api/session/{id}/question and       *)
(* InteractiveLearningPipeline.answer): what each adds to the session, and *)
(* how a failed one is taken back, while others run on other threads.      *)
(*                                                                         *)
(* Every question takes a copy of the session's fields first and, when a   *)
(* stage fails, puts that copy back, over whatever others did meanwhile.   *)
(* The marks of concepts, on the event loop, save the same session at any  *)
(* moment.  A save may fail: the question is then answered with a warning. *)
(* That the shared flag behind the warning can mislead is modelled in      *)
(* SessionStore; here a question knows how its own save went.              *)
(*                                                                         *)
(* The session has its paper.  The history is the set of its turns: they   *)
(* are only appended, or put back in the order they had.  What the answers *)
(* say, and the gaps and recommendations, which are made from quiz turns   *)
(* that nothing adds, are left out.                                        *)
(***************************************************************************)
EXTENDS Naturals, FiniteSets

CONSTANTS
  Questions,
  Workers,   \* threads that serve the session's questions
  None

ASSUME NoneAssumption == None \notin Questions

VARIABLES
  session,  \* the session in memory
  file,     \* the session as last saved
  run,      \* the step of each question
  before,   \* the copy each question took of the session
  over,     \* history: the questions in progress at some time of each
  spilled   \* history: the questions in progress at some save by a mark

vars == <<session, file, run, before, over, spilled>>

-----------------------------------------------------------------------------
Question(q) == <<"question", q>>
Answer(q)   == <<"answer", q>>
Turns == {"question", "answer"} \X Questions

\* history: conversation_history; marked: the questions whose turn says it is
\* answered; active, context: who last set active_concept and current_context;
\* memory: whose workflows workflow_memory lists.
Sessions == [history : SUBSET Turns, marked : SUBSET Questions,
             active : Questions \cup {None}, context : Questions \cup {None},
             memory : SUBSET Questions]

New == [history |-> {}, marked |-> {}, active |-> None, context |-> None, memory |-> {}]

Asking     == {"plan", "work", "tutor", "mark", "append", "assess"}
InProgress == Asking \cup {"save", "fields", "turns"}
\* "warned": answered, with the warning that the file could not be written;
\* "lost": warned, and the server has restarted since.
Points     == InProgress \cup {"new", "answered", "warned", "lost", "failed", "killed"}

At(q, s)   == run[q] = s
Then(q, s) == run' = [run EXCEPT ![q] = s]
Running    == {q \in Questions : run[q] \in InProgress}

-----------------------------------------------------------------------------
\* The copy is taken; list() and deepcopy() keep it apart from the session,
\* but for the turns themselves.
Start(q) ==
  /\ At(q, "new") /\ Cardinality(Running) < Workers
  /\ before' = [before EXCEPT ![q] = session]
  /\ over' = [p \in Questions |-> IF p = q THEN Running
                                 ELSE IF p \in Running THEN over[p] \cup {q} ELSE over[p]]
  /\ Then(q, "plan")
  /\ UNCHANGED <<session, file, spilled>>

\* QuestionManager.ask, with a topic or without.
Ask(q) ==
  /\ At(q, "plan")
  /\ \E a \in {session.active, q} :
       session' = [session EXCEPT !.active = a, !.history = @ \cup {Question(q)}]
  /\ Then(q, "work")
  /\ UNCHANGED <<file, before, over, spilled>>

\* Mutant: the context remembers its turn, not its question.
MutantRetrieve(q) ==
  /\ At(q, "work")
  /\ session' = [session EXCEPT !.context = Question(q)]
  /\ Then(q, "tutor")
  /\ UNCHANGED <<file, before, over, spilled>>

\* A workflow fetches the context of its question; it may have no reply of its
\* own, and the tutor then answers from that context.
Retrieve(q) ==
  /\ At(q, "work")
  /\ session' = [session EXCEPT !.context = q]
  /\ Then(q, "tutor")
  /\ UNCHANGED <<file, before, over, spilled>>

\* The workflow replied; there may be another one.
Remember(q) ==
  /\ run[q] \in {"work", "tutor"}
  /\ session' = [session EXCEPT !.memory = @ \cup {q}]
  /\ \E s \in {"work", "mark"} : Then(q, s)
  /\ UNCHANGED <<file, before, over, spilled>>

\* Mutant: the question object is marked, its turn is not.
MutantMark(q) ==
  /\ At(q, "mark")
  /\ Then(q, "append")
  /\ UNCHANGED <<session, file, before, over, spilled>>

\* _record_answer: its question's turn is looked for and marked,
Mark(q) ==
  /\ At(q, "mark")
  /\ session' = IF Question(q) \in session.history
                THEN [session EXCEPT !.marked = @ \cup {q}] ELSE session
  /\ Then(q, "append")
  /\ UNCHANGED <<file, before, over, spilled>>

\* and the answer is added.
Append(q) ==
  /\ At(q, "append")
  /\ session' = [session EXCEPT !.history = @ \cup {Answer(q)}]
  /\ Then(q, "assess")
  /\ UNCHANGED <<file, before, over, spilled>>

Assess(q) ==
  /\ At(q, "assess")
  /\ Then(q, "save")
  /\ UNCHANGED <<session, file, before, over, spilled>>

Save(q) ==
  /\ At(q, "save")
  /\ file' = session
  /\ Then(q, "answered")
  /\ before' = [before EXCEPT ![q] = New]
  /\ UNCHANGED <<session, over, spilled>>

\* The file cannot be written: the one before stays, and the answer says so.
SaveFails(q) ==
  /\ At(q, "save")
  /\ Then(q, "warned")
  /\ before' = [before EXCEPT ![q] = New]
  /\ UNCHANGED <<session, file, over, spilled>>

\* A mark on the event loop saves the session, whatever is in it by now.
MarkSave ==
  /\ file' = session
  /\ spilled' = spilled \cup Running
  /\ UNCHANGED <<session, run, before, over>>

\* Mutant: a failure after the answer was recorded takes nothing back.
MutantFail(q) ==
  /\ run[q] \in Asking
  /\ Then(q, IF run[q] = "assess" THEN "failed" ELSE "fields")
  /\ UNCHANGED <<session, file, before, over, spilled>>

Fail(q) ==
  /\ run[q] \in Asking
  /\ Then(q, "fields")
  /\ UNCHANGED <<session, file, before, over, spilled>>

\* Mutant: the copy of the workflow memory was the memory itself.
MutantPutBack(q) ==
  /\ At(q, "fields")
  /\ session' = [session EXCEPT !.active = before[q].active, !.context = before[q].context]
  /\ Then(q, "turns")
  /\ UNCHANGED <<file, before, over, spilled>>

\* The fields are put back, then the turns.
PutBack(q) ==
  /\ At(q, "fields")
  /\ session' = [session EXCEPT !.active = before[q].active, !.context = before[q].context,
                                !.memory = before[q].memory]
  /\ Then(q, "turns")
  /\ UNCHANGED <<file, before, over, spilled>>

PutTurnsBack(q) ==
  /\ At(q, "turns")
  /\ session' = [session EXCEPT !.history = before[q].history]
  /\ Then(q, "failed")
  /\ before' = [before EXCEPT ![q] = New]
  /\ UNCHANGED <<file, over, spilled>>

\* The server restarts: the session comes back as it was saved.
Restart ==
  /\ session' = file
  /\ run' = [q \in Questions |-> IF q \in Running THEN "killed"
                                 ELSE IF At(q, "warned") THEN "lost" ELSE run[q]]
  /\ before' = [q \in Questions |-> New]
  /\ UNCHANGED <<file, over, spilled>>

Init ==
  /\ session = New /\ file = New
  /\ run = [q \in Questions |-> "new"]
  /\ before = [q \in Questions |-> New]
  /\ over = [q \in Questions |-> {}]
  /\ spilled = {}

Next ==
  \/ \E q \in Questions :
       \/ Start(q) \/ Ask(q) \/ Retrieve(q) \/ Remember(q) \/ Mark(q) \/ Append(q)
       \/ Assess(q) \/ Save(q) \/ SaveFails(q) \/ Fail(q) \/ PutBack(q) \/ PutTurnsBack(q)
  \/ MarkSave
  \/ Restart

Spec == Init /\ [][Next]_vars

-----------------------------------------------------------------------------
(* What must hold.                                                         *)

\* Every variable has its type.
TypeOK ==
  /\ session \in Sessions /\ file \in Sessions
  /\ run \in [Questions -> Points]
  /\ before \in [Questions -> Sessions]
  /\ over \in [Questions -> SUBSET Questions] /\ spilled \in SUBSET Questions

\* A question that failed while this one was in progress may have put back a
\* history without it.
Disturbed(q) == \E p \in over[q] : run[p] = "failed"

\* q's turn, marked as answered, and its answer are in s.
Recorded(q, s) ==
  {Question(q), Answer(q)} \subseteq s.history /\ q \in s.marked

\* An answered question shows its answer (_record_answer), whatever other
\* questions do before, after and meanwhile, but for one that fails meanwhile:
\* in memory and in the file when its save succeeded, through any restart; in
\* memory until the server restarts when it was answered with a warning.
TurnsKept ==
  \A q \in Questions :
     /\ run[q] = "answered" => Disturbed(q) \/ (Recorded(q, session) /\ Recorded(q, file))
     /\ run[q] = "warned"   => Disturbed(q) \/ Recorded(q, session)

\* "A failed question leaves no trace": no turn of it shows up again, in memory
\* or after a restart, unless other questions ran at the same time or a mark
\* saved the session meanwhile.
NoGhost ==
  \A q \in Questions \ spilled :
     run[q] \in {"failed", "killed"} /\ over[q] = {} =>
       {Question(q), Answer(q)} \cap (session.history \cup file.history) = {}

\* A question that fails on its own leaves every field it may have changed as
\* it found it (InteractiveLearningPipeline.answer).
LeavesNoTrace ==
  [][\A q \in Questions :
       run[q] = "turns" /\ run'[q] = "failed" /\ over[q] = {} =>
         /\ session'.history = before[q].history /\ session'.active = before[q].active
         /\ session'.context = before[q].context /\ session'.memory = before[q].memory
         /\ \A p \in Questions : Question(p) \in session'.history =>
              (p \in session'.marked <=> p \in before[q].marked)]_vars
=============================================================================
