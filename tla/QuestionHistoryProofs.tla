----------------------- MODULE QuestionHistoryProofs ------------------------
(***************************************************************************)
(* For any number of questions and of threads: no turn of an answered      *)
(* question is lost unless a question that overlapped it failed, and a     *)
(* question that failed with no other question, and no save by a mark,     *)
(* beside it left no trace.                                                *)
(*                                                                         *)
(* Neither is inductive alone: what a failing question puts back is its    *)
(* copy, so the invariant also says what the copies hold.  CopyInv: the    *)
(* copy of a question in progress has the turns of every answered question *)
(* that did not overlap it.  TraceInv: while a question runs alone, only   *)
(* its own changes tell the session from its copy.                         *)
(***************************************************************************)
EXTENDS QuestionHistory, TLAPS

-----------------------------------------------------------------------------
(* The inductive invariant.                                                *)

\* Two questions in progress overlap, and know it.
OverInv ==
  /\ \A p, q \in Running : p # q => p \in over[q]
  /\ \A q \in Questions : run[q] = "new" => over[q] = {}

\* What a question has added so far is there.
Kept(q) ==
  /\ run[q] \in {"work", "tutor", "mark", "append"} => Question(q) \in session.history
  /\ run[q] = "append" => q \in session.marked
  /\ run[q] \in {"assess", "save", "answered", "warned"} => Recorded(q, session)
  /\ run[q] = "answered" => Recorded(q, file)

KeptInv == \A q \in Questions : Disturbed(q) \/ Kept(q)

CopyInv ==
  \A p, q \in Questions :
    run[p] \in InProgress /\ run[q] \in {"answered", "warned"} =>
      \/ Disturbed(q) \/ p \in over[q]
      \/ {Question(q), Answer(q)} \subseteq before[p].history

\* s has no turn of q.
Without(q, s) == Question(q) \notin s.history /\ Answer(q) \notin s.history

\* q runs and no other question ran since it started.
Alone(q) == run[q] \in InProgress /\ over[q] = {}

\* q has not started, or it failed, or was killed, alone and with no mark's
\* save meanwhile.
Gone(q) == \/ run[q] = "new"
           \/ run[q] \in {"failed", "killed"} /\ over[q] = {} /\ q \notin spilled

GhostInv ==
  \A q \in Questions :
    /\ Gone(q) => /\ Without(q, session) /\ Without(q, file)
                  /\ \A p \in Questions : run[p] \in InProgress => Without(q, before[p])
    /\ Alone(q) => (q \in spilled \/ Without(q, file)) /\ Without(q, before[q])

TraceInv ==
  \A q \in Questions : Alone(q) =>
    /\ \A p \in Questions \ {q} : p \in session.marked <=> p \in before[q].marked
    /\ run[q] = "turns" => /\ session.active = before[q].active
                           /\ session.context = before[q].context
                           /\ session.memory = before[q].memory

IInv == TypeOK /\ OverInv /\ KeptInv /\ CopyInv /\ GhostInv /\ TraceInv

\* What the steps of one question do.
Moves(q) ==
  \/ Start(q) \/ Ask(q) \/ Retrieve(q) \/ Remember(q) \/ Mark(q) \/ Append(q)
  \/ Assess(q) \/ Save(q) \/ SaveFails(q) \/ Fail(q) \/ PutBack(q) \/ PutTurnsBack(q)

-----------------------------------------------------------------------------
(* Types.                                                                  *)

\* Turns of different kinds or of different questions differ.
LEMMA TurnsDiffer ==
  \A p, q \in Questions : /\ Question(p) # Answer(q)
                          /\ Question(p) = Question(q) => p = q
                          /\ Answer(p) = Answer(q) => p = q
                          /\ Question(p) \in Turns /\ Answer(p) \in Turns
BY DEF Question, Answer, Turns

LEMMA TypeInit == Init => TypeOK
BY DEF Init, TypeOK, New, Sessions, Points

LEMMA TypeNext == TypeOK /\ [Next]_vars => TypeOK'
<1> SUFFICES ASSUME TypeOK, [Next]_vars PROVE TypeOK'
  OBVIOUS
<1> USE DEF TypeOK, At, Then
<1>1. New \in Sessions
  BY DEF New, Sessions
<1>2. ASSUME NEW q \in Questions, Start(q) PROVE TypeOK'
  BY <1>2 DEF Start, Running, Points, InProgress, Asking
<1>3. ASSUME NEW q \in Questions, Ask(q) PROVE TypeOK'
  <2>1. session' \in Sessions
    <3>1. PICK a \in {session.active, q} :
            session' = [session EXCEPT !.active = a, !.history = @ \cup {Question(q)}]
      BY <1>3 DEF Ask
    <3>2. a \in Questions \cup {None} /\ session.history \cup {Question(q)} \in SUBSET Turns
      BY <3>1, TurnsDiffer DEF Sessions
    <3> QED BY <3>1, <3>2 DEF Sessions
  <2>2. run' = [run EXCEPT ![q] = "work"] /\ UNCHANGED <<file, before, over, spilled>>
    BY <1>3 DEF Ask
  <2> QED BY <2>1, <2>2 DEF Points, InProgress, Asking
<1>4. ASSUME NEW q \in Questions, Retrieve(q) \/ Remember(q) \/ Mark(q) \/ Append(q)
      PROVE TypeOK'
  <2>1. session' \in Sessions
    BY <1>4, TurnsDiffer DEF Retrieve, Remember, Mark, Append, Sessions
  <2>2. run' \in [Questions -> Points]
    BY <1>4 DEF Retrieve, Remember, Mark, Append, Points, InProgress, Asking
  <2> QED BY <1>4, <2>1, <2>2 DEF Retrieve, Remember, Mark, Append
<1>5. ASSUME NEW q \in Questions, Assess(q) \/ Save(q) \/ SaveFails(q) \/ Fail(q) PROVE TypeOK'
  BY <1>1, <1>5 DEF Assess, Save, SaveFails, Fail, Points, InProgress, Asking
<1>6. ASSUME NEW q \in Questions, PutBack(q) \/ PutTurnsBack(q) PROVE TypeOK'
  <2>1. session' \in Sessions
    BY <1>6 DEF PutBack, PutTurnsBack, Sessions
  <2> QED BY <1>1, <1>6, <2>1 DEF PutBack, PutTurnsBack, Points, InProgress, Asking
<1>7. CASE MarkSave \/ Restart
  BY <1>1, <1>7 DEF MarkSave, Restart, Points, Running
<1>8. CASE UNCHANGED vars
  BY <1>8 DEF vars
<1> QED BY <1>2, <1>3, <1>4, <1>5, <1>6, <1>7, <1>8 DEF Next

\* Every variable of QuestionHistory always has its type.
THEOREM TypeCorrect == Spec => []TypeOK
BY TypeInit, TypeNext, PTL DEF Spec

-----------------------------------------------------------------------------
(* What every step does to what is in progress.                            *)

\* A question that is disturbed stays so.
LEMMA DisturbedStays ==
  ASSUME TypeOK, OverInv, [Next]_vars, NEW q \in Questions, Disturbed(q)
  PROVE  Disturbed(q)'
<1>1. PICK p \in over[q] : run[p] = "failed"
  BY DEF Disturbed
<1>2. p \in over'[q] /\ p \in Questions
  <2>1. CASE \E r \in Questions : Start(r)
    BY <1>1, <2>1 DEF Start, At, TypeOK, OverInv, Running, InProgress, Asking
  <2>2. CASE ~\E r \in Questions : Start(r)
    BY <1>1, <2>2 DEF Next, vars, TypeOK, Ask, Retrieve, Remember, Mark, Append, Assess, Save,
      SaveFails, Fail, PutBack, PutTurnsBack, MarkSave, Restart
  <2> QED BY <2>1, <2>2
<1>3. run'[p] = "failed"
  BY <1>1, <1>2 DEF Next, vars, TypeOK, At, Then, Start, Ask, Retrieve, Remember, Mark, Append,
    Assess, Save, SaveFails, Fail, PutBack, PutTurnsBack, MarkSave, Restart, Running, InProgress, Asking
<1> QED BY <1>2, <1>3 DEF Disturbed

\* Questions in progress overlap.
LEMMA OverNext == TypeOK /\ OverInv /\ [Next]_vars => OverInv'
<1> SUFFICES ASSUME TypeOK, OverInv, [Next]_vars PROVE OverInv'
  OBVIOUS
<1> USE DEF TypeOK, Running, InProgress, Asking
<1>1. CASE \E r \in Questions : Start(r)
  <2>1. PICK r \in Questions : Start(r)
    BY <1>1
  <2>2. /\ run' = [run EXCEPT ![r] = "plan"] /\ run[r] = "new"
        /\ \A q \in Questions :
             over'[q] = IF q = r THEN Running
                        ELSE IF q \in Running THEN over[q] \cup {r} ELSE over[q]
    BY <2>1 DEF Start, At, Then
  <2> QED BY <2>2 DEF OverInv
<1>2. CASE ~\E r \in Questions : Start(r)
  <2>1. /\ over' = over
        /\ \A q \in Questions : /\ run'[q] \in InProgress => run[q] \in InProgress
                                /\ run'[q] = "new" => run[q] = "new"
    BY <1>2 DEF Next, vars, At, Then, Ask, Retrieve, Remember, Mark, Append, Assess, Save,
      SaveFails, Fail, PutBack, PutTurnsBack, MarkSave, Restart
  <2> QED BY <2>1 DEF OverInv
<1> QED BY <1>1, <1>2

-----------------------------------------------------------------------------
(* Turns are kept.                                                         *)

\* What a step does to the turns of the question it is not about.
LEMMA OtherTurns ==
  ASSUME TypeOK, NEW r \in Questions, Moves(r), ~PutTurnsBack(r), NEW q \in Questions \ {r}
  PROVE  /\ Question(q) \in session'.history <=> Question(q) \in session.history
         /\ Answer(q) \in session'.history <=> Answer(q) \in session.history
         /\ q \in session'.marked <=> q \in session.marked
         /\ run'[q] = run[q]
<1> USE TurnsDiffer DEF TypeOK, Sessions, At, Then
<1>1. CASE Start(r) \/ Assess(r) \/ Save(r) \/ SaveFails(r) \/ Fail(r)
  BY <1>1 DEF Start, Assess, Save, SaveFails, Fail
<1>2. CASE Ask(r)
  <2>1. session'.history = session.history \cup {Question(r)} /\ session'.marked = session.marked
    BY <1>2 DEF Ask
  <2> QED BY <1>2, <2>1 DEF Ask
<1>3. CASE Retrieve(r) \/ Remember(r) \/ PutBack(r)
  <2>1. session'.history = session.history /\ session'.marked = session.marked
    BY <1>3 DEF Retrieve, Remember, PutBack
  <2> QED BY <1>3, <2>1 DEF Retrieve, Remember, PutBack
<1>4. CASE Mark(r) \/ Append(r)
  <2>1. /\ session'.history \in {session.history, session.history \cup {Answer(r)}}
        /\ session'.marked \in {session.marked, session.marked \cup {r}}
    BY <1>4 DEF Mark, Append
  <2> QED BY <1>4, <2>1 DEF Mark, Append
<1> QED BY <1>1, <1>2, <1>3, <1>4 DEF Moves

\* What a question adds itself.
LEMMA OwnTurns ==
  ASSUME TypeOK, NEW q \in Questions, Moves(q), ~PutTurnsBack(q), ~Start(q), ~Ask(q)
  PROVE  /\ Question(q) \in session.history => Question(q) \in session'.history
         /\ Answer(q) \in session.history => Answer(q) \in session'.history
         /\ q \in session.marked => q \in session'.marked
         /\ Mark(q) /\ Question(q) \in session.history => q \in session'.marked
         /\ Append(q) => Answer(q) \in session'.history
<1> USE DEF TypeOK, Sessions
<1>1. CASE Retrieve(q) \/ Remember(q) \/ PutBack(q) \/ Assess(q) \/ Save(q) \/ SaveFails(q) \/ Fail(q)
  <2>1. session'.history = session.history /\ session'.marked = session.marked
    BY <1>1 DEF Retrieve, Remember, PutBack, Assess, Save, SaveFails, Fail
  <2>2. ~Mark(q) /\ ~Append(q)
    BY <1>1 DEF Retrieve, Remember, PutBack, Assess, Save, SaveFails, Fail, Mark, Append, At, Asking, Then
  <2> QED BY <2>1, <2>2
<1>2. CASE Mark(q)
  <2>1. ~Append(q)
    BY <1>2 DEF Mark, Append, At
  <2> QED BY <1>2, <2>1 DEF Mark
<1>3. CASE Append(q)
  <2>1. ~Mark(q)
    BY <1>3 DEF Mark, Append, At
  <2> QED BY <1>3, <2>1 DEF Append
<1> QED BY <1>1, <1>2, <1>3 DEF Moves

\* Turns of a question stay unless a failing one that overlapped it goes back.
LEMMA KeptNext == IInv /\ [Next]_vars => KeptInv'
<1> SUFFICES ASSUME IInv, [Next]_vars, NEW q \in Questions, ~Disturbed(q)'
             PROVE  Kept(q)'
  BY DEF KeptInv
<1>1. Kept(q)
  BY DisturbedStays DEF IInv, KeptInv
<1>2. ASSUME NEW r \in Questions, PutTurnsBack(r) PROVE Kept(q)'
  <2>1. /\ run[r] = "turns" /\ run' = [run EXCEPT ![r] = "failed"] /\ over' = over
        /\ session' = [session EXCEPT !.history = before[r].history] /\ file' = file
    BY <1>2 DEF PutTurnsBack, At, Then
  <2>2. CASE r = q
    BY <2>1, <2>2 DEF Kept, IInv, TypeOK
  <2>3. CASE r # q
    <3>1. run'[q] = run[q] /\ run'[r] = "failed" /\ r \in Running
      BY <2>1, <2>3 DEF IInv, TypeOK, Running, InProgress
    <3>2. r \notin over[q]
      BY <2>1, <3>1 DEF Disturbed
    <3>3. q \notin Running
      BY <2>3, <3>1, <3>2 DEF IInv, OverInv
    <3>4. CASE run[q] \in {"answered", "warned"}
      <4>1. {Question(q), Answer(q)} \subseteq before[r].history
        BY <2>1, <3>2, <3>4, DisturbedStays DEF IInv, CopyInv, InProgress
      <4>2. session'.history = before[r].history /\ session'.marked = session.marked
        BY <2>1 DEF IInv, TypeOK, Sessions
      <4> QED BY <1>1, <2>1, <3>1, <3>4, <4>1, <4>2 DEF Kept, Recorded
    <3>5. CASE run[q] \notin {"answered", "warned"}
      BY <3>1, <3>3, <3>5 DEF Kept, Running, InProgress, Asking
    <3> QED BY <3>4, <3>5
  <2> QED BY <2>2, <2>3
<1>3. ASSUME NEW r \in Questions \ {q}, Moves(r), ~PutTurnsBack(r) PROVE Kept(q)'
  <2>1. /\ Question(q) \in session'.history <=> Question(q) \in session.history
        /\ Answer(q) \in session'.history <=> Answer(q) \in session.history
        /\ q \in session'.marked <=> q \in session.marked
        /\ run'[q] = run[q]
    BY <1>3, OtherTurns DEF IInv
  <2>2. file' \in {file, session}
    BY <1>3 DEF Moves, Start, Ask, Retrieve, Remember, Mark, Append, Assess, Save, SaveFails, Fail, PutBack
  <2> QED BY <1>1, <2>1, <2>2 DEF Kept, Recorded
<1>4. ASSUME Start(q) \/ Ask(q) PROVE Kept(q)'
  <2>1. CASE Start(q)
    BY <2>1 DEF Start, Then, Kept, IInv, TypeOK
  <2>2. CASE Ask(q)
    <3>1. Question(q) \in session'.history
      BY <2>2 DEF Ask, IInv, TypeOK, Sessions
    <3> QED BY <2>2, <3>1 DEF Ask, Then, Kept, IInv, TypeOK
  <2> QED BY <1>4, <2>1, <2>2
<1>5. ASSUME Moves(q), ~PutTurnsBack(q), ~Start(q), ~Ask(q) PROVE Kept(q)'
  <2>1. /\ Question(q) \in session.history => Question(q) \in session'.history
        /\ Answer(q) \in session.history => Answer(q) \in session'.history
        /\ q \in session.marked => q \in session'.marked
        /\ Mark(q) /\ Question(q) \in session.history => q \in session'.marked
        /\ Append(q) => Answer(q) \in session'.history
    BY <1>5, OwnTurns DEF IInv
  <2> USE DEF Then, At, Kept, Recorded, IInv, TypeOK
  <2>2. CASE Retrieve(q) \/ Remember(q)
    BY <1>1, <2>1, <2>2 DEF Retrieve, Remember
  <2>3. CASE Mark(q) \/ Append(q)
    BY <1>1, <2>1, <2>3 DEF Mark, Append
  <2>4. CASE Assess(q) \/ Save(q) \/ SaveFails(q)
    BY <1>1, <2>1, <2>4 DEF Assess, Save, SaveFails
  <2>5. CASE Fail(q) \/ PutBack(q)
    BY <1>1, <2>1, <2>5 DEF Fail, PutBack
  <2> QED BY <1>5, <2>2, <2>3, <2>4, <2>5 DEF Moves
<1>6. CASE Restart
  BY <1>1, <1>6 DEF Restart, At, Kept, Recorded, Running, InProgress, Asking, IInv, TypeOK
<1>7. CASE MarkSave \/ UNCHANGED vars
  BY <1>1, <1>7 DEF MarkSave, vars, Kept, Recorded
<1> QED BY <1>2, <1>3, <1>4, <1>5, <1>6, <1>7 DEF Next, Moves

\* Copies hold the turns of what was answered before.
LEMMA CopyNext == IInv /\ [Next]_vars => CopyInv'
<1> SUFFICES ASSUME IInv, [Next]_vars, NEW p \in Questions, NEW q \in Questions,
                    (run[p] \in InProgress)', (run[q] \in {"answered", "warned"})',
                    ~Disturbed(q)', p \notin over'[q]
             PROVE  ({Question(q), Answer(q)} \subseteq before[p].history)'
  BY DEF CopyInv
<1>1. ~Disturbed(q) /\ Kept(q)
  BY DisturbedStays DEF IInv, KeptInv
<1>2. ASSUME NEW r \in Questions, Start(r) PROVE {Question(q), Answer(q)} \subseteq before'[p].history
  <2>1. /\ before' = [before EXCEPT ![r] = session] /\ run[r] = "new"
        /\ run' = [run EXCEPT ![r] = "plan"]
        /\ over'[q] = over[q] \/ q = r \/ q \in Running
    BY <1>2 DEF Start, At, Then
  <2>2. q # r /\ run[q] \in {"answered", "warned"}
    BY <2>1 DEF IInv, TypeOK
  <2>3. over'[q] = over[q]
    BY <2>1, <2>2 DEF Running, InProgress, Asking
  <2>4. CASE p = r
    BY <1>1, <2>1, <2>2, <2>4 DEF Kept, Recorded, IInv, TypeOK
  <2>5. CASE p # r
    <3>1. before'[p] = before[p] /\ run'[p] = run[p]
      BY <2>1, <2>5 DEF IInv, TypeOK
    <3> QED BY <1>1, <2>2, <2>3, <3>1 DEF IInv, CopyInv
  <2> QED BY <2>4, <2>5
<1>3. ASSUME NEW r \in Questions, Moves(r), ~Start(r)
      PROVE  {Question(q), Answer(q)} \subseteq before'[p].history
  <2>1. /\ over' = over
        /\ r \in Running
        /\ \A s \in Questions \ {r} : run'[s] = run[s]
        /\ before' = before \/ (before' = [before EXCEPT ![r] = New] /\ run'[r] \notin InProgress)
    BY <1>3 DEF Moves, Ask, Retrieve, Remember, Mark, Append, Assess, Save, SaveFails, Fail, PutBack,
      PutTurnsBack, At, Then, IInv, TypeOK, Running, InProgress, Asking
  <2>2. before'[p] = before[p] /\ run[p] \in InProgress
    BY <2>1 DEF IInv, TypeOK, Running
  <2>3. p # q
    BY DEF InProgress, Asking
  <2>4. run[q] \in {"answered", "warned"}
    BY <2>1, <2>2, <2>3 DEF IInv, OverInv, Running
  <2> QED BY <1>1, <2>1, <2>2, <2>4 DEF IInv, CopyInv
<1>4. CASE Restart
  BY <1>4 DEF Restart, IInv, TypeOK, Running, InProgress, Asking
<1>5. CASE MarkSave \/ UNCHANGED vars
  BY <1>1, <1>5 DEF MarkSave, vars, IInv, CopyInv
<1> QED BY <1>2, <1>3, <1>4, <1>5 DEF Next, Moves

-----------------------------------------------------------------------------
(* A question that failed alone left nothing.                              *)

\* While a question runs alone no other one moves.
LEMMA AloneMoves ==
  ASSUME IInv, NEW q \in Questions, NEW r \in Questions \ {q}, Moves(r)
  PROVE  ~Alone(q)'
<1> USE DEF IInv, TypeOK, Alone, Running
<1>1. CASE Start(r)
  BY <1>1 DEF Start, At, Then
<1>2. CASE ~Start(r)
  <2>1. r \in Running /\ run'[q] = run[q] /\ over' = over
    BY <1>2 DEF Moves, At, Then, Ask, Retrieve, Remember, Mark, Append, Assess, Save, SaveFails, Fail,
      PutBack, PutTurnsBack, InProgress, Asking
  <2>2. q \in Running => r \in over[q]
    BY <2>1 DEF OverInv
  <2> QED BY <2>1, <2>2
<1> QED BY <1>1, <1>2

\* A step that leaves q gone found it gone or running alone.
LEMMA GoneBefore ==
  ASSUME IInv, NEW q \in Questions, NEW r \in Questions, Moves(r), Gone(q)'
  PROVE  (r # q /\ Gone(q)) \/ (r = q /\ Alone(q) /\ PutTurnsBack(q))
<1> USE DEF IInv, TypeOK, Gone, At, Then
<1>1. CASE Start(r)
  BY <1>1 DEF Start, OverInv
<1>2. CASE Ask(r) \/ Retrieve(r) \/ Remember(r) \/ Mark(r) \/ Append(r)
  BY <1>2 DEF Ask, Retrieve, Remember, Mark, Append
<1>3. CASE Assess(r) \/ Save(r) \/ SaveFails(r) \/ Fail(r) \/ PutBack(r)
  BY <1>3 DEF Assess, Save, SaveFails, Fail, PutBack
<1>4. CASE PutTurnsBack(r)
  BY <1>4 DEF PutTurnsBack, Alone, InProgress
<1> QED BY <1>1, <1>2, <1>3, <1>4 DEF Moves

LEMMA GhostNext == IInv /\ [Next]_vars => GhostInv'
<1> SUFFICES ASSUME IInv, [Next]_vars, NEW q \in Questions
             PROVE  /\ Gone(q)' => /\ Without(q, session') /\ Without(q, file')
                                   /\ \A p \in Questions :
                                        run'[p] \in InProgress => Without(q, before'[p])
                    /\ Alone(q)' => (q \in spilled' \/ Without(q, file')) /\ Without(q, before'[q])
  BY DEF GhostInv, Without
<1>1. ASSUME NEW r \in Questions, Moves(r), Gone(q)'
      PROVE  /\ Without(q, session') /\ Without(q, file')
             /\ \A p \in Questions : run'[p] \in InProgress => Without(q, before'[p])
  <2>1. CASE r # q /\ Gone(q) /\ ~PutTurnsBack(r)
    <3>1. Without(q, session) /\ Without(q, file)
      BY <2>1 DEF IInv, GhostInv
    <3>2. Without(q, session')
      BY <1>1, <2>1, <3>1, OtherTurns DEF IInv, Without
    <3>3. file' \in {file, session}
      BY <1>1, <2>1 DEF Moves, Start, Ask, Retrieve, Remember, Mark, Append, Assess, Save,
        SaveFails, Fail, PutBack
    <3>4. \A p \in Questions : run'[p] \in InProgress =>
            before'[p] = session \/ (run[p] \in InProgress /\ before'[p] = before[p])
      BY <1>1, <2>1 DEF Moves, At, Then, Start, Ask, Retrieve, Remember, Mark, Append, Assess, Save,
        SaveFails, Fail, PutBack, InProgress, Asking, IInv, TypeOK
    <3>5. \A p \in Questions : run[p] \in InProgress => Without(q, before[p])
      BY <2>1 DEF IInv, GhostInv
    <3> QED BY <3>1, <3>2, <3>3, <3>4, <3>5 DEF Without
  <2>2. CASE r # q /\ Gone(q) /\ PutTurnsBack(r)
    <3>1. /\ session'.history = before[r].history /\ file' = file
          /\ run[r] \in InProgress
          /\ \A p \in Questions : run'[p] \in InProgress =>
               run[p] \in InProgress /\ before'[p] = before[p]
      BY <2>2 DEF PutTurnsBack, At, Then, InProgress, Asking, IInv, TypeOK, Sessions
    <3> QED BY <2>2, <3>1 DEF IInv, GhostInv, Without
  <2>3. CASE r = q /\ Alone(q) /\ PutTurnsBack(q)
    <3>1. /\ session'.history = before[q].history /\ file' = file
          /\ q \notin spilled
          /\ \A p \in Questions : run'[p] \in InProgress => p # q /\ run[p] \in InProgress
      BY <1>1, <2>3 DEF PutTurnsBack, Gone, At, Then, InProgress, Asking, IInv, TypeOK, Sessions
    <3>2. \A p \in Questions : run'[p] \notin InProgress
      BY <2>3, <3>1 DEF IInv, OverInv, Running, Alone
    <3> QED BY <2>3, <3>1, <3>2 DEF IInv, GhostInv, Without
  <2> QED BY <1>1, <2>1, <2>2, <2>3, GoneBefore
<1>2. ASSUME Moves(q), Alone(q)'
      PROVE  (q \in spilled' \/ Without(q, file')) /\ Without(q, before'[q])
  <2>1. CASE Start(q)
    <3>1. Gone(q) /\ file' = file /\ before'[q] = session
      BY <2>1 DEF Start, At, Gone, IInv, TypeOK
    <3> QED BY <3>1 DEF IInv, GhostInv
  <2>2. CASE ~Start(q)
    <3>1. Alone(q) /\ file' = file /\ before'[q] = before[q] /\ spilled' = spilled
      BY <1>2, <2>2 DEF Moves, At, Then, Alone, Ask, Retrieve, Remember, Mark, Append, Assess, Save,
        SaveFails, Fail, PutBack, PutTurnsBack, InProgress, Asking, IInv, TypeOK
    <3> QED BY <3>1 DEF IInv, GhostInv
  <2> QED BY <2>1, <2>2
<1>3. ASSUME NEW r \in Questions, Moves(r), Alone(q)' PROVE r = q
  BY <1>3, AloneMoves
<1>4. CASE Restart
  <2>1. /\ session' = file /\ file' = file /\ spilled' = spilled
        /\ \A p \in Questions : run'[p] \notin InProgress
        /\ Gone(q)' => Gone(q) \/ (Alone(q) /\ q \notin spilled)
    BY <1>4 DEF Restart, At, Gone, Alone, Running, InProgress, Asking, IInv, TypeOK
  <2> QED BY <2>1 DEF IInv, GhostInv, Alone
<1>5. CASE MarkSave \/ UNCHANGED vars
  BY <1>5 DEF MarkSave, vars, IInv, GhostInv, Gone, Alone, Running
<1>6. CASE \E r \in Questions : Moves(r)
  <2>1. PICK r \in Questions : Moves(r)
    BY <1>6
  <2> QED BY <2>1, <1>1, <1>2, <1>3
<1> QED BY <1>4, <1>5, <1>6 DEF Next, Moves

LEMMA TraceNext == IInv /\ [Next]_vars => TraceInv'
<1> SUFFICES ASSUME IInv, [Next]_vars, NEW q \in Questions, Alone(q)'
             PROVE  /\ \A p \in Questions \ {q} : p \in session'.marked <=> p \in before'[q].marked
                    /\ run'[q] = "turns" => /\ session'.active = before'[q].active
                                            /\ session'.context = before'[q].context
                                            /\ session'.memory = before'[q].memory
  BY DEF TraceInv
<1> USE DEF IInv, TypeOK, At, Then
<1>1. CASE Start(q)
  BY <1>1 DEF Start
<1>2. ASSUME Moves(q), ~Start(q) PROVE Alone(q) /\ before'[q] = before[q]
  BY <1>2 DEF Moves, Alone, Ask, Retrieve, Remember, Mark, Append, Assess, Save, SaveFails, Fail, PutBack,
    PutTurnsBack, InProgress, Asking
<1>3. CASE Ask(q) \/ Retrieve(q) \/ Remember(q) \/ Append(q)
  <2>1. session'.marked = session.marked
    BY <1>3 DEF Ask, Retrieve, Remember, Append, Sessions
  <2>2. run'[q] # "turns" /\ ~Start(q)
    BY <1>3 DEF Ask, Retrieve, Remember, Append, Start
  <2> QED BY <1>2, <1>3, <2>1, <2>2 DEF Moves, TraceInv
<1>4. CASE Mark(q)
  <2>1. session'.marked \in {session.marked, session.marked \cup {q}}
    BY <1>4 DEF Mark, Sessions
  <2>2. run'[q] # "turns" /\ ~Start(q)
    BY <1>4 DEF Mark, Start
  <2> QED BY <1>2, <1>4, <2>1, <2>2 DEF Moves, TraceInv
<1>5. CASE Assess(q) \/ Fail(q) \/ Save(q) \/ SaveFails(q)
  <2>1. session' = session /\ run'[q] # "turns" /\ ~Start(q)
    BY <1>5 DEF Assess, Fail, Save, SaveFails, Start, Asking
  <2> QED BY <1>2, <1>5, <2>1 DEF Moves, TraceInv
<1>6. CASE PutBack(q)
  <2>1. /\ session'.marked = session.marked /\ session'.active = before[q].active
        /\ session'.context = before[q].context /\ session'.memory = before[q].memory
        /\ ~Start(q)
    BY <1>6 DEF PutBack, Sessions, Start
  <2> QED BY <1>2, <1>6, <2>1 DEF Moves, TraceInv
<1>7. CASE PutTurnsBack(q) \/ Restart
  BY <1>7 DEF PutTurnsBack, MarkSave, Restart, Alone, Running, InProgress, Asking
<1>8. CASE MarkSave \/ UNCHANGED vars
  BY <1>8 DEF MarkSave, vars, TraceInv, Alone
<1>9. ASSUME NEW r \in Questions \ {q}, Moves(r) PROVE FALSE
  BY <1>9, AloneMoves
<1> QED BY <1>1, <1>3, <1>4, <1>5, <1>6, <1>7, <1>8, <1>9 DEF Next, Moves

-----------------------------------------------------------------------------
(* The theorems.                                                           *)

LEMMA InvInit == Init => IInv
<1> SUFFICES ASSUME Init PROVE IInv
  OBVIOUS
<1>1. /\ session = New /\ file = New /\ \A q \in Questions : run[q] = "new" /\ over[q] = {}
      /\ New.history = {}
  BY DEF Init, New
<1>2. \A q \in Questions : run[q] \notin InProgress
  BY <1>1 DEF InProgress, Asking
<1> QED BY <1>1, <1>2, TypeInit DEF IInv, OverInv, KeptInv, Kept, CopyInv, GhostInv, TraceInv,
      Gone, Alone, Without, Running

LEMMA InvNext == IInv /\ [Next]_vars => IInv'
BY TypeNext, OverNext, KeptNext, CopyNext, GhostNext, TraceNext DEF IInv

LEMMA Invariant == Spec => []IInv
BY InvInit, InvNext, PTL DEF Spec

\* Unless a question that overlapped it failed, no turn of an answered question
\* is lost: in memory and on disk when its save succeeded, in memory until a
\* restart when it was answered with a warning.
THEOREM TurnsAreKept == Spec => []TurnsKept
<1>1. IInv => TurnsKept
  BY DEF IInv, KeptInv, Kept, Recorded, TurnsKept
<1> QED BY <1>1, Invariant, PTL

\* No turn of a question that failed, or was killed, alone and with no mark's
\* save meanwhile shows up again, in memory or after a restart.
THEOREM NoGhosts == Spec => []NoGhost
<1>1. IInv => NoGhost
  BY DEF IInv, GhostInv, Gone, Without, NoGhost
<1> QED BY <1>1, Invariant, PTL

\* A question that fails alone leaves the session's fields as it found them.
THEOREM NoTraceLeft == Spec => LeavesNoTrace
<1> DEFINE Left(q) ==
      run[q] = "turns" /\ run'[q] = "failed" /\ over[q] = {} =>
         /\ session'.history = before[q].history /\ session'.active = before[q].active
         /\ session'.context = before[q].context /\ session'.memory = before[q].memory
         /\ \A p \in Questions : Question(p) \in session'.history =>
              (p \in session'.marked <=> p \in before[q].marked)
<1>1. ASSUME IInv, [Next]_vars, NEW q \in Questions PROVE Left(q)
  <2> SUFFICES ASSUME run[q] = "turns", run'[q] = "failed", over[q] = {} PROVE Left(q)
    OBVIOUS
  <2> USE <1>1 DEF IInv, TypeOK
  <2>1. PutTurnsBack(q)
    BY DEF Next, vars, At, Then, Start, Ask, Retrieve, Remember, Mark, Append, Assess, Save, SaveFails, Fail,
      PutBack, PutTurnsBack, MarkSave, Restart, Running, InProgress, Asking
  <2>2. /\ session'.history = before[q].history /\ session'.active = session.active
        /\ session'.context = session.context /\ session'.memory = session.memory
        /\ session'.marked = session.marked
    BY <2>1 DEF PutTurnsBack, Sessions
  <2>3. Alone(q)
    BY DEF Alone, InProgress
  <2>4. Question(q) \notin before[q].history
    BY <2>3 DEF GhostInv, Without
  <2> QED BY <2>2, <2>3, <2>4 DEF TraceInv
<1>2. IInv /\ [Next]_vars => \A q \in Questions : Left(q)
  BY <1>1
<1> QED BY <1>2, Invariant, PTL DEF Spec, LeavesNoTrace
=============================================================================
