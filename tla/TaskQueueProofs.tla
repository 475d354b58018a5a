-------------------------- MODULE TaskQueueProofs ---------------------------
(***************************************************************************)
(* For any tasks and any number of callers: no claim is left without its   *)
(* reservation, no valid reservation is expired or rebalanced away, no     *)
(* lease is taken from its holder and no task is lost, but for the races   *)
(* the properties name.                                                    *)
(*                                                                         *)
(* The proofs rest on who holds the two locks: LockInv ties the steps of a *)
(* call to the lock it must hold there, and from it RowInv says what a     *)
(* call that holds the reservations' lock may still rely on at each step,  *)
(* although the queue's entries change under it.                           *)
(***************************************************************************)
EXTENDS TaskQueue, TLAPS

-----------------------------------------------------------------------------
(* The inductive invariant.                                                *)

RowPoints   == {"row", "unclaim", "delete", "claim", "save"}
QueuePoints == {"sweep", "judge", "remove"}
TaskPoints  == {"unclaim", "delete", "claim", "save", "remove", "bury", "note", "enqueue",
                "forget"}

\* Each step that needs a lock or a task has it.
LockInv ==
  \A c \in Callers :
    /\ op[c].at \in RowPoints => rowLock = c
    /\ op[c].at \in QueuePoints \/ op[c].call = "expire_all" => queueLock = c
    /\ op[c].at \in TaskPoints => op[c].task \in Tasks

\* What a call that holds the reservations' lock finds at each step.
RowInv ==
  /\ \A t \in lapsed : row[t] # None
  /\ \A c \in Callers :
       /\ op[c].at \in {"claim", "save"} => row[op[c].task] = None
       /\ op[c].at \in {"unclaim", "delete"} =>
            /\ row[op[c].task] # None
            /\ op[c].task \in lapsed \/ (op[c].call = "release" /\ row[op[c].task] = c)
       /\ op[c].at = "delete" => entry[op[c].task] \in {None, Absent}
       /\ op[c].at \in RowPoints /\ op[c].call \notin {"reserve", "release"} =>
            /\ op[c].todo \subseteq lapsed
            /\ op[c].at \in {"unclaim", "delete"} => op[c].task \notin op[c].todo

\* Only claims older than the queue's lock are saved under it.
RaceInv ==
  \A b, c \in Callers :
    op[c].at \in {"judge", "remove"} /\ op[b].at = "save" => op[b].task \in op[c].raced

\* t has a place other than the dead letters.
Placed(t) ==
  t \in Queued \cup clash \/ \E b \in Callers : op[b].at = "note" /\ op[b].task = t

\* A restore about to delete a dead letter deletes one that is not needed, or
\* one that is newer than the one it read.
ForgetInv ==
  \A c \in Callers :
    /\ op[c].at \in {"enqueue", "forget"} => op[c].call = "restore"
    /\ op[c].at = "forget" /\ op[c].task \in kept =>
         Placed(op[c].task) \/ (op[c].other /\ op[c].task \in dead)

IInv == /\ TypeOK /\ LockInv /\ RowInv /\ RaceInv /\ ForgetInv
        /\ NoOrphanClaim /\ ReservedKept /\ TaskKept

-----------------------------------------------------------------------------
(* Types.                                                                  *)

LEMMA AbsentDiffers == Absent # None /\ Absent \notin Callers /\ None \notin Callers
BY NoneAssumption DEF Absent

LEMMA OpTypes ==
  ASSUME NEW o \in Ops
  PROVE  /\ o.call \in Calls /\ o.at \in Points /\ o.task \in Tasks \cup {None}
         /\ o.todo \in SUBSET Tasks /\ o.raced \in SUBSET Tasks /\ o.other \in BOOLEAN
         /\ \A f \in Calls : [o EXCEPT !.call = f] \in Ops
         /\ \A p \in Points : [o EXCEPT !.at = p] \in Ops
         /\ \A t \in Tasks \cup {None} : [o EXCEPT !.task = t] \in Ops
         /\ \A S \in SUBSET Tasks : [o EXCEPT !.todo = S] \in Ops
         /\ \A S \in SUBSET Tasks : [o EXCEPT !.raced = S] \in Ops
         /\ \A x \in BOOLEAN : [o EXCEPT !.other = x] \in Ops
BY DEF Ops

LEMMA RestType == Rest \in Ops
BY DEF Rest, Ops, Calls, Points

LEMMA TypeInit == Init => TypeOK
BY RestType DEF Init, TypeOK, Entries, Queued

-----------------------------------------------------------------------------
(* What each step does to the calls.                                       *)

\* The call of c comes to be f at step p with these locals; those of the other
\* callers stay, but that a restore may learn its dead letter is another.
OpIs(c, f, p, t, S, R) ==
  /\ op' \in [Callers -> Ops]
  /\ \A b \in Callers \ {c} :
       /\ op'[b].call = op[b].call /\ op'[b].at = op[b].at /\ op'[b].task = op[b].task
       /\ op'[b].todo = op[b].todo /\ op'[b].raced = op[b].raced
       /\ op[b].other => op'[b].other
  /\ op'[c].call = f /\ op'[c].at = p /\ op'[c].task = t
  /\ op'[c].todo = S /\ op'[c].raced = R

LEMMA BeginMoves ==
  ASSUME TypeOK, NEW c \in Callers
  PROVE  /\ \A S \in SUBSET Tasks : Reserve(c, S) => OpIs(c, "reserve", "row", None, S, {})
         /\ \A t \in Tasks : Release(c, t) => OpIs(c, "release", "row", None, {t}, {})
         /\ ExpireStale(c) => OpIs(c, "sweep", "row", None, lapsed, {})
         /\ \A t \in Tasks : Expire(c, t) => OpIs(c, "expire", "judge", None, {t}, Claiming)
         /\ \A S \in SUBSET Tasks :
              Rebalance(c, S) => OpIs(c, "rebalance", "judge", None, S \cap Queued, Claiming)
         /\ ExpireAll(c) => OpIs(c, "expire_all", "sweep", None, {}, Claiming)
         /\ \A t \in Tasks : DeadLetter(c, t) => OpIs(c, "dead_letter", "bury", t, {}, {})
         /\ \A t \in Tasks : Restore(c, t) => OpIs(c, "restore", "enqueue", t, {}, {})
<1> USE RestType DEF TypeOK
<1>1. ASSUME NEW f \in Calls, NEW p \in Points, NEW S \in SUBSET Tasks, Begin(c, f, p, S)
      PROVE  OpIs(c, f, p, None, S, {})
  <2>1. op' = [op EXCEPT ![c] = [[[Rest EXCEPT !.call = f] EXCEPT !.at = p] EXCEPT !.todo = S]]
    BY <1>1 DEF Begin
  <2>2. [[[Rest EXCEPT !.call = f] EXCEPT !.at = p] EXCEPT !.todo = S] \in Ops
    BY OpTypes
  <2> QED BY <2>1, <2>2 DEF OpIs, Rest
<1>2. ASSUME NEW f \in Calls, NEW p \in Points, NEW S \in SUBSET Tasks, Holding(c, f, p, S)
      PROVE  OpIs(c, f, p, None, S, Claiming)
  <2>1. op' = [op EXCEPT ![c] =
                [[[[Rest EXCEPT !.call = f] EXCEPT !.at = p] EXCEPT !.todo = S] EXCEPT !.raced = Claiming]]
    BY <1>2 DEF Holding
  <2>2. Claiming \in SUBSET Tasks
    BY DEF Claiming
  <2>3. [[[[Rest EXCEPT !.call = f] EXCEPT !.at = p] EXCEPT !.todo = S] EXCEPT !.raced = Claiming] \in Ops
    BY <2>2, OpTypes
  <2> QED BY <2>1, <2>3 DEF OpIs, Rest
<1>3. ASSUME NEW f \in Calls, NEW p \in Points, NEW t \in Tasks,
             op' = [op EXCEPT ![c] = [[[Rest EXCEPT !.call = f] EXCEPT !.at = p] EXCEPT !.task = t]]
      PROVE  OpIs(c, f, p, t, {}, {})
  <2>1. [[[Rest EXCEPT !.call = f] EXCEPT !.at = p] EXCEPT !.task = t] \in Ops
    BY OpTypes
  <2> QED BY <1>3, <2>1 DEF OpIs, Rest
<1>4. \A S \in SUBSET Tasks : Reserve(c, S) => OpIs(c, "reserve", "row", None, S, {})
  BY <1>1 DEF Reserve, Calls, Points
<1>5. \A t \in Tasks : Release(c, t) => OpIs(c, "release", "row", None, {t}, {})
  BY <1>1 DEF Release, Calls, Points
<1>6. ExpireStale(c) => OpIs(c, "sweep", "row", None, lapsed, {})
  BY <1>1 DEF ExpireStale, Calls, Points
<1>7. \A t \in Tasks : Expire(c, t) => OpIs(c, "expire", "judge", None, {t}, Claiming)
  BY <1>2 DEF Expire, Calls, Points
<1>8. \A S \in SUBSET Tasks :
        Rebalance(c, S) => OpIs(c, "rebalance", "judge", None, S \cap Queued, Claiming)
  BY <1>2 DEF Rebalance, Calls, Points
<1>9. ExpireAll(c) => OpIs(c, "expire_all", "sweep", None, {}, Claiming)
  BY <1>2 DEF ExpireAll, Calls, Points
<1>10. \A t \in Tasks : DeadLetter(c, t) => OpIs(c, "dead_letter", "bury", t, {}, {})
  BY <1>3 DEF DeadLetter, Calls, Points
<1>11. \A t \in Tasks : Restore(c, t) => OpIs(c, "restore", "enqueue", t, {}, {})
  BY <1>3 DEF Restore, Calls, Points
<1> QED BY <1>4, <1>5, <1>6, <1>7, <1>8, <1>9, <1>10, <1>11

LEMMA StepMoves ==
  ASSUME TypeOK, NEW c \in Callers
  PROVE  /\ \A p \in Points :
              Step(c, p) => OpIs(c, op[c].call, p, op[c].task, op[c].todo, op[c].raced)
         /\ Return(c) => OpIs(c, "none", "idle", None, {}, {})
         /\ \A p \in Points :
              op' = [op EXCEPT ![c].at = p, ![c].task = None] =>
                OpIs(c, op[c].call, p, None, op[c].todo, op[c].raced)
<1> USE DEF TypeOK
<1>1. ASSUME NEW p \in Points, Step(c, p)
      PROVE  OpIs(c, op[c].call, p, op[c].task, op[c].todo, op[c].raced)
  <2>1. op' = [op EXCEPT ![c] = [op[c] EXCEPT !.at = p]] /\ [op[c] EXCEPT !.at = p] \in Ops
    BY <1>1, OpTypes DEF Step
  <2> QED BY <2>1 DEF OpIs, Ops
<1>2. Return(c) => OpIs(c, "none", "idle", None, {}, {})
  BY RestType DEF Return, OpIs, Rest
<1>3. ASSUME NEW p \in Points, op' = [op EXCEPT ![c].at = p, ![c].task = None]
      PROVE  OpIs(c, op[c].call, p, None, op[c].todo, op[c].raced)
  <2>1. [[op[c] EXCEPT !.at = p] EXCEPT !.task = None] \in Ops
    BY OpTypes
  <2>2. op' = [op EXCEPT ![c] = [[op[c] EXCEPT !.at = p] EXCEPT !.task = None]]
    BY <1>3
  <2> QED BY <2>1, <2>2 DEF OpIs, Ops
<1> QED BY <1>1, <1>2, <1>3

LEMMA TakeMoves ==
  ASSUME TypeOK, NEW c \in Callers, NEW p \in Points, NEW t \in Tasks \cup {None},
         NEW S \in SUBSET Tasks,
         op' = [op EXCEPT ![c].todo = S, ![c].task = t, ![c].at = p]
  PROVE  OpIs(c, op[c].call, p, t, S, op[c].raced)
<1>1. [[[op[c] EXCEPT !.todo = S] EXCEPT !.task = t] EXCEPT !.at = p] \in Ops
  BY OpTypes DEF TypeOK
<1>2. op' = [op EXCEPT ![c] = [[[op[c] EXCEPT !.todo = S] EXCEPT !.task = t] EXCEPT !.at = p]]
  OBVIOUS
<1> QED BY <1>1, <1>2 DEF OpIs, Ops, TypeOK

LEMMA RowMoves ==
  ASSUME TypeOK, NEW c \in Callers
  PROVE  /\ Row(c) => \E t \in op[c].todo :
              OpIs(c, op[c].call, IF Discards(c, t) THEN "unclaim" ELSE IF Claims(c, t) THEN "claim" ELSE "row",
                   IF Discards(c, t) \/ Claims(c, t) THEN t ELSE None, op[c].todo \ {t}, op[c].raced)
         /\ DiscardClaim(c) => OpIs(c, op[c].call, "delete", op[c].task, op[c].todo, op[c].raced)
         /\ DiscardRow(c) =>
              \/ /\ op[c].call = "reserve"
                 /\ OpIs(c, op[c].call, "claim", op[c].task, op[c].todo, op[c].raced)
              \/ /\ op[c].call # "reserve"
                 /\ OpIs(c, op[c].call, "row", None, op[c].todo, op[c].raced)
         /\ ReserveClaim(c) =>
              \/ /\ OpIs(c, op[c].call, "row", None, op[c].todo, op[c].raced)
                 /\ entry' = entry
              \/ /\ OpIs(c, op[c].call, "save", op[c].task, op[c].todo, op[c].raced)
                 /\ entry[op[c].task] \in {None, c} /\ entry' = [entry EXCEPT ![op[c].task] = c]
         /\ Save(c) => OpIs(c, op[c].call, "row", None, op[c].todo, op[c].raced)
         /\ Unlock(c) => OpIs(c, "none", "idle", None, {}, {})
<1> USE DEF Points
<1>1. ASSUME Row(c)
      PROVE  \E t \in op[c].todo :
              OpIs(c, op[c].call, IF Discards(c, t) THEN "unclaim" ELSE IF Claims(c, t) THEN "claim" ELSE "row",
                   IF Discards(c, t) \/ Claims(c, t) THEN t ELSE None, op[c].todo \ {t}, op[c].raced)
  <2>1. PICK t \in op[c].todo :
          op' = [op EXCEPT ![c].todo = op[c].todo \ {t},
                           ![c].task = IF Discards(c, t) \/ Claims(c, t) THEN t ELSE None,
                           ![c].at = IF Discards(c, t) THEN "unclaim"
                                     ELSE IF Claims(c, t) THEN "claim" ELSE "row"]
    BY <1>1 DEF Row, TypeOK
  <2>2. op[c].todo \in SUBSET Tasks /\ t \in Tasks
    BY <2>1, OpTypes DEF TypeOK
  <2>3. (IF Discards(c, t) THEN "unclaim" ELSE IF Claims(c, t) THEN "claim" ELSE "row") \in Points
    OBVIOUS
  <2>4. (IF Discards(c, t) \/ Claims(c, t) THEN t ELSE None) \in Tasks \cup {None}
    BY <2>2
  <2> HIDE DEF Points
  <2> QED BY <2>1, <2>2, <2>3, <2>4, TakeMoves
<1>2. DiscardClaim(c) => OpIs(c, op[c].call, "delete", op[c].task, op[c].todo, op[c].raced)
  BY StepMoves DEF DiscardClaim
<1>3. DiscardRow(c) =>
        \/ /\ op[c].call = "reserve"
           /\ OpIs(c, op[c].call, "claim", op[c].task, op[c].todo, op[c].raced)
        \/ /\ op[c].call # "reserve"
           /\ OpIs(c, op[c].call, "row", None, op[c].todo, op[c].raced)
  BY StepMoves DEF DiscardRow, Step
<1>4. ReserveClaim(c) =>
        \/ /\ OpIs(c, op[c].call, "row", None, op[c].todo, op[c].raced)
           /\ entry' = entry
        \/ /\ OpIs(c, op[c].call, "save", op[c].task, op[c].todo, op[c].raced)
           /\ entry[op[c].task] \in {None, c} /\ entry' = [entry EXCEPT ![op[c].task] = c]
  BY StepMoves DEF ReserveClaim
<1>5. Save(c) => OpIs(c, op[c].call, "row", None, op[c].todo, op[c].raced)
  BY StepMoves DEF Save
<1>6. Unlock(c) => OpIs(c, "none", "idle", None, {}, {})
  BY StepMoves DEF Unlock
<1> QED BY <1>1, <1>2, <1>3, <1>4, <1>5, <1>6

LEMMA QueueMoves ==
  ASSUME TypeOK, NEW c \in Callers
  PROVE  /\ SweepInside(c) => OpIs(c, op[c].call, "row", op[c].task, lapsed, op[c].raced)
         /\ SweptInside(c) => OpIs(c, op[c].call, "judge", op[c].task, aged, Claiming)
         /\ Judge(c) => \E t \in op[c].todo :
              OpIs(c, op[c].call, IF Spared(c, t) THEN "judge" ELSE "remove",
                   IF Spared(c, t) THEN None ELSE t, op[c].todo \ {t}, op[c].raced)
         /\ TakeOut(c) => OpIs(c, op[c].call, "judge", None, op[c].todo, op[c].raced)
         /\ Judged(c) => OpIs(c, "none", "idle", None, {}, {})
<1> USE DEF Points
<1>1. ASSUME SweepInside(c) PROVE OpIs(c, op[c].call, "row", op[c].task, lapsed, op[c].raced)
  <2>1. op' = [op EXCEPT ![c] = [[op[c] EXCEPT !.at = "row"] EXCEPT !.todo = lapsed]]
    BY <1>1 DEF SweepInside, TypeOK
  <2>2. [[op[c] EXCEPT !.at = "row"] EXCEPT !.todo = lapsed] \in Ops
    BY OpTypes DEF TypeOK
  <2> QED BY <2>1, <2>2 DEF OpIs, Ops, TypeOK
<1>2. ASSUME SweptInside(c) PROVE OpIs(c, op[c].call, "judge", op[c].task, aged, Claiming)
  <2>1. op' = [op EXCEPT ![c] =
                [[[op[c] EXCEPT !.at = "judge"] EXCEPT !.todo = aged] EXCEPT !.raced = Claiming]]
    BY <1>2 DEF SweptInside, TypeOK
  <2>2. aged \in SUBSET Tasks /\ Claiming \in SUBSET Tasks
    BY DEF TypeOK, Queued, Claiming
  <2>3. [[[op[c] EXCEPT !.at = "judge"] EXCEPT !.todo = aged] EXCEPT !.raced = Claiming] \in Ops
    BY <2>2, OpTypes DEF TypeOK
  <2> HIDE DEF Points
  <2> QED BY <2>1, <2>2, <2>3 DEF OpIs, Ops, TypeOK
<1>3. ASSUME Judge(c)
      PROVE  \E t \in op[c].todo :
              OpIs(c, op[c].call, IF Spared(c, t) THEN "judge" ELSE "remove",
                   IF Spared(c, t) THEN None ELSE t, op[c].todo \ {t}, op[c].raced)
  <2>1. PICK t \in op[c].todo :
          op' = [op EXCEPT ![c].todo = op[c].todo \ {t},
                           ![c].task = IF Spared(c, t) THEN None ELSE t,
                           ![c].at = IF Spared(c, t) THEN "judge" ELSE "remove"]
    BY <1>3 DEF Judge, TypeOK
  <2>2. op[c].todo \in SUBSET Tasks /\ t \in Tasks
    BY <2>1, OpTypes DEF TypeOK
  <2>3. (IF Spared(c, t) THEN "judge" ELSE "remove") \in Points
    OBVIOUS
  <2>4. (IF Spared(c, t) THEN None ELSE t) \in Tasks \cup {None}
    BY <2>2
  <2> HIDE DEF Points
  <2> QED BY <2>1, <2>2, <2>3, <2>4, TakeMoves
<1>4. TakeOut(c) => OpIs(c, op[c].call, "judge", None, op[c].todo, op[c].raced)
  BY StepMoves DEF TakeOut
<1>5. Judged(c) => OpIs(c, "none", "idle", None, {}, {})
  BY StepMoves DEF Judged
<1> QED BY <1>1, <1>2, <1>3, <1>4, <1>5

LEMMA DeadMoves ==
  ASSUME TypeOK, NEW c \in Callers
  PROVE  /\ Bury(c) => OpIs(c, op[c].call, "note", op[c].task, op[c].todo, op[c].raced)
         /\ Note(c) => /\ OpIs(c, "none", "idle", None, {}, {})
                       /\ \A b \in Callers \ {c} :
                            op[b].call = "restore" /\ op[b].task = op[c].task => op'[b].other
         /\ RestoreEnqueue(c) =>
              \/ /\ OpIs(c, "none", "idle", None, {}, {})
                 /\ entry' = entry /\ kept' = kept
              \/ /\ OpIs(c, op[c].call, "forget", op[c].task, op[c].todo, op[c].raced)
                 /\ entry' = IF op[c].task \in Queued THEN entry ELSE [entry EXCEPT ![op[c].task] = None]
                 /\ kept' = kept \cup {op[c].task}
         /\ Forget(c) => OpIs(c, "none", "idle", None, {}, {})
<1> USE DEF Points
<1>1. Bury(c) => OpIs(c, op[c].call, "note", op[c].task, op[c].todo, op[c].raced)
  BY StepMoves DEF Bury
<1>2. ASSUME NEW t, op' = [Others(c, t) EXCEPT ![c] = Rest]
      PROVE  /\ OpIs(c, "none", "idle", None, {}, {})
             /\ \A b \in Callers \ {c} : op[b].call = "restore" /\ op[b].task = t => op'[b].other
  <2>1. \A b \in Callers \ {c} :
          op'[b] = IF op[b].call = "restore" /\ op[b].task = t THEN [op[b] EXCEPT !.other = TRUE] ELSE op[b]
    BY <1>2 DEF Others
  <2>2. op'[c] = Rest /\ DOMAIN op' = Callers /\ op' = [b \in Callers |-> op'[b]]
    BY <1>2 DEF Others
  <2>3. ASSUME NEW b \in Callers PROVE op'[b] \in Ops
    <3>1. op[b] \in Ops /\ [op[b] EXCEPT !.other = TRUE] \in Ops
      BY OpTypes DEF TypeOK
    <3> QED BY <2>1, <2>2, <3>1, RestType
  <2>4. \A b \in Callers \ {c} :
          /\ op'[b].call = op[b].call /\ op'[b].at = op[b].at /\ op'[b].task = op[b].task
          /\ op'[b].todo = op[b].todo /\ op'[b].raced = op[b].raced
          /\ op[b].other => op'[b].other
          /\ op[b].call = "restore" /\ op[b].task = t => op'[b].other
    BY <2>1 DEF TypeOK, Ops
  <2> QED BY <2>2, <2>3, <2>4 DEF OpIs, Rest
<1>3. RestoreEnqueue(c) =>
        \/ /\ OpIs(c, "none", "idle", None, {}, {})
           /\ entry' = entry /\ kept' = kept
        \/ /\ OpIs(c, op[c].call, "forget", op[c].task, op[c].todo, op[c].raced)
           /\ entry' = IF op[c].task \in Queued THEN entry ELSE [entry EXCEPT ![op[c].task] = None]
           /\ kept' = kept \cup {op[c].task}
  BY StepMoves DEF RestoreEnqueue
<1>4. Note(c) => /\ OpIs(c, "none", "idle", None, {}, {})
                 /\ \A b \in Callers \ {c} :
                      op[b].call = "restore" /\ op[b].task = op[c].task => op'[b].other
  BY <1>2 DEF Note
<1>5. Forget(c) => OpIs(c, "none", "idle", None, {}, {})
  BY <1>2 DEF Forget
<1> QED BY <1>1, <1>3, <1>4, <1>5

-----------------------------------------------------------------------------
(* Types.                                                                  *)

\* Removing tasks from the queue keeps its types.
LEMMA GoneTypes ==
  ASSUME TypeOK, NEW S, Gone(S)
  PROVE  entry' \in [Tasks -> Entries] /\ aged' \subseteq Queued'
BY DEF TypeOK, Gone, Queued, Entries

LEMMA OpNext == TypeOK /\ [Next]_vars => op' \in [Callers -> Ops]
<1> SUFFICES ASSUME TypeOK, [Next]_vars PROVE op' \in [Callers -> Ops]
  OBVIOUS
<1> USE DEF OpIs
<1>1. ASSUME NEW c \in Callers, Call(c) PROVE op' \in [Callers -> Ops]
  <2>1. CASE op' = op
    BY <2>1 DEF TypeOK
  <2>2. CASE op' # op
    BY <1>1, <2>2, BeginMoves DEF Call, Enqueue, Remove
  <2> QED BY <2>1, <2>2
<1>2. ASSUME NEW c \in Callers, Work(c) PROVE op' \in [Callers -> Ops]
  <2>1. CASE Row(c) \/ DiscardClaim(c) \/ DiscardRow(c) \/ ReserveClaim(c) \/ Save(c) \/ Unlock(c)
    BY <2>1, RowMoves
  <2>2. CASE SweepInside(c) \/ SweptInside(c) \/ Judge(c) \/ TakeOut(c) \/ Judged(c)
    BY <2>2, QueueMoves
  <2>3. CASE Bury(c) \/ Note(c) \/ RestoreEnqueue(c) \/ Forget(c)
    BY <2>3, DeadMoves
  <2> QED BY <1>2, <2>1, <2>2, <2>3 DEF Work
<1>3. CASE Clock \/ UNCHANGED vars
  BY <1>3 DEF Clock, Age, Lapse, Readiness, vars, TypeOK
<1> QED BY <1>1, <1>2, <1>3 DEF Next

LEMMA TypeNext == TypeOK /\ LockInv /\ [Next]_vars => TypeOK'
<1> SUFFICES ASSUME TypeOK, LockInv, [Next]_vars PROVE TypeOK'
  OBVIOUS
<1>1. op' \in [Callers -> Ops]
  BY OpNext
<1> USE <1>1, AbsentDiffers DEF TypeOK, queueVars, rowVars, history
<1>2. ASSUME NEW c \in Callers, NEW S \in SUBSET Tasks,
             Enqueue(c, S) \/ Remove(c, S) \/ Reserve(c, S) \/ Rebalance(c, S)
      PROVE  TypeOK'
  <2>1. CASE Enqueue(c, S)
    BY <2>1 DEF Enqueue, Queued, Entries
  <2>2. CASE Remove(c, S)
    BY <2>2, GoneTypes DEF Remove
  <2>3. CASE Reserve(c, S) \/ Rebalance(c, S)
    BY <2>3 DEF Reserve, Rebalance, Holding, Locked, Queued
  <2> QED BY <1>2, <2>1, <2>2, <2>3
<1>3. ASSUME NEW c \in Callers, NEW t \in Tasks,
             Release(c, t) \/ Expire(c, t) \/ DeadLetter(c, t) \/ Restore(c, t)
      PROVE  TypeOK'
  BY <1>3 DEF Release, Expire, DeadLetter, Restore, Holding, Locked, Queued
<1>4. ASSUME NEW c \in Callers, ExpireStale(c) \/ ExpireAll(c) PROVE TypeOK'
  BY <1>4 DEF ExpireStale, ExpireAll, Holding, Locked, Queued
<1>5. ASSUME NEW c \in Callers, Row(c) \/ Unlock(c) \/ SweepInside(c) \/ SweptInside(c) \/ Judge(c) \/ Judged(c)
      PROVE  TypeOK'
  BY <1>5 DEF Row, Unlock, SweepInside, SweptInside, Judge, Judged, Locked, Queued
<1>6. ASSUME NEW c \in Callers, DiscardClaim(c) \/ ReserveClaim(c)
      PROVE  TypeOK'
  <2>1. /\ entry' \in [Tasks -> Entries] /\ \A t \in Tasks : entry'[t] = Absent => entry[t] = Absent
        /\ UNCHANGED <<aged, rowVars, dead, ready, queueLock, rowLock, history>>
    BY <1>6 DEF DiscardClaim, ReserveClaim, Entries
  <2> QED BY <2>1 DEF Queued
<1>7. ASSUME NEW c \in Callers, DiscardRow(c) \/ Save(c)
      PROVE  TypeOK'
  BY <1>7 DEF DiscardRow, Save, Queued
<1>8. ASSUME NEW c \in Callers, TakeOut(c) \/ Bury(c)
      PROVE  TypeOK'
  BY <1>8, GoneTypes DEF TakeOut, Bury
<1>9. ASSUME NEW c \in Callers, Note(c) \/ Forget(c) \/ RestoreEnqueue(c)
      PROVE  TypeOK'
  <2>1. op[c].task \in Tasks
    BY <1>9 DEF Note, Forget, RestoreEnqueue, At, LockInv, TaskPoints
  <2>2. CASE Note(c) \/ Forget(c)
    BY <2>1, <2>2 DEF Note, Forget, Queued
  <2>3. CASE RestoreEnqueue(c)
    <3>1. /\ entry' \in [Tasks -> Entries] /\ \A t \in Tasks : entry'[t] = Absent => entry[t] = Absent
          /\ kept' \subseteq Tasks
          /\ UNCHANGED <<aged, rowVars, dead, ready, queueLock, rowLock, clash>>
      BY <2>1, <2>3 DEF RestoreEnqueue, Entries
    <3> QED BY <3>1 DEF Queued
  <2> QED BY <1>9, <2>2, <2>3
<1>10. ASSUME NEW t \in Tasks, Age(t) \/ Lapse(t) \/ Readiness(t) PROVE TypeOK'
  BY <1>10 DEF Age, Lapse, Readiness, Queued
<1>11. CASE UNCHANGED vars
  BY <1>11 DEF vars, Queued
<1> QED BY <1>2, <1>3, <1>4, <1>5, <1>6, <1>7, <1>8, <1>9, <1>10, <1>11 DEF Next, Call, Work, Clock

-----------------------------------------------------------------------------
(* What the step of one caller leaves to the others.                       *)

LEMMA OthersOp ==
  ASSUME TypeOK, NEW c \in Callers, NEW b \in Callers \ {c}, Call(c) \/ Work(c)
  PROVE  /\ op'[b].call = op[b].call /\ op'[b].at = op[b].at /\ op'[b].task = op[b].task
         /\ op'[b].todo = op[b].todo /\ op'[b].raced = op[b].raced
         /\ op[b].other => op'[b].other
<1>1. CASE Call(c)
  <2>1. CASE op' = op
    BY <2>1
  <2>2. CASE op' # op
    BY <1>1, <2>2, BeginMoves DEF Call, Enqueue, Remove, OpIs
  <2> QED BY <2>1, <2>2
<1>2. CASE Row(c) \/ DiscardClaim(c) \/ DiscardRow(c) \/ ReserveClaim(c) \/ Save(c) \/ Unlock(c)
  BY <1>2, RowMoves DEF OpIs
<1>3. CASE SweepInside(c) \/ SweptInside(c) \/ Judge(c) \/ TakeOut(c) \/ Judged(c)
  BY <1>3, QueueMoves DEF OpIs
<1>4. CASE Bury(c) \/ Note(c) \/ RestoreEnqueue(c) \/ Forget(c)
  BY <1>4, DeadMoves DEF OpIs
<1> QED BY <1>1, <1>2, <1>3, <1>4 DEF Work

\* While a call holds the reservations' lock no other one changes a row or
\* claims a task.
LEMMA OthersRows ==
  ASSUME TypeOK, LockInv, NEW c \in Callers, NEW b \in Callers \ {c}, Call(c) \/ Work(c),
         op[b].at \in RowPoints
  PROVE  /\ rowLock' = b /\ row' = row /\ lapsed' = lapsed
         /\ \A t \in Tasks : entry[t] \in {None, Absent} => entry'[t] \in {None, Absent}
<1>1. rowLock = b /\ op[c].at \notin RowPoints
  BY DEF LockInv
<1> USE <1>1, AbsentDiffers DEF TypeOK, rowVars, queueVars, At, Locked, RowPoints
<1>2. ASSUME NEW S \in SUBSET Tasks, Enqueue(c, S) \/ Remove(c, S)
      PROVE  /\ rowLock' = b /\ row' = row /\ lapsed' = lapsed
             /\ \A t \in Tasks : entry[t] \in {None, Absent} => entry'[t] \in {None, Absent}
  BY <1>2 DEF Enqueue, Remove, Gone
<1>3. CASE \/ \E S \in SUBSET Tasks : Reserve(c, S) \/ Rebalance(c, S)
           \/ \E t \in Tasks : Release(c, t) \/ Expire(c, t) \/ DeadLetter(c, t) \/ Restore(c, t)
           \/ ExpireStale(c) \/ ExpireAll(c)
  BY <1>3 DEF Reserve, Rebalance, Holding, Release, Expire, DeadLetter, Restore, ExpireStale, ExpireAll
<1>4. CASE Row(c) \/ DiscardClaim(c) \/ DiscardRow(c) \/ ReserveClaim(c) \/ Save(c) \/ Unlock(c)
  BY <1>4 DEF Row, DiscardClaim, DiscardRow, ReserveClaim, Save, Unlock
<1>5. CASE SweepInside(c) \/ SweptInside(c) \/ Judge(c) \/ Judged(c)
  BY <1>5 DEF SweepInside, SweptInside, Judge, Judged
<1>6. CASE TakeOut(c) \/ Bury(c)
  BY <1>6 DEF TakeOut, Bury, Gone
<1>7. CASE Note(c) \/ RestoreEnqueue(c) \/ Forget(c)
  <2>1. /\ UNCHANGED <<row, lapsed, rowLock>>
        /\ \A t \in Tasks : entry'[t] = entry[t] \/ entry'[t] = None
    BY <1>7 DEF Note, RestoreEnqueue, Forget
  <2> QED BY <2>1
<1> QED BY <1>2, <1>3, <1>4, <1>5, <1>6, <1>7 DEF Call, Work

\* While a call holds the queue's lock no other one changes the queue.
LEMMA OthersQueue ==
  ASSUME TypeOK, LockInv, NEW c \in Callers, NEW b \in Callers \ {c}, Call(c) \/ Work(c),
         op[b].at \in QueuePoints \/ op[b].call = "expire_all"
  PROVE  /\ queueLock' = b /\ entry' = entry
         /\ op'[c].at = "save" => op[c].at = "save" /\ op'[c].task = op[c].task
<1>1. queueLock = b /\ op[c].at \notin QueuePoints /\ op[c].call # "expire_all"
  BY DEF LockInv
<1> USE <1>1, AbsentDiffers DEF TypeOK, rowVars, queueVars, At, Locked, QueueFree, QueuePoints
<1>2. CASE \E S \in SUBSET Tasks : Enqueue(c, S) \/ Remove(c, S)
  BY <1>2 DEF Enqueue, Remove
<1>3. CASE \/ \E S \in SUBSET Tasks : Rebalance(c, S)
           \/ \E t \in Tasks : Expire(c, t)
           \/ ExpireAll(c)
  BY <1>3 DEF Rebalance, Holding, Expire, ExpireAll
<1>4. CASE \/ \E S \in SUBSET Tasks : Reserve(c, S)
           \/ \E t \in Tasks : Release(c, t) \/ DeadLetter(c, t) \/ Restore(c, t)
           \/ ExpireStale(c)
  <2>1. op'[c].at # "save"
    BY <1>4, BeginMoves DEF OpIs
  <2> QED BY <1>4, <2>1 DEF Reserve, Release, ExpireStale, DeadLetter, Restore
<1>5. CASE Row(c) \/ DiscardRow(c) \/ Save(c) \/ Unlock(c)
  <2>1. op'[c].at # "save"
    BY <1>5, RowMoves DEF OpIs
  <2> QED BY <1>5, <2>1 DEF Row, DiscardRow, Save, Unlock
<1>6. CASE DiscardClaim(c) \/ ReserveClaim(c) \/ Bury(c) \/ RestoreEnqueue(c)
  BY <1>6 DEF DiscardClaim, ReserveClaim, Bury, RestoreEnqueue
<1>7. CASE SweepInside(c) \/ SweptInside(c) \/ Judge(c) \/ TakeOut(c) \/ Judged(c)
  BY <1>7 DEF SweepInside, SweptInside, Judge, TakeOut, Judged
<1>8. CASE Note(c) \/ Forget(c)
  <2>1. op'[c].at # "save"
    BY <1>8, DeadMoves DEF OpIs
  <2> QED BY <1>8, <2>1 DEF Note, Forget
<1> QED BY <1>2, <1>3, <1>4, <1>5, <1>6, <1>7, <1>8 DEF Call, Work

-----------------------------------------------------------------------------
(* Locks.                                                                  *)

LEMMA LockOwn ==
  ASSUME TypeOK, LockInv, NEW c \in Callers, Call(c) \/ Work(c)
  PROVE  /\ op'[c].at \in RowPoints => rowLock' = c
         /\ op'[c].at \in QueuePoints \/ op'[c].call = "expire_all" => queueLock' = c
         /\ op'[c].at \in TaskPoints => op'[c].task \in Tasks
<1> DEFINE Own == /\ op'[c].at \in RowPoints => rowLock' = c
                  /\ op'[c].at \in QueuePoints \/ op'[c].call = "expire_all" => queueLock' = c
                  /\ op'[c].at \in TaskPoints => op'[c].task \in Tasks
<1>1. /\ op[c].at \in RowPoints => rowLock = c
      /\ op[c].at \in QueuePoints \/ op[c].call = "expire_all" => queueLock = c
      /\ op[c].at \in TaskPoints => op[c].task \in Tasks
  BY DEF LockInv
<1> USE <1>1 DEF At, RowPoints, QueuePoints, TaskPoints
<1>2. CASE \E S \in SUBSET Tasks : Enqueue(c, S) \/ Remove(c, S)
  BY <1>2 DEF Enqueue, Remove
<1>3. CASE \/ \E S \in SUBSET Tasks : Reserve(c, S)
           \/ \E t \in Tasks : Release(c, t)
           \/ ExpireStale(c)
  BY <1>3, BeginMoves DEF OpIs, Reserve, Release, ExpireStale, Locked
<1>4. CASE \/ \E S \in SUBSET Tasks : Rebalance(c, S)
           \/ \E t \in Tasks : Expire(c, t)
           \/ ExpireAll(c)
  BY <1>4, BeginMoves DEF OpIs, Rebalance, Expire, ExpireAll, Holding
<1>5. CASE \E t \in Tasks : DeadLetter(c, t) \/ Restore(c, t)
  BY <1>5, BeginMoves DEF OpIs
<1>6. CASE Row(c)
  <2>1. PICK t \in op[c].todo :
              OpIs(c, op[c].call, IF Discards(c, t) THEN "unclaim" ELSE IF Claims(c, t) THEN "claim" ELSE "row",
                   IF Discards(c, t) \/ Claims(c, t) THEN t ELSE None, op[c].todo \ {t}, op[c].raced)
    BY <1>6, RowMoves
  <2>2. t \in Tasks
    BY <2>1, OpTypes DEF TypeOK
  <2> QED BY <1>6, <2>1, <2>2 DEF OpIs, Row
<1>7. CASE DiscardClaim(c) \/ DiscardRow(c)
  BY <1>7, RowMoves DEF OpIs, DiscardClaim, DiscardRow
<1>8. CASE ReserveClaim(c) \/ Save(c)
  BY <1>8, RowMoves DEF OpIs, ReserveClaim, Save
<1>9. CASE Unlock(c) \/ Judged(c)
  BY <1>9, RowMoves, QueueMoves DEF OpIs
<1>10. CASE SweepInside(c) \/ SweptInside(c) \/ TakeOut(c)
  BY <1>10, QueueMoves DEF OpIs, SweepInside, SweptInside, TakeOut, Locked
<1>11. CASE Judge(c)
  <2>1. PICK t \in op[c].todo :
              OpIs(c, op[c].call, IF Spared(c, t) THEN "judge" ELSE "remove",
                   IF Spared(c, t) THEN None ELSE t, op[c].todo \ {t}, op[c].raced)
    BY <1>11, QueueMoves
  <2>2. t \in Tasks
    BY <2>1, OpTypes DEF TypeOK
  <2> QED BY <1>11, <2>1, <2>2 DEF OpIs, Judge
<1>12. CASE Bury(c) \/ Note(c) \/ RestoreEnqueue(c) \/ Forget(c)
  BY <1>12, DeadMoves DEF OpIs, Bury, RestoreEnqueue
<1> QED BY <1>2, <1>3, <1>4, <1>5, <1>6, <1>7, <1>8, <1>9, <1>10, <1>11, <1>12 DEF Call, Work

LEMMA LockNext == TypeOK /\ LockInv /\ [Next]_vars => LockInv'
<1> SUFFICES ASSUME TypeOK, LockInv, [Next]_vars PROVE LockInv'
  OBVIOUS
<1>1. ASSUME NEW c \in Callers, Call(c) \/ Work(c) PROVE LockInv'
  <2>1. ASSUME NEW b \in Callers \ {c}
        PROVE  /\ op'[b].at \in RowPoints => rowLock' = b
               /\ op'[b].at \in QueuePoints \/ op'[b].call = "expire_all" => queueLock' = b
               /\ op'[b].at \in TaskPoints => op'[b].task \in Tasks
    BY <1>1, OthersOp, OthersRows, OthersQueue DEF LockInv
  <2> QED BY <1>1, <2>1, LockOwn DEF LockInv
<1>2. CASE Clock \/ UNCHANGED vars
  BY <1>2 DEF Clock, Age, Lapse, Readiness, vars, LockInv
<1> QED BY <1>1, <1>2 DEF Next

-----------------------------------------------------------------------------
(* Rows.                                                                   *)

\* What the holder of the reservations' lock relies on at its next step.
RowOf(c) ==
  /\ op[c].at \in {"claim", "save"} => row[op[c].task] = None
  /\ op[c].at \in {"unclaim", "delete"} =>
       /\ row[op[c].task] # None
       /\ op[c].task \in lapsed \/ (op[c].call = "release" /\ row[op[c].task] = c)
  /\ op[c].at = "delete" => entry[op[c].task] \in {None, Absent}
  /\ op[c].at \in RowPoints /\ op[c].call \notin {"reserve", "release"} =>
       /\ op[c].todo \subseteq lapsed
       /\ op[c].at \in {"unclaim", "delete"} => op[c].task \notin op[c].todo

LEMMA RowOwn ==
  ASSUME TypeOK, LockInv, RowInv, NoOrphanClaim, NEW c \in Callers, Call(c) \/ Work(c)
  PROVE  RowOf(c)'
<1>1. RowOf(c) /\ \A t \in lapsed : row[t] # None
  BY DEF RowInv, RowOf
<1>2. op[c].at \in TaskPoints => op[c].task \in Tasks
  BY DEF LockInv
<1> USE <1>1, <1>2, AbsentDiffers DEF At, RowOf, RowPoints, TaskPoints, rowVars, queueVars
<1>3. CASE \E S \in SUBSET Tasks : Enqueue(c, S) \/ Remove(c, S)
  BY <1>3 DEF Enqueue, Remove
<1>4. CASE \/ \E S \in SUBSET Tasks : Reserve(c, S) \/ Rebalance(c, S)
           \/ \E t \in Tasks : Release(c, t) \/ Expire(c, t) \/ DeadLetter(c, t) \/ Restore(c, t)
           \/ ExpireAll(c)
  BY <1>4, BeginMoves DEF OpIs
<1>5. CASE ExpireStale(c)
  BY <1>5, BeginMoves DEF OpIs, ExpireStale
<1>6. CASE Row(c)
  <2>1. PICK t \in op[c].todo :
              OpIs(c, op[c].call, IF Discards(c, t) THEN "unclaim" ELSE IF Claims(c, t) THEN "claim" ELSE "row",
                   IF Discards(c, t) \/ Claims(c, t) THEN t ELSE None, op[c].todo \ {t}, op[c].raced)
    BY <1>6, RowMoves
  <2>2. UNCHANGED <<row, lapsed>> /\ op[c].at = "row"
    BY <1>6 DEF Row
  <2>3. CASE Discards(c, t)
    <3>1. /\ row[t] # None
          /\ t \in lapsed \/ (op[c].call = "release" /\ row[t] = c)
      BY <2>1, <2>2, <2>3 DEF Discards
    <3> QED BY <2>1, <2>2, <2>3, <3>1 DEF OpIs
  <2>4. CASE ~Discards(c, t) /\ Claims(c, t)
    BY <2>1, <2>2, <2>4 DEF OpIs, Claims
  <2>5. CASE ~Discards(c, t) /\ ~Claims(c, t)
    BY <2>1, <2>2, <2>5 DEF OpIs
  <2> QED BY <2>3, <2>4, <2>5
<1>7. CASE DiscardClaim(c)
  <2> DEFINE t == op[c].task
  <2>1. /\ OpIs(c, op[c].call, "delete", t, op[c].todo, op[c].raced)
        /\ UNCHANGED <<row, lapsed>> /\ op[c].at = "unclaim" /\ t \in Tasks /\ rowLock = c
        /\ entry' = IF entry[t] = row[t] THEN [entry EXCEPT ![t] = None] ELSE entry
    BY <1>7, RowMoves DEF DiscardClaim, LockInv
  <2>2. entry'[t] \in {None, Absent}
    <3>1. ASSUME NEW b \in Callers, entry[t] = b PROVE row[t] = b
      BY <2>1, <3>1 DEF NoOrphanClaim, LockInv
    <3> QED BY <2>1, <3>1 DEF TypeOK, Entries
  <2> QED BY <2>1, <2>2 DEF OpIs
<1>8. CASE DiscardRow(c)
  <2> DEFINE t == op[c].task
  <2>1. /\ row' = [row EXCEPT ![t] = None] /\ lapsed' = lapsed \ {t} /\ op[c].at = "delete" /\ t \in Tasks
    BY <1>8 DEF DiscardRow
  <2>2. \/ /\ op[c].call = "reserve"
           /\ OpIs(c, op[c].call, "claim", t, op[c].todo, op[c].raced)
        \/ /\ op[c].call # "reserve"
           /\ OpIs(c, op[c].call, "row", None, op[c].todo, op[c].raced)
    BY <1>8, RowMoves
  <2> QED BY <2>1, <2>2 DEF OpIs, TypeOK
<1>9. CASE ReserveClaim(c)
  BY <1>9, RowMoves DEF OpIs, ReserveClaim
<1>10. CASE Save(c)
  BY <1>10, RowMoves DEF OpIs, Save
<1>11. CASE Unlock(c) \/ Judged(c) \/ SweptInside(c) \/ TakeOut(c)
  BY <1>11, RowMoves, QueueMoves DEF OpIs
<1>12. CASE SweepInside(c)
  BY <1>12, QueueMoves DEF OpIs, SweepInside
<1>13. CASE Judge(c)
  <2>1. op'[c].at \in {"judge", "remove"}
    BY <1>13, QueueMoves DEF OpIs
  <2> QED BY <2>1
<1>14. CASE Bury(c) \/ Note(c) \/ RestoreEnqueue(c) \/ Forget(c)
  BY <1>14, DeadMoves DEF OpIs
<1> QED BY <1>3, <1>4, <1>5, <1>6, <1>7, <1>8, <1>9, <1>10, <1>11, <1>12, <1>13, <1>14 DEF Call, Work

\* Only the steps that discard or save a row change the rows.
LEMMA RowsChange ==
  ASSUME TypeOK, [Next]_vars
  PROVE  \/ row' = row /\ lapsed' = lapsed
         \/ \E c \in Callers : DiscardRow(c) \/ Save(c)
         \/ \E t \in Tasks : Lapse(t)
<1> USE DEF rowVars
<1>1. ASSUME NEW c \in Callers, Call(c) PROVE row' = row /\ lapsed' = lapsed
  BY <1>1 DEF Call, Enqueue, Remove, Reserve, Rebalance, Holding, Release, Expire, DeadLetter,
    Restore, ExpireStale, ExpireAll
<1>2. ASSUME NEW c \in Callers, Work(c), ~DiscardRow(c), ~Save(c) PROVE row' = row /\ lapsed' = lapsed
  BY <1>2 DEF Work, Row, DiscardClaim, ReserveClaim, Unlock, SweepInside, SweptInside, Judge,
    TakeOut, Judged, Bury, Note, RestoreEnqueue, Forget
<1>3. CASE Clock \/ UNCHANGED vars
  BY <1>3 DEF Clock, Age, Readiness, vars
<1> QED BY <1>1, <1>2, <1>3 DEF Next

LEMMA RowNext == TypeOK /\ LockInv /\ RowInv /\ NoOrphanClaim /\ [Next]_vars => RowInv'
<1> SUFFICES ASSUME TypeOK, LockInv, RowInv, NoOrphanClaim, [Next]_vars PROVE RowInv'
  OBVIOUS
<1>1. \A t \in lapsed' : row'[t] # None
  <2>1. CASE row' = row /\ lapsed' = lapsed
    BY <2>1 DEF RowInv
  <2>2. ASSUME NEW c \in Callers, DiscardRow(c) \/ Save(c) PROVE \A t \in lapsed' : row'[t] # None
    BY <2>2, AbsentDiffers DEF DiscardRow, Save, RowInv, TypeOK
  <2>3. ASSUME NEW t \in Tasks, Lapse(t) PROVE \A u \in lapsed' : row'[u] # None
    BY <2>3 DEF Lapse, Valid, RowInv
  <2> QED BY <2>1, <2>2, <2>3, RowsChange
<1>2. ASSUME NEW c \in Callers, Call(c) \/ Work(c), NEW b \in Callers PROVE RowOf(b)'
  <2>1. CASE b = c
    BY <1>2, <2>1, RowOwn
  <2>2. CASE b # c /\ op[b].at \notin RowPoints
    BY <1>2, <2>2, OthersOp DEF RowOf, RowPoints
  <2>3. CASE b # c /\ op[b].at \in RowPoints
    <3>1. /\ row' = row /\ lapsed' = lapsed
          /\ \A t \in Tasks : entry[t] \in {None, Absent} => entry'[t] \in {None, Absent}
      BY <1>2, <2>3, OthersRows
    <3>2. /\ op'[b].call = op[b].call /\ op'[b].at = op[b].at /\ op'[b].task = op[b].task
          /\ op'[b].todo = op[b].todo
      BY <1>2, <2>3, OthersOp
    <3>3. RowOf(b) /\ (op[b].at \in TaskPoints => op[b].task \in Tasks)
      BY DEF RowInv, RowOf, LockInv
    <3> QED BY <3>1, <3>2, <3>3 DEF RowOf, TaskPoints
  <2> QED BY <2>1, <2>2, <2>3
<1>3. ASSUME Clock \/ UNCHANGED vars, NEW b \in Callers PROVE RowOf(b)'
  <2>1. op' = op /\ row' = row /\ entry' = entry /\ lapsed \subseteq lapsed'
    BY <1>3 DEF Clock, Age, Lapse, Readiness, vars, rowVars, queueVars
  <2> QED BY <2>1 DEF RowInv, RowOf
<1>4. ASSUME NEW b \in Callers PROVE RowOf(b)'
  BY <1>2, <1>3 DEF Next
<1> QED BY <1>1, <1>4 DEF RowInv, RowOf

-----------------------------------------------------------------------------
(* Claims have their reservations.                                         *)

\* Only reserving claims a task.
LEMMA Claimed ==
  ASSUME TypeOK, [Next]_vars, NEW t \in Tasks, NEW c \in Callers, entry'[t] = c
  PROVE  entry[t] = c \/ (ReserveClaim(c) /\ op[c].task = t /\ op'[c].at = "save")
<1> USE AbsentDiffers DEF TypeOK, queueVars, rowVars
<1>1. ASSUME NEW b \in Callers, Call(b) PROVE entry[t] = c
  <2>1. entry'[t] \in {entry[t], None, Absent}
    BY <1>1 DEF Call, Enqueue, Remove, Gone, Reserve, Rebalance, Holding, Release, Expire, DeadLetter,
      Restore, ExpireStale, ExpireAll
  <2> QED BY <2>1
<1>2. ASSUME NEW b \in Callers, Work(b), ~ReserveClaim(b) PROVE entry[t] = c
  <2>1. entry'[t] \in {entry[t], None, Absent}
    BY <1>2 DEF Work, Row, DiscardClaim, DiscardRow, Save, Unlock, SweepInside, SweptInside, Judge,
      TakeOut, Judged, Gone, Bury, Note, RestoreEnqueue, Forget
  <2> QED BY <2>1
<1>3. ASSUME NEW b \in Callers, ReserveClaim(b)
      PROVE  entry[t] = c \/ (ReserveClaim(c) /\ op[c].task = t /\ op'[c].at = "save")
  <2>1. CASE entry' = entry
    BY <2>1
  <2>2. CASE OpIs(b, op[b].call, "save", op[b].task, op[b].todo, op[b].raced)
             /\ entry[op[b].task] \in {None, b} /\ entry' = [entry EXCEPT ![op[b].task] = b]
    <3>1. CASE op[b].task = t
      BY <1>3, <2>2, <3>1 DEF OpIs
    <3>2. CASE op[b].task # t
      BY <2>2, <3>2
    <3> QED BY <3>1, <3>2
  <2> QED BY <1>3, <2>1, <2>2, RowMoves
<1>4. CASE Clock \/ UNCHANGED vars
  BY <1>4 DEF Clock, Age, Lapse, Readiness, vars
<1> QED BY <1>1, <1>2, <1>3, <1>4 DEF Next

LEMMA OrphanNext == TypeOK /\ LockInv /\ RowInv /\ NoOrphanClaim /\ [Next]_vars => NoOrphanClaim'
<1> SUFFICES ASSUME TypeOK, LockInv, RowInv, NoOrphanClaim, [Next]_vars,
                    NEW t \in Tasks, NEW c \in Callers, entry'[t] = c
             PROVE  row'[t] = c \/ (op'[c].at = "save" /\ op'[c].task = t)
  BY DEF NoOrphanClaim, At
<1>1. CASE ReserveClaim(c) /\ op[c].task = t /\ op'[c].at = "save"
  BY <1>1, RowMoves DEF OpIs
<1>2. CASE entry[t] = c /\ row[t] = c
  <2>1. ASSUME NEW b \in Callers, DiscardRow(b) PROVE row'[t] = c
    <3>1. op[b].task # t
      BY <1>2, <2>1, AbsentDiffers DEF DiscardRow, At, RowInv
    <3> QED BY <1>2, <2>1, <3>1 DEF DiscardRow, TypeOK
  <2>2. ASSUME NEW b \in Callers, Save(b) PROVE row'[t] = c
    <3>1. op[b].task # t
      BY <1>2, <2>2, AbsentDiffers DEF Save, At, RowInv
    <3> QED BY <1>2, <2>2, <3>1 DEF Save, TypeOK
  <2>3. CASE \E u \in Tasks : Lapse(u)
    BY <1>2, <2>3 DEF Lapse
  <2> QED BY <1>2, <2>1, <2>2, <2>3, RowsChange
<1>3. CASE entry[t] = c /\ op[c].at = "save" /\ op[c].task = t
  <2>1. ASSUME NEW b \in Callers \ {c}, Call(b) \/ Work(b) PROVE op'[c].at = "save" /\ op'[c].task = t
    BY <1>3, <2>1, OthersOp
  <2>2. CASE Call(c) \/ Work(c)
    <3>1. Save(c)
      BY <1>3, <2>2 DEF Call, Work, At, Enqueue, Remove, Reserve, Rebalance, Holding, Release, Expire,
        DeadLetter, Restore, ExpireStale, ExpireAll, Row, DiscardClaim, DiscardRow, ReserveClaim,
        Unlock, SweepInside, SweptInside, Judge, TakeOut, Judged, Bury, Note, RestoreEnqueue, Forget
    <3> QED BY <1>3, <3>1 DEF Save, TypeOK
  <2>3. CASE Clock \/ UNCHANGED vars
    BY <1>3, <2>3 DEF Clock, Age, Lapse, Readiness, vars
  <2> QED BY <2>1, <2>2, <2>3 DEF Next
<1> QED BY <1>1, <1>2, <1>3, Claimed DEF NoOrphanClaim, At

-----------------------------------------------------------------------------
(* Reserved entries are not taken out.                                     *)

LEMMA RaceNext == TypeOK /\ LockInv /\ RaceInv /\ [Next]_vars => RaceInv'
<1> SUFFICES ASSUME TypeOK, LockInv, RaceInv, [Next]_vars, NEW b \in Callers, NEW c \in Callers,
                    op'[c].at \in {"judge", "remove"}, op'[b].at = "save"
             PROVE  op'[b].task \in op'[c].raced
  BY DEF RaceInv
<1>1. b # c
  OBVIOUS
<1>2. CASE Call(c) \/ Work(c)
  <2>1. op[b].at = "save" /\ op'[b].task = op[b].task
    BY <1>1, <1>2, OthersOp
  <2>2. \/ op'[c].raced = op[c].raced /\ op[c].at \in {"judge", "remove"}
        \/ op'[c].raced = Claiming
    <3>1. CASE UNCHANGED op
      BY <3>1
    <3>2. CASE Call(c) /\ ~UNCHANGED op
      BY <3>2, BeginMoves DEF Call, Enqueue, Remove, OpIs
    <3>3. CASE Row(c) \/ DiscardClaim(c) \/ DiscardRow(c) \/ ReserveClaim(c) \/ Save(c) \/ Unlock(c)
      BY <3>3, RowMoves DEF OpIs
    <3>4. CASE SweepInside(c) \/ SweptInside(c) \/ Judged(c)
      BY <3>4, QueueMoves DEF OpIs
    <3>5. CASE Judge(c) \/ TakeOut(c)
      BY <3>5, QueueMoves DEF OpIs, Judge, TakeOut, At
    <3>6. CASE Bury(c) \/ Note(c) \/ RestoreEnqueue(c) \/ Forget(c)
      BY <3>6, DeadMoves DEF OpIs
    <3> QED BY <1>2, <3>1, <3>2, <3>3, <3>4, <3>5, <3>6 DEF Work
  <2>3. op[b].task \in Claiming
    <3>1. op[b].task \in Tasks
      BY <2>1 DEF LockInv, TaskPoints
    <3> QED BY <2>1, <3>1 DEF Claiming, At
  <2> QED BY <2>1, <2>2, <2>3 DEF RaceInv
<1>3. ASSUME NEW d \in Callers \ {c}, Call(d) \/ Work(d) PROVE op'[b].task \in op'[c].raced
  <2>1. op[c].at \in {"judge", "remove"} /\ op'[c].raced = op[c].raced
    BY <1>3, OthersOp
  <2>2. op[b].at = "save" /\ op'[b].task = op[b].task
    <3>1. CASE d = b
      BY <1>3, <2>1, <3>1, OthersQueue DEF QueuePoints
    <3>2. CASE d # b
      BY <1>3, <3>2, OthersOp
    <3> QED BY <3>1, <3>2
  <2> QED BY <2>1, <2>2 DEF RaceInv
<1>4. CASE Clock \/ UNCHANGED vars
  BY <1>4 DEF Clock, Age, Lapse, Readiness, vars, RaceInv
<1> QED BY <1>2, <1>3, <1>4 DEF Next

LEMMA ReservedNext ==
  TypeOK /\ LockInv /\ RowInv /\ RaceInv /\ ReservedKept /\ [Next]_vars => ReservedKept'
<1> SUFFICES ASSUME TypeOK, LockInv, RowInv, RaceInv, ReservedKept, [Next]_vars, NEW c \in Callers,
                    op'[c].at = "remove", Valid(op[c].task)'
             PROVE  op'[c].task \in op'[c].raced
  BY DEF ReservedKept, At
<1>1. CASE op[c].at = "remove" /\ op'[c].task = op[c].task /\ op'[c].raced = op[c].raced
  <2> DEFINE t == op[c].task
  <2>1. t \in Tasks
    BY <1>1 DEF LockInv, TaskPoints
  <2>2. Valid(t) => t \in op[c].raced
    BY <1>1 DEF ReservedKept, At
  <2>3. row'[t] # None /\ t \notin lapsed'
    BY <1>1 DEF Valid
  <2>4. ASSUME NEW b \in Callers, DiscardRow(b) PROVE Valid(t)
    <3>1. row' = [row EXCEPT ![op[b].task] = None] /\ lapsed' = lapsed \ {op[b].task}
      BY <2>4 DEF DiscardRow
    <3>2. op[b].task # t
      BY <2>1, <2>3, <3>1 DEF TypeOK
    <3> QED BY <2>1, <2>3, <3>1, <3>2 DEF Valid, TypeOK
  <2>5. ASSUME NEW b \in Callers, Save(b) PROVE Valid(t) \/ t \in op[c].raced
    <3>1. row' = [row EXCEPT ![op[b].task] = b] /\ lapsed' = lapsed /\ op[b].at = "save"
      BY <2>5 DEF Save, At
    <3>2. CASE op[b].task = t
      BY <1>1, <3>1, <3>2 DEF RaceInv
    <3>3. CASE op[b].task # t
      BY <2>1, <2>3, <3>1, <3>3 DEF Valid, TypeOK
    <3> QED BY <3>2, <3>3
  <2>6. ASSUME NEW u \in Tasks, Lapse(u) PROVE Valid(t)
    <3>1. row' = row /\ lapsed' = lapsed \cup {u}
      BY <2>6 DEF Lapse
    <3> QED BY <2>3, <3>1 DEF Valid
  <2>7. CASE row' = row /\ lapsed' = lapsed
    BY <1>1, <2>2, <2>3, <2>7 DEF Valid
  <2> QED BY <1>1, <2>2, <2>4, <2>5, <2>6, <2>7, RowsChange
<1>2. CASE Judge(c)
  <2>1. PICK t \in op[c].todo :
              OpIs(c, op[c].call, IF Spared(c, t) THEN "judge" ELSE "remove",
                   IF Spared(c, t) THEN None ELSE t, op[c].todo \ {t}, op[c].raced)
    BY <1>2, QueueMoves
  <2>2. op'[c].task = t /\ ~Spared(c, t)
    BY <2>1 DEF OpIs
  <2> QED BY <1>2, <2>2 DEF Judge, rowVars, Spared, Valid
<1>3. CASE (Call(c) \/ Work(c)) /\ ~Judge(c)
  <2>1. CASE UNCHANGED op
    BY <1>1, <2>1
  <2>2. CASE Call(c) /\ ~UNCHANGED op
    BY <2>2, BeginMoves DEF Call, Enqueue, Remove, OpIs
  <2>3. CASE Row(c) \/ DiscardClaim(c) \/ DiscardRow(c) \/ ReserveClaim(c) \/ Save(c) \/ Unlock(c)
    BY <2>3, RowMoves DEF OpIs
  <2>4. CASE SweepInside(c) \/ SweptInside(c) \/ Judged(c) \/ TakeOut(c)
    BY <2>4, QueueMoves DEF OpIs
  <2>5. CASE Bury(c) \/ Note(c) \/ RestoreEnqueue(c) \/ Forget(c)
    BY <2>5, DeadMoves DEF OpIs
  <2> QED BY <1>3, <2>1, <2>2, <2>3, <2>4, <2>5 DEF Work
<1>4. ASSUME NEW d \in Callers \ {c}, Call(d) \/ Work(d) PROVE op'[c].task \in op'[c].raced
  BY <1>1, <1>4, OthersOp
<1>5. CASE Clock \/ UNCHANGED vars
  BY <1>1, <1>5 DEF Clock, Age, Lapse, Readiness, vars
<1> QED BY <1>2, <1>3, <1>4, <1>5 DEF Next

-----------------------------------------------------------------------------
(* Tasks are kept.                                                         *)

\* Which steps take a task out, put it on the record or delete a dead letter.
LEMMA QueueChange ==
  ASSUME TypeOK, LockInv, [Next]_vars, NEW t \in Tasks
  PROVE  \/ t \in Queued /\ t \notin Queued' /\ t \notin kept'
         \/ \E c \in Callers : Bury(c) /\ op[c].task = t
         \/ /\ t \in Queued => t \in Queued'
            /\ t \in kept' /\ t \notin kept =>
                 t \in Queued' \/ (\E c \in Callers : Note(c) /\ op[c].task = t)
<1> DEFINE Goal == \/ t \in Queued /\ t \notin Queued' /\ t \notin kept'
                   \/ \E c \in Callers : Bury(c) /\ op[c].task = t
                   \/ /\ t \in Queued => t \in Queued'
                      /\ t \in kept' /\ t \notin kept =>
                           t \in Queued' \/ (\E c \in Callers : Note(c) /\ op[c].task = t)
<1> USE AbsentDiffers DEF TypeOK, Queued, queueVars, rowVars, history
<1>1. ASSUME NEW c \in Callers, NEW S \in SUBSET Tasks, Enqueue(c, S) PROVE Goal
  BY <1>1 DEF Enqueue
<1>2. ASSUME NEW c \in Callers, NEW S \in SUBSET Tasks, Remove(c, S) PROVE Goal
  BY <1>2 DEF Remove, Gone
<1>3. ASSUME NEW c \in Callers, Call(c), UNCHANGED <<entry, kept>> PROVE Goal
  BY <1>3
<1>4. ASSUME NEW c \in Callers, Call(c) PROVE Goal
  <2>1. UNCHANGED <<entry, kept>> \/ \E S \in SUBSET Tasks : Enqueue(c, S) \/ Remove(c, S)
    BY <1>4 DEF Call, Reserve, Rebalance, Holding, Release, Expire, DeadLetter, Restore,
      ExpireStale, ExpireAll
  <2> QED BY <1>1, <1>2, <1>3, <1>4, <2>1
<1>5. ASSUME NEW c \in Callers, DiscardClaim(c) \/ ReserveClaim(c) PROVE Goal
  <2>1. kept' = kept /\ (entry'[t] = Absent => entry[t] = Absent)
    BY <1>5 DEF DiscardClaim, ReserveClaim
  <2> QED BY <2>1
<1>6. ASSUME NEW c \in Callers, TakeOut(c) PROVE Goal
  BY <1>6 DEF TakeOut, Gone
<1>7. ASSUME NEW c \in Callers, Bury(c) PROVE Goal
  BY <1>7 DEF Bury, Gone
<1>8. ASSUME NEW c \in Callers, Note(c) PROVE Goal
  BY <1>8 DEF Note
<1>9. ASSUME NEW c \in Callers, RestoreEnqueue(c) PROVE Goal
  <2>1. op[c].task \in Tasks
    BY <1>9 DEF RestoreEnqueue, At, LockInv, TaskPoints
  <2>2. /\ entry'[t] = Absent => entry[t] = Absent
        /\ t \in kept' /\ t \notin kept => entry'[t] # Absent
    BY <1>9, <2>1 DEF RestoreEnqueue
  <2> QED BY <2>2
<1>10. ASSUME NEW c \in Callers,
              \/ Row(c) \/ DiscardRow(c) \/ Save(c) \/ Unlock(c) \/ SweepInside(c) \/ SweptInside(c)
              \/ Judge(c) \/ Judged(c) \/ Forget(c)
       PROVE  Goal
  <2>1. entry' = entry /\ kept' = kept
    BY <1>10 DEF Row, DiscardRow, Save, Unlock, SweepInside, SweptInside, Judge, Judged, Forget
  <2> QED BY <2>1
<1>11. CASE Clock \/ UNCHANGED vars
  <2>1. entry' = entry /\ kept' = kept
    BY <1>11 DEF Clock, Age, Lapse, Readiness, vars
  <2> QED BY <2>1
<1> QED BY <1>4, <1>5, <1>6, <1>7, <1>8, <1>9, <1>10, <1>11 DEF Next, Work

\* Only a note and a forget change the dead letters.
LEMMA DeadChange ==
  ASSUME TypeOK, [Next]_vars
  PROVE  \/ dead' = dead /\ clash' = clash
         \/ \E c \in Callers : Note(c) \/ Forget(c)
<1> USE DEF history
<1>1. ASSUME NEW c \in Callers, Call(c) PROVE dead' = dead /\ clash' = clash
  BY <1>1 DEF Call, Enqueue, Remove, Reserve, Rebalance, Holding, Release, Expire, DeadLetter,
    Restore, ExpireStale, ExpireAll
<1>2. ASSUME NEW c \in Callers, Work(c), ~Note(c), ~Forget(c) PROVE dead' = dead /\ clash' = clash
  BY <1>2 DEF Work, Row, DiscardClaim, DiscardRow, ReserveClaim, Save, Unlock, SweepInside,
    SweptInside, Judge, TakeOut, Judged, Bury, RestoreEnqueue
<1>3. CASE Clock \/ UNCHANGED vars
  BY <1>3 DEF Clock, Age, Lapse, Readiness, vars
<1> QED BY <1>1, <1>2, <1>3 DEF Next

\* A task on its way to the dead letters goes on until it is noted.
LEMMA NoteStays ==
  ASSUME TypeOK, [Next]_vars, NEW b \in Callers, op[b].at = "note"
  PROVE  Note(b) \/ (op'[b].at = "note" /\ op'[b].task = op[b].task)
<1>1. ASSUME NEW c \in Callers \ {b}, Call(c) \/ Work(c)
      PROVE  op'[b].at = "note" /\ op'[b].task = op[b].task
  BY <1>1, OthersOp
<1>2. CASE Call(b) \/ Work(b)
  BY <1>2 DEF Call, Work, At, Enqueue, Remove, Reserve, Rebalance, Holding, Release, Expire,
    DeadLetter, Restore, ExpireStale, ExpireAll, Row, DiscardClaim, DiscardRow, ReserveClaim, Save,
    Unlock, SweepInside, SweptInside, Judge, TakeOut, Judged, Bury, RestoreEnqueue, Forget
<1>3. CASE Clock \/ UNCHANGED vars
  BY <1>3 DEF Clock, Age, Lapse, Readiness, vars
<1> QED BY <1>1, <1>2, <1>3 DEF Next

\* A placed task stays placed unless it is noted.
LEMMA PlacedNext ==
  ASSUME TypeOK, LockInv, [Next]_vars, NEW t \in Tasks, Placed(t), t \in kept'
  PROVE  Placed(t)' \/ \E c \in Callers : Note(c) /\ op[c].task = t
<1> SUFFICES ASSUME ~\E c \in Callers : Note(c) /\ op[c].task = t PROVE Placed(t)'
  OBVIOUS
<1>1. CASE \E c \in Callers : Bury(c) /\ op[c].task = t
  <2>1. PICK c \in Callers : Bury(c) /\ op[c].task = t
    BY <1>1
  <2>2. op'[c].at = "note" /\ op'[c].task = t
    BY <2>1, DeadMoves DEF OpIs
  <2> QED BY <2>2 DEF Placed
<1>2. CASE t \in Queued /\ ~\E c \in Callers : Bury(c) /\ op[c].task = t
  BY <1>2, QueueChange DEF Placed
<1>3. CASE t \in clash
  <2>1. ASSUME NEW c \in Callers, Note(c) PROVE t \in clash'
    BY <1>3, <2>1 DEF Note
  <2>2. ASSUME NEW c \in Callers, Forget(c) PROVE t \in clash'
    BY <1>3, <2>2 DEF Forget
  <2> QED BY <1>3, <2>1, <2>2, DeadChange DEF Placed
<1>4. CASE \E b \in Callers : op[b].at = "note" /\ op[b].task = t
  BY <1>4, NoteStays DEF Placed
<1> QED BY <1>1, <1>2, <1>3, <1>4 DEF Placed

\* A noted task is a dead letter, and restores that read an older one know it.
LEMMA Noted ==
  ASSUME TypeOK, NEW c \in Callers, Note(c)
  PROVE  /\ op[c].task \in dead'
         /\ \A b \in Callers \ {c} :
              op[b].call = "restore" /\ op[b].task = op[c].task => op'[b].other
BY DeadMoves DEF Note

LEMMA TaskNext ==
  TypeOK /\ LockInv /\ ForgetInv /\ TaskKept /\ [Next]_vars => TaskKept'
<1> SUFFICES ASSUME TypeOK, LockInv, ForgetInv, TaskKept, [Next]_vars, NEW t \in kept'
             PROVE  Placed(t)' \/ t \in dead'
  BY DEF TaskKept, Placed, At
<1>1. t \in Tasks
  BY TypeNext DEF TypeOK
<1>2. CASE t \notin kept
  <2>1. ~\E c \in Callers : Bury(c) /\ op[c].task = t
    BY <1>2 DEF Bury, history
  <2> QED BY <1>1, <1>2, <2>1, QueueChange, Noted DEF Placed
<1>3. CASE t \in kept /\ Placed(t)
  BY <1>1, <1>3, PlacedNext, Noted
<1>4. CASE t \in kept /\ ~Placed(t)
  <2>1. t \in dead
    BY <1>4 DEF TaskKept, Placed, At
  <2>2. ASSUME NEW c \in Callers, Forget(c) PROVE t \in dead' \/ t \in clash'
    <3>1. op[c].at = "forget" /\ dead' = dead \ {op[c].task}
      BY <2>2 DEF Forget, At
    <3>2. CASE op[c].task = t
      <4>1. op[c].other
        BY <1>4, <3>1, <3>2 DEF ForgetInv
      <4> QED BY <2>1, <2>2, <3>2, <4>1 DEF Forget
    <3> QED BY <2>1, <3>1, <3>2
  <2>3. ASSUME NEW c \in Callers, Note(c) PROVE t \in dead'
    BY <2>1, <2>3 DEF Note
  <2> QED BY <2>1, <2>2, <2>3, DeadChange DEF Placed
<1> QED BY <1>2, <1>3, <1>4

LEMMA ForgetNext ==
  TypeOK /\ LockInv /\ ForgetInv /\ TaskKept /\ [Next]_vars => ForgetInv'
<1> SUFFICES ASSUME TypeOK, LockInv, ForgetInv, TaskKept, [Next]_vars, NEW c \in Callers,
                    NEW t, op'[c].task = t
             PROVE  /\ op'[c].at \in {"enqueue", "forget"} => op'[c].call = "restore"
                    /\ op'[c].at = "forget" /\ t \in kept' =>
                         Placed(t)' \/ (op'[c].other /\ t \in dead')
  BY DEF ForgetInv, Placed
<1> DEFINE Goes  == op'[c].at \in {"enqueue", "forget"}
           Stays == /\ op[c].at = op'[c].at /\ op'[c].call = op[c].call
                    /\ op'[c].task = op[c].task
                    /\ op[c].other => op'[c].other
<1>1. CASE Goes /\ ~Stays
  <2>1. Call(c) \/ Work(c)
    <3>1. ASSUME NEW d \in Callers \ {c}, Call(d) \/ Work(d) PROVE FALSE
      BY <1>1, <3>1, OthersOp
    <3>2. CASE Clock \/ UNCHANGED vars
      BY <1>1, <3>2 DEF Clock, Age, Lapse, Readiness, vars
    <3> QED BY <3>1, <3>2 DEF Next
  <2>2. CASE Call(c)
    <3>1. op' # op
      BY <1>1
    <3> QED BY <1>1, <2>2, <3>1, BeginMoves DEF Call, Enqueue, Remove, OpIs
  <2>3. CASE Row(c) \/ DiscardClaim(c) \/ DiscardRow(c) \/ ReserveClaim(c) \/ Save(c) \/ Unlock(c)
    BY <1>1, <2>3, RowMoves DEF OpIs
  <2>4. CASE SweepInside(c) \/ SweptInside(c) \/ Judge(c) \/ TakeOut(c) \/ Judged(c)
    BY <1>1, <2>4, QueueMoves DEF OpIs
  <2>5. CASE Bury(c) \/ Note(c) \/ Forget(c)
    BY <1>1, <2>5, DeadMoves DEF OpIs
  <2>6. CASE RestoreEnqueue(c)
    <3>1. op[c].at = "enqueue" /\ op[c].task \in Tasks /\ op[c].call = "restore"
      BY <2>6 DEF RestoreEnqueue, At, LockInv, TaskPoints, ForgetInv
    <3>2. /\ op'[c].at = "forget" /\ op'[c].call = op[c].call /\ op'[c].task = op[c].task
          /\ entry' = IF op[c].task \in Queued THEN entry ELSE [entry EXCEPT ![op[c].task] = None]
      BY <1>1, <2>6, DeadMoves DEF OpIs
    <3>3. t \in Queued'
      BY <3>1, <3>2, AbsentDiffers DEF Queued, TypeOK
    <3> QED BY <3>1, <3>2, <3>3 DEF Placed
  <2> QED BY <2>1, <2>2, <2>3, <2>4, <2>5, <2>6 DEF Work
<1>2. CASE Goes /\ Stays
  <2>1. op'[c].call = "restore"
    BY <1>2 DEF ForgetInv
  <2>2. ASSUME op'[c].at = "forget", t \in kept'
        PROVE  Placed(t)' \/ (op'[c].other /\ t \in dead')
    <3>1. t \in Tasks /\ op[c].at = "forget"
      BY <1>2, <2>2 DEF LockInv, TaskPoints
    <3>2. ASSUME NEW d \in Callers, Note(d), op[d].task = t PROVE op'[c].other /\ t \in dead'
      <4>1. d # c
        BY <3>1, <3>2 DEF Note, At
      <4> QED BY <1>2, <2>1, <3>2, <4>1, Noted
    <3>3. CASE t \notin kept
      <4>1. ~\E d \in Callers : Bury(d) /\ op[d].task = t
        BY <2>2, <3>3 DEF Bury, history
      <4> QED BY <2>2, <3>1, <3>2, <3>3, <4>1, QueueChange DEF Placed
    <3>4. CASE t \in kept /\ Placed(t)
      BY <2>2, <3>1, <3>2, <3>4, PlacedNext
    <3>5. CASE t \in kept /\ ~Placed(t)
      <4>1. op[c].other /\ t \in dead
        BY <1>2, <3>1, <3>5 DEF ForgetInv
      <4>2. t \in dead' \/ Placed(t)'
        <5>1. TaskKept'
          BY TaskNext
        <5>2. t \in kept'
          BY <2>2
        <5>3. \/ t \in Queued' \cup dead' \cup clash'
              \/ \E b \in Callers : op'[b].at = "note" /\ op'[b].task = t
          BY <5>1, <5>2 DEF TaskKept, At
        <5> QED BY <5>3 DEF Placed
      <4>3. op'[c].other
        BY <1>2, <4>1
      <4> QED BY <4>2, <4>3
    <3> QED BY <3>3, <3>4, <3>5
  <2> QED BY <1>2, <2>1, <2>2
<1>3. CASE ~Goes
  BY <1>3
<1> HIDE DEF Goes, Stays
<1> QED BY <1>1, <1>2, <1>3

-----------------------------------------------------------------------------
(* The theorems.                                                           *)

LEMMA InvInit == Init => IInv
<1> SUFFICES ASSUME Init PROVE IInv
  OBVIOUS
<1>1. \A c \in Callers : op[c].at = "idle" /\ op[c].call = "none"
  BY DEF Init, Rest
<1>2. /\ kept = {} /\ lapsed = {} /\ \A t \in Tasks : entry[t] = Absent
  BY DEF Init
<1> QED BY <1>1, <1>2, TypeInit, AbsentDiffers DEF IInv, LockInv, RowInv, RaceInv, ForgetInv,
      NoOrphanClaim, ReservedKept, TaskKept, At, RowPoints, QueuePoints, TaskPoints

LEMMA InvNext == IInv /\ [Next]_vars => IInv'
BY TypeNext, LockNext, RowNext, RaceNext, ForgetNext, OrphanNext, ReservedNext, TaskNext DEF IInv

LEMMA Invariant == Spec => []IInv
BY InvInit, InvNext, PTL DEF Spec

\* Every variable always has its type.
THEOREM TypeCorrect == Spec => []TypeOK
<1>1. IInv => TypeOK
  BY DEF IInv
<1> QED BY <1>1, Invariant, PTL

\* No claim is ever left without the reservation that will end it.
THEOREM ClaimsReserved == Spec => []NoOrphanClaim
<1>1. IInv => NoOrphanClaim
  BY DEF IInv
<1> QED BY <1>1, Invariant, PTL

\* No validly reserved entry is expired or rebalanced away, but for the race of
\* a reserve that had not saved its reservation.
THEOREM ReservationsKept == Spec => []ReservedKept
<1>1. IInv => ReservedKept
  BY DEF IInv
<1> QED BY <1>1, Invariant, PTL

\* No task is lost between the queue and the dead letters, but for the race of
\* a restore with a newer dead letter.
THEOREM TasksKept == Spec => []TaskKept
<1>1. IInv => TaskKept
  BY DEF IInv
<1> QED BY <1>1, Invariant, PTL

\* A valid reservation ends only by its owner's release or its window.
THEOREM LeasesHeld == Spec => LeaseHeld
<1> DEFINE Held(t) == Valid(t) => \/ row'[t] = row[t]
                                  \/ op[row[t]].call = "release" /\ op[row[t]].task = t
<1>1. ASSUME IInv, [Next]_vars, NEW t \in Tasks PROVE Held(t)
  <2> SUFFICES ASSUME row[t] # None, t \notin lapsed PROVE Held(t)
    BY DEF Valid
  <2> USE <1>1 DEF IInv, TypeOK, At
  <2>1. ASSUME NEW c \in Callers, DiscardRow(c), op[c].task = t PROVE Held(t)
    BY <2>1 DEF DiscardRow, RowInv
  <2>2. ASSUME NEW c \in Callers, Save(c) PROVE op[c].task # t
    BY <2>2 DEF Save, RowInv
  <2>3. ASSUME NEW c \in Callers, DiscardRow(c) \/ Save(c), op[c].task # t PROVE row'[t] = row[t]
    BY <2>3 DEF DiscardRow, Save
  <2>4. CASE \E u \in Tasks : Lapse(u)
    BY <2>4 DEF Lapse
  <2> QED BY <2>1, <2>2, <2>3, <2>4, RowsChange
<1>2. IInv /\ [Next]_vars => \A t \in Tasks : Held(t)
  BY <1>1
<1> QED BY <1>2, Invariant, PTL DEF Spec, LeaseHeld
=============================================================================
