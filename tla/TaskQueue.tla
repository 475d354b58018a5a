----------------------------- MODULE TaskQueue ------------------------------
(***************************************************************************)
(* The agent task queue and the services around it that share its entries: *)
(* reservations, expiration, rebalancing and dead letters                  *)
(* (the packages backend/agent_task_queue_...).  The queue and the         *)
(* reservations have a lock each, and a call of one service runs calls of  *)
(* the other while it holds its own; the dead letters have none.  Whether  *)
(* a reservation is valid is read without its lock.                        *)
(*                                                                         *)
(* A caller is a thread and reserves under its own name; tasks are claimed *)
(* by reserving them.  A batch call is the call on a set of tasks.         *)
(* Priorities and the order of the queue are left out, times are two       *)
(* facts: a reservation has lapsed, an entry is over its queue lifetime.   *)
(* The stores are the in-memory ones.                                      *)
(***************************************************************************)
EXTENDS FiniteSets

CONSTANTS Tasks, Callers, None

ASSUME NoneAssumption == None \notin Callers \cup {"absent"} /\ "absent" \notin Callers

VARIABLES
  entry,    \* the queue: who claims each queued task
  aged,     \* the queued tasks over their queue lifetime
  row,      \* the reservations: who holds each reserved task
  lapsed,   \* the reserved tasks whose window is over
  dead,     \* the dead letters
  ready,    \* the tasks readiness_service.is_ready says yes to
  queueLock, rowLock,  \* who holds each lock
  op,       \* the call of each caller: its next step and locals
  kept,     \* history: the tasks taken in and not taken out on purpose
  clash     \* history: the tasks whose newer dead letter an older restore deleted

queueVars == <<entry, aged>>
rowVars   == <<row, lapsed>>
history   == <<kept, clash>>
vars == <<entry, aged, row, lapsed, dead, ready, queueLock, rowLock, op, kept, clash>>

-----------------------------------------------------------------------------
Absent  == "absent"
Entries == Callers \cup {None, Absent}

Calls  == {"none", "reserve", "release", "sweep", "expire", "expire_all", "rebalance",
           "dead_letter", "restore"}
Points == {"idle", "row", "unclaim", "delete", "claim", "save", "sweep", "judge", "remove",
           "bury", "note", "enqueue", "forget"}

\* task: the one at hand; todo: those still to come; raced: history, the tasks
\* a reserve had claimed but not saved when the call took the queue's lock;
\* other: history, the dead letter a restore read is no longer the stored one.
Ops == [call : Calls, at : Points, task : Tasks \cup {None}, todo : SUBSET Tasks,
        raced : SUBSET Tasks, other : BOOLEAN]

Rest == [call |-> "none", at |-> "idle", task |-> None, todo |-> {}, raced |-> {},
         other |-> FALSE]

At(c, s)    == op[c].at = s
Begin(c, f, s, S) == op' = [op EXCEPT ![c] = [Rest EXCEPT !.call = f, !.at = s, !.todo = S]]
Step(c, s)  == op' = [op EXCEPT ![c].at = s]
Return(c)   == op' = [op EXCEPT ![c] = Rest]

QueueFree(c) == queueLock \in {None, c}

Queued == {t \in Tasks : entry[t] # Absent}

\* get_reservation: a reservation whose window is over reads as none.
Valid(t) == row[t] # None /\ t \notin lapsed

-----------------------------------------------------------------------------
(* LLMAgentTaskQueueService, and the batches over it.                      *)

Enqueue(c, S) ==
  /\ At(c, "idle") /\ QueueFree(c)
  /\ LET new == (S \cap ready) \ Queued IN
     /\ entry' = [t \in Tasks |-> IF t \in new THEN None ELSE entry[t]]
     /\ kept' = kept \cup new
  /\ UNCHANGED <<aged, rowVars, dead, ready, queueLock, rowLock, op, clash>>

\* Mutant: a queued task keeps the age it had before.
MutantGone(S) ==
  /\ entry' = [t \in Tasks |-> IF t \in S THEN Absent ELSE entry[t]]
  /\ UNCHANGED aged

Gone(S) ==
  /\ entry' = [t \in Tasks |-> IF t \in S THEN Absent ELSE entry[t]]
  /\ aged' = aged \ S

Remove(c, S) ==
  /\ At(c, "idle") /\ QueueFree(c)
  /\ Gone(S) /\ kept' = kept \ S
  /\ UNCHANGED <<rowVars, dead, ready, queueLock, rowLock, op, clash>>

-----------------------------------------------------------------------------
(* LLMAgentTaskQueueReservationService: each call holds the reservations'  *)
(* lock, and takes the queue's inside it.                                  *)

Locked(c) == rowLock = None /\ rowLock' = c

\* One task, or the many of claim_many.
Reserve(c, S) ==
  /\ At(c, "idle") /\ Locked(c)
  /\ Begin(c, "reserve", "row", S)
  /\ UNCHANGED <<queueVars, rowVars, dead, ready, queueLock, history>>

Release(c, t) ==
  /\ At(c, "idle") /\ Locked(c)
  /\ Begin(c, "release", "row", {t})
  /\ UNCHANGED <<queueVars, rowVars, dead, ready, queueLock, history>>

ExpireStale(c) ==
  /\ At(c, "idle") /\ Locked(c)
  /\ Begin(c, "sweep", "row", lapsed)
  /\ UNCHANGED <<queueVars, rowVars, dead, ready, queueLock, history>>

\* Mutant: a release does not ask whose reservation it is.
MutantDiscards(c, t) ==
  row[t] # None /\ (t \in lapsed \/ op[c].call # "reserve")

\* What the row of a task means to the call: discard it, claim the task, or
\* nothing to do (it is the caller's, another's, or not there).
Discards(c, t) ==
  CASE op[c].call = "reserve" -> row[t] # None /\ t \in lapsed
    [] op[c].call = "release" -> row[t] # None /\ (t \in lapsed \/ row[t] = c)
    [] OTHER -> TRUE
Claims(c, t) == op[c].call = "reserve" /\ row[t] = None

Row(c) ==
  /\ At(c, "row")
  /\ \E t \in op[c].todo :
       op' = [op EXCEPT ![c].todo = @ \ {t},
                        ![c].task = IF Discards(c, t) \/ Claims(c, t) THEN t ELSE None,
                        ![c].at = IF Discards(c, t) THEN "unclaim"
                                  ELSE IF Claims(c, t) THEN "claim" ELSE "row"]
  /\ UNCHANGED <<queueVars, rowVars, dead, ready, queueLock, rowLock, history>>

\* Mutant: the row goes and the claim stays.
MutantDiscardClaim(c) ==
  /\ At(c, "unclaim") /\ QueueFree(c)
  /\ Step(c, "delete")
  /\ UNCHANGED <<queueVars, rowVars, dead, ready, queueLock, rowLock, history>>

\* _discard: the claim under the row is released, if it still is the owner's.
DiscardClaim(c) ==
  /\ At(c, "unclaim") /\ QueueFree(c)
  /\ LET t == op[c].task IN
     entry' = IF entry[t] = row[t] THEN [entry EXCEPT ![t] = None] ELSE entry
  /\ Step(c, "delete")
  /\ UNCHANGED <<aged, rowVars, dead, ready, queueLock, rowLock, history>>

DiscardRow(c) ==
  /\ At(c, "delete")
  /\ row' = [row EXCEPT ![op[c].task] = None]
  /\ lapsed' = lapsed \ {op[c].task}
  /\ op' = IF op[c].call = "reserve" THEN [op EXCEPT ![c].at = "claim"]
           ELSE [op EXCEPT ![c].at = "row", ![c].task = None]
  /\ UNCHANGED <<queueVars, dead, ready, queueLock, rowLock, history>>

\* The task is not queued or another's, or it is claimed.
ReserveClaim(c) ==
  /\ At(c, "claim") /\ QueueFree(c)
  /\ LET t == op[c].task IN
     \/ /\ entry[t] \notin {None, c}
        /\ op' = [op EXCEPT ![c].at = "row", ![c].task = None]
        /\ UNCHANGED entry
     \/ /\ entry[t] \in {None, c}
        /\ entry' = [entry EXCEPT ![t] = c]
        /\ Step(c, "save")
  /\ UNCHANGED <<aged, rowVars, dead, ready, queueLock, rowLock, history>>

Save(c) ==
  /\ At(c, "save")
  /\ row' = [row EXCEPT ![op[c].task] = c]
  /\ op' = [op EXCEPT ![c].at = "row", ![c].task = None]
  /\ UNCHANGED <<queueVars, lapsed, dead, ready, queueLock, rowLock, history>>

\* Mutant: the lock is not given back.
MutantUnlock(c) ==
  /\ At(c, "row") /\ op[c].todo = {} /\ op[c].call # "expire_all"
  /\ Return(c)
  /\ UNCHANGED <<queueVars, rowVars, dead, ready, queueLock, rowLock, history>>

Unlock(c) ==
  /\ At(c, "row") /\ op[c].todo = {} /\ op[c].call # "expire_all"
  /\ rowLock' = None
  /\ Return(c)
  /\ UNCHANGED <<queueVars, rowVars, dead, ready, queueLock, history>>

-----------------------------------------------------------------------------
(* Expiration and rebalancing: calls that hold the queue's lock.           *)

Claiming == {t \in Tasks : \E b \in Callers : At(b, "save") /\ op[b].task = t}

Holding(c, f, s, S) ==
  /\ At(c, "idle") /\ queueLock = None /\ queueLock' = c
  /\ op' = [op EXCEPT ![c] = [Rest EXCEPT !.call = f, !.at = s, !.todo = S, !.raced = Claiming]]
  /\ UNCHANGED <<queueVars, rowVars, dead, ready, rowLock, history>>

Expire(c, t)    == t \in aged /\ Holding(c, "expire", "judge", {t})
Rebalance(c, S) == Holding(c, "rebalance", "judge", S \cap Queued)

\* expire_all sweeps the reservations first, inside the queue's lock.
ExpireAll(c) == Holding(c, "expire_all", "sweep", {})

SweepInside(c) ==
  /\ At(c, "sweep") /\ Locked(c)
  /\ op' = [op EXCEPT ![c].at = "row", ![c].todo = lapsed]
  /\ UNCHANGED <<queueVars, rowVars, dead, ready, queueLock, history>>

SweptInside(c) ==
  /\ At(c, "row") /\ op[c].todo = {} /\ op[c].call = "expire_all"
  /\ rowLock' = None
  /\ op' = [op EXCEPT ![c].at = "judge", ![c].todo = aged, ![c].raced = Claiming]
  /\ UNCHANGED <<queueVars, rowVars, dead, ready, queueLock, history>>

\* Mutant: reservations are not looked at.
MutantSpared(c, t) == op[c].call = "rebalance" /\ t \in ready

\* Reserved entries stay, and ready ones when rebalancing.
Spared(c, t) == Valid(t) \/ (op[c].call = "rebalance" /\ t \in ready)

Judge(c) ==
  /\ At(c, "judge")
  /\ \E t \in op[c].todo :
       op' = [op EXCEPT ![c].todo = @ \ {t},
                        ![c].task = IF Spared(c, t) THEN None ELSE t,
                        ![c].at = IF Spared(c, t) THEN "judge" ELSE "remove"]
  /\ UNCHANGED <<queueVars, rowVars, dead, ready, queueLock, rowLock, history>>

TakeOut(c) ==
  /\ At(c, "remove")
  /\ Gone({op[c].task}) /\ kept' = kept \ {op[c].task}
  /\ op' = [op EXCEPT ![c].at = "judge", ![c].task = None]
  /\ UNCHANGED <<rowVars, dead, ready, queueLock, rowLock, clash>>

Judged(c) ==
  /\ At(c, "judge") /\ op[c].todo = {}
  /\ queueLock' = None
  /\ Return(c)
  /\ UNCHANGED <<queueVars, rowVars, dead, ready, rowLock, history>>

-----------------------------------------------------------------------------
(* LLMAgentTaskDeadLetterService, which has no lock of its own.            *)

\* A task already set aside is left so.
DeadLetter(c, t) ==
  /\ At(c, "idle") /\ t \notin dead
  /\ op' = [op EXCEPT ![c] = [Rest EXCEPT !.call = "dead_letter", !.at = "bury", !.task = t]]
  /\ UNCHANGED <<queueVars, rowVars, dead, ready, queueLock, rowLock, history>>

Bury(c) ==
  /\ At(c, "bury") /\ QueueFree(c)
  /\ Gone({op[c].task})
  /\ Step(c, "note")
  /\ UNCHANGED <<rowVars, dead, ready, queueLock, rowLock, history>>

\* The stored dead letter of a task changes: a restore that read it holds another.
Others(c, t) == [b \in Callers |->
  IF b # c /\ op[b].call = "restore" /\ op[b].task = t THEN [op[b] EXCEPT !.other = TRUE] ELSE op[b]]

Note(c) ==
  /\ At(c, "note")
  /\ dead' = dead \cup {op[c].task} /\ kept' = kept \cup {op[c].task}
  /\ clash' = clash \ {op[c].task}
  /\ op' = [Others(c, op[c].task) EXCEPT ![c] = Rest]
  /\ UNCHANGED <<queueVars, rowVars, ready, queueLock, rowLock>>

Restore(c, t) ==
  /\ At(c, "idle") /\ t \in dead
  /\ op' = [op EXCEPT ![c] = [Rest EXCEPT !.call = "restore", !.at = "enqueue", !.task = t]]
  /\ UNCHANGED <<queueVars, rowVars, dead, ready, queueLock, rowLock, history>>

\* Mutant: the refusal of a task that is not ready is swallowed.
MutantRestoreEnqueue(c) ==
  /\ At(c, "enqueue") /\ QueueFree(c)
  /\ LET t == op[c].task IN
     entry' = IF t \in ready \ Queued THEN [entry EXCEPT ![t] = None] ELSE entry
  /\ Step(c, "forget")
  /\ UNCHANGED <<aged, rowVars, dead, ready, queueLock, rowLock, history>>

\* A task that is not ready stays set aside.
RestoreEnqueue(c) ==
  /\ At(c, "enqueue") /\ QueueFree(c)
  /\ LET t == op[c].task IN
     \/ /\ t \notin ready \cup Queued
        /\ Return(c)
        /\ UNCHANGED <<entry, kept>>
     \/ /\ t \in ready \cup Queued
        /\ entry' = IF t \in Queued THEN entry ELSE [entry EXCEPT ![t] = None]
        /\ kept' = kept \cup {t}
        /\ Step(c, "forget")
  /\ UNCHANGED <<aged, rowVars, dead, ready, queueLock, rowLock, clash>>

Forget(c) ==
  /\ At(c, "forget")
  /\ LET t == op[c].task IN
     /\ dead' = dead \ {t}
     /\ clash' = IF op[c].other /\ t \in dead THEN clash \cup {t} ELSE clash
     /\ op' = [Others(c, t) EXCEPT ![c] = Rest]
  /\ UNCHANGED <<queueVars, rowVars, ready, queueLock, rowLock, kept>>

-----------------------------------------------------------------------------
(* Time and readiness.                                                     *)

Age(t) ==
  /\ t \in Queued \ aged
  /\ aged' = aged \cup {t}
  /\ UNCHANGED <<entry, rowVars, dead, ready, queueLock, rowLock, op, history>>

Lapse(t) ==
  /\ Valid(t)
  /\ lapsed' = lapsed \cup {t}
  /\ UNCHANGED <<queueVars, row, dead, ready, queueLock, rowLock, op, history>>

Readiness(t) ==
  /\ ready' \in {ready \cup {t}, ready \ {t}}
  /\ UNCHANGED <<queueVars, rowVars, dead, queueLock, rowLock, op, history>>

Init ==
  /\ entry = [t \in Tasks |-> Absent] /\ aged = {}
  /\ row = [t \in Tasks |-> None] /\ lapsed = {}
  /\ dead = {} /\ ready = {} /\ kept = {} /\ clash = {}
  /\ queueLock = None /\ rowLock = None
  /\ op = [c \in Callers |-> Rest]

Call(c) ==
  \/ \E S \in SUBSET Tasks : Enqueue(c, S) \/ Remove(c, S) \/ Reserve(c, S) \/ Rebalance(c, S)
  \/ \E t \in Tasks : Release(c, t) \/ Expire(c, t) \/ DeadLetter(c, t) \/ Restore(c, t)
  \/ ExpireStale(c) \/ ExpireAll(c)

Work(c) ==
  \/ Row(c) \/ DiscardClaim(c) \/ DiscardRow(c) \/ ReserveClaim(c) \/ Save(c) \/ Unlock(c)
  \/ SweepInside(c) \/ SweptInside(c) \/ Judge(c) \/ TakeOut(c) \/ Judged(c)
  \/ Bury(c) \/ Note(c) \/ RestoreEnqueue(c) \/ Forget(c)

Clock == \E t \in Tasks : Age(t) \/ Lapse(t) \/ Readiness(t)

Next == (\E c \in Callers : Call(c) \/ Work(c)) \/ Clock

\* A thread that can go on does.
Spec     == Init /\ [][Next]_vars
FairSpec == Spec /\ \A c \in Callers : WF_vars(Work(c))

-----------------------------------------------------------------------------
(* What must hold.                                                         *)

\* Every variable has its type.
TypeOK ==
  /\ entry \in [Tasks -> Entries] /\ row \in [Tasks -> Callers \cup {None}]
  /\ aged \subseteq Queued /\ lapsed \subseteq Tasks /\ dead \subseteq Tasks
  /\ ready \subseteq Tasks /\ kept \subseteq Tasks /\ clash \subseteq Tasks
  /\ queueLock \in Callers \cup {None} /\ rowLock \in Callers \cup {None}
  /\ op \in [Callers -> Ops]

\* A claim always has the reservation that will end it, or a reserve about to
\* save it (reserve, _discard): no order of calls leaves a task claimed for
\* good, out of everyone's reach.
NoOrphanClaim ==
  \A t \in Tasks, c \in Callers :
     entry[t] = c => row[t] = c \/ (At(c, "save") /\ op[c].task = t)

\* Expiration and rebalancing take no validly reserved entry out ("Preserve
\* valid active reservations"), but for one race: a reserve that had claimed
\* the task and not saved its reservation when they took the queue's lock.
ReservedKept ==
  \A c \in Callers : At(c, "remove") /\ Valid(op[c].task) => op[c].task \in op[c].raced

\* "An expired entry that is still actively, validly reserved is never removed"
\* (LLMAgentTaskQueueExpirationService).  The race that ReservedKept excepts
\* refutes it.
ReservedNeverRemoved ==
  [][\A c \in Callers :
       At(c, "remove") /\ op[c].call \in {"expire", "expire_all"} /\ ~At(c, "remove")' =>
         ~Valid(op[c].task)]_vars

\* A task once enqueued or set aside is queued, a dead letter, or on its way
\* from one to the other, until it is removed, expired or rebalanced away; but
\* for one race: a restore that read one dead letter deletes the next one.
TaskKept ==
  \A t \in kept : \/ t \in Queued \cup dead \cup clash
                 \/ \E c \in Callers : At(c, "note") /\ op[c].task = t

\* A reservation ends when its window does or its owner releases it, whatever
\* other callers reserve, release, sweep, expire or rebalance.
LeaseHeld ==
  [][\A t \in Tasks : Valid(t) =>
       \/ row'[t] = row[t]
       \/ op[row[t]].call = "release" /\ op[row[t]].task = t]_vars

\* A reserve, release or sweep that holds the reservations' lock waits for the
\* queue's, and an expire_all that holds that one waits for the other.
LockCycle ==
  \E b, c \in Callers : /\ At(b, "sweep") /\ rowLock = c
                        /\ op[c].at \in {"unclaim", "claim"} /\ queueLock = b

\* Unless new calls keep coming for ever, every call returns, or the two locks
\* are held crosswise: there is no other way to wait for ever.
EveryCallReturns ==
  \/ []<><<\E c \in Callers : Call(c)>>_vars
  \/ \A c \in Callers : ~At(c, "idle") ~> (At(c, "idle") \/ LockCycle)
=============================================================================
