------------------------ MODULE SessionDurableProofs ------------------------
(***************************************************************************)
(* As long as memory has had room for every session and nothing has failed *)
(* to write, expired or been deleted (Steady), every step of the store of  *)
(* SessionStore is one of the durable service of DurableSessions, for      *)
(* every number of threads, sessions and updates and any number of         *)
(* restarts.                                                               *)
(*                                                                         *)
(* What makes it so: nothing leaves the table but in a restart, so that    *)
(* all requests about a session share its object; what is in a file is in  *)
(* that object too (Stored), so that a save, which never drops what both   *)
(* have, only adds to the file; and a request takes its update from object *)
(* to snapshot to file before it is answered (Local).                      *)
(*                                                                         *)
(* Without room, and whatever deletes and faults there may be, every step  *)
(* is one of the durable service as long as no two requests on one session *)
(* overlap and none of these has happened (EvictionIsDurable).             *)
(***************************************************************************)
EXTENDS SessionSaveProofs, SessionAloneProofs

USE DEF table, marks, locks, recency, history, faults

\* A step of a steady store: eviction, failures, expiry and deletes each break
\* what is claimed here.
Steadily == Steady /\ Steady'

-----------------------------------------------------------------------------
(* The inductive invariant.                                                *)

\* The steps a reliable store takes, and those with the object in the table.
Usual == Labels \ {"expire", "pop", "unlink", "purge", "failed", "note"}
InHand == {"touch", "evict", "apply", "sweep", "lock", "dump", "swap", "ok", "discard"}

\* The update of t has been saved.
IsSaved(t) ==
  \/ pc[t] \in {"ok", "discard"}
  \/ pc[t] = "evict" /\ req[t].op = "create"
  \/ pc[t] = "answer" /\ req[t].op \in {"create", "update"}

\* The object a request is about to install is its own, and holds what the
\* file does unless another request was first.
Installing(t) ==
  /\ \A i \in Ids : sessions[i] # req[t].obj
  /\ \A u \in Threads \ {t} : pc[u] = "install" => req[u].obj # req[t].obj
  /\ sessions[req[t].id] = NoObj =>
       /\ heap[req[t].obj] = files[req[t].id].done /\ 0 \in files[req[t].id].done

Local(t) ==
  /\ pc[t] \in Usual /\ req[t].op # "delete"
  /\ pc[t] \in {"probe", "touch", "load", "install", "apply"} => req[t].op # "create"
  /\ pc[t] \in InHand => sessions[req[t].id] = req[t].obj
  /\ pc[t] \in {"sweep", "lock", "dump"} => req[t].tok \in heap[req[t].obj]
  /\ pc[t] = "swap" => {0, req[t].tok} \subseteq req[t].snap /\ req[t].snap \subseteq heap[req[t].obj]
  /\ IsSaved(t) => req[t].tok \in files[req[t].id].done
  /\ pc[t] = "install" => Installing(t)

Stored(i) ==
  /\ ~files[i].old /\ lockGen[i] = 0
  /\ files[i].here => 0 \in files[i].done
  /\ sessions[i] # NoObj => files[i].done \cup {0} \subseteq heap[sessions[i]]
  /\ acked[i] \subseteq files[i].done
  /\ i \notin born => files[i].done = {}

DurableInv ==
  /\ lastSaveOk
  /\ \A i, j \in Ids : sessions[i] = sessions[j] /\ sessions[i] # NoObj => i = j
  /\ \A t \in Threads : Local(t)
  /\ \A i \in Ids : Stored(i)

\* The facts of the other proofs it rests on.
BaseInv ==
  TypeInv /\ BornInv /\ LockInv /\ TokenInv /\ SaveNeverRegresses /\ IsFiniteSet(born)

\* Nothing is in the table, on disk or requested at first.
LEMMA DurableInit == Init => DurableInv
BY NoneAssumption DEF Init, DurableInv, Local, Stored, Usual, Labels, InHand, IsSaved, Installing,
   NoFile, NoRequest, NewRequest

-----------------------------------------------------------------------------
(* The steps a steady store takes.                                         *)

\* What the history records only grows.
LEMMA HistoryGrows ==
  ASSUME TypeInv, [Next]_vars
  PROVE  /\ born' = born \/ \E i \in Ids : born' = born \cup {i}
         /\ doomed \subseteq doomed'
         /\ fails' = fails \/ fails' = fails + 1
         /\ ages' = ages \/ ages' = ages + 1
<1> DEFINE Grown == /\ born' = born \/ \E i \in Ids : born' = born \cup {i}
                    /\ doomed \subseteq doomed'
                    /\ fails' = fails \/ fails' = fails + 1
                    /\ ages' = ages \/ ages' = ages + 1
<1>1. ASSUME NEW t \in Threads, Accept(t) PROVE Grown
  <2>1. ASSUME NEW i \in Ids, Create(t, i) PROVE Grown
    BY <2>1 DEF Create
  <2>2. ASSUME NEW i \in Ids, NEW op, Request(t, op, i) PROVE Grown
    BY <2>2 DEF Request
  <2> QED BY <1>1, <2>1, <2>2 DEF Accept
<1>2. ASSUME NEW t \in Threads, Get(t) \/ Evict(t) \/ Sweep(t) PROVE Grown
  BY <1>2 DEF Get, LoadNothing, LoadExpired, Load, UnlinkExpired, UnlinkExpiredFails, Install, Touch,
     Probe, Evict, Sweep, SweepKeep, SweepExpired, SweepUnlink, SweepUnlinkFails, SweepDone
<1>3. ASSUME NEW t \in Threads, Save(t) PROVE Grown
  BY <1>3 DEF Save, SaveLock, SaveDump, SaveSwap, SaveFail, SaveOk, SaveDiscard, SaveFailed, SaveNote
<1>4. ASSUME NEW t \in Threads, Handle(t) PROVE Grown
  BY <1>4 DEF Handle, Apply, Refuse, RefreshFails, Answer, Pop, Unlink, UnlinkFails
<1>5. ASSUME NEW i \in Ids, Age(i) PROVE Grown
  BY <1>5 DEF Age
<1>6. CASE Crash
  BY <1>6 DEF Crash
<1>7. CASE UNCHANGED vars
  BY <1>7 DEF vars
<1> QED BY <1>1, <1>2, <1>3, <1>4, <1>5, <1>6, <1>7 DEF Next, Step

\* So a store that is steady after a step was so before it.
LEMMA SteadyBefore ==
  ASSUME BaseInv, [Next]_vars, Steady'
  PROVE  Steadily
<1>1. /\ born \subseteq born' /\ IsFiniteSet(born') /\ doomed \subseteq doomed'
      /\ fails' = fails \/ fails' = fails + 1
      /\ ages' = ages \/ ages' = ages + 1
  BY HistoryGrows, FS_AddElement DEF BaseInv
<1>2. fails \in Nat /\ ages \in Nat
  BY BoundAssumption DEF BaseInv, TypeInv, TypeOK
<1>3. Cardinality(born) <= Cardinality(born')
  BY <1>1, FS_Subset
<1>4. Cardinality(born) \in Nat /\ Cardinality(born') \in Nat
  BY <1>1, FS_CardinalityType DEF BaseInv
<1>5. Cardinality(born) <= Cap
  BY <1>3, <1>4, BoundAssumption DEF Steady
<1> QED BY <1>1, <1>2, <1>5 DEF Steadily, Steady

\* Nothing leaves the table while there is room.
LEMMA NoEviction ==
  ASSUME Steadily, BaseInv, NEW t \in Threads, Evict(t)
  PROVE  sessions' = sessions
<1> USE DEF BaseInv
<1>1. InTable \subseteq born
  BY DEF BornInv, InTable
<1>2. IsFiniteSet(InTable) /\ Cardinality(InTable) <= Cardinality(born)
  BY <1>1, FS_Subset
<1>5. Cardinality(InTable) \in Nat /\ Cardinality(born) \in Nat /\ Cap \in Nat
  BY <1>2, FS_CardinalityType, BoundAssumption
<1>3. Cardinality(InTable) <= Cap
  BY <1>2, <1>5 DEF Steadily, Steady
<1>4. Victims = {{}}
  BY <1>3 DEF Victims
<1>6. Drop({})
  BY <1>4 DEF Evict
<1> QED BY <1>6 DEF Drop, TypeInv, TypeOK

Usually(t) ==
  \/ LoadNothing(t) \/ Load(t) \/ Install(t) \/ Touch(t) \/ Probe(t)
  \/ Evict(t) \/ SaveLock(t) \/ SaveDump(t) \/ SaveSwap(t) \/ SaveOk(t) \/ SaveDiscard(t)
  \/ SweepKeep(t) \/ SweepDone(t) \/ Apply(t) \/ Refuse(t) \/ RefreshFails(t) \/ Answer(t)

\* Without failures, aging and deletes only the usual steps are taken.
LEMMA OnlyUsual ==
  ASSUME Steadily, TypeInv, DurableInv, NEW t \in Threads, Step(t)
  PROVE  Usually(t)
<1>1. pc[t] \in Usual /\ \A i \in Ids : ~files[i].old
  BY DEF DurableInv, Local, Stored
<1>2. fails = 0 /\ fails' = 0
  BY DEF Steadily, Steady
<1>3. /\ ~UnlinkExpired(t) /\ ~UnlinkExpiredFails(t) /\ ~SweepUnlink(t) /\ ~SweepUnlinkFails(t)
      /\ ~Pop(t) /\ ~Unlink(t) /\ ~UnlinkFails(t) /\ ~SaveFailed(t) /\ ~SaveNote(t)
  BY <1>1 DEF Usual, UnlinkExpired, UnlinkExpiredFails, SweepUnlink, SweepUnlinkFails, Pop, Unlink,
     UnlinkFails, SaveFailed, SaveNote
<1>4. ~SaveFail(t)
  BY <1>2 DEF SaveFail
<1>5. ~LoadExpired(t) /\ ~SweepExpired(t)
  BY <1>1 DEF LoadExpired, SweepExpired, TypeInv, TypeOK, RequestOK, Requests
<1> QED BY <1>3, <1>4, <1>5 DEF Step, Get, Save, Sweep, Handle, Usually

-----------------------------------------------------------------------------
(* What a step of one thread leaves to the others.                         *)

\* The sessions of the table stay, with what they hold; files only gain, those
\* of sessions not in memory do not change.
Grows ==
  /\ \A i \in Ids : sessions[i] # NoObj =>
       sessions'[i] = sessions[i] /\ heap[sessions[i]] \subseteq heap'[sessions[i]]
  /\ \A i \in Ids : /\ files[i].done \subseteq files'[i].done
                    /\ sessions[i] = NoObj => files'[i] = files[i]

\* The objects other requests are about to install are left alone.
Spares(t) ==
  \A u \in Threads \ {t} : pc[u] = "install" =>
    /\ heap'[req[u].obj] = heap[req[u].obj]
    /\ \A i \in Ids : sessions'[i] # req[u].obj
    /\ pc'[t] = "install" => req'[t].obj # req[u].obj

\* A step that changes no file and no object in use.
LEMMA KeepsObjects ==
  ASSUME TypeInv, DurableInv, NEW t \in Threads, files' = files, sessions' = sessions,
         \A u \in Threads \ {t} : pc'[u] = pc[u] /\ req'[u] = req[u],
         \/ heap' = heap
         \/ heap' = Collected(sessions', req')
         \/ heap' = Collected(sessions', req)
         \/ Free # {} /\ \E x : heap' = [heap EXCEPT ![FreshObj] = x],
         pc'[t] = "install" => \A u \in Threads \ {t} : pc[u] = "install" => req'[t].obj # req[u].obj
  PROVE  Grows /\ Spares(t)
<1> USE DEF TypeInv, TypeOK
<1>1. \A i \in Ids : sessions[i] # NoObj => heap'[sessions[i]] = heap[sessions[i]]
  <2> SUFFICES ASSUME NEW i \in Ids, sessions[i] # NoObj
               PROVE  heap'[sessions[i]] = heap[sessions[i]]
    OBVIOUS
  <2>1. sessions[i] \in Objs /\ \A r : sessions[i] \in Live(sessions, r)
    BY DEF Live
  <2>2. Free # {} => FreshObj # sessions[i]
    BY <2>1, FreshType DEF Free
  <2> QED BY <2>1, <2>2, CollectedLive
<1>2. \A u \in Threads \ {t} : pc[u] = "install" => heap'[req[u].obj] = heap[req[u].obj]
  <2> SUFFICES ASSUME NEW u \in Threads \ {t}, pc[u] = "install"
               PROVE  heap'[req[u].obj] = heap[req[u].obj]
    OBVIOUS
  <2>1. req[u].obj \in Objs
    BY DEF RequestOK, Holding
  <2>2. req[u].obj \in Live(sessions, req) /\ req[u].obj \in Live(sessions, req')
    BY DEF Live
  <2>3. Free # {} => FreshObj # req[u].obj
    BY FreshUnused
  <2> QED BY <2>1, <2>2, <2>3, CollectedLive
<1>3. \A u \in Threads : pc[u] = "install" => \A i \in Ids : sessions[i] # req[u].obj
  BY DEF DurableInv, Local, Installing
<1> QED BY <1>1, <1>2, <1>3 DEF Grows, Spares

\* A snapshot about to be swapped in has all the file has.
LEMMA SnapGains ==
  ASSUME BaseInv, DurableInv, NEW t \in Threads, pc[t] = "swap"
  PROVE  /\ req[t].id \in Ids /\ req[t].obj \in Objs /\ sessions[req[t].id] = req[t].obj
         /\ files[req[t].id].done \subseteq req[t].snap
<1>1. /\ req[t].id \in Ids /\ req[t].obj \in Objs /\ req[t].obj # NoObj
      /\ sessions[req[t].id] = req[t].obj
  BY NoneAssumption DEF BaseInv, TypeInv, RequestOK, Holding, DurableInv, Local, InHand
<1>2. lockGen[req[t].id] = 0 /\ files[req[t].id].done \subseteq heap[req[t].obj]
  BY <1>1 DEF DurableInv, Stored
<1>3. files[req[t].id].done \cap heap[req[t].obj] \subseteq req[t].snap
  BY <1>2 DEF BaseInv, SaveNeverRegresses
<1> QED BY <1>1, <1>2, <1>3

\* What the steps of one request leave of the others, when they disturb nothing
\* those rely on.
LEMMA Frame ==
  ASSUME Steadily, BaseInv, DurableInv, NEW t \in Threads, Accept(t) \/ Step(t)
  PROVE  Grows /\ Spares(t)
<1> USE DEF BaseInv, TypeInv, TypeOK, Goto
<1>0. \A u \in Threads \ {t} : pc'[u] = pc[u] /\ req'[u] = req[u]
  BY OthersKeep
<1>1. ASSUME NEW i \in Ids, Create(t, i) PROVE Grows /\ Spares(t)
  <2>1. /\ Free # {} /\ FreshObj \in Objs /\ sessions[i] = NoObj /\ files' = files
        /\ sessions' = [sessions EXCEPT ![i] = FreshObj] /\ heap' = [heap EXCEPT ![FreshObj] = {0}]
        /\ pc'[t] = "sweep"
    BY <1>1, FreshType DEF Create, BornInv
  <2>2. \A j \in Ids : FreshObj # sessions[j]
    BY <2>1, FreshType DEF Free, Live
  <2>3. \A u \in Threads : FreshObj # req[u].obj
    BY <2>1, FreshUnused
  <2>4. \A u \in Threads : pc[u] = "install" => \A j \in Ids : sessions[j] # req[u].obj
    BY DEF DurableInv, Local, Installing
  <2> QED BY <2>1, <2>2, <2>3, <2>4 DEF Grows, Spares
<1>2. ASSUME NEW i \in Ids, NEW op \in {"read", "update", "delete"}, Request(t, op, i)
      PROVE  Grows /\ Spares(t)
  BY <1>0, <1>2, KeepsObjects DEF Request, LookedUp
<1>3. CASE LoadNothing(t)
  BY <1>0, <1>3, KeepsObjects DEF LoadNothing, NotFound, Finish
<1>4. CASE Load(t)
  <2>1. Free # {} /\ req'[t].obj = FreshObj
    BY <1>4 DEF Load, Requests
  <2>2. \A u \in Threads : FreshObj # req[u].obj
    BY <2>1, FreshUnused
  <2> QED BY <1>0, <1>4, <2>1, <2>2, KeepsObjects DEF Load
<1>5. CASE Install(t)
  <2>1. /\ pc[t] = "install" /\ req[t].id \in Ids /\ pc'[t] = "touch" /\ files' = files
        /\ sessions' = [sessions EXCEPT ![req[t].id] = Kept(t)] /\ heap' = Collected(sessions', req')
    BY <1>5 DEF Install, RequestOK
  <2>2. \A u \in Threads : pc[u] = "install" =>
          /\ \A j \in Ids : sessions[j] # req[u].obj
          /\ u # t => req[t].obj # req[u].obj
    BY <2>1 DEF DurableInv, Local, Installing
  <2>3. \A j \in Ids : sessions[j] # NoObj => sessions'[j] = sessions[j]
    BY <2>1 DEF Kept
  <2>4. \A j \in Ids : sessions[j] # NoObj => heap'[sessions[j]] = heap[sessions[j]]
    <3> SUFFICES ASSUME NEW j \in Ids, sessions[j] # NoObj PROVE heap'[sessions[j]] = heap[sessions[j]]
      OBVIOUS
    <3>1. sessions[j] \in Objs /\ sessions[j] \in Live(sessions', req')
      BY <2>3 DEF Live
    <3> QED BY <2>1, <3>1, CollectedLive
  <2>5. \A u \in Threads \ {t} : pc[u] = "install" => heap'[req[u].obj] = heap[req[u].obj]
    <3> SUFFICES ASSUME NEW u \in Threads \ {t}, pc[u] = "install"
                 PROVE  heap'[req[u].obj] = heap[req[u].obj]
      OBVIOUS
    <3>1. req[u].obj \in Objs /\ req[u].obj \in Live(sessions', req')
      BY <1>0 DEF Live, RequestOK, Holding
    <3> QED BY <2>1, <3>1, CollectedLive
  <2>6. \A u \in Threads \ {t} : pc[u] = "install" => \A j \in Ids : sessions'[j] # req[u].obj
    BY <2>1, <2>2 DEF Kept
  <2> QED BY <2>1, <2>3, <2>4, <2>5, <2>6 DEF Grows, Spares
<1>6. CASE Touch(t) \/ SaveLock(t) \/ SaveDump(t) \/ SaveOk(t) \/ SaveDiscard(t) \/ SweepKeep(t)
             \/ SweepDone(t)
  <2>1. UNCHANGED <<files, sessions, heap>>
    BY <1>6 DEF Touch, SaveLock, SaveDump, SaveOk, SaveDiscard, SweepKeep, SweepDone
  <2>2. pc'[t] # "install"
    BY <1>6 DEF Touch, SaveLock, SaveDump, SaveOk, SaveDiscard, SweepKeep, SweepDone, AfterSave
  <2> QED BY <1>0, <2>1, <2>2, KeepsObjects
<1>7. CASE Probe(t)
  BY <1>0, <1>7, KeepsObjects DEF Probe, Finish, LookedUp
<1>8. CASE Evict(t)
  <2>1. sessions' = sessions
    BY <1>8, NoEviction
  <2>2. pc'[t] # "install"
    BY <1>8 DEF Evict, AfterEvict, RequestOK, Kinds
  <2> QED BY <1>0, <1>8, <2>1, <2>2, KeepsObjects DEF Evict
<1>9. CASE SaveSwap(t)
  <2>1. /\ UNCHANGED <<sessions, heap>> /\ pc[t] = "swap" /\ pc'[t] = "ok"
        /\ files' = [files EXCEPT ![req[t].id] = File(req[t].snap)]
    BY <1>9 DEF SaveSwap
  <2>2. /\ req[t].id \in Ids /\ sessions[req[t].id] # NoObj
        /\ files[req[t].id].done \subseteq req[t].snap
    BY <2>1, SnapGains, NoneAssumption
  <2>3. \A u \in Threads : pc[u] = "install" => \A j \in Ids : sessions[j] # req[u].obj
    BY DEF DurableInv, Local, Installing
  <2> QED BY <2>1, <2>2, <2>3 DEF Grows, Spares, File
<1>10. CASE Apply(t)
  <2>1. /\ UNCHANGED <<sessions, files>> /\ pc[t] = "apply" /\ pc'[t] = "lock"
        /\ heap' = [heap EXCEPT ![req[t].obj] = @ \cup {req[t].tok}]
    BY <1>10 DEF Apply
  <2>2. /\ req[t].id \in Ids /\ req[t].obj \in Objs /\ sessions[req[t].id] = req[t].obj
    BY <2>1 DEF RequestOK, Holding, DurableInv, Local, InHand
  <2>3. \A u \in Threads : pc[u] = "install" => \A j \in Ids : sessions[j] # req[u].obj
    BY DEF DurableInv, Local, Installing
  <2> QED BY <2>1, <2>2, <2>3 DEF Grows, Spares
<1>11. CASE Refuse(t) \/ RefreshFails(t) \/ Answer(t)
  BY <1>0, <1>11, KeepsObjects DEF Refuse, RefreshFails, Answer, Finish
<1> QED
  BY <1>1, <1>2, <1>3, <1>4, <1>5, <1>6, <1>7, <1>8, <1>9, <1>10, <1>11, OnlyUsual DEF Accept, Usually
-----------------------------------------------------------------------------
(* The invariant is kept.                                                  *)

\* A step of one request keeps what every other request relies on.
LEMMA LocalOthers ==
  ASSUME BaseInv, DurableInv, NEW t \in Threads, Grows, Spares(t),
         NEW u \in Threads \ {t},
         \A v \in Threads \ {t} : pc'[v] = pc[v] /\ req'[v] = req[v]
  PROVE  Local(u)'
<1> USE DEF BaseInv, TypeInv, TypeOK
<1>0. Local(u) /\ pc'[u] = pc[u] /\ req'[u] = req[u] /\ (pc[u] # "idle" => req[u].id \in Ids)
  BY DEF DurableInv, RequestOK
<1>1. pc[u] \in InHand => /\ sessions'[req[u].id] = req[u].obj
                          /\ heap[req[u].obj] \subseteq heap'[req[u].obj]
  <2> SUFFICES ASSUME pc[u] \in InHand
               PROVE  /\ sessions'[req[u].id] = req[u].obj
                      /\ heap[req[u].obj] \subseteq heap'[req[u].obj]
    OBVIOUS
  <2>1. req[u].id \in Ids /\ sessions[req[u].id] = req[u].obj /\ req[u].obj # NoObj
    BY <1>0, NoneAssumption DEF InHand, Holding, RequestOK, Local
  <2> QED BY <2>1 DEF Grows
<1>2. pc[u] # "idle" => files[req[u].id].done \subseteq files'[req[u].id].done
  BY <1>0 DEF Grows
<1>3. IsSaved(u)' => req[u].tok \in files'[req[u].id].done
  BY <1>0, <1>2 DEF Local, IsSaved
<1>4. pc[u] = "install" => Installing(u)'
  <2> SUFFICES ASSUME pc[u] = "install" PROVE Installing(u)'
    OBVIOUS
  <2>1. Installing(u) /\ req[u].id \in Ids
    BY <1>0 DEF Local
  <2>2. /\ heap'[req[u].obj] = heap[req[u].obj] /\ \A j \in Ids : sessions'[j] # req[u].obj
        /\ pc'[t] = "install" => req'[t].obj # req[u].obj
    BY DEF Spares
  <2>3. \A v \in Threads \ {u} : pc'[v] = "install" => req'[v].obj # req[u].obj
    BY <2>1, <2>2 DEF Installing
  <2>4. sessions'[req[u].id] = NoObj =>
          sessions[req[u].id] = NoObj /\ files'[req[u].id] = files[req[u].id]
    BY <2>1 DEF Grows
  <2> QED BY <1>0, <2>1, <2>2, <2>3, <2>4 DEF Installing
<1>5. pc[u] \in {"sweep", "lock", "dump"} => req[u].tok \in heap'[req[u].obj]
  BY <1>0, <1>1 DEF Local, InHand
<1>6. pc[u] = "swap" => {0, req[u].tok} \subseteq req[u].snap /\ req[u].snap \subseteq heap'[req[u].obj]
  BY <1>0, <1>1 DEF Local, InHand
<1> QED BY <1>0, <1>1, <1>3, <1>4, <1>5, <1>6 DEF Local

\* An object just found in the table, or a request without one.
LEMMA LocalFound ==
  ASSUME NEW t \in Threads, NoObj \notin Objs,
         \/ pc'[t] \in {"idle", "probe", "load"}
         \/ pc'[t] \in {"touch", "apply"} /\ sessions'[req'[t].id] = req'[t].obj
         \/ pc'[t] = "answer" /\ req'[t].op \in {"read", "probe"}
         \/ /\ pc'[t] = "evict" /\ sessions'[req'[t].id] = req'[t].obj
            /\ req'[t].op # "create",
         pc'[t] \in {"probe", "load", "touch", "apply"} => req'[t].op # "create",
         req'[t].op # "delete"
  PROVE  Local(t)'
BY DEF Local, Usual, Labels, InHand, IsSaved

\* What the steps that bring an object up leave of their own request.
LEMMA LocalGet ==
  ASSUME Steadily, BaseInv, DurableInv, NEW t \in Threads,
         LoadNothing(t) \/ Load(t) \/ Install(t) \/ Touch(t) \/ Probe(t) \/ Evict(t)
  PROVE  Local(t)'
<1> USE DEF BaseInv, TypeInv, TypeOK, Goto
<1>0. /\ Local(t) /\ NoObj \notin Objs /\ pc[t] # "idle" /\ req[t].id \in Ids
      /\ req[t].op \in Kinds \cup {"probe"}
  BY NoneAssumption DEF DurableInv, RequestOK, LoadNothing, Load, Install, Touch, Probe, Evict
<1>1. Finish(t) => Local(t)'
  BY <1>0, LocalFound DEF Finish, NoRequest, NewRequest
<1>2. CASE LoadNothing(t)
  <2>1. CASE req[t].op \in {"read", "update"} /\ Goto(t, "probe") /\ req' = [req EXCEPT ![t].op = "probe"]
    <3>1. req'[t].op = "probe" /\ pc'[t] = "probe"
      BY <2>1, FieldSame
    <3> QED BY <1>0, <3>1, LocalFound
  <2> QED BY <1>0, <1>1, <1>2, <2>1 DEF LoadNothing, NotFound, Local
<1>3. CASE Load(t)
  <2>1. /\ Free # {} /\ files' = files /\ sessions' = sessions /\ pc[t] = "load" /\ pc'[t] = "install"
        /\ files[req[t].id].here /\ heap'[FreshObj] = files[req[t].id].done
        /\ req'[t].obj = FreshObj /\ req'[t].id = req[t].id /\ req'[t].op = req[t].op
    BY <1>3, FieldSame, FreshType DEF Load
  <2>2. 0 \in files[req[t].id].done
    BY <1>0, <2>1 DEF DurableInv, Stored
  <2>3. \A j \in Ids : FreshObj # sessions[j]
    BY <2>1, FreshType DEF Free, Live
  <2>4. \A u \in Threads \ {t} : FreshObj # req'[u].obj
    BY <1>3, <2>1, FreshUnused DEF Load
  <2> QED BY <1>0, <2>1, <2>2, <2>3, <2>4 DEF Local, Usual, Labels, InHand, IsSaved, Installing
<1>4. CASE Install(t)
  <2>1. /\ req' = [req EXCEPT ![t].obj = Kept(t)] /\ pc[t] = "install" /\ pc'[t] = "touch"
        /\ sessions' = [sessions EXCEPT ![req[t].id] = Kept(t)]
    BY <1>4 DEF Install
  <2>2. /\ req'[t].obj = Kept(t) /\ req'[t].id = req[t].id /\ req'[t].op = req[t].op
    BY <2>1, FieldSame
  <2> QED BY <1>0, <2>1, <2>2, LocalFound DEF Local
<1>5. CASE Touch(t)
  <2>1. req' = req /\ sessions' = sessions /\ pc[t] = "touch" /\ pc'[t] = "evict"
    BY <1>5 DEF Touch
  <2> QED BY <1>0, <2>1, LocalFound DEF Local, InHand
<1>6. CASE Probe(t)
  <2>1. CASE /\ req' = [req EXCEPT ![t].obj = sessions[req[t].id]]
             /\ Goto(t, LookedUp(req[t].id)) /\ sessions' = sessions
    <3>1. /\ req'[t].obj = sessions[req[t].id] /\ req'[t].id = req[t].id /\ req'[t].op = req[t].op
      BY <2>1, FieldSame
    <3>2. pc[t] = "probe" /\ pc'[t] \in {"load", "touch"}
      BY <1>6, <2>1 DEF Probe, LookedUp
    <3> QED BY <1>0, <2>1, <3>1, <3>2, LocalFound DEF Local
  <2> QED BY <1>1, <1>6, <2>1 DEF Probe
<1>7. CASE Evict(t)
  <2>1. sessions' = sessions /\ req' = req /\ pc[t] = "evict" /\ pc'[t] = AfterEvict[req[t].op]
        /\ files' = files
    BY <1>7, NoEviction DEF Evict
  <2>2. CASE req[t].op = "create"
    <3>1. pc'[t] = "answer" /\ req[t].tok \in files[req[t].id].done
      BY <1>0, <2>1, <2>2 DEF AfterEvict, Local, IsSaved
    <3> QED BY <1>0, <2>1, <2>2, <3>1 DEF Local, Usual, Labels, InHand, IsSaved
  <2>3. CASE req[t].op # "create"
    <3>1. \/ req[t].op \in {"read", "probe"} /\ pc'[t] = "answer"
          \/ req[t].op = "update" /\ pc'[t] = "apply"
      <4>1. req[t].op \in {"read", "update", "probe"}
        BY <1>0, <2>3 DEF Local, Kinds
      <4>2. /\ AfterEvict["read"] = "answer" /\ AfterEvict["probe"] = "answer"
            /\ AfterEvict["update"] = "apply"
        BY DEF AfterEvict
      <4>3. CASE req[t].op = "read"
        BY <2>1, <4>2, <4>3
      <4>4. CASE req[t].op = "probe"
        BY <2>1, <4>2, <4>4
      <4>5. CASE req[t].op = "update"
        BY <2>1, <4>2, <4>5
      <4> QED BY <4>1, <4>3, <4>4, <4>5
    <3> QED BY <1>0, <2>1, <2>3, <3>1, LocalFound DEF Local, InHand
  <2> QED BY <2>2, <2>3
<1> QED BY <1>2, <1>3, <1>4, <1>5, <1>6, <1>7

\* What the arrival and the steps of a change and its save do.
LEMMA LocalSave ==
  ASSUME Steadily, BaseInv, DurableInv, NEW t \in Threads,
         \/ Accept(t) \/ SaveLock(t) \/ SaveDump(t) \/ SaveSwap(t) \/ SaveOk(t) \/ SaveDiscard(t)
         \/ SweepKeep(t) \/ SweepDone(t) \/ Apply(t) \/ Refuse(t) \/ RefreshFails(t) \/ Answer(t)
  PROVE  Local(t)'
<1> USE DEF BaseInv, TypeInv, TypeOK, Goto
<1>0. /\ Local(t) /\ NoObj \notin Objs
      /\ pc[t] # "idle" => req[t].id \in Ids /\ req[t].op \in Kinds \cup {"probe"}
      /\ pc[t] \in InHand => req[t].obj \in Objs
  BY NoneAssumption DEF DurableInv, RequestOK, InHand, Holding
<1>1. Finish(t) => Local(t)'
  BY <1>0, LocalFound DEF Finish, NoRequest, NewRequest
<1>2. ASSUME NEW i \in Ids, Create(t, i) PROVE Local(t)'
  <2>1. /\ req'[t].id = i /\ req'[t].op = "create" /\ req'[t].obj = FreshObj /\ req'[t].tok = 0
        /\ pc'[t] = "sweep" /\ sessions'[i] = FreshObj /\ heap'[FreshObj] = {0}
    BY <1>2, FreshType DEF Create, NewRequest
  <2> QED BY <2>1 DEF Local, Usual, Labels, InHand, IsSaved
<1>3. ASSUME NEW i \in Ids, NEW op \in {"read", "update", "delete"}, Request(t, op, i)
      PROVE  Local(t)'
  <2>1. /\ req'[t].id = i /\ req'[t].op = op /\ req'[t].obj = sessions[i] /\ op # "delete"
        /\ pc'[t] \in {"load", "touch"} /\ sessions' = sessions
    BY <1>3 DEF Request, NewRequest, LookedUp, Steadily, Steady
  <2> QED BY <1>0, <2>1, LocalFound
<1>4. CASE SweepKeep(t) \/ SweepDone(t)
  <2>1. Same(req'[t], req[t])
    <3>1. ASSUME NEW x, req' = [req EXCEPT ![t].sweep = x] PROVE Same(req'[t], req[t])
      BY <3>1, FieldSame
    <3> QED BY <1>4, <3>1 DEF SweepKeep, SweepDone, Same
  <2>2. /\ UNCHANGED <<sessions, heap, files>> /\ pc[t] = "sweep" /\ pc'[t] \in {"sweep", "lock"}
    BY <1>4 DEF SweepKeep, SweepDone
  <2> QED BY <1>0, <2>1, <2>2 DEF Local, Usual, Labels, InHand, IsSaved, Same
<1>5. CASE SaveLock(t)
  <2>1. /\ Same(req'[t], req[t]) /\ UNCHANGED <<sessions, heap, files>>
        /\ pc[t] = "lock" /\ pc'[t] = "dump"
    BY <1>5, FieldSame DEF SaveLock, Same
  <2> QED BY <1>0, <2>1 DEF Local, Usual, Labels, InHand, IsSaved, Same
<1>6. CASE SaveDump(t)
  <2>1. /\ Same(req'[t], req[t]) /\ req'[t].snap = heap[req[t].obj]
        /\ UNCHANGED <<sessions, heap, files>> /\ pc[t] = "dump" /\ pc'[t] = "swap"
    BY <1>6, FieldSame DEF SaveDump, Same
  <2>2. sessions[req[t].id] = req[t].obj /\ 0 \in heap[req[t].obj]
    BY <1>0, <2>1 DEF Local, InHand, DurableInv, Stored
  <2> QED BY <1>0, <2>1, <2>2 DEF Local, Usual, Labels, InHand, IsSaved, Same
<1>7. CASE SaveSwap(t)
  <2>1. /\ Same(req'[t], req[t]) /\ UNCHANGED <<sessions, heap>>
        /\ files'[req[t].id].done = req[t].snap /\ pc[t] = "swap" /\ pc'[t] = "ok"
    BY <1>0, <1>7, FieldSame DEF SaveSwap, Same, File
  <2> QED BY <1>0, <2>1 DEF Local, Usual, Labels, InHand, IsSaved, Same
<1>8. CASE SaveOk(t) \/ SaveDiscard(t)
  <2>1. /\ UNCHANGED <<req, sessions, heap, files>> /\ pc[t] \in {"ok", "discard"}
        /\ pc'[t] = "discard" \/ pc'[t] = "answer" \/ (pc'[t] = "evict" /\ req[t].op = "create")
    BY <1>8 DEF SaveOk, SaveDiscard, AfterSave
  <2> QED BY <1>0, <2>1 DEF Local, Usual, Labels, InHand, IsSaved
<1>9. CASE Apply(t)
  <2>1. /\ UNCHANGED <<req, sessions, files>> /\ pc[t] = "apply" /\ pc'[t] = "lock"
        /\ heap' = [heap EXCEPT ![req[t].obj] = @ \cup {req[t].tok}]
    BY <1>9 DEF Apply
  <2>2. req[t].tok \in heap'[req[t].obj]
    BY <1>0, <2>1 DEF InHand
  <2> QED BY <1>0, <2>1, <2>2 DEF Local, Usual, Labels, InHand, IsSaved
<1>10. CASE Refuse(t) \/ RefreshFails(t) \/ Answer(t)
  BY <1>1, <1>10 DEF Refuse, RefreshFails, Answer
<1> QED
  BY <1>2, <1>3, <1>4, <1>5, <1>6, <1>7, <1>8, <1>9, <1>10 DEF Accept

\* The table refers to no object twice.
LEMMA TableApart ==
  ASSUME Steadily, BaseInv, DurableInv, NEW t \in Threads, Accept(t) \/ Step(t)
  PROVE  \A i, j \in Ids : sessions'[i] = sessions'[j] /\ sessions'[i] # NoObj => i = j
<1> USE DEF BaseInv, TypeInv, TypeOK
<1>1. CASE \E i \in Ids : Create(t, i)
  <2>1. PICK i \in Ids : Create(t, i)
    BY <1>1
  <2>2. Free # {} /\ sessions' = [sessions EXCEPT ![i] = FreshObj]
    BY <2>1 DEF Create
  <2>3. \A j \in Ids : FreshObj # sessions[j]
    BY <2>2, FreshType DEF Free, Live
  <2> QED BY <2>2, <2>3 DEF DurableInv
<1>2. CASE Install(t)
  <2>1. pc[t] = "install" /\ sessions' = [sessions EXCEPT ![req[t].id] = Kept(t)]
    BY <1>2 DEF Install
  <2>2. \A j \in Ids : sessions[j] # req[t].obj
    BY <2>1 DEF DurableInv, Local, Installing
  <2> QED BY <2>1, <2>2 DEF DurableInv, Kept
<1>3. CASE sessions' = sessions
  BY <1>3 DEF DurableInv
<1>4. CASE Evict(t)
  BY <1>3, <1>4, NoEviction
<1> QED
  BY <1>1, <1>2, <1>3, <1>4, OnlyUsual DEF Accept, Request, Usually, LoadNothing, Load, Touch, Probe,
     SaveLock, SaveDump, SaveSwap, SaveOk, SaveDiscard, SweepKeep, SweepDone, Apply, Refuse, RefreshFails, Answer

\* What an answer confirms is in the file, and a save adds to it.
LEMMA StoredStep ==
  ASSUME Steadily, BaseInv, DurableInv, NEW t \in Threads, Accept(t) \/ Step(t)
  PROVE  lastSaveOk' /\ \A i \in Ids : Stored(i)'
<1> USE DEF BaseInv, TypeInv, TypeOK, Goto
<1>0. Grows /\ (Step(t) => Usually(t))
  BY Frame, OnlyUsual
<1>1. /\ lockGen' = lockGen
      /\ lastSaveOk'
      /\ files' = files \/ SaveSwap(t)
      /\ born \subseteq born'
      /\ acked' = acked \/ Answer(t)
      /\ sessions' = sessions \/ (\E i \in Ids : Create(t, i)) \/ Install(t)
  BY <1>0, NoEviction DEF DurableInv, Accept, Create, Request, Usually, LoadNothing, Load, Install,
     Touch, Probe, Evict, SaveLock, SaveDump, SaveSwap, SaveOk, SaveDiscard, SweepKeep, SweepDone,
     Apply, Refuse, RefreshFails, Answer
<1>2. ASSUME NEW i \in Ids, files'[i] # files[i]
      PROVE  /\ SaveSwap(t) /\ i = req[t].id /\ i \in born /\ sessions[i] # NoObj
             /\ files'[i] = File(req[t].snap) /\ 0 \in req[t].snap
             /\ req[t].snap \subseteq heap[sessions[i]]
  <2>1. SaveSwap(t) /\ pc[t] = "swap" /\ files' = [files EXCEPT ![req[t].id] = File(req[t].snap)]
    BY <1>1, <1>2 DEF SaveSwap
  <2>2. i = req[t].id /\ files'[i] = File(req[t].snap)
    BY <1>2, <2>1
  <2>3. /\ 0 \in req[t].snap /\ req[t].snap \subseteq heap[req[t].obj]
    BY <2>1 DEF DurableInv, Local
  <2> QED BY <2>1, <2>2, <2>3, SnapGains, NoneAssumption DEF BornInv
<1>3. ASSUME NEW i \in Ids
      PROVE  /\ ~files'[i].old /\ (files'[i].here => 0 \in files'[i].done)
             /\ i \notin born' => files'[i].done = {}
  <2>1. CASE files'[i] = files[i]
    BY <1>1, <2>1 DEF DurableInv, Stored
  <2>2. CASE files'[i] # files[i]
    BY <1>1, <1>2, <2>2 DEF File
  <2> QED BY <2>1, <2>2
<1>4. ASSUME NEW i \in Ids, sessions[i] # NoObj
      PROVE  files'[i].done \cup {0} \subseteq heap'[sessions'[i]]
  <2>1. sessions'[i] = sessions[i] /\ heap[sessions[i]] \subseteq heap'[sessions[i]]
    BY <1>0, <1>4 DEF Grows
  <2>2. files[i].done \cup {0} \subseteq heap[sessions[i]]
    BY <1>4 DEF DurableInv, Stored
  <2>3. CASE files'[i] = files[i]
    BY <2>1, <2>2, <2>3
  <2>4. CASE files'[i] # files[i]
    BY <1>2, <2>1, <2>2, <2>4 DEF File
  <2> QED BY <2>3, <2>4
<1>5. ASSUME NEW i \in Ids, sessions[i] = NoObj, sessions'[i] # NoObj
      PROVE  files'[i].done \cup {0} \subseteq heap'[sessions'[i]]
  <2>0. files'[i] = files[i]
    BY <1>2, <1>5
  <2>1. CASE \E j \in Ids : Create(t, j)
    <3>1. PICK j \in Ids : Create(t, j)
      BY <2>1
    <3>2. /\ sessions' = [sessions EXCEPT ![j] = FreshObj] /\ heap'[FreshObj] = {0} /\ j \notin born
      BY <3>1, FreshType DEF Create
    <3>3. i = j
      BY <1>5, <3>2
    <3>4. files[i].done = {}
      BY <3>2, <3>3 DEF DurableInv, Stored
    <3> QED BY <2>0, <3>2, <3>3, <3>4
  <2>2. CASE Install(t)
    <3>1. /\ pc[t] = "install" /\ sessions' = [sessions EXCEPT ![req[t].id] = Kept(t)]
          /\ heap' = Collected(sessions', req')
      BY <2>2 DEF Install
    <3>2. i = req[t].id /\ sessions'[i] = req[t].obj
      BY <1>5, <3>1 DEF Kept
    <3>3. heap[req[t].obj] = files[i].done /\ 0 \in files[i].done /\ req[t].obj \in Objs
      BY <1>5, <3>1, <3>2 DEF DurableInv, Local, Installing, RequestOK, Holding
    <3>4. req[t].obj \in Live(sessions', req')
      BY <3>2 DEF Live
    <3>5. heap'[req[t].obj] = heap[req[t].obj]
      BY <3>1, <3>3, <3>4, CollectedLive
    <3> QED BY <2>0, <3>2, <3>3, <3>5
  <2> QED BY <1>1, <1>5, <2>1, <2>2
<1>6. ASSUME NEW i \in Ids PROVE acked'[i] \subseteq files'[i].done
  <2>1. acked[i] \subseteq files[i].done /\ files[i].done \subseteq files'[i].done
    BY <1>0 DEF DurableInv, Stored, Grows
  <2>2. CASE Answer(t)
    <3>1. pc[t] = "answer" /\ req[t].id \in Ids
      BY <2>2 DEF Answer, RequestOK
    <3>2. \/ acked' = acked
          \/ /\ acked' = [acked EXCEPT ![req[t].id] = @ \cup {req[t].tok}]
             /\ req[t].op \in {"create", "update"}
      BY <2>2 DEF Answer
    <3>3. req[t].op \in {"create", "update"} => req[t].tok \in files[req[t].id].done
      BY <3>1 DEF DurableInv, Local, IsSaved
    <3> QED BY <2>1, <3>1, <3>2, <3>3
  <2> QED BY <1>1, <2>1, <2>2
<1>7. \A i \in Ids : lockGen'[i] = 0
  BY <1>1 DEF DurableInv, Stored
<1> QED BY <1>1, <1>3, <1>4, <1>5, <1>6, <1>7 DEF Stored

\* The invariant is inductive on top of the types and the save order.
LEMMA DurableNext == Steadily /\ BaseInv /\ DurableInv /\ [Next]_vars => DurableInv'
<1> SUFFICES ASSUME Steadily, BaseInv, DurableInv, [Next]_vars PROVE DurableInv'
  OBVIOUS
<1>1. ASSUME NEW t \in Threads, Accept(t) \/ Step(t) PROVE DurableInv'
  <2>1. Grows /\ Spares(t)
    BY <1>1, Frame
  <2>2. \A u \in Threads \ {t} : pc'[u] = pc[u] /\ req'[u] = req[u]
    BY <1>1, OthersKeep DEF BaseInv
  <2>3. \A u \in Threads \ {t} : Local(u)'
    BY <2>1, <2>2, LocalOthers
  <2>4. Local(t)'
    BY <1>1, OnlyUsual, LocalGet, LocalSave DEF Usually, BaseInv
  <2> QED BY <1>1, <2>3, <2>4, TableApart, StoredStep DEF DurableInv
<1>2. CASE \E i \in Ids : Age(i)
  BY <1>2 DEF Age, Steadily, Steady
<1>3. CASE Crash
  <2>1. /\ \A t \in Threads : pc'[t] = "idle" /\ req'[t].op = "none"
        /\ \A i \in Ids : sessions'[i] = NoObj /\ lockGen'[i] = 0
        /\ lastSaveOk' /\ UNCHANGED <<files, history>>
    BY <1>3 DEF Crash, NoRequest, NewRequest
  <2>2. \A t \in Threads : Local(t)'
    BY <2>1 DEF Local, Usual, Labels, InHand, IsSaved
  <2>3. \A i \in Ids : Stored(i)'
    BY <2>1 DEF DurableInv, Stored
  <2> QED BY <2>1, <2>2, <2>3 DEF DurableInv
<1>4. CASE UNCHANGED vars
  BY <1>4 DEF vars, DurableInv, Local, Stored, IsSaved, Installing
<1> QED BY <1>1, <1>2, <1>3, <1>4 DEF Next

\* The invariants proved of every configuration hold at first ...
LEMMA BaseInit == Init => BaseInv
<1>1. Init => LockInv
  BY DEF Init, LockInv, Writing
<1>2. Init => TokenInv
  BY DEF Init, TokenInv, Seen, Pending, OpOK, NoFile, NoRequest, NewRequest
<1>3. Init => SaveNeverRegresses /\ BornInv
  BY DEF Init, SaveNeverRegresses, BornInv
<1>4. Init => IsFiniteSet(born)
  BY FS_EmptySet DEF Init
<1> QED BY <1>1, <1>2, <1>3, <1>4, InitType DEF BaseInv

\* ... and every step keeps them.
LEMMA BaseNext == BaseInv /\ [Next]_vars => BaseInv'
<1> SUFFICES ASSUME BaseInv, [Next]_vars PROVE BaseInv'
  OBVIOUS
<1>1. IsFiniteSet(born')
  BY HistoryGrows, FS_AddElement DEF BaseInv
<1> QED BY <1>1, TypeStep, BornStep, LockStep, TokenStep, RegressStep DEF BaseInv, SaveInv

\* What is claimed of a store as long as it is steady.
SteadyInv == BaseInv /\ (Steady => DurableInv)

LEMMA SteadyNext == SteadyInv /\ [Next]_vars => SteadyInv'
<1> SUFFICES ASSUME SteadyInv, [Next]_vars PROVE SteadyInv'
  OBVIOUS
<1>1. BaseInv'
  BY BaseNext DEF SteadyInv
<1>2. ASSUME Steady' PROVE DurableInv'
  BY <1>2, SteadyBefore, DurableNext DEF SteadyInv, Steadily
<1> QED BY <1>1, <1>2 DEF SteadyInv

\* While the store is steady no save removes from a session's file a change
\* that was answered as saved.
THEOREM FilesKeep == Spec => []SteadyKeepsAcked
<1>1. Init => SteadyInv
  BY BaseInit, DurableInit DEF SteadyInv
<1>2. SteadyInv => SteadyKeepsAcked
  BY DEF SteadyInv, DurableInv, Stored, SteadyKeepsAcked, FileKeepsAcked
<1> QED BY <1>1, <1>2, SteadyNext, PTL DEF Spec
-----------------------------------------------------------------------------
(* The refinement.                                                         *)

\* Only an update changes an object of the table.
LEMMA HeapKept ==
  ASSUME Steadily, BaseInv, DurableInv, NEW t \in Threads, Accept(t) \/ Step(t), ~Apply(t),
         NEW i \in Ids, sessions[i] # NoObj
  PROVE  sessions'[i] = sessions[i] /\ heap'[sessions[i]] = heap[sessions[i]]
<1> USE DEF BaseInv, TypeInv, TypeOK
<1>1. /\ sessions'[i] = sessions[i] /\ sessions[i] \in Objs
      /\ \A r : sessions[i] \in Live(sessions, r) /\ sessions[i] \in Live(sessions', r)
  BY Frame DEF Grows, Live
<1>2. Free # {} => FreshObj # sessions[i]
  BY <1>1, FreshType DEF Free
<1>3. CASE heap' = heap \/ heap' = Collected(sessions, req') \/ heap' = Collected(sessions', req)
             \/ heap' = Collected(sessions', req')
  BY <1>1, <1>3, CollectedLive
<1>4. CASE Free # {} /\ \E x : heap' = [heap EXCEPT ![FreshObj] = x]
  BY <1>1, <1>2, <1>4
<1> QED
  BY <1>1, <1>3, <1>4, OnlyUsual DEF Accept, Create, Request, Usually, LoadNothing, NotFound,
     Finish, Load, Install, Touch, Probe, Evict, SaveLock, SaveDump, SaveSwap, SaveOk, SaveDiscard,
     SweepKeep, SweepDone, Refuse, RefreshFails, Answer

\* The value of a session as DurableSessions sees it.
LEMMA ValueOf ==
  ASSUME NEW i \in Ids
  PROVE  /\ [j \in Ids |-> Value(j)][i] = Value(i)
         /\ sessions[i] # NoObj => Value(i) = heap[sessions[i]]
         /\ sessions[i] = NoObj => Value(i) = files[i].done
BY DEF Value

\* A session appears, an update is applied, and nothing else shows.
LEMMA ValueStep ==
  ASSUME Steadily, BaseInv, DurableInv, NEW t \in Threads, Accept(t) \/ Step(t),
         NEW i \in Ids
  PROVE  \/ Value(i)' = Value(i)
         \/ Create(t, i) /\ Value(i) = {} /\ Value(i)' = {0}
         \/ /\ Apply(t) /\ i = req[t].id /\ Value(i) # {}
            /\ Value(i)' = Value(i) \cup {req[t].tok}
<1> USE DEF BaseInv, TypeInv, TypeOK
<1>1. CASE sessions[i] # NoObj /\ ~Apply(t)
  BY <1>1, HeapKept DEF Value
<1>2. CASE sessions[i] # NoObj /\ Apply(t)
  <2>1. /\ pc[t] = "apply" /\ sessions' = sessions
        /\ heap' = [heap EXCEPT ![req[t].obj] = @ \cup {req[t].tok}]
    BY <1>2 DEF Apply
  <2>2. req[t].id \in Ids /\ req[t].obj \in Objs /\ sessions[req[t].id] = req[t].obj
    BY <2>1 DEF RequestOK, Holding, DurableInv, Local, InHand
  <2>3. 0 \in heap[sessions[i]]
    BY <1>2 DEF DurableInv, Stored
  <2>4. CASE i = req[t].id
    BY <1>2, <2>1, <2>2, <2>3, <2>4 DEF Value
  <2>5. CASE i # req[t].id
    <3>1. sessions[i] # req[t].obj /\ sessions[i] \in Objs
      BY <1>2, <2>2, <2>5 DEF DurableInv
    <3> QED BY <1>2, <2>1, <3>1 DEF Value
  <2> QED BY <2>4, <2>5
<1>3. CASE sessions[i] = NoObj /\ sessions'[i] = NoObj
  BY <1>3, Frame DEF Grows, Value
<1>4. CASE sessions[i] = NoObj /\ sessions'[i] # NoObj
  <2>1. (\E j \in Ids : Create(t, j)) \/ Install(t)
    BY <1>4, OnlyUsual, NoEviction DEF Accept, Request, Usually, LoadNothing, Load, Touch, Probe,
       SaveLock, SaveDump, SaveSwap, SaveOk, SaveDiscard, SweepKeep, SweepDone, Apply, Refuse, RefreshFails, Answer
  <2>2. CASE \E j \in Ids : Create(t, j)
    <3>1. PICK j \in Ids : Create(t, j)
      BY <2>2
    <3>2. /\ sessions' = [sessions EXCEPT ![j] = FreshObj] /\ heap'[FreshObj] = {0} /\ j \notin born
      BY <3>1, FreshType DEF Create
    <3>3. i = j
      BY <1>4, <3>2
    <3>4. files[i].done = {}
      BY <3>2, <3>3 DEF DurableInv, Stored
    <3> QED BY <1>4, <3>1, <3>2, <3>3, <3>4 DEF Value
  <2>3. CASE Install(t)
    <3>1. /\ pc[t] = "install" /\ sessions' = [sessions EXCEPT ![req[t].id] = Kept(t)]
          /\ heap' = Collected(sessions', req')
      BY <2>3 DEF Install
    <3>2. i = req[t].id /\ sessions'[i] = req[t].obj
      BY <1>4, <3>1 DEF Kept
    <3>3. heap[req[t].obj] = files[i].done /\ req[t].obj \in Objs
      BY <1>4, <3>1, <3>2 DEF DurableInv, Local, Installing, RequestOK, Holding
    <3>4. req[t].obj \in Live(sessions', req')
      BY <3>2 DEF Live
    <3>5. heap'[req[t].obj] = heap[req[t].obj]
      BY <3>1, <3>3, <3>4, CollectedLive
    <3> QED BY <1>4, <3>2, <3>3, <3>5 DEF Value
  <2> QED BY <2>1, <2>2, <2>3
<1> QED BY <1>1, <1>2, <1>3, <1>4

\* Every step is a step of DurableSessions or shows nothing.
LEMMA Refines ==
  ASSUME Steadily, BaseInv, DurableInv, [Next]_vars
  PROVE  [Durable!Next]_(Durable!dvars)
<1> USE DEF BaseInv, TypeInv, TypeOK
<1> DEFINE value == [i \in Ids |-> Value(i)]
<1>0. \A i \in Ids : Value(i) \in SUBSET Updates /\ acked[i] \subseteq Value(i)
  BY DEF Value, SavedFiles, DurableInv, Stored
<1>1. ASSUME NEW t \in Threads, Accept(t) \/ Step(t)
      PROVE  [Durable!Next]_(Durable!dvars)
  <2>1. CASE \E i \in Ids : Create(t, i) /\ Value(i) = {} /\ Value(i)' = {0}
    <3>1. PICK i \in Ids : Create(t, i) /\ Value(i) = {} /\ Value(i)' = {0}
      BY <2>1
    <3>2. \A j \in Ids \ {i} : Value(j)' = Value(j)
      <4>1. ASSUME NEW j \in Ids \ {i} PROVE ~Create(t, j) /\ ~Apply(t)
        BY <3>1, FreshType DEF Create, Apply, Free, Live
      <4> QED BY <1>1, <4>1, ValueStep
    <3>3. acked' = acked
      BY <3>1 DEF Create
    <3>4. value' = [value EXCEPT ![i] = {0}]
      BY <3>1, <3>2
    <3>5. Durable!Create(i)
      BY <3>1, <3>3, <3>4 DEF Durable!Create
    <3> QED BY <3>5 DEF Durable!Next
  <2>2. CASE \E i \in Ids : /\ Apply(t) /\ i = req[t].id /\ Value(i) # {}
                            /\ Value(i)' = Value(i) \cup {req[t].tok}
    <3>0. PICK i \in Ids : /\ Apply(t) /\ i = req[t].id /\ Value(i) # {}
                           /\ Value(i)' = Value(i) \cup {req[t].tok}
      BY <2>2
    <3>1. t \in Pending /\ acked' = acked /\ pc[t] = "apply"
      BY <3>0 DEF Apply, OpOK, Pending, TokenInv
    <3>2. req[t].tok \in 1..MaxUpdates /\ req[t].tok \notin Seen
      BY <3>1, BoundAssumption DEF TokenInv, Updates
    <3>3. \A j \in Ids : req[t].tok \notin Value(j)
      BY <3>2 DEF Value, Seen, SavedFiles, Updates
    <3>4. \A j \in Ids \ {i} : Value(j)' = Value(j)
      <4>1. \A j \in Ids : ~Create(t, j)
        BY <3>1 DEF Create
      <4> QED BY <1>1, <3>0, <4>1, ValueStep
    <3>5. value' = [value EXCEPT ![i] = @ \cup {req[t].tok}]
      BY <3>0, <3>4
    <3>6. Durable!Update(i, {req[t].tok})
      BY <3>0, <3>1, <3>3, <3>5 DEF Durable!Update
    <3>7. {req[t].tok} \in SUBSET (1..MaxUpdates)
      BY <3>2
    <3> QED BY <3>6, <3>7 DEF Durable!Next
  <2>3. CASE \A i \in Ids : Value(i)' = Value(i)
    <3>1. value' = value
      BY <2>3
    <3>2. CASE acked' = acked
      BY <3>1, <3>2 DEF Durable!dvars
    <3>3. CASE acked' # acked
      <4>1. Answer(t)
        BY <1>1, <3>3, OnlyUsual DEF Accept, Create, Request, Usually, LoadNothing, Load, Install,
           Touch, Probe, Evict, SaveLock, SaveDump, SaveSwap, SaveOk, SaveDiscard, SweepKeep,
           SweepDone, Apply, Refuse, RefreshFails
      <4>2. /\ pc[t] = "answer" /\ req[t].id \in Ids /\ req[t].op \in {"create", "update"}
            /\ acked' = [acked EXCEPT ![req[t].id] = @ \cup {req[t].tok}]
        BY <3>3, <4>1 DEF Answer, RequestOK
      <4>3. req[t].tok \in files[req[t].id].done
        BY <4>2 DEF DurableInv, Local, IsSaved
      <4>4. req[t].tok \in Value(req[t].id)
        BY <4>2, <4>3 DEF Value, DurableInv, Stored
      <4>5. req[t].tok \in 0..MaxUpdates
        BY <1>0, <4>2, <4>4 DEF Updates
      <4>6. Durable!Confirm(req[t].id, req[t].tok)
        BY <3>1, <4>2, <4>4 DEF Durable!Confirm
      <4> QED BY <4>2, <4>5, <4>6 DEF Durable!Next
    <3> QED BY <3>2, <3>3
  <2>4. CASE \E i \in Ids : Value(i)' # Value(i)
    BY <1>1, <2>1, <2>2, <2>4, ValueStep
  <2> QED BY <2>3, <2>4
<1>2. CASE \E i \in Ids : Age(i)
  BY <1>2 DEF Age, Steadily, Steady
<1>3. CASE Crash
  <2>1. /\ \A i \in Ids : Value(i)' = files[i].done
        /\ acked' = acked
    BY <1>3 DEF Crash, Value
  <2>2. \A i \in Ids : acked[i] \subseteq files[i].done /\ files[i].done \subseteq Value(i)
    BY DEF DurableInv, Stored, Value
  <2>3. value' \in [Ids -> SUBSET (0..MaxUpdates)]
    BY <2>1 DEF SavedFiles, Updates
  <2>4. Durable!Restart
    BY <2>1, <2>2, <2>3 DEF Durable!Restart
  <2> QED BY <2>4 DEF Durable!Next
<1>4. CASE UNCHANGED vars
  BY <1>4 DEF vars, Durable!dvars, Value
<1> QED BY <1>1, <1>2, <1>3, <1>4 DEF Next

\* And every step of the session service is one of the durable one, or shows
\* nothing: sessions are created once, updates accumulate, and a restart forgets
\* nothing confirmed.
THEOREM ImplementsDurable == Spec => SteadyIsDurable
<1>1. Init => SteadyInv
  BY BaseInit, DurableInit DEF SteadyInv
<1>2. SteadyInv /\ [Next]_vars => (Steady' => [Durable!Next]_(Durable!dvars))
  BY SteadyBefore, Refines DEF SteadyInv, Steadily
<1> QED BY <1>1, <1>2, SteadyNext, PTL DEF Spec, SteadyIsDurable

\* So a store that stays steady is the durable service.
THEOREM ImplementsSteady == Spec /\ []Steady => DurableSpec
<1>1. Init => Durable!Init
  BY DEF Init, Durable!Init, Value, NoFile
<1>2. Init => SteadyInv
  BY BaseInit, DurableInit DEF SteadyInv
<1>3. SteadyInv /\ [Next]_vars /\ Steady' => [Durable!Next]_(Durable!dvars)
  BY SteadyBefore, Refines DEF SteadyInv, Steadily
<1> QED BY <1>1, <1>2, <1>3, SteadyNext, PTL DEF Spec, DurableSpec, Durable!Spec

-----------------------------------------------------------------------------
(* Without room: the sessions whose requests do not overlap.               *)
(*                                                                         *)
(* SessionAloneProofs says what such a session relies on: that its objects *)
(* have all its file has, so that an eviction is a restart of the session. *)
(* Durability asks for more: that a session has its creation on file       *)
(* before any update (Exact), and that no update is in two sessions        *)
(* (HomeInv), so that what the save of an evicted session brings back - the *)
(* update under way and the marks that failed before it - is new to all.   *)

\* The updates that are with session i: in its file, in its object, or in an
\* object or a snapshot of a request about it.
Has(i) == {k \in Updates :
  \/ k \in files[i].done
  \/ sessions[i] \in Objs /\ k \in heap[sessions[i]]
  \/ \E t \in Threads : /\ req[t].id = i
                        /\ \/ k \in req[t].snap
                           \/ req[t].obj \in Objs /\ k \in heap[req[t].obj]}

\* No update is with two sessions; 0, the creation, is with all.
HomeInv == \A i, j \in Ids : i # j => Has(i) \cap Has(j) \subseteq {0}

\* Where a step may leave updates with j.
LEMMA HasFrom ==
  ASSUME NEW j \in Ids, NEW S, files'[j].done \subseteq S,
         sessions'[j] \in Objs => heap'[sessions'[j]] \subseteq S,
         \A u \in Threads : req'[u].id = j =>
           req'[u].snap \subseteq S /\ (req'[u].obj \in Objs => heap'[req'[u].obj] \subseteq S)
  PROVE  Has(j)' \subseteq S
BY DEF Has

\* The places where j's updates are.
LEMMA HasIn ==
  ASSUME TypeInv, NEW j \in Ids
  PROVE  /\ files[j].done \subseteq Has(j)
         /\ sessions[j] \in Objs => heap[sessions[j]] \subseteq Has(j)
         /\ \A u \in Threads : req[u].id = j =>
              req[u].snap \subseteq Has(j) /\ (req[u].obj \in Objs => heap[req[u].obj] \subseteq Has(j))
         /\ Has(j) \subseteq Seen
<1>1. /\ files[j].done \subseteq Updates
      /\ \A o \in Objs : heap[o] \subseteq Updates
      /\ \A u \in Threads : req[u].snap \subseteq Updates
  BY DEF TypeInv, TypeOK, SavedFiles, Requests
<1>2. /\ files[j].done \subseteq Has(j)
      /\ sessions[j] \in Objs => heap[sessions[j]] \subseteq Has(j)
  BY <1>1 DEF Has
<1>3. ASSUME NEW u \in Threads, req[u].id = j
      PROVE  req[u].snap \subseteq Has(j) /\ (req[u].obj \in Objs => heap[req[u].obj] \subseteq Has(j))
  BY <1>1, <1>3 DEF Has
<1>4. Has(j) \subseteq Seen
  BY DEF Has, Seen
<1> QED BY <1>2, <1>3, <1>4

\* A step that only loses references and updates.
LEMMA HasLess ==
  ASSUME TypeInv, NEW j \in Ids, files'[j].done \subseteq files[j].done,
         sessions'[j] \in {sessions[j], NoObj}, \A o \in Objs : heap'[o] \subseteq heap[o],
         \A u \in Threads : req'[u].id = j =>
           req[u].id = j /\ req'[u].obj = req[u].obj /\ req'[u].snap \subseteq req[u].snap
  PROVE  Has(j)' \subseteq Has(j)
<1>1. NoObj \notin Objs
  BY NoneAssumption
<1>2. sessions'[j] \in Objs => heap'[sessions'[j]] \subseteq Has(j)
  BY <1>1, HasIn
<1>3. \A u \in Threads : req'[u].id = j =>
        req'[u].snap \subseteq Has(j) /\ (req'[u].obj \in Objs => heap'[req'[u].obj] \subseteq Has(j))
  BY HasIn
<1> QED BY <1>2, <1>3, HasIn, HasFrom

\* The only step that brings an update other than the creation to a session
\* is its application by a request about the session.
LEMMA HasStep ==
  ASSUME TypeInv, ApartInv, NEW t \in Threads, Accept(t) \/ Step(t), NEW j \in Ids
  PROVE  \/ Has(j)' \subseteq Has(j) \cup {0}
         \/ Apply(t) /\ j = req[t].id /\ Has(j)' \subseteq Has(j) \cup {req[t].tok}
<1> USE DEF TypeInv, TypeOK, Goto
<1>0. /\ req \in [Threads -> Requests] /\ sessions \in [Ids -> Objs \cup {NoObj}]
      /\ pc[t] # "idle" => req[t].id \in Ids
      /\ \A u \in Threads \ {t} : req'[u] = req[u]
      /\ NoObj \notin Objs /\ NoId \notin Ids
  BY OthersKeep, NoneAssumption DEF RequestOK
<1> DEFINE S == Has(j) \cup {0}
<1>1. /\ files[j].done \subseteq S
      /\ sessions[j] \in Objs => heap[sessions[j]] \subseteq S
      /\ \A u \in Threads : req[u].id = j =>
           req[u].snap \subseteq S /\ (req[u].obj \in Objs => heap[req[u].obj] \subseteq S)
  BY HasIn
<1>2. ASSUME \A o \in Objs : heap'[o] \subseteq heap[o], sessions'[j] \in {sessions[j], NoObj},
             files'[j].done \subseteq files[j].done,
             \/ req'[t].id = NoId
             \/ /\ req'[t].id = req[t].id /\ req'[t].obj = req[t].obj
                /\ req'[t].snap \subseteq req[t].snap
      PROVE  Has(j)' \subseteq S
  BY <1>0, <1>2, HasLess
<1>3. \A s, r : \A o \in Objs : Collected(s, r)[o] \subseteq heap[o]
  BY CollectedSeen
<1>4. ASSUME Finish(t), sessions' = sessions, files'[j].done \subseteq files[j].done PROVE Has(j)' \subseteq S
  <2>1. req'[t].id = NoId
    BY <1>4 DEF Finish, NoRequest, NewRequest
  <2> QED BY <1>2, <1>3, <1>4, <2>1 DEF Finish
<1>5. ASSUME NEW x, UNCHANGED <<sessions, heap>>, files'[j].done \subseteq files[j].done,
             \/ req' = req
             \/ req' = [req EXCEPT ![t].snap = {}] \/ req' = [req EXCEPT ![t].lock = x]
             \/ req' = [req EXCEPT ![t].sweep = x] \/ req' = [req EXCEPT ![t].victim = x]
             \/ req' = [req EXCEPT ![t].op = x]
      PROVE  Has(j)' \subseteq S
  <2>1. req'[t].id = req[t].id /\ req'[t].obj = req[t].obj /\ req'[t].snap \subseteq req[t].snap
    <3>1. CASE req' = req  BY <3>1
    <3>2. CASE req' = [req EXCEPT ![t].snap = {}]  BY <1>0, <3>2, FieldSame DEF Same
    <3>3. CASE req' = [req EXCEPT ![t].lock = x]  BY <1>0, <3>3, FieldSame DEF Same
    <3>4. CASE req' = [req EXCEPT ![t].sweep = x]  BY <1>0, <3>4, FieldSame DEF Same
    <3>5. CASE req' = [req EXCEPT ![t].victim = x]  BY <1>0, <3>5, FieldSame DEF Same
    <3>6. CASE req' = [req EXCEPT ![t].op = x]  BY <1>0, <3>6, FieldSame
    <3> QED BY <1>5, <3>1, <3>2, <3>3, <3>4, <3>5, <3>6
  <2> QED BY <1>2, <1>5, <2>1
<1>6. \A k \in Ids : [files EXCEPT ![k] = NoFile][j].done \subseteq files[j].done
  BY DEF NoFile
<1>7. ASSUME Accept(t) PROVE Has(j)' \subseteq S
  <2>1. ASSUME NEW i \in Ids, Create(t, i) PROVE Has(j)' \subseteq S
    <3>1. /\ sessions' = [sessions EXCEPT ![i] = FreshObj] /\ files' = files /\ Free # {}
          /\ heap' = [heap EXCEPT ![FreshObj] = {0}]
          /\ req'[t].id = i /\ req'[t].obj = FreshObj /\ req'[t].snap = {}
      BY <1>0, <2>1 DEF Create, NewRequest
    <3>2. \A o \in Objs : heap'[o] = heap[o] \/ heap'[o] = {0}
      BY <3>1
    <3>3. FreshObj \in Objs /\ heap'[FreshObj] = {0}
      BY <3>1, FreshType
    <3>4. sessions'[j] \in Objs => heap'[sessions'[j]] \subseteq S
      BY <1>0, <1>1, <3>1, <3>2, <3>3
    <3>5. \A u \in Threads : req'[u].id = j =>
            req'[u].snap \subseteq S /\ (req'[u].obj \in Objs => heap'[req'[u].obj] \subseteq S)
      BY <1>0, <1>1, <3>1, <3>2, <3>3
    <3> QED BY <1>1, <3>1, <3>4, <3>5, HasFrom
  <2>2. ASSUME NEW i \in Ids, NEW op \in {"read", "update", "delete"}, Request(t, op, i)
        PROVE  Has(j)' \subseteq S
    <3>1. /\ UNCHANGED <<sessions, heap, files>>
          /\ req'[t].id = i /\ req'[t].obj = sessions[i] /\ req'[t].snap = {}
      BY <1>0, <2>2 DEF Request, NewRequest
    <3>2. \A u \in Threads : req'[u].id = j =>
            req'[u].snap \subseteq S /\ (req'[u].obj \in Objs => heap'[req'[u].obj] \subseteq S)
      BY <1>0, <1>1, <3>1
    <3>3. /\ files'[j].done \subseteq S
          /\ sessions'[j] \in Objs => heap'[sessions'[j]] \subseteq S
      BY <1>1, <3>1
    <3> HIDE DEF S
    <3> QED BY <3>2, <3>3, HasFrom
  <2> QED BY <1>7, <2>1, <2>2 DEF Accept
<1>8. ASSUME Get(t) PROVE Has(j)' \subseteq S
  <2>1. CASE LoadNothing(t) \/ UnlinkExpired(t)
    BY <1>0, <1>4, <1>5, <1>6, <2>1 DEF LoadNothing, UnlinkExpired, NotFound
  <2>6. CASE UnlinkExpiredFails(t)
    BY <1>4, <2>6 DEF UnlinkExpiredFails
  <2>2. CASE LoadExpired(t) \/ Touch(t)
    BY <1>5, <2>2 DEF LoadExpired, Touch
  <2>3. CASE Load(t)
    <3>1. /\ req'[t].id = req[t].id /\ req'[t].obj = FreshObj /\ req'[t].snap = req[t].snap
          /\ UNCHANGED <<sessions, files>> /\ Free # {} /\ req[t].id \in Ids
          /\ heap' = [heap EXCEPT ![FreshObj] = files[req[t].id].done]
      BY <1>0, <2>3, FieldSame DEF Load
    <3>2. /\ FreshObj \in Objs /\ FreshObj # sessions[j]
          /\ \A u \in Threads : FreshObj # req[u].obj
      BY <3>1, FreshType, FreshUnused DEF Free, Live
    <3>3. \A u \in Threads : req'[u].id = j =>
            req'[u].snap \subseteq S /\ (req'[u].obj \in Objs => heap'[req'[u].obj] \subseteq S)
      BY <1>0, <1>1, <3>1, <3>2
    <3> QED BY <1>1, <3>1, <3>2, <3>3, HasFrom
  <2>4. CASE Install(t)
    <3>1. /\ req'[t].id = req[t].id /\ req'[t].obj = Kept(t) /\ req'[t].snap = req[t].snap
          /\ sessions' = [sessions EXCEPT ![req[t].id] = Kept(t)] /\ files' = files
          /\ Kept(t) \in {sessions[req[t].id], req[t].obj} /\ req[t].id \in Ids
      BY <1>0, <2>4, FieldSame DEF Install, Kept
    <3>2. \A o \in Objs : heap'[o] \subseteq heap[o]
      BY <1>3, <2>4 DEF Install
    <3>3. sessions'[j] \in Objs => heap'[sessions'[j]] \subseteq S
      BY <1>0, <1>1, <3>1, <3>2
    <3>4. \A u \in Threads : req'[u].id = j =>
            req'[u].snap \subseteq S /\ (req'[u].obj \in Objs => heap'[req'[u].obj] \subseteq S)
      BY <1>0, <1>1, <3>1, <3>2
    <3> QED BY <1>1, <3>1, <3>3, <3>4, HasFrom
  <2>5. CASE Probe(t)
    <3>1. CASE Finish(t)
      BY <1>4, <2>5, <3>1 DEF Probe
    <3>2. CASE req' = [req EXCEPT ![t].obj = sessions[req[t].id]] /\ UNCHANGED heap
      <4>1. /\ req'[t].id = req[t].id /\ req'[t].obj = sessions[req[t].id] /\ req'[t].snap = req[t].snap
            /\ UNCHANGED <<sessions, heap, files>> /\ req[t].id \in Ids
        BY <1>0, <2>5, <3>2, FieldSame DEF Probe
      <4>2. \A u \in Threads : req'[u].id = j =>
              req'[u].snap \subseteq S /\ (req'[u].obj \in Objs => heap'[req'[u].obj] \subseteq S)
        BY <1>0, <1>1, <4>1
      <4>3. /\ files'[j].done \subseteq S
            /\ sessions'[j] \in Objs => heap'[sessions'[j]] \subseteq S
        BY <1>1, <4>1
      <4> HIDE DEF S
      <4> QED BY <4>2, <4>3, HasFrom
    <3> QED BY <2>5, <3>1, <3>2 DEF Probe
  <2> QED BY <1>8, <2>1, <2>2, <2>3, <2>4, <2>5, <2>6 DEF Get
<1>9. ASSUME Evict(t) \/ Pop(t) PROVE Has(j)' \subseteq S
  <2>1. req' = req /\ files' = files /\ sessions'[j] \in {sessions[j], NoObj}
    BY <1>0, <1>9 DEF Evict, Drop, Pop
  <2>2. \A o \in Objs : heap'[o] \subseteq heap[o]
    BY <1>3, <1>9 DEF Evict, Pop
  <2> QED BY <1>2, <2>1, <2>2
<1>10. ASSUME Save(t) PROVE Has(j)' \subseteq S
  <2>1. CASE SaveLock(t) \/ SaveFail(t) \/ SaveOk(t) \/ SaveDiscard(t) \/ SaveFailed(t) \/ SaveNote(t)
    BY <1>5, <2>1 DEF SaveLock, SaveFail, SaveOk, SaveDiscard, SaveFailed, SaveNote
  <2>2. CASE SaveDump(t)
    <3>1. /\ req'[t].id = req[t].id /\ req'[t].obj = req[t].obj /\ req'[t].snap = heap[req[t].obj]
          /\ UNCHANGED <<sessions, heap, files>> /\ req[t].obj \in Objs
      BY <1>0, <2>2, FieldSame DEF SaveDump, Same, RequestOK, Holding
    <3>2. \A u \in Threads : req'[u].id = j =>
            req'[u].snap \subseteq S /\ (req'[u].obj \in Objs => heap'[req'[u].obj] \subseteq S)
      BY <1>0, <1>1, <3>1
    <3> QED BY <1>1, <3>1, <3>2, HasFrom
  <2>3. CASE SaveSwap(t)
    <3>1. /\ req'[t].id = req[t].id /\ req'[t].obj = req[t].obj /\ req'[t].snap = {}
          /\ UNCHANGED <<sessions, heap>> /\ req[t].id \in Ids
          /\ files' = [files EXCEPT ![req[t].id] = File(req[t].snap)]
      BY <1>0, <2>3, FieldSame DEF SaveSwap, Same
    <3>2. files'[j].done \subseteq S
      BY <1>0, <1>1, <3>1 DEF File
    <3>3. \A u \in Threads : req'[u].id = j =>
            req'[u].snap \subseteq S /\ (req'[u].obj \in Objs => heap'[req'[u].obj] \subseteq S)
      BY <1>0, <1>1, <3>1
    <3>4. sessions'[j] \in Objs => heap'[sessions'[j]] \subseteq S
      BY <1>1, <3>1
    <3> QED BY <3>2, <3>3, <3>4, HasFrom
  <2> QED BY <1>10, <2>1, <2>2, <2>3 DEF Save
<1>11. ASSUME Sweep(t) PROVE Has(j)' \subseteq S
  <2>1. CASE SweepKeep(t) \/ SweepExpired(t) \/ SweepUnlinkFails(t) \/ SweepDone(t)
    BY <1>5, <2>1 DEF SweepKeep, SweepExpired, SweepUnlinkFails, SweepDone
  <2>2. CASE SweepUnlink(t)
    <3>1. files'[j].done \subseteq files[j].done
      BY <2>2 DEF SweepUnlink, NoFile
    <3> QED BY <1>5, <2>2, <3>1 DEF SweepUnlink
  <2> QED BY <1>11, <2>1, <2>2 DEF Sweep
<1>12. ASSUME Refuse(t) \/ RefreshFails(t) \/ Answer(t) \/ Unlink(t) \/ UnlinkFails(t) PROVE Has(j)' \subseteq S
  BY <1>0, <1>4, <1>6, <1>12 DEF Refuse, RefreshFails, Answer, Unlink, UnlinkFails
<1>13. ASSUME Apply(t)
       PROVE  \/ Has(j)' \subseteq S
              \/ j = req[t].id /\ Has(j)' \subseteq Has(j) \cup {req[t].tok}
  <2>1. /\ UNCHANGED <<sessions, files, req>> /\ req[t].obj \in Objs /\ req[t].id \in Ids
        /\ heap' = [heap EXCEPT ![req[t].obj] = @ \cup {req[t].tok}]
    BY <1>0, <1>13 DEF Apply, RequestOK, Holding
  <2>2. CASE j # req[t].id
    <3>1. /\ sessions[j] # req[t].obj
          /\ \A u \in Threads : req[u].id = j => req[u].obj # req[t].obj
      BY <1>0, <2>1, <2>2 DEF ApartInv
    <3>2. sessions'[j] \in Objs => heap'[sessions'[j]] \subseteq S
      BY <1>1, <2>1, <3>1
    <3>3. \A u \in Threads : req'[u].id = j =>
            req'[u].snap \subseteq S /\ (req'[u].obj \in Objs => heap'[req'[u].obj] \subseteq S)
      BY <1>1, <2>1, <3>1
    <3> QED BY <1>1, <2>1, <3>2, <3>3, HasFrom
  <2>3. CASE j = req[t].id
    <3> DEFINE T == Has(j) \cup {req[t].tok}
    <3>1. \A o \in Objs : heap'[o] \subseteq heap[o] \cup {req[t].tok}
      BY <2>1
    <3>2. files'[j].done \subseteq T
      BY <1>1, <2>1, HasIn
    <3>3. sessions'[j] \in Objs => heap'[sessions'[j]] \subseteq T
      BY <2>1, <3>1, HasIn
    <3>4. \A u \in Threads : req'[u].id = j => req'[u].snap \subseteq T
      BY <2>1, HasIn
    <3>5. ASSUME NEW u \in Threads, req'[u].id = j, req'[u].obj \in Objs
          PROVE  heap'[req'[u].obj] \subseteq T
      <4>1. req[u].id = j /\ req[u].obj \in Objs /\ req'[u].obj = req[u].obj
        BY <2>1, <3>5
      <4>2. heap[req[u].obj] \subseteq Has(j)
        BY <4>1, HasIn
      <4> QED BY <3>1, <4>1, <4>2
    <3>6. \A u \in Threads : req'[u].id = j =>
            req'[u].snap \subseteq T /\ (req'[u].obj \in Objs => heap'[req'[u].obj] \subseteq T)
      BY <3>4, <3>5
    <3> HIDE DEF T
    <3>7. Has(j)' \subseteq T
      BY <3>2, <3>3, <3>6, HasFrom
    <3> QED BY <2>3, <3>7 DEF T
  <2> QED BY <2>2, <2>3
<1> QED BY <1>7, <1>8, <1>9, <1>10, <1>11, <1>12, <1>13 DEF Step, Handle


\* Nothing else brings an update to another session, and an update about to be
\* applied is nowhere yet.
LEMMA HomeThread ==
  ASSUME TypeInv, TokenInv, ApartInv, HomeInv, NEW t \in Threads, Accept(t) \/ Step(t)
  PROVE  HomeInv'
<1>1. ASSUME NEW j \in Ids
      PROVE  \/ Has(j)' \subseteq Has(j) \cup {0}
             \/ Apply(t) /\ j = req[t].id /\ Has(j)' \subseteq Has(j) \cup {req[t].tok}
  BY HasStep
<1>2. Apply(t) => \A j \in Ids : req[t].tok \notin Has(j)
  <2>1. Apply(t) => t \in Pending
    BY DEF Apply, Pending, TokenInv, OpOK
  <2> QED BY <2>1, HasIn DEF TokenInv
<1> SUFFICES ASSUME NEW i \in Ids, NEW j \in Ids, i # j
             PROVE  Has(i)' \cap Has(j)' \subseteq {0}
  BY DEF HomeInv
<1>3. Has(i) \cap Has(j) \subseteq {0}
  BY DEF HomeInv
<1>4. CASE Has(i)' \subseteq Has(i) \cup {0} /\ Has(j)' \subseteq Has(j) \cup {0}
  BY <1>3, <1>4
<1>5. CASE Apply(t) /\ i = req[t].id /\ Has(i)' \subseteq Has(i) \cup {req[t].tok}
  <2>1. Has(j)' \subseteq Has(j) \cup {0} /\ req[t].tok \notin Has(j)
    BY <1>1, <1>2, <1>5
  <2> QED BY <1>3, <1>5, <2>1
<1>6. CASE Apply(t) /\ j = req[t].id /\ Has(j)' \subseteq Has(j) \cup {req[t].tok}
  <2>1. Has(i)' \subseteq Has(i) \cup {0} /\ req[t].tok \notin Has(i)
    BY <1>1, <1>2, <1>6
  <2> QED BY <1>3, <1>6, <2>1
<1> QED BY <1>1, <1>4, <1>5, <1>6

\* Every step keeps the updates apart; a restart and an expiry bring none.
LEMMA HomeStep ==
  TypeInv /\ TokenInv /\ ApartInv /\ HomeInv /\ [Next]_vars => HomeInv'
<1> SUFFICES ASSUME TypeInv, TokenInv, ApartInv, HomeInv, [Next]_vars PROVE HomeInv'
  OBVIOUS
<1>1. ASSUME \A j \in Ids : Has(j)' \subseteq Has(j) PROVE HomeInv'
  BY <1>1 DEF HomeInv
<1>2. ASSUME NEW k \in Ids, Age(k) PROVE HomeInv'
  <2>1. UNCHANGED <<table, req>> /\ \A j \in Ids : files'[j].done = files[j].done
    BY <1>2 DEF Age, TypeInv, TypeOK, SavedFiles
  <2> QED BY <1>1, <2>1 DEF Has
<1>3. CASE Crash
  <2>1. /\ files' = files /\ \A j \in Ids : sessions'[j] = NoObj
        /\ \A u \in Threads : req'[u].id = NoId
    BY <1>3 DEF Crash, NoRequest, NewRequest
  <2>2. \A j \in Ids : Has(j)' \subseteq files[j].done
    BY <2>1, NoneAssumption DEF Has
  <2> QED BY <1>1, <2>2, HasIn
<1>4. CASE UNCHANGED vars
  BY <1>4 DEF vars, HomeInv, Has
<1> QED BY <1>2, <1>3, <1>4, HomeThread DEF Next

\* A session being created, not saved yet.
Unwritten(t) == /\ req[t].op = "create" /\ pc[t] \in {"sweep", "lock", "dump", "swap"}
                /\ heap[req[t].obj] = {0}

\* What a request alone on its session adds to what AtWork says of it.
ExactAt(t) ==
  pc[t] \in AtHand \cup {"install"} =>
    0 \in heap[req[t].obj] /\ (0 \in files[req[t].id].done \/ Unwritten(t))

\* A session holds its creation, in memory and in its file.
Exact(i) ==
  /\ sessions[i] # NoObj =>
       /\ 0 \in heap[sessions[i]]
       /\ 0 \in files[i].done \/ \E t \in Threads : req[t].id = i /\ Unwritten(t)
  /\ files[i].here \/ files[i].done # {} => 0 \in files[i].done
  /\ \A t \in Threads : req[t].id = i => ExactAt(t)

ExactInv == ages = 0 /\ fails = 0 => unsaved = {} /\ \A i \in Ids \ shared : Exact(i)

\* Requests about other sessions leave that too.
LEMMA ElseExact ==
  ASSUME TypeInv, ApartInv, NothingOld, NEW t \in Threads, Accept(t) \/ Step(t),
         NEW i \in Ids, i # req[t].id, i # req'[t].id, Exact(i)
  PROVE  Exact(i)'
<1>1. LeftAlone(i)
  BY ElseKeeps
<1>2. \A u \in Threads : req'[u].id = i =>
        req[u].id = i /\ req'[u] = req[u] /\ pc'[u] = pc[u] /\ (pc[u] \in Holding => req[u].obj \in Objs)
  <2>1. \A u \in Threads \ {t} : req'[u] = req[u] /\ pc'[u] = pc[u]
    BY OthersKeep
  <2>2. \A u \in Threads : req[u].id = i /\ pc[u] \in Holding => req[u].obj \in Objs
    BY DEF TypeInv, RequestOK, Holding
  <2> QED BY <2>1, <2>2
<1>3. ASSUME NEW u \in Threads, req'[u].id = i PROVE ExactAt(u)'
  <2>1. ExactAt(u) /\ req[u].id = i /\ req'[u] = req[u] /\ pc'[u] = pc[u]
    BY <1>2, <1>3 DEF Exact
  <2>2. pc[u] \in AtHand \cup {"install"} => heap'[req[u].obj] = heap[req[u].obj]
    BY <1>1, <1>2, <1>3, <2>1 DEF LeftAlone, AtHand, Dirty, Holding
  <2> QED BY <1>1, <2>1, <2>2 DEF ExactAt, Unwritten, LeftAlone, AtHand, Dirty
<1>4. ASSUME NEW u \in Threads, req[u].id = i, Unwritten(u) PROVE req'[u].id = i /\ Unwritten(u)'
  <2>1. u # t /\ pc[u] \in Holding
    BY <1>4 DEF Unwritten, Holding
  <2>2. req'[u] = req[u] /\ pc'[u] = pc[u] /\ req[u].obj \in Objs
    BY <1>4, <2>1, OthersKeep DEF TypeInv, RequestOK, Holding
  <2> QED BY <1>1, <1>4, <2>2 DEF LeftAlone, Unwritten
<1> QED BY <1>1, <1>3, <1>4 DEF Exact, LeftAlone

\* What it takes for a step of t in the middle of its request ...
LEMMA MiddleExact ==
  ASSUME NEW t \in Threads, NEW i \in Ids,
         \A u \in Threads \ {t} : req'[u].id # i,
         sessions'[i] # NoObj => 0 \in heap'[sessions'[i]],
         sessions'[i] # NoObj => 0 \in files'[i].done \/ (req'[t].id = i /\ Unwritten(t)'),
         files'[i].here \/ files'[i].done # {} => 0 \in files'[i].done,
         ExactAt(t)'
  PROVE  Exact(i)'
BY DEF Exact

\* ... and at its end.
LEMMA EndExact ==
  ASSUME TypeInv, NEW t \in Threads, NEW i \in Ids, i = req[t].id, Exact(i),
         \A u \in Threads \ {t} : req[u].id # i /\ req'[u].id # i, ~Unwritten(t),
         Finish(t), sessions' = sessions, files'[i] = files[i] \/ files'[i] = NoFile,
         sessions[i] # NoObj => files'[i] = files[i]
  PROVE  Exact(i)'
<1> USE DEF TypeInv, TypeOK
<1>1. req'[t].id = NoId /\ NoId # i
  BY NoneAssumption DEF Finish, NoRequest, NewRequest
<1>2. sessions[i] # NoObj => heap'[sessions[i]] = heap[sessions[i]]
  <2> SUFFICES ASSUME sessions[i] # NoObj PROVE heap'[sessions[i]] = heap[sessions[i]]
    OBVIOUS
  <2>1. sessions[i] \in Objs /\ sessions[i] \in Live(sessions, req')
    BY DEF Live
  <2> QED BY <2>1, CollectedLive DEF Finish
<1>3. sessions'[i] # NoObj => 0 \in heap'[sessions'[i]] /\ 0 \in files'[i].done
  BY <1>2 DEF Exact
<1>4. files'[i].here \/ files'[i].done # {} => 0 \in files'[i].done
  BY DEF Exact, NoFile
<1> QED BY <1>1, <1>3, <1>4 DEF Exact

\* Bringing the session up.
LEMMA ExactGet ==
  ASSUME TypeInv, CreateOK, NothingOld, NEW t \in Threads,
         Get(t) \/ Evict(t), NEW i \in Ids, i = req[t].id, SessionOK(i), Exact(i), unsaved = {},
         \A u \in Threads \ {t} : req[u].id # i
  PROVE  Exact(i)'
<1> USE DEF TypeInv, TypeOK, Goto
<1>0. /\ AtWork(t) /\ ExactAt(t) /\ pc[t] \notin {"expire", "purge"} /\ NoObj \notin Objs
      /\ pc[t] # "idle" /\ req[t].op \in Kinds \cup {"probe"} /\ req \in [Threads -> Requests]
      /\ (pc[t] \in Holding => req[t].obj \in Objs) /\ sessions[i] \in Objs \cup {NoObj}
  <2>1. pc[t] # "idle"
    BY DEF Get, LoadNothing, LoadExpired, Load, UnlinkExpired, UnlinkExpiredFails, Install, Touch, Probe, Evict
  <2> QED BY <2>1, NoneAssumption DEF SessionOK, Exact, RequestOK, NothingOld
<1>1. \A u \in Threads \ {t} : req'[u].id # i
  BY OthersKeep DEF Step
<1>2. files'[i] = files[i]
  BY <1>0 DEF Get, LoadNothing, LoadExpired, Load, UnlinkExpired, UnlinkExpiredFails, Install, Touch, Probe, Evict
<1>3. files'[i].here \/ files'[i].done # {} => 0 \in files'[i].done
  BY <1>2 DEF Exact
<1>14. \A u \in Threads : req[u].id = i => u = t
  OBVIOUS
<1>15. ~Unwritten(t)
  BY DEF Unwritten, Get, LoadNothing, LoadExpired, Load, UnlinkExpired, UnlinkExpiredFails, Install,
     Touch, Probe, Evict
<1>6. sessions[i] # NoObj => 0 \in heap[sessions[i]] /\ 0 \in files[i].done
  BY <1>14, <1>15 DEF Exact
<1>4. ASSUME NEW r, heap' = Collected(sessions', r)
      PROVE  /\ sessions'[i] \in Objs => heap'[sessions'[i]] = heap[sessions'[i]]
             /\ r[t].obj \in Objs => heap'[r[t].obj] = heap[r[t].obj]
  <2>1. sessions'[i] \in Live(sessions', r) /\ r[t].obj \in Live(sessions', r)
    BY DEF Live
  <2> QED BY <1>4, <2>1, CollectedLive
<1>5. ASSUME Finish(t), sessions' = sessions PROVE Exact(i)'
  BY <1>0, <1>1, <1>2, <1>5, <1>15, EndExact
<1>7. CASE LoadNothing(t)
  <2>1. pc[t] = "load" /\ sessions' = sessions /\ sessions[i] = NoObj
    BY <1>0, <1>7 DEF LoadNothing, AtWork
  <2>2. CASE pc'[t] \in {"pop", "probe"}
    BY <1>0, <1>1, <1>3, <2>1, <2>2, MiddleExact DEF ExactAt, AtHand, Dirty
  <2> QED BY <1>5, <1>7, <2>1, <2>2 DEF LoadNothing, NotFound
<1>8. CASE Load(t)
  <2>1. /\ pc[t] = "load" /\ pc'[t] = "install" /\ sessions' = sessions /\ sessions[i] = NoObj
        /\ req'[t].id = i /\ req'[t].obj = FreshObj /\ heap'[FreshObj] = files[i].done
        /\ files[i].here
    BY <1>0, <1>8, FieldSame, FreshType DEF Load, AtWork
  <2>2. ExactAt(t)'
    BY <1>2, <2>1 DEF Exact, ExactAt
  <2> QED BY <1>1, <1>3, <2>1, <2>2, MiddleExact
<1>9. CASE Install(t)
  <2>1. /\ pc[t] = "install" /\ pc'[t] = "touch" /\ sessions[i] = NoObj
        /\ heap[req[t].obj] = files[i].done /\ req[t].obj \in Objs
    BY <1>0, <1>9 DEF Install, AtWork, Holding
  <2>2. Kept(t) = req[t].obj /\ sessions' = [sessions EXCEPT ![i] = req[t].obj]
    BY <1>9, <2>1 DEF Install, Kept
  <2>3. /\ req'[t].id = i /\ req'[t].obj = req[t].obj /\ req'[t].tok = req[t].tok
        /\ heap' = Collected(sessions', req')
    BY <1>9, <2>2, FieldSame DEF Install
  <2>4. sessions'[i] = req[t].obj /\ heap'[req[t].obj] = files[i].done
    BY <1>4, <2>1, <2>2, <2>3
  <2>5. 0 \in files[i].done
    BY <1>0, <2>1 DEF ExactAt
  <2>6. ExactAt(t)'
    BY <1>2, <2>1, <2>3, <2>4, <2>5 DEF ExactAt
  <2> QED BY <1>1, <1>2, <1>3, <2>4, <2>5, <2>6, MiddleExact
<1>10. CASE Touch(t)
  <2>1. pc[t] = "touch" /\ pc'[t] = "evict" /\ UNCHANGED <<sessions, heap, req>>
    BY <1>10 DEF Touch
  <2>2. ExactAt(t)'
    BY <1>0, <1>2, <1>15, <2>1 DEF ExactAt, AtHand, Dirty
  <2> QED BY <1>1, <1>2, <1>3, <1>6, <2>1, <2>2, MiddleExact
<1>11. CASE Probe(t)
  <2>1. CASE Finish(t)
    BY <1>5, <1>11, <2>1 DEF Probe
  <2>2. CASE req' = [req EXCEPT ![t].obj = sessions[i]] /\ pc' = [pc EXCEPT ![t] = LookedUp(i)]
             /\ UNCHANGED heap
    <3>1. /\ pc[t] = "probe" /\ sessions' = sessions /\ heap' = heap
          /\ req'[t].id = i /\ req'[t].obj = sessions[i]
      BY <1>11, <2>2, FieldSame DEF Probe
    <3>2. \/ pc'[t] = "load" /\ sessions[i] = NoObj
          \/ pc'[t] = "touch" /\ sessions[i] # NoObj
      BY <2>2 DEF LookedUp
    <3>4. ExactAt(t)'
      BY <1>2, <1>6, <3>1, <3>2 DEF ExactAt, AtHand, Dirty
    <3> QED BY <1>1, <1>2, <1>3, <1>6, <3>1, <3>4, MiddleExact
  <2> QED BY <1>11, <2>1, <2>2 DEF Probe
<1>12. CASE Evict(t)
  <2>1. /\ pc[t] = "evict" /\ req' = req /\ heap' = Collected(sessions', req)
        /\ sessions'[i] \in {sessions[i], NoObj} /\ req[t].obj \in Objs
    BY <1>0, <1>12 DEF Evict, Drop, Holding
  <2>2. heap'[req[t].obj] = heap[req[t].obj] /\ (sessions'[i] # NoObj => heap'[sessions[i]] = heap[sessions[i]])
    BY <1>0, <1>4, <2>1
  <2>3. pc'[t] \in {"answer", "apply", "pop"}
    BY <1>0, <1>12, <2>1 DEF Evict, AfterEvict, Kinds
  <2>4. ExactAt(t)'
    BY <1>0, <1>2, <1>15, <2>1, <2>2, <2>3 DEF ExactAt, AtHand, Dirty
  <2> QED BY <1>1, <1>2, <1>3, <1>6, <2>1, <2>2, <2>4, MiddleExact
<1>13. ~LoadExpired(t) /\ ~UnlinkExpired(t) /\ ~UnlinkExpiredFails(t)
  BY <1>0 DEF LoadExpired, UnlinkExpired, UnlinkExpiredFails, NothingOld
<1> QED BY <1>7, <1>8, <1>9, <1>10, <1>11, <1>12, <1>13 DEF Get

\* Saving: the swap puts the update under way in the file.
LEMMA ExactSave ==
  ASSUME TypeInv, NothingOld, NothingFailed, NEW t \in Threads, Save(t) \/ Sweep(t),
         NEW i \in Ids, i = req[t].id, SessionOK(i), Exact(i), unsaved = {}, fails' = 0,
         \A u \in Threads \ {t} : req[u].id # i
  PROVE  Exact(i)' /\ unsaved' = {}
<1> USE DEF TypeInv, TypeOK, Goto
<1> DEFINE o == req[t].obj
<1>0. /\ AtWork(t) /\ ExactAt(t) /\ fails = 0 /\ req \in [Threads -> Requests]
      /\ pc[t] \in {"sweep", "lock", "dump", "swap", "ok", "discard"}
  <2>1. pc[t] \in {"sweep", "purge", "lock", "dump", "swap", "ok", "discard", "failed", "note"}
    BY DEF Save, SaveLock, SaveDump, SaveSwap, SaveFail, SaveOk, SaveDiscard, SaveFailed, SaveNote,
       Sweep, SweepKeep, SweepExpired, SweepUnlink, SweepUnlinkFails, SweepDone
  <2>2. pc[t] # "purge" /\ fails \in Nat /\ fails = 0
    BY Counts, BoundAssumption DEF NothingOld, Step
  <2> QED BY <2>1, <2>2 DEF SessionOK, Exact, NothingFailed
<1>1. \A u \in Threads \ {t} : req'[u].id # i
  BY OthersKeep DEF Step
<1>2. UNCHANGED <<sessions, heap>> /\ unsaved' = {}
  BY <1>0 DEF Save, SaveLock, SaveDump, SaveSwap, SaveFail, SaveOk, SaveDiscard, SaveFailed, SaveNote,
     Sweep, SweepKeep, SweepExpired, SweepUnlink, SweepUnlinkFails, SweepDone
<1>3. 0 \in heap[o] /\ (0 \in files[i].done \/ Unwritten(t)) /\ sessions[i] \in {NoObj, o}
  BY <1>0 DEF AtWork, ExactAt, AtHand, Dirty
<1>4. ASSUME req'[t].id = i, req'[t].obj = o, req'[t].op = req[t].op, files'[i] = files[i],
             pc[t] \in {"ok", "discard"} \/ pc'[t] \in {"sweep", "lock", "dump", "swap"}
      PROVE  Exact(i)'
  <2>1. 0 \in files'[i].done \/ Unwritten(t)'
    BY <1>2, <1>3, <1>4 DEF Unwritten
  <2>2. ExactAt(t)'
    BY <1>2, <1>3, <1>4, <2>1 DEF ExactAt
  <2>3. files'[i].here \/ files'[i].done # {} => 0 \in files'[i].done
    BY <1>4 DEF Exact
  <2>4. sessions'[i] # NoObj => 0 \in heap'[sessions'[i]]
    BY <1>2, <1>3
  <2> QED BY <1>1, <1>4, <2>1, <2>2, <2>3, <2>4, MiddleExact
<1>5. ASSUME NEW x, \/ req' = [req EXCEPT ![t].lock = x] \/ req' = [req EXCEPT ![t].sweep = x]
                    \/ req' = [req EXCEPT ![t].snap = x] \/ req' = req
      PROVE  req'[t].id = i /\ req'[t].obj = o /\ req'[t].op = req[t].op
  <2>1. CASE req' = [req EXCEPT ![t].lock = x]  BY <1>0, <2>1, FieldSame DEF Same
  <2>2. CASE req' = [req EXCEPT ![t].sweep = x]  BY <1>0, <2>2, FieldSame DEF Same
  <2>3. CASE req' = [req EXCEPT ![t].snap = x]  BY <1>0, <2>3, FieldSame DEF Same
  <2> QED BY <1>5, <2>1, <2>2, <2>3
<1>6. CASE SweepKeep(t) \/ SweepDone(t) \/ SaveLock(t) \/ SaveDump(t) \/ SaveOk(t) \/ SaveDiscard(t)
  <2>1. /\ files' = files
        /\ pc[t] \in {"ok", "discard"} \/ pc'[t] \in {"sweep", "lock", "dump", "swap"}
    BY <1>0, <1>6 DEF SweepKeep, SweepDone, SaveLock, SaveDump, SaveOk, SaveDiscard
  <2>2. req'[t].id = i /\ req'[t].obj = o /\ req'[t].op = req[t].op
    <3>1. CASE SweepKeep(t)  BY <1>5, <3>1 DEF SweepKeep
    <3>2. CASE SaveLock(t)  BY <1>5, <3>2 DEF SaveLock
    <3>3. CASE SaveDump(t)  BY <1>5, <3>3 DEF SaveDump
    <3>4. CASE SweepDone(t) \/ SaveOk(t) \/ SaveDiscard(t)  BY <3>4 DEF SweepDone, SaveOk, SaveDiscard
    <3> QED BY <1>6, <3>1, <3>2, <3>3, <3>4
  <2>3. Exact(i)'
    BY <1>4, <2>1, <2>2
  <2> QED BY <1>2, <2>3
<1>7. CASE SaveSwap(t)
  <2>1. /\ req' = [req EXCEPT ![t].snap = {}] /\ files' = [files EXCEPT ![i] = File(req[t].snap)]
        /\ pc[t] = "swap" /\ pc'[t] = "ok"
    BY <1>7 DEF SaveSwap
  <2>2. req'[t].id = i /\ req'[t].obj = o
    BY <1>5, <2>1
  <2>3. 0 \in files'[i].done
    BY <1>0, <1>3, <2>1 DEF AtWork, File
  <2>4. ExactAt(t)' /\ (sessions'[i] # NoObj => 0 \in heap'[sessions'[i]])
    BY <1>2, <1>3, <2>2, <2>3 DEF ExactAt
  <2> QED BY <1>1, <1>2, <2>3, <2>4, MiddleExact
<1>8. ~SaveFail(t) /\ ~SaveFailed(t) /\ ~SaveNote(t) /\ ~SweepUnlinkFails(t)
  BY <1>0 DEF SaveFail, SaveFailed, SaveNote, SweepUnlinkFails
<1>9. ~SweepExpired(t) /\ ~SweepUnlink(t)
  <2>1. req[t].sweep \subseteq Ids
    BY <1>0 DEF Requests
  <2> QED BY <1>0, <2>1 DEF SweepExpired, SweepUnlink, NothingOld
<1> QED BY <1>2, <1>6, <1>7, <1>8, <1>9 DEF Save, Sweep

\* Serving: an update starts from what the file has.
LEMMA ExactHandle ==
  ASSUME TypeInv, CreateOK, NEW t \in Threads, Handle(t), NEW i \in Ids, i = req[t].id,
         SessionOK(i), Exact(i), \A u \in Threads \ {t} : req[u].id # i
  PROVE  Exact(i)'
<1> USE DEF TypeInv, TypeOK, Goto
<1> DEFINE o == req[t].obj
<1>0. /\ AtWork(t) /\ ExactAt(t) /\ (pc[t] = "apply" => o \in Objs)
      /\ pc[t] = "apply" \/ pc[t] \in {"answer", "pop", "unlink"} => ~Unwritten(t)
  BY DEF SessionOK, Exact, RequestOK, Holding, Unwritten
<1>1. \A u \in Threads \ {t} : req'[u].id # i
  BY OthersKeep DEF Step
<1>2. CASE Apply(t)
  <2>1. /\ pc[t] = "apply" /\ pc'[t] = "lock" /\ UNCHANGED <<sessions, files, req>>
        /\ o \in Objs /\ heap'[o] = heap[o] \cup {req[t].tok}
    BY <1>0, <1>2 DEF Apply
  <2>2. sessions[i] \in {NoObj, o} /\ 0 \in heap[o] /\ 0 \in files[i].done
    BY <1>0, <2>1 DEF AtWork, ExactAt, AtHand
  <2>3. ExactAt(t)'
    BY <2>1, <2>2 DEF ExactAt
  <2>4. sessions'[i] # NoObj => 0 \in heap'[sessions'[i]]
    BY <2>1, <2>2
  <2> QED BY <1>1, <2>1, <2>2, <2>3, <2>4, MiddleExact
<1>3. CASE Refuse(t) \/ RefreshFails(t) \/ Answer(t) \/ UnlinkFails(t)
  <2>1. ~Unwritten(t)
    BY <1>3 DEF Refuse, RefreshFails, Answer, UnlinkFails, Unwritten
  <2> QED BY <1>1, <1>3, <2>1, EndExact DEF Refuse, RefreshFails, Answer, UnlinkFails
<1>4. CASE Pop(t)
  <2>1. pc'[t] = "unlink" /\ sessions'[i] = NoObj /\ UNCHANGED <<files, req>>
    BY <1>4 DEF Pop
  <2>2. ExactAt(t)'
    BY <2>1 DEF ExactAt, AtHand, Dirty
  <2>3. files'[i].here \/ files'[i].done # {} => 0 \in files'[i].done
    BY <2>1 DEF Exact
  <2> QED BY <1>1, <2>1, <2>2, <2>3, MiddleExact
<1>5. CASE Unlink(t)
  <2>1. pc[t] = "unlink" /\ files'[i] = NoFile /\ sessions' = sessions /\ Finish(t)
    BY <1>5 DEF Unlink
  <2>2. sessions[i] = NoObj /\ ~Unwritten(t)
    BY <1>0, <2>1 DEF AtWork
  <2> QED BY <1>1, <2>1, <2>2, EndExact
<1> QED BY <1>2, <1>3, <1>4, <1>5 DEF Handle

\* A request that arrives finds the creation of the session in its file.
LEMMA ExactAccept ==
  ASSUME TypeInv, BornInv, IdleInv, NEW t \in Threads, Accept(t), NEW i \in Ids,
         i = req'[t].id, i \notin shared', SessionOK(i), Exact(i), unsaved = {}
  PROVE  Exact(i)'
<1> USE DEF TypeInv, TypeOK, Goto
<1>0. /\ pc[t] = "idle" /\ req[t].id = NoId /\ NoId \notin Ids /\ NoObj \notin Objs
      /\ \A u \in Threads \ {t} : req'[u] = req[u]
  <2>1. pc[t] = "idle"
    BY DEF Accept, Create, Request
  <2> QED BY <2>1, OthersKeep, NoneAssumption DEF IdleInv
<1>1. ASSUME Create(t, i) PROVE Exact(i)'
  <2>1. /\ req'[t].obj = FreshObj /\ req'[t].tok = 0 /\ pc'[t] = "sweep"
        /\ sessions'[i] = FreshObj /\ FreshObj \in Objs /\ heap'[FreshObj] = {0}
        /\ i \notin born /\ files' = files
    BY <1>1, FreshType DEF Create, NewRequest
  <2>2. \A u \in Threads \ {t} : req'[u].id # i
    BY <1>0, <2>1 DEF BornInv, IdleInv
  <2>5. req'[t].op = "create" /\ req'[t].id = i
    BY <1>1 DEF Create, NewRequest
  <2>6. Unwritten(t)'
    BY <2>1, <2>5 DEF Unwritten
  <2>3. ExactAt(t)'
    BY <2>1, <2>6 DEF ExactAt
  <2>4. files'[i].here \/ files'[i].done # {} => 0 \in files'[i].done
    BY <2>1 DEF Exact
  <2> QED BY <2>1, <2>2, <2>3, <2>4, <2>5, <2>6, MiddleExact
<1>2. ASSUME NEW op \in {"read", "update", "delete"}, Request(t, op, i) PROVE Exact(i)'
  <2>1. /\ req'[t].obj = sessions[i] /\ pc'[t] = LookedUp(i) /\ ~Busy(t, i)
        /\ UNCHANGED <<sessions, heap, files>>
    BY <1>2 DEF Request, NewRequest
  <2>2. \A u \in Threads \ {t} : req'[u].id # i
    BY <1>0, <2>1 DEF Busy
  <2>3. \A u \in Threads : req[u].id # i
    BY <1>0, <2>1 DEF Busy
  <2>4. sessions[i] # NoObj => 0 \in files[i].done /\ 0 \in heap[sessions[i]]
    BY <2>3 DEF Exact
  <2>5. ExactAt(t)'
    BY <2>1, <2>4 DEF ExactAt, AtHand, Dirty, LookedUp
  <2>6. files'[i].here \/ files'[i].done # {} => 0 \in files'[i].done
    BY <2>1 DEF Exact
  <2> QED BY <2>1, <2>2, <2>4, <2>5, <2>6, MiddleExact
<1>3. ASSUME NEW k \in Ids, NEW op, Create(t, k) \/ Request(t, op, k) PROVE k = i
  BY <1>3 DEF Create, Request, NewRequest
<1> QED BY <1>1, <1>2, <1>3 DEF Accept

\* While no file expires and no write fails, nothing is marked unsaved, and the
\* sessions nobody shared stay exact.
LEMMA ExactThread ==
  ASSUME TypeInv, BornInv, IdleInv, CreateOK, AloneInv, ExactInv,
         NEW t \in Threads, Accept(t) \/ Step(t)
  PROVE  ExactInv'
<1> SUFFICES ASSUME ages' = 0, fails' = 0
             PROVE  unsaved' = {} /\ \A i \in Ids \ shared' : Exact(i)'
  BY DEF ExactInv
<1>1. /\ ages = 0 /\ fails = 0 /\ shared \subseteq shared' /\ (Step(t) => shared' = shared)
  BY Counts
<1>2. /\ ApartInv /\ SharedInv /\ NothingFailed /\ NothingOld /\ unsaved = {} /\ NoId \notin Ids
      /\ \A i \in Ids \ shared : SessionOK(i) /\ Exact(i)
  BY <1>1, NoneAssumption DEF AloneInv, ExactInv
<1>3. unsaved' = {}
  <2>1. pc[t] # "note"
    BY <1>1, <1>2 DEF NothingFailed
  <2>2. CASE Accept(t)
    BY <1>2, <2>2 DEF Accept, Create, Request
  <2>3. CASE Get(t) \/ Evict(t) \/ Sweep(t) \/ Handle(t)
    BY <1>2, <2>3 DEF Get, LoadNothing, LoadExpired, Load, UnlinkExpired, UnlinkExpiredFails, Install, Touch, Probe,
       Evict, Sweep, SweepKeep, SweepExpired, SweepUnlink, SweepUnlinkFails, SweepDone,
       Handle, Apply, Refuse, RefreshFails, Answer, Pop, Unlink, UnlinkFails
  <2>4. CASE Save(t)
    BY <1>2, <2>1, <2>4 DEF Save, SaveLock, SaveDump, SaveSwap, SaveFail, SaveOk, SaveDiscard,
       SaveFailed, SaveNote
  <2> QED BY <2>2, <2>3, <2>4 DEF Step
<1>4. Step(t) => req[t].id \in Ids /\ req'[t].id \in {req[t].id, NoId}
  BY OwnMoves
<1>5. Accept(t) => req[t].id = NoId
  <2>1. Accept(t) => pc[t] = "idle"
    BY DEF Accept, Create, Request
  <2> QED BY <2>1 DEF IdleInv
<1>6. ASSUME NEW i \in Ids \ shared' PROVE Exact(i)'
  <2>1. SessionOK(i) /\ Exact(i)
    BY <1>1, <1>2
  <2>2. CASE i # req[t].id /\ i # req'[t].id
    BY <1>2, <2>1, <2>2, ElseExact
  <2>3. CASE Accept(t) /\ i = req'[t].id
    BY <1>2, <2>1, <2>3, ExactAccept
  <2>4. CASE Step(t) /\ i = req[t].id
    <3>1. \A u \in Threads \ {t} : req[u].id # i
      BY <1>1, <1>2, <2>4 DEF SharedInv
    <3> QED BY <1>2, <2>1, <2>4, <3>1, ExactGet, ExactSave, ExactHandle DEF Step
  <2> QED BY <1>2, <1>4, <1>5, <2>2, <2>3, <2>4
<1> QED BY <1>3, <1>6

\* What the refinement rests on.
EvictBase == AloneBase /\ TokenInv /\ HomeInv /\ ExactInv

\* It holds at first ...
LEMMA EvictInit == Init => EvictBase
<1>1. Init => TokenInv
  BY DEF Init, TokenInv, Seen, Pending, OpOK, NoFile, NoRequest, NewRequest
<1>2. Init => HomeInv
  BY NoneAssumption DEF Init, HomeInv, Has, NoFile, NoRequest, NewRequest
<1>3. Init => ExactInv
  BY NoneAssumption DEF Init, ExactInv, Exact, NoFile, NoRequest, NewRequest
<1> QED BY <1>1, <1>2, <1>3, AloneInit DEF EvictBase

\* ... and every step keeps it.
LEMMA EvictNext == EvictBase /\ [Next]_vars => EvictBase'
<1> SUFFICES ASSUME EvictBase, [Next]_vars PROVE EvictBase'
  OBVIOUS
<1>0. TypeInv /\ BornInv /\ IdleInv /\ CreateOK /\ AloneInv /\ ApartInv
  BY DEF EvictBase, AloneBase, DeleteInv, AloneInv
<1>1. AloneBase' /\ TokenInv' /\ HomeInv'
  BY <1>0, AloneNext, TokenStep, HomeStep DEF EvictBase
<1>2. ASSUME NEW k \in Ids, Age(k) PROVE ExactInv'
  <2>1. ages' # 0
    BY <1>0, <1>2, BoundAssumption DEF Age, TypeInv, TypeOK
  <2> QED BY <2>1 DEF ExactInv
<1>3. ASSUME Crash PROVE ExactInv'
  <2>1. /\ unsaved' = {} /\ UNCHANGED <<files, shared, fails, ages>>
        /\ \A j \in Ids : sessions'[j] = NoObj
        /\ \A u \in Threads : req'[u].id = NoId
    BY <1>3 DEF Crash, NoRequest, NewRequest
  <2>2. ASSUME NEW i \in Ids, Exact(i) PROVE Exact(i)'
    BY <2>1, <2>2, NoneAssumption DEF Exact
  <2>3. ExactInv
    BY DEF EvictBase
  <2> QED BY <2>1, <2>2, <2>3 DEF ExactInv
<1>4. ASSUME UNCHANGED vars PROVE ExactInv'
  <2>1. \A i \in Ids : Exact(i) => Exact(i)'
    BY <1>4 DEF vars, Exact, ExactAt, Unwritten
  <2>2. ExactInv /\ UNCHANGED <<ages, fails, unsaved, shared>>
    BY <1>4 DEF vars, EvictBase
  <2> QED BY <2>1, <2>2 DEF ExactInv
<1>5. ExactInv'
  BY <1>0, <1>2, <1>3, <1>4, ExactThread DEF Next, EvictBase
<1> QED BY <1>1, <1>5 DEF EvictBase

-----------------------------------------------------------------------------
(* The refinement without room.                                            *)

\* What holds of every session as long as the store is undisturbed.
Calmly ==
  /\ TypeInv /\ BornInv /\ IdleInv /\ ApartInv /\ NothingOld
  /\ TokenInv /\ HomeInv
  /\ \A t, u \in Threads : t # u /\ req[t].id = req[u].id => req[t].id = NoId
  /\ \A i \in Ids : SessionOK(i) /\ Exact(i) /\ acked[i] \subseteq files[i].done

\* The invariants give it.
LEMMA CalmNow ==
  ASSUME EvictBase, Undisturbed
  PROVE  Calmly
BY DEF EvictBase, AloneBase, DeleteInv, AloneInv, ExactInv, SharedInv, Undisturbed, Calmly, SessionOK

\* A step after which the store is undisturbed finds it so.
LEMMA CalmBefore ==
  ASSUME TypeInv, [Next]_vars, Undisturbed'
  PROVE  Undisturbed
<1>1. ASSUME NEW t \in Threads, Accept(t) \/ Step(t) PROVE Undisturbed
  <2>1. shared = {} /\ ages = 0 /\ fails = 0
    BY <1>1, Counts DEF Undisturbed
  <2>2. deleted = {}
    <3>1. deleted \subseteq deleted'
      BY <1>1 DEF Accept, Create, Request, Step, Get, LoadNothing, LoadExpired, Load, UnlinkExpired, UnlinkExpiredFails,
         Install, Touch, Probe, Evict, Save, SaveLock, SaveDump, SaveSwap, SaveFail, SaveOk,
         SaveDiscard, SaveFailed, SaveNote, Sweep, SweepKeep, SweepExpired, SweepUnlink, SweepUnlinkFails, SweepDone,
         Handle, Apply, Refuse, RefreshFails, Answer, Pop, Unlink, UnlinkFails
    <3> QED BY <3>1 DEF Undisturbed
  <2> QED BY <2>1, <2>2 DEF Undisturbed
<1>2. ASSUME NEW k \in Ids, Age(k) PROVE Undisturbed
  BY <1>2, BoundAssumption DEF Age, Undisturbed, TypeInv, TypeOK
<1>3. CASE Crash \/ UNCHANGED vars
  BY <1>3 DEF Crash, vars, Undisturbed
<1> QED BY <1>1, <1>2, <1>3 DEF Next

\* Sessions leave the table by eviction or deletion only.
LEMMA TableKept ==
  ASSUME TypeInv, BornInv, NEW t \in Threads, Accept(t) \/ Step(t), ~Evict(t), ~Pop(t),
         NEW i \in Ids, sessions[i] # NoObj
  PROVE  sessions'[i] = sessions[i]
<1> USE DEF TypeInv, TypeOK
<1>1. ASSUME NEW j \in Ids, Create(t, j) PROVE sessions'[i] = sessions[i]
  BY <1>1 DEF Create, BornInv
<1>2. CASE Install(t)
  BY <1>2 DEF Install, Kept
<1> QED BY <1>1, <1>2 DEF Accept, Request, Step, Get, LoadNothing, LoadExpired, Load, UnlinkExpired, UnlinkExpiredFails,
    Touch, Probe, Save, SaveLock, SaveDump, SaveSwap, SaveFail, SaveOk, SaveDiscard, SaveFailed,
    SaveNote, Sweep, SweepKeep, SweepExpired, SweepUnlink, SweepUnlinkFails, SweepDone,
    Handle, Apply, Refuse, RefreshFails, Answer, Unlink, UnlinkFails

\* What a request shows of other sessions: an eviction may leave their files.
LEMMA ValueElse ==
  ASSUME Calmly, NEW t \in Threads, Accept(t) \/ Step(t),
         NEW i \in Ids, i # req[t].id, i # req'[t].id
  PROVE  \/ Value(i)' = Value(i)
         \/ (Evict(t) \/ Pop(t)) /\ Value(i)' = files[i].done
<1>1. LeftAlone(i)
  BY ElseKeeps DEF Calmly
<1>2. ~Evict(t) /\ ~Pop(t) /\ sessions[i] # NoObj => sessions'[i] = sessions[i]
  BY TableKept DEF Calmly
<1> QED BY <1>1, <1>2 DEF LeftAlone, Value

\* A step that leaves the session's table entry and file shows nothing new.
LEMMA ValueSame ==
  ASSUME TypeInv, NEW i \in Ids, sessions'[i] = sessions[i], files'[i] = files[i],
         \/ heap' = heap
         \/ \E r : heap' = Collected(sessions', r)
         \/ Free # {} /\ \E x : heap' = [heap EXCEPT ![FreshObj] = x]
  PROVE  Value(i)' = Value(i)
<1> USE DEF TypeInv, TypeOK
<1>1. ASSUME sessions[i] # NoObj PROVE heap'[sessions[i]] = heap[sessions[i]]
  <2>1. sessions[i] \in Objs /\ \A r : sessions[i] \in Live(sessions', r)
    BY <1>1 DEF Live
  <2>2. Free # {} => FreshObj # sessions[i]
    BY FreshType DEF Free, Live
  <2> QED BY <2>1, <2>2, CollectedLive
<1> QED BY <1>1 DEF Value

\* What may be seen of session i: its creation, updates that are in no session
\* yet, or nothing.
Shows(i) ==
  \/ Value(i)' = Value(i)
  \/ Value(i) = {} /\ Value(i)' = {0}
  \/ \E K \in SUBSET (1..MaxUpdates) : /\ Value(i) # {} /\ \A j \in Ids : K \cap Value(j) = {}
                                       /\ Value(i)' = Value(i) \cup K

\* What a session shows is with the session.
LEMMA ValueHas ==
  ASSUME TypeInv, NEW i \in Ids
  PROVE  Value(i) \subseteq Has(i)
<1>1. sessions[i] # NoObj => sessions[i] \in Objs
  BY DEF TypeInv, TypeOK
<1> QED BY <1>1, HasIn DEF Value

\* Bringing a session up shows nothing; an eviction may leave what is on file.
LEMMA ShowGet ==
  ASSUME Calmly, NEW t \in Threads, Get(t) \/ Evict(t), NEW i \in Ids, i = req[t].id
  PROVE  Value(i)' = Value(i) \/ (Evict(t) /\ Value(i)' = files[i].done)
<1> USE DEF TypeInv, TypeOK
<1>0. /\ TypeInv /\ AtWork(t) /\ pc[t] \notin {"expire", "purge"}
  BY DEF Calmly, SessionOK, NothingOld
<1>1. ~LoadExpired(t) /\ ~UnlinkExpired(t) /\ ~UnlinkExpiredFails(t)
  BY <1>0 DEF LoadExpired, UnlinkExpired, UnlinkExpiredFails, NothingOld, Calmly
<1>2. CASE LoadNothing(t) \/ Load(t) \/ Touch(t) \/ Probe(t)
  <2>1. sessions' = sessions /\ files' = files
    BY <1>2 DEF LoadNothing, Load, Touch, Probe
  <2>2. \/ heap' = heap
        \/ \E r : heap' = Collected(sessions', r)
        \/ Free # {} /\ \E x : heap' = [heap EXCEPT ![FreshObj] = x]
    BY <1>2, <2>1 DEF LoadNothing, NotFound, Finish, Load, Touch, Probe
  <2> QED BY <1>0, <2>1, <2>2, ValueSame
<1>3. CASE Install(t)
  <2>1. /\ pc[t] = "install" /\ sessions[i] = NoObj /\ files' = files
        /\ heap[req[t].obj] = files[i].done /\ req[t].obj \in Objs
    BY <1>0, <1>3 DEF Install, AtWork, RequestOK, Holding
  <2>2. /\ sessions'[i] = req[t].obj /\ heap' = Collected(sessions', req') /\ req[t].obj # NoObj
    BY <1>0, <1>3, <2>1, NoneAssumption DEF Install, Kept
  <2>3. req[t].obj \in Live(sessions', req')
    BY <2>2 DEF Live
  <2>4. heap'[req[t].obj] = files[i].done
    BY <2>1, <2>2, <2>3, CollectedLive
  <2> QED BY <2>1, <2>2, <2>4 DEF Value
<1>4. CASE Evict(t)
  <2>1. /\ sessions'[i] \in {sessions[i], NoObj} /\ files' = files
        /\ heap' = Collected(sessions', req)
    BY <1>4 DEF Evict, Drop
  <2>2. CASE sessions'[i] = NoObj
    BY <1>4, <2>1, <2>2 DEF Value
  <2>3. CASE sessions'[i] = sessions[i]
    BY <1>0, <2>1, <2>3, ValueSame
  <2> QED BY <2>1, <2>2, <2>3
<1> QED BY <1>1, <1>2, <1>3, <1>4 DEF Get

\* The save of an evicted session brings back the update under way, and what
\* marks that failed before it left in the object.
LEMMA ShowSave ==
  ASSUME Calmly, NEW t \in Threads, Save(t) \/ Sweep(t), NEW i \in Ids, i = req[t].id
  PROVE  Shows(i)
<1> USE DEF TypeInv, TypeOK
<1> DEFINE o == req[t].obj
<1>0. /\ TypeInv /\ AtWork(t) /\ ExactAt(t) /\ pc[t] \notin {"expire", "purge"}
  BY DEF Calmly, SessionOK, Exact, NothingOld
<1>1. UNCHANGED <<sessions, heap>>
  BY DEF Save, SaveLock, SaveDump, SaveSwap, SaveFail, SaveOk, SaveDiscard, SaveFailed, SaveNote,
     Sweep, SweepKeep, SweepExpired, SweepUnlink, SweepUnlinkFails, SweepDone
<1>2. CASE ~SaveSwap(t)
  <2>1. files' = files
    BY <1>0, <1>2 DEF Save, SaveLock, SaveDump, SaveFail, SaveOk, SaveDiscard, SaveFailed, SaveNote,
       Sweep, SweepKeep, SweepExpired, SweepUnlink, SweepUnlinkFails, SweepDone
  <2> QED BY <1>1, <2>1 DEF Value, Shows
<1>3. CASE SaveSwap(t)
  <2>1. pc[t] = "swap" /\ files' = [files EXCEPT ![i] = File(req[t].snap)]
    BY <1>3 DEF SaveSwap
  <2>2. /\ o \in Objs /\ 0 \in heap[o] /\ heap[o] \subseteq Updates /\ files'[i].done = heap[o]
        /\ files[i].done \subseteq heap[o] /\ (0 \in files[i].done \/ heap[o] = {0})
    BY <1>0, <2>1 DEF AtWork, ExactAt, Unwritten, File, AtHand, Dirty, RequestOK, Holding
  <2>3. CASE sessions[i] # NoObj
    BY <1>1, <2>3 DEF Value, Shows
  <2>4. CASE sessions[i] = NoObj
    <3>1. Value(i) = files[i].done /\ Value(i)' = heap[o]
      BY <1>1, <2>2, <2>4 DEF Value
    <3>2. CASE 0 \notin files[i].done
      <4>1. files[i].done = {} /\ heap[o] = {0}
        BY <2>2, <3>2
      <4> QED BY <3>1, <4>1 DEF Shows
    <3>3. CASE 0 \in files[i].done
      <4> DEFINE K == heap[o] \ files[i].done
      <4>1. K \in SUBSET (1..MaxUpdates) /\ Value(i)' = Value(i) \cup K /\ Value(i) # {}
        BY <2>2, <3>1, <3>3, BoundAssumption DEF Updates
      <4>2. heap[o] \subseteq Has(i)
        BY <1>0, <2>2, HasIn
      <4>3. ASSUME NEW j \in Ids PROVE K \cap Value(j) = {}
        <5>1. CASE j = i  BY <3>1, <5>1
        <5>2. CASE j # i
          <6>1. Has(i) \cap Has(j) \subseteq {0} /\ Value(j) \subseteq Has(j)
            BY <1>0, <5>2, ValueHas DEF Calmly, HomeInv
          <6> QED BY <3>3, <4>2, <6>1
        <5> QED BY <5>1, <5>2
      <4> HIDE DEF K
      <4> QED BY <4>1, <4>3 DEF Shows
    <3> QED BY <3>2, <3>3
  <2> QED BY <2>3, <2>4
<1> QED BY <1>2, <1>3

\* An update shows when the session is still in the table; a delete leaves the
\* file at first.
LEMMA ShowHandle ==
  ASSUME Calmly, NEW t \in Threads, Handle(t), Undisturbed', NEW i \in Ids, i = req[t].id
  PROVE  Shows(i) \/ (Pop(t) /\ Value(i)' = files[i].done)
<1> USE DEF TypeInv, TypeOK
<1> DEFINE o == req[t].obj
<1>0. TypeInv /\ AtWork(t) /\ ExactAt(t)
  BY DEF Calmly, SessionOK, Exact
<1>1. CASE Apply(t)
  <2>1. /\ pc[t] = "apply" /\ UNCHANGED <<sessions, files>> /\ o \in Objs
        /\ heap'[o] = heap[o] \cup {req[t].tok}
    BY <1>0, <1>1 DEF Apply, RequestOK, Holding
  <2>2. sessions[i] \in {NoObj, o} /\ 0 \in heap[o] /\ o # NoObj
    BY <1>0, <2>1, NoneAssumption DEF AtWork, ExactAt, AtHand
  <2>3. CASE sessions[i] = NoObj
    BY <2>1, <2>3 DEF Value, Shows
  <2>4. CASE sessions[i] = o
    <3>1. Value(i) = heap[o] /\ Value(i)' = heap[o] \cup {req[t].tok}
      BY <2>1, <2>2, <2>4 DEF Value
    <3>2. t \in Pending
      BY <2>1 DEF Calmly, TokenInv, OpOK, Pending
    <3>3. req[t].tok \in 1..MaxUpdates /\ req[t].tok \notin Seen
      BY <1>0, <3>2, BoundAssumption DEF Calmly, TokenInv, Updates
    <3>4. \A j \in Ids : req[t].tok \notin Value(j)
      BY <1>0, <3>3, ValueHas, HasIn
    <3>5. /\ {req[t].tok} \in SUBSET (1..MaxUpdates) /\ Value(i) # {}
          /\ \A j \in Ids : {req[t].tok} \cap Value(j) = {}
      BY <2>2, <3>1, <3>3, <3>4
    <3> QED BY <3>1, <3>5 DEF Shows
  <2> QED BY <2>2, <2>3, <2>4
<1>2. CASE Refuse(t) \/ RefreshFails(t) \/ Answer(t)
  <2>1. UNCHANGED <<sessions, files>> /\ \E r : heap' = Collected(sessions', r)
    BY <1>2 DEF Refuse, RefreshFails, Answer, Finish
  <2> QED BY <1>0, <2>1, ValueSame DEF Shows
<1>3. CASE Pop(t)
  BY <1>0, <1>3 DEF Pop, Value
<1>4. ~Unlink(t)
  BY DEF Unlink, Undisturbed
<1>5. ~UnlinkFails(t)
  BY <1>0, BoundAssumption DEF UnlinkFails, Undisturbed
<1> QED BY <1>1, <1>2, <1>3, <1>4, <1>5 DEF Handle

\* A request that arrives shows the session it creates.
LEMMA ShowAccept ==
  ASSUME Calmly, NEW t \in Threads, Accept(t), NEW i \in Ids, i = req'[t].id
  PROVE  Shows(i)
<1> USE DEF TypeInv, TypeOK
<1>0. TypeInv
  BY DEF Calmly
<1>1. ASSUME Create(t, i) PROVE Shows(i)
  <2>1. /\ sessions'[i] = FreshObj /\ FreshObj \in Objs /\ heap'[FreshObj] = {0} /\ i \notin born
    BY <1>0, <1>1, FreshType DEF Create
  <2>2. sessions[i] = NoObj /\ files[i].done = {}
    BY <2>1 DEF Calmly, BornInv, SessionOK
  <2> QED BY <2>1, <2>2, NoneAssumption DEF Value, Shows
<1>2. ASSUME NEW op, Request(t, op, i) PROVE Shows(i)
  BY <1>2 DEF Request, Value, Shows
<1>3. ASSUME NEW k \in Ids, NEW op, Create(t, k) \/ Request(t, op, k) PROVE k = i
  BY <1>0, <1>3 DEF Create, Request, NewRequest
<1> QED BY <1>1, <1>2, <1>3 DEF Accept

\* Every step that leaves the store undisturbed is a step of DurableSessions or
\* shows nothing: an eviction is a restart of the sessions it takes.
LEMMA EvictRefines ==
  ASSUME EvictBase, [Next]_vars, Undisturbed'
  PROVE  [Durable!Next]_(Durable!dvars)
<1> USE DEF TypeInv, TypeOK
<1> DEFINE value == [i \in Ids |-> Value(i)]
<1>0. /\ Calmly /\ TypeInv /\ IdleInv /\ Undisturbed
      /\ \A j \in Ids : /\ acked[j] \subseteq files[j].done
                        /\ files[j].done \subseteq Value(j) /\ Value(j) \subseteq Updates
  <2>1. TypeInv
    BY DEF EvictBase, AloneBase
  <2>2. Undisturbed /\ Calmly
    BY <2>1, CalmBefore, CalmNow
  <2>3. IdleInv
    BY <2>2 DEF Calmly
  <2>4. \A j \in Ids : acked[j] \subseteq files[j].done /\ files[j].done \subseteq Value(j)
    BY <2>2 DEF Calmly, SessionOK, Value
  <2>5. \A j \in Ids : Value(j) \subseteq Updates
    BY <2>1, ValueHas DEF Has
  <2> QED BY <2>1, <2>2, <2>3, <2>4, <2>5
<1>1. ASSUME acked' = acked, \A j \in Ids : Value(j)' \in {Value(j), files[j].done}
      PROVE  Durable!Next
  <2>1. value' \in [Ids -> SUBSET (0..MaxUpdates)]
    BY <1>0, <1>1 DEF Updates
  <2>2. \A j \in Ids : acked[j] \subseteq value'[j] /\ value'[j] \subseteq value[j]
    BY <1>0, <1>1
  <2>3. Durable!Restart
    BY <1>1, <2>1, <2>2 DEF Durable!Restart
  <2> QED BY <2>3 DEF Durable!Next
<1>2. ASSUME acked' = acked, NEW i \in Ids, Shows(i), \A j \in Ids \ {i} : Value(j)' = Value(j)
      PROVE  [Durable!Next]_(Durable!dvars)
  <2>1. CASE Value(i)' = Value(i)
    <3>1. value' = value
      BY <1>2, <2>1
    <3> QED BY <1>2, <3>1 DEF Durable!dvars
  <2>2. CASE Value(i) = {} /\ Value(i)' = {0}
    <3>1. value' = [value EXCEPT ![i] = {0}]
      BY <1>2, <2>2
    <3>2. Durable!Create(i)
      BY <1>2, <2>2, <3>1 DEF Durable!Create
    <3> QED BY <3>2 DEF Durable!Next
  <2>3. CASE \E K \in SUBSET (1..MaxUpdates) : /\ Value(i) # {} /\ \A j \in Ids : K \cap Value(j) = {}
                                               /\ Value(i)' = Value(i) \cup K
    <3>1. PICK K \in SUBSET (1..MaxUpdates) : /\ Value(i) # {} /\ \A j \in Ids : K \cap Value(j) = {}
                                              /\ Value(i)' = Value(i) \cup K
      BY <2>3
    <3>2. value' = [value EXCEPT ![i] = @ \cup K]
      BY <1>2, <3>1
    <3>3. Durable!Update(i, K)
      BY <1>2, <3>1, <3>2 DEF Durable!Update
    <3> QED BY <3>1, <3>3 DEF Durable!Next
  <2> QED BY <1>2, <2>1, <2>2, <2>3 DEF Shows
<1>3. ASSUME NEW t \in Threads, Accept(t) PROVE [Durable!Next]_(Durable!dvars)
  <2>1. acked' = acked /\ req'[t].id \in Ids /\ pc[t] = "idle" /\ ~Evict(t) /\ ~Pop(t)
    <3>1. ASSUME NEW i \in Ids, Create(t, i)
          PROVE  acked' = acked /\ req'[t].id = i /\ pc[t] = "idle"
      BY <1>0, <3>1 DEF Create, NewRequest
    <3>2. ASSUME NEW i \in Ids, NEW op, Request(t, op, i)
          PROVE  acked' = acked /\ req'[t].id = i /\ pc[t] = "idle"
      BY <1>0, <3>2 DEF Request, NewRequest
    <3> QED BY <1>3, <3>1, <3>2 DEF Accept, Evict, Pop
  <2>2. req[t].id = NoId
    BY <1>0, <2>1 DEF IdleInv
  <2> PICK i \in Ids : i = req'[t].id
    BY <2>1
  <2>3. \A j \in Ids \ {i} : Value(j)' = Value(j)
    BY <1>0, <1>3, <2>1, <2>2, ValueElse, NoneAssumption
  <2>4. Shows(i)
    BY <1>0, <1>3, <2>1, ShowAccept
  <2> QED BY <1>2, <2>1, <2>3, <2>4
<1>4. ASSUME NEW t \in Threads, Step(t) PROVE [Durable!Next]_(Durable!dvars)
  <2>0. req[t].id \in Ids /\ req'[t].id \in {req[t].id, NoId} /\ NoId \notin Ids
    BY <1>0, <1>4, OwnMoves, NoneAssumption
  <2> PICK i \in Ids : i = req[t].id
    BY <2>0
  <2>1. req'[t].id \in {i, NoId} /\ NoId \notin Ids
    BY <2>0
  <2>2. \A j \in Ids \ {i} : \/ Value(j)' = Value(j)
                             \/ (Evict(t) \/ Pop(t)) /\ Value(j)' = files[j].done
    BY <1>0, <1>4, <2>1, ValueElse
  <2>3. Shows(i) \/ ((Evict(t) \/ Pop(t)) /\ Value(i)' \in {Value(i), files[i].done})
    <3>1. CASE Get(t) \/ Evict(t)
      <4>1. Value(i)' = Value(i) \/ (Evict(t) /\ Value(i)' = files[i].done)
        BY <1>0, <3>1, ShowGet
      <4> QED BY <4>1 DEF Shows
    <3>2. CASE Save(t) \/ Sweep(t)
      BY <1>0, <3>2, ShowSave
    <3>3. CASE Handle(t)
      BY <1>0, <3>3, ShowHandle
    <3> QED BY <1>4, <3>1, <3>2, <3>3 DEF Step
  <2>4. CASE Evict(t) \/ Pop(t)
    <3>1. acked' = acked
      BY <2>4 DEF Evict, Pop
    <3>2. Value(i)' \in {Value(i), files[i].done}
      <4>1. CASE Evict(t)  BY <1>0, <2>1, <4>1, ShowGet
      <4>2. CASE Pop(t)  BY <1>0, <2>1, <4>2 DEF Pop, Value
      <4> QED BY <2>4, <4>1, <4>2
    <3> QED BY <1>1, <2>2, <3>1, <3>2
  <2>5. CASE ~Evict(t) /\ ~Pop(t) /\ ~Answer(t)
    <3>1. acked' = acked
      <4>1. CASE Get(t) \/ Sweep(t)
        BY <4>1 DEF Get, LoadNothing, LoadExpired, Load, UnlinkExpired, UnlinkExpiredFails, Install,
           Touch, Probe, Sweep, SweepKeep, SweepExpired, SweepUnlink, SweepUnlinkFails, SweepDone
      <4>2. CASE Save(t)
        BY <4>2 DEF Save, SaveLock, SaveDump, SaveSwap, SaveFail, SaveOk, SaveDiscard, SaveFailed,
           SaveNote
      <4>3. CASE Handle(t)
        BY <2>5, <4>3 DEF Handle, Apply, Refuse, RefreshFails, Unlink, UnlinkFails
      <4> QED BY <1>4, <2>5, <4>1, <4>2, <4>3 DEF Step
    <3> QED BY <1>2, <2>1, <2>2, <2>3, <2>5, <3>1
  <2>6. CASE Answer(t)
    <3>1. /\ pc[t] = "answer" /\ UNCHANGED <<sessions, files>>
          /\ heap' = Collected(sessions', req')
          /\ \/ acked' = acked
             \/ /\ acked' = [acked EXCEPT ![i] = @ \cup {req[t].tok}]
                /\ req[t].op \in {"create", "update"}
      BY <2>6 DEF Answer, Finish
    <3>2. \A j \in Ids : Value(j)' = Value(j)
      BY <1>0, <3>1, ValueSame
    <3>3. value' = value
      BY <3>2
    <3>4. CASE acked' = acked
      BY <3>3, <3>4 DEF Durable!dvars
    <3>5. CASE /\ acked' = [acked EXCEPT ![i] = @ \cup {req[t].tok}]
               /\ req[t].op \in {"create", "update"}
      <4>1. req[t].tok \in files[i].done
        BY <1>0, <2>1, <3>1, <3>5 DEF Calmly, SessionOK, AtWork, InFile, Undisturbed
      <4>2. req[t].tok \in Value(i) /\ req[t].tok \in 0..MaxUpdates
        BY <1>0, <2>1, <4>1 DEF Updates
      <4>3. Durable!Confirm(i, req[t].tok)
        BY <2>1, <3>3, <3>5, <4>2 DEF Durable!Confirm
      <4> QED BY <2>1, <4>2, <4>3 DEF Durable!Next
    <3> QED BY <3>1, <3>4, <3>5
  <2> QED BY <2>4, <2>5, <2>6
<1>5. ASSUME NEW k \in Ids, Age(k) PROVE FALSE
  BY <1>0, <1>5, BoundAssumption DEF Age, Undisturbed
<1>6. CASE Crash
  BY <1>1, <1>6 DEF Crash, Value
<1>7. CASE UNCHANGED vars
  BY <1>7 DEF vars, Durable!dvars, Value
<1> QED BY <1>3, <1>4, <1>5, <1>6, <1>7 DEF Next

\* Whatever the room in memory, as long as no two requests on one session
\* overlap, nothing is deleted, no file expires and no write fails, evictions,
\* restores and restarts show a learner nothing that the durable service could
\* not have done.
THEOREM EvictionSafe == Spec => EvictionIsDurable
<1>1. EvictBase /\ [Next]_vars => [Undisturbed' => [Durable!Next]_(Durable!dvars)]_vars
  BY EvictRefines
<1> QED BY <1>1, EvictInit, EvictNext, PTL DEF Spec, EvictionIsDurable

\* So a behaviour that stays undisturbed is one of the durable service.
THEOREM ImplementsUndisturbed == Spec /\ []Undisturbed => DurableSpec
<1>1. Init => Durable!Init
  BY DEF Init, Durable!Init, Value, NoFile
<1>2. EvictBase /\ [Next]_vars /\ Undisturbed' => [Durable!Next]_(Durable!dvars)
  BY EvictRefines
<1> QED BY <1>1, <1>2, EvictInit, EvictNext, PTL DEF Spec, DurableSpec, Durable!Spec

=============================================================================
