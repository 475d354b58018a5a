------------------------- MODULE SessionAloneProofs -------------------------
(***************************************************************************)
(* What a session whose requests do not overlap can rely on, whatever runs *)
(* about other sessions at the same time, for every number of threads,     *)
(* sessions and updates.                                                   *)
(*                                                                         *)
(* First, a delete that had the session to itself is final, whatever mix   *)
(* of requests and faults follows (QuietDeleteFinal).  Two requests about  *)
(* one session of which one is a delete have raced (RaceInv), so nobody    *)
(* fills in again what an undisturbed delete has cleared (PopInv); and     *)
(* once the file is gone too, a later request finds nothing to restore and *)
(* never gets as far as the steps that would bring the session back        *)
(* (GoneInv).                                                              *)
(*                                                                         *)
(* Then, while no file expires, a session that never had two requests open *)
(* at once keeps sight of what its file lacks (AloneTracked), and on a     *)
(* disk that works the file keeps every change answered as saved           *)
(* (AloneKept).                                                            *)
(***************************************************************************)
EXTENDS SessionStoreProofs

USE DEF table, marks, locks, recency, history, faults

-----------------------------------------------------------------------------
(* The inductive invariant.                                                *)

\* Nothing in memory is about i.
Clean(i) == sessions[i] = NoObj /\ i \notin unsaved \cup saveLocks \cup lastUsed

\* The steps of a request that has found no session.
Passing == {"load", "expire", "probe", "pop", "unlink"}

\* An idle thread is about no session; only deletes delete.
IdleInv ==
  \A t \in Threads : /\ pc[t] = "idle" => req[t].id = NoId
                     /\ pc[t] \in {"pop", "unlink"} => req[t].op = "delete"

RaceInv ==
  \A t, u \in Threads :
     t # u /\ req[t].id = req[u].id /\ req[t].op = "delete" /\ req[t].id # NoId
       => req[t].id \in raced

PopInv == \A t \in Threads : pc[t] = "unlink" /\ req[t].id \notin raced => Clean(req[t].id)

GoneInv ==
  \A i \in deleted \ raced :
    /\ Clean(i) /\ ~files[i].here /\ i \in born
    /\ \A t \in Threads : req[t].id = i => pc[t] \in Passing

DeleteInv == IdleInv /\ RaceInv /\ PopInv /\ GoneInv

-----------------------------------------------------------------------------
(* What a step of one thread does to other sessions.                       *)

\* No step puts anything about j in memory or in a file.
Less(j) == /\ sessions'[j] \in {sessions[j], NoObj}
           /\ files'[j].here => files[j].here
           /\ j \in unsaved' => j \in unsaved
           /\ j \in saveLocks' => j \in saveLocks
           /\ j \in lastUsed' => j \in lastUsed

\* Such a step leaves a cleared session cleared and a missing file missing.
LEMMA LessClean ==
  ASSUME NEW j \in Ids, Less(j)
  PROVE  /\ Clean(j) => Clean(j)'
         /\ ~files[j].here => ~files'[j].here
BY DEF Less, Clean

\* A step of a request puts nothing about another, known, session anywhere.
LEMMA ElseLess ==
  ASSUME TypeInv, NEW t \in Threads, Accept(t) \/ Step(t),
         NEW j \in born \cap Ids, j # req[t].id
  PROVE  Less(j)
<1> USE DEF Less, TypeInv, TypeOK
<1>0. /\ pc[t] # "idle" => req[t].id \in Ids
      /\ sessions \in [Ids -> Objs \cup {NoObj}] /\ files \in [Ids -> SavedFiles]
  BY DEF RequestOK
<1>1. CASE Accept(t)
  BY <1>1 DEF Accept, Create, Request, Use
<1>2. CASE Get(t)
  <2>1. CASE LoadNothing(t) \/ LoadExpired(t) \/ Load(t) \/ Probe(t)
    BY <2>1 DEF LoadNothing, LoadExpired, Load, Probe
  <2>2. CASE UnlinkExpired(t) \/ UnlinkExpiredFails(t)
    BY <1>0, <2>2 DEF UnlinkExpired, UnlinkExpiredFails, NoFile
  <2>3. CASE Install(t)
    BY <1>0, <2>3 DEF Install
  <2>4. CASE Touch(t)
    BY <2>4 DEF Touch, Use
  <2> QED BY <1>2, <2>1, <2>2, <2>3, <2>4 DEF Get
<1>3. CASE Evict(t)
  BY <1>3 DEF Evict, Drop, Forget
<1>4. CASE Save(t)
  BY <1>0, <1>4 DEF Save, SaveLock, SaveDump, SaveSwap, SaveFail, SaveOk, SaveDiscard, SaveFailed,
     SaveNote
<1>5. CASE Sweep(t)
  BY <1>0, <1>5 DEF Sweep, SweepKeep, SweepExpired, SweepUnlink, SweepUnlinkFails, SweepDone, NoFile
<1>6. CASE Handle(t)
  BY <1>0, <1>6 DEF Handle, Apply, Refuse, RefreshFails, Answer, Pop, Unlink, UnlinkFails, Forget, NoFile
<1> QED BY <1>1, <1>2, <1>3, <1>4, <1>5, <1>6 DEF Step

\* A request under way stays about its session until it ends, and stays a
\* delete or none; it reaches the unlink of a delete from the pop only.
LEMMA OwnMoves ==
  ASSUME TypeInv, IdleInv, NEW t \in Threads, Step(t)
  PROVE  /\ pc[t] # "idle" /\ req[t].id \in Ids
         /\ pc'[t] = "idle" => req'[t].id = NoId
         /\ req'[t].id \in {req[t].id, NoId}
         /\ req'[t].id # NoId => (req'[t].op = "delete" <=> req[t].op = "delete")
         /\ pc'[t] = "pop" => req'[t].id # NoId /\ req[t].op = "delete"
         /\ pc'[t] = "unlink" => Pop(t)
         /\ raced' = raced /\ born' = born
         /\ deleted' = deleted \/ Unlink(t)
<1> USE DEF Goto, TypeInv, TypeOK
<1>0. req \in [Threads -> Requests] /\ (pc[t] # "idle" => req[t].id \in Ids /\ NoId \notin Ids)
  BY NoneAssumption DEF RequestOK
<1>1. Finish(t) => pc'[t] = "idle" /\ req'[t].id = NoId
  BY DEF Finish, NoRequest, NewRequest
<1>2. ASSUME NEW x,
             \/ req' = req
             \/ req' = [req EXCEPT ![t].snap = x] \/ req' = [req EXCEPT ![t].lock = x]
             \/ req' = [req EXCEPT ![t].sweep = x] \/ req' = [req EXCEPT ![t].victim = x]
             \/ req' = [req EXCEPT ![t].obj = x]
      PROVE  req'[t].id = req[t].id /\ req'[t].op = req[t].op
  <2>1. \A r \in Requests : /\ [r EXCEPT !.snap = x].id = r.id /\ [r EXCEPT !.snap = x].op = r.op
                            /\ [r EXCEPT !.lock = x].id = r.id /\ [r EXCEPT !.lock = x].op = r.op
                            /\ [r EXCEPT !.sweep = x].id = r.id /\ [r EXCEPT !.sweep = x].op = r.op
                            /\ [r EXCEPT !.victim = x].id = r.id /\ [r EXCEPT !.victim = x].op = r.op
                            /\ [r EXCEPT !.obj = x].id = r.id /\ [r EXCEPT !.obj = x].op = r.op
    BY DEF Requests
  <2>2. \/ req'[t] = req[t] \/ req'[t] = [req[t] EXCEPT !.snap = x]
        \/ req'[t] = [req[t] EXCEPT !.lock = x] \/ req'[t] = [req[t] EXCEPT !.sweep = x]
        \/ req'[t] = [req[t] EXCEPT !.victim = x] \/ req'[t] = [req[t] EXCEPT !.obj = x]
    BY <1>0, <1>2
  <2> QED BY <1>0, <2>1, <2>2
<1>3. CASE NotFound(t) /\ pc[t] # "idle" /\ UNCHANGED <<raced, born, deleted>>
  <2>1. CASE req[t].op = "delete" /\ Goto(t, "pop") /\ UNCHANGED <<req, heap>>
    BY <1>0, <1>3, <2>1
  <2>2. CASE req[t].op \in {"read", "update"} /\ Goto(t, "probe") /\ req' = [req EXCEPT ![t].op = "probe"]
    <3>1. req'[t].id = req[t].id /\ req'[t].op = "probe"
      BY <1>0, <2>2, FieldSame
    <3> QED BY <1>0, <1>3, <2>2, <3>1
  <2> QED BY <1>0, <1>1, <1>3, <2>1, <2>2 DEF NotFound
<1>4. CASE Get(t)
  <2>1. CASE LoadNothing(t) \/ UnlinkExpired(t)
    BY <1>3, <2>1 DEF LoadNothing, UnlinkExpired
  <2>4. CASE UnlinkExpiredFails(t)
    BY <1>0, <1>1, <2>4 DEF UnlinkExpiredFails
  <2>2. CASE LoadExpired(t) \/ Load(t) \/ Install(t) \/ Touch(t)
    BY <1>0, <1>2, <2>2 DEF LoadExpired, Load, Install, Touch
  <2>3. CASE Probe(t)
    BY <1>0, <1>1, <1>2, <2>3 DEF Probe, LookedUp
  <2> QED BY <1>4, <2>1, <2>2, <2>3, <2>4 DEF Get
<1>5. CASE Evict(t)
  <2>1. /\ AfterEvict[req[t].op] # "idle" /\ AfterEvict[req[t].op] # "unlink"
        /\ AfterEvict[req[t].op] = "pop" => req[t].op = "delete"
    BY <1>5 DEF Evict, AfterEvict, RequestOK, Kinds
  <2> QED BY <1>0, <1>5, <2>1 DEF Evict
<1>6. CASE Save(t)
  <2>1. CASE SaveLock(t) \/ SaveDump(t) \/ SaveSwap(t) \/ SaveFail(t)
    BY <1>0, <1>2, <2>1 DEF SaveLock, SaveDump, SaveSwap, SaveFail
  <2>2. CASE SaveOk(t) \/ SaveDiscard(t) \/ SaveFailed(t) \/ SaveNote(t)
    BY <1>0, <2>2 DEF SaveOk, SaveDiscard, SaveFailed, SaveNote, AfterSave
  <2> QED BY <1>6, <2>1, <2>2 DEF Save
<1>7. CASE Sweep(t)
  BY <1>0, <1>2, <1>7 DEF Sweep, SweepKeep, SweepExpired, SweepUnlink, SweepUnlinkFails, SweepDone
<1>8. CASE Handle(t)
  BY <1>0, <1>1, <1>8 DEF Handle, Apply, Refuse, RefreshFails, Answer, Pop, Unlink, UnlinkFails
<1> QED BY <1>4, <1>5, <1>6, <1>7, <1>8 DEF Step

\* A request for a session that is gone passes through and leaves it so.
LEMMA PassThrough ==
  ASSUME TypeInv, NEW t \in Threads, Step(t), pc[t] \in Passing,
         Clean(req[t].id), ~files[req[t].id].here
  PROVE  Less(req[t].id) /\ pc'[t] \in Passing \cup {"idle"}
<1> USE DEF Goto, TypeInv, TypeOK, Passing
<1>0. /\ req[t].id \in Ids /\ sessions \in [Ids -> Objs \cup {NoObj}]
      /\ files \in [Ids -> SavedFiles] /\ pc \in [Threads -> Labels]
  BY DEF RequestOK
<1>1. CASE pc[t] \in {"load", "expire"}
  <2>1. LoadNothing(t) \/ LoadExpired(t) \/ UnlinkExpired(t)
    BY <1>1 DEF Step, Get, LoadNothing, LoadExpired, Load, UnlinkExpired, UnlinkExpiredFails, Install, Touch, Probe,
       Evict, Save, SaveLock, SaveDump, SaveSwap, SaveFail, SaveOk, SaveDiscard, SaveFailed,
       SaveNote, Sweep, SweepKeep, SweepExpired, SweepUnlink, SweepUnlinkFails, SweepDone,
       Handle, Apply, Refuse, RefreshFails, Answer, Pop, Unlink, UnlinkFails
  <2>2. /\ UNCHANGED <<sessions, unsaved, saveLocks, lastUsed>>
        /\ files' = files \/ files' = [files EXCEPT ![req[t].id] = NoFile]
        /\ pc'[t] \in Passing \cup {"idle"}
    BY <1>0, <2>1 DEF LoadNothing, LoadExpired, UnlinkExpired, NotFound, Finish
  <2> QED BY <1>0, <2>2 DEF Less, NoFile
<1>2. CASE pc[t] = "probe"
  <2>1. Probe(t)
    BY <1>2 DEF Step, Get, LoadNothing, LoadExpired, Load, UnlinkExpired, UnlinkExpiredFails, Install, Touch, Probe,
       Evict, Save, SaveLock, SaveDump, SaveSwap, SaveFail, SaveOk, SaveDiscard, SaveFailed,
       SaveNote, Sweep, SweepKeep, SweepExpired, SweepUnlink, SweepUnlinkFails, SweepDone,
       Handle, Apply, Refuse, RefreshFails, Answer, Pop, Unlink, UnlinkFails
  <2> QED BY <1>0, <2>1 DEF Probe, Finish, Less
<1>3. CASE pc[t] \in {"pop", "unlink"}
  <2>1. Pop(t) \/ Unlink(t)
    BY <1>3 DEF Step, Get, LoadNothing, LoadExpired, Load, UnlinkExpired, UnlinkExpiredFails, Install, Touch, Probe,
       Evict, Save, SaveLock, SaveDump, SaveSwap, SaveFail, SaveOk, SaveDiscard, SaveFailed,
       SaveNote, Sweep, SweepKeep, SweepExpired, SweepUnlink, SweepUnlinkFails, SweepDone,
       Handle, Apply, Refuse, RefreshFails, Answer, Pop, Unlink, UnlinkFails
  <2> QED BY <1>0, <2>1 DEF Pop, Unlink, Finish, Forget, NoFile, Less
<1> QED BY <1>1, <1>2, <1>3

-----------------------------------------------------------------------------
(* The invariant is inductive.                                             *)

\* No request is open and no delete has been answered at first.
LEMMA DeleteInit == Init => DeleteInv
BY DEF Init, DeleteInv, IdleInv, RaceInv, PopInv, GoneInv, NoRequest, NewRequest

\* A request that arrives has raced a delete when either of the two is one.
LEMMA ArriveKeeps ==
  ASSUME TypeInv, BornInv, DeleteInv, NEW t \in Threads, Accept(t)
  PROVE  DeleteInv'
<1> USE DEF Goto, TypeInv, TypeOK
<1>0. /\ pc[t] = "idle" /\ req[t].id = NoId
      /\ \A u \in Threads \ {t} : pc'[u] = pc[u] /\ req'[u] = req[u]
      /\ \A j \in born \cap Ids : Less(j)
      /\ deleted' = deleted /\ deleted \subseteq Ids /\ NoId \notin Ids
  <2>1. pc[t] = "idle" /\ deleted' = deleted
    BY DEF Accept, Create, Request
  <2>2. req[t].id = NoId
    BY <2>1 DEF DeleteInv, IdleInv
  <2>3. \A u \in Threads \ {t} : pc'[u] = pc[u] /\ req'[u] = req[u]
    BY OthersKeep
  <2>4. \A j \in born \cap Ids : Less(j)
    BY <2>2, ElseLess, NoneAssumption
  <2> QED BY <2>1, <2>2, <2>3, <2>4, NoneAssumption
<1>1. ASSUME NEW i \in Ids, Create(t, i) PROVE DeleteInv'
  <2>1. /\ req'[t].id = i /\ req'[t].op = "create" /\ pc'[t] = "sweep"
        /\ raced' = raced /\ born' = born \cup {i} /\ i \notin born
    BY <1>1 DEF Create, NewRequest
  <2>2. \A u \in Threads \ {t} : req[u].id # i
    BY <1>0, <2>1 DEF BornInv, DeleteInv, IdleInv
  <2>3. IdleInv'
    BY <1>0, <2>1 DEF DeleteInv, IdleInv
  <2>4. RaceInv'
    BY <1>0, <2>1, <2>2 DEF DeleteInv, RaceInv
  <2>5. PopInv'
    <3> SUFFICES ASSUME NEW u \in Threads, pc'[u] = "unlink", req'[u].id \notin raced
                 PROVE  Clean(req[u].id)' /\ req'[u] = req[u]
      BY <2>1 DEF PopInv, Clean
    <3>1. pc[u] = "unlink" /\ req'[u] = req[u]
      BY <1>0, <2>1
    <3>2. req[u].id \in born \cap Ids /\ Clean(req[u].id)
      BY <2>1, <3>1 DEF BornInv, DeleteInv, PopInv, RequestOK
    <3> QED BY <1>0, <3>1, <3>2, LessClean
  <2>6. GoneInv'
    <3> SUFFICES ASSUME NEW j \in deleted \ raced
                 PROVE  /\ Clean(j)' /\ ~files'[j].here /\ j \in born'
                        /\ \A u \in Threads : req'[u].id = j => pc'[u] \in Passing
      BY <1>0, <2>1 DEF GoneInv, Clean, Passing
    <3>1. /\ j \in born \cap Ids /\ Clean(j) /\ ~files[j].here
          /\ \A u \in Threads : req[u].id = j => pc[u] \in Passing
      BY <1>0 DEF DeleteInv, GoneInv
    <3> QED BY <1>0, <2>1, <3>1, LessClean
  <2> QED BY <2>3, <2>4, <2>5, <2>6 DEF DeleteInv
<1>2. ASSUME NEW i \in Ids, NEW op \in {"read", "update", "delete"}, Request(t, op, i)
      PROVE  DeleteInv'
  <2>1. /\ req'[t].id = i /\ req'[t].op = op /\ pc'[t] = LookedUp(i)
        /\ raced' = (IF Clash(t, op, i) THEN raced \cup {i} ELSE raced)
        /\ born' = born /\ UNCHANGED <<table, files, marks, locks, recency>>
    BY <1>2 DEF Request, NewRequest
  <2>2. \A j : Clean(j) => Clean(j)' /\ (j = i => pc'[t] = "load")
    BY <2>1 DEF Clean, LookedUp
  <2>3. IdleInv'
    BY <1>0, <2>1 DEF DeleteInv, IdleInv, LookedUp
  <2>4. RaceInv'
    <3> SUFFICES ASSUME NEW u \in Threads, NEW w \in Threads, u # w, req'[u].id = req'[w].id,
                        req'[u].op = "delete", req'[u].id # NoId
                 PROVE  req'[u].id \in raced'
      BY DEF RaceInv
    <3>1. CASE u # t /\ w # t
      BY <1>0, <2>1, <3>1 DEF DeleteInv, RaceInv
    <3>2. CASE u = t \/ w = t
      BY <1>0, <2>1, <3>2 DEF Clash
    <3> QED BY <3>1, <3>2
  <2>5. PopInv'
    <3> SUFFICES ASSUME NEW u \in Threads, pc'[u] = "unlink", req'[u].id \notin raced'
                 PROVE  Clean(req[u].id)' /\ req'[u] = req[u]
      BY DEF PopInv, Clean
    <3>1. pc[u] = "unlink" /\ req'[u] = req[u]
      BY <1>0, <2>1 DEF LookedUp
    <3> QED BY <2>1, <2>2, <3>1 DEF DeleteInv, PopInv
  <2>6. GoneInv'
    <3> SUFFICES ASSUME NEW j \in deleted \ raced'
                 PROVE  /\ Clean(j)' /\ ~files'[j].here /\ j \in born'
                        /\ \A u \in Threads : req'[u].id = j => pc'[u] \in Passing
      BY <1>0 DEF GoneInv, Clean, Passing
    <3>1. /\ j \in born /\ Clean(j) /\ ~files[j].here
          /\ \A u \in Threads : req[u].id = j => pc[u] \in Passing
      BY <2>1 DEF DeleteInv, GoneInv
    <3> QED BY <1>0, <2>1, <2>2, <3>1 DEF Passing
  <2> QED BY <2>3, <2>4, <2>5, <2>6 DEF DeleteInv
<1> QED BY <1>1, <1>2 DEF Accept

\* A request under way disturbs no other session, and what it does to its own
\* is a race when a delete of it is open too.
LEMMA StepKeeps ==
  ASSUME TypeInv, BornInv, DeleteInv, NEW t \in Threads, Step(t)
  PROVE  DeleteInv'
<1>0. /\ pc[t] # "idle" /\ req[t].id \in Ids \cap born /\ NoId \notin Ids
      /\ pc'[t] = "idle" => req'[t].id = NoId
      /\ req'[t].id \in {req[t].id, NoId}
      /\ req'[t].id # NoId => (req'[t].op = "delete" <=> req[t].op = "delete")
      /\ pc'[t] = "pop" => req'[t].id # NoId /\ req[t].op = "delete"
      /\ pc'[t] = "unlink" => Pop(t)
      /\ raced' = raced /\ born' = born
      /\ deleted' = deleted \/ Unlink(t)
  BY OwnMoves, NoneAssumption DEF DeleteInv, BornInv
<1>1. \A u \in Threads \ {t} : pc'[u] = pc[u] /\ req'[u] = req[u]
  BY OthersKeep
<1>2. \A j \in born \cap Ids : j # req[t].id => Less(j)
  BY ElseLess
<1>3. Pop(t) => req' = req /\ pc[t] = "pop" /\ Clean(req[t].id)'
  <2> SUFFICES ASSUME Pop(t) PROVE req' = req /\ pc[t] = "pop" /\ Clean(req[t].id)'
    OBVIOUS
  <2>1. req' = req /\ pc[t] = "pop"
    BY DEF Pop
  <2>2. sessions'[req[t].id] = NoObj
    BY <1>0 DEF Pop, TypeInv, TypeOK
  <2>3. req[t].id \notin unsaved' \cup saveLocks' \cup lastUsed'
    BY DEF Pop, Forget
  <2> QED BY <2>1, <2>2, <2>3 DEF Clean
<1>4. IdleInv'
  BY <1>0, <1>1, <1>3 DEF DeleteInv, IdleInv
<1>5. RaceInv'
  BY <1>0, <1>1 DEF DeleteInv, RaceInv
<1>6. PopInv'
  <2> SUFFICES ASSUME NEW u \in Threads, pc'[u] = "unlink", req'[u].id \notin raced
               PROVE  Clean(req[u].id)' /\ req'[u] = req[u]
    BY <1>0 DEF PopInv, Clean
  <2>1. CASE u = t
    BY <1>0, <1>3, <2>1
  <2>2. CASE u # t
    <3>1. pc[u] = "unlink" /\ req'[u] = req[u] /\ req[u].op = "delete"
      BY <1>1, <2>2 DEF DeleteInv, IdleInv
    <3>2. req[u].id \in born \cap Ids /\ Clean(req[u].id) /\ req[u].id # NoId
      BY <1>0, <3>1 DEF BornInv, DeleteInv, PopInv, TypeInv, RequestOK
    <3>3. req[u].id # req[t].id
      BY <2>2, <3>1, <3>2 DEF DeleteInv, RaceInv
    <3> QED BY <1>2, <3>1, <3>2, <3>3, LessClean
  <2> QED BY <2>1, <2>2
<1>7. GoneInv'
  <2> SUFFICES ASSUME NEW j \in deleted' \ raced
               PROVE  /\ Clean(j)' /\ ~files'[j].here /\ j \in born
                      /\ \A u \in Threads : req'[u].id = j => pc'[u] \in Passing
    BY <1>0 DEF GoneInv, Clean, Passing
  <2>1. CASE j \in deleted
    <3>1. /\ j \in born \cap Ids /\ Clean(j) /\ ~files[j].here
          /\ \A u \in Threads : req[u].id = j => pc[u] \in Passing
      BY <1>0, <2>1 DEF DeleteInv, GoneInv, TypeInv, TypeOK
    <3>2. CASE j # req[t].id
      BY <1>0, <1>1, <1>2, <3>1, <3>2, LessClean
    <3>3. CASE j = req[t].id
      <4>1. Less(j) /\ pc'[t] \in Passing \cup {"idle"}
        BY <3>1, <3>3, PassThrough
      <4> QED BY <1>0, <1>1, <3>1, <3>3, <4>1, LessClean
    <3> QED BY <3>2, <3>3
  <2>2. CASE j \notin deleted
    <3>1. Unlink(t) /\ j = req[t].id
      BY <1>0, <2>2 DEF Unlink
    <3>2. /\ pc[t] = "unlink" /\ req'[t].id = NoId
          /\ UNCHANGED <<sessions, unsaved, saveLocks, lastUsed>> /\ ~files'[j].here
      BY <1>0, <3>1 DEF Unlink, Finish, Goto, NoFile, NoRequest, NewRequest, TypeInv, TypeOK
    <3>3. Clean(j)' /\ req[t].op = "delete"
      BY <3>1, <3>2 DEF DeleteInv, PopInv, IdleInv, Clean
    <3>4. \A u \in Threads \ {t} : req[u].id # j
      BY <1>0, <3>1, <3>3 DEF DeleteInv, RaceInv
    <3> QED BY <1>0, <1>1, <3>1, <3>2, <3>3, <3>4
  <2> QED BY <2>1, <2>2
<1> QED BY <1>4, <1>5, <1>6, <1>7 DEF DeleteInv

\* The three parts are inductive on top of the types and the created ids.
LEMMA DeleteNext == TypeInv /\ BornInv /\ DeleteInv /\ [Next]_vars => DeleteInv'
<1> SUFFICES ASSUME TypeInv, BornInv, DeleteInv, [Next]_vars PROVE DeleteInv'
  OBVIOUS
<1>1. CASE \E t \in Threads : Accept(t) \/ Step(t)
  BY <1>1, ArriveKeeps, StepKeeps
<1>2. ASSUME NEW i \in Ids, Age(i) PROVE DeleteInv'
  <2>1. /\ UNCHANGED <<table, marks, locks, recency, pc, req, history>>
        /\ \A j \in Ids : files'[j].here = files[j].here
    BY <1>2 DEF Age, TypeInv, TypeOK, SavedFiles
  <2> QED BY <2>1 DEF DeleteInv, IdleInv, RaceInv, PopInv, GoneInv, Clean, TypeInv, TypeOK
<1>3. CASE Crash
  <2>1. /\ \A t \in Threads : pc'[t] = "idle" /\ req'[t].id = NoId
        /\ \A i \in Ids : Clean(i)'
        /\ UNCHANGED <<files, history>>
    BY <1>3 DEF Crash, NoRequest, NewRequest, Clean
  <2> QED BY <2>1, NoneAssumption DEF DeleteInv, IdleInv, RaceInv, PopInv, GoneInv, TypeInv, TypeOK
<1>4. CASE UNCHANGED vars
  BY <1>4 DEF vars, DeleteInv, IdleInv, RaceInv, PopInv, GoneInv, Clean
<1> QED BY <1>1, <1>2, <1>3, <1>4 DEF Next

\* After a delete that had the session to itself, no later request, restore,
\* save, sweep or restart brings anything of the session back, in memory, in
\* the bookkeeping or on disk.
THEOREM DeletesFinal == Spec => []QuietDeleteFinal
<1>1. Init => TypeInv /\ BornInv /\ DeleteInv
  BY InitType, DeleteInit DEF Init, BornInv
<1>2. TypeInv /\ BornInv /\ DeleteInv /\ [Next]_vars => (TypeInv /\ BornInv /\ DeleteInv)'
  BY TypeStep, BornStep, DeleteNext
<1>3. DeleteInv => QuietDeleteFinal
  BY DEF DeleteInv, GoneInv, QuietDeleteFinal, Clean
<1> QED BY <1>1, <1>2, <1>3, PTL DEF Spec

-----------------------------------------------------------------------------
(* A session whose requests never overlap: AloneTracked and AloneKept.     *)
(*                                                                         *)
(* No object is ever shared by two sessions (ApartInv), and requests about *)
(* other sessions can only drop this one from the table (ElseKeeps).  So   *)
(* what memory has beyond the file is marked, or a request is about to     *)
(* save or to mark it (Settled, Dirty), and what the file has is in every  *)
(* object restored from it (AtWork), so that no save takes it out again.   *)

\* No object belongs to two sessions.
ApartInv ==
  /\ \A i, j \in Ids : i # j /\ sessions[i] = sessions[j] => sessions[i] = NoObj
  /\ \A t \in Threads, i \in Ids : req[t].id # i /\ sessions[i] = req[t].obj => sessions[i] = NoObj
  /\ \A t, u \in Threads :
       req[t].id # req[u].id /\ req[t].obj = req[u].obj => req[t].obj = NoObj

\* Two requests open at once make their session shared.
SharedInv ==
  \A t, u \in Threads : t # u /\ req[t].id = req[u].id /\ req[t].id # NoId => req[t].id \in shared

\* The steps of a request whose change is not saved and not marked yet.
Dirty == {"sweep", "lock", "dump", "swap", "failed", "note"}

\* The steps of a request between finding its session's object and its answer.
AtHand == {"touch", "evict", "apply", "ok", "discard"} \cup Dirty

\* The change of t is in its session's file.
InFile(t) ==
  \/ pc[t] \in {"ok", "discard"}
  \/ pc[t] = "evict" /\ req[t].op = "create"
  \/ pc[t] = "answer" /\ req[t].op \in {"create", "update"}

\* What memory has of i the file has too, or it was answered with an error, or
\* i is marked.
Settled(i) ==
  sessions[i] # NoObj => heap[sessions[i]] \subseteq files[i].done \cup failed \/ i \in unsaved

\* The same once the update of t counts as failed: all that the refresh of a
\* mark, should it fail, leaves behind.
SettledBut(t) ==
  LET o == sessions[req[t].id] IN
  o # NoObj => \/ heap[o] \subseteq files[req[t].id].done \cup failed \cup {req[t].tok}
               \/ req[t].id \in unsaved

\* What a request alone on its session relies on.
AtWork(t) ==
  LET i == req[t].id
      o == req[t].obj IN
  /\ pc[t] \in {"load", "install", "unlink"} => sessions[i] = NoObj
  /\ pc[t] = "install" => heap[o] = files[i].done
  /\ pc[t] \in AtHand => sessions[i] \in {NoObj, o} /\ files[i].done \subseteq heap[o]
  /\ pc[t] \in {"ok", "discard"} => heap[o] \subseteq files[i].done
  /\ pc[t] \in {"sweep", "lock", "dump", "swap"} => req[t].tok \in heap[o]
  /\ pc[t] = "swap" => req[t].snap = heap[o]
  /\ pc[t] \in {"sweep", "lock"} /\ req[t].op = "update" => SettledBut(t)
  /\ fails = 0 /\ InFile(t) => req[t].tok \in files[i].done

SessionOK(i) ==
  /\ (\A t \in Threads : req[t].id = i => pc[t] \notin Dirty) => Settled(i)
  /\ sessions[i] # NoObj => files[i].done \subseteq heap[sessions[i]]
  /\ fails = 0 /\ i \notin deleted => acked[i] \subseteq files[i].done
  /\ i \notin born => files[i].done = {}
  /\ \A t \in Threads : req[t].id = i => AtWork(t)

\* Nothing has expired.
NothingOld ==
  /\ \A i \in Ids : ~files[i].old
  /\ \A t \in Threads : pc[t] \notin {"expire", "purge"}

\* No save has failed.
NothingFailed == fails = 0 => \A t \in Threads : pc[t] \notin {"failed", "note"}

AloneInv ==
  /\ ApartInv /\ SharedInv /\ NothingFailed
  /\ ages = 0 => NothingOld /\ \A i \in Ids \ shared : SessionOK(i)

\* The objects a step of t may leave with session j, whose request t serves
\* then: those already with j, and a new one.
Own(t, j) == {NoObj} \cup {sessions[i] : i \in Ids \cap {j}}
                     \cup (IF req[t].id = j THEN {req[t].obj} ELSE {})
                     \cup (IF Free # {} THEN {FreshObj} ELSE {})

\* Where the objects of a step come from.
LEMMA ObjStep ==
  ASSUME TypeInv, NEW t \in Threads, Accept(t) \/ Step(t)
  PROVE  /\ \A i \in Ids : i # req'[t].id => sessions'[i] \in {sessions[i], NoObj}
         /\ \A i \in Ids : i = req'[t].id => sessions'[i] \in Own(t, i)
         /\ req'[t].obj \in Own(t, req'[t].id)
<1> DEFINE OK == /\ \A i \in Ids : i # req'[t].id => sessions'[i] \in {sessions[i], NoObj}
                 /\ \A i \in Ids : i = req'[t].id => sessions'[i] \in Own(t, i)
                 /\ req'[t].obj \in Own(t, req'[t].id)
<1> USE DEF TypeInv, TypeOK
<1>0. /\ req \in [Threads -> Requests] /\ sessions \in [Ids -> Objs \cup {NoObj}]
      /\ pc[t] # "idle" => req[t].id \in Ids
  BY DEF RequestOK
<1>1. ASSUME sessions' = sessions, req'[t].id = req[t].id, req'[t].obj = req[t].obj
      PROVE  OK
  BY <1>1 DEF Own
<1>2. ASSUME NEW x, UNCHANGED sessions,
             \/ req' = req
             \/ req' = [req EXCEPT ![t].snap = x] \/ req' = [req EXCEPT ![t].lock = x]
             \/ req' = [req EXCEPT ![t].sweep = x] \/ req' = [req EXCEPT ![t].victim = x]
             \/ req' = [req EXCEPT ![t].op = x]
      PROVE  OK
  <2>1. CASE req' = req  BY <1>1, <1>2, <2>1
  <2>2. CASE req' = [req EXCEPT ![t].snap = x]  BY <1>0, <1>1, <1>2, <2>2, FieldSame DEF Same
  <2>3. CASE req' = [req EXCEPT ![t].lock = x]  BY <1>0, <1>1, <1>2, <2>3, FieldSame DEF Same
  <2>4. CASE req' = [req EXCEPT ![t].sweep = x]  BY <1>0, <1>1, <1>2, <2>4, FieldSame DEF Same
  <2>5. CASE req' = [req EXCEPT ![t].victim = x]  BY <1>0, <1>1, <1>2, <2>5, FieldSame DEF Same
  <2>6. CASE req' = [req EXCEPT ![t].op = x]  BY <1>0, <1>1, <1>2, <2>6, FieldSame
  <2> QED BY <1>2, <2>1, <2>2, <2>3, <2>4, <2>5, <2>6
<1>3. ASSUME Finish(t), sessions' = sessions PROVE OK
  <2>1. req'[t].id = NoId /\ req'[t].obj = NoObj
    BY <1>3 DEF Finish, NoRequest, NewRequest
  <2> QED BY <1>3, <2>1, NoneAssumption DEF Own
<1>4. ASSUME NEW i \in Ids, Create(t, i) PROVE OK
  <2>1. /\ req'[t].id = i /\ req'[t].obj = FreshObj /\ Free # {}
        /\ sessions' = [sessions EXCEPT ![i] = FreshObj]
    BY <1>0, <1>4 DEF Create, NewRequest
  <2> QED BY <1>0, <2>1 DEF Own
<1>5. ASSUME NEW i \in Ids, NEW op \in {"read", "update", "delete"}, Request(t, op, i) PROVE OK
  <2>1. req'[t].id = i /\ req'[t].obj = sessions[i] /\ sessions' = sessions
    BY <1>0, <1>5 DEF Request, NewRequest
  <2> QED BY <2>1 DEF Own
<1>6. CASE Get(t)
  <2>1. CASE LoadNothing(t) \/ UnlinkExpired(t) \/ UnlinkExpiredFails(t)
    BY <1>2, <1>3, <2>1 DEF LoadNothing, UnlinkExpired, UnlinkExpiredFails, NotFound
  <2>2. CASE LoadExpired(t) \/ Touch(t)
    BY <1>2, <2>2 DEF LoadExpired, Touch
  <2>3. CASE Load(t)
    <3>1. /\ req'[t].id = req[t].id /\ req'[t].obj = FreshObj /\ Free # {} /\ sessions' = sessions
      BY <1>0, <2>3, FieldSame DEF Load
    <3> QED BY <3>1 DEF Own
  <2>4. CASE Install(t)
    <3>1. /\ req'[t].id = req[t].id /\ req'[t].obj = Kept(t) /\ req[t].id \in Ids
          /\ sessions' = [sessions EXCEPT ![req[t].id] = Kept(t)]
      BY <1>0, <2>4, FieldSame DEF Install
    <3>2. Kept(t) \in Own(t, req[t].id)
      BY <3>1 DEF Kept, Own
    <3> QED BY <1>0, <3>1, <3>2
  <2>5. CASE Probe(t)
    <3>1. ASSUME req' = [req EXCEPT ![t].obj = sessions[req[t].id]], sessions' = sessions, pc[t] = "probe"
          PROVE  OK
      <4>1. req'[t].id = req[t].id /\ req'[t].obj = sessions[req[t].id] /\ req[t].id \in Ids
        BY <1>0, <3>1, FieldSame
      <4> QED BY <3>1, <4>1 DEF Own
    <3> QED BY <1>3, <2>5, <3>1 DEF Probe
  <2> QED BY <1>6, <2>1, <2>2, <2>3, <2>4, <2>5 DEF Get
<1>7. CASE Evict(t)
  <2>1. req' = req /\ \A i \in Ids : sessions'[i] \in {sessions[i], NoObj}
    BY <1>7 DEF Evict, Drop
  <2> QED BY <2>1 DEF Own
<1>8. CASE Save(t)
  <2>1. CASE SaveLock(t) \/ SaveDump(t) \/ SaveSwap(t) \/ SaveFail(t)
    BY <1>2, <2>1 DEF SaveLock, SaveDump, SaveSwap, SaveFail
  <2>2. CASE SaveOk(t) \/ SaveDiscard(t) \/ SaveFailed(t) \/ SaveNote(t)
    BY <1>1, <2>2 DEF SaveOk, SaveDiscard, SaveFailed, SaveNote
  <2> QED BY <1>8, <2>1, <2>2 DEF Save
<1>9. CASE Sweep(t)
  BY <1>2, <1>9 DEF Sweep, SweepKeep, SweepExpired, SweepUnlink, SweepUnlinkFails, SweepDone
<1>10. CASE Handle(t)
  <2>1. CASE Apply(t)
    BY <1>1, <2>1 DEF Apply
  <2>2. CASE Pop(t)
    <3>1. req' = req /\ \A i \in Ids : sessions'[i] \in {sessions[i], NoObj}
      BY <1>0, <2>2 DEF Pop
    <3> QED BY <3>1 DEF Own
  <2> QED BY <1>3, <1>10, <2>1, <2>2 DEF Handle, Refuse, RefreshFails, Answer, Unlink, UnlinkFails
<1> QED BY <1>4, <1>5, <1>6, <1>7, <1>8, <1>9, <1>10 DEF Accept, Step

\* No step gives an object to a second session.
LEMMA ApartStep ==
  ASSUME TypeInv, ApartInv, NEW t \in Threads, Accept(t) \/ Step(t)
  PROVE  ApartInv'
<1>1. \A u \in Threads \ {t} : req'[u] = req[u]
  BY OthersKeep
<1>2. /\ \A i \in Ids : i # req'[t].id => sessions'[i] \in {sessions[i], NoObj}
      /\ \A i \in Ids : i = req'[t].id => sessions'[i] \in Own(t, i)
      /\ req'[t].obj \in Own(t, req'[t].id)
  BY ObjStep
<1>3. Free # {} => /\ \A i \in Ids : FreshObj # sessions[i]
                   /\ \A u \in Threads : FreshObj # req[u].obj
  BY FreshType, FreshUnused DEF Free, Live
<1> DEFINE j == req'[t].id
<1>4. ASSUME NEW o \in Own(t, j), o # NoObj
      PROVE  /\ \A k \in Ids \ {j} : sessions[k] # o
             /\ \A u \in Threads \ {t} : req[u].id # j => req[u].obj # o
  BY <1>3, <1>4 DEF Own, ApartInv
<1>5. ASSUME NEW i \in Ids, NEW k \in Ids, i # k, sessions'[i] = sessions'[k]
      PROVE  sessions'[i] = NoObj
  <2>1. CASE i # j /\ k # j
    BY <1>2, <1>5, <2>1 DEF ApartInv
  <2>2. CASE i = j
    BY <1>2, <1>4, <1>5, <2>2
  <2>3. CASE k = j
    BY <1>2, <1>4, <1>5, <2>3
  <2> QED BY <2>1, <2>2, <2>3
<1>6. ASSUME NEW u \in Threads, NEW i \in Ids, req'[u].id # i, sessions'[i] = req'[u].obj
      PROVE  sessions'[i] = NoObj
  <2>1. CASE u = t
    BY <1>2, <1>4, <1>6, <2>1
  <2>2. CASE u # t /\ i # j
    BY <1>1, <1>2, <1>6, <2>2 DEF ApartInv
  <2>3. CASE u # t /\ i = j
    BY <1>1, <1>2, <1>4, <1>6, <2>3
  <2> QED BY <2>1, <2>2, <2>3
<1>7. ASSUME NEW u \in Threads, NEW v \in Threads, req'[u].id # req'[v].id, req'[u].obj = req'[v].obj
      PROVE  req'[u].obj = NoObj
  <2>1. CASE u # t /\ v # t
    BY <1>1, <1>7, <2>1 DEF ApartInv
  <2>2. CASE u = t
    BY <1>1, <1>2, <1>4, <1>7, <2>2
  <2>3. CASE v = t
    BY <1>1, <1>2, <1>4, <1>7, <2>3
  <2> QED BY <2>1, <2>2, <2>3
<1> QED BY <1>5, <1>6, <1>7 DEF ApartInv

\* A step of a request about another session can only drop this one from the
\* table: its file, its marks, its object and those of its requests stay.
LeftAlone(i) ==
  /\ sessions'[i] \in {sessions[i], NoObj} /\ files'[i] = files[i] /\ acked'[i] = acked[i]
  /\ (i \in unsaved' <=> i \in unsaved) /\ (i \in deleted' <=> i \in deleted)
  /\ (i \in born' <=> i \in born) /\ failed \subseteq failed'
  /\ sessions'[i] # NoObj => heap'[sessions[i]] = heap[sessions[i]]
  /\ \A u \in Threads : req[u].id = i /\ req[u].obj \in Objs => heap'[req[u].obj] = heap[req[u].obj]

\* Requests about other sessions leave this one alone.
LEMMA ElseKeeps ==
  ASSUME TypeInv, ApartInv, NothingOld, NEW t \in Threads, Accept(t) \/ Step(t),
         NEW i \in Ids, i # req[t].id, i # req'[t].id
  PROVE  LeftAlone(i)
<1> USE DEF TypeInv, TypeOK
<1>0. /\ sessions \in [Ids -> Objs \cup {NoObj}] /\ files \in [Ids -> SavedFiles]
      /\ acked \in [Ids -> SUBSET Updates]
      /\ pc[t] # "idle" => req[t].id \in Ids
      /\ \A u \in Threads \ {t} : req'[u] = req[u]
      /\ sessions'[i] \in {sessions[i], NoObj}
      /\ pc[t] \notin {"expire", "purge"}
      /\ NoObj \notin Objs
  BY OthersKeep, ObjStep, NoneAssumption DEF RequestOK, NothingOld
<1> DEFINE HeapOK ==
       /\ sessions'[i] # NoObj => heap'[sessions[i]] = heap[sessions[i]]
       /\ \A u \in Threads : req[u].id = i /\ req[u].obj \in Objs => heap'[req[u].obj] = heap[req[u].obj]
<1>1. ASSUME heap' = heap PROVE HeapOK
  BY <1>1
<1>2. ASSUME NEW r, heap' = Collected(sessions', r), r = req \/ r = req'
      PROVE  HeapOK
  <2>1. ASSUME sessions'[i] # NoObj PROVE heap'[sessions[i]] = heap[sessions[i]]
    <3>1. sessions[i] \in Objs /\ sessions[i] \in Live(sessions', r)
      BY <1>0, <2>1 DEF Live
    <3> QED BY <1>2, <3>1, CollectedLive
  <2>2. ASSUME NEW u \in Threads, req[u].id = i, req[u].obj \in Objs
        PROVE  heap'[req[u].obj] = heap[req[u].obj]
    <3>1. req[u].obj \in Live(sessions', r)
      BY <1>0, <1>2, <2>2 DEF Live
    <3> QED BY <1>2, <2>2, <3>1, CollectedLive
  <2> QED BY <2>1, <2>2
<1>3. ASSUME Free # {}, NEW x, heap' = [heap EXCEPT ![FreshObj] = x] PROVE HeapOK
  <2>1. FreshObj # sessions[i] /\ \A u \in Threads : FreshObj # req[u].obj
    BY <1>3, FreshType, FreshUnused DEF Free, Live
  <2>2. sessions'[i] # NoObj => sessions[i] \in Objs
    BY <1>0
  <2> QED BY <1>3, <2>1, <2>2
<1>4. HeapOK
  <2>1. CASE Accept(t)
    BY <1>1, <1>3, <2>1 DEF Accept, Create, Request
  <2>2. CASE Finish(t) /\ UNCHANGED sessions
    BY <1>2, <2>2 DEF Finish
  <2>3. CASE Get(t)
    <3>1. CASE Install(t)
      BY <1>2, <3>1 DEF Install
    <3>2. CASE Load(t)
      BY <1>3, <3>2 DEF Load
    <3> QED BY <1>1, <2>2, <2>3, <3>1, <3>2 DEF Get, LoadNothing, LoadExpired, UnlinkExpired,
        UnlinkExpiredFails, NotFound, Touch, Probe
  <2>4. CASE Evict(t)
    BY <1>2, <2>4 DEF Evict
  <2>5. CASE Save(t) \/ Sweep(t)
    BY <1>1, <2>5 DEF Save, SaveLock, SaveDump, SaveSwap, SaveFail, SaveOk, SaveDiscard, SaveFailed,
       SaveNote, Sweep, SweepKeep, SweepExpired, SweepUnlink, SweepUnlinkFails, SweepDone
  <2>6. CASE Apply(t)
    <3>1. heap' = [heap EXCEPT ![req[t].obj] = @ \cup {req[t].tok}] /\ req[t].obj \in Objs
      BY <2>6 DEF Apply, RequestOK, Holding
    <3>2. sessions[i] # req[t].obj /\ \A u \in Threads : req[u].id = i => req[u].obj # req[t].obj
      BY <1>0, <3>1 DEF ApartInv
    <3>3. sessions'[i] # NoObj => sessions[i] \in Objs
      BY <1>0
    <3> QED BY <3>1, <3>2, <3>3
  <2>7. CASE Pop(t)
    BY <1>2, <2>7 DEF Pop
  <2>8. CASE Refuse(t) \/ RefreshFails(t) \/ Answer(t) \/ Unlink(t) \/ UnlinkFails(t)
    BY <2>2, <2>8 DEF Refuse, RefreshFails, Answer, Unlink, UnlinkFails
  <2> QED BY <2>1, <2>3, <2>4, <2>5, <2>6, <2>7, <2>8 DEF Step, Handle
<1>5. /\ files'[i] = files[i] /\ acked'[i] = acked[i]
      /\ (i \in unsaved' <=> i \in unsaved) /\ (i \in deleted' <=> i \in deleted)
      /\ (i \in born' <=> i \in born) /\ failed \subseteq failed'
  <2>1. CASE Accept(t)
    <3>1. ASSUME NEW k \in Ids, Create(t, k)
          PROVE  req'[t].id = k /\ born' = born \cup {k} /\ UNCHANGED <<files, acked, unsaved, deleted, failed>>
      BY <3>1 DEF Create, NewRequest
    <3>2. ASSUME NEW k \in Ids, NEW op \in {"read", "update", "delete"}, Request(t, op, k)
          PROVE  UNCHANGED <<files, acked, unsaved, deleted, born, failed>>
      BY <3>2 DEF Request
    <3> QED BY <2>1, <3>1, <3>2 DEF Accept
  <2>2. CASE Get(t) \/ Evict(t) \/ Sweep(t)
    BY <1>0, <2>2 DEF Get, LoadNothing, LoadExpired, Load, UnlinkExpired, UnlinkExpiredFails, Install, Touch, Probe, Evict,
       Sweep, SweepKeep, SweepExpired, SweepUnlink, SweepUnlinkFails, SweepDone
  <2>3. CASE Save(t)
    BY <1>0, <2>3 DEF Save, SaveLock, SaveDump, SaveSwap, SaveFail, SaveOk, SaveDiscard, SaveFailed,
       SaveNote
  <2>4. CASE Handle(t)
    BY <1>0, <2>4 DEF Handle, Apply, Refuse, RefreshFails, Answer, Pop, Unlink, UnlinkFails
  <2> QED BY <2>1, <2>2, <2>3, <2>4 DEF Step
<1> QED BY <1>0, <1>4, <1>5 DEF LeftAlone

\* Such a step leaves what is said of this session.
LEMMA ElseOK ==
  ASSUME TypeInv, IdleInv, ApartInv, NothingOld, NEW t \in Threads, Accept(t) \/ Step(t),
         NEW i \in Ids, i # req[t].id, i # req'[t].id, SessionOK(i), fails' = 0 => fails = 0
  PROVE  SessionOK(i)'
<1>1. LeftAlone(i)
  BY ElseKeeps
<1>2. \A u \in Threads : req'[u].id = i =>
        req[u].id = i /\ req'[u] = req[u] /\ pc'[u] = pc[u] /\ (pc[u] \in Holding => req[u].obj \in Objs)
  <2>1. \A u \in Threads \ {t} : req'[u] = req[u] /\ pc'[u] = pc[u]
    BY OthersKeep
  <2>2. \A u \in Threads : req[u].id = i /\ pc[u] \in Holding => req[u].obj \in Objs
    BY DEF TypeInv, RequestOK, Holding
  <2> QED BY <2>1, <2>2
<1>3. \A u \in Threads : req[u].id = i => req'[u].id = i /\ pc'[u] = pc[u]
  BY OthersKeep
<1>4. ASSUME NEW u \in Threads, req'[u].id = i PROVE AtWork(u)'
  <2>1. AtWork(u) /\ req[u].id = i /\ req'[u] = req[u] /\ pc'[u] = pc[u]
    BY <1>2, <1>4 DEF SessionOK
  <2>2. pc[u] \in AtHand \cup {"install"} => heap'[req[u].obj] = heap[req[u].obj]
    BY <1>1, <1>2, <1>4, <2>1 DEF LeftAlone, AtHand, Dirty, Holding
  <2>3. InFile(u)' => InFile(u)
    BY <2>1 DEF InFile
  <2>4. SettledBut(u) => SettledBut(u)'
    BY <1>1, <1>4, <2>1 DEF SettledBut, LeftAlone
  <2> QED BY <1>1, <2>1, <2>2, <2>3, <2>4 DEF AtWork, LeftAlone, AtHand, Dirty
<1>5. (\A u \in Threads : req'[u].id = i => pc'[u] \notin Dirty) => Settled(i)'
  BY <1>1, <1>3 DEF SessionOK, Settled, LeftAlone
<1> QED BY <1>1, <1>4, <1>5 DEF SessionOK, LeftAlone

\* The end of a request that has nothing left to save, or whose change failed.
LEMMA EndOK ==
  ASSUME TypeInv, NEW t \in Threads, NEW i \in Ids, i = req[t].id, SessionOK(i),
         \A u \in Threads \ {t} : req'[u].id # i,
         \/ pc[t] \notin Dirty /\ failed' = failed
         \/ SettledBut(t) /\ failed' = failed \cup {req[t].tok},
         Finish(t), UNCHANGED <<sessions, unsaved, born>>,
         files'[i] = files[i] \/ (sessions[i] = NoObj /\ i \in born),
         fails' = 0 /\ i \notin deleted' => acked'[i] \subseteq files'[i].done,
         \A u \in Threads \ {t} : req[u].id # i
  PROVE  SessionOK(i)'
<1> USE DEF TypeInv, TypeOK
<1>1. req'[t].id = NoId /\ NoId # i
  BY NoneAssumption DEF Finish, NoRequest, NewRequest
<1>2. sessions[i] # NoObj => heap'[sessions[i]] = heap[sessions[i]]
  <2> SUFFICES ASSUME sessions[i] # NoObj PROVE heap'[sessions[i]] = heap[sessions[i]]
    OBVIOUS
  <2>1. sessions[i] \in Objs /\ sessions[i] \in Live(sessions, req')
    BY DEF Live
  <2> QED BY <2>1, CollectedLive DEF Finish
<1>3. sessions[i] # NoObj => heap[sessions[i]] \subseteq files[i].done \cup failed' \/ i \in unsaved
  <2>1. CASE pc[t] \notin Dirty /\ failed' = failed
    BY <2>1 DEF SessionOK, Settled
  <2>2. CASE SettledBut(t) /\ failed' = failed \cup {req[t].tok}
    BY <2>2 DEF SettledBut
  <2> QED BY <2>1, <2>2
<1>4. Settled(i)' /\ (sessions'[i] # NoObj => files'[i].done \subseteq heap'[sessions'[i]])
  BY <1>2, <1>3 DEF SessionOK, Settled
<1>5. i \notin born' => files'[i].done = {}
  BY DEF SessionOK
<1> QED BY <1>1, <1>4, <1>5 DEF SessionOK

\* What it takes for a step of t in the middle of its request.
LEMMA MiddleOK ==
  ASSUME NEW t \in Threads, NEW i \in Ids,
         \A u \in Threads \ {t} : req'[u].id # i,
         (pc'[t] \in Dirty /\ req'[t].id = i) \/ Settled(i)',
         sessions'[i] # NoObj => files'[i].done \subseteq heap'[sessions'[i]],
         fails' = 0 /\ i \notin deleted' => acked'[i] \subseteq files'[i].done,
         i \in born', AtWork(t)'
  PROVE  SessionOK(i)'
BY DEF SessionOK

\* Bringing the session up.
LEMMA OwnGet ==
  ASSUME TypeInv, BornInv, CreateOK, ApartInv, NothingOld, NEW t \in Threads,
         Get(t) \/ Evict(t), NEW i \in Ids, i = req[t].id, SessionOK(i),
         \A u \in Threads \ {t} : req[u].id # i
  PROVE  SessionOK(i)'
<1> USE DEF TypeInv, TypeOK, Goto
<1>0. /\ AtWork(t) /\ i \in born /\ pc[t] \notin {"expire", "purge"} /\ NoObj \notin Objs
      /\ pc[t] # "idle" /\ req[t].op \in Kinds \cup {"probe"}
      /\ (pc[t] \in Holding => req[t].obj \in Objs) /\ sessions[i] \in Objs \cup {NoObj}
  <2>1. pc[t] # "idle"
    BY DEF Get, LoadNothing, LoadExpired, Load, UnlinkExpired, UnlinkExpiredFails, Install, Touch, Probe, Evict
  <2> QED BY <2>1, NoneAssumption DEF SessionOK, BornInv, RequestOK, NothingOld
<1>1. \A u \in Threads \ {t} : req'[u].id # i
  BY OthersKeep DEF Step
<1>2. UNCHANGED <<unsaved, born, fails, deleted, acked, failed>> /\ files'[i] = files[i]
  BY <1>0 DEF Get, LoadNothing, LoadExpired, Load, UnlinkExpired, UnlinkExpiredFails, Install, Touch, Probe, Evict
<1>3. fails' = 0 /\ i \notin deleted' => acked'[i] \subseteq files'[i].done
  BY <1>2 DEF SessionOK
<1>4. ASSUME NEW r, heap' = Collected(sessions', r)
      PROVE  /\ sessions'[i] \in Objs => heap'[sessions'[i]] = heap[sessions'[i]]
             /\ r[t].obj \in Objs => heap'[r[t].obj] = heap[r[t].obj]
  <2>1. sessions'[i] \in Live(sessions', r) /\ r[t].obj \in Live(sessions', r)
    BY DEF Live
  <2> QED BY <1>4, <2>1, CollectedLive
<1>5. ASSUME Finish(t), sessions' = sessions, pc[t] \notin Dirty PROVE SessionOK(i)'
  BY <1>0, <1>1, <1>2, <1>3, <1>5, EndOK
<1>6. CASE LoadNothing(t)
  <2>1. pc[t] = "load" /\ sessions' = sessions /\ sessions[i] = NoObj
    BY <1>0, <1>6 DEF LoadNothing, AtWork
  <2>2. CASE pc'[t] \in {"pop", "probe"}
    BY <1>0, <1>1, <1>2, <1>3, <2>1, <2>2, MiddleOK
       DEF AtWork, AtHand, Dirty, InFile, Settled
  <2> QED BY <1>5, <1>6, <2>1, <2>2 DEF LoadNothing, NotFound, Dirty
<1>7. CASE Load(t)
  <2>1. /\ pc[t] = "load" /\ pc'[t] = "install" /\ sessions' = sessions /\ sessions[i] = NoObj
        /\ req'[t].id = i /\ req'[t].obj = FreshObj /\ heap'[FreshObj] = files[i].done
    BY <1>0, <1>7, FieldSame, FreshType DEF Load, AtWork
  <2> QED BY <1>0, <1>1, <1>2, <1>3, <2>1, MiddleOK DEF AtWork, AtHand, Dirty, InFile, Settled
<1>8. CASE Install(t)
  <2>1. /\ pc[t] = "install" /\ pc'[t] = "touch" /\ sessions[i] = NoObj
        /\ heap[req[t].obj] = files[i].done /\ req[t].obj \in Objs
    BY <1>0, <1>8 DEF Install, AtWork, Holding
  <2>2. Kept(t) = req[t].obj /\ sessions' = [sessions EXCEPT ![i] = req[t].obj]
    BY <1>8, <2>1 DEF Install, Kept
  <2>3. req'[t].id = i /\ req'[t].obj = req[t].obj /\ heap' = Collected(sessions', req')
    BY <1>8, <2>2, FieldSame DEF Install
  <2>4. sessions'[i] = req[t].obj /\ heap'[req[t].obj] = files[i].done
    BY <1>4, <2>1, <2>2, <2>3
  <2> QED BY <1>0, <1>1, <1>2, <1>3, <2>1, <2>3, <2>4, MiddleOK
      DEF AtWork, AtHand, Dirty, InFile, Settled
<1>9. CASE Touch(t)
  <2>1. /\ pc[t] = "touch" /\ pc'[t] = "evict" /\ UNCHANGED <<sessions, heap, req>>
        /\ req[t].op # "create"
    BY <1>9 DEF Touch, CreateOK, Creating
  <2>2. Settled(i)
    BY <2>1 DEF SessionOK, Dirty
  <2>3. AtWork(t)'
    BY <1>0, <1>2, <2>1 DEF AtWork, AtHand, Dirty, InFile
  <2>4. Settled(i)' /\ (sessions'[i] # NoObj => files'[i].done \subseteq heap'[sessions'[i]])
    BY <1>2, <2>1, <2>2 DEF Settled, SessionOK
  <2> QED BY <1>0, <1>1, <1>2, <1>3, <2>3, <2>4, MiddleOK
<1>10. CASE Probe(t)
  <2>1. CASE Finish(t)
    BY <1>5, <1>10, <2>1 DEF Probe, Dirty
  <2>2. CASE req' = [req EXCEPT ![t].obj = sessions[i]] /\ pc' = [pc EXCEPT ![t] = LookedUp(i)]
             /\ UNCHANGED heap
    <3>1. /\ pc[t] = "probe" /\ sessions' = sessions /\ heap' = heap
          /\ req'[t].id = i /\ req'[t].obj = sessions[i]
      BY <1>10, <2>2, FieldSame DEF Probe
    <3>2. Settled(i)
      BY <3>1 DEF SessionOK, Dirty
    <3>3. \/ pc'[t] = "load" /\ sessions[i] = NoObj
          \/ pc'[t] = "touch" /\ sessions[i] # NoObj
      BY <2>2 DEF LookedUp
    <3>4. AtWork(t)'
      BY <1>2, <3>1, <3>3 DEF AtWork, AtHand, Dirty, InFile, SessionOK
    <3>5. Settled(i)' /\ (sessions'[i] # NoObj => files'[i].done \subseteq heap'[sessions'[i]])
      BY <1>2, <3>1, <3>2 DEF Settled, SessionOK
    <3> QED BY <1>0, <1>1, <1>2, <1>3, <3>4, <3>5, MiddleOK
  <2> QED BY <1>10, <2>1, <2>2 DEF Probe
<1>11. CASE Evict(t)
  <2>1. /\ pc[t] = "evict" /\ req' = req /\ heap' = Collected(sessions', req)
        /\ sessions'[i] \in {sessions[i], NoObj} /\ req[t].obj \in Objs
    BY <1>0, <1>11 DEF Evict, Drop, Holding
  <2>2. heap'[req[t].obj] = heap[req[t].obj] /\ (sessions'[i] # NoObj => heap'[sessions[i]] = heap[sessions[i]])
    BY <1>0, <1>4, <2>1
  <2>3. /\ pc'[t] \in {"answer", "apply", "pop"}
        /\ pc'[t] = "answer" /\ req[t].op \in {"create", "update"} => req[t].op = "create"
    BY <1>0, <1>11, <2>1 DEF Evict, AfterEvict, Kinds
  <2>4. Settled(i)
    BY <2>1 DEF SessionOK, Dirty
  <2>5. AtWork(t)'
    BY <1>0, <1>2, <2>1, <2>2, <2>3 DEF AtWork, AtHand, Dirty, InFile
  <2>6. Settled(i)' /\ (sessions'[i] # NoObj => files'[i].done \subseteq heap'[sessions'[i]])
    BY <1>2, <2>1, <2>2, <2>4 DEF Settled, SessionOK
  <2> QED BY <1>0, <1>1, <1>2, <1>3, <2>5, <2>6, MiddleOK
<1>12. ~LoadExpired(t) /\ ~UnlinkExpired(t) /\ ~UnlinkExpiredFails(t)
  BY <1>0 DEF LoadExpired, UnlinkExpired, UnlinkExpiredFails, NothingOld
<1> QED BY <1>6, <1>7, <1>8, <1>9, <1>10, <1>11, <1>12 DEF Get

\* Saving: the swap puts in the file all the object holds, a failure leaves
\* the session to be marked.
LEMMA OwnSave ==
  ASSUME TypeInv, BornInv, NothingOld, NothingFailed, NEW t \in Threads,
         Save(t) \/ Sweep(t), NEW i \in Ids, i = req[t].id, SessionOK(i),
         \A u \in Threads \ {t} : req[u].id # i
  PROVE  SessionOK(i)'
<1> USE DEF TypeInv, TypeOK, Goto
<1> DEFINE o == req[t].obj
<1>0. /\ AtWork(t) /\ i \in born /\ fails \in Nat /\ req \in [Threads -> Requests]
      /\ pc[t] \in {"sweep", "lock", "dump", "swap", "ok", "discard", "failed", "note"}
      /\ req[t].op \in Kinds \cup {"probe"}
  <2>1. /\ pc[t] \in {"sweep", "purge", "lock", "dump", "swap", "ok", "discard", "failed", "note"}
        /\ pc[t] # "purge"
    BY DEF Save, SaveLock, SaveDump, SaveSwap, SaveFail, SaveOk, SaveDiscard, SaveFailed, SaveNote,
       Sweep, SweepKeep, SweepExpired, SweepUnlink, SweepUnlinkFails, SweepDone, NothingOld
  <2> QED BY <2>1, BoundAssumption DEF SessionOK, BornInv, RequestOK
<1>1. \A u \in Threads \ {t} : req'[u].id # i
  BY OthersKeep DEF Step
<1>2. UNCHANGED <<sessions, heap, born, deleted, acked, failed>>
  BY DEF Save, SaveLock, SaveDump, SaveSwap, SaveFail, SaveOk, SaveDiscard, SaveFailed, SaveNote,
     Sweep, SweepKeep, SweepExpired, SweepUnlink, SweepUnlinkFails, SweepDone
<1>3. sessions[i] \in {NoObj, o} /\ files[i].done \subseteq heap[o]
  BY <1>0 DEF AtWork, AtHand, Dirty
<1>4. ASSUME req'[t].id = i, req'[t].obj = o, req'[t].tok = req[t].tok,
             req'[t].op = req[t].op, files'[i] = files[i], fails' = fails \/ fails' # 0,
             pc'[t] \in Dirty \ {"swap"},
             pc'[t] \in {"sweep", "lock", "dump"} => pc[t] \in {"sweep", "lock", "dump"},
             pc'[t] \in {"sweep", "lock"} => pc[t] = "sweep" /\ unsaved' = unsaved
      PROVE  SessionOK(i)'
  <2>2. pc'[t] \in {"sweep", "lock"} => (SettledBut(t) => SettledBut(t)')
    BY <1>2, <1>4 DEF SettledBut
  <2>1. AtWork(t)'
    BY <1>0, <1>2, <1>3, <1>4, <2>2 DEF AtWork, AtHand, Dirty, InFile
  <2> QED BY <1>0, <1>1, <1>2, <1>4, <2>1, MiddleOK DEF SessionOK
<1>5. ASSUME NEW x, \/ req' = [req EXCEPT ![t].lock = x] \/ req' = [req EXCEPT ![t].sweep = x]
                    \/ req' = [req EXCEPT ![t].snap = x] \/ req' = req
      PROVE  /\ req'[t].id = i /\ req'[t].obj = o /\ req'[t].tok = req[t].tok
             /\ req'[t].op = req[t].op
  <2>1. CASE req' = [req EXCEPT ![t].lock = x]  BY <1>0, <2>1, FieldSame DEF Same
  <2>2. CASE req' = [req EXCEPT ![t].sweep = x]  BY <1>0, <2>2, FieldSame DEF Same
  <2>3. CASE req' = [req EXCEPT ![t].snap = x]  BY <1>0, <2>3, FieldSame DEF Same
  <2> QED BY <1>5, <2>1, <2>2, <2>3
<1>6. CASE SweepKeep(t) \/ SweepDone(t)
  <2>1. /\ \E x : req' = [req EXCEPT ![t].sweep = x] \/ req' = req
        /\ pc[t] = "sweep" /\ pc'[t] \in {"sweep", "lock"} /\ UNCHANGED <<files, fails, unsaved>>
    BY <1>0, <1>6 DEF SweepKeep, SweepDone
  <2>2. req'[t].id = i /\ req'[t].obj = o /\ req'[t].tok = req[t].tok /\ req'[t].op = req[t].op
    BY <1>5, <2>1
  <2> QED BY <1>4, <2>1, <2>2 DEF Dirty
<1>7. CASE SaveLock(t)
  <2>1. /\ \E x : req' = [req EXCEPT ![t].lock = x]
        /\ pc[t] = "lock" /\ pc'[t] = "dump" /\ UNCHANGED <<files, fails>>
    BY <1>7 DEF SaveLock
  <2>2. req'[t].id = i /\ req'[t].obj = o /\ req'[t].tok = req[t].tok /\ req'[t].op = req[t].op
    BY <1>5, <2>1
  <2> QED BY <1>4, <2>1, <2>2 DEF Dirty
<1>8. CASE SaveDump(t)
  <2>1. /\ req' = [req EXCEPT ![t].snap = heap[o]]
        /\ pc[t] = "dump" /\ pc'[t] = "swap" /\ UNCHANGED <<files, fails>>
    BY <1>8 DEF SaveDump
  <2>2. /\ req'[t].id = i /\ req'[t].obj = o /\ req'[t].tok = req[t].tok /\ req'[t].op = req[t].op
        /\ req'[t].snap = heap[o]
    BY <1>0, <1>5, <2>1, FieldSame
  <2>3. AtWork(t)'
    BY <1>0, <1>2, <1>3, <2>1, <2>2 DEF AtWork, AtHand, Dirty, InFile
  <2> QED BY <1>0, <1>1, <1>2, <2>1, <2>2, <2>3, MiddleOK DEF SessionOK, Dirty
<1>9. CASE SaveSwap(t)
  <2>1. /\ req' = [req EXCEPT ![t].snap = {}] /\ files' = [files EXCEPT ![i] = File(req[t].snap)]
        /\ pc[t] = "swap" /\ pc'[t] = "ok" /\ UNCHANGED <<unsaved, fails>>
    BY <1>9 DEF SaveSwap
  <2>2. req'[t].id = i /\ req'[t].obj = o /\ req'[t].tok = req[t].tok /\ req'[t].op = req[t].op
    BY <1>5, <2>1
  <2>3. files'[i].done = heap[o] /\ req[t].tok \in heap[o]
    BY <1>0, <2>1 DEF AtWork, File
  <2>4. AtWork(t)'
    BY <1>0, <1>2, <1>3, <2>1, <2>2, <2>3 DEF AtWork, AtHand, Dirty, InFile
  <2>5. Settled(i)' /\ (sessions'[i] # NoObj => files'[i].done \subseteq heap'[sessions'[i]])
    BY <1>2, <1>3, <2>3 DEF Settled
  <2>6. fails' = 0 /\ i \notin deleted' => acked'[i] \subseteq files'[i].done
    BY <1>2, <1>3, <2>1, <2>3 DEF SessionOK
  <2> QED BY <1>0, <1>1, <1>2, <2>4, <2>5, <2>6, MiddleOK
<1>10. CASE SaveFail(t)
  <2>1. /\ req' = [req EXCEPT ![t].snap = {}] /\ fails' # 0
        /\ pc[t] = "swap" /\ pc'[t] = "failed" /\ UNCHANGED files
    BY <1>0, <1>10 DEF SaveFail
  <2>2. req'[t].id = i /\ req'[t].obj = o /\ req'[t].tok = req[t].tok /\ req'[t].op = req[t].op
    BY <1>5, <2>1
  <2> QED BY <1>4, <2>1, <2>2 DEF Dirty
<1>11. CASE SaveFailed(t)
  <2>1. /\ pc[t] = "failed" /\ pc'[t] = "note" /\ UNCHANGED <<files, fails, req>>
    BY <1>11 DEF SaveFailed
  <2> QED BY <1>4, <2>1 DEF Dirty
<1>12. CASE SaveOk(t)
  <2>1. /\ pc[t] = "ok" /\ pc'[t] = "discard" /\ UNCHANGED <<files, fails, req, unsaved>>
    BY <1>12 DEF SaveOk
  <2>2. AtWork(t)'
    BY <1>0, <1>2, <1>3, <2>1 DEF AtWork, AtHand, Dirty, InFile
  <2>3. Settled(i)' /\ (sessions'[i] # NoObj => files'[i].done \subseteq heap'[sessions'[i]])
    BY <1>2, <2>1 DEF SessionOK, Settled, Dirty
  <2> QED BY <1>0, <1>1, <1>2, <2>1, <2>2, <2>3, MiddleOK DEF SessionOK
<1>13. CASE SaveDiscard(t) \/ SaveNote(t)
  <2>1. /\ pc[t] \in {"discard", "note"} /\ pc'[t] = IF req[t].op = "create" THEN "evict" ELSE "answer"
        /\ UNCHANGED <<files, fails, req>>
    BY <1>13 DEF SaveDiscard, SaveNote, AfterSave
  <2>2. \/ pc[t] = "discard" /\ heap[o] \subseteq files[i].done
        \/ pc[t] = "note" /\ i \in unsaved' /\ fails # 0
    BY <1>0, <1>13 DEF SaveDiscard, SaveNote, AtWork, NothingFailed
  <2>3. AtWork(t)'
    BY <1>0, <1>2, <1>3, <2>1, <2>2 DEF AtWork, AtHand, Dirty, InFile
  <2>4. Settled(i)' /\ (sessions'[i] # NoObj => files'[i].done \subseteq heap'[sessions'[i]])
    BY <1>2, <1>3, <2>1, <2>2 DEF Settled
  <2>5. fails' = 0 /\ i \notin deleted' => acked'[i] \subseteq files'[i].done
    BY <1>2, <2>1 DEF SessionOK
  <2> QED BY <1>0, <1>1, <1>2, <2>3, <2>4, <2>5, MiddleOK
<1>14. ~SweepExpired(t) /\ ~SweepUnlink(t) /\ ~SweepUnlinkFails(t)
  <2>1. req[t].sweep \subseteq Ids
    BY <1>0 DEF Requests
  <2> QED BY <2>1 DEF SweepExpired, SweepUnlink, SweepUnlinkFails, NothingOld
<1> QED BY <1>6, <1>7, <1>8, <1>9, <1>10, <1>11, <1>12, <1>13, <1>14 DEF Save, Sweep

\* Serving: an update is answered as saved when it is in the file.
LEMMA OwnHandle ==
  ASSUME TypeInv, BornInv, NEW t \in Threads, Handle(t), NEW i \in Ids, i = req[t].id,
         SessionOK(i), \A u \in Threads \ {t} : req[u].id # i
  PROVE  SessionOK(i)'
<1> USE DEF TypeInv, TypeOK, Goto
<1> DEFINE o == req[t].obj
<1>0. /\ AtWork(t) /\ i \in born /\ fails \in Nat /\ (pc[t] \notin Dirty \/ RefreshFails(t))
      /\ pc[t] = "apply" => o \in Objs
  <2>1. pc[t] \in {"apply", "answer", "pop", "unlink"} \/ (pc[t] = "lock" /\ RefreshFails(t))
    BY DEF Handle, Apply, Refuse, RefreshFails, Answer, Pop, Unlink, UnlinkFails
  <2> QED BY <2>1, BoundAssumption DEF SessionOK, BornInv, RequestOK, Holding, Dirty
<1>1. \A u \in Threads \ {t} : req'[u].id # i
  BY OthersKeep DEF Step
<1>2. CASE Apply(t)
  <2>1. /\ pc[t] = "apply" /\ pc'[t] = "lock" /\ UNCHANGED <<sessions, files, unsaved, req, history, faults>>
        /\ o \in Objs /\ heap'[o] = heap[o] \cup {req[t].tok}
    BY <1>0, <1>2 DEF Apply
  <2>2. sessions[i] \in {NoObj, o} /\ files[i].done \subseteq heap[o]
    BY <1>0, <2>1 DEF AtWork, AtHand
  <2>6. SettledBut(t)'
    BY <2>1, <2>2 DEF SessionOK, Settled, SettledBut, Dirty
  <2>3. AtWork(t)'
    BY <2>1, <2>2, <2>6 DEF AtWork, AtHand, Dirty, InFile
  <2>4. sessions'[i] # NoObj => files'[i].done \subseteq heap'[sessions'[i]]
    BY <2>1, <2>2
  <2>5. fails' = 0 /\ i \notin deleted' => acked'[i] \subseteq files'[i].done
    BY <2>1 DEF SessionOK
  <2> QED BY <1>0, <1>1, <2>1, <2>3, <2>4, <2>5, MiddleOK DEF Dirty
<1>3. CASE Refuse(t)
  <2>1. /\ Finish(t) /\ UNCHANGED <<sessions, files, unsaved, born, acked, deleted, fails, failed>>
        /\ pc[t] = "apply"
    BY <1>3 DEF Refuse
  <2>2. fails' = 0 /\ i \notin deleted' => acked'[i] \subseteq files'[i].done
    BY <2>1 DEF SessionOK
  <2> QED BY <1>0, <1>1, <2>1, <2>2, EndOK DEF Dirty
<1>4. CASE Answer(t)
  <2>1. /\ pc[t] = "answer" /\ Finish(t) /\ UNCHANGED <<sessions, files, unsaved, born, deleted, fails, failed>>
        /\ acked' = IF lastSaveOk /\ req[t].op \in {"create", "update"}
                    THEN [acked EXCEPT ![i] = @ \cup {req[t].tok}] ELSE acked
    BY <1>4 DEF Answer
  <2>2. fails = 0 /\ req[t].op \in {"create", "update"} => req[t].tok \in files[i].done
    BY <1>0, <2>1 DEF AtWork, InFile
  <2>3. acked'[i] = acked[i] \/ (req[t].op \in {"create", "update"} /\ acked'[i] = acked[i] \cup {req[t].tok})
    BY <2>1
  <2>4. fails' = 0 /\ i \notin deleted' => acked'[i] \subseteq files'[i].done
    BY <2>1, <2>2, <2>3 DEF SessionOK
  <2> QED BY <1>0, <1>1, <2>1, <2>4, EndOK DEF Dirty
<1>5. CASE Pop(t)
  <2>1. /\ pc[t] = "pop" /\ pc'[t] = "unlink" /\ sessions'[i] = NoObj
        /\ UNCHANGED <<files, req, history, faults>>
    BY <1>5 DEF Pop
  <2>2. AtWork(t)'
    BY <2>1 DEF AtWork, AtHand, Dirty, InFile
  <2>3. fails' = 0 /\ i \notin deleted' => acked'[i] \subseteq files'[i].done
    BY <2>1 DEF SessionOK
  <2> QED BY <1>0, <1>1, <2>1, <2>2, <2>3, MiddleOK DEF Settled
<1>6. CASE Unlink(t)
  <2>1. /\ pc[t] = "unlink" /\ Finish(t) /\ UNCHANGED <<sessions, unsaved, born, failed>> /\ i \in deleted'
    BY <1>6 DEF Unlink
  <2>2. sessions[i] = NoObj
    BY <1>0, <2>1 DEF AtWork
  <2> QED BY <1>0, <1>1, <2>1, <2>2, EndOK DEF Dirty
<1>7. CASE UnlinkFails(t)
  <2>1. /\ pc[t] = "unlink" /\ Finish(t) /\ UNCHANGED <<sessions, files, unsaved, born, failed>>
        /\ fails' # 0
    BY <1>0, <1>7 DEF UnlinkFails
  <2> QED BY <1>0, <1>1, <2>1, EndOK DEF Dirty
<1>8. CASE RefreshFails(t)
  <2>1. /\ pc[t] = "lock" /\ req[t].op = "update" /\ Finish(t)
        /\ failed' = failed \cup {req[t].tok}
        /\ UNCHANGED <<sessions, files, unsaved, born, acked, deleted, fails>>
    BY <1>8 DEF RefreshFails
  <2>2. SettledBut(t)
    BY <1>0, <2>1 DEF AtWork
  <2>3. fails' = 0 /\ i \notin deleted' => acked'[i] \subseteq files'[i].done
    BY <2>1 DEF SessionOK
  <2> QED BY <1>0, <1>1, <2>1, <2>2, <2>3, EndOK
<1> QED BY <1>2, <1>3, <1>4, <1>5, <1>6, <1>7, <1>8 DEF Handle

\* A request that arrives finds nobody else on its session, or shares it.
LEMMA OwnAccept ==
  ASSUME TypeInv, BornInv, IdleInv, NEW t \in Threads, Accept(t), NEW i \in Ids,
         i = req'[t].id, i \notin shared', SessionOK(i)
  PROVE  SessionOK(i)'
<1> USE DEF TypeInv, TypeOK, Goto
<1>0. /\ pc[t] = "idle" /\ req[t].id = NoId /\ NoId \notin Ids /\ NoObj \notin Objs
      /\ \A u \in Threads \ {t} : req'[u] = req[u]
  <2>1. pc[t] = "idle"
    BY DEF Accept, Create, Request
  <2> QED BY <2>1, OthersKeep, NoneAssumption DEF IdleInv
<1>1. ASSUME Create(t, i) PROVE SessionOK(i)'
  <2>1. /\ req'[t].obj = FreshObj /\ req'[t].tok = 0 /\ req'[t].op = "create" /\ pc'[t] = "sweep"
        /\ sessions'[i] = FreshObj /\ FreshObj \in Objs /\ heap'[FreshObj] = {0}
        /\ i \notin born /\ i \in born' /\ UNCHANGED <<files, unsaved, acked, deleted, fails, failed>>
    BY <1>1, FreshType DEF Create, NewRequest
  <2>2. \A u \in Threads \ {t} : req'[u].id # i
    BY <1>0, <2>1 DEF BornInv, IdleInv
  <2>3. files[i].done = {}
    BY <2>1 DEF SessionOK
  <2>4. AtWork(t)'
    BY <2>1, <2>3 DEF AtWork, AtHand, Dirty, InFile
  <2>5. sessions'[i] # NoObj => files'[i].done \subseteq heap'[sessions'[i]]
    BY <2>1, <2>3
  <2>6. fails' = 0 /\ i \notin deleted' => acked'[i] \subseteq files'[i].done
    BY <2>1 DEF SessionOK
  <2> QED BY <2>1, <2>2, <2>4, <2>5, <2>6, MiddleOK DEF Dirty
<1>2. ASSUME NEW op \in {"read", "update", "delete"}, Request(t, op, i) PROVE SessionOK(i)'
  <2>1. /\ req'[t].obj = sessions[i] /\ req'[t].op = op /\ pc'[t] = LookedUp(i)
        /\ ~Busy(t, i)
        /\ i \in born' /\ UNCHANGED <<sessions, heap, files, unsaved, acked, deleted, fails, failed>>
    BY <1>2 DEF Request, NewRequest
  <2>2. \A u \in Threads \ {t} : req'[u].id # i
    BY <1>0, <2>1 DEF Busy
  <2>3. \A u \in Threads : req[u].id # i
    BY <1>0, <2>1 DEF Busy
  <2>4. Settled(i) /\ (sessions[i] # NoObj => files[i].done \subseteq heap[sessions[i]])
    BY <2>3 DEF SessionOK
  <2>5. AtWork(t)'
    BY <2>1, <2>4 DEF AtWork, AtHand, Dirty, InFile, LookedUp
  <2>6. Settled(i)' /\ (sessions'[i] # NoObj => files'[i].done \subseteq heap'[sessions'[i]])
    BY <2>1, <2>4 DEF Settled
  <2>7. fails' = 0 /\ i \notin deleted' => acked'[i] \subseteq files'[i].done
    BY <2>1 DEF SessionOK
  <2> QED BY <2>1, <2>2, <2>5, <2>6, <2>7, MiddleOK
<1>3. ASSUME NEW k \in Ids, NEW op, Create(t, k) \/ Request(t, op, k) PROVE k = i
  BY <1>3 DEF Create, Request, NewRequest
<1> QED BY <1>1, <1>2, <1>3 DEF Accept

\* What the steps of a thread do to the history and to the fault counts.
LEMMA Counts ==
  ASSUME TypeInv, NEW t \in Threads, Accept(t) \/ Step(t)
  PROVE  /\ shared \subseteq shared' /\ (Step(t) => shared' = shared)
         /\ ages' = ages /\ fails \in Nat /\ (fails' = fails \/ (fails' # 0 /\ fails' = fails + 1))
<1>0. fails \in Nat
  BY BoundAssumption DEF TypeInv, TypeOK
<1>1. ASSUME Accept(t)
      PROVE  /\ shared \subseteq shared' /\ ages' = ages /\ fails' = fails
             /\ pc[t] = "idle"
  <2>1. ASSUME NEW i \in Ids, Create(t, i)
        PROVE  shared' = shared /\ ages' = ages /\ fails' = fails /\ pc[t] = "idle"
    BY <2>1 DEF Create
  <2>2. ASSUME NEW i \in Ids, NEW op, Request(t, op, i)
        PROVE  shared \subseteq shared' /\ ages' = ages /\ fails' = fails /\ pc[t] = "idle"
    BY <2>2 DEF Request
  <2> QED BY <1>1, <2>1, <2>2 DEF Accept
<1>2. ASSUME Step(t)
      PROVE  /\ shared' = shared /\ ages' = ages /\ (fails' = fails \/ fails' = fails + 1)
             /\ pc[t] # "idle"
  <2>1. CASE Get(t) \/ Evict(t) \/ Sweep(t)
    BY <2>1 DEF Get, LoadNothing, LoadExpired, Load, UnlinkExpired, UnlinkExpiredFails, Install, Touch, Probe, Evict,
       Sweep, SweepKeep, SweepExpired, SweepUnlink, SweepUnlinkFails, SweepDone
  <2>2. CASE Save(t)
    BY <2>2 DEF Save, SaveLock, SaveDump, SaveSwap, SaveFail, SaveOk, SaveDiscard, SaveFailed,
       SaveNote
  <2>3. CASE Handle(t)
    BY <2>3 DEF Handle, Apply, Refuse, RefreshFails, Answer, Pop, Unlink, UnlinkFails
  <2> QED BY <1>2, <2>1, <2>2, <2>3 DEF Step
<1>3. CASE Accept(t)
  BY <1>0, <1>1, <1>2, <1>3
<1>4. CASE Step(t)
  BY <1>0, <1>2, <1>4
<1> QED BY <1>3, <1>4

\* A save that failed is counted before it is noted.
LEMMA FailedStep ==
  ASSUME TypeInv, NothingFailed, NEW t \in Threads, Accept(t) \/ Step(t)
  PROVE  NothingFailed'
<1> USE DEF TypeInv, TypeOK, Goto
<1>1. \A u \in Threads \ {t} : pc'[u] = pc[u]
  BY OthersKeep
<1>2. fails \in Nat /\ (fails' = fails \/ (fails' # 0 /\ fails' = fails + 1))
  BY Counts
<1>3. pc'[t] = "failed" => fails' # 0
  <2>1. CASE Accept(t)
    BY <2>1 DEF Accept, Create, Request, LookedUp
  <2>2. CASE Get(t) \/ Evict(t)
    <3>1. Evict(t) => AfterEvict[req[t].op] # "failed"
      BY DEF Evict, AfterEvict, RequestOK, Kinds
    <3> QED BY <2>2, <3>1 DEF Get, LoadNothing, LoadExpired, Load, UnlinkExpired, UnlinkExpiredFails, Install, Touch, Probe,
        Evict, NotFound, Finish, LookedUp
  <2>3. CASE Save(t)
    BY <1>2, <2>3 DEF Save, SaveLock, SaveDump, SaveSwap, SaveFail, SaveOk, SaveDiscard, SaveFailed,
       SaveNote, AfterSave
  <2>4. CASE Sweep(t) \/ Handle(t)
    BY <2>4 DEF Sweep, SweepKeep, SweepExpired, SweepUnlink, SweepUnlinkFails, SweepDone,
       Handle, Apply, Refuse, RefreshFails, Answer, Pop, Unlink, UnlinkFails, Finish
  <2> QED BY <2>1, <2>2, <2>3, <2>4 DEF Step
<1>4. pc'[t] = "note" => pc[t] = "failed" /\ fails' = fails
  <2>1. CASE Accept(t)
    BY <2>1 DEF Accept, Create, Request, LookedUp
  <2>2. CASE Get(t) \/ Evict(t)
    <3>1. Evict(t) => AfterEvict[req[t].op] # "note"
      BY DEF Evict, AfterEvict, RequestOK, Kinds
    <3> QED BY <2>2, <3>1 DEF Get, LoadNothing, LoadExpired, Load, UnlinkExpired, UnlinkExpiredFails, Install, Touch, Probe,
        Evict, NotFound, Finish, LookedUp
  <2>3. CASE Save(t)
    BY <2>3 DEF Save, SaveLock, SaveDump, SaveSwap, SaveFail, SaveOk, SaveDiscard, SaveFailed,
       SaveNote, AfterSave
  <2>4. CASE Sweep(t) \/ Handle(t)
    BY <2>4 DEF Sweep, SweepKeep, SweepExpired, SweepUnlink, SweepUnlinkFails, SweepDone,
       Handle, Apply, Refuse, RefreshFails, Answer, Pop, Unlink, UnlinkFails, Finish
  <2> QED BY <2>1, <2>2, <2>3, <2>4 DEF Step
<1> QED BY <1>1, <1>2, <1>3, <1>4 DEF NothingFailed

\* No thread makes a file expire.
LEMMA OldStep ==
  ASSUME TypeInv, NothingOld, NEW t \in Threads, Accept(t) \/ Step(t)
  PROVE  NothingOld'
<1> USE DEF TypeInv, TypeOK, Goto
<1>0. /\ pc[t] # "idle" => req[t].id \in Ids
      /\ files \in [Ids -> SavedFiles] /\ req[t].sweep \subseteq Ids
      /\ pc[t] \notin {"expire", "purge"} /\ ~SweepExpired(t) /\ ~LoadExpired(t)
  <2>1. req[t].sweep \subseteq Ids /\ (pc[t] # "idle" => req[t].id \in Ids)
    BY DEF Requests, RequestOK
  <2> QED BY <2>1 DEF NothingOld, SweepExpired, LoadExpired
<1>1. \A u \in Threads \ {t} : pc'[u] = pc[u]
  BY OthersKeep
<1>2. files' = files \/ \E k \in Ids : \E x : files' = [files EXCEPT ![k] = x] /\ ~x.old
  <2>1. \A d : ~File(d).old /\ ~NoFile.old
    BY DEF File, NoFile
  <2>2. CASE Accept(t) \/ Get(t) \/ Evict(t) \/ Sweep(t)
    BY <1>0, <2>2 DEF Accept, Create, Request, Get, LoadNothing, Load, UnlinkExpired, UnlinkExpiredFails,
       Install, Touch, Probe, Evict, Sweep, SweepKeep, SweepUnlink, SweepUnlinkFails, SweepDone
  <2>3. CASE Save(t)
    BY <1>0, <2>1, <2>3 DEF Save, SaveLock, SaveDump, SaveSwap, SaveFail, SaveOk, SaveDiscard,
       SaveFailed, SaveNote
  <2>4. CASE Handle(t)
    BY <1>0, <2>1, <2>4 DEF Handle, Apply, Refuse, RefreshFails, Answer, Pop, Unlink, UnlinkFails
  <2> QED BY <2>2, <2>3, <2>4 DEF Step
<1>3. pc'[t] \notin {"expire", "purge"}
  <2>1. CASE Accept(t)
    BY <2>1 DEF Accept, Create, Request, LookedUp
  <2>2. CASE Get(t) \/ Evict(t)
    <3>1. Evict(t) => AfterEvict[req[t].op] \notin {"expire", "purge"}
      BY DEF Evict, AfterEvict, RequestOK, Kinds
    <3> QED BY <1>0, <2>2, <3>1 DEF Get, LoadNothing, Load, UnlinkExpired, UnlinkExpiredFails, Install, Touch, Probe,
        Evict, NotFound, Finish, LookedUp
  <2>3. CASE Save(t)
    BY <2>3 DEF Save, SaveLock, SaveDump, SaveSwap, SaveFail, SaveOk, SaveDiscard, SaveFailed,
       SaveNote, AfterSave
  <2>4. CASE Sweep(t) \/ Handle(t)
    BY <1>0, <2>4 DEF Sweep, SweepKeep, SweepUnlink, SweepUnlinkFails, SweepDone,
       Handle, Apply, Refuse, RefreshFails, Answer, Pop, Unlink, UnlinkFails, Finish
  <2> QED BY <2>1, <2>2, <2>3, <2>4 DEF Step
<1>4. \A k \in Ids : ~files'[k].old
  BY <1>0, <1>2 DEF NothingOld
<1> QED BY <1>1, <1>3, <1>4 DEF NothingOld

\* The invariant is inductive: a step of a request disturbs its own session
\* only if another request is on it too, and then the session is shared.
LEMMA AloneThread ==
  ASSUME TypeInv, BornInv, IdleInv, CreateOK, AloneInv,
         NEW t \in Threads, Accept(t) \/ Step(t)
  PROVE  AloneInv'
<1>0. ApartInv /\ SharedInv /\ NothingFailed /\ NoId \notin Ids
  BY NoneAssumption DEF AloneInv
<1>1. ApartInv' /\ NothingFailed'
  BY <1>0, ApartStep, FailedStep
<1>2. /\ \A u \in Threads \ {t} : req'[u] = req[u]
      /\ shared \subseteq shared' /\ (Step(t) => shared' = shared)
      /\ ages' = ages /\ (fails' = 0 => fails = 0)
  BY OthersKeep, Counts
<1>3. Step(t) => req[t].id \in Ids /\ req'[t].id \in {req[t].id, NoId}
  BY OwnMoves
<1>4. Accept(t) => pc[t] = "idle" /\ req[t].id = NoId
  <2>1. Accept(t) => pc[t] = "idle"
    BY DEF Accept, Create, Request
  <2> QED BY <2>1 DEF IdleInv
<1>5. SharedInv'
  <2>1. ASSUME NEW u \in Threads \ {t}, req[u].id = req'[t].id, req'[t].id # NoId
        PROVE  req'[t].id \in shared'
    <3>1. CASE Step(t)
      BY <1>0, <1>2, <1>3, <2>1, <3>1 DEF SharedInv
    <3>2. ASSUME NEW k \in Ids, Create(t, k) PROVE FALSE
      <4>1. req'[t].id = k /\ k \notin born
        BY <3>2 DEF Create, NewRequest, TypeInv, TypeOK
      <4> QED BY <1>0, <2>1, <4>1 DEF BornInv, IdleInv
    <3>3. ASSUME NEW k \in Ids, NEW op, Request(t, op, k) PROVE req'[t].id \in shared'
      <4>1. req'[t].id = k /\ (Busy(t, k) => k \in shared')
        BY <3>3 DEF Request, NewRequest, TypeInv, TypeOK
      <4> QED BY <2>1, <4>1 DEF Busy
    <3> QED BY <3>1, <3>2, <3>3 DEF Accept
  <2> QED BY <1>0, <1>2, <2>1 DEF SharedInv
<1>6. ASSUME ages' = 0 PROVE NothingOld' /\ \A i \in Ids \ shared' : SessionOK(i)'
  <2>1. NothingOld /\ \A i \in Ids \ shared : SessionOK(i)
    BY <1>2, <1>6 DEF AloneInv
  <2>2. ASSUME NEW i \in Ids \ shared' PROVE SessionOK(i)'
    <3>1. SessionOK(i)
      BY <1>2, <2>1
    <3>2. CASE i # req[t].id /\ i # req'[t].id
      BY <1>0, <1>2, <2>1, <3>1, <3>2, ElseOK
    <3>3. CASE Accept(t) /\ i = req'[t].id
      BY <3>1, <3>3, OwnAccept
    <3>4. CASE Step(t) /\ i = req[t].id
      <4>1. \A u \in Threads \ {t} : req[u].id # i
        BY <1>0, <1>2, <3>4 DEF SharedInv
      <4> QED BY <1>0, <2>1, <3>1, <3>4, <4>1, OwnGet, OwnSave, OwnHandle DEF Step
    <3> QED BY <1>0, <1>3, <1>4, <3>2, <3>3, <3>4
  <2> QED BY <2>1, <2>2, OldStep
<1> QED BY <1>1, <1>5, <1>6 DEF AloneInv

\* What the invariant rests on.
AloneBase == TypeInv /\ BornInv /\ DeleteInv /\ CreateOK /\ AloneInv

\* At first no session has an object, a request or a file.
LEMMA AloneInit == Init => AloneBase
<1> SUFFICES ASSUME Init PROVE AloneBase
  OBVIOUS
<1>1. TypeInv /\ BornInv /\ DeleteInv
  BY InitType, DeleteInit DEF Init, BornInv
<1>2. /\ \A t \in Threads : pc[t] = "idle" /\ req[t].op = "none" /\ req[t].id = NoId /\ req[t].obj = NoObj
      /\ \A i \in Ids : sessions[i] = NoObj /\ files[i] = NoFile /\ acked[i] = {}
  BY DEF Init, NoRequest, NewRequest
<1>3. CreateOK
  BY <1>2 DEF CreateOK
<1>4. ApartInv /\ SharedInv /\ NothingFailed /\ NothingOld
  BY <1>2 DEF ApartInv, SharedInv, NothingFailed, NothingOld, NoFile
<1>5. \A i \in Ids : SessionOK(i)
  BY <1>2, NoneAssumption DEF SessionOK, Settled, NoFile
<1> QED BY <1>1, <1>3, <1>4, <1>5 DEF AloneBase, AloneInv

\* Every step keeps it: a restart leaves the files, and once a file has expired
\* nothing more is claimed of the sessions.
LEMMA AloneNext == AloneBase /\ [Next]_vars => AloneBase'
<1> SUFFICES ASSUME AloneBase, [Next]_vars PROVE AloneBase'
  OBVIOUS
<1> USE DEF AloneBase
<1>1. TypeInv' /\ BornInv' /\ DeleteInv'
  BY TypeStep, BornStep, DeleteNext
<1>2. CASE \E t \in Threads : Accept(t) \/ Step(t)
  <2>1. PICK t \in Threads : Accept(t) \/ Step(t)
    BY <1>2
  <2>2. IdleInv
    BY DEF DeleteInv
  <2> QED BY <1>1, <2>1, <2>2, CreateStep, AloneThread
<1>3. ASSUME NEW k \in Ids, Age(k) PROVE AloneBase'
  <2>1. /\ UNCHANGED <<table, pc, req, history, fails>> /\ ages' # 0
    BY <1>3, BoundAssumption DEF Age, TypeInv, TypeOK
  <2> QED BY <1>1, <2>1 DEF AloneInv, CreateOK, ApartInv, SharedInv, NothingFailed
<1>4. CASE Crash
  <2>1. /\ \A t \in Threads : /\ pc'[t] = "idle" /\ req'[t].op = "none"
                              /\ req'[t].id = NoId /\ req'[t].obj = NoObj
        /\ \A i \in Ids : sessions'[i] = NoObj
        /\ UNCHANGED <<files, history, fails, ages>>
    BY <1>4 DEF Crash, NoRequest, NewRequest
  <2>2. CreateOK' /\ ApartInv' /\ SharedInv' /\ NothingFailed'
    BY <2>1 DEF CreateOK, ApartInv, SharedInv, NothingFailed
  <2>3. NothingOld => NothingOld'
    BY <2>1 DEF NothingOld
  <2>4. ASSUME NEW i \in Ids, SessionOK(i) PROVE SessionOK(i)'
    BY <2>1, <2>4, NoneAssumption DEF SessionOK, Settled
  <2> QED BY <1>1, <2>1, <2>2, <2>3, <2>4 DEF AloneInv
<1>5. CASE UNCHANGED vars
  BY <1>1, <1>5 DEF vars, AloneInv, CreateOK, ApartInv, SharedInv, NothingFailed, NothingOld,
     SessionOK, Settled, SettledBut, AtWork, InFile
<1> QED BY <1>2, <1>3, <1>4, <1>5 DEF Next

\* While no file expires, no eviction, restart or request about other sessions
\* loses sight of the unsaved progress of a session whose own requests never
\* overlap: it takes two requests on one session at once.
THEOREM AloneSafe == Spec => []AloneTracked
<1>1. AloneBase => AloneTracked
  BY NoneAssumption DEF AloneBase, AloneInv, AloneTracked, SessionOK, Settled, InTable
<1> QED BY <1>1, AloneInit, AloneNext, PTL DEF Spec

\* And on a disk that works the file of such a session keeps every change that
\* was answered as saved, until it is deleted.
THEOREM AloneDurable == Spec => []AloneKept
<1>1. AloneBase => AloneKept
  BY DEF AloneBase, AloneInv, AloneKept, SessionOK
<1> QED BY <1>1, AloneInit, AloneNext, PTL DEF Spec

=============================================================================
