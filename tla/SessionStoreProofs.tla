------------------------- MODULE SessionStoreProofs -------------------------
(***************************************************************************)
(* Theorems about SessionStore for every number of threads, sessions and   *)
(* updates and every bound on faults.                                      *)
(***************************************************************************)
EXTENDS SessionStore, FiniteSetTheorems, TLAPS

-----------------------------------------------------------------------------
(* Type correctness.  TypeOK is inductive only with what each step knows of *)
(* its request: which session it is about and that it holds an object.     *)

\* The steps a thread takes while it holds a session object.
Holding == {"install", "touch", "evict", "apply", "sweep", "purge", "lock",
            "dump", "swap", "ok", "discard", "failed", "note"}

\* A request under way names a session, and holds an object where it needs one.
RequestOK ==
  \A t \in Threads : pc[t] # "idle" =>
    /\ req[t].id \in Ids
    /\ req[t].op \in Kinds \cup {"probe"}
    /\ pc[t] \in Holding => req[t].obj \in Objs

TypeInv == TypeOK /\ RequestOK

\* The heap after collection is well typed.
LEMMA CollectedType ==
  ASSUME heap \in [Objs -> SUBSET Updates], NEW s, NEW r
  PROVE  Collected(s, r) \in [Objs -> SUBSET Updates]
BY DEF Collected

\* A fresh address is the address of no object in use.
LEMMA FreshType == Free # {} => FreshObj \in Free /\ FreshObj \in Objs
BY DEF FreshObj, Free

\* A fresh address is not the object of any request.
LEMMA FreshUnused ==
  ASSUME TypeInv, Free # {}, NEW u \in Threads
  PROVE  FreshObj # req[u].obj
BY FreshType DEF Free, Live

\* Collection leaves the objects in use as they are.
LEMMA CollectedLive ==
  ASSUME NEW s, NEW r, NEW o \in Objs, o \in Live(s, r)
  PROVE  Collected(s, r)[o] = heap[o]
BY DEF Collected

\* A request record is well typed when its parts are.
LEMMA NewRequestType ==
  ASSUME NEW op \in Kinds \cup {"probe", "none"}, NEW i \in Ids \cup {NoId},
         NEW obj \in Objs \cup {NoObj}, NEW tok \in Updates, NEW sweep \in SUBSET Ids
  PROVE  NewRequest(op, i, obj, tok, sweep) \in Requests
BY DEF NewRequest, Requests

\* Changing one field of one request keeps the records typed.
LEMMA FieldType ==
  ASSUME req \in [Threads -> Requests], NEW t \in Threads
  PROVE  /\ \A x \in Kinds \cup {"probe"} : [req EXCEPT ![t].op = x] \in [Threads -> Requests]
         /\ \A x \in Objs \cup {NoObj} : [req EXCEPT ![t].obj = x] \in [Threads -> Requests]
         /\ \A x \in SUBSET Updates : [req EXCEPT ![t].snap = x] \in [Threads -> Requests]
         /\ \A x \in Nat : [req EXCEPT ![t].lock = x] \in [Threads -> Requests]
         /\ \A x \in SUBSET Ids : [req EXCEPT ![t].sweep = x] \in [Threads -> Requests]
         /\ \A x \in Ids : [req EXCEPT ![t].victim = x] \in [Threads -> Requests]
BY DEF Requests

\* The fields of a request that no step but op's or obj's own changes.
Same(r, s) == r.op = s.op /\ r.id = s.id /\ r.obj = s.obj /\ r.tok = s.tok

\* What changing one field of the request of t makes of the request of u.
LEMMA FieldSame ==
  ASSUME req \in [Threads -> Requests], NEW t \in Threads, NEW u \in Threads, NEW x
  PROVE  /\ LET r == [req EXCEPT ![t].snap = x][u]
            IN  /\ Same(r, req[u]) /\ r.lock = req[u].lock
                /\ r.snap = IF u = t THEN x ELSE req[u].snap
         /\ LET r == [req EXCEPT ![t].lock = x][u]
            IN  /\ Same(r, req[u]) /\ r.snap = req[u].snap
                /\ r.lock = IF u = t THEN x ELSE req[u].lock
         /\ LET r == [req EXCEPT ![t].sweep = x][u]
            IN  Same(r, req[u]) /\ r.lock = req[u].lock /\ r.snap = req[u].snap
         /\ LET r == [req EXCEPT ![t].victim = x][u]
            IN  Same(r, req[u]) /\ r.lock = req[u].lock /\ r.snap = req[u].snap
         /\ LET r == [req EXCEPT ![t].obj = x][u]
            IN  /\ r.op = req[u].op /\ r.id = req[u].id /\ r.tok = req[u].tok
                /\ r.lock = req[u].lock /\ r.snap = req[u].snap
                /\ r.obj = IF u = t THEN x ELSE req[u].obj
         /\ LET r == [req EXCEPT ![t].op = x][u]
            IN  /\ r.id = req[u].id /\ r.obj = req[u].obj /\ r.tok = req[u].tok
                /\ r.lock = req[u].lock /\ r.snap = req[u].snap
                /\ r.op = IF u = t THEN x ELSE req[u].op
<1>1. \A r \in Requests :
        /\ LET s == [r EXCEPT !.snap = x] IN Same(s, r) /\ s.lock = r.lock /\ s.snap = x
        /\ LET s == [r EXCEPT !.lock = x] IN Same(s, r) /\ s.snap = r.snap /\ s.lock = x
        /\ LET s == [r EXCEPT !.sweep = x] IN Same(s, r) /\ s.lock = r.lock /\ s.snap = r.snap
        /\ LET s == [r EXCEPT !.victim = x] IN Same(s, r) /\ s.lock = r.lock /\ s.snap = r.snap
        /\ LET s == [r EXCEPT !.obj = x]
           IN  /\ s.op = r.op /\ s.id = r.id /\ s.tok = r.tok
               /\ s.lock = r.lock /\ s.snap = r.snap /\ s.obj = x
        /\ LET s == [r EXCEPT !.op = x]
           IN  /\ s.id = r.id /\ s.obj = r.obj /\ s.tok = r.tok
               /\ s.lock = r.lock /\ s.snap = r.snap /\ s.op = x
  BY DEF Requests, Same
<1> QED BY <1>1 DEF Same

\* The end of a request keeps the types.
LEMMA FinishType ==
  ASSUME TypeInv, NEW t \in Threads, Finish(t)
  PROVE  /\ heap' \in [Objs -> SUBSET Updates]
         /\ pc' \in [Threads -> Labels]
         /\ req' \in [Threads -> Requests]
         /\ RequestOK'
<1>1. heap' \in [Objs -> SUBSET Updates]
  BY CollectedType DEF Finish, TypeInv, TypeOK
<1>2. NoRequest \in Requests
  BY NewRequestType, BoundAssumption DEF NoRequest, Updates
<1> QED BY <1>1, <1>2 DEF Finish, Goto, TypeInv, TypeOK, RequestOK, Labels

\* Stamping an id keeps the recency bookkeeping typed.
LEMMA UseType ==
  ASSUME TypeInv, NEW i \in Ids, Use(i)
  PROVE  lastUsed' \in SUBSET Ids /\ older' \in SUBSET (Ids \X Ids)
BY DEF Use, TypeInv, TypeOK

\* Forgetting ids keeps it typed too.
LEMMA ForgetType ==
  ASSUME TypeInv, NEW S, Forget(S)
  PROVE  lastUsed' \in SUBSET Ids /\ older' \in SUBSET (Ids \X Ids)
BY DEF Forget, TypeInv, TypeOK

\* The initial state is well typed.
LEMMA InitType == Init => TypeInv
BY BoundAssumption DEF Init, TypeInv, TypeOK, RequestOK, Labels, NoFile, SavedFiles,
   NoRequest, NewRequest, Requests, Updates

USE DEF table, marks, locks, recency, history, faults

\* Every step of a client's arrival keeps the types.
LEMMA AcceptType ==
  ASSUME TypeInv, NEW t \in Threads, Accept(t)
  PROVE  TypeInv'
<1>1. ASSUME NEW i \in Ids, Create(t, i) PROVE TypeInv'
  <2>1. FreshObj \in Objs
    BY <1>1, FreshType DEF Create
  <2>2. PICK sweep \in {Saved, {}} :
          req' = [req EXCEPT ![t] = NewRequest("create", i, FreshObj, 0, sweep)]
    BY <1>1 DEF Create
  <2>3. sweep \in SUBSET Ids
    BY <2>2 DEF Saved
  <2>4. /\ lastUsed' \in SUBSET Ids /\ older' \in SUBSET (Ids \X Ids)
    BY <1>1, UseType DEF Create
  <2>5. NewRequest("create", i, FreshObj, 0, sweep) \in Requests
    BY <2>1, <2>3, NewRequestType, BoundAssumption DEF Kinds, Updates
  <2>6. req' \in [Threads -> Requests]
    BY <2>2, <2>5 DEF TypeInv, TypeOK
  <2>7. heap' \in [Objs -> SUBSET Updates]
    BY <1>1, <2>1, BoundAssumption DEF Create, TypeInv, TypeOK, Updates
  <2>8. RequestOK'
    BY <1>1, <2>1, <2>2 DEF Create, Goto, TypeInv, TypeOK, RequestOK, NewRequest, Kinds, Holding
  <2> QED
    BY <1>1, <2>1, <2>4, <2>6, <2>7, <2>8 DEF Create, Goto, TypeInv, TypeOK, Labels
<1>2. ASSUME NEW i \in Ids, NEW op \in {"read", "update", "delete"}, Request(t, op, i)
      PROVE  TypeInv'
  <2>1. issued' \in Updates /\ (op = "update" => issued + 1 \in Updates)
    BY <1>2, BoundAssumption DEF Request, TypeInv, TypeOK, Updates
  <2>2. NewRequest(op, i, sessions[i], IF op = "update" THEN issued + 1 ELSE 0, {}) \in Requests
    <3>1. (IF op = "update" THEN issued + 1 ELSE 0) \in Updates
      BY <2>1, BoundAssumption DEF Updates
    <3>2. op \in Kinds /\ sessions[i] \in Objs \cup {NoObj}
      BY DEF Kinds, TypeInv, TypeOK
    <3> QED BY <3>1, <3>2, NewRequestType
  <2>3. req' \in [Threads -> Requests]
    BY <1>2, <2>2 DEF Request, TypeInv, TypeOK
  <2>4. RequestOK'
    BY <1>2 DEF Request, Goto, LookedUp, TypeInv, TypeOK, RequestOK, NewRequest, Kinds, Holding
  <2> QED
    BY <1>2, <2>1, <2>3, <2>4 DEF Request, Goto, LookedUp, TypeInv, TypeOK, Labels
<1> QED BY <1>1, <1>2 DEF Accept

\* Every step of get() keeps the types.
LEMMA GetType ==
  ASSUME TypeInv, NEW t \in Threads, Get(t)
  PROVE  TypeInv'
<1>1. ASSUME NotFound(t), pc[t] # "idle"
      PROVE  /\ heap' \in [Objs -> SUBSET Updates]
             /\ pc' \in [Threads -> Labels]
             /\ req' \in [Threads -> Requests]
             /\ RequestOK'
  <2>1. CASE Finish(t)
    BY <2>1, FinishType
  <2>2. CASE Goto(t, "pop") /\ UNCHANGED <<req, heap>>
    BY <2>2, <1>1 DEF Goto, TypeInv, TypeOK, RequestOK, Labels, Holding
  <2>3. CASE /\ Goto(t, "probe")
             /\ req' = [req EXCEPT ![t].op = "probe"]
             /\ UNCHANGED heap
    <3>1. req' \in [Threads -> Requests]
      BY <2>3, FieldType DEF TypeInv, TypeOK
    <3>2. RequestOK'
      BY <2>3, <1>1, FieldSame DEF Goto, TypeInv, TypeOK, RequestOK, Holding
    <3> QED BY <2>3, <3>1, <3>2 DEF Goto, TypeInv, TypeOK, Labels
  <2> QED BY <1>1, <2>1, <2>2, <2>3 DEF NotFound
<1>2. CASE LoadNothing(t)
  BY <1>1, <1>2 DEF LoadNothing, TypeInv, TypeOK
<1>3. CASE LoadExpired(t)
  BY <1>3 DEF LoadExpired, Goto, TypeInv, TypeOK, RequestOK, Labels, Holding
<1>4. CASE Load(t)
  <2>1. FreshObj \in Objs
    BY <1>4, FreshType DEF Load
  <2>2. req' \in [Threads -> Requests]
    BY <1>4, <2>1, FieldType DEF Load, TypeInv, TypeOK
  <2>3. RequestOK'
    BY <1>4, <2>1, FieldSame DEF Load, Goto, TypeInv, TypeOK, RequestOK
  <2>4. files[req[t].id].done \in SUBSET Updates
    BY <1>4 DEF Load, TypeInv, TypeOK, RequestOK, SavedFiles
  <2> QED BY <1>4, <2>1, <2>2, <2>3, <2>4 DEF Load, Goto, TypeInv, TypeOK, Labels
<1>5. CASE UnlinkExpired(t)
  BY <1>1, <1>5 DEF UnlinkExpired, TypeInv, TypeOK, NoFile, SavedFiles
<1>6. CASE Install(t)
  <2>1. Kept(t) \in Objs
    BY <1>6 DEF Install, Kept, TypeInv, TypeOK, RequestOK, Holding
  <2>2. heap' \in [Objs -> SUBSET Updates]
    BY <1>6, CollectedType DEF Install, TypeInv, TypeOK
  <2>3. req' \in [Threads -> Requests]
    BY <1>6, <2>1, FieldType DEF Install, TypeInv, TypeOK
  <2>4. RequestOK'
    BY <1>6, <2>1, FieldSame DEF Install, Goto, TypeInv, TypeOK, RequestOK
  <2> QED
    BY <1>6, <2>1, <2>2, <2>3, <2>4 DEF Install, Goto, TypeInv, TypeOK, Labels
<1>7. CASE Touch(t)
  <2>1. req[t].id \in Ids
    BY <1>7 DEF Touch, TypeInv, RequestOK
  <2>2. lastUsed' \in SUBSET Ids /\ older' \in SUBSET (Ids \X Ids)
    BY <1>7, <2>1, UseType DEF Touch
  <2> QED
    BY <1>7, <2>2 DEF Touch, Goto, TypeInv, TypeOK, RequestOK, Labels, Holding
<1>8. CASE Probe(t)
  <2>1. CASE Finish(t)
    BY <1>8, <2>1, FinishType DEF Probe, TypeInv, TypeOK
  <2>2. CASE ~Finish(t)
    <3>1. /\ req' = [req EXCEPT ![t].obj = sessions[req[t].id]]
          /\ Goto(t, LookedUp(req[t].id))
          /\ pc[t] = "probe" /\ req[t].id \in Ids
          /\ UNCHANGED heap
      BY <1>8, <2>2 DEF Probe, TypeInv, RequestOK
    <3>2. req' \in [Threads -> Requests]
      BY <3>1, FieldType DEF TypeInv, TypeOK
    <3>3. LookedUp(req[t].id) \in Holding => sessions[req[t].id] \in Objs
      BY <3>1 DEF LookedUp, Holding, TypeInv, TypeOK
    <3>4. RequestOK'
      BY <3>1, <3>3, FieldSame DEF Goto, TypeInv, TypeOK, RequestOK
    <3> QED
      BY <1>8, <3>1, <3>2, <3>4 DEF Probe, Goto, LookedUp, TypeInv, TypeOK, Labels
  <2> QED BY <2>1, <2>2
<1>9. CASE UnlinkExpiredFails(t)
  <2>1. fails' \in 0..MaxFail
    BY <1>9, BoundAssumption DEF UnlinkExpiredFails, TypeInv, TypeOK
  <2> QED BY <1>9, <2>1, FinishType DEF UnlinkExpiredFails, TypeInv, TypeOK
<1> QED BY <1>2, <1>3, <1>4, <1>5, <1>6, <1>7, <1>8, <1>9 DEF Get

\* Eviction keeps the types.
LEMMA EvictType ==
  ASSUME TypeInv, NEW t \in Threads, Evict(t)
  PROVE  TypeInv'
<1>1. PICK V \in Victims : Drop(V)
  BY DEF Evict
<1>2. lastUsed' \in SUBSET Ids /\ older' \in SUBSET (Ids \X Ids)
  BY <1>1, ForgetType DEF Drop
<1>3. sessions' \in [Ids -> Objs \cup {NoObj}]
  BY <1>1 DEF Drop, TypeInv, TypeOK
<1>4. heap' \in [Objs -> SUBSET Updates]
  BY CollectedType DEF Evict, TypeInv, TypeOK
<1>5. AfterEvict[req[t].op] \in {"answer", "apply", "pop"}
  BY DEF Evict, AfterEvict, TypeInv, RequestOK, Kinds
<1>6. AfterEvict[req[t].op] \in Holding => req[t].obj \in Objs
  BY DEF Evict, TypeInv, RequestOK, Holding
<1> QED
  BY <1>2, <1>3, <1>4, <1>5, <1>6 DEF Evict, Goto, TypeInv, TypeOK, RequestOK, Labels

\* Every step of save() keeps the types.
LEMMA SaveType ==
  ASSUME TypeInv, NEW t \in Threads, Save(t)
  PROVE  TypeInv'
<1>1. CASE SaveLock(t)
  <2>1. req[t].id \in Ids /\ lockGen[req[t].id] \in Nat
    BY <1>1 DEF SaveLock, TypeInv, TypeOK, RequestOK
  <2>2. req' \in [Threads -> Requests]
    BY <1>1, <2>1, FieldType DEF SaveLock, TypeInv, TypeOK
  <2>3. RequestOK'
    BY <1>1, FieldSame DEF SaveLock, Goto, TypeInv, TypeOK, RequestOK, Holding, Same
  <2> QED BY <1>1, <2>1, <2>2, <2>3 DEF SaveLock, Goto, TypeInv, TypeOK, Labels
<1>2. LockOf(t) \in Ids \X Nat \/ pc[t] = "idle"
  BY DEF LockOf, TypeInv, TypeOK, RequestOK, Requests
<1>3. CASE SaveDump(t)
  <2>1. heap[req[t].obj] \in SUBSET Updates
    BY <1>3 DEF SaveDump, TypeInv, TypeOK, RequestOK, Holding
  <2>2. req' \in [Threads -> Requests]
    BY <1>3, <2>1, FieldType DEF SaveDump, TypeInv, TypeOK
  <2>3. RequestOK'
    BY <1>3, FieldSame DEF SaveDump, Goto, TypeInv, TypeOK, RequestOK, Holding, Same
  <2> QED BY <1>2, <1>3, <2>2, <2>3 DEF SaveDump, Goto, TypeInv, TypeOK, Labels
<1>4. ASSUME pc[t] = "swap", req' = [req EXCEPT ![t].snap = {}],
             Goto(t, "ok") \/ Goto(t, "failed")
      PROVE  req' \in [Threads -> Requests] /\ pc' \in [Threads -> Labels] /\ RequestOK'
  <2>1. req' \in [Threads -> Requests]
    BY <1>4, FieldType DEF TypeInv, TypeOK
  <2>2. RequestOK'
    BY <1>4, FieldSame DEF Goto, TypeInv, TypeOK, RequestOK, Holding, Same
  <2> QED BY <1>4, <2>1, <2>2 DEF Goto, TypeInv, TypeOK, Labels
<1>5. CASE SaveSwap(t)
  <2>1. File(req[t].snap) \in SavedFiles
    BY DEF File, SavedFiles, TypeInv, TypeOK, Requests
  <2> QED BY <1>4, <1>5, <2>1 DEF SaveSwap, TypeInv, TypeOK
<1>6. CASE SaveFail(t)
  <2>1. fails' \in 0..MaxFail
    <3>1. fails \in 0..MaxFail /\ fails < MaxFail /\ fails' = fails + 1
      BY <1>6 DEF SaveFail, TypeInv, TypeOK
    <3> QED BY <3>1, BoundAssumption
  <2> QED BY <1>4, <1>6, <2>1 DEF SaveFail, TypeInv, TypeOK
<1>7. CASE SaveOk(t) \/ SaveFailed(t)
  BY <1>7 DEF SaveOk, SaveFailed, Goto, TypeInv, TypeOK, RequestOK, Labels, Holding
<1>8. CASE SaveDiscard(t) \/ SaveNote(t)
  BY <1>8 DEF SaveDiscard, SaveNote, AfterSave, Goto, TypeInv, TypeOK, RequestOK, Labels, Holding
<1> QED BY <1>1, <1>3, <1>5, <1>6, <1>7, <1>8 DEF Save

\* Every step of the sweep in create() keeps the types.
LEMMA SweepType ==
  ASSUME TypeInv, NEW t \in Threads, Sweep(t)
  PROVE  TypeInv'
<1>1. \A i \in Ids \cup {NoId} : req[t].sweep \ {i} \in SUBSET Ids
  BY DEF TypeInv, TypeOK, Requests
<1>2. CASE SweepKeep(t)
  <2>1. PICK i \in req[t].sweep : req' = [req EXCEPT ![t].sweep = @ \ {i}]
    BY <1>2 DEF SweepKeep
  <2>2. req[t].sweep \ {i} \in SUBSET Ids
    BY <1>1 DEF TypeInv, TypeOK, Requests
  <2>3. req' \in [Threads -> Requests]
    BY <2>1, <2>2, FieldType DEF TypeInv, TypeOK
  <2>4. RequestOK'
    BY <1>2, <2>1, FieldSame DEF SweepKeep, TypeInv, TypeOK, RequestOK, Same
  <2> QED BY <1>2, <2>3, <2>4 DEF SweepKeep, TypeInv, TypeOK
<1>3. CASE SweepExpired(t)
  <2>1. PICK i \in req[t].sweep : req' = [req EXCEPT ![t].victim = i]
    BY <1>3 DEF SweepExpired
  <2>2. i \in Ids
    BY DEF TypeInv, TypeOK, Requests
  <2>3. req' \in [Threads -> Requests]
    BY <2>1, <2>2, FieldType DEF TypeInv, TypeOK
  <2>4. RequestOK'
    BY <1>3, <2>1, FieldSame DEF SweepExpired, Goto, TypeInv, TypeOK, RequestOK, Holding, Same
  <2> QED BY <1>3, <2>3, <2>4 DEF SweepExpired, Goto, TypeInv, TypeOK, Labels
<1>4. CASE SweepUnlink(t)
  <2>1. req[t].sweep \ {req[t].victim} \in SUBSET Ids
    BY DEF TypeInv, TypeOK, Requests
  <2>2. req' \in [Threads -> Requests]
    BY <1>4, <2>1, FieldType DEF SweepUnlink, TypeInv, TypeOK
  <2>3. RequestOK'
    BY <1>4, FieldSame DEF SweepUnlink, Goto, TypeInv, TypeOK, RequestOK, Holding, Same
  <2> QED BY <1>4, <2>2, <2>3 DEF SweepUnlink, Goto, NoFile, SavedFiles, TypeInv, TypeOK, Labels
<1>5. CASE SweepDone(t)
  BY <1>5 DEF SweepDone, Goto, TypeInv, TypeOK, RequestOK, Labels, Holding
<1>6. CASE SweepUnlinkFails(t)
  <2>1. req[t].sweep \ {req[t].victim} \in SUBSET Ids
    BY DEF TypeInv, TypeOK, Requests
  <2>2. req' \in [Threads -> Requests]
    BY <1>6, <2>1, FieldType DEF SweepUnlinkFails, TypeInv, TypeOK
  <2>3. RequestOK'
    BY <1>6, FieldSame DEF SweepUnlinkFails, Goto, TypeInv, TypeOK, RequestOK, Holding, Same
  <2>4. fails' \in 0..MaxFail
    BY <1>6, BoundAssumption DEF SweepUnlinkFails, TypeInv, TypeOK
  <2> QED BY <1>6, <2>2, <2>3, <2>4 DEF SweepUnlinkFails, Goto, TypeInv, TypeOK, Labels
<1> QED BY <1>2, <1>3, <1>4, <1>5, <1>6 DEF Sweep

\* Every step of a handler keeps the types.
LEMMA HandleType ==
  ASSUME TypeInv, NEW t \in Threads, Handle(t)
  PROVE  TypeInv'
<1>1. ASSUME pc[t] # "idle"
      PROVE  req[t].id \in Ids /\ req[t].tok \in Updates
  BY <1>1 DEF TypeInv, TypeOK, RequestOK, Requests
<1>2. CASE Apply(t)
  <2>1. heap' \in [Objs -> SUBSET Updates]
    BY <1>1, <1>2 DEF Apply, TypeInv, TypeOK
  <2> QED BY <1>2, <2>1 DEF Apply, Goto, TypeInv, TypeOK, RequestOK, Labels, Holding
<1>3. CASE Refuse(t)
  BY <1>3, FinishType DEF Refuse, TypeInv, TypeOK
<1>4. CASE Answer(t)
  <2>1. acked' \in [Ids -> SUBSET Updates]
    BY <1>1, <1>4 DEF Answer, TypeInv, TypeOK
  <2> QED BY <1>4, <2>1, FinishType DEF Answer, TypeInv, TypeOK
<1>5. CASE Pop(t)
  <2>1. lastUsed' \in SUBSET Ids /\ older' \in SUBSET (Ids \X Ids)
    BY <1>5, ForgetType DEF Pop
  <2>2. heap' \in [Objs -> SUBSET Updates]
    BY <1>5, CollectedType DEF Pop, TypeInv, TypeOK
  <2>3. lockGen' \in [Ids -> Nat]
    <3>1. lockGen[req[t].id] \in Nat
      BY <1>1, <1>5 DEF Pop, TypeInv, TypeOK
    <3> DEFINE n == IF req[t].id \in saveLocks THEN lockGen[req[t].id] + 1
                     ELSE lockGen[req[t].id]
    <3>2. lockGen' = [lockGen EXCEPT ![req[t].id] = n]
      BY <1>5 DEF Pop
    <3>3. n \in Nat
      BY <3>1
    <3> QED BY <3>2, <3>3 DEF TypeInv, TypeOK
  <2> QED BY <1>5, <2>1, <2>2, <2>3 DEF Pop, Goto, TypeInv, TypeOK, RequestOK, Labels, Holding
<1>6. CASE Unlink(t)
  BY <1>1, <1>6, FinishType DEF Unlink, NoFile, SavedFiles, TypeInv, TypeOK
<1>7. CASE UnlinkFails(t)
  <2>1. fails' \in 0..MaxFail
    BY <1>7, BoundAssumption DEF UnlinkFails, TypeInv, TypeOK
  <2> QED BY <1>7, <2>1, FinishType DEF UnlinkFails, TypeInv, TypeOK
<1>8. CASE RefreshFails(t)
  BY <1>1, <1>8, FinishType DEF RefreshFails, TypeInv, TypeOK
<1> QED BY <1>2, <1>3, <1>4, <1>5, <1>6, <1>7, <1>8 DEF Handle

\* Every step of the system keeps the types.
LEMMA TypeStep == TypeInv /\ [Next]_vars => TypeInv'
<1> SUFFICES ASSUME TypeInv, [Next]_vars PROVE TypeInv'
  OBVIOUS
<1>1. CASE \E t \in Threads : Accept(t) \/ Step(t)
  BY <1>1, AcceptType, GetType, EvictType, SaveType, SweepType, HandleType DEF Step
<1>2. ASSUME NEW i \in Ids, Age(i) PROVE TypeInv'
  <2>1. ages' \in 0..MaxAge
    BY <1>2, BoundAssumption DEF Age, TypeInv, TypeOK
  <2>2. files' \in [Ids -> SavedFiles]
    BY <1>2 DEF Age, TypeInv, TypeOK, SavedFiles
  <2> QED BY <1>2, <2>1, <2>2 DEF Age, TypeInv, TypeOK, RequestOK
<1>3. CASE Crash
  <2>1. crashes' \in 0..MaxCrash
    BY <1>3, BoundAssumption DEF Crash, TypeInv, TypeOK
  <2>2. NoRequest \in Requests
    BY NewRequestType, BoundAssumption DEF NoRequest, Updates
  <2> QED BY <1>3, <2>1, <2>2 DEF Crash, TypeInv, TypeOK, RequestOK, Labels
<1>4. CASE UNCHANGED vars
  BY <1>4 DEF vars, TypeInv, TypeOK, RequestOK
<1> QED BY <1>1, <1>2, <1>3, <1>4 DEF Next

\* Every variable keeps its type, and a request under way names a session and
\* holds an object wherever the code dereferences one.
THEOREM TypeCorrect == Spec => []TypeOK
<1>1. Spec => []TypeInv
  BY InitType, TypeStep, PTL DEF Spec
<1> QED BY <1>1, PTL DEF TypeInv

-----------------------------------------------------------------------------
(* One object per session.                                                 *)

\* Only sessions that were created are in the table or asked for.
BornInv ==
  /\ \A i \in Ids : sessions[i] # NoObj => i \in born
  /\ \A t \in Threads : pc[t] # "idle" => req[t].id \in born

\* No session id in the table is replaced by another object.
Unreplaced == \A i \in Ids : sessions[i] # NoObj => sessions'[i] \in {sessions[i], NoObj}

\* The end of a request leaves the requests of the others alone.
LEMMA FinishBorn ==
  ASSUME TypeInv, BornInv, NEW t \in Threads, Finish(t), sessions' = sessions, born' = born
  PROVE  BornInv' /\ Unreplaced
BY DEF Finish, Goto, TypeInv, TypeOK, BornInv, Unreplaced

\* A step that adds no session to the table, starts no request and moves no
\* request to another session.
LEMMA QuietBorn ==
  ASSUME TypeInv, BornInv, Unreplaced, born' = born,
         \A i \in Ids : sessions'[i] # NoObj => sessions[i] # NoObj,
         \A u \in Threads : pc'[u] # "idle" => pc[u] # "idle" /\ req'[u].id = req[u].id
  PROVE  BornInv'
BY DEF BornInv

\* Changing another field keeps every request about its session.
LEMMA SameId ==
  ASSUME req \in [Threads -> Requests], NEW t \in Threads, NEW x,
         \/ req' = req
         \/ req' = [req EXCEPT ![t].snap = x] \/ req' = [req EXCEPT ![t].lock = x]
         \/ req' = [req EXCEPT ![t].sweep = x] \/ req' = [req EXCEPT ![t].victim = x]
         \/ req' = [req EXCEPT ![t].obj = x] \/ req' = [req EXCEPT ![t].op = x]
  PROVE  \A u \in Threads : req'[u].id = req[u].id
<1> SUFFICES ASSUME NEW u \in Threads PROVE req'[u].id = req[u].id
  OBVIOUS
<1>1. CASE req' = [req EXCEPT ![t].snap = x]  BY <1>1, FieldSame DEF Same
<1>2. CASE req' = [req EXCEPT ![t].lock = x]  BY <1>2, FieldSame DEF Same
<1>3. CASE req' = [req EXCEPT ![t].sweep = x]  BY <1>3, FieldSame DEF Same
<1>4. CASE req' = [req EXCEPT ![t].victim = x]  BY <1>4, FieldSame DEF Same
<1>5. CASE req' = [req EXCEPT ![t].obj = x]  BY <1>5, FieldSame
<1>6. CASE req' = [req EXCEPT ![t].op = x]  BY <1>6, FieldSame
<1> QED BY <1>1, <1>2, <1>3, <1>4, <1>5, <1>6

\* Every step of a thread.
LEMMA BornThread ==
  ASSUME TypeInv, BornInv, NEW t \in Threads, Accept(t) \/ Step(t)
  PROVE  BornInv' /\ Unreplaced
<1> USE DEF Goto
<1>0. /\ req \in [Threads -> Requests] /\ DOMAIN pc = Threads
      /\ sessions \in [Ids -> Objs \cup {NoObj}]
  BY DEF TypeInv, TypeOK
<1>1. ASSUME NEW i \in Ids, Create(t, i) PROVE BornInv' /\ Unreplaced
  BY <1>0, <1>1 DEF Create, NewRequest, BornInv, Unreplaced
<1>2. ASSUME NEW i \in Ids, NEW op \in {"read", "update", "delete"}, Request(t, op, i)
      PROVE  BornInv' /\ Unreplaced
  BY <1>0, <1>2 DEF Request, NewRequest, BornInv, Unreplaced
<1>3. ASSUME NotFound(t), pc[t] # "idle", sessions' = sessions, born' = born
      PROVE  BornInv' /\ Unreplaced
  <2>1. CASE Finish(t)
    BY <1>0, <1>3, <2>1, FinishBorn
  <2>2. CASE ~Finish(t)
    <3>1. \A u \in Threads : req'[u].id = req[u].id
      BY <1>0, <1>3, <2>2, SameId DEF NotFound
    <3> QED BY <1>0, <1>3, <2>2, <3>1 DEF NotFound, BornInv, Unreplaced
  <2> QED BY <1>0, <2>1, <2>2
<1>4. CASE Get(t)
  <2>1. CASE LoadNothing(t) \/ UnlinkExpired(t)
    BY <1>0, <1>3, <2>1 DEF LoadNothing, UnlinkExpired
  <2>5. CASE UnlinkExpiredFails(t)
    BY <1>0, <2>5, FinishBorn DEF UnlinkExpiredFails
  <2>2. CASE LoadExpired(t) \/ Load(t) \/ Touch(t)
    <3>1. \A u \in Threads : req'[u].id = req[u].id
      BY <1>0, <2>2, SameId DEF LoadExpired, Load, Touch
    <3> QED BY <1>0, <2>2, <3>1, QuietBorn DEF LoadExpired, Load, Touch, Unreplaced
  <2>3. CASE Install(t)
    <3>1. req[t].id \in born /\ req[t].id \in Ids
      BY <1>0, <2>3 DEF Install, TypeInv, RequestOK, BornInv
    <3>2. sessions' = [sessions EXCEPT ![req[t].id] = Kept(t)] /\ born' = born
      BY <1>0, <2>3 DEF Install
    <3>3. Unreplaced
      BY <3>1, <3>2 DEF Kept, Unreplaced
    <3>4. \A u \in Threads : pc'[u] # "idle" => pc[u] # "idle" /\ req'[u].id = req[u].id
      BY <1>0, <2>3, SameId DEF Install
    <3> QED BY <3>1, <3>2, <3>3, <3>4 DEF BornInv
  <2>4. CASE Probe(t)
    <3>1. CASE Finish(t)
      BY <1>0, <2>4, <3>1, FinishBorn DEF Probe
    <3>2. CASE ~Finish(t)
      <4>1. \A u \in Threads : req'[u].id = req[u].id
        BY <1>0, <2>4, <3>2, SameId DEF Probe
      <4> QED BY <1>0, <2>4, <3>2, <4>1, QuietBorn DEF Probe, Unreplaced
    <3> QED BY <3>1, <3>2
  <2> QED BY <1>0, <1>4, <2>1, <2>2, <2>3, <2>4, <2>5 DEF Get
<1>5. CASE Evict(t)
  BY <1>0, <1>5, QuietBorn DEF Evict, Drop, Unreplaced
<1>6. CASE Save(t)
  <2>1. /\ sessions' = sessions /\ born' = born /\ pc[t] # "idle"
        /\ \A u \in Threads : u # t => pc'[u] = pc[u]
    BY <1>0, <1>6 DEF Save, SaveLock, SaveDump, SaveSwap, SaveFail, SaveOk, SaveDiscard,
       SaveFailed, SaveNote, AfterSave
  <2>2. \A u \in Threads : req'[u].id = req[u].id
    BY <1>0, <1>6, SameId DEF Save, SaveLock, SaveDump, SaveSwap, SaveFail, SaveOk, SaveDiscard,
       SaveFailed, SaveNote
  <2> QED BY <1>0, <2>1, <2>2, QuietBorn DEF Unreplaced
<1>7. CASE Sweep(t)
  <2>1. \A u \in Threads : req'[u].id = req[u].id
    BY <1>0, <1>7, SameId DEF Sweep, SweepKeep, SweepExpired, SweepUnlink, SweepUnlinkFails, SweepDone
  <2> QED
    BY <1>0, <1>7, <2>1, QuietBorn DEF Sweep, SweepKeep, SweepExpired, SweepUnlink, SweepUnlinkFails, SweepDone,
       Unreplaced
<1>8. CASE Handle(t)
  <2>1. CASE Refuse(t) \/ RefreshFails(t) \/ Answer(t) \/ Unlink(t) \/ UnlinkFails(t)
    BY <1>0, <2>1, FinishBorn DEF Refuse, RefreshFails, Answer, Unlink, UnlinkFails
  <2>2. CASE Apply(t) \/ Pop(t)
    BY <1>0, <2>2, QuietBorn DEF Apply, Pop, Unreplaced
  <2> QED BY <1>0, <1>8, <2>1, <2>2 DEF Handle
<1> QED BY <1>1, <1>2, <1>4, <1>5, <1>6, <1>7, <1>8 DEF Accept, Step

\* Every step of the system.
LEMMA BornStep == TypeInv /\ BornInv /\ [Next]_vars => BornInv' /\ Unreplaced
<1> SUFFICES ASSUME TypeInv, BornInv, [Next]_vars PROVE BornInv' /\ Unreplaced
  OBVIOUS
<1>1. CASE \E t \in Threads : Accept(t) \/ Step(t)
  BY <1>1, BornThread
<1>2. CASE \E i \in Ids : Age(i)
  BY <1>2 DEF Age, BornInv, Unreplaced
<1>3. CASE Crash
  BY <1>3 DEF Crash, BornInv, Unreplaced
<1>4. CASE UNCHANGED vars
  BY <1>4 DEF vars, BornInv, Unreplaced
<1> QED BY <1>1, <1>2, <1>3, <1>4 DEF Next

\* However many requests restore, evict and delete a session at once, the
\* object in the table is never replaced by another: the second request to
\* restore a session takes the object of the first.
THEOREM OneObject == Spec => NoEntryReplaced
<1>1. Init => TypeInv /\ BornInv
  BY InitType DEF Init, BornInv
<1>2. TypeInv /\ BornInv /\ [Next]_vars =>
        /\ (TypeInv /\ BornInv)'
        /\ [\A i \in Ids : sessions[i] # NoObj => sessions'[i] \in {sessions[i], NoObj}]_vars
  BY TypeStep, BornStep DEF Unreplaced
<1> QED BY <1>1, <1>2, PTL DEF Spec, NoEntryReplaced

-----------------------------------------------------------------------------
(* Memory is bounded.  The bound alone is not inductive: what eviction     *)
(* leaves beyond the cap are sessions marked unsaved, and there are at     *)
(* most as many of those, with those about to be marked, as saves that     *)
(* failed (MarksPaid); and the request that put a session in the table     *)
(* stays counted until it has run eviction (CreateOK).                     *)

\* A step of one request leaves the requests of the other threads as they were.
LEMMA OthersKeep ==
  ASSUME TypeInv, NEW t \in Threads, Accept(t) \/ Step(t), NEW u \in Threads \ {t}
  PROVE  pc'[u] = pc[u] /\ req'[u] = req[u]
<1> USE DEF Goto, TypeInv, TypeOK
<1>1. CASE Accept(t)
  BY <1>1 DEF Accept, Create, Request
<1>2. CASE Finish(t)
  BY <1>2 DEF Finish
<1>3. CASE NotFound(t)
  BY <1>2, <1>3 DEF NotFound
<1>4. CASE Get(t)
  BY <1>2, <1>3, <1>4 DEF Get, LoadNothing, LoadExpired, Load, UnlinkExpired, UnlinkExpiredFails, Install,
     Touch, Probe
<1>5. CASE Evict(t)
  BY <1>5 DEF Evict
<1>6. CASE Save(t)
  BY <1>6 DEF Save, SaveLock, SaveDump, SaveSwap, SaveFail, SaveOk, SaveDiscard, SaveFailed,
     SaveNote, AfterSave
<1>7. CASE Sweep(t)
  BY <1>7 DEF Sweep, SweepKeep, SweepExpired, SweepUnlink, SweepUnlinkFails, SweepDone
<1>8. CASE Handle(t)
  BY <1>2, <1>8 DEF Handle, Apply, Refuse, RefreshFails, Answer, Pop, Unlink, UnlinkFails
<1> QED BY <1>1, <1>4, <1>5, <1>6, <1>7, <1>8 DEF Step

\* The requests whose save failed and that have not marked the session yet.
Failing == {t \in Threads : pc[t] \in {"failed", "note"}}

\* The steps of create().
Creating == {"idle", "sweep", "purge", "lock", "dump", "swap", "ok", "discard", "failed", "note",
             "evict", "answer"}

\* A create takes no step of another request.
CreateOK == \A t \in Threads : req[t].op = "create" => pc[t] \in Creating

AllFinite == IsFiniteSet(InTable) /\ IsFiniteSet(Growing) /\ IsFiniteSet(unsaved) /\ IsFiniteSet(Failing)

\* Every mark, made or about to be, stands for a save that failed.
MarksPaid == Cardinality(unsaved) + Cardinality(Failing) <= fails

MemoryInv == AllFinite /\ CreateOK /\ MarksPaid /\ MemoryBounded

\* One more element.
LEMMA OneMore ==
  ASSUME NEW S, NEW x, IsFiniteSet(S)
  PROVE  /\ IsFiniteSet(S \cup {x}) /\ Cardinality(S \cup {x}) \in Nat
         /\ Cardinality(S \cup {x}) <= Cardinality(S) + 1
         /\ x \notin S => Cardinality(S \cup {x}) = Cardinality(S) + 1
<1>1. Cardinality(S) \in Nat
  BY FS_CardinalityType
<1>2. /\ IsFiniteSet(S \cup {x})
      /\ Cardinality(S \cup {x}) = IF x \in S THEN Cardinality(S) ELSE Cardinality(S) + 1
  BY FS_AddElement
<1> QED BY <1>1, <1>2

\* Changing another field keeps every request of its kind.
LEMMA SameOp ==
  ASSUME req \in [Threads -> Requests], NEW t \in Threads, NEW x,
         \/ req' = req
         \/ req' = [req EXCEPT ![t].snap = x] \/ req' = [req EXCEPT ![t].lock = x]
         \/ req' = [req EXCEPT ![t].sweep = x] \/ req' = [req EXCEPT ![t].victim = x]
         \/ req' = [req EXCEPT ![t].obj = x]
  PROVE  req'[t].op = req[t].op
<1>1. CASE req' = [req EXCEPT ![t].snap = x]  BY <1>1, FieldSame DEF Same
<1>2. CASE req' = [req EXCEPT ![t].lock = x]  BY <1>2, FieldSame DEF Same
<1>3. CASE req' = [req EXCEPT ![t].sweep = x]  BY <1>3, FieldSame DEF Same
<1>4. CASE req' = [req EXCEPT ![t].victim = x]  BY <1>4, FieldSame DEF Same
<1>5. CASE req' = [req EXCEPT ![t].obj = x]  BY <1>5, FieldSame
<1> QED BY <1>1, <1>2, <1>3, <1>4, <1>5

\* A create stays among its own steps.
LEMMA CreateStep ==
  ASSUME TypeInv, CreateOK, NEW t \in Threads, Accept(t) \/ Step(t)
  PROVE  CreateOK'
<1> USE DEF Goto, TypeInv, TypeOK
<1>1. \A u \in Threads \ {t} : pc'[u] = pc[u] /\ req'[u] = req[u]
  BY OthersKeep
<1>2. Finish(t) => req'[t].op = "none"
  BY DEF Finish, NoRequest, NewRequest
<1>3. ASSUME NEW x,
             \/ req' = req
             \/ req' = [req EXCEPT ![t].snap = x] \/ req' = [req EXCEPT ![t].lock = x]
             \/ req' = [req EXCEPT ![t].sweep = x] \/ req' = [req EXCEPT ![t].victim = x]
             \/ req' = [req EXCEPT ![t].obj = x]
      PROVE  req'[t].op = req[t].op
  BY <1>3, SameOp
<1>4. ASSUME req'[t].op = "create" PROVE pc'[t] \in Creating
  <2> USE DEF Creating, CreateOK
  <2>0. ASSUME NEW i \in Ids, NEW op \in {"read", "update", "delete"}, Request(t, op, i)
        PROVE  req'[t].op # "create"
    BY <2>0 DEF Request, NewRequest
  <2>1. CASE Accept(t)
    <3>1. ASSUME NEW i \in Ids, Create(t, i) PROVE pc'[t] \in Creating
      BY <3>1 DEF Create
    <3> QED BY <1>4, <2>0, <2>1, <3>1 DEF Accept
  <2>2. ASSUME req' = [req EXCEPT ![t].op = "probe"] PROVE req'[t].op = "probe"
    BY <2>2, FieldSame
  <2>10. CASE UnlinkExpiredFails(t)
    BY <1>2, <1>4, <2>10 DEF UnlinkExpiredFails
  <2>3. CASE LoadNothing(t) \/ UnlinkExpired(t)
    <3>1. NotFound(t)
      BY <2>3 DEF LoadNothing, UnlinkExpired
    <3>2. CASE req[t].op = "delete" /\ UNCHANGED req
      BY <1>4, <3>2
    <3>3. CASE Finish(t)
      BY <1>2, <1>4, <3>3
    <3> QED BY <1>4, <2>2, <3>1, <3>2, <3>3 DEF NotFound
  <2>4. CASE LoadExpired(t) \/ Load(t) \/ Install(t) \/ Touch(t)
    BY <1>3, <1>4, <2>4 DEF LoadExpired, Load, Install, Touch
  <2>5. CASE Probe(t)
    BY <1>2, <1>3, <1>4, <2>5 DEF Probe
  <2>6. CASE Evict(t)
    BY <1>3, <1>4, <2>6 DEF Evict, AfterEvict
  <2>7. CASE Save(t)
    BY <1>3, <1>4, <2>7 DEF Save, SaveLock, SaveDump, SaveSwap, SaveFail, SaveOk, SaveDiscard,
       SaveFailed, SaveNote, AfterSave
  <2>8. CASE Sweep(t)
    BY <1>3, <1>4, <2>8 DEF Sweep, SweepKeep, SweepExpired, SweepUnlink, SweepUnlinkFails, SweepDone
  <2>9. CASE Handle(t)
    BY <1>2, <1>3, <1>4, <2>9 DEF Handle, Apply, Refuse, RefreshFails, Answer, Pop, Unlink, UnlinkFails
  <2> QED BY <2>1, <2>3, <2>4, <2>5, <2>6, <2>7, <2>8, <2>9, <2>10 DEF Step, Get
<1> QED BY <1>1, <1>4 DEF CreateOK

\* What a step does to the marks: nothing new, a failure that will be marked,
\* or the mark of one that was.
LEMMA MarkStep ==
  ASSUME TypeInv, NEW t \in Threads, Accept(t) \/ Step(t)
  PROVE  \/ /\ Failing' = Failing /\ unsaved' \subseteq unsaved /\ fails' \in {fails, fails + 1}
         \/ /\ Failing' = Failing \cup {t} /\ unsaved' = unsaved /\ fails' = fails + 1
         \/ /\ t \in Failing /\ Failing' = Failing \ {t} /\ fails' = fails
            /\ unsaved' = unsaved \cup {req[t].id}
<1> USE DEF Goto, TypeInv, TypeOK
<1>1. \A u \in Threads \ {t} : pc'[u] = pc[u]
  BY OthersKeep
<1>2. (pc[t] \in {"failed", "note"} <=> pc'[t] \in {"failed", "note"}) => Failing' = Failing
  BY <1>1 DEF Failing
<1>3. CASE Accept(t)
  <2>1. CASE \E i \in Ids : Create(t, i)
    BY <1>2, <2>1 DEF Create
  <2>2. CASE \E i \in Ids, op \in {"read", "update", "delete"} : Request(t, op, i)
    BY <1>2, <2>2 DEF Request, LookedUp
  <2> QED BY <1>3, <2>1, <2>2 DEF Accept
<1>5. CASE Get(t)
  <2>1. NotFound(t) => pc'[t] \in {"idle", "pop", "probe"}
    BY DEF NotFound, Finish
  <2> QED BY <1>2, <1>5, <2>1 DEF Get, LoadNothing, LoadExpired, Load, UnlinkExpired, UnlinkExpiredFails, Install, Touch, Probe,
      LookedUp, Finish
<1>6. CASE Evict(t)
  <2>1. AfterEvict[req[t].op] \in {"answer", "apply", "pop"}
    BY <1>6 DEF Evict, AfterEvict, RequestOK, Kinds
  <2> QED BY <1>2, <1>6, <2>1 DEF Evict
<1>7. CASE SaveFail(t)
  BY <1>1, <1>7 DEF SaveFail, Failing
<1>8. CASE SaveNote(t)
  BY <1>1, <1>8 DEF SaveNote, AfterSave, Failing
<1>9. CASE SaveFailed(t)
  BY <1>2, <1>9 DEF SaveFailed
<1>10. CASE SaveLock(t) \/ SaveDump(t) \/ SaveSwap(t) \/ SaveOk(t) \/ SaveDiscard(t)
  BY <1>2, <1>10 DEF SaveLock, SaveDump, SaveSwap, SaveOk, SaveDiscard, AfterSave
<1>11. CASE Sweep(t)
  BY <1>2, <1>11 DEF Sweep, SweepKeep, SweepExpired, SweepUnlink, SweepUnlinkFails, SweepDone
<1>12. CASE Handle(t)
  BY <1>2, <1>12 DEF Handle, Apply, Refuse, RefreshFails, Answer, Pop, Unlink, UnlinkFails, Finish
<1> QED BY <1>3, <1>5, <1>6, <1>7, <1>8, <1>9, <1>10, <1>11, <1>12 DEF Step, Save

\* What a step that is no eviction does to the table: a session comes in with a
\* request that is counted from now on, or none comes in and none is uncounted.
LEMMA TableStep ==
  ASSUME TypeInv, CreateOK, NEW t \in Threads, Accept(t) \/ Step(t), ~Evict(t)
  PROVE  \/ /\ InTable' \subseteq InTable /\ Growing \subseteq Growing'
            /\ Growing' \subseteq Growing \cup {t}
         \/ /\ \E i \in Ids : InTable' = InTable \cup {i}
            /\ t \notin Growing /\ Growing' = Growing \cup {t} /\ fails' = fails
<1> USE DEF Goto, TypeInv, TypeOK
<1>1. \A u \in Threads \ {t} : pc'[u] = pc[u] /\ req'[u] = req[u]
  BY OthersKeep
<1>2. /\ Growing' \subseteq Growing \cup {t}
      /\ (t \in Growing => t \in Growing') => Growing \subseteq Growing'
  BY <1>1 DEF Growing
<1>3. ASSUME NEW i \in Ids, Create(t, i)
      PROVE  /\ InTable' = InTable \cup {i} /\ fails' = fails
             /\ t \notin Growing /\ Growing' = Growing \cup {t}
  <2>1. FreshObj # NoObj
    BY <1>3, FreshType, NoneAssumption DEF Create
  <2>2. InTable' = InTable \cup {i}
    BY <1>3, <2>1 DEF Create, InTable
  <2>3. t \notin Growing /\ t \in Growing'
    BY <1>3 DEF Create, NewRequest, Growing
  <2> QED BY <1>2, <1>3, <2>2, <2>3 DEF Create
<1>4. CASE Install(t)
  <2>1. pc[t] = "install" /\ req[t].id \in Ids /\ req[t].obj # NoObj /\ req[t].op # "create"
    BY <1>4, NoneAssumption DEF Install, RequestOK, Holding, CreateOK, Creating
  <2>2. InTable' = InTable \cup {req[t].id}
    BY <1>4, <2>1 DEF Install, Kept, InTable
  <2>3. t \notin Growing /\ t \in Growing'
    BY <1>4, <2>1 DEF Install, Growing
  <2> QED BY <1>2, <1>4, <2>1, <2>2, <2>3 DEF Install
<1>5. ASSUME t \in Growing, ~Install(t), Step(t) PROVE t \in Growing'
  <2> USE DEF Growing, CreateOK, Creating
  <2>1. CASE Touch(t)
    BY <2>1 DEF Touch
  <2>2. req[t].op = "create" \/ Touch(t)
    BY <1>5 DEF Step, Get, LoadNothing, LoadExpired, Load, UnlinkExpired, UnlinkExpiredFails, Probe, Save, SaveLock,
       SaveDump, SaveSwap, SaveFail, SaveOk, SaveDiscard, SaveFailed, SaveNote, Sweep, SweepKeep,
       SweepExpired, SweepUnlink, SweepUnlinkFails, SweepDone, Handle, Apply, Refuse, RefreshFails, Answer, Pop, Unlink, UnlinkFails
  <2>3. ASSUME req[t].op = "create", ~Touch(t) PROVE Save(t) \/ Sweep(t)
    BY <1>5, <2>3 DEF Step, Get, LoadNothing, LoadExpired, Load, UnlinkExpired, UnlinkExpiredFails, Probe, Handle, Apply,
       Refuse, RefreshFails, Answer, Pop, Unlink, UnlinkFails
  <2>4. ASSUME NEW x,
               \/ req' = req
               \/ req' = [req EXCEPT ![t].snap = x] \/ req' = [req EXCEPT ![t].lock = x]
               \/ req' = [req EXCEPT ![t].sweep = x] \/ req' = [req EXCEPT ![t].victim = x]
        PROVE  req'[t].op = req[t].op
    BY <2>4, SameOp
  <2>5. ASSUME req[t].op = "create", Save(t) PROVE t \in Growing'
    BY <2>4, <2>5 DEF Save, SaveLock, SaveDump, SaveSwap, SaveFail, SaveOk, SaveDiscard,
       SaveFailed, SaveNote, AfterSave
  <2>6. ASSUME req[t].op = "create", Sweep(t) PROVE t \in Growing'
    BY <2>4, <2>6 DEF Sweep, SweepKeep, SweepExpired, SweepUnlink, SweepUnlinkFails, SweepDone
  <2> QED BY <2>1, <2>2, <2>3, <2>5, <2>6
<1>6. ASSUME ~Install(t), Step(t) PROVE InTable' \subseteq InTable
  BY <1>6 DEF Step, Get, LoadNothing, LoadExpired, Load, UnlinkExpired, UnlinkExpiredFails, Touch, Probe, Save, SaveLock,
     SaveDump, SaveSwap, SaveFail, SaveOk, SaveDiscard, SaveFailed, SaveNote, Sweep, SweepKeep,
     SweepExpired, SweepUnlink, SweepUnlinkFails, SweepDone, Handle, Apply, Refuse, RefreshFails, Answer, Pop, Unlink, UnlinkFails,
     InTable
<1>7. ASSUME NEW i \in Ids, NEW op \in {"read", "update", "delete"}, Request(t, op, i)
      PROVE  InTable' = InTable /\ t \notin Growing
  BY <1>7 DEF Request, InTable, Growing
<1> QED BY <1>2, <1>3, <1>4, <1>5, <1>6, <1>7 DEF Accept

\* Eviction leaves no more than the cap, or only sessions marked unsaved.
LEMMA EvictBound ==
  ASSUME TypeInv, AllFinite, NEW t \in Threads, Evict(t)
  PROVE  /\ InTable' \subseteq InTable
         /\ Cardinality(InTable') <= Cap \/ InTable' \subseteq unsaved
<1> USE DEF TypeInv, TypeOK, AllFinite
<1>1. PICK V \in Victims : Drop(V)
  BY DEF Evict
<1>2. InTable' = InTable \ V
  BY <1>1 DEF Drop, InTable
<1>3. Cardinality(InTable) \in Nat /\ Cap \in Nat
  BY FS_CardinalityType, BoundAssumption
<1>4. CASE Cardinality(InTable) <= Cap
  BY <1>1, <1>2, <1>4 DEF Victims
<1>5. CASE Cardinality(InTable) > Cap
  <2>1. V \subseteq Evictable /\ Idlest(V)
    BY <1>1, <1>3, <1>5 DEF Victims
  <2>2. IsFiniteSet(Evictable)
    BY FS_Subset DEF Evictable
  <2>3. IsFiniteSet(V) /\ V \subseteq InTable
    BY <2>1, <2>2, FS_Subset DEF Evictable
  <2>4. Cardinality(V) \in Nat /\ Cardinality(Evictable) \in Nat
    BY <2>2, <2>3, FS_CardinalityType
  <2>5. CASE Cardinality(V) = Excess
    <3>1. InTable \cap V = V
      BY <2>3
    <3>2. Cardinality(InTable \ V) = Cardinality(InTable) - Cardinality(V)
      BY <3>1, FS_Difference
    <3>3. Cardinality(InTable \ V) = Cap
      BY <1>3, <2>4, <2>5, <3>2 DEF Excess
    <3> QED BY <1>2, <1>3, <3>3
  <2>6. CASE Cardinality(V) = Cardinality(Evictable)
    <3>1. V = Evictable
      BY <2>1, <2>2, <2>6, FS_Subset
    <3> QED BY <1>2, <3>1 DEF Evictable
  <2> QED BY <1>2, <2>1, <2>5, <2>6 DEF Idlest
<1> QED BY <1>3, <1>4, <1>5

\* Every step of a thread keeps the bound.
LEMMA MemoryThread ==
  ASSUME TypeInv, MemoryInv, NEW t \in Threads, Accept(t) \/ Step(t)
  PROVE  MemoryInv'
<1>0. /\ AllFinite /\ CreateOK /\ MarksPaid /\ MemoryBounded /\ fails \in Nat /\ Cap \in Nat
  BY BoundAssumption DEF MemoryInv, TypeInv, TypeOK
<1>1. CreateOK'
  BY <1>0, CreateStep
<1>2. /\ IsFiniteSet(unsaved') /\ IsFiniteSet(Failing') /\ fails' \in Nat /\ fails' >= fails
      /\ MarksPaid'
  <2>1. Cardinality(unsaved) \in Nat /\ Cardinality(Failing) \in Nat
    BY <1>0, FS_CardinalityType DEF AllFinite
  <2>2. CASE Failing' = Failing /\ unsaved' \subseteq unsaved /\ fails' \in {fails, fails + 1}
    <3>1. /\ IsFiniteSet(unsaved') /\ Cardinality(unsaved') <= Cardinality(unsaved)
          /\ Cardinality(unsaved') \in Nat
      BY <1>0, <2>2, FS_Subset, FS_CardinalityType DEF AllFinite
    <3> QED BY <1>0, <2>1, <2>2, <3>1 DEF AllFinite, MarksPaid
  <2>3. CASE Failing' = Failing \cup {t} /\ unsaved' = unsaved /\ fails' = fails + 1
    <3>1. /\ IsFiniteSet(Failing') /\ Cardinality(Failing') <= Cardinality(Failing) + 1
          /\ Cardinality(Failing') \in Nat
      BY <1>0, <2>1, <2>3, OneMore DEF AllFinite
    <3> QED BY <1>0, <2>1, <2>3, <3>1 DEF AllFinite, MarksPaid
  <2>4. CASE /\ t \in Failing /\ Failing' = Failing \ {t} /\ fails' = fails
             /\ unsaved' = unsaved \cup {req[t].id}
    <3>1. IsFiniteSet(Failing') /\ Cardinality(Failing') = Cardinality(Failing) - 1
      BY <1>0, <2>4, FS_RemoveElement DEF AllFinite
    <3>2. IsFiniteSet(unsaved') /\ Cardinality(unsaved') <= Cardinality(unsaved) + 1
      BY <1>0, <2>1, <2>4, OneMore DEF AllFinite
    <3>3. Cardinality(unsaved') \in Nat
      BY <3>2, FS_CardinalityType
    <3> QED BY <1>0, <2>1, <2>4, <3>1, <3>2, <3>3 DEF MarksPaid
  <2> QED BY <2>2, <2>3, <2>4, MarkStep
<1>3. IsFiniteSet(InTable') /\ IsFiniteSet(Growing') /\ MemoryBounded'
  <2>1. Cardinality(InTable) \in Nat /\ Cardinality(Growing) \in Nat
    BY <1>0, FS_CardinalityType DEF AllFinite
  <2>2. CASE InTable' \subseteq InTable /\ Growing \subseteq Growing' /\ Growing' \subseteq Growing \cup {t}
    <3>1. IsFiniteSet(InTable') /\ Cardinality(InTable') <= Cardinality(InTable)
      BY <1>0, <2>2, FS_Subset DEF AllFinite
    <3>2. IsFiniteSet(Growing \cup {t})
      BY <1>0, FS_AddElement DEF AllFinite
    <3>3. IsFiniteSet(Growing')
      BY <2>2, <3>2, FS_Subset
    <3>4. Cardinality(Growing) <= Cardinality(Growing')
      BY <2>2, <3>3, FS_Subset
    <3>5. Cardinality(InTable') \in Nat /\ Cardinality(Growing') \in Nat
      BY <3>1, <3>3, FS_CardinalityType
    <3> QED BY <1>0, <1>2, <2>1, <3>1, <3>3, <3>4, <3>5 DEF MemoryBounded
  <2>3. ASSUME NEW i \in Ids, InTable' = InTable \cup {i}, t \notin Growing,
               Growing' = Growing \cup {t}, fails' = fails
        PROVE  IsFiniteSet(InTable') /\ IsFiniteSet(Growing') /\ MemoryBounded'
    <3>1. /\ IsFiniteSet(InTable') /\ Cardinality(InTable') <= Cardinality(InTable) + 1
          /\ Cardinality(InTable') \in Nat
      BY <1>0, <2>1, <2>3, OneMore DEF AllFinite
    <3>2. IsFiniteSet(Growing') /\ Cardinality(Growing') = Cardinality(Growing) + 1
      BY <1>0, <2>3, OneMore DEF AllFinite
    <3> QED BY <1>0, <2>1, <2>3, <3>1, <3>2 DEF MemoryBounded
  <2>4. CASE Evict(t)
    <3>1. /\ InTable' \subseteq InTable
          /\ Cardinality(InTable') <= Cap \/ InTable' \subseteq unsaved
      BY <1>0, <2>4, EvictBound
    <3>2. IsFiniteSet(InTable') /\ Cardinality(InTable') \in Nat
      BY <1>0, <3>1, FS_Subset, FS_CardinalityType DEF AllFinite
    <3>3. IsFiniteSet(Growing') /\ Cardinality(Growing') \in Nat
      <4>1. Growing' \subseteq Growing \cup {t}
        BY OthersKeep DEF Growing
      <4>2. IsFiniteSet(Growing \cup {t})
        BY <1>0, FS_AddElement DEF AllFinite
      <4> QED BY <4>1, <4>2, FS_Subset, FS_CardinalityType
    <3>4. fails' = fails
      BY <2>4 DEF Evict
    <3>5. InTable' \subseteq unsaved => Cardinality(InTable') <= fails
      <4> SUFFICES ASSUME InTable' \subseteq unsaved PROVE Cardinality(InTable') <= fails
        OBVIOUS
      <4>1. Cardinality(InTable') <= Cardinality(unsaved)
        BY <1>0, FS_Subset DEF AllFinite
      <4>2. Cardinality(unsaved) \in Nat /\ Cardinality(Failing) \in Nat
        BY <1>0, FS_CardinalityType DEF AllFinite
      <4> QED BY <1>0, <3>2, <4>1, <4>2 DEF MarksPaid
    <3> QED BY <1>0, <3>1, <3>2, <3>3, <3>4, <3>5 DEF MemoryBounded
  <2> QED BY <1>0, <2>2, <2>3, <2>4, TableStep
<1> QED BY <1>1, <1>2, <1>3 DEF MemoryInv, AllFinite

\* So does every other step; a restart empties the table.
LEMMA MemoryStep == TypeInv /\ MemoryInv /\ [Next]_vars => MemoryInv'
<1> SUFFICES ASSUME TypeInv, MemoryInv, [Next]_vars PROVE MemoryInv'
  OBVIOUS
<1> USE DEF MemoryInv, AllFinite, CreateOK, MarksPaid, MemoryBounded
<1>1. CASE \E t \in Threads : Accept(t) \/ Step(t)
  BY <1>1, MemoryThread
<1>2. ASSUME NEW i \in Ids, Age(i) PROVE MemoryInv'
  BY <1>2 DEF Age, InTable, Growing, Failing
<1>3. CASE Crash
  <2>1. InTable' = {} /\ Growing' = {} /\ Failing' = {} /\ unsaved' = {} /\ fails' = fails
    BY <1>3 DEF Crash, InTable, Growing, Failing, NoRequest, NewRequest
  <2>2. fails \in Nat /\ Cap \in Nat
    BY BoundAssumption DEF TypeInv, TypeOK
  <2>3. CreateOK'
    BY <1>3 DEF Crash, NoRequest, NewRequest
  <2> QED BY <2>1, <2>2, <2>3, FS_EmptySet
<1>4. CASE UNCHANGED vars
  BY <1>4 DEF vars, InTable, Growing, Failing
<1> QED BY <1>1, <1>2, <1>3, <1>4 DEF Next

\* Whatever runs at once, fails or restarts, memory holds no more sessions than
\* the cap or the failed saves allow, but for those of requests that have yet
\* to run eviction.
THEOREM MemoryStays == Spec => []MemoryBounded
<1>1. Init => TypeInv /\ MemoryInv
  <2> SUFFICES ASSUME Init PROVE MemoryInv
    BY InitType
  <2>1. InTable = {} /\ Growing = {} /\ Failing = {} /\ unsaved = {} /\ fails = 0
    BY DEF Init, InTable, Growing, Failing, NoRequest, NewRequest
  <2>2. CreateOK
    BY DEF Init, CreateOK, NoRequest, NewRequest
  <2> QED BY <2>1, <2>2, FS_EmptySet, BoundAssumption
      DEF MemoryInv, AllFinite, MarksPaid, MemoryBounded
<1>2. TypeInv /\ MemoryInv /\ [Next]_vars => (TypeInv /\ MemoryInv)'
  BY TypeStep, MemoryStep
<1> QED BY <1>1, <1>2, PTL DEF Spec, MemoryInv

=============================================================================
