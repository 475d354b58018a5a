------------------------- MODULE SessionSaveProofs --------------------------
(***************************************************************************)
(* Saves of one session never go backwards: SaveNeverRegresses of          *)
(* SessionStore, for every number of threads, sessions and updates and     *)
(* every mix of requests and faults.  By itself it is not inductive.  Two  *)
(* facts make it so: the save lock of a session has one holder (LockInv),  *)
(* and an update not applied yet is nowhere, in no object, file or         *)
(* snapshot (TokenInv), so that applying it to an object whose snapshot is *)
(* on its way to the file cannot make that snapshot miss something the     *)
(* file already has.                                                       *)
(***************************************************************************)
EXTENDS SessionStoreProofs

USE DEF table, marks, locks, recency, history, faults

-----------------------------------------------------------------------------
(* The save locks.                                                         *)

\* The steps of save() between looking the lock up and releasing it.
Writing == {"dump", "swap"}

\* A thread swapping its snapshot in holds the lock it looked up, alone; that
\* lock is the current one of the session or one a delete has dropped.
LockInv ==
  /\ \A t \in Threads : pc[t] = "swap" => LockOf(t) \in locked
  /\ \A t, u \in Threads : pc[t] = "swap" /\ pc[u] = "swap" /\ t # u => LockOf(t) # LockOf(u)
  /\ \A t \in Threads : pc[t] \in Writing => req[t].lock \in 0..lockGen[req[t].id]

\* A step that starts no save and drops no save lock leaves the lock facts.
LEMMA LockQuiet ==
  ASSUME TypeInv, LockInv, UNCHANGED <<lockGen, locked>>,
         \A u \in Threads : pc'[u] \in Writing =>
           pc'[u] = pc[u] /\ req'[u].id = req[u].id /\ req'[u].lock = req[u].lock
  PROVE  LockInv'
BY DEF LockInv, LockOf, Writing

\* No step of a thread outside save() touches the requests of the others, nor
\* leaves it inside save()'s locked part.
LEMMA LockOutside ==
  ASSUME TypeInv, NEW t \in Threads,
         Accept(t) \/ Get(t) \/ Evict(t) \/ Sweep(t) \/ Apply(t) \/ Refuse(t)
           \/ RefreshFails(t) \/ Answer(t) \/ Pop(t) \/ Unlink(t) \/ UnlinkFails(t)
  PROVE  \A u \in Threads : pc'[u] \in Writing => pc'[u] = pc[u] /\ req'[u] = req[u]
<1> SUFFICES ASSUME NEW u \in Threads, pc'[u] \in Writing
             PROVE  pc'[u] = pc[u] /\ req'[u] = req[u]
  OBVIOUS
<1> USE DEF Goto, Writing, TypeInv, TypeOK
<1>1. CASE Accept(t)
  BY <1>1 DEF Accept, Create, Request, LookedUp
<1>2. CASE Finish(t)
  BY <1>2 DEF Finish
<1>3. CASE NotFound(t)
  BY <1>2, <1>3 DEF NotFound
<1>4. CASE Get(t)
  BY <1>2, <1>3, <1>4 DEF Get, LoadNothing, LoadExpired, Load, UnlinkExpired, UnlinkExpiredFails, Install,
     Touch, Probe, LookedUp
<1>5. CASE Evict(t)
  <2>1. AfterEvict[req[t].op] \notin Writing
    BY <1>5 DEF Evict, AfterEvict, RequestOK, Kinds
  <2> QED BY <1>5, <2>1 DEF Evict
<1>6. CASE Sweep(t)
  BY <1>6 DEF Sweep, SweepKeep, SweepExpired, SweepUnlink, SweepUnlinkFails, SweepDone
<1>7. CASE Apply(t) \/ Pop(t)
  BY <1>7 DEF Apply, Pop
<1>8. CASE Refuse(t) \/ RefreshFails(t) \/ Answer(t) \/ Unlink(t) \/ UnlinkFails(t)
  BY <1>2, <1>8 DEF Refuse, RefreshFails, Answer, Unlink, UnlinkFails
<1> QED BY <1>1, <1>4, <1>5, <1>6, <1>7, <1>8

\* Every step keeps the lock facts.
LEMMA LockStep == TypeInv /\ LockInv /\ [Next]_vars => LockInv'
<1> SUFFICES ASSUME TypeInv, LockInv, [Next]_vars PROVE LockInv'
  OBVIOUS
<1>1. ASSUME NEW t \in Threads,
             Accept(t) \/ Get(t) \/ Evict(t) \/ Sweep(t) \/ Apply(t) \/ Refuse(t)
               \/ RefreshFails(t) \/ Answer(t) \/ Unlink(t) \/ UnlinkFails(t)
      PROVE  LockInv'
  <2>1. UNCHANGED <<lockGen, locked>>
    BY <1>1 DEF Accept, Create, Request, Get, LoadNothing, LoadExpired, Load, UnlinkExpired, UnlinkExpiredFails,
       Install, Touch, Probe, Evict, Sweep, SweepKeep, SweepExpired, SweepUnlink, SweepUnlinkFails, SweepDone,
       Apply, Refuse, RefreshFails, Answer, Unlink, UnlinkFails
  <2> QED BY <1>1, <2>1, LockOutside, LockQuiet
<1>2. ASSUME NEW t \in Threads, Pop(t) PROVE LockInv'
  <2>1. req' = req /\ \A u \in Threads : pc'[u] \in Writing => pc'[u] = pc[u]
    BY <1>2 DEF Pop, Goto, Writing, TypeInv, TypeOK
  <2>2. locked' = locked /\ \A i \in Ids : lockGen[i] \in Nat /\ lockGen'[i] \in {lockGen[i], lockGen[i] + 1}
    BY <1>2 DEF Pop, TypeInv, TypeOK
  <2>3. \A u \in Threads : pc[u] \in Writing => req[u].id \in Ids /\ req[u].lock \in Nat
    BY DEF Writing, TypeInv, TypeOK, RequestOK, Requests
  <2>4. \A u \in Threads : pc'[u] \in Writing => req[u].lock \in 0..lockGen'[req[u].id]
    <3> SUFFICES ASSUME NEW u \in Threads, pc'[u] \in Writing
                 PROVE  req[u].lock \in 0..lockGen'[req[u].id]
      OBVIOUS
    <3>1. req[u].id \in Ids /\ req[u].lock \in 0..lockGen[req[u].id]
      BY <2>1, <2>3 DEF LockInv
    <3> QED BY <3>1, <2>2
  <2>5. \A u \in Threads : pc'[u] = "swap" => pc[u] = "swap"
    BY <2>1 DEF Writing
  <2>6. \A u \in Threads : LockOf(u)' = LockOf(u)
    BY <2>1 DEF LockOf
  <2> QED BY <2>1, <2>2, <2>4, <2>5, <2>6 DEF LockInv
<1>3. ASSUME NEW t \in Threads, SaveLock(t) PROVE LockInv'
  <2>1. req[t].id \in Ids /\ lockGen[req[t].id] \in Nat
    BY <1>3 DEF SaveLock, TypeInv, TypeOK, RequestOK
  <2>2. \A u \in Threads : /\ req'[u].id = req[u].id
                           /\ req'[u].lock = IF u = t THEN lockGen[req[t].id] ELSE req[u].lock
                           /\ pc'[u] = IF u = t THEN "dump" ELSE pc[u]
    BY <1>3, FieldSame DEF SaveLock, Goto, Same, TypeInv, TypeOK
  <2> QED BY <1>3, <2>1, <2>2 DEF SaveLock, LockInv, LockOf, Writing
<1>4. ASSUME NEW t \in Threads, SaveDump(t) PROVE LockInv'
  <2>1. \A u \in Threads : /\ req'[u].id = req[u].id /\ req'[u].lock = req[u].lock
                           /\ pc'[u] = IF u = t THEN "swap" ELSE pc[u]
    BY <1>4, FieldSame DEF SaveDump, Goto, Same, TypeInv, TypeOK
  <2> QED BY <1>4, <2>1 DEF SaveDump, LockInv, LockOf, Writing
<1>5. ASSUME NEW t \in Threads, SaveSwap(t) \/ SaveFail(t) PROVE LockInv'
  <2>1. /\ req' = [req EXCEPT ![t].snap = {}]
        /\ Goto(t, "ok") \/ Goto(t, "failed")
    BY <1>5 DEF SaveSwap, SaveFail
  <2>3. \A u \in Threads : req'[u].id = req[u].id /\ req'[u].lock = req[u].lock
    BY <2>1, FieldSame DEF Same, TypeInv, TypeOK
  <2>4. \A u \in Threads : pc'[u] \in Writing => u # t /\ pc'[u] = pc[u]
    BY <2>1 DEF Goto, Writing, TypeInv, TypeOK
  <2>2. pc[t] = "swap" /\ locked' = locked \ {LockOf(t)} /\ lockGen' = lockGen
    BY <1>5 DEF SaveSwap, SaveFail
  <2> QED BY <2>2, <2>3, <2>4 DEF LockInv, LockOf, Writing
<1>6. ASSUME NEW t \in Threads, SaveOk(t) \/ SaveDiscard(t) \/ SaveFailed(t) \/ SaveNote(t)
      PROVE  LockInv'
  BY <1>6, LockQuiet DEF SaveOk, SaveDiscard, SaveFailed, SaveNote, AfterSave, Goto, Writing,
     TypeInv, TypeOK
<1>7. ASSUME NEW i \in Ids, Age(i) PROVE LockInv'
  BY <1>7, LockQuiet DEF Age
<1>8. CASE Crash
  BY <1>8 DEF Crash, LockInv, Writing
<1>9. CASE UNCHANGED vars
  BY <1>9, LockQuiet DEF vars
<1> QED BY <1>1, <1>2, <1>3, <1>4, <1>5, <1>6, <1>7, <1>8, <1>9 DEF Next, Step, Save, Handle

-----------------------------------------------------------------------------
(* The updates.                                                            *)

\* The requests whose update is not applied yet.
Pending == {t \in Threads : /\ req[t].op = "update"
                            /\ pc[t] \in {"load", "expire", "install", "touch", "evict", "apply"}}

\* The updates in an object, in a file or in a snapshot on its way to one.
Seen == {k \in Updates : \/ \E o \in Objs : k \in heap[o]
                         \/ \E i \in Ids : k \in files[i].done
                         \/ \E t \in Threads : k \in req[t].snap}

\* Only updates are applied, and only after get(); only a probe probes.
OpOK(t) == /\ pc[t] = "apply" => req[t].op = "update"
           /\ pc[t] = "probe" => req[t].op = "probe"

\* An update requested but not applied is nowhere, and is one thread's alone.
TokenInv ==
  /\ Seen \subseteq 0..issued
  /\ \A t \in Pending : req[t].tok \in (1..issued) \ Seen
  /\ \A t, u \in Pending : req[t].tok = req[u].tok => t = u
  /\ \A t \in Threads : OpOK(t)

\* A step that applies no update and requests none leaves the token facts.
LEMMA TokenQuiet ==
  ASSUME TypeInv, TokenInv, issued' = issued, Seen' \subseteq Seen \cup {0},
         \A u \in Pending' : u \in Pending /\ req'[u].tok = req[u].tok,
         \A u \in Threads : OpOK(u)'
  PROVE  TokenInv'
<1>1. issued \in Nat
  BY BoundAssumption DEF TypeInv, TypeOK, Updates
<1>2. Seen' \subseteq 0..issued'
  BY <1>1 DEF TokenInv
<1>3. \A u \in Pending' : req'[u].tok \in (1..issued') \ Seen'
  BY DEF TokenInv
<1> QED BY <1>2, <1>3 DEF TokenInv

\* Collecting garbage shows no update that was not there.
LEMMA CollectedSeen ==
  ASSUME NEW s, NEW r
  PROVE  \A o \in Objs : Collected(s, r)[o] \subseteq heap[o]
BY DEF Collected

\* Updates that are in the objects, files and snapshots of the next state are
\* in Seen when each of these three only loses some.
LEMMA SeenShrinks ==
  ASSUME TypeInv,
         \A o \in Objs : heap'[o] \subseteq heap[o] \/ heap'[o] \subseteq Seen \cup {0},
         \A i \in Ids : files'[i].done \subseteq files[i].done \/ files'[i].done \subseteq Seen,
         \A t \in Threads : req'[t].snap \subseteq req[t].snap \/ req'[t].snap \subseteq Seen
  PROVE  Seen' \subseteq Seen \cup {0}
BY DEF Seen

\* A step that shows no new update, makes no request pending and moves no
\* thread where its kind of request may not be.
Calm ==
  /\ Seen' \subseteq Seen \cup {0}
  /\ \A u \in Pending' : u \in Pending /\ req'[u].tok = req[u].tok
  /\ \A u \in Threads : OpOK(u)'

\* The end of a request.
LEMMA FinishCalm ==
  ASSUME TypeInv, TokenInv, NEW t \in Threads, Finish(t),
         \A i \in Ids : files'[i].done \subseteq files[i].done
  PROVE  Calm
<1>1. \A o \in Objs : heap'[o] \subseteq heap[o]
  BY CollectedSeen DEF Finish
<1>2. \A u \in Threads : req'[u].snap \subseteq req[u].snap
  BY DEF Finish, NoRequest, NewRequest, TypeInv, TypeOK
<1>3. Seen' \subseteq Seen \cup {0}
  BY <1>1, <1>2, SeenShrinks
<1>4. \A u \in Threads : u # t => req'[u] = req[u] /\ pc'[u] = pc[u]
  BY DEF Finish, Goto, TypeInv, TypeOK
<1>5. pc'[t] = "idle"
  BY DEF Finish, Goto, TypeInv, TypeOK
<1> QED BY <1>3, <1>4, <1>5 DEF Calm, OpOK, Pending, TokenInv

\* A step that moves one thread among the steps of get() and before keeps its
\* request pending if it was.
LEMMA MoveCalm ==
  ASSUME TypeInv, TokenInv, NEW t \in Threads, NEW label \in Labels \ {"apply", "probe"}, Goto(t, label),
         \A u \in Threads : req'[u].op = req[u].op /\ req'[u].tok = req[u].tok,
         t \in Pending' => t \in Pending
  PROVE  /\ \A u \in Pending' : u \in Pending /\ req'[u].tok = req[u].tok
         /\ \A u \in Threads : OpOK(u)'
BY DEF Goto, Pending, OpOK, TokenInv, TypeInv, TypeOK

\* The steps of get().
LEMMA GetCalm ==
  ASSUME TypeInv, TokenInv, NEW t \in Threads, Get(t)
  PROVE  Calm
<1>1. ASSUME NotFound(t), \A i \in Ids : files'[i].done \subseteq files[i].done,
             pc[t] # "idle"
      PROVE  Calm
  <2>1. CASE Finish(t)
    BY <1>1, <2>1, FinishCalm
  <2>2. CASE Goto(t, "pop") /\ UNCHANGED <<req, heap>>
    BY <1>1, <2>2, SeenShrinks, MoveCalm DEF Calm, Pending, Goto, Labels, TypeInv, TypeOK
  <2>3. CASE /\ Goto(t, "probe")
             /\ req' = [req EXCEPT ![t].op = "probe"]
             /\ UNCHANGED heap
    <3>1. \A u \in Threads : /\ req'[u].tok = req[u].tok /\ req'[u].snap = req[u].snap
                             /\ u # t => req'[u].op = req[u].op
      BY <2>3, FieldSame DEF TypeInv, TypeOK
    <3>2. Seen' \subseteq Seen \cup {0}
      BY <1>1, <2>3, <3>1, SeenShrinks
    <3>3. \A u \in Threads : pc'[u] = IF u = t THEN "probe" ELSE pc[u]
      BY <2>3 DEF Goto, TypeInv, TypeOK
    <3>4. req'[t].op = "probe"
      BY <2>3, FieldSame DEF TypeInv, TypeOK
    <3> QED BY <2>3, <3>1, <3>2, <3>3, <3>4 DEF Calm, OpOK, Pending, TokenInv
  <2> QED BY <1>1, <2>1, <2>2, <2>3 DEF NotFound
<1>2. ASSUME Finish(t) \/ NotFound(t), pc[t] # "idle",
             UNCHANGED files \/ files' = [files EXCEPT ![req[t].id] = NoFile]
      PROVE  Calm
  <2>1. \A i \in Ids : files'[i].done \subseteq files[i].done
    BY <1>2 DEF NoFile, TypeInv, TypeOK
  <2> QED BY <1>1, <1>2, <2>1, FinishCalm
<1>3. CASE LoadNothing(t) \/ UnlinkExpired(t) \/ UnlinkExpiredFails(t)
  BY <1>2, <1>3 DEF LoadNothing, UnlinkExpired, UnlinkExpiredFails
<1>4. CASE LoadExpired(t)
  BY <1>4, SeenShrinks, MoveCalm DEF LoadExpired, Calm, Pending, Goto, Labels, TypeInv, TypeOK
<1>5. CASE Load(t)
  <2>1. \A u \in Threads : /\ req'[u].op = req[u].op /\ req'[u].tok = req[u].tok
                           /\ req'[u].snap = req[u].snap
    BY <1>5, FieldSame DEF Load, TypeInv, TypeOK
  <2>2. files[req[t].id].done \subseteq Seen
    BY <1>5 DEF Load, Seen, TypeInv, TypeOK, RequestOK, SavedFiles
  <2>3. Seen' \subseteq Seen \cup {0}
    BY <1>5, <2>1, <2>2, SeenShrinks DEF Load, TypeInv, TypeOK
  <2> QED BY <1>5, <2>1, <2>3, MoveCalm DEF Load, Calm, Pending, Goto, Labels, TypeInv, TypeOK
<1>6. CASE Install(t)
  <2>1. \A u \in Threads : /\ req'[u].op = req[u].op /\ req'[u].tok = req[u].tok
                           /\ req'[u].snap = req[u].snap
    BY <1>6, FieldSame DEF Install, TypeInv, TypeOK
  <2>2. Seen' \subseteq Seen \cup {0}
    BY <1>6, <2>1, CollectedSeen, SeenShrinks DEF Install
  <2> QED BY <1>6, <2>1, <2>2, MoveCalm DEF Install, Calm, Pending, Goto, Labels, TypeInv, TypeOK
<1>7. CASE Touch(t)
  BY <1>7, SeenShrinks, MoveCalm DEF Touch, Calm, Pending, Goto, Labels, TypeInv, TypeOK
<1>8. CASE Probe(t)
  <2>1. CASE Finish(t)
    BY <1>2, <1>8, <2>1 DEF Probe
  <2>2. CASE ~Finish(t)
    <3>1. /\ req' = [req EXCEPT ![t].obj = sessions[req[t].id]]
          /\ Goto(t, LookedUp(req[t].id))
          /\ UNCHANGED <<heap, files>>
      BY <1>8, <2>2 DEF Probe
    <3>2. \A u \in Threads : /\ req'[u].op = req[u].op /\ req'[u].tok = req[u].tok
                             /\ req'[u].snap = req[u].snap
      BY <3>1, FieldSame DEF TypeInv, TypeOK
    <3>3. Seen' \subseteq Seen \cup {0}
      BY <3>1, <3>2, SeenShrinks
    <3>4. req[t].op # "update"
      BY <1>8 DEF Probe, OpOK, TokenInv
    <3> QED
      BY <3>1, <3>2, <3>3, <3>4, MoveCalm DEF LookedUp, Calm, Pending, Labels
  <2> QED BY <2>1, <2>2
<1> QED BY <1>3, <1>4, <1>5, <1>6, <1>7, <1>8 DEF Get

\* Eviction.
LEMMA EvictCalm ==
  ASSUME TypeInv, TokenInv, NEW t \in Threads, Evict(t)
  PROVE  Calm
<1>1. Seen' \subseteq Seen \cup {0}
  BY CollectedSeen, SeenShrinks DEF Evict
<1>2. \A u \in Threads : pc'[u] = IF u = t THEN AfterEvict[req[t].op] ELSE pc[u]
  BY DEF Evict, Goto, TypeInv, TypeOK
<1>3. /\ AfterEvict[req[t].op] # "probe"
      /\ AfterEvict[req[t].op] = "apply" => req[t].op = "update"
  BY DEF Evict, AfterEvict, TypeInv, RequestOK, Kinds
<1>4. pc[t] = "evict" /\ req' = req
  BY DEF Evict
<1> QED BY <1>1, <1>2, <1>3, <1>4 DEF Calm, OpOK, Pending, TokenInv

\* The steps of save(): they copy updates, from object to snapshot to file.
LEMMA SaveCalm ==
  ASSUME TypeInv, TokenInv, NEW t \in Threads, Save(t)
  PROVE  Calm
<1>1. pc[t] \in {"lock", "dump", "swap", "ok", "discard", "failed", "note"}
  BY DEF Save, SaveLock, SaveDump, SaveSwap, SaveFail, SaveOk, SaveDiscard, SaveFailed, SaveNote
<1>2. ASSUME NEW label \in {"dump", "swap", "ok", "discard", "failed", "note", "answer"},
             Goto(t, label), Seen' \subseteq Seen \cup {0},
             \A u \in Threads : req'[u].op = req[u].op /\ req'[u].tok = req[u].tok
      PROVE  Calm
  <2>1. label \in Labels \ {"apply", "probe"}
    BY DEF Labels
  <2>2. t \notin Pending'
    BY <1>2 DEF Pending, Goto, TypeInv, TypeOK
  <2> QED BY <1>2, <2>1, <2>2, MoveCalm DEF Calm
<1>3. CASE SaveLock(t)
  <2>1. \A u \in Threads : Same(req'[u], req[u]) /\ req'[u].snap = req[u].snap
    BY <1>3, FieldSame DEF SaveLock, Same, TypeInv, TypeOK
  <2>2. Seen' \subseteq Seen \cup {0}
    BY <1>3, <2>1, SeenShrinks DEF SaveLock
  <2> QED BY <1>2, <1>3, <2>1, <2>2 DEF SaveLock, Same
<1>4. CASE SaveDump(t)
  <2>1. \A u \in Threads : /\ Same(req'[u], req[u])
                           /\ req'[u].snap = IF u = t THEN heap[req[t].obj] ELSE req[u].snap
    BY <1>4, FieldSame DEF SaveDump, Same, TypeInv, TypeOK
  <2>2. heap[req[t].obj] \subseteq Seen
    BY <1>4 DEF SaveDump, Seen, Holding, TypeInv, TypeOK, RequestOK
  <2>3. Seen' \subseteq Seen \cup {0}
    BY <1>4, <2>1, <2>2, SeenShrinks DEF SaveDump
  <2> QED BY <1>2, <1>4, <2>1, <2>3 DEF SaveDump, Same
<1>5. CASE SaveSwap(t) \/ SaveFail(t)
  <2>1. /\ req' = [req EXCEPT ![t].snap = {}]
        /\ Goto(t, "ok") \/ Goto(t, "failed")
        /\ heap' = heap
    BY <1>5 DEF SaveSwap, SaveFail
  <2>2. \A u \in Threads : Same(req'[u], req[u]) /\ req'[u].snap \subseteq req[u].snap
    BY <2>1, FieldSame DEF Same, TypeInv, TypeOK
  <2>3. req[t].snap \subseteq Seen
    BY DEF Seen, TypeInv, TypeOK, Requests
  <2>4. \A i \in Ids : files'[i].done \subseteq files[i].done \/ files'[i].done \subseteq Seen
    BY <1>5, <2>3 DEF SaveSwap, SaveFail, File, TypeInv, TypeOK
  <2>5. Seen' \subseteq Seen \cup {0}
    BY <2>1, <2>2, <2>4, SeenShrinks
  <2> QED BY <1>2, <2>1, <2>2, <2>5 DEF Same
<1>6. CASE SaveOk(t) \/ SaveFailed(t) \/ ((SaveDiscard(t) \/ SaveNote(t)) /\ Goto(t, "answer"))
  <2>1. UNCHANGED <<heap, files, req>>
    BY <1>6 DEF SaveOk, SaveFailed, SaveDiscard, SaveNote
  <2>2. Seen' \subseteq Seen \cup {0}
    BY <2>1, SeenShrinks
  <2> QED BY <1>2, <1>6, <2>1, <2>2 DEF SaveOk, SaveFailed
<1>7. CASE (SaveDiscard(t) \/ SaveNote(t)) /\ req[t].op = "create" /\ Goto(t, "evict")
  <2>1. UNCHANGED <<heap, files, req>>
    BY <1>7 DEF SaveDiscard, SaveNote
  <2>2. Seen' \subseteq Seen \cup {0}
    BY <2>1, SeenShrinks
  <2>3. t \notin Pending'
    BY <1>7, <2>1 DEF Pending
  <2>4. "evict" \in Labels \ {"apply", "probe"}
    BY DEF Labels
  <2> QED BY <1>7, <2>1, <2>2, <2>3, <2>4, MoveCalm DEF Calm
<1> QED
  BY <1>3, <1>4, <1>5, <1>6, <1>7 DEF Save, SaveDiscard, SaveNote, AfterSave

\* The steps of the sweep.
LEMMA SweepCalm ==
  ASSUME TypeInv, TokenInv, NEW t \in Threads, Sweep(t)
  PROVE  Calm
<1>1. \A u \in Threads : Same(req'[u], req[u]) /\ req'[u].snap = req[u].snap
  <2>1. CASE \E x : req' = [req EXCEPT ![t].sweep = x]
    BY <2>1, FieldSame DEF Same, TypeInv, TypeOK
  <2>2. CASE \E x : req' = [req EXCEPT ![t].victim = x]
    BY <2>2, FieldSame DEF Same, TypeInv, TypeOK
  <2>3. CASE req' = req
    BY <2>3 DEF Same
  <2> QED BY <2>1, <2>2, <2>3 DEF Sweep, SweepKeep, SweepExpired, SweepUnlink, SweepUnlinkFails, SweepDone
<1>2. heap' = heap /\ \A i \in Ids : files'[i].done \subseteq files[i].done
  BY DEF Sweep, SweepKeep, SweepExpired, SweepUnlink, SweepUnlinkFails, SweepDone, NoFile, TypeInv, TypeOK
<1>3. Seen' \subseteq Seen \cup {0}
  BY <1>1, <1>2, SeenShrinks
<1>4. \A u \in Threads : pc'[u] = pc[u] \/ (u = t /\ pc'[t] \in {"purge", "sweep", "lock"})
  BY DEF Sweep, SweepKeep, SweepExpired, SweepUnlink, SweepUnlinkFails, SweepDone, Goto, TypeInv, TypeOK
<1> QED BY <1>1, <1>3, <1>4 DEF Calm, OpOK, Pending, TokenInv, Same

\* The steps of the handlers: applying the update of a request ends its pending.
LEMMA HandleTokens ==
  ASSUME TypeInv, TokenInv, NEW t \in Threads, Handle(t)
  PROVE  TokenInv'
<1>1. CASE Apply(t)
  <2>1. t \in Pending /\ req' = req /\ files' = files /\ issued' = issued
    BY <1>1 DEF Apply, OpOK, Pending, TokenInv
  <2>2. \A u \in Threads : pc'[u] = IF u = t THEN "lock" ELSE pc[u]
    BY <1>1 DEF Apply, Goto, TypeInv, TypeOK
  <2>3. Pending' = Pending \ {t}
    BY <2>1, <2>2 DEF Pending
  <2>4. \A o \in Objs : heap'[o] \subseteq heap[o] \cup {req[t].tok}
    BY <1>1 DEF Apply, TypeInv, TypeOK
  <2>5. Seen' \subseteq Seen \cup {req[t].tok}
    BY <2>1, <2>4 DEF Seen
  <2>6. req[t].tok \in 0..issued
    BY <2>1, BoundAssumption DEF TokenInv, TypeInv, TypeOK, Updates
  <2> QED BY <2>1, <2>2, <2>3, <2>5, <2>6 DEF TokenInv, OpOK
<1>2. CASE Refuse(t) \/ RefreshFails(t) \/ Answer(t) \/ Unlink(t) \/ UnlinkFails(t)
  <2>1. Finish(t) /\ issued' = issued
    BY <1>2 DEF Refuse, RefreshFails, Answer, Unlink, UnlinkFails
  <2>2. \A i \in Ids : files'[i].done \subseteq files[i].done
    BY <1>2 DEF Refuse, RefreshFails, Answer, Unlink, UnlinkFails, NoFile, TypeInv, TypeOK
  <2> QED BY <2>1, <2>2, FinishCalm, TokenQuiet DEF Calm
<1>3. CASE Pop(t)
  <2>1. Seen' \subseteq Seen \cup {0}
    BY <1>3, CollectedSeen, SeenShrinks DEF Pop
  <2>2. t \notin Pending'
    BY <1>3 DEF Pop, Goto, Pending, TypeInv, TypeOK
  <2>3. "unlink" \in Labels \ {"apply", "probe"} /\ Goto(t, "unlink") /\ req' = req /\ issued' = issued
    BY <1>3 DEF Pop, Labels
  <2> QED BY <2>1, <2>2, <2>3, MoveCalm, TokenQuiet
<1> QED BY <1>1, <1>2, <1>3 DEF Handle

\* The arrival of a request, which issues the next update.
LEMMA AcceptTokens ==
  ASSUME TypeInv, TokenInv, NEW t \in Threads, Accept(t)
  PROVE  TokenInv'
<1> USE DEF TypeInv, TypeOK
<1>1. ASSUME NEW i \in Ids, Create(t, i) PROVE TokenInv'
  <2>1. PICK sweep \in {Saved, {}} :
          req' = [req EXCEPT ![t] = NewRequest("create", i, FreshObj, 0, sweep)]
    BY <1>1 DEF Create
  <2>2. /\ req'[t].op = "create" /\ req'[t].snap = {} /\ pc'[t] = "sweep"
        /\ \A u \in Threads : u # t => req'[u] = req[u] /\ pc'[u] = pc[u]
    BY <1>1, <2>1 DEF Create, Goto, NewRequest
  <2>3. \A o \in Objs : heap'[o] \subseteq heap[o] \/ heap'[o] \subseteq Seen \cup {0}
    BY <1>1 DEF Create
  <2>4. Seen' \subseteq Seen \cup {0}
    BY <1>1, <2>2, <2>3, SeenShrinks DEF Create
  <2>5. issued' = issued
    BY <1>1 DEF Create
  <2>6. \A u \in Pending' : u \in Pending /\ req'[u].tok = req[u].tok
    BY <2>2 DEF Pending
  <2>7. \A u \in Threads : OpOK(u)'
    BY <2>2 DEF OpOK, TokenInv
  <2> QED BY <2>4, <2>5, <2>6, <2>7, TokenQuiet
<1>2. ASSUME NEW i \in Ids, NEW op \in {"read", "update", "delete"}, Request(t, op, i)
      PROVE  TokenInv'
  <2>1. /\ req'[t].op = op /\ req'[t].snap = {} /\ pc'[t] \in {"load", "touch"}
        /\ req'[t].tok = IF op = "update" THEN issued + 1 ELSE 0
        /\ \A u \in Threads : u # t => req'[u] = req[u] /\ pc'[u] = pc[u]
    BY <1>2 DEF Request, LookedUp, Goto, NewRequest
  <2>2. heap' = heap /\ files' = files /\ pc[t] = "idle"
    BY <1>2 DEF Request
  <2>3. Seen' \subseteq Seen
    BY <2>1, <2>2 DEF Seen
  <2>4. \A u \in Threads : OpOK(u)'
    BY <2>1 DEF OpOK, TokenInv
  <2>5. CASE op # "update"
    <3>1. issued' = issued
      BY <1>2, <2>5 DEF Request
    <3>2. \A u \in Pending' : u \in Pending /\ req'[u].tok = req[u].tok
      BY <2>1, <2>5 DEF Pending
    <3> QED BY <2>3, <2>4, <3>1, <3>2, TokenQuiet
  <2>6. CASE op = "update"
    <3>1. issued' = issued + 1 /\ issued \in Nat
      BY <1>2, <2>6, BoundAssumption DEF Request, Updates
    <3>2. \A u \in Pending' : /\ u = t => req'[u].tok = issued + 1
                              /\ u # t => u \in Pending /\ req'[u].tok = req[u].tok
      BY <2>1, <2>6 DEF Pending
    <3>3. \A u \in Pending' : req'[u].tok \in (1..issued') \ Seen'
      BY <2>3, <3>1, <3>2 DEF TokenInv
    <3>4. \A u, v \in Pending' : req'[u].tok = req'[v].tok => u = v
      BY <3>1, <3>2 DEF TokenInv
    <3>5. Seen' \subseteq 0..issued'
      BY <2>3, <3>1 DEF TokenInv
    <3> QED BY <2>4, <3>3, <3>4, <3>5 DEF TokenInv
  <2> QED BY <2>5, <2>6
<1> QED BY <1>1, <1>2 DEF Accept

\* Every step keeps the token facts.
LEMMA TokenStep == TypeInv /\ TokenInv /\ [Next]_vars => TokenInv'
<1> SUFFICES ASSUME TypeInv, TokenInv, [Next]_vars PROVE TokenInv'
  OBVIOUS
<1>1. ASSUME NEW t \in Threads, Get(t) \/ Evict(t) \/ Save(t) \/ Sweep(t) PROVE TokenInv'
  <2>1. issued' = issued
    BY <1>1 DEF Get, LoadNothing, LoadExpired, Load, UnlinkExpired, UnlinkExpiredFails, Install, Touch, Probe,
       Evict, Save, SaveLock, SaveDump, SaveSwap, SaveFail, SaveOk, SaveDiscard, SaveFailed,
       SaveNote, Sweep, SweepKeep, SweepExpired, SweepUnlink, SweepUnlinkFails, SweepDone
  <2>2. Calm
    BY <1>1, GetCalm, EvictCalm, SaveCalm, SweepCalm
  <2> QED BY <2>1, <2>2, TokenQuiet DEF Calm
<1>2. ASSUME NEW i \in Ids, Age(i) PROVE TokenInv'
  <2>1. UNCHANGED <<heap, req, pc, issued>> /\ \A j \in Ids : files'[j].done = files[j].done
    BY <1>2 DEF Age, TypeInv, TypeOK, SavedFiles
  <2> QED BY <2>1 DEF TokenInv, Seen, Pending, OpOK
<1>3. CASE Crash
  <2>1. Pending' = {} /\ \A u \in Threads : OpOK(u)'
    BY <1>3 DEF Crash, Pending, OpOK
  <2>2. Seen' \subseteq Seen /\ issued' = issued
    BY <1>3 DEF Crash, Seen, NoRequest, NewRequest
  <2> QED BY <2>1, <2>2 DEF TokenInv
<1>4. CASE UNCHANGED vars
  BY <1>4 DEF vars, TokenInv, Seen, Pending, OpOK
<1> QED BY <1>1, <1>2, <1>3, <1>4, HandleTokens, AcceptTokens DEF Next, Step

-----------------------------------------------------------------------------
(* The property.                                                           *)

\* A step that keeps the snapshots on their way, adds nothing to a file and
\* nothing to an object being saved keeps the property.
LEMMA SwapQuiet ==
  ASSUME TypeInv, SaveNeverRegresses,
         \A u \in Threads : pc'[u] = "swap" =>
           /\ pc[u] = "swap" /\ Same(req'[u], req[u]) /\ req'[u].snap = req[u].snap
           /\ heap'[req[u].obj] \subseteq heap[req[u].obj],
         \A i \in Ids : /\ files'[i].done \subseteq files[i].done
                        /\ lockGen'[i] = 0 => lockGen[i] = 0
  PROVE  SaveNeverRegresses'
<1> SUFFICES ASSUME NEW u \in Threads, pc'[u] = "swap", lockGen'[req'[u].id] = 0
             PROVE  files'[req'[u].id].done \cap heap'[req'[u].obj] \subseteq req'[u].snap
  BY DEF SaveNeverRegresses
<1>1. pc[u] = "swap" /\ Same(req'[u], req[u]) /\ req'[u].snap = req[u].snap
  OBVIOUS
<1>2. req[u].id \in Ids /\ req'[u].id = req[u].id /\ req'[u].obj = req[u].obj
  BY <1>1 DEF Same, TypeInv, RequestOK
<1>3. files[req[u].id].done \cap heap[req[u].obj] \subseteq req[u].snap
  BY <1>1, <1>2 DEF SaveNeverRegresses
<1> QED BY <1>1, <1>2, <1>3

\* What the steps outside save() do to the objects being saved.
LEMMA HeapOutside ==
  ASSUME TypeInv, TokenInv, NEW t \in Threads,
         Accept(t) \/ Get(t) \/ Evict(t) \/ Sweep(t) \/ Refuse(t)
           \/ RefreshFails(t) \/ Answer(t) \/ Pop(t) \/ Unlink(t) \/ UnlinkFails(t),
         NEW u \in Threads, pc[u] = "swap"
  PROVE  heap'[req[u].obj] \subseteq heap[req[u].obj]
<1>1. req[u].obj \in Objs
  BY DEF TypeInv, RequestOK, Holding
<1>2. CASE heap' = heap
  BY <1>2
<1>3. CASE \E s, r : heap' = Collected(s, r)
  BY <1>1, <1>3, CollectedSeen
<1>4. CASE Free # {} /\ \E x : heap' = [heap EXCEPT ![FreshObj] = x]
  BY <1>1, <1>4, FreshUnused DEF TypeInv, TypeOK
<1>5. CASE Accept(t)
  BY <1>2, <1>4, <1>5 DEF Accept, Create, Request
<1>6. CASE Get(t)
  BY <1>2, <1>3, <1>4, <1>6 DEF Get, LoadNothing, LoadExpired, Load, UnlinkExpired, UnlinkExpiredFails, Install,
     Touch, Probe, NotFound, Finish
<1>7. CASE Evict(t) \/ Pop(t)
  BY <1>3, <1>7 DEF Evict, Pop
<1>8. CASE Sweep(t)
  BY <1>2, <1>8 DEF Sweep, SweepKeep, SweepExpired, SweepUnlink, SweepUnlinkFails, SweepDone
<1>9. CASE Refuse(t) \/ RefreshFails(t) \/ Answer(t) \/ Unlink(t) \/ UnlinkFails(t)
  BY <1>3, <1>9 DEF Refuse, RefreshFails, Answer, Unlink, UnlinkFails, Finish
<1> QED BY <1>5, <1>6, <1>7, <1>8, <1>9

\* Outside save() files only go away, and save locks are only dropped.
LEMMA FilesOutside ==
  ASSUME TypeInv, NEW t \in Threads,
         Accept(t) \/ Get(t) \/ Evict(t) \/ Sweep(t) \/ Apply(t) \/ Refuse(t)
           \/ RefreshFails(t) \/ Answer(t) \/ Pop(t) \/ Unlink(t) \/ UnlinkFails(t),
         NEW i \in Ids
  PROVE  files'[i].done \subseteq files[i].done /\ (lockGen'[i] = 0 => lockGen[i] = 0)
<1> USE DEF TypeInv, TypeOK, NoFile
<1>1. CASE Accept(t) \/ Evict(t) \/ Apply(t) \/ Refuse(t) \/ RefreshFails(t) \/ Answer(t)
  BY <1>1 DEF Accept, Create, Request, Evict, Apply, Refuse, RefreshFails, Answer
<1>2. CASE Get(t)
  BY <1>2 DEF Get, LoadNothing, LoadExpired, Load, UnlinkExpired, UnlinkExpiredFails, Install, Touch, Probe
<1>3. CASE Sweep(t)
  BY <1>3 DEF Sweep, SweepKeep, SweepExpired, SweepUnlink, SweepUnlinkFails, SweepDone
<1>4. CASE Unlink(t) \/ UnlinkFails(t)
  BY <1>4 DEF Unlink, UnlinkFails
<1>5. CASE Pop(t)
  <2>1. lockGen[i] \in Nat /\ lockGen'[i] \in {lockGen[i], lockGen[i] + 1}
    BY <1>5 DEF Pop
  <2>2. files' = files
    BY <1>5 DEF Pop
  <2> QED BY <2>1, <2>2
<1> QED BY <1>1, <1>2, <1>3, <1>4, <1>5

\* The inductive invariant.
SaveInv == TypeInv /\ LockInv /\ TokenInv /\ SaveNeverRegresses

\* Every step keeps the property.
LEMMA RegressStep == SaveInv /\ [Next]_vars => SaveNeverRegresses'
<1> SUFFICES ASSUME TypeInv, LockInv, TokenInv, SaveNeverRegresses, [Next]_vars
             PROVE  SaveNeverRegresses'
  BY DEF SaveInv
<1>1. ASSUME NEW t \in Threads,
             Accept(t) \/ Get(t) \/ Evict(t) \/ Sweep(t) \/ Refuse(t)
               \/ RefreshFails(t) \/ Answer(t) \/ Pop(t) \/ Unlink(t) \/ UnlinkFails(t)
      PROVE  SaveNeverRegresses'
  <2>1. \A u \in Threads : pc'[u] = "swap" => pc[u] = "swap" /\ req'[u] = req[u]
    BY <1>1, LockOutside DEF Writing
  <2>2. \A u \in Threads : pc[u] = "swap" => heap'[req[u].obj] \subseteq heap[req[u].obj]
    BY <1>1, HeapOutside
  <2>3. \A i \in Ids : files'[i].done \subseteq files[i].done /\ (lockGen'[i] = 0 => lockGen[i] = 0)
    BY <1>1, FilesOutside
  <2> QED BY <2>1, <2>2, <2>3, SwapQuiet DEF Same
\* The update is in no file yet, so a snapshot without it misses nothing.
<1>2. ASSUME NEW t \in Threads, Apply(t) PROVE SaveNeverRegresses'
  <2>1. t \in Pending /\ req' = req /\ files' = files /\ lockGen' = lockGen
    BY <1>2 DEF Apply, OpOK, Pending, TokenInv
  <2>2. \A u \in Threads : pc'[u] = "swap" => pc[u] = "swap"
    BY <1>2 DEF Apply, Goto, TypeInv, TypeOK
  <2>3. \A i \in Ids : req[t].tok \notin files[i].done
    BY <2>1 DEF TokenInv, Seen, TypeInv, TypeOK, SavedFiles
  <2>4. \A o \in Objs : heap'[o] \subseteq heap[o] \cup {req[t].tok}
    BY <1>2 DEF Apply, TypeInv, TypeOK
  <2>5. \A u \in Threads : pc[u] = "swap" => req[u].id \in Ids /\ req[u].obj \in Objs
    BY DEF TypeInv, RequestOK, Holding
  <2> QED BY <2>1, <2>2, <2>3, <2>4, <2>5 DEF SaveNeverRegresses
<1>3. ASSUME NEW t \in Threads, SaveDump(t) PROVE SaveNeverRegresses'
  <2>1. \A u \in Threads : /\ Same(req'[u], req[u]) /\ req'[u].lock = req[u].lock
                           /\ req'[u].snap = IF u = t THEN heap[req[t].obj] ELSE req[u].snap
    BY <1>3, FieldSame DEF SaveDump, Same, TypeInv, TypeOK
  <2>2. \A u \in Threads : pc'[u] = "swap" => u = t \/ pc[u] = "swap"
    BY <1>3 DEF SaveDump, Goto, TypeInv, TypeOK
  <2>3. UNCHANGED <<heap, files, lockGen>>
    BY <1>3 DEF SaveDump
  <2> QED BY <2>1, <2>2, <2>3 DEF SaveNeverRegresses, Same
\* Nobody else swaps under the same lock, and an id whose lock was never
\* dropped has only that one.
<1>4. ASSUME NEW t \in Threads, SaveSwap(t) PROVE SaveNeverRegresses'
  <2>1. pc[t] = "swap" /\ req' = [req EXCEPT ![t].snap = {}] /\ UNCHANGED <<heap, lockGen>>
    BY <1>4 DEF SaveSwap
  <2>2. \A u \in Threads : u # t => Same(req'[u], req[u]) /\ req'[u].snap = req[u].snap
    BY <2>1, FieldSame DEF Same, TypeInv, TypeOK
  <2>3. \A u \in Threads : pc'[u] = "swap" => u # t /\ pc[u] = "swap"
    BY <1>4 DEF SaveSwap, Goto, TypeInv, TypeOK
  <2>4. \A u \in Threads : pc[u] = "swap" /\ u # t /\ lockGen[req[u].id] = 0 => req[u].id # req[t].id
    <3> SUFFICES ASSUME NEW u \in Threads, pc[u] = "swap", u # t, lockGen[req[u].id] = 0,
                        req[u].id = req[t].id
                 PROVE  FALSE
      OBVIOUS
    <3>1. req[u].lock \in 0..0 /\ req[t].lock \in 0..0
      BY <2>1 DEF LockInv, Writing
    <3>2. LockOf(u) = LockOf(t)
      BY <3>1 DEF LockOf
    <3> QED BY <2>1, <3>2 DEF LockInv
  <2>5. \A i \in Ids : i # req[t].id => files'[i] = files[i]
    BY <1>4 DEF SaveSwap, TypeInv, TypeOK
  <2>6. \A u \in Threads : pc[u] = "swap" => req[u].id \in Ids
    BY DEF TypeInv, RequestOK
  <2> QED BY <2>1, <2>2, <2>3, <2>4, <2>5, <2>6 DEF SaveNeverRegresses, Same
<1>5. ASSUME NEW t \in Threads, SaveFail(t) PROVE SaveNeverRegresses'
  <2>1. req' = [req EXCEPT ![t].snap = {}] /\ UNCHANGED <<heap, files, lockGen>>
    BY <1>5 DEF SaveFail
  <2>2. \A u \in Threads : u # t => Same(req'[u], req[u]) /\ req'[u].snap = req[u].snap
    BY <2>1, FieldSame DEF Same, TypeInv, TypeOK
  <2>3. \A u \in Threads : pc'[u] = "swap" => u # t /\ pc[u] = "swap"
    BY <1>5 DEF SaveFail, Goto, TypeInv, TypeOK
  <2> QED BY <2>1, <2>2, <2>3, SwapQuiet
<1>6. ASSUME NEW t \in Threads, SaveLock(t) PROVE SaveNeverRegresses'
  <2>1. \A u \in Threads : Same(req'[u], req[u]) /\ req'[u].snap = req[u].snap
    BY <1>6, FieldSame DEF SaveLock, Same, TypeInv, TypeOK
  <2>2. \A u \in Threads : pc'[u] = "swap" => pc[u] = "swap"
    BY <1>6 DEF SaveLock, Goto, TypeInv, TypeOK
  <2> QED BY <1>6, <2>1, <2>2, SwapQuiet DEF SaveLock
<1>7. ASSUME NEW t \in Threads, SaveOk(t) \/ SaveDiscard(t) \/ SaveFailed(t) \/ SaveNote(t)
      PROVE  SaveNeverRegresses'
  <2>1. UNCHANGED <<heap, files, lockGen, req>>
    BY <1>7 DEF SaveOk, SaveDiscard, SaveFailed, SaveNote
  <2>2. \A u \in Threads : pc'[u] = "swap" => pc[u] = "swap"
    BY <1>7 DEF SaveOk, SaveDiscard, SaveFailed, SaveNote, AfterSave, Goto, TypeInv, TypeOK
  <2> QED BY <2>1, <2>2, SwapQuiet DEF Same
<1>8. ASSUME NEW i \in Ids, Age(i) PROVE SaveNeverRegresses'
  <2>1. UNCHANGED <<heap, req, pc, lockGen>> /\ \A j \in Ids : files'[j].done = files[j].done
    BY <1>8 DEF Age, TypeInv, TypeOK, SavedFiles
  <2> QED BY <2>1, SwapQuiet DEF Same
<1>9. CASE Crash
  BY <1>9 DEF Crash, SaveNeverRegresses
<1>10. CASE UNCHANGED vars
  BY <1>10 DEF vars, SaveNeverRegresses
<1> QED
  BY <1>1, <1>2, <1>3, <1>4, <1>5, <1>6, <1>7, <1>8, <1>9, <1>10 DEF Next, Step, Save, Handle

\* Whatever requests run at once and whatever fails, expires, is deleted or
\* restarts: while no delete has retired a session's save lock, a save never
\* takes out of the file an update that its own session object holds.
THEOREM SavesInOrder == Spec => []SaveNeverRegresses
<1>1. Init => SaveInv
  <2>1. Init => LockInv
    BY DEF Init, LockInv, Writing
  <2>2. Init => TokenInv
    BY DEF Init, TokenInv, Seen, Pending, OpOK, NoFile, NoRequest, NewRequest
  <2>3. Init => SaveNeverRegresses
    BY DEF Init, SaveNeverRegresses
  <2> QED BY <2>1, <2>2, <2>3, InitType DEF SaveInv
<1>2. SaveInv /\ [Next]_vars => SaveInv'
  BY TypeStep, LockStep, TokenStep, RegressStep DEF SaveInv
<1>3. SaveInv => SaveNeverRegresses
  BY DEF SaveInv
<1> QED BY <1>1, <1>2, <1>3, PTL DEF Spec

=============================================================================
