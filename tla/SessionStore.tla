---------------------------- MODULE SessionStore ----------------------------
(***************************************************************************)
(* The session table of backend/session/session_manager.py, shared by the  *)
(* threads that serve requests, with PREREQAI_SESSION_DIR set: sessions    *)
(* live in memory, every change is saved to one file per session, the      *)
(* idlest are dropped from memory past a cap and restored on request, old  *)
(* files expire, and a restart keeps the files only.                       *)
(*                                                                         *)
(* A session object is shared and mutable: two requests that got the same  *)
(* object see each other's changes, two that got copies do not.  What a    *)
(* session holds is the set of updates applied to it; update 0 is its      *)
(* creation.  One step of a thread is what the code does between two       *)
(* points where another thread may run: a block under _lock, one access to *)
(* a shared dictionary or flag, one file operation.                        *)
(***************************************************************************)
EXTENDS Naturals, FiniteSets

CONSTANTS
  Threads,      \* the threads that serve requests: workers and the event loop
  Ids,          \* session ids
  Objs,         \* addresses of session objects
  NoId, NoObj,  \* no session id, no object
  Serves,       \* the kinds of request each thread serves
  Markers,      \* the threads whose updates are marks: the event loop
  Cap,          \* MAX_SESSIONS_IN_MEMORY
  MaxUpdates,   \* bound: learner changes requested in a behaviour
  MaxFail,      \* bound: file operations that fail
  MaxAge,       \* bound: files that pass their expiry
  MaxCrash      \* bound: restarts of the server

Kinds   == {"create", "read", "update", "delete"}
Updates == 0..MaxUpdates

ASSUME ServesAssumption == Serves \in [Threads -> SUBSET Kinds]
ASSUME NoneAssumption   == NoId \notin Ids /\ NoObj \notin Objs
ASSUME BoundAssumption  == /\ Cap \in Nat /\ MaxUpdates \in Nat /\ MaxFail \in Nat
                           /\ MaxAge \in Nat /\ MaxCrash \in Nat

VARIABLES
  sessions,     \* self.sessions: id -> object, NoObj when absent
  heap,         \* object -> the updates it holds ({} for a free address)
  files,        \* id -> its saved file
  unsaved,      \* self._unsaved
  saveLocks,    \* ids with an entry in self._save_locks
  lockGen,      \* id -> entries of _save_locks dropped so far: names the lock
  locked,       \* the save locks held, as <<id, generation>>
  lastUsed,     \* ids with an entry in self._last_used
  older,        \* <<a, b>>: a's time in _last_used precedes b's
  lastSaveOk,   \* self.last_save_ok
  pc,           \* thread -> the step it takes next
  req,          \* thread -> the local state of its request
  issued,       \* history: updates requested so far
  born,         \* history: ids ever created
  acked,        \* history: id -> updates answered without a "not saved" warning
  deleted,      \* history: ids whose deletion removed the file
  raced,        \* history: ids with another request open during a delete
  shared,       \* history: ids with two requests open at once
  doomed,       \* history: ids a client asked to delete
  failed,       \* history: updates answered with an error though they were made
  fails, ages, crashes   \* what is used up of the three fault bounds

table    == <<sessions, heap>>
marks    == <<unsaved, lastSaveOk>>
locks    == <<saveLocks, lockGen, locked>>
recency  == <<lastUsed, older>>
history  == <<issued, born, acked, deleted, raced, shared, doomed, failed>>
faults   == <<fails, ages, crashes>>
vars     == <<table, files, marks, locks, recency, pc, req, history, faults>>

-----------------------------------------------------------------------------
(* Files, requests and objects.                                            *)

NoFile == [here |-> FALSE, done |-> {}, old |-> FALSE]
SavedFiles == [here : BOOLEAN, done : SUBSET Updates, old : BOOLEAN]
File(done) == [here |-> TRUE, done |-> done, old |-> FALSE]

\* The local variables of a request: what it is about (op, id), the session
\* object it got, the update it makes, its pickled snapshot, the generation of
\* the save lock it looked up, the files its sweep still has to look at and the
\* one it found expired.
Requests == [op : Kinds \cup {"probe", "none"}, id : Ids \cup {NoId},
             obj : Objs \cup {NoObj}, tok : Updates, snap : SUBSET Updates,
             lock : Nat, sweep : SUBSET Ids, victim : Ids \cup {NoId}]
NewRequest(op, i, obj, tok, sweep) ==
  [op |-> op, id |-> i, obj |-> obj, tok |-> tok, snap |-> {}, lock |-> 0,
   sweep |-> sweep, victim |-> NoId]
NoRequest == NewRequest("none", NoId, NoObj, 0, {})

InTable == {i \in Ids : sessions[i] # NoObj}
Saved   == {i \in Ids : files[i].here}

\* The objects something still refers to; the others are free addresses.
Live(s, r) == {s[i] : i \in Ids} \cup {r[t].obj : t \in Threads}
Free       == Objs \ Live(sessions, req)
FreshObj   == CHOOSE o \in Free : TRUE

\* The heap once the objects nothing refers to are gone.
Collected(s, r) == [o \in Objs |-> IF o \in Live(s, r) THEN heap[o] ELSE {}]

Goto(t, label) == pc' = [pc EXCEPT ![t] = label]

\* The request of t is answered.
Finish(t) ==
  /\ Goto(t, "idle")
  /\ req' = [req EXCEPT ![t] = NoRequest]
  /\ heap' = Collected(sessions, req')

\* _last_used[i] = time.time(): i is now the most recently used.
Use(i) ==
  /\ lastUsed' = lastUsed \cup {i}
  /\ older' = {p \in older : p[1] # i /\ p[2] # i} \cup ((lastUsed \ {i}) \X {i})

\* _last_used.pop for every id of S.
Forget(S) ==
  /\ lastUsed' = lastUsed \ S
  /\ older' = {p \in older : p[1] \notin S /\ p[2] \notin S}

\* Another request open on i, one of the two being a delete.
Clash(t, op, i) == \E u \in Threads \ {t} : /\ req[u].id = i
                                            /\ "delete" \in {op, req[u].op}

\* Another request open on i.
Busy(t, i) == \E u \in Threads \ {t} : req[u].id = i

-----------------------------------------------------------------------------
(* create(): insert and stamp the session under _lock, sweep expired files *)
(* if no sweep ran in the last minute, save, evict.                        *)

Create(t, i) ==
  /\ pc[t] = "idle" /\ "create" \in Serves[t]
  /\ i \notin born /\ Free # {}
  /\ \E sweep \in {Saved, {}} :
       req' = [req EXCEPT ![t] = NewRequest("create", i, FreshObj, 0, sweep)]
  /\ sessions' = [sessions EXCEPT ![i] = FreshObj]
  /\ heap' = [heap EXCEPT ![FreshObj] = {0}]
  /\ Use(i)
  /\ born' = born \cup {i}
  /\ Goto(t, "sweep")
  /\ UNCHANGED <<files, marks, locks, issued, acked, deleted, raced, shared, doomed, failed, faults>>

\* purge_expired: look at one of the listed files.
SweepKeep(t) ==
  /\ pc[t] = "sweep"
  /\ \E i \in req[t].sweep : /\ ~files[i].old
                             /\ req' = [req EXCEPT ![t].sweep = @ \ {i}]
  /\ UNCHANGED <<table, files, marks, locks, recency, pc, history, faults>>

SweepExpired(t) ==
  /\ pc[t] = "sweep"
  /\ \E i \in req[t].sweep : /\ files[i].old
                             /\ req' = [req EXCEPT ![t].victim = i]
  /\ Goto(t, "purge")
  /\ UNCHANGED <<table, files, marks, locks, recency, history, faults>>

\* path.unlink() of purge_expired, whatever the file has become since the look.
SweepUnlink(t) ==
  /\ pc[t] = "purge"
  /\ files' = [files EXCEPT ![req[t].victim] = NoFile]
  /\ req' = [req EXCEPT ![t].sweep = @ \ {req[t].victim}]
  /\ Goto(t, "sweep")
  /\ UNCHANGED <<table, marks, locks, recency, history, faults>>

\* OSError: swallowed, the file stays and the sweep goes on.
SweepUnlinkFails(t) ==
  /\ pc[t] = "purge" /\ fails < MaxFail /\ files[req[t].victim].here
  /\ fails' = fails + 1
  /\ req' = [req EXCEPT ![t].sweep = @ \ {req[t].victim}]
  /\ Goto(t, "sweep")
  /\ UNCHANGED <<table, files, marks, locks, recency, history, ages, crashes>>

SweepDone(t) ==
  /\ pc[t] = "sweep" /\ req[t].sweep = {}
  /\ Goto(t, "lock")
  /\ UNCHANGED <<table, files, marks, locks, recency, req, history, faults>>

-----------------------------------------------------------------------------
(* get(): the first step of every request about an existing session.       *)

\* Where get() goes on after sessions.get(i).
LookedUp(i) == IF sessions[i] = NoObj THEN "load" ELSE "touch"

\* The request arrives and looks its id up in the table, without _lock.
Request(t, op, i) ==
  /\ pc[t] = "idle" /\ op \in Serves[t] \ {"create"} /\ i \in born
  /\ op = "update" => issued < MaxUpdates
  /\ issued' = IF op = "update" THEN issued + 1 ELSE issued
  /\ req' = [req EXCEPT ![t] =
               NewRequest(op, i, sessions[i], IF op = "update" THEN issued + 1 ELSE 0, {})]
  /\ Goto(t, LookedUp(i))
  /\ raced' = IF Clash(t, op, i) THEN raced \cup {i} ELSE raced
  /\ shared' = IF Busy(t, i) THEN shared \cup {i} ELSE shared
  /\ doomed' = IF op = "delete" THEN doomed \cup {i} ELSE doomed
  /\ UNCHANGED <<table, files, marks, locks, recency, born, acked, deleted, failed, faults>>

\* get() returns None.  A delete goes on; the other handlers answer 404, for
\* which session_not_found probes whether an unreadable file is the cause.
NotFound(t) ==
  \/ /\ req[t].op = "delete"
     /\ Goto(t, "pop")
     /\ UNCHANGED <<req, heap>>
  \/ /\ req[t].op \in {"read", "update"}
     /\ Goto(t, "probe")
     /\ req' = [req EXCEPT ![t].op = "probe"]
     /\ UNCHANGED heap
  \/ /\ req[t].op = "probe"
     /\ Finish(t)

\* is_unreadable: if there is a file by now, get() once more.
Probe(t) ==
  /\ pc[t] = "probe"
  /\ \/ /\ ~files[req[t].id].here
        /\ Finish(t)
     \/ /\ files[req[t].id].here
        /\ req' = [req EXCEPT ![t].obj = sessions[req[t].id]]
        /\ Goto(t, LookedUp(req[t].id))
        /\ UNCHANGED heap
  /\ UNCHANGED <<sessions, files, marks, locks, recency, history, faults>>

\* The saved file is missing, past its expiry, or read into a new object.
LoadNothing(t) ==
  /\ pc[t] = "load" /\ ~files[req[t].id].here
  /\ NotFound(t)
  /\ UNCHANGED <<sessions, files, marks, locks, recency, history, faults>>

LoadExpired(t) ==
  /\ pc[t] = "load" /\ files[req[t].id].old
  /\ Goto(t, "expire")
  /\ UNCHANGED <<table, files, marks, locks, recency, req, history, faults>>

Load(t) ==
  /\ pc[t] = "load" /\ files[req[t].id].here /\ ~files[req[t].id].old
  /\ Free # {}
  /\ req' = [req EXCEPT ![t].obj = FreshObj]
  /\ heap' = [heap EXCEPT ![FreshObj] = files[req[t].id].done]
  /\ Goto(t, "install")
  /\ UNCHANGED <<sessions, files, marks, locks, recency, history, faults>>

\* path.unlink() of get, whatever the file has become since the look.
UnlinkExpired(t) ==
  /\ pc[t] = "expire"
  /\ files' = [files EXCEPT ![req[t].id] = NoFile]
  /\ NotFound(t)
  /\ UNCHANGED <<sessions, marks, locks, recency, history, faults>>

\* OSError: not caught, the request ends in an error.
UnlinkExpiredFails(t) ==
  /\ pc[t] = "expire" /\ fails < MaxFail /\ files[req[t].id].here
  /\ fails' = fails + 1
  /\ Finish(t)
  /\ UNCHANGED <<sessions, files, marks, locks, recency, history, ages, crashes>>

\* Slip: self.sessions[session_id] = session, the last restored object wins.
MutantKeptLast(t) == req[t].obj

\* Slip: setdefault(session_id, session_id), the arguments confused.
MutantKeptId(t) == req[t].id

\* sessions.setdefault under _lock: the first restored object is kept.
Kept(t) == IF sessions[req[t].id] = NoObj THEN req[t].obj ELSE sessions[req[t].id]

Install(t) ==
  /\ pc[t] = "install"
  /\ sessions' = [sessions EXCEPT ![req[t].id] = Kept(t)]
  /\ req' = [req EXCEPT ![t].obj = Kept(t)]
  /\ heap' = Collected(sessions', req')
  /\ Goto(t, "touch")
  /\ UNCHANGED <<files, marks, locks, recency, history, faults>>

\* Slip: a restore is stamped but does not evict.
MutantTouchNoEvict(t) ==
  /\ pc[t] = "touch"
  /\ Use(req[t].id)
  /\ Goto(t, [read |-> "answer", update |-> "apply", delete |-> "pop",
              probe |-> "answer"][req[t].op])
  /\ UNCHANGED <<table, files, marks, locks, req, history, faults>>

Touch(t) ==
  /\ pc[t] = "touch"
  /\ Use(req[t].id)
  /\ Goto(t, "evict")
  /\ UNCHANGED <<table, files, marks, locks, req, history, faults>>

-----------------------------------------------------------------------------
(* _evict_oldest(): past the cap, drop the idlest sessions whose latest    *)
(* save did not fail.                                                      *)

Excess    == Cardinality(InTable) - Cap
Evictable == InTable \ unsaved

\* V is a possible result of the sort: as many as the excess asks for, nobody
\* kept idler than one dropped (an id without a time has no known place).
Idlest(V) ==
  /\ Cardinality(V) = IF Excess <= Cardinality(Evictable) THEN Excess
                      ELSE Cardinality(Evictable)
  /\ \A v \in V, k \in Evictable \ V : <<k, v>> \notin older

Victims == IF Cardinality(InTable) <= Cap THEN {{}}
           ELSE {V \in SUBSET Evictable : Idlest(V)}

Drop(V) ==
  /\ sessions' = [i \in Ids |-> IF i \in V THEN NoObj ELSE sessions[i]]
  /\ Forget(V)

AfterEvict == [create |-> "answer", read |-> "answer", update |-> "apply", delete |-> "pop",
               probe |-> "answer"]

Evict(t) ==
  /\ pc[t] = "evict"
  /\ \E V \in Victims : Drop(V)
  /\ Goto(t, AfterEvict[req[t].op])
  /\ heap' = Collected(sessions', req)
  /\ UNCHANGED <<files, marks, locks, req, history, faults>>

-----------------------------------------------------------------------------
(* The handlers.  An update is a mark (studied, known) on the event loop   *)
(* or a question on a worker: change the object, save it, answer with or   *)
(* without the warning that the change was not saved.                      *)

\* Slip: the handler changes the session and answers without saving it.
MutantApply(t) ==
  /\ pc[t] = "apply"
  /\ heap' = [heap EXCEPT ![req[t].obj] = @ \cup {req[t].tok}]
  /\ Goto(t, "answer")
  /\ UNCHANGED <<sessions, files, marks, locks, recency, req, history, faults>>

Apply(t) ==
  /\ pc[t] = "apply"
  /\ heap' = [heap EXCEPT ![req[t].obj] = @ \cup {req[t].tok}]
  /\ Goto(t, "lock")
  /\ UNCHANGED <<sessions, files, marks, locks, recency, req, history, faults>>

\* The change is refused (a concept not in the plan, a blank question, a name
\* already known) or fails and is rolled back: nothing is saved.
Refuse(t) ==
  /\ pc[t] = "apply"
  /\ Finish(t)
  /\ UNCHANGED <<sessions, files, marks, locks, recency, history, faults>>

\* The concept is marked studied, in place, and then _refresh_progress raises:
\* the answer is an error, and the change stays in the object, neither saved nor
\* marked unsaved.
RefreshFails(t) ==
  /\ pc[t] = "lock" /\ req[t].op = "update" /\ t \in Markers
  /\ failed' = failed \cup {req[t].tok}
  /\ Finish(t)
  /\ UNCHANGED <<sessions, files, marks, locks, recency, issued, born, acked, deleted, raced, shared, doomed, faults>>

\* The handler reads session_manager.last_save_ok to decide on the warning.
Answer(t) ==
  /\ pc[t] = "answer"
  /\ acked' = IF lastSaveOk /\ req[t].op \in {"create", "update"}
              THEN [acked EXCEPT ![req[t].id] = @ \cup {req[t].tok}] ELSE acked
  /\ Finish(t)
  /\ UNCHANGED <<sessions, files, marks, locks, recency, issued, born, deleted, raced, shared, doomed, failed, faults>>

\* Slip: delete() leaves the id's time in _last_used.
MutantPop(t) ==
  LET i == req[t].id IN
  /\ pc[t] = "pop"
  /\ sessions' = [sessions EXCEPT ![i] = NoObj]
  /\ saveLocks' = saveLocks \ {i}
  /\ lockGen' = [lockGen EXCEPT ![i] = IF i \in saveLocks THEN @ + 1 ELSE @]
  /\ unsaved' = unsaved \ {i}
  /\ heap' = Collected(sessions', req)
  /\ Goto(t, "unlink")
  /\ UNCHANGED <<recency, files, lastSaveOk, locked, req, history, faults>>

\* delete(), under _lock: the table and the bookkeeping forget the id.
Pop(t) ==
  LET i == req[t].id IN
  /\ pc[t] = "pop"
  /\ sessions' = [sessions EXCEPT ![i] = NoObj]
  /\ saveLocks' = saveLocks \ {i}
  /\ lockGen' = [lockGen EXCEPT ![i] = IF i \in saveLocks THEN @ + 1 ELSE @]
  /\ unsaved' = unsaved \ {i}
  /\ Forget({i})
  /\ heap' = Collected(sessions', req)
  /\ Goto(t, "unlink")
  /\ UNCHANGED <<files, lastSaveOk, locked, req, history, faults>>

Unlink(t) ==
  /\ pc[t] = "unlink"
  /\ files' = [files EXCEPT ![req[t].id] = NoFile]
  /\ deleted' = deleted \cup {req[t].id}
  /\ Finish(t)
  /\ UNCHANGED <<sessions, marks, locks, recency, issued, born, acked, raced, shared, doomed, failed, faults>>

\* OSError: swallowed, the file stays.
UnlinkFails(t) ==
  /\ pc[t] = "unlink" /\ fails < MaxFail /\ files[req[t].id].here
  /\ fails' = fails + 1
  /\ Finish(t)
  /\ UNCHANGED <<sessions, files, marks, locks, recency, history, ages, crashes>>

-----------------------------------------------------------------------------
(* save(): look up the session's save lock, pickle and swap under it, then *)
(* record the outcome in last_save_ok and in _unsaved.                     *)

LockOf(t) == <<req[t].id, req[t].lock>>

SaveLock(t) ==
  /\ pc[t] = "lock"
  /\ saveLocks' = saveLocks \cup {req[t].id}
  /\ req' = [req EXCEPT ![t].lock = lockGen[req[t].id]]
  /\ Goto(t, "dump")
  /\ UNCHANGED <<table, files, marks, lockGen, locked, recency, history, faults>>

\* Slip: the snapshot is taken without waiting for the session's save lock.
MutantSaveDump(t) ==
  /\ pc[t] = "dump"
  /\ locked' = locked \cup {LockOf(t)}
  /\ req' = [req EXCEPT ![t].snap = heap[req[t].obj]]
  /\ Goto(t, "swap")
  /\ UNCHANGED <<table, files, marks, saveLocks, lockGen, recency, history, faults>>

\* Acquire the lock, pickle the object as it is now, write the temp file.
SaveDump(t) ==
  /\ pc[t] = "dump" /\ LockOf(t) \notin locked
  /\ locked' = locked \cup {LockOf(t)}
  /\ req' = [req EXCEPT ![t].snap = heap[req[t].obj]]
  /\ Goto(t, "swap")
  /\ UNCHANGED <<table, files, marks, saveLocks, lockGen, recency, history, faults>>

\* temp.replace(path), then the lock is released.
SaveSwap(t) ==
  /\ pc[t] = "swap"
  /\ files' = [files EXCEPT ![req[t].id] = File(req[t].snap)]
  /\ req' = [req EXCEPT ![t].snap = {}]
  /\ locked' = locked \ {LockOf(t)}
  /\ Goto(t, "ok")
  /\ UNCHANGED <<table, marks, saveLocks, lockGen, recency, history, faults>>

\* Slip: a failed write leaves the save lock held (acquire without with).
MutantSaveFail(t) ==
  /\ pc[t] = "swap" /\ fails < MaxFail
  /\ fails' = fails + 1
  /\ req' = [req EXCEPT ![t].snap = {}]
  /\ Goto(t, "failed")
  /\ UNCHANGED <<table, files, marks, locks, recency, history, ages, crashes>>

\* Writing the temp file or the swap fails: the lock is released, no file changed.
SaveFail(t) ==
  /\ pc[t] = "swap" /\ fails < MaxFail
  /\ fails' = fails + 1
  /\ req' = [req EXCEPT ![t].snap = {}]
  /\ locked' = locked \ {LockOf(t)}
  /\ Goto(t, "failed")
  /\ UNCHANGED <<table, files, marks, saveLocks, lockGen, recency, history, ages, crashes>>

AfterSave(t) == Goto(t, IF req[t].op = "create" THEN "evict" ELSE "answer")

SaveOk(t) ==
  /\ pc[t] = "ok"
  /\ lastSaveOk' = TRUE
  /\ Goto(t, "discard")
  /\ UNCHANGED <<table, files, unsaved, locks, recency, req, history, faults>>

SaveDiscard(t) ==
  /\ pc[t] = "discard"
  /\ unsaved' = unsaved \ {req[t].id}
  /\ AfterSave(t)
  /\ UNCHANGED <<table, files, lastSaveOk, locks, recency, req, history, faults>>

SaveFailed(t) ==
  /\ pc[t] = "failed"
  /\ lastSaveOk' = FALSE
  /\ Goto(t, "note")
  /\ UNCHANGED <<table, files, unsaved, locks, recency, req, history, faults>>

\* Slip: a failed save sets the flag but does not mark the session.
MutantSaveNote(t) ==
  /\ pc[t] = "note"
  /\ AfterSave(t)
  /\ UNCHANGED <<table, files, marks, locks, recency, req, history, faults>>

SaveNote(t) ==
  /\ pc[t] = "note"
  /\ unsaved' = unsaved \cup {req[t].id}
  /\ AfterSave(t)
  /\ UNCHANGED <<table, files, lastSaveOk, locks, recency, req, history, faults>>

-----------------------------------------------------------------------------
(* Time and restarts.                                                      *)

\* A file's last save becomes older than PREREQAI_SESSION_MAX_AGE_DAYS.
Age(i) ==
  /\ files[i].here /\ ~files[i].old /\ ages < MaxAge
  /\ files' = [files EXCEPT ![i].old = TRUE]
  /\ ages' = ages + 1
  /\ UNCHANGED <<table, marks, locks, recency, pc, req, history, fails, crashes>>

\* The process stops anywhere and starts again with the files alone.
Crash ==
  /\ crashes < MaxCrash
  /\ crashes' = crashes + 1
  /\ sessions' = [i \in Ids |-> NoObj]
  /\ heap' = [o \in Objs |-> {}]
  /\ unsaved' = {} /\ lastSaveOk' = TRUE
  /\ saveLocks' = {} /\ lockGen' = [i \in Ids |-> 0] /\ locked' = {}
  /\ lastUsed' = {} /\ older' = {}
  /\ pc' = [t \in Threads |-> "idle"]
  /\ req' = [t \in Threads |-> NoRequest]
  /\ UNCHANGED <<files, history, fails, ages>>

-----------------------------------------------------------------------------
Init ==
  /\ sessions = [i \in Ids |-> NoObj]
  /\ heap = [o \in Objs |-> {}]
  /\ files = [i \in Ids |-> NoFile]
  /\ unsaved = {} /\ lastSaveOk = TRUE
  /\ saveLocks = {} /\ lockGen = [i \in Ids |-> 0] /\ locked = {}
  /\ lastUsed = {} /\ older = {}
  /\ pc = [t \in Threads |-> "idle"]
  /\ req = [t \in Threads |-> NoRequest]
  /\ issued = 0 /\ born = {} /\ acked = [i \in Ids |-> {}]
  /\ deleted = {} /\ raced = {} /\ shared = {} /\ doomed = {} /\ failed = {}
  /\ fails = 0 /\ ages = 0 /\ crashes = 0

Get(t)    == \/ LoadNothing(t) \/ LoadExpired(t) \/ Load(t) \/ UnlinkExpired(t)
             \/ UnlinkExpiredFails(t) \/ Install(t) \/ Touch(t) \/ Probe(t)
Save(t)   == \/ SaveLock(t) \/ SaveDump(t) \/ SaveSwap(t) \/ SaveFail(t)
             \/ SaveOk(t) \/ SaveDiscard(t) \/ SaveFailed(t) \/ SaveNote(t)
Sweep(t)  == SweepKeep(t) \/ SweepExpired(t) \/ SweepUnlink(t)
             \/ SweepUnlinkFails(t) \/ SweepDone(t)
Handle(t) == \/ Apply(t) \/ Refuse(t) \/ RefreshFails(t) \/ Answer(t)
             \/ Pop(t) \/ Unlink(t) \/ UnlinkFails(t)

\* What a thread does once it has accepted a request.
Step(t) == Get(t) \/ Evict(t) \/ Save(t) \/ Sweep(t) \/ Handle(t)

Accept(t) == \E i \in Ids : \/ Create(t, i)
                            \/ \E op \in {"read", "update", "delete"} : Request(t, op, i)

Next == \/ \E t \in Threads : Accept(t) \/ Step(t)
        \/ \E i \in Ids : Age(i)
        \/ Crash

Spec == Init /\ [][Next]_vars

\* A thread that has accepted a request keeps running; nothing obliges clients
\* to send one, files to age or the server to stop.
FairSpec == Spec /\ \A t \in Threads : WF_vars(Step(t))

-----------------------------------------------------------------------------
(* Properties.                                                             *)

Labels == {"idle", "probe", "touch", "load", "expire", "install", "evict", "apply", "answer",
           "pop", "unlink", "sweep", "purge", "lock", "dump", "swap", "ok",
           "discard", "failed", "note"}

\* The type of every variable.
TypeOK ==
  /\ sessions \in [Ids -> Objs \cup {NoObj}]
  /\ heap \in [Objs -> SUBSET Updates]
  /\ files \in [Ids -> SavedFiles]
  /\ unsaved \in SUBSET Ids /\ lastSaveOk \in BOOLEAN
  /\ saveLocks \in SUBSET Ids /\ lockGen \in [Ids -> Nat]
  /\ locked \in SUBSET (Ids \X Nat)
  /\ lastUsed \in SUBSET Ids /\ older \in SUBSET (Ids \X Ids)
  /\ pc \in [Threads -> Labels]
  /\ req \in [Threads -> Requests]
  /\ issued \in Updates /\ born \in SUBSET Ids /\ acked \in [Ids -> SUBSET Updates]
  /\ deleted \in SUBSET Ids /\ raced \in SUBSET Ids /\ shared \in SUBSET Ids
  /\ doomed \in SUBSET Ids /\ failed \in SUBSET Updates
  /\ fails \in 0..MaxFail /\ ages \in 0..MaxAge /\ crashes \in 0..MaxCrash

\* The session a client sees: the object in memory, else what the file holds.
Value(i) == IF sessions[i] # NoObj THEN heap[sessions[i]] ELSE files[i].done

\* A change answered as saved is still in the session, in memory or restored
\* from its file, across restarts (save, get, the warning of _unsaved()).
AckedRecoverable == \A i \in Ids : acked[i] \subseteq Value(i)

\* The saved file keeps every change answered as saved: no later save of the
\* session replaces it with an older state (the comment in save()).
FileKeepsAcked == \A i \in Ids : acked[i] \subseteq files[i].done

\* While a session is in memory its object is never replaced by another one:
\* requests that restore it at once end up with the same object (get()).
NoEntryReplaced ==
  [][\A i \in Ids : sessions[i] # NoObj => sessions'[i] \in {sessions[i], NoObj}]_vars

\* A save about to swap its snapshot in never drops from the file an update its
\* own session object holds, however many saves of the session run at once.
\* (A delete retires the save lock, so only ids no delete retired one for.)
SaveNeverRegresses ==
  \A t \in Threads : pc[t] = "swap" /\ lockGen[req[t].id] = 0 =>
    files[req[t].id].done \cap heap[req[t].obj] \subseteq req[t].snap

\* Requests that put a session in the table and have not run eviction yet.
Growing == {t \in Threads : \/ pc[t] \in {"touch", "evict"}
                            \/ /\ req[t].op = "create"
                               /\ pc[t] \notin {"answer", "idle"}}

\* Memory stays within the cap but for the sessions eviction must keep because
\* a save failed and those of requests that have yet to run eviction.
MemoryBounded ==
  Cardinality(InTable) <= (IF fails > Cap THEN fails ELSE Cap) + Cardinality(Growing)

\* After a delete that had the session to itself, the id is unknown for good:
\* nothing in memory, no bookkeeping, no file (delete()).
QuietDeleteFinal ==
  \A i \in deleted \ raced :
    /\ sessions[i] = NoObj /\ ~files[i].here
    /\ i \notin unsaved \cup saveLocks \cup lastUsed

\* A deleted session's id is unknown afterwards (delete_session's docstring).
DeletedStaysDeleted ==
  \A i \in deleted : sessions[i] = NoObj /\ ~files[i].here

\* A session no request is working on whose memory holds progress the file
\* lacks is marked unsaved, so that eviction keeps it (__init__'s comment); but
\* for progress the learner was told is an error.
UnsavedTracked ==
  \A i \in InTable : (\A t \in Threads : req[t].id # i) =>
    (heap[sessions[i]] \subseteq files[i].done \cup failed \/ i \in unsaved)

\* The same of a session that never had two requests open at once, as long as
\* no file has expired: eviction by other requests cannot take its progress.
AloneTracked ==
  ages = 0 => \A i \in InTable \ shared : (\A t \in Threads : req[t].id # i) =>
                (heap[sessions[i]] \subseteq files[i].done \cup failed \/ i \in unsaved)

\* And as long as the disk works too, its file keeps every change that was
\* answered as saved until the session is deleted, however often it is evicted
\* and restored.
AloneKept ==
  ages = 0 /\ fails = 0 =>
    \A i \in Ids \ (shared \cup deleted) : acked[i] \subseteq files[i].done

\* Every accepted request is answered (or lost in a restart): no path through
\* save() keeps the save lock.
EveryRequestAnswered == \A t \in Threads : pc[t] # "idle" ~> pc[t] = "idle"

-----------------------------------------------------------------------------
(* With a working disk and no expiry the store is durable if it has room in *)
(* memory, or if requests about one session do not overlap.                *)

Durable == INSTANCE DurableSessions WITH value <- [i \in Ids |-> Value(i)]
DurableSpec == Durable!Spec

\* No more sessions were created than memory has room for, no write failed, no
\* file expired and nobody asked for a delete.
Steady == Cardinality(born) <= Cap /\ fails = 0 /\ ages = 0 /\ doomed = {}

\* As long as that is so, the saved file keeps every change answered as saved,
\* however many requests about one session overlap and across restarts: no later
\* save of the session replaces it with an older state (the comment in save()).
SteadyKeepsAcked == Steady => FileKeepsAcked

\* And every step is one of the durable service.
SteadyIsDurable == [][Steady' => [Durable!Next]_(Durable!dvars)]_vars

\* No two requests on one session overlapped, nothing was deleted, no file
\* expired and no write failed.
Undisturbed == shared = {} /\ deleted = {} /\ ages = 0 /\ fails = 0

\* As long as that is so the store is durable with less room than sessions, too:
\* what an eviction takes from a request that has yet to save is as in a restart,
\* and its save brings it back, with what marks that failed had left in the object.
EvictionIsDurable == [][Undisturbed' => [Durable!Next]_(Durable!dvars)]_vars

=============================================================================
