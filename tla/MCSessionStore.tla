--------------------------- MODULE MCSessionStore ---------------------------
(***************************************************************************)
(* Instances of SessionStore for TLC: which requests each thread serves.   *)
(* The mark endpoints are coroutines and run on the one event-loop thread; *)
(* the other endpoints run on worker threads (backend/api).                *)
(***************************************************************************)
EXTENDS SessionStore, TLC

CONSTANTS Loop, w1, w2   \* the event loop and two worker threads

\* Marks beside a worker that serves every kind of request.
ServesAll == (Loop :> {"update"}) @@ (w1 :> Kinds)

\* The same without the requests that only read.
ServesChanges == (Loop :> {"update"}) @@ (w1 :> Kinds \ {"read"})

\* Marks, questions and analyses at once.
ServesUpdates == (Loop :> {"update"}) @@ (w1 :> {"update", "read"}) @@ (w2 :> {"create"})

\* No step tells one session id from another.
IdSymmetry == Permutations(Ids)
=============================================================================
