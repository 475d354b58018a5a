------------------------- MODULE AnalysisRunProofs --------------------------
(***************************************************************************)
(* For any number of analyses, retries and requests: a resolved paper is   *)
(* there when it is read, only whole papers enter the cache, nothing is    *)
(* left over, a stopped analysis stops at the next stage, and every        *)
(* analysis is one that AnalysisService allows.                            *)
(*                                                                         *)
(* Three facts carry the proofs.  Own says what is true of one analysis at *)
(* each step, and Holds what its .part file holds; only its own steps      *)
(* disturb them, but that others may take its .part file away.  PathInv    *)
(* adds to PathStays that no analysis is about to unlink a resolved file.  *)
(***************************************************************************)
EXTENDS AnalysisRun, TLAPS

-----------------------------------------------------------------------------
(* The inductive invariant.                                                *)

\* Where the paper of an analysis may still turn out to be over the limit.
MayBeLarge(a) ==
  \/ run[a].at \in {"copy", "end"}
  \/ run[a].at = "configure" /\ run[a].kind \in {"local", "link"}
  \/ run[a].at \in {"detect", "resolved"} \cup Downloading /\ run[a].kind = "link"

\* What an outcome says.
Answers(a, o) ==
  /\ o \in Outcomes
  /\ o = "success" => a \in sessions
  /\ a \in sessions => o \in {"success", "failure", "error"}
  /\ o = "cancelled" => a \in cancelled
  /\ o = "limit_exceeded" => a \in late \cup large

Own(a) ==
  /\ part[a] # "none" => run[a].at \in {"write", "replace", "killed"}
  /\ run[a].at = "done" => a \notin temp
  /\ a \in large => MayBeLarge(a)
  /\ run[a].at \in Downloading => run[a].kind = "link"
  /\ a \in sessions => run[a].at \in {"report", "end", "done", "killed"}
  /\ run[a].at = "report" => a \in sessions
  /\ run[a].at = "end" => Answers(a, run[a].outcome)

OwnInv == \A a \in Analyses : Own(a)

\* What is on its way to the cache is a whole paper.
Holds(a) ==
  /\ run[a].at \in {"store", "write", "replace"} => run[a].body = "whole"
  /\ run[a].at = "replace" /\ part[a] # "none" => held[a] = "whole"

HoldsInv == \A a \in Analyses : Holds(a)

PathInv ==
  \A a \in Analyses :
     /\ run[a].at \in {"resolved", "read"} /\ run[a].kind = "link" /\ run[a].racers = {}
     => files[run[a].dir] = "whole" /\ Dropping(run[a].dir) = {}

IInv == TypeOK /\ OwnInv /\ HoldsInv /\ PathInv

-----------------------------------------------------------------------------
(* What a step does to the run of its analysis.                            *)

LEMMA RunTypes ==
  ASSUME NEW r \in Runs
  PROVE  /\ \A s \in Points : [r EXCEPT !.at = s] \in Runs
         /\ \A k \in Kinds : [r EXCEPT !.kind = k] \in Runs
         /\ \A d \in Dirs : [r EXCEPT !.dir = d] \in Runs
         /\ \A n \in 0..MaxRetries : [r EXCEPT !.tries = n] \in Runs
         /\ \A n \in 1..MaxRequests : [r EXCEPT !.requests = n] \in Runs
         /\ \A b \in Contents : [r EXCEPT !.body = b] \in Runs
         /\ \A o \in Outcomes : [r EXCEPT !.outcome = o] \in Runs
         /\ \A R \in SUBSET Analyses : [r EXCEPT !.racers = R] \in Runs
BY DEF Runs

LEMMA IdleType == Idle \in Runs
BY DownloadAssumption DEF Idle, Runs, Points, Kinds, Dirs, Contents

\* The run of a comes to be at step s with these locals; the others stay.
RunIs(a, s, k, d, R, o) ==
  /\ run' \in [Analyses -> Runs]
  /\ \A b \in Analyses \ {a} : run'[b] = run[b]
  /\ run'[a].at = s /\ run'[a].kind = k /\ run'[a].dir = d
  /\ run'[a].racers = R /\ run'[a].outcome = o

Moved(a, s) == RunIs(a, s, run[a].kind, run[a].dir, run[a].racers, run[a].outcome)
Ended(a, o) == RunIs(a, "end", "local", "primary", {}, o)

LEMMA ThenMoves ==
  ASSUME TypeOK, NEW a \in Analyses, NEW s \in Points, Then(a, s)
  PROVE  Moved(a, s)
<1>1. [run[a] EXCEPT !.at = s] \in Runs
  BY RunTypes DEF TypeOK
<1> QED BY <1>1 DEF Then, Moved, RunIs, TypeOK, Runs

LEMMA EndMoves ==
  ASSUME TypeOK, NEW a \in Analyses, NEW o \in Outcomes, End(a, o)
  PROVE  Ended(a, o)
<1>1. [[Idle EXCEPT !.at = "end"] EXCEPT !.outcome = o] \in Runs
  BY IdleType, RunTypes DEF Points, Active
<1>2. run' = [run EXCEPT ![a] = [[Idle EXCEPT !.at = "end"] EXCEPT !.outcome = o]]
  BY DEF End
<1> QED BY <1>1, <1>2 DEF Ended, RunIs, TypeOK, Idle

LEMMA ProceedMoves ==
  ASSUME TypeOK, NEW a \in Analyses, NEW s \in Points, Proceed(a, s)
  PROVE  \/ Stopping(a) /\ Ended(a, StopOutcome(a))
         \/ ~Stopping(a) /\ Moved(a, s)
BY ThenMoves, EndMoves DEF Proceed, StopOutcome, Outcomes

LEMMA ResolveMoves ==
  ASSUME TypeOK, NEW a \in Analyses, Resolve(a)
  PROVE  RunIs(a, "resolved", run[a].kind, run[a].dir, Dropping(run[a].dir), run[a].outcome)
<1> DEFINE R == Dropping(run[a].dir)
<1>1. run' = [run EXCEPT ![a] = [[[run[a] EXCEPT !.at = "resolved"] EXCEPT !.body = "none"]
                                   EXCEPT !.racers = R]]
  BY DEF Resolve, TypeOK
<1>2. [[[run[a] EXCEPT !.at = "resolved"] EXCEPT !.body = "none"] EXCEPT !.racers = R] \in Runs
  <2>1. R \in SUBSET Analyses /\ "none" \in Contents /\ "resolved" \in Points
    BY DEF Dropping, Contents, Points, Active
  <2>2. [[run[a] EXCEPT !.at = "resolved"] EXCEPT !.body = "none"] \in Runs
    BY <2>1, RunTypes DEF TypeOK
  <2> QED BY <2>1, <2>2, RunTypes
<1> QED BY <1>1, <1>2 DEF RunIs, TypeOK, Runs

LEMMA CandidateMoves ==
  ASSUME TypeOK, NEW a \in Analyses, NextCandidate(a)
  PROVE  \E d \in Dirs, s \in {"look", "fetch"} :
           RunIs(a, s, run[a].kind, d, run[a].racers, run[a].outcome)
<1> USE DEF TypeOK
<1>1. CASE run[a].dir = "primary"
  <2>1. run' = [run EXCEPT ![a] = [[run[a] EXCEPT !.at = "look"] EXCEPT !.dir = "fallback"]]
    BY <1>1 DEF NextCandidate
  <2>2. [[run[a] EXCEPT !.at = "look"] EXCEPT !.dir = "fallback"] \in Runs
    BY RunTypes DEF Points, Active, Downloading, Dirs
  <2>3. RunIs(a, "look", run[a].kind, "fallback", run[a].racers, run[a].outcome)
    BY <2>1, <2>2 DEF RunIs, Runs
  <2> QED BY <2>3 DEF Dirs
<1>2. CASE run[a].dir # "primary"
  <2>1. Then(a, "fetch") /\ run[a].dir \in Dirs
    BY <1>2 DEF NextCandidate, Then, Runs
  <2> QED BY <2>1, ThenMoves DEF Moved, Points, Active, Downloading
<1> QED BY <1>1, <1>2

LEMMA StoreMoves ==
  ASSUME TypeOK, NEW a \in Analyses, StoreFails(a)
  PROVE  Ended(a, "failure") \/
         \E d \in Dirs : RunIs(a, "store", run[a].kind, d, run[a].racers, run[a].outcome)
<1> USE DEF TypeOK
<1>1. CASE run[a].dir = "primary"
  <2>1. run' = [run EXCEPT ![a] = [[run[a] EXCEPT !.at = "store"] EXCEPT !.dir = "fallback"]]
    BY <1>1 DEF StoreFails
  <2>2. [[run[a] EXCEPT !.at = "store"] EXCEPT !.dir = "fallback"] \in Runs
    BY RunTypes DEF Points, Active, Downloading, Dirs
  <2>3. RunIs(a, "store", run[a].kind, "fallback", run[a].racers, run[a].outcome)
    BY <2>1, <2>2 DEF RunIs, Runs
  <2> QED BY <2>3 DEF Dirs
<1>2. CASE run[a].dir # "primary"
  BY <1>2, EndMoves DEF StoreFails, Outcomes
<1> QED BY <1>1, <1>2

LEMMA StartMoves ==
  ASSUME TypeOK, NEW a \in Analyses
  PROVE  /\ Submit(a) => \E k \in Kinds :
              /\ RunIs(a, IF k = "upload" THEN "copy" ELSE "configure", k, run[a].dir, run[a].racers,
                       run[a].outcome)
              /\ temp' = IF k = "upload" THEN temp \cup {a} ELSE temp
              /\ large' = large \/ (large' = large \cup {a})
         /\ Copy(a) => \/ a \in large /\ Ended(a, "limit_exceeded")
                       \/ a \notin large /\ Moved(a, "configure")
                       \/ Ended(a, "error")
         /\ Configure(a) => \/ Ended(a, "failure")
                            \/ run[a].kind = "local" /\ a \in large /\ Ended(a, "limit_exceeded")
                            \/ /\ ~(run[a].kind = "local" /\ a \in large)
                               /\ \/ Stopping(a) /\ Ended(a, StopOutcome(a))
                                  \/ ~Stopping(a) /\ Moved(a, "detect")
         /\ Detect(a) => \/ Ended(a, "failure")
                         \/ Stopping(a) /\ Ended(a, StopOutcome(a))
                         \/ ~Stopping(a) /\ run[a].kind = "link" /\ Moved(a, "look")
                         \/ ~Stopping(a) /\ run[a].kind # "link" /\ Moved(a, "resolved")
<1>0. /\ {"copy", "configure", "detect", "look", "resolved"} \subseteq Points
      /\ {"limit_exceeded", "error", "failure"} \subseteq Outcomes
  BY DEF Points, Active, Downloading, Outcomes
<1>1. ASSUME Submit(a)
      PROVE  \E k \in Kinds :
              /\ RunIs(a, IF k = "upload" THEN "copy" ELSE "configure", k, run[a].dir, run[a].racers,
                       run[a].outcome)
              /\ temp' = IF k = "upload" THEN temp \cup {a} ELSE temp
              /\ large' = large \/ (large' = large \cup {a})
  <2>1. PICK k \in Kinds :
       /\ run' = [run EXCEPT ![a].kind = k,
                             ![a].at = IF k = "upload" THEN "copy" ELSE "configure"]
       /\ temp' = IF k = "upload" THEN temp \cup {a} ELSE temp
       /\ large' = large \/ (large' = large \cup {a})
    BY <1>1 DEF Submit
  <2> DEFINE s == IF k = "upload" THEN "copy" ELSE "configure"
  <2>2. run' = [run EXCEPT ![a] = [[run[a] EXCEPT !.kind = k] EXCEPT !.at = s]]
    BY <2>1 DEF TypeOK
  <2>3. s \in Points
    BY <1>0
  <2>4. [[run[a] EXCEPT !.kind = k] EXCEPT !.at = s] \in Runs
    BY <2>3, RunTypes DEF TypeOK
  <2>5. RunIs(a, s, k, run[a].dir, run[a].racers, run[a].outcome)
    BY <2>2, <2>4 DEF RunIs, TypeOK, Runs
  <2> QED BY <2>1, <2>5
<1>2. Copy(a) => \/ a \in large /\ Ended(a, "limit_exceeded")
                 \/ a \notin large /\ Moved(a, "configure")
                 \/ Ended(a, "error")
  BY <1>0, ThenMoves, EndMoves DEF Copy
<1>3. Configure(a) => \/ Ended(a, "failure")
                      \/ run[a].kind = "local" /\ a \in large /\ Ended(a, "limit_exceeded")
                      \/ /\ ~(run[a].kind = "local" /\ a \in large)
                         /\ \/ Stopping(a) /\ Ended(a, StopOutcome(a))
                            \/ ~Stopping(a) /\ Moved(a, "detect")
  BY <1>0, EndMoves, ProceedMoves DEF Configure
<1>4. Detect(a) => \/ Ended(a, "failure")
                   \/ Stopping(a) /\ Ended(a, StopOutcome(a))
                   \/ ~Stopping(a) /\ run[a].kind = "link" /\ Moved(a, "look")
                   \/ ~Stopping(a) /\ run[a].kind # "link" /\ Moved(a, "resolved")
  BY <1>0, EndMoves, ProceedMoves DEF Detect
<1> QED BY <1>1, <1>2, <1>3, <1>4

\* The run of a is at s as before but for its directory.
Redone(a, s) ==
  \E d \in Dirs : RunIs(a, s, run[a].kind, d, run[a].racers, run[a].outcome)

Settled(a) ==
  RunIs(a, "resolved", run[a].kind, run[a].dir, Dropping(run[a].dir), run[a].outcome)

LEMMA DownloadMoves ==
  ASSUME TypeOK, NEW a \in Analyses
  PROVE  /\ Look(a) => \/ files[run[a].dir] = "whole" /\ Settled(a)
                       \/ files[run[a].dir] = "bad" /\ Moved(a, "drop")
                       \/ Redone(a, "look") \/ Redone(a, "fetch")
         /\ Drop(a) => Redone(a, "look") \/ Redone(a, "fetch")
         /\ DropFails(a) => Ended(a, "failure")
         /\ Fetched(a) => Moved(a, "check")
         /\ Redirected(a) => Redone(a, "fetch")
         /\ FetchFails(a) => Ended(a, "failure") \/ Ended(a, "timeout")
         /\ Retry(a) => \/ Stopping(a) /\ Ended(a, StopOutcome(a))
                        \/ ~Stopping(a) /\ Redone(a, "sleep")
         /\ Wake(a) => \/ Stopping(a) /\ Ended(a, StopOutcome(a))
                       \/ ~Stopping(a) /\ Moved(a, "fetch")
         /\ Check(a) => Ended(a, "failure") \/ Redone(a, "store")
         /\ Store(a) => Moved(a, "write") \/ Ended(a, "failure") \/ Redone(a, "store")
         /\ WriteFails(a) \/ ReplaceFails(a) => Ended(a, "failure") \/ Redone(a, "store")
         /\ Write(a) => Moved(a, "replace")
         /\ Replace(a) => Settled(a)
<1>0. /\ {"drop", "look", "fetch", "check", "store", "sleep", "write", "replace"} \subseteq Points
      /\ {"timeout", "failure"} \subseteq Outcomes
  BY DEF Points, Active, Downloading, Outcomes
<1> USE DEF Settled, Redone
<1>1. Look(a) => \/ files[run[a].dir] = "whole" /\ Settled(a)
                 \/ files[run[a].dir] = "bad" /\ Moved(a, "drop")
                 \/ Redone(a, "look") \/ Redone(a, "fetch")
  BY <1>0, ThenMoves, ResolveMoves, CandidateMoves DEF Look
<1>2. Drop(a) => Redone(a, "look") \/ Redone(a, "fetch")
  BY CandidateMoves DEF Drop
<1>3. DropFails(a) => Ended(a, "failure")
  BY <1>0, EndMoves DEF DropFails
<1>4. ASSUME Fetched(a) PROVE Moved(a, "check")
  <2>1. PICK b \in {"bad", "whole"} :
          run' = [run EXCEPT ![a] = [[[[run[a] EXCEPT !.at = "check"] EXCEPT !.body = b]
                                        EXCEPT !.tries = 0] EXCEPT !.requests = 1]]
    BY <1>4 DEF Fetched, TypeOK
  <2>2. [[[[run[a] EXCEPT !.at = "check"] EXCEPT !.body = b]
            EXCEPT !.tries = 0] EXCEPT !.requests = 1] \in Runs
    <3>1. b \in Contents /\ 0 \in 0..MaxRetries /\ 1 \in 1..MaxRequests /\ "check" \in Points
      BY <1>0, DownloadAssumption DEF Contents
    <3>2. [[run[a] EXCEPT !.at = "check"] EXCEPT !.body = b] \in Runs
      BY <3>1, RunTypes DEF TypeOK
    <3> QED BY <3>1, <3>2, RunTypes
  <2> QED BY <2>1, <2>2 DEF Moved, RunIs, Runs, TypeOK
<1>5. ASSUME Redirected(a) PROVE Redone(a, "fetch")
  <2>1. run' = [run EXCEPT ![a] = [[run[a] EXCEPT !.requests = run[a].requests + 1] EXCEPT !.tries = 0]]
    BY <1>5 DEF Redirected, TypeOK
  <2>2. run[a].requests + 1 \in 1..MaxRequests /\ 0 \in 0..MaxRetries
    BY <1>5, DownloadAssumption DEF Redirected, TypeOK, Runs
  <2>3. [[run[a] EXCEPT !.requests = run[a].requests + 1] EXCEPT !.tries = 0] \in Runs
    BY <2>2, RunTypes DEF TypeOK
  <2>4. RunIs(a, "fetch", run[a].kind, run[a].dir, run[a].racers, run[a].outcome)
    BY <1>5, <2>1, <2>3 DEF RunIs, Runs, TypeOK, Redirected, At
  <2> QED BY <2>4 DEF TypeOK, Runs
<1>6. FetchFails(a) => Ended(a, "failure") \/ Ended(a, "timeout")
  BY <1>0, EndMoves DEF FetchFails
<1>7. ASSUME Retry(a)
      PROVE  \/ Stopping(a) /\ Ended(a, StopOutcome(a))
             \/ ~Stopping(a) /\ Redone(a, "sleep")
  <2>1. CASE Stopping(a) /\ End(a, StopOutcome(a))
    BY <2>1, EndMoves DEF StopOutcome, Outcomes
  <2>2. CASE ~Stopping(a) /\ run' = [run EXCEPT ![a].at = "sleep", ![a].tries = @ + 1]
    <3>1. run' = [run EXCEPT ![a] = [[run[a] EXCEPT !.at = "sleep"] EXCEPT !.tries = run[a].tries + 1]]
      BY <2>2 DEF TypeOK
    <3>2. run[a].tries + 1 \in 0..MaxRetries
      BY <1>7, DownloadAssumption DEF Retry, TypeOK, Runs
    <3>3. [[run[a] EXCEPT !.at = "sleep"] EXCEPT !.tries = run[a].tries + 1] \in Runs
      BY <1>0, <3>2, RunTypes DEF TypeOK
    <3>4. RunIs(a, "sleep", run[a].kind, run[a].dir, run[a].racers, run[a].outcome)
      BY <3>1, <3>3 DEF RunIs, Runs, TypeOK
    <3> QED BY <2>2, <3>4 DEF TypeOK, Runs
  <2> QED BY <1>7, <2>1, <2>2 DEF Retry
<1>8. Wake(a) => \/ Stopping(a) /\ Ended(a, StopOutcome(a))
                 \/ ~Stopping(a) /\ Moved(a, "fetch")
  BY <1>0, ProceedMoves DEF Wake
<1>9. Store(a) => Moved(a, "write") \/ Ended(a, "failure") \/ Redone(a, "store")
  BY <1>0, ThenMoves, StoreMoves DEF Store
<1>10. WriteFails(a) \/ ReplaceFails(a) => Ended(a, "failure") \/ Redone(a, "store")
  BY StoreMoves DEF WriteFails, ReplaceFails
<1>11. Write(a) => Moved(a, "replace")
  BY <1>0, ThenMoves DEF Write
<1>12. Replace(a) => Settled(a)
  BY ResolveMoves DEF Replace
<1>13. ASSUME Check(a) PROVE Ended(a, "failure") \/ Redone(a, "store")
  <2>1. CASE End(a, "failure")
    BY <1>0, <2>1, EndMoves
  <2>2. CASE ~End(a, "failure")
    <3>1. run' = [run EXCEPT ![a] = [[run[a] EXCEPT !.at = "store"] EXCEPT !.dir = "primary"]]
      BY <1>13, <2>2 DEF Check, TypeOK
    <3>2. [[run[a] EXCEPT !.at = "store"] EXCEPT !.dir = "primary"] \in Runs
      BY <1>0, RunTypes DEF TypeOK, Dirs
    <3>3. RunIs(a, "store", run[a].kind, "primary", run[a].racers, run[a].outcome)
      BY <3>1, <3>2 DEF RunIs, Runs, TypeOK
    <3> QED BY <3>3 DEF Dirs
  <2> QED BY <2>1, <2>2
<1> HIDE DEF Settled, Redone
<1> QED BY <1>1, <1>2, <1>3, <1>4, <1>5, <1>6, <1>7, <1>8, <1>9, <1>10, <1>11, <1>12, <1>13

LEMMA StageMoves ==
  ASSUME TypeOK, NEW a \in Analyses
  PROVE  /\ Resolved(a) =>
              \/ run[a].kind = "link" /\ a \in large /\ Ended(a, "limit_exceeded")
              \/ /\ ~(run[a].kind = "link" /\ a \in large)
                 /\ \/ Stopping(a) /\ Ended(a, StopOutcome(a))
                    \/ ~Stopping(a) /\ Moved(a, "read")
         /\ Read(a) => \/ Ended(a, "failure")
                       \/ Stopping(a) /\ Ended(a, StopOutcome(a))
                       \/ ~Stopping(a) /\ Moved(a, "process")
         /\ Process(a) => \/ Ended(a, "failure")
                          \/ Stopping(a) /\ Ended(a, StopOutcome(a))
                          \/ ~Stopping(a) /\ Moved(a, "final")
         /\ Final(a) => Ended(a, "failure") \/ Moved(a, "complete")
         /\ Reject(a) => Ended(a, "failure") \/ Ended(a, "error")
         /\ OpenSession(a) => Moved(a, "report")
         /\ Report(a) => Ended(a, "success") \/ Ended(a, "failure") \/ Ended(a, "error")
         /\ Answer(a) => Moved(a, "done")
         /\ Kill(a) => RunIs(a, "killed", "local", "primary", {}, "none")
<1>0. /\ {"read", "process", "final", "complete", "report", "done"} \subseteq Points
      /\ {"limit_exceeded", "failure", "error", "success"} \subseteq Outcomes
  BY DEF Points, Active, Downloading, Outcomes
<1>1. Resolved(a) =>
        \/ run[a].kind = "link" /\ a \in large /\ Ended(a, "limit_exceeded")
        \/ /\ ~(run[a].kind = "link" /\ a \in large)
           /\ \/ Stopping(a) /\ Ended(a, StopOutcome(a))
              \/ ~Stopping(a) /\ Moved(a, "read")
  BY <1>0, EndMoves, ProceedMoves DEF Resolved
<1>2. Read(a) => \/ Ended(a, "failure")
                 \/ Stopping(a) /\ Ended(a, StopOutcome(a))
                 \/ ~Stopping(a) /\ Moved(a, "process")
  BY <1>0, EndMoves, ProceedMoves DEF Read
<1>3. Process(a) => \/ Ended(a, "failure")
                    \/ Stopping(a) /\ Ended(a, StopOutcome(a))
                    \/ ~Stopping(a) /\ Moved(a, "final")
  BY <1>0, EndMoves, ProceedMoves DEF Process
<1>4. Final(a) => Ended(a, "failure") \/ Moved(a, "complete")
  BY <1>0, EndMoves, ThenMoves DEF Final
<1>5. Reject(a) => Ended(a, "failure") \/ Ended(a, "error")
  BY <1>0, EndMoves DEF Reject
<1>6. OpenSession(a) => Moved(a, "report")
  BY <1>0, ThenMoves DEF OpenSession
<1>7. Answer(a) => Moved(a, "done")
  BY <1>0, ThenMoves DEF Answer
<1>8. ASSUME Kill(a) PROVE RunIs(a, "killed", "local", "primary", {}, "none")
  <2>1. [Idle EXCEPT !.at = "killed"] \in Runs
    BY IdleType, RunTypes DEF Points
  <2> QED BY <1>8, <2>1 DEF Kill, RunIs, TypeOK, Idle
<1>9. Report(a) => Ended(a, "success") \/ Ended(a, "failure") \/ Ended(a, "error")
  BY <1>0, EndMoves DEF Report
<1> QED BY <1>1, <1>2, <1>3, <1>4, <1>5, <1>6, <1>7, <1>8, <1>9

-----------------------------------------------------------------------------
(* Types, and what the step of one analysis leaves to the others.          *)

LEMMA TypeInit == Init => TypeOK
BY IdleType DEF Init, TypeOK, Contents

LEMMA OthersRun ==
  ASSUME TypeOK, NEW a \in Analyses, Step(a) \/ Around(a)
  PROVE  /\ run' \in [Analyses -> Runs]
         /\ \A b \in Analyses \ {a} : run'[b] = run[b]
<1> USE DEF RunIs, Moved, Ended
<1>1. CASE Submit(a) \/ Copy(a) \/ Configure(a) \/ Detect(a)
  BY <1>1, StartMoves
<1>2. CASE Download(a)
  BY <1>2, DownloadMoves DEF Download, Settled, Redone
<1>3. CASE \/ Resolved(a) \/ Read(a) \/ Process(a) \/ Final(a) \/ Reject(a) \/ OpenSession(a)
           \/ Report(a) \/ Answer(a) \/ Kill(a)
  BY <1>3, StageMoves
<1>4. CASE Cancel(a) \/ Expire(a) \/ Age(a)
  BY <1>4 DEF Cancel, Expire, Age, TypeOK
<1> QED BY <1>1, <1>2, <1>3, <1>4 DEF Step, Around

LEMMA TypeNext == TypeOK /\ [Next]_vars => TypeOK'
<1> SUFFICES ASSUME TypeOK, [Next]_vars PROVE TypeOK'
  OBVIOUS
<1> USE DEF disk, env
<1>1. ASSUME NEW a \in Analyses, Step(a) \/ Around(a)
      PROVE  /\ files' \in [Dirs -> Contents]
             /\ part' \in [Analyses -> Dirs \cup {"none"}]
             /\ held' \in [Analyses -> Contents]
             /\ old' \subseteq Analyses /\ temp' \subseteq Analyses
             /\ cancelled' \subseteq Analyses /\ late' \subseteq Analyses
             /\ large' \subseteq Analyses /\ sessions' \subseteq Analyses
  <2> USE DEF TypeOK
  <2>1. CASE Submit(a) \/ Copy(a) \/ Configure(a) \/ Detect(a)
    BY <2>1 DEF Submit, Copy, Configure, Detect
  <2>2. CASE Look(a) \/ Drop(a) \/ DropFails(a) \/ Fetched(a) \/ Redirected(a) \/ FetchFails(a)
             \/ Retry(a) \/ Wake(a) \/ Check(a)
    BY <2>2 DEF Look, Drop, DropFails, Fetched, Redirected, FetchFails, Retry, Wake, Check, Contents
  <2>3. CASE Store(a) \/ Write(a)
    BY <2>3 DEF Store, Write, Runs, Contents
  <2>4. CASE WriteFails(a) \/ Replace(a) \/ ReplaceFails(a)
    BY <2>4 DEF WriteFails, Replace, ReplaceFails, Unlinked, Contents
  <2>5. CASE \/ Resolved(a) \/ Read(a) \/ Process(a) \/ Final(a) \/ Reject(a) \/ OpenSession(a)
             \/ Report(a) \/ Answer(a) \/ Kill(a)
    BY <2>5 DEF Resolved, Read, Process, Final, Reject, OpenSession, Report, Answer, Kill, Settle
  <2>6. CASE Cancel(a) \/ Expire(a) \/ Age(a)
    BY <2>6 DEF Cancel, Expire, Age
  <2> QED BY <1>1, <2>1, <2>2, <2>3, <2>4, <2>5, <2>6 DEF Step, Around, Download
<1>2. ASSUME NEW a \in Analyses, Step(a) \/ Around(a) PROVE TypeOK'
  BY <1>1, <1>2, OthersRun DEF TypeOK
<1>3. CASE UNCHANGED vars
  BY <1>3 DEF vars, TypeOK
<1> QED BY <1>2, <1>3 DEF Next

\* Every variable always has its type.
THEOREM TypeCorrect == Spec => []TypeOK
BY TypeInit, TypeNext, PTL DEF Spec

LEMMA OthersStay ==
  ASSUME TypeOK, NEW a \in Analyses, Step(a) \/ Around(a), NEW b \in Analyses \ {a}
  PROVE  /\ run'[b] = run[b]
         /\ part'[b] = part[b] \/ part'[b] = "none"
         /\ held'[b] = held[b] \/ part'[b] = "none"
         /\ b \in temp' <=> b \in temp
         /\ b \in cancelled' <=> b \in cancelled
         /\ b \in late' <=> b \in late
         /\ b \in large' <=> b \in large
         /\ b \in sessions' <=> b \in sessions
<1> USE DEF disk, env
<1>1. run'[b] = run[b]
  BY OthersRun
<1>2. CASE Submit(a) \/ Copy(a) \/ Configure(a) \/ Detect(a)
  BY <1>1, <1>2 DEF Submit, Copy, Configure, Detect
<1>3. CASE Look(a) \/ Drop(a) \/ DropFails(a) \/ Fetched(a) \/ Redirected(a) \/ FetchFails(a)
           \/ Retry(a) \/ Wake(a) \/ Check(a)
  BY <1>1, <1>3 DEF Look, Drop, DropFails, Fetched, Redirected, FetchFails, Retry, Wake, Check
<1>4. CASE Store(a) \/ Write(a)
  BY <1>1, <1>4 DEF Store, Write, TypeOK
<1>5. CASE WriteFails(a) \/ Replace(a) \/ ReplaceFails(a)
  BY <1>1, <1>5 DEF WriteFails, Replace, ReplaceFails, Unlinked, TypeOK
<1>6. CASE \/ Resolved(a) \/ Read(a) \/ Process(a) \/ Final(a) \/ Reject(a) \/ OpenSession(a)
           \/ Report(a) \/ Answer(a) \/ Kill(a)
  BY <1>1, <1>6 DEF Resolved, Read, Process, Final, Reject, OpenSession, Report, Answer, Kill, Settle
<1>7. CASE Cancel(a) \/ Expire(a) \/ Age(a)
  BY <1>1, <1>7 DEF Cancel, Expire, Age
<1> QED BY <1>2, <1>3, <1>4, <1>5, <1>6, <1>7 DEF Step, Around, Download

-----------------------------------------------------------------------------
(* One analysis.                                                           *)

\* Ending without an answer of success.
LEMMA OwnEnds ==
  ASSUME TypeOK, NEW a \in Analyses, Own(a), run[a].at \in Active \ {"report", "end"},
         NEW o \in Outcomes \ {"success"}, Ended(a, o),
         o = "cancelled" => a \in cancelled, o = "limit_exceeded" => a \in late \cup large,
         UNCHANGED <<temp, cancelled, late, large, sessions>>,
         part'[a] = "none" \/ (part' = part /\ run[a].at \notin {"write", "replace"})
  PROVE  Own(a)'
BY DEF Own, Answers, Ended, RunIs, MayBeLarge, Active, Downloading

LEMMA OwnStops ==
  ASSUME TypeOK, NEW a \in Analyses, Own(a),
         run[a].at \in Active \ {"report", "end", "write", "replace"}, Stopping(a), Ended(a, StopOutcome(a)),
         UNCHANGED <<part, temp, cancelled, late, large, sessions>>
  PROVE  Own(a)'
<1>1. /\ StopOutcome(a) \in Outcomes \ {"success"}
      /\ StopOutcome(a) = "cancelled" => a \in cancelled
      /\ StopOutcome(a) = "limit_exceeded" => a \in late \cup large
  BY DEF StopOutcome, Stopping, Outcomes
<1> QED BY <1>1, OwnEnds

LEMMA OwnStart ==
  ASSUME TypeOK, NEW a \in Analyses, Own(a), Submit(a) \/ Copy(a) \/ Configure(a) \/ Detect(a)
  PROVE  Own(a)'
<1> USE DEF disk, env, At
<1>0. /\ {"copy", "configure", "detect"} \subseteq Active \ {"report", "end", "write", "replace"}
      /\ {"limit_exceeded", "error", "failure"} \subseteq Outcomes \ {"success"}
  BY DEF Active, Outcomes, Downloading
<1>1. CASE Submit(a)
  <2>1. PICK k \in Kinds :
              /\ RunIs(a, IF k = "upload" THEN "copy" ELSE "configure", k, run[a].dir, run[a].racers,
                       run[a].outcome)
              /\ temp' = IF k = "upload" THEN temp \cup {a} ELSE temp
              /\ large' = large \/ (large' = large \cup {a})
    BY <1>1, StartMoves
  <2>2. run[a].at = "idle" /\ UNCHANGED <<part, late, cancelled, sessions>>
    BY <1>1 DEF Submit
  <2>3. part[a] = "none" /\ a \notin sessions
    BY <2>2 DEF Own
  <2>4. CASE k = "upload"
    BY <2>1, <2>2, <2>3, <2>4 DEF Own, RunIs, MayBeLarge, Downloading
  <2>5. CASE k # "upload"
    BY <2>1, <2>2, <2>3, <2>5 DEF Own, RunIs, MayBeLarge, Downloading, Kinds
  <2> QED BY <2>4, <2>5
<1>2. CASE Copy(a)
  <2>1. run[a].at = "copy" /\ UNCHANGED <<part, temp, cancelled, late, large, sessions>>
    BY <1>2 DEF Copy
  <2>2. CASE \/ a \in large /\ Ended(a, "limit_exceeded")
             \/ Ended(a, "error")
    BY <1>0, <2>1, <2>2, OwnEnds
  <2>3. CASE a \notin large /\ Moved(a, "configure")
    BY <2>1, <2>3 DEF Own, Moved, RunIs, Downloading
  <2> QED BY <1>2, <2>2, <2>3, StartMoves
<1>3. CASE Configure(a)
  <2>1. run[a].at = "configure" /\ UNCHANGED <<part, temp, cancelled, late, large, sessions>>
    BY <1>3 DEF Configure
  <2>2. CASE Ended(a, "failure") \/ (a \in large /\ Ended(a, "limit_exceeded"))
    BY <1>0, <2>1, <2>2, OwnEnds
  <2>3. CASE Stopping(a) /\ Ended(a, StopOutcome(a))
    BY <1>0, <2>1, <2>3, OwnStops
  <2>4. CASE ~(run[a].kind = "local" /\ a \in large) /\ Moved(a, "detect")
    BY <2>1, <2>4 DEF Own, Moved, RunIs, MayBeLarge, Downloading
  <2> QED BY <1>3, <2>2, <2>3, <2>4, StartMoves
<1>4. CASE Detect(a)
  <2>1. run[a].at = "detect" /\ UNCHANGED <<part, temp, cancelled, late, large, sessions>>
    BY <1>4 DEF Detect
  <2>2. CASE Ended(a, "failure")
    BY <1>0, <2>1, <2>2, OwnEnds
  <2>3. CASE Stopping(a) /\ Ended(a, StopOutcome(a))
    BY <1>0, <2>1, <2>3, OwnStops
  <2>4. CASE run[a].kind = "link" /\ Moved(a, "look")
    BY <2>1, <2>4 DEF Own, Moved, RunIs, MayBeLarge, Downloading
  <2>5. CASE run[a].kind # "link" /\ Moved(a, "resolved")
    BY <2>1, <2>5 DEF Own, Moved, RunIs, MayBeLarge, Downloading
  <2> QED BY <1>4, <2>2, <2>3, <2>4, <2>5, StartMoves
<1> QED BY <1>1, <1>2, <1>3, <1>4

LEMMA OwnDownload ==
  ASSUME TypeOK, NEW a \in Analyses, Own(a), Download(a)
  PROVE  Own(a)'
<1> USE DEF disk, env, At
<1>0. /\ Downloading \subseteq Active \ {"report", "end"}
      /\ {"timeout", "failure"} \subseteq Outcomes \ {"success"}
  BY DEF Active, Outcomes, Downloading
<1>1. run[a].at \in Downloading /\ UNCHANGED <<temp, cancelled, late, large, sessions>>
  BY DEF Download, Look, Drop, DropFails, Fetched, Redirected, FetchFails, Retry, Wake, Check, Store,
    WriteFails, Write, Replace, ReplaceFails, Downloading
<1>2. run[a].kind = "link" /\ a \notin sessions
  BY <1>1 DEF Own, Downloading
<1>3. ASSUME NEW s \in Downloading \cup {"resolved"}, NEW d, NEW R, NEW o, RunIs(a, s, run[a].kind, d, R, o),
             part'[a] = "none" \/ s \in {"write", "replace"}
      PROVE  Own(a)'
  BY <1>1, <1>2, <1>3 DEF Own, RunIs, MayBeLarge, Downloading
<1>4. CASE Look(a) \/ Drop(a) \/ DropFails(a) \/ Fetched(a) \/ Redirected(a) \/ FetchFails(a)
           \/ Retry(a) \/ Wake(a) \/ Check(a)
  <2>1. /\ run[a].at \in Downloading \ {"write", "replace"} /\ part' = part /\ part[a] = "none"
    BY <1>4 DEF Own, Look, Drop, DropFails, Fetched, Redirected, FetchFails, Retry, Wake, Check, Downloading
  <2>2. CASE Ended(a, "failure") \/ Ended(a, "timeout")
    BY <1>0, <1>1, <2>1, <2>2, OwnEnds
  <2>3. CASE Stopping(a) /\ Ended(a, StopOutcome(a))
    BY <1>0, <1>1, <2>1, <2>3, OwnStops
  <2>4. ASSUME NEW s \in {"drop", "fetch", "look", "check", "store", "sleep"}, Moved(a, s) \/ Redone(a, s) PROVE Own(a)'
    BY <1>3, <2>1, <2>4 DEF Moved, Redone, Downloading
  <2>5. CASE Settled(a)
    BY <1>3, <2>1, <2>5 DEF Settled
  <2> QED BY <1>4, <2>2, <2>3, <2>4, <2>5, DownloadMoves
<1>5. CASE Store(a)
  <2>1. run[a].at = "store" /\ part[a] = "none"
    BY <1>5 DEF Store, Own
  <2>2. CASE Moved(a, "write")
    BY <1>3, <2>2 DEF Moved, Downloading
  <2>3. CASE ~Moved(a, "write")
    <3>1. ~Then(a, "write")
      BY <2>3, ThenMoves DEF Points, Active, Downloading
    <3>2. part' = part
      BY <1>5, <3>1 DEF Store
    <3>3. CASE Ended(a, "failure")
      BY <1>0, <1>1, <2>1, <3>2, <3>3, OwnEnds
    <3>4. CASE Redone(a, "store")
      BY <1>3, <2>1, <3>2, <3>4 DEF Redone, Downloading
    <3> QED BY <1>5, <2>3, <3>3, <3>4, DownloadMoves
  <2> QED BY <2>2, <2>3
<1>6. CASE WriteFails(a) \/ Replace(a) \/ ReplaceFails(a)
  <2>1. part'[a] = "none"
    BY <1>6 DEF WriteFails, Replace, ReplaceFails, Unlinked, TypeOK
  <2>2. CASE Ended(a, "failure")
    BY <1>0, <1>1, <2>1, <2>2, OwnEnds
  <2>3. CASE Redone(a, "store")
    BY <1>3, <2>1, <2>3 DEF Redone, Downloading
  <2>4. CASE Settled(a)
    BY <1>3, <2>1, <2>4 DEF Settled
  <2> QED BY <1>6, <2>2, <2>3, <2>4, DownloadMoves
<1>7. CASE Write(a)
  BY <1>3, <1>7, DownloadMoves DEF Moved, Downloading
<1> QED BY <1>4, <1>5, <1>6, <1>7 DEF Download

LEMMA OwnStages ==
  ASSUME TypeOK, NEW a \in Analyses, Own(a),
         \/ Resolved(a) \/ Read(a) \/ Process(a) \/ Final(a) \/ Reject(a) \/ OpenSession(a)
         \/ Report(a) \/ Answer(a) \/ Kill(a)
  PROVE  Own(a)'
<1> USE DEF disk, env, At
<1>0. /\ {"resolved", "read", "process", "final", "complete"} \subseteq Active \ {"report", "end", "write", "replace"}
      /\ {"limit_exceeded", "error", "failure"} \subseteq Outcomes \ {"success"}
  BY DEF Active, Outcomes, Downloading
<1>1. CASE Resolved(a)
  <2>1. run[a].at = "resolved" /\ UNCHANGED <<part, temp, cancelled, late, large, sessions>>
    BY <1>1 DEF Resolved
  <2>2. CASE a \in large /\ Ended(a, "limit_exceeded")
    BY <1>0, <2>1, <2>2, OwnEnds
  <2>3. CASE Stopping(a) /\ Ended(a, StopOutcome(a))
    BY <1>0, <2>1, <2>3, OwnStops
  <2>4. CASE ~(run[a].kind = "link" /\ a \in large) /\ Moved(a, "read")
    BY <2>1, <2>4 DEF Own, Moved, RunIs, MayBeLarge, Downloading
  <2> QED BY <1>1, <2>2, <2>3, <2>4, StageMoves
<1>2. CASE Read(a) \/ Process(a) \/ Final(a)
  <2>1. run[a].at \in {"read", "process", "final"} /\ UNCHANGED <<part, temp, cancelled, late, large, sessions>>
    BY <1>2 DEF Read, Process, Final
  <2>2. CASE Ended(a, "failure")
    BY <1>0, <2>1, <2>2, OwnEnds
  <2>3. CASE Stopping(a) /\ Ended(a, StopOutcome(a))
    BY <1>0, <2>1, <2>3, OwnStops
  <2>4. CASE Moved(a, "process") \/ Moved(a, "final") \/ Moved(a, "complete")
    BY <2>1, <2>4 DEF Own, Moved, RunIs, MayBeLarge, Downloading
  <2> QED BY <1>2, <2>2, <2>3, <2>4, StageMoves
<1>3. CASE Reject(a)
  <2>1. run[a].at = "complete" /\ UNCHANGED <<part, temp, cancelled, late, large, sessions>>
    BY <1>3 DEF Reject
  <2> QED BY <1>0, <1>3, <2>1, OwnEnds, StageMoves
<1>4. CASE OpenSession(a)
  <2>1. /\ run[a].at = "complete" /\ sessions' = sessions \cup {a}
        /\ UNCHANGED <<part, temp, cancelled, late, large>>
    BY <1>4 DEF OpenSession
  <2>2. a \notin large
    BY <2>1 DEF Own, MayBeLarge, Downloading
  <2>3. Moved(a, "report")
    BY <1>4, StageMoves
  <2> QED BY <2>1, <2>2, <2>3 DEF Own, Moved, RunIs, MayBeLarge, Downloading
<1>5. CASE Answer(a)
  <2>1. /\ run[a].at = "end" /\ temp' = temp \ {a} /\ a \notin large'
        /\ UNCHANGED <<part, sessions>>
    BY <1>5 DEF Answer, Settle
  <2> QED BY <1>5, <2>1, StageMoves DEF Own, Moved, RunIs, Downloading
<1>6. CASE Kill(a)
  <2>1. a \notin large'
    BY <1>6 DEF Kill, Settle
  <2> QED BY <1>6, <2>1, StageMoves DEF Own, RunIs, Downloading
<1>7. CASE Report(a)
  <2>1. run[a].at = "report" /\ UNCHANGED <<part, temp, cancelled, late, large, sessions>>
    BY <1>7 DEF Report
  <2>2. a \in sessions /\ part[a] = "none" /\ a \notin large
    BY <2>1 DEF Own, MayBeLarge, Downloading
  <2>3. PICK o \in {"success", "failure", "error"} : Ended(a, o)
    BY <1>7, StageMoves
  <2> QED BY <2>1, <2>2, <2>3 DEF Own, Ended, RunIs, Answers, Outcomes, MayBeLarge, Downloading
<1> QED BY <1>1, <1>2, <1>3, <1>4, <1>5, <1>6, <1>7

LEMMA OwnAround ==
  ASSUME TypeOK, NEW a \in Analyses, Own(a), Cancel(a) \/ Expire(a) \/ Age(a)
  PROVE  Own(a)'
<1>1. /\ UNCHANGED <<run, part, temp, large, sessions>>
      /\ cancelled \subseteq cancelled' /\ late \subseteq late'
  BY DEF Cancel, Expire, Age, disk, env
<1> QED BY <1>1 DEF Own, Answers, MayBeLarge

LEMMA OwnNext == TypeOK /\ OwnInv /\ [Next]_vars => OwnInv'
<1> SUFFICES ASSUME TypeOK, OwnInv, [Next]_vars, NEW b \in Analyses PROVE Own(b)'
  BY DEF OwnInv
<1>1. Own(b)
  BY DEF OwnInv
<1>2. CASE Step(b) \/ Around(b)
  BY <1>1, <1>2, OwnStart, OwnDownload, OwnStages, OwnAround DEF Step, Around
<1>3. ASSUME NEW a \in Analyses \ {b}, Step(a) \/ Around(a) PROVE Own(b)'
  <2>1. /\ run'[b] = run[b]
        /\ part'[b] = part[b] \/ part'[b] = "none"
        /\ b \in temp' <=> b \in temp
        /\ b \in cancelled' <=> b \in cancelled
        /\ b \in late' <=> b \in late
        /\ b \in large' <=> b \in large
        /\ b \in sessions' <=> b \in sessions
    BY <1>3, OthersStay
  <2> QED BY <1>1, <2>1 DEF Own, Answers, MayBeLarge
<1>4. CASE UNCHANGED vars
  BY <1>1, <1>4 DEF vars, Own, Answers, MayBeLarge
<1> QED BY <1>2, <1>3, <1>4 DEF Next

-----------------------------------------------------------------------------
(* What is on its way to the cache.                                        *)

LEMMA HoldsOwn ==
  ASSUME TypeOK, NEW a \in Analyses, Holds(a), Step(a) \/ Around(a)
  PROVE  Holds(a)'
<1> USE DEF disk, env, At, RunIs, Moved, Ended
<1>1. CASE Submit(a) \/ Copy(a) \/ Configure(a) \/ Detect(a)
  BY <1>1, StartMoves DEF Holds
<1>2. CASE \/ Look(a) \/ Drop(a) \/ DropFails(a) \/ Fetched(a) \/ Redirected(a) \/ FetchFails(a)
           \/ Retry(a) \/ Wake(a) \/ Replace(a)
  BY <1>2, DownloadMoves DEF Holds, Settled, Redone
<1>3. CASE Check(a)
  <2>1. CASE End(a, "failure")
    BY <2>1, EndMoves DEF Holds, Outcomes
  <2>2. CASE ~End(a, "failure")
    <3>1. /\ run[a].body = "whole"
          /\ run' = [run EXCEPT ![a].at = "store", ![a].dir = "primary"]
      BY <1>3, <2>2 DEF Check
    <3> QED BY <3>1 DEF Holds, TypeOK, Runs
  <2> QED BY <2>1, <2>2
<1>4. ASSUME StoreFails(a), run[a].body = "whole" PROVE Holds(a)'
  <2>1. CASE run[a].dir = "primary"
    BY <1>4, <2>1 DEF StoreFails, Holds, TypeOK, Runs
  <2>2. CASE run[a].dir # "primary"
    BY <1>4, <2>2, EndMoves DEF StoreFails, Holds, Outcomes
  <2> QED BY <2>1, <2>2
<1>5. CASE Store(a) \/ WriteFails(a) \/ ReplaceFails(a)
  <2>1. run[a].body = "whole"
    BY <1>5 DEF Store, WriteFails, ReplaceFails, Holds
  <2>2. CASE Then(a, "write")
    BY <2>1, <2>2 DEF Then, Holds, TypeOK, Runs
  <2> QED BY <1>4, <1>5, <2>1, <2>2 DEF Store, WriteFails, ReplaceFails
<1>6. CASE Write(a)
  <2>1. /\ run[a].body = "whole" /\ run' = [run EXCEPT ![a].at = "replace"] /\ part' = part
        /\ held' = IF part[a] = "none" THEN held ELSE [held EXCEPT ![a] = run[a].body]
    BY <1>6 DEF Write, Then, Holds
  <2> QED BY <2>1 DEF Holds, TypeOK, Runs
<1>7. CASE \/ Resolved(a) \/ Read(a) \/ Process(a) \/ Final(a) \/ Reject(a) \/ OpenSession(a)
           \/ Report(a) \/ Answer(a) \/ Kill(a)
  BY <1>7, StageMoves DEF Holds
<1>8. CASE Cancel(a) \/ Expire(a) \/ Age(a)
  BY <1>8 DEF Cancel, Expire, Age, Holds
<1> QED BY <1>1, <1>2, <1>3, <1>5, <1>6, <1>7, <1>8 DEF Step, Around, Download

LEMMA HoldsNext == TypeOK /\ HoldsInv /\ [Next]_vars => HoldsInv'
<1> SUFFICES ASSUME TypeOK, HoldsInv, [Next]_vars, NEW b \in Analyses PROVE Holds(b)'
  BY DEF HoldsInv
<1>1. Holds(b)
  BY DEF HoldsInv
<1>2. CASE Step(b) \/ Around(b)
  BY <1>1, <1>2, HoldsOwn
<1>3. ASSUME NEW a \in Analyses \ {b}, Step(a) \/ Around(a) PROVE Holds(b)'
  <2>1. /\ run'[b] = run[b]
        /\ part'[b] = part[b] \/ part'[b] = "none"
        /\ held'[b] = held[b] \/ part'[b] = "none"
    BY <1>3, OthersStay
  <2> QED BY <1>1, <2>1 DEF Holds
<1>4. CASE UNCHANGED vars
  BY <1>1, <1>4 DEF vars, disk, Holds
<1> QED BY <1>2, <1>3, <1>4 DEF Next

-----------------------------------------------------------------------------
(* The shared cache.                                                       *)

\* Only an unlink and a replace change the files.
LEMMA FilesChange ==
  ASSUME TypeOK, NEW a \in Analyses, Holds(a), Step(a) \/ Around(a)
  PROVE  \/ files' = files
         \/ Drop(a) /\ files' = [files EXCEPT ![run[a].dir] = "none"]
         \/ Replace(a) /\ files' = [files EXCEPT ![run[a].dir] = "whole"]
<1> USE DEF disk, env
<1>1. CASE Submit(a) \/ Copy(a) \/ Configure(a) \/ Detect(a)
  BY <1>1 DEF Submit, Copy, Configure, Detect
<1>2. CASE Look(a) \/ DropFails(a) \/ Fetched(a) \/ Redirected(a) \/ FetchFails(a)
           \/ Retry(a) \/ Wake(a) \/ Check(a) \/ Write(a) \/ Store(a) \/ WriteFails(a) \/ ReplaceFails(a)
  BY <1>2 DEF Look, DropFails, Fetched, Redirected, FetchFails, Retry, Wake, Check, Write, Store,
    WriteFails, ReplaceFails
<1>3. CASE Drop(a) \/ Replace(a)
  BY <1>3 DEF Drop, Replace, Holds, At
<1>4. CASE \/ Resolved(a) \/ Read(a) \/ Process(a) \/ Final(a) \/ Reject(a) \/ OpenSession(a)
           \/ Report(a) \/ Answer(a) \/ Kill(a)
  BY <1>4 DEF Resolved, Read, Process, Final, Reject, OpenSession, Report, Answer, Kill
<1>5. CASE Cancel(a) \/ Expire(a) \/ Age(a)
  BY <1>5 DEF Cancel, Expire, Age
<1> QED BY <1>1, <1>2, <1>3, <1>4, <1>5 DEF Step, Around, Download

\* An analysis about to unlink a file has just found it bad.
LEMMA DropsBad ==
  ASSUME TypeOK, NEW a \in Analyses, Step(a) \/ Around(a), run'[a].at = "drop"
  PROVE  \/ run' = run
         \/ files' = files /\ files[run[a].dir] = "bad" /\ run'[a].dir = run[a].dir
<1> USE DEF RunIs, Moved, Ended
<1>1. CASE Submit(a) \/ Copy(a) \/ Configure(a) \/ Detect(a)
  BY <1>1, StartMoves
<1>2. CASE Look(a)
  <2>1. files' = files
    BY <1>2 DEF Look, disk
  <2> QED BY <1>2, <2>1, DownloadMoves DEF Settled, Redone
<1>3. CASE Drop(a) \/ DropFails(a) \/ Fetched(a) \/ Redirected(a) \/ FetchFails(a)
           \/ Retry(a) \/ Wake(a) \/ Check(a) \/ Write(a) \/ Store(a) \/ WriteFails(a) \/ Replace(a) \/ ReplaceFails(a)
  BY <1>3, DownloadMoves DEF Settled, Redone
<1>4. CASE \/ Resolved(a) \/ Read(a) \/ Process(a) \/ Final(a) \/ Reject(a) \/ OpenSession(a)
           \/ Report(a) \/ Answer(a) \/ Kill(a)
  BY <1>4, StageMoves
<1>5. CASE Cancel(a) \/ Expire(a) \/ Age(a)
  BY <1>5 DEF Cancel, Expire, Age
<1> QED BY <1>1, <1>2, <1>3, <1>4, <1>5 DEF Step, Around, Download

\* A step that leaves an analysis with a resolved link.
LEMMA Resolves ==
  ASSUME TypeOK, NEW a \in Analyses, Holds(a), Step(a) \/ Around(a),
         run'[a].at \in {"resolved", "read"}, run'[a].kind = "link"
  PROVE  \/ run' = run /\ files' = files
         \/ Settled(a) /\ files'[run[a].dir] = "whole"
         \/ run[a].at = "resolved" /\ Moved(a, "read") /\ files' = files
<1> USE DEF RunIs
<1>1. CASE Submit(a) \/ Copy(a) \/ Configure(a) \/ Detect(a)
  BY <1>1, StartMoves DEF Moved, Ended
<1>2. CASE Look(a)
  <2>1. files' = files
    BY <1>2 DEF Look, disk
  <2>2. ~Moved(a, "drop") /\ ~Redone(a, "look") /\ ~Redone(a, "fetch")
    BY DEF Moved, Redone
  <2> QED BY <1>2, <2>1, <2>2, DownloadMoves
<1>3. CASE Drop(a) \/ DropFails(a) \/ Fetched(a) \/ Redirected(a) \/ FetchFails(a)
           \/ Retry(a) \/ Wake(a) \/ Check(a) \/ Write(a) \/ Store(a) \/ WriteFails(a) \/ ReplaceFails(a)
  BY <1>3, DownloadMoves DEF Redone, Moved, Ended
<1>4. CASE Replace(a)
  <2>1. files' = [files EXCEPT ![run[a].dir] = "whole"] /\ run[a].dir \in Dirs
    BY <1>4 DEF Replace, TypeOK, Runs, Holds, At
  <2>2. files'[run[a].dir] = "whole"
    BY <2>1 DEF TypeOK
  <2> QED BY <1>4, <2>2, DownloadMoves
<1>5. CASE Resolved(a)
  <2>1. files' = files /\ run[a].at = "resolved"
    BY <1>5 DEF Resolved, disk, At
  <2>2. \A o : ~Ended(a, o)
    BY DEF Ended
  <2> QED BY <1>5, <2>1, <2>2, StageMoves
<1>6. CASE Read(a) \/ Process(a) \/ Final(a) \/ Reject(a) \/ OpenSession(a) \/ Report(a) \/ Answer(a)
             \/ Kill(a)
  BY <1>6, StageMoves DEF Moved, Ended
<1>7. CASE Cancel(a) \/ Expire(a) \/ Age(a)
  BY <1>7 DEF Cancel, Expire, Age, disk
<1> QED BY <1>1, <1>2, <1>3, <1>4, <1>5, <1>6, <1>7 DEF Step, Around, Download

LEMMA PathNext == TypeOK /\ HoldsInv /\ PathInv /\ [Next]_vars => PathInv'
<1> SUFFICES ASSUME TypeOK, HoldsInv, PathInv, [Next]_vars, NEW c \in Analyses,
                    run'[c].at \in {"resolved", "read"}, run'[c].kind = "link",
                    run'[c].racers = {}, NEW d, d = run'[c].dir
             PROVE  /\ files'[d] = "whole"
                    /\ \A b \in Analyses : ~(run'[b].at = "drop" /\ run'[b].dir = d)
  BY DEF PathInv, Dropping, At
<1>1. d \in Dirs
  <2>1. run'[c] \in Runs
    BY TypeNext DEF TypeOK
  <2> QED BY <2>1 DEF Runs
<1>2. ASSUME files[d] = "whole", \A b \in Analyses : ~(run[b].at = "drop" /\ run[b].dir = d),
             NEW a \in Analyses, Step(a) \/ Around(a)
      PROVE  /\ files'[d] = "whole"
             /\ \A b \in Analyses : ~(run'[b].at = "drop" /\ run'[b].dir = d)
  <2>1. files'[d] = "whole"
    <3>1. CASE Drop(a) /\ files' = [files EXCEPT ![run[a].dir] = "none"]
      <4>1. run[a].dir # d
        BY <1>2, <3>1 DEF Drop, At
      <4> QED BY <1>1, <1>2, <3>1, <4>1 DEF TypeOK
    <3>2. CASE files' = [files EXCEPT ![run[a].dir] = "whole"]
      BY <1>1, <1>2, <3>2 DEF TypeOK
    <3> QED BY <1>2, <3>1, <3>2, FilesChange DEF HoldsInv
  <2>2. ~(run'[a].at = "drop" /\ run'[a].dir = d)
    BY <1>2, DropsBad
  <2>3. ASSUME NEW b \in Analyses \ {a} PROVE ~(run'[b].at = "drop" /\ run'[b].dir = d)
    BY <1>2, OthersRun
  <2> QED BY <2>1, <2>2, <2>3
<1>3. ASSUME run[c].at \in {"resolved", "read"}, run[c].kind = "link", run[c].racers = {}, run[c].dir = d
      PROVE  files[d] = "whole" /\ \A b \in Analyses : ~(run[b].at = "drop" /\ run[b].dir = d)
  BY <1>3 DEF PathInv, Dropping, At
<1>4. ASSUME NEW a \in Analyses \ {c}, Step(a) \/ Around(a)
      PROVE  /\ files'[d] = "whole"
             /\ \A b \in Analyses : ~(run'[b].at = "drop" /\ run'[b].dir = d)
  <2>1. run'[c] = run[c]
    BY <1>4, OthersRun
  <2> QED BY <1>2, <1>3, <1>4, <2>1
<1>5. CASE Step(c) \/ Around(c)
  <2>1. CASE run' = run
    BY <1>2, <1>3, <1>5, <2>1
  <2>2. CASE Settled(c) /\ files'[run[c].dir] = "whole"
    <3>1. /\ run[c].dir = d /\ Dropping(d) = {} /\ run'[c].at = "resolved"
          /\ \A b \in Analyses \ {c} : run'[b] = run[b]
      BY <2>2 DEF Settled, RunIs
    <3> QED BY <2>2, <3>1 DEF Dropping, At
  <2>3. CASE run[c].at = "resolved" /\ Moved(c, "read") /\ files' = files
    <3>1. run[c].kind = "link" /\ run[c].racers = {} /\ run[c].dir = d
      BY <2>3 DEF Moved, RunIs
    <3> QED BY <1>2, <1>3, <1>5, <2>3, <3>1
  <2> QED BY <1>5, <2>1, <2>2, <2>3, Resolves DEF HoldsInv
<1>6. CASE UNCHANGED vars
  BY <1>3, <1>6 DEF vars
<1> QED BY <1>4, <1>5, <1>6 DEF Next

-----------------------------------------------------------------------------
(* The invariants.                                                         *)

LEMMA InvInit == Init => IInv
<1> SUFFICES ASSUME Init PROVE IInv
  OBVIOUS
<1>1. /\ \A a \in Analyses : run[a].at = "idle" /\ part[a] = "none"
      /\ sessions = {} /\ large = {}
  BY DEF Init, Idle
<1> QED BY <1>1, TypeInit DEF IInv, OwnInv, Own, HoldsInv, Holds, PathInv, Downloading

LEMMA InvNext == IInv /\ [Next]_vars => IInv'
BY TypeNext, OwnNext, HoldsNext, PathNext DEF IInv

LEMMA Invariant == Spec => []IInv
BY InvInit, InvNext, PTL DEF Spec

\* The path a linked paper was resolved to is whole when it is read, but for an
\* analysis that was about to unlink it when it was resolved.
THEOREM PathsStay == Spec => []PathStays
<1>1. IInv => PathStays
  BY DEF IInv, PathInv, PathStays
<1> QED BY <1>1, Invariant, PTL

\* An answered analysis left no temporary copy and no .part file.
THEOREM NothingLeft == Spec => []NoLeftovers
<1>1. IInv => NoLeftovers
  BY DEF IInv, OwnInv, Own, NoLeftovers, At
<1> QED BY <1>1, Invariant, PTL

\* Nothing but a whole PDF takes the name of a cached paper: what reaches the
\* rename was checked, and its .part file is written to its end.
THEOREM CacheWhole == Spec => CacheStaysWhole
<1>1. ASSUME IInv, [Next]_vars, NEW d \in Dirs, files[d] # "bad" PROVE files'[d] # "bad"
  <2>1. ASSUME NEW a \in Analyses, Step(a) \/ Around(a) PROVE files'[d] # "bad"
    BY <1>1, <2>1, FilesChange DEF IInv, HoldsInv, TypeOK
  <2> QED BY <1>1, <2>1 DEF Next, vars
<1>2. IInv /\ [Next]_vars => \A d \in Dirs : files[d] # "bad" => files'[d] # "bad"
  BY <1>1
<1> QED BY <1>2, Invariant, PTL DEF Spec, CacheStaysWhole

-----------------------------------------------------------------------------
(* Stopping.                                                               *)

\* A step from s to t that a stopped analysis may take.
Soon(s, t) ==
  /\ StageOf(t) # StageOf(s) => t \in {"complete", "report", "end", "done", "killed"}
  /\ (t = "fetch" => s \in {"look", "drop", "fetch"}) /\ (t = "sleep" => s = "sleep")

LEMMA SoonSteps ==
  /\ \A s, t : t \in {"complete", "report", "end", "done", "killed"} \/ s = t => Soon(s, t)
  /\ \A s, t \in {"idle", "copy", "configure"} : Soon(s, t)
  /\ \A s \in Downloading, t \in (Downloading \cup {"resolved"}) \ {"fetch", "sleep"} : Soon(s, t)
  /\ \A s \in {"look", "drop", "fetch"} : Soon(s, "fetch")
<1>1. ASSUME NEW s, NEW t, t \in {"complete", "report", "end", "done", "killed"} \/ s = t
      PROVE  Soon(s, t)
  <2>1. CASE t \in {"complete", "report", "end", "done", "killed"}
    BY <2>1 DEF Soon
  <2>2. CASE s = t
    BY <2>2 DEF Soon
  <2> QED BY <1>1, <2>1, <2>2
<1>2. \A s, t \in {"idle", "copy", "configure"} : Soon(s, t)
  <2>1. \A s \in {"idle", "copy", "configure"} : StageOf(s) = "before"
    BY DEF StageOf, Downloading
  <2> QED BY <2>1 DEF Soon
<1>3. \A s \in Downloading \cup {"resolved"} : StageOf(s) = "source_resolver"
  BY DEF StageOf, Downloading
<1>4. {"look", "drop", "fetch"} \subseteq Downloading
  BY DEF Downloading
<1> QED BY <1>1, <1>2, <1>3, <1>4 DEF Soon

LEMMA SoonOwn ==
  ASSUME TypeOK, NEW a \in Analyses, Step(a) \/ Around(a), Stopping(a)
  PROVE  Soon(run[a].at, run'[a].at)
<1> USE DEF At
<1>0. /\ \A o : Ended(a, o) => run'[a].at = "end"
      /\ \A s : Moved(a, s) \/ Redone(a, s) => run'[a].at = s
      /\ Settled(a) => run'[a].at = "resolved"
  BY DEF Ended, Moved, Redone, Settled, RunIs
<1>1. CASE Submit(a) \/ Copy(a) \/ Configure(a) \/ Detect(a)
  <2>1. CASE Submit(a)
    BY <2>1, StartMoves, SoonSteps DEF Submit, RunIs
  <2>2. CASE Copy(a)
    BY <1>0, <2>2, StartMoves, SoonSteps DEF Copy
  <2>3. CASE Configure(a) \/ Detect(a)
    BY <1>0, <2>3, StartMoves, SoonSteps
  <2> QED BY <1>1, <2>1, <2>2, <2>3
<1>2. CASE Look(a) \/ Drop(a) \/ Redirected(a)
  <2>1. run[a].at \in {"look", "drop", "fetch"}
    BY <1>2 DEF Look, Drop, Redirected
  <2>2. run'[a].at \in {"drop", "look", "fetch", "resolved"}
    BY <1>0, <1>2, DownloadMoves
  <2> QED BY <2>1, <2>2, SoonSteps DEF Downloading
<1>3. CASE DropFails(a) \/ FetchFails(a) \/ Retry(a) \/ Wake(a)
  <2>1. run'[a].at = "end"
    BY <1>0, <1>3, DownloadMoves
  <2> QED BY <2>1, SoonSteps
<1>4. CASE \/ Fetched(a) \/ Check(a) \/ Store(a) \/ WriteFails(a) \/ ReplaceFails(a) \/ Write(a)
           \/ Replace(a)
  <2>1. run[a].at \in Downloading
    BY <1>4 DEF Fetched, Check, Store, WriteFails, ReplaceFails, Write, Replace, Downloading
  <2>2. run'[a].at \in {"check", "store", "end", "write", "replace", "resolved"}
    BY <1>0, <1>4, DownloadMoves
  <2> QED BY <2>1, <2>2, SoonSteps DEF Downloading
<1>5. CASE \/ Resolved(a) \/ Read(a) \/ Process(a) \/ Final(a) \/ Reject(a) \/ OpenSession(a)
           \/ Report(a) \/ Answer(a) \/ Kill(a)
  <2>1. run'[a].at \in {"end", "complete", "report", "done", "killed"}
    BY <1>0, <1>5, StageMoves DEF RunIs
  <2> QED BY <2>1, SoonSteps
<1>6. CASE Cancel(a) \/ Expire(a) \/ Age(a)
  BY <1>6, SoonSteps DEF Cancel, Expire, Age
<1> QED BY <1>1, <1>2, <1>3, <1>4, <1>5, <1>6 DEF Step, Around, Download

\* After a cancellation or the deadline no further stage and no retry begins.
THEOREM StopSoon == Spec => StopsSoon
<1>1. ASSUME TypeOK, [Next]_vars, NEW a \in Analyses, Stopping(a)
      PROVE  Soon(run[a].at, run'[a].at)
  <2>1. CASE Step(a) \/ Around(a)
    BY <1>1, <2>1, SoonOwn
  <2>2. ASSUME NEW b \in Analyses \ {a}, Step(b) \/ Around(b) PROVE run'[a] = run[a]
    BY <1>1, <2>2, OthersRun
  <2>3. CASE UNCHANGED vars
    BY <2>3, SoonSteps DEF vars
  <2> QED BY <1>1, <2>1, <2>2, <2>3, SoonSteps DEF Next
<1>2. TypeOK /\ [Next]_vars =>
        \A a \in Analyses : Stopping(a) =>
          LET s == run[a].at  t == run'[a].at IN
          /\ StageOf(t) # StageOf(s) => t \in {"complete", "report", "end", "done", "killed"}
          /\ (t = "fetch" => s \in {"look", "drop", "fetch"}) /\ (t = "sleep" => s = "sleep")
  BY <1>1 DEF Soon
<1> QED BY <1>2, TypeCorrect, PTL DEF Spec, StopsSoon

-----------------------------------------------------------------------------
(* The refinement of AnalysisService.                                      *)

Phase == [a \in Analyses |->
           CASE run[a].at = "idle" -> "idle"
             [] run[a].at = "done" -> "answered"
             [] run[a].at = "killed" -> "killed"
             [] OTHER -> "running"]
Outcome == [a \in Analyses |-> IF At(a, "done") THEN run[a].outcome ELSE "none"]

LEMMA PhaseIs ==
  ASSUME NEW a \in Analyses
  PROVE  /\ run[a].at = "idle" => Phase[a] = "idle" /\ Outcome[a] = "none"
         /\ run[a].at = "done" => Phase[a] = "answered" /\ Outcome[a] = run[a].outcome
         /\ run[a].at = "killed" => Phase[a] = "killed" /\ Outcome[a] = "none"
         /\ run[a].at \in Active => Phase[a] = "running" /\ Outcome[a] = "none"
         /\ run'[a].at \in Active => Phase'[a] = "running" /\ Outcome'[a] = "none"
         /\ run'[a].at = "done" => Phase'[a] = "answered" /\ Outcome'[a] = run'[a].outcome
         /\ run'[a].at = "killed" => Phase'[a] = "killed" /\ Outcome'[a] = "none"
<1>1. "idle" \notin Active /\ "done" \notin Active /\ "killed" \notin Active
  BY DEF Active, Downloading
<1>2. /\ Phase[a] = CASE run[a].at = "idle" -> "idle"
                    [] run[a].at = "done" -> "answered"
                    [] run[a].at = "killed" -> "killed"
                    [] OTHER -> "running"
      /\ Outcome[a] = IF run[a].at = "done" THEN run[a].outcome ELSE "none"
  BY DEF Phase, Outcome, At
<1>3. /\ Phase'[a] = CASE run'[a].at = "idle" -> "idle"
                     [] run'[a].at = "done" -> "answered"
                     [] run'[a].at = "killed" -> "killed"
                     [] OTHER -> "running"
      /\ Outcome'[a] = IF run'[a].at = "done" THEN run'[a].outcome ELSE "none"
  BY DEF Phase, Outcome, At
<1> HIDE DEF Phase, Outcome
<1> QED BY <1>1, <1>2, <1>3

LEMMA PhaseFrame ==
  ASSUME TypeOK, NEW a \in Analyses, Step(a) \/ Around(a)
  PROVE  /\ Phase' = [Phase EXCEPT ![a] = Phase'[a]]
         /\ Outcome' = [Outcome EXCEPT ![a] = Outcome'[a]]
<1>1. \A b \in Analyses \ {a} : run'[b] = run[b]
  BY OthersRun
<1>2. \A b \in Analyses \ {a} : Phase'[b] = Phase[b] /\ Outcome'[b] = Outcome[b]
  BY <1>1 DEF Phase, Outcome, At
<1>3. /\ DOMAIN Phase = Analyses /\ DOMAIN Phase' = Analyses
      /\ DOMAIN Outcome = Analyses /\ DOMAIN Outcome' = Analyses
      /\ Phase = [b \in Analyses |-> Phase[b]] /\ Phase' = [b \in Analyses |-> Phase'[b]]
      /\ Outcome = [b \in Analyses |-> Outcome[b]] /\ Outcome' = [b \in Analyses |-> Outcome'[b]]
  BY DEF Phase, Outcome
<1> HIDE DEF Phase, Outcome
<1> QED BY <1>2, <1>3

\* A step within the running of an analysis is none for its caller.
LEMMA InnerStep ==
  ASSUME TypeOK, NEW a \in Analyses,
         \/ Copy(a) \/ Configure(a) \/ Detect(a) \/ Download(a) \/ Resolved(a) \/ Read(a)
         \/ Process(a) \/ Final(a) \/ Reject(a) \/ Report(a) \/ Age(a)
  PROVE  UNCHANGED <<Phase, Outcome, sessions, cancelled, late, large>>
<1> USE DEF disk, env, At
<1>1. UNCHANGED <<sessions, cancelled, late, large>>
  BY DEF Copy, Configure, Detect, Download, Look, Drop, DropFails, Fetched, Redirected, FetchFails,
    Retry, Wake, Check, Store, WriteFails, Write, Replace, ReplaceFails, Resolved, Read, Process, Final,
    Reject, Report, Age
<1>2. CASE Age(a)
  <2>1. run' = run
    BY <1>2 DEF Age
  <2> QED BY <1>1, <2>1 DEF Phase, Outcome
<1>3. CASE ~Age(a)
  <2>1. run[a].at \in Active
    BY <1>3 DEF Copy, Configure, Detect, Download, Look, Drop, DropFails, Fetched, Redirected,
      FetchFails, Retry, Wake, Check, Store, WriteFails, Write, Replace, ReplaceFails, Resolved, Read,
      Process, Final, Reject, Report, Active, Downloading
  <2>2. run'[a].at \in Active
    <3>0. /\ \A o : Ended(a, o) => run'[a].at = "end"
          /\ \A s : Moved(a, s) \/ Redone(a, s) => run'[a].at = s
          /\ Settled(a) => run'[a].at = "resolved"
      BY DEF Ended, Moved, Redone, Settled, RunIs
    <3>1. CASE Copy(a) \/ Configure(a) \/ Detect(a)
      BY <3>0, <3>1, StartMoves DEF Active, Downloading
    <3>2. CASE Download(a)
      BY <3>0, <3>2, DownloadMoves DEF Download, Active, Downloading
    <3>3. CASE Resolved(a) \/ Read(a) \/ Process(a) \/ Final(a) \/ Reject(a) \/ Report(a)
      BY <3>0, <3>3, StageMoves DEF Active, Downloading
    <3> QED BY <1>3, <3>1, <3>2, <3>3
  <2>3. Phase'[a] = Phase[a] /\ Outcome'[a] = Outcome[a]
    BY <2>1, <2>2, PhaseIs
  <2>4. Step(a)
    BY <1>3 DEF Step
  <2>5. /\ Phase = [Phase EXCEPT ![a] = Phase[a]]
        /\ Outcome = [Outcome EXCEPT ![a] = Outcome[a]]
    BY DEF Phase, Outcome
  <2> QED BY <1>1, <2>3, <2>4, <2>5, PhaseFrame
<1> QED BY <1>2, <1>3

LEMMA ServiceInit == Init => Service!Init
<1> SUFFICES ASSUME Init PROVE Service!Init
  OBVIOUS
<1>1. \A a \in Analyses : run[a].at = "idle"
  BY DEF Init, Idle
<1>2. Phase = [a \in Analyses |-> "idle"] /\ Outcome = [a \in Analyses |-> "none"]
  BY <1>1 DEF Phase, Outcome, At
<1>3. sessions = {} /\ cancelled = {} /\ late = {} /\ large = {}
  BY DEF Init
<1> QED BY <1>2, <1>3 DEF Service!Init, Phase, Outcome

\* Each step is one of the service or none.
LEMMA ServiceStep ==
  ASSUME TypeOK, NEW a \in Analyses, Own(a), Step(a) \/ Around(a)
  PROVE  Service!Next \/ UNCHANGED <<Phase, Outcome, sessions, cancelled, late, large>>
<1> USE DEF At
<1>0. /\ Phase' = [Phase EXCEPT ![a] = Phase'[a]]
      /\ Outcome' = [Outcome EXCEPT ![a] = Outcome'[a]]
      /\ Phase = [Phase EXCEPT ![a] = Phase[a]]
      /\ Outcome = [Outcome EXCEPT ![a] = Outcome[a]]
  <2>1. /\ Phase = [Phase EXCEPT ![a] = Phase[a]]
        /\ Outcome = [Outcome EXCEPT ![a] = Outcome[a]]
    BY DEF Phase, Outcome
  <2> QED BY <2>1, PhaseFrame
<1>1. CASE Submit(a)
  <2>1. /\ run[a].at = "idle" /\ large' \in {large, large \cup {a}}
        /\ UNCHANGED <<sessions, cancelled, late>>
    BY <1>1 DEF Submit
  <2>2. run'[a].at \in Active
    BY <1>1, StartMoves DEF RunIs, Active
  <2>3. /\ Phase[a] = "idle" /\ Phase' = [Phase EXCEPT ![a] = "running"]
        /\ Outcome' = Outcome
    BY <1>0, <2>1, <2>2, PhaseIs
  <2>4. Service!Submit(a)
    BY <2>1, <2>3 DEF Service!Submit, Phase, Outcome
  <2> QED BY <2>4 DEF Service!Next
<1>2. CASE Cancel(a) \/ Expire(a)
  <2>1. /\ run[a].at \in Active /\ run' = run /\ UNCHANGED <<sessions, large>>
        /\ \/ cancelled' = cancelled \cup {a} /\ late' = late
           \/ late' = late \cup {a} /\ cancelled' = cancelled
    BY <1>2 DEF Cancel, Expire
  <2>2. Phase[a] = "running" /\ Phase' = Phase /\ Outcome' = Outcome
    <3>1. Phase' = Phase /\ Outcome' = Outcome
      BY <2>1 DEF Phase, Outcome
    <3> QED BY <2>1, <3>1, PhaseIs
  <2>3. Service!Cancel(a) \/ Service!Expire(a)
    BY <2>1, <2>2 DEF Service!Cancel, Service!Expire, Phase, Outcome
  <2> QED BY <2>3 DEF Service!Next
<1>3. CASE OpenSession(a)
  <2>1. /\ run[a].at = "complete" /\ sessions' = sessions \cup {a}
        /\ UNCHANGED <<cancelled, late, large>>
    BY <1>3 DEF OpenSession, env
  <2>2. run[a].at \in Active /\ run'[a].at \in Active /\ a \notin large
    BY <1>3, <2>1, StageMoves DEF Moved, RunIs, Active, Own, MayBeLarge, Downloading
  <2>3. Phase[a] = "running" /\ Phase' = Phase /\ Outcome' = Outcome
    BY <1>0, <2>2, PhaseIs
  <2>4. Service!Open(a)
    BY <2>1, <2>2, <2>3 DEF Service!Open, Phase, Outcome
  <2> QED BY <2>4 DEF Service!Next
<1>4. CASE Answer(a)
  <2>1. /\ run[a].at = "end" /\ sessions' = sessions
        /\ cancelled' = cancelled \ {a} /\ late' = late \ {a} /\ large' = large \ {a}
    BY <1>4 DEF Answer, Settle
  <2>2. Answers(a, run[a].outcome)
    BY <2>1 DEF Own
  <2>3. run'[a].at = "done" /\ run'[a].outcome = run[a].outcome
    BY <1>4, StageMoves DEF Moved, RunIs
  <2>4. run[a].outcome \in Service!Outcomes
    BY <2>2 DEF Answers, Outcomes, Service!Outcomes
  <2>5. PICK o \in Service!Outcomes : o = run[a].outcome
    BY <2>4
  <2>6. /\ Phase[a] = "running" /\ Phase' = [Phase EXCEPT ![a] = "answered"]
        /\ Outcome' = [Outcome EXCEPT ![a] = o]
    BY <1>0, <2>1, <2>3, <2>5, PhaseIs DEF Active
  <2>7. Answers(a, o)
    BY <2>2, <2>5 DEF Answers
  <2>8. Service!Answer(a, o)
    BY <2>1, <2>6, <2>7 DEF Service!Answer, Service!Settle, Answers, Phase, Outcome
  <2> QED BY <2>8 DEF Service!Next
<1>5. CASE Kill(a)
  <2>1. /\ run[a].at \in Active /\ sessions' = sessions
        /\ cancelled' = cancelled \ {a} /\ late' = late \ {a} /\ large' = large \ {a}
    BY <1>5 DEF Kill, Settle
  <2>2. run'[a].at = "killed"
    BY <1>5, StageMoves DEF RunIs
  <2>3. /\ Phase[a] = "running" /\ Phase' = [Phase EXCEPT ![a] = "killed"]
        /\ Outcome' = Outcome
    BY <1>0, <2>1, <2>2, PhaseIs
  <2>4. Service!Kill(a)
    BY <2>1, <2>3 DEF Service!Kill, Service!Settle, Phase, Outcome
  <2> QED BY <2>4 DEF Service!Next
<1>6. CASE \/ Copy(a) \/ Configure(a) \/ Detect(a) \/ Download(a) \/ Resolved(a) \/ Read(a)
           \/ Process(a) \/ Final(a) \/ Reject(a) \/ Report(a) \/ Age(a)
  BY <1>6, InnerStep
<1> QED BY <1>1, <1>2, <1>3, <1>4, <1>5, <1>6 DEF Step, Around

\* Whatever is downloaded, cached, retried, stopped or killed, the caller sees
\* one outcome, a session on success and none on a cancellation, an exceeded
\* limit or a timeout, and a reason for every stop.
THEOREM ImplementsService == Spec => ServiceSpec
<1>1. IInv /\ [Next]_vars => [Service!Next]_(Service!vars)
  <2> SUFFICES ASSUME IInv, [Next]_vars PROVE [Service!Next]_(Service!vars)
    OBVIOUS
  <2>1. ASSUME NEW a \in Analyses, Step(a) \/ Around(a) PROVE [Service!Next]_(Service!vars)
    <3>1. Service!Next \/ UNCHANGED <<Phase, Outcome, sessions, cancelled, late, large>>
      BY <2>1, ServiceStep DEF IInv, OwnInv
    <3>2. CASE UNCHANGED <<Phase, Outcome, sessions, cancelled, late, large>>
      BY <3>2 DEF Service!vars, Phase, Outcome
    <3> QED BY <3>1, <3>2
  <2>2. CASE UNCHANGED vars
    BY <2>2 DEF vars, Service!vars, At
  <2> QED BY <2>1, <2>2 DEF Next
<1> QED BY <1>1, ServiceInit, Invariant, PTL DEF Spec, ServiceSpec, Service!Spec
=============================================================================
