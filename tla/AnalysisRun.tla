---------------------------- MODULE AnalysisRun -----------------------------
(***************************************************************************)
(* Analyses of papers, as PreReqAIPlatform.analyze runs them: the stages   *)
(* of the pipeline, the checks for a cancellation or a passed time limit   *)
(* between them, the download of a linked paper with its retries, and the  *)
(* download cache that all analyses of the machine share.                  *)
(*                                                                         *)
(* Every linked analysis here wants the same paper: two papers have two    *)
(* file names and do not meet.  The stages between reading the paper and   *)
(* the last one are one stage, "process".  What the stages compute is left *)
(* out; any of them may fail.                                              *)
(***************************************************************************)
EXTENDS Naturals

CONSTANTS
  Analyses,     \* one run each; a caller that tries again is another one
  Cancellable,  \* those run with a should_cancel: the command line's
  Limited,      \* those run with limits of time and size
  MaxRetries,   \* Len(RETRY_DELAYS)
  MaxRequests   \* requests that may succeed in one download: a redirect is one

ASSUME DownloadAssumption == MaxRetries \in Nat /\ MaxRequests \in Nat \ {0}

VARIABLES
  run,        \* each analysis: its next step and locals
  files,      \* the paper's file in each cache directory
  part,       \* the directory that holds the .part file of an analysis
  held,       \* what that file holds
  old,        \* the analyses whose .part file is over STALE_PARTIAL_SECONDS old
  temp,       \* the analyses whose upload has a temporary file
  cancelled, late, large,  \* as in AnalysisService
  sessions    \* the analyses that opened a session

disk == <<files, part, held, old, temp>>
env  == <<cancelled, late, large>>
vars == <<run, files, part, held, old, temp, cancelled, late, large, sessions>>

-----------------------------------------------------------------------------
Dirs  == {"primary", "fallback"}
Kinds == {"upload", "local", "link"}

\* A file or a reply that is no whole PDF is "bad".
Contents == {"none", "bad", "whole"}

Downloading == {"look", "drop", "fetch", "sleep", "check", "store", "write", "replace"}
Active == {"copy", "configure", "detect", "resolved", "read", "process", "final",
           "complete", "report", "end"} \cup Downloading
Points == Active \cup {"idle", "done", "killed"}

Outcomes == {"success", "cancelled", "limit_exceeded", "timeout", "failure", "error"}

\* dir: the candidate at hand, then the one resolved to; body: the reply;
\* racers: history, the analyses about to unlink that file when it was resolved.
Runs == [at : Points, kind : Kinds, dir : Dirs, tries : 0..MaxRetries,
         requests : 1..MaxRequests, body : Contents,
         outcome : Outcomes \cup {"none"}, racers : SUBSET Analyses]

Idle == [at |-> "idle", kind |-> "local", dir |-> "primary", tries |-> 0,
         requests |-> 1, body |-> "none", outcome |-> "none", racers |-> {}]

At(a, s)  == run[a].at = s
Then(a, s) == run' = [run EXCEPT ![a].at = s]
End(a, o)  == run' = [run EXCEPT ![a] = [Idle EXCEPT !.at = "end", !.outcome = o]]

-----------------------------------------------------------------------------
(* Stopping: should_cancel, asked between stages and around a retry.       *)

Stopping(a) == a \in cancelled \cup late

\* The caller's wish is looked at first, the deadline after it.
StopOutcome(a) == IF a \in cancelled THEN "cancelled" ELSE "limit_exceeded"

Proceed(a, s) == IF Stopping(a) THEN End(a, StopOutcome(a)) ELSE Then(a, s)

Cancel(a) ==
  /\ a \in Cancellable /\ run[a].kind # "upload" /\ run[a].at \in Active \ {"end"}
  /\ cancelled' = cancelled \cup {a}
  /\ UNCHANGED <<run, disk, late, large, sessions>>

\* The deadline is set when the analysis starts, after an upload was copied,
\* and may have passed by the pipeline's first check.
Expire(a) ==
  /\ a \in Limited /\ run[a].at \in Active \ {"copy", "end"}
  /\ late' = late \cup {a}
  /\ UNCHANGED <<run, disk, cancelled, large, sessions>>

-----------------------------------------------------------------------------
(* Submitting a paper and the checks before the pipeline.                  *)

Submit(a) ==
  /\ At(a, "idle")
  /\ \E k \in Kinds :
       /\ run' = [run EXCEPT ![a].kind = k,
                             ![a].at = IF k = "upload" THEN "copy" ELSE "configure"]
       /\ temp' = IF k = "upload" THEN temp \cup {a} ELSE temp
       /\ \/ UNCHANGED large
          \/ (k = "upload" \/ a \in Limited) /\ large' = large \cup {a}
  /\ UNCHANGED <<files, part, held, old, cancelled, late, sessions>>

Copy(a) ==
  /\ At(a, "copy")
  /\ \/ a \in large /\ End(a, "limit_exceeded")
     \/ a \notin large /\ Then(a, "configure")
     \/ End(a, "error")
  /\ UNCHANGED <<disk, env, sessions>>

Configure(a) ==
  /\ At(a, "configure")
  /\ \/ End(a, "failure")
     \/ run[a].kind = "local" /\ a \in large /\ End(a, "limit_exceeded")
     \/ ~(run[a].kind = "local" /\ a \in large) /\ Proceed(a, "detect")
  /\ UNCHANGED <<disk, env, sessions>>

\* The first stage; the resolver returns the path of a local paper as it is.
Detect(a) ==
  /\ At(a, "detect")
  /\ \/ End(a, "failure")
     \/ Proceed(a, IF run[a].kind = "link" THEN "look" ELSE "resolved")
  /\ UNCHANGED <<disk, env, sessions>>

-----------------------------------------------------------------------------
(* source_resolver: the cache, the download and its retries.               *)

Dropping(d) == {b \in Analyses : At(b, "drop") /\ run[b].dir = d}

Resolve(a) == run' = [run EXCEPT ![a].at = "resolved", ![a].body = "none",
                                 ![a].racers = Dropping(run[a].dir)]

NextCandidate(a) ==
  run' = IF run[a].dir = "primary"
         THEN [run EXCEPT ![a].at = "look", ![a].dir = "fallback"]
         ELSE [run EXCEPT ![a].at = "fetch"]

\* A file that is not there or cannot be read is passed over.
Look(a) ==
  /\ At(a, "look")
  /\ \/ files[run[a].dir] = "whole" /\ Resolve(a)
     \/ files[run[a].dir] = "bad" /\ Then(a, "drop")
     \/ NextCandidate(a)
  /\ UNCHANGED <<disk, env, sessions>>

\* The file read as bad is unlinked, by then whatever it holds.
Drop(a) ==
  /\ At(a, "drop")
  /\ files' = [files EXCEPT ![run[a].dir] = "none"]
  /\ NextCandidate(a)
  /\ UNCHANGED <<part, held, old, temp, env, sessions>>

DropFails(a) ==
  /\ At(a, "drop")
  /\ End(a, "failure")
  /\ UNCHANGED <<disk, env, sessions>>

\* A reply came, which may be an error page or cut off.
Fetched(a) ==
  /\ At(a, "fetch")
  /\ \E b \in {"bad", "whole"} :
       run' = [run EXCEPT ![a].at = "check", ![a].body = b, ![a].tries = 0,
                          ![a].requests = 1]
  /\ UNCHANGED <<disk, env, sessions>>

\* Mutant: the end of the reply is not looked at.
MutantCheck(a) ==
  /\ At(a, "check")
  /\ run' = [run EXCEPT ![a].at = "store", ![a].dir = "primary"]
  /\ UNCHANGED <<disk, env, sessions>>

\* Only a whole PDF is stored, beside the working directory first.
Check(a) ==
  /\ At(a, "check")
  /\ \/ run[a].body = "bad" /\ End(a, "failure")
     \/ /\ run[a].body = "whole"
        /\ run' = [run EXCEPT ![a].at = "store", ![a].dir = "primary"]
  /\ UNCHANGED <<disk, env, sessions>>

\* The Crossref record or a redirect came: one more request, retried anew.
Redirected(a) ==
  /\ At(a, "fetch") /\ run[a].requests < MaxRequests
  /\ run' = [run EXCEPT ![a].requests = @ + 1, ![a].tries = 0]
  /\ UNCHANGED <<disk, env, sessions>>

\* A refused address, a permanent error, or a read timeout.
FetchFails(a) ==
  /\ At(a, "fetch")
  /\ \E o \in {"failure", "timeout"} : End(a, o)
  /\ UNCHANGED <<disk, env, sessions>>

\* Mutant: the delays start over for every attempt.
MutantRetry(a) ==
  /\ At(a, "fetch") /\ ~Stopping(a) /\ MaxRetries > 0
  /\ Then(a, "sleep")
  /\ UNCHANGED <<disk, env, sessions>>

\* Mutant: one retry too many.
MutantRetryMore(a) ==
  /\ At(a, "fetch") /\ ~Stopping(a) /\ run[a].tries <= MaxRetries
  /\ run' = [run EXCEPT ![a].at = "sleep", ![a].tries = @ + 1]
  /\ UNCHANGED <<disk, env, sessions>>

\* A transient failure: retried after a delay, with a check before it.
Retry(a) ==
  /\ At(a, "fetch") /\ run[a].tries < MaxRetries
  /\ \/ Stopping(a) /\ End(a, StopOutcome(a))
     \/ ~Stopping(a) /\ run' = [run EXCEPT ![a].at = "sleep", ![a].tries = @ + 1]
  /\ UNCHANGED <<disk, env, sessions>>

\* Mutant: nothing is checked after the delay.
MutantWake(a) ==
  /\ At(a, "sleep")
  /\ Then(a, "fetch")
  /\ UNCHANGED <<disk, env, sessions>>

\* And with a check after it.
Wake(a) ==
  /\ At(a, "sleep")
  /\ Proceed(a, "fetch")
  /\ UNCHANGED <<disk, env, sessions>>

-----------------------------------------------------------------------------
(* _store and _write_atomically.                                           *)

\* An OSError in the first directory leads to the second one.
StoreFails(a) ==
  IF run[a].dir = "primary"
  THEN run' = [run EXCEPT ![a].at = "store", ![a].dir = "fallback"]
  ELSE End(a, "failure")

\* Old .part files go, whoever wrote them, and the own one is opened, empty.
Store(a) ==
  /\ At(a, "store")
  /\ LET gone == {b \in old : part[b] = run[a].dir} IN
     \/ /\ part' = [b \in Analyses |-> IF b = a THEN run[a].dir
                                       ELSE IF b \in gone THEN "none" ELSE part[b]]
        /\ held' = [b \in Analyses |-> IF b = a THEN "bad"
                                       ELSE IF b \in gone THEN "none" ELSE held[b]]
        /\ old' = old \ gone
        /\ Then(a, "write")
        /\ UNCHANGED <<files, temp, env, sessions>>
     \/ /\ StoreFails(a)
        /\ UNCHANGED <<disk, env, sessions>>

Unlinked(a) ==
  /\ part' = [part EXCEPT ![a] = "none"]
  /\ held' = [held EXCEPT ![a] = "none"]
  /\ old' = old \ {a}

\* Mutant: a failed write leaves its .part file.
MutantWriteFails(a) ==
  /\ At(a, "write")
  /\ StoreFails(a)
  /\ UNCHANGED <<disk, env, sessions>>

WriteFails(a) ==
  /\ At(a, "write")
  /\ StoreFails(a)
  /\ Unlinked(a)
  /\ UNCHANGED <<files, temp, env, sessions>>

\* What is written to a file that was removed meanwhile is lost with it.
Write(a) ==
  /\ At(a, "write")
  /\ held' = IF part[a] = "none" THEN held ELSE [held EXCEPT ![a] = run[a].body]
  /\ Then(a, "replace")
  /\ UNCHANGED <<files, part, old, temp, env, sessions>>

\* Mutant: the first path is returned, wherever the file went.
MutantReplace(a) ==
  /\ At(a, "replace") /\ part[a] # "none"
  /\ files' = [files EXCEPT ![run[a].dir] = held[a]]
  /\ run' = [run EXCEPT ![a].at = "resolved", ![a].dir = "primary", ![a].body = "none",
                        ![a].racers = Dropping("primary")]
  /\ Unlinked(a)
  /\ UNCHANGED <<temp, env, sessions>>

\* os.replace: the .part file takes the final name.
Replace(a) ==
  /\ At(a, "replace") /\ part[a] # "none"
  /\ files' = [files EXCEPT ![run[a].dir] = held[a]]
  /\ Resolve(a)
  /\ Unlinked(a)
  /\ UNCHANGED <<temp, env, sessions>>

\* Another analysis removed the .part file, or the rename is refused.
ReplaceFails(a) ==
  /\ At(a, "replace")
  /\ StoreFails(a)
  /\ Unlinked(a)
  /\ UNCHANGED <<files, temp, env, sessions>>

-----------------------------------------------------------------------------
(* The stages after it.                                                    *)

\* A downloaded paper may turn out too large.
Resolved(a) ==
  /\ At(a, "resolved")
  /\ \/ run[a].kind = "link" /\ a \in large /\ End(a, "limit_exceeded")
     \/ ~(run[a].kind = "link" /\ a \in large) /\ Proceed(a, "read")
  /\ UNCHANGED <<disk, env, sessions>>

\* The path of a linked paper is opened now, not when it was resolved.
Read(a) ==
  /\ At(a, "read")
  /\ \/ End(a, "failure")
     \/ /\ run[a].kind = "link" => files[run[a].dir] = "whole"
        /\ Proceed(a, "process")
  /\ UNCHANGED <<disk, env, sessions>>

Process(a) ==
  /\ At(a, "process")
  /\ End(a, "failure") \/ Proceed(a, "final")
  /\ UNCHANGED <<disk, env, sessions>>

\* Nothing is checked after the last stage.
Final(a) ==
  /\ At(a, "final")
  /\ End(a, "failure") \/ Then(a, "complete")
  /\ UNCHANGED <<disk, env, sessions>>

\* An incomplete result is a failure; an error while the plan is
\* personalised leaves the platform as it is.
Reject(a) ==
  /\ At(a, "complete")
  /\ \E o \in {"failure", "error"} : End(a, o)
  /\ UNCHANGED <<disk, env, sessions>>

OpenSession(a) ==
  /\ At(a, "complete")
  /\ sessions' = sessions \cup {a}
  /\ Then(a, "report")
  /\ UNCHANGED <<disk, env>>

\* Mutant: a stop is looked for once more when the session is open.
MutantReport(a) ==
  /\ At(a, "report")
  /\ \/ \E o \in {"success", "failure", "error"} : End(a, o)
     \/ Stopping(a) /\ End(a, StopOutcome(a))
  /\ UNCHANGED <<disk, env, sessions>>

\* The warnings and the diagnostics may raise, and a body that is no valid
\* final state is turned into a failure; the session stays open in both.
Report(a) ==
  /\ At(a, "report")
  /\ \E o \in {"success", "failure", "error"} : End(a, o)
  /\ UNCHANGED <<disk, env, sessions>>

\* A wish to stop and a deadline end with their analysis.
Settle(a) ==
  /\ cancelled' = cancelled \ {a} /\ late' = late \ {a} /\ large' = large \ {a}

\* The copy of an upload goes whatever the outcome.
Answer(a) ==
  /\ At(a, "end")
  /\ Then(a, "done")
  /\ temp' = temp \ {a}
  /\ Settle(a)
  /\ UNCHANGED <<files, part, held, old, sessions>>

-----------------------------------------------------------------------------
(* What happens around the analyses.                                       *)

\* The process of an analysis dies; its files stay as they are.
Kill(a) ==
  /\ run[a].at \in Active
  /\ run' = [run EXCEPT ![a] = [Idle EXCEPT !.at = "killed"]]
  /\ Settle(a)
  /\ UNCHANGED <<disk, sessions>>

\* An hour passes; the writer of the .part file may be dead or suspended.
Age(a) ==
  /\ part[a] # "none"
  /\ old' = old \cup {a}
  /\ UNCHANGED <<run, files, part, held, temp, env, sessions>>

\* An older version may have left a file that is no whole PDF.
Init ==
  /\ run = [a \in Analyses |-> Idle]
  /\ files \in [Dirs -> Contents]
  /\ part = [a \in Analyses |-> "none"] /\ held = [a \in Analyses |-> "none"]
  /\ old = {} /\ temp = {} /\ cancelled = {} /\ late = {} /\ large = {} /\ sessions = {}

Download(a) ==
  \/ Look(a) \/ Drop(a) \/ DropFails(a) \/ Fetched(a) \/ Redirected(a) \/ FetchFails(a)
  \/ Retry(a) \/ Wake(a) \/ Check(a) \/ Store(a) \/ WriteFails(a) \/ Write(a)
  \/ Replace(a) \/ ReplaceFails(a)

Step(a) ==
  \/ Copy(a) \/ Configure(a) \/ Detect(a) \/ Download(a) \/ Resolved(a) \/ Read(a)
  \/ Process(a) \/ Final(a) \/ Reject(a) \/ OpenSession(a) \/ Report(a)
  \/ Answer(a)

Around(a) == Submit(a) \/ Cancel(a) \/ Expire(a) \/ Kill(a) \/ Age(a)

Next == \E a \in Analyses : Step(a) \/ Around(a)

\* A submitted analysis has a thread of its own; each of its requests and
\* sleeps is taken to end by itself.
Spec     == Init /\ [][Next]_vars
FairSpec == Spec /\ \A a \in Analyses : WF_vars(Step(a))

-----------------------------------------------------------------------------
(* What must hold.                                                         *)

\* Every variable has its type.
TypeOK ==
  /\ run \in [Analyses -> Runs]
  /\ files \in [Dirs -> Contents] /\ held \in [Analyses -> Contents]
  /\ part \in [Analyses -> Dirs \cup {"none"}]
  /\ old \subseteq Analyses /\ temp \subseteq Analyses
  /\ cancelled \subseteq Analyses /\ late \subseteq Analyses
  /\ large \subseteq Analyses /\ sessions \subseteq Analyses

\* The path ArxivResolver.resolve returned still names the whole paper when it
\* is read, whatever other analyses look up, store or clean up meanwhile; but
\* for the one race of _is_cached_pdf, an analysis that had found a bad file
\* under that name and had not unlinked it yet.
PathStays ==
  \A a \in Analyses :
     /\ run[a].at \in {"resolved", "read"} /\ run[a].kind = "link" /\ run[a].racers = {}
     => files[run[a].dir] = "whole"

\* An analysis that answered left no temporary copy and no .part file of its
\* own (_write_atomically, _analyze_upload), through every failure; only a
\* killed one may.
NoLeftovers ==
  \A a \in Analyses : At(a, "done") => part[a] = "none" /\ a \notin temp

\* However replies are cut off, writes interrupted, writers killed and .part
\* files cleaned up under them, nothing that is no whole PDF takes the name of
\* a cached paper (resolve, _write_atomically): a bad file there is one an
\* older version left.
CacheStaysWhole ==
  [][\A d \in Dirs : files[d] # "bad" => files'[d] # "bad"]_vars

StageOf(s) ==
  CASE s \in {"idle", "copy", "configure"} -> "before"
    [] s = "detect" -> "source_detector"
    [] s \in Downloading \cup {"resolved"} -> "source_resolver"
    [] OTHER -> s

\* After a cancellation or the deadline an analysis finishes the stage it is
\* in at most (_StageTimer.mark), and begins no further retry (_with_retries).
StopsSoon ==
  [][\A a \in Analyses : Stopping(a) =>
       LET s == run[a].at  t == run'[a].at IN
       /\ StageOf(t) # StageOf(s) => t \in {"complete", "report", "end", "done", "killed"}
       /\ (t = "fetch" => s \in {"look", "drop", "fetch"}) /\ (t = "sleep" => s = "sleep")]_vars

\* Whatever an analysis downloads, its caller sees what AnalysisService
\* promises (analyze, _stopped_outcome).
Service == INSTANCE AnalysisService WITH
  phase   <- [a \in Analyses |->
               CASE run[a].at = "idle" -> "idle"
                 [] run[a].at = "done" -> "answered"
                 [] run[a].at = "killed" -> "killed"
                 [] OTHER -> "running"],
  outcome <- [a \in Analyses |-> IF At(a, "done") THEN run[a].outcome ELSE "none"]

ServiceSpec == Service!Spec

\* Every analysis answers, whatever fails, is retried or redirected, unless
\* its process dies.
EveryAnalysisEnds ==
  \A a \in Analyses : run[a].at \in Active ~> run[a].at \in {"done", "killed"}
=============================================================================
