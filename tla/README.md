# PreReqAI in TLA+

A model of the parts of PreReqAI whose correctness depends on order: several
requests at once, failing writes, restarts, long sequences of marks. The modules
are translated from the Python under `src/backend`; where the text below names a
line, it is a line of that file at this commit.

Contents: [the system](#the-system), [what is modelled](#what-is-modelled),
[checks](#checks), [proofs](#proofs), [findings](#findings),
[what is not modelled](#what-is-not-modelled), [plan](#plan).

## The system

PreReqAI analyses a research paper, derives the concepts a learner has to study
before reading it, and keeps a *session* in which the learner marks concepts as
studied or known and asks questions. The product is one server process.

| Part | State it keeps | Operations | Talks to |
|---|---|---|---|
| Session store (`session/session_manager.py`) | table of sessions in memory, unsaved marks, save locks, times of use, one file per session, summaries cache | create, get, save, delete, list, summaries, sweep, evict | files of `PREREQAI_SESSION_DIR` |
| Session and progress endpoints (`api/session_routes.py`, `api/prerequisite_routes.py`) | none | analyse, read, question, mark/unmark studied, mark/unmark known, delete, list | store, platform, question pipeline |
| Platform (`platform/prereqai_platform.py`) | none; changes the session's paper and report in place | analyze, `_set_concept_studied`, mark/unmark known, `_personalize` | store, analysis stages |
| Study progress and planner (`progress/`, `prerequisites/`) | fields of the paper: plan, progress, missing prerequisites, readiness | initialize, complete, reset, evaluate, generate, analyze | platform |
| Question pipeline (`pipeline/interactive_learning_pipeline.py`) | history, active concept, workflow memory of a session | answer, with rollback | session |
| Analysis pipeline, limits, ingestion (`pipeline/research_paper_pipeline.py`, `platform/analysis_limits.py`, `ingestion/`) | download cache, retry counter | run in stages, download with retries, cancel, time out | files, network |
| Agent task services (`agent_task_queue*`, `agent_task_lifecycle`, ...) | queue entries, reservations, retry schedules, dead letters, in memory or JSON files | enqueue, claim, release, reserve, expire, rebalance, dead-letter, schedule | each other; not wired into the application |
| Policy, risk, recovery, strategy, memory, LLM, workspace, notebook-to-API and code-patch families, frontend view models | records in their own stores | sequential record keeping and pure text functions | each other; not wired into the application |

How it runs. The mark endpoints are `async def` and run on the one event-loop
thread (`prerequisite_routes.py` 328-418); analysis, questions, reads and deletes
run on worker threads. They share one `SessionManager` and its mutable
`LearningSession` objects. `_lock` guards the table; each session has a save lock;
`last_save_ok` is one flag for everybody. Nothing holds a lock from `get()` to
`save()`.

What is hard, and what makes each part correct:

* **Store**: restores, saves, evictions and deletes of one session interleave; a
  write fails; the process stops between a change and its save; files expire
  between a look and an unlink. Correct means: a change answered as saved survives,
  a session has one object, saves do not go backwards, memory is bounded, a
  delete is final, every request is answered.
* **Study plan**: any sequence of marks and undos, with rebuilds that can fail and
  be rolled back. Correct means: no study progress is lost, no concept is both
  known and planned, progress follows the plan.
* **Task queue and reservations**: two services, two locks, claims that expire.
  Correct means: one owner per task, a reserved entry is not removed, no deadlock.
* **Question rollback**: a failed question must leave no trace, and no more than that.
* **Analysis run**: one outcome that holds, no success without its session and no
  session after a stop, a cache that stays whole, nothing left behind, a prompt stop.

`PROJECT.json` lists every hazard at its line with the property that covers it.

## What is modelled

### SessionStore

`SessionStore.tla` is the store and the part of each handler that uses it, with
`PREREQAI_SESSION_DIR` set. A thread serves one request at a time; `pc[t]` is the
point of the code it has reached and `req[t]` the local variables of the call. One
step is what runs between two points at which another thread may run: a block
under `_lock`, one access to a shared attribute, or one file operation.

| Variable | Code |
|---|---|
| `sessions`, `heap` | `self.sessions`; the objects it refers to. Objects have addresses, so that sharing one and working on a copy are different states; an address nobody refers to is free again |
| `files` | the saved file of each id: the changes in it, and whether it is past its expiry |
| `unsaved`, `lastSaveOk` | `_unsaved`, `last_save_ok` |
| `saveLocks`, `lockGen`, `locked` | `_save_locks`: which ids have a lock, how often `delete` has dropped it (a new lock is another lock), which locks are held |
| `lastUsed`, `older` | `_last_used`: which ids have a time, and whose is earlier |
| `issued`, `born`, `acked`, `deleted`, `raced`, `shared`, `doomed`, `failed` | history used by properties only: what was requested, created, answered as saved, deleted, deleted with another request open, requested twice at once, asked to be deleted, answered with an error though it was made |
| `fails`, `ages`, `crashes` | how many of the allowed faults have happened |

A session's content is abstracted to the set of changes made to it: a change is a
number, 0 the creation. That is what the durability properties tell apart; what a
change does to the study plan does not matter to the store.

| Code | Actions |
|---|---|
| `create` 224-258, `purge_expired` 137-162 | `Create`, `SweepKeep`, `SweepExpired`, `SweepUnlink`, `SweepUnlinkFails`, `SweepDone`, then save and `Evict` |
| `get` 279-318, `_read` 320-340, `_expired` 124-135 | `Request`, `LoadNothing`, `LoadExpired`, `UnlinkExpired`, `UnlinkExpiredFails`, `Load`, `Install`, `Touch`, `Evict` |
| `_evict_oldest` 260-277 | `Evict` |
| `save` 164-222 | `SaveLock`, `SaveDump`, `SaveSwap`, `SaveFail`, `SaveOk`, `SaveDiscard`, `SaveFailed`, `SaveNote` |
| `delete` 384-419 | get, then `Pop`, `Unlink`, `UnlinkFails` |
| mark and question handlers | `Refuse`, or `Apply`, then save and `Answer` |
| `_set_concept_studied` when `_refresh_progress` raises (platform 429-430) | `Apply`, then `RefreshFails`: the change stays in memory, neither saved nor marked, and the answer is an error |
| 404 path, `is_unreadable` 377-382 | `NotFound`, `Probe` |
| time, restart | `Age`, `Crash` |

The time of the last sweep is left open (`Create` sweeps or not). A lock is taken
in the step that first needs it and released in the step after which the code
releases it. Between `SaveDump` and `SaveSwap` the temporary file is written; its
name is unique per thread and it is not modelled.

`DurableSessions.tla` is the abstract specification: a session is created once,
changes accumulate, a change may be confirmed once it is in, a restart may forget
only what was not confirmed. `SessionStore` refines it with the session a client
sees (the object in memory, else the file) as `value`, as long as

* there is room in memory for every session created, nothing has failed, no file has
  expired and nobody has asked for a delete, whatever overlaps (`SteadyIsDurable`); or
* no two requests on one session have overlapped, nothing was deleted, no file has
  expired and no write failed, whatever the cap (`EvictionIsDurable`).

An eviction is then a `Restart` of the sessions it drops, and an update may show first
when its save reaches the file. That save also writes what a mark whose refresh failed
had left in the object, so an abstract `Update` adds a set of changes.

### StudyPlan

`StudyPlan.tla` is what the four mark operations of the platform do to one session:
its paper, its report, its file. They run on the event-loop thread, one at a time,
but change the paper in place in many steps, any of which may raise, and a question
on a worker thread may save the session meanwhile.

| Variable | Code |
|---|---|
| `paper.known` | `missing_prerequisites` satisfied with `KNOWN_REASON` |
| `paper.plan`, `paper.listed`, `paper.done` | `learning_plan`, `study_progress` and its completed entries |
| `paper.remembered` | `studied_while_known` |
| `report` | the sections of `session.report` that show these |
| `file` | the pickled paper and report |
| `backup`, `op` | local variables: the deep copies, the next step and its arguments |
| `stale` | history: the report could not be refreshed |
| `torn`, `hurt` | history: the file was saved in the middle of a rebuild; and was then read back |

| Code | Actions |
|---|---|
| `_set_concept_studied` 417-432, `_refresh_progress` 434-442 | `SetStudied`, `Refresh`, `RefreshFails` |
| `mark_concept_known` 444-473 | `MarkKnown`, the stages from `Drop` on, `Save` |
| `unmark_concept_known` 475-505 | `UnmarkKnown`, all stages, `Save` |
| `MissingPrerequisiteAnalyzer.analyze`, `PrerequisiteLearningPlanner.generate` | `Reset`, `Replan` |
| `_personalize` 507-533, `StudyProgressTracker.initialize`, `_complete_studied` | `Drop`, `Flag`, `Clear`, `List`, `Complete`, `Publish` |
| `except BaseException` 469-471, 501-503 | `Rollback`, from every stage |
| `ask_question` 283, `save` | `WorkerSave`, `SaveFails` |
| `_read`, `_reconcile_known_and_studied` 342-375 | `Restore` |

Concepts the paper covers itself are never planned and are left out; so is all that
is a function of which concepts are planned and studied: order, hours, resources,
actions, difficulty, readiness. A repeated mark that the code answers without
changing anything is no step. That the session's object may be evicted under a mark
is the business of `SessionStore`.

`LearnerPlan.tla` is the abstract specification: two sets, what is studied and what
is known, changed one concept at a time and never both at once, and a saved copy
that a restart brings back. `StudyPlan` refines it with `done` and `remembered`
together as what is studied; while a rebuild is under way the copies taken before
it stand for the plan. Since a question may save a half-made plan, so may the
abstract specification (`SaveHalfMade`, `spoilt`): memory is not touched by it, any
later save outside a rebuild mends it, and only once it is read back
(`RestoreHalfMade`, `lost`) is nothing promised any more.

### AnalysisRun

`AnalysisRun.tla` is what happens between submitting a paper and the answer: the
stages of the pipeline with the checks for a cancellation and a deadline between
them, the download of a linked paper with its retries and redirects, and the
download cache, which is a pair of directories every analysis of the machine
shares. All linked analyses want the same paper: two papers have two file names and
do not meet.

| Variable | Code |
|---|---|
| `run` | the next step and the local variables of each analysis: kind of source, directory at hand, retries and requests used, outcome |
| `files` | the paper's file in the cache beside the working directory and in the temporary one: none, whole, or no whole PDF |
| `part`, `held`, `old` | the `.part` file an analysis writes, what it holds so far, and whether it is older than `STALE_PARTIAL_SECONDS` |
| `temp` | the copy of an upload |
| `cancelled`, `late`, `large` | `should_cancel` says yes, the deadline passed, the paper is over the size limit |
| `sessions` | the analyses that opened a session |

| Code | Actions |
|---|---|
| `_analyze_upload`, `analyze`, `AnalysisLimits` | `Submit`, `Copy`, `Configure`, `Answer` |
| `_StageTimer.mark`, `_stopped_outcome` | `Proceed`, `StopOutcome` in each stage |
| `ArxivResolver.resolve`, `_is_cached_pdf` | `Look`, `Drop`, `DropFails` |
| `_with_retries`, `_download`, redirects, the Crossref record | `Fetched`, `Redirected`, `FetchFails`, `Retry`, `Wake` |
| `resolve` 87-104, the checks of a reply | `Check` |
| `_store`, `_write_atomically`, `_remove_stale_partials` | `Store`, `Write`, `WriteFails`, `Replace`, `ReplaceFails` |
| the stages after it, opening the session | `Detect`, `Resolved`, `Read`, `Process`, `Final`, `Reject`, `OpenSession` |
| what may still go wrong with the session open: platform 387-405, `terminal_violations` 274-282 | `Report` |
| the caller, the clock, a killed process | `Cancel`, `Expire`, `Age`, `Kill` |

The stages between reading the paper and the last one are the one stage `Process`, which may
fail. A reply may be an error page or cut off, a `.part` file is empty when it is opened
and may vanish while it is written, and a rename gives the cache whatever it holds
(`held`). `racers` is history: who was about to unlink the file when it was resolved.

`AnalysisService.tla` is the abstract specification, what a caller sees: an analysis
answers once; a success has its session; a cancellation, an exceeded limit or a timeout
has none, while a failure or an error may strike when the session is open; it is
reported cancelled only when the caller asked and over a limit only when a limit was
passed.

### TaskQueue

`TaskQueue.tla` is the agent task queue with the services that share its entries:
reservations, expiration, rebalancing, dead letters and batches. The queue and the
reservations have a re-entrant lock each; a call of one service runs calls of the
other under its own lock. These packages are not wired into the application; their
tests call them from one thread, their locks say that they are meant for several.

| Variable | Code |
|---|---|
| `entry`, `aged` | the queue's entries with the claimant, and which are over their queue lifetime |
| `row`, `lapsed` | the reservations, and which are past their window |
| `dead` | the dead letters |
| `ready` | what `readiness_service.is_ready` says |
| `queueLock`, `rowLock` | the two locks |
| `op` | the call each thread is in: its next step and locals |
| `kept`, `clash` | history, as are `raced` and `other` in `op` |

| Code | Actions |
|---|---|
| queue `enqueue`, `remove`, batch `enqueue_many`, `remove_many` | `Enqueue`, `Remove` on a set of tasks |
| `reserve`, `claim_many`, `release`, `expire_stale_reservations`, `_discard` | `Reserve`, `Release`, `ExpireStale`, then `Row`, `DiscardClaim`, `DiscardRow`, `ReserveClaim`, `Save`, `Unlock` |
| `expire`, `expire_all`, `rebalance` | `Expire`, `ExpireAll`, `Rebalance`, then `SweepInside`, `SweptInside`, `Judge`, `TakeOut`, `Judged` |
| `dead_letter`, `restore` | `DeadLetter`, `Bury`, `Note`; `Restore`, `RestoreEnqueue`, `Forget` |
| the clock, the lifecycle of tasks | `Age`, `Lapse`, `Readiness` |

A thread reserves under its own name, and tasks are claimed only by reserving them.
The stores are the in-memory ones.

### QuestionHistory

`QuestionHistory.tla` is what the questions of one session do to it. A question
copies the session's fields first, changes them stage by stage, and puts the copy
back when a stage fails. Nothing holds a lock over this, and questions run on
worker threads.

| Variable | Code |
|---|---|
| `session.history`, `session.marked` | `conversation_history`: its turns, and the questions whose turn says it is answered |
| `session.active`, `session.context`, `session.memory` | who last set `active_concept` and `current_context`, whose workflows `workflow_memory` lists |
| `file` | the session as last saved |
| `run`, `before` | the step of each question, the copy it took |
| `over`, `spilled` | history: the questions in progress at some time of each; those in progress while a mark saved the session |

| Code | Actions |
|---|---|
| `answer`: the copy, the plan, `QuestionManager.ask` | `Start`, `Ask` |
| the workflows and the tutor | `Retrieve`, `Remember` |
| `_record_answer` | `Mark`, `Append` |
| the stages after it, the save of the endpoint | `Assess`, `Save`; `SaveFails`, after which the answer carries a warning (session_routes 308-310) |
| the save of a mark on the event loop (platform 431, 472, 504) | `MarkSave` |
| the `except` branch of `answer` | `Fail`, `PutBack`, `PutTurnsBack` |
| restart | `Restart` |

A question answered with the warning is "warned", and "lost" once the server has
restarted.

### How the modules fit together

`SessionStore` is the common ground: a mark of `StudyPlan`, a question of
`QuestionHistory` and the session `AnalysisRun` opens are, to the store, updates of
an object that is then saved. Each module looks at one of them closely and keeps of
the others what it can meet: `StudyPlan` has the saves that questions make
(`WorkerSave`), `QuestionHistory` the saves that marks make (`MarkSave`) and the restart,
`SessionStore` a change that may be refused, rolled back, or made and answered with an
error. One module of all four is out of TLC's reach.

## Checks

`MCSessionStore.tla` gives the threads their requests. The runs:

| Run | Instance | Properties |
|---|---|---|
| `session_service` | 1 id, event loop and 2 workers, cap 1, 2 updates, one failure, one expiry, one restart | `TypeOK`, `SteadyKeepsAcked`, `SaveNeverRegresses`, refinement `SteadyIsDurable`, liveness `EveryRequestAnswered` |
| `session_evict` | 2 ids, 2 threads, cap 1, 2 updates, deletes, one failure, one expiry | `MemoryBounded`, `AloneTracked`, `AloneKept`, `QuietDeleteFinal`, `NoEntryReplaced`, `EvictionIsDurable` |
| `session_lost_update`, `session_false_saved`, `session_unsaved`, `session_undeleted` | smallest that shows it | the [findings](#findings) |

Bounds. `session_service` (141 000 states) is about one session: three threads let two
requests of it overlap while a third creates it or is in the middle of a save, and two
updates are two saves that can be ordered wrongly. `session_evict` (5.9 million
states, symmetric ids) is about what sessions do to each other through the table: two
ids over a cap of one are an eviction by the other session at every point of a
request. It leaves restarts to `session_service`, and to the theorems, which have both
at once. Five object addresses are never all in use: at most one per id and one per
thread. One fault of each kind is enough for every error path: a failed write, a
refused unlink and a deletion that fails draw on the same bound, and a refresh that
fails (`RefreshFails`) has no bound but the number of updates. The counters
`MaxUpdates`, `MaxFail`, `MaxAge`, `MaxCrash` are bounds of the model, not of the
code. Deadlock is not an error: when the bounds are used up and no client asks, the
server is idle.

Fairness. `FairSpec` asks weak fairness of each thread's own steps and nothing of
clients, time or faults: a worker or the event loop that has accepted a request is
scheduled again. `SaveDump` waits for the save lock; the thread holding it is
fair too and `SaveSwap` or `SaveFail` releases it, so weak fairness suffices.

What is claimed when. `SteadyKeepsAcked` and `SteadyIsDurable` claim durability up to
the moment memory runs short, something fails or expires, or a delete is asked for
(`Steady`), because the claim is false beyond it: that is what three of the violation
runs show. `session_evict` has what is left then: `AloneKept` claims the durability, and
`AloneTracked` the unsaved mark, of the sessions that never had two requests open at
once (`shared` records the others), with evictions and failures around them.
`AloneTracked` exempts `failed`, the changes made in memory though their refresh raised:
a single request leaves those unsaved and unmarked, and an eviction drops them. They were
answered with an error, so that nobody was promised them. All of these claim nothing
once a file has expired, since a save that swaps its file in between the look at an
expired one and its unlink loses it.

`MCStudyPlan.tla`:

| Run | Instance | Properties |
|---|---|---|
| `study_plan` | 3 interchangeable concepts, questions saving at any time | `TypeOK`, `PlanWhole`, `ReportAgrees`, `FileWhole`, refinement `PlanSpec` |
| `study_torn` | 2 concepts | the [findings](#findings) |

Three concepts are one that is marked, one that stays known and one that stays
planned, so that a mark can disturb another concept's progress. Sequences of marks
are unbounded: the state space is finite without bounds. Concepts are symmetric
(no action or property tells two apart, and no liveness is checked). A run starts
from every session an analysis can make (`--known`, `--studied`) and every file of
an older version that lists known concepts as studied. `study_plan` (4.4 million states)
has the CONSTRAINT `NotHurt`: what is done to a plan restored from a half-made file is
not explored, since no property claims anything of it (`study_torn` shows how it comes
about). The file that question leaves is explored, with the saves that mend it.

| Run | Instance | Properties |
|---|---|---|
| `analysis_run` | 2 analyses, one that can be cancelled and is limited, 2 retries, 2 requests | `TypeOK`, `PathStays`, `NoLeftovers`, `CacheStaysWhole`, `StopsSoon`, refinement `ServiceSpec`, liveness `EveryAnalysisEnds` |
| `task_queue`, `task_reserved` | 1 task, 2 threads | `TypeOK`, `NoOrphanClaim`, `ReservedKept`, `TaskKept`, `LeaseHeld`, liveness `EveryCallReturns`; the [findings](#findings) |
| `questions` | 3 questions, 2 worker threads | `TypeOK`, `TurnsKept`, `NoGhost`, `LeavesNoTrace` |

**analysis_run**, 301 000 states. Two analyses are every pair that can meet in the
cache: reader and unlinker, writer and cleaner, two writers. One has a caller that
may cancel and limits, like the command line's; the other has neither, so that both
kinds of interruption meet an undisturbed one. `MaxRetries` is
`Len(RETRY_DELAYS)`, 2 in the code; of redirects the code allows 5 (`MAX_REDIRECTS`), and what
matters is that one renews the retries and that they are finite. Each analysis runs
once: a caller that tries again is another analysis.

**task_queue**, 50 000 states. A call takes one task after the other and no step
relates two tasks, but for the sets of the batches; two threads are enough for a
reservation's owner and a rival, and for the two locks held crosswise. The safety
properties were also checked with two tasks, which takes longer than a run should.

**questions**, 3.2 million states (symmetric questions, no liveness). `NoGhost`
needs three: one whose turn is copied, one that copies it and fails later, and one
that is answered and saved in between. Two of them run at a time, and a third
starts when one has ended. Saves by marks, failing saves and restarts come at any
moment and as often as they like, with one bound, the CONSTRAINT `MarksWithTwo`: once a
mark has saved in the middle of a question, the third question is no longer asked. A
mark's save with all three is left to the theorems. Deadlock is checked: a mark or a
restart is always possible.

Fairness. `AnalysisRun`: weak fairness of each analysis's own steps: it has a thread,
and every one of its requests and sleeps is assumed to end. For sleeps that is the
code's doing; for requests it is an assumption: `timeout=60` limits the time without a
byte, so a server that trickles its reply can hold an analysis for as long as it
likes. Nothing is assumed of callers, deadlines, the clock or crashes. `TaskQueue`:
weak fairness of each thread inside a call; a lock a thread waits for may be taken
again and again by new calls of others, so `EveryCallReturns` is about behaviours in
which new calls stop coming. `QuestionHistory` has safety properties only.

### Exceptions the properties name

Some properties hold but for a race that the code has. The exception is part of the
property, by name, so that the run still shows that there is no other way to break it.
A docstring denies some of the races; then the code and the doc disagree, and the
exception is a finding, with a run of its own for the ones marked so.

* `PathStays`, `racers`: `_is_cached_pdf` reads a file as bad and unlinks it later
  (arxiv_resolver.py 136); a whole one stored in between goes with it. The other
  analysis then fails to open its paper. No doc speaks of it.
* `EveryCallReturns`, `LockCycle`: `expire_all` takes the reservations' lock inside
  the queue's, `reserve`, `release` and the sweep the other way round. Two threads can
  stop for ever. No doc says in which order the locks are taken.
* `ReservedKept`, `raced`: `reserve` claims the entry and saves its row in two steps;
  `expire` and `rebalance` read `get_reservation` without the reservations' lock and
  take the entry out. The expiration service says that a validly reserved entry "is
  never removed" (service.py 45-48): finding 6, run `task_reserved`.
* `TaskKept`, `clash`: `restore` deletes a dead letter by task after enqueueing; if
  another restore and a new `dead_letter` come in between, it is the new one that
  goes. The dead-letter service says "Duplicate dead-letter/restore operations are
  safe" (58-59): finding 7.
* `TurnsKept`, `Disturbed`: a failed question puts the whole history back, with what
  it takes from others that ran meanwhile. `_record_answer` says that a later GET
  shows the whole exchange (332-334): finding 8.
* `NoGhost`, `over` and `spilled`: a turn of a question that failed comes back from
  the copy of another one, or from the file when a question or a mark saved the
  session meanwhile and the server restarts. `answer` says that "a failed question
  leaves no trace" (120-122): finding 8.
* `AloneTracked`, `failed`: see above. `PlanWhole`, `ReportAgrees` and the refinement
  of `LearnerPlan`, `hurt`: the aftermath of finding 5.

## Proofs

`SessionStoreProofs.tla`, `SessionSaveProofs.tla`, `SessionAloneProofs.tla` and
`SessionDurableProofs.tla`, for every finite or infinite set
of threads, ids and objects and every bound. Assumptions: those named in
`SessionStore` (`ServesAssumption`, `NoneAssumption`, `BoundAssumption`).
The others assume what their module names (`NoneAssumption`, `DownloadAssumption`).

* `TypeCorrect`: `Spec => []TypeOK`. Not inductive alone: a step uses the session
  and the object of its request, so `RequestOK` says when a request names a session
  and holds an object.
* `OneObject`: `Spec => NoEntryReplaced`. `Create` could replace an object if its id
  were in use; `BornInv` says that only created ids are in the table or requested.
  `Install` cannot because it keeps what is there.
* `MemoryStays`: `Spec => []MemoryBounded`. The bound alone is not inductive: eviction
  stops at the sessions marked unsaved, so `MarksPaid` says that those, with the
  sessions a failed save is about to mark, are no more than the saves that failed.
  `CreateOK` says which steps a create takes, so that the request that put a session
  in the table is counted until it has run eviction. An eviction then leaves the
  cap or only marked sessions (`EvictBound`), and every other step that adds a session
  adds a request to `Growing`.
* `SavesInOrder`: `Spec => []SaveNeverRegresses`. Two facts strengthen it. `LockInv`:
  a thread between dump and swap holds its lock alone, and it is the lock of its
  generation. `TokenInv`: an update requested but not applied yet is in no object,
  file or snapshot, so applying it to an object whose snapshot is under way cannot
  make the snapshot lack something the file has.

`StudyPlanProofs.tla`, for every set of concepts, with no assumption. `PlanMakesSense`
(`Spec => []PlanWhole`), `FileMakesSense` (`Spec => []FileWhole`) and
`ImplementsLearnerPlan` (`Spec => PlanSpec`), with questions that save the session in the
middle of a rebuild as at any other time. `torn` says of the file that such a save was the
last, `hurt` of memory that it came from there; `IInv` is that a hurt plan has a torn file, and
that a plan not hurt is `Sound`. The content of `FileMakesSense` is that nothing else than
such a save can make the file wrong, that a failed rebuild and a rollback never do, and
that the next save outside a rebuild mends it. `PlanWhole` says
nothing during a rebuild, when the plan makes no sense; `RebuildInv` says, for each
stage, which parts of the paper already are what the copies and the concept marked
determine (`Dropping` for a concept that leaves the plan, `Returning` for one that
comes back). At the last stage that gives a plan that makes sense in which the same
concepts are studied (lemma `Rebuilt`), which is both the invariant and the step of
the refinement.

`ReportFollows`: `Spec => []ReportAgrees`. `ReportInv`
adds that the report shows the paper whenever no mark is under way, that the copies
taken before a rebuild agree with each other, so that a rollback restores an
agreeing pair, and that the saved pair does.

`SessionAloneProofs.tla`, on sessions whose requests do not overlap. `DeletesFinal`
(`Spec => []QuietDeleteFinal`). The invariant has three parts. `RaceInv`: two open
requests about one session of which one is a delete have raced. `PopInv`: what an
undisturbed delete cleared from memory stays clear until its unlink. `GoneInv`: once
the file is gone too, every later request finds nothing and stays among the steps that
bring nothing back.

`AloneSafe` (`Spec => []AloneTracked`) and `AloneDurable` (`Spec => []AloneKept`) rest
on `AloneInv`. `ApartInv`: no object is ever with two sessions, so a request about
another session can only drop this one from the table (`ElseKeeps`). `SharedInv`: two
open requests about one session have made it shared, so a step of a request about an
unshared session meets nobody else there. `SessionOK` is what the session then relies
on: what memory has beyond the file is marked or a request is on its way to save or
mark it (`Settled`, `Dirty`), but for changes answered with an error: `SettledBut`
adds to these, between a mark's change and its save, what a failing refresh would
leave; an object restored or held has all the file has, so no swap takes anything out
of it; and a change is in the file when it comes to the answer (`InFile`). The second
of these is what `session_lost_update` breaks, and the first what `session_unsaved`
breaks, each with two requests on one session.

`SessionDurableProofs.tla`: `FilesKeep` (`Spec => []SteadyKeepsAcked`) and
`ImplementsDurable` (`Spec => SteadyIsDurable`), with the corollary `ImplementsSteady`
(`Spec /\ []Steady => DurableSpec`). `Steady` is part of the properties and
the theorems have no hypothesis. Each part of it is needed: room (`session_lost_update` is what happens
without it), no failure (a failed save may be answered as done,
`session_false_saved`), no expiry and no delete (the file goes with what was confirmed
in it). Restarts and failed refreshes are not limited. Nothing leaves the table
but in a restart, so every request about a session holds the object in the table
(`Local`), or is about to install one that equals the file unless another request
was first (`Installing`). `Stored` says that this object has all the file has, and
the file all that was confirmed; a snapshot lies between the two, so the swap only
adds to the file. An update thus reaches object, snapshot and file in that order
before it is confirmed, which are the steps of `DurableSessions`.

`EvictionSafe` (`Spec => EvictionIsDurable`) and `ImplementsUndisturbed`
(`Spec /\ []Undisturbed => DurableSpec`) do without the room. An eviction may now drop
a session in the middle of an update, whose request goes on with an object that is in
the table no more: the update vanishes from sight, and appears when the save has
swapped it into the file, together with whatever failed refreshes had left in that
object. Two facts on top of `AloneInv` make that one `Update` of the
abstract specification. `ExactInv`: a session that exists holds its creation, in memory
and in the file, or is on its way there, and nothing is marked. `HomeInv`:
no update is with two sessions, in file, object or snapshot (`Has`), since only
`Apply` brings one to a session and it was nowhere before (`TokenInv`); so what the
swap brings back is in no other session. What an
eviction or the first half of a delete leaves in sight is what the file has, and the
file has all that was confirmed (`AloneKept`), so these are steps of `Restart`.

`AnalysisRunProofs.tla`, for any set of analyses and any bounds on retries and requests:
`PathsStay`, `NothingLeft`, `CacheWhole`, `StopSoon` and `ImplementsService`
(`Spec => ServiceSpec`). `OwnInv` says at which steps an analysis may have a `.part`
file, a temporary copy, a session and which outcome; with it an answer finds
nothing left behind and `Answer` maps to the abstract one: a session is open only from
`OpenSession` on, after which no stop is looked for. `HoldsInv` says that what is on its
way from a checked reply through the `.part` file to its rename is whole, whoever removes
`.part` files meanwhile; `CacheWhole` rests on it. `PathInv` strengthens
`PathStays` by what keeps it: nobody is about to unlink the file.

`TaskQueueProofs.tla`, for any set of tasks and threads: `ClaimsReserved`,
`ReservationsKept`, `TasksKept`, `LeasesHeld`. `LockInv` says which steps hold which
lock, so that one thread at a time is between a row and its claim; `RowInv` what
that thread may rely on about its row; `RaceInv` that every reserve about to save
its row while another call judges entries had claimed before that call took the
lock; `ForgetInv` that a restore about to delete a dead letter has queued its task,
or that a newer letter is the one it deletes.

`QuestionHistoryProofs.tla`, for any set of questions and any number of workers:
`TurnsAreKept`, `NoGhosts`, `NoTraceLeft`. `OverInv` says that two questions in
progress know of each other; `KeptInv` and `CopyInv` that what a question has added is
in the session and, once it is answered and saved, in the file, and in every copy
taken since, unless one failed meanwhile, and that one answered with the warning is in
the session until a restart; `GhostInv` that a question that failed or was killed
alone, with no mark's save meanwhile, is in none of them; `TraceInv` that a question
running alone has left the other turns as they were and has put the fields back before
the turns.

In every module the type invariant is proved as well (`TypeCorrect`).

Every safety property the passing runs check is proved. Only model-checked: liveness
(`EveryRequestAnswered`, `EveryAnalysisEnds`, `EveryCallReturns`), which is beyond the
prover.

## Findings

Findings 1 to 6 are runs that must end in a violation; the trace TLC prints is the
scenario. The others have no run.

1. **Eviction under an open request** (`session_lost_update`). `_evict_oldest`
   drops a session whose object a request holds. The next `get()` restores a second
   object; both are changed and saved, and the later save removes from the file
   what the earlier one was told is saved. The comment in `get()` (306-307) promises
   that every request works on the same session.
2. **Shared outcome** (`session_false_saved`). `last_save_ok` is one flag for all
   requests; `_unsaved()` and the question endpoint read it after their own save. A
   failed save can be answered without the warning when another one succeeds before
   the read. In the trace the other one is of the same session, which its analysis is
   still saving; the flag being shared, it may as well be of any other.
3. **Unsaved mark cleared** (`session_unsaved`). `_unsaved.discard` runs after the
   save lock is released, so an older success can clear the mark of a newer
   failure; eviction may then drop the only copy.
4. **Deleted session returns** (`session_undeleted`). A save or a restore in flight
   during `delete()` puts the session back.
5. **Half-made plan saved** (`study_torn`). A question on a worker thread saves the
   session while a mark is rebuilding its plan in place. When the rebuild fails, the
   memory is rolled back and the file is not; a restart brings the half-made plan up.
6. **Reserved entry removed** (`task_reserved`). `expire` looks for a valid reservation,
   then takes the entry out, without the reservations' lock; a `reserve` saves its
   reservation in between. The docstring says a validly reserved entry is never removed.
7. **Duplicate restore** (the exception `clash` of `TaskKept`). The docs call it safe; of two
   that overlap, the slower deletes the letter of a task set aside again after the faster.
8. **Overlapping questions** (the exceptions of `TurnsKept` and `NoGhost`). The docstrings
   of `answer` and `_record_answer` promise what holds of questions that run alone: a
   failed one puts back what others have added meanwhile, and its own turn may be in
   another's copy, or in the file that a question or a mark saved.
9. The comment at arxiv_resolver.py 269 says a
   read timeout is not retried; one while the body is read arrives as a
   `ConnectionError` and is. `Retry` and `FetchFails` allow both.

## What is not modelled

The repository has 3 273 implementation files. The application is a few dozen of
them; the rest are families of services that nothing calls, each a record type, an
in-memory store, a JSON store and comparisons, mostly sequential, and text
functions. A model of those would restate assignments, so the share of all lines
that the map covers is small and will stay so; of the order-dependent code of the
application itself the greater part is modelled. In particular, not modelled are:

* Memory-only mode (no `PREREQAI_SESSION_DIR`): `save` does nothing there and the
  crash properties do not apply.
* Unreadable and foreign files.
* What the stages of an analysis compute; `StudyPlan` starts from their results.
* `list()`, `summaries()` and the summaries cache. They change nothing of the table.
  The cache has no lock: two listings that prune it at once can raise. That is
  listed as a hazard and no run covers it.
* A snapshot torn by a concurrent change of the object (`pickle.dumps`, line 192):
  pickling is one step here. So are a question's copy of the session and its save.
* Interrupts (`BaseException` that is not `Exception`, line 212): the process stops,
  which is `Crash`.
* A `.part` file whose unlink is refused, the address checks of a download, the
  content of Crossref's record.
* The task queue's priorities and the order of its entries, the ranks a rebalance
  remembers, the metadata of a dead letter, claims made past the reservations, and
  the JSON stores, whose writes can fail between a claim and its row.
* What answers say, quiz turns, gaps and recommendations.
* The families listed as `not_modelled` in `PROJECT.json`, with the reason there.

## Plan

In the order in which they matter to the product:

1. `SessionStore` with `DurableSessions`: done; all its safety properties and the
   refinement proved.
2. `StudyPlan` with `LearnerPlan`: done, all its properties proved.
3. `TaskQueue`, reservations, expiration, rebalancing, dead letters, batches: done,
   its safety proved.
4. `QuestionHistory`: done, proved.
5. `AnalysisRun` with `AnalysisService`: done, its safety and the refinement proved.
6. Left: `SummaryCache`, listings against saves, deletes and each other.
7. Left: retry scheduling and eligibility and the task lifecycle, on top of
   `TaskQueue`.
