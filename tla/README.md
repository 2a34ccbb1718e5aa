# ACS plan-first backend: specifications, model checks and proofs

ACS turns a written brief into a building plan. An engineer and a language
model propose versions of the plan, the engineer locks what must not change,
reviews and approves a version, and only the approved version (the *frozen
baseline*) goes on to BIM and 3D. Several browser tabs, background jobs and
server restarts work on the same project at once. These specifications say what
must never go wrong with a project and with the services around it, check it
with TLC on small instances and prove most of it with TLAPS for instances of any
size.

## 1. Inventory

| Component | State it keeps | Operations | What is hard | Correct when | Module |
|---|---|---|---|---|---|
| Plan content and locks (`acs_plan_semantic_locks.py`, `acs_plan_lock_binding.py`, `_check_locks` of `acs_plan_review.py`) | locked rooms and a lock manifest per revision | capture, verify, re-capture a manifest | a manifest must be captured again for every child | a lock survives every later version, whoever wrote it | `PlanContent` |
| Plan workspace (`acs_plan_review.py`, `acs_plan_lock_binding.py`) | revisions, approvals, head, baseline of one in-memory copy | propose, room lock, semantic locks, restore, review, approve, handoff, compare | it is a *copy*, rebuilt for every request and thrown away | what it admits follows the head it was built from | `PlanWorkspace` |
| Durable plan store (`acs_plan_store.py`, `acs_supabase_plan_store.py`, the `plan_store_rpc_v2` migration) | project pointers, append-only revisions and approvals | read pointers, read snapshot, save revision, save approval | two adapters, one with a torn snapshot; lost replies | one immutable chain, a baseline that moves forward only | `PlanStore`, `PlanClients` |
| Command handlers (`acs_plan_persisted_commands.py`, `acs_plan_chat_orchestration.py`, `acs_workspace_service.py`) | what one request has read so far | read, rebuild, run, save, confirm | several reads and one write with provider minutes between them | no silent rebase; an answer that can be believed | `PlanClients` |
| Workspace jobs (`acs_workspace_http.py`, the two job migrations) | a job row per task, tasks and active ids of one process | start, progress, finish, poll, resume | a crash between the plan save and the job update; readers that race start and finish | one run per job, one revision per proposal, every job settles | `WorkspaceJobs` |
| Async job store (`acs_async_jobs.py`) | job records, reservations, tombstones | reserve, run, finish, get, prune | capacity, expiry against a late finish, repeated submissions | an id runs once while it is remembered; admitted work has room for its result | `AsyncJobs` |
| Web client of jobs (`generation-jobs.js`) | a row in the tab's session storage | submit, wait, poll, fetch, recover, dismiss | lost receipts and replies, reloads, server restarts, other accounts and projects in one tab | what is paid for is followed unless its user lets go of it, never paid twice, and nobody waits for ever | `AsyncClients` |
| Generation runner (`acs_generation_job.py`) | worker slots, in-flight jobs, counters | run, deadline, cancel | a failing progress callback, a deadline that meets the answer | every slot returns, no worker survives its job | `GenerationRunner` |
| CPU pool (`acs_cpu_pool.py`) | seats, the executor | submit, time out, rebuild | a timed-out call frees its seat while its worker computes; two calls rebuild at once | every seat returns once; a crash costs only the work of the crashed executor | `CpuPool` |
| Rate limiter (`acs_rate_limit.py`) | windows, tombstones, a Redis backend | check, evict, fall back | limits of both tables, calls of several processes, requests refused half-way | nobody passes a quota within its window, and a refusal says how long | `RateLimit`, `RateCheck` |
| Plan sources (`acs_plan_sources.py`) | two objects and a row per upload | upload, read | a crash between the objects and the row | a row describes exactly the stored objects; an upload can be repeated | `PlanSources` |
| Plan generation pipeline (`acs_understand.py`, `acs_plan_chunks.py`, `acs_residential_generation.py`, `acs_plan_overlap_repair.py`) and provider access (`acs_provider_budget.py`) | the plan drafted so far, its checkpoint, the requests spent | outline, chunk, halve, merge, correct, detail, resume | answers that are cut, a ceiling of requests, workers that die and are resumed | nothing is forgotten, nothing saved is paid for again | `PlanGeneration` |
| Authoring model (`acs_authoring.py`) | a model, an append-only history and a snapshot per revision | preview, commit, undo, redo, save, load | undo and redo in any order, as new revisions; targets that are positions | undo restores the state its target replaced; nothing leaves the history | `AuthoringModel`, `AuthoringProject` |
| Engineering approvals (`acs_engineering_approval.py`) | proposals computed for one revision | plan, approve, reject | a proposal computed for another revision | only chosen proposals of the current revision are committed | `AuthoringProject` |
| Local project store (`public/app/trust/core.js`, `wiring.js`) | records, a pointer, what each tab knows of them | save, recover, clear, reload | tabs that remove old records by what they know; faults between transactions | what the user was told to be saved is there | `LocalProject` |
| Rule ingestion (`acs_ingest.py`) | documents, candidate rules, packs, their verdicts | verify, advance, activate | verdicts are given once, what they are about is edited later | a project is judged only by what was approved as it is now | `RulePacks` |
| Rule evaluation and results (`acs_rules.py`, `acs_occupancy.py`, `acs_revision.py`) | classifications, rules as they were last copied, kept results | evaluate, classify, keep, check | a result outlives what it was computed from | a result that is called current still answers its question | `RuleResults` |
| Session and token cache (`acs_auth.py`) | verified tokens with an expiry | verify, evict | concurrent misses | bounded, and never older than its time to live | – |
| Geometry and discipline engines | none | pure functions over one Building | numeric, sequential | numeric contracts, tested by the repository | – |
| Service plumbing, command line tools | none | error bodies, logs, exports | – | – | – |

Handlers call the workspace; the workspace is rebuilt from the store and written
back to it with the head the handler read as an optimistic token. Workspace jobs
call the handlers from a thread and report into their own table; the worker that
drafts a plan runs in a process of the generation runner and sends checkpoints
that a later job resumes from. Async jobs are the other, in-memory way to run a
generation; their clients are browser tabs. The pool, the limiter, the uploads,
authoring projects, the local copy and rule packs share no state with these or
with each other.

## 2. Plan

1. `PlanContent` → `PlanWorkspace` → `PlanStore` → `PlanClients`: the plan
   pipeline, its safety (`PlanSafety`), its abstract promise (`PlanHistory`), the
   refinement (`PlanRefinement`) and proofs. *Done.*
2. `WorkspaceJobs` with `JobSafety` and `JobProofs`: durable jobs over an abstract
   project head, with crashes, readers and resumption. *Done.*
3. `AsyncJobs`, `AsyncClients`, `AsyncSafety`, `AsyncProofs`: in-memory jobs with
   their client. `GenerationRunner`, `CpuPool`, `RateLimit`, `RateCheck`. *Done.*
4. `PlanSources`, `AuthoringModel`/`AuthoringProject`, `PlanGeneration`,
   `LocalProject`, `RulePacks`, `RuleResults`. *Done.*
5. Proofs: every safety property of a passing run is a theorem, the refinement of
   `PlanHistory` too. *Done.* Left: what the refinement says of a project that is
   also used by workspace jobs, once their abstract head is that of `PlanStore`.
6. Left to model: the ownership of a project between tabs and the design versions
   of the local store, conflicts of rule identifiers and the aggregate of results.

## 3. The plan pipeline

### Modules

| Module | Models |
|---|---|
| `PlanContent` | what two plans must differ in for a lock or an approval to notice; rows, manifests, receipts |
| `PlanWorkspace` | the in-memory workspace as operators on one record: reconstruction, admission, the commands |
| `PlanStore` | the durable project and the two write procedures, each one transaction |
| `PlanClients` | concurrent request handlers against one store |
| `PlanSafety` | the properties |
| `PlanHistory` | the abstract promise: a history that grows at its end and honours its locks |
| `PlanRefinement` | the store implements that promise |
| `PlanProofs`, `PlanStoreProofs` | proofs for all values of the constants |
| `MCPlan` | small constants for TLC |

### Correspondence with the code

* A Building is a value per room (or `Absent`) and one value for all that
  encloses the rooms. Room locks freeze the room and the enclosing data
  (`_check_locks`); a semantic lock binds an element with its placement or only
  non-placement properties of it (`_element_context`). Hashes are modelled by the
  values they digest.
* `head`, `baseline`, `revisions`, `approvals` are the columns and tables of the
  migration. `SaveRevision` and `SaveApproval` are `acs_save_plan_revision` and
  `acs_save_plan_approval` (and the same checks of `SQLitePlanStore`): each holds
  the project row for its whole transaction, so each is one action.
* A handler `c` is at step `pc[c]`. `ReadState` is `project_state`, `Load` the
  snapshot of the hosted store, `LoadProject`/`LoadRevisions`/`LoadApprovals` the
  three autocommit reads of SQLite. `ws[c]` is the rebuilt workspace, with the
  draft the command added. `ProviderAnswers` ends a provider call and sends the
  isolated chat edit and the generation back to read everything again.
* Every error code the handlers and the store can answer in these steps is kept,
  in the order the code tests for it. `LOCK_CONTEXT_CHANGED` is folded into
  `LOCK_VIOLATION`.
* A reply of a hosted write may be lost (`SaveRevision(c, FALSE)`), a call may
  fail (`Unavailable`), a process may die at any step (`Crash`).

### Runs

| Run | Question | Bounds |
|---|---|---|
| `plan_race` | can two racing handlers fork, lose, misreport or rebase? | hosted store, 2 handlers, 3 ids, 2 plans of which one is approvable |
| `plan_chat` | do handlers that reload after a provider keep the promised history (`KeepsPromise`), also at a full history, and is a torn snapshot ever taken for a project? | SQLite store with its three-read snapshot, 2 handlers, 3 ids, `MaxRevisions = 2` |
| `plan_locks` | is every lock honoured by every sequence of commands? | 1 handler, 4 ids, 4 plans (equal, edited, moved context, room removed) |
| `plan_winner`, `plan_stale_chat` | two statements of the code's own comments that it does not keep | the smallest that show it |

Bounds: a project needs two competing writers and a third revision on top of
what they fought for, which three ids and two handlers give; ids are drawn once
and never reused, so a run ends when they are used up and then only reviews.
Four ids are needed for lock, edit, unlock and restore in one history. A lock
that is set while an edit computed before it is in flight needs the lock commands
and two handlers together; no run has both, the theorem `LocksAlwaysHonoured`
covers it for any number of handlers. One room and one context value distinguish
all that a lock can distinguish. Ids and handlers are interchangeable, which the
symmetry sets use; there is no liveness property in these runs.

### What the properties say

* `OneChain`, `NoSilentRebase`: no fork, no lost update, no silent rebase.
  Dropping only the head test of the save procedure does not break them, because
  the number of the row is unique as well; the mutant drops both.
* `LocksHonoured`, `AlwaysLoadable`, `PublishedIsImmutable`: locks survive, what
  was written can be opened again, nothing published changes.
* `ApprovalBindsContent`, `BaselineMovesForward`: what is frozen is what was
  reviewed, and it is never replaced by something older.
* `AnswersAreTrue`: an answer can be believed, the OK and the refusal.
* `SnapshotIsPast`: a handler only works on a project that existed.
* `KeepsPromise`: all of the above as one abstract history.

### Two disagreements between the code and its comments

* `execute_persisted_plan_command` promises `STALE_REVISION` for a concurrent
  winner, but a winner that commits between its two reads is answered
  `STORED_PROJECT_TAMPERED` (`plan_winner`). Nothing is lost, but an ordinary race
  looks like corruption.
* The isolated chat edit promises to fail closed, but it reads the project once
  more after its own save and answers `STALE_REVISION` when somebody else wrote in
  between, although its edit is in the history (`plan_stale_chat`). Repeating the
  edit applies it twice.

### Proofs

`PlanProofs` proves, for every finite set of ids and any handlers, plans and
commands, an invariant that is inductive where the properties are not: what a
save stores was computed several steps earlier on a private copy. `HandlerOK(c)`
says what the handler still knows of the store at each step: its copy holds no
row the store does not hold, reconstruction accepted it, and a draft about to be
saved was admitted on the expected head and honours that head's locks. It
survives the steps of other handlers because published rows never change, which
is proved together with it. From it follow `TypeOK`, `PublishedIsImmutable` and
`NoSilentRebase`; `PlanStoreProofs` adds `OneChain`, `LocksHonoured`,
`ApprovalBindsContent` and `BaselineMovesForward`, following the only two steps
that write.

Three further facts close the rest. `DraftsOK`: a draft on its way to the store is
well formed and belongs to one handler only, so every stored row is well formed.
`Numbered`: there are as many revisions as the number of the head says, one of each
number; reconstruction compares the two, and a gap would make a project unreadable.
With them every check of reconstruction succeeds (`AlwaysLoadable`). `RememberOK`
says what a handler remembers at each of its steps, torn reads included: what is stored
later than its copy is numbered beyond it, the approvals it saw are stored, a baseline
it saw stays or is overtaken by a newer one, and a draft it is about to save is none
of the revisions it read. So its copy is a past state (`SnapshotIsPast`) and its
answer tells what became of the draft (`AnswersAreTrue`). `PlanRefinement` is proved step by step
(`KeepsPromise`): the only two steps that write are the two steps of `PlanHistory`,
under the numbering that `Numbered` makes a sequence; every other step is a stutter.

Assumptions: ids are a finite set, `NULL` is neither an id nor a record, the
plans that pass the review are plans, and the limit of revisions is positive.

## 4. Workspace jobs

`WorkspaceJobs` models what happens between the request for a generation or a
chat edit and the answer its sender finally reads: `acs_workspace_http.py`, the
generation part of `acs_workspace_service.py`, the provider budget and the two
migrations of the job table. `JobSafety` states its properties, `MCJobs` is the
module TLC runs.

### Correspondence with the code

* `rows` is the table `acs_workspace_jobs`. The row policy lets an update touch a
  RUNNING row only, which is `Patch`. The state INTERRUPTED is not stored:
  `JobState` computes it from the process that asks (`_job_view`).
* A request `r` is a record `req[r]` at a step `pc`. From "source" to "inserted" it
  is being admitted (`WorkspaceMiddleware.__call__`, `_start`): each await of the
  store is a step, and so is the time in which the row is committed but the
  request has not resumed to register its task. From "before" on it
  is the task that runs the job (`_finish`, `generate_and_save`,
  `execute_isolated_persisted_chat_edit`).
* `Tasks(p)` and `ActiveJobs(p)` are the tasks and `ACTIVE_JOBS` of a process.
  They are not variables because a task is in them exactly while it runs.
* The worker counts its provider calls (`used`) and writes the counts to a pipe;
  the runner takes them off one at a time (`reported`) and updates the row. The
  answer is behind the counts. An update that fails, or whose reply is lost, ends
  the run (`Report`).
* A revision notes the id of its job at its end. A reader that finds a RUNNING row
  looks for that note in the history (`PollHistory`) and computes what it shows
  only afterwards (`PollView`), so the job may have moved on in between.
* `Stop(p)` ends a process with its tasks, requests and readers at any step;
  `Boot(p)` starts one. Processes may overlap, as in a rolling deployment.
  An orderly shutdown cancels the tasks but waits for their threads, which may
  still save: that is a `Save` followed by `Stop` before the closing update.
* Abstracted: brief, requirements and option of a command are equal exactly when
  action, reference and drawing are; a checkpoint is a flag; the codes of refused
  requests are left out because the sender only learns that no job was started.

### Runs

| Run | Question | Bounds |
|---|---|---|
| `generation` | can two requests run one job twice, build on a head nobody saw, store with the job they resume, or forget its calls? | 2 requests for any of 2 jobs, one may resume the other, 2 processes, ceiling 2, 1 task per process |
| `generation_ends` | what are readers told when updates are lost and processes stop, and does every job settle? | 1 request, 1 job, 1 reader, 1 edit of others, 2 processes, ceiling 2; fair runners |
| `jobs_failed` | does a FAILED job mean, as the web client says, that nothing was stored? | 1 request, 1 job, 1 reader, 1 edit of others, 2 processes |
| `jobs_changed` | is a job that resumes another one always of the same command? | 3 requests for 3 jobs, 1 process, 1 edit of others |

`generation` and `generation_ends` also hold the asynchronous jobs of section 5, which
share nothing with these: in one behaviour (`side`) either the one or the other moves.
Two requests suffice because a job has at most one runner and at most one job
resumes it in a step; a ceiling of two lets a job be resumed between its first
and its second call; `MaxTasks = 1` makes the admission limit bite. The code's 8
tasks per process are compared several awaits before the task is added, so the
number can be overshot; nothing is promised about it.

### What the properties say

* `OneRunnerPerJob`: a job id is run once, whatever is submitted where. The insert
  that ignores duplicates decides, not the read before it.
* `BuiltOnReference`: the stored revision follows the revision its sender saw.
* `NeverBothStored`: an interrupted job may be alive: in another process, or in the
  reader's own when the reader came between the insert and the start of the task, or
  waited for the history while the task ended. Both it and the job that resumes it
  may reach their save; one of them stores.
* `CallsOnlyGrow`: a recorded provider call is never forgotten, across
  resumption too. Calls whose count had not reached the row are not recorded.
* `SucceededIsStored`, `LateReadRecovers`: an answer can be believed, and a lost
  closing update is repaired by the next reader.
* `JobsSettle`: no accepted job is shown as RUNNING for ever.

### Fairness

`JobsSettle` assumes weak fairness of each runner and nothing else: the provider
worker has a deadline (840 s by default) after which it is killed, each store
call a time-out, and the runner is a thread that no client can block. Clients,
processes and the store owe nothing: the closing update may always be lost and
the process may stop at any step or never.

### Two disagreements with what the service and its client say

* A job whose save committed but whose reply was lost is closed as FAILED, and
  readers look for a stored revision only behind a RUNNING row. The web client
  says of a FAILED job that no new version was saved (`jobs_failed`).
* A job takes the checkpoint of the job it names before the two commands are
  compared. The comparison fails it with `INVALID_RESUME`, but its row keeps the
  checkpoint beside its own command, and a third job with that command may resume
  from it: it goes on with the proposal of another command
  (`jobs_changed`, `ResumedKeepsProposal`).

### Proofs

`JobProofs` proves, for any number of processes, requests, jobs and edits, that the
conjunction `JobInv` is inductive. The properties alone are not: what a request
saves, or closes a row with, was read many steps before. `JobInv` adds what each
request still knows at each step (`Knows`): that the row it inserted carries its
command, that the row it resumes is that of the command it checked, that its
counts run behind each other in the order of the pipe and the updates, and that the
revision it reports is in the history and was built on its reference; it adds that
rows tell the truth about revisions (`RowsTellTheTruth`) and that readers between
their two reads hold a row that was true (`ReadersOK`). From it follow
`OneRunnerPerJob`, `BuiltOnReference`, `SucceededIsStored`, the type invariant and
`CallsOnlyGrow`.

Two more invariants stand on `JobInv`. `ProposalInv`: a worker goes on only from a job
with the same command, a row carries the command of the request that owns it, and a
revision is in the history once; two jobs with one command have one reference, and
only one revision follows it (`NeverBothStored`). `RecoverInv`: a reader that began
after the revision was stored finds the note when it looks for it in the history, and
holds a row that is closed when it is about to answer from one (`LateReadRecovers`). Assumption: `NULL` is neither a row nor a
command. Only `JobsSettle` is left to TLC.

## 5. Asynchronous jobs and their clients

`AsyncJobs` models `acs_async_jobs.py`: a generation that is answered at once and
runs in a task of the server that accepted it. `AsyncClients` models the browser
tab that submits and follows it (`generation-jobs.js`) together with the network
between them. `AsyncSafety` states the properties. `MCGeneration` instantiates them
beside the workspace jobs, for two runs: `MCGeneration.cfg` has the small instance
for what must never happen, `MCGenerationEnds.cfg` the one for what must happen in
the end.

### Correspondence with the code

* `records` is `JobStore.jobs`: a record per id with a state, its reserved or used
  bytes and its deadlines. `Prune` is called where the code calls it, at the start
  of every operation and by the janitor. Deadlines are countdowns: what is left of
  them. Fingerprints and capability tokens only select who may read a record; the
  mismatch of an owner's fingerprint is an outcome of `ReserveOutcome`.
* `row[t]` is the tab's entry in its session storage, written before the request
  is sent. `pc[t]` tells where `acsJobSubmit` and `acsJobWait` are. Each fetch is
  answered, answered wrongly, or not heard (`NoReceipt`, `PollUnheard`,
  `FetchUnheard`); a submission may arrive after its tab stopped waiting for the
  receipt (`Deliver`), and again after that (`Replay`).
* `scope[t]` is the account and project a tab is signed in to (`storageScope`), and
  every row keeps the one it was written in. A row of another scope reads as none
  (`Reads`), so a submission may overwrite it although its result was never fetched;
  a tab stops following it at its next round (`StopsWaiting`). `Session` is a change
  of account or project, or the end of a session, with or without a reload.
* `Reload` loads the page anew. Where there is no session storage the row was in
  memory only and is lost with it. `Recover` is what `acsJobRecover` does after it,
  `Dismiss` the user's choice in the banner, `Restart` the end of the server
  process with everything it remembers.
* Any answer of `/result`, 404 and 410 too, marks the row as delivered.
* Left out: the scope is taken not to change between the look at the old row and the
  writing of the new one, while the session is refreshed; the local test host, where
  every row is read whatever its scope; a changed address of the server, which ends
  the wait like a changed scope; a session storage that fails now and then, which
  leaves an older row than the one in memory; and the copy of the session storage
  that a duplicated tab begins with, so that two tabs follow one row. A result that
  failed has a stored answer too (`acs_async_jobs.py:341`); it is small, is not held
  to any promise here and counts as no bytes.

### Runs `generation` and `generation_ends`

Two job ids, one tab, one owner, two scopes; results live one tick, tombstones two;
two records, two running jobs, and bytes for one largest result and a small one;
two upsets (a restart, a submission that arrives twice, a change of scope, a lost
row; one where liveness is checked, where a change of scope is one of them). Two ids
are what one tab needs to replace a job by another, two scopes and two upsets what it
needs to leave a row behind, submit and come back; the limits are such that each of
them is reached with the other two not. A tombstone that lives longer than a result,
and a result that comes later than its request, are what the ordering hazards need.
Two tabs never share a row (session storage is per tab), so they meet only in the
store.

* `RunsOnceWhileRemembered`, `ResultKept`, `RoomForResults`: what the store
  promises about ids, times and room.
* `NothingPaidIsLost`: a job that runs or has a result is in the row of a tab, which
  will ask for it when its user is signed in there, unless the user was answered or
  dismissed it. The code lets go of such a job in two ways more, and the property
  excepts them (`told = "strayed"`): its user asks for another job in that tab while
  signed in elsewhere, or reloads a page that has no session storage. The result of
  such a job stays on the server until it expires, with nobody who knows its
  capability.
* `WaitsEnd`, `RecordsGo`: neither the tab nor the store goes on for ever.

Fairness: time passes; each fetch has a time-out after which the tab goes on; a run
has a deadline; the janitor is woken by a timer. Nothing is assumed of users, the
network or restarts; that restarts and re-submissions are bounded (`MaxUpsets`) is
needed by `WaitsEnd`, because every accepted status moves the tab's deadline.

`AsyncProofs` proves `RunsOnceWhileRemembered`, `ResultKept`, `RoomForResults` and
`NothingPaidIsLost` for any number of ids, tabs and owners and any limits. The
invariant of the store says that a record that is remembered was reserved less than
a tombstone's life ago (`Remembered`), and that what a result has left to live and
the time since it came add up to at least its time to live (`ResultLives`). That of
the clients says that a tab waits only for the job of its row, that a row is not
dropped while nobody was told, and that somebody follows whatever may still be
delivered (`RowsAreUsed`, `NothingYet`, `SomeoneFollows`). Memory is counted as a set of cells,
one for each unit a job holds, so that the sum of the code is a cardinality: a step
takes cells away or adds those of one job, for which there was room
(`WithinLimits`). Clients may draw from infinitely many ids; what is known at a time
is finite, and that is part of the invariant.

## 6. Services that share no state

`MCServices` runs ten services in one model. They share nothing, so the steps of
two of them commute and only multiply states; `focus` chooses the one that moves in
a behaviour. Every property of the run is about one service.

### Authoring projects: `AuthoringModel`, `AuthoringProject`, `AuthoringSafety`

A building of `acs_authoring.py` is reduced to one dimension: a plan is a strip,
spaces are intervals with openings at an edge and an offset, objects and points in
lists, locks on targets. Everything the commands decide by is kept: targets and
their hosts, what resizing and moving a wall does to both neighbours and to the
openings on it, strategies, preservation constraints, coherence. `Effects` is the
set of results of a command, empty when it is refused. `Outcome` applies a batch
and checks it as a whole (`validate_transaction`). `Commit`, `Approve`, `Undo`,
`Redo`, `SaveProject` and `LoadProject` append revisions or replace the project as
the code does; a saved project keeps only some snapshots. A client may commit what
it was shown at any earlier revision. Buildings are imported as they are (`Imports`):
`create_project` validates none, and undo, redo and load look at no building but for
the identities of its openings, which `load_project` and the commands on openings
check (`Identified`).

`HistoryTrue`, `SoundBuilding`, `WhatWasShown`; 3 imported buildings, one of which
has spaces that overlap and one an opening wider than its wall, 3 spaces on 2 floor
templates, up to 3 openings, 8 batches that use every kind of command, up to 3
revisions. Three revisions are what an undo of an undo, or a redo after a commit,
needs; two bring an unsound import back that a commit had repaired. Not instantiated
are imports whose openings share an identity, or whose spaces have no width: the
theorems cover the first, and the second are not sound, by the word of `Sound`.
Only projects that this model wrote are loaded; `load_project` would also take one
that somebody else put together.

* `SoundBuilding` is claimed of every building but the imported one: a project that
  is imported unsound stays so until a commit repairs it, and an undo of that commit
  brings the unsound building back.
* `WhatWasShown` is claimed of batches that name their revision or break something,
  which then need the digest of this batch on this revision, and of plans that name
  their revision. The code holds three other changes to nothing, and they may be
  applied to another building than the one they were shown on: a batch that names no
  revision and breaks nothing; the same from an AI, which needs a token but any token
  (`acs_authoring.py:1742-1753`); and a plan that names no revision, the default of
  `plan`, whose proposals `approve` confirms with a digest it computes itself
  (`acs_engineering_approval.py:174-196`), even where they break something. The basis
  of these is `None` in the model.

Proved: `HistoryTrue`, `WhatWasShown` (invariant: every identifier of a revision
names one building) and `SoundBuilding`. What a batch of commands computes is a fold
that needs no induction here: whatever it computes is checked as a whole (`Coherent`)
before it becomes a revision, so that every building that an undo, a redo or a load
can bring back is the imported one or was checked (`CheckedInv`), and what the check
compares, in half widths and edges, implies that no place belongs to two spaces and no
opening leaves its wall. Nothing is assumed of the imported building.

### CPU pool: `CpuPool`, `MCCpu`

Seats, tasks, executors by number. The executor itself is
`concurrent.futures.ProcessPoolExecutor`, modelled as the pool uses it: it breaks
with all its tasks when a worker dies (`CpuCrash`), and cancels what it had not
handed out when it is shut down. Between two awaits the event loop runs nothing
else, so a submission, and a resumption, is one action.

`SeatsReturn` (3 calls, 1 worker, no queue, 2 executors: two calls on a broken
executor and a third that rebuilds) is proved for any number. `cpu_idle_crash` is a
disagreement: a worker that dies while nobody awaits its task breaks the pool for
good, because the next call meets the error inside `submit`, outside the handler
that rebuilds; the module says that a crash rebuilds the pool instead of disabling
validation. Its fairness is that calls keep coming and tasks go on.

### Generation runner: `GenerationRunner`

Calls are threads: each step another thread or the worker can see is an action.
`ending` tells how the loop over the pipe ended; the worker is ended and waited for
before bookkeeping, and the slot returns last. A raising callback, a failed start,
a deadline and a dead worker are each their own way to `RunClose`.

`WorkersHoldSlots`, `TerminalIsFinal` (both proved; invariant: slots and busy calls
add up to the capacity, a worker belongs to a call past its start, and a call is
open while it works), `RunsEnd` under fairness of the server's threads and of time,
with nothing assumed of workers. 2 calls, 1 slot, 2 messages in the pipe: one call
must be turned away, and an answer must be behind a message.

### Rate limiter: `RateLimit`, `RateCheck`

`RateLimit` is the in-memory backend: rows by recency, tombstones by age, the purge
that looks at a limited number of entries, eviction when the table is full. One hit
holds the lock. `RateCheck` is the decision over shared counters: look at the
budget, spend the visitor's quotas, spend the budget last; with the script one step
each, without it three. Each step may fail before or after it took effect. The
default policy, which refuses on failure, is modelled.

`QuotaSurvives`, `WaitIsEnough`: 4 clients, a table of 1 and so a single tombstone,
purges of 1 entry: the smallest in which an eviction drops a tombstone.
`BudgetIsShared`: 2 requests and caps of 1 and 2, which is enough to overshoot.

All three are proved in `LimitProofs`. `RateInv` says that a live row holds the true
count of its client and the rest of its window, or starts afresh after its tombstone
was forgotten; and that a client whose window runs has a row or a tombstone, or lost
it: the tombstone's place counts the evictions behind it, so that it is forgotten only
after `MaxKeys` of them. `CheckInv` counts: what is gone from the budget was spent by
a request that was admitted, lost its answer or still awaits the expiry; without
scripts, who will still spend has read a counter with something left, so that the
overshoot is bounded by those who read at the same time. Assumption: the key of the
budget is in a scope of its own and no visitor's quota uses it (`RateLimiter.key`).

### Plan sources: `PlanSources`

Two objects that nothing replaces, a row that ignores a second one, a read-back.
`Missed` is a lost reply after the effect, `CallFails` one before it or a crash.
`SavedIsReadable` (proved, from the facts that objects are never replaced and that
an upload that reached its row found its own objects, `OwnObjects`) and
`SomeoneIsSaved`, under fairness of uploads that are repeated. 4 uploads of one id:
same bytes, another preview, other notes, other bytes.

### Plan generation: `PlanGeneration`

The worker that drafts a plan: `gen` is where it is in `_plan_bounded`,
`prepare_layout` and `detail`; `request` the provider call it is in, with the ladder
of attempts and the second provider; `spent` and `limit` the budget of
`acs_provider_budget.py`, which counts a request before it is sent. `plan` holds an
outcome per zone, `queue` the chunk and the halves it was cut into. `checkpoint` is
what was last sent to the runner; a worker may stop at any step (`GenStop`, which
also stands for the errors that end it) and another one resumes from the checkpoint
with a higher or equal ceiling (`GenStart`, `Resumed`). Geometry is abstract: a
layout has no flaw, an overlap, or another flaw.

`DeliveredIsWhole`, `NothingPaidTwice`: 4 zones in 2 templates and one of them named
twice, so that chunks end at a template and identifiers are numbered; a room for 5
of 8 tokens so that a wordy chunk is cut; 3 chunks, one split; briefs of a
warehouse, of a home with a calculated fallback and of one without; ceilings 5 and
8 so that a worker can end between any two checkpoints and be resumed; 2 workers.

Both are proved for any brief, any number of zones, chunks, halves and workers
(`GenerationProofs`). `GenInv` is the invariant: every zone is in one place, unasked
in the chunk at work or a later one, or with an outcome; what was saved stays in the
plan the worker goes on with; a merged layout is that of a whole plan; what is queued
is the part of a chunk that has no answer; and a group that is done has its openings
in the layout. That a set of zones has a first one follows from the order of the
numbers being well-founded, a first-order use of induction.

### Local project store: `LocalProject`

`records` and `pointer` are the stores of IndexedDB, `held[t]` is `pState` of a tab
(a list of records by place). A save is four transactions and may fail, or its tab
may be reloaded, before any of them; `write[s].prune` is decided before the first
(`planWrite`). The last transaction and the update of `pState` after it are one
action: no other transaction of that tab is in between. Times of saves are taken to
be distinct. Records may be damaged when they are written, or be those of another
schema.

`WorkIsKept`: 2 tabs, 3 saves in turns, one record kept (`P_KEEP` is 3; fewer
records are the harder case and need fewer saves), a foreign and a usable record of
an earlier visit, one upset. It also passes with two upsets and is proved for any
number of tabs, saves and records kept: `LocalInv` says that what a save will remove
is older than what it writes (`PrunesOlder`), that a record that is not yet written
is known to nobody (`UnwrittenUnknown`), that a record which was read back stays
usable until something newer is there (`ValidatedAreKept`), the same of the earlier
visit's (`FirstIsKept`), and that what was cleared is nobody's promise
(`SweptAreHarmless`).

### Rule packs: `RulePacks`

Documents, candidates and packs move along the tables of `acs_ingest.json`; `Edit`
is what the caller may do to the store between two calls: replace a document's
bytes, rewrite a rule, pin a candidate again, open or close a gap in its evidence.
`approved` remembers what was verified while its document's content stood.
`ActiveRulesStand`: one document, a binding and another candidate, a pack of both,
2 edits: one that breaks a verdict and one that repairs the wrong part of it. It is
proved for any documents, candidates and packs (`RuleProofs`); the invariant is
`VerdictsGrounded`, that a verdict names bytes and a meaning which were approved, and
that verified content is only left by a withdrawal.

### Rules and their results: `RuleResults`

`RuleResults` extends `RulePacks`: the rules in force are what the project's packs
gave when they were last looked up (`loaded`, the page's `ACS_EXTRA_RULESETS`), and
`Reasons` is the ladder of early returns of `evaluate_rule`, in its order. A kept
result holds one hash per thing it rests on, modelled by what is hashed (`Anchors`):
the building without what only its viewer shows, the verified classifications, the
project's context, the source's bytes, the meaning of the rule. `Integrity` compares
them with what is there now. Between two checks the building is edited or
measured, a classification proposed, verified or withdrawn, the project moved, the
caller's own context or the rule changed, a document replaced, a pack bound or
looked up again.

Evaluation reads four things that no hash covers: whether the rule is switched off,
whether its definition is still valid (the verified mark of its source is part of
that), and the edition and the place that its caller asks for. So there are two
properties.

* `CurrentAnswersItsQuestion` is what the code keeps: a result that the check calls
  `CURRENT`, with everything supplied, is the answer to the question it was asked,
  what its rule was then and what its caller asked then, in the building, occupancy,
  project, source and meaning of now. It is checked in `services` without exceptions.
* `CurrentStillHolds` is what the document promises, that nothing the result depended
  on has changed: evaluating again would say the same. The code does not keep it, and
  the run `rules` shows it, with a caller who always asks the same: a rule loses the
  mark of its source or is switched off, the rules are looked up again, and the
  result is still `CURRENT` where evaluating says otherwise.

A result and 2 edits are enough: one that changes what was evaluated and one that
hides it (changed back elsewhere, or no longer in force); one edit for `rules`. The
behaviours start from verified packs to which the project is bound, which `RulePacks`
reaches; two occupancy groups, of which one candidate applies to one, so that two
verified records can disagree.

`CurrentAnswersItsQuestion` is proved for any rules, groups and edits: an invariant
says that a kept result was once the outcome of the evaluation of anchors it still
names (`KeptWasRead`), and evaluation is shown to depend on nothing but the anchors
and what the question holds.

## 7. What is proved and what is not

`PROJECT.json` lists the theorems. They hold for all values of the constants that
satisfy the named assumptions of their modules: sets of ids are finite where they
are counted, `NULL` (or `Nil`, `None`, `NoRoom`) is not one of the values it stands beside,
limits are natural numbers. TLC evaluates each of these assumptions in the runs.

| Module | Proves, of |
|---|---|
| `PlanProofs` | `TypeOK`, `PublishedIsImmutable`, `NoSilentRebase` of the plan pipeline |
| `PlanStoreProofs` | the chain, locks, approvals, loadability, snapshots and answers of it, and its refinement |
| `JobProofs` | workspace jobs |
| `AsyncProofs` | async jobs and their clients |
| `LimitProofs` | the CPU pool, the generation runner, the rate limiter and its decision |
| `ProjectProofs` | authoring projects, plan sources, the local project store |
| `GenerationProofs` | plan generation |
| `RuleProofs` | packs of rules and results |

Every invariant and every action property that a passing run checks is stated by one of
these theorems. Only model-checked are the liveness properties, `JobsSettle`,
`WaitsEnd`, `RecordsGo`, `RunsEnd` and `SomeoneIsSaved`, under the fairness stated above:
they need ENABLED, which the prover does not reason about. The schemes of induction of
the library take a predicate as a parameter and cannot be used; where a proof needs a
least element it takes it from the well-foundedness of the natural numbers, which is a
statement about sets. What a fold computes is nowhere needed: where the code folds, the
proofs use what is checked of its result, or count a set instead.

## 8. What reading the code for the models showed

Besides the six disagreements with a run of their own:

* Tasks per process are counted several awaits before they are added
  (`acs_workspace_http.py:114`), so 8 can be overshot; worker slots bound the work.
* A generation whose second click is refused takes a new ticket
  (`workspace-ui-wiring.js:1798`), so the first, paid result is delivered and then
  ignored as stale until the page is reloaded.
* A tab that is signed in elsewhere overwrites the row of a job that still runs or has
  a result nobody fetched (`generation-jobs.js:159-171`): the job was paid for and is
  out of reach.
* `create_project` takes any building, and only commits validate one, so an unsound
  import stays until it is repaired and comes back with an undo. Any token confirms an
  AI proposal that breaks nothing, and a plan that names no revision is approved on
  any (section 6).
* Locks of the authoring model name positions: deleting an object shifts the lock to
  another one, and some commands (moving a wall, promoting, deleting the host) are
  not refused, where `PHASE5-AUTHORING.md:293` says every mutating command is.
  `KEEP_WORLD_POSITION` shifts an opening of a west wall along the wall by the
  distance the wall moved across.
* `acs_rate_limit.py:314` takes the oldest tombstone for the nearest to expire, which
  is not so where hourly and daily keys share the table. Without scripts, a process
  that dies between `INCR` and `PEXPIRE` leaves a counter that never expires
  (`:213` says otherwise). A daily refusal spends the hourly quota.
* A progress callback that raises anything but `OSError` leaves its generation RUNNING in
  the statistics, though worker and slot return.
* A source whose object differs is reported like an outage
  (`PLAN_SOURCE_UNAVAILABLE`).
* `normalise_outline` does not remember the identifiers it makes: names a, a, a__2
  give two zones one identifier (`acs_plan_chunks.py:355`). The model's identifiers
  cannot collide, so such names are outside of it. A cut chunk that was not yet
  checkpointed is sent again, unchanged, by the worker that resumes (`:852` says
  never).
* A save of the local store removes, by position in its list, also records of a newer
  schema, which `validateRecord` calls preserved and never overwritten; a store that
  another tab clears between the read-back and the end of a save leaves the status
  "saved" with nothing there (`WorkIsKept` counts those saves as cleared). Two tabs may
  both believe that they own the project, as messages carry no claim time.
* `verify_pack` refuses every move of a pack that is not valid, REVOKED too, so a
  pack with a broken verdict cannot be revoked and is active again when the evidence
  is repaired. A pack's own verdict is not pinned to its contents.
* `CURRENT_UNDER_SAME_HASH` is also returned when the model was not supplied
  (`acs_revision.py:246`). The page exports kept results without checking them
  (`ACS.snapshots`), so their status is the one they were kept with.
* The summary over several packs states the completeness of the first
  (`acs_ingest.py:698`).

## 9. Not modelled

* **Geometry and discipline engines** (structure, MEP, fire and life safety,
  architecture, BIM, coordination, documents, rendering, navigation), 24 of the 61
  thousand lines of the implementation. They are sequential functions from one Building to numbers,
  drawings and reports, keep no state between calls and have nothing to interleave
  with. What could be wrong in them is arithmetic on real geometry; a model without
  the arithmetic would say nothing about them, and one with it would repeat them.
* **Build tools** (`tools/build_*.py`): 16 thousand lines of scripts that assemble the
  browser bundles, most of them quoted text.
* **Session and token cache, membership, sharing, project creation**: every actor is
  an editor of the project. The decisions are those of an external identity service.
* **User interface**: rendering, the review page, the connected workspace's views; of
  the local store, the ownership of a project between tabs, design versions and
  backups.
* **Parts of modelled components** named in the notes of `PROJECT.json`: previews,
  text commands and the audit log of authoring; the content of prompts, the direct
  generation of 3D models and the warehouse area fit; the development fallbacks of
  the runner and of the pool, which run threads; the policy of the limiter that
  admits on failure; conflicts, import and audit of rules, the aggregate of results.
