# TLA+ models of vsift's recoverable jobs and session storage

vsift turns video into evidence: transcripts, frames and clips kept in *sessions*
on a local filesystem, with no server and no daemon. Every command is a process of
its own; processes meet only in the files and the advisory locks of a session, and
any of them may die at any point. The promises worth verifying are therefore those
of the storage layer: a job's result is committed exactly once, a cancellation that
was promised holds, a committed generation is never lost or damaged, a session in use
is never removed, an operation id is answered once and for ever, the queue moves on.

Paths below are relative to `src/crates/` unless they start with `src/`; `.../` is
`vsift-infrastructure/src/filesystem_session_store/`.

## 1. Inventory

| Component | State it keeps | Operations | Correct when |
| --- | --- | --- | --- |
| **Job record** (`vsift-domain/src/job.rs`, `vsift-application/src/job.rs`) | state, epoch, attempt, failures, announced commit | the changes of `JobRecord::changed` | the record follows the state graph, never goes back, ends at its bounds |
| **Running a job** (`vsift-application/src/job.rs`, `job/run.rs`, `.../jobs.rs`) | `job.json`, `owner.lock`, `state.lock`, a caller's copy of the record | `run_retranscription`, `cancel_job`, `job_status`, `reconcile`, `commit`, `settle_failure` | one commit per job; a cancellation that won leaves no generation; record and chain agree after any crash |
| **Generation publication** (`.../{publication,commit,chain,evidence}.rs`) | `current.json`, `generations/`, `artifacts/`, `attempts/`, `chain-verified.json`, the writer lock | `publish_artifact`, `commit_evidence`, `publish_generation_while_locked`, `acknowledge_retry`, `read_committed_manifest` | acknowledged generations survive; a session is readable at every moment; leftovers never block |
| **Session initialization** (`.../{initialization,lifecycle,index}.rs`, `vsift-application/src/session.rs`) | registration marker and its lock, attempt folder, generation 0, the root's initialization lock | `register_session`, `initialize_session`, stage, activate, `abandon_failed_open` | a session is whole or invisible; an opening in progress is left alone |
| **Session lifetime and cleanup** (`.../{cleanup,reads}.rs`, `vsift/src/sessions.rs`, `vsift-domain/src/session.rs`) | lifetime lock, quarantine name, marker, expiry | read, renew, close, `clean_sessions`, `clean_session_scoped` | nothing in use or not over is removed; a removal that was cut short is finished |
| **Operation bindings and pruning** (`.../jobs.rs`, `vsift/src/asr.rs`) | `jobs/by-operation/`, a record's operation ids, the root job index | `lookup_operation`, `bind_operation`, `make_room`, `index_job` | one operation id publishes its request once and replays it; no live or pinned job is pruned |
| **Admission and queue** (`.../{queue,root}.rs`, `vsift/src/prepare.rs`, `vsift-application/src/job/{run,prepare}.rs`) | queue entries, turn, slots, queued marker and demand, all locks of the root | `enqueue_job`, `queue_position`, `try_admit_queued`, `acquire_admission`, `before_chunk` | first in, first out; one queued worker at a time, with the slots it needs; it yields within a chunk; nobody waits for ever |
| **Open revisions** (`vsift/src/prepare.rs`, `vsift-application/src/transcript.rs`) | part generations of a running job | publish part, seal | a sealed revision equals its parts |
| **Worker requests, watch** (`.../worker_requests.rs`, `vsift-application/src/watch.rs`) | request and step records, claims, outputs | claim, step, replay | each step is done once |
| **Managed tool store** (`vsift-infrastructure/src/managed_store_lifecycle.rs`) | staged and selected tool versions | stage, publish, select, roll back, sweep | the selected version is whole |
| **Media, recognition, OCR, search, time anchors** | none that is shared | data processing | numeric and textual; not state machines |
| **CLI, contract, platform calls** | none | parsing, formatting, OS calls | out of scope |

How they interact: a run takes `owner.lock`, changes `job.json` under `state.lock`,
recognises chunks, announces its commit in the record, and calls generation
publication, which takes the session's writer lock. Recovery, status and
cancellation ask the manifest chain, never the record, whether a commit landed.
Before a job is opened its request's operation id is looked up, and bound to the job
once it is owned. Every publication and every recognition asks the root's admission
for slots; a queued job waits for its turn and takes the recognizer's threads of them.
All of it happens
under a shared hold on the session's lifetime lock, which renewal, close and removal
take exclusively.

What is hard here: two processes racing for a lock that is only tried; a crash
between announcing, publishing and recording a commit; a storage failure *after* a
rename took effect; retries of a publication that may have landed; readers that
take no lock while a writer replaces files one by one; a loss of power between
rename and directory synchronisation; two files that say one thing and are written
one after the other; a look at a lock that makes somebody else's try fail; a removal
that is cut short, or that meets a renewal. `PROJECT.json` lists each such place under
`hazards`, with the properties that would catch it.

## 2. Modules

| Module | Models |
| --- | --- |
| `JobRecords` | the record, its state graph and each change, as pure operators `CanX(r)` / `Xed(r)`; the poison rule; the commit's operation id |
| `JobRun` | the processes around one job, step by step, and the chain it commits to |
| `JobOutcome` | abstract: in each epoch a job commits, is cancelled or fails, and a commit is final |
| `MCJobRun` | instance of `JobRun` |
| `JobRunProofs`, `JobInvProofs`, `JobSafetyProofs` | type correctness; the inductive invariant; the safety properties and the refinement |
| `GenerationCommit` | the processes that publish generations, one filesystem operation at a time |
| `GenerationCommitProofs` | the inductive invariant of `GenerationCommit`, its safety properties and its refinement of `SessionChain` |
| `SessionChain` | abstract: a chain that grows by one generation at a time and keeps what was acknowledged |
| `OperationBinding` | the calls that carry an operation id or none, the session's job directory, bindings and index |
| `JobQueue` | the root's queue, its turn and its capacity: runners of queued jobs and ordinary callers |
| `SessionLifecycle` | one session from its registration to its removal: opener, cleaners, users and the clock |
| `SessionLifecycleProofs` | the inductive invariant of `SessionLifecycle` and its safety properties |
| `JobQueueProofs` | the inductive invariant of `JobQueue` and its safety properties |
| `OperationBindingProofs`, `OperationAnswerProofs` | types, locks and the bound on jobs of `OperationBinding`; what it promises about bindings, answers and publications |
| `MCGenerationCommit`, `MCOperationBinding`, `MCJobQueue`, `MCSessionLifecycle` | instances for TLC |

### JobRun and the code

`record` is `job.json`; `owner` and `probes` are the exclusive and shared holders of
`owner.lock`; `chain` is the manifest chain, one operation per generation. The other
variables are the locals of each process: `copy` is the record inside its
`JobOwner`, `expected` the generation `commit()` must follow, `retries` the
automatic retries used, `stop` the failure that ended the attempt.

- `TakeOwnerLock`, `ReadRecord`, `Reconcile`: `open_or_create`/`acquire`, then
  `reconcile`. The lock is tried once.
- `Opened`, `Bind`, `Start`, `Work`: `run_retranscription` up to the commit.
  Recognition itself is one step that succeeds or stops with one of `WorkStops`.
- `RecordCommitting`, `Refused`, `CancelWon`, `Publish`, `Ledger`, `ReadHead`,
  `Succeed`: `commit()`, its loop included.
- `Settle`, `SettleCancel`, `SettleEnd`: `settle_failure` and the automatic retry.
- `RequestCancel`, `CancelOwned`: `cancel_job`.
- `View`, `Probe`, `Probed`, `StatusOwned`: `job_status`.
- `Return`, `Crash`: the locks are dropped, by the process or by the system.
- `OtherCommit`: any other operation of the session commits a generation.

A section under `state.lock` is one step, because every writer of `job.json` holds
that lock; reads that take no lock (`View`, `cancel_requested`) are steps of their
own. A failed `apply` may have stored its change (the directory synchronisation
comes after the rename): `NotApplied` has both outcomes. A bounded wait for
`state.lock` that runs out is the first of them.

### GenerationCommit and the code

`file` is what processes see under each name, `disk` what a loss of power may leave
there: every file the name has had since its directory was last synchronised, each
torn unless it was flushed. A manifest names the digest of its predecessor, so a
digest stands for a history and is modelled as the sequence of its operations.

- `Begin`, `Read`: the committed head is read before any lock, pointer first, then
  the manifests and the checkpoint, so another process may commit in between.
- `Install`, `Finish`: `ArtifactInstaller::install` and `finish`.
- `Stage`, `Write`, `Flush`, `Move`: `prepare_staged_file` and the rename, shared by
  artifact, manifest, pointer and checkpoint.
- `Lock`, `InstallManifest`, `SyncGenerations`, `SyncSession`, `Confirm`:
  `publish_generation_while_locked`; `AcknowledgeRetry`: `acknowledge_retry`.
- `Ask`: what the caller of a failed publication does; a job's `commit()` asks the
  chain (`CallersAsk`).
- `Fail`, `Crash`, `PowerLoss`: a storage operation fails, a process dies, the
  machine loses power.

`durable` is what the session was opened as. `Durabilities` and `CallersAsk` are the
sets an instance chooses it, and the habit of its callers, from.

`Lock` and `Confirm` read the head in one step because every writer of these files
holds the writer lock. `Begin` never lets two processes run one operation at the
same time: ids are fresh per call, and a job's operation belongs to its owner.

Assumptions about the filesystem: a successful directory synchronisation makes the
earlier renames in that directory durable, and a rename is atomic
(`src/docs/decisions/0020-recoverable-jobs-and-durable-publication.md`); after a
failed flush nothing is known of a file's data.

Left out of the model: the verified-head cache of a process, a read of the head that
itself fails while the writer lock is held (`.../publication.rs:591`) and a manifest
whose durability is not the session's (`:521`), both of which end the call like `Fail`
and change nothing on disk; the lifecycle content of a manifest, activation's extra synchronisation, publishing an artifact the head
already lists, and losses of power in an ephemeral session, which promises nothing
there. Staged names carry the generation or digest too; the model keeps the kind
and the operation, so it meets leftovers at least as often as the code.

### OperationBinding and the code

`rec` is a job's directory: absent, without a record yet, or with one; `bound` the
binding files, `index` the entries of the root's job index, `owner` the owner locks.
A job's id follows from the range it recognises and the revision it builds on, so
`Jobs` is the set of such pairs and two requests may name one job.

- `Ask`, `View`, `ReadBase`: `retranscribe` looks the id up, reads the newest
  revision and looks again (`run_retranscription`); `View` is `lookup_operation`.
- `Open`, `PruneBinding`, `PruneDirectory`, `PruneIndex`, `MakeDirectory`, `Own`,
  `WriteRecord`, `Index`: `own`, with `make_room` in the four steps it takes.
- `Reconcile`, `Settle`, `Bind`, `BindFile`, `Start`, `Work`, `Publish`, `Succeed`,
  `Alias`: `run_retranscription`. `bind_operation` is two steps: the record, then the
  binding file.
- `Stop`, `Crash`: the attempt fails, the process dies.

An attempt's inside is `JobRun`'s, so a failed attempt ends its call and the
automatic retries are left to the next call; a range that was superseded stops the
attempt. Which of several jobs is the oldest is left open. Two constants separate
what the code guarantees from what it does not: `SameIdOverlaps` lets two calls with
one id overlap, `PruneRaces` lets a job be taken while `make_room` is about to remove
it. The passing run has neither; each of the other two has one and shows what
follows (findings 5 and 6).

Met on the way, and not a property: two different requests that widen to one range on
one base name one job, and the second is refused as an integrity failure although
nothing is damaged (`own`'s comparison of request digests); of two requests that race
under one id the later binding wins; a directory that a crash left without a record
holds one of the session's places and is never pruned.

Met on the way, and proved of the model only in its weaker form: the limit on a
session's jobs is not kept. `vsift-application/src/job.rs:80` says "Most jobs one session
keeps", `src/docs/planning/known-limits.md:1252` "a session keeps at most 64 jobs", and
`architecture-and-contracts.md:320` and `support-and-resource-profiles.md:190` of the same
directory say it too. `make_room` counts the directories without a lock
(`.../jobs.rs:277-281`): two processes that find the last free place, or that prune the
same job, both add one, and since a later call prunes one job only the excess stays.
Processes that overlap often enough add up to one job each: `SessionJobsExcess` proves
that the directory never holds more than `MaxJobs + |Callers| - 1`.

### JobQueue and the code

`stamp` is the number in an entry's name, `fresh` the entries younger than
`QUEUE_START_GRACE_SECONDS`, `turn`, `slot`, `marker`, `demand` the holders of the
locks in `coordination/`; `peeks` and `probe` are looks at a lock, which hold it for
an instant and make others' tries fail. `before`, `newer` and `late` are history: which
entry came first, the runners started since a runner's last look, and the chunks that
ended since a caller demanded. `left` also says how long the queue may be and
how many threads the recognizer has: `recognizer_threads` gives the smallest of the
machine's parallelism, 8 and the capacity, so it may be fewer than the slots.

- `JobStart`, `JobCancel`: `job_start`, `job_cancel` for a queued job.
- `Launch`, `Look`, `EnterSelf`, `TryTurn`: a runner takes its job and waits for its
  turn (`run_prepare`, `before_start`, `queue_position`).
- `ProbeToTake`, `RunnerTakes`, `Mark`: `admit_waiting` and `try_admit_queued`, one
  slot at a time; `Chunk`, `Gate`: `run_chunks`, with `before_chunk` ahead of every chunk
  but the first (`ready_for_chunk`), and straight on to the chunk once the slots are
  taken again.
- `Assemble`, `Publish`, `Published`: after the last chunk the slots and the marker are
  dropped, and the result is published with one slot, as any write is; a publication
  that finds none is tried again and leaves the job waiting in the end.
- `Succeed`, `Cancelled`, `DropTurn`, `SeeEnded`, `LeaveQueue`: the job ends, then
  its process drops the turn and the entry (`resume_prepare`).
- `Begin`, `CallerTakes`, `CallerLooks`, `Demand`, `PollAgain`, `Refused`, `Release`:
  `acquire_admission`, `wait_for_queued_work` and `for_queued_work`.
- `Die`, `ClockBack`: a runner dies; the clock steps back and the grace begins again.

The streams of a prepare job are one phase of work (its visual stream takes slots as an
ordinary caller does, and `Callers` has those), a recognition that fails is left out, and
so is the look at the marker of a refused publication: no other queued work can hold it
while this job has the turn. Parts are not published by queued work (`AtTheSeal`). The
time limits of the waits are left out: no wait is ended by its limit alone, so the liveness properties do not
lean on them. An entry whose session cannot be read just now is removed by whoever
walks past it and loses its place; the model has that too, and `FirstInFirstOut`
speaks of the entries there are.

Met on the way: `.../queue.rs:14` says that queued work "takes the root's whole
capacity" and `:20` that it looks at the demand "before every chunk"; the code takes the
recognizer's threads, and does not look before the first chunk or the one after an
admission. `YieldsWithinAChunk` holds all the same, since a demand is never followed by
more than the chunk it met. A caller whose demand lock is being probed waits without a demand,
although the module's comment says it holds one (`.../root.rs:994`; it is still
answered, `CallsAreAnswered`); a caller whose try fails just before queued work gives
back, and whose look at the marker comes just after, is refused although the slots
are free; the process of an ended job may remove the entry of the same job started
again.

### SessionLifecycle and the code

`marker`, `attempt`, `folder`, `quarantine` are what is on disk; `phase`, `life`,
`generation` what the head last said; `init`, `registered`, `claim`, `sharers`,
`exclusive` the holders of the initialization lock, the marker's lock and the
lifetime lock.

- `Register`, `HoldMark`, `Build`, `Install`, `Stage`, `Activate`: an opening
  (`OpenSession::execute`). `OpenFails` and `AbandonFailedOpen`: its failure at any
  point and what `ingest_prepared` does then. `Activate` may land and still fail.
- `List`, `Listed`, `Claim`, `ClaimHold`, `Look`, `Hold`, `Judge`, `Quarantine`, `Delete`,
  `Unmark`: `clean_sessions` and `clean_session_scoped`, for a cleaner and for the
  opener that abandons. A lock that is held ends a cleaner's call; the opener tries
  again for five seconds (`RefusedBusy`). `List` holds the initialization lock until
  `Listed`, as the scan of a bucket does, so one cleaner's scan refuses another's claim.
- `Asks`, `Status`, `LeaveRead`, `Change`, `Publish`: `session_status`,
  `renew_session` and `close_session`; the generation read under the shared hold is
  the one the change expects under the exclusive one.
- `Stop`: the opener or a cleaner dies, or a removal meets a storage failure.
- `Tick`: the clock. A call reads it once, at its start.

A user that dies leaves what a refused one leaves. `stop_live_jobs`, which a close
calls first, changes jobs and not the session. Repeats of an initialization are left
out: an open never repeats one under the same id. `Quarantine` leaves out the refusal
of a tree that holds foreign entries (`.../cleanup.rs:153`), which ends the call like a
storage failure, and the entries of the root's job index that go before the rename
(`:155`), which no property here reads. `IDLE` is both the idle interval of the root's
policy and `SessionLifetime::IDLE_SECONDS`; in a workspace they differ, and so does when
a session is over, not what may be removed then.

Met on the way, and not a property: a cleaner that opened the marker and locks it
after another remover unlinked it fails with a storage error, and its entry is
"skipped", although `clean_sessions` says that a registration removed after the
listing is no entry. The attempt folder of an opening that died or failed while it was
built (`.../initialization.rs:221-278`) is never removed: a removal looks for the
session's folder and its quarantine only. `src/docs/operations/worker-host.md:337-342`
says of what a killed open leaves that `session clean` removes it and that it holds "at
most, a session folder with no published generation", and ADR 0021
(`src/docs/decisions/0021-worker-and-batch-host.md:619-621`) that a failed open removes
"the session folder it began"; the attempt lies in the same directory and stays, so
`EverySessionEnds` speaks of marker, folder and quarantine and not of it. Two cleaners
that are both called without end can refuse each other's claims for ever, the scan of
one falling on the claim of the other. An opening's clock is read before its copy, so a very slow one opens a
session that has expired; the status a close reads at its end may find the session
removed already.

## 3. Runs

| Run | Question | Result |
| --- | --- | --- |
| `job_live` | Through attempts, crashes, conflicts and a storage failure: at most one commit, announced first, a record that agrees with the chain, and an owner that lets go? | holds |
| `job_epochs` | Across a restart in a second epoch: promised cancellations exclude commits, answers are true, the record never goes back, `JobOutcome` is implemented? | holds |
| `job_status` | Does a status call never report a landed commit as interrupted? | violated, finding 1 |
| `job_ledger` | Does an interrupted record mean that nothing landed, even when the chain cannot be read? | violated, finding 2 |
| `commit` | A durable or an ephemeral session, two publishers, two faults and, when durable, a loss of power: is everything acknowledged kept, the session readable, every listed file whole, `SessionChain` implemented, and no call in a durable session blocked by leftovers? | holds |
| `commit_repeat` | Does a repeat complete after a process died in an ephemeral session? | violated, finding 3 |
| `commit_reported` | Does what a job reports as committed survive a loss of power? | violated, finding 4 |
| `binding` | Requests repeated with one id, other requests between, a full job directory, a death: published once, answered from its job for ever, bindings that name jobs that know them, jobs that are indexed? | holds |
| `binding_prune` | The same when a job may be taken while it is being pruned? | violated, finding 5 |
| `binding_overlap` | Is a request published once when two calls with its id overlap? | violated, finding 6 |
| `queue` | Two queued jobs and a caller, a full queue, a cancellation, a death: turns in order, one worker with its share of the slots, a yield within a chunk, and everybody served? | holds |
| `lifecycle` | An opener, two cleaners and a user, time passing, a death: is what is in use, being opened or not over left alone, is every folder and quarantine found by its marker, and does one periodic cleaner remove everything in the end? | holds |

**Bounds.** Two processes are enough for every race on a job: each lock has one
holder and one contender, and `OtherCommit` stands for any number of other
writers of the session. `MAX_JOB_ATTEMPTS` is 2 (a retry, and a job at its bound) or 1
with two epochs; `POISON_THRESHOLD` is 2, so that a chunk can and need not poison a
job; one automatic retry, so that the budget is used and used up; two generations,
so that a commit follows another and the chain can be full. One storage failure in
the job runs, two faults in the commit runs (a failure, then the death of the
process that repairs it) and one loss of power. `MAX_GENERATIONS` is 3: generation
0 and both operations. The two operations install the same artifact, so that one
meets the other's file, whole, torn or only half written.

`binding`: two callers, one id, three requests of which two widen to one range, four
calls, two or three revisions: enough for a request, another publication, the repeat,
and a fourth that needs room. `MaxJobs` is 2, so that the directory is full and a job
is pruned; one death. `queue`: two jobs, three slots of which queued
work takes two and so does the caller, so that they exclude each other although a slot is
left over; queues of one and of two entries, two chunks, so that a demand falls before, between and after
them; one cancellation and one fault, so that a cancelled runner may die. The clock
never passes the last stamp, which is the branch of `next_stamp` that can go wrong;
`EntriesSortByArrival` covers a clock that moves either way.
`lifecycle`: two cleaners besides the opener, so that removals meet; two calls of a user,
of the second cleaner or of a dry run, while the first cleaner is called without a bound
(the others keep it out, or are kept out by it, only so often); the idle interval is two ticks, the longest
lifetime three, and `Tick` leaves a folder the time to become idle.

In the proofs every one of these constants is arbitrary.

**Symmetry** over the processes (and over like requests) is used in runs of safety
properties only.

**Fairness.** `job_live` assumes weak fairness of `Step(p)`: a process that was
called goes on until it answers or dies. That is the operating system's scheduling
and nothing more: no lock is waited for without a bound, so no step depends on
another process. `queue` assumes it of every runner, caller and ending process, and
of the clock: waiting processes poll (`QUEUE_TURN_POLL`, `QUEUED_YIELD_POLL`), chunks
and ordinary uses end. `lifecycle` assumes it of the opener, of the clock,
of users and removers within their calls, and of the calls of one cleaner, `timer`: nothing is
removed unless `session clean` is called again and again, as a host's timer does, and with
two such cleaners nothing would follow, since each can refuse the other for ever.
Starts, cancellations, other calls, deaths and failures are never fair.

**Deadlock** is checked in every run. Where calls are bounded, `Finished` says that
everybody is idle.

## 4. Findings

1. **`job_status` can report a landed commit as interrupted.** Refused the owner
   lock, it takes the holder for a live owner (`vsift-application/src/job.rs:1175`);
   the holder may be the probe of another status call. The second view then reads
   an unowned, committing record. The documentation of the function says it "never
   reports a landed commit as interrupted". A later call answers correctly.
2. **A chain that cannot be read counts as a commit that did not land**
   (`vsift-application/src/job/run.rs:1185`). The record then says interrupted and
   the next attempt may commit again under its own operation id, contrary to the
   comment in `vsift-domain/src/job.rs:18-19`.
3. **An artifact is created under its final name before its bytes are written**
   (`.../publication.rs:920`). In an ephemeral session a process killed in between
   leaves a partial file that every later installation of the same bytes rejects.
   A durable session is not affected: it stages the bytes again.
4. **A job reports a commit whose synchronisation failed**
   (`vsift-application/src/job/run.rs:1185`). The pointer was renamed, so the chain
   shows the generation; a loss of power may still drop it, contrary to ADR 0020's
   "Any flush, sync or rename error is `STORAGE_IO` with no acknowledgement".

5. **A job may be taken between `make_room`'s look and its removal**
   (`.../jobs.rs:310`). The job was ended, unowned and unpinned when it was chosen;
   by the time it is removed another call may have bound its id to it and answered
   from it. The id then names a job that is gone, and a repeat runs again.
6. **Two overlapping calls with one operation id can publish twice**
   (`vsift-application/src/job.rs:1041`). Both find the id unbound; when the session
   moves between their reads of the newest revision they open different jobs.
   Without that publication in between they name one job and the owner lock decides,
   which is the case the repository's test covers.

## 5. Proofs

TLAPS checks these for every set of processes, every bound and any number of
attempts, epochs, faults and generations, from the constants' assumptions alone:

- `TypeCorrect`: `Spec => []TypeOK`.
- `RecordNeverGoesBack`: epoch and attempt only advance, a terminal record changes
  only by a restart.

and these under the further assumption `~LedgerMayFail`, without which finding 2
refutes them:

- `JobInvariant`: `JobInv` is an invariant.
- `ExactlyOnce`, `CancelWins`, `RecordAndChainAgree`, `AnswersHold`,
  `InterruptedHasNotLanded`, `OnlyAnnouncedCommits`.
- `JobRunImplementsOutcome`: `JobRun` refines `JobOutcome`.

None of the safety properties is inductive: a second commit, say, is excluded only
because the process about to publish has announced exactly that operation, because
its copy is the stored record, and because nobody else can own the job. `JobInv`
says so, in five parts:

- `Ownership`: a process at a step that needs the lock holds it;
- `RecordKnowsCommit`: the job's generation, if any, is the one the record
  announced, in a record that is committing or succeeded;
- `RecordShape`: the announced operation is the one of the record's own attempt;
- `OwnerKnows`, `CallerKnows`: what a process may rely on at each step. An owner's
  copy is the record or the record before a cancel request; from `publish` on the
  stored record announces its commit; before that nothing landed;
- a promised cancellation is recorded for good (`CancelRecorded`).

The proof has one lemma per action. `QuietStep` covers the actions that touch
neither record nor chain, `OwnerStep` those of a lock holder; what is left for each
action is what it does to the conjuncts about its own process. `LedgerIsRight` is
the heart of recovery: the chain holds the job's generation exactly when it holds
the announced operation above the announced generation.

`SessionLifecycleProofs` proves, for any number of cleaners and users, any lifetime
and any number of calls, deaths and ticks, from `LifecycleBounds` and
`LifecycleProcs` alone:

- `TypesHold`, with which no lock is held both shared and exclusively;
- `MarkersOutliveSessions`, `UsesAreKept`, `OpeningsAreKept`, `SessionsAreKept`: the
  four safety invariants of the run `lifecycle`.

Their inductive invariant says which place holds which lock (`LockInv`), what is on
disk at each place (`FileInv`) and what the head says there (`HeadInv`). The parts
that are not obvious: a remover that claimed nothing met no marker, and none comes
back, since only the opening registers; a removal that found a quarantine still finds
it once it holds the session, since only the holder of the claim deletes it; and a
session that was judged over under the exclusive hold is still over when it is renamed,
since a renewal needs that hold. One lemma per action, four steps in each.

`JobQueueProofs` proves, for any number of jobs, callers, slots and entries, from
`QueueNames` and `QueueBounds` alone:

- `QueueTypes`; `EntriesSortByArrival`: a stamp is taken above all the stamps there are,
  also when the clock stands still or steps back;
- `QueuedWorkHasItsShare`, `QueuedWorkYields`, `TurnsInOrder`: the remaining safety
  properties of the run `queue`.

The invariant's parts: the turn is held by the runner at work or by the process that is
ending its job, never by both (`TurnInv`); a runner on its way to the marker, or at work,
has the recognizer's threads of the slots, and none after its last chunk (`SlotInv`); once a chunk has ended under a demand no runner is past its look for
one (`DemandInv`); and the live entries ahead of a runner that found none were started
after its look (`OrderInv`). `EntriesInOrder` is inductive as it stands, given that a
stamp above all others exists: that the finitely many stamps have a largest one
is an induction over finite sets, done with a minimal element (`WFMin`) because the
library's induction rule takes an operator.

`OperationBindingProofs` and `OperationAnswerProofs` prove, for any number of callers,
ids, requests, ranges, revisions, calls and faults and any limits:

- without a condition on what overlaps: `BindingTypes`, and `SessionJobsExcess`. The
  bound on the excess is not inductive: `RoomInv` counts with the jobs the processes that have found
  or made room and have not used it yet;
- under `~PruneRaces`, which finding 5 shows to be needed: `BindingsKept` and
  `OwnedJobsIndexed`. `PruneInv` says that a job being pruned has no owner, no id and
  after `PruneBinding` no binding (`VictimInv`), so no process ever loses its directory,
  and what the record of an owned job says at each place (`StateInv`). Two lemmas carry
  it: `WhoChanges` (who may write a job's record) and `RecordChanges` (what any step
  keeps of it);
- under `~PruneRaces` and `~SameIdOverlaps` (findings 5 and 6): `AnswersReplay` and
  `PublishedOnce`. `AnswerInv` adds that past its lookups a call's id has published and
  answered nothing, and that what was published is the succeeded, or committing and
  landed, job the id is bound to (`PublishedInv`): `GoesOnClean` shows that a lookup
  goes on only where neither can be, and `ResultStays` that no step takes it back.

`GenerationCommitProofs` proves, for any number of processes, operations, artifacts,
faults and losses of power and any capacity, from the constants' assumptions:

- `CommitTypes`, `SessionReadable`, `AcknowledgedKept`, `ListedWhole` and
  `DurableAccepts`: the five invariants of the run `commit`;
- `SessionImplementsChain`: the rename of the pointer is `Commit`, the return of a call
  `Acknowledge` or nothing, a loss of power `Lose`, every other step a stutter;
- under `TRUE \notin CallersAsk`, `EphemeralReportsSurvive`: `ReportedSurvives` fails
  (run `commit_reported`) only through the callers of durable sessions.

What the properties say of `file` holds after a loss of power only if it holds of all
the disk may keep. The invariant is therefore stated over `May(n)`, the file under a
name and those a loss of power may leave there, and over `Solid` files: flushed, or
written in an ephemeral session. `HeadInv`: every possible pointer extends what was
acknowledged and is a prefix of the head; every possible manifest up to the head is the
right one; every possible checkpoint is a prefix of every possible pointer; every
possible copy of a listed artifact is solid. `CallInv` says what a call knows at each
place: before the pointer is renamed its manifest and its artifact are solid under every
outcome, and after the synchronisation every possible pointer is its own. `LockInv` gives
the head to one writer. The parts that are not obvious: a call ahead of the lock holds a
prefix of the head, so an artifact listed there is solid although it was read without a
lock; and an open file that is replaced while it is written is either still the
writer's or already solid.

Each inductive invariant was checked by TLC on the instance of its run before it was
proved. The attempt on `JobQueue` found an error in the model: the death of a
process that was only ending its job reset `newer`, which belongs to the runner.

Only model-checked: liveness (`OwnerLetsGo`, `QueuedJobsEnd`, `CallsAreAnswered`,
`EverySessionEnds`), which is beyond the prover. Every invariant, action property and
refinement of a passing run is also proved.

## 6. Plan

1. `JobRecords`, `JobRun`, `JobOutcome` with runs and proofs. *Done.*
2. `GenerationCommit`, `SessionChain` with runs and proofs. *Done.*
3. `OperationBinding`, `JobQueue` with runs and proofs. *Done.*
4. `SessionLifecycle` with its run and proofs. *Done.*
5. `OpenRevision`: parts and seals on top of `GenerationCommit`, composed with
   `JobRun`, which counts them as generations of others until then.
6. `ManagedStore`: stage, publish, select, roll back, sweep.
7. `WorkerRequests` and watch claims; the work directories of a session.

**Not modelled.** Archive parsers and transfers, media processing, recognition, OCR,
search ranking, time anchors, the command line and the platform layer. They
transform data, keep no shared state, and are better served by the repository's own
tests. They are most of the repository's lines, so the models cover a small share of
it by lines, and the storage layer by behaviour.
