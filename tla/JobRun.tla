------------------------------- MODULE JobRun -------------------------------
(***************************************************************************)
(* One recoverable job, the processes that run, cancel and query it, and   *)
(* the session's manifest chain its result is committed to.                *)
(*                                                                         *)
(* Every process is a vsift command.  "run" is run_retranscription, from   *)
(* open_or_create to its answer; "cancel" is cancel_job; "status" is       *)
(* job_status, which is also what a resume asks first.  A process may      *)
(* crash between any two steps; the operating system then frees its locks. *)
(*                                                                         *)
(* owner.lock is the only authority on whether a job is live: `owner' is   *)
(* the process holding it exclusively and `probes' are the processes that  *)
(* hold it shared for the instant of a liveness probe.  state.lock is held *)
(* only around one read-modify-write of the record, so each such section   *)
(* is one step here.  `chain' is the manifest chain, the operation of each *)
(* generation in order: a generation's number is its place in it.          *)
(***************************************************************************)
EXTENDS JobRecords

CONSTANTS
    Procs,                   \* processes (vsift commands)
    Calls,                   \* the calls they make: "run", "cancel", "status"
    WorkStops,               \* failures that may stop an attempt's work
    MAX_AUTOMATIC_RETRIES,   \* retries of contention one run may make (2)
    MaxGeneration,           \* largest generation number of a session
    MaxFaults,               \* storage failures in a behaviour (model bound)
    LedgerMayFail,           \* whether commit's ledger read may fail
    NoProc                   \* "no process"

ASSUME ProcsAssumption  == NoProc \notin Procs
ASSUME CallsAssumption  == Calls \subseteq {"run", "cancel", "status"}
ASSUME RetryAssumption  == MAX_AUTOMATIC_RETRIES \in Nat
ASSUME ChainAssumption  == MaxGeneration \in Nat
ASSUME FaultsAssumption == MaxFaults \in Nat
ASSUME LedgerAssumption == LedgerMayFail \in BOOLEAN

VARIABLES
    record,     \* job.json as stored
    owner,      \* the process holding owner.lock, or NoProc
    probes,     \* processes holding owner.lock shared
    chain,      \* operation of each committed generation
    pc,         \* what each process does next
    call,       \* the call each process is making
    copy,       \* the record as the process last read or wrote it
    observed,   \* the generation the run observed when it began
    expected,   \* commit(): the generation the publication must follow
    retries,    \* run_retranscription: contention retries used
    stop,       \* the failure that stopped the attempt
    live,       \* liveness the last probe of a status call saw
    answer,     \* what the call answers
    faults,     \* storage failures still to happen
    won         \* history: epochs in which a cancellation was promised

jobVars  == <<record, owner, probes, chain>>
procVars == <<pc, call, copy, observed, expected, retries, stop, live, answer>>
vars     == <<jobVars, procVars, faults, won>>

-----------------------------------------------------------------------------
(* Attempt failures as settle_failure tells them apart: the recorded       *)
(* failure, and whether it ends the job (a superseded range, an answer     *)
(* that can only repeat) or follows a bounded admission wait.              *)
(* WorkStops are the ones admission, recognition, assembly and the guard   *)
(* may end an attempt with.                                                *)

StopKind == {"plain", "final", "waited_out"}
Stop == [kind : StopKind, chunk : Chunks \cup {NoChunk}, code : FailureCode]

Failure(code) == [kind |-> "plain", chunk |-> NoChunk, code |-> code]
NoStop        == Failure("resumable")

\* The storage failed, or a lock stayed busy for every try.
StorageStops == {Failure("resumable"), Failure("busy")}

ASSUME StopsAssumption == WorkStops \subseteq Stop

Superseded == [kind |-> "final", chunk |-> NoChunk, code |-> "busy"]

AttemptFailureOf(s) == [chunk |-> s.chunk, code |-> s.code]

\* RetryPolicy::R0: contention is retried while the budget lasts.
RetryAfter(code, used) == code = "busy" /\ used < MAX_AUTOMATIC_RETRIES

\* Faulty variant: a retry is not counted.
UseNoRetry(p) == UNCHANGED retries

\* A retry is counted against the budget.
UseRetry(p) == retries' = [retries EXCEPT ![p] = @ + 1]

Pc == {"idle", "own", "read", "reconcile", "opened", "bind", "start", "work",
       "record", "refused", "publish", "ledger", "head", "succeed", "cancel_won",
       "settle", "settle_cancel", "settle_end", "request", "view", "probe",
       "probed", "return"}

Answer == {"none", "committed", "replayed", "stopped", "cancelled", "requested",
           "too_late", "ended", "busy", "not_found", "view", "error"}

-----------------------------------------------------------------------------
(* The chain.  Generations of other operations (renewals, evidence, other  *)
(* revisions, the parts and stop-seals of this job) carry Other.           *)

Other == commit_operation_id(0, 0)
IsOurs(op) == op.attempt # 0
Generation == Len(chain)   \* number of the committed head

\* Faulty variant: the search stops one generation early.
committed_generation_short(op, above) ==
    \E g \in 1..Generation : g > above + 1 /\ chain[g] = op

\* CommitLedger::committed_generation finds op above generation `above'.
committed_generation(op, above) == \E g \in 1..Generation : g > above /\ chain[g] = op

\* The commit operation of the attempt a process owns.
OperationOf(p) == commit_operation_id(copy[p].epoch, copy[p].attempt)

Landed == \E g \in 1..Generation : IsOurs(chain[g])

-----------------------------------------------------------------------------
(* JobOwner::apply under state.lock: the change is checked against and     *)
(* applied to the record as stored, fenced on the epoch and the attempt    *)
(* the owner last saw.  A storage failure may strike before the record is  *)
(* replaced, or after it (the directory synchronisation that follows the   *)
(* rename): the owner is then told of a failure although the change is     *)
(* stored.                                                                 *)

Fresh(p) == record.epoch = copy[p].epoch /\ record.attempt = copy[p].attempt

Applied(p, can, next) ==
    /\ Fresh(p) /\ can
    /\ record' = next
    /\ copy' = [copy EXCEPT ![p] = next]
    /\ UNCHANGED faults

NotApplied(p, can, next) ==
    \/ /\ ~(Fresh(p) /\ can)
       /\ UNCHANGED <<record, copy, faults>>
    \/ /\ faults > 0
       /\ faults' = faults - 1
       /\ \/ UNCHANGED record
          \/ Fresh(p) /\ can /\ record' = next
       /\ UNCHANGED copy

Goto(p, place) == pc' = [pc EXCEPT ![p] = place]

\* The call ends with `a'; what it holds is dropped as it returns.
Respond(p, a) ==
    /\ Goto(p, "return")
    /\ answer' = [answer EXCEPT ![p] = a]

-----------------------------------------------------------------------------
(* Taking a job: open_or_create and acquire.                               *)

\* A caller issues a command.
Begin(p) ==
    /\ pc[p] = "idle"
    /\ \E c \in Calls :
        /\ call' = [call EXCEPT ![p] = c]
        /\ Goto(p, CASE c = "run" -> "own" [] c = "cancel" -> "request"
                     [] OTHER -> "view")
    \* run_retranscription observes the head before it opens the job.
    /\ observed' = [observed EXCEPT ![p] = Generation]
    /\ retries' = [retries EXCEPT ![p] = 0]
    /\ UNCHANGED <<jobVars, copy, expected, stop, live, answer, faults, won>>

\* A liveness probe may hold owner.lock shared at this instant: a status call's,
\* or the one request_cancel makes of a job that has not ended.
Probing ==
    \/ probes # {}
    \/ /\ record.state \in JobState /\ ~is_terminal(record.state)
       /\ \E q \in Procs : pc[q] = "request"

\* The exclusive lock is tried once.  A live owner, or a probe that happens
\* to hold the lock shared, makes the attempt busy: run and cancel answer so,
\* job_status takes it for an owner that appeared and reads the job again.
TakeOwnerLock(p) ==
    /\ pc[p] = "own"
    /\ \/ /\ owner = NoProc /\ probes = {}
          /\ owner' = p
          /\ Goto(p, "read")
          /\ UNCHANGED answer
       \/ /\ owner # NoProc \/ Probing
          /\ call[p] = "status"
          /\ Goto(p, "view")
          /\ answer' = [answer EXCEPT ![p] = "view"]
          /\ UNCHANGED owner
       \/ /\ owner # NoProc \/ Probing
          /\ call[p] # "status"
          /\ Respond(p, "busy")
          /\ UNCHANGED owner
    /\ UNCHANGED <<record, probes, chain, call, observed, copy, expected, retries, stop,
                   live, faults, won>>

\* The new owner reads the record under state.lock; a run creates it.
ReadRecord(p) ==
    /\ pc[p] = "read"
    /\ \/ /\ record.state # "absent"
          /\ copy' = [copy EXCEPT ![p] = record]
          /\ Goto(p, "reconcile")
          /\ UNCHANGED <<record, answer, faults>>
       \/ /\ record.state = "absent" /\ call[p] = "run"
          /\ record' = Queued
          /\ \/ /\ copy' = [copy EXCEPT ![p] = Queued]
                /\ Goto(p, "reconcile")
                /\ UNCHANGED <<answer, faults>>
             \* The directory synchronisation or the index entry fails.
             \/ /\ faults > 0 /\ faults' = faults - 1
                /\ Respond(p, "error")
                /\ UNCHANGED copy
       \/ /\ record.state = "absent" /\ call[p] # "run"
          /\ Respond(p, "not_found")
          /\ UNCHANGED <<record, copy, faults>>
       \/ /\ faults > 0 /\ faults' = faults - 1
          /\ Respond(p, "error")
          /\ UNCHANGED <<record, copy>>
    /\ UNCHANGED <<owner, probes, chain, call, observed, expected, retries, stop, live, won>>

\* reconcile: decides from the owner's copy what became of a previous owner's
\* attempt.  A commit in the chain above the generation it expected to follow
\* succeeded; otherwise the attempt was interrupted.
Reconcile(p) ==
    LET r      == copy[p]
        landed == committed_generation(r.commit.op, r.commit.observed)
        Settle(can, next) ==
            \/ Applied(p, can, next) /\ Goto(p, "opened") /\ UNCHANGED answer
            \/ NotApplied(p, can, next) /\ Respond(p, "error")
    IN
    /\ pc[p] = "reconcile"
    /\ \/ r.state = "committing" /\ landed /\ Settle(CanSucceed(record), Succeeded(record))
       \/ /\ r.state = "running" \/ (r.state = "committing" /\ ~landed)
          /\ \/ exhausted(r) /\ Settle(CanFail(record), Failed(record, <<>>))
             \/ ~exhausted(r) /\ Settle(CanInterrupt(record), Interrupted(record, <<>>))
       \/ r.state = "cancelling" /\ Settle(CanCancel(record), Cancelled(record))
       \/ /\ ~claims_an_owner(r.state)
          /\ Goto(p, "opened")
          /\ UNCHANGED <<record, copy, answer, faults>>
       \* The ledger cannot be read: the record is left as it was.
       \/ /\ r.state = "committing"
          /\ faults > 0 /\ faults' = faults - 1
          /\ Respond(p, "error")
          /\ UNCHANGED <<record, copy>>
    /\ UNCHANGED <<owner, probes, chain, call, observed, expected, retries, stop, live, won>>

-----------------------------------------------------------------------------
(* run_retranscription                                                     *)

\* A succeeded job is replayed, unless its revision cannot be read; a failed or
\* cancelled one starts a new epoch.
Opened(p) ==
    /\ pc[p] = "opened" /\ call[p] = "run"
    /\ \/ /\ copy[p].state = "succeeded"
          /\ \/ Respond(p, "replayed") /\ UNCHANGED faults
             \/ faults > 0 /\ faults' = faults - 1 /\ Respond(p, "error")
          /\ UNCHANGED <<record, copy>>
       \/ /\ copy[p].state \in {"failed", "cancelled"}
          /\ \/ /\ Applied(p, CanRestart(record), Restarted(record))
                /\ Goto(p, "bind")
                /\ UNCHANGED answer
             \/ /\ NotApplied(p, CanRestart(record), Restarted(record))
                /\ Respond(p, "error")
       \/ /\ copy[p].state \in {"queued", "interrupted"}
          /\ Goto(p, "bind")
          /\ UNCHANGED <<record, copy, answer, faults>>
    /\ UNCHANGED <<owner, probes, chain, call, observed, expected, retries, stop, live, won>>

\* bind_operation, when the caller named an operation: the owner's copy becomes
\* the record as stored, a cancel request that came meanwhile included.
Bind(p) ==
    /\ pc[p] = "bind"
    /\ \/ /\ Goto(p, "start")
          /\ copy' \in {copy, [copy EXCEPT ![p] = record]}
          /\ UNCHANGED <<answer, faults>>
       \/ /\ faults > 0 /\ faults' = faults - 1
          /\ Respond(p, "error")
          /\ UNCHANGED copy
    /\ UNCHANGED <<jobVars, call, observed, expected, retries, stop, live, won>>

Start(p) ==
    /\ pc[p] = "start"
    /\ stop' = [stop EXCEPT ![p] = NoStop]
    /\ expected' = [expected EXCEPT ![p] = 0]
    /\ \/ /\ Applied(p, CanStart(record), Started(record))
          /\ Goto(p, "work")
          /\ UNCHANGED answer
       \/ /\ NotApplied(p, CanStart(record), Started(record))
          /\ Respond(p, "error")
    /\ UNCHANGED <<owner, probes, chain, call, observed, retries, live, won>>

\* attempt_once up to its commit: admission, the chunks, assembly and the
\* guard.  Any of them may stop the attempt; a cancellation is only sure to be
\* noticed at a chunk boundary, so it may also be missed here.
Work(p) ==
    /\ pc[p] = "work"
    /\ \/ /\ expected' = [expected EXCEPT ![p] = observed[p]]
          /\ Goto(p, "record")
          /\ UNCHANGED stop
       \/ /\ \E s \in WorkStops : stop' = [stop EXCEPT ![p] = s]
          /\ Goto(p, "settle")
          /\ UNCHANGED expected
    /\ UNCHANGED <<jobVars, call, observed, copy, retries, live, answer, faults, won>>

\* commit(): records committing, with the operation and the generation it
\* follows, before anything is published.
RecordCommitting(p) ==
    LET next == Committing(record, JobCommit(OperationOf(p), expected[p])) IN
    /\ pc[p] = "record"
    /\ \/ /\ Applied(p, CanCommit(record), next)
          /\ Goto(p, "publish")
       \/ /\ NotApplied(p, CanCommit(record), next)
          /\ Goto(p, "refused")
    /\ UNCHANGED <<owner, probes, chain, call, observed, expected, retries, stop,
                   live, answer, won>>

\* cancel_requested: the record is read without a lock; one that cannot be read
\* counts as no request.
SeesCancel   == record.state = "cancelling" /\ UNCHANGED faults
SeesNoCancel ==
    \/ record.state # "cancelling" /\ UNCHANGED faults
    \/ faults > 0 /\ faults' = faults - 1

\* The committing record was refused: by a cancellation, or by a failure.
Refused(p) ==
    /\ pc[p] = "refused"
    /\ \/ SeesCancel /\ Goto(p, "cancel_won") /\ UNCHANGED stop
       \/ /\ SeesNoCancel
          /\ \E s \in StorageStops : stop' = [stop EXCEPT ![p] = s]
          /\ Goto(p, "settle")
    /\ UNCHANGED <<jobVars, call, copy, observed, expected, retries, live, answer, won>>

\* Cancellation took state.lock before the commit did: nothing is published.
CancelWon(p) ==
    /\ pc[p] = "cancel_won"
    /\ \/ /\ Applied(p, CanCancel(record), Cancelled(record))
          /\ Respond(p, "cancelled")
          /\ UNCHANGED stop
       \/ /\ NotApplied(p, CanCancel(record), Cancelled(record))
          /\ \E s \in StorageStops : stop' = [stop EXCEPT ![p] = s]
          /\ Goto(p, "settle")
          /\ UNCHANGED answer
    /\ UNCHANGED <<owner, probes, chain, call, observed, expected, retries, live, won>>

\* publish_revision: fenced on the expected generation; a repeat of the
\* operation that committed the next generation is acknowledged again.  A
\* storage failure may strike before or after the pointer moved.
Publish(p) ==
    LET op    == OperationOf(p)
        again == Generation = expected[p] + 1 /\ chain[Generation] = op
        free  == Generation = expected[p] /\ (Generation > 0 => chain[Generation] # op)
        Rejected(code) ==
            /\ stop' = [stop EXCEPT ![p] = Failure(code)]
            /\ Goto(p, "ledger")
    IN
    /\ pc[p] = "publish"
    /\ \/ /\ again
          /\ Goto(p, "succeed")
          /\ UNCHANGED <<chain, stop, faults>>
       \/ /\ free /\ Generation < MaxGeneration
          /\ chain' = Append(chain, op)
          /\ Goto(p, "succeed")
          /\ UNCHANGED <<stop, faults>>
       \/ ~again /\ ~free /\ Rejected("busy") /\ UNCHANGED <<chain, faults>>
       \/ free /\ Generation = MaxGeneration /\ Rejected("permanent") /\ UNCHANGED <<chain, faults>>
       \* The session's writer or the root's capacity is taken right now.
       \/ Rejected("busy") /\ UNCHANGED <<chain, faults>>
       \/ /\ faults > 0 /\ faults' = faults - 1
          /\ Rejected("resumable")
          /\ \/ UNCHANGED chain
             \/ free /\ Generation < MaxGeneration /\ chain' = Append(chain, op)
    /\ UNCHANGED <<record, owner, probes, call, observed, copy, expected, retries, live,
                   answer, won>>

\* After a failed publication the chain, not the error, says whether the
\* operation landed.  A ledger that cannot be read counts as "did not land".
Ledger(p) ==
    /\ pc[p] = "ledger"
    /\ \/ /\ committed_generation(OperationOf(p), expected[p])
          /\ Goto(p, "succeed")
          /\ UNCHANGED <<retries, faults>>
       \/ /\ \/ /\ ~committed_generation(OperationOf(p), expected[p])
                /\ UNCHANGED faults
             \/ LedgerMayFail /\ faults > 0 /\ faults' = faults - 1
          /\ \/ /\ RetryAfter(stop[p].code, retries[p])
                /\ UseRetry(p)
                /\ Goto(p, "head")
             \/ /\ ~RetryAfter(stop[p].code, retries[p])
                /\ Goto(p, "settle")
                /\ UNCHANGED retries
    /\ UNCHANGED <<jobVars, call, observed, copy, expected, stop, live, answer, won>>

\* The head is read again.  A revision of someone else's above the expected
\* generation either leaves the recognised range right, and the result is
\* spliced onto it (which may fail), or supersedes the run.
ReadHead(p) ==
    /\ pc[p] = "head"
    /\ \/ /\ expected' = [expected EXCEPT ![p] = Generation]
          /\ Goto(p, "record")
          /\ UNCHANGED <<stop, faults>>
       \/ /\ Generation > expected[p]
          /\ \E s \in {Superseded, Failure("permanent")} : stop' = [stop EXCEPT ![p] = s]
          /\ Goto(p, "settle")
          /\ UNCHANGED <<expected, faults>>
       \/ /\ faults > 0 /\ faults' = faults - 1
          /\ \E s \in StorageStops : stop' = [stop EXCEPT ![p] = s]
          /\ Goto(p, "settle")
          /\ UNCHANGED expected
    /\ UNCHANGED <<jobVars, call, observed, copy, retries, live, answer, won>>

\* The chain holds the commit; the record update is best effort.
Succeed(p) ==
    /\ pc[p] = "succeed"
    /\ \/ Applied(p, CanSucceed(record), Succeeded(record))
       \/ NotApplied(p, CanSucceed(record), Succeeded(record))
    /\ Respond(p, "committed")
    /\ UNCHANGED <<owner, probes, chain, call, observed, expected, retries, stop, live, won>>

-----------------------------------------------------------------------------
(* settle_failure: how a failed attempt ends the job.                      *)

\* A cancellation requested through the job is looked for first.
Settle(p) ==
    /\ pc[p] = "settle"
    /\ \/ SeesCancel /\ Goto(p, "settle_cancel")
       \/ SeesNoCancel /\ Goto(p, "settle_end")
    /\ UNCHANGED <<jobVars, call, copy, observed, expected, retries, stop, live,
                   answer, won>>

SettleCancel(p) ==
    /\ pc[p] = "settle_cancel"
    /\ \/ /\ Applied(p, CanCancel(record), Cancelled(record))
          /\ Respond(p, "cancelled")
       \/ /\ NotApplied(p, CanCancel(record), Cancelled(record))
          /\ Respond(p, "error")
    /\ UNCHANGED <<owner, probes, chain, call, observed, expected, retries, stop,
                   live, won>>

\* The failure ends the job for good, or leaves it resumable.
Ends(r, s) ==
    \/ s.kind = "final"
    \/ r.attempt >= MAX_JOB_ATTEMPTS
    \/ poisoned_chunk(Append(r.failures, AttemptFailureOf(s)))

SettleEnd(p) ==
    LET s    == stop[p]
        ends == Ends(copy[p], s)
        f    == <<AttemptFailureOf(s)>>
        can  == IF ends THEN CanFail(record) ELSE CanInterrupt(record)
        next == IF ends THEN Failed(record, f) ELSE Interrupted(record, f)
        again == ~ends /\ s.kind # "waited_out" /\ RetryAfter(s.code, retries[p])
    IN
    /\ pc[p] = "settle_end"
    /\ \/ /\ Applied(p, can, next)
          /\ \/ /\ again
                /\ UseRetry(p)
                /\ Goto(p, "start")
                /\ UNCHANGED answer
             \/ ~again /\ Respond(p, "stopped") /\ UNCHANGED retries
       \/ NotApplied(p, can, next) /\ Respond(p, "error") /\ UNCHANGED retries
    /\ UNCHANGED <<owner, probes, chain, call, observed, expected, stop, live, won>>

-----------------------------------------------------------------------------
(* cancel_job                                                              *)

\* What a cancel of a job that has ended answers: a job that is cancelled,
\* now or already, is reported as cancelled.
EndedAnswer(s) ==
    CASE s = "succeeded" -> "too_late" [] s = "cancelled" -> "cancelled" [] OTHER -> "ended"

\* request_cancel: one section under state.lock.  The liveness probe inside it
\* sees an owner that holds the lock exclusively, whatever it is doing.
RequestCancel(p) ==
    /\ pc[p] = "request"
    /\ copy' = [copy EXCEPT ![p] = record]
    /\ \/ /\ record.state = "absent"
          /\ Respond(p, "not_found")
          /\ UNCHANGED <<record, faults>>
       \/ /\ is_terminal(record.state)
          /\ Respond(p, EndedAnswer(record.state))
          /\ UNCHANGED <<record, faults>>
       \/ /\ record.state \in JobState /\ ~is_terminal(record.state)
          /\ owner = NoProc
          /\ Goto(p, "own")
          /\ UNCHANGED <<record, answer, faults>>
       \/ /\ owner # NoProc
          /\ \/ /\ record.state = "committing"
                /\ Respond(p, "too_late")
                /\ UNCHANGED <<record, faults>>
             \/ /\ record.state = "cancelling"
                /\ Respond(p, "requested")
                /\ UNCHANGED <<record, faults>>
             \/ /\ record.state \in {"queued", "running"}
                /\ record' = CancelRequested(record)
                /\ \/ Respond(p, "requested") /\ UNCHANGED faults
                   \/ faults > 0 /\ faults' = faults - 1 /\ Respond(p, "error")
             \/ /\ record.state = "interrupted"
                /\ Respond(p, "busy")
                /\ UNCHANGED <<record, faults>>
       \/ /\ faults > 0 /\ faults' = faults - 1
          /\ Respond(p, "error")
          /\ UNCHANGED record
    /\ UNCHANGED <<owner, probes, chain, call, observed, expected, retries, stop,
                   live, won>>

\* The canceller owns the job and reconciled it.
CancelOwned(p) ==
    /\ pc[p] = "opened" /\ call[p] = "cancel"
    /\ \/ /\ copy[p].state = "succeeded"
          /\ Respond(p, "too_late")
          /\ UNCHANGED <<record, copy, faults>>
       \/ /\ copy[p].state \in {"failed", "cancelled"}
          /\ Respond(p, EndedAnswer(copy[p].state))
          /\ UNCHANGED <<record, copy, faults>>
       \/ /\ copy[p].state \in {"queued", "interrupted"}
          /\ \/ /\ Applied(p, CanCancel(record), Cancelled(record))
                /\ Respond(p, "cancelled")
             \/ /\ NotApplied(p, CanCancel(record), Cancelled(record))
                /\ Respond(p, "error")
    /\ UNCHANGED <<owner, probes, chain, call, observed, expected, retries, stop,
                   live, won>>

-----------------------------------------------------------------------------
(* job_status                                                              *)

\* The record is read first, without any lock.  answer = "view" marks the
\* second read of a call, whose result is final.
View(p) ==
    /\ pc[p] = "view"
    /\ \/ record.state = "absent" /\ Respond(p, "not_found") /\ UNCHANGED copy
       \/ /\ record.state # "absent"
          /\ copy' = [copy EXCEPT ![p] = record]
          /\ Goto(p, "probe")
          /\ UNCHANGED answer
    /\ UNCHANGED <<jobVars, call, observed, expected, retries, stop, live, faults, won>>

\* Then the owner lock is probed with a shared lock, held for an instant.
Probe(p) ==
    /\ pc[p] = "probe"
    /\ live' = [live EXCEPT ![p] = owner # NoProc]
    /\ probes' = IF owner = NoProc THEN probes \cup {p} ELSE probes
    /\ Goto(p, "probed")
    /\ UNCHANGED <<record, owner, chain, call, copy, observed, expected, retries,
                   stop, answer, faults, won>>

Probed(p) ==
    /\ pc[p] = "probed"
    /\ probes' = probes \ {p}
    /\ \/ /\ \/ answer[p] = "view" \/ live[p] \/ ~claims_an_owner(copy[p].state)
          /\ Respond(p, "view")
       \/ /\ answer[p] # "view" /\ ~live[p] /\ claims_an_owner(copy[p].state)
          /\ Goto(p, "own")
          /\ UNCHANGED answer
    /\ UNCHANGED <<record, owner, chain, call, copy, observed, expected, retries,
                   stop, live, faults, won>>

\* The status call reconciled the job: it lets go of it and reads it again.
StatusOwned(p) ==
    /\ pc[p] = "opened" /\ call[p] = "status"
    /\ owner' = NoProc
    /\ answer' = [answer EXCEPT ![p] = "view"]
    /\ Goto(p, "view")
    /\ UNCHANGED <<record, probes, chain, call, copy, observed, expected, retries,
                   stop, live, faults, won>>

-----------------------------------------------------------------------------
\* The process ends: nothing of its memory is left.
Forget(p) ==
    /\ Goto(p, "idle")
    /\ call' = [call EXCEPT ![p] = "run"]
    /\ copy' = [copy EXCEPT ![p] = Absent]
    /\ observed' = [observed EXCEPT ![p] = 0]
    /\ expected' = [expected EXCEPT ![p] = 0]
    /\ retries' = [retries EXCEPT ![p] = 0]
    /\ stop' = [stop EXCEPT ![p] = NoStop]
    /\ live' = [live EXCEPT ![p] = FALSE]
    /\ answer' = [answer EXCEPT ![p] = "none"]

\* The call returns: its locks are released and its caller has the answer.
Return(p) ==
    /\ pc[p] = "return"
    /\ owner' = IF owner = p THEN NoProc ELSE owner
    /\ won' = IF answer[p] \in {"cancelled", "requested"}
                THEN won \cup {copy[p].epoch} ELSE won
    /\ Forget(p)
    /\ UNCHANGED <<record, probes, chain, faults>>

\* The process dies; the operating system frees its locks.
Crash(p) ==
    /\ pc[p] # "idle"
    /\ owner' = IF owner = p THEN NoProc ELSE owner
    /\ probes' = probes \ {p}
    /\ Forget(p)
    /\ UNCHANGED <<record, chain, faults, won>>

\* Another operation of the session commits a generation.
OtherCommit ==
    /\ Generation < MaxGeneration
    /\ chain' = Append(chain, Other)
    /\ UNCHANGED <<record, owner, probes, procVars, faults, won>>

Init ==
    /\ record = Absent
    /\ owner = NoProc
    /\ probes = {}
    /\ chain = <<>>
    /\ pc = [p \in Procs |-> "idle"]
    /\ call = [p \in Procs |-> "run"]
    /\ copy = [p \in Procs |-> Absent]
    /\ observed = [p \in Procs |-> 0]
    /\ expected = [p \in Procs |-> 0]
    /\ retries = [p \in Procs |-> 0]
    /\ stop = [p \in Procs |-> NoStop]
    /\ live = [p \in Procs |-> FALSE]
    /\ answer = [p \in Procs |-> "none"]
    /\ faults = MaxFaults
    /\ won = {}

\* A step a process takes by itself once it was called.
Step(p) ==
    \/ TakeOwnerLock(p) \/ ReadRecord(p) \/ Reconcile(p)
    \/ Opened(p) \/ Bind(p) \/ Start(p) \/ Work(p)
    \/ RecordCommitting(p) \/ Refused(p) \/ CancelWon(p)
    \/ Publish(p) \/ Ledger(p) \/ ReadHead(p) \/ Succeed(p)
    \/ Settle(p) \/ SettleCancel(p) \/ SettleEnd(p)
    \/ RequestCancel(p) \/ CancelOwned(p)
    \/ View(p) \/ Probe(p) \/ Probed(p) \/ StatusOwned(p)
    \/ Return(p)

Next ==
    \/ \E p \in Procs : Begin(p) \/ Step(p) \/ Crash(p)
    \/ OtherCommit

Spec == Init /\ [][Next]_vars

\* A called process keeps running until it answers or dies.
FairSpec == Spec /\ \A p \in Procs : WF_vars(Step(p))

-----------------------------------------------------------------------------
(* Properties                                                              *)

\* Types of the record, the locks, the chain and the processes; in particular no
\* epoch goes past the u32 bound and no attempt past MAX_JOB_ATTEMPTS.
TypeOK ==
    /\ record \in JobRecord
    /\ owner \in Procs \cup {NoProc}
    /\ probes \in SUBSET Procs
    /\ chain \in Seq(Operation)
    /\ pc \in [Procs -> Pc]
    /\ call \in [Procs -> {"run", "cancel", "status"}]
    /\ copy \in [Procs -> JobRecord]
    /\ observed \in [Procs -> Nat]
    /\ expected \in [Procs -> Nat]
    /\ retries \in [Procs -> Nat]
    /\ stop \in [Procs -> Stop]
    /\ live \in [Procs -> BOOLEAN]
    /\ answer \in [Procs -> Answer]
    /\ faults \in Nat
    /\ won \in SUBSET (0..MaxEpoch)

\* Exactly-once commit: over all attempts, epochs, crashes and retries the job
\* commits at most one generation.
CommitsAtMostOnce ==
    \A g, h \in 1..Generation : IsOurs(chain[g]) /\ IsOurs(chain[h]) => g = h

\* A cancel that wins leaves no generation: once a caller was told that the
\* job is cancelled, or that its owner was asked to stop, no attempt of that
\* epoch is in the chain, then or later.
CancelLeavesNoGeneration ==
    \A g \in 1..Generation : IsOurs(chain[g]) => chain[g].epoch \notin won

\* A record in any state but committing and succeeded says that nothing was
\* committed; a succeeded record names the generation that was, the one after
\* the generation it recorded as expected.
RecordAgreesWithChain ==
    /\ record.state \notin {"committing", "succeeded"} => ~Landed
    /\ record.state = "succeeded" =>
           /\ record.commit.observed + 1 \in 1..Generation
           /\ chain[record.commit.observed + 1] = record.commit.op
           /\ IsOurs(record.commit.op)

\* What a call answers is true when it answers: a run that reports a commit or
\* replays one, and a cancel that came too late for a succeeded job, have the
\* job's generation in the chain; a call that reports the job cancelled, and a
\* status that reports it succeeded, agree with the chain too.
AnswersAreTrue ==
    \A p \in Procs : pc[p] = "return" =>
        /\ answer[p] \in {"committed", "replayed"} => Landed
        /\ answer[p] = "too_late" /\ copy[p].state = "succeeded" => Landed
        /\ answer[p] \in {"cancelled", "requested"} =>
               \A g \in 1..Generation : chain[g].attempt # 0 => chain[g].epoch # copy[p].epoch
        /\ answer[p] = "view" /\ copy[p].state = "succeeded" => Landed

\* job_status never reports a landed commit as interrupted.
StatusSeesLandedCommit ==
    \A p \in Procs :
        pc[p] = "return" /\ answer[p] = "view" /\ Landed =>
            effective_state(copy[p], live[p]) # "interrupted"

\* The record never goes back: its epoch and attempt only advance, a job that
\* succeeded never changes again, and one that ended otherwise leaves that
\* state only for a new epoch.
NeverGoesBack ==
    [][/\ \/ record'.epoch > record.epoch
          \/ record'.epoch = record.epoch /\ record'.attempt >= record.attempt
       /\ record.state = "succeeded" => record' = record
       /\ is_terminal(record.state) /\ record' # record => record'.epoch > record.epoch
      ]_record

\* Only the owner's own attempt reaches the chain: when a generation of the
\* job is committed its record says committing, with exactly that operation
\* following exactly that generation.
CommitsAreAnnounced ==
    [][\A g \in Generation + 1 .. Len(chain') : IsOurs(chain'[g]) =>
           /\ record.state = "committing"
           /\ record.commit = JobCommit(chain'[g], Generation)]_chain

\* Whoever takes a job lets go of it: contention retries are bounded.
OwnerLetsGo == \A p \in Procs : owner = p ~> owner # p

\* The domain's reading of Committing -> Interrupted: it is taken only after
\* recovery found that the commit did not land.
InterruptedMeansNotLanded == record.state = "interrupted" => ~Landed

\* The job implements JobOutcome: in every epoch it either commits, is
\* cancelled or fails, a commit is final, and a cancellation, from the moment
\* it is recorded, excludes a commit of that epoch.
OutcomeOf ==
    CASE Landed -> "committed"
      [] ~Landed /\ record.state \in {"cancelling", "cancelled"} -> "cancelled"
      [] ~Landed /\ record.state = "failed" -> "failed"
      [] OTHER -> "open"

Outcome == INSTANCE JobOutcome WITH epoch <- record.epoch, outcome <- OutcomeOf

ImplementsOutcome == Outcome!Spec

-----------------------------------------------------------------------------
(* The inductive invariant behind the safety properties, for a ledger that *)
(* can be read (LedgerMayFail = FALSE).                                    *)

\* Places where a process holds owner.lock for certain.
Owning == {"read", "reconcile", "opened", "bind", "start", "work", "record",
           "refused", "publish", "ledger", "head", "succeed", "cancel_won", "settle",
           "settle_cancel", "settle_end"}

Ownership == \A p \in Procs : pc[p] \in Owning => owner = p

\* What the record knows of the chain: the job's generation, if there is one,
\* is the one the record announced, and a succeeded record's is there.
RecordKnowsCommit ==
    /\ \A g \in 1..Generation : IsOurs(chain[g]) =>
           /\ record.state \in {"committing", "succeeded"}
           /\ g = record.commit.observed + 1
           /\ chain[g] = record.commit.op
    /\ record.state = "succeeded" => Landed

RecordShape ==
    /\ record.state \in {"running", "committing", "succeeded"} => record.attempt # 0
    /\ record.state \in {"committing", "succeeded"} =>
           /\ record.commit.op = commit_operation_id(record.epoch, record.attempt)
           /\ record.commit.observed \in Nat
    /\ record.state = "absent" => record = Absent

\* The owner's copy is the record, or the record before a cancel request.
CopyIsCurrent(p) ==
    \/ copy[p] = record
    \/ copy[p].state \in {"queued", "running"} /\ record = CancelRequested(copy[p])

\* From publish to the answer the stored record announces this commit.
AnnouncedBy(p) ==
    /\ record.state = "committing"
    /\ copy[p] = record
    /\ record.commit = JobCommit(OperationOf(p), expected[p])

OwnerKnows(p) ==
    /\ pc[p] \in {"reconcile", "opened"} => CopyIsCurrent(p) /\ copy[p].state # "absent"
    /\ pc[p] = "opened" => ~claims_an_owner(copy[p].state)
    /\ pc[p] \in {"publish", "ledger", "head", "succeed"} => AnnouncedBy(p)
    /\ pc[p] \in {"work", "record", "refused", "publish", "head", "cancel_won",
                  "settle", "settle_cancel", "settle_end"} => ~Landed
    /\ pc[p] = "succeed" => Landed

\* A cancellation of epoch e was recorded: the epoch can no longer commit.
CancelRecorded(e) ==
    \/ e < record.epoch
    \/ e = record.epoch /\ record.state \in {"cancelling", "cancelled", "failed"}

CallerKnows(p) ==
    /\ pc[p] = "return" =>
          /\ answer[p] \in {"committed", "replayed"} => Landed
          /\ answer[p] \in {"cancelled", "requested"} => CancelRecorded(copy[p].epoch)
          /\ answer[p] \in {"too_late", "view"} /\ copy[p].state = "succeeded" => Landed
    /\ pc[p] \in {"probe", "probed"} /\ copy[p].state = "succeeded" => Landed

JobInv ==
    /\ Ownership
    /\ RecordKnowsCommit
    /\ RecordShape
    /\ \A p \in Procs : OwnerKnows(p) /\ CallerKnows(p)
    /\ \A e \in won : CancelRecorded(e)
=============================================================================
