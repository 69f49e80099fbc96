----------------------------- MODULE JobRecords -----------------------------
(***************************************************************************)
(* The record of one recoverable job (job.json) and every change an owner  *)
(* or a canceller may apply to it: the state graph of vsift-domain         *)
(* (JobState::transition_to) and the single place where the effect of a    *)
(* change is defined, vsift-application's JobRecord::changed.              *)
(*                                                                         *)
(* A change is a pair of operators: CanX(r), whether the stored record r   *)
(* admits it, and Xed(r), the record it leaves.  Keys, timestamps and      *)
(* operation ids of the record are not used by any change and are left     *)
(* out; the binding of operation ids is a component of its own.            *)
(***************************************************************************)
EXTENDS Integers, Sequences, FiniteSets

CONSTANTS
    MAX_JOB_ATTEMPTS,   \* attempts one epoch of a job may start (16)
    POISON_THRESHOLD,   \* identical failures at a chunk that end a job (3)
    MaxEpoch,           \* largest epoch: the u32 bound of checked_add
    Chunks              \* chunk indexes a failure may name

ASSUME AttemptsAssumption == MAX_JOB_ATTEMPTS \in Nat \ {0}
ASSUME PoisonAssumption   == POISON_THRESHOLD \in Nat \ {0}
ASSUME EpochAssumption    == MaxEpoch \in Nat
ASSUME ChunksAssumption   == Chunks \subseteq Nat

JobState == {"queued", "running", "committing", "interrupted",
             "cancelling", "succeeded", "failed", "cancelled"}

is_terminal(s) == s \in {"succeeded", "failed", "cancelled"}

\* A record in one of these states names a process that may still own the job.
claims_an_owner(s) == s \in {"running", "committing", "cancelling"}

Transitions ==
    ({"queued"}      \X {"running", "cancelling", "cancelled"})
        \cup ({"running"}     \X {"committing", "interrupted", "cancelling", "failed"})
        \cup ({"committing"}  \X {"succeeded", "failed", "interrupted"})
        \cup ({"interrupted"} \X {"running", "cancelled"})
        \cup ({"cancelling"}  \X {"cancelled", "failed"})

transition_to(s, t) == <<s, t>> \in Transitions

-----------------------------------------------------------------------------
(* Failures an attempt records: the chunk it stopped at, if any, and a     *)
(* public code.  Codes matter only as far as the retry policy and the      *)
(* poison rule tell them apart.                                            *)

NoChunk == -1
FailureCode == {"busy", "cancelled", "resumable", "permanent"}
AttemptFailure == [chunk : Chunks \cup {NoChunk}, code : FailureCode]

MAX_RECORDED_FAILURES == MAX_JOB_ATTEMPTS

push_failure(failures, failure) ==
    IF Len(failures) >= MAX_RECORDED_FAILURES
      THEN Append(Tail(failures), failure)
      ELSE Append(failures, failure)

\* Some chunk failed POISON_THRESHOLD times with the same code; neither
\* cancellations nor failures outside a chunk count.
poisoned_chunk(failures) ==
    \E i \in 1..Len(failures) :
        /\ failures[i].chunk # NoChunk
        /\ failures[i].code # "cancelled"
        /\ Cardinality({j \in 1..Len(failures) : failures[j] = failures[i]})
               >= POISON_THRESHOLD

-----------------------------------------------------------------------------
(* The publication a committing record announces: the operation id, which  *)
(* is a function of the epoch and the attempt alone, and the generation    *)
(* the commit expects to follow.  Attempt 0 never commits, so the same     *)
(* type serves for operations that are not this job's commits.             *)

Operation == [epoch : 0..MaxEpoch, attempt : 0..MAX_JOB_ATTEMPTS]

commit_operation_id(epoch, attempt) == [epoch |-> epoch, attempt |-> attempt]

NoCommit == [op |-> commit_operation_id(0, 0), observed |-> -1]

JobCommit(op, observed) == [op |-> op, observed |-> observed]

\* "absent": the job directory holds no record yet (read_record finds none).
JobRecord ==
    [state    : JobState \cup {"absent"},
     epoch    : 0..MaxEpoch,
     attempt  : 0..MAX_JOB_ATTEMPTS,
     failures : Seq(AttemptFailure),
     commit   : [op : Operation, observed : Int]]

Queued ==
    [state |-> "queued", epoch |-> 0, attempt |-> 0,
     failures |-> <<>>, commit |-> NoCommit]

Absent == [Queued EXCEPT !.state = "absent"]

-----------------------------------------------------------------------------
(* JobRecord::changed, change by change.                                   *)

\* Faulty variants, for checking that the properties notice them.
CanCommitWhileCancelling(r) == r.state \in {"running", "committing", "cancelling"}
CommittingAnnouncesOnce(r, commit) ==
    [r EXCEPT !.state = "committing",
              !.commit = IF r.state = "committing" THEN r.commit ELSE commit]
CanRestartWithoutBound(r) == r.state \in {"failed", "cancelled"}
RestartedInPlace(r) ==
    [r EXCEPT !.state = "queued", !.attempt = 0, !.failures = <<>>, !.commit = NoCommit]

CanStart(r) ==
    /\ transition_to(r.state, "running")
    /\ r.attempt < MAX_JOB_ATTEMPTS
Started(r) ==
    [r EXCEPT !.state = "running", !.attempt = @ + 1, !.commit = NoCommit]

CanCommit(r) == r.state = "committing" \/ transition_to(r.state, "committing")
Committing(r, commit) == [r EXCEPT !.state = "committing", !.commit = commit]

CanSucceed(r) == transition_to(r.state, "succeeded")
Succeeded(r)  == [r EXCEPT !.state = "succeeded"]

\* Interrupt and Fail carry the failure of the attempt, or none: recovery
\* ends an attempt whose owner is gone without one.
WithFailures(r, failures) ==
    IF failures = <<>> THEN r.failures ELSE push_failure(r.failures, failures[1])

CanInterrupt(r) == transition_to(r.state, "interrupted")
Interrupted(r, failures) ==
    [r EXCEPT !.state = "interrupted", !.commit = NoCommit,
              !.failures = WithFailures(r, failures)]

CanFail(r) == transition_to(r.state, "failed")
Failed(r, failures) ==
    [r EXCEPT !.state = "failed", !.commit = NoCommit,
              !.failures = WithFailures(r, failures)]

CanRequestCancel(r) == transition_to(r.state, "cancelling")
CancelRequested(r)  == [r EXCEPT !.state = "cancelling"]

CanCancel(r) == transition_to(r.state, "cancelled")
Cancelled(r) == [r EXCEPT !.state = "cancelled", !.commit = NoCommit]

CanRestart(r) == r.state \in {"failed", "cancelled"} /\ r.epoch < MaxEpoch
Restarted(r) ==
    [r EXCEPT !.state = "queued", !.epoch = @ + 1, !.attempt = 0,
              !.failures = <<>>, !.commit = NoCommit]

\* end_interrupted's choice: no attempt is left, or a chunk is poisoned.
exhausted(r) == r.attempt >= MAX_JOB_ATTEMPTS \/ poisoned_chunk(r.failures)

\* What a reader calls the state of a record whose owner may be gone.
effective_state(r, live) ==
    IF claims_an_owner(r.state) /\ ~live THEN "interrupted" ELSE r.state
=============================================================================
