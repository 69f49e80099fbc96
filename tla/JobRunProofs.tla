---------------------------- MODULE JobRunProofs ----------------------------
(***************************************************************************)
(* Proofs about JobRun, for every number of processes, attempts, epochs,   *)
(* generations and storage failures.                                       *)
(***************************************************************************)
EXTENDS JobRun, TLAPS

USE AttemptsAssumption, PoisonAssumption, EpochAssumption, ChunksAssumption

-----------------------------------------------------------------------------
(* What the record changes of JobRecords preserve.                         *)

\* A failure pushed on a list of failures leaves a list of failures.
LEMMA PushFailureType ==
    ASSUME NEW fs \in Seq(AttemptFailure), NEW f \in AttemptFailure
    PROVE  push_failure(fs, f) \in Seq(AttemptFailure)
  BY DEF push_failure, MAX_RECORDED_FAILURES

\* The record of an attempt that has announced nothing is well typed.
LEMMA NoCommitType == NoCommit \in [op : Operation, observed : Int]
  BY DEF NoCommit, Operation, commit_operation_id

\* A fresh record and the missing record are well typed.
LEMMA QueuedType == Queued \in JobRecord /\ Absent \in JobRecord
  <1>1. /\ 0 \in 0..MaxEpoch
        /\ 0 \in 0..MAX_JOB_ATTEMPTS
        /\ <<>> \in Seq(AttemptFailure)
    OBVIOUS
  <1>2. Queued \in JobRecord
    BY <1>1, NoCommitType DEF Queued, JobRecord, JobState
  <1>. QED
    BY <1>2 DEF Absent, JobRecord

\* Starting an attempt that the record admits leaves a well-typed record:
\* the attempt stays within MAX_JOB_ATTEMPTS.
LEMMA StartedType ==
    ASSUME NEW r \in JobRecord, CanStart(r)
    PROVE  Started(r) \in JobRecord
  <1>1. r.attempt + 1 \in 0..MAX_JOB_ATTEMPTS
    BY DEF CanStart, JobRecord
  <1>. QED
    BY <1>1, NoCommitType DEF Started, JobRecord, JobState

\* Announcing a commit leaves a well-typed record.
LEMMA CommittingType ==
    ASSUME NEW r \in JobRecord, NEW c \in [op : Operation, observed : Int]
    PROVE  Committing(r, c) \in JobRecord
  BY DEF Committing, JobRecord, JobState

\* Every change that ends an attempt leaves a well-typed record.
LEMMA EndedType ==
    ASSUME NEW r \in JobRecord, NEW f \in AttemptFailure
    PROVE  /\ Succeeded(r) \in JobRecord
           /\ CancelRequested(r) \in JobRecord
           /\ Cancelled(r) \in JobRecord
           /\ Interrupted(r, <<>>) \in JobRecord
           /\ Failed(r, <<>>) \in JobRecord
           /\ Interrupted(r, <<f>>) \in JobRecord
           /\ Failed(r, <<f>>) \in JobRecord
  <1>1. /\ WithFailures(r, <<>>) \in Seq(AttemptFailure)
        /\ WithFailures(r, <<f>>) \in Seq(AttemptFailure)
    BY PushFailureType DEF WithFailures, JobRecord
  <1>. QED
    BY <1>1, NoCommitType
       DEF Succeeded, CancelRequested, Cancelled, Interrupted, Failed, JobRecord, JobState

\* A restart that the record admits leaves a well-typed record: the epoch
\* stays within its width.
LEMMA RestartedType ==
    ASSUME NEW r \in JobRecord, CanRestart(r)
    PROVE  Restarted(r) \in JobRecord
  <1>1. /\ r.epoch + 1 \in 0..MaxEpoch
        /\ 0 \in 0..MAX_JOB_ATTEMPTS
        /\ <<>> \in Seq(AttemptFailure)
    BY DEF CanRestart, JobRecord
  <1>. QED
    BY <1>1, NoCommitType DEF Restarted, JobRecord, JobState
-----------------------------------------------------------------------------

\* The failures the run itself makes up are attempt failures.
LEMMA StopType ==
    /\ NoStop \in Stop /\ Superseded \in Stop /\ StorageStops \subseteq Stop
    /\ \A code \in FailureCode : Failure(code) \in Stop
    /\ {"busy", "cancelled", "resumable", "permanent"} \subseteq FailureCode
  BY DEF NoStop, StorageStops, Superseded, Failure, Stop, StopKind, FailureCode, NoChunk

\* What an attempt records of its failure is a failure.
LEMMA FailureType == \A s \in Stop : AttemptFailureOf(s) \in AttemptFailure
  BY DEF AttemptFailureOf, Stop, AttemptFailure

\* The changes settle_failure and end_interrupted apply are well typed.
LEMMA SettledType ==
    ASSUME NEW r \in JobRecord
    PROVE  /\ Succeeded(r) \in JobRecord
           /\ CancelRequested(r) \in JobRecord
           /\ Cancelled(r) \in JobRecord
           /\ Interrupted(r, <<>>) \in JobRecord
           /\ Failed(r, <<>>) \in JobRecord
  BY EndedType, FailureType, StopType

\* Generations of other operations are well typed.
LEMMA OtherType == Other \in Operation
  BY DEF Other, Operation, commit_operation_id

\* The commit operation of an owner is well typed.
LEMMA OperationType ==
    ASSUME TypeOK, NEW p \in Procs
    PROVE  OperationOf(p) \in Operation
  BY DEF TypeOK, OperationOf, commit_operation_id, JobRecord, Operation

\* The publication an owner announces is well typed.
LEMMA CommitType ==
    ASSUME TypeOK, NEW p \in Procs
    PROVE  JobCommit(OperationOf(p), expected[p]) \in [op : Operation, observed : Int]
  BY OperationType DEF TypeOK, JobCommit

\* The number of the committed head is a natural number.
LEMMA ChainType == TypeOK => Generation \in Nat
  BY DEF TypeOK, Generation

\* Every process's copy of the record has an epoch of the job.
LEMMA EpochType == TypeOK => \A p \in Procs : copy[p].epoch \in 0..MaxEpoch
  BY DEF TypeOK, JobRecord

\* The initial state is well typed.
LEMMA TypeInit == Init => TypeOK
  BY QueuedType, FaultsAssumption, StopType DEF Init, TypeOK, Pc, Answer

\* A process that ends leaves well-typed process state behind.
LEMMA ForgetType ==
    ASSUME TypeOK, NEW p \in Procs, Forget(p)
    PROVE  /\ pc' \in [Procs -> Pc] /\ call' \in [Procs -> {"run", "cancel", "status"}]
           /\ copy' \in [Procs -> JobRecord]
           /\ observed' \in [Procs -> Nat] /\ expected' \in [Procs -> Nat]
           /\ retries' \in [Procs -> Nat] /\ stop' \in [Procs -> Stop]
           /\ live' \in [Procs -> BOOLEAN] /\ answer' \in [Procs -> Answer]
  <1>1. pc' \in [Procs -> Pc] /\ answer' \in [Procs -> Answer]
    BY DEF TypeOK, Forget, Goto, Pc, Answer
  <1>2. copy' \in [Procs -> JobRecord] /\ stop' \in [Procs -> Stop]
    BY QueuedType, StopType DEF TypeOK, Forget
  <1>. QED
    BY <1>1, <1>2 DEF TypeOK, Forget

\* Every step, action by action, keeps the state well typed.
LEMMA TypeStep == TypeOK /\ [Next]_vars => TypeOK'
  <1>. SUFFICES ASSUME TypeOK, [Next]_vars PROVE TypeOK'
    OBVIOUS
  <1>1. ASSUME NEW p \in Procs, Begin(p) PROVE TypeOK'
    <2>1. pc' \in [Procs -> Pc]
      BY <1>1 DEF TypeOK, Begin, Pc, Goto
    <2>2. call' \in [Procs -> {"run", "cancel", "status"}]
      BY <1>1, CallsAssumption DEF TypeOK, Begin
    <2>3. observed' \in [Procs -> Nat]
      BY <1>1, ChainType DEF TypeOK, Begin
    <2>4. retries' \in [Procs -> Nat]
      BY <1>1 DEF TypeOK, Begin
    <2>. QED
      BY <1>1, <2>1, <2>2, <2>3, <2>4 DEF TypeOK, Begin, jobVars
  <1>2. ASSUME NEW p \in Procs, TakeOwnerLock(p) PROVE TypeOK'
    <2>1. owner' \in Procs \cup {NoProc}
      BY <1>2 DEF TypeOK, TakeOwnerLock
    <2>2. pc' \in [Procs -> Pc]
      <3>1. \E place \in {"read", "view", "return"} : pc' = [pc EXCEPT ![p] = place]
        BY <1>2 DEF TakeOwnerLock, Goto, Respond
      <3>. QED
        BY <3>1 DEF TypeOK, Pc
    <2>3. answer' \in [Procs -> Answer]
      BY <1>2 DEF TypeOK, TakeOwnerLock, Answer, Respond
    <2>. QED
      BY <1>2, <2>1, <2>2, <2>3 DEF TypeOK, TakeOwnerLock, jobVars
  <1>3. ASSUME NEW p \in Procs, ReadRecord(p) PROVE TypeOK'
    <2>1. record' \in JobRecord
      BY <1>3, QueuedType DEF TypeOK, ReadRecord
    <2>2. copy' \in [Procs -> JobRecord]
      BY <1>3, QueuedType DEF TypeOK, ReadRecord
    <2>3. pc' \in [Procs -> Pc]
      <3>1. \E place \in {"reconcile", "return"} : pc' = [pc EXCEPT ![p] = place]
        BY <1>3 DEF ReadRecord, Goto, Respond
      <3>. QED
        BY <3>1 DEF TypeOK, Pc
    <2>4. answer' \in [Procs -> Answer]
      BY <1>3 DEF TypeOK, ReadRecord, Answer, Respond
    <2>5. faults' \in Nat
      BY <1>3 DEF TypeOK, ReadRecord
    <2>. QED
      BY <1>3, <2>1, <2>2, <2>3, <2>4, <2>5 DEF TypeOK, ReadRecord, jobVars
  <1>4. ASSUME NEW p \in Procs, Reconcile(p) PROVE TypeOK'
    <2>1. record' \in JobRecord
      BY <1>4, SettledType DEF TypeOK, Reconcile, Applied, NotApplied
    <2>2. copy' \in [Procs -> JobRecord]
      BY <1>4, SettledType DEF TypeOK, Reconcile, Applied, NotApplied
    <2>3. pc' \in [Procs -> Pc]
      <3>1. \E place \in {"opened", "return"} : pc' = [pc EXCEPT ![p] = place]
        BY <1>4 DEF Reconcile, Goto, Respond
      <3>. QED
        BY <3>1 DEF TypeOK, Pc
    <2>4. answer' \in [Procs -> Answer]
      BY <1>4 DEF TypeOK, Reconcile, Answer, Respond
    <2>5. faults' \in Nat
      BY <1>4 DEF TypeOK, Reconcile, Applied, NotApplied
    <2>. QED
      BY <1>4, <2>1, <2>2, <2>3, <2>4, <2>5 DEF TypeOK, Reconcile, jobVars
  <1>5. ASSUME NEW p \in Procs, Opened(p) PROVE TypeOK'
    <2>1. record' \in JobRecord
      BY <1>5, RestartedType DEF TypeOK, Opened, Applied, NotApplied
    <2>2. copy' \in [Procs -> JobRecord]
      BY <1>5, RestartedType DEF TypeOK, Opened, Applied, NotApplied
    <2>3. pc' \in [Procs -> Pc]
      <3>1. \E place \in {"bind", "return"} : pc' = [pc EXCEPT ![p] = place]
        BY <1>5 DEF Opened, Goto, Respond
      <3>. QED
        BY <3>1 DEF TypeOK, Pc
    <2>4. answer' \in [Procs -> Answer]
      BY <1>5 DEF TypeOK, Opened, Answer, Respond
    <2>5. faults' \in Nat
      BY <1>5 DEF TypeOK, Opened, Applied, NotApplied
    <2>. QED
      BY <1>5, <2>1, <2>2, <2>3, <2>4, <2>5 DEF TypeOK, Opened, jobVars
  <1>6. ASSUME NEW p \in Procs, Bind(p) PROVE TypeOK'
    <2>1. copy' \in [Procs -> JobRecord]
      BY <1>6 DEF TypeOK, Bind
    <2>2. pc' \in [Procs -> Pc]
      <3>1. \E place \in {"start", "return"} : pc' = [pc EXCEPT ![p] = place]
        BY <1>6 DEF Bind, Goto, Respond
      <3>. QED
        BY <3>1 DEF TypeOK, Pc
    <2>3. answer' \in [Procs -> Answer]
      BY <1>6 DEF TypeOK, Bind, Answer, Respond
    <2>4. faults' \in Nat
      BY <1>6 DEF TypeOK, Bind
    <2>. QED
      BY <1>6, <2>1, <2>2, <2>3, <2>4 DEF TypeOK, Bind, jobVars
  <1>7. ASSUME NEW p \in Procs, Start(p) PROVE TypeOK'
    <2>1. record' \in JobRecord
      BY <1>7, StartedType DEF TypeOK, Start, Applied, NotApplied
    <2>2. copy' \in [Procs -> JobRecord]
      BY <1>7, StartedType DEF TypeOK, Start, Applied, NotApplied
    <2>3. expected' \in [Procs -> Nat]
      BY <1>7 DEF TypeOK, Start
    <2>4. stop' \in [Procs -> Stop]
      BY <1>7, StopType DEF TypeOK, Start
    <2>5. pc' \in [Procs -> Pc]
      <3>1. \E place \in {"work", "return"} : pc' = [pc EXCEPT ![p] = place]
        BY <1>7 DEF Start, Goto, Respond
      <3>. QED
        BY <3>1 DEF TypeOK, Pc
    <2>6. answer' \in [Procs -> Answer]
      BY <1>7 DEF TypeOK, Start, Answer, Respond
    <2>7. faults' \in Nat
      BY <1>7 DEF TypeOK, Start, Applied, NotApplied
    <2>. QED
      BY <1>7, <2>1, <2>2, <2>3, <2>4, <2>5, <2>6, <2>7 DEF TypeOK, Start, jobVars
  <1>8. ASSUME NEW p \in Procs, Work(p) PROVE TypeOK'
    <2>1. expected' \in [Procs -> Nat]
      BY <1>8 DEF TypeOK, Work
    <2>2. stop' \in [Procs -> Stop]
      BY <1>8, StopsAssumption DEF TypeOK, Work
    <2>3. pc' \in [Procs -> Pc]
      BY <1>8 DEF TypeOK, Work, Pc, Goto
    <2>. QED
      BY <1>8, <2>1, <2>2, <2>3 DEF TypeOK, Work, jobVars
  <1>9. ASSUME NEW p \in Procs, RecordCommitting(p) PROVE TypeOK'
    <2>0. Committing(record, JobCommit(OperationOf(p), expected[p])) \in JobRecord
      BY CommittingType, CommitType DEF TypeOK
    <2>1. record' \in JobRecord
      BY <1>9, <2>0 DEF TypeOK, RecordCommitting, Applied, NotApplied
    <2>2. copy' \in [Procs -> JobRecord]
      BY <1>9, <2>0 DEF TypeOK, RecordCommitting, Applied, NotApplied
    <2>3. pc' \in [Procs -> Pc]
      BY <1>9 DEF TypeOK, RecordCommitting, Pc, Goto
    <2>4. faults' \in Nat
      BY <1>9 DEF TypeOK, RecordCommitting, Applied, NotApplied
    <2>. QED
      BY <1>9, <2>1, <2>2, <2>3, <2>4 DEF TypeOK, RecordCommitting, jobVars
  <1>10. ASSUME NEW p \in Procs, Refused(p) PROVE TypeOK'
    <2>1. stop' \in [Procs -> Stop]
      BY <1>10, StopType DEF TypeOK, Refused
    <2>2. pc' \in [Procs -> Pc]
      BY <1>10 DEF TypeOK, Refused, Pc, Goto
    <2>3. faults' \in Nat
      BY <1>10 DEF TypeOK, Refused, SeesCancel, SeesNoCancel
    <2>. QED
      BY <1>10, <2>1, <2>2, <2>3 DEF TypeOK, Refused, jobVars
  <1>11. ASSUME NEW p \in Procs, CancelWon(p) PROVE TypeOK'
    <2>1. record' \in JobRecord
      BY <1>11, SettledType DEF TypeOK, CancelWon, Applied, NotApplied
    <2>2. copy' \in [Procs -> JobRecord]
      BY <1>11, SettledType DEF TypeOK, CancelWon, Applied, NotApplied
    <2>3. stop' \in [Procs -> Stop]
      BY <1>11, StopType DEF TypeOK, CancelWon
    <2>4. pc' \in [Procs -> Pc]
      BY <1>11 DEF TypeOK, CancelWon, Pc, Goto, Respond
    <2>5. answer' \in [Procs -> Answer]
      BY <1>11 DEF TypeOK, CancelWon, Answer, Respond
    <2>6. faults' \in Nat
      BY <1>11 DEF TypeOK, CancelWon, Applied, NotApplied
    <2>. QED
      BY <1>11, <2>1, <2>2, <2>3, <2>4, <2>5, <2>6 DEF TypeOK, CancelWon, jobVars
  <1>12. ASSUME NEW p \in Procs, Publish(p) PROVE TypeOK'
    <2>1. chain' \in Seq(Operation)
      <3>1. chain' = chain \/ chain' = Append(chain, OperationOf(p))
        BY <1>12 DEF Publish
      <3>. QED
        <4>1. chain \in Seq(Operation) /\ OperationOf(p) \in Operation
          BY OperationType DEF TypeOK
        <4>. QED
          BY <3>1, <4>1
    <2>2. stop' \in [Procs -> Stop]
      BY <1>12, StopType DEF TypeOK, Publish
    <2>3. pc' \in [Procs -> Pc]
      BY <1>12 DEF TypeOK, Publish, Pc, Goto
    <2>4. faults' \in Nat
      BY <1>12 DEF TypeOK, Publish
    <2>. QED
      BY <1>12, <2>1, <2>2, <2>3, <2>4 DEF TypeOK, Publish, jobVars
  <1>13. ASSUME NEW p \in Procs, Ledger(p) PROVE TypeOK'
    <2>1. retries' \in [Procs -> Nat]
      BY <1>13 DEF TypeOK, Ledger, UseRetry
    <2>2. pc' \in [Procs -> Pc]
      BY <1>13 DEF TypeOK, Ledger, Pc, Goto
    <2>3. faults' \in Nat
      BY <1>13 DEF TypeOK, Ledger
    <2>. QED
      BY <1>13, <2>1, <2>2, <2>3 DEF TypeOK, Ledger, jobVars
  <1>14. ASSUME NEW p \in Procs, ReadHead(p) PROVE TypeOK'
    <2>1. expected' \in [Procs -> Nat]
      BY <1>14, ChainType DEF TypeOK, ReadHead
    <2>2. stop' \in [Procs -> Stop]
      BY <1>14, StopType DEF TypeOK, ReadHead
    <2>3. pc' \in [Procs -> Pc]
      BY <1>14 DEF TypeOK, ReadHead, Pc, Goto
    <2>4. faults' \in Nat
      BY <1>14 DEF TypeOK, ReadHead
    <2>. QED
      BY <1>14, <2>1, <2>2, <2>3, <2>4 DEF TypeOK, ReadHead, jobVars
  <1>15. ASSUME NEW p \in Procs, Succeed(p) PROVE TypeOK'
    <2>1. record' \in JobRecord
      BY <1>15, SettledType DEF TypeOK, Succeed, Applied, NotApplied
    <2>2. copy' \in [Procs -> JobRecord]
      BY <1>15, SettledType DEF TypeOK, Succeed, Applied, NotApplied
    <2>3. pc' \in [Procs -> Pc]
      BY <1>15 DEF TypeOK, Succeed, Pc, Goto, Respond
    <2>4. answer' \in [Procs -> Answer]
      BY <1>15 DEF TypeOK, Succeed, Answer, Respond
    <2>5. faults' \in Nat
      BY <1>15 DEF TypeOK, Succeed, Applied, NotApplied
    <2>. QED
      BY <1>15, <2>1, <2>2, <2>3, <2>4, <2>5 DEF TypeOK, Succeed, jobVars
  <1>16. ASSUME NEW p \in Procs, Settle(p) PROVE TypeOK'
    <2>1. pc' \in [Procs -> Pc]
      BY <1>16 DEF TypeOK, Settle, Pc, Goto
    <2>2. faults' \in Nat
      BY <1>16 DEF TypeOK, Settle, SeesCancel, SeesNoCancel
    <2>. QED
      BY <1>16, <2>1, <2>2 DEF TypeOK, Settle, jobVars
  <1>17. ASSUME NEW p \in Procs, SettleCancel(p) PROVE TypeOK'
    <2>1. record' \in JobRecord
      BY <1>17, SettledType DEF TypeOK, SettleCancel, Applied, NotApplied
    <2>2. copy' \in [Procs -> JobRecord]
      BY <1>17, SettledType DEF TypeOK, SettleCancel, Applied, NotApplied
    <2>3. pc' \in [Procs -> Pc]
      <3>1. \E place \in {"return"} : pc' = [pc EXCEPT ![p] = place]
        BY <1>17 DEF SettleCancel, Goto, Respond
      <3>. QED
        BY <3>1 DEF TypeOK, Pc
    <2>4. answer' \in [Procs -> Answer]
      BY <1>17 DEF TypeOK, SettleCancel, Answer, Respond
    <2>5. faults' \in Nat
      BY <1>17 DEF TypeOK, SettleCancel, Applied, NotApplied
    <2>. QED
      BY <1>17, <2>1, <2>2, <2>3, <2>4, <2>5 DEF TypeOK, SettleCancel, jobVars
  <1>18. ASSUME NEW p \in Procs, SettleEnd(p) PROVE TypeOK'
    <2>. DEFINE f == <<AttemptFailureOf(stop[p])>>
    <2>0. Failed(record, f) \in JobRecord /\ Interrupted(record, f) \in JobRecord
      BY EndedType, FailureType DEF TypeOK
    <2>1. record' \in JobRecord
      BY <1>18, <2>0 DEF TypeOK, SettleEnd, Applied, NotApplied
    <2>2. copy' \in [Procs -> JobRecord]
      BY <1>18, <2>0 DEF TypeOK, SettleEnd, Applied, NotApplied
    <2>3. retries' \in [Procs -> Nat]
      <3>1. retries' = retries \/ retries' = [retries EXCEPT ![p] = @ + 1]
        BY <1>18 DEF SettleEnd, UseRetry
      <3>2. retries \in [Procs -> Nat]
        BY DEF TypeOK
      <3>. QED
        BY <3>1, <3>2
    <2>4. pc' \in [Procs -> Pc]
      <3>1. \E place \in {"start", "return"} : pc' = [pc EXCEPT ![p] = place]
        BY <1>18 DEF SettleEnd, Goto, Respond
      <3>. QED
        BY <3>1 DEF TypeOK, Pc
    <2>5. answer' \in [Procs -> Answer]
      BY <1>18 DEF TypeOK, SettleEnd, Answer, Respond
    <2>6. faults' \in Nat
      BY <1>18 DEF TypeOK, SettleEnd, Applied, NotApplied
    <2>. QED
      BY <1>18, <2>1, <2>2, <2>3, <2>4, <2>5, <2>6 DEF TypeOK, SettleEnd, jobVars
  <1>19. ASSUME NEW p \in Procs, RequestCancel(p) PROVE TypeOK'
    <2>1. record' \in JobRecord
      BY <1>19, SettledType DEF TypeOK, RequestCancel
    <2>2. copy' \in [Procs -> JobRecord]
      BY <1>19 DEF TypeOK, RequestCancel
    <2>3. pc' \in [Procs -> Pc]
      <3>1. \E place \in {"own", "return"} : pc' = [pc EXCEPT ![p] = place]
        BY <1>19 DEF RequestCancel, Goto, Respond
      <3>. QED
        BY <3>1 DEF TypeOK, Pc
    <2>4. answer' \in [Procs -> Answer]
      BY <1>19 DEF TypeOK, RequestCancel, Answer, Respond, EndedAnswer
    <2>5. faults' \in Nat
      BY <1>19 DEF TypeOK, RequestCancel
    <2>. QED
      BY <1>19, <2>1, <2>2, <2>3, <2>4, <2>5 DEF TypeOK, RequestCancel, jobVars
  <1>20. ASSUME NEW p \in Procs, CancelOwned(p) PROVE TypeOK'
    <2>1. record' \in JobRecord
      BY <1>20, SettledType DEF TypeOK, CancelOwned, Applied, NotApplied
    <2>2. copy' \in [Procs -> JobRecord]
      BY <1>20, SettledType DEF TypeOK, CancelOwned, Applied, NotApplied
    <2>3. pc' \in [Procs -> Pc]
      <3>1. \E place \in {"return"} : pc' = [pc EXCEPT ![p] = place]
        BY <1>20 DEF CancelOwned, Goto, Respond
      <3>. QED
        BY <3>1 DEF TypeOK, Pc
    <2>4. answer' \in [Procs -> Answer]
      BY <1>20 DEF TypeOK, CancelOwned, Answer, Respond, EndedAnswer
    <2>5. faults' \in Nat
      BY <1>20 DEF TypeOK, CancelOwned, Applied, NotApplied
    <2>. QED
      BY <1>20, <2>1, <2>2, <2>3, <2>4, <2>5 DEF TypeOK, CancelOwned, jobVars
  <1>21. ASSUME NEW p \in Procs, View(p) PROVE TypeOK'
    <2>1. copy' \in [Procs -> JobRecord]
      BY <1>21 DEF TypeOK, View
    <2>2. pc' \in [Procs -> Pc]
      BY <1>21 DEF TypeOK, View, Pc, Goto, Respond
    <2>3. answer' \in [Procs -> Answer]
      BY <1>21 DEF TypeOK, View, Answer, Respond
    <2>. QED
      BY <1>21, <2>1, <2>2, <2>3 DEF TypeOK, View, jobVars
  <1>22. ASSUME NEW p \in Procs, Probe(p) PROVE TypeOK'
    <2>1. probes' \in SUBSET Procs
      BY <1>22 DEF TypeOK, Probe
    <2>2. live' \in [Procs -> BOOLEAN]
      BY <1>22 DEF TypeOK, Probe
    <2>3. pc' \in [Procs -> Pc]
      BY <1>22 DEF TypeOK, Probe, Pc, Goto
    <2>. QED
      BY <1>22, <2>1, <2>2, <2>3 DEF TypeOK, Probe, jobVars
  <1>23. ASSUME NEW p \in Procs, Probed(p) PROVE TypeOK'
    <2>1. probes' \in SUBSET Procs
      BY <1>23 DEF TypeOK, Probed
    <2>2. pc' \in [Procs -> Pc]
      <3>1. \E place \in {"own", "return"} : pc' = [pc EXCEPT ![p] = place]
        BY <1>23 DEF Probed, Goto, Respond
      <3>. QED
        BY <3>1 DEF TypeOK, Pc
    <2>3. answer' \in [Procs -> Answer]
      BY <1>23 DEF TypeOK, Probed, Answer, Respond
    <2>. QED
      BY <1>23, <2>1, <2>2, <2>3 DEF TypeOK, Probed, jobVars
  <1>24. ASSUME NEW p \in Procs, StatusOwned(p) PROVE TypeOK'
    <2>1. owner' \in Procs \cup {NoProc}
      BY <1>24 DEF TypeOK, StatusOwned
    <2>2. pc' \in [Procs -> Pc]
      BY <1>24 DEF TypeOK, StatusOwned, Pc, Goto
    <2>3. answer' \in [Procs -> Answer]
      BY <1>24 DEF TypeOK, StatusOwned, Answer
    <2>. QED
      BY <1>24, <2>1, <2>2, <2>3 DEF TypeOK, StatusOwned, jobVars
  <1>25. ASSUME NEW p \in Procs, Return(p) PROVE TypeOK'
    <2>1. owner' \in Procs \cup {NoProc}
      BY <1>25 DEF TypeOK, Return
    <2>2. won' \in SUBSET (0..MaxEpoch)
      BY <1>25, EpochType DEF TypeOK, Return
    <2>. QED
      BY <1>25, <2>1, <2>2, ForgetType DEF TypeOK, Return, jobVars
  <1>26. ASSUME NEW p \in Procs, Crash(p) PROVE TypeOK'
    <2>1. owner' \in Procs \cup {NoProc}
      BY <1>26 DEF TypeOK, Crash
    <2>2. probes' \in SUBSET Procs
      BY <1>26 DEF TypeOK, Crash
    <2>. QED
      BY <1>26, <2>1, <2>2, ForgetType DEF TypeOK, Crash, jobVars
  <1>27. CASE OtherCommit
    BY <1>27, OtherType DEF TypeOK, OtherCommit, procVars
  <1>28. CASE UNCHANGED vars
    BY <1>28 DEF TypeOK, vars, jobVars, procVars
  <1>. QED
    BY <1>1, <1>2, <1>3, <1>4, <1>5, <1>6, <1>7, <1>8, <1>9, <1>10, <1>11, <1>12, <1>13, <1>14, <1>15, <1>16, <1>17, <1>18, <1>19, <1>20, <1>21, <1>22, <1>23, <1>24, <1>25, <1>26, <1>27, <1>28 DEF Next, Step

\* Every reachable state of the job, its processes and the chain is well
\* typed; in particular no attempt and no epoch exceeds its bound.
THEOREM TypeCorrect == Spec => []TypeOK
  BY TypeInit, TypeStep, PTL DEF Spec
=============================================================================
