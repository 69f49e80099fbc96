-------------------------- MODULE JobSafetyProofs ---------------------------
(***************************************************************************)
(* The safety properties of JobRun: the invariants, from JobInv; the       *)
(* action properties, from the changes a step may make to the record and   *)
(* to the chain; and that JobRun implements JobOutcome.                    *)
(***************************************************************************)
EXTENDS JobInvProofs

-----------------------------------------------------------------------------
(* Invariants.                                                             *)

\* JobInv contains the safety properties.
LEMMA JobInvImplies ==
    ASSUME TypeOK, JobInv
    PROVE  /\ CommitsAtMostOnce
           /\ CancelLeavesNoGeneration
           /\ RecordAgreesWithChain
           /\ AnswersAreTrue
           /\ InterruptedMeansNotLanded
  <1>. DEFINE op == record.commit.op
  <1>1. \A g \in 1..Generation : IsOurs(chain[g]) =>
            /\ g = record.commit.observed + 1 /\ chain[g] = op
            /\ record.state \in {"committing", "succeeded"}
            /\ chain[g].epoch = record.epoch
    BY DEF JobInv, RecordKnowsCommit, RecordShape, commit_operation_id
  <1>2. ASSUME NEW e \in 0..MaxEpoch, CancelRecorded(e)
        PROVE  \A g \in 1..Generation : IsOurs(chain[g]) => chain[g].epoch # e
    <2>1. record.epoch \in 0..MaxEpoch
      BY DEF TypeOK, JobRecord
    <2>2. record.state \in {"committing", "succeeded"} => record.epoch # e
      BY <1>2, <2>1 DEF CancelRecorded
    <2>. QED
      BY <1>1, <2>2
  <1>3. CommitsAtMostOnce
    BY <1>1 DEF CommitsAtMostOnce
  <1>4. CancelLeavesNoGeneration
    BY <1>2 DEF CancelLeavesNoGeneration, JobInv, TypeOK
  <1>5. InterruptedMeansNotLanded /\ (record.state \notin {"committing", "succeeded"} => ~Landed)
    BY Unlanded DEF InterruptedMeansNotLanded
  <1>6. ASSUME record.state = "succeeded"
        PROVE  /\ record.commit.observed + 1 \in 1..Generation
               /\ chain[record.commit.observed + 1] = op /\ IsOurs(op)
    <2>1. PICK g \in 1..Generation : IsOurs(chain[g])
      BY <1>6 DEF JobInv, RecordKnowsCommit, Landed
    <2>. QED
      BY <1>1, <2>1
  <1>7. RecordAgreesWithChain
    BY <1>5, <1>6 DEF RecordAgreesWithChain
  <1>8. AnswersAreTrue
    <2>. SUFFICES ASSUME NEW p \in Procs, pc[p] = "return"
                  PROVE  /\ answer[p] \in {"committed", "replayed"} => Landed
                         /\ answer[p] \in {"too_late", "view"} /\ copy[p].state = "succeeded" => Landed
                         /\ answer[p] \in {"cancelled", "requested"} =>
                               \A g \in 1..Generation : IsOurs(chain[g]) => chain[g].epoch # copy[p].epoch
      BY DEF AnswersAreTrue, IsOurs
    <2>1. CallerKnows(p) /\ copy[p].epoch \in 0..MaxEpoch
      BY EpochType DEF JobInv
    <2>. QED
      BY <1>2, <2>1 DEF CallerKnows
  <1>. QED
    BY <1>3, <1>4, <1>5, <1>7, <1>8

\* The job's generation is committed at most once, over all attempts, epochs,
\* crashes, retries and storage failures.
THEOREM ExactlyOnce ==
    ASSUME ~LedgerMayFail PROVE Spec => []CommitsAtMostOnce
  BY TypeCorrect, JobInvariant, JobInvImplies, PTL

\* A cancellation that was promised to a caller leaves no generation of its
\* epoch in the chain.
THEOREM CancelWins ==
    ASSUME ~LedgerMayFail PROVE Spec => []CancelLeavesNoGeneration
  BY TypeCorrect, JobInvariant, JobInvImplies, PTL

\* The record never claims what the chain does not hold, nor denies what it
\* does.
THEOREM RecordAndChainAgree ==
    ASSUME ~LedgerMayFail PROVE Spec => []RecordAgreesWithChain
  BY TypeCorrect, JobInvariant, JobInvImplies, PTL

\* No call answers anything that the chain contradicts.
THEOREM AnswersHold ==
    ASSUME ~LedgerMayFail PROVE Spec => []AnswersAreTrue
  BY TypeCorrect, JobInvariant, JobInvImplies, PTL

\* With a ledger that can be read, an interrupted job has not committed.
THEOREM InterruptedHasNotLanded ==
    ASSUME ~LedgerMayFail PROVE Spec => []InterruptedMeansNotLanded
  BY TypeCorrect, JobInvariant, JobInvImplies, PTL

-----------------------------------------------------------------------------
(* The changes a step may make to the record, and their graph.             *)

RecordChange ==
    \/ record' = record
    \/ record.state = "absent" /\ record' = Queued
    \/ CanStart(record) /\ record' = Started(record)
    \/ CanCommit(record) /\ \E c : record' = Committing(record, c)
    \/ CanSucceed(record) /\ record' = Succeeded(record)
    \/ CanInterrupt(record) /\ \E f : record' = Interrupted(record, f)
    \/ CanFail(record) /\ \E f : record' = Failed(record, f)
    \/ CanRequestCancel(record) /\ record' = CancelRequested(record)
    \/ CanCancel(record) /\ record' = Cancelled(record)
    \/ CanRestart(record) /\ record' = Restarted(record)

\* Every step leaves the record alone or applies one change it admits.
LEMMA StepChanges == [Next]_vars => RecordChange
  <1>. SUFFICES ASSUME [Next]_vars PROVE RecordChange
    OBVIOUS
  <1>. USE DEF RecordChange, Applied, NotApplied, jobVars
  <1>1. ASSUME NEW p \in Procs, ReadRecord(p) PROVE RecordChange
    BY <1>1 DEF ReadRecord
  <1>2. ASSUME NEW p \in Procs, Reconcile(p) PROVE RecordChange
    BY <1>2 DEF Reconcile
  <1>3. ASSUME NEW p \in Procs, Opened(p) PROVE RecordChange
    BY <1>3 DEF Opened
  <1>4. ASSUME NEW p \in Procs, Start(p) PROVE RecordChange
    BY <1>4 DEF Start
  <1>5. ASSUME NEW p \in Procs, RecordCommitting(p) PROVE RecordChange
    BY <1>5 DEF RecordCommitting
  <1>6. ASSUME NEW p \in Procs, CancelWon(p) PROVE RecordChange
    BY <1>6 DEF CancelWon
  <1>7. ASSUME NEW p \in Procs, Succeed(p) PROVE RecordChange
    BY <1>7 DEF Succeed
  <1>8. ASSUME NEW p \in Procs, SettleCancel(p) PROVE RecordChange
    BY <1>8 DEF SettleCancel
  <1>9. ASSUME NEW p \in Procs, SettleEnd(p) PROVE RecordChange
    BY <1>9 DEF SettleEnd
  <1>10. ASSUME NEW p \in Procs, RequestCancel(p) PROVE RecordChange
    BY <1>10 DEF RequestCancel, CanRequestCancel, transition_to, Transitions
  <1>11. ASSUME NEW p \in Procs, CancelOwned(p) PROVE RecordChange
    BY <1>11 DEF CancelOwned
  <1>12. ASSUME NEW p \in Procs,
               \/ Begin(p) \/ TakeOwnerLock(p) \/ Bind(p) \/ Work(p) \/ Refused(p) \/ Publish(p) \/ Ledger(p) \/ ReadHead(p) 
               \/ Settle(p) \/ View(p) \/ Probe(p) \/ Probed(p) \/ StatusOwned(p) \/ Return(p) \/ Crash(p) 
        PROVE  record' = record
    BY <1>12 DEF Begin, TakeOwnerLock, Bind, Work, Refused, Publish, Ledger, ReadHead, Settle, View, Probe, Probed, StatusOwned, Return, Crash
  <1>13. ASSUME OtherCommit \/ UNCHANGED vars PROVE record' = record
    BY <1>13 DEF OtherCommit, vars
  <1>. QED
    BY <1>1, <1>2, <1>3, <1>4, <1>5, <1>6, <1>7, <1>8, <1>9, <1>10, <1>11, <1>12, <1>13 DEF Next, Step

AbsentShape == record.state = "absent" => record = Absent

\* A missing record stays the empty one until it is created, and every step
\* advances the record.
LEMMA AbsentStep ==
    ASSUME TypeOK, AbsentShape, [Next]_vars
    PROVE  AbsentShape' /\ Advances(record, record')
  <1>1. RecordChange /\ record \in JobRecord
    BY StepChanges DEF TypeOK
  <1>2. CASE record' = record
    BY <1>2 DEF AbsentShape, Advances
  <1>3. CASE record.state = "absent" /\ record' = Queued
    BY <1>3 DEF AbsentShape, Absent, Queued, Advances, is_terminal
  <1>4. CASE record' # record /\ ~(record.state = "absent" /\ record' = Queued)
    <2>1. Advances(record, record')
      BY <1>1, <1>4, ChangesAdvance DEF RecordChange
    <2>2. record'.state # "absent"
      BY <1>1, <1>4 DEF RecordChange, JobRecord, Started, Committing, Succeeded, Interrupted,
                        Failed, CancelRequested, Cancelled, Restarted
    <2>. QED
      BY <2>1, <2>2 DEF AbsentShape
  <1>. QED
    BY <1>2, <1>3, <1>4

\* The stored record only moves forward, whatever fails.
THEOREM RecordNeverGoesBack == Spec => NeverGoesBack
  <1>1. Init => AbsentShape
    BY DEF Init, AbsentShape
  <1>2. TypeOK /\ AbsentShape /\ [Next]_vars => AbsentShape'
    BY AbsentStep
  <1>. DEFINE Forward ==
         /\ \/ record'.epoch > record.epoch
            \/ record'.epoch = record.epoch /\ record'.attempt >= record.attempt
         /\ record.state = "succeeded" => record' = record
         /\ is_terminal(record.state) /\ record' # record => record'.epoch > record.epoch
  <1>3. ASSUME TypeOK, AbsentShape, [Next]_vars PROVE Forward
    <2>1. Advances(record, record')
      BY <1>3, AbsentStep
    <2>2. record.epoch \in Nat /\ record.attempt \in Nat
      BY <1>3 DEF TypeOK, JobRecord
    <2>. QED
      BY <2>1, <2>2 DEF Advances, is_terminal
  <1>4. TypeOK /\ AbsentShape /\ [Next]_vars => [Forward]_record
    BY <1>3
  <1>. QED
    BY <1>1, <1>2, <1>4, TypeInit, TypeStep, PTL DEF Spec, NeverGoesBack

-----------------------------------------------------------------------------
(* The changes a step may make to the chain.                               *)

\* The owner's publication appends the operation its record announces.
Commits(p) ==
    /\ pc[p] = "publish" /\ Generation = expected[p]
    /\ chain' = Append(chain, OperationOf(p))
    /\ record' = record

\* A step leaves the chain alone, appends another operation's generation, or
\* is the owner's publication.
LEMMA ChainChanges ==
    ASSUME [Next]_vars
    PROVE  \/ chain' = chain
           \/ OtherCommit
           \/ \E p \in Procs : Commits(p)
  <1>1. ASSUME NEW p \in Procs, Begin(p) \/ Step(p) \/ Crash(p), ~Publish(p) PROVE chain' = chain
    BY <1>1 DEF Step, jobVars, Begin, TakeOwnerLock, ReadRecord, Reconcile, Opened, Bind, Start, Work,
               RecordCommitting, Refused, CancelWon, Ledger, ReadHead, Succeed, Settle, SettleCancel,
               SettleEnd, RequestCancel, CancelOwned, View, Probe, Probed, StatusOwned, Return,
               Crash
  <1>2. ASSUME NEW p \in Procs, Publish(p) PROVE chain' = chain \/ Commits(p)
    BY <1>2 DEF Publish, Commits
  <1>3. UNCHANGED vars => chain' = chain
    BY DEF vars, jobVars
  <1>. QED
    BY <1>1, <1>2, <1>3 DEF Next

\* A step that commits a generation of the job: the record announces it.
LEMMA CommitStep ==
    ASSUME TypeOK, JobInv, NEW p \in Procs, Commits(p)
    PROVE  /\ record.state = "committing" /\ ~Landed /\ Landed'
           /\ record.commit = JobCommit(OperationOf(p), Generation)
           /\ Generation' = Generation + 1 /\ chain'[Generation + 1] = OperationOf(p)
  <1>1. AnnouncedBy(p) /\ ~Landed
    BY DEF Commits, JobInv, OwnerKnows
  <1>2. IsOurs(OperationOf(p))
    BY <1>1 DEF JobInv, RecordShape, AnnouncedBy, OperationOf, IsOurs, commit_operation_id
  <1>3. /\ Generation' = Generation + 1 /\ chain'[Generation + 1] = OperationOf(p)
        /\ Landed' <=> Landed \/ IsOurs(OperationOf(p))
    BY AppendedChain, OperationType DEF Commits
  <1>. QED
    BY <1>1, <1>2, <1>3 DEF Commits, AnnouncedBy

\* A generation of the job reaches the chain only as its record announces it.
THEOREM OnlyAnnouncedCommits ==
    ASSUME ~LedgerMayFail PROVE Spec => CommitsAreAnnounced
  <1>. DEFINE Announced ==
         \A g \in Generation + 1 .. Len(chain') : IsOurs(chain'[g]) =>
             /\ record.state = "committing"
             /\ record.commit = JobCommit(chain'[g], Generation)
  <1>1. ASSUME TypeOK, JobInv, [Next]_vars PROVE [Announced]_chain
    <2>1. CASE OtherCommit
      <3>1. Generation \in Nat /\ Len(chain') = Generation + 1 /\ ~IsOurs(chain'[Generation + 1])
        BY <1>1, <2>1, AppendedChain, OtherIsNotOurs DEF OtherCommit, Generation
      <3>. QED
        BY <3>1
    <2>2. ASSUME NEW p \in Procs, Commits(p) PROVE Announced
      <3>1. /\ Generation \in Nat /\ Len(chain') = Generation + 1
            /\ chain'[Generation + 1] = OperationOf(p)
            /\ record.state = "committing"
            /\ record.commit = JobCommit(OperationOf(p), Generation)
        BY <1>1, <2>2, CommitStep, ChainType DEF Generation
      <3>2. \A g \in Generation + 1 .. Len(chain') : g = Generation + 1
        BY <3>1
      <3>. QED
        BY <3>1, <3>2
    <2>. QED
      BY <1>1, <2>1, <2>2, ChainChanges
  <1>. QED
    BY <1>1, TypeCorrect, JobInvariant, PTL DEF Spec, CommitsAreAnnounced

-----------------------------------------------------------------------------
(* JobRun implements JobOutcome.                                           *)

\* How a change moves the state and the epoch of a record.
LEMMA ChangeMoves ==
    ASSUME TypeOK, RecordShape, RecordChange
    PROVE  LET s == record.state
               t == record'.state
           IN \/ /\ record'.epoch = record.epoch
                 /\ \/ t = s
                    \/ /\ s \notin {"cancelling", "cancelled", "failed", "succeeded"}
                       /\ t \notin {"cancelling", "cancelled", "failed"}
                    \/ /\ s \notin {"cancelled", "failed", "committing", "succeeded"}
                       /\ t \in {"cancelling", "cancelled"}
                    \/ /\ s \notin {"cancelled", "failed", "succeeded"}
                       /\ t = "failed"
              \/ /\ record'.epoch = record.epoch + 1
                 /\ s \in {"cancelled", "failed"} /\ t = "queued"
  <1>. USE DEF TypeOK, JobRecord, transition_to, Transitions
  <1>1. CASE record' = record
    BY <1>1
  <1>2. CASE record.state = "absent" /\ record' = Queued
    BY <1>2 DEF RecordShape, Absent, Queued
  <1>3. CASE CanStart(record) /\ record' = Started(record)
    BY <1>3 DEF CanStart, Started
  <1>4. CASE CanCommit(record) /\ \E c : record' = Committing(record, c)
    BY <1>4 DEF CanCommit, Committing
  <1>5. CASE CanSucceed(record) /\ record' = Succeeded(record)
    BY <1>5 DEF CanSucceed, Succeeded
  <1>6. CASE CanInterrupt(record) /\ \E f : record' = Interrupted(record, f)
    BY <1>6 DEF CanInterrupt, Interrupted
  <1>7. CASE CanFail(record) /\ \E f : record' = Failed(record, f)
    BY <1>7 DEF CanFail, Failed
  <1>8. CASE CanRequestCancel(record) /\ record' = CancelRequested(record)
    BY <1>8 DEF CanRequestCancel, CancelRequested
  <1>9. CASE CanCancel(record) /\ record' = Cancelled(record)
    BY <1>9 DEF CanCancel, Cancelled
  <1>10. CASE CanRestart(record) /\ record' = Restarted(record)
    BY <1>10 DEF CanRestart, Restarted
  <1>. QED
    BY <1>1, <1>2, <1>3, <1>4, <1>5, <1>6, <1>7, <1>8, <1>9, <1>10 DEF RecordChange

\* The record moves and the chain holds no more of the job than before.
LEMMA RecordRefines ==
    ASSUME TypeOK, JobInv, RecordChange, Landed' <=> Landed
    PROVE  [Outcome!Next]_<<record.epoch, OutcomeOf>>
  <1>. USE DEF Outcome!Next, Outcome!Commit, Outcome!Cancel, Outcome!Fail, Outcome!Restart
  <1>1. CASE Landed
    <2>1. record.state \in {"committing", "succeeded"}
      BY <1>1, Unlanded
    <2>2. record'.epoch = record.epoch
      BY <2>1, ChangeMoves DEF JobInv
    <2>. QED
      BY <1>1, <2>2 DEF OutcomeOf
  <1>2. CASE ~Landed
    BY <1>2, ChangeMoves DEF JobInv, OutcomeOf
  <1>. QED
    BY <1>1, <1>2

\* The owner's publication is the abstract commit.
LEMMA CommitRefines ==
    ASSUME TypeOK, JobInv, NEW p \in Procs, Commits(p)
    PROVE  Outcome!Commit
  <1>1. record' = record /\ record.state = "committing" /\ ~Landed /\ Landed'
    BY CommitStep DEF Commits
  <1>. QED
    BY <1>1 DEF Outcome!Commit, OutcomeOf

\* The job implements the abstract outcome: whatever processes run, cancel,
\* query and crash, each epoch commits, is cancelled or fails, a commit is
\* final, and a cancellation recorded first excludes a commit of its epoch.
THEOREM JobRunImplementsOutcome ==
    ASSUME ~LedgerMayFail PROVE Spec => ImplementsOutcome
  <1>1. Init => Outcome!Init
    <2>. SUFFICES ASSUME Init PROVE Outcome!Init
      OBVIOUS
    <2>1. ~Landed
      BY DEF Init, Landed, Generation
    <2>. QED
      BY <2>1 DEF Init, Outcome!Init, OutcomeOf, Absent, Queued
  <1>2. ASSUME TypeOK, JobInv, [Next]_vars
        PROVE  [Outcome!Next]_<<record.epoch, OutcomeOf>>
    <2>1. CASE chain' = chain
      BY <1>2, <2>1, StepChanges, SameChain, RecordRefines
    <2>2. CASE OtherCommit
      <3>1. Landed' <=> Landed
        BY <1>2, <2>2, AppendedChain, OtherIsNotOurs DEF OtherCommit
      <3>. QED
        BY <1>2, <3>1, StepChanges, RecordRefines
    <2>3. ASSUME NEW p \in Procs, Commits(p) PROVE Outcome!Next
      BY <1>2, <2>3, CommitRefines DEF Outcome!Next
    <2>. QED
      BY <1>2, <2>1, <2>2, <2>3, ChainChanges
  <1>. QED
    BY <1>1, <1>2, TypeCorrect, JobInvariant, PTL DEF Spec, ImplementsOutcome, Outcome!Spec
=============================================================================
