---------------------------- MODULE JobInvProofs ----------------------------
(***************************************************************************)
(* JobInv is an inductive invariant of JobRun when the ledger can be read  *)
(* (LedgerMayFail = FALSE), and the safety properties follow from it.      *)
(***************************************************************************)
EXTENDS JobRunProofs

-----------------------------------------------------------------------------
(* How one change moves a record: an unended job stays in its epoch, one   *)
(* being cancelled can only end, and an ended one leaves its state only    *)
(* for the next epoch.                                                     *)

Advances(r, s) ==
    \/ s = r
    \/ /\ ~is_terminal(r.state)
       /\ s.epoch = r.epoch /\ s.attempt >= r.attempt
       /\ r.state = "cancelling" => s.state \in {"cancelled", "failed"}
    \/ /\ r.state \in {"failed", "cancelled"}
       /\ s.epoch = r.epoch + 1

\* Every change a record admits advances it.
LEMMA ChangesAdvance ==
    ASSUME NEW r \in JobRecord
    PROVE  /\ CanStart(r) => Advances(r, Started(r))
           /\ \A c : CanCommit(r) => Advances(r, Committing(r, c))
           /\ CanSucceed(r) => Advances(r, Succeeded(r))
           /\ \A f : CanInterrupt(r) => Advances(r, Interrupted(r, f))
           /\ \A f : CanFail(r) => Advances(r, Failed(r, f))
           /\ CanRequestCancel(r) => Advances(r, CancelRequested(r))
           /\ CanCancel(r) => Advances(r, Cancelled(r))
           /\ CanRestart(r) => Advances(r, Restarted(r))
  <1>. USE DEF Advances, is_terminal, transition_to, Transitions, JobRecord
  <1>1. CanStart(r) => Advances(r, Started(r))
    BY DEF CanStart, Started
  <1>2. \A c : CanCommit(r) => Advances(r, Committing(r, c))
    BY DEF CanCommit, Committing
  <1>3. CanSucceed(r) => Advances(r, Succeeded(r))
    BY DEF CanSucceed, Succeeded
  <1>4. \A f : CanInterrupt(r) => Advances(r, Interrupted(r, f))
    BY DEF CanInterrupt, Interrupted
  <1>5. \A f : CanFail(r) => Advances(r, Failed(r, f))
    BY DEF CanFail, Failed
  <1>6. CanRequestCancel(r) => Advances(r, CancelRequested(r))
    BY DEF CanRequestCancel, CancelRequested
  <1>7. CanCancel(r) => Advances(r, Cancelled(r))
    BY DEF CanCancel, Cancelled
  <1>8. CanRestart(r) => Advances(r, Restarted(r))
    BY DEF CanRestart, Restarted
  <1>. QED
    BY ONLY <1>1, <1>2, <1>3, <1>4, <1>5, <1>6, <1>7, <1>8

-----------------------------------------------------------------------------
(* Frames.                                                                 *)

\* The step is of process p: nothing the invariant says of another changes.
OthersRest(p) ==
    \A q \in Procs \ {p} :
        /\ pc'[q] = pc[q] /\ copy'[q] = copy[q]
        /\ expected'[q] = expected[q] /\ answer'[q] = answer[q]

\* A recorded cancellation stays recorded while the record advances.
LEMMA CancelStays ==
    ASSUME TypeOK, TypeOK', Advances(record, record'), NEW e \in 0..MaxEpoch, CancelRecorded(e)
    PROVE  CancelRecorded(e)'
  BY DEF TypeOK, Advances, CancelRecorded, JobRecord, is_terminal

\* What was committed depends on the chain alone.
LEMMA SameChain ==
    ASSUME chain' = chain
    PROVE  /\ Generation' = Generation /\ (Landed' <=> Landed)
  BY DEF Generation, Landed, IsOurs

\* What a resting caller knows stays true while the record advances and the
\* chain grows.
LEMMA CallerRests ==
    ASSUME TypeOK, TypeOK', NEW p \in Procs, OthersRest(p), NEW q \in Procs \ {p},
           Advances(record, record'), Landed => Landed', CallerKnows(q)
    PROVE  CallerKnows(q)'
  <1>1. pc'[q] = pc[q] /\ copy'[q] = copy[q] /\ answer'[q] = answer[q]
    BY DEF OthersRest
  <1>2. copy[q].epoch \in 0..MaxEpoch
    BY EpochType
  <1>3. CancelRecorded(copy[q].epoch) => CancelRecorded(copy[q].epoch)'
    BY <1>1, <1>2, CancelStays
  <1>. QED
    BY <1>1, <1>3 DEF CallerKnows

\* A process at rest while another one owns the job knows as much as before.
LEMMA OwnerRests ==
    ASSUME Ownership, NEW p \in Procs, OthersRest(p), NEW q \in Procs \ {p}, 
           pc[p] \in Owning
    PROVE  OwnerKnows(q)'
  BY DEF Ownership, OthersRest, OwnerKnows, Owning

\* A step of the job's owner that keeps the lock.
LEMMA OwnerStep ==
    ASSUME TypeOK, TypeOK', JobInv, NEW p \in Procs, pc[p] \in Owning, OthersRest(p),
           owner' = owner, won' = won, Landed => Landed', Advances(record, record'),
           RecordKnowsCommit', RecordShape', OwnerKnows(p)', CallerKnows(p)'
    PROVE  JobInv'
  <1>1. owner = p /\ \A q \in Procs \ {p} : pc'[q] \notin Owning
    BY DEF JobInv, Ownership, OthersRest
  <1>2. Ownership'
    BY <1>1 DEF Ownership
  <1>3. \A q \in Procs : OwnerKnows(q)' /\ CallerKnows(q)'
    BY OwnerRests, CallerRests DEF JobInv
  <1>4. \A e \in won' : CancelRecorded(e)'
    BY CancelStays DEF JobInv, TypeOK
  <1>. QED
    BY <1>2, <1>3, <1>4 DEF JobInv

\* A step that leaves the record and the chain alone.
LEMMA QuietStep ==
    ASSUME TypeOK, TypeOK', JobInv, NEW p \in Procs, OthersRest(p),
           record' = record, chain' = chain, Ownership',
           \A e \in won' \ won : CancelRecorded(e),
           OwnerKnows(p)', CallerKnows(p)'
    PROVE  JobInv'
  <1>1. Landed' <=> Landed
    BY SameChain
  <1>2. RecordKnowsCommit' /\ RecordShape'
    BY <1>1 DEF JobInv, RecordKnowsCommit, RecordShape, Generation
  <1>3. \A q \in Procs \ {p} : CallerKnows(q)'
    BY <1>1, CallerRests DEF JobInv, Advances
  <1>4. \A q \in Procs \ {p} : OwnerKnows(q)'
    BY <1>1 DEF JobInv, OthersRest, OwnerKnows, CopyIsCurrent, AnnouncedBy, OperationOf
  <1>5. \A e \in won' : CancelRecorded(e)'
    BY DEF JobInv, CancelRecorded
  <1>. QED
    BY <1>2, <1>3, <1>4, <1>5 DEF JobInv

-----------------------------------------------------------------------------
(* Steps that leave the record and the chain alone, one lemma each.        *)

\* Begin keeps JobInv.
LEMMA BeginInv ==
    ASSUME TypeOK, TypeOK', JobInv, NEW p \in Procs, Begin(p)
    PROVE  JobInv'
  <1>1. OthersRest(p)
    BY DEF TypeOK, OthersRest, Begin, Goto, Respond
  <1>2. record' = record /\ chain' = chain
    BY DEF Begin, jobVars
  <1>3. Ownership'
    BY <1>1 DEF TypeOK, JobInv, Ownership, Owning, OthersRest, Begin, Goto, Respond, jobVars
  <1>4. OwnerKnows(p)'
    BY <1>2, SameChain DEF TypeOK, JobInv, OwnerKnows, CopyIsCurrent, AnnouncedBy, OperationOf, Begin, Goto, Respond, jobVars
  <1>5. CallerKnows(p)'
    BY <1>2, SameChain DEF TypeOK, JobInv, CallerKnows, Begin, Goto, Respond, jobVars
  <1>6. \A e \in won' \ won : CancelRecorded(e)
    BY DEF Begin, JobInv, CallerKnows
  <1>. QED
    BY <1>1, <1>2, <1>3, <1>4, <1>5, <1>6, QuietStep

\* TakeOwnerLock keeps JobInv.
LEMMA TakeOwnerLockInv ==
    ASSUME TypeOK, TypeOK', JobInv, NEW p \in Procs, TakeOwnerLock(p)
    PROVE  JobInv'
  <1>1. OthersRest(p)
    BY DEF TypeOK, OthersRest, TakeOwnerLock, Goto, Respond
  <1>2. record' = record /\ chain' = chain
    BY DEF TakeOwnerLock, jobVars
  <1>3. Ownership'
    BY <1>1, ProcsAssumption DEF TypeOK, JobInv, Ownership, Owning, OthersRest, TakeOwnerLock, Goto, Respond, jobVars
  <1>4. OwnerKnows(p)'
    BY <1>2, SameChain DEF TypeOK, JobInv, OwnerKnows, CopyIsCurrent, AnnouncedBy, OperationOf, TakeOwnerLock, Goto, Respond, jobVars
  <1>5. CallerKnows(p)'
    BY <1>2, SameChain DEF TypeOK, JobInv, CallerKnows, TakeOwnerLock, Goto, Respond, jobVars
  <1>6. \A e \in won' \ won : CancelRecorded(e)
    BY DEF TakeOwnerLock, JobInv, CallerKnows
  <1>. QED
    BY <1>1, <1>2, <1>3, <1>4, <1>5, <1>6, QuietStep

\* Bind keeps JobInv.
LEMMA BindInv ==
    ASSUME TypeOK, TypeOK', JobInv, NEW p \in Procs, Bind(p)
    PROVE  JobInv'
  <1>1. OthersRest(p)
    BY DEF TypeOK, OthersRest, Bind, Goto, Respond
  <1>2. record' = record /\ chain' = chain
    BY DEF Bind, jobVars
  <1>3. Ownership'
    BY <1>1 DEF TypeOK, JobInv, Ownership, Owning, OthersRest, Bind, Goto, Respond, jobVars
  <1>4. OwnerKnows(p)'
    BY <1>2, SameChain DEF TypeOK, JobInv, OwnerKnows, CopyIsCurrent, AnnouncedBy, OperationOf, Bind, Goto, Respond, jobVars
  <1>5. CallerKnows(p)'
    BY <1>2, SameChain DEF TypeOK, JobInv, CallerKnows, Bind, Goto, Respond, jobVars
  <1>6. \A e \in won' \ won : CancelRecorded(e)
    BY DEF Bind, JobInv, CallerKnows
  <1>. QED
    BY <1>1, <1>2, <1>3, <1>4, <1>5, <1>6, QuietStep

\* Work keeps JobInv.
LEMMA WorkInv ==
    ASSUME TypeOK, TypeOK', JobInv, NEW p \in Procs, Work(p)
    PROVE  JobInv'
  <1>1. OthersRest(p)
    BY DEF TypeOK, OthersRest, Work, Goto, Respond
  <1>2. record' = record /\ chain' = chain
    BY DEF Work, jobVars
  <1>3. Ownership'
    BY <1>1 DEF TypeOK, JobInv, Ownership, Owning, OthersRest, Work, Goto, Respond, jobVars
  <1>4. OwnerKnows(p)'
    BY <1>2, SameChain DEF TypeOK, JobInv, OwnerKnows, CopyIsCurrent, AnnouncedBy, OperationOf, Work, Goto, Respond, jobVars
  <1>5. CallerKnows(p)'
    BY <1>2, SameChain DEF TypeOK, JobInv, CallerKnows, Work, Goto, Respond, jobVars
  <1>6. \A e \in won' \ won : CancelRecorded(e)
    BY DEF Work, JobInv, CallerKnows
  <1>. QED
    BY <1>1, <1>2, <1>3, <1>4, <1>5, <1>6, QuietStep

\* Refused keeps JobInv.
LEMMA RefusedInv ==
    ASSUME TypeOK, TypeOK', JobInv, NEW p \in Procs, Refused(p)
    PROVE  JobInv'
  <1>1. OthersRest(p)
    BY DEF TypeOK, OthersRest, Refused, Goto, Respond
  <1>2. record' = record /\ chain' = chain
    BY DEF Refused, jobVars
  <1>3. Ownership'
    BY <1>1 DEF TypeOK, JobInv, Ownership, Owning, OthersRest, Refused, Goto, Respond, jobVars
  <1>4. OwnerKnows(p)'
    BY <1>2, SameChain DEF TypeOK, JobInv, OwnerKnows, CopyIsCurrent, AnnouncedBy, OperationOf, Refused, Goto, Respond, jobVars
  <1>5. CallerKnows(p)'
    BY <1>2, SameChain DEF TypeOK, JobInv, CallerKnows, Refused, Goto, Respond, jobVars
  <1>6. \A e \in won' \ won : CancelRecorded(e)
    BY DEF Refused, JobInv, CallerKnows
  <1>. QED
    BY <1>1, <1>2, <1>3, <1>4, <1>5, <1>6, QuietStep

\* ReadHead keeps JobInv.
LEMMA ReadHeadInv ==
    ASSUME TypeOK, TypeOK', JobInv, NEW p \in Procs, ReadHead(p)
    PROVE  JobInv'
  <1>1. OthersRest(p)
    BY DEF TypeOK, OthersRest, ReadHead, Goto, Respond
  <1>2. record' = record /\ chain' = chain
    BY DEF ReadHead, jobVars
  <1>3. Ownership'
    BY <1>1 DEF TypeOK, JobInv, Ownership, Owning, OthersRest, ReadHead, Goto, Respond, jobVars
  <1>4. OwnerKnows(p)'
    BY <1>2, SameChain DEF TypeOK, JobInv, OwnerKnows, CopyIsCurrent, AnnouncedBy, OperationOf, ReadHead, Goto, Respond, jobVars
  <1>5. CallerKnows(p)'
    BY <1>2, SameChain DEF TypeOK, JobInv, CallerKnows, ReadHead, Goto, Respond, jobVars
  <1>6. \A e \in won' \ won : CancelRecorded(e)
    BY DEF ReadHead, JobInv, CallerKnows
  <1>. QED
    BY <1>1, <1>2, <1>3, <1>4, <1>5, <1>6, QuietStep

\* Settle keeps JobInv.
LEMMA SettleInv ==
    ASSUME TypeOK, TypeOK', JobInv, NEW p \in Procs, Settle(p)
    PROVE  JobInv'
  <1>1. OthersRest(p)
    BY DEF TypeOK, OthersRest, Settle, Goto, Respond
  <1>2. record' = record /\ chain' = chain
    BY DEF Settle, jobVars
  <1>3. Ownership'
    BY <1>1 DEF TypeOK, JobInv, Ownership, Owning, OthersRest, Settle, Goto, Respond, jobVars
  <1>4. OwnerKnows(p)'
    BY <1>2, SameChain DEF TypeOK, JobInv, OwnerKnows, CopyIsCurrent, AnnouncedBy, OperationOf, Settle, Goto, Respond, jobVars
  <1>5. CallerKnows(p)'
    BY <1>2, SameChain DEF TypeOK, JobInv, CallerKnows, Settle, Goto, Respond, jobVars
  <1>6. \A e \in won' \ won : CancelRecorded(e)
    BY DEF Settle, JobInv, CallerKnows
  <1>. QED
    BY <1>1, <1>2, <1>3, <1>4, <1>5, <1>6, QuietStep

\* View keeps JobInv.
LEMMA ViewInv ==
    ASSUME TypeOK, TypeOK', JobInv, NEW p \in Procs, View(p)
    PROVE  JobInv'
  <1>1. OthersRest(p)
    BY DEF TypeOK, OthersRest, View, Goto, Respond
  <1>2. record' = record /\ chain' = chain
    BY DEF View, jobVars
  <1>3. Ownership'
    BY <1>1 DEF TypeOK, JobInv, Ownership, Owning, OthersRest, View, Goto, Respond, jobVars
  <1>4. OwnerKnows(p)'
    BY <1>2, SameChain DEF TypeOK, JobInv, OwnerKnows, CopyIsCurrent, AnnouncedBy, OperationOf, View, Goto, Respond, jobVars
  <1>5. CallerKnows(p)'
    <2>1. record.state = "succeeded" => Landed
      BY DEF JobInv, RecordKnowsCommit
    <2>. QED
      BY <1>2, <2>1, SameChain DEF TypeOK, CallerKnows, View, Goto, Respond
  <1>6. \A e \in won' \ won : CancelRecorded(e)
    BY DEF View, JobInv, CallerKnows
  <1>. QED
    BY <1>1, <1>2, <1>3, <1>4, <1>5, <1>6, QuietStep

\* Probe keeps JobInv.
LEMMA ProbeInv ==
    ASSUME TypeOK, TypeOK', JobInv, NEW p \in Procs, Probe(p)
    PROVE  JobInv'
  <1>1. OthersRest(p)
    BY DEF TypeOK, OthersRest, Probe, Goto, Respond
  <1>2. record' = record /\ chain' = chain
    BY DEF Probe, jobVars
  <1>3. Ownership'
    BY <1>1 DEF TypeOK, JobInv, Ownership, Owning, OthersRest, Probe, Goto, Respond, jobVars
  <1>4. OwnerKnows(p)'
    BY <1>2, SameChain DEF TypeOK, JobInv, OwnerKnows, CopyIsCurrent, AnnouncedBy, OperationOf, Probe, Goto, Respond, jobVars
  <1>5. CallerKnows(p)'
    BY <1>2, SameChain DEF TypeOK, JobInv, CallerKnows, Probe, Goto, Respond, jobVars
  <1>6. \A e \in won' \ won : CancelRecorded(e)
    BY DEF Probe, JobInv, CallerKnows
  <1>. QED
    BY <1>1, <1>2, <1>3, <1>4, <1>5, <1>6, QuietStep

\* Probed keeps JobInv.
LEMMA ProbedInv ==
    ASSUME TypeOK, TypeOK', JobInv, NEW p \in Procs, Probed(p)
    PROVE  JobInv'
  <1>1. OthersRest(p)
    BY DEF TypeOK, OthersRest, Probed, Goto, Respond
  <1>2. record' = record /\ chain' = chain
    BY DEF Probed, jobVars
  <1>3. Ownership'
    BY <1>1 DEF TypeOK, JobInv, Ownership, Owning, OthersRest, Probed, Goto, Respond, jobVars
  <1>4. OwnerKnows(p)'
    BY <1>2, SameChain DEF TypeOK, JobInv, OwnerKnows, CopyIsCurrent, AnnouncedBy, OperationOf, Probed, Goto, Respond, jobVars
  <1>5. CallerKnows(p)'
    BY <1>2, SameChain DEF TypeOK, JobInv, CallerKnows, Probed, Goto, Respond, jobVars
  <1>6. \A e \in won' \ won : CancelRecorded(e)
    BY DEF Probed, JobInv, CallerKnows
  <1>. QED
    BY <1>1, <1>2, <1>3, <1>4, <1>5, <1>6, QuietStep

\* StatusOwned keeps JobInv.
LEMMA StatusOwnedInv ==
    ASSUME TypeOK, TypeOK', JobInv, NEW p \in Procs, StatusOwned(p)
    PROVE  JobInv'
  <1>1. OthersRest(p)
    BY DEF TypeOK, OthersRest, StatusOwned, Goto, Respond
  <1>2. record' = record /\ chain' = chain
    BY DEF StatusOwned, jobVars
  <1>3. Ownership'
    BY <1>1 DEF TypeOK, JobInv, Ownership, Owning, OthersRest, StatusOwned, Goto, Respond, jobVars
  <1>4. OwnerKnows(p)'
    BY <1>2, SameChain DEF TypeOK, JobInv, OwnerKnows, CopyIsCurrent, AnnouncedBy, OperationOf, StatusOwned, Goto, Respond, jobVars
  <1>5. CallerKnows(p)'
    BY <1>2, SameChain DEF TypeOK, JobInv, CallerKnows, StatusOwned, Goto, Respond, jobVars
  <1>6. \A e \in won' \ won : CancelRecorded(e)
    BY DEF StatusOwned, JobInv, CallerKnows
  <1>. QED
    BY <1>1, <1>2, <1>3, <1>4, <1>5, <1>6, QuietStep

\* Crash keeps JobInv.
LEMMA CrashInv ==
    ASSUME TypeOK, TypeOK', JobInv, NEW p \in Procs, Crash(p)
    PROVE  JobInv'
  <1>1. OthersRest(p)
    BY DEF TypeOK, OthersRest, Crash, Goto, Respond, Forget
  <1>2. record' = record /\ chain' = chain
    BY DEF Crash, jobVars
  <1>3. Ownership'
    BY <1>1 DEF TypeOK, JobInv, Ownership, Owning, OthersRest, Crash, Goto, Respond, jobVars, Forget
  <1>4. OwnerKnows(p)'
    BY <1>2, SameChain DEF TypeOK, JobInv, OwnerKnows, CopyIsCurrent, AnnouncedBy, OperationOf, Crash, Goto, Respond, jobVars, Forget
  <1>5. CallerKnows(p)'
    BY <1>2, SameChain DEF TypeOK, JobInv, CallerKnows, Crash, Goto, Respond, jobVars, Forget
  <1>6. \A e \in won' \ won : CancelRecorded(e)
    BY DEF Crash, JobInv, CallerKnows
  <1>. QED
    BY <1>1, <1>2, <1>3, <1>4, <1>5, <1>6, QuietStep

\* Return keeps JobInv.
LEMMA ReturnInv ==
    ASSUME TypeOK, TypeOK', JobInv, NEW p \in Procs, Return(p)
    PROVE  JobInv'
  <1>1. OthersRest(p)
    BY DEF TypeOK, OthersRest, Return, Goto, Respond, Forget
  <1>2. record' = record /\ chain' = chain
    BY DEF Return, jobVars
  <1>3. Ownership'
    BY <1>1 DEF TypeOK, JobInv, Ownership, Owning, OthersRest, Return, Goto, Respond, jobVars, Forget
  <1>4. OwnerKnows(p)'
    BY <1>2, SameChain DEF TypeOK, JobInv, OwnerKnows, CopyIsCurrent, AnnouncedBy, OperationOf, Return, Goto, Respond, jobVars, Forget
  <1>5. CallerKnows(p)'
    BY <1>2, SameChain DEF TypeOK, JobInv, CallerKnows, Return, Goto, Respond, jobVars, Forget
  <1>6. \A e \in won' \ won : CancelRecorded(e)
    BY DEF Return, JobInv, CallerKnows
  <1>. QED
    BY <1>1, <1>2, <1>3, <1>4, <1>5, <1>6, QuietStep

\* The chain holds the job's generation exactly when it holds the announced
\* operation above the announced generation.
LEMMA LedgerIsRight ==
    ASSUME TypeOK, JobInv, record.state = "committing"
    PROVE  committed_generation(record.commit.op, record.commit.observed) <=> Landed
  <1>1. IsOurs(record.commit.op)
    BY DEF JobInv, RecordShape, commit_operation_id, IsOurs
  <1>2. ASSUME Landed PROVE committed_generation(record.commit.op, record.commit.observed)
    <2>1. PICK g \in 1..Generation : IsOurs(chain[g])
      BY <1>2 DEF Landed
    <2>2. g = record.commit.observed + 1 /\ chain[g] = record.commit.op
      BY <2>1 DEF JobInv, RecordKnowsCommit
    <2>3. record.commit.observed \in Nat
      BY DEF JobInv, RecordShape
    <2>. QED
      BY <2>1, <2>2, <2>3 DEF committed_generation
  <1>. QED
    BY <1>1, <1>2 DEF committed_generation, Landed

\* Asking the chain about a failed publication keeps JobInv, if the question
\* is always answered.
LEMMA LedgerInv ==
    ASSUME TypeOK, TypeOK', JobInv, NEW p \in Procs, Ledger(p), ~LedgerMayFail
    PROVE  JobInv'
  <1>1. OthersRest(p)
    BY DEF TypeOK, OthersRest, Ledger, Goto
  <1>2. record' = record /\ chain' = chain
    BY DEF Ledger, jobVars
  <1>3. Ownership'
    BY <1>1 DEF TypeOK, JobInv, Ownership, Owning, OthersRest, Ledger, Goto, jobVars
  <1>4. committed_generation(OperationOf(p), expected[p]) <=> Landed
    <2>1. AnnouncedBy(p)
      BY DEF Ledger, JobInv, OwnerKnows
    <2>2. /\ record.state = "committing"
          /\ record.commit.op = OperationOf(p) /\ record.commit.observed = expected[p]
      BY <2>1 DEF AnnouncedBy, JobCommit
    <2>. QED
      BY <2>2, LedgerIsRight
  <1>5. OwnerKnows(p)'
    BY <1>2, <1>4, SameChain
       DEF TypeOK, JobInv, OwnerKnows, AnnouncedBy, OperationOf, Ledger, Goto
  <1>6. CallerKnows(p)'
    BY <1>2 DEF TypeOK, CallerKnows, Ledger, Goto
  <1>. QED
    BY <1>1, <1>2, <1>3, <1>5, <1>6, QuietStep DEF Ledger

-----------------------------------------------------------------------------
(* Steps in which the owner changes the record.                            *)

\* A record in any state but committing and succeeded has no generation.
LEMMA Unlanded ==
    ASSUME JobInv, record.state \notin {"committing", "succeeded"}
    PROVE  ~Landed
  BY DEF JobInv, RecordKnowsCommit, Landed

\* A change that ends or starts an attempt of a job without a generation.
LEMMA StaysUnlanded ==
    ASSUME chain' = chain, ~Landed, record'.state # "succeeded"
    PROVE  RecordKnowsCommit'
  BY SameChain DEF RecordKnowsCommit, Landed, Generation, IsOurs

\* The shape of the records the changes leave.
LEMMA ChangeShapes ==
    ASSUME TypeOK, RecordShape
    PROVE  /\ \A f : record' = Interrupted(record, f) => RecordShape'
           /\ \A f : record' = Failed(record, f) => RecordShape'
           /\ record' = Cancelled(record) => RecordShape'
           /\ record' = CancelRequested(record) => RecordShape'
           /\ record' = Restarted(record) => RecordShape'
           /\ record' = Started(record) => RecordShape'
           /\ record.state = "committing" /\ record' = Succeeded(record) => RecordShape'
  <1>. USE DEF TypeOK, JobRecord, RecordShape
  <1>1. \A f : record' = Interrupted(record, f) => RecordShape'
    BY DEF Interrupted
  <1>2. \A f : record' = Failed(record, f) => RecordShape'
    BY DEF Failed
  <1>3. record' = Cancelled(record) => RecordShape'
    BY DEF Cancelled
  <1>4. record' = CancelRequested(record) => RecordShape'
    BY DEF CancelRequested
  <1>5. record' = Restarted(record) => RecordShape'
    BY DEF Restarted
  <1>6. record' = Started(record) => RecordShape'
    BY DEF Started
  <1>7. record.state = "committing" /\ record' = Succeeded(record) => RecordShape'
    BY DEF Succeeded
  <1>. QED
    BY ONLY <1>1, <1>2, <1>3, <1>4, <1>5, <1>6, <1>7

\* Start keeps JobInv.
LEMMA StartInv ==
    ASSUME TypeOK, TypeOK', JobInv, NEW p \in Procs, Start(p)
    PROVE  JobInv'
  <1>1. OthersRest(p)
    BY DEF TypeOK, OthersRest, Start, Applied, NotApplied, Goto, Respond
  <1>2. pc[p] \in Owning /\ owner' = owner /\ chain' = chain /\ won' = won
    BY DEF Start, Owning
  <1>3. record' = record \/ (CanStart(record) /\ record' = Started(record))
    BY DEF Start, Applied, NotApplied
  <1>4. Advances(record, record')
    BY <1>3, ChangesAdvance DEF TypeOK, Advances
  <1>5. RecordKnowsCommit'
    BY <1>2, <1>3, Unlanded, StaysUnlanded, SameChain DEF CanStart, Started, transition_to, Transitions, TypeOK, JobRecord, JobInv, RecordKnowsCommit, Generation
  <1>6. RecordShape'
    BY <1>3, ChangeShapes DEF JobInv, RecordShape
  <1>7. OwnerKnows(p)'
    BY <1>2, <1>3, Unlanded, SameChain DEF OwnerKnows, Start, Applied, CanStart, transition_to, Transitions, TypeOK, Goto, Respond
  <1>8. CallerKnows(p)'
    BY DEF CallerKnows, Start, TypeOK, Goto, Respond
  <1>. QED
    BY <1>1, <1>2, <1>4, <1>5, <1>6, <1>7, <1>8, SameChain, OwnerStep

\* CancelWon keeps JobInv.
LEMMA CancelWonInv ==
    ASSUME TypeOK, TypeOK', JobInv, NEW p \in Procs, CancelWon(p)
    PROVE  JobInv'
  <1>1. OthersRest(p)
    BY DEF TypeOK, OthersRest, CancelWon, Applied, NotApplied, Goto, Respond
  <1>2. pc[p] \in Owning /\ owner' = owner /\ chain' = chain /\ won' = won
    BY DEF CancelWon, Owning
  <1>3. record' = record \/ (CanCancel(record) /\ record' = Cancelled(record))
    BY DEF CancelWon, Applied, NotApplied
  <1>4. Advances(record, record')
    BY <1>3, ChangesAdvance DEF TypeOK, Advances
  <1>5. RecordKnowsCommit'
    BY <1>2, <1>3, Unlanded, StaysUnlanded, SameChain DEF CanCancel, Cancelled, transition_to, Transitions, TypeOK, JobRecord, JobInv, RecordKnowsCommit, Generation
  <1>6. RecordShape'
    BY <1>3, ChangeShapes DEF JobInv, RecordShape
  <1>7. OwnerKnows(p)'
    BY <1>2, <1>3, SameChain DEF OwnerKnows, CancelWon, JobInv, TypeOK, Goto, Respond
  <1>8. CallerKnows(p)'
    <2>1. CASE Applied(p, CanCancel(record), Cancelled(record)) /\ Respond(p, "cancelled")
      <3>1. record'.state = "cancelled" /\ copy'[p] = record'
        BY <2>1 DEF Applied, Cancelled, TypeOK, JobRecord
      <3>2. answer'[p] = "cancelled" /\ pc'[p] = "return"
        BY <2>1 DEF Respond, Goto, TypeOK
      <3>. QED
        BY <3>1, <3>2 DEF CallerKnows, CancelRecorded
    <2>2. CASE Goto(p, "settle")
      BY <2>2 DEF CallerKnows, Goto, TypeOK
    <2>. QED
      BY <2>1, <2>2 DEF CancelWon
  <1>. QED
    BY <1>1, <1>2, <1>4, <1>5, <1>6, <1>7, <1>8, SameChain, OwnerStep

\* SettleCancel keeps JobInv.
LEMMA SettleCancelInv ==
    ASSUME TypeOK, TypeOK', JobInv, NEW p \in Procs, SettleCancel(p)
    PROVE  JobInv'
  <1>1. OthersRest(p)
    BY DEF TypeOK, OthersRest, SettleCancel, Applied, NotApplied, Goto, Respond
  <1>2. pc[p] \in Owning /\ owner' = owner /\ chain' = chain /\ won' = won
    BY DEF SettleCancel, Owning
  <1>3. record' = record \/ (CanCancel(record) /\ record' = Cancelled(record))
    BY DEF SettleCancel, Applied, NotApplied
  <1>4. Advances(record, record')
    BY <1>3, ChangesAdvance DEF TypeOK, Advances
  <1>5. RecordKnowsCommit'
    BY <1>2, <1>3, Unlanded, StaysUnlanded, SameChain DEF CanCancel, Cancelled, transition_to, Transitions, TypeOK, JobRecord, JobInv, RecordKnowsCommit, Generation
  <1>6. RecordShape'
    BY <1>3, ChangeShapes DEF JobInv, RecordShape
  <1>7. OwnerKnows(p)'
    BY DEF OwnerKnows, SettleCancel, TypeOK, Goto, Respond
  <1>8. CallerKnows(p)'
    <2>1. CASE Applied(p, CanCancel(record), Cancelled(record)) /\ Respond(p, "cancelled")
      <3>1. record'.state = "cancelled" /\ copy'[p] = record'
        BY <2>1 DEF Applied, Cancelled, TypeOK, JobRecord
      <3>2. answer'[p] = "cancelled" /\ pc'[p] = "return"
        BY <2>1 DEF Respond, Goto, TypeOK
      <3>. QED
        BY <3>1, <3>2 DEF CallerKnows, CancelRecorded
    <2>2. CASE Respond(p, "error")
      BY <2>2 DEF CallerKnows, Respond, Goto, TypeOK
    <2>. QED
      BY <2>1, <2>2 DEF SettleCancel
  <1>. QED
    BY <1>1, <1>2, <1>4, <1>5, <1>6, <1>7, <1>8, SameChain, OwnerStep

\* CancelOwned keeps JobInv.
LEMMA CancelOwnedInv ==
    ASSUME TypeOK, TypeOK', JobInv, NEW p \in Procs, CancelOwned(p)
    PROVE  JobInv'
  <1>1. OthersRest(p)
    BY DEF TypeOK, OthersRest, CancelOwned, Applied, NotApplied, Goto, Respond
  <1>2. pc[p] \in Owning /\ owner' = owner /\ chain' = chain /\ won' = won
    BY DEF CancelOwned, Owning
  <1>3. record' = record \/ (CanCancel(record) /\ record' = Cancelled(record))
    BY DEF CancelOwned, Applied, NotApplied
  <1>4. Advances(record, record')
    BY <1>3, ChangesAdvance DEF TypeOK, Advances
  <1>5. RecordKnowsCommit'
    BY <1>2, <1>3, Unlanded, StaysUnlanded, SameChain DEF CanCancel, Cancelled, transition_to, Transitions, TypeOK, JobRecord, JobInv, RecordKnowsCommit, Generation
  <1>6. RecordShape'
    BY <1>3, ChangeShapes DEF JobInv, RecordShape
  <1>7. OwnerKnows(p)'
    BY DEF OwnerKnows, CancelOwned, TypeOK, Goto, Respond
  <1>8. CallerKnows(p)'
    <2>1. copy[p].state \in {"succeeded", "failed", "cancelled"} => copy[p] = record
      BY DEF CancelOwned, JobInv, OwnerKnows, CopyIsCurrent
    <2>2. record.state = "succeeded" => Landed
      BY DEF JobInv, RecordKnowsCommit
    <2>3. CASE copy[p].state = "succeeded"
      BY <1>2, <2>1, <2>2, <2>3, SameChain DEF CallerKnows, CancelOwned, TypeOK, Goto, Respond
    <2>4. CASE copy[p].state \in {"failed", "cancelled"}
      BY <2>1, <2>4 DEF CallerKnows, CancelRecorded, CancelOwned, EndedAnswer, TypeOK, Goto, Respond
    <2>5. CASE copy[p].state \in {"queued", "interrupted"}
      <3>1. CASE Applied(p, CanCancel(record), Cancelled(record)) /\ Respond(p, "cancelled")
        <4>1. record'.state = "cancelled" /\ copy'[p] = record'
          BY <3>1 DEF Applied, Cancelled, TypeOK, JobRecord
        <4>2. answer'[p] = "cancelled" /\ pc'[p] = "return"
          BY <3>1 DEF Respond, Goto, TypeOK
        <4>. QED
          BY <4>1, <4>2 DEF CallerKnows, CancelRecorded
      <3>2. CASE Respond(p, "error")
        BY <3>2 DEF CallerKnows, Respond, Goto, TypeOK
      <3>. QED
        BY <2>5, <3>1, <3>2 DEF CancelOwned
    <2>. QED
      BY <2>3, <2>4, <2>5 DEF CancelOwned
  <1>. QED
    BY <1>1, <1>2, <1>4, <1>5, <1>6, <1>7, <1>8, SameChain, OwnerStep

\* Opened keeps JobInv.
LEMMA OpenedInv ==
    ASSUME TypeOK, TypeOK', JobInv, NEW p \in Procs, Opened(p)
    PROVE  JobInv'
  <1>1. OthersRest(p)
    BY DEF TypeOK, OthersRest, Opened, Applied, NotApplied, Goto, Respond
  <1>2. pc[p] \in Owning /\ owner' = owner /\ chain' = chain /\ won' = won
    BY DEF Opened, Owning
  <1>3. record' = record \/ (CanRestart(record) /\ record' = Restarted(record))
    BY DEF Opened, Applied, NotApplied
  <1>4. Advances(record, record')
    BY <1>3, ChangesAdvance DEF TypeOK, Advances
  <1>5. RecordKnowsCommit'
    BY <1>2, <1>3, Unlanded, StaysUnlanded, SameChain DEF CanRestart, Restarted, TypeOK, JobRecord, JobInv, RecordKnowsCommit, Generation
  <1>6. RecordShape'
    BY <1>3, ChangeShapes DEF JobInv, RecordShape
  <1>7. OwnerKnows(p)'
    BY DEF OwnerKnows, Opened, TypeOK, Goto, Respond
  <1>8. CallerKnows(p)'
    BY <1>2, SameChain DEF CallerKnows, Opened, TypeOK, JobInv, OwnerKnows, CopyIsCurrent, RecordKnowsCommit, Goto, Respond
  <1>. QED
    BY <1>1, <1>2, <1>4, <1>5, <1>6, <1>7, <1>8, SameChain, OwnerStep

\* Succeed keeps JobInv.
LEMMA SucceedInv ==
    ASSUME TypeOK, TypeOK', JobInv, NEW p \in Procs, Succeed(p)
    PROVE  JobInv'
  <1>1. OthersRest(p)
    BY DEF TypeOK, OthersRest, Succeed, Applied, NotApplied, Goto, Respond
  <1>2. pc[p] \in Owning /\ owner' = owner /\ chain' = chain /\ won' = won
    BY DEF Succeed, Owning
  <1>3. record' = record \/ (CanSucceed(record) /\ record' = Succeeded(record))
    BY DEF Succeed, Applied, NotApplied
  <1>4. Advances(record, record')
    BY <1>3, ChangesAdvance DEF TypeOK, Advances
  <1>5. RecordKnowsCommit'
    BY <1>2, <1>3, SameChain DEF Succeed, Succeeded, TypeOK, JobRecord, JobInv, OwnerKnows, RecordKnowsCommit, Generation
  <1>6. RecordShape'
    BY <1>3, ChangeShapes DEF JobInv, RecordShape, Succeed, OwnerKnows, AnnouncedBy
  <1>7. OwnerKnows(p)'
    BY DEF OwnerKnows, Succeed, TypeOK, Goto, Respond
  <1>8. CallerKnows(p)'
    BY <1>2, SameChain DEF CallerKnows, Succeed, TypeOK, JobInv, OwnerKnows, Goto, Respond
  <1>. QED
    BY <1>1, <1>2, <1>4, <1>5, <1>6, <1>7, <1>8, SameChain, OwnerStep

\* SettleEnd keeps JobInv.
LEMMA SettleEndInv ==
    ASSUME TypeOK, TypeOK', JobInv, NEW p \in Procs, SettleEnd(p)
    PROVE  JobInv'
  <1>1. OthersRest(p)
    BY DEF TypeOK, OthersRest, SettleEnd, Applied, NotApplied, Goto, Respond
  <1>2. pc[p] \in Owning /\ owner' = owner /\ chain' = chain /\ won' = won
    BY DEF SettleEnd, Owning
  <1>3. \/ record' = record
        \/ \E f : CanFail(record) /\ record' = Failed(record, f)
        \/ \E f : CanInterrupt(record) /\ record' = Interrupted(record, f)
    BY DEF SettleEnd, Applied, NotApplied
  <1>4. Advances(record, record')
    <2>1. record \in JobRecord /\ Advances(record, record)
      BY DEF TypeOK, Advances
    <2>. QED
      BY <1>3, <2>1, ChangesAdvance
  <1>5. RecordKnowsCommit'
    <2>1. ~Landed
      BY DEF JobInv, OwnerKnows, SettleEnd
    <2>2. record' = record \/ record'.state # "succeeded"
      BY <1>3 DEF Failed, Interrupted, TypeOK, JobRecord
    <2>. QED
      BY <1>2, <2>1, <2>2, StaysUnlanded DEF JobInv, RecordKnowsCommit
  <1>6. RecordShape'
    BY <1>3, ChangeShapes DEF JobInv, RecordShape
  <1>7. OwnerKnows(p)'
    BY DEF OwnerKnows, SettleEnd, TypeOK, Goto, Respond
  <1>8. CallerKnows(p)'
    BY DEF CallerKnows, SettleEnd, TypeOK, Goto, Respond
  <1>. QED
    BY <1>1, <1>2, <1>4, <1>5, <1>6, <1>7, <1>8, SameChain, OwnerStep

\* Announcing a commit keeps JobInv.
LEMMA RecordCommittingInv ==
    ASSUME TypeOK, TypeOK', JobInv, NEW p \in Procs, RecordCommitting(p)
    PROVE  JobInv'
  <1>1. OthersRest(p)
    BY DEF TypeOK, OthersRest, RecordCommitting, Applied, NotApplied, Goto, Respond
  <1>2. pc[p] \in Owning /\ owner' = owner /\ chain' = chain /\ won' = won
    BY DEF RecordCommitting, Owning
  <1>3. \/ record' = record
        \/ /\ Fresh(p) /\ CanCommit(record)
           /\ record' = Committing(record, JobCommit(OperationOf(p), expected[p]))
    BY DEF RecordCommitting, Applied, NotApplied
  <1>4. Advances(record, record')
    <2>1. record \in JobRecord /\ Advances(record, record)
      BY DEF TypeOK, Advances
    <2>. QED
      BY <1>3, <2>1, ChangesAdvance
  <1>5. RecordKnowsCommit'
    <2>1. ~Landed
      BY DEF JobInv, OwnerKnows, RecordCommitting
    <2>2. record' = record \/ record'.state # "succeeded"
      BY <1>3 DEF Committing, TypeOK, JobRecord
    <2>. QED
      BY <1>2, <2>1, <2>2, StaysUnlanded DEF JobInv, RecordKnowsCommit
  <1>6. RecordShape'
    <2>1. CASE record' = record
      BY <2>1 DEF JobInv, RecordShape
    <2>2. CASE record' = Committing(record, JobCommit(OperationOf(p), expected[p])) /\ Fresh(p) /\ CanCommit(record)
      BY <2>2 DEF JobInv, RecordShape, Committing, JobCommit, OperationOf, Fresh, CanCommit,
                  transition_to, Transitions, TypeOK, JobRecord
    <2>. QED
      BY <1>3, <2>1, <2>2
  <1>7. OwnerKnows(p)'
    <2>1. ~Landed'
      BY <1>2, SameChain DEF JobInv, OwnerKnows, RecordCommitting
    <2>2. pc'[p] = "publish" => AnnouncedBy(p)'
      <3>. DEFINE c == JobCommit(OperationOf(p), expected[p])
      <3>1. pc'[p] = "publish" => Fresh(p) /\ record' = Committing(record, c) /\ copy'[p] = record'
        BY DEF RecordCommitting, Applied, TypeOK, Goto
      <3>2. LET r == Committing(record, c) IN
              r.state = "committing" /\ r.commit = c /\ r.epoch = record.epoch /\ r.attempt = record.attempt
        BY DEF Committing, TypeOK, JobRecord
      <3>3. expected' = expected
        BY DEF RecordCommitting
      <3>. QED
        BY <3>1, <3>2, <3>3 DEF AnnouncedBy, OperationOf, Fresh
    <2>. QED
      BY <2>1, <2>2 DEF OwnerKnows, RecordCommitting, TypeOK, Goto
  <1>8. CallerKnows(p)'
    BY DEF CallerKnows, RecordCommitting, TypeOK, Goto
  <1>. QED
    BY <1>1, <1>2, <1>4, <1>5, <1>6, <1>7, <1>8, SameChain, OwnerStep

\* ReadRecord keeps JobInv.
LEMMA ReadRecordInv ==
    ASSUME TypeOK, TypeOK', JobInv, NEW p \in Procs, ReadRecord(p)
    PROVE  JobInv'
  <1>1. OthersRest(p)
    BY DEF TypeOK, OthersRest, ReadRecord, Applied, NotApplied, Goto, Respond
  <1>2. pc[p] \in Owning /\ owner' = owner /\ chain' = chain /\ won' = won
    BY DEF ReadRecord, Owning
  <1>3. record' = record \/ (record.state = "absent" /\ record' = Queued)
    BY DEF ReadRecord
  <1>4. Advances(record, record')
    BY <1>3 DEF JobInv, RecordShape, Absent, Queued, Advances, is_terminal
  <1>5. RecordKnowsCommit'
    <2>1. record' = record \/ (~Landed /\ record'.state # "succeeded")
      BY <1>3, Unlanded DEF Queued
    <2>. QED
      BY <1>2, <2>1, StaysUnlanded, SameChain DEF JobInv, RecordKnowsCommit, Generation
  <1>6. RecordShape'
    BY <1>3 DEF JobInv, RecordShape, Queued
  <1>7. OwnerKnows(p)'
    BY DEF OwnerKnows, CopyIsCurrent, ReadRecord, Queued, TypeOK, Goto, Respond
  <1>8. CallerKnows(p)'
    BY DEF CallerKnows, ReadRecord, TypeOK, Goto, Respond
  <1>. QED
    BY <1>1, <1>2, <1>4, <1>5, <1>6, <1>7, <1>8, SameChain, OwnerStep

\* Reconciling a predecessor's attempt keeps JobInv: the chain decides whether
\* it landed.
LEMMA ReconcileInv ==
    ASSUME TypeOK, TypeOK', JobInv, NEW p \in Procs, Reconcile(p)
    PROVE  JobInv'
  <1>1. OthersRest(p)
    BY DEF TypeOK, OthersRest, Reconcile, Applied, NotApplied, Goto, Respond
  <1>2. pc[p] \in Owning /\ owner' = owner /\ chain' = chain /\ won' = won
    BY DEF Reconcile, Owning
  <1>3. \/ record' = record
        \/ CanFail(record) /\ record' = Failed(record, <<>>) /\ ~Landed
        \/ CanInterrupt(record) /\ record' = Interrupted(record, <<>>) /\ ~Landed
        \/ CanCancel(record) /\ record' = Cancelled(record)
        \/ record.state = "committing" /\ CanSucceed(record) /\ record' = Succeeded(record) /\ Landed
    <2>1. copy[p].state \in {"committing", "cancelling"} => copy[p] = record
      BY DEF Reconcile, JobInv, OwnerKnows, CopyIsCurrent
    <2>2. copy[p].state = "running" => record.state \in {"running", "cancelling"}
      BY DEF Reconcile, JobInv, OwnerKnows, CopyIsCurrent, CancelRequested, TypeOK, JobRecord
    <2>3. copy[p].state = "running" => ~Landed
      BY <2>2, Unlanded
    <2>4. copy[p].state = "committing" =>
              (committed_generation(copy[p].commit.op, copy[p].commit.observed) <=> Landed)
      BY <2>1, LedgerIsRight
    <2>. QED
      BY <2>1, <2>3, <2>4 DEF Reconcile, Applied, NotApplied
  <1>4. Advances(record, record')
    <2>1. record \in JobRecord /\ Advances(record, record)
      BY DEF TypeOK, Advances
    <2>. QED
      BY <1>3, <2>1, ChangesAdvance
  <1>5. RecordKnowsCommit'
    <2>1. CASE record' = record
      BY <1>2, <2>1 DEF JobInv, RecordKnowsCommit, Landed, Generation
    <2>2. CASE ~Landed /\ record'.state # "succeeded"
      BY <1>2, <2>2, StaysUnlanded
    <2>3. CASE Landed /\ record.state = "committing" /\ record' = Succeeded(record)
      BY <1>2, <2>3, SameChain DEF Succeeded, TypeOK, JobRecord, JobInv, RecordKnowsCommit, Generation
    <2>. QED
      BY <1>3, <2>1, <2>2, <2>3, Unlanded DEF Failed, Interrupted, Cancelled, CanCancel, transition_to, Transitions, TypeOK, JobRecord
  <1>6. RecordShape'
    BY <1>3, ChangeShapes DEF JobInv, RecordShape
  <1>7. OwnerKnows(p)'
    <2>1. CASE record' = record /\ copy' = copy /\ ~claims_an_owner(copy[p].state) /\ pc' = [pc EXCEPT ![p] = "opened"]
      BY <2>1 DEF JobInv, OwnerKnows, CopyIsCurrent, Reconcile, TypeOK
    <2>2. CASE copy' = [copy EXCEPT ![p] = record'] /\ pc' = [pc EXCEPT ![p] = "opened"]
               /\ record'.state \in {"failed", "interrupted", "cancelled", "succeeded"}
      BY <2>2 DEF OwnerKnows, CopyIsCurrent, claims_an_owner, TypeOK
    <2>3. CASE pc' = [pc EXCEPT ![p] = "return"]
      BY <2>3 DEF OwnerKnows, TypeOK
    <2>4. /\ Succeeded(record).state = "succeeded"
          /\ Cancelled(record).state = "cancelled"
          /\ Failed(record, <<>>).state = "failed"
          /\ Interrupted(record, <<>>).state = "interrupted"
      BY DEF Succeeded, Cancelled, Failed, Interrupted, TypeOK, JobRecord
    <2>. QED
      BY <2>1, <2>2, <2>3, <2>4 DEF Reconcile, Applied, Goto, Respond
  <1>8. CallerKnows(p)'
    BY DEF CallerKnows, Reconcile, TypeOK, Goto, Respond
  <1>. QED
    BY <1>1, <1>2, <1>4, <1>5, <1>6, <1>7, <1>8, SameChain, OwnerStep

-----------------------------------------------------------------------------
(* A cancel request changes the record under its owner.                    *)

\* A cancel request keeps JobInv: it is only recorded over an attempt that has
\* announced no commit.
LEMMA RequestCancelInv ==
    ASSUME TypeOK, TypeOK', JobInv, NEW p \in Procs, RequestCancel(p)
    PROVE  JobInv'
  <1>1. OthersRest(p)
    BY DEF TypeOK, OthersRest, RequestCancel, Goto, Respond
  <1>2. owner' = owner /\ chain' = chain /\ won' = won
    BY DEF RequestCancel
  <1>3. \/ record' = record
        \/ record.state \in {"queued", "running"} /\ record' = CancelRequested(record)
    BY DEF RequestCancel
  <1>4. Advances(record, record')
    <2>1. record \in JobRecord /\ Advances(record, record)
      BY DEF TypeOK, Advances
    <2>. QED
      BY <1>3, <2>1, ChangesAdvance DEF CanRequestCancel, transition_to, Transitions
  <1>5. RecordKnowsCommit'
    <2>1. CASE record' = record
      BY <1>2, <2>1 DEF JobInv, RecordKnowsCommit, Landed, Generation
    <2>2. CASE record.state \in {"queued", "running"} /\ record' = CancelRequested(record)
      BY <1>2, <2>2, Unlanded, StaysUnlanded DEF CancelRequested, TypeOK, JobRecord
    <2>. QED
      BY <1>3, <2>1, <2>2
  <1>6. RecordShape'
    BY <1>3, ChangeShapes DEF JobInv, RecordShape
  <1>7. Ownership'
    BY <1>1, <1>2 DEF TypeOK, JobInv, Ownership, Owning, OthersRest, RequestCancel, Goto, Respond
  <1>8. OwnerKnows(p)'
    BY DEF OwnerKnows, RequestCancel, TypeOK, Goto, Respond
  <1>9. CallerKnows(p)'
    <2>1. record.state = "succeeded" => Landed'
      BY <1>2, SameChain DEF JobInv, RecordKnowsCommit
    <2>2. copy'[p] = record /\ record.epoch = record'.epoch
      BY <1>3 DEF RequestCancel, CancelRequested, TypeOK, JobRecord
    <2>3. pc'[p] = "return" /\ answer'[p] \in {"cancelled", "requested"} =>
              record'.state \in {"cancelling", "cancelled"}
      <3>1. EndedAnswer(record.state) \in {"cancelled", "requested"} => record.state = "cancelled"
        BY DEF EndedAnswer
      <3>2. CancelRequested(record).state = "cancelling"
        BY DEF CancelRequested, TypeOK, JobRecord
      <3>. QED
        BY <3>1, <3>2 DEF RequestCancel, TypeOK, Goto, Respond
    <2>4. pc'[p] \in {"return", "own"}
      BY DEF RequestCancel, TypeOK, Goto, Respond
    <2>5. pc'[p] = "return" => answer'[p] \notin {"committed", "replayed"}
      BY DEF RequestCancel, EndedAnswer, TypeOK, Goto, Respond
    <2>. QED
      BY <2>1, <2>2, <2>3, <2>4, <2>5 DEF CallerKnows, CancelRecorded
  <1>10. ASSUME NEW q \in Procs \ {p} PROVE OwnerKnows(q)'
    <2>1. CASE record' = record
      BY <1>1, <1>2, <2>1, SameChain DEF JobInv, OthersRest, OwnerKnows, CopyIsCurrent, AnnouncedBy, OperationOf
    <2>2. CASE record.state \in {"queued", "running"} /\ record' = CancelRequested(record)
      <3>1. pc[q] \notin {"publish", "ledger", "head", "succeed"}
        BY <2>2 DEF JobInv, OwnerKnows, AnnouncedBy
      <3>2. CopyIsCurrent(q) => copy[q] = record
        BY <2>2 DEF CopyIsCurrent, CancelRequested, TypeOK, JobRecord
      <3>. QED
        BY <1>1, <1>2, <2>2, <3>1, <3>2, SameChain DEF JobInv, OthersRest, OwnerKnows, CopyIsCurrent
    <2>. QED
      BY <1>3, <2>1, <2>2
  <1>11. \A q \in Procs : OwnerKnows(q)' /\ CallerKnows(q)'
    BY <1>1, <1>2, <1>4, <1>8, <1>9, <1>10, CallerRests, SameChain DEF JobInv
  <1>12. \A e \in won' : CancelRecorded(e)'
    BY <1>2, <1>4, CancelStays DEF JobInv, TypeOK
  <1>. QED
    BY <1>5, <1>6, <1>7, <1>11, <1>12 DEF JobInv

-----------------------------------------------------------------------------
(* Steps that commit a generation.                                         *)

\* What an appended generation adds to the chain.
LEMMA AppendedChain ==
    ASSUME TypeOK, NEW op \in Operation, chain' = Append(chain, op)
    PROVE  /\ Generation \in Nat
           /\ Generation' = Generation + 1
           /\ \A g \in 1..Generation : chain'[g] = chain[g]
           /\ chain'[Generation + 1] = op
           /\ Landed' <=> Landed \/ IsOurs(op)
  <1>1. chain \in Seq(Operation)
    BY DEF TypeOK
  <1>2. /\ Generation \in Nat
        /\ Generation' = Generation + 1
        /\ \A g \in 1..Generation : chain'[g] = chain[g]
        /\ chain'[Generation + 1] = op
    BY <1>1 DEF Generation
  <1>3. \A g \in 1..Generation' : g \in 1..Generation \/ g = Generation + 1
    BY <1>2
  <1>4. Landed' <=> Landed \/ IsOurs(op)
    <2>1. ASSUME Landed PROVE Landed'
      <3>1. PICK g \in 1..Generation : IsOurs(chain[g])
        BY <2>1 DEF Landed
      <3>2. g \in 1..Generation'
        BY <1>2, <3>1
      <3>3. chain'[g] = chain[g]
        BY <1>2, <3>1, Zenon
      <3>. QED
        BY <3>1, <3>2, <3>3 DEF Landed, IsOurs
    <2>2. ASSUME IsOurs(op) PROVE Landed'
      <3>1. Generation + 1 \in 1..Generation' /\ IsOurs(chain'[Generation + 1])
        BY <1>2, <2>2
      <3>. QED
        BY <3>1 DEF Landed, IsOurs
    <2>3. ASSUME Landed' PROVE Landed \/ IsOurs(op)
      <3>1. PICK g \in 1..Generation' : IsOurs(chain'[g])
        BY <2>3 DEF Landed, IsOurs
      <3>. QED
        BY <1>2, <1>3, <3>1 DEF Landed
    <2>. QED
      BY <2>1, <2>2, <2>3
  <1>. QED
    BY <1>2, <1>4

\* A generation of another operation is not the job's.
LEMMA OtherIsNotOurs == Other \in Operation /\ ~IsOurs(Other)
  BY OtherType DEF Other, IsOurs, commit_operation_id

\* A generation of another operation keeps JobInv.
LEMMA OtherCommitInv ==
    ASSUME TypeOK, TypeOK', JobInv, OtherCommit
    PROVE  JobInv'
  <1>1. /\ record' = record /\ owner' = owner /\ won' = won
        /\ pc' = pc /\ copy' = copy /\ expected' = expected /\ answer' = answer
    BY DEF OtherCommit, procVars
  <1>2. /\ Generation \in Nat /\ Generation' = Generation + 1
        /\ \A g \in 1..Generation : chain'[g] = chain[g]
        /\ ~IsOurs(chain'[Generation + 1])
        /\ Landed' <=> Landed
    BY AppendedChain, OtherIsNotOurs DEF OtherCommit
  <1>3. RecordKnowsCommit'
    <2>1. ASSUME NEW g \in 1..Generation', IsOurs(chain'[g])
          PROVE  g \in 1..Generation /\ IsOurs(chain[g]) /\ chain'[g] = chain[g]
      BY <1>2, <2>1
    <2>2. record.state = "succeeded" => Landed'
      BY <1>2 DEF JobInv, RecordKnowsCommit
    <2>. QED
      BY <1>1, <2>1, <2>2 DEF JobInv, RecordKnowsCommit, IsOurs
  <1>4. Ownership' /\ RecordShape' /\ \A e \in won' : CancelRecorded(e)'
    BY <1>1 DEF JobInv, Ownership, RecordShape, CancelRecorded
  <1>5. \A q \in Procs : OwnerKnows(q)'
    BY <1>1, <1>2 DEF JobInv, OwnerKnows, CopyIsCurrent, AnnouncedBy, OperationOf
  <1>6. \A q \in Procs : CallerKnows(q)'
    BY <1>1, <1>2 DEF JobInv, CallerKnows, CancelRecorded
  <1>. QED
    BY <1>3, <1>4, <1>5, <1>6 DEF JobInv

\* Publishing keeps JobInv: the generation added is the announced one, and the
\* fence keeps a second one out.
LEMMA PublishInv ==
    ASSUME TypeOK, TypeOK', JobInv, NEW p \in Procs, Publish(p)
    PROVE  JobInv'
  <1>1. OthersRest(p)
    BY DEF TypeOK, OthersRest, Publish, Goto
  <1>2. /\ pc[p] \in Owning /\ owner' = owner /\ record' = record /\ won' = won
        /\ copy' = copy /\ expected' = expected
    BY DEF Publish, Owning
  <1>3. AnnouncedBy(p) /\ ~Landed
    BY DEF Publish, JobInv, OwnerKnows
  <1>4. AnnouncedBy(p)'
    BY <1>2, <1>3 DEF AnnouncedBy, OperationOf
  <1>5. IsOurs(OperationOf(p))
    BY <1>3 DEF JobInv, RecordShape, AnnouncedBy, OperationOf, IsOurs, commit_operation_id
  <1>6. pc'[p] = "ledger" \/ (pc'[p] = "succeed" /\ Landed')
    <2>1. CASE chain' = Append(chain, OperationOf(p))
      BY <1>5, <2>1, AppendedChain, OperationType DEF Publish, TypeOK, Goto
    <2>2. CASE chain' = chain /\ Generation = expected[p] + 1 /\ chain[Generation] = OperationOf(p)
      <3>1. Generation \in 1..Generation
        BY <2>2, ChainType DEF TypeOK
      <3>. QED
        BY <1>3, <1>5, <2>2, <3>1 DEF Landed
    <2>3. \/ pc' = [pc EXCEPT ![p] = "ledger"]
          \/ /\ pc' = [pc EXCEPT ![p] = "succeed"]
             /\ \/ chain' = Append(chain, OperationOf(p))
                \/ chain' = chain /\ Generation = expected[p] + 1 /\ chain[Generation] = OperationOf(p)
      BY DEF Publish, Goto
    <2>4. pc \in [Procs -> Pc]
      BY DEF TypeOK
    <2>5. CASE pc' = [pc EXCEPT ![p] = "ledger"]
      BY <2>4, <2>5
    <2>. QED
      BY <2>1, <2>2, <2>3, <2>5
  <1>7. OwnerKnows(p)'
    BY <1>4, <1>6 DEF OwnerKnows
  <1>8. CallerKnows(p)'
    BY <1>6 DEF CallerKnows
  <1>9. RecordKnowsCommit'
    <2>1. record.state = "committing"
      BY <1>3 DEF AnnouncedBy
    <2>2. CASE chain' = chain
      BY <1>2, <1>3, <2>1, <2>2, StaysUnlanded
    <2>3. CASE chain' = Append(chain, OperationOf(p)) /\ Generation = expected[p]
      <3>1. /\ Generation \in Nat /\ Generation' = Generation + 1
            /\ \A g \in 1..Generation : chain'[g] = chain[g]
            /\ chain'[Generation + 1] = OperationOf(p)
        BY <2>3, AppendedChain, OperationType
      <3>2. ASSUME NEW g \in 1..Generation', IsOurs(chain'[g]) PROVE g = Generation + 1
        BY <1>3, <3>1, <3>2 DEF Landed
      <3>. QED
        <4>1. record.commit.op = OperationOf(p) /\ record.commit.observed = expected[p]
          BY <1>3 DEF AnnouncedBy, JobCommit
        <4>. QED
          BY <1>2, <2>1, <2>3, <3>1, <3>2, <4>1 DEF RecordKnowsCommit, IsOurs
    <2>. QED
      BY <2>2, <2>3 DEF Publish
  <1>10. RecordShape' /\ Advances(record, record')
    BY <1>2 DEF JobInv, RecordShape, Advances
  <1>. QED
    BY <1>1, <1>2, <1>3, <1>7, <1>8, <1>9, <1>10, OwnerStep

-----------------------------------------------------------------------------

\* JobInv holds initially.
LEMMA JobInvInit == Init => JobInv
  <1>. SUFFICES ASSUME Init PROVE JobInv
    OBVIOUS
  <1>1. Generation = 0
    BY DEF Init, Generation
  <1>2. RecordKnowsCommit /\ RecordShape
    BY <1>1 DEF Init, RecordKnowsCommit, RecordShape, Absent, Queued
  <1>. QED
    BY <1>2 DEF Init, JobInv, Ownership, Owning, OwnerKnows, CallerKnows

\* Every step keeps JobInv, one lemma per action.
LEMMA JobInvStep ==
    ASSUME ~LedgerMayFail, TypeOK, JobInv, [Next]_vars
    PROVE  JobInv'
  <1>1. TypeOK'
    BY TypeStep
  <1>2. ASSUME NEW p \in Procs, Begin(p) \/ Step(p) \/ Crash(p) PROVE JobInv'
    BY <1>1, <1>2, BeginInv, CrashInv, TakeOwnerLockInv, ReadRecordInv, ReconcileInv,
       OpenedInv, BindInv, StartInv, WorkInv, RecordCommittingInv, RefusedInv, CancelWonInv,
       PublishInv, LedgerInv, ReadHeadInv, SucceedInv, SettleInv, SettleCancelInv,
       SettleEndInv, RequestCancelInv, CancelOwnedInv, ViewInv, ProbeInv, ProbedInv,
       StatusOwnedInv, ReturnInv
       DEF Step
  <1>3. CASE OtherCommit
    BY <1>1, <1>3, OtherCommitInv
  <1>4. CASE UNCHANGED vars
    BY <1>4 DEF vars, jobVars, procVars, JobInv, Ownership, RecordKnowsCommit, RecordShape,
       Generation, Landed, OwnerKnows, CopyIsCurrent, AnnouncedBy, OperationOf, CallerKnows,
       CancelRecorded
  <1>. QED
    BY <1>2, <1>3, <1>4 DEF Next

\* JobInv holds in every state the program reaches, if a failed publication can
\* always ask the chain whether it landed.
THEOREM JobInvariant ==
    ASSUME ~LedgerMayFail
    PROVE  Spec => []JobInv
  BY TypeInit, TypeStep, JobInvInit, JobInvStep, PTL DEF Spec
=============================================================================
