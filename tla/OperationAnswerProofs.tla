----------------------- MODULE OperationAnswerProofs -----------------------
(***************************************************************************)
(* Proofs about what OperationBinding promises its callers.  Bindings are  *)
(* kept, and a job at work is indexed, as long as a job chosen for pruning *)
(* is not taken meanwhile (~PruneRaces).  A request is answered from its   *)
(* first result, and published once, as long as moreover no two calls with *)
(* one id overlap (~SameIdOverlaps).  Runs binding_prune and               *)
(* binding_overlap show that neither condition can be dropped.             *)
(***************************************************************************)
EXTENDS OperationBindingProofs

\* A directory has a record that says who it works for, or none.
RecordInv ==
    \A j \in Jobs :
        /\ rec[j].st = "absent" => rec[j] = NoRecord
        /\ rec[j].st = "bare" => rec[j].ops = {}
        /\ rec[j].ops \subseteq Ops

\* No directory is removed from under a process: a job that is being pruned has
\* no owner and no binding.
Removable(c) ==
    LET j == call[c].victim IN
    /\ owner[j] = NoProc /\ rec[j].ops = {}
    /\ rec[j].st \in Terminal \cup {"absent"}
    /\ At(c, "prune_dir") => bound[j] # j
    /\ At(c, "prune_index") => rec[j].st = "absent"

VictimInv ==
    \A c \in Callers : ~call[c].lost /\ (call[c].at \in Pruning => Removable(c))

\* What the record r of the job that the call k owns says at each place; in is
\* whether its commit is in the chain.
Fits(k, r, in) ==
    /\ r.st # "absent"
    /\ k.at # "record" => r.st # "bare" /\ r.req = k.req
    /\ k.at = "settle" => r.st \in {"queued", "interrupted"} \cup Terminal
    /\ k.at = "bind" => r.st \in {"queued", "interrupted", "succeeded"}
    /\ k.at \in {"bind_file", "start"} => r.st \in {"queued", "interrupted"}
    /\ k.at \in {"bind_reply", "alias"} => r.st = "succeeded"
    /\ k.at = "work" => r.st = "running"
    /\ k.at = "publish" => r.st = "committing" /\ ~in
    /\ k.at = "succeed" => r.st = "committing" /\ in
    /\ k.at \in {"bind_file", "bind_reply", "start", "work", "publish", "succeed"} =>
           k.op = NoOp \/ k.op \in r.ops

StateInv ==
    \A c \in Callers : call[c].at \in Owning => Fits(call[c], rec[Job(c)], Job(c) \in landed)

\* The job of a process past index_job is indexed.
IndexInv ==
    \A c \in Callers : call[c].at \in Owning \ {"record", "index"} => Job(c) \in index

\* The invariant, with the condition that it holds under.
PruneInv ==
    /\ ~PruneRaces
    /\ BindingTypeOK /\ PlaceInv /\ HoldInv
    /\ RecordInv /\ VictimInv /\ StateInv /\ IndexInv /\ BindingsAreKept

\* One call at a time works for an id.  Past the lookups its id has answered and
\* published nothing, and from the start of the work it is bound to the job.
IdInv ==
    /\ \A c, d \in Callers : c # d /\ call[c].op # NoOp => call[c].op # call[d].op
    /\ \A c \in Callers : call[c].op # NoOp =>
           /\ At(c, "view") => call[c].found = bound[call[c].op]
           /\ call[c].at \in {"start", "work", "publish", "succeed"} => bound[call[c].op] = Job(c)
           /\ call[c].at \notin {"idle", "ask", "view"} =>
                  \A r \in Requests : /\ <<call[c].op, r>> \notin answered
                                      /\ ~At(c, "succeed") => published[<<call[c].op, r>>] = 0

\* What was published under an id is found by its next call.
PublishedInv ==
    \A x \in Ops \X Requests :
        /\ published[x] <= 1
        /\ published[x] > 0 => LET j == bound[x[1]] IN
               /\ j # NoJob /\ rec[j].req = x[2]
               /\ rec[j].st = "succeeded" \/ (rec[j].st = "committing" /\ j \in landed)

\* The invariant, with the conditions that it holds under.
AnswerInv == ~SameIdOverlaps /\ PruneInv /\ IdInv /\ PublishedInv /\ AnsweredReplays

USE BindingNames, BindingBounds, BindingFlags

-----------------------------------------------------------------------------
(* What a step does to the records of the jobs.                            *)

\* Who may change the record of a job: its owner, a caller that reconciles it
\* for a lookup, a prune, or the caller that makes its directory.
LEMMA WhoChanges ==
    ASSUME BindingTypeOK, PlaceInv, NEW c \in Callers, Act(c)
    PROVE  \A j \in Jobs : rec'[j] # rec[j] =>
              \/ call[c].at \in Owning /\ j = Job(c)
              \/ /\ At(c, "view") /\ j = call[c].found
                 /\ owner[j] = NoProc /\ rec[j].st = "committing"
              \/ At(c, "prune_dir") /\ j = call[c].victim
              \/ At(c, "mkdir") /\ j = Job(c) /\ rec[j].st = "absent"
  <1>. USE DEF BindingTypeOK
  <1>1. CASE View(c)
    <2>1. UNCHANGED rec \/ \E s : rec' = [rec EXCEPT ![call[c].found].st = s]
      BY <1>1 DEF View, SetState
    <2>2. At(c, "view")
      BY <1>1 DEF View
    <2>3. UNCHANGED rec \/ (owner[call[c].found] = NoProc /\ rec[call[c].found].st = "committing")
      BY <1>1 DEF View
    <2>. QED
      BY <2>1, <2>2, <2>3
  <1>2. CASE PruneDirectory(c)
    BY <1>2 DEF PruneDirectory
  <1>3. CASE MakeDirectory(c)
    <2>1. At(c, "mkdir") /\ Job(c) \in Jobs
      BY <1>3, CallKnows DEF MakeDirectory, At, Chosen, CallsOK
    <2>2. rec' = [rec EXCEPT ![Job(c)].st = IF @ = "absent" THEN "bare" ELSE @]
      BY <1>3 DEF MakeDirectory
    <2>3. rec[Job(c)].st # "absent" => rec'[Job(c)] = rec[Job(c)]
      BY <2>1, <2>2 DEF Record
    <2>. QED
      BY <2>1, <2>2, <2>3
  <1>4. CASE WriteRecord(c)
    BY <1>4 DEF WriteRecord, At, Owning, Lost
  <1>5. CASE Reconcile(c)
    BY <1>5 DEF Reconcile, At, Owning, Lost, SetState
  <1>6. CASE Settle(c)
    BY <1>6 DEF Settle, At, Owning, Lost
  <1>7. CASE Bind(c)
    BY <1>7 DEF Bind, At, Owning, Lost
  <1>8. CASE Start(c)
    BY <1>8 DEF Start, At, Owning, Lost, SetState
  <1>9. CASE Succeed(c)
    BY <1>9 DEF Succeed, At, Owning, Lost, SetState
  <1>10. CASE Work(c)
    BY <1>10 DEF Work, At, Owning, Lost, Stop, SetState
  <1>11. CASE Publish(c)
    BY <1>11 DEF Publish, At, Owning, Lost, Stop, SetState
  <1>12. CASE UNCHANGED rec
    BY <1>12
  <1>. QED
    BY <1>1, <1>2, <1>3, <1>4, <1>5, <1>6, <1>7, <1>8, <1>9, <1>10, <1>11,
           <1>12 DEF Act, Step, disk, Begin, Ask, ReadBase, Open,
           PruneBinding, PruneIndex, Own, Index, BindFile, Alias, Crash

\* A process that owns a job holds its lock, and nobody prunes the job.
LEMMA OwnsJob ==
    ASSUME PruneInv, NEW c \in Callers, call[c].at \in Owning
    PROVE  /\ Job(c) \in Jobs /\ owner[Job(c)] = c /\ ~call[c].lost
           /\ Fits(call[c], rec[Job(c)], Job(c) \in landed)
           /\ \A d \in Callers : call[d].at \in Pruning => call[d].victim # Job(c)
  BY CallKnows DEF PruneInv, BindingTypeOK, CallsOK, HoldInv, VictimInv, Removable, StateInv, Chosen

\* A prune removes only what no other call has or wants.
LEMMA PrunedIsFree ==
    ASSUME PruneInv, NEW c \in Callers, PruneDirectory(c)
    PROVE  /\ call[c].victim \in Jobs /\ Others(c)
           /\ owner[call[c].victim] = NoProc
           /\ \A i \in Ids : bound[i] # call[c].victim
  <1>. DEFINE v == call[c].victim
  <1>1. At(c, "prune_dir") /\ Removable(c) /\ v \in Jobs
    BY CallKnows DEF PruneInv, BindingTypeOK, CallsOK, PruneDirectory, VictimInv, At, Pruning
  <1>2. ~End(c) => Others(c)
    <2>1. owner[v] = NoProc
      BY <1>1 DEF Removable
    <2>2. ~End(c) => \A d \in Callers \ {c} : owner[v] # d => call'[d] = call[d]
      BY PruneDirectoryMoves DEF PruneInv, BindingTypeOK, CallsOK
    <2>. QED
      BY <2>1, <2>2 DEF Others
  <1>3. End(c) => Others(c)
    BY EndMoves DEF PruneInv, BindingTypeOK, CallsOK
  <1>4. ASSUME NEW i \in Ids, bound[i] = v
        PROVE  FALSE
    BY <1>1, <1>4 DEF PruneInv, BindingsAreKept, Removable
  <1>. QED
    BY <1>1, <1>2, <1>3, <1>4 DEF Removable

\* No call but that of the process that steps moves.
LEMMA OthersStay ==
    ASSUME PruneInv, NEW c \in Callers, Act(c)
    PROVE  Others(c)
  <1>. USE DEF PruneInv, BindingTypeOK, CallsOK
  <1>1. CASE Begin(c)
    BY <1>1, BeginMoves
  <1>2. CASE PruneDirectory(c)
    BY <1>2, PrunedIsFree
  <1>3. CASE Own(c)
    BY <1>3, GotoMoves, EndMoves DEF Own, Moved, Places
  <1>4. CASE End(c)
    BY <1>4, EndMoves
  <1>. QED
    BY <1>1, <1>2, <1>3, <1>4, StayOrEnd

\* A commit enters or leaves the chain by its job's owner.
LEMMA LandedKept ==
    ASSUME NEW c \in Callers, Act(c), NEW j, call[c].at \in Owning => j # Job(c)
    PROVE  j \in landed' <=> j \in landed
  <1>1. CASE Work(c) \/ Publish(c)
    BY <1>1 DEF Work, Publish, Lost, Stop, At, Owning
  <1>2. CASE UNCHANGED landed
    BY <1>2
  <1>. QED
    BY <1>1, <1>2 DEF Act, Step, Lost, Begin, Ask, View, ReadBase, Open, PruneBinding, PruneDirectory,
                 PruneIndex, MakeDirectory, Own, WriteRecord, Index,
                 Reconcile, Settle, Bind, BindFile, Start, Succeed, Alias,
                 Crash

\* The record of a job that another process owns is left alone.
LEMMA OthersJobs ==
    ASSUME PruneInv, NEW c \in Callers, Act(c), NEW d \in Callers \ {c}, call[d].at \in Owning
    PROVE  /\ rec'[Job(d)] = rec[Job(d)]
           /\ Job(d) \in landed' <=> Job(d) \in landed
  <1>1. /\ Job(d) \in Jobs /\ owner[Job(d)] = d
        /\ rec[Job(d)].st # "absent"
        /\ call[c].at \in Pruning => call[c].victim # Job(d)
    BY OwnsJob DEF Fits
  <1>2. call[c].at \in Owning => Job(c) # Job(d)
    BY <1>1, OwnsJob
  <1>3. rec'[Job(d)] = rec[Job(d)]
    BY <1>1, <1>2, WhoChanges DEF PruneInv, At, Pruning
  <1>4. Job(d) \in landed' <=> Job(d) \in landed
    BY <1>2, LandedKept
  <1>. QED
    BY <1>3, <1>4

\* The record fits the place the owner goes to.
LEMMA OwnFits ==
    ASSUME PruneInv, NEW c \in Callers, Act(c), call'[c].at \in Owning
    PROVE  Fits(call'[c], rec'[Job(c)'], Job(c)' \in landed')
  <1>. USE DEF PruneInv, BindingTypeOK, CallsOK
  <1>1. CASE Own(c)
    <2>1. Exists(Job(c)) /\ Goto(c, "record") /\ UNCHANGED rec
      <3>1. End(c) => call'[c].at \notin Owning
        BY EndMoves DEF NoCall, Owning
      <3>. QED
        BY <1>1, <3>1 DEF Own, disk
    <2>2. call'[c].at = "record" /\ Job(c)' = Job(c)
      BY <2>1, GotoMoves DEF Moved, Places
    <2>. QED
      BY <2>1, <2>2 DEF Fits, Exists
  <1>2. ASSUME call[c].at \in Owning
        PROVE  Fits(call'[c], rec'[Job(c)'], Job(c)' \in landed')
    <2>1. Job(c) \in Jobs /\ Fits(call[c], rec[Job(c)], Job(c) \in landed) /\ ~call[c].lost
      BY <1>2, OwnsJob
    <2>2. ~End(c)
      BY EndMoves DEF NoCall, Owning
    <2>3. ~Lost(c)
      BY <2>1 DEF Lost
    <2>4. Job(c)' = Job(c) /\ Stands(c)
      BY <1>2, <2>2, StayOrEnd DEF Begin, PruneDirectory, Own, At, Owning
    <2>. DEFINE J == Job(c)
    <2>5. CASE WriteRecord(c)
      <3>1. /\ call'[c].at = "index"
            /\ UNCHANGED landed
            /\ \/ rec' = [rec EXCEPT ![J].st = "queued", ![J].req = call[c].req]
               \/ UNCHANGED rec /\ rec[J].st # "bare" /\ rec[J].req = call[c].req
        BY <2>5, <2>2, <2>3, GotoMoves DEF WriteRecord, Moved, Places
      <3>. QED
        BY <2>1, <2>4, <3>1 DEF Fits, Stands, Record, Terminal
    <2>6. CASE Index(c)
      <3>1. /\ call'[c].at = "reconcile" /\ call[c].at = "index"
            /\ UNCHANGED <<landed, rec>>
        BY <2>6, GotoMoves DEF Index, Moved, Places, At
      <3>. QED
        BY <2>1, <2>4, <3>1 DEF Fits, Stands, Record, Terminal
    <2>7. CASE Reconcile(c)
      <3>1. /\ call'[c].at = "settle" /\ call[c].at = "reconcile"
            /\ UNCHANGED landed
            /\ \E st \in Reconciled(J) : rec' = [rec EXCEPT ![J].st = st]
        BY <2>7, <2>2, <2>3, GotoMoves DEF Reconcile, SetState, Moved, Places,
               At
      <3>2. PICK st \in Reconciled(J) : rec' = [rec EXCEPT ![J].st = st]
        BY <3>1
      <3>3. rec[J].st \in States \ {"absent", "bare"}
        BY <2>1, <3>1 DEF Fits, Record
      <3>4. st \in {"queued", "interrupted"} \cup Terminal
        BY <3>3 DEF States, Reconciled, Terminal
      <3>5. rec'[J].st = st /\ rec'[J].req = rec[J].req
        BY <2>1, <3>2 DEF Record
      <3>. QED
        BY <2>1, <2>4, <3>1, <3>4, <3>5 DEF Fits, Stands, Terminal
    <2>8. CASE Settle(c)
      <3>1. /\ call'[c].at = IF call[c].op = NoOp THEN "start" ELSE "bind"
            /\ call[c].at = "settle"
            /\ call[c].op = NoOp => rec[J].st # "succeeded"
            /\ UNCHANGED landed
            /\ rec' = [rec EXCEPT ![J].st = IF @ = "ended" THEN "queued" ELSE @]
        BY <2>8, <2>2, <2>3, GotoMoves DEF Settle, Answer, Moved, Places, At
      <3>. QED
        BY <2>1, <2>4, <3>1 DEF Fits, Stands, Record, Terminal
    <2>9. CASE Bind(c)
      <3>1. /\ call'[c].at = IF rec[J].st = "succeeded" THEN "bind_reply" ELSE "bind_file"
            /\ call[c].at = "bind"
            /\ UNCHANGED landed
            /\ rec' = [rec EXCEPT ![J].ops = @ \cup {call[c].op}]
        BY <2>9, <2>2, <2>3, GotoMoves DEF Bind, AfterBind, Moved, Places, At
      <3>. QED
        BY <2>1, <2>4, <3>1 DEF Fits, Stands, Record, Terminal, PlaceInv, Knows
    <2>10. CASE BindFile(c)
      <3>1. /\ call'[c].at = "start" /\ call[c].at = "bind_file"
            /\ UNCHANGED <<landed, rec>>
        BY <2>10, <2>2, <2>3, GotoMoves DEF BindFile, Answer, Moved, Places,
               At
      <3>. QED
        BY <2>1, <2>4, <3>1 DEF Fits, Stands, Record, Terminal
    <2>11. CASE Start(c)
      <3>1. /\ call'[c].at = "work" /\ call[c].at = "start"
            /\ UNCHANGED landed
            /\ rec' = [rec EXCEPT ![J].st = "running"]
        BY <2>11, <2>2, <2>3, GotoMoves DEF Start, SetState, Moved, Places, At
      <3>. QED
        BY <2>1, <2>4, <3>1 DEF Fits, Stands, Record, Terminal
    <2>12. CASE Work(c)
      <3>1. /\ call'[c].at = "publish" /\ call[c].at = "work"
            /\ landed' = landed \ {J}
            /\ rec' = [rec EXCEPT ![J].st = "committing"]
        BY <2>12, <2>2, <2>3, GotoMoves DEF Work, Stop, SetState, Moved,
               Places, At
      <3>. QED
        BY <2>1, <2>4, <3>1 DEF Fits, Stands, Record, Terminal
    <2>13. CASE Publish(c)
      <3>1. /\ call'[c].at = "succeed" /\ call[c].at = "publish"
            /\ landed' = landed \cup {J} /\ UNCHANGED rec
        BY <2>13, <2>2, <2>3, GotoMoves DEF Publish, Stop, Moved, Places, At
      <3>. QED
        BY <2>1, <2>4, <3>1 DEF Fits, Stands, Record, Terminal
    <2>14. CASE Succeed(c)
      <3>1. /\ call'[c].at = "alias" /\ call[c].at = "succeed"
            /\ UNCHANGED landed
            /\ rec' = [rec EXCEPT ![J].st = "succeeded"]
        BY <2>14, <2>2, <2>3, GotoMoves DEF Succeed, Answer, SetState, Moved,
               Places, At
      <3>. QED
        BY <2>1, <2>4, <3>1 DEF Fits, Stands, Record, Terminal
    <2>15. CASE Alias(c) \/ Crash(c)
      BY <2>2, <2>15 DEF Alias, Answer, Crash
    <2>. QED
      BY <1>2, <2>5, <2>6, <2>7, <2>8, <2>9, <2>10, <2>11, <2>12, <2>13,
             <2>14, <2>15 DEF Act, Step, At, Owning, Begin, Ask, View,
             ReadBase, Open, PruneBinding, PruneDirectory, PruneIndex,
             MakeDirectory, Own
  <1>3. ASSUME call[c].at \notin Owning, ~Own(c)
        PROVE  FALSE
    <2>1. CASE Begin(c)
      BY <2>1, BeginMoves DEF Owning
    <2>2. CASE PruneDirectory(c)
      BY <2>2, PruneDirectoryMoves, EndMoves DEF NoCall, Owning
    <2>3. CASE End(c)
      BY <2>3, EndMoves DEF NoCall, Owning
    <2>. QED
      BY <1>3, <2>1, <2>2, <2>3, StayOrEnd
  <1>. QED
    BY <1>1, <1>2, <1>3

\* Every step keeps what the records of owned jobs say.
LEMMA StateStep ==
    ASSUME PruneInv, NEW c \in Callers, Act(c)
    PROVE  StateInv'
  <1>1. ASSUME NEW d \in Callers \ {c}, call'[d].at \in Owning
        PROVE  Fits(call'[d], rec'[Job(d)'], Job(d)' \in landed')
    <2>1. call'[d] = call[d] /\ Job(d)' = Job(d)
      BY OthersStay DEF Others, Job
    <2>2. /\ Fits(call[d], rec[Job(d)], Job(d) \in landed)
          /\ rec'[Job(d)] = rec[Job(d)]
          /\ Job(d) \in landed' <=> Job(d) \in landed
      BY <1>1, <2>1, OwnsJob, OthersJobs
    <2>. QED
      BY <2>1, <2>2 DEF Fits
  <1>. QED
    BY <1>1, OwnFits DEF StateInv, Job

\* What the next record s of a job keeps of its record r, unless it is pruned.
Keeps(r, s) ==
    /\ s.st \notin {"absent", "bare"}
    /\ r.ops \subseteq s.ops /\ s.ops \subseteq r.ops \cup Ops
    /\ r.st # "bare" => s.req = r.req
    /\ r.st = "succeeded" => s.st = "succeeded"

\* The job with record r has a result, whether or not its record says so yet.
Done(r, in) == r.st = "succeeded" \/ (r.st = "committing" /\ in)

\* What the owner of a job writes.
LEMMA OwnerWrites ==
    ASSUME PruneInv, NEW c \in Callers, Act(c), call[c].at \in Owning
    PROVE  /\ rec'[Job(c)] = rec[Job(c)] \/ Keeps(rec[Job(c)], rec'[Job(c)])
           /\ Done(rec[Job(c)], Job(c) \in landed) => Done(rec'[Job(c)], Job(c) \in landed')
  <1>. DEFINE J == Job(c)
  <1>. USE DEF PruneInv, BindingTypeOK, CallsOK
  <1>1. Job(c) \in Jobs /\ Fits(call[c], rec[Job(c)], Job(c) \in landed) /\ ~call[c].lost
    BY OwnsJob
  <1>2. ~Lost(c)
    BY <1>1 DEF Lost
  <1>3. CASE UNCHANGED <<rec, landed>>
    BY <1>3 DEF Done
  <1>4. CASE WriteRecord(c)
    <2>1. \/ UNCHANGED rec
          \/ rec[J].st = "bare" /\ rec' = [rec EXCEPT ![J].st = "queued", ![J].req = call[c].req]
      BY <1>2, <1>4 DEF WriteRecord
    <2>2. UNCHANGED landed
      BY <1>4 DEF WriteRecord, Lost
    <2>. QED
      BY <1>1, <2>1, <2>2 DEF Keeps, Done, Record
  <1>5. CASE Reconcile(c)
    <2>1. At(c, "reconcile") /\ UNCHANGED landed
      BY <1>5 DEF Reconcile, Lost
    <2>2. PICK st \in Reconciled(J) : rec' = [rec EXCEPT ![J].st = st]
      BY <1>2, <1>5 DEF Reconcile, SetState
    <2>3. rec[J].st \in States \ {"absent", "bare"}
      BY <1>1, <2>1 DEF Fits, Record, At
    <2>4. /\ st \notin {"absent", "bare"}
          /\ rec[J].st = "succeeded" \/ (rec[J].st = "committing" /\ J \in landed)
             => st = "succeeded"
      BY <2>3 DEF States, Reconciled, Terminal
    <2>5. rec'[J].st = st /\ rec'[J].req = rec[J].req /\ rec'[J].ops = rec[J].ops
      BY <1>1, <2>2 DEF Record
    <2>. QED
      BY <2>1, <2>4, <2>5 DEF Keeps, Done
  <1>6. CASE Settle(c)
    <2>1. At(c, "settle") /\ UNCHANGED landed
      BY <1>6 DEF Settle, Lost
    <2>2. \/ UNCHANGED rec
          \/ rec' = [rec EXCEPT ![J].st = IF @ = "ended" THEN "queued" ELSE @]
      BY <1>2, <1>6 DEF Settle
    <2>. QED
      BY <1>1, <2>1, <2>2 DEF Keeps, Done, Record, Fits, At
  <1>7. CASE Bind(c)
    <2>1. At(c, "bind") /\ UNCHANGED landed /\ call[c].op \in Ops
      BY <1>7, CallKnows DEF Bind, Lost, PlaceInv, Knows, At
    <2>2. UNCHANGED rec \/ rec' = [rec EXCEPT ![J].ops = @ \cup {call[c].op}]
      BY <1>2, <1>7 DEF Bind
    <2>. QED
      BY <1>1, <2>1, <2>2 DEF Keeps, Done, Record, Fits, At
  <1>8. CASE Start(c)
    <2>1. At(c, "start") /\ UNCHANGED landed /\ rec' = [rec EXCEPT ![J].st = "running"]
      BY <1>2, <1>8 DEF Start, SetState
    <2>. QED
      BY <1>1, <2>1 DEF Keeps, Done, Record, Fits, At
  <1>9. CASE Work(c)
    <2>1. At(c, "work") /\ \E st \in {"committing", "interrupted", "ended"} :
                                rec' = [rec EXCEPT ![J].st = st]
      BY <1>2, <1>9 DEF Work, SetState, Stop
    <2>. QED
      BY <1>1, <2>1 DEF Keeps, Done, Record, Fits, At
  <1>10. CASE Publish(c)
    <2>1. At(c, "publish")
      BY <1>10 DEF Publish
    <2>2. UNCHANGED rec \/ \E st \in {"interrupted", "ended"} : rec' = [rec EXCEPT ![J].st = st]
      BY <1>2, <1>10 DEF Publish, SetState, Stop
    <2>. QED
      BY <1>1, <2>1, <2>2 DEF Keeps, Done, Record, Fits, At
  <1>11. CASE Succeed(c)
    <2>1. At(c, "succeed") /\ UNCHANGED landed /\ rec' = [rec EXCEPT ![J].st = "succeeded"]
      BY <1>2, <1>11 DEF Succeed, SetState
    <2>. QED
      BY <1>1, <2>1 DEF Keeps, Done, Record, Fits, At
  <1>. QED
    BY <1>3, <1>4, <1>5, <1>6, <1>7, <1>8, <1>9, <1>10, <1>11
       DEF Act, Step, At, Owning, disk, Begin, Ask, View, ReadBase, Open, PruneBinding,
           PruneDirectory, PruneIndex, MakeDirectory, Own, Index, BindFile, Alias, Crash

\* What a lookup writes for a job whose owner is gone.
LEMMA LookupWrites ==
    ASSUME PruneInv, NEW c \in Callers, Act(c), At(c, "view")
    PROVE  LET j == call[c].found IN
           /\ rec'[j] = rec[j] \/ Keeps(rec[j], rec'[j])
           /\ Done(rec[j], j \in landed) => Done(rec'[j], j \in landed')
  <1>. DEFINE j == call[c].found
  <1>. USE DEF PruneInv, BindingTypeOK, CallsOK
  <1>1. j \in Jobs
    BY CallKnows
  <1>2. View(c) \/ Crash(c)
    BY DEF Act, Step, At, Begin, Ask, ReadBase, Open, PruneBinding, PruneDirectory,
                   PruneIndex, MakeDirectory, Own, WriteRecord, Index,
                   Reconcile, Settle, Bind, BindFile, Start, Succeed, Alias,
                   Work, Publish
  <1>3. UNCHANGED landed
    BY <1>2 DEF View, Crash
  <1>4. \/ UNCHANGED rec
        \/ rec[j].st = "committing" /\ \E st \in Reconciled(j) : rec' = [rec EXCEPT ![j].st = st]
    BY <1>2 DEF View, Crash, SetState, disk
  <1>5. ASSUME rec[j].st = "committing", NEW st \in Reconciled(j), rec' = [rec EXCEPT ![j].st = st]
        PROVE  /\ Keeps(rec[j], rec'[j])
               /\ j \in landed => rec'[j].st = "succeeded"
    <2>1. st \in {"succeeded", "interrupted", "ended"} /\ (j \in landed => st = "succeeded")
      BY <1>5 DEF Reconciled
    <2>2. rec'[j].st = st /\ rec'[j].req = rec[j].req /\ rec'[j].ops = rec[j].ops
      BY <1>1, <1>5 DEF Record
    <2>. QED
      BY <1>5, <2>1, <2>2 DEF Keeps, Done
  <1>. QED
    BY <1>3, <1>4, <1>5 DEF Done

\* How the record of a job changes.
LEMMA RecordChanges ==
    ASSUME PruneInv, NEW c \in Callers, Act(c), NEW j \in Jobs
    PROVE  \/ /\ Done(rec[j], j \in landed) => Done(rec'[j], j \in landed')
              /\ \/ rec'[j] = rec[j]
                 \/ rec[j].st # "absent" /\ Keeps(rec[j], rec'[j])
           \/ PruneDirectory(c) /\ j = call[c].victim /\ rec'[j] = NoRecord
           \/ /\ MakeDirectory(c) /\ j = Job(c) /\ rec[j].st = "absent"
              /\ rec'[j].st = "bare" /\ rec'[j].ops = rec[j].ops
  <1>. USE DEF PruneInv, BindingTypeOK, CallsOK
  <1>1. CASE call[c].at \in Owning /\ j = Job(c)
    <2>1. rec[j].st # "absent"
      BY <1>1, OwnsJob DEF Fits
    <2>. QED
      BY <1>1, <2>1, OwnerWrites
  <1>2. ASSUME ~(call[c].at \in Owning /\ j = Job(c))
        PROVE  j \in landed' <=> j \in landed
    BY <1>2, LandedKept
  <1>3. CASE rec'[j] = rec[j]
    BY <1>1, <1>2, <1>3 DEF Done
  <1>4. CASE At(c, "view") /\ j = call[c].found /\ rec[j].st = "committing"
    BY <1>4, LookupWrites
  <1>5. CASE At(c, "prune_dir") /\ j = call[c].victim /\ rec'[j] # rec[j]
    <2>1. PruneDirectory(c)
      BY <1>5, ActAtPlace DEF Crash, disk
    <2>2. rec' = [rec EXCEPT ![j] = NoRecord]
      BY <1>5, <2>1 DEF PruneDirectory
    <2>. QED
      BY <1>5, <2>1, <2>2
  <1>6. CASE At(c, "mkdir") /\ j = Job(c) /\ rec[j].st = "absent" /\ rec'[j] # rec[j]
    <2>1. MakeDirectory(c)
      BY <1>6, ActAtPlace DEF Crash, disk
    <2>2. rec' = [rec EXCEPT ![j].st = IF @ = "absent" THEN "bare" ELSE @]
      BY <1>6, <2>1 DEF MakeDirectory
    <2>3. rec'[j].st = "bare" /\ rec'[j].ops = rec[j].ops
      BY <1>6, <2>2 DEF Record
    <2>. QED
      BY <1>6, <2>1, <2>3
  <1>. QED
    BY <1>1, <1>3, <1>4, <1>5, <1>6, WhoChanges

\* Every step keeps the records' invariant.
LEMMA RecordStep ==
    ASSUME PruneInv, NEW c \in Callers, Act(c)
    PROVE  RecordInv'
  <1>1. ASSUME NEW j \in Jobs
        PROVE  /\ rec'[j].st = "absent" => rec'[j] = NoRecord
               /\ rec'[j].st = "bare" => rec'[j].ops = {}
               /\ rec'[j].ops \subseteq Ops
    <2>1. /\ rec[j].st = "absent" => rec[j] = NoRecord
          /\ rec[j].st = "bare" => rec[j].ops = {}
          /\ rec[j].ops \subseteq Ops
      BY DEF PruneInv, RecordInv
    <2>2. CASE rec'[j] = rec[j]
      BY <2>1, <2>2
    <2>3. CASE Keeps(rec[j], rec'[j])
      BY <2>1, <2>3 DEF Keeps
    <2>4. CASE rec'[j] = NoRecord
      BY <2>4 DEF NoRecord
    <2>5. CASE rec[j].st = "absent" /\ rec'[j].st = "bare" /\ rec'[j].ops = rec[j].ops
      BY <2>1, <2>5 DEF NoRecord
    <2>. QED
      BY <2>2, <2>3, <2>4, <2>5, RecordChanges
  <1>. QED
    BY <1>1 DEF RecordInv

\* Who may change a binding: a prune, the owner that binds its id, or the one
\* that binds its commit's own.
LEMMA BoundChanges ==
    ASSUME PruneInv, NEW c \in Callers, Act(c), NEW i \in Ids
    PROVE  \/ bound'[i] = bound[i]
           \/ PruneBinding(c) /\ i = call[c].victim /\ bound[i] = i /\ bound'[i] = NoJob
           \/ /\ BindFile(c) /\ call[c].at \in {"bind_file", "bind_reply"}
              /\ i = call[c].op /\ bound'[i] = Job(c)
           \/ Alias(c) /\ i = Job(c) /\ bound'[i] = i
  <1>. USE DEF PruneInv, BindingTypeOK, CallsOK
  <1>1. CASE PruneBinding(c)
    BY <1>1 DEF PruneBinding
  <1>2. CASE BindFile(c)
    BY <1>2 DEF BindFile, At
  <1>3. CASE Alias(c)
    BY <1>3 DEF Alias
  <1>4. CASE UNCHANGED bound
    BY <1>4
  <1>. QED
    BY <1>1, <1>2, <1>3, <1>4
       DEF Act, Step, disk, Begin, Ask, View, ReadBase, Open, PruneDirectory, PruneIndex,
                 MakeDirectory, Own, WriteRecord, Index, Reconcile, Settle,
                 Bind, Start, Succeed, Work, Publish, Crash

\* Every step keeps the bindings.
LEMMA KeptStep ==
    ASSUME PruneInv, NEW c \in Callers, Act(c)
    PROVE  BindingsAreKept'
  <1>. DEFINE Kept(i, j) == i \in rec[j].ops \/ (i = j /\ rec[i].st = "succeeded")
  <1>1. ASSUME NEW i \in Ids, NEW j \in Jobs, Kept(i, j), bound[i] = j
        PROVE  Kept(i, j)'
    <2>1. PruneDirectory(c) => j # call[c].victim
      BY <1>1, PrunedIsFree
    <2>2. rec[j].st = "absent" => rec[j].ops = {}
      BY DEF PruneInv, RecordInv, NoRecord
    <2>. QED
      BY <1>1, <2>1, <2>2, RecordChanges DEF Keeps
  <1>2. ASSUME NEW i \in Ids, bound'[i] # NoJob
        PROVE  i \in rec'[bound'[i]].ops \/ (i = bound'[i] /\ rec'[i].st = "succeeded")
    <2>1. CASE bound'[i] = bound[i]
      <3>1. bound[i] \in Jobs
        BY <1>2, <2>1 DEF PruneInv, BindingTypeOK
      <3>. QED
        BY <1>1, <1>2, <2>1, <3>1 DEF PruneInv, BindingsAreKept
    <2>2. CASE BindFile(c) /\ i = call[c].op /\ bound'[i] = Job(c)
      <3>1. call[c].at \in {"bind_file", "bind_reply"} /\ UNCHANGED rec
        BY <2>2 DEF BindFile, At
      <3>2. call[c].op # NoOp
        BY <3>1 DEF PruneInv, PlaceInv, Knows
      <3>. QED
        BY <2>2, <3>1, <3>2, OwnsJob DEF Fits, Owning
    <2>3. CASE Alias(c) /\ i = Job(c) /\ bound'[i] = i
      <3>1. At(c, "alias") /\ UNCHANGED rec
        BY <2>3 DEF Alias
      <3>. QED
        BY <2>3, <3>1, OwnsJob DEF Fits, Owning, At
    <2>. QED
      BY <1>2, <2>1, <2>2, <2>3, BoundChanges
  <1>. QED
    BY <1>2 DEF BindingsAreKept

\* Where each step takes its call.
LEMMA GoesTo ==
    ASSUME BindingTypeOK, PlaceInv, NEW c \in Callers
    PROVE  /\ Begin(c) => call'[c].at \in {"base", "ask"}
           /\ Ask(c) => call'[c].at \in {"open", "base", "view"}
           /\ View(c) => call'[c].at \in {"open", "base", "idle"}
           /\ ReadBase(c) => call'[c].at \in {"open", "ask"}
           /\ Open(c) => call'[c].at \in {"own", "mkdir", "prune_binding", "idle"}
           /\ PruneBinding(c) => call'[c].at \in {"prune_dir"}
           /\ PruneDirectory(c) => call'[c].at \in {"prune_index", "idle"}
           /\ PruneIndex(c) => call'[c].at \in {"mkdir"}
           /\ MakeDirectory(c) => call'[c].at \in {"own"}
           /\ Own(c) => call'[c].at \in {"record", "idle"}
           /\ WriteRecord(c) => call'[c].at \in {"index", "idle"}
           /\ Index(c) => call'[c].at \in {"reconcile"}
           /\ Reconcile(c) => call'[c].at \in {"settle", "idle"}
           /\ Settle(c) => call'[c].at \in {"start", "bind", "idle"}
           /\ Bind(c) => call'[c].at \in {"bind_file", "bind_reply", "idle"}
           /\ BindFile(c) => call'[c].at \in {"start", "idle"}
           /\ Start(c) => call'[c].at \in {"work", "idle"}
           /\ Succeed(c) => call'[c].at \in {"alias", "idle"}
           /\ Alias(c) => call'[c].at \in {"idle"}
           /\ Work(c) => call'[c].at \in {"publish", "idle"}
           /\ Publish(c) => call'[c].at \in {"succeed", "idle"}
           /\ Crash(c) => call'[c].at \in {"idle"}
  <1>. USE DEF BindingTypeOK, CallsOK, At, NoCall, Moved, Places
  <1>1. ASSUME Begin(c) PROVE call'[c].at \in {"base", "ask"}
    BY <1>1, BeginMoves
  <1>2. ASSUME Ask(c) PROVE call'[c].at \in {"open", "base", "view"}
    <2>1. call[c].op \in Ops
      BY <1>2, CallKnows DEF Ask, PlaceInv, Knows, Active
    <2>. QED
      BY <1>2, <2>1, AskMoves DEF AfterLookup
  <1>3. ASSUME View(c) PROVE call'[c].at \in {"open", "base", "idle"}
    BY <1>3, GoOnMoves, EndMoves DEF View, Answer, AfterLookup
  <1>4. ASSUME ReadBase(c) PROVE call'[c].at \in {"open", "ask"}
    <2>1. call[c].req \in Requests
      BY <1>4, CallKnows DEF ReadBase, PlaceInv, Knows, Active
    <2>. QED
      BY <1>4, <2>1, ReadBaseMoves DEF AfterLookup
  <1>5. ASSUME Open(c) PROVE call'[c].at \in {"own", "mkdir", "prune_binding", "idle"}
    <2>1. CASE Goto(c, "own") \/ Goto(c, "mkdir")
      BY <2>1, GotoMoves
    <2>2. CASE End(c)
      BY <2>2, EndMoves
    <2>3. CASE \E j \in Jobs : call' = [call EXCEPT ![c].at = "prune_binding", ![c].victim = j]
      BY <2>3, ChooseMoves
    <2>. QED
      BY <1>5, <2>1, <2>2, <2>3 DEF Open
  <1>6. ASSUME PruneBinding(c) PROVE call'[c].at \in {"prune_dir"}
    BY <1>6, GotoMoves DEF PruneBinding
  <1>7. ASSUME PruneDirectory(c) PROVE call'[c].at \in {"prune_index", "idle"}
    BY <1>7, PruneDirectoryMoves, EndMoves
  <1>8. ASSUME PruneIndex(c) PROVE call'[c].at \in {"mkdir"}
    BY <1>8, PruneIndexMoves
  <1>9. ASSUME MakeDirectory(c) PROVE call'[c].at \in {"own"}
    BY <1>9, GotoMoves DEF MakeDirectory
  <1>10. ASSUME Own(c) PROVE call'[c].at \in {"record", "idle"}
    BY <1>10, GotoMoves, EndMoves DEF Own
  <1>11. ASSUME WriteRecord(c) PROVE call'[c].at \in {"index", "idle"}
    BY <1>11, GotoMoves, EndMoves DEF WriteRecord, Lost
  <1>12. ASSUME Index(c) PROVE call'[c].at \in {"reconcile"}
    BY <1>12, GotoMoves DEF Index
  <1>13. ASSUME Reconcile(c) PROVE call'[c].at \in {"settle", "idle"}
    BY <1>13, GotoMoves, EndMoves DEF Reconcile, Lost
  <1>14. ASSUME Settle(c) PROVE call'[c].at \in {"start", "bind", "idle"}
    BY <1>14, GotoMoves, EndMoves DEF Settle, Lost, Answer
  <1>15. ASSUME Bind(c) PROVE call'[c].at \in {"bind_file", "bind_reply", "idle"}
    BY <1>15, GotoMoves, EndMoves DEF Bind, Lost, AfterBind
  <1>16. ASSUME BindFile(c) PROVE call'[c].at \in {"start", "idle"}
    BY <1>16, GotoMoves, EndMoves DEF BindFile, Answer
  <1>17. ASSUME Start(c) PROVE call'[c].at \in {"work", "idle"}
    BY <1>17, GotoMoves, EndMoves DEF Start, Lost
  <1>18. ASSUME Succeed(c) PROVE call'[c].at \in {"alias", "idle"}
    BY <1>18, GotoMoves, EndMoves DEF Succeed, Lost, Answer
  <1>19. ASSUME Alias(c) PROVE call'[c].at \in {"idle"}
    BY <1>19, EndMoves DEF Alias, Answer
  <1>20. ASSUME Work(c) PROVE call'[c].at \in {"publish", "idle"}
    BY <1>20, GotoMoves, EndMoves DEF Work, Stop, Lost
  <1>21. ASSUME Publish(c) PROVE call'[c].at \in {"succeed", "idle"}
    BY <1>21, GotoMoves, EndMoves DEF Publish, Stop, Lost
  <1>22. ASSUME Crash(c) PROVE call'[c].at \in {"idle"}
    BY <1>22, EndMoves DEF Crash
  <1>. QED
    BY <1>1, <1>2, <1>3, <1>4, <1>5, <1>6, <1>7, <1>8, <1>9, <1>10, <1>11,
           <1>12, <1>13, <1>14, <1>15, <1>16, <1>17, <1>18, <1>19, <1>20,
           <1>21, <1>22

\* Who may change an owner lock.
LEMMA OwnerChanges ==
    ASSUME PruneInv, NEW c \in Callers, Act(c), NEW j \in Jobs
    PROVE  \/ owner'[j] = owner[j]
           \/ owner'[j] = NoProc
           \/ Own(c) /\ j = Job(c) /\ \A d \in Callers : call[d].victim # j
  <1>. USE DEF PruneInv, BindingTypeOK, CallsOK
  <1>1. CASE End(c)
    BY <1>1, EndMoves
  <1>2. CASE Own(c)
    BY <1>1, <1>2 DEF Own, NotBeingPruned
  <1>3. CASE Begin(c)
    BY <1>3 DEF Begin
  <1>4. CASE PruneDirectory(c)
    BY <1>1, <1>4 DEF PruneDirectory
  <1>. QED
    BY <1>1, <1>2, <1>3, <1>4, StayOrEnd

\* Every step keeps what is known of the jobs that are pruned.
LEMMA VictimStep ==
    ASSUME PruneInv, NEW c \in Callers, Act(c)
    PROVE  VictimInv'
  <1>. USE DEF PruneInv, BindingTypeOK, CallsOK
  <1>1. ~call'[c].lost
    <2>1. ~call[c].lost
      BY DEF VictimInv
    <2>2. CASE Begin(c)
      BY <2>2, BeginMoves
    <2>3. CASE End(c)
      BY <2>3, EndMoves DEF NoCall
    <2>4. CASE PruneDirectory(c)
      BY <2>1, <2>3, <2>4, PruneDirectoryMoves DEF Stands
    <2>5. CASE Own(c)
      BY <2>1, <2>3, <2>5, GotoMoves DEF Own, Moved, Places, Stands
    <2>. QED
      BY <2>1, <2>2, <2>3, <2>4, <2>5, StayOrEnd DEF Stands
  <1>2. ASSUME NEW d \in Callers \ {c}, call'[d].at \in Pruning
        PROVE  Removable(d)'
    <2>. DEFINE v == call[d].victim
    <2>1. call'[d] = call[d] /\ Removable(d) /\ v \in Jobs
      BY <1>2, OthersStay, CallKnows DEF Others, VictimInv
    <2>2. owner'[v] = NoProc
      BY <2>1, OwnerChanges DEF Removable
    <2>3. rec'[v] = rec[v] \/ rec'[v] = NoRecord
      <3>1. ~(call[c].at \in Owning /\ v = Job(c))
        BY <1>2, <2>1, OwnsJob
      <3>2. rec[v].st # "committing"
        BY <2>1 DEF Removable, Terminal
      <3>3. MakeDirectory(c) => v # Job(c)
        BY <2>1 DEF MakeDirectory, NotBeingPruned
      <3>4. At(c, "prune_dir") /\ v = call[c].victim => rec'[v] \in {rec[v], NoRecord}
        BY <2>1, ActAtPlace DEF PruneDirectory, Crash, disk
      <3>5. At(c, "mkdir") /\ v = Job(c) => rec'[v] = rec[v]
        BY <2>1, <3>3, ActAtPlace DEF Crash, disk
      <3>. QED
        BY <2>1, <3>1, <3>2, <3>4, <3>5, WhoChanges
    <2>4. At(d, "prune_dir") => bound'[v] # v
      <3>1. v \in Ids /\ v \notin Ops /\ v # NoJob /\ v # NoOp
        BY <2>1 DEF Ids
      <3>2. Alias(c) => v # Job(c)
        BY <1>2, <2>1, OwnsJob DEF Alias, At, Owning
      <3>3. call[c].op \in Ops \cup {NoOp}
        BY DEF Call
      <3>. QED
        BY <2>1, <3>1, <3>2, <3>3, BoundChanges DEF Removable
    <2>. QED
      BY <2>1, <2>2, <2>3, <2>4 DEF Removable, NoRecord, Terminal, At
  <1>3. ASSUME call'[c].at \in Pruning
        PROVE  Removable(c)'
    <2>1. CASE Open(c)
      <3>1. ~End(c) /\ ~Goto(c, "own") /\ ~Goto(c, "mkdir")
        BY <1>3, EndMoves, GotoMoves DEF NoCall, Moved, Places, Pruning
      <3>2. PICK j \in Jobs : /\ Prunable(j)
                              /\ call' = [call EXCEPT ![c].at = "prune_binding", ![c].victim = j]
        BY <2>1, <3>1 DEF Open
      <3>3. call'[c].victim = j /\ call'[c].at = "prune_binding"
        BY <3>2, ChooseMoves
      <3>4. UNCHANGED <<rec, owner>>
        BY <2>1, <3>1 DEF Open, disk
      <3>. QED
        BY <3>2, <3>3, <3>4 DEF Removable, Prunable, Terminal, At
    <2>2. CASE PruneBinding(c)
      <3>. DEFINE v == call[c].victim
      <3>1. At(c, "prune_binding") /\ Removable(c) /\ v \in Jobs
        BY <2>2, CallKnows DEF PruneBinding, VictimInv, At, Pruning
      <3>2. call'[c].at = "prune_dir" /\ call'[c].victim = v
        BY <2>2, GotoMoves DEF PruneBinding, Moved, Places
      <3>3. bound'[v] # v /\ UNCHANGED <<rec, owner>>
        BY <2>2, <3>1 DEF PruneBinding, Ids
      <3>. QED
        BY <3>1, <3>2, <3>3 DEF Removable, At
    <2>3. CASE PruneDirectory(c)
      <3>. DEFINE v == call[c].victim
      <3>1. ~End(c)
        BY <1>3, EndMoves DEF NoCall, Pruning
      <3>2. v \in Jobs
        BY <2>3, PrunedIsFree
      <3>3. rec'[v] = NoRecord /\ owner'[v] = NoProc
        BY <2>3, <3>1, <3>2 DEF PruneDirectory
      <3>4. call'[c].at = "prune_index" /\ call'[c].victim = v
        BY <2>3, <3>1, PruneDirectoryMoves
      <3>. QED
        BY <3>3, <3>4 DEF Removable, NoRecord, At
    <2>. QED
      BY <1>3, <2>1, <2>2, <2>3, GoesTo DEF Act, Step, Pruning
  <1>4. ASSUME NEW d \in Callers
        PROVE  ~call'[d].lost
    BY <1>1, OthersStay DEF Others, VictimInv
  <1>. QED
    BY <1>2, <1>3, <1>4 DEF VictimInv

\* The steps at index_job are known by their place.
LEMMA AtIndex ==
    ASSUME NEW c \in Callers, Act(c), call[c].at = "index", ~End(c)
    PROVE  Index(c)
  BY DEF Act, Step, At, Begin, Ask, View, ReadBase, Open, PruneBinding, PruneDirectory,
             PruneIndex, MakeDirectory, Own, WriteRecord, Reconcile, Settle,
             Bind, BindFile, Start, Succeed, Alias, Work, Publish, Crash

\* Every step keeps the index entries of jobs at work.
LEMMA IndexStep ==
    ASSUME PruneInv, NEW c \in Callers, Act(c)
    PROVE  IndexInv'
  <1>. USE DEF PruneInv, BindingTypeOK, CallsOK
  <1>1. ASSUME NEW d \in Callers, call[d].at \in Owning, Job(d) \in index
        PROVE  Job(d) \in index'
    <2>1. PruneIndex(c) => call[c].victim # Job(d)
      BY <1>1, OwnsJob DEF PruneIndex, At, Pruning
    <2>2. CASE PruneIndex(c)
      BY <1>1, <2>1, <2>2 DEF PruneIndex
    <2>3. CASE Index(c)
      BY <1>1, <2>3 DEF Index
    <2>4. CASE UNCHANGED index
      BY <1>1, <2>4
    <2>. QED
      BY <2>2, <2>3, <2>4 DEF Act, Step, disk, Begin, Ask, View, ReadBase, Open, PruneBinding, PruneDirectory,
                   MakeDirectory, Own, WriteRecord, Reconcile, Settle, Bind,
                   BindFile, Start, Succeed, Alias, Work, Publish, Crash
  <1>2. ASSUME NEW d \in Callers \ {c}, call'[d].at \in Owning \ {"record", "index"}
        PROVE  Job(d)' \in index'
    <2>1. call'[d] = call[d] /\ Job(d)' = Job(d)
      BY OthersStay DEF Others, Job
    <2>. QED
      BY <1>1, <1>2, <2>1 DEF IndexInv
  <1>3. ASSUME call'[c].at \in Owning \ {"record", "index"}
        PROVE  Job(c)' \in index'
    <2>1. call[c].at \in Owning \ {"record"}
      BY <1>3, GoesTo
         DEF Act, Step, At, Owning, Begin, Ask, View, ReadBase, Open, PruneBinding, PruneDirectory,
                   PruneIndex, MakeDirectory, WriteRecord, Index, Reconcile,
                   Settle, Bind, BindFile, Start, Succeed, Alias, Work,
                   Publish, Crash, Own
    <2>2. ~End(c)
      BY <1>3, EndMoves DEF NoCall, Owning
    <2>3. Job(c)' = Job(c)
      BY <2>1, <2>2, StayOrEnd DEF Begin, PruneDirectory, Own, At, Owning
    <2>4. CASE Index(c)
      BY <2>3, <2>4 DEF Index
    <2>5. CASE call[c].at # "index"
      BY <1>1, <2>1, <2>3, <2>5 DEF IndexInv
    <2>. QED
      BY <2>2, <2>4, <2>5, AtIndex
  <1>. QED
    BY <1>2, <1>3 DEF IndexInv, Job

\* The invariant is inductive.
LEMMA PruneStep ==
    ASSUME PruneInv, [Next]_vars
    PROVE  PruneInv'
  <1>1. (BindingTypeOK /\ PlaceInv /\ HoldInv)'
    BY TypeStep, HoldStep DEF PruneInv
  <1>2. CASE UNCHANGED vars
    <2>1. (RecordInv /\ VictimInv /\ StateInv)'
      BY <1>2 DEF PruneInv, vars, disk, RecordInv, VictimInv, Removable, StateInv, Job, At
    <2>2. (IndexInv /\ BindingsAreKept)'
      BY <1>2 DEF PruneInv, vars, disk, IndexInv, BindingsAreKept, Job
    <2>. QED
      BY <1>1, <2>1, <2>2 DEF PruneInv
  <1>3. ASSUME NEW c \in Callers, Act(c)
        PROVE  PruneInv'
    BY <1>1, <1>3, RecordStep, VictimStep, StateStep, IndexStep, KeptStep DEF PruneInv
  <1>. QED
    BY <1>2, <1>3 DEF Next, Act, Finished

\* It holds at the start.
LEMMA PruneInit == Init /\ ~PruneRaces => PruneInv
  <1>. SUFFICES ASSUME Init, ~PruneRaces PROVE PruneInv
    OBVIOUS
  <1>1. BindingTypeOK /\ PlaceInv /\ HoldInv
    BY BaseInit DEF BaseInv
  <1>2. RecordInv /\ BindingsAreKept
    BY DEF Init, RecordInv, BindingsAreKept, NoRecord
  <1>3. VictimInv /\ StateInv /\ IndexInv
    BY DEF Init, VictimInv, StateInv, IndexInv, NoCall, Owning, Pruning
  <1>. QED
    BY <1>1, <1>2, <1>3 DEF PruneInv

\* A binding file always names a job that knows the id.  The id enters the
\* record before the file is written, and a record that lists an id is never
\* pruned; the file of a commit's own id is removed before its directory is.
THEOREM BindingsKept == ~PruneRaces /\ Spec => []BindingsAreKept
  <1>1. PruneInv => BindingsAreKept
    BY DEF PruneInv
  <1>2. PruneInv /\ [Next]_vars => PruneInv'
    BY PruneStep
  <1>. QED
    BY <1>1, <1>2, PruneInit, PTL DEF Spec

\* A job at work has its index entry: a prune removes the entry of a job only
\* while nobody owns it, and an owner writes it again whatever it finds.
THEOREM OwnedJobsIndexed == ~PruneRaces /\ Spec => []OwnedIsIndexed
  <1>1. PruneInv => OwnedIsIndexed
    BY DEF PruneInv, IndexInv, OwnedIsIndexed, Owning
  <1>2. PruneInv /\ [Next]_vars => PruneInv'
    BY PruneStep
  <1>. QED
    BY <1>1, <1>2, PruneInit, PTL DEF Spec

-----------------------------------------------------------------------------
(* Answers and publications, one call for an id at a time.                 *)

\* Only the call that holds an id binds it.
LEMMA BoundOps ==
    ASSUME PruneInv, NEW c \in Callers, Act(c), NEW i \in Ops
    PROVE  \/ bound'[i] = bound[i]
           \/ /\ BindFile(c) /\ call[c].at \in {"bind_file", "bind_reply"}
              /\ i = call[c].op /\ bound'[i] = Job(c)
  <1>1. i \in Ids /\ i \notin Jobs
    BY DEF Ids
  <1>2. PruneBinding(c) => call[c].victim \in Jobs
    BY CallKnows DEF PruneInv, BindingTypeOK, CallsOK, PruneBinding, At, Pruning
  <1>3. Alias(c) => Job(c) \in Jobs
    BY CallKnows DEF PruneInv, BindingTypeOK, CallsOK, Alias, At, Chosen, Owning
  <1>. QED
    BY <1>1, <1>2, <1>3, BoundChanges

\* Only the call that holds an id is answered under it, and ends so.
LEMMA AnsweredGrows ==
    ASSUME NEW c \in Callers, Act(c)
    PROVE  \/ answered' = answered
           \/ /\ Answer(c) /\ call[c].op # NoOp
              /\ answered' = answered \cup {<<call[c].op, call[c].req>>}
              /\ View(c) \/ Settle(c) \/ BindFile(c) \/ Succeed(c) \/ Alias(c)
  <1>1. CASE UNCHANGED answered
    BY <1>1
  <1>2. CASE Answer(c) /\ (View(c) \/ Settle(c) \/ BindFile(c) \/ Succeed(c) \/ Alias(c))
    BY <1>2 DEF Answer
  <1>3. CASE View(c)
    BY <1>1, <1>2, <1>3 DEF View
  <1>4. CASE Settle(c)
    BY <1>1, <1>2, <1>4 DEF Settle
  <1>5. CASE BindFile(c)
    BY <1>1, <1>2, <1>5 DEF BindFile
  <1>6. CASE Succeed(c)
    BY <1>1, <1>2, <1>6 DEF Succeed
  <1>7. CASE Alias(c)
    BY <1>2, <1>7 DEF Alias
  <1>. QED
    BY <1>1, <1>3, <1>4, <1>5, <1>6, <1>7
       DEF Act, Step, history, Begin, Ask, ReadBase, Open, PruneBinding, PruneDirectory,
                 PruneIndex, MakeDirectory, Own, WriteRecord, Index,
                 Reconcile, Bind, Start, Work, Publish, Crash

\* Only the call that holds an id publishes under it.
LEMMA PublishedGrows ==
    ASSUME BindingTypeOK, PlaceInv, NEW c \in Callers, Act(c), NEW x \in Ops \X Requests
    PROVE  \/ published'[x] = published[x]
           \/ /\ At(c, "publish") /\ Goto(c, "succeed") /\ call[c].op # NoOp
              /\ x = <<call[c].op, call[c].req>> /\ published'[x] = published[x] + 1
              /\ UNCHANGED <<rec, bound, answered>> /\ landed' = landed \cup {Job(c)}
  <1>1. CASE UNCHANGED published
    BY <1>1
  <1>2. CASE Publish(c)
    <2>1. At(c, "publish") /\ UNCHANGED <<bound, answered>>
      BY <1>2 DEF Publish
    <2>2. CASE call[c].op # NoOp /\ ~UNCHANGED published
      <3>1. /\ published' = [published EXCEPT ![<<call[c].op, call[c].req>>] = @ + 1]
            /\ Goto(c, "succeed") /\ UNCHANGED rec /\ landed' = landed \cup {Job(c)}
        BY <1>2, <2>2 DEF Publish
      <3>. QED
        BY <2>1, <2>2, <3>1 DEF BindingTypeOK
    <2>. QED
      BY <1>1, <1>2, <2>2 DEF Publish
  <1>. QED
    BY <1>1, <1>2 DEF Act, Step, history, Begin, Ask, View, ReadBase, Open, PruneBinding, PruneDirectory,
                 PruneIndex, MakeDirectory, Own, WriteRecord, Index,
                 Reconcile, Settle, Bind, BindFile, Start, Succeed, Alias,
                 Work, Crash

\* A step keeps the id and the request of its call, or ends the call.
LEMMA SameRequest ==
    ASSUME PruneInv, NEW c \in Callers, Act(c), ~Begin(c)
    PROVE  \/ call'[c] = NoCall
           \/ call'[c].op = call[c].op /\ call'[c].req = call[c].req
  <1>. USE DEF PruneInv, BindingTypeOK, CallsOK
  <1>1. CASE End(c)
    BY <1>1, EndMoves
  <1>2. CASE PruneDirectory(c)
    BY <1>1, <1>2, PruneDirectoryMoves DEF Stands
  <1>3. CASE Own(c)
    BY <1>1, <1>3, GotoMoves DEF Own, Moved, Stands, Places
  <1>. QED
    BY <1>1, <1>2, <1>3, StayOrEnd DEF Stands

\* A job with a result that an id is bound to keeps it.
LEMMA ResultStays ==
    ASSUME PruneInv, NEW c \in Callers, Act(c), NEW i \in Ids, NEW j \in Jobs, bound[i] = j,
           Done(rec[j], j \in landed)
    PROVE  /\ Done(rec'[j], j \in landed') /\ rec'[j].req = rec[j].req
           /\ rec[j].st = "succeeded" => rec'[j].st = "succeeded"
  <1>1. PruneDirectory(c) => j # call[c].victim
    BY PrunedIsFree
  <1>2. rec[j].st \notin {"absent", "bare"}
    BY DEF Done
  <1>. QED
    BY <1>1, <1>2, RecordChanges DEF Keeps

\* The call that publishes, or is answered, under an id is the only one of it.
LEMMA OneCall ==
    ASSUME AnswerInv, NEW c \in Callers, NEW d \in Callers \ {c}, call[c].op # NoOp
    PROVE  call[c].op # call[d].op
  BY DEF AnswerInv, IdInv

\* What an id has published or answered stays, while it is bound as it was.
LEMMA HistoryStays ==
    ASSUME AnswerInv, NEW c \in Callers, Act(c), NEW x \in Ops \X Requests,
           published[x] > 0 \/ x \in answered
    PROVE  /\ bound'[x[1]] = bound[x[1]] /\ bound[x[1]] \in Jobs
           /\ rec'[bound[x[1]]].req = x[2]
           /\ Done(rec'[bound[x[1]]], bound[x[1]] \in landed')
           /\ x \in answered => rec'[bound[x[1]]].st = "succeeded"
  <1>. USE DEF AnswerInv
  <1>. DEFINE j == bound[x[1]]
  <1>1. PICK o \in Ops, r \in Requests : x = <<o, r>>
    OBVIOUS
  <1>2. x[1] = o /\ x[2] = r /\ x[1] \in Ids
    BY <1>1 DEF Ids
  <1>3. j \in Jobs /\ rec[j].req = x[2] /\ Done(rec[j], j \in landed)
        /\ (x \in answered => rec[j].st = "succeeded")
    BY <1>2 DEF PruneInv, BindingTypeOK, PublishedInv, AnsweredReplays, Done
  <1>4. ~(call[c].at \in {"bind_file", "bind_reply"} /\ x[1] = call[c].op)
    BY <1>1, <1>2 DEF IdInv, At, PruneInv, PlaceInv, Knows
  <1>5. bound'[x[1]] = bound[x[1]]
    BY <1>2, <1>4, BoundOps
  <1>. QED
    BY <1>2, <1>3, <1>5, ResultStays

\* Every answer is replayed from then on.
LEMMA AnsweredStep ==
    ASSUME AnswerInv, NEW c \in Callers, Act(c)
    PROVE  AnsweredReplays'
  <1>. USE DEF AnswerInv, PruneInv, BindingTypeOK
  <1>1. ASSUME NEW x \in answered
        PROVE  /\ bound'[x[1]] # NoJob /\ rec'[bound'[x[1]]].st = "succeeded"
               /\ rec'[bound'[x[1]]].req = x[2]
    <2>1. x \in Ops \X Requests
      OBVIOUS
    <2>. QED
      BY <2>1, HistoryStays
  <1>2. ASSUME Answer(c), call[c].op # NoOp,
               View(c) \/ Settle(c) \/ BindFile(c) \/ Succeed(c) \/ Alias(c)
        PROVE  LET j == bound'[call[c].op] IN
               j # NoJob /\ rec'[j].st = "succeeded" /\ rec'[j].req = call[c].req
    <2>. DEFINE i == call[c].op
    <2>1. i \in Ops /\ i \in Ids /\ call'[c] = NoCall
      BY <1>2, CallKnows, EndMoves DEF Answer, CallsOK, Ids
    <2>2. CASE View(c)
      <3>. DEFINE j == call[c].found
      <3>1. At(c, "view") /\ UNCHANGED bound
        BY <2>2 DEF View
      <3>2. j \in Jobs /\ bound[i] = j
        BY <1>2, <3>1, CallKnows DEF IdInv, CallsOK
      <3>3. ~GoOn(c)
        <4>1. GoOn(c) => call'[c].at # "idle"
          BY GoOnMoves DEF CallsOK, AfterLookup
        <4>. QED
          BY <2>1, <4>1 DEF NoCall
      <3>4. CASE ~(Readable(j) /\ Matches(c))
        <4>1. UNCHANGED answered
          BY <2>2, <3>3, <3>4 DEF View
        <4>2. <<call[c].op, call[c].req>> \in answered
          BY <1>2, <4>1 DEF Answer
        <4>. QED
          BY <1>1, <4>2
      <3>5. CASE Readable(j) /\ Matches(c) /\ rec[j].st = "succeeded"
        <4>1. UNCHANGED rec
          BY <2>2, <3>5 DEF View
        <4>. QED
          BY <3>1, <3>2, <3>5, <4>1 DEF Matches
      <3>6. CASE Readable(j) /\ Matches(c) /\ rec[j].st # "succeeded" /\ owner[j] # NoProc
        <4>1. UNCHANGED answered
          BY <2>2, <3>3, <3>6 DEF View
        <4>2. <<call[c].op, call[c].req>> \in answered
          BY <1>2, <4>1 DEF Answer
        <4>. QED
          BY <1>1, <4>2
      <3>7. CASE Readable(j) /\ Matches(c) /\ rec[j].st # "succeeded" /\ owner[j] = NoProc
        <4>1. rec' = [rec EXCEPT ![j].st = "succeeded"]
          BY <2>2, <3>3, <3>7 DEF View, SetState
        <4>2. rec'[j].st = "succeeded" /\ rec'[j].req = rec[j].req
          BY <3>2, <4>1 DEF Record
        <4>. QED
          BY <3>1, <3>2, <3>7, <4>2 DEF Matches
      <3>. QED
        BY <3>4, <3>5, <3>6, <3>7
    <2>3. CASE Settle(c)
      <3>1. At(c, "settle") /\ UNCHANGED bound
        BY <2>3 DEF Settle
      <3>2. UNCHANGED answered
        <4>1. ~(Goto(c, "bind") \/ Goto(c, "start"))
          BY <2>1, GotoMoves DEF CallsOK, Moved, Places, NoCall
        <4>. QED
          BY <1>2, <2>3, <4>1 DEF Settle
      <3>3. <<call[c].op, call[c].req>> \in answered
        BY <1>2, <3>2 DEF Answer
      <3>. QED
        BY <1>1, <3>3
    <2>4. CASE BindFile(c)
      <3>1. ~Goto(c, "start")
        BY <2>1, GotoMoves DEF CallsOK, Moved, Places, NoCall
      <3>2. At(c, "bind_reply") /\ bound' = [bound EXCEPT ![i] = Job(c)] /\ UNCHANGED rec
        BY <2>4, <3>1 DEF BindFile
      <3>3. /\ Job(c) \in Jobs /\ rec[Job(c)].st = "succeeded"
            /\ rec[Job(c)].req = call[c].req
        BY <3>2, OwnsJob DEF At, Owning, Fits
      <3>. QED
        BY <2>1, <3>2, <3>3
    <2>5. CASE Succeed(c)
      <3>1. At(c, "succeed") /\ UNCHANGED bound
        BY <2>5 DEF Succeed
      <3>2. /\ Job(c) \in Jobs /\ ~call[c].lost /\ rec[Job(c)].req = call[c].req
        BY <3>1, OwnsJob DEF At, Owning, Fits
      <3>3. rec' = [rec EXCEPT ![Job(c)].st = "succeeded"]
        BY <2>5, <3>2 DEF Succeed, SetState, Lost
      <3>4. rec'[Job(c)].st = "succeeded" /\ rec'[Job(c)].req = rec[Job(c)].req
        BY <3>2, <3>3 DEF Record
      <3>5. bound[i] = Job(c)
        BY <1>2, <3>1 DEF IdInv, At
      <3>. QED
        BY <3>1, <3>2, <3>4, <3>5
    <2>6. CASE Alias(c)
      BY <1>2, <2>6 DEF Alias, At, PlaceInv, Knows
    <2>. QED
      BY <1>2, <2>2, <2>3, <2>4, <2>5, <2>6
  <1>3. ASSUME NEW x \in answered'
        PROVE  x \in answered \/ (/\ x = <<call[c].op, call[c].req>>
                                  /\ Answer(c) /\ call[c].op # NoOp
                                  /\ View(c) \/ Settle(c) \/ BindFile(c) \/ Succeed(c) \/ Alias(c))
    BY AnsweredGrows
  <1>. QED
    BY <1>1, <1>2, <1>3 DEF AnsweredReplays

\* A publication is counted once, and found by the next call of its id.
LEMMA PublishedStep ==
    ASSUME AnswerInv, NEW c \in Callers, Act(c)
    PROVE  PublishedInv'
  <1>. USE DEF AnswerInv, PruneInv, BindingTypeOK
  <1>1. ASSUME NEW x \in Ops \X Requests
        PROVE  /\ published'[x] <= 1
               /\ published'[x] > 0 =>
                      /\ bound'[x[1]] # NoJob /\ rec'[bound'[x[1]]].req = x[2]
                      /\ Done(rec'[bound'[x[1]]], bound'[x[1]] \in landed')
    <2>1. CASE published'[x] = published[x]
      BY <2>1, HistoryStays DEF PublishedInv
    <2>2. CASE /\ At(c, "publish") /\ Goto(c, "succeed") /\ call[c].op # NoOp
               /\ x = <<call[c].op, call[c].req>> /\ published'[x] = published[x] + 1
               /\ UNCHANGED <<rec, bound, answered>> /\ landed' = landed \cup {Job(c)}
      <3>1. Job(c) \in Jobs /\ Fits(call[c], rec[Job(c)], Job(c) \in landed)
        BY <2>2, OwnsJob DEF At, Owning
      <3>2. bound[call[c].op] = Job(c) /\ published[x] = 0
        BY <2>2 DEF IdInv, At
      <3>3. x[1] = call[c].op /\ x[2] = call[c].req
        BY <2>2
      <3>. QED
        BY <2>2, <3>1, <3>2, <3>3 DEF Fits, At, Done
    <2>. QED
      BY <2>1, <2>2, PublishedGrows
  <1>. QED
    BY <1>1 DEF PublishedInv, Done

\* A call that goes on past a lookup has found nothing published or answered.
LEMMA GoesOnClean ==
    ASSUME AnswerInv, NEW c \in Callers, Ask(c) \/ View(c), call[c].op \in Ops,
           call'[c].at \notin {"idle", "ask", "view"}
    PROVE  \A r \in Requests : <<call[c].op, r>> \notin answered
                               /\ published[<<call[c].op, r>>] = 0
  <1>. USE DEF AnswerInv, PruneInv, BindingTypeOK
  <1>. SUFFICES ASSUME NEW r \in Requests,
                       <<call[c].op, r>> \in answered \/ published[<<call[c].op, r>>] > 0
                PROVE  FALSE
    OBVIOUS
  <1>. DEFINE j == bound[call[c].op]
  <1>1. j \in Jobs /\ Done(rec[j], j \in landed)
    BY DEF PublishedInv, AnsweredReplays, Done, Ids
  <1>2. CASE Ask(c)
    BY <1>1, <1>2, AskMoves DEF CallsOK
  <1>3. CASE View(c)
    <2>1. At(c, "view") /\ call[c].found = j
      <3>1. At(c, "view") /\ call[c].op # NoOp
        BY <1>3 DEF View, Ids
      <3>. QED
        BY <3>1 DEF IdInv
    <2>2. ~End(c)
      BY EndMoves DEF CallsOK, NoCall
    <2>3. Readable(j) /\ ~(rec[j].st \notin {"succeeded", "committing"})
      BY <1>1 DEF Readable, Done
    <2>4. /\ rec[j].st = "committing" /\ owner[j] = NoProc
          /\ \E st \in Reconciled(j) : st # "succeeded"
      BY <1>3, <2>1, <2>2, <2>3 DEF View, Answer
    <2>. QED
      BY <1>1, <2>4 DEF Reconciled, Done
  <1>. QED
    BY <1>2, <1>3

\* What a call knows of its id, with what its job and its bindings say.
IdOf(c) ==
    call[c].op # NoOp =>
        /\ At(c, "view") => call[c].found = bound[call[c].op]
        /\ call[c].at \in {"start", "work", "publish", "succeed"} => bound[call[c].op] = Job(c)
        /\ call[c].at \notin {"idle", "ask", "view"} =>
               \A r \in Requests : /\ <<call[c].op, r>> \notin answered
                                   /\ ~At(c, "succeed") => published[<<call[c].op, r>>] = 0

\* The steps of another call leave an id alone.
LEMMA OthersId ==
    ASSUME AnswerInv, NEW c \in Callers, Act(c), NEW d \in Callers \ {c}
    PROVE  IdOf(d)'
  <1>. USE DEF AnswerInv, PruneInv, BindingTypeOK
  <1>1. call'[d] = call[d] /\ Job(d)' = Job(d)
    BY OthersStay DEF Others, Job
  <1>2. ASSUME call[d].op # NoOp
        PROVE  IdOf(d)'
    <2>1. call[d].op \in Ops /\ call[d].op # call[c].op /\ IdOf(d)
      BY <1>2, CallKnows, OneCall DEF IdInv, IdOf, CallsOK
    <2>2. bound'[call[d].op] = bound[call[d].op]
      BY <2>1, BoundOps
    <2>3. ASSUME NEW r \in Requests
          PROVE  /\ <<call[d].op, r>> \in answered' => <<call[d].op, r>> \in answered
                 /\ published'[<<call[d].op, r>>] = published[<<call[d].op, r>>]
      <3>1. <<call[d].op, r>> \in Ops \X Requests
        BY <2>1
      <3>. QED
        BY <2>1, <3>1, AnsweredGrows, PublishedGrows
    <2>. QED
      BY <1>1, <2>1, <2>2, <2>3 DEF IdOf, At
  <1>. QED
    BY <1>1, <1>2 DEF IdOf

\* Nor does the call itself, until it is answered.
LEMMA OwnId ==
    ASSUME AnswerInv, NEW c \in Callers, Act(c)
    PROVE  IdOf(c)'
  <1>. USE DEF AnswerInv, PruneInv, BindingTypeOK
  <1>1. CASE Begin(c)
    BY <1>1, BeginMoves DEF IdOf, At, CallsOK
  <1>2. CASE call'[c] = NoCall
    BY <1>2 DEF IdOf, NoCall
  <1>3. ASSUME ~Begin(c), call'[c] # NoCall, call'[c].op # NoOp
        PROVE  IdOf(c)'
    <2>. DEFINE i == call[c].op
    <2>1. i \in Ops /\ call'[c].op = i /\ IdOf(c)
      BY <1>3, SameRequest, CallKnows DEF IdInv, IdOf, CallsOK
    <2>2. ~End(c) /\ UNCHANGED answered
      BY <1>3, EndMoves, AnsweredGrows DEF Answer, CallsOK
    <2>3. At(c, "view")' => call'[c].found = bound'[i]
      <3>1. ASSUME At(c, "view")' PROVE Ask(c)
        BY <3>1, GoesTo DEF Act, Step, At
      <3>2. ASSUME Ask(c) PROVE call'[c].found = bound[i] /\ UNCHANGED bound
        BY <2>1, <3>2, AskMoves DEF CallsOK, Ask, disk
      <3>. QED
        BY <3>1, <3>2
    <2>4. call'[c].at \in {"start", "work", "publish", "succeed"} => bound'[i] = Job(c)'
      <3>. SUFFICES ASSUME call'[c].at \in {"start", "work", "publish", "succeed"}
                    PROVE  bound'[i] = Job(c)'
        OBVIOUS
      <3>1. Settle(c) \/ BindFile(c) \/ Start(c) \/ Work(c) \/ Publish(c)
        BY GoesTo DEF Act, Step
      <3>2. Job(c)' = Job(c)
        <4>1. call[c].at \in {"settle", "bind_file", "bind_reply", "start", "work", "publish"}
          BY <3>1 DEF Settle, BindFile, Start, Work, Publish, At
        <4>2. call[c].at \in Owning /\ ~PruneDirectory(c) /\ ~Own(c)
          BY <4>1 DEF Owning, PruneDirectory, Own, At
        <4>. QED
          BY <1>3, <2>2, <4>2, StayOrEnd DEF CallsOK
      <3>3. CASE Settle(c)
        <4>1. ~Goto(c, "start") => call'[c].at # "start"
          BY <2>1, <2>2, <3>3, GotoMoves DEF Settle, Answer, Lost, Moved, Places, CallsOK
        <4>. QED
          BY <2>1, <2>2, <3>3, GotoMoves, GoesTo, <1>3
             DEF Settle, Answer, Lost, Moved, Places, CallsOK
      <3>4. CASE BindFile(c)
        BY <2>1, <3>2, <3>4 DEF BindFile, Ids
      <3>5. CASE Start(c) \/ Work(c) \/ Publish(c)
        <4>1. UNCHANGED bound /\ call[c].at \in {"start", "work", "publish"}
          BY <3>5 DEF Start, Work, Publish, At
        <4>. QED
          BY <1>3, <2>1, <3>2, <4>1 DEF IdOf
      <3>. QED
        BY <3>1, <3>3, <3>4, <3>5
    <2>5. ASSUME call'[c].at \notin {"idle", "ask", "view"}, NEW r \in Requests
          PROVE  /\ <<i, r>> \notin answered
                 /\ call'[c].at # "succeed" => published'[<<i, r>>] = 0
      <3>1. <<i, r>> \notin answered /\ (~At(c, "succeed") => published[<<i, r>>] = 0)
        <4>1. CASE call[c].at \in {"ask", "view"}
          <5>1. Ask(c) \/ View(c)
            BY <2>2, <4>1 DEF Act, Step, At, Begin, ReadBase, Open, PruneBinding, PruneDirectory,
                   PruneIndex, MakeDirectory, Own, WriteRecord, Index,
                   Reconcile, Settle, Bind, BindFile, Start, Succeed, Alias,
                   Work, Publish, Crash
          <5>. QED
            BY <2>1, <2>5, <5>1, GoesOnClean
        <4>2. CASE call[c].at = "idle"
          BY <1>3, <2>1, <4>2 DEF PlaceInv, Knows
        <4>. QED
          BY <1>3, <2>1, <2>5, <4>1, <4>2 DEF IdOf
      <3>2. call'[c].at # "succeed" => ~At(c, "succeed")
        <4>1. CASE At(c, "succeed")
          <5>1. Succeed(c)
            BY <2>2, <4>1 DEF Act, Step, At, Begin, Ask, View, ReadBase, Open, PruneBinding, PruneDirectory,
                   PruneIndex, MakeDirectory, Own, WriteRecord, Index,
                   Reconcile, Settle, Bind, BindFile, Start, Alias, Work,
                   Publish, Crash
          <5>. QED
            BY <1>3, <2>1, <2>2, <5>1 DEF Succeed, Lost, Answer
        <4>. QED
          BY <4>1
      <3>3. call'[c].at # "succeed" => published'[<<i, r>>] = published[<<i, r>>]
        <4>1. Goto(c, "succeed") => call'[c].at = "succeed"
          BY GotoMoves DEF Moved, Places, CallsOK
        <4>2. <<i, r>> \in Ops \X Requests
          BY <2>1
        <4>. QED
          BY <4>1, <4>2, PublishedGrows
      <3>. QED
        BY <3>1, <3>2, <3>3
    <2>. QED
      BY <2>1, <2>2, <2>3, <2>4, <2>5 DEF IdOf, At
  <1>. QED
    BY <1>1, <1>2, <1>3 DEF IdOf

\* Every step keeps what is known of the ids.
LEMMA IdStep ==
    ASSUME AnswerInv, NEW c \in Callers, Act(c)
    PROVE  IdInv'
  <1>. USE DEF AnswerInv, PruneInv, BindingTypeOK
  <1>1. \A d \in Callers : IdOf(d)'
    BY OthersId, OwnId
  <1>2. \A d \in Callers \ {c} : call'[d] = call[d]
    BY OthersStay DEF Others
  <1>3. \A d \in Callers \ {c} : call'[c].op # NoOp => call'[c].op # call[d].op
    <2>1. CASE Begin(c)
      BY <2>1, BeginMoves DEF CallsOK
    <2>2. CASE ~Begin(c)
      BY <2>2, SameRequest, OneCall DEF NoCall
    <2>. QED
      BY <2>1, <2>2
  <1>4. ASSUME NEW d \in Callers, NEW e \in Callers, d # e, call'[d].op # NoOp
        PROVE  call'[d].op # call'[e].op
    BY <1>2, <1>3, <1>4, OneCall
  <1>. QED
    BY <1>1, <1>4 DEF IdInv, IdOf

\* The invariant is inductive.
LEMMA AnswerStep ==
    ASSUME AnswerInv, [Next]_vars
    PROVE  AnswerInv'
  <1>1. PruneInv'
    BY PruneStep DEF AnswerInv
  <1>2. CASE UNCHANGED vars
    <2>1. IdInv'
      BY <1>2 DEF AnswerInv, vars, disk, history, IdInv, Job, At
    <2>2. (PublishedInv /\ AnsweredReplays)'
      BY <1>2 DEF AnswerInv, vars, disk, history, PublishedInv, AnsweredReplays
    <2>. QED
      BY <1>1, <2>1, <2>2 DEF AnswerInv
  <1>3. ASSUME NEW c \in Callers, Act(c)
        PROVE  AnswerInv'
    BY <1>1, <1>3, IdStep, PublishedStep, AnsweredStep DEF AnswerInv
  <1>. QED
    BY <1>2, <1>3 DEF Next, Act, Finished

\* It holds at the start.
LEMMA AnswerInit == Init /\ ~PruneRaces /\ ~SameIdOverlaps => AnswerInv
  <1>. SUFFICES ASSUME Init, ~PruneRaces, ~SameIdOverlaps PROVE AnswerInv
    OBVIOUS
  <1>1. PruneInv
    BY PruneInit
  <1>2. IdInv /\ PublishedInv /\ AnsweredReplays
    BY DEF Init, IdInv, PublishedInv, AnsweredReplays, NoCall
  <1>. QED
    BY <1>1, <1>2 DEF AnswerInv

\* A request that was answered under an id is answered from the same result for
\* ever: its job is never pruned, its record never leaves "succeeded", and only a
\* call that found nothing under the id may bind it anew.
THEOREM AnswersReplay == ~PruneRaces /\ ~SameIdOverlaps /\ Spec => []AnsweredReplays
  <1>1. AnswerInv => AnsweredReplays
    BY DEF AnswerInv
  <1>2. AnswerInv /\ [Next]_vars => AnswerInv'
    BY AnswerStep
  <1>. QED
    BY <1>1, <1>2, AnswerInit, PTL DEF Spec

\* One id publishes one request at most once, whatever its processes died at: a
\* call that works has found nothing published under its id, and what it does
\* publish is in the chain of the job that the id is bound to.
THEOREM PublishedOnce == ~PruneRaces /\ ~SameIdOverlaps /\ Spec => []OncePerOperation
  <1>1. AnswerInv => OncePerOperation
    BY DEF AnswerInv, PublishedInv, OncePerOperation
  <1>2. AnswerInv /\ [Next]_vars => AnswerInv'
    BY AnswerStep
  <1>. QED
    BY <1>1, <1>2, AnswerInit, PTL DEF Spec
=============================================================================
