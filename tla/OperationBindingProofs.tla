----------------------- MODULE OperationBindingProofs -----------------------
(***************************************************************************)
(* Proofs about OperationBinding, for every set of callers, ids, requests  *)
(* and ranges and every limit: the types, what each call knows at its      *)
(* place, who holds the owner locks, and the bound on a session's jobs.    *)
(* They hold whatever overlaps (PruneRaces, SameIdOverlaps) and whenever a *)
(* process dies.                                                           *)
(***************************************************************************)
EXTENDS OperationBinding, FiniteSetTheorems, TLAPS

Pruning == {"prune_binding", "prune_dir", "prune_index"}
Owning  == {"record", "index", "reconcile", "settle", "bind", "bind_file", "bind_reply",
            "start", "work", "publish", "succeed", "alias"}
Chosen  == Owning \cup Pruning \cup {"open", "mkdir", "own"}

\* What a call knows at each place.
Knows(k) ==
    /\ k.at = "idle" => k.op = NoOp
    /\ k.at # "idle" => k.req \in Requests
    /\ k.at \in {"ask", "view", "bind", "bind_file", "bind_reply"} => k.op # NoOp
    /\ k.at = "alias" => k.op = NoOp
    /\ k.at = "view" => k.found # NoJob
    /\ k.at \in Chosen \/ k.again => k.job # NoJob
    /\ k.victim # NoJob <=> k.at \in Pruning

PlaceInv == \A c \in Callers : Knows(call[c])

\* A process past the owner lock holds it, unless its directory was removed.
HoldInv ==
    /\ \A c \in Callers : call[c].at \in Owning /\ ~call[c].lost =>
           owner[Job(c)] = c /\ Exists(Job(c))
    /\ \A j \in Jobs : owner[j] # NoProc => call[owner[j]].at \in Owning /\ Job(owner[j]) = j

\* Each process that has made room, or found some, may still add one job.
Making  == {c \in Callers : call[c].at \in {"prune_index", "mkdir"}}
RoomInv == Cardinality(Directories) + Cardinality(Making) <= MaxJobs + Cardinality(Callers) - 1

USE BindingNames, BindingBounds, BindingFlags

-----------------------------------------------------------------------------
(* How each kind of step moves the calls.                                  *)

\* No call but c's moves.
Others(c) == \A d \in Callers \ {c} : call'[d] = call[d]

\* The call of c still stands for the same request.
Stands(c) ==
    /\ call'[c].op = call[c].op /\ call'[c].req = call[c].req
    /\ call'[c].lost = call[c].lost

\* The call of c goes to a place and is otherwise as it was.
Moved(c, place) ==
    /\ call' \in [Callers -> Call]
    /\ call'[c].at = place /\ Stands(c) /\ Others(c)
    /\ call'[c].again = call[c].again /\ call'[c].found = call[c].found
    /\ Job(c)' = Job(c) /\ call'[c].victim = call[c].victim

\* The types of the calls.
CallsOK == call \in [Callers -> Call]

\* A call goes to its next place.
LEMMA GotoMoves ==
    ASSUME CallsOK, NEW c \in Callers, NEW place \in Places, Goto(c, place)
    PROVE  Moved(c, place)
  BY DEF CallsOK, Goto, Moved, Stands, Others, Job, Call

\* A call that ends leaves the calls of the others and their locks alone.
LEMMA EndMoves ==
    ASSUME CallsOK, NEW c \in Callers, End(c)
    PROVE  /\ call' \in [Callers -> Call] /\ call'[c] = NoCall /\ Others(c)
           /\ owner' = [j \in Jobs |-> IF owner[j] = c THEN NoProc ELSE owner[j]]
  <1>1. NoCall \in Call
    BY DEF NoCall, Call, Places
  <1>. QED
    BY <1>1 DEF CallsOK, End, LetGo, Others

\* A request that is sent.
LEMMA BeginMoves ==
    ASSUME CallsOK, NEW c \in Callers, Begin(c)
    PROVE  /\ call' \in [Callers -> Call] /\ Others(c)
           /\ \E o \in Ops \cup {NoOp}, r \in Requests :
                 /\ SameIdOverlaps \/ o = NoOp \/ \A d \in Callers : call[d].op # o
                 /\ call'[c].op = o /\ call'[c].req = r
           /\ call'[c].at = IF call'[c].op = NoOp THEN "base" ELSE "ask"
           /\ ~call'[c].again /\ ~call'[c].lost
           /\ Job(c)' = NoJob /\ call'[c].found = NoJob /\ call'[c].victim = NoJob
  <1>1. PICK o \in Ops \cup {NoOp}, r \in Requests :
            /\ SameIdOverlaps \/ o = NoOp \/ \A d \in Callers : call[d].op # o
            /\ call' = [call EXCEPT ![c] = Sent(o, r)]
    BY DEF Begin
  <1>2. Sent(o, r) \in Call
    BY DEF Sent, Call, Places
  <1>. QED
    BY <1>1, <1>2 DEF CallsOK, Others, Job, Sent

\* The binding of the id is read.
LEMMA AskMoves ==
    ASSUME CallsOK, bound \in [Ids -> Jobs \cup {NoJob}], NEW c \in Callers, Ask(c),
           call[c].op \in Ops
    PROVE  /\ call' \in [Callers -> Call] /\ Others(c) /\ Stands(c)
           /\ call'[c].found = bound[call[c].op]
           /\ call'[c].at = IF bound[call[c].op] = NoJob THEN AfterLookup(c) ELSE "view"
           /\ call'[c].again = call[c].again /\ Job(c)' = Job(c)
           /\ call'[c].victim = call[c].victim
  <1>. DEFINE place == IF bound[call[c].op] = NoJob THEN AfterLookup(c) ELSE "view"
  <1>1. place \in Places
    BY DEF Places, AfterLookup
  <1>2. bound[call[c].op] \in Jobs \cup {NoJob}
    BY DEF Ids
  <1>3. call' = [call EXCEPT ![c].found = bound[call[c].op], ![c].at = place]
    BY DEF Ask
  <1>. HIDE DEF place
  <1>4. /\ call' \in [Callers -> Call] /\ Others(c) /\ Stands(c)
        /\ call'[c].found = bound[call[c].op] /\ call'[c].at = place
        /\ call'[c].again = call[c].again /\ Job(c)' = Job(c)
        /\ call'[c].victim = call[c].victim
    BY <1>1, <1>2, <1>3 DEF CallsOK, Others, Stands, Job, Call
  <1>. QED
    BY <1>4 DEF place

\* The lookup finds nothing to answer with.
LEMMA GoOnMoves ==
    ASSUME CallsOK, NEW c \in Callers, GoOn(c)
    PROVE  /\ call' \in [Callers -> Call] /\ Others(c) /\ Stands(c)
           /\ call'[c].found = NoJob /\ call'[c].at = AfterLookup(c)
           /\ call'[c].again = call[c].again /\ Job(c)' = Job(c)
           /\ call'[c].victim = call[c].victim
  <1>1. AfterLookup(c) \in Places
    BY DEF Places, AfterLookup
  <1>. QED
    BY <1>1 DEF CallsOK, GoOn, Others, Stands, Job, Call

\* The newest revision names the job.
LEMMA ReadBaseMoves ==
    ASSUME CallsOK, NEW c \in Callers, ReadBase(c), base \in 0..MaxBase,
           call[c].req \in Requests
    PROVE  /\ call' \in [Callers -> Call] /\ Others(c) /\ Stands(c)
           /\ call'[c].found = call[c].found /\ call'[c].victim = call[c].victim
           /\ call'[c].at = IF call[c].op = NoOp THEN "open" ELSE "ask"
           /\ call'[c].again /\ Job(c)' \in Jobs
  <1>. DEFINE place == IF call[c].op = NoOp THEN "open" ELSE "ask"
              job   == <<RangeOf[call[c].req], base>>
  <1>1. place \in Places
    BY DEF Places
  <1>2. job \in Jobs
    BY DEF Jobs
  <1>3. call' = [call EXCEPT ![c].job = job, ![c].again = TRUE, ![c].at = place]
    BY DEF ReadBase
  <1>. HIDE DEF place, job
  <1>4. /\ call' \in [Callers -> Call] /\ Others(c) /\ Stands(c)
        /\ call'[c].found = call[c].found /\ call'[c].victim = call[c].victim
        /\ call'[c].at = place /\ call'[c].again /\ Job(c)' = job
    BY <1>1, <1>2, <1>3 DEF CallsOK, Others, Stands, Job, Call
  <1>. QED
    BY <1>2, <1>4 DEF place

\* The victim of a prune is chosen.
LEMMA ChooseMoves ==
    ASSUME CallsOK, NEW c \in Callers, NEW j \in Jobs,
           call' = [call EXCEPT ![c].at = "prune_binding", ![c].victim = j]
    PROVE  /\ call' \in [Callers -> Call] /\ Others(c) /\ Stands(c)
           /\ call'[c].found = call[c].found /\ call'[c].victim = j
           /\ call'[c].at = "prune_binding"
           /\ call'[c].again = call[c].again /\ Job(c)' = Job(c)
  <1>1. "prune_binding" \in Places
    BY DEF Places
  <1>. QED
    BY <1>1 DEF CallsOK, Others, Stands, Job, Call

\* A prune ends, and its directory can be made.
LEMMA PruneIndexMoves ==
    ASSUME CallsOK, NEW c \in Callers, PruneIndex(c)
    PROVE  /\ call' \in [Callers -> Call] /\ Others(c) /\ Stands(c)
           /\ call'[c].found = call[c].found /\ call'[c].victim = NoJob
           /\ call'[c].at = "mkdir"
           /\ call'[c].again = call[c].again /\ Job(c)' = Job(c)
  <1>1. "mkdir" \in Places
    BY DEF Places
  <1>2. call' = [call EXCEPT ![c].at = "mkdir", ![c].victim = NoJob]
    BY DEF PruneIndex
  <1>. QED
    BY <1>1, <1>2 DEF CallsOK, Others, Stands, Job, Call

\* The removal of a directory leaves its owner without it.
LEMMA PruneDirectoryMoves ==
    ASSUME CallsOK, NEW c \in Callers, PruneDirectory(c), ~End(c)
    PROVE  /\ call' \in [Callers -> Call] /\ call'[c].at = "prune_index" /\ Stands(c)
           /\ \A d \in Callers :
                 /\ call'[d].found = call[d].found /\ call'[d].victim = call[d].victim
                 /\ call'[d].again = call[d].again /\ Job(d)' = Job(d)
                 /\ call'[d].op = call[d].op /\ call'[d].req = call[d].req
           /\ \A d \in Callers \ {c} :
                 /\ call'[d].at = call[d].at
                 /\ owner[call[c].victim] # d => call'[d] = call[d]
                 /\ owner[call[c].victim] = d => call'[d].lost
  <1>1. "prune_index" \in Places
    BY DEF Places
  <1>2. call' = [d \in Callers |->
                    IF d = c THEN [call[d] EXCEPT !.at = "prune_index"]
                    ELSE [call[d] EXCEPT !.lost = IF owner[call[c].victim] = d THEN TRUE ELSE @]]
    BY DEF PruneDirectory
  <1>3. call'[c] = [call[c] EXCEPT !.at = "prune_index"] /\ call[c] \in Call
    BY <1>2 DEF CallsOK
  <1>4. ASSUME NEW d \in Callers \ {c}
        PROVE  /\ call'[d] \in Call /\ call'[d].at = call[d].at
               /\ call'[d].found = call[d].found /\ call'[d].victim = call[d].victim
               /\ call'[d].again = call[d].again /\ Job(d)' = Job(d)
               /\ call'[d].op = call[d].op /\ call'[d].req = call[d].req
               /\ owner[call[c].victim] # d => call'[d] = call[d]
               /\ owner[call[c].victim] = d => call'[d].lost
    <2>1. PICK b \in BOOLEAN : /\ call'[d] = [call[d] EXCEPT !.lost = b]
                               /\ owner[call[c].victim] # d => b = call[d].lost
                               /\ owner[call[c].victim] = d => b
      <3>1. call[d].lost \in BOOLEAN
        BY DEF CallsOK, Call
      <3>. QED
        BY <1>2, <3>1
    <2>2. call[d] \in Call
      BY DEF CallsOK
    <2>. QED
      BY <2>1, <2>2 DEF Call, Job
  <1>5. /\ call'[c] \in Call /\ call'[c].at = "prune_index" /\ Stands(c)
        /\ call'[c].found = call[c].found /\ call'[c].victim = call[c].victim
        /\ call'[c].again = call[c].again /\ Job(c)' = Job(c)
    BY <1>1, <1>3 DEF Call, Job, Stands
  <1>6. call' \in [Callers -> Call]
    BY <1>2, <1>4, <1>5
  <1>. QED
    BY <1>4, <1>5, <1>6 DEF Stands

-----------------------------------------------------------------------------
(* Types, and what a call knows at each place.                             *)

\* A place fixes what is known of a call.
LEMMA CallKnows ==
    ASSUME CallsOK, PlaceInv, NEW c \in Callers
    PROVE  /\ call[c].at \in Chosen => Job(c) \in Jobs
           /\ call[c].again => Job(c) \in Jobs
           /\ At(c, "view") => call[c].found \in Jobs
           /\ call[c].at \in Pruning => call[c].victim \in Jobs
           /\ call[c].op # NoOp => call[c].op \in Ops
           /\ Active(c) => call[c].req \in Requests
           /\ call[c].at \in Places
  BY DEF CallsOK, PlaceInv, Knows, Call, Job, At, Active

\* It is enough to look at the call that moved.
LEMMA PlaceOfOne ==
    ASSUME PlaceInv, NEW c \in Callers, call' \in [Callers -> Call], Others(c), Knows(call'[c])
    PROVE  (CallsOK /\ PlaceInv)'
  BY DEF CallsOK, PlaceInv, Others

\* Every step keeps what a call knows at each place.
LEMMA PlaceStep ==
    ASSUME bound \in [Ids -> Jobs \cup {NoJob}], base \in 0..MaxBase, CallsOK,
        PlaceInv, [Next]_vars
    PROVE  (CallsOK /\ PlaceInv)'
  <1>. USE DEF PlaceInv, Knows, At, Active, Moved, Stands, Chosen, Owning, Pruning, NoCall, Job
  <1>1. ASSUME NEW c \in Callers, Begin(c)
        PROVE  (CallsOK /\ PlaceInv)'
    <2>1. call' \in [Callers -> Call] /\ Others(c) /\ Knows(call'[c])
      BY <1>1, CallKnows, BeginMoves DEF Begin
    <2>. QED
      BY <2>1, PlaceOfOne
  <1>2. ASSUME NEW c \in Callers, Ask(c)
        PROVE  (CallsOK /\ PlaceInv)'
    <2>1. At(c, "ask") /\ call[c].op \in Ops
      BY <1>2, CallKnows DEF Ask
    <2>2. call' \in [Callers -> Call] /\ Others(c) /\ Knows(call'[c])
      BY <1>2, <2>1, CallKnows, AskMoves DEF AfterLookup
    <2>. QED
      BY <2>2, PlaceOfOne
  <1>3. ASSUME NEW c \in Callers, View(c)
        PROVE  (CallsOK /\ PlaceInv)'
    <2>1. call' \in [Callers -> Call] /\ Others(c) /\ Knows(call'[c])
      BY <1>3, CallKnows, GoOnMoves, EndMoves DEF View, Answer, AfterLookup
    <2>. QED
      BY <2>1, PlaceOfOne
  <1>4. ASSUME NEW c \in Callers, ReadBase(c)
        PROVE  (CallsOK /\ PlaceInv)'
    <2>1. At(c, "base") /\ call[c].req \in Requests
      BY <1>4, CallKnows DEF ReadBase
    <2>2. call' \in [Callers -> Call] /\ Others(c) /\ Knows(call'[c])
      BY <1>4, <2>1, CallKnows, ReadBaseMoves
    <2>. QED
      BY <2>2, PlaceOfOne
  <1>5. ASSUME NEW c \in Callers, Open(c)
        PROVE  (CallsOK /\ PlaceInv)'
    <2>1. call' \in [Callers -> Call] /\ Others(c) /\ Knows(call'[c])
      BY <1>5, CallKnows, GotoMoves, EndMoves, ChooseMoves DEF Open, Places
    <2>. QED
      BY <2>1, PlaceOfOne
  <1>6. ASSUME NEW c \in Callers, PruneBinding(c)
        PROVE  (CallsOK /\ PlaceInv)'
    <2>1. call' \in [Callers -> Call] /\ Others(c) /\ Knows(call'[c])
      BY <1>6, CallKnows, GotoMoves DEF PruneBinding, Places
    <2>. QED
      BY <2>1, PlaceOfOne
  <1>7. ASSUME NEW c \in Callers, PruneDirectory(c)
        PROVE  (CallsOK /\ PlaceInv)'
    <2>1. CASE End(c)
      BY <1>7, <2>1, EndMoves, PlaceOfOne
    <2>2. CASE ~End(c)
      <3>1. Knows(call'[c])
        BY <1>7, <2>2, PruneDirectoryMoves DEF PruneDirectory
      <3>2. ASSUME NEW d \in Callers \ {c} PROVE Knows(call'[d])
        BY <1>7, <2>2, PruneDirectoryMoves
      <3>. QED
        BY <1>7, <2>2, <3>1, <3>2, PruneDirectoryMoves DEF CallsOK
    <2>. QED
      BY <2>1, <2>2
  <1>8. ASSUME NEW c \in Callers, PruneIndex(c)
        PROVE  (CallsOK /\ PlaceInv)'
    <2>1. At(c, "prune_index")
      BY <1>8, CallKnows DEF PruneIndex
    <2>2. call' \in [Callers -> Call] /\ Others(c) /\ Knows(call'[c])
      BY <1>8, <2>1, CallKnows, PruneIndexMoves
    <2>. QED
      BY <2>2, PlaceOfOne
  <1>9. ASSUME NEW c \in Callers, MakeDirectory(c)
        PROVE  (CallsOK /\ PlaceInv)'
    <2>1. call' \in [Callers -> Call] /\ Others(c) /\ Knows(call'[c])
      BY <1>9, CallKnows, GotoMoves DEF MakeDirectory, Places
    <2>. QED
      BY <2>1, PlaceOfOne
  <1>10. ASSUME NEW c \in Callers, Own(c)
        PROVE  (CallsOK /\ PlaceInv)'
    <2>1. call' \in [Callers -> Call] /\ Others(c) /\ Knows(call'[c])
      BY <1>10, CallKnows, GotoMoves, EndMoves DEF Own, Places
    <2>. QED
      BY <2>1, PlaceOfOne
  <1>11. ASSUME NEW c \in Callers, WriteRecord(c)
        PROVE  (CallsOK /\ PlaceInv)'
    <2>1. call' \in [Callers -> Call] /\ Others(c) /\ Knows(call'[c])
      BY <1>11, CallKnows, GotoMoves, EndMoves DEF WriteRecord, Lost, Places
    <2>. QED
      BY <2>1, PlaceOfOne
  <1>12. ASSUME NEW c \in Callers, Index(c)
        PROVE  (CallsOK /\ PlaceInv)'
    <2>1. call' \in [Callers -> Call] /\ Others(c) /\ Knows(call'[c])
      BY <1>12, CallKnows, GotoMoves DEF Index, Places
    <2>. QED
      BY <2>1, PlaceOfOne
  <1>13. ASSUME NEW c \in Callers, Reconcile(c)
        PROVE  (CallsOK /\ PlaceInv)'
    <2>1. call' \in [Callers -> Call] /\ Others(c) /\ Knows(call'[c])
      BY <1>13, CallKnows, GotoMoves, EndMoves DEF Reconcile, Lost, Places
    <2>. QED
      BY <2>1, PlaceOfOne
  <1>14. ASSUME NEW c \in Callers, Settle(c)
        PROVE  (CallsOK /\ PlaceInv)'
    <2>1. call' \in [Callers -> Call] /\ Others(c) /\ Knows(call'[c])
      BY <1>14, CallKnows, GotoMoves, EndMoves DEF Settle, Lost, Answer, Places
    <2>. QED
      BY <2>1, PlaceOfOne
  <1>15. ASSUME NEW c \in Callers, Bind(c)
        PROVE  (CallsOK /\ PlaceInv)'
    <2>1. call' \in [Callers -> Call] /\ Others(c) /\ Knows(call'[c])
      BY <1>15, CallKnows, GotoMoves, EndMoves DEF Bind, Lost, AfterBind, Places
    <2>. QED
      BY <2>1, PlaceOfOne
  <1>16. ASSUME NEW c \in Callers, BindFile(c)
        PROVE  (CallsOK /\ PlaceInv)'
    <2>1. call' \in [Callers -> Call] /\ Others(c) /\ Knows(call'[c])
      BY <1>16, CallKnows, GotoMoves, EndMoves DEF BindFile, Answer, Places
    <2>. QED
      BY <2>1, PlaceOfOne
  <1>17. ASSUME NEW c \in Callers, Start(c)
        PROVE  (CallsOK /\ PlaceInv)'
    <2>1. call' \in [Callers -> Call] /\ Others(c) /\ Knows(call'[c])
      BY <1>17, CallKnows, GotoMoves, EndMoves DEF Start, Lost, Places
    <2>. QED
      BY <2>1, PlaceOfOne
  <1>18. ASSUME NEW c \in Callers, Succeed(c)
        PROVE  (CallsOK /\ PlaceInv)'
    <2>1. call' \in [Callers -> Call] /\ Others(c) /\ Knows(call'[c])
      BY <1>18, CallKnows, GotoMoves, EndMoves DEF Succeed, Lost, Answer, Places
    <2>. QED
      BY <2>1, PlaceOfOne
  <1>19. ASSUME NEW c \in Callers, Alias(c)
        PROVE  (CallsOK /\ PlaceInv)'
    <2>1. call' \in [Callers -> Call] /\ Others(c) /\ Knows(call'[c])
      BY <1>19, CallKnows, EndMoves DEF Alias, Answer
    <2>. QED
      BY <2>1, PlaceOfOne
  <1>20. ASSUME NEW c \in Callers, Work(c)
        PROVE  (CallsOK /\ PlaceInv)'
    <2>1. call' \in [Callers -> Call] /\ Others(c) /\ Knows(call'[c])
      BY <1>20, CallKnows, GotoMoves, EndMoves DEF Work, Lost, Stop, Places
    <2>. QED
      BY <2>1, PlaceOfOne
  <1>21. ASSUME NEW c \in Callers, Publish(c)
        PROVE  (CallsOK /\ PlaceInv)'
    <2>1. call' \in [Callers -> Call] /\ Others(c) /\ Knows(call'[c])
      BY <1>21, CallKnows, GotoMoves, EndMoves DEF Publish, Lost, Stop, Places
    <2>. QED
      BY <2>1, PlaceOfOne
  <1>22. ASSUME NEW c \in Callers, Crash(c)
        PROVE  (CallsOK /\ PlaceInv)'
    <2>1. call' \in [Callers -> Call] /\ Others(c) /\ Knows(call'[c])
      BY <1>22, CallKnows, EndMoves DEF Crash
    <2>. QED
      BY <2>1, PlaceOfOne
  <1>23. CASE UNCHANGED call
    BY <1>23 DEF CallsOK
  <1>. QED
    BY <1>1, <1>2, <1>3, <1>4, <1>5, <1>6, <1>7, <1>8, <1>9, <1>10, <1>11,
           <1>12, <1>13, <1>14, <1>15, <1>16, <1>17, <1>18, <1>19, <1>20,
           <1>21, <1>22, <1>23 DEF Next, Step, Finished, vars, disk, history

\* A directory that is gone has a record of the right type.
LEMMA NoRecordType == NoRecord \in Record
  BY DEF NoRecord, Record, States

\* Every step keeps the types of the records.
LEMMA RecTypes ==
    ASSUME rec \in [Jobs -> Record], CallsOK, PlaceInv, [Next]_vars
    PROVE  (rec \in [Jobs -> Record])'
  <1>. USE DEF Record, States, Terminal, At, Active, Chosen, Owning, Pruning
  <1>1. ASSUME NEW c \in Callers, View(c)
        PROVE  (rec \in [Jobs -> Record])'
    <2>. DEFINE j == call[c].found
    <2>1. j \in Jobs
      BY <1>1, CallKnows DEF View
    <2>2. UNCHANGED rec \/ \E s \in States : rec' = [rec EXCEPT ![j].st = s]
      BY <1>1, <2>1 DEF View, SetState, Reconciled
    <2>. QED
      BY <2>1, <2>2
  <1>2. ASSUME NEW c \in Callers, PruneDirectory(c)
        PROVE  (rec \in [Jobs -> Record])'
    <2>1. NoRecord \in Record
      BY NoRecordType
    <2>2. call[c].victim \in Jobs
      BY <1>2, CallKnows DEF PruneDirectory
    <2>. HIDE DEF Record
    <2>. QED
      BY <1>2, <2>1, <2>2 DEF PruneDirectory
  <1>3. ASSUME NEW c \in Callers, MakeDirectory(c)
        PROVE  (rec \in [Jobs -> Record])'
    BY <1>3, CallKnows DEF MakeDirectory
  <1>4. ASSUME NEW c \in Callers, WriteRecord(c)
        PROVE  (rec \in [Jobs -> Record])'
    BY <1>4, CallKnows DEF WriteRecord, SetState, Lost
  <1>5. ASSUME NEW c \in Callers, Reconcile(c)
        PROVE  (rec \in [Jobs -> Record])'
    BY <1>5, CallKnows DEF Reconcile, SetState, Reconciled, Lost
  <1>6. ASSUME NEW c \in Callers, Settle(c)
        PROVE  (rec \in [Jobs -> Record])'
    BY <1>6, CallKnows DEF Settle, SetState, Lost
  <1>7. ASSUME NEW c \in Callers, Bind(c)
        PROVE  (rec \in [Jobs -> Record])'
    <2>1. Job(c) \in Jobs /\ call[c].op \in Ids
      BY <1>7, CallKnows DEF Bind, Ids, PlaceInv, Knows
    <2>2. \/ UNCHANGED rec
          \/ rec' = [rec EXCEPT ![Job(c)].ops = @ \cup {call[c].op}]
      BY <1>7 DEF Bind, Lost
    <2>. QED
      BY <2>1, <2>2
  <1>8. ASSUME NEW c \in Callers, Start(c)
        PROVE  (rec \in [Jobs -> Record])'
    BY <1>8, CallKnows DEF Start, SetState, Lost
  <1>9. ASSUME NEW c \in Callers, Work(c)
        PROVE  (rec \in [Jobs -> Record])'
    BY <1>9, CallKnows DEF Work, SetState, Lost, Stop
  <1>10. ASSUME NEW c \in Callers, Publish(c)
        PROVE  (rec \in [Jobs -> Record])'
    BY <1>10, CallKnows DEF Publish, SetState, Lost, Stop
  <1>11. ASSUME NEW c \in Callers, Succeed(c)
        PROVE  (rec \in [Jobs -> Record])'
    BY <1>11, CallKnows DEF Succeed, SetState, Lost
  <1>12. CASE UNCHANGED rec
    BY <1>12
  <1>. QED
    BY <1>1, <1>2, <1>3, <1>4, <1>5, <1>6, <1>7, <1>8, <1>9, <1>10, <1>11,
           <1>12 DEF Next, Step, Finished, vars, disk, history, Begin, Ask,
           ReadBase, Open, PruneBinding, PruneIndex, Own, Index, BindFile,
           Alias, Crash

\* Every step keeps the types of the bindings.
LEMMA BoundTypes ==
    ASSUME bound \in [Ids -> Jobs \cup {NoJob}], CallsOK, PlaceInv,
        [Next]_vars
    PROVE  (bound \in [Ids -> Jobs \cup {NoJob}])'
  <1>. USE DEF At, Active, Chosen, Owning, Pruning
  <1>1. ASSUME NEW c \in Callers, PruneBinding(c)
        PROVE  (bound \in [Ids -> Jobs \cup {NoJob}])'
    BY <1>1, CallKnows DEF PruneBinding, Ids
  <1>2. ASSUME NEW c \in Callers, BindFile(c)
        PROVE  (bound \in [Ids -> Jobs \cup {NoJob}])'
    BY <1>2, CallKnows DEF BindFile, Ids
  <1>3. ASSUME NEW c \in Callers, Alias(c)
        PROVE  (bound \in [Ids -> Jobs \cup {NoJob}])'
    BY <1>3, CallKnows DEF Alias, Ids
  <1>4. CASE UNCHANGED bound
    BY <1>4
  <1>. QED
    BY <1>1, <1>2, <1>3, <1>4 DEF Next, Step, Finished, vars, disk, history,
           Begin, Ask, View, ReadBase, Open, PruneDirectory, PruneIndex,
           MakeDirectory, Own, WriteRecord, Index, Reconcile, Settle, Bind,
           Start, Succeed, Work, Publish, Crash

\* Every step keeps the types of the job index.
LEMMA IndexTypes ==
    ASSUME index \subseteq Jobs, CallsOK, PlaceInv, [Next]_vars
    PROVE  (index \subseteq Jobs)'
  <1>. USE DEF At, Active, Chosen, Owning, Pruning
  <1>1. ASSUME NEW c \in Callers, PruneIndex(c)
        PROVE  (index \subseteq Jobs)'
    BY <1>1, CallKnows DEF PruneIndex
  <1>2. ASSUME NEW c \in Callers, Index(c)
        PROVE  (index \subseteq Jobs)'
    BY <1>2, CallKnows DEF Index
  <1>3. CASE UNCHANGED index
    BY <1>3
  <1>. QED
    BY <1>1, <1>2, <1>3 DEF Next, Step, Finished, vars, disk, history, Begin,
           Ask, View, ReadBase, Open, PruneBinding, PruneDirectory,
           MakeDirectory, Own, WriteRecord, Reconcile, Settle, Bind, BindFile,
           Start, Succeed, Alias, Work, Publish, Crash

\* Every step keeps the types of the owner locks.
LEMMA OwnerTypes ==
    ASSUME owner \in [Jobs -> Callers \cup {NoProc}], [Next]_vars
    PROVE  (owner \in [Jobs -> Callers \cup {NoProc}])'
  <1>1. ASSUME NEW c \in Callers, View(c)
        PROVE  (owner \in [Jobs -> Callers \cup {NoProc}])'
    BY <1>1 DEF View, Answer, End, LetGo
  <1>2. ASSUME NEW c \in Callers, Open(c)
        PROVE  (owner \in [Jobs -> Callers \cup {NoProc}])'
    BY <1>2 DEF Open, End, LetGo
  <1>3. ASSUME NEW c \in Callers, PruneDirectory(c)
        PROVE  (owner \in [Jobs -> Callers \cup {NoProc}])'
    BY <1>3 DEF PruneDirectory, End, LetGo
  <1>4. ASSUME NEW c \in Callers, Own(c)
        PROVE  (owner \in [Jobs -> Callers \cup {NoProc}])'
    BY <1>4 DEF Own, End, LetGo
  <1>5. ASSUME NEW c \in Callers, WriteRecord(c)
        PROVE  (owner \in [Jobs -> Callers \cup {NoProc}])'
    BY <1>5 DEF WriteRecord, Lost, Answer, Stop, End, LetGo
  <1>6. ASSUME NEW c \in Callers, Reconcile(c)
        PROVE  (owner \in [Jobs -> Callers \cup {NoProc}])'
    BY <1>6 DEF Reconcile, Lost, Answer, Stop, End, LetGo
  <1>7. ASSUME NEW c \in Callers, Settle(c)
        PROVE  (owner \in [Jobs -> Callers \cup {NoProc}])'
    BY <1>7 DEF Settle, Lost, Answer, Stop, End, LetGo
  <1>8. ASSUME NEW c \in Callers, Bind(c)
        PROVE  (owner \in [Jobs -> Callers \cup {NoProc}])'
    BY <1>8 DEF Bind, Lost, Answer, Stop, End, LetGo
  <1>9. ASSUME NEW c \in Callers, BindFile(c)
        PROVE  (owner \in [Jobs -> Callers \cup {NoProc}])'
    BY <1>9 DEF BindFile, Lost, Answer, Stop, End, LetGo
  <1>10. ASSUME NEW c \in Callers, Start(c)
        PROVE  (owner \in [Jobs -> Callers \cup {NoProc}])'
    BY <1>10 DEF Start, Lost, Answer, Stop, End, LetGo
  <1>11. ASSUME NEW c \in Callers, Succeed(c)
        PROVE  (owner \in [Jobs -> Callers \cup {NoProc}])'
    BY <1>11 DEF Succeed, Lost, Answer, Stop, End, LetGo
  <1>12. ASSUME NEW c \in Callers, Alias(c)
        PROVE  (owner \in [Jobs -> Callers \cup {NoProc}])'
    BY <1>12 DEF Alias, Lost, Answer, Stop, End, LetGo
  <1>13. ASSUME NEW c \in Callers, Work(c)
        PROVE  (owner \in [Jobs -> Callers \cup {NoProc}])'
    BY <1>13 DEF Work, Lost, Answer, Stop, End, LetGo
  <1>14. ASSUME NEW c \in Callers, Publish(c)
        PROVE  (owner \in [Jobs -> Callers \cup {NoProc}])'
    BY <1>14 DEF Publish, Lost, Answer, Stop, End, LetGo
  <1>15. ASSUME NEW c \in Callers, Crash(c)
        PROVE  (owner \in [Jobs -> Callers \cup {NoProc}])'
    BY <1>15 DEF Crash, Lost, Answer, Stop, End, LetGo
  <1>16. CASE UNCHANGED owner
    BY <1>16
  <1>. QED
    BY <1>1, <1>2, <1>3, <1>4, <1>5, <1>6, <1>7, <1>8, <1>9, <1>10, <1>11,
           <1>12, <1>13, <1>14, <1>15, <1>16 DEF Next, Step, Finished, vars,
           disk, history, Begin, Ask, ReadBase, PruneBinding, PruneIndex,
           MakeDirectory, Index

\* Every step keeps the type of the newest revision.
LEMMA BaseTypes ==
    ASSUME base \in 0..MaxBase, [Next]_vars
    PROVE  (base \in 0..MaxBase)'
  <1>1. ASSUME NEW c \in Callers, Publish(c)
        PROVE  (base \in 0..MaxBase)'
    BY <1>1 DEF Publish
  <1>2. CASE UNCHANGED base
    BY <1>2
  <1>. QED
    BY <1>1, <1>2 DEF Next, Step, Finished, vars, disk, history, Begin, Ask,
           View, ReadBase, Open, PruneBinding, PruneDirectory, PruneIndex,
           MakeDirectory, Own, WriteRecord, Index, Reconcile, Settle, Bind,
           BindFile, Start, Succeed, Alias, Work, Crash

\* Every step keeps the types of the bounds.
LEMMA BoundsTypes ==
    ASSUME calls \in 0..MaxCalls, faults \in 0..MaxFaults, [Next]_vars
    PROVE  (calls \in 0..MaxCalls /\ faults \in 0..MaxFaults)'
  <1>1. ASSUME NEW c \in Callers, Begin(c)
        PROVE  calls' \in 0..MaxCalls
    BY <1>1 DEF Begin
  <1>2. ASSUME NEW c \in Callers, Work(c) \/ Publish(c) \/ Crash(c)
        PROVE  faults' \in 0..MaxFaults
    BY <1>2 DEF Work, Publish, Crash, Stop
  <1>. QED
    BY <1>1, <1>2 DEF Next, Finished, vars

\* Every step keeps the types of the commits in the chain.
LEMMA LandedTypes ==
    ASSUME landed \subseteq Jobs, CallsOK, PlaceInv, [Next]_vars
    PROVE  (landed \subseteq Jobs)'
  <1>. USE DEF At, Active, Chosen, Owning, Pruning
  <1>1. ASSUME NEW c \in Callers, Work(c)
        PROVE  (landed \subseteq Jobs)'
    BY <1>1, CallKnows DEF Work, Lost, Stop
  <1>2. ASSUME NEW c \in Callers, Publish(c)
        PROVE  (landed \subseteq Jobs)'
    BY <1>2, CallKnows DEF Publish, Lost, Stop
  <1>3. CASE UNCHANGED landed
    BY <1>3
  <1>. QED
    BY <1>1, <1>2, <1>3 DEF Next, Step, Finished, vars, disk, history, Begin,
           Ask, View, ReadBase, Open, PruneBinding, PruneDirectory,
           PruneIndex, MakeDirectory, Own, WriteRecord, Index, Reconcile,
           Settle, Bind, BindFile, Start, Succeed, Alias, Crash, Lost, Stop

\* Every step keeps the types of what was published.
LEMMA PublishedTypes ==
    ASSUME published \in [Ops \X Requests -> Nat], CallsOK, PlaceInv,
        [Next]_vars
    PROVE  (published \in [Ops \X Requests -> Nat])'
  <1>. USE DEF At, Active, Chosen, Owning, Pruning
  <1>1. ASSUME NEW c \in Callers, Publish(c)
        PROVE  (published \in [Ops \X Requests -> Nat])'
    BY <1>1, CallKnows DEF Publish
  <1>2. CASE UNCHANGED published
    BY <1>2
  <1>. QED
    BY <1>1, <1>2 DEF Next, Step, Finished, vars, disk, history, Begin, Ask,
           View, ReadBase, Open, PruneBinding, PruneDirectory, PruneIndex,
           MakeDirectory, Own, WriteRecord, Index, Reconcile, Settle, Bind,
           BindFile, Start, Succeed, Alias, Work, Crash, Lost, Stop

\* Every step keeps the types of what was answered.
LEMMA AnsweredTypes ==
    ASSUME answered \subseteq Ops \X Requests, CallsOK, PlaceInv, [Next]_vars
    PROVE  (answered \subseteq Ops \X Requests)'
  <1>. USE DEF At, Active, Chosen, Owning, Pruning
  <1>1. ASSUME NEW c \in Callers, View(c)
        PROVE  (answered \subseteq Ops \X Requests)'
    BY <1>1, CallKnows DEF View, Answer
  <1>2. ASSUME NEW c \in Callers, Settle(c)
        PROVE  (answered \subseteq Ops \X Requests)'
    BY <1>2, CallKnows DEF Settle, Answer
  <1>3. ASSUME NEW c \in Callers, BindFile(c)
        PROVE  (answered \subseteq Ops \X Requests)'
    BY <1>3, CallKnows DEF BindFile, Answer
  <1>4. ASSUME NEW c \in Callers, Succeed(c)
        PROVE  (answered \subseteq Ops \X Requests)'
    BY <1>4, CallKnows DEF Succeed, Answer
  <1>5. ASSUME NEW c \in Callers, Alias(c)
        PROVE  (answered \subseteq Ops \X Requests)'
    BY <1>5, CallKnows DEF Alias, Answer
  <1>6. CASE UNCHANGED answered
    BY <1>6
  <1>. QED
    BY <1>1, <1>2, <1>3, <1>4, <1>5, <1>6 DEF Next, Step, Finished, vars,
           disk, history, Begin, Ask, ReadBase, Open, PruneBinding,
           PruneDirectory, PruneIndex, MakeDirectory, Own, WriteRecord, Index,
           Reconcile, Bind, Start, Work, Publish, Crash, Lost, Stop

\* Types and places are kept by every step.
LEMMA TypeStep ==
    ASSUME BindingTypeOK, PlaceInv, [Next]_vars
    PROVE  (BindingTypeOK /\ PlaceInv)'
  BY PlaceStep, RecTypes, BoundTypes, IndexTypes, OwnerTypes, BaseTypes, BoundsTypes, LandedTypes,
     PublishedTypes, AnsweredTypes
     DEF BindingTypeOK, CallsOK

\* The types hold, and every call knows what its place needs.
THEOREM BindingTypes == Spec => []BindingTypeOK
  <1>1. Init => BindingTypeOK /\ PlaceInv
    BY DEF Init, BindingTypeOK, PlaceInv, Knows, NoRecord, Record, States, NoCall, Call, Places,
           Chosen, Owning, Pruning
  <1>2. BindingTypeOK /\ PlaceInv /\ [Next]_vars => (BindingTypeOK /\ PlaceInv)'
    BY TypeStep
  <1>. QED
    BY <1>1, <1>2, PTL DEF Spec

-----------------------------------------------------------------------------
(* Directories, owner locks and the room of a session.                     *)

\* What a caller may do.
Act(c) == Begin(c) \/ Step(c) \/ Work(c) \/ Publish(c) \/ Crash(c)

\* Only a prune removes a directory, and only MakeDirectory makes one.
LEMMA ExistsKept ==
    ASSUME rec \in [Jobs -> Record], CallsOK, PlaceInv, HoldInv, NEW c \in Callers, Act(c),
           call[c].at \notin {"prune_dir", "mkdir"}
    PROVE  \A j \in Jobs : Exists(j)' <=> Exists(j)
  <1>. USE DEF Exists, At, Chosen, Owning, HoldInv, Alive, Terminal
  <1>1. CASE View(c)
    <2>. DEFINE j == call[c].found
    <2>1. j \in Jobs
      BY <1>1, CallKnows DEF View
    <2>2. \/ UNCHANGED rec
          \/ Exists(j) /\ \E s \in States \ {"absent"} : rec' = [rec EXCEPT ![j].st = s]
      BY <1>1, <2>1 DEF View, SetState, Reconciled, Readable, States
    <2>. QED
      BY <2>1, <2>2 DEF Record
  <1>2. CASE WriteRecord(c)
    BY <1>2, CallKnows DEF WriteRecord, Lost, Record
  <1>3. CASE Reconcile(c)
    BY <1>3, CallKnows DEF Reconcile, SetState, Reconciled, Lost, Record
  <1>4. CASE Settle(c)
    BY <1>4, CallKnows DEF Settle, Lost, Record
  <1>5. CASE Bind(c)
    BY <1>5, CallKnows DEF Bind, Lost, Record
  <1>6. CASE Start(c)
    BY <1>6, CallKnows DEF Start, SetState, Lost, Record
  <1>7. CASE Work(c)
    BY <1>7, CallKnows DEF Work, SetState, Lost, Stop, Record
  <1>8. CASE Publish(c)
    BY <1>8, CallKnows DEF Publish, SetState, Lost, Stop, Record
  <1>9. CASE Succeed(c)
    BY <1>9, CallKnows DEF Succeed, SetState, Lost, Record
  <1>10. CASE UNCHANGED rec
    BY <1>10
  <1>. QED
    BY <1>1, <1>2, <1>3, <1>4, <1>5, <1>6, <1>7, <1>8, <1>9, <1>10 DEF Act,
           Step, disk, Begin, Ask, ReadBase, Open, PruneBinding,
           PruneDirectory, PruneIndex, MakeDirectory, Own, Index, BindFile,
           Alias, Crash

\* A prune that ends the call has removed nothing.
LEMMA PruneOrEnd ==
    ASSUME CallsOK, NEW c \in Callers, PruneDirectory(c), End(c)
    PROVE  UNCHANGED rec
  <1>1. call'[c].at = "idle"
    BY EndMoves DEF NoCall
  <1>2. CASE call' = [d \in Callers |->
                        IF d = c THEN [call[d] EXCEPT !.at = "prune_index"]
                        ELSE [call[d] EXCEPT !.lost =
                                  IF owner[call[c].victim] = d THEN TRUE ELSE @]]
    <2>1. call'[c] = [call[c] EXCEPT !.at = "prune_index"] /\ call[c] \in Call
      BY <1>2 DEF CallsOK
    <2>2. call'[c].at = "prune_index"
      BY <2>1 DEF Call
    <2>. QED
      BY <1>1, <2>2
  <1>. QED
    BY <1>2 DEF PruneDirectory

\* The owner locks when a call ends.
LEMMA HoldEnd ==
    ASSUME CallsOK, PlaceInv, HoldInv, owner \in [Jobs -> Callers \cup {NoProc}],
           NEW c \in Callers, End(c),
           \A j \in Jobs : Exists(j) => Exists(j)'
    PROVE  HoldInv'
  <1>1. /\ call'[c] = NoCall /\ Others(c)
        /\ owner' = [j \in Jobs |-> IF owner[j] = c THEN NoProc ELSE owner[j]]
    BY EndMoves
  <1>2. ASSUME NEW d \in Callers, call'[d].at \in Owning, ~call'[d].lost
        PROVE  owner'[Job(d)'] = d /\ Exists(Job(d))'
    BY <1>1, <1>2, CallKnows DEF HoldInv, Others, NoCall, Owning, Job, Exists, Chosen
  <1>3. ASSUME NEW j \in Jobs, owner'[j] # NoProc
        PROVE  call'[owner'[j]].at \in Owning /\ Job(owner[j])' = j
    BY <1>1, <1>3 DEF HoldInv, Others, Job
  <1>. QED
    BY <1>2, <1>3 DEF HoldInv, Job

\* The owner locks when a call goes on, with its lock or without one.
LEMMA HoldStay ==
    ASSUME CallsOK, PlaceInv, HoldInv, owner \in [Jobs -> Callers \cup {NoProc}],
           NEW c \in Callers, Others(c), Stands(c), UNCHANGED owner,
           call'[c].at \in Owning <=> call[c].at \in Owning,
           call[c].at \in Owning => Job(c)' = Job(c),
           \A j \in Jobs : Exists(j) => Exists(j)'
    PROVE  HoldInv'
  <1>2. ASSUME NEW d \in Callers, call'[d].at \in Owning, ~call'[d].lost
        PROVE  owner'[Job(d)'] = d /\ Exists(Job(d))'
    BY <1>2, CallKnows DEF HoldInv, Others, Stands, Job, Exists, Chosen
  <1>3. ASSUME NEW j \in Jobs, owner'[j] # NoProc
        PROVE  call'[owner'[j]].at \in Owning /\ Job(owner[j])' = j
    BY <1>3 DEF HoldInv, Others, Job
  <1>. QED
    BY <1>2, <1>3 DEF HoldInv, Job

\* The steps that remove and make directories are known by their place.
LEMMA ActAtPlace ==
    ASSUME NEW c \in Callers, Act(c)
    PROVE  /\ At(c, "prune_dir") => PruneDirectory(c) \/ Crash(c)
           /\ At(c, "mkdir") => MakeDirectory(c) \/ Crash(c)
  <1>. USE DEF At
  <1>1. CASE Begin(c)
    BY <1>1 DEF Begin
  <1>2. CASE Ask(c)
    BY <1>2 DEF Ask
  <1>3. CASE View(c)
    BY <1>3 DEF View
  <1>4. CASE ReadBase(c)
    BY <1>4 DEF ReadBase
  <1>5. CASE Open(c)
    BY <1>5 DEF Open
  <1>6. CASE PruneBinding(c)
    BY <1>6 DEF PruneBinding
  <1>7. CASE PruneDirectory(c)
    BY <1>7 DEF PruneDirectory
  <1>8. CASE PruneIndex(c)
    BY <1>8 DEF PruneIndex
  <1>9. CASE MakeDirectory(c)
    BY <1>9 DEF MakeDirectory
  <1>10. CASE Own(c)
    BY <1>10 DEF Own
  <1>11. CASE WriteRecord(c)
    BY <1>11 DEF WriteRecord
  <1>12. CASE Index(c)
    BY <1>12 DEF Index
  <1>13. CASE Reconcile(c)
    BY <1>13 DEF Reconcile
  <1>14. CASE Settle(c)
    BY <1>14 DEF Settle
  <1>15. CASE Bind(c)
    BY <1>15 DEF Bind
  <1>16. CASE BindFile(c)
    BY <1>16 DEF BindFile
  <1>17. CASE Start(c)
    BY <1>17 DEF Start
  <1>18. CASE Succeed(c)
    BY <1>18 DEF Succeed
  <1>19. CASE Alias(c)
    BY <1>19 DEF Alias
  <1>20. CASE Work(c)
    BY <1>20 DEF Work
  <1>21. CASE Publish(c)
    BY <1>21 DEF Publish
  <1>. QED
    BY <1>1, <1>2, <1>3, <1>4, <1>5, <1>6, <1>7, <1>8, <1>9, <1>10, <1>11,
           <1>12, <1>13, <1>14, <1>15, <1>16, <1>17, <1>18, <1>19, <1>20,
           <1>21 DEF Act, Step
\* A caller's step takes its lock, ends its call, or leaves the locks alone.
LEMMA StayOrEnd ==
    ASSUME CallsOK, PlaceInv, bound \in [Ids -> Jobs \cup {NoJob}], base \in 0..MaxBase,
           NEW c \in Callers, Act(c), ~Begin(c), ~PruneDirectory(c), ~Own(c)
    PROVE  \/ End(c)
           \/ /\ Others(c) /\ Stands(c) /\ UNCHANGED owner
              /\ call'[c].at \in Owning <=> call[c].at \in Owning
              /\ call[c].at \in Owning => Job(c)' = Job(c)
  <1>. USE DEF At, Owning, Moved
  <1>1. CASE Ask(c)
    <2>1. call[c].op \in Ops
      BY <1>1, CallKnows DEF Ask, PlaceInv, Knows, Active
    <2>2. At(c, "ask") /\ UNCHANGED owner
      BY <1>1 DEF Ask
    <2>3. Others(c) /\ Stands(c) /\ call'[c].at \notin Owning
      BY <1>1, <2>1, AskMoves DEF AfterLookup
    <2>. QED
      BY <2>2, <2>3
  <1>2. CASE View(c)
    BY <1>2, GoOnMoves DEF View, Answer, AfterLookup
  <1>3. CASE ReadBase(c)
    <2>1. call[c].req \in Requests
      BY <1>3, CallKnows DEF ReadBase, PlaceInv, Knows, Active
    <2>2. At(c, "base") /\ UNCHANGED owner
      BY <1>3 DEF ReadBase
    <2>3. Others(c) /\ Stands(c) /\ call'[c].at \notin Owning
      BY <1>3, <2>1, ReadBaseMoves DEF AfterLookup
    <2>. QED
      BY <2>2, <2>3
  <1>4. CASE Open(c)
    BY <1>4, GotoMoves, ChooseMoves DEF Open, Places
  <1>5. CASE PruneBinding(c)
    BY <1>5, GotoMoves DEF PruneBinding, Places
  <1>6. CASE PruneIndex(c)
    BY <1>6, PruneIndexMoves DEF PruneIndex
  <1>7. CASE MakeDirectory(c)
    BY <1>7, GotoMoves DEF MakeDirectory, Places
  <1>8. CASE WriteRecord(c)
    BY <1>8, GotoMoves DEF WriteRecord, Lost, Places
  <1>9. CASE Index(c)
    BY <1>9, GotoMoves DEF Index, Places
  <1>10. CASE Reconcile(c)
    BY <1>10, GotoMoves DEF Reconcile, Lost, Places
  <1>11. CASE Settle(c)
    BY <1>11, GotoMoves DEF Settle, Lost, Answer, Places
  <1>12. CASE Bind(c)
    BY <1>12, GotoMoves DEF Bind, Lost, AfterBind, Places
  <1>13. CASE BindFile(c)
    BY <1>13, GotoMoves DEF BindFile, Answer, Places
  <1>14. CASE Start(c)
    BY <1>14, GotoMoves DEF Start, Lost, Places
  <1>15. CASE Succeed(c)
    BY <1>15, GotoMoves DEF Succeed, Lost, Answer, Places
  <1>16. CASE Alias(c)
    BY <1>16 DEF Alias, Answer
  <1>17. CASE Work(c)
    BY <1>17, GotoMoves DEF Work, Lost, Stop, Places
  <1>18. CASE Publish(c)
    BY <1>18, GotoMoves DEF Publish, Lost, Stop, Places
  <1>19. CASE Crash(c)
    BY <1>19 DEF Crash
  <1>. QED
    BY <1>1, <1>2, <1>3, <1>4, <1>5, <1>6, <1>7, <1>8, <1>9, <1>10, <1>11,
           <1>12, <1>13, <1>14, <1>15, <1>16, <1>17, <1>18, <1>19 DEF Act,
           Step

\* Every step keeps the owner locks.
LEMMA HoldStep ==
    ASSUME BindingTypeOK, PlaceInv, HoldInv, [Next]_vars
    PROVE  HoldInv'
  <1>. USE DEF BindingTypeOK, CallsOK
  <1>1. ASSUME NEW c \in Callers, Begin(c)
        PROVE  HoldInv'
    <2>1. Others(c) /\ call'[c].at \notin Owning /\ call[c].at \notin Owning
      BY <1>1, BeginMoves DEF Begin, Owning, At
    <2>2. UNCHANGED <<owner, rec>>
      BY <1>1 DEF Begin, disk
    <2>3. ASSUME NEW d \in Callers, call'[d].at \in Owning, ~call'[d].lost
          PROVE  owner'[Job(d)'] = d /\ Exists(Job(d))'
      BY <2>1, <2>2, <2>3 DEF HoldInv, Others, Job, Exists
    <2>4. ASSUME NEW j \in Jobs, owner'[j] # NoProc
          PROVE  call'[owner'[j]].at \in Owning /\ Job(owner[j])' = j
      BY <2>1, <2>2, <2>4 DEF HoldInv, Others, Job
    <2>. QED
      BY <2>3, <2>4 DEF HoldInv, Job
  <1>2. ASSUME NEW c \in Callers, PruneDirectory(c), ~End(c)
        PROVE  HoldInv'
    <2>. DEFINE v == call[c].victim
    <2>1. v \in Jobs /\ call[c].at \notin Owning
      BY <1>2, CallKnows DEF PruneDirectory, At, Pruning, Owning
    <2>2. /\ rec' = [rec EXCEPT ![v] = NoRecord]
          /\ owner' = [owner EXCEPT ![v] = NoProc]
      BY <1>2 DEF PruneDirectory
    <2>3. /\ call'[c].at = "prune_index"
          /\ \A d \in Callers : Job(d)' = Job(d)
          /\ \A d \in Callers \ {c} :
                /\ call'[d].at = call[d].at
                /\ owner[v] # d => call'[d] = call[d]
                /\ owner[v] = d => call'[d].lost
      BY <1>2, PruneDirectoryMoves
    <2>. HIDE DEF v
    <2>4. ASSUME NEW d \in Callers, call'[d].at \in Owning, ~call'[d].lost
          PROVE  owner'[Job(d)'] = d /\ Exists(Job(d))'
      <3>1. d # c /\ owner[v] # d /\ call[d].at \in Owning /\ ~call[d].lost /\ Job(d)' = Job(d)
        BY <2>3, <2>4 DEF Owning
      <3>2. owner[Job(d)] = d /\ Exists(Job(d)) /\ Job(d) \in Jobs
        BY <3>1, CallKnows DEF HoldInv, Chosen
      <3>. QED
        BY <2>1, <2>2, <3>1, <3>2 DEF Exists, Job
    <2>5. ASSUME NEW j \in Jobs, owner'[j] # NoProc
          PROVE  call'[owner'[j]].at \in Owning /\ Job(owner[j])' = j
      <3>1. owner'[j] = owner[j] /\ owner[j] # NoProc /\ owner[j] \in Callers
        BY <2>1, <2>2, <2>5
      <3>. QED
        BY <2>1, <2>3, <3>1 DEF HoldInv, Job
    <2>. QED
      BY <2>4, <2>5 DEF HoldInv, Job
  <1>3. ASSUME NEW c \in Callers, Own(c), ~End(c)
        PROVE  HoldInv'
    <2>1. /\ Job(c) \in Jobs /\ call[c].at \notin Owning
          /\ Exists(Job(c)) /\ owner[Job(c)] = NoProc
          /\ owner' = [owner EXCEPT ![Job(c)] = c] /\ Goto(c, "record") /\ UNCHANGED rec
      BY <1>3, CallKnows DEF Own, At, Owning, Chosen, disk
    <2>2. Moved(c, "record")
      BY <2>1, GotoMoves DEF Places
    <2>3. ASSUME NEW d \in Callers, call'[d].at \in Owning, ~call'[d].lost
          PROVE  owner'[Job(d)'] = d /\ Exists(Job(d))'
      BY <2>1, <2>2, <2>3, CallKnows DEF HoldInv, Others, Moved, Stands, Job, Exists, Chosen
    <2>4. ASSUME NEW j \in Jobs, owner'[j] # NoProc
          PROVE  call'[owner'[j]].at \in Owning /\ Job(owner[j])' = j
      <3>1. CASE j = Job(c)
        BY <2>1, <2>2, <3>1 DEF Moved, Job, Owning
      <3>2. CASE j # Job(c)
        <4>1. owner'[j] = owner[j] /\ owner[j] \in Callers \ {c}
          BY <2>1, <2>4, <3>2 DEF HoldInv
        <4>. QED
          BY <2>2, <4>1 DEF HoldInv, Others, Moved, Job
      <3>. QED
        BY <3>1, <3>2
    <2>. QED
      BY <2>3, <2>4 DEF HoldInv, Job
  <1>4. ASSUME NEW c \in Callers, Act(c), ~Begin(c), End(c) \/ ~PruneDirectory(c),
               End(c) \/ ~Own(c)
        PROVE  HoldInv'
    <2>1. \A j \in Jobs : Exists(j) => Exists(j)'
      <3>1. CASE At(c, "prune_dir")
        <4>1. PruneDirectory(c) /\ End(c) => UNCHANGED rec
          BY PruneOrEnd
        <4>2. UNCHANGED rec
          BY <1>4, <3>1, <4>1, ActAtPlace DEF Crash, disk
        <4>. QED
          BY <4>2 DEF Exists
      <3>2. CASE At(c, "mkdir")
        BY <1>4, <3>2, ActAtPlace, CallKnows
           DEF At, Exists, Chosen, Record, MakeDirectory, Crash, disk
      <3>. QED
        BY <1>4, <3>1, <3>2, ExistsKept DEF At
    <2>. QED
      BY <1>4, <2>1, StayOrEnd, HoldEnd, HoldStay
  <1>5. CASE UNCHANGED vars
    BY <1>5 DEF vars, disk, HoldInv, Exists, Job
  <1>. QED
    BY <1>1, <1>2, <1>3, <1>4, <1>5 DEF Next, Act, Finished

\* A step that neither finds nor makes room leaves no more room owed.
LEMMA MakingKept ==
    ASSUME CallsOK, PlaceInv, bound \in [Ids -> Jobs \cup {NoJob}], base \in 0..MaxBase,
           NEW c \in Callers, Act(c), ~Open(c), ~PruneDirectory(c)
    PROVE  Making' \subseteq Making
  <1>1. Others(c) /\ (c \in Making' => c \in Making)
    <2>. USE DEF At, Moved, Making, NoCall
    <2>1. CASE Begin(c)
      BY <2>1, BeginMoves
    <2>2. CASE Ask(c)
      <3>1. call[c].op \in Ops
        BY <2>2, CallKnows DEF Ask, PlaceInv, Knows, Active
      <3>. QED
        BY <2>2, <3>1, AskMoves DEF AfterLookup
    <2>3. CASE View(c)
      BY <2>3, GoOnMoves, EndMoves DEF View, Answer, AfterLookup
    <2>4. CASE ReadBase(c)
      <3>1. call[c].req \in Requests
        BY <2>4, CallKnows DEF ReadBase, PlaceInv, Knows, Active
      <3>. QED
        BY <2>4, <3>1, ReadBaseMoves DEF AfterLookup
    <2>5. CASE PruneBinding(c)
      BY <2>5, GotoMoves DEF PruneBinding, Places
    <2>6. CASE PruneIndex(c)
      BY <2>6, PruneIndexMoves DEF PruneIndex
    <2>7. CASE MakeDirectory(c)
      BY <2>7, GotoMoves DEF MakeDirectory, Places
    <2>8. CASE Own(c)
      BY <2>8, GotoMoves, EndMoves DEF Own, Places
    <2>9. CASE WriteRecord(c)
      BY <2>9, GotoMoves, EndMoves DEF WriteRecord, Lost, Places
    <2>10. CASE Index(c)
      BY <2>10, GotoMoves DEF Index, Places
    <2>11. CASE Reconcile(c)
      BY <2>11, GotoMoves, EndMoves DEF Reconcile, Lost, Places
    <2>12. CASE Settle(c)
      BY <2>12, GotoMoves, EndMoves DEF Settle, Lost, Answer, Places
    <2>13. CASE Bind(c)
      BY <2>13, GotoMoves, EndMoves DEF Bind, Lost, AfterBind, Places
    <2>14. CASE BindFile(c)
      BY <2>14, GotoMoves, EndMoves DEF BindFile, Answer, Places
    <2>15. CASE Start(c)
      BY <2>15, GotoMoves, EndMoves DEF Start, Lost, Places
    <2>16. CASE Succeed(c)
      BY <2>16, GotoMoves, EndMoves DEF Succeed, Lost, Answer, Places
    <2>17. CASE Alias(c)
      BY <2>17, EndMoves DEF Alias, Answer
    <2>18. CASE Work(c)
      BY <2>18, GotoMoves, EndMoves DEF Work, Lost, Stop, Places
    <2>19. CASE Publish(c)
      BY <2>19, GotoMoves, EndMoves DEF Publish, Lost, Stop, Places
    <2>20. CASE Crash(c)
      BY <2>20, EndMoves DEF Crash
    <2>. QED
      BY <2>1, <2>2, <2>3, <2>4, <2>5, <2>6, <2>7, <2>8, <2>9, <2>10, <2>11,
             <2>12, <2>13, <2>14, <2>15, <2>16, <2>17, <2>18, <2>19, <2>20 DEF
             Act, Step
  <1>. QED
    BY <1>1 DEF Making, Others

\* There are finitely many jobs.
LEMMA JobsFinite == IsFiniteSet(Jobs)
  <1>1. IsFiniteSet(0..MaxBase)
    BY FS_Interval
  <1>. QED
    BY <1>1, FS_Product DEF Jobs

\* A set has at most one element more when one is added.
LEMMA AddOne ==
    ASSUME NEW S, IsFiniteSet(S), NEW x
    PROVE  IsFiniteSet(S \cup {x}) /\ Cardinality(S \cup {x}) <= Cardinality(S) + 1
  <1>1. Cardinality(S) \in Nat
    BY FS_CardinalityType
  <1>2. /\ IsFiniteSet(S \cup {x})
        /\ Cardinality(S \cup {x}) = IF x \in S THEN Cardinality(S) ELSE Cardinality(S) + 1
    BY FS_AddElement
  <1>. QED
    BY <1>1, <1>2

\* The sets that are counted are finite.
LEMMA Finite ==
    /\ IsFiniteSet(Directories) /\ IsFiniteSet(Making)
    /\ Cardinality(Directories) \in Nat /\ Cardinality(Making) \in Nat
    /\ Cardinality(Callers) \in Nat /\ Cardinality(Making) <= Cardinality(Callers)
  <1>1. Directories \subseteq Jobs /\ Making \subseteq Callers
    BY DEF Directories, Making
  <1>. QED
    BY <1>1, JobsFinite, FS_Subset, FS_CardinalityType

\* Every step keeps the room of a session.
LEMMA RoomStep ==
    ASSUME BindingTypeOK, PlaceInv, HoldInv, RoomInv, [Next]_vars
    PROVE  RoomInv'
  <1>. USE DEF BindingTypeOK, CallsOK
  <1>. DEFINE D == Directories
              M == Making
  <1>1. /\ IsFiniteSet(D) /\ IsFiniteSet(M)
        /\ Cardinality(D) \in Nat /\ Cardinality(M) \in Nat /\ Cardinality(Callers) \in Nat
    BY Finite
  <1>2. /\ IsFiniteSet(D') /\ IsFiniteSet(M')
        /\ Cardinality(D') \in Nat /\ Cardinality(M') \in Nat
        /\ Cardinality(M') <= Cardinality(Callers)
    <2>1. IsFiniteSet(Jobs)
      BY JobsFinite
    <2>2. D' \subseteq Jobs /\ M' \subseteq Callers
      BY DEF Directories, Making
    <2>. QED
      BY <2>1, <2>2, FS_Subset, FS_CardinalityType
  <1>3. ASSUME D' \subseteq D, M' \subseteq M
        PROVE  RoomInv'
    <2>1. Cardinality(D') <= Cardinality(D) /\ Cardinality(M') <= Cardinality(M)
      BY <1>1, <1>3, FS_Subset
    <2>. HIDE DEF D, M
    <2>. QED
      BY <1>1, <1>2, <2>1 DEF RoomInv, D, M
  <1>4. ASSUME NEW c \in Callers, PruneDirectory(c), ~End(c)
        PROVE  RoomInv'
    <2>. DEFINE v == call[c].victim
    <2>1. v \in Jobs
      BY <1>4, CallKnows DEF PruneDirectory, At, Pruning
    <2>2. Exists(v) /\ rec' = [rec EXCEPT ![v] = NoRecord]
      BY <1>4 DEF PruneDirectory
    <2>3. v \in D /\ D' \subseteq D \ {v}
      BY <2>1, <2>2 DEF Directories, Exists, NoRecord
    <2>4. M' \subseteq M \cup {c}
      BY <1>4, PruneDirectoryMoves DEF Making
    <2>5. Cardinality(D \ {v}) = Cardinality(D) - 1 /\ IsFiniteSet(D \ {v})
      BY <1>1, <2>3, FS_RemoveElement
    <2>6. Cardinality(D') <= Cardinality(D) - 1
      BY <1>1, <2>3, <2>5, FS_Subset
    <2>7. Cardinality(M \cup {c}) <= Cardinality(M) + 1 /\ IsFiniteSet(M \cup {c})
      BY <1>1, AddOne
    <2>8. Cardinality(M') <= Cardinality(M) + 1
      <3>1. Cardinality(M') <= Cardinality(M \cup {c}) /\ Cardinality(M \cup {c}) \in Nat
        BY <2>4, <2>7, FS_Subset, FS_CardinalityType
      <3>. QED
        BY <1>1, <1>2, <2>7, <3>1
    <2>. HIDE DEF D, M
    <2>. QED
      BY <1>1, <1>2, <2>6, <2>8 DEF RoomInv, D, M
  <1>5. ASSUME NEW c \in Callers, MakeDirectory(c)
        PROVE  RoomInv'
    <2>1. Job(c) \in Jobs /\ c \in M
      BY <1>5, CallKnows DEF MakeDirectory, At, Chosen, Making
    <2>2. rec' = [rec EXCEPT ![Job(c)].st = IF @ = "absent" THEN "bare" ELSE @]
      BY <1>5 DEF MakeDirectory
    <2>3. D' \subseteq D \cup {Job(c)}
      BY <2>1, <2>2 DEF Directories, Exists
    <2>4. M' \subseteq M \ {c}
      BY <1>5, GotoMoves DEF MakeDirectory, Making, Places, Moved, Others
    <2>5. Cardinality(M \ {c}) = Cardinality(M) - 1 /\ IsFiniteSet(M \ {c})
      BY <1>1, <2>1, FS_RemoveElement
    <2>6. Cardinality(M') <= Cardinality(M) - 1
      BY <1>1, <2>4, <2>5, FS_Subset
    <2>7. Cardinality(D \cup {Job(c)}) <= Cardinality(D) + 1 /\ IsFiniteSet(D \cup {Job(c)})
      BY <1>1, AddOne
    <2>8. Cardinality(D') <= Cardinality(D) + 1
      <3>1. /\ Cardinality(D') <= Cardinality(D \cup {Job(c)})
            /\ Cardinality(D \cup {Job(c)}) \in Nat
        BY <2>3, <2>7, FS_Subset, FS_CardinalityType
      <3>. QED
        BY <1>1, <1>2, <2>7, <3>1
    <2>. HIDE DEF D, M
    <2>. QED
      BY <1>1, <1>2, <2>6, <2>8 DEF RoomInv, D, M
  <1>6. ASSUME NEW c \in Callers, Act(c), ~PruneDirectory(c), ~MakeDirectory(c)
        PROVE  D' \subseteq D
    <2>1. CASE At(c, "prune_dir") \/ At(c, "mkdir")
      BY <1>6, <2>1, ActAtPlace DEF Crash, disk, Directories, Exists
    <2>. QED
      BY <1>6, <2>1, ExistsKept DEF At, Directories
  <1>7. ASSUME NEW c \in Callers, Open(c)
        PROVE  RoomInv'
    <2>1. D' \subseteq D
      BY <1>7 DEF Open, disk, Directories, Exists
    <2>2. CASE HasRoom
      <3>1. Cardinality(D') <= Cardinality(D)
        BY <1>1, <2>1, FS_Subset
      <3>2. Cardinality(D) < MaxJobs
        BY <2>2 DEF HasRoom
      <3>. HIDE DEF D, M
      <3>. QED
        BY <1>1, <1>2, <3>1, <3>2 DEF RoomInv, D, M
    <2>3. CASE ~HasRoom
      <3>1. M' \subseteq M
        <4>1. CASE Goto(c, "own")
          BY <4>1, GotoMoves DEF Making, Places, Moved, Others
        <4>2. CASE End(c)
          BY <4>2, EndMoves DEF Making, Others, NoCall
        <4>3. CASE \E j \in Jobs :
                      call' = [call EXCEPT ![c].at = "prune_binding", ![c].victim = j]
          BY <4>3, ChooseMoves DEF Making, Others
        <4>. QED
          BY <1>7, <2>3, <4>1, <4>2, <4>3 DEF Open
      <3>. QED
        BY <1>3, <2>1, <3>1
    <2>. QED
      BY <2>2, <2>3
  <1>8. ASSUME NEW c \in Callers, PruneDirectory(c), End(c)
        PROVE  RoomInv'
    <2>1. D' \subseteq D
      BY <1>8, PruneOrEnd DEF Directories, Exists
    <2>2. M' \subseteq M
      BY <1>8, EndMoves DEF Making, Others, NoCall
    <2>. QED
      BY <1>3, <2>1, <2>2
  <1>9. CASE UNCHANGED vars
    BY <1>9 DEF vars, disk, RoomInv, Directories, Exists, Making
  <1>10. ASSUME NEW c \in Callers, Act(c)
         PROVE  RoomInv'
    BY <1>3, <1>4, <1>5, <1>6, <1>7, <1>8, <1>10, MakingKept
  <1>. QED
    BY <1>9, <1>10 DEF Next, Act, Finished

\* What holds without a condition on the schedule.
BaseInv == BindingTypeOK /\ PlaceInv /\ HoldInv /\ RoomInv

\* It holds at the start.
LEMMA BaseInit == Init => BaseInv
  <1>. SUFFICES ASSUME Init PROVE BaseInv
    OBVIOUS
  <1>1. BindingTypeOK /\ PlaceInv
    BY DEF Init, BindingTypeOK, PlaceInv, Knows, NoRecord, Record, States, NoCall, Call, Places,
           Chosen, Owning, Pruning
  <1>2. HoldInv
    BY DEF Init, HoldInv, NoCall, Owning
  <1>3. Directories = {} /\ Making = {}
    BY DEF Init, Directories, Making, Exists, NoRecord, NoCall
  <1>4. RoomInv
    BY <1>3, FS_EmptySet, FS_CardinalityType DEF RoomInv
  <1>. QED
    BY <1>1, <1>2, <1>4 DEF BaseInv

\* It is inductive.
LEMMA BaseStep ==
    ASSUME BaseInv, [Next]_vars
    PROVE  BaseInv'
  BY TypeStep, HoldStep, RoomStep DEF BaseInv

\* How far a session can exceed MAX_SESSION_JOBS.  The limit itself is no
\* invariant of the code: make_room looks and prunes without a lock, so several
\* processes can add a job on the strength of the same free place, and a later
\* look prunes one job only, so the excess stays.
ExcessBounded == Cardinality(Directories) <= MaxJobs + Cardinality(Callers) - 1

\* A session holds at most one job past its limit for each other process: a
\* process that sees room, or makes some, is one of Making until it has added
\* its job, and the jobs together with what is still owed stay within the bound.
THEOREM SessionJobsExcess == Spec => []ExcessBounded
  <1>1. BaseInv => ExcessBounded
    <2>. SUFFICES ASSUME BaseInv PROVE ExcessBounded
      OBVIOUS
    <2>. QED
      BY Finite DEF BaseInv, RoomInv, ExcessBounded
  <1>2. BaseInv /\ [Next]_vars => BaseInv'
    BY BaseStep
  <1>. QED
    BY <1>1, <1>2, BaseInit, PTL DEF Spec
=============================================================================
