-------------------------- MODULE OperationBinding --------------------------
(***************************************************************************)
(* Operation ids of a session, and the directory of its jobs               *)
(* (retranscribe, lookup_operation, run_retranscription, own, make_room,   *)
(* bind_operation).                                                        *)
(*                                                                         *)
(* A caller may give its request an operation id.  A request whose id is   *)
(* bound to a job is answered from that job; otherwise the request is run  *)
(* by the job its parameters and the newest revision name, and the id is   *)
(* bound to it before the work starts: first in the job's record, which    *)
(* keeps the job from being pruned, then in a file of its own.  A session  *)
(* keeps MaxJobs jobs; a new one then replaces an ended job that no        *)
(* process owns and no id pins.                                            *)
(*                                                                         *)
(* What happens inside an attempt is module JobRun's; here an attempt      *)
(* publishes, fails or is cut short.  A failed attempt ends its call: the  *)
(* automatic retries of one call are left to its caller's next call.       *)
(***************************************************************************)
EXTENDS Integers, FiniteSets

CONSTANTS
    Callers,            \* processes that run requests
    NoProc,             \* "no process"
    Ops,                \* operation ids given by callers
    NoOp,               \* a request that carries none
    Requests,           \* request digests: the parameters as they were given
    Ranges,             \* ranges of the source, widened to whole segments
    RangeOf,            \* request -> the range it recognises
    NoJob,              \* "no job"
    MaxJobs,            \* MAX_SESSION_JOBS
    MaxJobOps,          \* MAX_JOB_OPERATION_IDS
    MaxBindings,        \* MAX_SESSION_BINDINGS
    MaxBase,            \* revisions published in a behaviour (model bound)
    MaxCalls,           \* requests sent in a behaviour (model bound)
    MaxFaults,          \* failed attempts and deaths in a behaviour (model bound)
    SameIdOverlaps,     \* two calls with one operation id may overlap in time
    PruneRaces          \* a job chosen for pruning may be taken meanwhile

\* A job's id is derived from the range it recognises and the revision it builds
\* on, so two requests may name one job.  The operation its commit publishes
\* under is derived from the job, and stands for it here as an operation id.
Jobs == Ranges \X (0..MaxBase)
Ids  == Ops \cup Jobs

ASSUME BindingNames ==
    /\ NoProc \notin Callers /\ NoOp \notin Ids /\ NoJob \notin Jobs
    /\ Ops \cap Jobs = {}
ASSUME BindingBounds ==
    /\ MaxJobs \in Nat \ {0} /\ MaxJobOps \in Nat \ {0}
    /\ MaxBindings \in Nat \ {0} /\ MaxBase \in Nat
    /\ MaxCalls \in Nat /\ MaxFaults \in Nat
    /\ IsFiniteSet(Callers) /\ IsFiniteSet(Ops) /\ IsFiniteSet(Ranges)
    /\ RangeOf \in [Requests -> Ranges]
ASSUME BindingFlags == SameIdOverlaps \in BOOLEAN /\ PruneRaces \in BOOLEAN

VARIABLES
    rec,        \* job -> its record ("absent": no directory, "bare": no record yet)
    bound,      \* id -> the job its binding file names, or NoJob
    index,      \* jobs with an entry in the root's job index
    owner,      \* job -> the process holding its owner lock, or NoProc
    base,       \* the session's newest revision
    landed,     \* jobs whose recorded commit is in the manifest chain
    calls,      \* requests that may still be sent
    faults,     \* failed attempts and deaths that may still happen
    call,       \* the call each process makes: what it does next, and its locals
    published,  \* history: revisions published by calls with this id and request
    answered    \* history: ids and requests that were answered with a result

disk    == <<rec, bound, index>>
history == <<published, answered>>
vars    == <<disk, owner, base, landed, calls, faults, call, history>>

-----------------------------------------------------------------------------
(* Records, directories and calls.                                         *)

Terminal == {"succeeded", "ended"}    \* "ended": failed or cancelled
States   == {"absent", "bare", "queued", "running", "committing", "interrupted"} \cup Terminal
Record   == [st : States, ops : SUBSET Ids, req : Requests \cup {NoOp}]

NoRecord  == [st |-> "absent", ops |-> {}, req |-> NoOp]
Exists(j) == rec[j].st # "absent"
Readable(j) == rec[j].st \notin {"absent", "bare"}
Directories == {j \in Jobs : Exists(j)}

NoCall == [at |-> "idle", op |-> NoOp, req |-> NoOp, again |-> FALSE,
           found |-> NoJob, job |-> NoJob, victim |-> NoJob, lost |-> FALSE]

At(c, place)   == call[c].at = place
Goto(c, place) == call' = [call EXCEPT ![c].at = place]
Active(c)      == ~At(c, "idle")

\* The call returns, or its process dies: its locks are released.
LetGo(c) == owner' = [j \in Jobs |-> IF owner[j] = c THEN NoProc ELSE owner[j]]
End(c)   == call' = [call EXCEPT ![c] = NoCall] /\ LetGo(c)

\* The request is answered with the committed result of its job.
Answer(c) ==
    /\ End(c)
    /\ answered' = IF call[c].op = NoOp THEN answered
                                        ELSE answered \cup {<<call[c].op, call[c].req>>}

Job(c) == call[c].job
SetState(j, st) == rec' = [rec EXCEPT ![j].st = st]

-----------------------------------------------------------------------------
(* retranscribe and lookup_operation.                                      *)

\* A request that has just been sent.
Sent(o, r) == [at |-> IF o = NoOp THEN "base" ELSE "ask", op |-> o, req |-> r, again |-> FALSE,
               found |-> NoJob, job |-> NoJob, victim |-> NoJob, lost |-> FALSE]

\* A caller sends a request.
Begin(c) ==
    /\ At(c, "idle") /\ calls > 0
    /\ calls' = calls - 1
    /\ \E o \in Ops \cup {NoOp}, r \in Requests :
        /\ SameIdOverlaps \/ o = NoOp \/ \A d \in Callers : call[d].op # o
        /\ call' = [call EXCEPT ![c] = Sent(o, r)]
    /\ UNCHANGED <<disk, owner, base, landed, history>>

\* The id is looked up twice: before the tools and the newest revision are
\* read, and again before the job is opened.
AfterLookup(c) == IF call[c].again THEN "open" ELSE "base"
GoOn(c) == call' = [call EXCEPT ![c].found = NoJob, ![c].at = AfterLookup(c)]

\* job_for_operation
Ask(c) ==
    /\ At(c, "ask")
    /\ call' = [call EXCEPT ![c].found = bound[call[c].op],
                            ![c].at = IF bound[call[c].op] = NoJob THEN AfterLookup(c)
                                                                   ELSE "view"]
    /\ UNCHANGED <<disk, owner, base, landed, history>>

\* Faulty variant: the digest of the bound request is not compared.
MatchesAny(c) == TRUE

Matches(c) == rec[call[c].found].req = call[c].req

\* Faulty variant: a landed commit whose owner is gone counts as interrupted.
ReconciledByRecord(j) ==
    IF rec[j].st \in {"running", "committing"} THEN {"interrupted", "ended"} ELSE {rec[j].st}

\* reconcile: what is recorded for a job whose owner is gone.
Reconciled(j) ==
    CASE rec[j].st = "committing" /\ j \in landed -> {"succeeded"}
      [] rec[j].st \in {"running", "committing"} /\ ~(rec[j].st = "committing" /\ j \in landed)
             -> {"interrupted", "ended"}
      [] OTHER -> {rec[j].st}

\* The bound job answers, is busy, conflicts or goes on; a commit whose owner is
\* gone is reconciled first, under the owner lock.
View(c) ==
    LET j == call[c].found IN
    /\ At(c, "view")
    /\ \/ /\ ~Readable(j)
          /\ GoOn(c)
          /\ UNCHANGED <<rec, owner, answered>>
       \/ /\ Readable(j) /\ Matches(c)
          /\ rec[j].st = "succeeded"
          /\ Answer(c)
          /\ UNCHANGED rec
       \/ /\ Readable(j)
          /\ ~Matches(c) \/ (rec[j].st # "succeeded" /\ owner[j] # NoProc)
          /\ End(c)
          /\ UNCHANGED <<rec, answered>>
       \/ /\ Readable(j) /\ Matches(c)
          /\ rec[j].st = "committing" /\ owner[j] = NoProc
          /\ \E st \in Reconciled(j) :
                /\ SetState(j, st)
                /\ IF st = "succeeded"
                     THEN Answer(c)
                     ELSE GoOn(c) /\ UNCHANGED <<owner, answered>>
       \/ /\ Readable(j) /\ Matches(c)
          /\ rec[j].st \notin {"succeeded", "committing"} /\ owner[j] = NoProc
          /\ GoOn(c)
          /\ UNCHANGED <<rec, owner, answered>>
    /\ UNCHANGED <<bound, index, base, landed, published>>

\* Faulty variant: the job is named after the revision it will publish.
ReadBaseNext(c) ==
    /\ At(c, "base")
    /\ call' = [call EXCEPT ![c].job = <<RangeOf[call[c].req], base + 1>>, ![c].again = TRUE,
                            ![c].at = IF call[c].op = NoOp THEN "open" ELSE "ask"]
    /\ UNCHANGED <<disk, owner, base, landed, history>>

\* The newest revision is read; the job's id follows from it.
ReadBase(c) ==
    /\ At(c, "base")
    /\ call' = [call EXCEPT ![c].job = <<RangeOf[call[c].req], base>>, ![c].again = TRUE,
                            ![c].at = IF call[c].op = NoOp THEN "open" ELSE "ask"]
    /\ UNCHANGED <<disk, owner, base, landed, history>>

-----------------------------------------------------------------------------
(* own: the job's directory, owner lock, record and index entry.           *)

\* make_room: an ended job that no process owns and no caller's id pins.  Of
\* several, the code takes the one whose record is oldest; which is left open.
Prunable(j) == rec[j].st \in Terminal /\ owner[j] = NoProc /\ rec[j].ops = {}

HasRoom == Cardinality(Directories) < MaxJobs

Open(c) ==
    /\ At(c, "open")
    /\ \/ Exists(Job(c)) /\ Goto(c, "own") /\ UNCHANGED owner
       \/ ~Exists(Job(c)) /\ HasRoom /\ Goto(c, "mkdir") /\ UNCHANGED owner
       \/ /\ ~Exists(Job(c)) /\ ~HasRoom
          /\ \E j \in Jobs : /\ Prunable(j)
                             /\ call' = [call EXCEPT ![c].at = "prune_binding", ![c].victim = j]
          /\ UNCHANGED owner
       \/ ~Exists(Job(c)) /\ ~HasRoom /\ ~(\E j \in Jobs : Prunable(j)) /\ End(c)
    /\ UNCHANGED <<disk, base, landed, history>>

\* remove_binding_if: the binding of its commit's own id, if it names the job.
PruneBinding(c) ==
    LET j == call[c].victim IN
    /\ At(c, "prune_binding")
    /\ bound' = [bound EXCEPT ![j] = IF @ = j THEN NoJob ELSE @]
    /\ Goto(c, "prune_dir")
    /\ UNCHANGED <<rec, index, owner, base, landed, history>>

\* The directory is removed with its locks; a process that has it open is left
\* with a directory that no longer has a name.
PruneDirectory(c) ==
    LET j == call[c].victim IN
    /\ At(c, "prune_dir")
    /\ \/ ~Exists(j) /\ End(c) /\ UNCHANGED rec
       \/ /\ Exists(j)
          /\ rec' = [rec EXCEPT ![j] = NoRecord]
          /\ owner' = [owner EXCEPT ![j] = NoProc]
          /\ call' = [d \in Callers |->
                        IF d = c THEN [call[d] EXCEPT !.at = "prune_index"]
                        ELSE [call[d] EXCEPT !.lost = IF owner[j] = d THEN TRUE ELSE @]]
    /\ UNCHANGED <<bound, index, base, landed, history>>

\* unindex_job
PruneIndex(c) ==
    /\ At(c, "prune_index")
    /\ index' = index \ {call[c].victim}
    /\ call' = [call EXCEPT ![c].at = "mkdir", ![c].victim = NoJob]
    /\ UNCHANGED <<rec, bound, owner, base, landed, history>>

\* Whether the job is free of a prune in progress, where the model keeps the
\* two apart (PruneRaces).
NotBeingPruned(j) == PruneRaces \/ \A d \in Callers : call[d].victim # j

MakeDirectory(c) ==
    /\ At(c, "mkdir") /\ NotBeingPruned(Job(c))
    /\ rec' = [rec EXCEPT ![Job(c)].st = IF @ = "absent" THEN "bare" ELSE @]
    /\ Goto(c, "own")
    /\ UNCHANGED <<bound, index, owner, base, landed, history>>

\* The owner lock is tried once; a directory that is gone has none.
Own(c) ==
    LET j == Job(c) IN
    /\ At(c, "own") /\ NotBeingPruned(j)
    /\ \/ Exists(j) /\ owner[j] = NoProc /\ owner' = [owner EXCEPT ![j] = c] /\ Goto(c, "record")
       \/ ~(Exists(j) /\ owner[j] = NoProc) /\ End(c)
    /\ UNCHANGED <<disk, base, landed, history>>

\* An owner whose directory was removed finds no record and fails.
Alive(c) == ~call[c].lost
Lost(c)  == call[c].lost /\ End(c) /\ UNCHANGED <<rec, landed>>

\* Faulty variant: only a new job is indexed.
WriteRecordUnhealed(c) ==
    LET r == rec[Job(c)] IN
    /\ At(c, "record")
    /\ \/ /\ Alive(c) /\ r.st = "bare"
          /\ rec' = [rec EXCEPT ![Job(c)].st = "queued", ![Job(c)].req = call[c].req]
          /\ Goto(c, "index")
          /\ UNCHANGED <<owner, landed>>
       \/ /\ Alive(c) /\ r.st # "bare" /\ r.req = call[c].req
          /\ Goto(c, "reconcile")
          /\ UNCHANGED <<rec, owner, landed>>
       \/ Alive(c) /\ r.st # "bare" /\ r.req # call[c].req /\ End(c) /\ UNCHANGED <<rec, landed>>
       \/ Lost(c)
    /\ UNCHANGED <<bound, index, base, history>>

\* The record of a new job is written; that of an existing one is kept, and a
\* different request that names the same job is refused (IntegrityFailure).
WriteRecord(c) ==
    LET r == rec[Job(c)] IN
    /\ At(c, "record")
    /\ \/ /\ Alive(c) /\ r.st = "bare"
          /\ rec' = [rec EXCEPT ![Job(c)].st = "queued", ![Job(c)].req = call[c].req]
          /\ Goto(c, "index")
          /\ UNCHANGED <<owner, landed>>
       \/ /\ Alive(c) /\ r.st # "bare" /\ r.req = call[c].req
          /\ Goto(c, "index")
          /\ UNCHANGED <<rec, owner, landed>>
       \/ Alive(c) /\ r.st # "bare" /\ r.req # call[c].req /\ End(c) /\ UNCHANGED <<rec, landed>>
       \/ Lost(c)
    /\ UNCHANGED <<bound, index, base, history>>

\* index_job, also for a record whose creation stopped before its entry.
Index(c) ==
    /\ At(c, "index")
    /\ index' = index \cup {Job(c)}
    /\ Goto(c, "reconcile")
    /\ UNCHANGED <<rec, bound, owner, base, landed, history>>

-----------------------------------------------------------------------------
(* run_retranscription: from the owned job to its answer.                  *)

Reconcile(c) ==
    /\ At(c, "reconcile")
    /\ \/ /\ Alive(c)
          /\ \E st \in Reconciled(Job(c)) : SetState(Job(c), st)
          /\ Goto(c, "settle")
          /\ UNCHANGED <<owner, landed>>
       \/ Lost(c)
    /\ UNCHANGED <<bound, index, base, history>>

\* A succeeded job answers, after the id is bound; an ended one is restarted.
Settle(c) ==
    /\ At(c, "settle")
    /\ \/ /\ Alive(c) /\ rec[Job(c)].st = "succeeded" /\ call[c].op = NoOp
          /\ Answer(c)
          /\ UNCHANGED <<rec, landed>>
       \/ /\ Alive(c) /\ ~(rec[Job(c)].st = "succeeded" /\ call[c].op = NoOp)
          /\ rec' = [rec EXCEPT ![Job(c)].st = IF @ = "ended" THEN "queued" ELSE @]
          /\ Goto(c, IF call[c].op = NoOp THEN "start" ELSE "bind")
          /\ UNCHANGED <<owner, landed, answered>>
       \/ Lost(c) /\ UNCHANGED answered
    /\ UNCHANGED <<bound, index, base, published>>

\* bind_operation, first half: the id enters the job's record.
CanBind(c) ==
    /\ bound[call[c].op] # NoJob \/ Cardinality({i \in Ids : bound[i] # NoJob}) < MaxBindings
    /\ call[c].op \in rec[Job(c)].ops \/ Cardinality(rec[Job(c)].ops) < MaxJobOps

\* A succeeded job answers once the id is bound; any other starts.
AfterBind(c) == IF rec[Job(c)].st = "succeeded" THEN "bind_reply" ELSE "bind_file"

\* Faulty variant: the binding file is written and the record is not.
BindFileOnly(c) ==
    /\ At(c, "bind")
    /\ Goto(c, AfterBind(c))
    /\ UNCHANGED <<disk, owner, base, landed, history>>

Bind(c) ==
    /\ At(c, "bind")
    /\ \/ /\ Alive(c) /\ CanBind(c)
          /\ rec' = [rec EXCEPT ![Job(c)].ops = @ \cup {call[c].op}]
          /\ Goto(c, AfterBind(c))
          /\ UNCHANGED <<owner, landed>>
       \/ Alive(c) /\ ~CanBind(c) /\ End(c) /\ UNCHANGED <<rec, landed>>
       \/ Lost(c)
    /\ UNCHANGED <<bound, index, base, history>>

\* Second half: the binding file, whatever it named before.
BindFile(c) ==
    /\ At(c, "bind_file") \/ At(c, "bind_reply")
    /\ bound' = [bound EXCEPT ![call[c].op] = Job(c)]
    /\ \/ At(c, "bind_reply") /\ Answer(c)
       \/ At(c, "bind_file") /\ Goto(c, "start") /\ UNCHANGED <<owner, answered>>
    /\ UNCHANGED <<rec, index, base, landed, published>>

Start(c) ==
    /\ At(c, "start")
    /\ \/ Alive(c) /\ SetState(Job(c), "running") /\ Goto(c, "work") /\ UNCHANGED <<owner, landed>>
       \/ Lost(c)
    /\ UNCHANGED <<bound, index, base, history>>

\* The attempt fails or is cancelled; the job is interrupted or ended.  (At the
\* bound on revisions an attempt can only fail.)
Stop(c) ==
    /\ faults > 0 \/ base = MaxBase
    /\ faults' = IF faults > 0 THEN faults - 1 ELSE 0
    /\ \E st \in {"interrupted", "ended"} : SetState(Job(c), st)
    /\ End(c)
    /\ UNCHANGED landed

\* The attempt announces its commit, or stops.
Work(c) ==
    /\ At(c, "work")
    /\ \/ /\ Alive(c)
          /\ SetState(Job(c), "committing")
          /\ landed' = landed \ {Job(c)}
          /\ Goto(c, "publish")
          /\ UNCHANGED <<owner, faults>>
       \/ Alive(c) /\ Stop(c)
       \/ Lost(c) /\ UNCHANGED faults
    /\ UNCHANGED <<bound, index, base, history>>

\* The revision is published on whatever is newest by now, or the publication
\* fails and the attempt stops.
Publish(c) ==
    /\ At(c, "publish")
    /\ \/ /\ base < MaxBase
          /\ base' = base + 1
          /\ landed' = landed \cup {Job(c)}
          /\ published' = IF call[c].op = NoOp THEN published
                          ELSE [published EXCEPT ![<<call[c].op, call[c].req>>] = @ + 1]
          /\ Goto(c, "succeed")
          /\ UNCHANGED <<rec, owner, faults>>
       \/ Alive(c) /\ Stop(c) /\ UNCHANGED <<base, published>>
       \/ Lost(c) /\ UNCHANGED <<base, published, faults>>
    /\ UNCHANGED <<bound, index, answered>>

\* The job succeeds; without a caller's id its commit's own is bound, best
\* effort.
Succeed(c) ==
    /\ At(c, "succeed")
    /\ \/ /\ Alive(c)
          /\ SetState(Job(c), "succeeded")
          /\ \/ call[c].op = NoOp /\ Goto(c, "alias") /\ UNCHANGED <<owner, answered>>
             \/ call[c].op # NoOp /\ Answer(c)
          /\ UNCHANGED landed
       \/ Lost(c) /\ UNCHANGED answered
    /\ UNCHANGED <<bound, index, base, published>>

Alias(c) ==
    /\ At(c, "alias")
    /\ \/ bound' = [bound EXCEPT ![Job(c)] = Job(c)]
       \/ UNCHANGED bound
    /\ Answer(c)
    /\ UNCHANGED <<rec, index, base, landed, published>>

\* The process dies.
Crash(c) ==
    /\ Active(c) /\ faults > 0
    /\ faults' = faults - 1
    /\ End(c)
    /\ UNCHANGED <<disk, base, landed, history>>

-----------------------------------------------------------------------------
Init ==
    /\ rec = [j \in Jobs |-> NoRecord]
    /\ bound = [i \in Ids |-> NoJob]
    /\ index = {}
    /\ owner = [j \in Jobs |-> NoProc]
    /\ base = 0
    /\ landed = {}
    /\ calls = MaxCalls
    /\ faults = MaxFaults
    /\ call = [c \in Callers |-> NoCall]
    /\ published = [x \in Ops \X Requests |-> 0]
    /\ answered = {}

Step(c) ==
    \/ Ask(c) \/ View(c) \/ ReadBase(c)
    \/ Open(c) \/ PruneBinding(c) \/ PruneDirectory(c) \/ PruneIndex(c)
    \/ MakeDirectory(c) \/ Own(c) \/ WriteRecord(c) \/ Index(c)
    \/ Reconcile(c) \/ Settle(c) \/ Bind(c) \/ BindFile(c)
    \/ Start(c) \/ Succeed(c) \/ Alias(c)

\* Every request was answered and no other is sent (the model's bound).
Finished == calls = 0 /\ (\A c \in Callers : At(c, "idle")) /\ UNCHANGED vars

Next ==
    \/ \E c \in Callers :
        \/ Begin(c) /\ UNCHANGED faults
        \/ Step(c) /\ UNCHANGED <<calls, faults>>
        \/ (Work(c) \/ Publish(c) \/ Crash(c)) /\ UNCHANGED calls
    \/ Finished

Spec == Init /\ [][Next]_vars

-----------------------------------------------------------------------------
(* Properties                                                              *)

Places == {"idle", "ask", "view", "base", "open", "prune_binding", "prune_dir", "prune_index",
           "mkdir", "own", "record", "index", "reconcile", "settle", "bind", "bind_file", "bind_reply",
           "start", "work", "publish", "succeed", "alias"}
Call   == [at : Places, op : Ops \cup {NoOp}, req : Requests \cup {NoOp}, again : BOOLEAN,
           found : Jobs \cup {NoJob}, job : Jobs \cup {NoJob}, victim : Jobs \cup {NoJob},
           lost : BOOLEAN]

\* Types of the session's job directory and of the calls.
BindingTypeOK ==
    /\ rec \in [Jobs -> Record]
    /\ bound \in [Ids -> Jobs \cup {NoJob}]
    /\ index \subseteq Jobs
    /\ owner \in [Jobs -> Callers \cup {NoProc}]
    /\ base \in 0..MaxBase
    /\ landed \subseteq Jobs
    /\ calls \in 0..MaxCalls
    /\ faults \in 0..MaxFaults
    /\ call \in [Callers -> Call]
    /\ published \in [Ops \X Requests -> Nat]
    /\ answered \subseteq Ops \X Requests

\* A binding file always names a job that knows the id: one whose record lists
\* it, and which is therefore never pruned, or the succeeded job whose own
\* commit it is.  The two files are written and removed one at a time, and a
\* process may die in between.
BindingsAreKept ==
    \A i \in Ids : bound[i] # NoJob =>
        \/ i \in rec[bound[i]].ops
        \/ i = bound[i] /\ rec[i].st = "succeeded"

\* A request that was answered under an id is answered from its job for ever:
\* its id stays bound, to a job of the same request that succeeded.
AnsweredReplays ==
    \A x \in answered : LET j == bound[x[1]] IN
        j # NoJob /\ rec[j].st = "succeeded" /\ rec[j].req = x[2]

\* One id publishes one request at most once, however often it is sent again,
\* whatever was published meanwhile and wherever its processes died.
OncePerOperation == \A x \in Ops \X Requests : published[x] <= 1

\* A job at work is found by its id from any process: whoever owns it has seen
\* its index entry written, also after a creation that stopped before it.
OwnedIsIndexed ==
    \A c \in Callers :
        call[c].at \in {"settle", "bind", "bind_file", "bind_reply", "start", "work", "publish"}
            => Job(c) \in index
=============================================================================
