------------------------------ MODULE JobQueue ------------------------------
(***************************************************************************)
(* The queue of a session root, and the capacity its work gives back       *)
(* (enqueue_job, queue_position, before_start, try_admit_queued,           *)
(* QueuedGate, acquire_admission, wait_for_queued_work).                   *)
(*                                                                         *)
(* A queued job waits for its turn, then takes the recognizer's threads of *)
(* the root's capacity and works in chunks.  An ordinary caller that finds *)
(* too few slots while queued work holds some records a demand and waits;  *)
(* before every chunk but the first the queued work looks for a demand,    *)
(* gives its slots back and takes them again once nobody demands them.     *)
(* After its last chunk it gives them back for good, and publishes what it *)
(* recognised as an ordinary caller.  There is no scheduler: entries,      *)
(* turn, slots, marker and demand are files and locks of the root, each    *)
(* tried without waiting, and a look at a lock takes it for an instant.    *)
(***************************************************************************)
EXTENDS Integers, FiniteSets

CONSTANTS
    Jobs,           \* queued jobs; a job's runner goes by the job's name
    Callers,        \* ordinary processes that need capacity
    None,           \* no process, no job
    Capacity,       \* slots of the root
    Threads,        \* what recognizer_threads may give: the slots queued work takes
    Weights,        \* numbers of slots an ordinary caller may need
    QueueLimits,    \* what MAX_QUEUED_JOBS may be
    StampsPerSecond, \* STAMPS_PER_SECOND
    Seconds,        \* what the clock may say when a job is entered
    MaxChunks,      \* chunks of a queued job (model bound)
    MAX_AUTOMATIC_RETRIES, \* retries of a refused publication
    MaxStarts,      \* job starts in a behaviour (model bound)
    MaxCalls,       \* ordinary calls in a behaviour (model bound)
    MaxCancels,     \* `job cancel` calls in a behaviour (model bound)
    MaxFaults       \* deaths, unreadable jobs, clock steps (model bound)

ASSUME QueueNames == None \notin Jobs \cup Callers \cup Nat /\ Jobs \cap Callers = {}
ASSUME QueueBounds ==
    /\ IsFiniteSet(Jobs)
    /\ Capacity \in Nat \ {0} /\ Weights \subseteq 1..Capacity
    /\ Threads \subseteq 1..Capacity /\ MAX_AUTOMATIC_RETRIES \in Nat
    /\ QueueLimits \subseteq Nat \ {0} /\ StampsPerSecond \in Nat \ {0}
    /\ Seconds \subseteq Nat /\ MaxChunks \in Nat \ {0}
    /\ MaxStarts \in Nat /\ MaxCalls \in Nat /\ MaxCancels \in Nat
    /\ MaxFaults \in Nat

VARIABLES
    st,         \* job -> what its record says
    stamp,      \* job -> the stamp in its entry's name, or None
    fresh,      \* entries younger than QUEUE_START_GRACE_SECONDS
    run,        \* job -> where its runner is, with its locals
    tail,       \* job -> what a process that ended the job has left to do
    turn,       \* the job whose process holds queue-turn.lock
    slot,       \* slot -> the process that holds it
    marker,     \* the job whose runner holds admission-queued.lock
    peeks,      \* callers that hold the marker shared for an instant
    demand,     \* callers that hold admission-demand.lock shared
    probe,      \* the runner that holds it exclusively for an instant
    call,       \* caller -> where its call is, with its locals
    left,       \* the queue's limit and the threads, and what is left of the bounds
    before,     \* history: pairs of entered jobs, the one entered earlier first
    newer,      \* history: job -> runners started since its last look
    late        \* history: caller -> chunks queued work finished since it demanded

queue   == <<st, stamp, fresh>>
locks   == <<turn, slot, marker, peeks, demand, probe>>
history == <<before, newer, late>>
vars    == <<queue, run, tail, locks, call, left, history>>

Slots == 1..Capacity

-----------------------------------------------------------------------------
(* Entries.                                                                *)

Entered == {j \in Jobs : stamp[j] # None}
Owned(j) == run[j].at # "none"

\* Faulty variant: the clock alone gives the stamp.
StampOfClock(now) == now * StampsPerSecond

\* next_stamp
NextStamp(now) ==
    CHOOSE n \in {now * StampsPerSecond} \cup {stamp[j] + 1 : j \in Entered} :
        n >= now * StampsPerSecond /\ \A j \in Entered : n > stamp[j]

\* enqueue_job, under the entry lock: a job in the queue keeps its place.
Full == Cardinality(Entered) >= left.queued
Enqueue(j) ==
    \/ /\ j \in Entered
       /\ UNCHANGED <<stamp, fresh, before>>
    \/ /\ j \notin Entered
       /\ \E now \in Seconds : stamp' = [stamp EXCEPT ![j] = NextStamp(now)]
       /\ fresh' = fresh \cup {j}
       /\ before' = before \cup (Entered \X {j})

\* dequeue_job
Dequeue(gone) ==
    /\ stamp' = [j \in Jobs |-> IF j \in gone THEN None ELSE stamp[j]]
    /\ fresh' = fresh \ gone
    /\ before' = {x \in before : x[1] \notin gone /\ x[2] \notin gone}

Spend(what) == left[what] > 0 /\ left' = [left EXCEPT ![what] = @ - 1]

\* job start: the job is created or started again, and entered.  A full queue
\* refuses it, and the job is left waiting.
JobStart(j) ==
    /\ ~Owned(j) /\ st[j] # "done" /\ Spend("starts")
    /\ st' = [st EXCEPT ![j] = "waiting"]
    /\ \/ (j \in Entered \/ ~Full) /\ Enqueue(j)
       \/ j \notin Entered /\ Full /\ UNCHANGED <<stamp, fresh, before>>
    /\ UNCHANGED <<run, tail, locks, call, newer, late>>

\* job cancel: a job no process owns ends and leaves the queue, unless the
\* process dies between the two; an owner is asked to stop.
JobCancel(j) ==
    /\ st[j] \in {"waiting", "cancelling", "ended"} /\ Spend("cancels")
    /\ \/ /\ Owned(j)
          /\ st' = [st EXCEPT ![j] = "cancelling"]
          /\ UNCHANGED <<stamp, fresh, before>>
       \/ /\ ~Owned(j)
          /\ st' = [st EXCEPT ![j] = "ended"]
          /\ \E gone \in {{}, {j}} : Dequeue(gone)
    /\ UNCHANGED <<run, tail, locks, call, newer, late>>

\* The grace of an entry ends; the clock steps back and it begins again.
GraceEnds(j) ==
    /\ j \in fresh
    /\ fresh' = fresh \ {j}
    /\ UNCHANGED <<st, stamp, run, tail, locks, call, left, history>>

ClockBack ==
    /\ Entered # fresh /\ Spend("faults")
    /\ fresh' = Entered
    /\ UNCHANGED <<st, stamp, run, tail, locks, call, history>>

-----------------------------------------------------------------------------
(* Locks.                                                                  *)

Held(p) == {s \in Slots : slot[s] = p}
FreeSlots(p) == slot' = [s \in Slots |-> IF slot[s] = p THEN None ELSE slot[s]]
Unmark(j) == marker' = IF marker = j THEN None ELSE marker

\* acquire_slots: one slot after the other, keeping what it gets; all of them
\* are let go if they are not enough.
TakeSlot(p, i) == slot' = [slot EXCEPT ![i] = IF @ = None THEN p ELSE @]
Enough(p, i, w) == Cardinality(Held(p) \cup (IF slot[i] = None THEN {i} ELSE {})) >= w

-----------------------------------------------------------------------------
(* The runner of a queued job.                                             *)

NoRun == [at |-> "none", i |-> 1, chunks |-> 0, tries |-> 0]
RunAt(j, place) == run[j].at = place
RunTo(j, place) == run' = [run EXCEPT ![j].at = place]

\* What a process that stops lets go of; `keeps` is the turn, which an ended
\* job's process drops in a step of its own.
LetGo(j, keeps) ==
    /\ FreeSlots(j) /\ Unmark(j)
    /\ probe' = IF probe = j THEN None ELSE probe
    /\ turn'  = IF turn = j /\ ~keeps THEN None ELSE turn
    /\ UNCHANGED <<peeks, demand>>

\* A runner takes the job's owner lock.  A cancellation its dead owner left is
\* finished, and there is nothing to run.
Launch(j) ==
    /\ ~Owned(j) /\ st[j] \in {"waiting", "cancelling"}
    /\ \/ /\ st[j] = "waiting"
          /\ run' = [run EXCEPT ![j] = [at |-> "look", i |-> 1, chunks |-> MaxChunks,
                                      tries |-> MAX_AUTOMATIC_RETRIES]]
          /\ newer' = [i \in Jobs |-> IF RunAt(i, "try") THEN newer[i] \cup {j} ELSE {}]
          /\ UNCHANGED <<st, tail>>
       \/ /\ st[j] = "cancelling" /\ tail[j] = "none"
          /\ st' = [st EXCEPT ![j] = "ended"]
          /\ tail' = [tail EXCEPT ![j] = "check"]
          /\ UNCHANGED <<run, newer>>
    /\ UNCHANGED <<stamp, fresh, locks, call, left, before, late>>

\* Faulty variant: the process drops the turn whether or not it holds it.
EndJobDropping(j, how) ==
    /\ tail[j] = "none"
    /\ st' = [st EXCEPT ![j] = how]
    /\ run' = [run EXCEPT ![j] = NoRun]
    /\ tail' = [tail EXCEPT ![j] = "turn"]
    /\ LetGo(j, TRUE)
    /\ UNCHANGED <<stamp, fresh, call, left, history>>

\* The run of the job ends: its owner lock is free from here on, its turn is not.
\* (A second runner of the job ends after the first one's process has left.)
EndJob(j, how) ==
    /\ tail[j] = "none"
    /\ st' = [st EXCEPT ![j] = how]
    /\ run' = [run EXCEPT ![j] = NoRun]
    /\ tail' = [tail EXCEPT ![j] = IF turn = j THEN "turn" ELSE "check"]
    /\ LetGo(j, TRUE)
    /\ UNCHANGED <<stamp, fresh, call, left, history>>

\* A wait for the turn or for capacity, the work, or what follows it up to the
\* commit or after it, sees the request; so does a runner the full queue turns
\* away (settle_wait).
Cancelled(j) ==
    /\ st[j] = "cancelling"
    /\ \/ run[j].at \in {"look", "admit", "chunk", "gate", "assemble", "committed"}
       \/ RunAt(j, "enter") /\ j \notin Entered /\ Full
    /\ EndJob(j, "ended")

\* Faulty variant: an entry counts whether or not a process runs its job.
CountsAlways(i) == TRUE

\* Faulty variant: only entries within their grace count.
CountsFresh(i) == i \in fresh

\* An entry ahead counts while a process runs its job, or may still be starting.
Counts(i) == Owned(i) \/ i \in fresh

Ahead(j) == {i \in Entered : stamp[i] < stamp[j]}

\* What queue_position walks through: the entries up to this job's, or all of
\* them when it is not in the queue.
Scanned(j) == IF j \in Entered THEN Ahead(j) ELSE Entered

\* queue_position: entries whose job ended, or cannot be read just now, are
\* removed; a session whose job has an owner can be read.
Look(j) ==
    /\ RunAt(j, "look") /\ st[j] # "cancelling"
    /\ \E unread \in SUBSET {i \in Scanned(j) : ~Owned(i) /\ st[i] \notin {"done", "ended"}} :
          LET gone == unread \cup {i \in Scanned(j) : st[i] \in {"done", "ended"}}
              next == \A i \in Scanned(j) \ gone : ~Counts(i)
          IN  /\ IF unread = {} THEN UNCHANGED left ELSE Spend("faults")
              /\ Dequeue(gone)
              /\ RunTo(j, IF j \notin Entered THEN "enter" ELSE IF next THEN "try" ELSE "look")
    /\ UNCHANGED <<st, tail, locks, call, newer, late>>

\* The runner enters its job itself, or leaves it waiting when the queue is full.
EnterSelf(j) ==
    /\ RunAt(j, "enter")
    /\ \/ (j \in Entered \/ ~Full) /\ Enqueue(j) /\ RunTo(j, "look")
       \/ /\ j \notin Entered /\ Full
          /\ st[j] # "cancelling"
          /\ run' = [run EXCEPT ![j] = NoRun]
          /\ UNCHANGED <<stamp, fresh, before>>
    /\ UNCHANGED <<st, tail, locks, call, left, newer, late>>

\* try_take_queue_turn
TryTurn(j) ==
    /\ RunAt(j, "try")
    /\ \/ turn = None /\ turn' = j /\ RunTo(j, "admit")
       \/ turn # None /\ RunTo(j, "look") /\ UNCHANGED turn
    /\ newer' = [newer EXCEPT ![j] = {}]
    /\ UNCHANGED <<queue, tail, slot, marker, peeks, demand, probe, call, left, before, late>>

\* others_waiting: the demand lock is taken exclusively for an instant.  Nothing
\* is taken while capacity is demanded.
ProbeToTake(j) ==
    /\ RunAt(j, "admit") /\ st[j] # "cancelling"
    /\ demand = {} /\ probe = None
    /\ probe' = j
    /\ RunTo(j, "probed")
    /\ UNCHANGED <<queue, tail, turn, slot, marker, peeks, demand, call, left, history>>

ProbeEnds(j) ==
    /\ RunAt(j, "probed") \/ RunAt(j, "gate_probed")
    /\ probe' = None
    /\ run' = [run EXCEPT ![j].at = IF RunAt(j, "probed") THEN "take" ELSE "chunk", ![j].i = 1]
    /\ UNCHANGED <<queue, tail, turn, slot, marker, peeks, demand, call, left, history>>

\* Faulty variant: one slot too many is looked for.
RunnerTakesPast(j) ==
    LET i == run[j].i IN
    /\ RunAt(j, "take")
    /\ \/ /\ Enough(j, i, left.threads)
          /\ TakeSlot(j, i)
          /\ run' = [run EXCEPT ![j].at = "mark", ![j].i = 1]
       \/ /\ ~Enough(j, i, left.threads) /\ i <= Capacity
          /\ TakeSlot(j, i)
          /\ run' = [run EXCEPT ![j].i = i + 1]
       \/ /\ ~Enough(j, i, left.threads) /\ i > Capacity
          /\ FreeSlots(j)
          /\ run' = [run EXCEPT ![j].at = "admit", ![j].i = 1]
    /\ UNCHANGED <<queue, tail, turn, marker, peeks, demand, probe, call, left, history>>

\* try_admit_queued: the slots, then the marker.  Both admissions, the first and
\* the one after a demand, lead straight to the chunk.
RunnerTakes(j) ==
    LET i == run[j].i IN
    /\ RunAt(j, "take")
    /\ \/ /\ Enough(j, i, left.threads)
          /\ TakeSlot(j, i)
          /\ run' = [run EXCEPT ![j].at = "mark", ![j].i = 1]
       \/ /\ ~Enough(j, i, left.threads) /\ i < Capacity
          /\ TakeSlot(j, i)
          /\ run' = [run EXCEPT ![j].i = i + 1]
       \/ /\ ~Enough(j, i, left.threads) /\ i = Capacity
          /\ FreeSlots(j)
          /\ run' = [run EXCEPT ![j].at = "admit", ![j].i = 1]
    /\ UNCHANGED <<queue, tail, turn, marker, peeks, demand, probe, call, left, history>>

Mark(j) ==
    /\ RunAt(j, "mark")
    /\ \/ /\ marker = None /\ peeks = {}
          /\ marker' = j /\ RunTo(j, "chunk")
          /\ UNCHANGED slot
       \/ /\ marker # None \/ peeks # {}
          /\ FreeSlots(j) /\ RunTo(j, "admit")
          /\ UNCHANGED marker
    /\ UNCHANGED <<queue, tail, turn, peeks, demand, probe, call, left, history>>

\* Faulty variant: the runner waits for the demand to end without giving back.
GateHolding(j) ==
    /\ RunAt(j, "gate")
    /\ IF demand # {}
         THEN RunTo(j, "admit") /\ UNCHANGED probe
         ELSE probe' = j /\ RunTo(j, "gate_probed")
    /\ UNCHANGED <<queue, tail, turn, slot, marker, peeks, demand, call, left, history>>

\* before_chunk: the slots are given back while anyone demands capacity.
Gate(j) ==
    /\ RunAt(j, "gate")
    /\ IF demand # {}
         THEN FreeSlots(j) /\ Unmark(j) /\ RunTo(j, "admit") /\ UNCHANGED probe
         ELSE probe' = j /\ RunTo(j, "gate_probed") /\ UNCHANGED <<slot, marker>>
    /\ UNCHANGED <<queue, tail, turn, peeks, demand, call, left, history>>

\* A chunk ends under the demands recorded by then.
ChunkEnds == late' = [c \in Callers |-> IF c \in demand THEN late[c] + 1 ELSE late[c]]

\* Faulty variant: the gate is left out after the first chunk.
ChunkBeforeGate(j) ==
    /\ RunAt(j, "chunk") /\ run[j].chunks > 0 /\ st[j] # "cancelling"
    /\ run' = [run EXCEPT ![j].chunks = @ - 1,
                          ![j].at = IF run[j].chunks = 1 THEN "assemble"
                                    ELSE IF run[j].chunks = MaxChunks THEN "chunk" ELSE "gate"]
    /\ ChunkEnds
    /\ IF run[j].chunks = 1 THEN FreeSlots(j) /\ Unmark(j) ELSE UNCHANGED <<slot, marker>>
    /\ UNCHANGED <<queue, tail, turn, peeks, demand, probe, call, left, before, newer>>

\* run_chunks: the gate is before every chunk but the first (ready_for_chunk);
\* after the last one the gate is dropped with what it holds.
Chunk(j) ==
    /\ RunAt(j, "chunk") /\ run[j].chunks > 0 /\ st[j] # "cancelling"
    /\ run' = [run EXCEPT ![j].chunks = @ - 1,
                          ![j].at = IF run[j].chunks > 1 THEN "gate" ELSE "assemble"]
    /\ ChunkEnds
    /\ IF run[j].chunks > 1 THEN UNCHANGED <<slot, marker>> ELSE FreeSlots(j) /\ Unmark(j)
    /\ UNCHANGED <<queue, tail, turn, peeks, demand, probe, call, left, before, newer>>

\* attempt_once, from assemble to the commit's record; a request is not seen any
\* more until the commit has ended.
Assemble(j) ==
    /\ RunAt(j, "assemble") /\ st[j] # "cancelling"
    /\ run' = [run EXCEPT ![j].at = "publish", ![j].i = 1]
    /\ UNCHANGED <<queue, tail, locks, call, left, history>>

\* publish_revision takes one slot as any caller does.  No other queued work holds
\* the marker while this one has the turn, so a refusal comes at once; it is
\* tried again, and leaves the job interrupted in the end.
Publish(j) ==
    LET i == run[j].i IN
    /\ RunAt(j, "publish")
    /\ \/ /\ slot[i] = None
          /\ TakeSlot(j, i)
          /\ run' = [run EXCEPT ![j].at = "publishing", ![j].i = 1, ![j].tries = 0]
          /\ UNCHANGED <<queue, tail, turn, marker, peeks, demand, probe, call, left, history>>
       \/ /\ slot[i] # None
          /\ \/ i < Capacity /\ run' = [run EXCEPT ![j].i = i + 1]
             \/ /\ i = Capacity /\ run[j].tries > 0
                /\ run' = [run EXCEPT ![j].i = 1, ![j].tries = @ - 1]
          /\ UNCHANGED <<queue, tail, locks, call, left, history>>
       \/ /\ slot[i] # None /\ i = Capacity /\ run[j].tries = 0
          /\ EndJob(j, IF st[j] = "cancelling" THEN "ended" ELSE "waiting")

\* The generation is published, and its slot is free again.
Published(j) ==
    /\ RunAt(j, "publishing")
    /\ FreeSlots(j) /\ RunTo(j, "committed")
    /\ UNCHANGED <<queue, tail, turn, marker, peeks, demand, probe, call, left, history>>

\* Its transcript is committed and the job has succeeded.
Succeed(j) ==
    /\ RunAt(j, "committed") /\ st[j] # "cancelling"
    /\ EndJob(j, "done")

\* resume_prepare, after the job: the turn is dropped, and the entry of a job
\* that is seen to have ended is removed.
DropTurn(j) ==
    /\ tail[j] = "turn"
    /\ turn' = None
    /\ tail' = [tail EXCEPT ![j] = "check"]
    /\ UNCHANGED <<queue, run, slot, marker, peeks, demand, probe, call, left, history>>

SeeEnded(j) ==
    /\ tail[j] = "check"
    /\ tail' = [tail EXCEPT ![j] = IF st[j] \in {"done", "ended"} THEN "dequeue" ELSE "none"]
    /\ UNCHANGED <<queue, run, locks, call, left, history>>

LeaveQueue(j) ==
    /\ tail[j] = "dequeue"
    /\ Dequeue({j})
    /\ tail' = [tail EXCEPT ![j] = "none"]
    /\ UNCHANGED <<st, run, locks, call, left, newer, late>>

\* The runner, or the process that ended the job, dies or is interrupted.
Die(j) ==
    /\ Spend("faults")
    /\ \/ /\ Owned(j)
          /\ run' = [run EXCEPT ![j] = NoRun]
          /\ LetGo(j, tail[j] = "turn")
          /\ newer' = [newer EXCEPT ![j] = {}]
          /\ UNCHANGED tail
       \/ /\ tail[j] # "none"
          /\ tail' = [tail EXCEPT ![j] = "none"]
          /\ turn' = IF tail[j] = "turn" THEN None ELSE turn
          /\ UNCHANGED <<run, slot, marker, peeks, demand, probe, newer>>
    /\ UNCHANGED <<queue, call, before, late>>

-----------------------------------------------------------------------------
(* An ordinary caller.                                                     *)

NoCall == [at |-> "idle", w |-> Capacity, i |-> 1, again |-> FALSE]
CallAt(c, place) == call[c].at = place
CallTo(c, place) == call' = [call EXCEPT ![c].at = place]

\* The call ends or is refused: its slots and its demand are let go.
EndCall(c) ==
    /\ call' = [call EXCEPT ![c] = NoCall]
    /\ FreeSlots(c)
    /\ demand' = demand \ {c} /\ peeks' = peeks \ {c}
    /\ late' = [late EXCEPT ![c] = 0]
    /\ UNCHANGED <<turn, marker, probe, before, newer>>

\* A write of the session, or a recognition, needs some of the slots.
Begin(c) ==
    /\ CallAt(c, "idle") /\ Spend("calls")
    /\ \E w \in Weights :
          call' = [call EXCEPT ![c] = [at |-> "take", w |-> w, i |-> 1, again |-> FALSE]]
    /\ UNCHANGED <<queue, run, tail, locks, history>>

CallerTakes(c) ==
    LET i == call[c].i IN
    /\ CallAt(c, "take")
    /\ \/ /\ Enough(c, i, call[c].w)
          /\ TakeSlot(c, i)
          /\ call' = [call EXCEPT ![c] = [at |-> "hold", w |-> @.w, i |-> 1, again |-> FALSE]]
          /\ demand' = demand \ {c}
          /\ late' = [late EXCEPT ![c] = 0]
       \/ /\ ~Enough(c, i, call[c].w) /\ i < Capacity
          /\ TakeSlot(c, i)
          /\ call' = [call EXCEPT ![c].i = i + 1]
          /\ UNCHANGED <<demand, late>>
       \/ /\ ~Enough(c, i, call[c].w) /\ i = Capacity
          /\ FreeSlots(c)
          /\ call' = [call EXCEPT ![c].i = 1, ![c].at = "look"]
          /\ UNCHANGED <<demand, late>>
    /\ UNCHANGED <<queue, run, tail, turn, marker, peeks, probe, left, before, newer>>

\* queued_work_holds: the marker is taken shared for an instant, when it can be.
CallerLooks(c) ==
    /\ CallAt(c, "look")
    /\ \/ marker # None /\ CallTo(c, IF call[c].again THEN "wait" ELSE "demand") /\ UNCHANGED peeks
       \/ marker = None /\ peeks' = peeks \cup {c} /\ CallTo(c, "peek")
    /\ UNCHANGED <<queue, run, tail, turn, slot, marker, demand, probe, left, history>>

\* Nobody holds the capacity for queued work, or the wait is over: refused.
Refused(c) ==
    /\ CallAt(c, "peek") \/ (CallAt(c, "wait") /\ call[c].again)
    /\ EndCall(c)
    /\ UNCHANGED <<queue, run, tail, left>>

\* demand_capacity fails while a runner probes the lock: a write of the session
\* (wait_for_queued_work) then waits without a demand, a recognition
\* (for_queued_work) is refused.
Demand(c) ==
    /\ CallAt(c, "demand")
    /\ \/ /\ probe = None
          /\ demand' = demand \cup {c}
          /\ call' = [call EXCEPT ![c].at = "wait", ![c].again = TRUE]
          /\ UNCHANGED <<turn, slot, marker, peeks, probe, history>>
       \/ /\ probe # None
          /\ call' = [call EXCEPT ![c].at = "wait", ![c].again = TRUE]
          /\ UNCHANGED <<locks, history>>
       \/ probe # None /\ EndCall(c)
    /\ UNCHANGED <<queue, run, tail, left>>

PollAgain(c) ==
    /\ CallAt(c, "wait")
    /\ CallTo(c, "take")
    /\ UNCHANGED <<queue, run, tail, locks, left, history>>

Release(c) ==
    /\ CallAt(c, "hold")
    /\ EndCall(c)
    /\ UNCHANGED <<queue, run, tail, left>>

-----------------------------------------------------------------------------
Init ==
    /\ st = [j \in Jobs |-> "new"]
    /\ stamp = [j \in Jobs |-> None] /\ fresh = {}
    /\ run = [j \in Jobs |-> NoRun] /\ tail = [j \in Jobs |-> "none"]
    /\ turn = None /\ slot = [s \in Slots |-> None]
    /\ marker = None /\ peeks = {} /\ demand = {} /\ probe = None
    /\ call = [c \in Callers |-> NoCall]
    /\ left \in [queued : QueueLimits, threads : Threads, starts : {MaxStarts}, calls : {MaxCalls},
                 cancels : {MaxCancels}, faults : {MaxFaults}]
    /\ before = {} /\ newer = [j \in Jobs |-> {}] /\ late = [c \in Callers |-> 0]

RunnerStep(j) ==
    \/ Look(j) \/ EnterSelf(j) \/ TryTurn(j) \/ Cancelled(j)
    \/ ProbeToTake(j) \/ ProbeEnds(j) \/ RunnerTakes(j) \/ Mark(j)
    \/ Gate(j) \/ Chunk(j) \/ Assemble(j) \/ Publish(j) \/ Published(j) \/ Succeed(j)

TailStep(j) == DropTurn(j) \/ SeeEnded(j) \/ LeaveQueue(j)

CallerStep(c) ==
    CallerTakes(c) \/ CallerLooks(c) \/ Refused(c) \/ Demand(c) \/ PollAgain(c) \/ Release(c)

\* Nothing is left to do.
Finished ==
    /\ \A j \in Jobs : ~Owned(j) /\ tail[j] = "none" /\ st[j] # "waiting"
    /\ \A c \in Callers : CallAt(c, "idle")
    /\ UNCHANGED vars

Next ==
    \/ \E j \in Jobs : \/ JobStart(j) \/ JobCancel(j) \/ GraceEnds(j)
                       \/ Launch(j) \/ RunnerStep(j) \/ TailStep(j) \/ Die(j)
    \/ ClockBack
    \/ \E c \in Callers : Begin(c) \/ CallerStep(c)
    \/ Finished

\* Every process that waits polls again, every chunk and every ordinary use of
\* the capacity ends, and the clock goes on.  No job is started, cancelled or
\* given a runner by fairness, and no wait is cut short by its time limit.
Fairness ==
    /\ \A j \in Jobs : WF_vars(RunnerStep(j))
    /\ \A c \in Callers : WF_vars(CallerStep(c))
    /\ WF_vars(\E j \in Jobs : TailStep(j))
    /\ WF_vars(\E j \in Jobs : GraceEnds(j))

Spec == Init /\ [][Next]_vars /\ Fairness

-----------------------------------------------------------------------------
(* Properties                                                              *)

RunPlaces  == {"none", "look", "enter", "try", "admit", "probed", "take", "mark", "gate",
               "gate_probed", "chunk", "assemble", "publish", "publishing", "committed"}
CallPlaces == {"idle", "take", "look", "peek", "demand", "wait", "hold"}

Run  == [at : RunPlaces, i : Slots, chunks : 0..MaxChunks, tries : 0..MAX_AUTOMATIC_RETRIES]
Call == [at : CallPlaces, w : Slots, i : Slots, again : BOOLEAN]
Left == [queued : QueueLimits, threads : Threads, starts : 0..MaxStarts, calls : 0..MaxCalls,
         cancels : 0..MaxCancels, faults : 0..MaxFaults]

\* Types of the queue, its locks and its processes.
QueueTypeOK ==
    /\ st \in [Jobs -> {"new", "waiting", "cancelling", "ended", "done"}]
    /\ left \in Left
    /\ stamp \in [Jobs -> Nat \cup {None}] /\ fresh \subseteq Entered
    /\ run \in [Jobs -> Run]
    /\ tail \in [Jobs -> {"none", "turn", "check", "dequeue"}]
    /\ turn \in Jobs \cup {None} /\ marker \in Jobs \cup {None} /\ probe \in Jobs \cup {None}
    /\ slot \in [Slots -> Jobs \cup Callers \cup {None}]
    /\ peeks \subseteq Callers /\ demand \subseteq Callers
    /\ call \in [Callers -> Call]

\* The listing of the queue in name order is the order the jobs were entered in,
\* within one second, when the clock steps back, after entries were removed
\* from the front or from the middle, and for a job that entered itself again.
EntriesInOrder ==
    \A i, j \in Entered : i # j => (<<i, j>> \in before <=> stamp[i] < stamp[j])

\* A job takes its turn ahead of an earlier entry only if that entry's job had no
\* runner when it looked: its runner came after the look (before_start).
FirstInFirstOut ==
    [][\A j \in Entered : turn # j /\ turn' = j =>
            \A i \in Ahead(j) : Owned(i) => i \in newer[j]]_vars

\* Queued work decodes and recognises only with the turn, the marker and as many
\* slots as the recognizer has threads, also after it gave them back and took
\* them again; once the work is over it keeps the turn alone.  What another
\* process of the same job, of another queued job or of a caller does on its way
\* out never takes one of them away.
WorksWithItsShare ==
    \A j \in Jobs :
        /\ run[j].at \in {"gate", "gate_probed", "chunk"} =>
               turn = j /\ marker = j /\ Cardinality(Held(j)) = left.threads
        /\ run[j].at \in {"admit", "probed", "assemble", "publish", "committed"} =>
               turn = j /\ marker # j /\ Held(j) = {}

\* Queued work finishes at most one more chunk once a demand is recorded, also
\* when the demand comes before the first chunk or the one after an admission,
\* which no look for a demand precedes.
YieldsWithinAChunk == \A c \in Callers : late[c] <= 1

\* A runner does not wait for ever: not for its turn behind an entry whose runner
\* died, not for capacity it gave back, and not because callers and queued work
\* probe each other's locks.
QueuedJobsEnd == \A j \in Jobs : Owned(j) ~> ~Owned(j)

\* Every ordinary call is answered, without its time limit: also one whose demand
\* was lost to a probe.
CallsAreAnswered == \A c \in Callers : ~CallAt(c, "idle") ~> CallAt(c, "idle")
=============================================================================
