--------------------------- MODULE JobQueueProofs ---------------------------
(***************************************************************************)
(* Proofs about JobQueue, for every number of jobs and callers, every      *)
(* capacity and every number of chunks, starts, calls and faults.          *)
(***************************************************************************)
EXTENDS JobQueue, FiniteSetTheorems, FunctionTheorems, WellFoundedInduction, TLAPS

\* The places of a runner that has the turn, of one that has its share of the
\* slots, and of one that has the marker too.
InTurn == {"admit", "probed", "take", "mark", "gate", "gate_probed", "chunk",
           "assemble", "publish", "publishing", "committed"}
Share  == {"mark", "gate", "gate_probed", "chunk"}
Marked == {"gate", "gate_probed", "chunk"}

\* Types of the history variables.
HistoryOK ==
    /\ before \subseteq Entered \X Entered
    /\ newer \in [Jobs -> SUBSET Jobs]
    /\ late \in [Callers -> Nat]

\* The turn is held by a runner at work or by a process on its way out, and by
\* one of them only: a second runner of the job meets the turn of the first.
TurnInv ==
    \A j \in Jobs :
        /\ run[j].at \in InTurn => turn = j /\ tail[j] # "turn"
        /\ tail[j] = "turn" => turn = j
        /\ Owned(j) => st[j] \in {"waiting", "cancelling"}

\* A runner has fewer slots than threads while it looks for them, all of them
\* behind its look; it goes on to the marker with exactly its share.  It has none
\* before, and none after its last chunk but the one it publishes with.
SlotOK(j) ==
    /\ run[j].at \notin Share \cup {"take", "publishing"} => Held(j) = {}
    /\ RunAt(j, "take") => /\ Cardinality(Held(j)) < left.threads
                           /\ \A s \in Held(j) : s < run[j].i
    /\ run[j].at \in Share => Cardinality(Held(j)) = left.threads
    /\ run[j].at \in Marked <=> marker = j
SlotInv == \A j \in Jobs : SlotOK(j)

\* A demand is recorded once in a call.  Once a chunk has ended under it, no
\* runner is between a look for a demand and the end of a chunk.
DemandInv ==
    \A c \in Callers :
        /\ late[c] <= 1
        /\ call[c].again => call[c].at \notin {"idle", "demand"}
        /\ c \in demand \/ late[c] > 0 => call[c].again
        /\ c \in demand /\ late[c] > 0 =>
               \A j \in Jobs : run[j].at \notin {"probed", "take", "mark", "gate_probed", "chunk"}

\* A runner that found nobody ahead of it is overtaken by later runners only.
OrderInv ==
    \A j \in Entered : RunAt(j, "try") => \A i \in Ahead(j) : Owned(i) => i \in newer[j]

IInv == QueueTypeOK /\ HistoryOK /\ TurnInv /\ SlotInv /\ DemandInv /\ OrderInv /\ EntriesInOrder

USE QueueNames, QueueBounds

\* Every step keeps the types of the records.
LEMMA StateTypes ==
    ASSUME st \in [Jobs -> {"new", "waiting", "cancelling", "ended", "done"}],
        [Next]_vars
    PROVE  (st \in [Jobs -> {"new", "waiting", "cancelling", "ended", "done"}])'
  <1>1. ASSUME NEW j \in Jobs, JobStart(j)
        PROVE  (st \in [Jobs -> {"new", "waiting", "cancelling", "ended", "done"}])'
    BY <1>1 DEF JobStart
  <1>2. ASSUME NEW j \in Jobs, JobCancel(j)
        PROVE  (st \in [Jobs -> {"new", "waiting", "cancelling", "ended", "done"}])'
    BY <1>2 DEF JobCancel
  <1>3. ASSUME NEW j \in Jobs, Launch(j)
        PROVE  (st \in [Jobs -> {"new", "waiting", "cancelling", "ended", "done"}])'
    BY <1>3 DEF Launch
  <1>4. ASSUME NEW j \in Jobs, Cancelled(j)
        PROVE  (st \in [Jobs -> {"new", "waiting", "cancelling", "ended", "done"}])'
    BY <1>4 DEF Cancelled, EndJob
  <1>5. ASSUME NEW j \in Jobs, Publish(j)
        PROVE  (st \in [Jobs -> {"new", "waiting", "cancelling", "ended", "done"}])'
    BY <1>5 DEF Publish, EndJob, queue
  <1>6. ASSUME NEW j \in Jobs, Succeed(j)
        PROVE  (st \in [Jobs -> {"new", "waiting", "cancelling", "ended", "done"}])'
    BY <1>6 DEF Succeed, EndJob
  <1>7. CASE UNCHANGED st
    BY <1>7
  <1>. QED
    BY <1>1, <1>2, <1>3, <1>4, <1>5, <1>6, <1>7 DEF Next, RunnerStep,
           TailStep, CallerStep, Finished, vars, queue, locks, history,
           GraceEnds, Look, EnterSelf, TryTurn, ProbeToTake, ProbeEnds,
           RunnerTakes, Mark, Gate, Chunk, Assemble, Published, DropTurn,
           SeeEnded, LeaveQueue, Die, ClockBack, Begin, CallerTakes,
           CallerLooks, Refused, Demand, PollAgain, Release, EndCall

\* Every step keeps the types of the model's bounds.
LEMMA LeftTypes ==
    ASSUME left \in Left, [Next]_vars
    PROVE  (left \in Left)'
  <1>. USE DEF Left
  <1>1. ASSUME NEW j \in Jobs, JobStart(j)
        PROVE  (left \in Left)'
    BY <1>1 DEF JobStart, Spend
  <1>2. ASSUME NEW j \in Jobs, JobCancel(j)
        PROVE  (left \in Left)'
    BY <1>2 DEF JobCancel, Spend
  <1>3. ASSUME NEW j \in Jobs, Look(j)
        PROVE  (left \in Left)'
    BY <1>3 DEF Look, Spend
  <1>4. ASSUME NEW j \in Jobs, Die(j)
        PROVE  (left \in Left)'
    BY <1>4 DEF Die, Spend
  <1>5. CASE ClockBack
    BY <1>5 DEF ClockBack, Spend
  <1>6. ASSUME NEW c \in Callers, Begin(c)
        PROVE  (left \in Left)'
    BY <1>6 DEF Begin, Spend
  <1>7. CASE UNCHANGED left
    BY <1>7
  <1>. QED
    BY <1>1, <1>2, <1>3, <1>4, <1>5, <1>6, <1>7 DEF Next, RunnerStep,
           TailStep, CallerStep, Finished, vars, queue, locks, history,
           GraceEnds, Launch, EnterSelf, TryTurn, Cancelled, ProbeToTake,
           ProbeEnds, RunnerTakes, Mark, Gate, Chunk, Assemble, Publish,
           Published, Succeed, DropTurn, SeeEnded, LeaveQueue, CallerTakes,
           CallerLooks, Refused, Demand, PollAgain, Release, EndJob, EndCall

\* Every step keeps the types of the runners.
LEMMA RunTypes ==
    ASSUME run \in [Jobs -> Run], [Next]_vars
    PROVE  (run \in [Jobs -> Run])'
  <1>0. NoRun \in Run
    BY DEF NoRun, Run, RunPlaces, Slots
  <1>1. ASSUME NEW j \in Jobs, Launch(j)
        PROVE  (run \in [Jobs -> Run])'
    BY <1>1, <1>0 DEF Launch, Run, RunPlaces, Slots
  <1>2. ASSUME NEW j \in Jobs, Look(j)
        PROVE  (run \in [Jobs -> Run])'
    BY <1>2 DEF Look, Run, RunTo, RunPlaces
  <1>3. ASSUME NEW j \in Jobs, EnterSelf(j)
        PROVE  (run \in [Jobs -> Run])'
    BY <1>3, <1>0 DEF EnterSelf, Run, RunTo, RunPlaces
  <1>4. ASSUME NEW j \in Jobs, TryTurn(j)
        PROVE  (run \in [Jobs -> Run])'
    BY <1>4 DEF TryTurn, Run, RunTo, RunPlaces
  <1>5. ASSUME NEW j \in Jobs, Cancelled(j)
        PROVE  (run \in [Jobs -> Run])'
    BY <1>5, <1>0 DEF Cancelled, EndJob
  <1>6. ASSUME NEW j \in Jobs, ProbeToTake(j)
        PROVE  (run \in [Jobs -> Run])'
    BY <1>6 DEF ProbeToTake, Run, RunTo, RunPlaces
  <1>7. ASSUME NEW j \in Jobs, ProbeEnds(j)
        PROVE  (run \in [Jobs -> Run])'
    <2>1. PICK place \in RunPlaces : run' = [run EXCEPT ![j].at = place, ![j].i = 1]
      BY <1>7 DEF ProbeEnds, RunPlaces
    <2>. DEFINE s == [run[j] EXCEPT !.at = place, !.i = 1]
    <2>2. run[j] \in Run /\ 1 \in Slots
      BY DEF Slots
    <2>3. s \in Run
      BY <2>2 DEF Run
    <2>4. run' = [run EXCEPT ![j] = s]
      BY <2>1, Zenon
    <2>. QED
      BY <2>3, <2>4
  <1>8. ASSUME NEW j \in Jobs, RunnerTakes(j)
        PROVE  (run \in [Jobs -> Run])'
    BY <1>8 DEF RunnerTakes, RunAt, Run, RunPlaces, Slots
  <1>9. ASSUME NEW j \in Jobs, Mark(j)
        PROVE  (run \in [Jobs -> Run])'
    BY <1>9 DEF Mark, Run, RunTo, RunPlaces
  <1>10. ASSUME NEW j \in Jobs, Gate(j)
        PROVE  (run \in [Jobs -> Run])'
    BY <1>10 DEF Gate, Run, RunTo, RunPlaces
  <1>11. ASSUME NEW j \in Jobs, Chunk(j)
        PROVE  (run \in [Jobs -> Run])'
    <2>1. \E place \in RunPlaces : run' = [run EXCEPT ![j].chunks = @ - 1, ![j].at = place]
      BY <1>11 DEF Chunk, RunPlaces
    <2>2. run[j].chunks - 1 \in 0..MaxChunks
      BY <1>11 DEF Chunk, Run
    <2>. QED
      BY <2>1, <2>2 DEF Run
  <1>12. ASSUME NEW j \in Jobs, Assemble(j)
        PROVE  (run \in [Jobs -> Run])'
    <2>1. run' = [run EXCEPT ![j].at = "publish", ![j].i = 1] /\ "publish" \in RunPlaces /\ 1 \in Slots
      BY <1>12 DEF Assemble, RunPlaces, Slots
    <2>. QED
      BY <2>1 DEF Run
  <1>13. ASSUME NEW j \in Jobs, Publish(j)
        PROVE  (run \in [Jobs -> Run])'
    <2>1. CASE run' = [run EXCEPT ![j].at = "publishing", ![j].i = 1, ![j].tries = 0]
      <3>. DEFINE s == [run[j] EXCEPT !.at = "publishing", !.i = 1, !.tries = 0]
      <3>1. run[j] \in Run /\ 1 \in Slots /\ "publishing" \in RunPlaces
            /\ 0 \in 0..MAX_AUTOMATIC_RETRIES
        BY DEF RunPlaces, Slots
      <3>2. s \in Run
        BY <3>1 DEF Run
      <3>3. run' = [run EXCEPT ![j] = s]
        BY <2>1, Zenon
      <3>. QED
        BY <3>2, <3>3
    <2>2. CASE run[j].i < Capacity /\ run' = [run EXCEPT ![j].i = run[j].i + 1]
      BY <2>2 DEF Run, Slots
    <2>3. CASE run[j].tries > 0 /\ run' = [run EXCEPT ![j].i = 1, ![j].tries = @ - 1]
      BY <2>3 DEF Run, Slots
    <2>4. CASE run' = [run EXCEPT ![j] = NoRun]
      BY <1>0, <2>4
    <2>. QED
      BY <1>13, <2>1, <2>2, <2>3, <2>4 DEF Publish, EndJob
  <1>14. ASSUME NEW j \in Jobs, Published(j)
        PROVE  (run \in [Jobs -> Run])'
    BY <1>14 DEF Published, Run, RunTo, RunPlaces
  <1>15. ASSUME NEW j \in Jobs, Succeed(j)
        PROVE  (run \in [Jobs -> Run])'
    BY <1>15, <1>0 DEF Succeed, EndJob
  <1>16. ASSUME NEW j \in Jobs, Die(j)
        PROVE  (run \in [Jobs -> Run])'
    BY <1>16, <1>0 DEF Die, Run
  <1>17. CASE UNCHANGED run
    BY <1>17
  <1>. QED
    BY <1>1, <1>2, <1>3, <1>4, <1>5, <1>6, <1>7, <1>8, <1>9, <1>10, <1>11,
           <1>12, <1>13, <1>14, <1>15, <1>16, <1>17 DEF Next, RunnerStep,
           TailStep, CallerStep, Finished, vars, queue, locks, history,
           JobStart, JobCancel, GraceEnds, DropTurn, SeeEnded, LeaveQueue,
           ClockBack, Begin, CallerTakes, CallerLooks, Refused, Demand,
           PollAgain, Release, EndCall

\* A nonempty finite set of numbers has a greatest one: a smallest set without
\* one would still lack it after an element is taken away.
LEMMA GreatestExists ==
    ASSUME NEW S \in SUBSET Nat, IsFiniteSet(S), S # {}
    PROVE  \E m \in S : \A n \in S : n <= m
  <1>. DEFINE Max(T) == \E m \in T : \A n \in T : n <= m
              Bad    == {T \in FiniteSubsetsOf(S) : T # {} /\ ~Max(T)}
  <1>1. SUFFICES ASSUME Bad # {} PROVE FALSE
    <2>1. S \in FiniteSubsetsOf(S)
      BY DEF FiniteSubsetsOf
    <2>. QED
      BY <2>1
  <1>2. PICK T \in Bad : \A U \in Bad : <<U, T>> \notin StrictSubsetOrdering(S)
    <2>1. IsWellFoundedOn(StrictSubsetOrdering(S), FiniteSubsetsOf(S))
      BY FS_StrictSubsetOrderingWellFounded
    <2>2. Bad \subseteq FiniteSubsetsOf(S)
      OBVIOUS
    <2>. HIDE DEF Bad
    <2>. QED
      BY <1>1, <2>1, <2>2, WFMin
  <1>3. PICK x \in T : TRUE
    OBVIOUS
  <1>. DEFINE U == T \ {x}
  <1>4. IsFiniteSet(U) /\ U \in SUBSET S /\ T \in SUBSET S
    BY FS_RemoveElement DEF FiniteSubsetsOf
  <1>5. <<U, T>> \in StrictSubsetOrdering(S)
    BY <1>3, <1>4 DEF StrictSubsetOrdering
  <1>6. U \notin Bad
    BY <1>2, <1>5
  <1>7. U = {} \/ Max(U)
    BY <1>4, <1>6 DEF FiniteSubsetsOf
  <1>8. Max(T)
    <2>1. CASE U = {}
      BY <2>1, <1>3, <1>4
    <2>2. CASE Max(U)
      <3>1. PICK m \in U : \A n \in U : n <= m
        BY <2>2
      <3>2. x \in Nat /\ \A n \in T : n \in Nat /\ (n = x \/ n \in U)
        BY <1>3, <1>4
      <3>3. m \in Nat /\ m \in T
        BY <1>4, <3>1
      <3>4. CASE m <= x
        <4>1. \A n \in T : n <= x
          BY <3>1, <3>2, <3>3, <3>4
        <4>. QED
          BY <4>1, <1>3
      <3>5. CASE x <= m
        <4>1. \A n \in T : n <= m
          BY <3>1, <3>2, <3>3, <3>5
        <4>. QED
          BY <4>1, <3>3
      <3>. QED
        BY <3>2, <3>3, <3>4, <3>5
    <2>. QED
      BY <2>1, <2>2, <1>7
  <1>. QED
    BY <1>2, <1>8

\* next_stamp gives a number above every stamp in the queue.
LEMMA NextStampAbove ==
    ASSUME stamp \in [Jobs -> Nat \cup {None}], NEW now \in Seconds
    PROVE  /\ NextStamp(now) \in Nat
           /\ \A j \in Entered : NextStamp(now) > stamp[j]
  <1>. DEFINE clock == now * StampsPerSecond
              S     == {clock} \cup {stamp[j] + 1 : j \in Entered}
  <1>1. clock \in Nat /\ \A j \in Entered : stamp[j] \in Nat
    BY DEF Entered
  <1>2. S \in SUBSET Nat /\ S # {}
    BY <1>1
  <1>3. IsFiniteSet(S)
    <2>1. IsFiniteSet(Entered)
      BY FS_Subset DEF Entered
    <2>2. IsFiniteSet({stamp[j] + 1 : j \in Entered})
      <3>. DEFINE f == [j \in Entered |-> stamp[j] + 1]
      <3>1. f \in Surjection(Entered, {stamp[j] + 1 : j \in Entered})
        BY DEF Surjection
      <3>. QED
        BY <2>1, <3>1, FS_Surjection
    <2>. QED
      BY <2>2, FS_Singleton, FS_Union
  <1>4. PICK m \in S : \A n \in S : n <= m
    BY <1>2, <1>3, GreatestExists
  <1>5. m >= clock /\ \A j \in Entered : m > stamp[j]
    BY <1>1, <1>2, <1>4
  <1>6. NextStamp(now) \in S /\ \A j \in Entered : NextStamp(now) > stamp[j]
    BY <1>4, <1>5 DEF NextStamp
  <1>. QED
    BY <1>2, <1>6

\* Every step keeps the types of the entries.
LEMMA StampTypes ==
    ASSUME stamp \in [Jobs -> Nat \cup {None}], [Next]_vars
    PROVE  (stamp \in [Jobs -> Nat \cup {None}])'
  <1>1. ASSUME NEW j \in Jobs, JobStart(j)
        PROVE  (stamp \in [Jobs -> Nat \cup {None}])'
    BY <1>1, NextStampAbove DEF JobStart, Enqueue
  <1>2. ASSUME NEW j \in Jobs, JobCancel(j)
        PROVE  (stamp \in [Jobs -> Nat \cup {None}])'
    BY <1>2 DEF JobCancel, Dequeue
  <1>3. ASSUME NEW j \in Jobs, Look(j)
        PROVE  (stamp \in [Jobs -> Nat \cup {None}])'
    BY <1>3 DEF Look, Dequeue
  <1>4. ASSUME NEW j \in Jobs, EnterSelf(j)
        PROVE  (stamp \in [Jobs -> Nat \cup {None}])'
    BY <1>4, NextStampAbove DEF EnterSelf, Enqueue
  <1>5. ASSUME NEW j \in Jobs, LeaveQueue(j)
        PROVE  (stamp \in [Jobs -> Nat \cup {None}])'
    BY <1>5 DEF LeaveQueue, Dequeue
  <1>6. CASE UNCHANGED stamp
    BY <1>6
  <1>. QED
    BY <1>1, <1>2, <1>3, <1>4, <1>5, <1>6 DEF Next, RunnerStep, TailStep,
           CallerStep, Finished, vars, queue, locks, history, GraceEnds,
           Launch, TryTurn, Cancelled, ProbeToTake, ProbeEnds, RunnerTakes,
           Mark, Gate, Chunk, Assemble, Publish, Published, Succeed, DropTurn,
           SeeEnded, Die, ClockBack, Begin, CallerTakes, CallerLooks, Refused,
           Demand, PollAgain, Release, EndJob, EndCall

\* Only an entry is within its grace.
LEMMA FreshTypes ==
    ASSUME stamp \in [Jobs -> Nat \cup {None}], fresh \subseteq Entered,
        [Next]_vars
    PROVE  (fresh \subseteq Entered)'
  <1>. USE DEF Entered
  <1>1. ASSUME NEW j \in Jobs, JobStart(j)
        PROVE  (fresh \subseteq Entered)'
    BY <1>1, NextStampAbove DEF JobStart, Enqueue
  <1>2. ASSUME NEW j \in Jobs, JobCancel(j)
        PROVE  (fresh \subseteq Entered)'
    BY <1>2 DEF JobCancel, Dequeue
  <1>3. ASSUME NEW j \in Jobs, GraceEnds(j)
        PROVE  (fresh \subseteq Entered)'
    BY <1>3 DEF GraceEnds
  <1>4. ASSUME NEW j \in Jobs, Look(j)
        PROVE  (fresh \subseteq Entered)'
    BY <1>4 DEF Look, Dequeue
  <1>5. ASSUME NEW j \in Jobs, EnterSelf(j)
        PROVE  (fresh \subseteq Entered)'
    BY <1>5, NextStampAbove DEF EnterSelf, Enqueue
  <1>6. ASSUME NEW j \in Jobs, LeaveQueue(j)
        PROVE  (fresh \subseteq Entered)'
    BY <1>6 DEF LeaveQueue, Dequeue
  <1>7. CASE ClockBack
    BY <1>7 DEF ClockBack
  <1>8. CASE UNCHANGED <<stamp, fresh>>
    BY <1>8
  <1>. QED
    BY <1>1, <1>2, <1>3, <1>4, <1>5, <1>6, <1>7, <1>8 DEF Next, RunnerStep,
           TailStep, CallerStep, Finished, vars, queue, locks, history,
           Launch, TryTurn, Cancelled, ProbeToTake, ProbeEnds, RunnerTakes,
           Mark, Gate, Chunk, Assemble, Publish, Published, Succeed, DropTurn,
           SeeEnded, Die, Begin, CallerTakes, CallerLooks, Refused, Demand,
           PollAgain, Release, EndJob, EndCall

\* Every step keeps the types of the processes on their way out.
LEMMA TailTypes ==
    ASSUME tail \in [Jobs -> {"none", "turn", "check", "dequeue"}],
        [Next]_vars
    PROVE  (tail \in [Jobs -> {"none", "turn", "check", "dequeue"}])'
  <1>1. ASSUME NEW j \in Jobs, Launch(j)
        PROVE  (tail \in [Jobs -> {"none", "turn", "check", "dequeue"}])'
    BY <1>1 DEF Launch
  <1>2. ASSUME NEW j \in Jobs, Cancelled(j)
        PROVE  (tail \in [Jobs -> {"none", "turn", "check", "dequeue"}])'
    BY <1>2 DEF Cancelled, EndJob
  <1>3. ASSUME NEW j \in Jobs, Publish(j)
        PROVE  (tail \in [Jobs -> {"none", "turn", "check", "dequeue"}])'
    BY <1>3 DEF Publish, EndJob
  <1>4. ASSUME NEW j \in Jobs, Succeed(j)
        PROVE  (tail \in [Jobs -> {"none", "turn", "check", "dequeue"}])'
    BY <1>4 DEF Succeed, EndJob
  <1>5. ASSUME NEW j \in Jobs, DropTurn(j)
        PROVE  (tail \in [Jobs -> {"none", "turn", "check", "dequeue"}])'
    BY <1>5 DEF DropTurn
  <1>6. ASSUME NEW j \in Jobs, SeeEnded(j)
        PROVE  (tail \in [Jobs -> {"none", "turn", "check", "dequeue"}])'
    BY <1>6 DEF SeeEnded
  <1>7. ASSUME NEW j \in Jobs, LeaveQueue(j)
        PROVE  (tail \in [Jobs -> {"none", "turn", "check", "dequeue"}])'
    BY <1>7 DEF LeaveQueue
  <1>8. ASSUME NEW j \in Jobs, Die(j)
        PROVE  (tail \in [Jobs -> {"none", "turn", "check", "dequeue"}])'
    BY <1>8 DEF Die
  <1>9. CASE UNCHANGED tail
    BY <1>9
  <1>. QED
    BY <1>1, <1>2, <1>3, <1>4, <1>5, <1>6, <1>7, <1>8, <1>9 DEF Next,
           RunnerStep, TailStep, CallerStep, Finished, vars, queue, locks,
           history, JobStart, JobCancel, GraceEnds, Look, EnterSelf, TryTurn,
           ProbeToTake, ProbeEnds, RunnerTakes, Mark, Gate, Chunk, Assemble,
           Published, ClockBack, Begin, CallerTakes, CallerLooks, Refused,
           Demand, PollAgain, Release, EndCall

\* Every step keeps the types of the locks with one holder.
LEMMA LockTypes ==
    ASSUME turn \in Jobs \cup {None} /\ marker \in Jobs \cup {None} /\ probe
        \in Jobs \cup {None}, [Next]_vars
    PROVE  (turn \in Jobs \cup {None} /\ marker \in Jobs \cup {None} /\ probe \in Jobs \cup {None})'
  <1>1. ASSUME NEW j \in Jobs, TryTurn(j)
        PROVE  (turn \in Jobs \cup {None} /\ marker \in Jobs \cup {None} /\ probe \in Jobs \cup {None})'
    BY <1>1 DEF TryTurn
  <1>2. ASSUME NEW j \in Jobs, Cancelled(j)
        PROVE  (turn \in Jobs \cup {None} /\ marker \in Jobs \cup {None} /\ probe \in Jobs \cup {None})'
    BY <1>2 DEF Cancelled, EndJob, LetGo, Unmark
  <1>3. ASSUME NEW j \in Jobs, ProbeToTake(j)
        PROVE  (turn \in Jobs \cup {None} /\ marker \in Jobs \cup {None} /\ probe \in Jobs \cup {None})'
    BY <1>3 DEF ProbeToTake
  <1>4. ASSUME NEW j \in Jobs, ProbeEnds(j)
        PROVE  (turn \in Jobs \cup {None} /\ marker \in Jobs \cup {None} /\ probe \in Jobs \cup {None})'
    BY <1>4 DEF ProbeEnds
  <1>5. ASSUME NEW j \in Jobs, Mark(j)
        PROVE  (turn \in Jobs \cup {None} /\ marker \in Jobs \cup {None} /\ probe \in Jobs \cup {None})'
    BY <1>5 DEF Mark
  <1>6. ASSUME NEW j \in Jobs, Gate(j)
        PROVE  (turn \in Jobs \cup {None} /\ marker \in Jobs \cup {None} /\ probe \in Jobs \cup {None})'
    BY <1>6 DEF Gate, Unmark
  <1>7. ASSUME NEW j \in Jobs, Chunk(j)
        PROVE  (turn \in Jobs \cup {None} /\ marker \in Jobs \cup {None} /\ probe \in Jobs \cup {None})'
    BY <1>7 DEF Chunk, Unmark
  <1>8. ASSUME NEW j \in Jobs, Publish(j)
        PROVE  (turn \in Jobs \cup {None} /\ marker \in Jobs \cup {None} /\ probe \in Jobs \cup {None})'
    BY <1>8 DEF Publish, EndJob, LetGo, Unmark, locks
  <1>9. ASSUME NEW j \in Jobs, Succeed(j)
        PROVE  (turn \in Jobs \cup {None} /\ marker \in Jobs \cup {None} /\ probe \in Jobs \cup {None})'
    BY <1>9 DEF Succeed, EndJob, LetGo, Unmark
  <1>10. ASSUME NEW j \in Jobs, DropTurn(j)
        PROVE  (turn \in Jobs \cup {None} /\ marker \in Jobs \cup {None} /\ probe \in Jobs \cup {None})'
    BY <1>10 DEF DropTurn
  <1>11. ASSUME NEW j \in Jobs, Die(j)
        PROVE  (turn \in Jobs \cup {None} /\ marker \in Jobs \cup {None} /\ probe \in Jobs \cup {None})'
    BY <1>11 DEF Die, LetGo, Unmark
  <1>12. CASE UNCHANGED <<turn, marker, probe>>
    BY <1>12
  <1>. QED
    BY <1>1, <1>2, <1>3, <1>4, <1>5, <1>6, <1>7, <1>8, <1>9, <1>10, <1>11,
           <1>12 DEF Next, RunnerStep, TailStep, CallerStep, Finished, vars,
           queue, locks, history, JobStart, JobCancel, GraceEnds, Launch,
           Look, EnterSelf, RunnerTakes, Assemble, Published, SeeEnded,
           LeaveQueue, ClockBack, Begin, CallerTakes, CallerLooks, Refused,
           Demand, PollAgain, Release, EndCall

\* Every step keeps the types of the slots.
LEMMA SlotTypes ==
    ASSUME slot \in [Slots -> Jobs \cup Callers \cup {None}], [Next]_vars
    PROVE  (slot \in [Slots -> Jobs \cup Callers \cup {None}])'
  <1>1. ASSUME NEW j \in Jobs, Cancelled(j)
        PROVE  (slot \in [Slots -> Jobs \cup Callers \cup {None}])'
    BY <1>1 DEF Cancelled, EndJob, LetGo, FreeSlots
  <1>2. ASSUME NEW j \in Jobs, RunnerTakes(j)
        PROVE  (slot \in [Slots -> Jobs \cup Callers \cup {None}])'
    BY <1>2 DEF RunnerTakes, TakeSlot, FreeSlots
  <1>3. ASSUME NEW j \in Jobs, Mark(j)
        PROVE  (slot \in [Slots -> Jobs \cup Callers \cup {None}])'
    BY <1>3 DEF Mark, FreeSlots
  <1>4. ASSUME NEW j \in Jobs, Gate(j)
        PROVE  (slot \in [Slots -> Jobs \cup Callers \cup {None}])'
    BY <1>4 DEF Gate, FreeSlots
  <1>5. ASSUME NEW j \in Jobs, Chunk(j)
        PROVE  (slot \in [Slots -> Jobs \cup Callers \cup {None}])'
    BY <1>5 DEF Chunk, FreeSlots
  <1>6. ASSUME NEW j \in Jobs, Publish(j)
        PROVE  (slot \in [Slots -> Jobs \cup Callers \cup {None}])'
    BY <1>6 DEF Publish, TakeSlot, EndJob, LetGo, FreeSlots, locks
  <1>7. ASSUME NEW j \in Jobs, Published(j)
        PROVE  (slot \in [Slots -> Jobs \cup Callers \cup {None}])'
    BY <1>7 DEF Published, FreeSlots
  <1>8. ASSUME NEW j \in Jobs, Succeed(j)
        PROVE  (slot \in [Slots -> Jobs \cup Callers \cup {None}])'
    BY <1>8 DEF Succeed, EndJob, LetGo, FreeSlots
  <1>9. ASSUME NEW j \in Jobs, Die(j)
        PROVE  (slot \in [Slots -> Jobs \cup Callers \cup {None}])'
    BY <1>9 DEF Die, LetGo, FreeSlots
  <1>10. ASSUME NEW c \in Callers, CallerTakes(c)
        PROVE  (slot \in [Slots -> Jobs \cup Callers \cup {None}])'
    BY <1>10 DEF CallerTakes, TakeSlot, FreeSlots
  <1>11. ASSUME NEW c \in Callers, Refused(c)
        PROVE  (slot \in [Slots -> Jobs \cup Callers \cup {None}])'
    BY <1>11 DEF Refused, EndCall, FreeSlots
  <1>12. ASSUME NEW c \in Callers, Demand(c)
        PROVE  (slot \in [Slots -> Jobs \cup Callers \cup {None}])'
    BY <1>12 DEF Demand, EndCall, FreeSlots, locks
  <1>13. ASSUME NEW c \in Callers, Release(c)
        PROVE  (slot \in [Slots -> Jobs \cup Callers \cup {None}])'
    BY <1>13 DEF Release, EndCall, FreeSlots
  <1>14. CASE UNCHANGED slot
    BY <1>14
  <1>. QED
    BY <1>1, <1>2, <1>3, <1>4, <1>5, <1>6, <1>7, <1>8, <1>9, <1>10, <1>11,
           <1>12, <1>13, <1>14 DEF Next, RunnerStep, TailStep, CallerStep,
           Finished, vars, queue, locks, history, JobStart, JobCancel,
           GraceEnds, Launch, Look, EnterSelf, TryTurn, ProbeToTake,
           ProbeEnds, Assemble, DropTurn, SeeEnded, LeaveQueue, ClockBack,
           Begin, CallerLooks, PollAgain

\* Every step keeps the types of the shared locks.
LEMMA DemandTypes ==
    ASSUME peeks \subseteq Callers /\ demand \subseteq Callers, [Next]_vars
    PROVE  (peeks \subseteq Callers /\ demand \subseteq Callers)'
  <1>1. ASSUME NEW c \in Callers, CallerTakes(c)
        PROVE  (peeks \subseteq Callers /\ demand \subseteq Callers)'
    BY <1>1 DEF CallerTakes
  <1>2. ASSUME NEW c \in Callers, CallerLooks(c)
        PROVE  (peeks \subseteq Callers /\ demand \subseteq Callers)'
    BY <1>2 DEF CallerLooks
  <1>3. ASSUME NEW c \in Callers, Refused(c)
        PROVE  (peeks \subseteq Callers /\ demand \subseteq Callers)'
    BY <1>3 DEF Refused, EndCall
  <1>4. ASSUME NEW c \in Callers, Demand(c)
        PROVE  (peeks \subseteq Callers /\ demand \subseteq Callers)'
    BY <1>4 DEF Demand, EndCall, locks
  <1>5. ASSUME NEW c \in Callers, Release(c)
        PROVE  (peeks \subseteq Callers /\ demand \subseteq Callers)'
    BY <1>5 DEF Release, EndCall
  <1>6. CASE UNCHANGED <<peeks, demand>>
    BY <1>6
  <1>. QED
    BY <1>1, <1>2, <1>3, <1>4, <1>5, <1>6 DEF Next, RunnerStep, TailStep,
           CallerStep, Finished, vars, queue, locks, history, JobStart,
           JobCancel, GraceEnds, Launch, Look, EnterSelf, TryTurn, Cancelled,
           ProbeToTake, ProbeEnds, RunnerTakes, Mark, Gate, Chunk, Assemble,
           Publish, Published, Succeed, DropTurn, SeeEnded, LeaveQueue, Die,
           ClockBack, Begin, PollAgain, EndJob, LetGo

\* Every step keeps the types of the calls.
LEMMA CallTypes ==
    ASSUME call \in [Callers -> Call], [Next]_vars
    PROVE  (call \in [Callers -> Call])'
  <1>0. NoCall \in Call
    BY DEF NoCall, Call, CallPlaces, Slots
  <1>1. ASSUME NEW c \in Callers, Begin(c)
        PROVE  (call \in [Callers -> Call])'
    BY <1>1, <1>0 DEF Begin, Call, CallPlaces, Slots
  <1>2. ASSUME NEW c \in Callers, CallerTakes(c)
        PROVE  (call \in [Callers -> Call])'
    <2>1. CASE call' = [call EXCEPT ![c] = [at |-> "hold", w |-> @.w, i |-> 1, again |-> FALSE]]
      BY <2>1 DEF Call, CallPlaces, Slots
    <2>2. CASE call[c].i < Capacity /\ call' = [call EXCEPT ![c].i = call[c].i + 1]
      BY <2>2 DEF Call, Slots
    <2>3. CASE call' = [call EXCEPT ![c].i = 1, ![c].at = "look"]
      <3>. DEFINE s == [call[c] EXCEPT !.i = 1, !.at = "look"]
      <3>1. call[c] \in Call /\ 1 \in Slots /\ "look" \in CallPlaces
        BY DEF Slots, CallPlaces
      <3>2. s \in Call
        BY <3>1 DEF Call
      <3>3. call' = [call EXCEPT ![c] = s]
        BY <2>3, Zenon
      <3>. QED
        BY <3>2, <3>3
    <2>. QED
      BY <1>2, <2>1, <2>2, <2>3 DEF CallerTakes
  <1>3. ASSUME NEW c \in Callers, CallerLooks(c)
        PROVE  (call \in [Callers -> Call])'
    BY <1>3 DEF CallerLooks, Call, CallPlaces, CallTo
  <1>4. ASSUME NEW c \in Callers, Refused(c)
        PROVE  (call \in [Callers -> Call])'
    BY <1>4, <1>0 DEF Refused, EndCall
  <1>5. ASSUME NEW c \in Callers, Demand(c)
        PROVE  (call \in [Callers -> Call])'
    BY <1>5, <1>0 DEF Demand, EndCall, Call, CallPlaces
  <1>6. ASSUME NEW c \in Callers, PollAgain(c)
        PROVE  (call \in [Callers -> Call])'
    BY <1>6 DEF PollAgain, Call, CallPlaces, CallTo
  <1>7. ASSUME NEW c \in Callers, Release(c)
        PROVE  (call \in [Callers -> Call])'
    BY <1>7, <1>0 DEF Release, EndCall
  <1>8. CASE UNCHANGED call
    BY <1>8
  <1>. QED
    BY <1>1, <1>2, <1>3, <1>4, <1>5, <1>6, <1>7, <1>8 DEF Next, RunnerStep,
           TailStep, CallerStep, Finished, vars, queue, locks, history,
           JobStart, JobCancel, GraceEnds, Launch, Look, EnterSelf, TryTurn,
           Cancelled, ProbeToTake, ProbeEnds, RunnerTakes, Mark, Gate, Chunk,
           Assemble, Publish, Published, Succeed, DropTurn, SeeEnded,
           LeaveQueue, Die, ClockBack, EndJob

\* Every step keeps the types.
LEMMA TypeStep ==
    ASSUME QueueTypeOK, [Next]_vars
    PROVE  QueueTypeOK'
  BY StateTypes, LeftTypes, RunTypes, StampTypes, FreshTypes, TailTypes, LockTypes,
     SlotTypes, DemandTypes, CallTypes
     DEF QueueTypeOK

\* Only entries are ordered.
LEMMA BeforeTypes ==
    ASSUME stamp \in [Jobs -> Nat \cup {None}], before \subseteq Entered \X
        Entered, [Next]_vars
    PROVE  (before \subseteq Entered \X Entered)'
  <1>. USE DEF Entered
  <1>1. ASSUME NEW j \in Jobs, JobStart(j)
        PROVE  (before \subseteq Entered \X Entered)'
    BY <1>1, NextStampAbove DEF JobStart, Enqueue
  <1>2. ASSUME NEW j \in Jobs, JobCancel(j)
        PROVE  (before \subseteq Entered \X Entered)'
    BY <1>2 DEF JobCancel, Dequeue
  <1>3. ASSUME NEW j \in Jobs, Look(j)
        PROVE  (before \subseteq Entered \X Entered)'
    BY <1>3 DEF Look, Dequeue
  <1>4. ASSUME NEW j \in Jobs, EnterSelf(j)
        PROVE  (before \subseteq Entered \X Entered)'
    BY <1>4, NextStampAbove DEF EnterSelf, Enqueue
  <1>5. ASSUME NEW j \in Jobs, LeaveQueue(j)
        PROVE  (before \subseteq Entered \X Entered)'
    BY <1>5 DEF LeaveQueue, Dequeue
  <1>6. CASE UNCHANGED <<stamp, before>>
    BY <1>6
  <1>. QED
    BY <1>1, <1>2, <1>3, <1>4, <1>5, <1>6 DEF Next, RunnerStep, TailStep,
           CallerStep, Finished, vars, queue, locks, history, GraceEnds,
           Launch, TryTurn, Cancelled, ProbeToTake, ProbeEnds, RunnerTakes,
           Mark, Gate, Chunk, Assemble, Publish, Published, Succeed, DropTurn,
           SeeEnded, Die, ClockBack, Begin, CallerTakes, CallerLooks, Refused,
           Demand, PollAgain, Release, EndJob, EndCall

\* Every step keeps the types of the later runners.
LEMMA NewerTypes ==
    ASSUME newer \in [Jobs -> SUBSET Jobs], [Next]_vars
    PROVE  (newer \in [Jobs -> SUBSET Jobs])'
  <1>1. ASSUME NEW j \in Jobs, Launch(j)
        PROVE  (newer \in [Jobs -> SUBSET Jobs])'
    BY <1>1 DEF Launch
  <1>2. ASSUME NEW j \in Jobs, TryTurn(j)
        PROVE  (newer \in [Jobs -> SUBSET Jobs])'
    BY <1>2 DEF TryTurn
  <1>3. ASSUME NEW j \in Jobs, Die(j)
        PROVE  (newer \in [Jobs -> SUBSET Jobs])'
    BY <1>3 DEF Die
  <1>4. CASE UNCHANGED newer
    BY <1>4
  <1>. QED
    BY <1>1, <1>2, <1>3, <1>4 DEF Next, RunnerStep, TailStep, CallerStep,
           Finished, vars, queue, locks, history, JobStart, JobCancel,
           GraceEnds, Look, EnterSelf, Cancelled, ProbeToTake, ProbeEnds,
           RunnerTakes, Mark, Gate, Chunk, Assemble, Publish, Published,
           Succeed, DropTurn, SeeEnded, LeaveQueue, ClockBack, Begin,
           CallerTakes, CallerLooks, Refused, Demand, PollAgain, Release,
           EndJob, EndCall

\* Every step keeps the types of the chunks that were counted.
LEMMA LateTypes ==
    ASSUME late \in [Callers -> Nat], [Next]_vars
    PROVE  (late \in [Callers -> Nat])'
  <1>1. ASSUME NEW j \in Jobs, Chunk(j)
        PROVE  (late \in [Callers -> Nat])'
    BY <1>1 DEF Chunk, ChunkEnds
  <1>2. ASSUME NEW c \in Callers, CallerTakes(c)
        PROVE  (late \in [Callers -> Nat])'
    BY <1>2 DEF CallerTakes
  <1>3. ASSUME NEW c \in Callers, Refused(c)
        PROVE  (late \in [Callers -> Nat])'
    BY <1>3 DEF Refused, EndCall
  <1>4. ASSUME NEW c \in Callers, Demand(c)
        PROVE  (late \in [Callers -> Nat])'
    BY <1>4 DEF Demand, EndCall, history
  <1>5. ASSUME NEW c \in Callers, Release(c)
        PROVE  (late \in [Callers -> Nat])'
    BY <1>5 DEF Release, EndCall
  <1>6. CASE UNCHANGED late
    BY <1>6
  <1>. QED
    BY <1>1, <1>2, <1>3, <1>4, <1>5, <1>6 DEF Next, RunnerStep, TailStep,
           CallerStep, Finished, vars, queue, locks, history, JobStart,
           JobCancel, GraceEnds, Launch, Look, EnterSelf, TryTurn, Cancelled,
           ProbeToTake, ProbeEnds, RunnerTakes, Mark, Gate, Assemble, Publish,
           Published, Succeed, DropTurn, SeeEnded, LeaveQueue, Die, ClockBack,
           Begin, CallerLooks, PollAgain, EndJob

\* Every step keeps the order of the entries.
LEMMA EntriesStep ==
    ASSUME stamp \in [Jobs -> Nat \cup {None}], before \subseteq Entered \X
        Entered, EntriesInOrder, [Next]_vars
    PROVE  EntriesInOrder'
  <1>. USE DEF EntriesInOrder, Entered
  <1>1. ASSUME NEW j \in Jobs, JobStart(j)
        PROVE  EntriesInOrder'
    BY <1>1, NextStampAbove DEF JobStart, Enqueue
  <1>2. ASSUME NEW j \in Jobs, JobCancel(j)
        PROVE  EntriesInOrder'
    BY <1>2 DEF JobCancel, Dequeue
  <1>3. ASSUME NEW j \in Jobs, Look(j)
        PROVE  EntriesInOrder'
    BY <1>3 DEF Look, Dequeue
  <1>4. ASSUME NEW j \in Jobs, EnterSelf(j)
        PROVE  EntriesInOrder'
    BY <1>4, NextStampAbove DEF EnterSelf, Enqueue
  <1>5. ASSUME NEW j \in Jobs, LeaveQueue(j)
        PROVE  EntriesInOrder'
    BY <1>5 DEF LeaveQueue, Dequeue
  <1>6. CASE UNCHANGED <<stamp, before>>
    BY <1>6
  <1>. QED
    BY <1>1, <1>2, <1>3, <1>4, <1>5, <1>6 DEF Next, RunnerStep, TailStep,
           CallerStep, Finished, vars, queue, locks, history, GraceEnds,
           Launch, TryTurn, Cancelled, ProbeToTake, ProbeEnds, RunnerTakes,
           Mark, Gate, Chunk, Assemble, Publish, Published, Succeed, DropTurn,
           SeeEnded, Die, ClockBack, Begin, CallerTakes, CallerLooks, Refused,
           Demand, PollAgain, Release, EndJob, EndCall

\* A runner moves, and no other.
LEMMA RunToMoves ==
    ASSUME run \in [Jobs -> Run], NEW j \in Jobs, NEW place, RunTo(j, place)
    PROVE  /\ run'[j].at = place /\ run'[j].chunks = run[j].chunks
           /\ \A k \in Jobs \ {j} : run'[k] = run[k]
  BY DEF RunTo, Run

\* A runner that looks for slots moves in one of three ways.
LEMMA RunnerTakesMoves ==
    ASSUME run \in [Jobs -> Run], NEW j \in Jobs, RunnerTakes(j)
    PROVE  /\ \A k \in Jobs \ {j} : run'[k] = run[k]
           /\ \/ /\ Enough(j, run[j].i, left.threads) /\ TakeSlot(j, run[j].i)
                 /\ run'[j].at = "mark"
              \/ /\ ~Enough(j, run[j].i, left.threads) /\ TakeSlot(j, run[j].i)
                 /\ run'[j].at = "take" /\ run'[j].i = run[j].i + 1
              \/ FreeSlots(j) /\ run'[j].at = "admit"
  <1>1. CASE /\ Enough(j, run[j].i, left.threads) /\ TakeSlot(j, run[j].i)
             /\ run' = [run EXCEPT ![j].at = "mark", ![j].i = 1]
    BY <1>1 DEF Run
  <1>2. CASE /\ ~Enough(j, run[j].i, left.threads) /\ TakeSlot(j, run[j].i) /\ RunAt(j, "take")
             /\ run' = [run EXCEPT ![j].i = run[j].i + 1]
    BY <1>2 DEF Run, RunAt
  <1>3. CASE FreeSlots(j) /\ run' = [run EXCEPT ![j].at = "admit", ![j].i = 1]
    BY <1>3 DEF Run
  <1>. QED
    BY <1>1, <1>2, <1>3 DEF RunnerTakes

\* What a process lets go of is its own.
LEMMA FreeHeld ==
    ASSUME slot \in [Slots -> Jobs \cup Callers \cup {None}], NEW p \in Jobs \cup Callers,
           FreeSlots(p)
    PROVE  /\ Held(p)' = {}
           /\ \A k \in (Jobs \cup Callers) \ {p} : Held(k)' = Held(k)
  BY DEF FreeSlots, Held

\* A process takes a slot that nobody has.
LEMMA TakeHeld ==
    ASSUME slot \in [Slots -> Jobs \cup Callers \cup {None}], NEW p \in Jobs \cup Callers,
           NEW i \in Slots, TakeSlot(p, i)
    PROVE  /\ Held(p)' = Held(p) \cup (IF slot[i] = None THEN {i} ELSE {})
           /\ \A k \in (Jobs \cup Callers) \ {p} : Held(k)' = Held(k)
  BY DEF TakeSlot, Held

\* A recognizer has a thread.
LEMMA ThreadsPositive ==
    ASSUME left \in Left
    PROVE  left.threads \in Nat \ {0}
  <1>1. left.threads \in Threads
    BY DEF Left
  <1>2. left.threads \in 1..Capacity
    BY <1>1, Zenon DEF QueueBounds
  <1>. QED
    BY <1>2

\* Enough slots for a runner are as many as it has threads.
LEMMA TakeCount ==
    ASSUME slot \in [Slots -> Jobs \cup Callers \cup {None}], left \in Left, NEW j \in Jobs,
           NEW i \in Slots, TakeSlot(j, i),
           Cardinality(Held(j)) < left.threads, \A s \in Held(j) : s < i
    PROVE  /\ IF Enough(j, i, left.threads)
                THEN Cardinality(Held(j)') = left.threads
                ELSE Cardinality(Held(j)') < left.threads
           /\ \A s \in Held(j)' : s < i + 1
  <1>1. IsFiniteSet(Held(j)) /\ Cardinality(Held(j)) \in Nat
    <2>1. Held(j) \in SUBSET Slots /\ IsFiniteSet(Slots)
      BY FS_Interval DEF Held, Slots
    <2>. QED
      BY <2>1, FS_Subset, FS_CardinalityType
  <1>2. left.threads \in Nat /\ i \in Nat /\ \A s \in Held(j) : s \in Nat
    BY ThreadsPositive DEF Slots, Held
  <1>3. CASE slot[i] = None
    <2>1. Held(j)' = Held(j) \cup {i}
      BY <1>3, TakeHeld
    <2>2. Cardinality(Held(j) \cup {i}) = Cardinality(Held(j)) + 1
      <3>1. i \notin Held(j)
        BY <1>2
      <3>. QED
        BY <1>1, <3>1, FS_AddElement
    <2>3. Enough(j, i, left.threads) <=> Cardinality(Held(j) \cup {i}) >= left.threads
      BY <1>3 DEF Enough
    <2>. QED
      BY <1>1, <1>2, <2>1, <2>2, <2>3
  <1>4. CASE slot[i] # None
    <2>1. Held(j)' = Held(j)
      BY <1>4, TakeHeld
    <2>2. ~Enough(j, i, left.threads)
      <3>1. Held(j) \cup {} = Held(j)
        OBVIOUS
      <3>. QED
        BY <1>1, <1>2, <1>4, <3>1 DEF Enough
    <2>. QED
      BY <1>2, <2>1, <2>2
  <1>. QED
    BY <1>3, <1>4

\* After a chunk the runner looks for a demand, or is past its last chunk.
LEMMA ChunkMoves ==
    ASSUME run \in [Jobs -> Run], NEW j \in Jobs, Chunk(j)
    PROVE  /\ \/ run'[j].at = "gate" /\ UNCHANGED <<slot, marker>>
              \/ run'[j].at = "assemble" /\ FreeSlots(j) /\ Unmark(j)
           /\ \A k \in Jobs \ {j} : run'[k] = run[k]
  <1>1. CASE run[j].chunks > 1
    <2>1. run' = [run EXCEPT ![j].chunks = @ - 1, ![j].at = "gate"] /\ UNCHANGED <<slot, marker>>
      BY <1>1 DEF Chunk
    <2>. QED
      BY <2>1 DEF Run
  <1>2. CASE ~(run[j].chunks > 1)
    <2>1. run' = [run EXCEPT ![j].chunks = @ - 1, ![j].at = "assemble"]
          /\ FreeSlots(j) /\ Unmark(j)
      BY <1>2 DEF Chunk
    <2>. QED
      BY <2>1 DEF Run
  <1>. QED
    BY <1>1, <1>2

\* What the publication of a runner does to the places.
LEMMA PublishMoves ==
    ASSUME run \in [Jobs -> Run], NEW j \in Jobs, Publish(j)
    PROVE  /\ \A k \in Jobs \ {j} : run'[k] = run[k]
           /\ \/ run'[j].at = "publishing" /\ TakeSlot(j, run[j].i) /\ UNCHANGED <<st, tail, turn, marker>>
              \/ run'[j].at = "publish" /\ UNCHANGED <<st, tail, turn, marker, slot>>
              \/ run'[j].at = "none" /\ EndJob(j, IF st[j] = "cancelling" THEN "ended" ELSE "waiting")
  <1>1. CASE /\ TakeSlot(j, run[j].i) /\ UNCHANGED <<st, tail, turn, marker>>
             /\ run' = [run EXCEPT ![j].at = "publishing", ![j].i = 1, ![j].tries = 0]
    BY <1>1 DEF Run
  <1>2. CASE run' = [run EXCEPT ![j].i = run[j].i + 1] /\ UNCHANGED <<st, tail, turn, marker, slot>>
    BY <1>2 DEF Run, Publish, RunAt
  <1>3. CASE run' = [run EXCEPT ![j].i = 1, ![j].tries = @ - 1]
             /\ UNCHANGED <<st, tail, turn, marker, slot>>
    BY <1>3 DEF Run, Publish, RunAt
  <1>4. CASE EndJob(j, IF st[j] = "cancelling" THEN "ended" ELSE "waiting")
    BY <1>4 DEF EndJob, NoRun
  <1>. QED
    BY <1>1, <1>2, <1>3, <1>4 DEF Publish, queue, locks

\* A caller that takes slots goes on, or has the capacity and forgets its demand.
LEMMA CallerTakesMoves ==
    ASSUME call \in [Callers -> Call], NEW c \in Callers, CallerTakes(c)
    PROVE  /\ call'[c].at \notin {"idle", "demand"}
           /\ \/ call'[c].again = call[c].again /\ UNCHANGED <<demand, late>>
              \/ ~call'[c].again /\ demand' = demand \ {c} /\ late' = [late EXCEPT ![c] = 0]
           /\ \A d \in Callers \ {c} : call'[d] = call[d]
  <1>1. CASE /\ call' = [call EXCEPT ![c].i = call[c].i + 1] /\ CallAt(c, "take")
             /\ UNCHANGED <<demand, late>>
    BY <1>1 DEF Call, CallAt
  <1>2. CASE call' = [call EXCEPT ![c].i = 1, ![c].at = "look"] /\ UNCHANGED <<demand, late>>
    BY <1>2 DEF Call
  <1>3. CASE /\ call' = [call EXCEPT ![c] = [at |-> "hold", w |-> @.w, i |-> 1, again |-> FALSE]]
             /\ demand' = demand \ {c} /\ late' = [late EXCEPT ![c] = 0]
    <2>1. call'[c] = [at |-> "hold", w |-> call[c].w, i |-> 1, again |-> FALSE]
      BY <1>3, Zenon
    <2>2. \A d \in Callers \ {c} : call'[d] = call[d]
      BY <1>3, Zenon
    <2>3. call'[c].at = "hold" /\ ~call'[c].again
      BY <2>1
    <2>. QED
      BY <1>3, <2>2, <2>3
  <1>. QED
    BY <1>1, <1>2, <1>3 DEF CallerTakes

\* A caller that looks at the marker demands capacity once.
LEMMA CallerLooksMoves ==
    ASSUME call \in [Callers -> Call], NEW c \in Callers, CallerLooks(c)
    PROVE  /\ call'[c].at # "idle" /\ call'[c].again = call[c].again
           /\ call'[c].at = "demand" => ~call[c].again
           /\ \A d \in Callers \ {c} : call'[d] = call[d]
  <1>1. \E place \in {"wait", "demand", "peek"} :
            CallTo(c, place) /\ (place = "demand" => ~call[c].again)
    BY DEF CallerLooks
  <1>. QED
    BY <1>1 DEF CallTo, Call

\* The recognizer's threads stay as they are.
LEMMA ThreadsKept ==
    ASSUME left \in Left, [Next]_vars
    PROVE  left'.threads = left.threads
  <1>1. ASSUME NEW what \in {"starts", "calls", "cancels", "faults"}, Spend(what)
        PROVE  left'.threads = left.threads
    BY <1>1 DEF Spend, Left
  <1>2. CASE UNCHANGED left
    BY <1>2
  <1>. QED
    BY <1>1, <1>2 DEF Next, RunnerStep, TailStep, CallerStep, Finished, vars, queue, locks,
       history, JobStart, JobCancel, GraceEnds, Launch, Look, EnterSelf, TryTurn, Cancelled,
       ProbeToTake, ProbeEnds, RunnerTakes, Mark, Gate, Chunk, Assemble, Publish, Published,
       Succeed, EndJob, DropTurn, SeeEnded, LeaveQueue, Die, ClockBack, Begin, CallerTakes,
       CallerLooks, Refused, Demand, EndCall, PollAgain, Release

\* Every step leaves the turn with one process.
LEMMA TurnStep ==
    ASSUME st \in [Jobs -> {"new", "waiting", "cancelling", "ended", "done"}],
        run \in [Jobs -> Run], tail \in [Jobs -> {"none", "turn", "check",
        "dequeue"}], TurnInv, [Next]_vars
    PROVE  TurnInv'
  <1>. USE DEF TurnInv, InTurn, Owned, RunAt, queue, locks
  <1>1. ASSUME NEW j \in Jobs, JobStart(j)
        PROVE  TurnInv'
    BY <1>1 DEF JobStart
  <1>2. ASSUME NEW j \in Jobs, JobCancel(j)
        PROVE  TurnInv'
    BY <1>2 DEF JobCancel
  <1>3. ASSUME NEW j \in Jobs, Launch(j)
        PROVE  TurnInv'
    BY <1>3 DEF Launch
  <1>4. ASSUME NEW j \in Jobs, Look(j)
        PROVE  TurnInv'
    BY <1>4, RunToMoves DEF Look
  <1>5. ASSUME NEW j \in Jobs, EnterSelf(j)
        PROVE  TurnInv'
    BY <1>5, RunToMoves DEF EnterSelf, NoRun
  <1>6. ASSUME NEW j \in Jobs, TryTurn(j)
        PROVE  TurnInv'
    BY <1>6, RunToMoves DEF TryTurn
  <1>7. ASSUME NEW j \in Jobs, Cancelled(j)
        PROVE  TurnInv'
    BY <1>7 DEF Cancelled, EndJob, LetGo, NoRun
  <1>8. ASSUME NEW j \in Jobs, ProbeToTake(j)
        PROVE  TurnInv'
    BY <1>8, RunToMoves DEF ProbeToTake
  <1>9. ASSUME NEW j \in Jobs, ProbeEnds(j)
        PROVE  TurnInv'
    BY <1>9 DEF ProbeEnds
  <1>10. ASSUME NEW j \in Jobs, RunnerTakes(j)
        PROVE  TurnInv'
    BY <1>10 DEF RunnerTakes
  <1>11. ASSUME NEW j \in Jobs, Mark(j)
        PROVE  TurnInv'
    BY <1>11, RunToMoves DEF Mark
  <1>12. ASSUME NEW j \in Jobs, Gate(j)
        PROVE  TurnInv'
    BY <1>12, RunToMoves DEF Gate
  <1>13. ASSUME NEW j \in Jobs, Chunk(j)
        PROVE  TurnInv'
    BY <1>13 DEF Chunk
  <1>14. ASSUME NEW j \in Jobs, Assemble(j)
        PROVE  TurnInv'
    BY <1>14 DEF Assemble
  <1>15. ASSUME NEW j \in Jobs, Publish(j)
        PROVE  TurnInv'
    <2>1. run[j].at = "publish"
      BY <1>15 DEF Publish
    <2>2. CASE run'[j].at \in {"publishing", "publish"} /\ UNCHANGED <<st, tail, turn>>
      BY <1>15, <2>1, <2>2, PublishMoves
    <2>3. CASE run'[j].at = "none" /\ EndJob(j, IF st[j] = "cancelling" THEN "ended" ELSE "waiting")
      BY <1>15, <2>1, <2>3, PublishMoves DEF EndJob, LetGo
    <2>. QED
      BY <1>15, <2>2, <2>3, PublishMoves
  <1>16. ASSUME NEW j \in Jobs, Published(j)
        PROVE  TurnInv'
    BY <1>16, RunToMoves DEF Published
  <1>17. ASSUME NEW j \in Jobs, Succeed(j)
        PROVE  TurnInv'
    BY <1>17 DEF Succeed, EndJob, LetGo, NoRun
  <1>18. ASSUME NEW j \in Jobs, DropTurn(j)
        PROVE  TurnInv'
    BY <1>18 DEF DropTurn, queue
  <1>19. ASSUME NEW j \in Jobs, SeeEnded(j)
        PROVE  TurnInv'
    BY <1>19 DEF SeeEnded
  <1>20. ASSUME NEW j \in Jobs, LeaveQueue(j)
        PROVE  TurnInv'
    BY <1>20 DEF LeaveQueue
  <1>21. ASSUME NEW j \in Jobs, Die(j)
        PROVE  TurnInv'
    BY <1>21 DEF Die, LetGo, NoRun
  <1>22. CASE UNCHANGED <<st, run, tail, turn>>
    BY <1>22
  <1>. QED
    BY <1>1, <1>2, <1>3, <1>4, <1>5, <1>6, <1>7, <1>8, <1>9, <1>10, <1>11,
           <1>12, <1>13, <1>14, <1>15, <1>16, <1>17, <1>18, <1>19, <1>20,
           <1>21, <1>22 DEF Next, RunnerStep, TailStep, CallerStep, Finished,
           vars, queue, locks, history, GraceEnds, ClockBack, Begin,
           CallerTakes, CallerLooks, Refused, Demand, PollAgain, Release,
           EndCall

\* Every step leaves the slots and the marker with the runner at work.
LEMMA SlotStep ==
    ASSUME run \in [Jobs -> Run], call \in [Callers -> Call], left \in Left,
        turn \in Jobs \cup {None}, marker \in Jobs \cup {None}, probe \in Jobs
        \cup {None}, slot \in [Slots -> Jobs \cup Callers \cup {None}],
        TurnInv, SlotInv, [Next]_vars
    PROVE  SlotInv'
  <1>. USE DEF TurnInv, SlotInv, SlotOK, InTurn, Share, Marked, RunAt, queue,
      locks
  <1>1. ASSUME NEW j \in Jobs, Launch(j)
        PROVE  SlotInv'
    <2>1. \A k \in Jobs : Held(k)' = Held(k)
      BY <1>1 DEF Launch, Held
    <2>. QED
      BY <1>1, <2>1, ThreadsKept DEF Launch, Owned
  <1>2. ASSUME NEW j \in Jobs, Look(j)
        PROVE  SlotInv'
    <2>1. \A k \in Jobs : Held(k)' = Held(k)
      BY <1>2 DEF Look, Held
    <2>. QED
      BY <1>2, <2>1, ThreadsKept, RunToMoves DEF Look
  <1>3. ASSUME NEW j \in Jobs, EnterSelf(j)
        PROVE  SlotInv'
    <2>1. \A k \in Jobs : Held(k)' = Held(k)
      BY <1>3 DEF EnterSelf, Held
    <2>. QED
      BY <1>3, <2>1, ThreadsKept, RunToMoves DEF EnterSelf, NoRun
  <1>4. ASSUME NEW j \in Jobs, TryTurn(j)
        PROVE  SlotInv'
    <2>1. \A k \in Jobs : Held(k)' = Held(k)
      BY <1>4 DEF TryTurn, Held
    <2>. QED
      BY <1>4, <2>1, ThreadsKept, RunToMoves DEF TryTurn
  <1>5. ASSUME NEW j \in Jobs, Cancelled(j)
        PROVE  SlotInv'
    <2>1. FreeSlots(j) => \A k \in Jobs : Held(k)' = IF k = j THEN {} ELSE Held(k)
      BY FreeHeld
    <2>2. UNCHANGED slot => \A k \in Jobs : Held(k)' = Held(k)
      BY DEF Held
    <2>. QED
      BY <1>5, <2>1, <2>2, ThreadsKept DEF Cancelled, EndJob, LetGo, Unmark, NoRun
  <1>6. ASSUME NEW j \in Jobs, ProbeToTake(j)
        PROVE  SlotInv'
    <2>1. \A k \in Jobs : Held(k)' = Held(k)
      BY <1>6 DEF ProbeToTake, Held
    <2>. QED
      BY <1>6, <2>1, ThreadsKept, RunToMoves DEF ProbeToTake
  <1>7. ASSUME NEW j \in Jobs, ProbeEnds(j)
        PROVE  SlotInv'
    <2>1. \A k \in Jobs : Held(k)' = Held(k)
      BY <1>7 DEF ProbeEnds, Held
    <2>2. UNCHANGED marker /\ \A k \in Jobs \ {j} : run'[k] = run[k]
      BY <1>7 DEF ProbeEnds
    <2>3. CASE RunAt(j, "probed") /\ run'[j].at = "take"
      <3>1. Held(j) = {} /\ Cardinality({}) = 0
        BY <2>3, FS_EmptySet
      <3>3. 0 < left.threads
        BY ThreadsPositive
      <3>. QED
        BY <2>1, <2>2, <2>3, <3>1, <3>3, ThreadsKept
    <2>4. CASE RunAt(j, "gate_probed") /\ run'[j].at = "chunk"
      BY <2>1, <2>2, <2>4, ThreadsKept
    <2>. QED
      BY <1>7, <2>3, <2>4 DEF ProbeEnds, Run
  <1>8. ASSUME NEW j \in Jobs, RunnerTakes(j)
        PROVE  SlotInv'
    <2>1. run[j].i \in Slots /\ run[j].at = "take" /\ UNCHANGED marker
      BY <1>8 DEF RunnerTakes, Run
    <2>2. \A k \in Jobs \ {j} : SlotOK(k)'
      BY <1>8, <2>1, RunnerTakesMoves, TakeHeld, FreeHeld, ThreadsKept
    <2>3. SlotOK(j)'
      <3>. DEFINE i == run[j].i
      <3>1. CASE Enough(j, i, left.threads) /\ TakeSlot(j, i) /\ run'[j].at = "mark"
        <4>1. Cardinality(Held(j)') = left.threads
          BY <2>1, <3>1, TakeCount
        <4>. QED
          BY <2>1, <3>1, <4>1, ThreadsKept
      <3>2. CASE /\ ~Enough(j, i, left.threads) /\ TakeSlot(j, i)
                 /\ run'[j].at = "take" /\ run'[j].i = i + 1
        <4>1. Cardinality(Held(j)') < left.threads /\ \A s \in Held(j)' : s < i + 1
          BY <2>1, <3>2, TakeCount
        <4>. QED
          BY <2>1, <3>2, <4>1, ThreadsKept
      <3>3. CASE FreeSlots(j) /\ run'[j].at = "admit"
        BY <2>1, <3>3, FreeHeld
      <3>. QED
        BY <1>8, <3>1, <3>2, <3>3, RunnerTakesMoves
    <2>. QED
      BY <2>2, <2>3
  <1>9. ASSUME NEW j \in Jobs, Mark(j)
        PROVE  SlotInv'
    <2>1. FreeSlots(j) => \A k \in Jobs : Held(k)' = IF k = j THEN {} ELSE Held(k)
      BY FreeHeld
    <2>2. UNCHANGED slot => \A k \in Jobs : Held(k)' = Held(k)
      BY DEF Held
    <2>. QED
      BY <1>9, <2>1, <2>2, ThreadsKept, RunToMoves DEF Mark
  <1>10. ASSUME NEW j \in Jobs, Gate(j)
        PROVE  SlotInv'
    <2>1. FreeSlots(j) => \A k \in Jobs : Held(k)' = IF k = j THEN {} ELSE Held(k)
      BY FreeHeld
    <2>2. UNCHANGED slot => \A k \in Jobs : Held(k)' = Held(k)
      BY DEF Held
    <2>. QED
      BY <1>10, <2>1, <2>2, ThreadsKept, RunToMoves DEF Gate, Unmark
  <1>11. ASSUME NEW j \in Jobs, Chunk(j)
        PROVE  SlotInv'
    <2>1. run[j].at = "chunk"
      BY <1>11 DEF Chunk
    <2>2. CASE run'[j].at = "gate" /\ UNCHANGED <<slot, marker>>
      <3>1. \A k \in Jobs : Held(k)' = Held(k)
        BY <2>2 DEF Held
      <3>. QED
        BY <1>11, <2>1, <2>2, <3>1, ChunkMoves, ThreadsKept
    <2>3. CASE run'[j].at = "assemble" /\ FreeSlots(j) /\ Unmark(j)
      BY <1>11, <2>1, <2>3, ChunkMoves, FreeHeld, ThreadsKept DEF Unmark
    <2>. QED
      BY <1>11, <2>2, <2>3, ChunkMoves
  <1>12. ASSUME NEW j \in Jobs, Assemble(j)
        PROVE  SlotInv'
    <2>1. \A k \in Jobs : Held(k)' = Held(k)
      BY <1>12 DEF Assemble, Held
    <2>. QED
      BY <1>12, <2>1, ThreadsKept DEF Assemble
  <1>13. ASSUME NEW j \in Jobs, Publish(j)
        PROVE  SlotInv'
    <2>1. run[j].i \in Slots /\ run[j].at = "publish"
      BY <1>13 DEF Publish, Run
    <2>2. CASE run'[j].at = "publishing" /\ TakeSlot(j, run[j].i) /\ UNCHANGED marker
      BY <1>13, <2>1, <2>2, PublishMoves, TakeHeld, ThreadsKept
    <2>3. CASE run'[j].at = "publish" /\ UNCHANGED <<marker, slot>>
      <3>1. \A k \in Jobs : Held(k)' = Held(k)
        BY <2>3 DEF Held
      <3>. QED
        BY <1>13, <2>1, <2>3, <3>1, PublishMoves, ThreadsKept
    <2>4. CASE run'[j].at = "none" /\ FreeSlots(j) /\ Unmark(j)
      BY <1>13, <2>1, <2>4, PublishMoves, FreeHeld, ThreadsKept DEF Unmark
    <2>. QED
      BY <1>13, <2>2, <2>3, <2>4, PublishMoves DEF EndJob, LetGo
  <1>14. ASSUME NEW j \in Jobs, Published(j)
        PROVE  SlotInv'
    <2>1. FreeSlots(j) => \A k \in Jobs : Held(k)' = IF k = j THEN {} ELSE Held(k)
      BY FreeHeld
    <2>2. UNCHANGED slot => \A k \in Jobs : Held(k)' = Held(k)
      BY DEF Held
    <2>. QED
      BY <1>14, <2>1, <2>2, ThreadsKept, RunToMoves DEF Published
  <1>15. ASSUME NEW j \in Jobs, Succeed(j)
        PROVE  SlotInv'
    <2>1. FreeSlots(j) => \A k \in Jobs : Held(k)' = IF k = j THEN {} ELSE Held(k)
      BY FreeHeld
    <2>2. UNCHANGED slot => \A k \in Jobs : Held(k)' = Held(k)
      BY DEF Held
    <2>. QED
      BY <1>15, <2>1, <2>2, ThreadsKept DEF Succeed, EndJob, LetGo, Unmark, NoRun
  <1>16. ASSUME NEW j \in Jobs, Die(j)
        PROVE  SlotInv'
    <2>1. FreeSlots(j) => \A k \in Jobs : Held(k)' = IF k = j THEN {} ELSE Held(k)
      BY FreeHeld
    <2>2. UNCHANGED slot => \A k \in Jobs : Held(k)' = Held(k)
      BY DEF Held
    <2>. QED
      BY <1>16, <2>1, <2>2, ThreadsKept DEF Die, LetGo, Unmark, NoRun
  <1>17. ASSUME NEW c \in Callers, CallerTakes(c)
        PROVE  SlotInv'
    <2>1. call[c].i \in Slots /\ UNCHANGED <<run, marker>>
      BY <1>17 DEF CallerTakes, Call
    <2>2. \A k \in Jobs : Held(k)' = Held(k)
      BY <1>17, <2>1, TakeHeld, FreeHeld DEF CallerTakes
    <2>. QED
      BY <2>1, <2>2, ThreadsKept
  <1>18. ASSUME NEW c \in Callers, Refused(c)
        PROVE  SlotInv'
    <2>1. FreeSlots(c) => \A k \in Jobs : Held(k)' = IF k = c THEN {} ELSE Held(k)
      BY FreeHeld
    <2>2. UNCHANGED slot => \A k \in Jobs : Held(k)' = Held(k)
      BY DEF Held
    <2>. QED
      BY <1>18, <2>1, <2>2, ThreadsKept DEF Refused, EndCall
  <1>19. ASSUME NEW c \in Callers, Demand(c)
        PROVE  SlotInv'
    <2>1. FreeSlots(c) => \A k \in Jobs : Held(k)' = IF k = c THEN {} ELSE Held(k)
      BY FreeHeld
    <2>2. UNCHANGED slot => \A k \in Jobs : Held(k)' = Held(k)
      BY DEF Held
    <2>. QED
      BY <1>19, <2>1, <2>2, ThreadsKept DEF Demand, EndCall
  <1>20. ASSUME NEW c \in Callers, Release(c)
        PROVE  SlotInv'
    <2>1. FreeSlots(c) => \A k \in Jobs : Held(k)' = IF k = c THEN {} ELSE Held(k)
      BY FreeHeld
    <2>2. UNCHANGED slot => \A k \in Jobs : Held(k)' = Held(k)
      BY DEF Held
    <2>. QED
      BY <1>20, <2>1, <2>2, ThreadsKept DEF Release, EndCall
  <1>21. CASE UNCHANGED <<run, slot, marker>>
    <2>1. \A k \in Jobs : Held(k)' = Held(k)
      BY <1>21 DEF Held
    <2>. QED
      BY <1>21, <2>1, ThreadsKept
  <1>. QED
    BY <1>1, <1>2, <1>3, <1>4, <1>5, <1>6, <1>7, <1>8, <1>9, <1>10, <1>11,
           <1>12, <1>13, <1>14, <1>15, <1>16, <1>17, <1>18, <1>19, <1>20,
           <1>21 DEF Next, RunnerStep, TailStep, CallerStep, Finished, vars,
           queue, locks, history, JobStart, JobCancel, GraceEnds, DropTurn,
           SeeEnded, LeaveQueue, ClockBack, Begin, CallerLooks, PollAgain

\* Every step keeps the record of demands.
LEMMA DemandStep ==
    ASSUME run \in [Jobs -> Run], call \in [Callers -> Call], late \in
        [Callers -> Nat], TurnInv, DemandInv, [Next]_vars
    PROVE  DemandInv'
  <1>. USE DEF TurnInv, DemandInv, InTurn, RunAt, CallAt, queue, locks,
      history
  <1>1. ASSUME NEW j \in Jobs, Launch(j)
        PROVE  DemandInv'
    BY <1>1 DEF Launch
  <1>2. ASSUME NEW j \in Jobs, Look(j)
        PROVE  DemandInv'
    BY <1>2, RunToMoves DEF Look
  <1>3. ASSUME NEW j \in Jobs, EnterSelf(j)
        PROVE  DemandInv'
    BY <1>3, RunToMoves DEF EnterSelf, NoRun
  <1>4. ASSUME NEW j \in Jobs, TryTurn(j)
        PROVE  DemandInv'
    BY <1>4, RunToMoves DEF TryTurn
  <1>5. ASSUME NEW j \in Jobs, Cancelled(j)
        PROVE  DemandInv'
    BY <1>5 DEF Cancelled, EndJob, LetGo, NoRun
  <1>6. ASSUME NEW j \in Jobs, ProbeToTake(j)
        PROVE  DemandInv'
    BY <1>6, RunToMoves DEF ProbeToTake
  <1>7. ASSUME NEW j \in Jobs, ProbeEnds(j)
        PROVE  DemandInv'
    BY <1>7 DEF ProbeEnds
  <1>8. ASSUME NEW j \in Jobs, RunnerTakes(j)
        PROVE  DemandInv'
    BY <1>8 DEF RunnerTakes
  <1>9. ASSUME NEW j \in Jobs, Mark(j)
        PROVE  DemandInv'
    BY <1>9, RunToMoves DEF Mark
  <1>10. ASSUME NEW j \in Jobs, Gate(j)
        PROVE  DemandInv'
    BY <1>10, RunToMoves DEF Gate
  <1>11. ASSUME NEW j \in Jobs, Chunk(j)
        PROVE  DemandInv'
    <2>1. \A c \in demand \cap Callers : late[c] = 0
      BY <1>11 DEF Chunk
    <2>2. \A k \in Jobs \ {j} : run'[k].at \notin InTurn
      BY <1>11, ChunkMoves DEF Chunk
    <2>3. \A c \in Callers : late'[c] = IF c \in demand THEN late[c] + 1 ELSE late[c]
      BY <1>11 DEF Chunk, ChunkEnds
    <2>4. UNCHANGED <<call, demand>>
      BY <1>11 DEF Chunk
    <2>. QED
      BY <1>11, <2>1, <2>2, <2>3, <2>4, ChunkMoves
  <1>12. ASSUME NEW j \in Jobs, Assemble(j)
        PROVE  DemandInv'
    BY <1>12 DEF Assemble
  <1>13. ASSUME NEW j \in Jobs, Publish(j)
        PROVE  DemandInv'
    BY <1>13, PublishMoves DEF Publish, EndJob, LetGo, NoRun
  <1>14. ASSUME NEW j \in Jobs, Published(j)
        PROVE  DemandInv'
    BY <1>14, RunToMoves DEF Published
  <1>15. ASSUME NEW j \in Jobs, Succeed(j)
        PROVE  DemandInv'
    BY <1>15 DEF Succeed, EndJob, LetGo, NoRun
  <1>16. ASSUME NEW j \in Jobs, Die(j)
        PROVE  DemandInv'
    BY <1>16 DEF Die, LetGo, NoRun
  <1>17. ASSUME NEW c \in Callers, Begin(c)
        PROVE  DemandInv'
    BY <1>17 DEF Begin
  <1>18. ASSUME NEW c \in Callers, CallerTakes(c)
        PROVE  DemandInv'
    <2>1. UNCHANGED run
      BY <1>18 DEF CallerTakes
    <2>. QED
      BY <1>18, <2>1, CallerTakesMoves
  <1>19. ASSUME NEW c \in Callers, CallerLooks(c)
        PROVE  DemandInv'
    <2>1. UNCHANGED <<run, late, demand>>
      BY <1>19 DEF CallerLooks
    <2>. QED
      BY <1>19, <2>1, CallerLooksMoves
  <1>20. ASSUME NEW c \in Callers, Refused(c)
        PROVE  DemandInv'
    BY <1>20 DEF Refused, EndCall, NoCall
  <1>21. ASSUME NEW c \in Callers, Demand(c)
        PROVE  DemandInv'
    <2>1. ~call[c].again /\ late[c] = 0
      BY <1>21 DEF Demand
    <2>2. CASE EndCall(c)
      BY <1>21, <2>1, <2>2 DEF Demand, EndCall, NoCall
    <2>3. CASE call' = [call EXCEPT ![c].at = "wait", ![c].again = TRUE] /\ UNCHANGED history
      <3>1. /\ call'[c].at = "wait" /\ call'[c].again
            /\ \A d \in Callers \ {c} : call'[d] = call[d]
        BY <2>3 DEF Call
      <3>2. demand' \subseteq demand \cup {c} /\ UNCHANGED <<run, late>>
        BY <1>21, <2>3 DEF Demand, EndCall
      <3>. QED
        BY <2>1, <3>1, <3>2
    <2>. QED
      BY <1>21, <2>2, <2>3 DEF Demand
  <1>22. ASSUME NEW c \in Callers, PollAgain(c)
        PROVE  DemandInv'
    BY <1>22 DEF PollAgain, CallTo
  <1>23. ASSUME NEW c \in Callers, Release(c)
        PROVE  DemandInv'
    BY <1>23 DEF Release, EndCall, NoCall
  <1>24. CASE UNCHANGED <<run, call, demand, late>>
    BY <1>24
  <1>. QED
    BY <1>1, <1>2, <1>3, <1>4, <1>5, <1>6, <1>7, <1>8, <1>9, <1>10, <1>11,
           <1>12, <1>13, <1>14, <1>15, <1>16, <1>17, <1>18, <1>19, <1>20,
           <1>21, <1>22, <1>23, <1>24 DEF Next, RunnerStep, TailStep,
           CallerStep, Finished, vars, queue, locks, history, JobStart,
           JobCancel, GraceEnds, DropTurn, SeeEnded, LeaveQueue, ClockBack

\* Every step keeps the order of a runner that found nobody ahead of it.
LEMMA OrderStep ==
    ASSUME st \in [Jobs -> {"new", "waiting", "cancelling", "ended", "done"}],
        stamp \in [Jobs -> Nat \cup {None}], run \in [Jobs -> Run], newer \in
        [Jobs -> SUBSET Jobs], TurnInv, OrderInv, [Next]_vars
    PROVE  OrderInv'
  <1>. USE DEF OrderInv, Ahead, Entered, RunAt, Owned, queue, history
  <1>1. ASSUME NEW j \in Jobs, JobStart(j)
        PROVE  OrderInv'
    BY <1>1, NextStampAbove DEF JobStart, Enqueue
  <1>2. ASSUME NEW j \in Jobs, JobCancel(j)
        PROVE  OrderInv'
    BY <1>2 DEF JobCancel, Dequeue
  <1>3. ASSUME NEW j \in Jobs, Launch(j)
        PROVE  OrderInv'
    BY <1>3 DEF Launch
  <1>4. ASSUME NEW j \in Jobs, Look(j)
        PROVE  OrderInv'
    BY <1>4, RunToMoves DEF Look, Dequeue, Scanned, Counts
  <1>5. ASSUME NEW j \in Jobs, EnterSelf(j)
        PROVE  OrderInv'
    BY <1>5, NextStampAbove, RunToMoves DEF EnterSelf, Enqueue, NoRun
  <1>6. ASSUME NEW j \in Jobs, TryTurn(j)
        PROVE  OrderInv'
    BY <1>6, RunToMoves DEF TryTurn
  <1>7. ASSUME NEW j \in Jobs, Cancelled(j)
        PROVE  OrderInv'
    BY <1>7 DEF Cancelled, EndJob, NoRun
  <1>8. ASSUME NEW j \in Jobs, ProbeToTake(j)
        PROVE  OrderInv'
    BY <1>8, RunToMoves DEF ProbeToTake
  <1>9. ASSUME NEW j \in Jobs, ProbeEnds(j)
        PROVE  OrderInv'
    BY <1>9 DEF ProbeEnds
  <1>10. ASSUME NEW j \in Jobs, RunnerTakes(j)
        PROVE  OrderInv'
    BY <1>10, RunnerTakesMoves DEF RunnerTakes
  <1>11. ASSUME NEW j \in Jobs, Mark(j)
        PROVE  OrderInv'
    BY <1>11, RunToMoves DEF Mark
  <1>12. ASSUME NEW j \in Jobs, Gate(j)
        PROVE  OrderInv'
    BY <1>12, RunToMoves DEF Gate
  <1>13. ASSUME NEW j \in Jobs, Chunk(j)
        PROVE  OrderInv'
    BY <1>13 DEF Chunk
  <1>14. ASSUME NEW j \in Jobs, Assemble(j)
        PROVE  OrderInv'
    BY <1>14 DEF Assemble
  <1>15. ASSUME NEW j \in Jobs, Publish(j)
        PROVE  OrderInv'
    <2>1. UNCHANGED <<stamp, newer>> /\ run[j].at = "publish"
      BY <1>15 DEF Publish, EndJob
    <2>. QED
      BY <1>15, <2>1, PublishMoves
  <1>16. ASSUME NEW j \in Jobs, Published(j)
        PROVE  OrderInv'
    BY <1>16, RunToMoves DEF Published
  <1>17. ASSUME NEW j \in Jobs, Succeed(j)
        PROVE  OrderInv'
    BY <1>17 DEF Succeed, EndJob, NoRun
  <1>18. ASSUME NEW j \in Jobs, LeaveQueue(j)
        PROVE  OrderInv'
    BY <1>18 DEF LeaveQueue, Dequeue
  <1>19. ASSUME NEW j \in Jobs, Die(j)
        PROVE  OrderInv'
    <2>1. /\ run'[j].at = "none" \/ run' = run
          /\ \A k \in Jobs \ {j} : run'[k] = run[k]
      BY <1>19 DEF Die, NoRun
    <2>2. /\ \A k \in Jobs \ {j} : newer'[k] = newer[k]
          /\ run'[j].at = "none" \/ newer' = newer
          /\ UNCHANGED stamp
      BY <1>19 DEF Die, NoRun
    <2>. QED
      BY <2>1, <2>2
  <1>20. CASE UNCHANGED <<stamp, run, newer>>
    BY <1>20
  <1>. QED
    BY <1>1, <1>2, <1>3, <1>4, <1>5, <1>6, <1>7, <1>8, <1>9, <1>10, <1>11,
           <1>12, <1>13, <1>14, <1>15, <1>16, <1>17, <1>18, <1>19, <1>20 DEF
           Next, RunnerStep, TailStep, CallerStep, Finished, vars, queue,
           locks, history, GraceEnds, DropTurn, SeeEnded, ClockBack, Begin,
           CallerTakes, CallerLooks, Refused, Demand, PollAgain, Release,
           EndCall

-----------------------------------------------------------------------------
(* The invariant and what follows from it.                                 *)

\* The invariant holds in every reachable state.
LEMMA Invariance == Spec => []IInv
  <1>1. Init => IInv
    <2>. USE DEF Init
    <2>1. Init => QueueTypeOK
      BY DEF QueueTypeOK, Left, Run, RunPlaces, Call, CallPlaces, NoRun, NoCall, Slots, Entered
    <2>2. Init => HistoryOK /\ TurnInv /\ SlotInv /\ DemandInv
      BY DEF HistoryOK, Entered, TurnInv, InTurn, SlotInv, SlotOK, Share, Marked, DemandInv,
             NoRun, NoCall, Owned, RunAt, Held
    <2>3. Init => OrderInv /\ EntriesInOrder
      BY DEF OrderInv, EntriesInOrder, Entered
    <2>. QED
      BY <2>1, <2>2, <2>3 DEF IInv
  <1>2. IInv /\ [Next]_vars => IInv'
    <2>. SUFFICES ASSUME IInv, [Next]_vars PROVE IInv'
      OBVIOUS
    <2>1. QueueTypeOK'
      BY TypeStep DEF IInv
    <2>2. HistoryOK'
      BY BeforeTypes, NewerTypes, LateTypes DEF IInv, HistoryOK, QueueTypeOK
    <2>3. TurnInv'
      BY TurnStep DEF IInv, QueueTypeOK
    <2>4. SlotInv'
      BY SlotStep DEF IInv, QueueTypeOK
    <2>5. DemandInv'
      BY DemandStep DEF IInv, QueueTypeOK, HistoryOK
    <2>6. OrderInv'
      BY OrderStep DEF IInv, QueueTypeOK, HistoryOK
    <2>7. EntriesInOrder'
      BY EntriesStep DEF IInv, QueueTypeOK, HistoryOK
    <2>. QED
      BY <2>1, <2>2, <2>3, <2>4, <2>5, <2>6, <2>7 DEF IInv
  <1>. QED
    BY <1>1, <1>2, PTL DEF Spec

\* The state of the queue, its locks and its processes is well typed.
THEOREM QueueTypes == Spec => []QueueTypeOK
  <1>1. IInv => QueueTypeOK
    BY DEF IInv
  <1>. QED
    BY <1>1, Invariance, PTL

\* The names of the entries sort in the order the jobs were entered in, for
\* every clock and however many entries a second sees (next_stamp).
THEOREM EntriesSortByArrival == Spec => []EntriesInOrder
  <1>1. IInv => EntriesInOrder
    BY DEF IInv
  <1>. QED
    BY <1>1, Invariance, PTL

\* Queued work is at work only with the turn, the marker and as many slots as
\* the recognizer has threads, and has no slot and no marker when its work is
\* over (try_admit_queued, QueuedGate, attempt_once).
THEOREM QueuedWorkHasItsShare == Spec => []WorksWithItsShare
  <1>1. IInv => WorksWithItsShare
    BY DEF IInv, TurnInv, SlotInv, SlotOK, WorksWithItsShare, InTurn, Share, Marked
  <1>. QED
    BY <1>1, Invariance, PTL

\* Queued work ends at most one chunk under a recorded demand (before_chunk).
THEOREM QueuedWorkYields == Spec => []YieldsWithinAChunk
  <1>1. IInv => YieldsWithinAChunk
    BY DEF IInv, DemandInv, YieldsWithinAChunk
  <1>. QED
    BY <1>1, Invariance, PTL

\* A job takes the turn ahead of an earlier entry only if the runner of that
\* entry came after its look (before_start, try_take_queue_turn).
THEOREM TurnsInOrder == Spec => FirstInFirstOut
  <1>. DEFINE Fifo == \A j \in Entered : turn # j /\ turn' = j =>
                          \A i \in Ahead(j) : Owned(i) => i \in newer[j]
  <1>1. IInv /\ [Next]_vars => [Fifo]_vars
    <2>. SUFFICES ASSUME IInv, [Next]_vars, NEW j \in Entered, turn # j, turn' = j
                  PROVE  \A i \in Ahead(j) : Owned(i) => i \in newer[j]
      OBVIOUS
    <2>1. j \in Jobs
      BY DEF Entered
    <2>2. RunAt(j, "try")
      <3>1. ASSUME NEW k \in Jobs, TryTurn(k)
            PROVE  RunAt(j, "try")
        BY <3>1 DEF TryTurn
      <3>2. CASE turn' = turn \/ turn' = None
        BY <2>1, <3>2
      <3>. QED
        BY <3>1, <3>2 DEF Next, RunnerStep, TailStep, CallerStep, Finished, vars, locks, JobStart,
           JobCancel, GraceEnds, Launch, Look, EnterSelf, Cancelled, Succeed, EndJob, LetGo,
           ProbeToTake, ProbeEnds, RunnerTakes, Mark, Gate, Chunk, Assemble, Publish, Published, DropTurn,
           SeeEnded, LeaveQueue, Die, ClockBack, Begin, CallerTakes, CallerLooks, Refused, Demand, EndCall, PollAgain,
           Release
    <2>. QED
      BY <2>2 DEF IInv, OrderInv
  <1>. QED
    BY <1>1, Invariance, PTL DEF Spec, FirstInFirstOut
=============================================================================
