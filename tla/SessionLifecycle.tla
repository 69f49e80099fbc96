-------------------------- MODULE SessionLifecycle --------------------------
(***************************************************************************)
(* The life of one session on disk: it is registered, initialized, given   *)
(* its source and activated by the process that opens it, read, renewed    *)
(* and closed by others, and removed by `session clean` or, when its       *)
(* opening failed, by the process that opened it.                          *)
(*                                                                         *)
(* Four advisory file locks order this.  The root's initialization lock is *)
(* held for a moment by whoever registers, initializes, lists or claims a  *)
(* session.  The registration marker is locked shared by the opener while  *)
(* the opening lasts and exclusively by a remover.  The session's lifetime *)
(* lock is held shared by every use and exclusively by a renewal, a close  *)
(* or a removal.  All of them are tried, never waited for, and all are     *)
(* released when their process dies.                                       *)
(***************************************************************************)
EXTENDS Integers

CONSTANTS
    opener,      \* the process that opens the session
    Cleaners,    \* processes that call `session clean`
    timer,       \* the one of them that is called again and again
    Users,       \* processes that read, renew or close the session
    NoProc,
    IDLE,        \* SessionLifetime::IDLE_SECONDS, in ticks of the clock
    MAX,         \* SessionLifetime::MAX_SECONDS
    MaxClock,    \* bound: the last tick
    MaxCalls,    \* bound: calls of users and other cleaners, and dry runs
    MaxFaults    \* bound: processes that die or meet a storage failure

Procs == {opener} \cup Cleaners \cup Users
Removers == {opener} \cup Cleaners

\* Every lifetime ends before the clock stops, and a session whose folder is
\* made IDLE ticks before that is idle by then.
ASSUME LifecycleBounds ==
    /\ IDLE \in Nat \ {0} /\ MAX \in Nat /\ IDLE <= MAX
    /\ MaxClock \in Nat /\ MAX <= MaxClock
    /\ MaxCalls \in Nat /\ MaxFaults \in Nat

ASSUME LifecycleProcs ==
    /\ opener \notin Cleaners \cup Users /\ Cleaners \cap Users = {}
    /\ timer \in Cleaners
    /\ NoProc \notin Procs

VARIABLES
    clock,
    marker,      \* the registration marker is in its index bucket
    attempt,     \* the folder .initialize-<session>-<operation> exists
    folder,      \* the folder sessions/<session> exists
    quarantine,  \* .quarantine-<session> exists, whole or in part
    made,        \* the modification time of generation 0
    phase,       \* what the head last said: "none", "initial", "open", "closed"
    life,        \* when the session was opened and when it expires
    generation,  \* the head's generation
    init,        \* who holds the root's initialization lock
    registered,  \* the opener holds the marker's lock, shared
    claim,       \* who holds the marker's lock, exclusively
    sharers,     \* who holds the session's lifetime lock, shared
    exclusive,   \* who holds it exclusively
    pc,
    call,        \* what each process read or was asked in its present call
    calls, faults

locks == <<init, registered, claim, sharers, exclusive>>
files == <<marker, attempt, folder, quarantine, made>>
head == <<phase, life, generation>>
bounds == <<calls, faults>>
vars == <<clock, files, head, locks, pc, call, bounds>>

\* The places of the opener while its opening may still succeed.
Opening == {"register", "hold_mark", "initialize", "install", "stage", "staged"}
\* The places of a call of clean_session_scoped.
Removing == {"listed", "claim", "claim_hold", "look", "hold", "judge",
             "quarantine", "delete", "unmark"}
Using == {"status", "reading", "change", "publish"}
Place == Opening \cup Removing \cup Using \cup {"failed", "over", "idle"}

Call == [now : Nat, ask : {"read", "renew", "close"}, dry : BOOLEAN,
         cut : BOOLEAN, saw : Nat]

Fresh == [now |-> 0, ask |-> "read", dry |-> FALSE, cut |-> FALSE, saw |-> 0]

\* Types, and no lock is held both shared and exclusively.
LifecycleTypeOK ==
    /\ clock \in 0 .. MaxClock
    /\ marker \in BOOLEAN /\ attempt \in BOOLEAN
    /\ folder \in BOOLEAN /\ quarantine \in BOOLEAN
    /\ made \in 0 .. MaxClock
    /\ phase \in {"none", "initial", "open", "closed"}
    /\ life \in [opened : Nat, expires : Nat]
    /\ generation \in Nat
    /\ init \in Procs \cup {NoProc}
    /\ registered \in BOOLEAN
    /\ claim \in Removers \cup {NoProc}
    /\ sharers \subseteq Procs
    /\ exclusive \in Procs \cup {NoProc}
    /\ pc \in [Procs -> Place]
    /\ exclusive # NoProc => sharers = {}
    /\ registered => claim = NoProc
    /\ call \in [Procs -> Call]
    /\ calls \in 0 .. MaxCalls /\ faults \in 0 .. MaxFaults

Init ==
    /\ clock = 0
    /\ marker = FALSE /\ attempt = FALSE /\ folder = FALSE
    /\ quarantine = FALSE /\ made = 0
    /\ phase = "none" /\ life = [opened |-> 0, expires |-> 0] /\ generation = 0
    /\ init = NoProc /\ registered = FALSE /\ claim = NoProc
    /\ sharers = {} /\ exclusive = NoProc
    /\ pc = [p \in Procs |-> IF p = opener THEN "register" ELSE "idle"]
    /\ call = [p \in Procs |-> Fresh]
    /\ calls = 0 /\ faults = 0

-----------------------------------------------------------------------------
(* Places and locks *)

At(p, place) == pc[p] = place
Go(p, place) == pc' = [pc EXCEPT ![p] = place]

Without(holder, p) == IF holder = p THEN NoProc ELSE holder

\* The process lets go of every lock it holds: its call returned, or it died.
Release(p) ==
    /\ init' = Without(init, p)
    /\ registered' = (registered /\ p # opener)
    /\ claim' = Without(claim, p)
    /\ sharers' = sharers \ {p}
    /\ exclusive' = Without(exclusive, p)

\* The call returns and what it read is forgotten; the time the opening began
\* stays, in the marker.
Return(p) ==
    /\ Release(p)
    /\ Go(p, IF p = opener THEN "over" ELSE "idle")
    /\ call' = [call EXCEPT ![p] = IF p = opener THEN @ ELSE Fresh]

\* The call of p ends here, whatever it answers.
Ends(p) ==
    /\ Return(p)
    /\ UNCHANGED <<clock, files, head, bounds>>

\* A lock the call of a remover tried is held: `session clean` skips the
\* session, the opener tries again until its five seconds are over.
RefusedBusy(p) ==
    \/ Ends(p)
    \/ /\ p = opener
       /\ Release(p)
       /\ Go(p, "claim")
       /\ UNCHANGED <<clock, files, head, call, bounds>>

-----------------------------------------------------------------------------
(* Opening the session *)

\* Under the initialization lock the marker is staged and renamed into its
\* bucket.
Register ==
    /\ At(opener, "register")
    /\ init = NoProc
    /\ init' = opener
    /\ marker' = TRUE
    /\ Go(opener, "hold_mark")
    /\ UNCHANGED <<clock, attempt, folder, quarantine, made, head, registered,
                   claim, sharers, exclusive, call, bounds>>

\* The marker is locked before the initialization lock is released.
HoldMark ==
    /\ At(opener, "hold_mark")
    /\ claim = NoProc
    /\ registered' = TRUE
    /\ init' = Without(init, opener)
    /\ Go(opener, "initialize")
    /\ UNCHANGED <<clock, files, head, claim, sharers, exclusive, call, bounds>>

\* Under the same lock, taken again, generation 0 is written into an attempt.
Build ==
    /\ At(opener, "initialize")
    /\ init = NoProc
    /\ init' = opener
    /\ attempt' = TRUE
    /\ made' = clock
    /\ Go(opener, "install")
    /\ UNCHANGED <<clock, marker, folder, quarantine, head, registered, claim,
                   sharers, exclusive, call, bounds>>

\* The attempt is renamed into place with generation 0 in it, and the
\* initialization lock is released.
Install ==
    /\ At(opener, "install")
    /\ attempt' = FALSE
    /\ folder' = TRUE
    /\ phase' = "initial"
    /\ init' = Without(init, opener)
    /\ Go(opener, "stage")
    /\ UNCHANGED <<clock, marker, quarantine, made, life, generation, registered,
                   claim, sharers, exclusive, call, bounds>>

\* The source is copied under a shared lifetime hold.
Stage ==
    /\ At(opener, "stage")
    /\ exclusive = NoProc
    /\ folder
    /\ sharers' = sharers \cup {opener}
    /\ Go(opener, "staged")
    /\ UNCHANGED <<clock, files, head, init, registered, claim, exclusive, call,
                   bounds>>

\* Generation 1 opens the session from the moment the opening began.  Once it
\* is the head the call may still fail, on a last synchronisation.
Activate ==
    /\ At(opener, "staged")
    /\ phase = "initial"
    /\ phase' = "open"
    /\ generation' = 1
    /\ life' = [opened |-> call[opener].now, expires |-> call[opener].now + IDLE]
    /\ Release(opener)
    /\ Go(opener, "over") \/ Go(opener, "failed")
    /\ UNCHANGED <<clock, files, call, bounds>>

\* The opening fails: the root is busy, the bucket full, the source refused,
\* the copy cancelled or out of time.  Every hold is dropped.
OpenFails ==
    /\ pc[opener] \in Opening
    /\ Release(opener)
    /\ Go(opener, "failed")
    /\ UNCHANGED <<clock, files, head, call, bounds>>

\* abandon_failed_open: nothing is tried when there is no marker.
AbandonFailedOpen ==
    /\ At(opener, "failed")
    /\ Go(opener, IF marker THEN "claim" ELSE "over")
    /\ UNCHANGED <<clock, files, head, locks, call, bounds>>

OpenerStep ==
    \/ Register \/ HoldMark \/ Build \/ Install
    \/ Stage \/ Activate \/ OpenFails
    \/ AbandonFailedOpen

-----------------------------------------------------------------------------
(* Removing the session: clean_session_scoped *)

Abandons(p) == p = opener

\* A cleaner reads the clock and scans the bucket under the initialization
\* lock.  (A call that finds the lock held, or no marker, does nothing.)
List(p) ==
    /\ At(p, "idle")
    /\ init = NoProc
    /\ marker
    /\ \E dry \in BOOLEAN :
           /\ IF dry \/ p # timer
              THEN calls < MaxCalls /\ calls' = calls + 1
              ELSE UNCHANGED calls
           /\ call' = [call EXCEPT ![p].now = clock, ![p].dry = dry]
    /\ init' = p
    /\ Go(p, "listed")
    /\ UNCHANGED <<clock, files, head, registered, claim, sharers, exclusive, faults>>

\* The lock is free once the page is read; the sessions on it are then cleaned.
Listed(p) ==
    /\ At(p, "listed")
    /\ init' = Without(init, p)
    /\ Go(p, "claim")
    /\ UNCHANGED <<clock, files, head, registered, claim, sharers, exclusive, call,
                   bounds>>

\* Under the initialization lock the marker is opened and read, or there is
\* none to claim.
Claim(p) ==
    /\ At(p, "claim")
    /\ \/ init # NoProc /\ RefusedBusy(p)
       \/ /\ init = NoProc
          /\ init' = IF marker THEN p ELSE NoProc
          /\ Go(p, IF marker THEN "claim_hold" ELSE "look")
          /\ UNCHANGED <<clock, files, head, registered, claim, sharers,
                         exclusive, call, bounds>>

\* Faulty variant: the marker is locked though its opener holds it.
ClaimHoldAnyway(p) ==
    /\ At(p, "claim_hold")
    /\ \/ claim # NoProc /\ RefusedBusy(p)
       \/ /\ claim = NoProc
          /\ claim' = p
          /\ init' = Without(init, p)
          /\ Go(p, "look")
          /\ UNCHANGED <<clock, files, head, registered, sharers, exclusive,
                         call, bounds>>

\* The file that was opened is locked; on Unix another remover may have
\* unlinked it by now.
ClaimHold(p) ==
    /\ At(p, "claim_hold")
    /\ \/ /\ registered \/ claim # NoProc
          /\ RefusedBusy(p)
       \/ /\ ~registered /\ claim = NoProc
          /\ claim' = p
          /\ init' = Without(init, p)
          /\ Go(p, "look")
          /\ UNCHANGED <<clock, files, head, registered, sharers, exclusive,
                         call, bounds>>

\* SessionLifetime::IDLE_SECONDS after the registration, on the clock the call
\* read; saturating_sub makes an earlier reading not idle.
RegistrationIdle(p) == call[p].now - call[opener].now >= IDLE

\* What the call finds: another operation's registration, nothing at all, a
\* registration alone, a session, or a removal that was cut short.
Look(p) ==
    /\ At(p, "look")
    /\ \/ /\ Abandons(p) /\ claim # p
          /\ Ends(p)
       \/ /\ Abandons(p) => claim = p
          /\ ~quarantine /\ ~folder
          /\ \/ /\ \/ claim # p
                   \/ ~Abandons(p) /\ ~RegistrationIdle(p)
                   \/ call[p].dry
                /\ Ends(p)
             \/ /\ claim = p
                /\ Abandons(p) \/ RegistrationIdle(p)
                /\ ~call[p].dry
                /\ Go(p, "unmark")
                /\ UNCHANGED <<clock, files, head, locks, call, bounds>>
       \/ /\ Abandons(p) => claim = p
          /\ quarantine \/ folder
          /\ call' = [call EXCEPT ![p].cut = quarantine]
          /\ Go(p, "hold")
          /\ UNCHANGED <<clock, files, head, locks, bounds>>

\* Faulty variant: the lifetime lock is taken though the session is in use.
HoldThoughUsed(p) ==
    /\ At(p, "hold")
    /\ \/ exclusive # NoProc /\ RefusedBusy(p)
       \/ /\ exclusive = NoProc
          /\ exclusive' = p
          /\ Go(p, "judge")
          /\ UNCHANGED <<clock, files, head, init, registered, claim, sharers,
                         call, bounds>>

\* A use or another removal keeps the session busy.
Hold(p) ==
    /\ At(p, "hold")
    /\ \/ /\ sharers # {} \/ exclusive # NoProc
          /\ RefusedBusy(p)
       \/ /\ sharers = {} /\ exclusive = NoProc
          /\ exclusive' = p
          /\ Go(p, "judge")
          /\ UNCHANGED <<clock, files, head, init, registered, claim, sharers,
                         call, bounds>>

Expired(t) == t >= life.expires

\* Faulty variant: the failed open removes what it published, too.
EligibleAbandoned(p) ==
    \/ Abandons(p)
    \/ phase = "initial" /\ call[p].now - made >= IDLE
    \/ phase = "open" /\ Expired(call[p].now)
    \/ phase = "closed"

\* Faulty variant: a session that was never published is left to its opener.
EligiblePublished(p) ==
    \/ phase = "initial" /\ Abandons(p)
    \/ phase = "open" /\ ~Abandons(p) /\ Expired(call[p].now)
    \/ phase = "closed" /\ ~Abandons(p)

\* session_is_eligible.
Eligible(p) ==
    \/ /\ phase = "initial"
       /\ Abandons(p) \/ call[p].now - made >= IDLE
    \/ /\ phase \in {"open", "closed"}
       /\ ~Abandons(p)
       /\ phase = "closed" \/ Expired(call[p].now)

\* A removal that was cut short is finished without reading the manifest.
MayRemove(p) == call[p].cut \/ (folder /\ Eligible(p))

Judge(p) ==
    /\ At(p, "judge")
    /\ \/ /\ ~MayRemove(p) \/ call[p].dry
          /\ Ends(p)
       \/ /\ MayRemove(p) /\ ~call[p].dry
          /\ Go(p, IF call[p].cut THEN "delete" ELSE "quarantine")
          /\ UNCHANGED <<clock, files, head, locks, call, bounds>>

\* Faulty variant: the marker goes first.
QuarantineUnmarked(p) ==
    /\ At(p, "quarantine")
    /\ \/ quarantine /\ Ends(p)
       \/ /\ ~quarantine
          /\ folder' = FALSE
          /\ quarantine' = TRUE
          /\ marker' = FALSE
          /\ Go(p, "delete")
          /\ UNCHANGED <<clock, attempt, made, head, locks, call, bounds>>

\* The folder is renamed under its quarantine name.
Quarantine(p) ==
    /\ At(p, "quarantine")
    /\ \/ quarantine /\ Ends(p)
       \/ /\ ~quarantine
          /\ folder' = FALSE
          /\ quarantine' = TRUE
          /\ Go(p, "delete")
          /\ UNCHANGED <<clock, marker, attempt, made, head, locks, call, bounds>>

\* remove_dir_all takes the entries one after the other; until the last one is
\* gone the quarantine is there.
Delete(p) ==
    /\ At(p, "delete")
    /\ quarantine' = FALSE
    /\ IF claim = p
       THEN Go(p, "unmark") /\ UNCHANGED <<locks, call>>
       ELSE Return(p)
    /\ UNCHANGED <<clock, marker, attempt, folder, made, head, bounds>>

\* The marker goes last.  When another remover has unlinked it the call fails.
Unmark(p) ==
    /\ At(p, "unmark")
    /\ marker' = FALSE
    /\ Return(p)
    /\ UNCHANGED <<clock, attempt, folder, quarantine, made, head, bounds>>

RemoverStep(p) ==
    \/ p \in Cleaners /\ List(p)
    \/ Listed(p)
    \/ Claim(p) \/ ClaimHold(p)
    \/ Look(p) \/ Hold(p) \/ Judge(p)
    \/ Quarantine(p) \/ Delete(p) \/ Unmark(p)

-----------------------------------------------------------------------------
(* Using the session *)

Asks(u) ==
    /\ At(u, "idle")
    /\ calls < MaxCalls
    /\ generation > 0
    /\ \E ask \in {"read", "renew", "close"} :
           call' = [call EXCEPT ![u].now = clock, ![u].ask = ask]
    /\ calls' = calls + 1
    /\ Go(u, "status")
    /\ UNCHANGED <<clock, files, head, locks, faults>>

\* Faulty variant: the session is read though it is being changed or removed.
StatusAnyway(u) ==
    /\ At(u, "status")
    /\ \/ ~folder /\ Ends(u)
       \/ /\ folder
          /\ sharers' = sharers \cup {u}
          /\ call' = [call EXCEPT ![u].saw = generation]
          /\ Go(u, "reading")
          /\ UNCHANGED <<clock, files, head, init, registered, claim, exclusive,
                         bounds>>

\* acquire_read: a shared hold, then the folder and its head, which nobody
\* changes under the hold.
Status(u) ==
    /\ At(u, "status")
    /\ \/ (exclusive # NoProc \/ ~folder) /\ Ends(u)
       \/ /\ exclusive = NoProc /\ folder
          /\ sharers' = sharers \cup {u}
          /\ call' = [call EXCEPT ![u].saw = generation]
          /\ Go(u, "reading")
          /\ UNCHANGED <<clock, files, head, init, registered, claim, exclusive,
                         bounds>>

\* The hold is dropped; a renewal or a close goes on with what it read.
LeaveRead(u) ==
    /\ At(u, "reading")
    /\ \/ call[u].ask = "read" /\ Return(u)
       \/ /\ call[u].ask # "read"
          /\ Release(u)
          /\ Go(u, "change")
          /\ UNCHANGED call
    /\ UNCHANGED <<clock, files, head, bounds>>

Change(u) ==
    /\ At(u, "change")
    /\ \/ (sharers # {} \/ exclusive # NoProc) /\ Ends(u)
       \/ /\ sharers = {} /\ exclusive = NoProc
          /\ exclusive' = u
          /\ Go(u, "publish")
          /\ UNCHANGED <<clock, files, head, init, registered, claim, sharers,
                         call, bounds>>

\* SessionLifetime::renew.
Renewed(t) ==
    LET hard == life.opened + MAX
        proposed == IF t + IDLE < hard THEN t + IDLE ELSE hard
    IN  IF proposed > life.expires THEN proposed ELSE life.expires

\* The generation the caller read is still the head, and the head is open; a
\* renewal asks that it has not expired, a close does not.
MayPublish(u) ==
    /\ folder
    /\ generation = call[u].saw
    /\ phase = "open"
    /\ call[u].ask = "renew" => ~Expired(call[u].now)

Publish(u) ==
    /\ At(u, "publish")
    /\ \/ ~MayPublish(u) /\ Ends(u)
       \/ /\ MayPublish(u)
          /\ generation' = generation + 1
          /\ IF call[u].ask = "close"
             THEN phase' = "closed" /\ UNCHANGED life
             ELSE /\ life' = [life EXCEPT !.expires = Renewed(call[u].now)]
                  /\ UNCHANGED phase
          /\ Return(u)
          /\ UNCHANGED <<clock, files, bounds>>

UserStep(u) ==
    Asks(u) \/ Status(u) \/ LeaveRead(u) \/ Change(u) \/ Publish(u)

-----------------------------------------------------------------------------
(* Faults and the clock *)

\* The opener or a cleaner dies, or a removal meets a storage failure and gives
\* up: what it did so far stays, and its locks are free.  (A user that dies
\* leaves what one that is refused leaves.)
Stop(p) ==
    /\ pc[p] \notin {"idle", "over"}
    /\ faults < MaxFaults
    /\ faults' = faults + 1
    /\ Return(p)
    /\ UNCHANGED <<clock, files, head, calls>>

\* The bound MaxClock leaves time for a folder to become idle: one that is not
\* made yet is made IDLE ticks before the clock stops.
Tick ==
    /\ clock < MaxClock
    /\ pc[opener] \in Opening /\ ~folder => clock + IDLE < MaxClock
    /\ clock' = clock + 1
    /\ UNCHANGED <<files, head, locks, pc, call, bounds>>

-----------------------------------------------------------------------------

\* What a removal removes is gone.
Gone == ~marker /\ ~folder /\ ~quarantine

\* Once the session is gone and nobody is about, nothing happens any more.
Finished ==
    /\ Gone
    /\ \A p \in Procs : pc[p] \in {"idle", "over"}
    /\ clock = MaxClock
    /\ UNCHANGED vars

Next ==
    \/ OpenerStep
    \/ \E p \in Removers : RemoverStep(p)
    \/ \E u \in Users : UserStep(u)
    \/ \E p \in Removers : Stop(p)
    \/ Tick
    \/ Finished

\* Every process that runs goes on, time passes, and one `session clean` is
\* called again and again (the timer of a worker host).  Nobody has to call for
\* anything else, and nobody else calls for ever: two cleaners that never stop
\* could find each other's locks held every time, and skip the session.
Fairness ==
    /\ WF_vars(OpenerStep)
    /\ \A p \in Removers : WF_vars((p = timer \/ ~At(p, "idle")) /\ RemoverStep(p))
    /\ \A u \in Users : WF_vars(~At(u, "idle") /\ UserStep(u))
    /\ WF_vars(Tick)

Spec == Init /\ [][Next]_vars /\ Fairness

-----------------------------------------------------------------------------
(* Properties *)

\* A session's folder, also under its quarantine name, can always be found: its
\* marker is made before it and removed after it, wherever the opening or the
\* removal was cut short.  `session clean` finds sessions by their markers only.
MarkerOutlivesSession == folder \/ quarantine => marker

\* A session somebody reads, or copies a source into, under a shared lifetime
\* hold is neither renamed away nor removed ("a held lifetime lock always wins
\* over timestamps").
UseIsKept ==
    \A p \in Procs :
        pc[p] \in {"reading", "staged"} => folder /\ ~quarantine

\* While an opening may still succeed, however long it takes, its registration
\* and what it has made so far stay.
OpeningIsKept ==
    pc[opener] \in {"initialize", "install", "stage", "staged"} =>
        /\ marker
        /\ ~quarantine
        /\ pc[opener] \in {"stage", "staged"} => folder

\* A session that was published goes only once it is closed, or past the
\* expiry of its last renewal: also when the activation reported a failure
\* after it had landed, and when it is renewed while a removal is looking.
KeptUntilOver ==
    generation > 0 /\ ~folder => phase = "closed" \/ Expired(clock)

\* The marker of every registered session goes in the end, with its folder and
\* its quarantine, though a removal or the opening may be cut short anywhere and
\* other calls hold the locks the periodic one tries.  (The folder of an attempt
\* an opening did not finish is not among them: nothing removes it.)
EverySessionEnds == marker ~> Gone
=============================================================================
