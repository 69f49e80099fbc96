----------------------- MODULE SessionLifecycleProofs -----------------------
(***************************************************************************)
(* Proofs about SessionLifecycle, for every number of cleaners and users,  *)
(* every lifetime and every number of calls, faults and ticks.             *)
(***************************************************************************)
EXTENDS SessionLifecycle, TLAPS

\* The places of a removal that has claimed the registration.
Claimed == {"hold", "judge", "quarantine", "delete", "unmark"}

\* Which places hold which lock.  A removal that claimed nothing met no marker,
\* and none comes back: a removal begins only after the registration.
LockInv ==
    /\ \A p \in Procs :
           /\ pc[p] \in {"listed", "claim_hold"} => init = p
           /\ p \in sharers <=> pc[p] \in {"reading", "staged"}
           /\ pc[p] \in {"judge", "quarantine", "delete", "publish"} => exclusive = p
           /\ claim = p => pc[p] \in Claimed \cup {"look"}
           /\ pc[p] \in Claimed => claim = p
           /\ pc[p] = "look" => claim = p \/ ~marker
           /\ pc[p] \in Removing => pc[opener] # "register"
    /\ pc[opener] \in {"hold_mark", "install"} => init = opener
    /\ registered <=> pc[opener] \in {"initialize", "install", "stage", "staged"}
    /\ pc[opener] \in {"register", "hold_mark"} => claim = NoProc
    /\ pc[opener] = "register" => ~marker

\* What is on disk at each place.
FileInv ==
    /\ folder \/ quarantine => marker
    /\ ~(folder /\ quarantine)
    /\ pc[opener] \in {"register", "hold_mark", "initialize", "install"} =>
           ~folder /\ ~quarantine
    /\ pc[opener] \in {"hold_mark", "initialize", "install", "stage", "staged"} =>
           marker
    /\ pc[opener] = "stage" => folder
    /\ \A p \in Procs :
           /\ pc[p] \in {"reading", "staged", "quarantine"} => folder
           /\ pc[p] \in {"hold", "judge"} /\ call[p].cut => quarantine
           /\ pc[p] = "delete" => quarantine
           /\ pc[p] = "unmark" => ~folder /\ ~quarantine

\* What the head says at each place.
HeadInv ==
    /\ generation > 0 <=> phase \in {"open", "closed"}
    /\ pc[opener] \in Opening => generation = 0
    /\ \A p \in Procs : call[p].now <= clock
    /\ \A p \in Procs :
           pc[p] = "quarantine" /\ generation > 0 =>
               phase = "closed" \/ Expired(call[p].now)
    /\ generation > 0 /\ ~folder => phase = "closed" \/ Expired(clock)

IInv == LifecycleTypeOK /\ LockInv /\ FileInv /\ HeadInv

USE LifecycleBounds, LifecycleProcs

-----------------------------------------------------------------------------
(* Every step keeps the invariant: types, then locks, files and head.      *)

\* What a returning call leaves behind is a place and a call.
LEMMA ReturnTypes ==
    ASSUME LifecycleTypeOK, NEW p \in Procs, Return(p)
    PROVE  pc' \in [Procs -> Place] /\ call' \in [Procs -> Call]
  <1>1. \E place \in Place : pc' = [pc EXCEPT ![p] = place]
    BY DEF Return, Go, Place
  <1>2. \E c \in Call : call' = [call EXCEPT ![p] = c]
    <2>1. Fresh \in Call
      BY DEF Fresh, Call
    <2>2. call[p] \in Call
      BY DEF LifecycleTypeOK
    <2>. QED
      BY <2>1, <2>2 DEF Return
  <1>. QED
    BY <1>1, <1>2 DEF LifecycleTypeOK

\* A call that ends keeps the invariant.
LEMMA EndsInv ==
    ASSUME IInv, NEW p \in Procs, Ends(p)
    PROVE  IInv'
  <1>. USE DEF IInv, Ends, Release, Without, Return, At, Go, locks, files,
               head, bounds
  <1>1. LifecycleTypeOK'
    BY DEF Procs, Removers, LifecycleTypeOK, Call, Opening, Removing, Using,
           Place, Expired, Fresh
  <1>2. LockInv'
    BY DEF Procs, Removers, LifecycleTypeOK, Call, Opening, Removing, Using,
           Place, LockInv, Claimed
  <1>3. FileInv'
    BY DEF Procs, Removers, LifecycleTypeOK, Call, Opening, Removing, Using,
           Place, LockInv, Claimed, FileInv
  <1>4. HeadInv'
    BY DEF Procs, Removers, LifecycleTypeOK, Call, Opening, Removing, Using,
           Place, LockInv, Claimed, FileInv, HeadInv, Expired, Fresh
  <1>. QED
    BY <1>1, <1>2, <1>3, <1>4

\* The registration keeps the invariant.
LEMMA RegisterInv ==
    ASSUME IInv, Register
    PROVE  IInv'
  <1>. USE DEF IInv, Register, At, Go, locks, files, head, bounds
  <1>1. LifecycleTypeOK'
    BY DEF Procs, Removers, LifecycleTypeOK, Call, Opening, Removing, Using,
           Place, Expired, Fresh
  <1>2. LockInv'
    BY DEF Procs, Removers, LifecycleTypeOK, Call, Opening, Removing, Using,
           Place, LockInv, Claimed
  <1>3. FileInv'
    BY DEF Procs, Removers, LifecycleTypeOK, Call, Opening, Removing, Using,
           Place, LockInv, Claimed, FileInv
  <1>4. HeadInv'
    BY DEF Procs, Removers, LifecycleTypeOK, Call, Opening, Removing, Using,
           Place, LockInv, Claimed, FileInv, HeadInv, Expired, Fresh
  <1>. QED
    BY <1>1, <1>2, <1>3, <1>4

\* The opener's hold on its marker keeps the invariant.
LEMMA HoldMarkInv ==
    ASSUME IInv, HoldMark
    PROVE  IInv'
  <1>. USE DEF IInv, HoldMark, Without, At, Go, locks, files, head, bounds
  <1>1. LifecycleTypeOK'
    BY DEF Procs, Removers, LifecycleTypeOK, Call, Opening, Removing, Using,
           Place, Expired, Fresh
  <1>2. LockInv'
    BY DEF Procs, Removers, LifecycleTypeOK, Call, Opening, Removing, Using,
           Place, LockInv, Claimed
  <1>3. FileInv'
    BY DEF Procs, Removers, LifecycleTypeOK, Call, Opening, Removing, Using,
           Place, LockInv, Claimed, FileInv
  <1>4. HeadInv'
    BY DEF Procs, Removers, LifecycleTypeOK, Call, Opening, Removing, Using,
           Place, LockInv, Claimed, FileInv, HeadInv, Expired, Fresh
  <1>. QED
    BY <1>1, <1>2, <1>3, <1>4

\* The attempt keeps the invariant.
LEMMA BuildInv ==
    ASSUME IInv, Build
    PROVE  IInv'
  <1>. USE DEF IInv, Build, At, Go, locks, files, head, bounds
  <1>1. LifecycleTypeOK'
    BY DEF Procs, Removers, LifecycleTypeOK, Call, Opening, Removing, Using,
           Place, Expired, Fresh
  <1>2. LockInv'
    BY DEF Procs, Removers, LifecycleTypeOK, Call, Opening, Removing, Using,
           Place, LockInv, Claimed
  <1>3. FileInv'
    BY DEF Procs, Removers, LifecycleTypeOK, Call, Opening, Removing, Using,
           Place, LockInv, Claimed, FileInv
  <1>4. HeadInv'
    BY DEF Procs, Removers, LifecycleTypeOK, Call, Opening, Removing, Using,
           Place, LockInv, Claimed, FileInv, HeadInv, Expired, Fresh
  <1>. QED
    BY <1>1, <1>2, <1>3, <1>4

\* The initialization keeps the invariant.
LEMMA InstallInv ==
    ASSUME IInv, Install
    PROVE  IInv'
  <1>. USE DEF IInv, Install, Without, At, Go, locks, files, head, bounds
  <1>1. LifecycleTypeOK'
    BY DEF Procs, Removers, LifecycleTypeOK, Call, Opening, Removing, Using,
           Place, Expired, Fresh
  <1>2. LockInv'
    BY DEF Procs, Removers, LifecycleTypeOK, Call, Opening, Removing, Using,
           Place, LockInv, Claimed
  <1>3. FileInv'
    BY DEF Procs, Removers, LifecycleTypeOK, Call, Opening, Removing, Using,
           Place, LockInv, Claimed, FileInv
  <1>4. HeadInv'
    BY DEF Procs, Removers, LifecycleTypeOK, Call, Opening, Removing, Using,
           Place, LockInv, Claimed, FileInv, HeadInv, Expired, Fresh
  <1>. QED
    BY <1>1, <1>2, <1>3, <1>4

\* The staging keeps the invariant.
LEMMA StageInv ==
    ASSUME IInv, Stage
    PROVE  IInv'
  <1>. USE DEF IInv, Stage, At, Go, locks, files, head, bounds
  <1>1. LifecycleTypeOK'
    BY DEF Procs, Removers, LifecycleTypeOK, Call, Opening, Removing, Using,
           Place, Expired, Fresh
  <1>2. LockInv'
    BY DEF Procs, Removers, LifecycleTypeOK, Call, Opening, Removing, Using,
           Place, LockInv, Claimed
  <1>3. FileInv'
    BY DEF Procs, Removers, LifecycleTypeOK, Call, Opening, Removing, Using,
           Place, LockInv, Claimed, FileInv
  <1>4. HeadInv'
    BY DEF Procs, Removers, LifecycleTypeOK, Call, Opening, Removing, Using,
           Place, LockInv, Claimed, FileInv, HeadInv, Expired, Fresh
  <1>. QED
    BY <1>1, <1>2, <1>3, <1>4

\* The activation keeps the invariant.
LEMMA ActivateInv ==
    ASSUME IInv, Activate
    PROVE  IInv'
  <1>1. CASE Go(opener, "over")
    <2>. USE DEF IInv, Activate, Release, Without, At, Go, locks, files, head,
                 bounds
    <2>1. LifecycleTypeOK'
      BY <1>1 DEF Procs, Removers, LifecycleTypeOK, Call, Opening, Removing,
                  Using, Place, Expired, Fresh
    <2>2. LockInv'
      BY <1>1 DEF Procs, Removers, LifecycleTypeOK, Call, Opening, Removing,
                  Using, Place, LockInv, Claimed
    <2>3. FileInv'
      BY <1>1 DEF Procs, Removers, LifecycleTypeOK, Call, Opening, Removing,
                  Using, Place, LockInv, Claimed, FileInv
    <2>4. HeadInv'
      BY <1>1 DEF Procs, Removers, LifecycleTypeOK, Call, Opening, Removing,
                  Using, Place, LockInv, Claimed, FileInv, HeadInv, Expired,
                  Fresh
    <2>. QED
      BY <2>1, <2>2, <2>3, <2>4
  <1>2. CASE Go(opener, "failed")
    <2>. USE DEF IInv, Activate, Release, Without, At, Go, locks, files, head,
                 bounds
    <2>1. LifecycleTypeOK'
      BY <1>2 DEF Procs, Removers, LifecycleTypeOK, Call, Opening, Removing,
                  Using, Place, Expired, Fresh
    <2>2. LockInv'
      BY <1>2 DEF Procs, Removers, LifecycleTypeOK, Call, Opening, Removing,
                  Using, Place, LockInv, Claimed
    <2>3. FileInv'
      BY <1>2 DEF Procs, Removers, LifecycleTypeOK, Call, Opening, Removing,
                  Using, Place, LockInv, Claimed, FileInv
    <2>4. HeadInv'
      BY <1>2 DEF Procs, Removers, LifecycleTypeOK, Call, Opening, Removing,
                  Using, Place, LockInv, Claimed, FileInv, HeadInv, Expired,
                  Fresh
    <2>. QED
      BY <2>1, <2>2, <2>3, <2>4
  <1>. QED
    BY <1>1, <1>2 DEF Activate

\* A failed opening keeps the invariant.
LEMMA OpenFailsInv ==
    ASSUME IInv, OpenFails
    PROVE  IInv'
  <1>. USE DEF IInv, OpenFails, Release, Without, At, Go, locks, files, head,
               bounds
  <1>1. LifecycleTypeOK'
    BY DEF Procs, Removers, LifecycleTypeOK, Call, Opening, Removing, Using,
           Place, Expired, Fresh
  <1>2. LockInv'
    BY DEF Procs, Removers, LifecycleTypeOK, Call, Opening, Removing, Using,
           Place, LockInv, Claimed
  <1>3. FileInv'
    BY DEF Procs, Removers, LifecycleTypeOK, Call, Opening, Removing, Using,
           Place, LockInv, Claimed, FileInv
  <1>4. HeadInv'
    BY DEF Procs, Removers, LifecycleTypeOK, Call, Opening, Removing, Using,
           Place, LockInv, Claimed, FileInv, HeadInv, Expired, Fresh
  <1>. QED
    BY <1>1, <1>2, <1>3, <1>4

\* The look for a registration to abandon keeps the invariant.
LEMMA AbandonInv ==
    ASSUME IInv, AbandonFailedOpen
    PROVE  IInv'
  <1>. USE DEF IInv, AbandonFailedOpen, At, Go, locks, files, head, bounds
  <1>1. LifecycleTypeOK'
    BY DEF Procs, Removers, LifecycleTypeOK, Call, Opening, Removing, Using,
           Place, Expired, Fresh
  <1>2. LockInv'
    BY DEF Procs, Removers, LifecycleTypeOK, Call, Opening, Removing, Using,
           Place, LockInv, Claimed
  <1>3. FileInv'
    BY DEF Procs, Removers, LifecycleTypeOK, Call, Opening, Removing, Using,
           Place, LockInv, Claimed, FileInv
  <1>4. HeadInv'
    BY DEF Procs, Removers, LifecycleTypeOK, Call, Opening, Removing, Using,
           Place, LockInv, Claimed, FileInv, HeadInv, Expired, Fresh
  <1>. QED
    BY <1>1, <1>2, <1>3, <1>4

\* A remover that meets a held lock keeps the invariant.
LEMMA RefusedBusyInv ==
    ASSUME IInv, NEW p \in Removers, RefusedBusy(p)
    PROVE  IInv'
  <1>1. CASE Ends(p)
    BY <1>1, EndsInv DEF Procs, Removers
  <1>2. CASE ~Ends(p)
    <2>0. /\ p = opener /\ Release(p) /\ Go(p, "claim")
          /\ UNCHANGED <<clock, files, head, call, bounds>>
      BY <1>2 DEF RefusedBusy
    <2>. USE DEF IInv, Release, Without, At, Go, locks, files, head, bounds
    <2>1. LifecycleTypeOK'
      BY <2>0 DEF Procs, Removers, LifecycleTypeOK, Call, Opening, Removing,
                  Using, Place, Expired, Fresh
    <2>2. LockInv'
      BY <2>0 DEF Procs, Removers, LifecycleTypeOK, Call, Opening, Removing,
                  Using, Place, LockInv, Claimed
    <2>3. FileInv'
      BY <2>0 DEF Procs, Removers, LifecycleTypeOK, Call, Opening, Removing,
                  Using, Place, LockInv, Claimed, FileInv
    <2>4. HeadInv'
      BY <2>0 DEF Procs, Removers, LifecycleTypeOK, Call, Opening, Removing,
                  Using, Place, LockInv, Claimed, FileInv, HeadInv, Expired,
                  Fresh
    <2>. QED
      BY <2>1, <2>2, <2>3, <2>4
  <1>. QED
    BY <1>1, <1>2

\* The listing keeps the invariant.
LEMMA ListInv ==
    ASSUME IInv, NEW p \in Cleaners, List(p)
    PROVE  IInv'
  <1>. PICK x \in BOOLEAN :
           call' = [call EXCEPT ![p].now = clock, ![p].dry = x]
    BY DEF List
  <1>b. p \in Procs /\ call[p] \in Call /\ clock \in Nat
    BY DEF IInv, LifecycleTypeOK, Procs
  <1>c. call' \in [Procs -> Call]
    <2>1. [call[p] EXCEPT !.now = clock, !.dry = x] \in Call
      BY <1>b DEF Call
    <2>. QED
      BY <2>1, <1>b DEF IInv, LifecycleTypeOK
  <1>. USE DEF IInv, List, At, Go, locks, files, head, bounds
  <1>1. LifecycleTypeOK'
    BY <1>c DEF Procs, Removers, LifecycleTypeOK, Call, Opening, Removing,
                Using, Place, Expired, Fresh
  <1>2. LockInv'
    BY DEF Procs, Removers, LifecycleTypeOK, Call, Opening, Removing, Using,
           Place, LockInv, Claimed
  <1>3. FileInv'
    BY DEF Procs, Removers, LifecycleTypeOK, Call, Opening, Removing, Using,
           Place, LockInv, Claimed, FileInv
  <1>4. HeadInv'
    BY DEF Procs, Removers, LifecycleTypeOK, Call, Opening, Removing, Using,
           Place, LockInv, Claimed, FileInv, HeadInv, Expired, Fresh
  <1>. QED
    BY <1>1, <1>2, <1>3, <1>4

\* The end of the listing keeps the invariant.
LEMMA ListedInv ==
    ASSUME IInv, NEW p \in Removers, Listed(p)
    PROVE  IInv'
  <1>. USE DEF IInv, Listed, Without, At, Go, locks, files, head, bounds
  <1>1. LifecycleTypeOK'
    BY DEF Procs, Removers, LifecycleTypeOK, Call, Opening, Removing, Using,
           Place, Expired, Fresh
  <1>2. LockInv'
    BY DEF Procs, Removers, LifecycleTypeOK, Call, Opening, Removing, Using,
           Place, LockInv, Claimed
  <1>3. FileInv'
    BY DEF Procs, Removers, LifecycleTypeOK, Call, Opening, Removing, Using,
           Place, LockInv, Claimed, FileInv
  <1>4. HeadInv'
    BY DEF Procs, Removers, LifecycleTypeOK, Call, Opening, Removing, Using,
           Place, LockInv, Claimed, FileInv, HeadInv, Expired, Fresh
  <1>. QED
    BY <1>1, <1>2, <1>3, <1>4

\* Opening the marker keeps the invariant.
LEMMA ClaimInv ==
    ASSUME IInv, NEW p \in Removers, Claim(p)
    PROVE  IInv'
  <1>1. CASE RefusedBusy(p)
    BY <1>1, RefusedBusyInv DEF Procs, Removers
  <1>2. CASE ~RefusedBusy(p)
    <2>. USE DEF IInv, Claim, At, Go, locks, files, head, bounds
    <2>1. LifecycleTypeOK'
      BY <1>2 DEF Procs, Removers, LifecycleTypeOK, Call, Opening, Removing,
                  Using, Place, Expired, Fresh
    <2>2. LockInv'
      BY <1>2 DEF Procs, Removers, LifecycleTypeOK, Call, Opening, Removing,
                  Using, Place, LockInv, Claimed
    <2>3. FileInv'
      BY <1>2 DEF Procs, Removers, LifecycleTypeOK, Call, Opening, Removing,
                  Using, Place, LockInv, Claimed, FileInv
    <2>4. HeadInv'
      BY <1>2 DEF Procs, Removers, LifecycleTypeOK, Call, Opening, Removing,
                  Using, Place, LockInv, Claimed, FileInv, HeadInv, Expired,
                  Fresh
    <2>. QED
      BY <2>1, <2>2, <2>3, <2>4
  <1>. QED
    BY <1>1, <1>2

\* Locking the marker keeps the invariant.
LEMMA ClaimHoldInv ==
    ASSUME IInv, NEW p \in Removers, ClaimHold(p)
    PROVE  IInv'
  <1>1. CASE RefusedBusy(p)
    BY <1>1, RefusedBusyInv DEF Procs, Removers
  <1>2. CASE ~RefusedBusy(p)
    <2>. USE DEF IInv, ClaimHold, Without, At, Go, locks, files, head, bounds
    <2>1. LifecycleTypeOK'
      BY <1>2 DEF Procs, Removers, LifecycleTypeOK, Call, Opening, Removing,
                  Using, Place, Expired, Fresh
    <2>2. LockInv'
      BY <1>2 DEF Procs, Removers, LifecycleTypeOK, Call, Opening, Removing,
                  Using, Place, LockInv, Claimed
    <2>3. FileInv'
      BY <1>2 DEF Procs, Removers, LifecycleTypeOK, Call, Opening, Removing,
                  Using, Place, LockInv, Claimed, FileInv
    <2>4. HeadInv'
      BY <1>2 DEF Procs, Removers, LifecycleTypeOK, Call, Opening, Removing,
                  Using, Place, LockInv, Claimed, FileInv, HeadInv, Expired,
                  Fresh
    <2>. QED
      BY <2>1, <2>2, <2>3, <2>4
  <1>. QED
    BY <1>1, <1>2

\* The look at what there is to remove keeps the invariant.
LEMMA LookInv ==
    ASSUME IInv, NEW p \in Removers, Look(p)
    PROVE  IInv'
  <1>1. CASE Ends(p)
    BY <1>1, EndsInv DEF Procs, Removers
  <1>2. CASE ~Ends(p) /\ (quarantine \/ folder)
    <2>. USE DEF IInv, Look, Abandons, RegistrationIdle, At, Go, locks, files,
                 head, bounds
    <2>1. LifecycleTypeOK'
      BY <1>2 DEF Procs, Removers, LifecycleTypeOK, Call, Opening, Removing,
                  Using, Place, Expired, Fresh
    <2>2. LockInv'
      BY <1>2 DEF Procs, Removers, LifecycleTypeOK, Call, Opening, Removing,
                  Using, Place, LockInv, Claimed, FileInv
    <2>3. FileInv'
      BY <1>2 DEF Procs, Removers, LifecycleTypeOK, Call, Opening, Removing,
                  Using, Place, LockInv, Claimed, FileInv
    <2>4. HeadInv'
      BY <1>2 DEF Procs, Removers, LifecycleTypeOK, Call, Opening, Removing,
                  Using, Place, LockInv, Claimed, FileInv, HeadInv, Expired,
                  Fresh
    <2>. QED
      BY <2>1, <2>2, <2>3, <2>4
  <1>3. CASE ~Ends(p) /\ ~quarantine /\ ~folder
    <2>. USE DEF IInv, Look, Abandons, RegistrationIdle, At, Go, locks, files,
                 head, bounds
    <2>1. LifecycleTypeOK'
      BY <1>3 DEF Procs, Removers, LifecycleTypeOK, Call, Opening, Removing,
                  Using, Place, Expired, Fresh
    <2>2. LockInv'
      BY <1>3 DEF Procs, Removers, LifecycleTypeOK, Call, Opening, Removing,
                  Using, Place, LockInv, Claimed, FileInv
    <2>3. FileInv'
      BY <1>3 DEF Procs, Removers, LifecycleTypeOK, Call, Opening, Removing,
                  Using, Place, LockInv, Claimed, FileInv
    <2>4. HeadInv'
      BY <1>3 DEF Procs, Removers, LifecycleTypeOK, Call, Opening, Removing,
                  Using, Place, LockInv, Claimed, FileInv, HeadInv, Expired,
                  Fresh
    <2>. QED
      BY <2>1, <2>2, <2>3, <2>4
  <1>. QED
    BY <1>1, <1>2, <1>3

\* The exclusive lifetime hold keeps the invariant.
LEMMA HoldInv ==
    ASSUME IInv, NEW p \in Removers, Hold(p)
    PROVE  IInv'
  <1>1. CASE RefusedBusy(p)
    BY <1>1, RefusedBusyInv DEF Procs, Removers
  <1>2. CASE ~RefusedBusy(p)
    <2>. USE DEF IInv, Hold, At, Go, locks, files, head, bounds
    <2>1. LifecycleTypeOK'
      BY <1>2 DEF Procs, Removers, LifecycleTypeOK, Call, Opening, Removing,
                  Using, Place, Expired, Fresh
    <2>2. LockInv'
      BY <1>2 DEF Procs, Removers, LifecycleTypeOK, Call, Opening, Removing,
                  Using, Place, LockInv, Claimed
    <2>3. FileInv'
      BY <1>2 DEF Procs, Removers, LifecycleTypeOK, Call, Opening, Removing,
                  Using, Place, LockInv, Claimed, FileInv
    <2>4. HeadInv'
      BY <1>2 DEF Procs, Removers, LifecycleTypeOK, Call, Opening, Removing,
                  Using, Place, LockInv, Claimed, FileInv, HeadInv, Expired,
                  Fresh
    <2>. QED
      BY <2>1, <2>2, <2>3, <2>4
  <1>. QED
    BY <1>1, <1>2

\* The judgement keeps the invariant.
LEMMA JudgeInv ==
    ASSUME IInv, NEW p \in Removers, Judge(p)
    PROVE  IInv'
  <1>1. CASE Ends(p)
    BY <1>1, EndsInv DEF Procs, Removers
  <1>2. CASE ~Ends(p)
    <2>. USE DEF IInv, Judge, MayRemove, Eligible, Abandons, At, Go, locks,
                 files, head, bounds
    <2>1. LifecycleTypeOK'
      BY <1>2 DEF Procs, Removers, LifecycleTypeOK, Call, Opening, Removing,
                  Using, Place, Expired, Fresh
    <2>2. LockInv'
      BY <1>2 DEF Procs, Removers, LifecycleTypeOK, Call, Opening, Removing,
                  Using, Place, LockInv, Claimed
    <2>3. FileInv'
      BY <1>2 DEF Procs, Removers, LifecycleTypeOK, Call, Opening, Removing,
                  Using, Place, LockInv, Claimed, FileInv
    <2>4. HeadInv'
      BY <1>2 DEF Procs, Removers, LifecycleTypeOK, Call, Opening, Removing,
                  Using, Place, LockInv, Claimed, FileInv, HeadInv, Expired,
                  Fresh
    <2>. QED
      BY <2>1, <2>2, <2>3, <2>4
  <1>. QED
    BY <1>1, <1>2

\* The rename into quarantine keeps the invariant.
LEMMA QuarantineInv ==
    ASSUME IInv, NEW p \in Removers, Quarantine(p)
    PROVE  IInv'
  <1>1. CASE Ends(p)
    BY <1>1, EndsInv DEF Procs, Removers
  <1>2. CASE ~Ends(p)
    <2>. USE DEF IInv, Quarantine, At, Go, locks, files, head, bounds
    <2>1. LifecycleTypeOK'
      <3>0. /\ quarantine' = TRUE /\ folder' = FALSE
            /\ UNCHANGED <<clock, marker, attempt, made, phase, life, generation,
                           init, registered, claim, sharers, exclusive, call,
                           calls, faults>>
        BY <1>2
      <3>1. \E place \in Place : pc' = [pc EXCEPT ![p] = place]
        BY <1>2 DEF Place, Opening, Removing, Using
      <3>2. pc' \in [Procs -> Place]
        BY <3>1 DEF LifecycleTypeOK
      <3>3. call' \in [Procs -> Call]
        BY <1>2 DEF LifecycleTypeOK, Procs, Removers
      <3>4. quarantine' \in BOOLEAN /\ folder' \in BOOLEAN
        BY <3>0
      <3>. QED
        BY <3>0, <3>2, <3>3, <3>4 DEF Procs, Removers, LifecycleTypeOK
    <2>2. LockInv'
      BY <1>2 DEF Procs, Removers, LifecycleTypeOK, Call, Opening, Removing,
                  Using, Place, LockInv, Claimed
    <2>3. FileInv'
      BY <1>2 DEF Procs, Removers, LifecycleTypeOK, Call, Opening, Removing,
                  Using, Place, LockInv, Claimed, FileInv
    <2>4. HeadInv'
      BY <1>2 DEF Procs, Removers, LifecycleTypeOK, Call, Opening, Removing,
                  Using, Place, LockInv, Claimed, FileInv, HeadInv, Expired,
                  Fresh
    <2>. QED
      BY <2>1, <2>2, <2>3, <2>4
  <1>. QED
    BY <1>1, <1>2

\* The removal of the quarantine keeps the invariant.
LEMMA DeleteInv ==
    ASSUME IInv, NEW p \in Removers, Delete(p)
    PROVE  IInv'
  <1>1. CASE claim = p
    <2>. USE DEF IInv, Delete, Release, Without, Return, At, Go, locks, files,
                 head, bounds
    <2>1. LifecycleTypeOK'
      <3>1. \E place \in Place : pc' = [pc EXCEPT ![p] = place]
        BY <1>1 DEF Place, Opening, Removing, Using
      <3>2. pc' \in [Procs -> Place]
        BY <3>1 DEF LifecycleTypeOK
      <3>3. call' \in [Procs -> Call]
        BY <1>1 DEF LifecycleTypeOK, Procs, Removers
      <3>. QED
        BY <1>1, <3>2, <3>3 DEF Procs, Removers, LifecycleTypeOK
    <2>2. LockInv'
      BY <1>1 DEF Procs, Removers, LifecycleTypeOK, Call, Opening, Removing,
                  Using, Place, LockInv, Claimed
    <2>3. FileInv'
      BY <1>1 DEF Procs, Removers, LifecycleTypeOK, Call, Opening, Removing,
                  Using, Place, LockInv, Claimed, FileInv
    <2>4. HeadInv'
      BY <1>1 DEF Procs, Removers, LifecycleTypeOK, Call, Opening, Removing,
                  Using, Place, LockInv, Claimed, FileInv, HeadInv, Expired,
                  Fresh
    <2>. QED
      BY <2>1, <2>2, <2>3, <2>4
  <1>2. CASE claim # p
    <2>. USE DEF IInv, Delete, Release, Without, Return, At, Go, locks, files,
                 head, bounds
    <2>1. LifecycleTypeOK'
      <3>1. \E place \in Place : pc' = [pc EXCEPT ![p] = place]
        BY <1>2 DEF Place, Opening, Removing, Using
      <3>2. pc' \in [Procs -> Place]
        BY <3>1 DEF LifecycleTypeOK
      <3>3. call' \in [Procs -> Call]
        BY <1>2, ReturnTypes DEF LifecycleTypeOK, Procs, Removers
      <3>. QED
        BY <1>2, <3>2, <3>3 DEF Procs, Removers, LifecycleTypeOK
    <2>2. LockInv'
      BY <1>2 DEF Procs, Removers, LifecycleTypeOK, Call, Opening, Removing,
                  Using, Place, LockInv, Claimed
    <2>3. FileInv'
      BY <1>2 DEF Procs, Removers, LifecycleTypeOK, Call, Opening, Removing,
                  Using, Place, LockInv, Claimed, FileInv
    <2>4. HeadInv'
      BY <1>2 DEF Procs, Removers, LifecycleTypeOK, Call, Opening, Removing,
                  Using, Place, LockInv, Claimed, FileInv, HeadInv, Expired,
                  Fresh
    <2>. QED
      BY <2>1, <2>2, <2>3, <2>4
  <1>. QED
    BY <1>1, <1>2

\* The removal of the marker keeps the invariant.
LEMMA UnmarkInv ==
    ASSUME IInv, NEW p \in Removers, Unmark(p)
    PROVE  IInv'
  <1>. USE DEF IInv, Unmark, Release, Without, Return, At, Go, locks, files,
               head, bounds
  <1>1. LifecycleTypeOK'
    BY DEF Procs, Removers, LifecycleTypeOK, Call, Opening, Removing, Using,
           Place, Expired, Fresh
  <1>2. LockInv'
    BY DEF Procs, Removers, LifecycleTypeOK, Call, Opening, Removing, Using,
           Place, LockInv, Claimed
  <1>3. FileInv'
    BY DEF Procs, Removers, LifecycleTypeOK, Call, Opening, Removing, Using,
           Place, LockInv, Claimed, FileInv
  <1>4. HeadInv'
    BY DEF Procs, Removers, LifecycleTypeOK, Call, Opening, Removing, Using,
           Place, LockInv, Claimed, FileInv, HeadInv, Expired, Fresh
  <1>. QED
    BY <1>1, <1>2, <1>3, <1>4

\* A user's call keeps the invariant.
LEMMA AsksInv ==
    ASSUME IInv, NEW p \in Users, Asks(p)
    PROVE  IInv'
  <1>. PICK x \in {"read", "renew", "close"} :
           call' = [call EXCEPT ![p].now = clock, ![p].ask = x]
    BY DEF Asks
  <1>b. p \in Procs /\ call[p] \in Call /\ clock \in Nat
    BY DEF IInv, LifecycleTypeOK, Procs
  <1>c. call' \in [Procs -> Call]
    <2>1. [call[p] EXCEPT !.now = clock, !.ask = x] \in Call
      BY <1>b DEF Call
    <2>. QED
      BY <2>1, <1>b DEF IInv, LifecycleTypeOK
  <1>. USE DEF IInv, Asks, At, Go, locks, files, head, bounds
  <1>1. LifecycleTypeOK'
    BY <1>c DEF Procs, Removers, LifecycleTypeOK, Call, Opening, Removing,
                Using, Place, Expired, Fresh
  <1>2. LockInv'
    BY DEF Procs, Removers, LifecycleTypeOK, Call, Opening, Removing, Using,
           Place, LockInv, Claimed
  <1>3. FileInv'
    BY DEF Procs, Removers, LifecycleTypeOK, Call, Opening, Removing, Using,
           Place, LockInv, Claimed, FileInv
  <1>4. HeadInv'
    BY DEF Procs, Removers, LifecycleTypeOK, Call, Opening, Removing, Using,
           Place, LockInv, Claimed, FileInv, HeadInv, Expired, Fresh
  <1>. QED
    BY <1>1, <1>2, <1>3, <1>4

\* The start of a read keeps the invariant.
LEMMA StatusInv ==
    ASSUME IInv, NEW p \in Users, Status(p)
    PROVE  IInv'
  <1>1. CASE Ends(p)
    BY <1>1, EndsInv DEF Procs, Removers
  <1>2. CASE ~Ends(p)
    <2>. USE DEF IInv, Status, At, Go, locks, files, head, bounds
    <2>1. LifecycleTypeOK'
      BY <1>2 DEF Procs, Removers, LifecycleTypeOK, Call, Opening, Removing,
                  Using, Place, Expired, Fresh
    <2>2. LockInv'
      BY <1>2 DEF Procs, Removers, LifecycleTypeOK, Call, Opening, Removing,
                  Using, Place, LockInv, Claimed
    <2>3. FileInv'
      BY <1>2 DEF Procs, Removers, LifecycleTypeOK, Call, Opening, Removing,
                  Using, Place, LockInv, Claimed, FileInv
    <2>4. HeadInv'
      BY <1>2 DEF Procs, Removers, LifecycleTypeOK, Call, Opening, Removing,
                  Using, Place, LockInv, Claimed, FileInv, HeadInv, Expired,
                  Fresh
    <2>. QED
      BY <2>1, <2>2, <2>3, <2>4
  <1>. QED
    BY <1>1, <1>2

\* The end of a read keeps the invariant.
LEMMA LeaveReadInv ==
    ASSUME IInv, NEW p \in Users, LeaveRead(p)
    PROVE  IInv'
  <1>1. CASE call[p].ask = "read"
    <2>. USE DEF IInv, LeaveRead, Release, Without, Return, At, Go, locks,
                 files, head, bounds
    <2>1. LifecycleTypeOK'
      <3>1. \E place \in Place : pc' = [pc EXCEPT ![p] = place]
        BY <1>1 DEF Place, Opening, Removing, Using
      <3>2. pc' \in [Procs -> Place]
        BY <3>1 DEF LifecycleTypeOK
      <3>3. call' \in [Procs -> Call]
        BY <1>1, ReturnTypes DEF LifecycleTypeOK, Procs, Removers
      <3>. QED
        BY <1>1, <3>2, <3>3 DEF Procs, Removers, LifecycleTypeOK
    <2>2. LockInv'
      BY <1>1 DEF Procs, Removers, LifecycleTypeOK, Call, Opening, Removing,
                  Using, Place, LockInv, Claimed
    <2>3. FileInv'
      BY <1>1 DEF Procs, Removers, LifecycleTypeOK, Call, Opening, Removing,
                  Using, Place, LockInv, Claimed, FileInv
    <2>4. HeadInv'
      BY <1>1 DEF Procs, Removers, LifecycleTypeOK, Call, Opening, Removing,
                  Using, Place, LockInv, Claimed, FileInv, HeadInv, Expired,
                  Fresh
    <2>. QED
      BY <2>1, <2>2, <2>3, <2>4
  <1>2. CASE call[p].ask # "read"
    <2>. USE DEF IInv, LeaveRead, Release, Without, Return, At, Go, locks,
                 files, head, bounds
    <2>1. LifecycleTypeOK'
      <3>1. \E place \in Place : pc' = [pc EXCEPT ![p] = place]
        BY <1>2 DEF Place, Opening, Removing, Using
      <3>2. pc' \in [Procs -> Place]
        BY <3>1 DEF LifecycleTypeOK
      <3>3. call' \in [Procs -> Call]
        BY <1>2 DEF LifecycleTypeOK, Procs, Removers
      <3>. QED
        BY <1>2, <3>2, <3>3 DEF Procs, Removers, LifecycleTypeOK
    <2>2. LockInv'
      BY <1>2 DEF Procs, Removers, LifecycleTypeOK, Call, Opening, Removing,
                  Using, Place, LockInv, Claimed
    <2>3. FileInv'
      BY <1>2 DEF Procs, Removers, LifecycleTypeOK, Call, Opening, Removing,
                  Using, Place, LockInv, Claimed, FileInv
    <2>4. HeadInv'
      BY <1>2 DEF Procs, Removers, LifecycleTypeOK, Call, Opening, Removing,
                  Using, Place, LockInv, Claimed, FileInv, HeadInv, Expired,
                  Fresh
    <2>. QED
      BY <2>1, <2>2, <2>3, <2>4
  <1>. QED
    BY <1>1, <1>2

\* The exclusive hold of a renewal or a close keeps the invariant.
LEMMA ChangeInv ==
    ASSUME IInv, NEW p \in Users, Change(p)
    PROVE  IInv'
  <1>1. CASE Ends(p)
    BY <1>1, EndsInv DEF Procs, Removers
  <1>2. CASE ~Ends(p)
    <2>. USE DEF IInv, Change, At, Go, locks, files, head, bounds
    <2>1. LifecycleTypeOK'
      BY <1>2 DEF Procs, Removers, LifecycleTypeOK, Call, Opening, Removing,
                  Using, Place, Expired, Fresh
    <2>2. LockInv'
      BY <1>2 DEF Procs, Removers, LifecycleTypeOK, Call, Opening, Removing,
                  Using, Place, LockInv, Claimed
    <2>3. FileInv'
      BY <1>2 DEF Procs, Removers, LifecycleTypeOK, Call, Opening, Removing,
                  Using, Place, LockInv, Claimed, FileInv
    <2>4. HeadInv'
      BY <1>2 DEF Procs, Removers, LifecycleTypeOK, Call, Opening, Removing,
                  Using, Place, LockInv, Claimed, FileInv, HeadInv, Expired,
                  Fresh
    <2>. QED
      BY <2>1, <2>2, <2>3, <2>4
  <1>. QED
    BY <1>1, <1>2

\* A renewal or a close keeps the invariant.
LEMMA PublishInv ==
    ASSUME IInv, NEW p \in Users, Publish(p)
    PROVE  IInv'
  <1>1. CASE Ends(p)
    BY <1>1, EndsInv DEF Procs, Removers
  <1>2. CASE ~Ends(p) /\ call[p].ask = "close"
    <2>. USE DEF IInv, Publish, Release, Without, Return, MayPublish, Renewed,
                 At, Go, locks, files, head, bounds
    <2>1. LifecycleTypeOK'
      <3>1. \E place \in Place : pc' = [pc EXCEPT ![p] = place]
        BY <1>2 DEF Place, Opening, Removing, Using
      <3>2. pc' \in [Procs -> Place]
        BY <3>1 DEF LifecycleTypeOK
      <3>3. call' \in [Procs -> Call]
        BY <1>2, ReturnTypes DEF LifecycleTypeOK, Procs, Removers
      <3>. QED
        BY <1>2, <3>2, <3>3 DEF Procs, Removers, LifecycleTypeOK
    <2>2. LockInv'
      BY <1>2 DEF Procs, Removers, LifecycleTypeOK, Call, Opening, Removing,
                  Using, Place, LockInv, Claimed
    <2>3. FileInv'
      BY <1>2 DEF Procs, Removers, LifecycleTypeOK, Call, Opening, Removing,
                  Using, Place, LockInv, Claimed, FileInv
    <2>4. HeadInv'
      BY <1>2 DEF Procs, Removers, LifecycleTypeOK, Call, Opening, Removing,
                  Using, Place, LockInv, Claimed, FileInv, HeadInv, Expired,
                  Fresh
    <2>. QED
      BY <2>1, <2>2, <2>3, <2>4
  <1>3. CASE ~Ends(p) /\ call[p].ask # "close"
    <2>. USE DEF IInv, Publish, Release, Without, Return, MayPublish, Renewed,
                 At, Go, locks, files, head, bounds
    <2>1. LifecycleTypeOK'
      <3>1. \E place \in Place : pc' = [pc EXCEPT ![p] = place]
        BY <1>3 DEF Place, Opening, Removing, Using
      <3>2. pc' \in [Procs -> Place]
        BY <3>1 DEF LifecycleTypeOK
      <3>3. call' \in [Procs -> Call]
        BY <1>3, ReturnTypes DEF LifecycleTypeOK, Procs, Removers
      <3>4. life' \in [opened : Nat, expires : Nat]
        <4>1. call[p].now \in Nat /\ life \in [opened : Nat, expires : Nat]
          BY DEF Procs, LifecycleTypeOK, Call
        <4>2. Renewed(call[p].now) \in Nat
          BY <4>1
        <4>3. life' = [life EXCEPT !.expires = Renewed(call[p].now)]
          BY <1>3
        <4>. QED
          BY <4>1, <4>2, <4>3
      <3>5. /\ generation' \in Nat
            /\ UNCHANGED <<clock, marker, attempt, folder, quarantine, made, phase,
                           calls, faults>>
            /\ Release(p)
        BY <1>3 DEF LifecycleTypeOK
      <3>. QED
        BY <3>2, <3>3, <3>4, <3>5 DEF Procs, Removers, LifecycleTypeOK
    <2>2. LockInv'
      BY <1>3 DEF Procs, Removers, LifecycleTypeOK, Call, Opening, Removing,
                  Using, Place, LockInv, Claimed
    <2>3. FileInv'
      BY <1>3 DEF Procs, Removers, LifecycleTypeOK, Call, Opening, Removing,
                  Using, Place, LockInv, Claimed, FileInv
    <2>4. HeadInv'
      BY <1>3 DEF Procs, Removers, LifecycleTypeOK, Call, Opening, Removing,
                  Using, Place, LockInv, Claimed, FileInv, HeadInv, Expired,
                  Fresh
    <2>. QED
      BY <2>1, <2>2, <2>3, <2>4
  <1>. QED
    BY <1>1, <1>2, <1>3

\* A process that dies keeps the invariant.
LEMMA StopInv ==
    ASSUME IInv, NEW p \in Removers, Stop(p)
    PROVE  IInv'
  <1>. USE DEF IInv, Stop, Release, Without, Return, At, Go, locks, files,
               head, bounds
  <1>1. LifecycleTypeOK'
    BY DEF Procs, Removers, LifecycleTypeOK, Call, Opening, Removing, Using,
           Place, Expired, Fresh
  <1>2. LockInv'
    BY DEF Procs, Removers, LifecycleTypeOK, Call, Opening, Removing, Using,
           Place, LockInv, Claimed
  <1>3. FileInv'
    BY DEF Procs, Removers, LifecycleTypeOK, Call, Opening, Removing, Using,
           Place, LockInv, Claimed, FileInv
  <1>4. HeadInv'
    BY DEF Procs, Removers, LifecycleTypeOK, Call, Opening, Removing, Using,
           Place, LockInv, Claimed, FileInv, HeadInv, Expired, Fresh
  <1>. QED
    BY <1>1, <1>2, <1>3, <1>4

\* The clock keeps the invariant.
LEMMA TickInv ==
    ASSUME IInv, Tick
    PROVE  IInv'
  <1>. USE DEF IInv, Tick, At, Go, locks, files, head, bounds
  <1>1. LifecycleTypeOK'
    BY DEF Procs, Removers, LifecycleTypeOK, Call, Opening, Removing, Using,
           Place, Expired, Fresh
  <1>2. LockInv'
    BY DEF Procs, Removers, LifecycleTypeOK, Call, Opening, Removing, Using,
           Place, LockInv, Claimed
  <1>3. FileInv'
    BY DEF Procs, Removers, LifecycleTypeOK, Call, Opening, Removing, Using,
           Place, LockInv, Claimed, FileInv
  <1>4. HeadInv'
    BY DEF Procs, Removers, LifecycleTypeOK, Call, Opening, Removing, Using,
           Place, LockInv, Claimed, FileInv, HeadInv, Expired, Fresh
  <1>. QED
    BY <1>1, <1>2, <1>3, <1>4

\* The first state satisfies the invariant.
LEMMA InitInv == Init => IInv
  <1>. SUFFICES ASSUME Init PROVE IInv
    OBVIOUS
  <1>. USE DEF Init
  <1>1. LifecycleTypeOK
    <2>1. pc \in [Procs -> Place]
      BY DEF Place, Opening
    <2>2. call \in [Procs -> Call]
      BY DEF Call, Fresh
    <2>3. life \in [opened : Nat, expires : Nat]
      OBVIOUS
    <2>4. /\ marker \in BOOLEAN /\ attempt \in BOOLEAN /\ folder \in BOOLEAN
          /\ quarantine \in BOOLEAN /\ registered \in BOOLEAN
      BY Zenon
    <2>. QED
      BY <2>1, <2>2, <2>3, <2>4 DEF LifecycleTypeOK
  <1>2. LockInv
    BY DEF LockInv, Claimed, Removing, Procs, Removers
  <1>3. FileInv
    BY DEF FileInv, Procs, Removers
  <1>4. HeadInv
    BY DEF HeadInv, Opening, Procs, Removers, Fresh
  <1>. QED
    BY <1>1, <1>2, <1>3, <1>4 DEF IInv

\* Every step keeps the invariant.
LEMMA NextInv == IInv /\ [Next]_vars => IInv'
  <1>. SUFFICES ASSUME IInv, [Next]_vars PROVE IInv'
    OBVIOUS
  <1>1. CASE OpenerStep
    BY <1>1, RegisterInv, HoldMarkInv, BuildInv, InstallInv, StageInv,
       ActivateInv, OpenFailsInv, AbandonInv DEF OpenerStep
  <1>2. CASE \E p \in Removers : RemoverStep(p)
    <2>. PICK p \in Removers : RemoverStep(p)
      BY <1>2
    <2>. QED
      BY ListInv, ListedInv, ClaimInv, ClaimHoldInv, LookInv, HoldInv, JudgeInv,
         QuarantineInv, DeleteInv, UnmarkInv DEF RemoverStep
  <1>3. CASE \E u \in Users : UserStep(u)
    <2>. PICK u \in Users : UserStep(u)
      BY <1>3
    <2>. QED
      BY AsksInv, StatusInv, LeaveReadInv, ChangeInv, PublishInv DEF UserStep
  <1>4. CASE \E p \in Removers : Stop(p)
    BY <1>4, StopInv
  <1>5. CASE Tick
    BY <1>5, TickInv
  <1>6. CASE UNCHANGED vars
    BY <1>6 DEF vars, locks, files, head, bounds, IInv, LifecycleTypeOK,
                LockInv, FileInv, HeadInv, Expired
  <1>7. CASE Finished
    BY <1>6, <1>7 DEF Finished
  <1>. QED
    BY <1>1, <1>2, <1>3, <1>4, <1>5, <1>6, <1>7 DEF Next

\* The inductive invariant holds in every behaviour.
LEMMA Invariance == Spec => []IInv
  BY InitInv, NextInv, PTL DEF Spec

-----------------------------------------------------------------------------
(* What follows *)

\* No lock of a session is held both shared and exclusively, whoever opens,
\* uses, cleans or dies.
THEOREM TypesHold == Spec => []LifecycleTypeOK
  <1>1. IInv => LifecycleTypeOK
    BY DEF IInv
  <1>. QED
    BY <1>1, Invariance, PTL

\* Whatever is left of a session has a marker by which `session clean` finds
\* it: register_session makes the marker first and clean_session_scoped removes
\* it last, and no remover's late remove_file takes the marker of a session
\* that still has something on disk.
THEOREM MarkersOutliveSessions == Spec => []MarkerOutlivesSession
  <1>1. IInv => MarkerOutlivesSession
    BY DEF IInv, FileInv, MarkerOutlivesSession
  <1>. QED
    BY <1>1, Invariance, PTL

\* A session held shared by acquire_read or by the staging of a source is
\* neither renamed away nor removed.
THEOREM UsesAreKept == Spec => []UseIsKept
  <1>1. IInv => UseIsKept
    BY DEF IInv, FileInv, UseIsKept
  <1>. QED
    BY <1>1, Invariance, PTL

\* No remover takes anything of an opening that may still succeed, however
\* long it has been registered.
THEOREM OpeningsAreKept == Spec => []OpeningIsKept
  <1>1. IInv => OpeningIsKept
    BY DEF IInv, FileInv, OpeningIsKept, LifecycleTypeOK, Procs
  <1>. QED
    BY <1>1, Invariance, PTL

\* A published session is removed only once it is closed or past the expiry of
\* its last renewal, whatever the removal read before it held the session.
THEOREM SessionsAreKept == Spec => []KeptUntilOver
  <1>1. IInv => KeptUntilOver
    BY DEF IInv, HeadInv, KeptUntilOver
  <1>. QED
    BY <1>1, Invariance, PTL
=============================================================================
