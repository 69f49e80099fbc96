-------------------------- MODULE GenerationCommit --------------------------
(***************************************************************************)
(* Publication of a session generation (publish_artifact, commit_evidence, *)
(* publish_generation_while_locked), one filesystem operation at a time:   *)
(* artifacts are installed by digest without the writer lock; then, under  *)
(* it, the manifest and the pointer are staged, flushed and renamed, and   *)
(* the chain checkpoint follows.  A durable session synchronises each      *)
(* directory before it goes on; an ephemeral one does not.                 *)
(*                                                                         *)
(* A manifest names the digest of the one before it, so its digest fixes   *)
(* the whole history.  A digest is therefore the sequence of operations it *)
(* commits, and the body of a manifest, a pointer or a checkpoint is the   *)
(* digest it stands for.                                                   *)
(*                                                                         *)
(* `file' is what processes see under each name and `disk' what a loss of  *)
(* power may leave there: every file the name has had since its directory  *)
(* was last synchronised.  A file's data is on the disk for certain only   *)
(* after a successful flush.                                               *)
(***************************************************************************)
EXTENDS Integers, Sequences, FiniteSets

CONSTANTS
    Procs,             \* processes that publish
    NoProc,            \* "no process"
    Ops,               \* operation ids
    Artifacts,         \* content-addressed files, by digest
    ArtifactOf,        \* the artifact each operation installs, or NoArtifact
    NoArtifact,
    Durabilities,      \* the durabilities a session may have: durable or not
    CallersAsk,        \* the durabilities in which a failed publication's caller asks for it
    MAX_GENERATIONS,   \* generations a session may hold
    MaxFaults,         \* storage failures and deaths of a process (model bound)
    MaxLosses          \* losses of power in a behaviour (model bound)

ASSUME CommitProcs == NoProc \notin Procs
ASSUME CommitOps == Ops # {} /\ ArtifactOf \in [Ops -> Artifacts \cup {NoArtifact}]
ASSUME CommitArtifacts == NoArtifact \notin Artifacts
ASSUME CommitFlags == Durabilities \subseteq BOOLEAN /\ CallersAsk \subseteq BOOLEAN
ASSUME CommitGenerations == MAX_GENERATIONS \in Nat \ {0}
ASSUME CommitBounds == MaxFaults \in Nat /\ MaxLosses \in Nat

VARIABLES
    durable,    \* the session's durability, fixed when it was created
    file,       \* name -> the file processes see under it
    disk,       \* name -> the files a loss of power may leave under it
    writer,     \* the process holding the session's writer lock, or NoProc
    call,       \* the call each process makes: what it does next, and its locals
    acked,      \* history: the last head a publication acknowledged
    reported,   \* history: the last head a failed publication's caller found
    faults,     \* storage failures and deaths still to happen
    losses      \* losses of power still to happen

fsVars  == <<file, disk>>
history == <<acked, reported>>
vars    == <<durable, fsVars, writer, call, history, faults, losses>>

-----------------------------------------------------------------------------
(* Names, by directory.                                                    *)

Current == <<"session", "current">>   \* current.json
Chain   == <<"session", "chain">>     \* chain-verified.json
Gen(n)  == <<"generations", n>>       \* generations/<n>.json
Art(x)  == <<"artifacts", x>>         \* artifacts/artifact-<digest>

Kinds == {"artifact", "manifest", "pointer", "chain"}
Staged(k, o) == <<"attempts", k, o>>  \* attempts/<operation>.<...>.tmp

NamesIn(dir) ==
    CASE dir = "session"     -> {Current, Chain}
      [] dir = "generations" -> {Gen(n) : n \in 0..MAX_GENERATIONS - 1}
      [] dir = "artifacts"   -> {Art(x) : x \in Artifacts}
      [] dir = "attempts"    -> {Staged(k, o) : k \in Kinds, o \in Ops}

\* Names a loss of power leaves to the disk; what it leaves of attempts/ is
\* decided in PowerLoss.
Lasting == UNION {NamesIn(dir) : dir \in {"session", "generations", "artifacts"}}
Names   == Lasting \cup NamesIn("attempts")

\* A file's state: "partial" (created, or torn), "written" (whole as processes
\* see it, not known to be on the disk) or "safe" (flushed).  `by' is the
\* process that has it open for writing.
NoFile == [body |-> <<>>, st |-> "none", by |-> NoProc]

Exists(n) == file[n] # NoFile
Whole(f)  == f.st \in {"written", "safe"}

-----------------------------------------------------------------------------
(* Filesystem operations.                                                  *)

\* What the disk may hold is followed while power may still be lost.
OnDisk(d) == disk' = IF losses > 0 THEN d ELSE [n \in Lasting |-> {}]

\* f appears under the name `at', and `gone' disappears; a loss of power may
\* leave f at its new name, or what was there before.
Put(f, at, gone) ==
    /\ file' = [n \in Names |-> IF n = at THEN f ELSE IF n \in gone THEN NoFile ELSE file[n]]
    /\ OnDisk([n \in Lasting |-> IF n = at THEN disk[n] \cup {f} ELSE disk[n]])

\* Creates n new (a leftover there is removed first), still empty.
Create(p, n, body) == Put([body |-> body, st |-> "partial", by |-> p], n, {})

Rename(from, to) == Put(file[from], to, {from})

\* The file that p has open becomes st, and stays open or is closed.
Touched(f, p, st, by) == IF f.by = p THEN [f EXCEPT !.st = st, !.by = by] ELSE f
Touch(p, st, by) ==
    /\ file' = [n \in Names |-> Touched(file[n], p, st, by)]
    /\ OnDisk([n \in Lasting |-> {Touched(f, p, st, by) : f \in disk[n]}])

\* p closes what it has open, as it is.
Closed(f, p) == IF f.by = p THEN [f EXCEPT !.by = NoProc] ELSE f
Close(p) ==
    /\ file' = [n \in Names |-> Closed(file[n], p)]
    /\ OnDisk([n \in Lasting |-> {Closed(f, p) : f \in disk[n]}])

\* A durable session synchronises a directory: a loss of power then finds the
\* files that are there now.  An ephemeral session skips it.
sync_directory(dir) ==
    /\ \/ durable /\ OnDisk([n \in Lasting |-> IF n \in NamesIn(dir) THEN {file[n]} ELSE disk[n]])
       \/ ~durable /\ UNCHANGED disk
    /\ UNCHANGED file

\* What a loss of power may make of a file's data, and of a directory.
Survivors(f) ==
    IF f.st = "written" THEN {[f EXCEPT !.by = NoProc, !.st = s] : s \in {"partial", "safe"}}
                        ELSE {[f EXCEPT !.by = NoProc]}

AfterLoss(dir) ==
    LET left(n) == UNION {Survivors(f) : f \in disk[n]} IN
    {g \in [NamesIn(dir) -> UNION {left(n) : n \in NamesIn(dir)}] :
        \A n \in NamesIn(dir) : g[n] \in left(n)}

-----------------------------------------------------------------------------
(* Reading the committed head: read_committed_manifest.                    *)

HeadDigest == file[Current].body
Prefix(d, n) == SubSeq(d, 1, n)

\* The artifacts the manifest with digest d lists.
Lists(d) == {ArtifactOf[d[i]] : i \in 1..Len(d)} \ {NoArtifact}

\* The chain is checked link by link from the head d down to the checkpoint;
\* one that is missing, or ahead of the head, means down to generation 0.
Anchored(d) == Exists(Chain) /\ Len(file[Chain].body) <= Len(d)
validate_manifest_chain(d) ==
    LET floor == IF Anchored(d) THEN Len(file[Chain].body) ELSE 0 IN
    /\ Exists(Chain) => Whole(file[Chain])
    /\ \A n \in floor..Len(d) : Whole(file[Gen(n)]) /\ file[Gen(n)].body = Prefix(d, n)
    /\ Anchored(d) => file[Chain].body = Prefix(d, floor)

Readable == Whole(file[Current]) /\ validate_manifest_chain(HeadDigest)

-----------------------------------------------------------------------------
(* How a call goes on and ends.                                            *)

\* `at' is what the process does next, `op' the operation it publishes,
\* `expected' the generation it must follow, `seen' the head it read and, once
\* it holds the writer lock, the head it commits; `kind' is the file it writes.
NoCall == [at |-> "idle", op |-> CHOOSE o \in Ops : TRUE, expected |-> 0, seen |-> <<>>,
           kind |-> "install"]

At(p, place)     == call[p].at = place
Goto(p, place)   == call' = [call EXCEPT ![p].at = place]
GoWrite(p, kind) == call' = [call EXCEPT ![p].at = "stage", ![p].kind = kind]
Unlock(p)        == writer' = IF writer = p THEN NoProc ELSE writer

\* The call is answered IntegrityFailure, or another error.
Refuse(p) == Goto(p, "refused") /\ Unlock(p)
Reject(p) == Goto(p, "failed") /\ Unlock(p)

\* A filesystem operation fails: the file stays as it is, and nothing is
\* acknowledged; only the checkpoint, written after the commit, is best effort.
Fail(p) ==
    /\ faults > 0 /\ faults' = faults - 1
    /\ Close(p)
    /\ \/ call[p].kind = "chain" /\ Goto(p, "return") /\ UNCHANGED writer
       \/ call[p].kind # "chain" /\ Reject(p)

-----------------------------------------------------------------------------
(* Before the writer lock.                                                 *)

\* A caller publishes operation o on top of a generation it observed.  No two
\* processes run the same operation: its id is fresh, or its job is owned.
\* The pointer is read first, without a lock.
Begin(p) ==
    /\ At(p, "idle")
    /\ \E o \in Ops, e \in 0..Len(HeadDigest) :
        /\ \A q \in Procs \ {p} : ~At(q, "idle") => call[q].op # o
        /\ call' = [call EXCEPT ![p] =
                      [at |-> IF Whole(file[Current]) THEN "read" ELSE "refused",
                       op |-> o, expected |-> e, seen |-> HeadDigest, kind |-> "install"]]
    /\ UNCHANGED <<fsVars, writer, history, faults, losses, durable>>

\* Then the manifests and the checkpoint, while another process may commit.
Read(p) ==
    /\ At(p, "read")
    /\ Goto(p, IF ~validate_manifest_chain(call[p].seen) THEN "refused"
               ELSE IF ArtifactOf[call[p].op] = NoArtifact THEN "lock" ELSE "install")
    /\ UNCHANGED <<fsVars, writer, history, faults, losses, durable>>

\* ArtifactInstaller::install creates the file under its own name.
InstallNew(p) ==
    /\ ~Exists(Art(ArtifactOf[call[p].op]))
    /\ Create(p, Art(ArtifactOf[call[p].op]), <<>>)
    /\ Goto(p, "write")
    /\ UNCHANGED writer

\* A file that exists is accepted if its bytes hash to its digest.
InstallShared(p) ==
    /\ Exists(Art(ArtifactOf[call[p].op]))
    /\ \/ Whole(file[Art(ArtifactOf[call[p].op])]) /\ Goto(p, "finish") /\ UNCHANGED writer
       \/ ~Whole(file[Art(ArtifactOf[call[p].op])]) /\ Refuse(p)
    /\ UNCHANGED fsVars

\* Faulty variant: a durable commit trusts every file that is already there.
NeverStageAgain(p) == FALSE

\* A durable commit accepts it only if the head it read lists it, and stages the
\* bytes again otherwise.
MustStageAgain(p) == durable /\ ArtifactOf[call[p].op] \notin Lists(call[p].seen)

Install(p) ==
    /\ At(p, "install")
    /\ \/ InstallNew(p) /\ UNCHANGED faults
       \/ ~MustStageAgain(p) /\ InstallShared(p) /\ UNCHANGED faults
       \/ /\ MustStageAgain(p) /\ Exists(Art(ArtifactOf[call[p].op]))
          /\ GoWrite(p, "artifact")
          /\ UNCHANGED <<fsVars, writer, faults>>
       \/ Fail(p)
    /\ UNCHANGED <<history, losses, durable>>

\* ArtifactInstaller::finish: artifacts/ is synchronised once.
Finish(p) ==
    /\ At(p, "finish")
    /\ \/ sync_directory("artifacts") /\ Goto(p, "lock") /\ UNCHANGED <<writer, faults>>
       \/ durable /\ Fail(p)
    /\ UNCHANGED <<history, losses, durable>>

-----------------------------------------------------------------------------
(* prepare_staged_file and the renames, for the four files that are staged. *)

StagedName(p) == Staged(call[p].kind, call[p].op)
Bytes(p)      == IF call[p].kind = "artifact" THEN <<>> ELSE call[p].seen
Holds(p)      == Whole(file[StagedName(p)]) /\ file[StagedName(p)].body = Bytes(p)

\* Faulty variant: a durable commit also reuses a leftover staged file.
CanReuseAlways(p) == Holds(p)

\* A leftover that already holds the bytes is flushed again by an ephemeral
\* commit; a durable one, or any other leftover, is deleted and written again.
CanReuse(p) == ~durable /\ Holds(p)

Stage(p) ==
    /\ At(p, "stage")
    /\ \/ CanReuse(p) /\ Goto(p, "rename") /\ UNCHANGED <<fsVars, writer, faults>>
       \/ /\ ~CanReuse(p)
          /\ Create(p, StagedName(p), Bytes(p))
          /\ Goto(p, "write")
          /\ UNCHANGED <<writer, faults>>
       \/ Fail(p)
    /\ UNCHANGED <<history, losses, durable>>

Write(p) ==
    /\ At(p, "write")
    /\ \/ Touch(p, "written", p) /\ Goto(p, "flush") /\ UNCHANGED <<writer, faults>>
       \/ Fail(p)
    /\ UNCHANGED <<history, losses, durable>>

\* After a failed flush the data may never reach the disk, whatever a later
\* flush of the same file reports.
Flush(p) ==
    /\ At(p, "flush")
    /\ \/ /\ Touch(p, "safe", NoProc)
          /\ Goto(p, IF call[p].kind = "install" THEN "finish" ELSE "rename")
          /\ UNCHANGED <<writer, faults>>
       \/ Fail(p)
    /\ UNCHANGED <<history, losses, durable>>

\* Where each staged file goes, and what follows.
Destination(p) ==
    CASE call[p].kind = "artifact" -> Art(ArtifactOf[call[p].op])
      [] call[p].kind = "manifest" -> Gen(Len(call[p].seen))
      [] call[p].kind = "pointer"  -> Current
      [] call[p].kind = "chain"    -> Chain

Then == [artifact |-> "finish", manifest |-> "sync_generations", pointer |-> "sync_session",
         chain |-> "return"]

Move(p) ==
    /\ At(p, "rename")
    /\ \/ /\ Rename(StagedName(p), Destination(p))
          /\ Goto(p, Then[call[p].kind])
          /\ UNCHANGED <<writer, faults>>
       \/ Fail(p)
    /\ UNCHANGED <<history, losses, durable>>

-----------------------------------------------------------------------------
(* publish_generation_while_locked                                         *)

IsHead(o) == Len(HeadDigest) > 0 /\ HeadDigest[Len(HeadDigest)] = o

\* Faulty variant: the capacity is not checked.
CanFollowUnbounded(p) == Len(HeadDigest) = call[p].expected /\ ~IsHead(call[p].op)

\* The operation follows the head it expected, within the session's capacity.
CanFollow(p) ==
    /\ Len(HeadDigest) = call[p].expected
    /\ ~IsHead(call[p].op)
    /\ Len(HeadDigest) + 1 < MAX_GENERATIONS

\* The operation is the head already: its first acknowledgement was lost.
IsRetry(p) == Len(HeadDigest) = call[p].expected + 1 /\ IsHead(call[p].op)

\* Faulty variant: the writer lock is not tried.
WriterFreeAlways == TRUE

\* The writer lock is tried once.
WriterFree == writer = NoProc

\* Under the writer lock the head is read again.
Lock(p) ==
    /\ At(p, "lock")
    /\ \/ /\ ~WriterFree \/ (Readable /\ ~IsRetry(p) /\ ~CanFollow(p))
          /\ Reject(p)
       \/ /\ WriterFree /\ ~Readable
          /\ Refuse(p)
       \/ /\ WriterFree /\ Readable /\ IsRetry(p)
          /\ writer' = p
          /\ call' = [call EXCEPT ![p].at = "ack_generations", ![p].seen = HeadDigest]
       \/ /\ WriterFree /\ Readable /\ CanFollow(p)
          /\ writer' = p
          /\ call' = [call EXCEPT ![p].at = "manifest",
                                  ![p].seen = Append(HeadDigest, call[p].op)]
    /\ UNCHANGED <<fsVars, history, faults, losses, durable>>

\* Faulty variant: a manifest left by another operation is an integrity failure.
InstallManifestRefusing(p) ==
    LET n == Gen(Len(call[p].seen)) IN
    /\ At(p, "manifest")
    /\ \/ Exists(n) /\ file[n].body # call[p].seen /\ Refuse(p)
       \/ /\ ~(Exists(n) /\ file[n].body # call[p].seen)
          /\ GoWrite(p, "manifest")
          /\ UNCHANGED writer
    /\ UNCHANGED <<fsVars, history, faults, losses, durable>>

\* install_immutable_file: a manifest left above the head, by this operation or
\* another, is never named by the pointer.  An ephemeral commit keeps an
\* identical one; otherwise the manifest is staged and renamed over it.
InstallManifest(p) ==
    LET n == Gen(Len(call[p].seen)) IN
    /\ At(p, "manifest")
    /\ IF ~durable /\ Whole(file[n]) /\ file[n].body = call[p].seen
         THEN Goto(p, "sync_generations")
         ELSE GoWrite(p, "manifest")
    /\ UNCHANGED <<fsVars, writer, history, faults, losses, durable>>

SyncGenerations(p) ==
    /\ At(p, "sync_generations")
    /\ \/ sync_directory("generations") /\ GoWrite(p, "pointer") /\ UNCHANGED <<writer, faults>>
       \/ durable /\ Fail(p)
    /\ UNCHANGED <<history, losses, durable>>

\* Faulty variant: the pointer's directory is not synchronised.
SyncSessionLater(p) ==
    /\ At(p, "sync_session")
    /\ Goto(p, "confirm")
    /\ UNCHANGED <<fsVars, writer, history, faults, losses, durable>>

\* The commit point of a durable session.
SyncSession(p) ==
    /\ At(p, "sync_session")
    /\ \/ sync_directory("session") /\ Goto(p, "confirm") /\ UNCHANGED <<writer, faults>>
       \/ durable /\ Fail(p)
    /\ UNCHANGED <<history, losses, durable>>

\* The new head is read back; the chain checkpoint follows.
Confirm(p) ==
    /\ At(p, "confirm")
    /\ \/ Readable /\ HeadDigest = call[p].seen /\ GoWrite(p, "chain") /\ UNCHANGED writer
       \/ ~(Readable /\ HeadDigest = call[p].seen) /\ Refuse(p)
    /\ UNCHANGED <<fsVars, history, faults, losses, durable>>

\* acknowledge_retry: the synchronisations of the first attempt are repeated.
AcknowledgeRetry(p) ==
    /\ \/ /\ At(p, "ack_generations")
          /\ sync_directory("generations") /\ Goto(p, "ack_session")
          /\ UNCHANGED <<writer, faults>>
       \/ /\ At(p, "ack_session")
          /\ sync_directory("session") /\ Goto(p, "return")
          /\ UNCHANGED <<writer, faults>>
       \/ (At(p, "ack_generations") \/ At(p, "ack_session")) /\ durable /\ Fail(p)
    /\ UNCHANGED <<history, losses, durable>>

End(p) == call' = [call EXCEPT ![p] = NoCall]

\* The generation is acknowledged.
Return(p) ==
    /\ At(p, "return")
    /\ acked' = call[p].seen
    /\ Unlock(p)
    /\ End(p)
    /\ UNCHANGED <<fsVars, reported, faults, losses, durable>>

\* The publication failed.  Its caller gives up, or (a job's commit) asks the
\* chain whether the operation landed, and answers so.
Ask(p) ==
    /\ At(p, "failed") \/ At(p, "refused")
    /\ \/ UNCHANGED reported
       \/ \E g \in call[p].expected + 1 .. Len(HeadDigest) :
              /\ durable \in CallersAsk /\ Readable /\ HeadDigest[g] = call[p].op
              /\ reported' = Prefix(HeadDigest, g)
    /\ End(p)
    /\ UNCHANGED <<fsVars, writer, acked, faults, losses, durable>>

-----------------------------------------------------------------------------
\* The process dies; what it wrote stays visible to the others.
Crash(p) ==
    /\ ~At(p, "idle")
    /\ faults > 0 /\ faults' = faults - 1
    /\ End(p)
    /\ Close(p)
    /\ Unlock(p)
    /\ UNCHANGED <<history, losses, durable>>

\* The machine loses power: every process dies, and each name holds one of the
\* files the disk may have kept.  Staged files are gone, or left torn.
PowerLoss ==
    /\ losses > 0 /\ losses' = losses - 1
    /\ call' = [p \in Procs |-> NoCall]
    /\ writer' = NoProc
    /\ \E a \in AfterLoss("artifacts"), g \in AfterLoss("generations"),
          s \in AfterLoss("session"), gone \in BOOLEAN :
        file' = [n \in Names |->
                   CASE n \in NamesIn("artifacts")   -> a[n]
                     [] n \in NamesIn("generations") -> g[n]
                     [] n \in NamesIn("session")     -> s[n]
                     [] OTHER -> IF gone \/ ~Exists(n) THEN NoFile
                                 ELSE [file[n] EXCEPT !.st = "partial", !.by = NoProc]]
    /\ OnDisk([n \in Lasting |-> {file'[n]}])
    /\ UNCHANGED <<history, faults, durable>>

\* initialize left generation 0 and the pointer to it, flushed and synchronised.
\* An ephemeral session promises nothing across a loss of power.
Init ==
    /\ file = [n \in Names |-> [NoFile EXCEPT !.st = IF n \in {Current, Gen(0)} THEN "safe"
                                                                               ELSE "none"]]
    /\ durable \in Durabilities
    /\ losses = IF durable THEN MaxLosses ELSE 0
    /\ disk = [n \in Lasting |-> IF losses > 0 THEN {file[n]} ELSE {}]
    /\ writer = NoProc
    /\ call = [p \in Procs |-> NoCall]
    /\ acked = <<>> /\ reported = <<>>
    /\ faults = MaxFaults

Step(p) ==
    \/ Read(p) \/ Install(p) \/ Finish(p)
    \/ Stage(p) \/ Write(p) \/ Flush(p) \/ Move(p)
    \/ Lock(p) \/ InstallManifest(p) \/ SyncGenerations(p) \/ SyncSession(p)
    \/ Confirm(p) \/ AcknowledgeRetry(p) \/ Return(p) \/ Ask(p)

Next ==
    \/ \E p \in Procs : Begin(p) \/ Step(p) \/ Crash(p)
    \/ PowerLoss

Spec == Init /\ [][Next]_vars

-----------------------------------------------------------------------------
(* Properties                                                              *)

Digest == {d \in Seq(Ops) : Len(d) < MAX_GENERATIONS}
File   == [body : Digest, st : {"none", "partial", "written", "safe"}, by : Procs \cup {NoProc}]
Place  == {"idle", "read", "install", "finish", "stage", "write", "flush", "rename", "lock",
           "manifest", "sync_generations", "sync_session", "confirm", "ack_generations",
           "ack_session", "return", "failed", "refused"}
Call   == [at : Place, op : Ops, expected : 0..MAX_GENERATIONS - 1, seen : Digest,
           kind : Kinds \cup {"install"}]

\* Types; in particular no call commits past the session's capacity.
CommitTypeOK ==
    /\ durable \in BOOLEAN
    /\ file \in [Names -> File]
    /\ DOMAIN disk = Lasting /\ \A n \in Lasting : \A f \in disk[n] : f \in File
    /\ writer \in Procs \cup {NoProc}
    /\ call \in [Procs -> Call]
    /\ acked \in Digest /\ reported \in Digest
    /\ faults \in 0..MaxFaults /\ losses \in 0..MaxLosses

IsPrefixOf(d, e) == Len(d) <= Len(e) /\ Prefix(e, Len(d)) = d

\* An acknowledged generation is never lost: whatever processes die, storage
\* fails or power is lost afterwards, the session's head extends it.
AcknowledgedSurvives == IsPrefixOf(acked, HeadDigest)

\* A session can be read at any moment, even while a writer is at work.
AlwaysReadable == Readable

\* No call is answered IntegrityFailure: nothing that a dead or failed attempt
\* leaves behind blocks the calls that follow it.
NeverRefused == \A p \in Procs : ~At(p, "refused")

\* The same of a durable session, which stages every file before its name is
\* seen.
DurableNeverRefused == durable => NeverRefused

\* Every artifact the head lists is whole.
ListedFilesAreWhole == \A x \in Lists(HeadDigest) : Whole(file[Art(x)])

\* What any caller was told is committed survives a loss of power: nothing is
\* acknowledged after a flush, a synchronisation or a rename failed.
ReportedSurvives == IsPrefixOf(reported, HeadDigest)

\* The session implements SessionChain: its chain grows by one generation at a
\* time, and a loss of power drops only generations that were not acknowledged.
Promise == INSTANCE SessionChain WITH chain <- HeadDigest, kept <- Len(acked)

ImplementsSessionChain == Promise!Spec
=============================================================================
