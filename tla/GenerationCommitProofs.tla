----------------------- MODULE GenerationCommitProofs -----------------------
(***************************************************************************)
(* Proofs about GenerationCommit, for every set of processes, operations   *)
(* and artifacts, every capacity and any number of faults and losses of    *)
(* power: the types; that the session can be read at any moment; that what *)
(* was acknowledged is never lost; that listed artifacts are whole; that   *)
(* no call in a durable session is refused; that the session implements    *)
(* SessionChain; and what an ephemeral session tells about failed calls.   *)
(*                                                                         *)
(* A step is described by the names it puts or removes (Quiet, Own): all   *)
(* other files stay as they are, or improve.  One lemma then keeps what is *)
(* said of the head, one what the other calls rely on, and each action is  *)
(* left with its own call.                                                 *)
(***************************************************************************)
EXTENDS GenerationCommit, SequenceTheorems, TLAPS

\* What processes see under a name, or may see after a loss of power.
May(n) == {file[n]} \cup disk[n]

\* The file outlives what may happen to this session.
Solid(f) == f.st = "safe" \/ (~durable /\ f.st = "written")

\* Places of a call: those under the writer lock, of which some are before the
\* pointer is renamed and some after.
Writing    == {"stage", "write", "flush", "rename"}
Before(k)  == \/ k.at \in {"manifest", "sync_generations"}
              \/ k.at \in Writing /\ k.kind \in {"manifest", "pointer"}
Synced(k)  == k.at \in {"confirm", "return"} \/ (k.at \in Writing /\ k.kind = "chain")
After(k)   == k.at \in {"sync_session", "ack_generations", "ack_session"} \/ Synced(k)
Locked(k)  == Before(k) \/ After(k)
Ahead(k)   == k.at \in {"read", "install", "finish", "lock"}
              \/ (k.at \in Writing /\ k.kind \in {"install", "artifact"})

\* The artifact of a call.
Its(k) == ArtifactOf[k.op]

\* What a place says of the kind of file that is written, and of the artifact.
PlaceOf(k) ==
    /\ k.at \in {"stage", "rename"} => k.kind # "install"
    /\ k.at \in {"install", "finish"} => Its(k) # NoArtifact
    /\ k.at \in Writing /\ k.kind \in {"install", "artifact"} => Its(k) # NoArtifact
    /\ k.at \in {"read", "install"} => k.kind = "install"
    /\ Ahead(k) => k.kind \in {"install", "artifact"}
    /\ k.kind = "chain" => k.at \in Writing \cup {"return"}
    /\ durable => k.at # "refused"

PlaceInv == \A p \in Procs : PlaceOf(call[p])

\* The writer lock is held by the process that is past it, and no operation is
\* published by two processes at a time.
LockInv ==
    /\ \A p \in Procs : writer = p <=> Locked(call[p])
    /\ \A p, q \in Procs : p # q /\ ~At(p, "idle") /\ ~At(q, "idle") => call[p].op # call[q].op

\* An ephemeral session has no losses of power.
FlagInv ==
    /\ ~durable => losses = 0 /\ \A n \in Lasting : disk[n] = {}
    /\ \A n \in Names : file[n].st = "safe" => file[n].by = NoProc
    /\ \A n \in Lasting : \A f \in disk[n] : f.st = "safe" => f.by = NoProc

\* What the disk may hold of the head, the manifests below it, the checkpoint
\* and the artifacts the head lists.
HeadInv ==
    /\ \A f \in May(Current) :
           Solid(f) /\ IsPrefixOf(f.body, HeadDigest) /\ IsPrefixOf(acked, f.body)
    /\ \A n \in 0..Len(HeadDigest) : \A f \in May(Gen(n)) :
           Solid(f) /\ f.body = Prefix(HeadDigest, n)
    /\ \A f \in May(Chain) : f = NoFile \/ Solid(f)
    /\ \A f \in May(Chain) : f = NoFile \/ \A h \in May(Current) : IsPrefixOf(f.body, h.body)
    /\ \A x \in Lists(HeadDigest) : \A f \in May(Art(x)) : Solid(f)

\* What a call knows of the head it read or commits.
Knows(k) ==
    /\ Ahead(k) => IsPrefixOf(k.seen, HeadDigest)
    /\ Before(k) => k.seen = Append(HeadDigest, k.op)
    /\ After(k) => k.seen = HeadDigest
    /\ Synced(k) => \A f \in May(Current) : f.body = k.seen

\* What a call knows of the files it writes.
Wrote(p, n) ==
    LET k == call[p] IN
    /\ k.at = "write" => file[n].by = p /\ file[n].st = "partial"
    /\ k.at = "flush" => file[n].by = p /\ file[n].st = "written"
    /\ k.at = "rename" => Solid(file[n])

Has(p) ==
    LET k == call[p]  x == Art(Its(k))  g == Gen(Len(k.seen)) IN
    /\ k.at \in {"write", "flush", "rename"} /\ k.kind # "install" =>
           Wrote(p, StagedName(p)) /\ file[StagedName(p)].body = Bytes(p)
    /\ k.at \in {"write", "flush"} /\ k.kind = "install" => Solid(file[x]) \/ Wrote(p, x)
    /\ k.at = "finish" => Solid(file[x])
    /\ (k.at = "lock" \/ Before(k)) /\ Its(k) # NoArtifact => \A f \in May(x) : Solid(f)
    /\ k.at = "sync_generations" => Solid(file[g]) /\ file[g].body = k.seen
    /\ k.at \in Writing /\ k.kind = "pointer" =>
           \A f \in May(g) : Solid(f) /\ f.body = k.seen

CallInv == \A p \in Procs : Knows(call[p]) /\ Has(p)

IInv == CommitTypeOK /\ PlaceInv /\ LockInv /\ FlagInv /\ HeadInv /\ CallInv

USE CommitProcs, CommitOps, CommitArtifacts, CommitFlags, CommitGenerations, CommitBounds

-----------------------------------------------------------------------------
(* Digests: sequences of operations, ordered by prefix.                    *)

\* A prefix of a digest, operation by operation.
LEMMA PrefixIs ==
  ASSUME NEW d \in Seq(Ops), NEW n \in 0..Len(d)
  PROVE  /\ Prefix(d, n) \in Seq(Ops) /\ Len(Prefix(d, n)) = n
         /\ \A i \in 1..n : Prefix(d, n)[i] = d[i]
BY SubSeqProperties, LenProperties DEF Prefix

\* One digest extends another if it begins with the same operations.
LEMMA PrefixIff ==
  ASSUME NEW d \in Seq(Ops), NEW e \in Seq(Ops)
  PROVE  IsPrefixOf(d, e) <=> Len(d) <= Len(e) /\ \A i \in 1..Len(d) : d[i] = e[i]
<1>0. Len(d) \in Nat /\ Len(e) \in Nat
  BY LenProperties
<1>1. ASSUME IsPrefixOf(d, e) PROVE Len(d) <= Len(e) /\ \A i \in 1..Len(d) : d[i] = e[i]
  BY <1>0, <1>1, PrefixIs DEF IsPrefixOf
<1>2. ASSUME Len(d) <= Len(e), \A i \in 1..Len(d) : d[i] = e[i] PROVE IsPrefixOf(d, e)
  <2>1. Len(d) \in 0..Len(e)
    BY <1>0, <1>2
  <2>2. Prefix(e, Len(d)) \in Seq(Ops) /\ Len(Prefix(e, Len(d))) = Len(d)
        /\ \A i \in 1..Len(d) : Prefix(e, Len(d))[i] = e[i]
    BY <2>1, PrefixIs
  <2>3. Prefix(e, Len(d)) = d
    BY <2>2, <1>2, SeqEqual
  <2> QED  BY <2>3, <1>2 DEF IsPrefixOf
<1> QED  BY <1>1, <1>2

\* Prefixes of the same length of a digest and of what extends it agree.
LEMMA PrefixAgree ==
  ASSUME NEW d \in Seq(Ops), NEW e \in Seq(Ops), IsPrefixOf(d, e), NEW n \in 0..Len(d)
  PROVE  Prefix(d, n) = Prefix(e, n)
<1>0. Len(d) \in Nat /\ Len(e) \in Nat
  BY LenProperties
<1>1. Len(d) <= Len(e) /\ \A i \in 1..Len(d) : d[i] = e[i]
  BY PrefixIff
<1>2. n \in 0..Len(e)
  BY <1>0, <1>1
<1>3. /\ Prefix(d, n) \in Seq(Ops) /\ Prefix(e, n) \in Seq(Ops)
      /\ Len(Prefix(d, n)) = n /\ Len(Prefix(e, n)) = n
  BY <1>2, PrefixIs
<1>4. \A i \in 1..n : Prefix(d, n)[i] = Prefix(e, n)[i]
  BY <1>0, <1>1, <1>2, PrefixIs
<1> QED  BY <1>3, <1>4, SeqEqual

LEMMA PrefixWhole ==
  ASSUME NEW d \in Seq(Ops)
  PROVE  Prefix(d, Len(d)) = d /\ IsPrefixOf(d, d) /\ IsPrefixOf(<<>>, d)
<1>0. Len(d) \in Nat /\ <<>> \in Seq(Ops) /\ Len(<<>>) = 0
  BY LenProperties
<1>2. Len(d) <= Len(d) /\ \A i \in 1..Len(d) : d[i] = d[i]
  BY <1>0
<1>3. Len(<<>>) <= Len(d) /\ \A i \in 1..Len(<<>>) : <<>>[i] = d[i]
  BY <1>0
<1>4. IsPrefixOf(d, d)
  BY <1>2, PrefixIff
<1>5. IsPrefixOf(<<>>, d)
  BY <1>0, <1>3, PrefixIff
<1>1. IsPrefixOf(d, d) /\ IsPrefixOf(<<>>, d)
  BY <1>4, <1>5
<1> QED  BY <1>1 DEF IsPrefixOf

LEMMA PrefixTrans ==
  ASSUME NEW c \in Seq(Ops), NEW d \in Seq(Ops), NEW e \in Seq(Ops),
         IsPrefixOf(c, d), IsPrefixOf(d, e)
  PROVE  IsPrefixOf(c, e)
<1>0. Len(c) \in Nat /\ Len(d) \in Nat /\ Len(e) \in Nat
  BY LenProperties
<1>1. Len(c) <= Len(d) /\ \A i \in 1..Len(c) : c[i] = d[i]
  BY PrefixIff
<1>2. Len(d) <= Len(e) /\ \A i \in 1..Len(d) : d[i] = e[i]
  BY PrefixIff
<1>3. Len(c) <= Len(e) /\ \A i \in 1..Len(c) : c[i] = e[i]
  BY <1>0, <1>1, <1>2
<1> QED  BY <1>3, PrefixIff

\* Of two digests that a third one extends, the longer extends the shorter.
LEMMA PrefixShorter ==
  ASSUME NEW c \in Seq(Ops), NEW d \in Seq(Ops), NEW e \in Seq(Ops),
         IsPrefixOf(c, e), IsPrefixOf(d, e), Len(c) <= Len(d)
  PROVE  IsPrefixOf(c, d)
<1>0. Len(c) \in Nat /\ Len(d) \in Nat /\ Len(e) \in Nat
  BY LenProperties
<1>1. \A i \in 1..Len(c) : c[i] = e[i]
  BY PrefixIff
<1>2. \A i \in 1..Len(d) : d[i] = e[i]
  BY PrefixIff
<1>3. \A i \in 1..Len(c) : c[i] = d[i]
  BY <1>0, <1>1, <1>2
<1> QED  BY <1>3, PrefixIff

\* A prefix taken by length is a prefix.
LEMMA PrefixTaken ==
  ASSUME NEW d \in Seq(Ops), NEW n \in 0..Len(d)
  PROVE  IsPrefixOf(Prefix(d, n), d)
<1>0. Len(d) \in Nat
  BY LenProperties
<1>1. Prefix(d, n) \in Seq(Ops) /\ Len(Prefix(d, n)) = n
      /\ \A i \in 1..n : Prefix(d, n)[i] = d[i]
  BY PrefixIs
<1> QED  BY <1>0, <1>1, PrefixIff

\* A commit extends the head by its operation.
LEMMA PrefixAppend ==
  ASSUME NEW d \in Seq(Ops), NEW o \in Ops
  PROVE  /\ Append(d, o) \in Seq(Ops) /\ Len(Append(d, o)) = Len(d) + 1
         /\ Append(d, o)[Len(d) + 1] = o
         /\ IsPrefixOf(d, Append(d, o))
<1>0. Len(d) \in Nat
  BY LenProperties
<1>1. /\ Append(d, o) \in Seq(Ops) /\ Len(Append(d, o)) = Len(d) + 1
      /\ \A i \in 1..Len(d) : Append(d, o)[i] = d[i]
      /\ Append(d, o)[Len(d) + 1] = o
  BY AppendProperties
<1>2. Len(d) <= Len(Append(d, o)) /\ \A i \in 1..Len(d) : d[i] = Append(d, o)[i]
  BY <1>0, <1>1
<1>3. Append(d, o) \in Seq(Ops)
  BY <1>1
<1>4. IsPrefixOf(d, Append(d, o))
  BY <1>2, <1>3, PrefixIff
<1> QED  BY <1>1, <1>4

\* What a longer history lists.
LEMMA ListsTypes ==
  ASSUME NEW d \in Seq(Ops)
  PROVE  Lists(d) \subseteq Artifacts
<1>1. ASSUME NEW x \in Lists(d) PROVE x \in Artifacts
  <2>1. PICK i \in 1..Len(d) : x = ArtifactOf[d[i]]
    BY <1>1 DEF Lists
  <2>2. d[i] \in Ops
    BY ElementOfSeq
  <2> QED  BY <1>1, <2>1, <2>2 DEF Lists
<1> QED  BY <1>1

LEMMA ListsGrow ==
  ASSUME NEW d \in Seq(Ops), NEW e \in Seq(Ops), IsPrefixOf(d, e)
  PROVE  Lists(d) \subseteq Lists(e)
<1>0. Len(d) \in Nat /\ Len(e) \in Nat
  BY LenProperties
<1>1. Len(d) <= Len(e) /\ \A i \in 1..Len(d) : d[i] = e[i]
  BY PrefixIff
<1>2. \A i \in 1..Len(d) : i \in 1..Len(e)
  BY <1>0, <1>1
<1> QED  BY <1>1, <1>2 DEF Lists

LEMMA ListsAppend ==
  ASSUME NEW d \in Seq(Ops), NEW o \in Ops, NEW x \in Lists(Append(d, o))
  PROVE  x \in Lists(d) \/ (x = ArtifactOf[o] /\ x # NoArtifact)
<1>0. Len(d) \in Nat
  BY LenProperties
<1>1. /\ Len(Append(d, o)) = Len(d) + 1
      /\ \A i \in 1..Len(d) : Append(d, o)[i] = d[i]
      /\ Append(d, o)[Len(d) + 1] = o
  BY AppendProperties
<1>2. PICK i \in 1..Len(Append(d, o)) : x = ArtifactOf[Append(d, o)[i]]
  BY DEF Lists
<1>3. x # NoArtifact
  BY DEF Lists
<1>4. i \in 1..Len(d) \/ i = Len(d) + 1
  BY <1>0, <1>1, <1>2
<1>5. CASE i \in 1..Len(d)
  BY <1>1, <1>2, <1>3, <1>5 DEF Lists
<1>6. CASE i = Len(d) + 1
  BY <1>1, <1>2, <1>3, <1>6
<1> QED  BY <1>4, <1>5, <1>6

-----------------------------------------------------------------------------
(* Names: which last, and that they differ.                                *)

LEMMA NamesLast ==
  /\ Current \in Lasting /\ Chain \in Lasting
  /\ \A n \in 0..MAX_GENERATIONS - 1 : Gen(n) \in Lasting
  /\ \A x \in Artifacts : Art(x) \in Lasting
  /\ Lasting \subseteq Names
<1>1. /\ NamesIn("session") = {Current, Chain}
      /\ NamesIn("generations") = {Gen(n) : n \in 0..MAX_GENERATIONS - 1}
      /\ NamesIn("artifacts") = {Art(x) : x \in Artifacts}
  BY DEF NamesIn
<1>2. /\ NamesIn("session") \subseteq Lasting /\ NamesIn("generations") \subseteq Lasting
      /\ NamesIn("artifacts") \subseteq Lasting
  BY DEF Lasting
<1> QED  BY <1>1, <1>2 DEF Names

LEMMA NamesStaged ==
  \A k \in Kinds, o \in Ops : Staged(k, o) \in Names
<1>1. NamesIn("attempts") = {Staged(k, o) : k \in Kinds, o \in Ops}
  BY DEF NamesIn
<1> QED  BY <1>1 DEF Names

LEMMA NamesDiffer ==
  /\ Current # Chain
  /\ \A n : Gen(n) # Current /\ Gen(n) # Chain
  /\ \A x : Art(x) # Current /\ Art(x) # Chain
  /\ \A n, x : Gen(n) # Art(x)
  /\ \A m, n : Gen(m) = Gen(n) => m = n
  /\ \A x, y : Art(x) = Art(y) => x = y
BY DEF Current, Chain, Gen, Art

LEMMA StagedDiffer ==
  /\ \A k, o : Staged(k, o) # Current /\ Staged(k, o) # Chain
  /\ \A k, o, n : Staged(k, o) # Gen(n)
  /\ \A k, o, x : Staged(k, o) # Art(x)
  /\ \A j, k, o, q : Staged(j, o) = Staged(k, q) => o = q
BY DEF Current, Chain, Gen, Art, Staged

\* Each name that lasts is in one directory.
LEMMA NamesInOne ==
  /\ NamesIn("session") = {Current, Chain}
  /\ NamesIn("generations") = {Gen(n) : n \in 0..MAX_GENERATIONS - 1}
  /\ NamesIn("artifacts") = {Art(x) : x \in Artifacts}
  /\ Lasting = NamesIn("session") \cup NamesIn("generations") \cup NamesIn("artifacts")
<1>1. /\ NamesIn("session") = {Current, Chain}
      /\ NamesIn("generations") = {Gen(n) : n \in 0..MAX_GENERATIONS - 1}
      /\ NamesIn("artifacts") = {Art(x) : x \in Artifacts}
  BY DEF NamesIn
<1>2. Lasting = NamesIn("session") \cup NamesIn("generations") \cup NamesIn("artifacts")
  BY DEF Lasting
<1> QED  BY <1>1, <1>2

-----------------------------------------------------------------------------
(* Filesystem operations, by what they leave of each file.                 *)

FsType ==
    /\ file \in [Names -> File]
    /\ DOMAIN disk = Lasting
    /\ \A n \in Lasting : \A f \in disk[n] : f \in File

\* g is what has become of the file f.
Like(g, f) == g.body = f.body /\ (Solid(f) => Solid(g)) /\ (f = NoFile => g = NoFile)

\* A step of p keeps every file outside S, or improves one it has open.
Quiet(p, S) ==
    /\ \A n \in Names \ S : Like(file'[n], file[n]) /\ (file[n].by # p => file'[n] = file[n])
    /\ \A n \in Lasting \ S : \A g \in May(n)' : \E f \in May(n) : Like(g, f)

LEMMA FileFacts ==
  ASSUME NEW f \in File
  PROVE  /\ f.body \in Seq(Ops) /\ Len(f.body) \in 0..MAX_GENERATIONS - 1
         /\ f.st \in {"none", "partial", "written", "safe"} /\ f.by \in Procs \cup {NoProc}
<1>1. f.body \in Digest
  BY DEF File
<1>2. f.body \in Seq(Ops) /\ Len(f.body) < MAX_GENERATIONS
  BY <1>1 DEF Digest
<1>3. Len(f.body) \in Nat
  BY <1>2, LenProperties
<1> QED  BY <1>2, <1>3 DEF File

LEMMA NoFileIs ==
  NoFile \in File /\ NoFile.body = <<>> /\ NoFile.st = "none" /\ NoFile.by = NoProc
<1>1. <<>> \in Digest
  BY DEF Digest
<1> QED  BY <1>1 DEF NoFile, File

LEMMA Alike ==
  \A f : Like(f, f)
BY DEF Like

LEMMA TouchedIs ==
  ASSUME NEW f \in File, NEW p \in Procs, NEW st \in {"written", "safe"},
         NEW by \in Procs \cup {NoProc}
  PROVE  /\ Touched(f, p, st, by) \in File /\ Touched(f, p, st, by).body = f.body
         /\ f.by # p => Touched(f, p, st, by) = f
         /\ f.by = p => Touched(f, p, st, by).st = st /\ Touched(f, p, st, by).by = by
BY DEF Touched, File

LEMMA ClosedIs ==
  ASSUME NEW f \in File, NEW p \in Procs
  PROVE  /\ Closed(f, p) \in File /\ Closed(f, p).body = f.body /\ Closed(f, p).st = f.st
         /\ f.by # p => Closed(f, p) = f
         /\ f.by = p => Closed(f, p).by = NoProc
BY DEF Closed, File

\* What is solid stays so when another process, or nobody, has it open.
LEMMA TouchedLike ==
  ASSUME NEW f \in File, NEW p \in Procs, NEW st \in {"written", "safe"},
         NEW by \in Procs \cup {NoProc}, f.st = "safe" => f.by = NoProc
  PROVE  Like(Touched(f, p, st, by), f)
<1>0. /\ Touched(f, p, st, by).body = f.body
      /\ f.by # p => Touched(f, p, st, by) = f
      /\ f.by = p => Touched(f, p, st, by).st = st
  BY DEF Touched, File
<1>1. CASE f.by # p
  BY <1>0, <1>1, Alike
<1>2. CASE f.by = p
  <2>1. f.st # "safe" /\ f # NoFile
    BY <1>2, NoFileIs
  <2>2. Touched(f, p, st, by).body = f.body /\ Touched(f, p, st, by).st = st
    BY <1>0, <1>2
  <2> QED  BY <2>1, <2>2 DEF Like, Solid
<1> QED  BY <1>1, <1>2

LEMMA ClosedLike ==
  ASSUME NEW f \in File, NEW p \in Procs
  PROVE  Like(Closed(f, p), f)
<1>1. CASE f.by # p
  BY <1>1, ClosedIs, Alike
<1>2. CASE f.by = p
  <2>1. f # NoFile
    BY <1>2, NoFileIs
  <2>2. Closed(f, p).body = f.body /\ Closed(f, p).st = f.st
    BY ClosedIs
  <2> QED  BY <2>1, <2>2 DEF Like, Solid
<1> QED  BY <1>1, <1>2

LEMMA QuietKept ==
  ASSUME NEW p, UNCHANGED fsVars
  PROVE  Quiet(p, {})
BY Alike DEF Quiet, May, fsVars

LEMMA QuietTouch ==
  ASSUME FsType, FlagInv, UNCHANGED <<durable, losses>>, NEW p \in Procs,
         NEW st, NEW by, (st = "written" /\ by = p) \/ (st = "safe" /\ by = NoProc),
         Touch(p, st, by)
  PROVE  /\ FsType' /\ FlagInv' /\ Quiet(p, {})
         /\ \A n \in Names : file'[n] = Touched(file[n], p, st, by)
<1>0. st \in {"written", "safe"} /\ by \in Procs \cup {NoProc} /\ (st = "safe" => by = NoProc)
  OBVIOUS
<1>1. file' = [n \in Names |-> Touched(file[n], p, st, by)]
  BY DEF Touch
<1>2. disk' = IF losses > 0 THEN [n \in Lasting |-> {Touched(f, p, st, by) : f \in disk[n]}]
                            ELSE [n \in Lasting |-> {}]
  BY DEF Touch, OnDisk
<1>3. \A n \in Lasting : \A g \in disk'[n] : \E f \in disk[n] : g = Touched(f, p, st, by)
  BY <1>2
<1>4. DOMAIN disk' = Lasting
  BY <1>2
<1>5. \A n \in Names : file[n] \in File /\ file'[n] = Touched(file[n], p, st, by)
  BY <1>1 DEF FsType
<1>6. Lasting \subseteq Names
  BY NamesLast
<1>7. ASSUME NEW f \in File, f.st = "safe" => f.by = NoProc
      PROVE  /\ Touched(f, p, st, by) \in File
             /\ Touched(f, p, st, by).st = "safe" => Touched(f, p, st, by).by = NoProc
             /\ Like(Touched(f, p, st, by), f)
  <2>1. CASE f.by = p
    BY <1>0, <1>7, <2>1, TouchedIs, TouchedLike
  <2>2. CASE f.by # p
    BY <1>0, <1>7, <2>2, TouchedIs, TouchedLike
  <2> QED  BY <2>1, <2>2
<1>8. FsType'
  <2>1. file' \in [Names -> File]
    BY <1>1, <1>5, <1>7 DEF FlagInv
  <2>2. ASSUME NEW n \in Lasting, NEW g \in disk'[n] PROVE g \in File
    BY <1>3, <1>7, <2>2 DEF FsType, FlagInv
  <2> QED  BY <2>1, <2>2, <1>4 DEF FsType
<1>9. FlagInv'
  <2>1. ~durable => losses = 0 /\ \A n \in Lasting : disk'[n] = {}
    BY <1>2 DEF FlagInv
  <2>2. ASSUME NEW n \in Names PROVE file'[n].st = "safe" => file'[n].by = NoProc
    BY <1>5, <1>7 DEF FlagInv
  <2>3. ASSUME NEW n \in Lasting, NEW g \in disk'[n] PROVE g.st = "safe" => g.by = NoProc
    BY <1>3, <1>7, <2>3 DEF FsType, FlagInv
  <2> QED  BY <2>1, <2>2, <2>3 DEF FlagInv
<1>10. Quiet(p, {})
  <2>1. ASSUME NEW n \in Names
        PROVE  Like(file'[n], file[n]) /\ (file[n].by # p => file'[n] = file[n])
    <3>1. Like(file'[n], file[n])
      BY <1>5, <1>7 DEF FlagInv
    <3>2. file[n].by # p => file'[n] = file[n]
      BY <1>0, <1>5, TouchedIs
    <3> QED  BY <3>1, <3>2
  <2>2. ASSUME NEW n \in Lasting, NEW g \in May(n)'  PROVE \E f \in May(n) : Like(g, f)
    <3>1. CASE g = file'[n]
      BY <3>1, <2>1, <1>6 DEF May
    <3>2. CASE g \in disk'[n]
      BY <3>2, <1>3, <1>7 DEF May, FsType, FlagInv
    <3> QED  BY <3>1, <3>2, <2>2 DEF May
  <2> QED  BY <2>1, <2>2 DEF Quiet
<1> QED  BY <1>5, <1>8, <1>9, <1>10

LEMMA QuietClose ==
  ASSUME FsType, FlagInv, UNCHANGED <<durable, losses>>, NEW p \in Procs, Close(p)
  PROVE  FsType' /\ FlagInv' /\ Quiet(p, {})
<1>1. file' = [n \in Names |-> Closed(file[n], p)]
  BY DEF Close
<1>2. disk' = IF losses > 0 THEN [n \in Lasting |-> {Closed(f, p) : f \in disk[n]}]
                            ELSE [n \in Lasting |-> {}]
  BY DEF Close, OnDisk
<1>3. \A n \in Lasting : \A g \in disk'[n] : \E f \in disk[n] : g = Closed(f, p)
  BY <1>2
<1>4. DOMAIN disk' = Lasting
  BY <1>2
<1>5. \A n \in Names : file[n] \in File /\ file'[n] = Closed(file[n], p)
  BY <1>1 DEF FsType
<1>6. Lasting \subseteq Names
  BY NamesLast
<1>7. ASSUME NEW f \in File, f.st = "safe" => f.by = NoProc
      PROVE  /\ Closed(f, p) \in File
             /\ Closed(f, p).st = "safe" => Closed(f, p).by = NoProc
             /\ Like(Closed(f, p), f)
  <2>1. CASE f.by = p
    BY <1>7, <2>1, ClosedIs, ClosedLike
  <2>2. CASE f.by # p
    BY <1>7, <2>2, ClosedIs, ClosedLike
  <2> QED  BY <2>1, <2>2
<1>8. FsType'
  <2>1. file' \in [Names -> File]
    BY <1>1, <1>5, <1>7 DEF FlagInv
  <2>2. ASSUME NEW n \in Lasting, NEW g \in disk'[n] PROVE g \in File
    BY <1>3, <1>7, <2>2 DEF FsType, FlagInv
  <2> QED  BY <2>1, <2>2, <1>4 DEF FsType
<1>9. FlagInv'
  <2>1. ~durable => losses = 0 /\ \A n \in Lasting : disk'[n] = {}
    BY <1>2 DEF FlagInv
  <2>2. ASSUME NEW n \in Names PROVE file'[n].st = "safe" => file'[n].by = NoProc
    BY <1>5, <1>7 DEF FlagInv
  <2>3. ASSUME NEW n \in Lasting, NEW g \in disk'[n] PROVE g.st = "safe" => g.by = NoProc
    BY <1>3, <1>7, <2>3 DEF FsType, FlagInv
  <2> QED  BY <2>1, <2>2, <2>3 DEF FlagInv
<1>10. Quiet(p, {})
  <2>1. ASSUME NEW n \in Names
        PROVE  Like(file'[n], file[n]) /\ (file[n].by # p => file'[n] = file[n])
    <3>1. Like(file'[n], file[n])
      BY <1>5, <1>7 DEF FlagInv
    <3>2. file[n].by # p => file'[n] = file[n]
      BY <1>5, ClosedIs
    <3> QED  BY <3>1, <3>2
  <2>2. ASSUME NEW n \in Lasting, NEW g \in May(n)'  PROVE \E f \in May(n) : Like(g, f)
    <3>1. CASE g = file'[n]
      BY <3>1, <2>1, <1>6 DEF May
    <3>2. CASE g \in disk'[n]
      BY <3>2, <1>3, <1>7 DEF May, FsType, FlagInv
    <3> QED  BY <3>1, <3>2, <2>2 DEF May
  <2> QED  BY <2>1, <2>2 DEF Quiet
<1> QED  BY <1>8, <1>9, <1>10

\* A synchronisation leaves one file to each name of its directory.
LEMMA QuietSync ==
  ASSUME FsType, FlagInv, UNCHANGED <<durable, losses>>, NEW p,
         NEW dir \in {"session", "generations", "artifacts"}, sync_directory(dir)
  PROVE  /\ FsType' /\ FlagInv' /\ Quiet(p, {}) /\ UNCHANGED file
         /\ \A n \in NamesIn(dir) : May(n)' = {file[n]}
<1>0. NamesIn(dir) \subseteq Lasting /\ Lasting \subseteq Names
  BY NamesLast DEF Lasting
<1>1. file' = file
  BY DEF sync_directory
<1>2. CASE durable
  <2>1. disk' = IF losses > 0 THEN [n \in Lasting |-> IF n \in NamesIn(dir) THEN {file[n]}
                                                      ELSE disk[n]]
                              ELSE [n \in Lasting |-> {}]
    BY <1>2 DEF sync_directory, OnDisk
  <2>2. \A n \in NamesIn(dir) : disk'[n] \subseteq {file[n]}
    BY <2>1, <1>0
  <2>3. \A n \in Lasting : disk'[n] \subseteq May(n)
    BY <2>1, <1>0 DEF May
  <2>4. DOMAIN disk' = Lasting
    BY <2>1
  <2>5. \A n \in Lasting : \A f \in May(n) : f \in File /\ (f.st = "safe" => f.by = NoProc)
    BY <1>0 DEF May, FsType, FlagInv
  <2>6. FsType' /\ FlagInv'
    BY <1>1, <1>2, <2>3, <2>4, <2>5 DEF FsType, FlagInv
  <2>7. \A n \in NamesIn(dir) : May(n)' = {file[n]}
    BY <1>1, <2>2 DEF May
  <2>8. \A n \in Lasting : \A g \in May(n)' : g \in May(n)
    BY <1>1, <2>3 DEF May
  <2>9. Quiet(p, {})
    BY <1>1, <2>8, Alike DEF Quiet
  <2> QED  BY <1>1, <2>6, <2>7, <2>9
<1>3. CASE ~durable
  <2>1. disk' = disk
    BY <1>3 DEF sync_directory
  <2>2. FsType' /\ FlagInv'
    BY <1>1, <2>1 DEF FsType, FlagInv
  <2>3. \A n \in NamesIn(dir) : disk[n] = {}
    BY <1>0, <1>3 DEF FlagInv
  <2>4. \A n \in NamesIn(dir) : May(n)' = {file[n]}
    BY <1>1, <2>1, <2>3 DEF May
  <2>5. Quiet(p, {})
    BY <1>1, <2>1, QuietKept DEF fsVars
  <2> QED  BY <1>1, <2>2, <2>4, <2>5
<1> QED  BY <1>2, <1>3

\* A file appears under one name and some staged file goes.
LEMMA QuietPut ==
  ASSUME FsType, FlagInv, UNCHANGED <<durable, losses>>, NEW p,
         NEW f \in File, f.st = "safe" => f.by = NoProc,
         NEW at \in Names, NEW gone, gone \cap Lasting = {}, at \notin gone, Put(f, at, gone)
  PROVE  /\ FsType' /\ FlagInv' /\ Quiet(p, {at} \cup gone) /\ file'[at] = f
         /\ at \in Lasting => \A g \in May(at)' : g = f \/ g \in May(at)
<1>0. Lasting \subseteq Names
  BY NamesLast
<1>1. file' = [n \in Names |-> IF n = at THEN f ELSE IF n \in gone THEN NoFile ELSE file[n]]
  BY DEF Put
<1>2. disk' = IF losses > 0 THEN [n \in Lasting |-> IF n = at THEN disk[n] \cup {f} ELSE disk[n]]
                            ELSE [n \in Lasting |-> {}]
  BY DEF Put, OnDisk
<1>3. DOMAIN disk' = Lasting
  BY <1>2
<1>4. \A n \in Lasting : \A g \in disk'[n] : (n = at /\ g = f) \/ g \in disk[n]
  BY <1>2
<1>5. \A n \in Names : file'[n] = f \/ file'[n] = NoFile \/ file'[n] = file[n]
  BY <1>1
<1>6. FsType'
  <2>1. \A n \in Names : file'[n] \in File
    BY <1>5, NoFileIs DEF FsType
  <2>2. file' \in [Names -> File]
    BY <1>1, <2>1
  <2> QED  BY <2>2, <1>3, <1>4 DEF FsType
<1>7. FlagInv'
  <2>1. ~durable => losses = 0 /\ \A n \in Lasting : disk'[n] = {}
    BY <1>2 DEF FlagInv
  <2>2. ASSUME NEW n \in Names PROVE file'[n].st = "safe" => file'[n].by = NoProc
    BY <1>5, NoFileIs DEF FlagInv
  <2>3. ASSUME NEW n \in Lasting, NEW g \in disk'[n] PROVE g.st = "safe" => g.by = NoProc
    BY <1>4, <2>3 DEF FlagInv
  <2> QED  BY <2>1, <2>2, <2>3 DEF FlagInv
<1>8. \A n \in Names \ ({at} \cup gone) : file'[n] = file[n]
  BY <1>1
<1>9. \A n \in Lasting \ ({at} \cup gone) : \A g \in May(n)' : g \in May(n)
  BY <1>0, <1>4, <1>8 DEF May
<1>10. Quiet(p, {at} \cup gone)
  BY <1>8, <1>9, Alike DEF Quiet
<1>11. file'[at] = f
  BY <1>1
<1>12. at \in Lasting => \A g \in May(at)' : g = f \/ g \in May(at)
  BY <1>4, <1>11 DEF May
<1> QED  BY <1>6, <1>7, <1>10, <1>11, <1>12

-----------------------------------------------------------------------------
(* What a quiet step keeps of the head, and of the other calls.            *)

LEMMA TypeFacts ==
  ASSUME CommitTypeOK
  PROVE  /\ FsType
         /\ HeadDigest \in Seq(Ops) /\ Len(HeadDigest) \in 0..MAX_GENERATIONS - 1
         /\ acked \in Seq(Ops)
         /\ file[Current] \in File /\ file[Chain] \in File
         /\ \A p \in Procs : call[p] \in Call
<1>1. FsType
  BY DEF CommitTypeOK, FsType
<1>2. file[Current] \in File /\ file[Chain] \in File
  BY <1>1, NamesLast DEF FsType
<1>3. HeadDigest \in Seq(Ops) /\ Len(HeadDigest) \in 0..MAX_GENERATIONS - 1
  BY <1>2, FileFacts DEF HeadDigest
<1>4. acked \in Seq(Ops) /\ \A p \in Procs : call[p] \in Call
  BY DEF CommitTypeOK, Digest
<1> QED  BY <1>1, <1>2, <1>3, <1>4

LEMMA CallFacts ==
  ASSUME NEW k \in Call
  PROVE  /\ k.at \in Place /\ k.op \in Ops /\ k.kind \in Kinds \cup {"install"}
         /\ k.expected \in 0..MAX_GENERATIONS - 1
         /\ k.seen \in Seq(Ops) /\ Len(k.seen) \in 0..MAX_GENERATIONS - 1
         /\ Its(k) \in Artifacts \cup {NoArtifact}
<1>1. k.seen \in Digest /\ k.op \in Ops
  BY DEF Call
<1>2. k.seen \in Seq(Ops) /\ Len(k.seen) < MAX_GENERATIONS
  BY <1>1 DEF Digest
<1>3. Len(k.seen) \in Nat
  BY <1>2, LenProperties
<1>4. Len(k.seen) \in 0..MAX_GENERATIONS - 1
  BY <1>2, <1>3
<1>5. Its(k) \in Artifacts \cup {NoArtifact}
  BY <1>1 DEF Its
<1> QED  BY <1>1, <1>2, <1>4, <1>5 DEF Call

LEMMA NotSolidMissing ==
  ~Solid(NoFile)
BY NoFileIs DEF Solid

\* What p's step puts or removes is p's alone, or above the head, or an artifact
\* that was missing or becomes solid.
Own(p, S) ==
    /\ Current \notin S /\ Chain \notin S
    /\ \A n : Gen(n) \in S => Locked(call[p]) /\ n = Len(HeadDigest) + 1
    /\ \A k, o : Staged(k, o) \in S => o = call[p].op
    /\ \A x \in Artifacts : Art(x) \in S =>
           \/ file[Art(x)] = NoFile
           \/ /\ Solid(file'[Art(x)])
              /\ \A g \in May(Art(x))' : Solid(g) \/ g \in May(Art(x))
    /\ S # {} => ~At(p, "idle")

HeadsKept ==
    /\ HeadDigest' = HeadDigest
    /\ \A h \in May(Current)' : \E f \in May(Current) : h.body = f.body

LEMMA QuietHeads ==
  ASSUME NEW p, NEW S, Quiet(p, S), Current \notin S
  PROVE  HeadsKept
<1>1. Current \in Names \ S /\ Current \in Lasting \ S
  BY NamesLast
<1>2. Like(file'[Current], file[Current])
  BY <1>1 DEF Quiet
<1>3. \A h \in May(Current)' : \E f \in May(Current) : Like(h, f)
  BY <1>1 DEF Quiet
<1> QED  BY <1>2, <1>3 DEF HeadsKept, HeadDigest, Like

LEMMA QuietHeadInv ==
  ASSUME CommitTypeOK, HeadInv, UNCHANGED <<durable, acked>>, NEW p, NEW S, Quiet(p, S), Own(p, S)
  PROVE  HeadInv'
<1>0. /\ HeadDigest \in Seq(Ops) /\ Len(HeadDigest) \in 0..MAX_GENERATIONS - 1
      /\ HeadDigest' = HeadDigest
  BY TypeFacts, QuietHeads DEF Own, HeadsKept
<1>1. Current \in Lasting \ S /\ Chain \in Lasting \ S
  BY NamesLast DEF Own
<1>2. \A n \in 0..Len(HeadDigest) : Gen(n) \in Lasting \ S
  <2>1. ASSUME NEW n \in 0..Len(HeadDigest) PROVE Gen(n) \in Lasting \ S
    <3>1. n # Len(HeadDigest) + 1 /\ n \in 0..MAX_GENERATIONS - 1
      BY <1>0
    <3> QED  BY <3>1, NamesLast DEF Own
  <2> QED  BY <2>1
<1>3. \A n \in Lasting \ S : \A g \in May(n)' : \E f \in May(n) : Like(g, f)
  BY DEF Quiet
<1>4. \A f \in May(Current)' :
          Solid(f)' /\ IsPrefixOf(f.body, HeadDigest') /\ IsPrefixOf(acked', f.body)
  BY <1>0, <1>1, <1>3 DEF HeadInv, Like, Solid
<1>5. \A n \in 0..Len(HeadDigest) : \A f \in May(Gen(n))' :
          Solid(f)' /\ f.body = Prefix(HeadDigest, n)
  BY <1>2, <1>3 DEF HeadInv, Like, Solid
<1>6. \A f \in May(Chain)' : f = NoFile \/ Solid(f)'
  BY <1>1, <1>3 DEF HeadInv, Like, Solid
<1>7. \A f \in May(Chain)' : f = NoFile \/ \A h \in May(Current)' : IsPrefixOf(f.body, h.body)
  BY <1>1, <1>3 DEF HeadInv, Like
<1>8. \A x \in Lists(HeadDigest) : \A f \in May(Art(x))' : Solid(f)'
  <2>1. ASSUME NEW x \in Lists(HeadDigest), NEW f \in May(Art(x))' PROVE Solid(f)
    <3>0. x \in Artifacts /\ Art(x) \in Lasting
      BY <1>0, ListsTypes, NamesLast
    <3>1. \A g \in May(Art(x)) : Solid(g)
      BY DEF HeadInv
    <3>2. CASE Art(x) \notin S
      BY <3>0, <3>1, <3>2, <2>1, <1>3 DEF Like
    <3>3. CASE Art(x) \in S
      <4>1. file[Art(x)] # NoFile
        BY <3>1, NotSolidMissing DEF May
      <4> QED  BY <3>0, <3>1, <3>3, <4>1, <2>1 DEF Own
    <3> QED  BY <3>2, <3>3
  <2> QED  BY <2>1 DEF Solid
<1> QED  BY <1>0, <1>4, <1>5, <1>6, <1>7, <1>8 DEF HeadInv

\* Another call still knows what it knew of its files.
LEMMA OthersHave ==
  ASSUME CommitTypeOK, PlaceInv, LockInv, UNCHANGED durable,
         NEW p \in Procs, NEW q \in Procs, q # p, call'[q] = call[q], Has(q),
         NEW S, Quiet(p, S),
         \A n : Gen(n) \in S => Locked(call[p]),
         \A k, o : Staged(k, o) \in S => o = call[p].op,
         \A x \in Artifacts : Art(x) \in S =>
             \/ file[Art(x)] = NoFile
             \/ /\ Solid(file'[Art(x)])
                /\ \A g \in May(Art(x))' : Solid(g) \/ g \in May(Art(x)),
         S # {} => ~At(p, "idle")
  PROVE  Has(q)'
<1>k. PICK k : k = call[q]
  OBVIOUS
<1>x. PICK x : x = Art(Its(call[q]))
  OBVIOUS
<1>g. PICK g : g = Gen(Len(call[q].seen))
  OBVIOUS
<1>s. PICK s : s = StagedName(q)
  OBVIOUS
<1>0. /\ k.at \in Place /\ k.op \in Ops /\ k.kind \in Kinds \cup {"install"}
      /\ Len(k.seen) \in 0..MAX_GENERATIONS - 1 /\ Its(k) \in Artifacts \cup {NoArtifact}
      /\ PlaceOf(k)
  BY TypeFacts, CallFacts, <1>k DEF PlaceInv
<1>1. Locked(k) => ~Locked(call[p])
  BY <1>k DEF LockInv
<1>2. StagedName(q)' = s /\ Bytes(q)' = Bytes(q) /\ Its(call[q])' = Its(k)
  BY <1>k, <1>s DEF StagedName, Bytes, Its
<1>3. ASSUME k.at # "idle", k.kind # "install"
      PROVE  Like(file'[s], file[s]) /\ (file[s].by = q => file'[s] = file[s])
  <2>1. s \in Names
    BY <1>0, <1>3, NamesStaged, <1>s, <1>k DEF StagedName
  <2>2. s \notin S
    <3>1. SUFFICES ASSUME s \in S PROVE FALSE
      OBVIOUS
    <3>2. ~At(p, "idle") /\ ~At(q, "idle")
      BY <3>1, <1>3, <1>k DEF At
    <3>3. call[p].op # call[q].op
      BY <3>2 DEF LockInv
    <3> QED  BY <3>1, <3>3, <1>s DEF StagedName
  <2> QED  BY <2>1, <2>2 DEF Quiet
<1>4. ASSUME Its(k) # NoArtifact, file[x] # NoFile
      PROVE  /\ Solid(file[x]) => Solid(file'[x])
             /\ file[x].by = q => file'[x] = file[x] \/ Solid(file'[x])
             /\ (\A f \in May(x) : Solid(f)) => \A f \in May(x)' : Solid(f)
  <2>0. Its(k) \in Artifacts /\ x \in Lasting /\ x \in Names
    BY <1>0, <1>4, NamesLast, <1>x, <1>k
  <2>1. CASE x \in S
    BY <2>0, <2>1, <1>4, <1>x, <1>k
  <2>2. CASE x \notin S
    BY <2>0, <2>2 DEF Quiet, Like
  <2> QED  BY <2>1, <2>2
<1>5. ASSUME Locked(k)
      PROVE  Like(file'[g], file[g]) /\ \A h \in May(g)' : \E f \in May(g) : Like(h, f)
  <2>1. g \in Lasting /\ g \in Names
    BY <1>0, NamesLast, <1>g, <1>k
  <2>2. g \notin S
    BY <1>1, <1>5, <1>g
  <2> QED  BY <2>1, <2>2 DEF Quiet
<1>6. ASSUME k.at \in {"write", "flush", "rename"}, k.kind # "install"
      PROVE  (Wrote(q, StagedName(q)) /\ file[StagedName(q)].body = Bytes(q))'
  <2>1. Wrote(q, s) /\ file[s].body = Bytes(q)
    BY <1>6, <1>k, <1>s DEF Has
  <2>2. Like(file'[s], file[s]) /\ (file[s].by = q => file'[s] = file[s])
    BY <1>3, <1>6
  <2>3. /\ k.at = "write" => file'[s].by = q /\ file'[s].st = "partial"
        /\ k.at = "flush" => file'[s].by = q /\ file'[s].st = "written"
        /\ k.at = "rename" => Solid(file'[s])
        /\ file'[s].body = Bytes(q)
    BY <2>1, <2>2, <1>k DEF Wrote, Like
  <2> QED  BY <1>2, <2>3, <1>k DEF Wrote, Solid
<1>7. ASSUME k.at \in {"write", "flush"}, k.kind = "install"
      PROVE  Solid(file'[x]) \/ Wrote(q, x)'
  <2>1. Its(k) # NoArtifact
    BY <1>0, <1>7 DEF PlaceOf, Writing
  <2>2. Solid(file[x]) \/ Wrote(q, x)
    BY <1>7, <1>k, <1>x DEF Has
  <2>3. file[x] # NoFile
    BY <2>2, <1>7, NoFileIs, NotSolidMissing, <1>k DEF Wrote
  <2>4. CASE Solid(file[x])
    BY <2>1, <2>3, <2>4, <1>4
  <2>5. CASE Wrote(q, x)
    <3>1. file[x].by = q
      BY <2>5, <1>7, <1>k DEF Wrote
    <3>2. file'[x] = file[x] \/ Solid(file'[x])
      BY <3>1, <2>1, <2>3, <1>4
    <3> QED  BY <2>5, <3>2, <1>7, <1>k DEF Wrote
  <2> QED  BY <2>2, <2>4, <2>5
<1>8. ASSUME k.at = "finish" PROVE Solid(file'[x])
  <2>1. Its(k) # NoArtifact /\ Solid(file[x])
    BY <1>0, <1>8, <1>k, <1>x DEF PlaceOf, Has
  <2> QED  BY <2>1, <1>4, NotSolidMissing
<1>9. ASSUME k.at = "lock" \/ Before(k), Its(k) # NoArtifact
      PROVE  \A f \in May(x)' : Solid(f)
  <2>1. \A f \in May(x) : Solid(f)
    BY <1>9, <1>k, <1>x DEF Has
  <2>2. file[x] # NoFile
    BY <2>1, NotSolidMissing DEF May
  <2> QED  BY <2>1, <2>2, <1>9, <1>4
<1>10. ASSUME k.at = "sync_generations" PROVE Solid(file'[g]) /\ file'[g].body = k.seen
  <2>1. Locked(k) /\ Solid(file[g]) /\ file[g].body = k.seen
    BY <1>10, <1>k, <1>g DEF Has, Locked, Before
  <2> QED  BY <2>1, <1>5 DEF Like
<1>11. ASSUME k.at \in Writing, k.kind = "pointer"
       PROVE  \A f \in May(g)' : Solid(f) /\ f.body = k.seen
  <2>1. Locked(k) /\ \A f \in May(g) : Solid(f) /\ f.body = k.seen
    BY <1>11, <1>k, <1>g DEF Has, Locked, Before
  <2> QED  BY <2>1, <1>5 DEF Like
<1>12. /\ call'[q] = k /\ Art(Its(call'[q])) = x /\ Gen(Len(call'[q].seen)) = g
  BY <1>k, <1>x, <1>g DEF Its
<1>13. \A f : Solid(f)' = Solid(f)
  BY DEF Solid
<1> QED  BY <1>2, <1>6, <1>7, <1>8, <1>9, <1>10, <1>11, <1>12, <1>13 DEF Has, Before, Its

\* Another call still knows what it knew of the head.
LEMMA OthersKnow ==
  ASSUME NEW q \in Procs, call'[q] = call[q], Knows(call[q]), HeadsKept
  PROVE  Knows(call[q])'
BY DEF Knows, HeadsKept, Ahead, Before, After, Synced, Writing

-----------------------------------------------------------------------------
(* How a call changes, and that a step of one process keeps the invariant. *)

Others(p) == \A q \in Procs \ {p} : call'[q] = call[q]

\* p's call goes on with the same operation and head.
Turns(p, place, kind) ==
    /\ call' \in [Procs -> Call] /\ Others(p)
    /\ call'[p].at = place /\ call'[p].kind = kind
    /\ call'[p].op = call[p].op /\ call'[p].seen = call[p].seen

LEMMA GotoTurns ==
  ASSUME CommitTypeOK, NEW p \in Procs, NEW place \in Place, Goto(p, place)
  PROVE  Turns(p, place, call[p].kind)
<1>1. call \in [Procs -> Call] /\ call' = [call EXCEPT ![p] = [call[p] EXCEPT !.at = place]]
  BY DEF CommitTypeOK, Goto
<1>2. call[p] \in Call
  BY <1>1
<1>3. [call[p] EXCEPT !.at = place] \in Call
  BY <1>2 DEF Call
<1>4. call' \in [Procs -> Call] /\ Others(p) /\ call'[p] = [call[p] EXCEPT !.at = place]
  BY <1>1, <1>3 DEF Others
<1> QED  BY <1>2, <1>4 DEF Turns, Call

LEMMA GoWriteTurns ==
  ASSUME CommitTypeOK, NEW p \in Procs, NEW kind \in Kinds, GoWrite(p, kind)
  PROVE  Turns(p, "stage", kind)
<1>1. /\ call \in [Procs -> Call]
      /\ call' = [call EXCEPT ![p] = [call[p] EXCEPT !.at = "stage", !.kind = kind]]
  BY DEF CommitTypeOK, GoWrite
<1>2. call[p] \in Call
  BY <1>1
<1>3. [call[p] EXCEPT !.at = "stage", !.kind = kind] \in Call
  BY <1>2 DEF Call, Place
<1>4. /\ call' \in [Procs -> Call] /\ Others(p)
      /\ call'[p] = [call[p] EXCEPT !.at = "stage", !.kind = kind]
  BY <1>1, <1>3 DEF Others
<1> QED  BY <1>2, <1>4 DEF Turns, Call

LEMMA NoCallIs ==
  NoCall \in Call /\ NoCall.at = "idle" /\ NoCall.kind = "install"
<1>1. (CHOOSE o \in Ops : TRUE) \in Ops
  OBVIOUS
<1>2. <<>> \in Digest
  BY DEF Digest
<1>3. 0 \in 0..MAX_GENERATIONS - 1
  OBVIOUS
<1> QED  BY <1>1, <1>2, <1>3 DEF NoCall, Call, Place

LEMMA EndIs ==
  ASSUME CommitTypeOK, NEW p \in Procs, End(p)
  PROVE  /\ call' \in [Procs -> Call] /\ Others(p)
         /\ call'[p].at = "idle" /\ call'[p].kind = "install"
<1>1. call \in [Procs -> Call] /\ call' = [call EXCEPT ![p] = NoCall]
  BY DEF CommitTypeOK, End
<1> QED  BY <1>1, NoCallIs DEF Others

LEMMA LockStays ==
  ASSUME LockInv, NEW p \in Procs, Others(p), writer' = writer,
         Locked(call'[p]) <=> Locked(call[p]), call'[p].op = call[p].op, ~At(p, "idle")
  PROVE  LockInv'
<1>1. ASSUME NEW q \in Procs PROVE writer' = q <=> Locked(call'[q])
  BY DEF LockInv, Others
<1>2. ASSUME NEW q \in Procs, NEW r \in Procs, q # r,
             call'[q].at # "idle", call'[r].at # "idle"
      PROVE  call'[q].op # call'[r].op
  BY <1>2 DEF LockInv, Others, At
<1>3. \A q \in Procs : Locked(call[q])' = Locked(call'[q])
  BY DEF Locked, Before, After, Synced
<1> QED  BY <1>1, <1>2, <1>3 DEF LockInv, At

LEMMA LockLeft ==
  ASSUME CommitTypeOK, LockInv, NEW p \in Procs, Others(p), Unlock(p), ~Locked(call'[p]),
         call'[p].at = "idle" \/ (call'[p].op = call[p].op /\ ~At(p, "idle"))
  PROVE  LockInv' /\ writer' \in Procs \cup {NoProc}
<1>0. writer \in Procs \cup {NoProc} /\ writer' = IF writer = p THEN NoProc ELSE writer
  BY DEF Unlock, CommitTypeOK
<1>1. ASSUME NEW q \in Procs PROVE writer' = q <=> Locked(call'[q])
  BY <1>0 DEF LockInv, Others
<1>2. ASSUME NEW q \in Procs, NEW r \in Procs, q # r,
             call'[q].at # "idle", call'[r].at # "idle"
      PROVE  call'[q].op # call'[r].op
  BY <1>2 DEF LockInv, Others, At
<1>3. \A q \in Procs : Locked(call[q])' = Locked(call'[q])
  BY DEF Locked, Before, After, Synced
<1> QED  BY <1>0, <1>1, <1>2, <1>3 DEF LockInv, At

\* Nothing but p's own call, and what p's step puts, is left to look at.
LEMMA StepKeeps ==
  ASSUME IInv, NEW p \in Procs, call' \in [Procs -> Call], Others(p),
         UNCHANGED <<durable, losses, acked>>, reported' \in Digest, faults' \in 0..MaxFaults,
         writer' \in Procs \cup {NoProc}, FsType', FlagInv',
         NEW S, Quiet(p, S), Own(p, S),
         PlaceOf(call[p])', LockInv', Knows(call[p])', Has(p)'
  PROVE  IInv'
<1>1. CommitTypeOK'
  BY DEF IInv, CommitTypeOK, FsType
<1>2. HeadInv'
  BY QuietHeadInv DEF IInv
<1>3. HeadsKept
  BY QuietHeads DEF Own
<1>4. ASSUME NEW q \in Procs, q # p PROVE Knows(call[q])' /\ Has(q)'
  <2>0. call'[q] = call[q] /\ Knows(call[q]) /\ Has(q)
    BY <1>4 DEF Others, IInv, CallInv
  <2>1. Knows(call[q])'
    BY <2>0, <1>3, OthersKnow
  <2>2. Has(q)'
    BY <2>0, <1>4, OthersHave DEF IInv, Own
  <2> QED  BY <2>1, <2>2
<1>5. CallInv'
  BY <1>4 DEF CallInv
<1>6. PlaceInv'
  <2>1. ASSUME NEW q \in Procs, q # p PROVE PlaceOf(call[q])'
    BY <2>1 DEF IInv, PlaceInv, PlaceOf, Others, Ahead, Its
  <2> QED  BY <2>1 DEF PlaceInv
<1> QED  BY <1>1, <1>2, <1>5, <1>6 DEF IInv

LEMMA OwnNothing ==
  ASSUME NEW p  PROVE Own(p, {})
BY DEF Own

\* A call that ends, or is answered an error, needs nothing.
LEMMA StepEnds ==
  ASSUME IInv, NEW p \in Procs, call' \in [Procs -> Call], Others(p),
         UNCHANGED <<durable, losses, acked>>, reported' \in Digest, faults' \in 0..MaxFaults,
         FsType', FlagInv', Quiet(p, {}), Unlock(p),
         call'[p].at \in {"idle", "failed", "refused"}, call'[p].kind # "chain",
         durable => call'[p].at # "refused",
         call'[p].at = "idle" \/ (call'[p].op = call[p].op /\ ~At(p, "idle"))
  PROVE  IInv'
<1>1. ~Locked(call'[p])
  BY DEF Locked, Before, After, Synced, Writing
<1>2. LockInv' /\ writer' \in Procs \cup {NoProc}
  BY <1>1, LockLeft DEF IInv
<1>3. PlaceOf(call[p])'
  BY DEF PlaceOf, Ahead, Writing
<1>4. Knows(call[p])'
  BY DEF Knows, Ahead, Before, After, Synced, Writing
<1>5. Has(p)'
  BY DEF Has, Before, Writing
<1> QED  BY <1>2, <1>3, <1>4, <1>5, OwnNothing, StepKeeps

\* A call that goes on, writing nothing that others see.
LEMMA StepTurns ==
  ASSUME IInv, NEW p \in Procs, NEW place, NEW kind, Turns(p, place, kind),
         UNCHANGED <<durable, losses, acked, reported, writer>>, faults' \in 0..MaxFaults,
         FsType', FlagInv', NEW S, Quiet(p, S), Own(p, S), ~At(p, "idle"),
         Locked(call'[p]) <=> Locked(call[p]),
         PlaceOf(call[p])', Knows(call[p])', Has(p)'
  PROVE  IInv'
<1>1. LockInv'
  BY LockStays DEF IInv, Turns
<1>2. writer' \in Procs \cup {NoProc} /\ reported' \in Digest
  BY DEF IInv, CommitTypeOK
<1> QED  BY <1>1, <1>2, StepKeeps DEF Turns

-----------------------------------------------------------------------------
(* The head, and every prefix of it that a call has read, can be read.     *)

LEMMA HeadReads ==
  ASSUME IInv, NEW d \in Seq(Ops), IsPrefixOf(d, HeadDigest)
  PROVE  validate_manifest_chain(d)
<1>0. /\ HeadDigest \in Seq(Ops) /\ Len(HeadDigest) \in 0..MAX_GENERATIONS - 1
      /\ file[Chain] \in File /\ file[Current] \in File
  BY TypeFacts DEF IInv
<1>1. Len(d) \in Nat /\ Len(d) <= Len(HeadDigest)
  BY LenProperties DEF IsPrefixOf
<1>2. ASSUME Exists(Chain)
      PROVE  Whole(file[Chain]) /\ IsPrefixOf(file[Chain].body, HeadDigest)
  <2>1. file[Chain] \in May(Chain) /\ file[Current] \in May(Current) /\ file[Chain] # NoFile
    BY <1>2 DEF May, Exists
  <2>2. Solid(file[Chain]) /\ IsPrefixOf(file[Chain].body, file[Current].body)
    BY <2>1 DEF IInv, HeadInv
  <2> QED  BY <2>2 DEF Solid, Whole, HeadDigest
<1>3. ASSUME NEW n \in 0..Len(d)
      PROVE  Whole(file[Gen(n)]) /\ file[Gen(n)].body = Prefix(d, n)
  <2>1. n \in 0..Len(HeadDigest)
    BY <1>0, <1>1
  <2>2. Solid(file[Gen(n)]) /\ file[Gen(n)].body = Prefix(HeadDigest, n)
    BY <2>1 DEF IInv, HeadInv, May
  <2>3. Prefix(d, n) = Prefix(HeadDigest, n)
    BY <1>0, PrefixAgree
  <2> QED  BY <2>2, <2>3 DEF Solid, Whole
<1>4. ASSUME Anchored(d) PROVE file[Chain].body = Prefix(d, Len(file[Chain].body))
  <2>1. Exists(Chain) /\ Len(file[Chain].body) <= Len(d)
    BY <1>4 DEF Anchored
  <2>2. file[Chain].body \in Seq(Ops) /\ IsPrefixOf(file[Chain].body, HeadDigest)
    BY <2>1, <1>0, <1>2, FileFacts
  <2>3. IsPrefixOf(file[Chain].body, d)
    BY <2>1, <2>2, <1>0, PrefixShorter
  <2> QED  BY <2>3 DEF IsPrefixOf
<1>5. Len(file[Chain].body) \in Nat
  BY <1>0, FileFacts
<1>6. CASE Anchored(d)
  <2>1. \A n \in Len(file[Chain].body)..Len(d) : n \in 0..Len(d)
    BY <1>1, <1>5
  <2> QED  BY <1>2, <1>3, <1>4, <1>6, <2>1 DEF validate_manifest_chain
<1>7. CASE ~Anchored(d)
  BY <1>2, <1>3, <1>7 DEF validate_manifest_chain
<1> QED  BY <1>6, <1>7

LEMMA HeadReadable ==
  ASSUME IInv
  PROVE  Whole(file[Current]) /\ Readable
<1>1. HeadDigest \in Seq(Ops)
  BY TypeFacts DEF IInv
<1>2. Whole(file[Current])
  BY DEF IInv, HeadInv, May, Solid, Whole
<1>3. validate_manifest_chain(HeadDigest)
  BY <1>1, PrefixWhole, HeadReads
<1> QED  BY <1>2, <1>3 DEF Readable

-----------------------------------------------------------------------------
(* The steps that end a call.                                              *)

LEMMA RejectKeeps ==
  ASSUME IInv, NEW p \in Procs, NEW place \in {"failed", "refused"}, Goto(p, place), Unlock(p),
         ~At(p, "idle"), call[p].kind # "chain", durable => place # "refused",
         UNCHANGED <<durable, losses, acked, reported>>, faults' \in 0..MaxFaults,
         FsType', FlagInv', Quiet(p, {})
  PROVE  IInv'
<1>1. Turns(p, place, call[p].kind)
  BY GotoTurns DEF IInv, Place
<1>2. reported' \in Digest
  BY DEF IInv, CommitTypeOK
<1> QED  BY <1>1, <1>2, StepEnds DEF Turns

\* A failed filesystem operation: only the checkpoint's is forgiven.
LEMMA FailKeeps ==
  ASSUME IInv, NEW p \in Procs, Fail(p), UNCHANGED <<durable, losses, history>>,
         ~At(p, "idle"), call[p].at # "return"
  PROVE  IInv'
<1>0. faults' \in 0..MaxFaults
  BY DEF Fail, IInv, CommitTypeOK
<1>1. FsType' /\ FlagInv' /\ Quiet(p, {})
  BY TypeFacts, QuietClose DEF Fail, IInv
<1>2. acked' = acked /\ reported' = reported
  BY DEF history
<1>3. CASE call[p].kind # "chain" /\ Reject(p)
  BY <1>0, <1>1, <1>2, <1>3, RejectKeeps DEF Reject
<1>4. CASE call[p].kind = "chain" /\ Goto(p, "return") /\ UNCHANGED writer
  <2>1. Turns(p, "return", "chain")
    BY <1>4, GotoTurns DEF IInv, Place
  <2>2. call[p].at \in Writing
    BY <1>4 DEF IInv, PlaceInv, PlaceOf
  <2>3. Locked(call[p]) /\ Locked(call'[p]) /\ After(call[p]) /\ Synced(call[p])
    BY <2>1, <2>2, <1>4 DEF Locked, After, Synced, Turns
  <2>4. PlaceOf(call[p])'
    BY <2>1 DEF PlaceOf, Turns, Ahead, Writing
  <2>5. HeadsKept
    BY <1>1, QuietHeads
  <2>6. call[p].seen = HeadDigest /\ \A f \in May(Current) : f.body = call[p].seen
    BY <2>3 DEF IInv, CallInv, Knows
  <2>7. Knows(call[p])'
    BY <2>1, <2>5, <2>6 DEF Knows, HeadsKept, Turns, Ahead, Before, Writing
  <2>8. Has(p)'
    BY <2>1 DEF Has, Turns, Before, Writing
  <2> QED  BY <1>0, <1>1, <1>2, <1>4, <2>1, <2>3, <2>4, <2>7, <2>8, OwnNothing, StepTurns
<1> QED  BY <1>3, <1>4 DEF Fail

LEMMA CrashKeeps ==
  ASSUME IInv, NEW p \in Procs, Crash(p)
  PROVE  IInv'
<1>0. faults' \in 0..MaxFaults /\ UNCHANGED <<durable, losses, acked, reported>> /\ Unlock(p)
  BY DEF Crash, IInv, CommitTypeOK, history
<1>1. FsType' /\ FlagInv' /\ Quiet(p, {})
  BY <1>0, TypeFacts, QuietClose DEF Crash, IInv
<1>2. call' \in [Procs -> Call] /\ Others(p) /\ call'[p].at = "idle" /\ call'[p].kind = "install"
  BY EndIs DEF Crash, IInv
<1>3. reported' \in Digest
  BY <1>0 DEF IInv, CommitTypeOK
<1> QED  BY <1>0, <1>1, <1>2, <1>3, StepEnds

LEMMA AskKeeps ==
  ASSUME IInv, NEW p \in Procs, Ask(p)
  PROVE  IInv'
<1>0. UNCHANGED <<durable, losses, acked, faults, fsVars, writer>>
  BY DEF Ask
<1>1. FsType' /\ FlagInv' /\ Quiet(p, {})
  <2>1. FsType
    BY TypeFacts DEF IInv
  <2>2. file' = file /\ disk' = disk
    BY <1>0 DEF fsVars
  <2>3. FsType' /\ FlagInv'
    BY <2>1, <2>2, <1>0 DEF IInv, FsType, FlagInv
  <2> QED  BY <2>3, <1>0, QuietKept
<1>2. call' \in [Procs -> Call] /\ Others(p) /\ call'[p].at = "idle" /\ call'[p].kind = "install"
  BY EndIs DEF Ask, IInv
<1>3. reported' \in Digest
  <2>0. /\ HeadDigest \in Seq(Ops) /\ Len(HeadDigest) \in 0..MAX_GENERATIONS - 1
        /\ call[p].expected \in 0..MAX_GENERATIONS - 1
    BY TypeFacts, CallFacts DEF IInv
  <2>1. CASE UNCHANGED reported
    BY <2>1 DEF IInv, CommitTypeOK
  <2>2. ASSUME NEW g \in call[p].expected + 1 .. Len(HeadDigest), reported' = Prefix(HeadDigest, g)
        PROVE  reported' \in Digest
    <3>1. g \in 0..Len(HeadDigest) /\ g < MAX_GENERATIONS
      BY <2>0
    <3>2. Prefix(HeadDigest, g) \in Seq(Ops) /\ Len(Prefix(HeadDigest, g)) = g
      BY <2>0, <3>1, PrefixIs
    <3> QED  BY <2>2, <3>1, <3>2 DEF Digest
  <2> QED  BY <2>1, <2>2 DEF Ask
<1>4. Unlock(p)
  <2>1. ~Locked(call[p])
    BY DEF Ask, At, Locked, Before, After, Synced, Writing
  <2>2. writer # p
    BY <2>1 DEF IInv, LockInv
  <2> QED  BY <2>2, <1>0 DEF Unlock
<1>5. faults' \in 0..MaxFaults
  BY <1>0 DEF IInv, CommitTypeOK
<1> QED  BY <1>0, <1>1, <1>2, <1>3, <1>4, <1>5, StepEnds

-----------------------------------------------------------------------------
(* The steps before the writer lock.                                       *)

LEMMA FsKept ==
  ASSUME IInv, UNCHANGED <<fsVars, durable, losses>>, NEW p
  PROVE  FsType' /\ FlagInv' /\ Quiet(p, {})
<1>1. FsType
  BY TypeFacts DEF IInv
<1>2. file' = file /\ disk' = disk
  BY DEF fsVars
<1>3. FsType' /\ FlagInv'
  BY <1>1, <1>2 DEF IInv, FsType, FlagInv
<1> QED  BY <1>3, QuietKept

LEMMA BeginKeeps ==
  ASSUME IInv, NEW p \in Procs, Begin(p)
  PROVE  IInv'
<1>0. UNCHANGED <<fsVars, durable, losses, acked, reported, faults, writer>> /\ At(p, "idle")
  BY DEF Begin, history
<1>1. FsType' /\ FlagInv' /\ Quiet(p, {})
  BY <1>0, FsKept
<1>2. PICK o \in Ops, e \in 0..Len(HeadDigest) :
        /\ \A q \in Procs \ {p} : ~At(q, "idle") => call[q].op # o
        /\ call' = [call EXCEPT ![p] = [at |-> "read", op |-> o, expected |-> e,
                                        seen |-> HeadDigest, kind |-> "install"]]
  BY HeadReadable DEF Begin
<1>3. HeadDigest \in Seq(Ops) /\ Len(HeadDigest) \in 0..MAX_GENERATIONS - 1
  BY TypeFacts DEF IInv
<1>4. HeadDigest \in Digest /\ e \in 0..MAX_GENERATIONS - 1
  BY <1>3 DEF Digest
<1>5. [at |-> "read", op |-> o, expected |-> e, seen |-> HeadDigest, kind |-> "install"] \in Call
  BY <1>4 DEF Call, Place
<1>6. /\ call' \in [Procs -> Call] /\ Others(p)
      /\ call'[p].at = "read" /\ call'[p].op = o /\ call'[p].seen = HeadDigest
      /\ call'[p].kind = "install"
  BY <1>2, <1>5 DEF Others, IInv, CommitTypeOK
<1>7. HeadDigest' = HeadDigest
  BY <1>1, QuietHeads DEF HeadsKept
<1>8. PlaceOf(call[p])'
  BY <1>6 DEF PlaceOf, Ahead, Writing
<1>9. Knows(call[p])'
  BY <1>3, <1>6, <1>7, PrefixWhole DEF Knows, Ahead, Before, After, Synced, Writing
<1>10. Has(p)'
  BY <1>6 DEF Has, Before, Writing
<1>11. LockInv'
  <2>1. ~Locked(call[p]) /\ ~Locked(call'[p])
    BY <1>0, <1>6 DEF At, Locked, Before, After, Synced, Writing
  <2>2. ASSUME NEW q \in Procs PROVE writer' = q <=> Locked(call'[q])
    BY <2>1, <1>0, <1>6 DEF IInv, LockInv, Others
  <2>3. ASSUME NEW q \in Procs, NEW r \in Procs, q # r,
               call'[q].at # "idle", call'[r].at # "idle"
        PROVE  call'[q].op # call'[r].op
    BY <2>3, <1>2, <1>6 DEF IInv, LockInv, Others, At
  <2>4. \A q \in Procs : Locked(call[q])' = Locked(call'[q])
    BY DEF Locked, Before, After, Synced
  <2> QED  BY <2>2, <2>3, <2>4 DEF LockInv, At
<1>12. faults' \in 0..MaxFaults /\ writer' \in Procs \cup {NoProc} /\ reported' \in Digest
  BY <1>0 DEF IInv, CommitTypeOK
<1> QED  BY <1>0, <1>1, <1>6, <1>8, <1>9, <1>10, <1>11, <1>12, OwnNothing, StepKeeps

\* A step of a call that has not taken the lock yet, to another such place.
LEMMA AheadKeeps ==
  ASSUME IInv, NEW p \in Procs, NEW place, NEW kind, Turns(p, place, kind), ~At(p, "idle"),
         UNCHANGED <<durable, losses, acked, reported, writer>>, faults' \in 0..MaxFaults,
         FsType', FlagInv', NEW S, Quiet(p, S), Own(p, S),
         Ahead(call[p]), Ahead(call'[p]), PlaceOf(call[p])', Has(p)'
  PROVE  IInv'
<1>1. HeadsKept /\ IsPrefixOf(call[p].seen, HeadDigest)
  BY QuietHeads DEF Own, IInv, CallInv, Knows
<1>2. ~Before(call[p]) /\ ~After(call[p]) /\ ~Before(call'[p]) /\ ~After(call'[p])
  BY DEF Ahead, Before, After, Synced, Writing
<1>3. ~Synced(call'[p])
  BY <1>2 DEF After
<1>4. Knows(call[p])'
  BY <1>1, <1>2, <1>3 DEF Knows, HeadsKept, Turns, Before, After, Synced
<1>5. Locked(call'[p]) <=> Locked(call[p])
  BY <1>2 DEF Locked
<1> QED  BY <1>4, <1>5, StepTurns

LEMMA ReadKeeps ==
  ASSUME IInv, NEW p \in Procs, Read(p)
  PROVE  IInv'
<1>0. /\ UNCHANGED <<fsVars, durable, losses, acked, reported, faults, writer>>
      /\ At(p, "read") /\ call[p].at = "read"
  BY DEF Read, history, At
<1>1. FsType' /\ FlagInv' /\ Quiet(p, {})
  BY <1>0, FsKept
<1>2. Ahead(call[p]) /\ call[p].kind = "install"
  BY <1>0 DEF Ahead, IInv, PlaceInv, PlaceOf
<1>3. call[p].seen \in Seq(Ops) /\ IsPrefixOf(call[p].seen, HeadDigest)
  BY <1>2, TypeFacts, CallFacts DEF IInv, CallInv, Knows
<1>4. validate_manifest_chain(call[p].seen)
  BY <1>3, HeadReads
<1>5. Goto(p, IF Its(call[p]) = NoArtifact THEN "lock" ELSE "install")
  BY <1>4 DEF Read, Its
<1>6. faults' \in 0..MaxFaults
  BY <1>0 DEF IInv, CommitTypeOK
<1>7. CASE Its(call[p]) = NoArtifact
  <2>1. Turns(p, "lock", "install")
    BY <1>2, <1>5, <1>7, GotoTurns DEF IInv, Place
  <2>2. Its(call[p])' = NoArtifact
    BY <2>1, <1>7 DEF Turns, Its
  <2>3. PlaceOf(call[p])' /\ Ahead(call'[p])
    BY <2>1, <2>2 DEF Turns, PlaceOf, Ahead, Writing
  <2>4. Has(p)'
    BY <2>1, <2>2 DEF Turns, Has, Before, Writing
  <2> QED  BY <1>0, <1>1, <1>2, <1>6, <2>1, <2>3, <2>4, OwnNothing, AheadKeeps DEF At
<1>8. CASE Its(call[p]) # NoArtifact
  <2>1. Turns(p, "install", "install")
    BY <1>2, <1>5, <1>8, GotoTurns DEF IInv, Place
  <2>2. Its(call[p])' # NoArtifact
    BY <2>1, <1>8 DEF Turns, Its
  <2>3. PlaceOf(call[p])' /\ Ahead(call'[p])
    BY <2>1, <2>2 DEF Turns, PlaceOf, Ahead, Writing
  <2>4. Has(p)'
    BY <2>1 DEF Turns, Has, Before, Writing
  <2> QED  BY <1>0, <1>1, <1>2, <1>6, <2>1, <2>3, <2>4, OwnNothing, AheadKeeps DEF At
<1> QED  BY <1>7, <1>8

LEMMA InstallNewKeeps ==
  ASSUME IInv, NEW p \in Procs, At(p, "install"), InstallNew(p),
         UNCHANGED <<faults, history, losses, durable>>
  PROVE  IInv'
<1>0. /\ call[p].at = "install" /\ Ahead(call[p]) /\ call[p].kind = "install"
      /\ Its(call[p]) # NoArtifact
  BY DEF At, Ahead, IInv, PlaceInv, PlaceOf
<1>1. UNCHANGED <<durable, losses, acked, reported, writer, faults>>
  BY DEF InstallNew, history
<1>2. PICK x : x = Its(call[p])
  OBVIOUS
<1>3. x \in Artifacts
  BY <1>0, <1>2, TypeFacts, CallFacts DEF IInv
<1>4. Art(x) \in Lasting /\ Art(x) \in Names
  BY <1>3, NamesLast
<1>5. PICK f : f = [body |-> <<>>, st |-> "partial", by |-> p]
  OBVIOUS
<1>6. f \in File /\ f.st = "partial" /\ f.by = p
  <2>1. <<>> \in Digest
    BY DEF Digest
  <2> QED  BY <1>5, <2>1 DEF File
<1>7. Put(f, Art(x), {}) /\ file[Art(x)] = NoFile
  BY <1>2, <1>5 DEF InstallNew, Create, Exists, Its
<1>8. FsType' /\ FlagInv' /\ Quiet(p, {Art(x)} \cup {}) /\ file'[Art(x)] = f
  <2>1. FsType /\ FlagInv
    BY TypeFacts DEF IInv
  <2>2. {} \cap Lasting = {} /\ Art(x) \notin {} /\ (f.st = "safe" => f.by = NoProc)
    BY <1>6
  <2> QED  BY <2>1, <2>2, <1>1, <1>4, <1>6, <1>7, QuietPut
<1>9. Own(p, {Art(x)} \cup {})
  BY <1>7, <1>0, NamesDiffer, StagedDiffer DEF Own, At
<1>10. Turns(p, "write", "install")
  BY <1>0, GotoTurns DEF InstallNew, IInv, Place
<1>11. Its(call[p])' = x
  BY <1>2, <1>10 DEF Turns, Its
<1>12. PlaceOf(call[p])' /\ Ahead(call'[p])
  BY <1>0, <1>2, <1>10, <1>11 DEF Turns, PlaceOf, Ahead, Writing
<1>13. Has(p)'
  BY <1>6, <1>8, <1>10, <1>11 DEF Turns, Has, Wrote, Before, Writing
<1>14. faults' \in 0..MaxFaults
  BY <1>1 DEF IInv, CommitTypeOK
<1> QED  BY <1>0, <1>1, <1>8, <1>9, <1>10, <1>12, <1>13, <1>14, AheadKeeps DEF At

\* An artifact that is there is trusted only where it is solid.
LEMMA InstallSharedKeeps ==
  ASSUME IInv, NEW p \in Procs, At(p, "install"), ~MustStageAgain(p), InstallShared(p),
         UNCHANGED <<faults, history, losses, durable>>
  PROVE  IInv'
<1>0. /\ call[p].at = "install" /\ Ahead(call[p]) /\ call[p].kind = "install"
      /\ Its(call[p]) # NoArtifact
  BY DEF At, Ahead, IInv, PlaceInv, PlaceOf
<1>1. UNCHANGED <<durable, losses, acked, reported, faults, fsVars>>
  BY DEF InstallShared, history
<1>2. PICK x : x = Its(call[p])
  OBVIOUS
<1>3. FsType' /\ FlagInv' /\ Quiet(p, {})
  BY <1>1, FsKept
<1>4. faults' \in 0..MaxFaults
  BY <1>1 DEF IInv, CommitTypeOK
<1>5. durable => Solid(file[Art(x)])
  <2>1. SUFFICES ASSUME durable PROVE Solid(file[Art(x)])
    OBVIOUS
  <2>2. x \in Lists(call[p].seen)
    BY <2>1, <1>2 DEF MustStageAgain, Its
  <2>3. /\ call[p].seen \in Seq(Ops) /\ HeadDigest \in Seq(Ops)
        /\ IsPrefixOf(call[p].seen, HeadDigest)
    BY <1>0, TypeFacts, CallFacts DEF IInv, CallInv, Knows
  <2>4. x \in Lists(HeadDigest)
    BY <2>2, <2>3, ListsGrow
  <2> QED  BY <2>4 DEF IInv, HeadInv, May
<1>6. CASE Whole(file[Art(x)]) /\ Goto(p, "finish") /\ UNCHANGED writer
  <2>1. Turns(p, "finish", "install")
    BY <1>0, <1>6, GotoTurns DEF IInv, Place
  <2>2. Its(call[p])' = x
    BY <1>2, <2>1 DEF Turns, Its
  <2>3. Solid(file[Art(x)])
    BY <1>5, <1>6 DEF Whole, Solid
  <2>4. PlaceOf(call[p])' /\ Ahead(call'[p])
    BY <1>0, <1>2, <2>1, <2>2 DEF Turns, PlaceOf, Ahead, Writing
  <2>5. Has(p)'
    BY <1>1, <2>1, <2>2, <2>3 DEF Turns, Has, Before, Writing, Solid, fsVars
  <2> QED  BY <1>0, <1>1, <1>3, <1>4, <1>6, <2>1, <2>4, <2>5, OwnNothing, AheadKeeps DEF At
<1>7. CASE ~Whole(file[Art(x)]) /\ Refuse(p)
  <2>1. ~durable
    BY <1>5, <1>7 DEF Whole, Solid
  <2> QED  BY <1>0, <1>1, <1>3, <1>4, <1>7, <2>1, RejectKeeps DEF Refuse, At
<1> QED  BY <1>2, <1>6, <1>7 DEF InstallShared, Its

LEMMA InstallKeeps ==
  ASSUME IInv, NEW p \in Procs, Install(p)
  PROVE  IInv'
<1>0. /\ call[p].at = "install" /\ Ahead(call[p]) /\ call[p].kind = "install"
      /\ Its(call[p]) # NoArtifact /\ At(p, "install")
      /\ UNCHANGED <<history, losses, durable>>
  BY DEF Install, At, Ahead, IInv, PlaceInv, PlaceOf
<1>1. CASE InstallNew(p) /\ UNCHANGED faults
  BY <1>0, <1>1, InstallNewKeeps
<1>2. CASE ~MustStageAgain(p) /\ InstallShared(p) /\ UNCHANGED faults
  BY <1>0, <1>2, InstallSharedKeeps
<1>3. CASE GoWrite(p, "artifact") /\ UNCHANGED <<fsVars, writer, faults>>
  <2>1. Turns(p, "stage", "artifact")
    BY <1>3, GoWriteTurns DEF IInv, Kinds
  <2>2. FsType' /\ FlagInv' /\ Quiet(p, {})
    BY <1>0, <1>3, FsKept
  <2>3. Its(call[p])' # NoArtifact
    BY <1>0, <2>1 DEF Turns, Its
  <2>4. PlaceOf(call[p])' /\ Ahead(call'[p])
    BY <2>1, <2>3 DEF Turns, PlaceOf, Ahead, Writing
  <2>5. Has(p)'
    BY <2>1 DEF Turns, Has, Before, Writing
  <2>6. faults' \in 0..MaxFaults /\ UNCHANGED <<durable, losses, acked, reported, writer>>
    BY <1>0, <1>3 DEF IInv, CommitTypeOK, history
  <2> QED  BY <1>0, <2>1, <2>2, <2>4, <2>5, <2>6, OwnNothing, AheadKeeps DEF At
<1>4. CASE Fail(p)
  BY <1>0, <1>4, FailKeeps DEF At
<1> QED  BY <1>1, <1>2, <1>3, <1>4 DEF Install

LEMMA FinishKeeps ==
  ASSUME IInv, NEW p \in Procs, Finish(p)
  PROVE  IInv'
<1>0. /\ call[p].at = "finish" /\ Ahead(call[p]) /\ call[p].kind \in {"install", "artifact"}
      /\ Its(call[p]) # NoArtifact /\ UNCHANGED <<history, losses, durable>>
  BY DEF Finish, At, Ahead, IInv, PlaceInv, PlaceOf
<1>1. CASE sync_directory("artifacts") /\ Goto(p, "lock") /\ UNCHANGED <<writer, faults>>
  <2>1. Turns(p, "lock", call[p].kind)
    BY <1>1, GotoTurns DEF IInv, Place
  <2>2. PICK x : x = Its(call[p])
    OBVIOUS
  <2>3. x \in Artifacts /\ Art(x) \in NamesIn("artifacts")
    <3>1. x \in Artifacts
      BY <1>0, <2>2, TypeFacts, CallFacts DEF IInv
    <3> QED  BY <3>1, NamesInOne
  <2>4. /\ FsType' /\ FlagInv' /\ Quiet(p, {}) /\ file' = file
        /\ \A n \in NamesIn("artifacts") : May(n)' = {file[n]}
    BY <1>0, <1>1, TypeFacts, QuietSync DEF IInv
  <2>5. Solid(file[Art(x)])
    BY <1>0, <2>2 DEF IInv, CallInv, Has
  <2>6. \A f \in May(Art(x))' : Solid(f)
    BY <2>3, <2>4, <2>5
  <2>7. Its(call[p])' = x
    BY <2>1, <2>2 DEF Turns, Its
  <2>8. PlaceOf(call[p])' /\ Ahead(call'[p])
    BY <1>0, <2>1 DEF Turns, PlaceOf, Ahead, Writing
  <2>9. \A f : Solid(f)' = Solid(f)
    BY <1>0 DEF Solid
  <2>10. Has(p)'
    BY <2>1, <2>6, <2>7, <2>9 DEF Turns, Has, Before, Writing
  <2>11. faults' \in 0..MaxFaults /\ UNCHANGED <<durable, losses, acked, reported, writer>>
    BY <1>0, <1>1 DEF IInv, CommitTypeOK, history
  <2> QED  BY <1>0, <2>1, <2>4, <2>8, <2>10, <2>11, OwnNothing, AheadKeeps DEF At
<1>2. CASE Fail(p)
  BY <1>0, <1>2, FailKeeps DEF At
<1> QED  BY <1>1, <1>2 DEF Finish

-----------------------------------------------------------------------------
(* Staging a file: created, written and flushed.                           *)

LEMMA OwnStaged ==
  ASSUME NEW p, NEW S, S = {} \/ S = {StagedName(p)}, ~At(p, "idle")
  PROVE  Own(p, S)
BY StagedDiffer DEF Own, StagedName

\* What a call knew of the artifact and of the manifest outside S.
LEMMA SelfHas ==
  ASSUME IInv, NEW p \in Procs, NEW S, Quiet(p, S),
         \A n : Gen(n) \notin S, \A x : Art(x) \notin S
  PROVE  /\ (call[p].at = "lock" \/ Before(call[p])) /\ Its(call[p]) # NoArtifact =>
                \A x : x = Its(call[p]) => \A f \in May(Art(x))' : Solid(f)
         /\ call[p].at \in Writing /\ call[p].kind = "pointer" =>
                \A n : n = Len(call[p].seen) =>
                    \A f \in May(Gen(n))' : Solid(f) /\ f.body = call[p].seen
<1>0. /\ Its(call[p]) \in Artifacts \cup {NoArtifact}
      /\ Len(call[p].seen) \in 0..MAX_GENERATIONS - 1
  BY TypeFacts, CallFacts DEF IInv
<1>1. ASSUME call[p].at = "lock" \/ Before(call[p]), Its(call[p]) # NoArtifact,
             NEW x, x = Its(call[p])
      PROVE  \A f \in May(Art(x))' : Solid(f)
  <2>1. \A f \in May(Art(x)) : Solid(f)
    BY <1>1 DEF IInv, CallInv, Has
  <2>2. Art(x) \in Lasting \ S
    BY <1>0, <1>1, NamesLast
  <2> QED  BY <2>1, <2>2 DEF Quiet, Like
<1>2. ASSUME call[p].at \in Writing, call[p].kind = "pointer", NEW n, n = Len(call[p].seen)
      PROVE  \A f \in May(Gen(n))' : Solid(f) /\ f.body = call[p].seen
  <2>1. \A f \in May(Gen(n)) : Solid(f) /\ f.body = call[p].seen
    BY <1>2 DEF IInv, CallInv, Has
  <2>2. Gen(n) \in Lasting \ S
    BY <1>0, <1>2, NamesLast
  <2> QED  BY <2>1, <2>2 DEF Quiet, Like
<1> QED  BY <1>1, <1>2

LEMMA WritingKeeps ==
  ASSUME IInv, NEW p \in Procs, NEW place \in Writing, call[p].at \in Writing,
         Turns(p, place, call[p].kind), place \in {"stage", "rename"} => call[p].kind # "install",
         UNCHANGED <<durable, losses, acked, reported, writer>>, faults' \in 0..MaxFaults,
         FsType', FlagInv', NEW S, S = {} \/ S = {StagedName(p)}, Quiet(p, S),
         NEW s, s = StagedName(p), NEW x, x = Art(Its(call[p])),
         place # "stage" /\ call[p].kind # "install" =>
             Wrote(p, s)' /\ file'[s].body = Bytes(p),
         place # "stage" /\ call[p].kind = "install" => Solid(file'[x]) \/ Wrote(p, x)'
  PROVE  IInv'
<1>0. call[p].at # "idle" /\ ~At(p, "idle") /\ PlaceOf(call[p])
  BY DEF Writing, At, IInv, PlaceInv
<1>1. Own(p, S) /\ HeadsKept
  BY <1>0, OwnStaged, QuietHeads DEF Own
<1>2. /\ Ahead(call'[p]) = Ahead(call[p]) /\ Before(call'[p]) = Before(call[p])
      /\ After(call'[p]) = After(call[p]) /\ Synced(call'[p]) = Synced(call[p])
  BY DEF Turns, Ahead, Before, After, Synced, Writing
<1>3. /\ Its(call[p])' = Its(call[p]) /\ StagedName(p)' = s /\ Bytes(p)' = Bytes(p)
      /\ \A f : Solid(f)' = Solid(f)
  BY DEF Turns, Its, StagedName, Bytes, Solid
<1>4. Locked(call'[p]) <=> Locked(call[p])
  BY <1>2 DEF Locked
<1>5. PlaceOf(call[p])'
  BY <1>0, <1>3 DEF PlaceOf, Turns, Ahead, Writing
<1>6. Knows(call[p])'
  <2>1. Knows(call[p])
    BY DEF IInv, CallInv
  <2>2. call'[p].seen = call[p].seen /\ call'[p].op = call[p].op
    BY DEF Turns
  <2>3. /\ Ahead(call[p])' = Ahead(call[p]) /\ Before(call[p])' = Before(call[p])
        /\ After(call[p])' = After(call[p]) /\ Synced(call[p])' = Synced(call[p])
    BY <1>2 DEF Ahead, Before, After, Synced
  <2> QED  BY <1>1, <2>1, <2>2, <2>3 DEF Knows, HeadsKept
<1>7. Has(p)'
  <2>0. (\A n : Gen(n) \notin S) /\ (\A y : Art(y) \notin S)
    BY StagedDiffer DEF StagedName
  <2>1. Before(call[p]) /\ Its(call[p]) # NoArtifact => \A f \in May(x)' : Solid(f)
    BY <2>0, SelfHas
  <2>2. PICK g : g = Gen(Len(call[p].seen))
    OBVIOUS
  <2>3. call[p].kind = "pointer" => \A f \in May(g)' : Solid(f) /\ f.body = call[p].seen
    BY <2>0, <2>2, SelfHas
  <2>4. place \in {"stage", "write", "flush", "rename"}
    BY DEF Writing
  <2>5. /\ call'[p].at = place /\ call'[p].kind = call[p].kind /\ call'[p].seen = call[p].seen
        /\ Art(Its(call'[p])) = x /\ Gen(Len(call'[p].seen)) = g
    BY <1>3, <2>2 DEF Turns, Its
  <2>6. Before(call[p])' = Before(call[p])
    BY <1>2 DEF Before
  <2>7. /\ place \in {"write", "flush", "rename"} /\ call[p].kind # "install" =>
               Wrote(p, s)' /\ file'[s].body = Bytes(p)'
        /\ place \in {"write", "flush"} /\ call[p].kind = "install" =>
               Solid(file[x])' \/ Wrote(p, x)'
    BY <1>3 DEF Solid
  <2>8. place \notin {"finish", "lock", "sync_generations"}
    BY <2>4
  <2> QED  BY <1>3, <2>1, <2>3, <2>5, <2>6, <2>7, <2>8 DEF Has, Its
<1> QED  BY <1>0, <1>1, <1>4, <1>5, <1>6, <1>7, StepTurns

LEMMA StagedIs ==
  ASSUME IInv, NEW p \in Procs, call[p].at \in Writing, call[p].kind # "install"
  PROVE  StagedName(p) \in Names /\ Bytes(p) \in Digest /\ StagedName(p) \notin Lasting
<1>0. call[p] \in Call
  BY TypeFacts DEF IInv
<1>1. call[p].kind \in Kinds /\ call[p].op \in Ops /\ call[p].seen \in Digest
  BY <1>0 DEF Call
<1>2. <<>> \in Digest
  BY DEF Digest
<1>3. StagedName(p) \notin Lasting
  BY NamesInOne, StagedDiffer DEF StagedName
<1> QED  BY <1>1, <1>2, <1>3, NamesStaged DEF StagedName, Bytes

LEMMA StageKeeps ==
  ASSUME IInv, NEW p \in Procs, Stage(p)
  PROVE  IInv'
<1>0. /\ call[p].at = "stage" /\ call[p].at \in Writing /\ call[p].kind # "install"
      /\ UNCHANGED <<history, losses, durable>>
  BY DEF Stage, At, Writing, IInv, PlaceInv, PlaceOf
<1>1. PICK s : s = StagedName(p)
  OBVIOUS
<1>2. PICK x : x = Art(Its(call[p]))
  OBVIOUS
<1>3. s \in Names /\ s \notin Lasting /\ Bytes(p) \in Digest
  BY <1>0, <1>1, StagedIs
<1>4. CASE CanReuse(p) /\ Goto(p, "rename") /\ UNCHANGED <<fsVars, writer, faults>>
  <2>1. Turns(p, "rename", call[p].kind)
    BY <1>4, GotoTurns DEF IInv, Place
  <2>2. FsType' /\ FlagInv' /\ Quiet(p, {})
    BY <1>0, <1>4, FsKept
  <2>3. Solid(file[s]) /\ file[s].body = Bytes(p)
    BY <1>1, <1>4 DEF CanReuse, Holds, Whole, Solid
  <2>4. Wrote(p, s)' /\ file'[s].body = Bytes(p)
    BY <1>0, <1>4, <2>1, <2>3 DEF Wrote, Turns, Solid, fsVars
  <2>5. faults' \in 0..MaxFaults /\ UNCHANGED <<durable, losses, acked, reported, writer>>
    BY <1>0, <1>4 DEF IInv, CommitTypeOK, history
  <2>6. "rename" \in Writing
    BY DEF Writing
  <2> QED  BY <1>0, <1>1, <1>2, <2>1, <2>2, <2>4, <2>5, <2>6, WritingKeeps
<1>5. CASE Create(p, StagedName(p), Bytes(p)) /\ Goto(p, "write") /\ UNCHANGED <<writer, faults>>
  <2>1. Turns(p, "write", call[p].kind)
    BY <1>5, GotoTurns DEF IInv, Place
  <2>2. PICK f : f = [body |-> Bytes(p), st |-> "partial", by |-> p]
    OBVIOUS
  <2>3. f \in File /\ f.st = "partial" /\ f.by = p /\ f.body = Bytes(p)
    BY <1>3, <2>2 DEF File
  <2>4. Put(f, s, {})
    BY <1>1, <1>5, <2>2 DEF Create
  <2>5. FsType /\ FlagInv
    BY TypeFacts DEF IInv
  <2>6. {} \cap Lasting = {} /\ s \notin {} /\ (f.st = "safe" => f.by = NoProc)
    BY <2>3
  <2>7. FsType' /\ FlagInv' /\ Quiet(p, {s} \cup {}) /\ file'[s] = f
    BY <1>0, <1>3, <2>3, <2>4, <2>5, <2>6, QuietPut
  <2>8. Quiet(p, {s})
    BY <2>7
  <2>9. Wrote(p, s)' /\ file'[s].body = Bytes(p)
    BY <2>1, <2>3, <2>7 DEF Wrote, Turns
  <2>10. faults' \in 0..MaxFaults /\ UNCHANGED <<durable, losses, acked, reported, writer>>
    BY <1>0, <1>5 DEF IInv, CommitTypeOK, history
  <2>11. "write" \in Writing
    BY DEF Writing
  <2> QED  BY <1>0, <1>1, <1>2, <2>1, <2>7, <2>8, <2>9, <2>10, <2>11, WritingKeeps
<1>6. CASE Fail(p)
  BY <1>0, <1>6, FailKeeps DEF At
<1> QED  BY <1>4, <1>5, <1>6 DEF Stage

\* What p has open, written and then flushed.
LEMMA TouchKeeps ==
  ASSUME IInv, NEW p \in Procs, NEW place \in {"flush", "rename"}, NEW st, NEW by,
         place = "flush" => call[p].at = "write" /\ st = "written" /\ by = p,
         place = "rename" => /\ call[p].at = "flush" /\ st = "safe" /\ by = NoProc
                             /\ call[p].kind # "install",
         Touch(p, st, by), Goto(p, place), UNCHANGED <<history, losses, durable, writer, faults>>
  PROVE  IInv'
<1>0. call[p].at \in Writing /\ place \in Writing /\ call[p].at \in {"write", "flush"}
  BY DEF Writing
<1>1. PICK s : s = StagedName(p)
  OBVIOUS
<1>2. PICK x : x = Art(Its(call[p]))
  OBVIOUS
<1>3. Turns(p, place, call[p].kind)
  BY GotoTurns DEF IInv, Place
<1>4. FsType /\ FlagInv
  BY TypeFacts DEF IInv
<1>5. (st = "written" /\ by = p) \/ (st = "safe" /\ by = NoProc)
  OBVIOUS
<1>6. /\ FsType' /\ FlagInv' /\ Quiet(p, {})
      /\ \A n \in Names : file'[n] = Touched(file[n], p, st, by)
  BY <1>4, <1>5, QuietTouch
<1>7. ASSUME NEW n \in Names, Wrote(p, n)
      PROVE  Wrote(p, n)' /\ file'[n].body = file[n].body
  <2>1. file[n].by = p /\ file[n] \in File
    BY <1>0, <1>4, <1>7 DEF Wrote, FsType
  <2>2. file'[n].body = file[n].body /\ file'[n].st = st /\ file'[n].by = by
    BY <2>1, <1>6 DEF Touched, File
  <2> QED  BY <2>2, <1>3 DEF Wrote, Turns, Solid
<1>8. ASSUME call[p].kind # "install" PROVE Wrote(p, s)' /\ file'[s].body = Bytes(p)
  <2>1. s \in Names
    BY <1>0, <1>1, <1>8, StagedIs
  <2>2. Wrote(p, s) /\ file[s].body = Bytes(p)
    BY <1>0, <1>1, <1>8 DEF IInv, CallInv, Has
  <2> QED  BY <2>1, <2>2, <1>7
<1>9. ASSUME call[p].kind = "install" PROVE Solid(file'[x]) \/ Wrote(p, x)'
  <2>1. Solid(file[x]) \/ Wrote(p, x)
    BY <1>0, <1>2, <1>9 DEF IInv, CallInv, Has
  <2>2. Its(call[p]) \in Artifacts
    BY <1>0, <1>9, TypeFacts, CallFacts DEF IInv, PlaceInv, PlaceOf
  <2>3. x \in Names
    BY <2>2, <1>2, NamesLast
  <2>4. Solid(file[x]) => Solid(file'[x])
    BY <2>3, <1>6 DEF Quiet, Like
  <2> QED  BY <2>1, <2>3, <2>4, <1>7
<1>10. faults' \in 0..MaxFaults /\ UNCHANGED <<durable, losses, acked, reported, writer>>
  BY DEF IInv, CommitTypeOK, history
<1> QED  BY <1>0, <1>1, <1>2, <1>3, <1>6, <1>8, <1>9, <1>10, WritingKeeps

LEMMA WriteKeeps ==
  ASSUME IInv, NEW p \in Procs, Write(p)
  PROVE  IInv'
<1>0. call[p].at = "write" /\ UNCHANGED <<history, losses, durable>>
  BY DEF Write, At
<1>1. CASE Touch(p, "written", p) /\ Goto(p, "flush") /\ UNCHANGED <<writer, faults>>
  BY <1>0, <1>1, TouchKeeps
<1>2. CASE Fail(p)
  BY <1>0, <1>2, FailKeeps DEF At
<1> QED  BY <1>1, <1>2 DEF Write

LEMMA FlushKeeps ==
  ASSUME IInv, NEW p \in Procs, Flush(p)
  PROVE  IInv'
<1>0. call[p].at = "flush" /\ UNCHANGED <<history, losses, durable>>
  BY DEF Flush, At
<1>1. CASE call[p].kind # "install" /\ Touch(p, "safe", NoProc) /\ Goto(p, "rename")
           /\ UNCHANGED <<writer, faults>>
  BY <1>0, <1>1, TouchKeeps
<1>2. CASE call[p].kind = "install" /\ Touch(p, "safe", NoProc) /\ Goto(p, "finish")
           /\ UNCHANGED <<writer, faults>>
  <2>1. Turns(p, "finish", "install")
    BY <1>2, GotoTurns DEF IInv, Place
  <2>2. PICK x : x = Art(Its(call[p]))
    OBVIOUS
  <2>3. FsType /\ FlagInv
    BY TypeFacts DEF IInv
  <2>4. /\ FsType' /\ FlagInv' /\ Quiet(p, {})
        /\ \A n \in Names : file'[n] = Touched(file[n], p, "safe", NoProc)
    BY <1>0, <1>2, <2>3, QuietTouch
  <2>5. Its(call[p]) \in Artifacts /\ Its(call[p]) # NoArtifact
    BY <1>0, <1>2, TypeFacts, CallFacts DEF IInv, PlaceInv, PlaceOf, Writing
  <2>6. x \in Names
    BY <2>2, <2>5, NamesLast
  <2>7. Solid(file'[x])
    <3>1. Solid(file[x]) \/ Wrote(p, x)
      BY <1>0, <1>2, <2>2 DEF IInv, CallInv, Has
    <3>2. CASE Solid(file[x])
      BY <3>2, <2>4, <2>6 DEF Quiet, Like
    <3>3. CASE Wrote(p, x)
      <4>1. file[x].by = p /\ file[x] \in File
        BY <1>0, <2>3, <2>6, <3>3 DEF Wrote, FsType
      <4>2. file'[x].st = "safe"
        BY <4>1, <2>4, <2>6 DEF Touched, File
      <4> QED  BY <4>2 DEF Solid
    <3> QED  BY <3>1, <3>2, <3>3
  <2>8. Its(call[p])' = Its(call[p])
    BY <2>1 DEF Turns, Its
  <2>9. PlaceOf(call[p])' /\ Ahead(call'[p]) /\ Ahead(call[p])
    BY <1>0, <1>2, <2>1, <2>5, <2>8 DEF Turns, PlaceOf, Ahead, Writing
  <2>10. Has(p)'
    BY <1>0, <2>1, <2>2, <2>7, <2>8 DEF Turns, Has, Before, Writing, Solid
  <2>11. faults' \in 0..MaxFaults /\ UNCHANGED <<durable, losses, acked, reported, writer>>
    BY <1>0, <1>2 DEF IInv, CommitTypeOK, history
  <2> QED  BY <1>0, <2>1, <2>4, <2>9, <2>10, <2>11, OwnNothing, AheadKeeps DEF At
<1>3. CASE Fail(p)
  BY <1>0, <1>3, FailKeeps DEF At
<1> QED  BY <1>1, <1>2, <1>3 DEF Flush

-----------------------------------------------------------------------------
(* The renames.                                                            *)

LEMMA MoveIs ==
  ASSUME IInv, NEW p \in Procs, call[p].at = "rename", UNCHANGED <<losses, durable>>,
         NEW to \in Lasting, Rename(StagedName(p), to), NEW s, s = StagedName(p)
  PROVE  /\ call[p].kind # "install"
         /\ FsType' /\ FlagInv' /\ Quiet(p, {to} \cup {s})
         /\ Solid(file[s]) /\ file[s].body = Bytes(p) /\ file'[to] = file[s]
         /\ \A g \in May(to)' : g = file[s] \/ g \in May(to)
<1>0. call[p].kind # "install" /\ call[p].at \in Writing
  BY DEF IInv, PlaceInv, PlaceOf, Writing
<1>1. s \in Names /\ s \notin Lasting
  BY <1>0, StagedIs
<1>2. PICK f : f = file[s]
  OBVIOUS
<1>3. FsType /\ FlagInv
  BY TypeFacts DEF IInv
<1>4. f \in File /\ (f.st = "safe" => f.by = NoProc)
  BY <1>1, <1>2, <1>3 DEF FsType, FlagInv
<1>5. to \in Names /\ {s} \cap Lasting = {} /\ to \notin {s}
  BY <1>1, NamesLast
<1>6. Put(f, to, {s})
  BY <1>2 DEF Rename
<1>7. /\ FsType' /\ FlagInv' /\ Quiet(p, {to} \cup {s}) /\ file'[to] = f
      /\ \A g \in May(to)' : g = f \/ g \in May(to)
  BY <1>3, <1>4, <1>5, <1>6, QuietPut
<1>8. Solid(f) /\ f.body = Bytes(p)
  BY <1>0, <1>2 DEF IInv, CallInv, Has, Wrote
<1> QED  BY <1>0, <1>2, <1>7, <1>8

LEMMA MoveArtifactKeeps ==
  ASSUME IInv, NEW p \in Procs, call[p].at = "rename", call[p].kind = "artifact",
         Rename(StagedName(p), Art(Its(call[p]))), Goto(p, "finish"),
         UNCHANGED <<history, losses, durable, writer, faults>>
  PROVE  IInv'
<1>1. PICK x : x = Its(call[p])
  OBVIOUS
<1>2. PICK s : s = StagedName(p)
  OBVIOUS
<1>3. x \in Artifacts /\ x # NoArtifact
  BY <1>1, TypeFacts, CallFacts DEF IInv, PlaceInv, PlaceOf, Writing
<1>4. Art(x) \in Lasting
  BY <1>3, NamesLast
<1>5. /\ FsType' /\ FlagInv' /\ Quiet(p, {Art(x)} \cup {s})
      /\ Solid(file[s]) /\ file'[Art(x)] = file[s]
      /\ \A g \in May(Art(x))' : g = file[s] \/ g \in May(Art(x))
  BY <1>1, <1>2, <1>4, MoveIs
<1>6. Own(p, {Art(x)} \cup {s})
  BY <1>2, <1>5, NamesDiffer, StagedDiffer DEF Own, StagedName, At
<1>7. Turns(p, "finish", "artifact")
  BY GotoTurns DEF IInv, Place
<1>8. Its(call[p])' = x
  BY <1>1, <1>7 DEF Turns, Its
<1>9. PlaceOf(call[p])' /\ Ahead(call'[p]) /\ Ahead(call[p])
  BY <1>3, <1>7, <1>8 DEF Turns, PlaceOf, Ahead, Writing
<1>10. Has(p)'
  BY <1>5, <1>7, <1>8 DEF Turns, Has, Before, Writing, Solid
<1>11. faults' \in 0..MaxFaults /\ UNCHANGED <<acked, reported>>
  BY DEF IInv, CommitTypeOK, history
<1> QED  BY <1>5, <1>6, <1>7, <1>9, <1>10, <1>11, AheadKeeps DEF At

\* A step under the writer lock, before the pointer is renamed.
LEMMA BeforeKeeps ==
  ASSUME IInv, NEW p \in Procs, NEW place, NEW kind, Turns(p, place, kind), ~At(p, "idle"),
         UNCHANGED <<durable, losses, acked, reported, writer>>, faults' \in 0..MaxFaults,
         FsType', FlagInv', NEW S, Quiet(p, S), Own(p, S),
         Before(call[p]), Before(call'[p]), PlaceOf(call[p])', Has(p)'
  PROVE  IInv'
<1>1. HeadsKept /\ call[p].seen = Append(HeadDigest, call[p].op)
  BY QuietHeads DEF Own, IInv, CallInv, Knows
<1>2. ~Ahead(call'[p]) /\ ~After(call'[p]) /\ ~Synced(call'[p])
  BY DEF Ahead, Before, After, Synced, Writing
<1>3. Knows(call[p])'
  BY <1>1, <1>2 DEF Knows, HeadsKept, Turns, Ahead, After, Synced
<1>4. Locked(call'[p]) <=> Locked(call[p])
  BY DEF Locked
<1> QED  BY <1>3, <1>4, StepTurns

LEMMA MoveManifestKeeps ==
  ASSUME IInv, NEW p \in Procs, call[p].at = "rename", call[p].kind = "manifest",
         Rename(StagedName(p), Gen(Len(call[p].seen))), Goto(p, "sync_generations"),
         UNCHANGED <<history, losses, durable, writer, faults>>
  PROVE  IInv'
<1>1. PICK n : n = Len(call[p].seen)
  OBVIOUS
<1>2. PICK s : s = StagedName(p)
  OBVIOUS
<1>3. HeadDigest \in Seq(Ops) /\ call[p].op \in Ops /\ n \in 0..MAX_GENERATIONS - 1
  BY <1>1, TypeFacts, CallFacts DEF IInv
<1>4. Before(call[p]) /\ Locked(call[p]) /\ call[p].seen = Append(HeadDigest, call[p].op)
  BY DEF Before, Locked, Writing, IInv, CallInv, Knows
<1>5. n = Len(HeadDigest) + 1
  BY <1>1, <1>3, <1>4, PrefixAppend
<1>6. Gen(n) \in Lasting
  BY <1>3, NamesLast
<1>7. /\ FsType' /\ FlagInv' /\ Quiet(p, {Gen(n)} \cup {s})
      /\ Solid(file[s]) /\ file[s].body = Bytes(p) /\ file'[Gen(n)] = file[s]
  BY <1>1, <1>2, <1>6, MoveIs
<1>8. file[s].body = call[p].seen
  BY <1>7 DEF Bytes
<1>9. Own(p, {Gen(n)} \cup {s})
  BY <1>2, <1>4, <1>5, NamesDiffer, StagedDiffer DEF Own, StagedName, At
<1>10. Turns(p, "sync_generations", "manifest")
  BY GotoTurns DEF IInv, Place
<1>11. /\ Its(call[p])' = Its(call[p]) /\ call'[p].seen = call[p].seen
       /\ \A f : Solid(f)' = Solid(f)
  BY <1>10 DEF Turns, Its, Solid
<1>12. PlaceOf(call[p])' /\ Before(call'[p])
  BY <1>10 DEF Turns, PlaceOf, Ahead, Before, Writing
<1>13. PICK x : x = Its(call[p])
  OBVIOUS
<1>14. ASSUME x # NoArtifact PROVE \A f \in May(Art(x))' : Solid(f)
  <2>1. \A f \in May(Art(x)) : Solid(f)
    BY <1>4, <1>13, <1>14 DEF IInv, CallInv, Has
  <2>2. x \in Artifacts
    BY <1>13, <1>14, TypeFacts, CallFacts DEF IInv
  <2>3. Art(x) \in Lasting \ ({Gen(n)} \cup {s})
    BY <1>2, <2>2, NamesLast, NamesDiffer, StagedDiffer DEF StagedName
  <2> QED  BY <1>7, <2>1, <2>3 DEF Quiet, Like
<1>15. Has(p)'
  <2>1. call'[p].at = "sync_generations" /\ call'[p].kind = "manifest"
    BY <1>10 DEF Turns
  <2>2. Solid(file[Gen(n)])' /\ file'[Gen(n)].body = call'[p].seen
    BY <1>7, <1>8, <1>11 DEF Solid
  <2>3. Its(call'[p]) # NoArtifact => \A f \in May(Art(x))' : Solid(f)'
    BY <1>11, <1>13, <1>14 DEF Its
  <2>4. Art(Its(call'[p])) = Art(x) /\ Gen(Len(call'[p].seen)) = Gen(n)
    BY <1>1, <1>11, <1>13 DEF Its
  <2> QED  BY <2>1, <2>2, <2>3, <2>4 DEF Has, Writing, Its
<1>16. faults' \in 0..MaxFaults /\ UNCHANGED <<acked, reported>>
  BY DEF IInv, CommitTypeOK, history
<1> QED  BY <1>4, <1>7, <1>9, <1>10, <1>12, <1>15, <1>16, BeforeKeeps DEF At

\* The parts of the invariant put together, for a step that moves the head or
\* the checkpoint.
LEMMA StepCombines ==
  ASSUME IInv, NEW p \in Procs, call' \in [Procs -> Call], Others(p),
         UNCHANGED <<durable, losses>>, acked' \in Digest, reported' \in Digest,
         faults' \in 0..MaxFaults, writer' \in Procs \cup {NoProc}, FsType', FlagInv', HeadInv',
         PlaceOf(call[p])', LockInv', \A q \in Procs : Knows(call[q])' /\ Has(q)'
  PROVE  IInv'
<1>1. CommitTypeOK'
  BY DEF IInv, CommitTypeOK, FsType
<1>2. PlaceInv'
  <2>1. ASSUME NEW q \in Procs, q # p PROVE PlaceOf(call[q])'
    BY <2>1 DEF IInv, PlaceInv, PlaceOf, Others, Ahead, Its
  <2> QED  BY <2>1 DEF PlaceInv
<1> QED  BY <1>1, <1>2 DEF IInv, CallInv

\* Renaming the pointer moves the head to what the call commits.
LEMMA PointerMoves ==
  ASSUME IInv, NEW p \in Procs, call[p].at = "rename", call[p].kind = "pointer",
         Rename(StagedName(p), Current), UNCHANGED <<history, losses, durable>>
  PROVE  /\ FsType' /\ FlagInv' /\ HeadInv'
         /\ HeadDigest' = call[p].seen /\ call[p].seen = Append(HeadDigest, call[p].op)
         /\ \A s : s = StagedName(p) => Quiet(p, {Current} \cup {s})
<1>1. PICK s : s = StagedName(p)
  OBVIOUS
<1>2. PICK d : d = call[p].seen
  OBVIOUS
<1>3. PICK h : h = HeadDigest
  OBVIOUS
<1>4. /\ h \in Seq(Ops) /\ Len(h) \in 0..MAX_GENERATIONS - 1 /\ call[p].op \in Ops
      /\ d \in Seq(Ops) /\ Len(d) \in 0..MAX_GENERATIONS - 1 /\ acked \in Seq(Ops) /\ FsType
  BY <1>2, <1>3, TypeFacts, CallFacts DEF IInv
<1>5. Before(call[p]) /\ d = Append(h, call[p].op)
  BY <1>2, <1>3 DEF Before, Writing, IInv, CallInv, Knows
<1>6. IsPrefixOf(h, d) /\ Len(d) = Len(h) + 1
  BY <1>4, <1>5, PrefixAppend
<1>7. /\ FsType' /\ FlagInv' /\ Quiet(p, {Current} \cup {s})
      /\ Solid(file[s]) /\ file[s].body = Bytes(p) /\ file'[Current] = file[s]
      /\ \A g \in May(Current)' : g = file[s] \/ g \in May(Current)
  BY <1>1, NamesLast, MoveIs
<1>8. file[s].body = d /\ HeadDigest' = d
  BY <1>2, <1>7 DEF Bytes, HeadDigest
<1>9. \A f : Solid(f)' = Solid(f)
  BY DEF Solid
<1>10. \A n \in Lasting \ ({Current} \cup {s}) : \A g \in May(n)' : \E f \in May(n) : Like(g, f)
  BY <1>7 DEF Quiet
<1>11. ASSUME NEW f \in May(Current)
       PROVE  f.body \in Seq(Ops) /\ IsPrefixOf(f.body, h) /\ IsPrefixOf(f.body, d)
  <2>1. f \in File
    BY <1>4, NamesLast DEF FsType, May
  <2>2. f.body \in Seq(Ops) /\ IsPrefixOf(f.body, h)
    BY <2>1, <1>3, FileFacts DEF IInv, HeadInv
  <2> QED  BY <2>2, <1>4, <1>6, PrefixTrans
<1>12. ASSUME NEW f \in May(Current)'
       PROVE  Solid(f) /\ IsPrefixOf(f.body, d) /\ IsPrefixOf(acked, f.body)
  <2>1. CASE f \in May(Current)
    BY <2>1, <1>11 DEF IInv, HeadInv
  <2>2. CASE f = file[s]
    <3>1. IsPrefixOf(acked, h)
      BY <1>3 DEF IInv, HeadInv, May, HeadDigest
    <3>2. IsPrefixOf(acked, d)
      BY <3>1, <1>4, <1>6, PrefixTrans
    <3> QED  BY <2>2, <3>2, <1>4, <1>7, <1>8, PrefixWhole
  <2> QED  BY <2>1, <2>2, <1>7, <1>12
<1>13. ASSUME NEW n \in 0..Len(d), NEW f \in May(Gen(n))'
       PROVE  Solid(f) /\ f.body = Prefix(d, n)
  <2>0. n \in 0..MAX_GENERATIONS - 1
    BY <1>4
  <2>1. Gen(n) \in Lasting \ ({Current} \cup {s})
    BY <2>0, <1>1, NamesLast, NamesDiffer, StagedDiffer DEF StagedName
  <2>2. PICK e \in May(Gen(n)) : Like(f, e)
    BY <2>1, <1>10, <1>13
  <2>3. CASE n \in 0..Len(h)
    <3>1. Solid(e) /\ e.body = Prefix(h, n)
      BY <2>2, <2>3, <1>3 DEF IInv, HeadInv
    <3>2. Prefix(h, n) = Prefix(d, n)
      BY <2>3, <1>4, <1>6, PrefixAgree
    <3> QED  BY <3>1, <3>2, <2>2 DEF Like
  <2>4. CASE n = Len(d)
    <3>1. Solid(e) /\ e.body = d
      BY <2>2, <2>4, <1>2 DEF IInv, CallInv, Has, Writing
    <3>2. Prefix(d, n) = d
      BY <2>4, <1>4, PrefixWhole
    <3> QED  BY <3>1, <3>2, <2>2 DEF Like
  <2>5. n \in 0..Len(h) \/ n = Len(d)
    BY <1>4, <1>6
  <2> QED  BY <2>3, <2>4, <2>5
<1>14. Chain \in Lasting \ ({Current} \cup {s})
  BY <1>1, NamesLast, NamesDiffer, StagedDiffer DEF StagedName
<1>15. ASSUME NEW f \in May(Chain)'
       PROVE  f = NoFile \/ (Solid(f) /\ \A g \in May(Current)' : IsPrefixOf(f.body, g.body))
  <2>1. PICK e \in May(Chain) : Like(f, e)
    BY <1>10, <1>14, <1>15
  <2>2. CASE e = NoFile
    BY <2>1, <2>2 DEF Like
  <2>3. CASE e # NoFile
    <3>1. Solid(e) /\ \A g \in May(Current) : IsPrefixOf(e.body, g.body)
      BY <2>3 DEF IInv, HeadInv
    <3>2. IsPrefixOf(e.body, h)
      BY <3>1, <1>3 DEF May, HeadDigest
    <3>3. e \in File
      BY <1>4, NamesLast DEF FsType, May
    <3>4. e.body \in Seq(Ops)
      BY <3>3, FileFacts
    <3>5. IsPrefixOf(e.body, d)
      BY <3>2, <3>4, <1>4, <1>6, PrefixTrans
    <3>6. \A g \in May(Current)' : IsPrefixOf(e.body, g.body)
      BY <3>1, <3>5, <1>7, <1>8
    <3> QED  BY <3>1, <3>6, <2>1 DEF Like
  <2> QED  BY <2>2, <2>3
<1>16. ASSUME NEW x \in Lists(d), NEW f \in May(Art(x))' PROVE Solid(f)
  <2>1. x \in Artifacts
    BY <1>4, ListsTypes
  <2>2. Art(x) \in Lasting \ ({Current} \cup {s})
    BY <2>1, <1>1, NamesLast, NamesDiffer, StagedDiffer DEF StagedName
  <2>3. PICK e \in May(Art(x)) : Like(f, e)
    BY <2>2, <1>10, <1>16
  <2>4. x \in Lists(h) \/ (x = Its(call[p]) /\ x # NoArtifact)
    BY <1>4, <1>5, ListsAppend DEF Its
  <2>5. CASE x \in Lists(h)
    BY <2>3, <2>5, <1>3 DEF IInv, HeadInv, Like
  <2>6. CASE x = Its(call[p]) /\ x # NoArtifact
    BY <2>3, <2>6, <1>5 DEF IInv, CallInv, Has, Like
  <2> QED  BY <2>4, <2>5, <2>6
<1>17. HeadInv'
  BY <1>8, <1>9, <1>12, <1>13, <1>15, <1>16 DEF HeadInv, history
<1> QED  BY <1>1, <1>2, <1>3, <1>5, <1>7, <1>8, <1>17

LEMMA MovePointerKeeps ==
  ASSUME IInv, NEW p \in Procs, call[p].at = "rename", call[p].kind = "pointer",
         Rename(StagedName(p), Current), Goto(p, "sync_session"),
         UNCHANGED <<history, losses, durable, writer, faults>>
  PROVE  IInv'
<1>1. PICK s : s = StagedName(p)
  OBVIOUS
<1>2. /\ FsType' /\ FlagInv' /\ HeadInv' /\ HeadDigest' = call[p].seen
      /\ call[p].seen = Append(HeadDigest, call[p].op) /\ Quiet(p, {Current} \cup {s})
  BY <1>1, PointerMoves
<1>3. Turns(p, "sync_session", "pointer")
  BY GotoTurns DEF IInv, Place
<1>4. Locked(call[p]) /\ Locked(call'[p]) /\ ~At(p, "idle")
  BY <1>3 DEF Turns, Locked, Before, After, Writing, At
<1>5. PlaceOf(call[p])'
  BY <1>3 DEF Turns, PlaceOf, Ahead, Writing
<1>6. LockInv'
  BY <1>3, <1>4, LockStays DEF Turns, IInv
<1>7. Knows(call[p])' /\ Has(p)'
  BY <1>2, <1>3 DEF Turns, Knows, Has, Ahead, Before, After, Synced, Writing
<1>8. ASSUME NEW q \in Procs, q # p PROVE Knows(call[q])' /\ Has(q)'
  <2>0. call'[q] = call[q] /\ Knows(call[q]) /\ Has(q) /\ ~Locked(call[q])
    BY <1>3, <1>4, <1>8 DEF Turns, Others, IInv, CallInv, LockInv
  <2>1. Knows(call[q])'
    <3>1. ~Before(call[q]) /\ ~After(call[q]) /\ ~Synced(call[q])
      BY <2>0 DEF Locked, After
    <3>2. HeadDigest \in Seq(Ops) /\ call[q].seen \in Seq(Ops) /\ call[p].op \in Ops
      BY TypeFacts, CallFacts DEF IInv
    <3>3. IsPrefixOf(HeadDigest, HeadDigest') /\ HeadDigest' \in Seq(Ops)
      BY <3>2, <1>2, PrefixAppend
    <3>4. Ahead(call[q]) => IsPrefixOf(call[q].seen, HeadDigest')
      BY <2>0, <3>2, <3>3, PrefixTrans DEF Knows
    <3> QED  BY <2>0, <3>1, <3>4 DEF Knows, Ahead, Before, After, Synced
  <2>2. Has(q)'
    <3>1. /\ \A n : Gen(n) \in {Current} \cup {s} => Locked(call[p])
          /\ \A k, o : Staged(k, o) \in {Current} \cup {s} => o = call[p].op
          /\ \A x \in Artifacts : Art(x) \notin {Current} \cup {s}
      BY <1>1, <1>4, NamesDiffer, StagedDiffer DEF StagedName
    <3> QED  BY <2>0, <3>1, <1>2, <1>4, <1>8, OthersHave DEF IInv
  <2> QED  BY <2>1, <2>2
<1>9. faults' \in 0..MaxFaults /\ acked' \in Digest /\ reported' \in Digest
      /\ writer' \in Procs \cup {NoProc}
  BY DEF IInv, CommitTypeOK, history
<1> QED  BY <1>2, <1>3, <1>5, <1>6, <1>7, <1>8, <1>9, StepCombines DEF Turns

LEMMA MoveChainKeeps ==
  ASSUME IInv, NEW p \in Procs, call[p].at = "rename", call[p].kind = "chain",
         Rename(StagedName(p), Chain), Goto(p, "return"),
         UNCHANGED <<history, losses, durable, writer, faults>>
  PROVE  IInv'
<1>1. PICK s : s = StagedName(p)
  OBVIOUS
<1>2. /\ FsType' /\ FlagInv' /\ Quiet(p, {Chain} \cup {s})
      /\ Solid(file[s]) /\ file[s].body = Bytes(p) /\ file'[Chain] = file[s]
      /\ \A g \in May(Chain)' : g = file[s] \/ g \in May(Chain)
  BY <1>1, NamesLast, MoveIs
<1>3. Synced(call[p]) /\ Locked(call[p]) /\ ~At(p, "idle")
  BY DEF Synced, After, Locked, Writing, At
<1>4. call[p].seen = HeadDigest /\ \A f \in May(Current) : f.body = call[p].seen
  BY <1>3 DEF IInv, CallInv, Knows, After
<1>5. Current \notin {Chain} \cup {s}
  BY <1>1, NamesDiffer, StagedDiffer DEF StagedName
<1>6. HeadsKept
  BY <1>2, <1>5, QuietHeads
<1>7. Turns(p, "return", "chain")
  BY GotoTurns DEF IInv, Place
<1>8. Locked(call'[p])
  BY <1>7 DEF Turns, Locked, After, Synced
<1>9. HeadInv'
  <2>0. /\ HeadDigest \in Seq(Ops) /\ Len(HeadDigest) \in 0..MAX_GENERATIONS - 1
        /\ HeadDigest' = HeadDigest
    BY <1>6, TypeFacts DEF IInv, HeadsKept
  <2>1. Current \in Lasting \ ({Chain} \cup {s})
    BY <1>5, NamesLast
  <2>2. \A n \in Lasting \ ({Chain} \cup {s}) : \A g \in May(n)' : \E f \in May(n) : Like(g, f)
    BY <1>2 DEF Quiet
  <2>3. \A f \in May(Current)' :
            Solid(f) /\ IsPrefixOf(f.body, HeadDigest) /\ IsPrefixOf(acked, f.body)
    BY <2>1, <2>2 DEF IInv, HeadInv, Like
  <2>4. \A n \in 0..Len(HeadDigest) : Gen(n) \in Lasting \ ({Chain} \cup {s})
    <3>1. \A n \in 0..Len(HeadDigest) : n \in 0..MAX_GENERATIONS - 1
      BY <2>0
    <3> QED  BY <1>1, <3>1, NamesLast, NamesDiffer, StagedDiffer DEF StagedName
  <2>5. \A n \in 0..Len(HeadDigest) : \A f \in May(Gen(n))' :
            Solid(f) /\ f.body = Prefix(HeadDigest, n)
    BY <2>2, <2>4 DEF IInv, HeadInv, Like
  <2>6. file[s].body = HeadDigest
    BY <1>2, <1>4 DEF Bytes
  <2>7. ASSUME NEW h \in May(Current)' PROVE h.body = HeadDigest
    BY <1>4, <1>6, <2>7 DEF HeadsKept
  <2>8. ASSUME NEW f \in May(Chain)'
        PROVE  f = NoFile \/ (Solid(f) /\ \A h \in May(Current)' : IsPrefixOf(f.body, h.body))
    <3>1. CASE f = file[s]
      BY <3>1, <1>2, <2>0, <2>6, <2>7, PrefixWhole
    <3>2. CASE f \in May(Chain)
      <4>1. f = NoFile \/ (Solid(f) /\ \A h \in May(Current) : IsPrefixOf(f.body, h.body))
        BY <3>2 DEF IInv, HeadInv
      <4>2. \A h \in May(Current) : h.body = HeadDigest
        BY <1>4
      <4>3. file[Current] \in May(Current)
        BY DEF May
      <4> QED  BY <4>1, <4>2, <4>3, <2>7
    <3> QED  BY <1>2, <2>8, <3>1, <3>2
  <2>9. \A x \in Lists(HeadDigest) : Art(x) \in Lasting \ ({Chain} \cup {s})
    <3>1. \A x \in Lists(HeadDigest) : x \in Artifacts
      BY <2>0, ListsTypes
    <3> QED  BY <1>1, <3>1, NamesLast, NamesDiffer, StagedDiffer DEF StagedName
  <2>10. \A x \in Lists(HeadDigest) : \A f \in May(Art(x))' : Solid(f)
    BY <2>2, <2>9 DEF IInv, HeadInv, Like
  <2>11. \A f : Solid(f)' = Solid(f)
    BY DEF Solid
  <2> QED  BY <2>0, <2>3, <2>5, <2>8, <2>10, <2>11 DEF HeadInv, history
<1>10. PlaceOf(call[p])'
  BY <1>7 DEF Turns, PlaceOf, Ahead, Writing
<1>11. LockInv'
  BY <1>3, <1>7, <1>8, LockStays DEF Turns, IInv
<1>12. Knows(call[p])' /\ Has(p)'
  BY <1>4, <1>6, <1>7 DEF Turns, Knows, Has, HeadsKept, Ahead, Before, After, Synced, Writing
<1>13. ASSUME NEW q \in Procs, q # p PROVE Knows(call[q])' /\ Has(q)'
  <2>0. call'[q] = call[q] /\ Knows(call[q]) /\ Has(q)
    BY <1>7, <1>13 DEF Turns, Others, IInv, CallInv
  <2>1. Knows(call[q])'
    BY <2>0, <1>6, OthersKnow
  <2>2. /\ \A n : Gen(n) \in {Chain} \cup {s} => Locked(call[p])
        /\ \A k, o : Staged(k, o) \in {Chain} \cup {s} => o = call[p].op
        /\ \A x \in Artifacts : Art(x) \notin {Chain} \cup {s}
    BY <1>1, <1>3, NamesDiffer, StagedDiffer DEF StagedName
  <2>3. Has(q)'
    BY <2>0, <2>2, <1>2, <1>3, <1>13, OthersHave DEF IInv
  <2> QED  BY <2>1, <2>3
<1>14. faults' \in 0..MaxFaults /\ acked' \in Digest /\ reported' \in Digest
       /\ writer' \in Procs \cup {NoProc}
  BY DEF IInv, CommitTypeOK, history
<1> QED  BY <1>2, <1>7, <1>9, <1>10, <1>11, <1>12, <1>13, <1>14, StepCombines DEF Turns

LEMMA MoveKeeps ==
  ASSUME IInv, NEW p \in Procs, Move(p)
  PROVE  IInv'
<1>0. call[p].at = "rename" /\ UNCHANGED <<history, losses, durable>>
  BY DEF Move, At
<1>1. CASE Fail(p)
  BY <1>0, <1>1, FailKeeps DEF At
<1>2. CASE Rename(StagedName(p), Destination(p)) /\ Goto(p, Then[call[p].kind])
           /\ UNCHANGED <<writer, faults>>
  <2>0. call[p].kind \in {"artifact", "manifest", "pointer", "chain"}
    BY <1>0, TypeFacts, CallFacts DEF IInv, PlaceInv, PlaceOf, Kinds
  <2>1. CASE call[p].kind = "artifact"
    BY <1>0, <1>2, <2>1, MoveArtifactKeeps DEF Destination, Then, Its
  <2>2. CASE call[p].kind = "manifest"
    BY <1>0, <1>2, <2>2, MoveManifestKeeps DEF Destination, Then
  <2>3. CASE call[p].kind = "pointer"
    BY <1>0, <1>2, <2>3, MovePointerKeeps DEF Destination, Then
  <2>4. CASE call[p].kind = "chain"
    BY <1>0, <1>2, <2>4, MoveChainKeeps DEF Destination, Then
  <2> QED  BY <2>0, <2>1, <2>2, <2>3, <2>4
<1> QED  BY <1>1, <1>2 DEF Move

-----------------------------------------------------------------------------
(* The steps under the writer lock.                                        *)

LEMMA LockTakes ==
  ASSUME IInv, NEW p \in Procs, At(p, "lock"), writer = NoProc, writer' = p,
         UNCHANGED <<fsVars, history, faults, losses, durable>>,
         NEW place \in {"ack_generations", "manifest"}, NEW d \in Digest,
         call' = [call EXCEPT ![p].at = place, ![p].seen = d],
         place = "ack_generations" => d = HeadDigest,
         place = "manifest" => d = Append(HeadDigest, call[p].op)
  PROVE  IInv'
<1>0. call[p].at = "lock" /\ call[p] \in Call /\ call \in [Procs -> Call]
  BY TypeFacts DEF At, IInv, CommitTypeOK
<1>1. PICK k : k = [call[p] EXCEPT !.at = place, !.seen = d]
  OBVIOUS
<1>2. k \in Call /\ k.at = place /\ k.seen = d /\ k.op = call[p].op /\ k.kind = call[p].kind
  BY <1>0, <1>1 DEF Call, Place
<1>3. call' = [call EXCEPT ![p] = k]
  BY <1>1
<1>4. call' \in [Procs -> Call] /\ Others(p) /\ call'[p] = k
  BY <1>0, <1>2, <1>3 DEF Others
<1>5. FsType' /\ FlagInv' /\ Quiet(p, {})
  BY FsKept
<1>6. HeadDigest' = HeadDigest
  BY <1>5, QuietHeads DEF HeadsKept
<1>7. k.kind \in {"install", "artifact"}
  BY <1>0, <1>2 DEF IInv, PlaceInv, PlaceOf, Ahead
<1>8. Its(call[p])' = Its(call[p])
  BY <1>2, <1>4 DEF Its
<1>9. PlaceOf(call[p])'
  BY <1>2, <1>4, <1>7 DEF PlaceOf, Ahead, Writing
<1>10. Knows(call[p])'
  BY <1>2, <1>4, <1>6, <1>7 DEF Knows, Ahead, Before, After, Synced, Writing
<1>11. PICK x : x = Its(call[p])
  OBVIOUS
<1>12. ASSUME x # NoArtifact PROVE \A f \in May(Art(x))' : Solid(f)
  BY <1>0, <1>5, <1>11, <1>12, SelfHas
<1>13. Has(p)'
  <2>1. \A f : Solid(f)' = Solid(f)
    BY DEF Solid
  <2>2. Art(Its(call'[p])) = Art(x) /\ Its(call'[p]) = x
    BY <1>8, <1>11 DEF Its
  <2> QED  BY <1>2, <1>4, <1>12, <2>1, <2>2 DEF Has, Before, Writing, Its
<1>14. LockInv'
  <2>1. Locked(call'[p])
    BY <1>2, <1>4 DEF Locked, Before, After
  <2>2. ASSUME NEW q \in Procs PROVE writer' = q <=> Locked(call'[q])
    BY <2>1, <1>4 DEF IInv, LockInv, Others
  <2>3. ASSUME NEW q \in Procs, NEW r \in Procs, q # r,
               call'[q].at # "idle", call'[r].at # "idle"
        PROVE  call'[q].op # call'[r].op
    BY <2>3, <1>0, <1>2, <1>4 DEF IInv, LockInv, Others, At
  <2>4. \A q \in Procs : Locked(call[q])' = Locked(call'[q])
    BY DEF Locked, Before, After, Synced
  <2> QED  BY <2>2, <2>3, <2>4 DEF LockInv, At
<1>15. faults' \in 0..MaxFaults /\ UNCHANGED acked /\ reported' \in Digest
       /\ writer' \in Procs \cup {NoProc}
  BY DEF IInv, CommitTypeOK, history
<1> QED  BY <1>4, <1>5, <1>9, <1>10, <1>13, <1>14, <1>15, OwnNothing, StepKeeps

LEMMA LockKeeps ==
  ASSUME IInv, NEW p \in Procs, Lock(p)
  PROVE  IInv'
<1>0. /\ At(p, "lock") /\ call[p].at = "lock"
      /\ UNCHANGED <<fsVars, history, faults, losses, durable>>
  BY DEF Lock, At
<1>1. Readable
  BY HeadReadable
<1>2. /\ HeadDigest \in Seq(Ops) /\ Len(HeadDigest) \in 0..MAX_GENERATIONS - 1
      /\ call[p].op \in Ops
  BY TypeFacts, CallFacts DEF IInv
<1>3. CASE Reject(p)
  <2>1. FsType' /\ FlagInv' /\ Quiet(p, {})
    BY <1>0, FsKept
  <2>2. call[p].kind # "chain"
    BY <1>0 DEF IInv, PlaceInv, PlaceOf, Ahead
  <2>3. faults' \in 0..MaxFaults /\ UNCHANGED <<acked, reported>>
    BY <1>0 DEF IInv, CommitTypeOK, history
  <2> QED  BY <1>0, <1>3, <2>1, <2>2, <2>3, RejectKeeps DEF Reject, At
<1>4. CASE /\ WriterFree /\ writer' = p
           /\ call' = [call EXCEPT ![p].at = "ack_generations", ![p].seen = HeadDigest]
  <2>1. HeadDigest \in Digest
    BY <1>2 DEF Digest
  <2> QED  BY <1>0, <1>4, <2>1, LockTakes DEF WriterFree
<1>5. CASE /\ WriterFree /\ CanFollow(p) /\ writer' = p
           /\ call' = [call EXCEPT ![p].at = "manifest",
                                   ![p].seen = Append(HeadDigest, call[p].op)]
  <2>1. Append(HeadDigest, call[p].op) \in Digest
    BY <1>2, <1>5, PrefixAppend DEF Digest, CanFollow
  <2> QED  BY <1>0, <1>5, <2>1, LockTakes DEF WriterFree
<1> QED  BY <1>1, <1>3, <1>4, <1>5 DEF Lock

LEMMA InstallManifestKeeps ==
  ASSUME IInv, NEW p \in Procs, InstallManifest(p)
  PROVE  IInv'
<1>0. /\ call[p].at = "manifest" /\ Before(call[p])
      /\ UNCHANGED <<fsVars, writer, history, faults, losses, durable>>
  BY DEF InstallManifest, At, Before
<1>1. FsType' /\ FlagInv' /\ Quiet(p, {}) /\ Own(p, {})
  BY <1>0, FsKept, OwnNothing
<1>2. faults' \in 0..MaxFaults /\ UNCHANGED <<acked, reported>>
  BY <1>0 DEF IInv, CommitTypeOK, history
<1>3. PICK x : x = Its(call[p])
  OBVIOUS
<1>4. x # NoArtifact => \A f \in May(Art(x))' : Solid(f)
  BY <1>0, <1>1, <1>3, SelfHas
<1>5. \A f : Solid(f)' = Solid(f)
  BY <1>0 DEF Solid
<1>6. PICK g : g = Gen(Len(call[p].seen))
  OBVIOUS
<1>7. CASE ~durable /\ Whole(file[g]) /\ file[g].body = call[p].seen /\ Goto(p, "sync_generations")
  <2>1. Turns(p, "sync_generations", call[p].kind)
    BY <1>7, GotoTurns DEF IInv, Place
  <2>2. call[p].kind # "chain"
    BY <1>0 DEF IInv, PlaceInv, PlaceOf, Writing
  <2>3. PlaceOf(call[p])' /\ Before(call'[p])
    BY <2>1, <2>2 DEF Turns, PlaceOf, Ahead, Before, Writing
  <2>4. Solid(file[g])' /\ file'[g].body = call'[p].seen
    BY <1>0, <1>7, <2>1 DEF Turns, Solid, Whole, fsVars
  <2>5. Art(Its(call'[p])) = Art(x) /\ Its(call'[p]) = x /\ Gen(Len(call'[p].seen)) = g
    BY <1>3, <1>6, <2>1 DEF Turns, Its
  <2>6. Has(p)'
    BY <1>4, <1>5, <2>1, <2>4, <2>5 DEF Turns, Has, Before, Writing, Its
  <2> QED  BY <1>0, <1>1, <1>2, <2>1, <2>3, <2>6, BeforeKeeps DEF At
<1>8. CASE GoWrite(p, "manifest")
  <2>1. Turns(p, "stage", "manifest")
    BY <1>8, GoWriteTurns DEF IInv, Kinds
  <2>2. PlaceOf(call[p])' /\ Before(call'[p])
    BY <2>1 DEF Turns, PlaceOf, Ahead, Before, Writing
  <2>3. Art(Its(call'[p])) = Art(x) /\ Its(call'[p]) = x
    BY <1>3, <2>1 DEF Turns, Its
  <2>4. Has(p)'
    BY <1>4, <1>5, <2>1, <2>3 DEF Turns, Has, Before, Writing, Its
  <2> QED  BY <1>0, <1>1, <1>2, <2>1, <2>2, <2>4, BeforeKeeps DEF At
<1> QED  BY <1>6, <1>7, <1>8 DEF InstallManifest

LEMMA SyncGenerationsKeeps ==
  ASSUME IInv, NEW p \in Procs, SyncGenerations(p)
  PROVE  IInv'
<1>0. call[p].at = "sync_generations" /\ Before(call[p]) /\ UNCHANGED <<history, losses, durable>>
  BY DEF SyncGenerations, At, Before
<1>1. CASE sync_directory("generations") /\ GoWrite(p, "pointer") /\ UNCHANGED <<writer, faults>>
  <2>1. Turns(p, "stage", "pointer")
    BY <1>1, GoWriteTurns DEF IInv, Kinds
  <2>2. FsType /\ FlagInv
    BY TypeFacts DEF IInv
  <2>3. /\ FsType' /\ FlagInv' /\ Quiet(p, {}) /\ file' = file
        /\ \A n \in NamesIn("generations") : May(n)' = {file[n]}
    BY <1>0, <1>1, <2>2, QuietSync
  <2>4. PICK n : n = Len(call[p].seen)
    OBVIOUS
  <2>5. Gen(n) \in NamesIn("generations")
    <3>1. n \in 0..MAX_GENERATIONS - 1
      BY <2>4, TypeFacts, CallFacts DEF IInv
    <3> QED  BY <3>1, NamesInOne
  <2>6. Solid(file[Gen(n)]) /\ file[Gen(n)].body = call[p].seen
    BY <1>0, <2>4 DEF IInv, CallInv, Has
  <2>7. \A f \in May(Gen(n))' : Solid(f) /\ f.body = call[p].seen
    BY <2>3, <2>5, <2>6
  <2>8. PICK x : x = Its(call[p])
    OBVIOUS
  <2>9. x # NoArtifact => \A f \in May(Art(x))' : Solid(f)
    BY <1>0, <2>3, <2>8, SelfHas
  <2>10. \A f : Solid(f)' = Solid(f)
    BY <1>0 DEF Solid
  <2>11. /\ Art(Its(call'[p])) = Art(x) /\ Its(call'[p]) = x
         /\ Gen(Len(call'[p].seen)) = Gen(n) /\ call'[p].seen = call[p].seen
    BY <2>1, <2>4, <2>8 DEF Turns, Its
  <2>12. Has(p)'
    BY <2>1, <2>7, <2>9, <2>10, <2>11 DEF Turns, Has, Before, Writing, Its
  <2>13. PlaceOf(call[p])' /\ Before(call'[p])
    BY <2>1 DEF Turns, PlaceOf, Ahead, Before, Writing
  <2>14. faults' \in 0..MaxFaults /\ UNCHANGED <<acked, reported>>
    BY <1>0, <1>1 DEF IInv, CommitTypeOK, history
  <2> QED  BY <1>0, <1>1, <2>1, <2>3, <2>12, <2>13, <2>14, OwnNothing, BeforeKeeps DEF At
<1>2. CASE Fail(p)
  BY <1>0, <1>2, FailKeeps DEF At
<1> QED  BY <1>1, <1>2 DEF SyncGenerations

\* A step under the writer lock, after the pointer is renamed.
LEMMA AfterKeeps ==
  ASSUME IInv, NEW p \in Procs, NEW place, NEW kind, Turns(p, place, kind), ~At(p, "idle"),
         UNCHANGED <<durable, losses, acked, reported, writer>>, faults' \in 0..MaxFaults,
         FsType', FlagInv', Quiet(p, {}),
         After(call[p]), place \in {"confirm", "stage", "ack_session", "return"},
         place = "stage" <=> kind = "chain", place = "ack_session" => kind # "chain",
         place # "ack_session" =>
             Synced(call[p]) \/ May(Current)' = {file[Current]}
  PROVE  IInv'
<1>1. HeadsKept /\ call[p].seen = HeadDigest
  BY QuietHeads DEF IInv, CallInv, Knows
<1>2. After(call'[p]) /\ ~Ahead(call'[p]) /\ ~Before(call'[p])
  BY DEF Turns, Ahead, Before, After, Synced, Writing
<1>3. ASSUME place # "ack_session" PROVE \A f \in May(Current)' : f.body = call[p].seen
  <2>1. CASE Synced(call[p])
    BY <2>1, <1>1 DEF IInv, CallInv, Knows, HeadsKept
  <2>2. CASE May(Current)' = {file[Current]}
    BY <2>2, <1>1 DEF HeadDigest
  <2> QED  BY <1>3, <2>1, <2>2
<1>4. Knows(call[p])'
  BY <1>1, <1>2, <1>3 DEF Turns, Knows, HeadsKept, Ahead, Before, After, Synced, Writing
<1>5. Locked(call'[p]) <=> Locked(call[p])
  BY <1>2 DEF Locked
<1>6. PlaceOf(call[p])'
  BY <1>2 DEF Turns, PlaceOf, Ahead, Writing
<1>7. Has(p)'
  BY <1>2 DEF Turns, Has, Before, Writing
<1> QED  BY <1>4, <1>5, <1>6, <1>7, OwnNothing, StepTurns

LEMMA SyncIs ==
  ASSUME IInv, UNCHANGED <<losses, durable>>, NEW p,
         NEW dir \in {"session", "generations"}, sync_directory(dir)
  PROVE  /\ FsType' /\ FlagInv' /\ Quiet(p, {})
         /\ dir = "session" => May(Current)' = {file[Current]}
<1>1. FsType /\ FlagInv
  BY TypeFacts DEF IInv
<1>2. /\ FsType' /\ FlagInv' /\ Quiet(p, {})
      /\ \A n \in NamesIn(dir) : May(n)' = {file[n]}
  BY <1>1, QuietSync
<1>3. Current \in NamesIn("session")
  BY NamesInOne
<1> QED  BY <1>2, <1>3

LEMMA SyncSessionKeeps ==
  ASSUME IInv, NEW p \in Procs, SyncSession(p)
  PROVE  IInv'
<1>0. call[p].at = "sync_session" /\ After(call[p]) /\ UNCHANGED <<history, losses, durable>>
  BY DEF SyncSession, At, After
<1>1. CASE sync_directory("session") /\ Goto(p, "confirm") /\ UNCHANGED <<writer, faults>>
  <2>1. Turns(p, "confirm", call[p].kind) /\ call[p].kind # "chain"
    BY <1>0, <1>1, GotoTurns DEF IInv, Place, PlaceInv, PlaceOf, Writing
  <2>2. FsType' /\ FlagInv' /\ Quiet(p, {}) /\ May(Current)' = {file[Current]}
    BY <1>0, <1>1, SyncIs
  <2>3. faults' \in 0..MaxFaults /\ UNCHANGED <<acked, reported>>
    BY <1>0, <1>1 DEF IInv, CommitTypeOK, history
  <2> QED  BY <1>0, <1>1, <2>1, <2>2, <2>3, AfterKeeps DEF At
<1>2. CASE Fail(p)
  BY <1>0, <1>2, FailKeeps DEF At
<1> QED  BY <1>1, <1>2 DEF SyncSession

LEMMA ConfirmKeeps ==
  ASSUME IInv, NEW p \in Procs, Confirm(p)
  PROVE  IInv'
<1>0. /\ call[p].at = "confirm" /\ After(call[p]) /\ Synced(call[p])
      /\ UNCHANGED <<fsVars, history, faults, losses, durable>>
  BY DEF Confirm, At, After, Synced
<1>1. Readable /\ HeadDigest = call[p].seen
  BY <1>0, HeadReadable DEF IInv, CallInv, Knows
<1>2. GoWrite(p, "chain") /\ UNCHANGED writer
  BY <1>1 DEF Confirm
<1>3. Turns(p, "stage", "chain")
  BY <1>2, GoWriteTurns DEF IInv, Kinds
<1>4. FsType' /\ FlagInv' /\ Quiet(p, {})
  BY <1>0, FsKept
<1>5. faults' \in 0..MaxFaults /\ UNCHANGED <<acked, reported>>
  BY <1>0 DEF IInv, CommitTypeOK, history
<1> QED  BY <1>0, <1>2, <1>3, <1>4, <1>5, AfterKeeps DEF At

LEMMA AcknowledgeRetryKeeps ==
  ASSUME IInv, NEW p \in Procs, AcknowledgeRetry(p)
  PROVE  IInv'
<1>0. /\ call[p].at \in {"ack_generations", "ack_session"} /\ After(call[p])
      /\ UNCHANGED <<history, losses, durable>>
  BY DEF AcknowledgeRetry, At, After
<1>1. call[p].kind # "chain"
  BY <1>0 DEF IInv, PlaceInv, PlaceOf, Writing
<1>2. CASE sync_directory("generations") /\ Goto(p, "ack_session") /\ UNCHANGED <<writer, faults>>
  <2>1. Turns(p, "ack_session", call[p].kind)
    BY <1>2, GotoTurns DEF IInv, Place
  <2>2. FsType' /\ FlagInv' /\ Quiet(p, {})
    BY <1>0, <1>2, SyncIs
  <2>3. faults' \in 0..MaxFaults /\ UNCHANGED <<acked, reported>>
    BY <1>0, <1>2 DEF IInv, CommitTypeOK, history
  <2> QED  BY <1>0, <1>1, <1>2, <2>1, <2>2, <2>3, AfterKeeps DEF At
<1>3. CASE sync_directory("session") /\ Goto(p, "return") /\ UNCHANGED <<writer, faults>>
  <2>1. Turns(p, "return", call[p].kind)
    BY <1>3, GotoTurns DEF IInv, Place
  <2>2. FsType' /\ FlagInv' /\ Quiet(p, {}) /\ May(Current)' = {file[Current]}
    BY <1>0, <1>3, SyncIs
  <2>3. faults' \in 0..MaxFaults /\ UNCHANGED <<acked, reported>>
    BY <1>0, <1>3 DEF IInv, CommitTypeOK, history
  <2> QED  BY <1>0, <1>1, <1>3, <2>1, <2>2, <2>3, AfterKeeps DEF At
<1>4. CASE Fail(p)
  BY <1>0, <1>4, FailKeeps DEF At
<1> QED  BY <1>2, <1>3, <1>4 DEF AcknowledgeRetry

LEMMA ReturnKeeps ==
  ASSUME IInv, NEW p \in Procs, Return(p)
  PROVE  IInv'
<1>0. /\ call[p].at = "return" /\ After(call[p]) /\ Synced(call[p]) /\ acked' = call[p].seen
      /\ UNCHANGED <<fsVars, reported, faults, losses, durable>>
  BY DEF Return, At, After, Synced
<1>1. call[p].seen = HeadDigest /\ \A f \in May(Current) : f.body = call[p].seen
  BY <1>0 DEF IInv, CallInv, Knows
<1>2. call' \in [Procs -> Call] /\ Others(p) /\ call'[p].at = "idle" /\ call'[p].kind = "install"
  BY EndIs DEF Return, IInv
<1>3. FsType' /\ FlagInv' /\ Quiet(p, {})
  BY <1>0, FsKept
<1>4. HeadsKept
  BY <1>3, QuietHeads
<1>5. HeadInv'
  <2>1. file' = file /\ disk' = disk /\ durable' = durable
    BY <1>0 DEF fsVars
  <2>2. HeadDigest \in Seq(Ops)
    BY TypeFacts DEF IInv
  <2>3. \A f \in May(Current) : IsPrefixOf(acked', f.body)
    BY <1>0, <1>1, <2>2, PrefixWhole
  <2>4. HeadDigest' = HeadDigest /\ (\A n : May(n)' = May(n)) /\ (\A f : Solid(f)' = Solid(f))
    BY <2>1 DEF HeadDigest, May, Solid
  <2> QED  BY <2>3, <2>4 DEF IInv, HeadInv
<1>6. ~Locked(call'[p])
  BY <1>2 DEF Locked, Before, After, Synced, Writing
<1>7. LockInv' /\ writer' \in Procs \cup {NoProc}
  BY <1>2, <1>6, LockLeft DEF Return, IInv
<1>8. PlaceOf(call[p])'
  BY <1>2 DEF PlaceOf, Ahead, Writing
<1>9. Knows(call[p])' /\ Has(p)'
  BY <1>2 DEF Knows, Has, Ahead, Before, After, Synced, Writing
<1>10. ASSUME NEW q \in Procs, q # p PROVE Knows(call[q])' /\ Has(q)'
  <2>0. call'[q] = call[q] /\ Knows(call[q]) /\ Has(q)
    BY <1>2, <1>10 DEF Others, IInv, CallInv
  <2>1. Knows(call[q])'
    BY <2>0, <1>4, OthersKnow
  <2>2. Has(q)'
    BY <2>0, <1>0, <1>3, <1>10, OthersHave DEF IInv
  <2> QED  BY <2>1, <2>2
<1>11. faults' \in 0..MaxFaults /\ acked' \in Digest /\ reported' \in Digest
  BY <1>0 DEF IInv, CommitTypeOK, Call
<1> QED  BY <1>0, <1>2, <1>3, <1>5, <1>7, <1>8, <1>9, <1>10, <1>11, StepCombines

-----------------------------------------------------------------------------
(* A loss of power.                                                        *)

LEMMA SurvivorIs ==
  ASSUME NEW f \in File, NEW g \in Survivors(f)
  PROVE  /\ g \in File /\ g.body = f.body /\ g.by = NoProc
         /\ f.st = "safe" => g.st = "safe"
         /\ f = NoFile => g = NoFile
<1>1. CASE f.st = "written"
  <2>1. f # NoFile
    BY <1>1, NoFileIs
  <2>2. PICK s \in {"partial", "safe"} : g = [f EXCEPT !.by = NoProc, !.st = s]
    BY <1>1 DEF Survivors
  <2> QED  BY <1>1, <2>1, <2>2 DEF File
<1>2. CASE f.st # "written"
  <2>1. g = [f EXCEPT !.by = NoProc]
    BY <1>2 DEF Survivors
  <2>2. g \in File /\ g.body = f.body /\ g.by = NoProc /\ g.st = f.st
    BY <2>1 DEF File
  <2>3. f = NoFile => g = NoFile
    BY <2>1 DEF NoFile
  <2> QED  BY <2>2, <2>3
<1> QED  BY <1>1, <1>2

\* Each name that lasts holds what survives of a file the disk may have kept.
LEMMA LossLeaves ==
  ASSUME IInv, PowerLoss
  PROVE  /\ durable
         /\ \A n \in Lasting : May(n)' = {file'[n]}
         /\ \A n \in Lasting : \E f \in disk[n] : file'[n] \in Survivors(f)
         /\ FsType' /\ FlagInv'
<1>0. FsType /\ FlagInv /\ losses > 0
  BY TypeFacts DEF IInv, PowerLoss
<1>1. durable
  BY <1>0 DEF FlagInv
<1>2. disk' = [n \in Lasting |-> {file'[n]}]
  BY <1>0 DEF PowerLoss, OnDisk
<1>3. PICK a \in AfterLoss("artifacts"), g \in AfterLoss("generations"),
           s \in AfterLoss("session"), gone \in BOOLEAN :
        file' = [n \in Names |->
                   CASE n \in NamesIn("artifacts")   -> a[n]
                     [] n \in NamesIn("generations") -> g[n]
                     [] n \in NamesIn("session")     -> s[n]
                     [] OTHER -> IF gone \/ ~Exists(n) THEN NoFile
                                 ELSE [file[n] EXCEPT !.st = "partial", !.by = NoProc]]
  BY DEF PowerLoss
<1>4. ASSUME NEW dir, NEW d \in AfterLoss(dir), NEW n \in NamesIn(dir)
      PROVE  \E f \in disk[n] : d[n] \in Survivors(f)
  BY <1>4 DEF AfterLoss
<1>5. /\ NamesIn("artifacts") \cap NamesIn("generations") = {}
      /\ NamesIn("artifacts") \cap NamesIn("session") = {}
      /\ NamesIn("generations") \cap NamesIn("session") = {}
      /\ Lasting = NamesIn("session") \cup NamesIn("generations") \cup NamesIn("artifacts")
      /\ Lasting \subseteq Names
  BY NamesInOne, NamesDiffer, NamesLast
<1>6. /\ \A n \in NamesIn("artifacts") : file'[n] = a[n]
      /\ \A n \in NamesIn("generations") : file'[n] = g[n]
      /\ \A n \in NamesIn("session") : file'[n] = s[n]
  BY <1>3, <1>5
<1>7. \A n \in Lasting : \E f \in disk[n] : file'[n] \in Survivors(f)
  <2>1. ASSUME NEW n \in NamesIn("artifacts") PROVE \E f \in disk[n] : file'[n] \in Survivors(f)
    BY <1>3, <1>4, <1>6
  <2>2. ASSUME NEW n \in NamesIn("generations") PROVE \E f \in disk[n] : file'[n] \in Survivors(f)
    BY <1>3, <1>4, <1>6
  <2>3. ASSUME NEW n \in NamesIn("session") PROVE \E f \in disk[n] : file'[n] \in Survivors(f)
    BY <1>3, <1>4, <1>6
  <2> QED  BY <2>1, <2>2, <2>3, <1>5
<1>8. ASSUME NEW n \in Lasting PROVE file'[n] \in File /\ file'[n].by = NoProc
  BY <1>0, <1>7, SurvivorIs DEF FsType
<1>9. ASSUME NEW n \in Names \ Lasting
      PROVE  file'[n] \in File /\ (file'[n].st = "safe" => file'[n].by = NoProc)
  <2>1. file'[n] = IF gone \/ ~Exists(n) THEN NoFile
                   ELSE [file[n] EXCEPT !.st = "partial", !.by = NoProc]
    BY <1>3, <1>5, <1>9
  <2>2. file[n] \in File
    BY <1>0 DEF FsType
  <2>3. [file[n] EXCEPT !.st = "partial", !.by = NoProc] \in File
    BY <2>2 DEF File
  <2>4. [file[n] EXCEPT !.st = "partial", !.by = NoProc].st = "partial"
    BY <2>2 DEF File
  <2> QED  BY <2>1, <2>3, <2>4, NoFileIs
<1>10. file' \in [Names -> File]
  <2>1. \A n \in Names : file'[n] \in File
    BY <1>8, <1>9
  <2> DEFINE e(n) == CASE n \in NamesIn("artifacts")   -> a[n]
                      [] n \in NamesIn("generations") -> g[n]
                      [] n \in NamesIn("session")     -> s[n]
                      [] OTHER -> IF gone \/ ~Exists(n) THEN NoFile
                                  ELSE [file[n] EXCEPT !.st = "partial", !.by = NoProc]
  <2>2. file' = [n \in Names |-> e(n)]
    BY <1>3
  <2> HIDE DEF e
  <2>3. file' = [n \in Names |-> file'[n]]
    BY <2>2
  <2> QED  BY <2>1, <2>3
<1>11. FsType'
  BY <1>2, <1>8, <1>10 DEF FsType
<1>12. FlagInv'
  <2>1. durable' = durable
    BY DEF PowerLoss
  <2>2. \A n \in Names : file'[n].st = "safe" => file'[n].by = NoProc
    BY <1>8, <1>9
  <2>3. \A n \in Lasting : \A f \in disk'[n] : f.st = "safe" => f.by = NoProc
    BY <1>2, <1>8
  <2> QED  BY <1>1, <2>1, <2>2, <2>3 DEF FlagInv
<1>13. \A n \in Lasting : May(n)' = {file'[n]}
  BY <1>2 DEF May
<1> QED  BY <1>1, <1>7, <1>11, <1>12, <1>13

\* The head falls back to one the disk may have kept, and what belongs to it is
\* still there.
LEMMA LossHead ==
  ASSUME IInv, PowerLoss
  PROVE  HeadInv' /\ IsPrefixOf(HeadDigest', HeadDigest) /\ IsPrefixOf(acked, HeadDigest')
<1>0. /\ HeadDigest \in Seq(Ops) /\ Len(HeadDigest) \in 0..MAX_GENERATIONS - 1
      /\ acked \in Seq(Ops) /\ FsType
  BY TypeFacts DEF IInv
<1>1. /\ durable /\ FsType'
      /\ \A n \in Lasting : May(n)' = {file'[n]}
      /\ \A n \in Lasting : \E f \in disk[n] : file'[n] \in Survivors(f)
  BY LossLeaves
<1>2. UNCHANGED <<durable, acked>>
  BY DEF PowerLoss, history
<1>3. ASSUME NEW n \in Lasting
      PROVE  \E f \in May(n) : f \in File /\ Like(file'[n], f)
  <2>1. PICK f \in disk[n] : file'[n] \in Survivors(f)
    BY <1>1
  <2>2. f \in File /\ f \in May(n)
    BY <1>0 DEF FsType, May
  <2>3. Like(file'[n], f)
    BY <1>1, <2>1, <2>2, SurvivorIs DEF Like, Solid
  <2> QED  BY <2>2, <2>3
<1>4. PICK c \in May(Current) : c \in File /\ Like(file'[Current], c)
  BY <1>3, NamesLast
<1>5. PICK h : h = HeadDigest'
  OBVIOUS
<1>6. h = c.body /\ h \in Seq(Ops) /\ Len(h) \in Nat
  BY <1>4, <1>5, FileFacts DEF Like, HeadDigest
<1>7. Solid(c) /\ IsPrefixOf(h, HeadDigest) /\ IsPrefixOf(acked, h)
  BY <1>4, <1>6 DEF IInv, HeadInv
<1>8. Len(h) <= Len(HeadDigest)
  BY <1>7 DEF IsPrefixOf
<1>9. \A f \in May(Current)' : Solid(f) /\ IsPrefixOf(f.body, h) /\ IsPrefixOf(acked, f.body)
  <2>1. Current \in Lasting
    BY NamesLast
  <2>2. Solid(file'[Current]) /\ file'[Current].body = h
    BY <1>4, <1>6, <1>7 DEF Like
  <2>3. IsPrefixOf(h, h)
    BY <1>6, PrefixWhole
  <2> QED  BY <1>1, <1>7, <2>1, <2>2, <2>3
<1>10. ASSUME NEW n \in 0..Len(h)
       PROVE  \A f \in May(Gen(n))' : Solid(f) /\ f.body = Prefix(h, n)
  <2>1. n \in 0..Len(HeadDigest) /\ n \in 0..MAX_GENERATIONS - 1
    BY <1>0, <1>6, <1>8
  <2>2. Gen(n) \in Lasting
    BY <2>1, NamesLast
  <2>3. PICK e \in May(Gen(n)) : Like(file'[Gen(n)], e)
    BY <2>2, <1>3
  <2>4. Solid(e) /\ e.body = Prefix(HeadDigest, n)
    BY <2>1, <2>3 DEF IInv, HeadInv
  <2>5. Prefix(h, n) = Prefix(HeadDigest, n)
    BY <1>0, <1>6, <1>7, PrefixAgree
  <2> QED  BY <1>1, <2>2, <2>3, <2>4, <2>5 DEF Like
<1>11. \A f \in May(Chain)' :
           f = NoFile \/ (Solid(f) /\ \A g \in May(Current)' : IsPrefixOf(f.body, g.body))
  <2>1. Chain \in Lasting /\ Current \in Lasting
    BY NamesLast
  <2>2. PICK e \in May(Chain) : Like(file'[Chain], e)
    BY <2>1, <1>3
  <2>3. e = NoFile \/ (Solid(e) /\ IsPrefixOf(e.body, c.body))
    BY <1>4, <2>2 DEF IInv, HeadInv
  <2>4. file'[Chain] = NoFile \/ (Solid(file'[Chain]) /\ IsPrefixOf(file'[Chain].body, c.body))
    BY <2>2, <2>3 DEF Like
  <2>5. file'[Current].body = c.body
    BY <1>4 DEF Like
  <2> QED  BY <1>1, <2>1, <2>4, <2>5
<1>12. ASSUME NEW x \in Lists(h) PROVE \A f \in May(Art(x))' : Solid(f)
  <2>1. x \in Lists(HeadDigest) /\ x \in Artifacts
    BY <1>0, <1>6, <1>7, ListsGrow, ListsTypes
  <2>2. Art(x) \in Lasting
    BY <2>1, NamesLast
  <2>3. PICK e \in May(Art(x)) : Like(file'[Art(x)], e)
    BY <2>2, <1>3
  <2>4. Solid(e)
    BY <2>1, <2>3 DEF IInv, HeadInv
  <2> QED  BY <1>1, <2>2, <2>3, <2>4 DEF Like
<1>13. \A f : Solid(f)' = Solid(f)
  BY <1>2 DEF Solid
<1>14. HeadInv'
  BY <1>2, <1>5, <1>9, <1>10, <1>11, <1>12, <1>13 DEF HeadInv
<1> QED  BY <1>5, <1>7, <1>14

LEMMA LossKeeps ==
  ASSUME IInv, PowerLoss
  PROVE  IInv'
<1>0. /\ call' = [p \in Procs |-> NoCall] /\ writer' = NoProc
      /\ UNCHANGED <<acked, reported, faults, durable>> /\ losses' = losses - 1 /\ losses > 0
  BY DEF PowerLoss, history
<1>1. FsType' /\ FlagInv' /\ HeadInv'
  BY LossLeaves, LossHead
<1>2. /\ call' \in [Procs -> Call]
      /\ \A p \in Procs : call'[p].at = "idle" /\ call'[p].kind = "install"
  BY <1>0, NoCallIs
<1>3. CommitTypeOK'
  BY <1>0, <1>1, <1>2 DEF IInv, CommitTypeOK, FsType
<1>4. PlaceInv'
  BY <1>2 DEF PlaceInv, PlaceOf, Ahead, Writing
<1>5. LockInv'
  BY <1>0, <1>2 DEF LockInv, Locked, Before, After, Synced, Writing, At
<1>6. CallInv'
  BY <1>2 DEF CallInv, Knows, Has, Ahead, Before, After, Synced, Writing
<1> QED  BY <1>1, <1>3, <1>4, <1>5, <1>6 DEF IInv

-----------------------------------------------------------------------------
(* The invariant.                                                          *)

LEMMA InitHolds ==
  ASSUME Init
  PROVE  IInv
<1>0. <<>> \in Digest /\ <<>> \in Seq(Ops) /\ Len(<<>>) = 0
  BY DEF Digest
<1>1. \A n \in Names : file[n] = [NoFile EXCEPT !.st = IF n \in {Current, Gen(0)} THEN "safe"
                                                                                   ELSE "none"]
  BY DEF Init
<1>2. ASSUME NEW n \in Names
      PROVE  /\ file[n] \in File /\ file[n].body = <<>> /\ file[n].by = NoProc
             /\ n \in {Current, Gen(0)} => file[n].st = "safe"
             /\ n \notin {Current, Gen(0)} => file[n] = NoFile
  <2>1. CASE n \in {Current, Gen(0)}
    <3>1. file[n] = [NoFile EXCEPT !.st = "safe"]
      BY <1>1, <2>1
    <3>2. file[n] = [body |-> <<>>, st |-> "safe", by |-> NoProc]
      BY <3>1 DEF NoFile
    <3> QED  BY <1>0, <2>1, <3>2 DEF File
  <2>2. CASE n \notin {Current, Gen(0)}
    BY <1>0, <1>1, <2>2 DEF NoFile, File
  <2> QED  BY <2>1, <2>2
<1>3. file \in [Names -> File]
  <2>1. file = [n \in Names |-> file[n]]
    BY DEF Init
  <2> QED  BY <2>1, <1>2
<1>4. \A n \in Lasting : n \in Names /\ May(n) = {file[n]}
  BY NamesLast DEF Init, May
<1>5. /\ DOMAIN disk = Lasting
      /\ \A n \in Lasting : \A f \in disk[n] : f \in File /\ (f.st = "safe" => f.by = NoProc)
  <2>1. \A n \in Lasting : disk[n] \subseteq {file[n]}
    BY DEF Init
  <2>2. DOMAIN disk = Lasting
    BY DEF Init
  <2> QED  BY <2>1, <2>2, <1>2, <1>4
<1>6. /\ call \in [Procs -> Call]
      /\ \A p \in Procs : call[p].at = "idle" /\ call[p].kind = "install"
  BY NoCallIs DEF Init
<1>7. losses \in 0..MaxLosses /\ durable \in BOOLEAN /\ (~durable => losses = 0)
  BY DEF Init
<1>8. CommitTypeOK
  <2>1. writer = NoProc /\ acked = <<>> /\ reported = <<>> /\ faults = MaxFaults
    BY DEF Init
  <2>2. faults \in 0..MaxFaults
    BY <2>1
  <2> QED  BY <1>0, <1>3, <1>5, <1>6, <1>7, <2>1, <2>2 DEF CommitTypeOK
<1>9. PlaceInv
  BY <1>6 DEF PlaceInv, PlaceOf, Ahead, Writing
<1>10. LockInv
  BY <1>6 DEF Init, LockInv, Locked, Before, After, Synced, Writing, At
<1>11. FlagInv
  <2>1. ~durable => \A n \in Lasting : disk[n] = {}
    BY <1>7 DEF Init
  <2> QED  BY <2>1, <1>2, <1>5, <1>7 DEF FlagInv
<1>12. CallInv
  BY <1>6 DEF CallInv, Knows, Has, Ahead, Before, After, Synced, Writing
<1>13. HeadInv
  <2>1. Current \in Lasting /\ Chain \in Lasting /\ Gen(0) \in Lasting
    BY NamesLast
  <2>2. HeadDigest = <<>> /\ Lists(HeadDigest) = {}
    BY <2>1, <1>2, <1>4 DEF HeadDigest, Lists
  <2>3. Chain \notin {Current, Gen(0)}
    BY NamesDiffer
  <2>4. file[Chain] = NoFile
    BY <2>1, <2>3, <1>2, <1>4
  <2>5. Solid(file[Current]) /\ Solid(file[Gen(0)]) /\ file[Gen(0)].body = <<>>
    BY <2>1, <1>2, <1>4 DEF Solid
  <2>6. acked = <<>> /\ IsPrefixOf(<<>>, <<>>) /\ Prefix(<<>>, 0) = <<>>
    BY <1>0, PrefixWhole DEF Init
  <2>7. file[Current].body = <<>>
    BY <2>2 DEF HeadDigest
  <2>8. \A n \in 0..Len(HeadDigest) : n = 0
    BY <1>0, <2>2
  <2> QED  BY <1>4, <2>1, <2>2, <2>4, <2>5, <2>6, <2>7, <2>8 DEF HeadInv
<1> QED  BY <1>8, <1>9, <1>10, <1>11, <1>12, <1>13 DEF IInv

LEMMA NextKeeps ==
  ASSUME IInv, [Next]_vars
  PROVE  IInv'
<1>1. ASSUME NEW p \in Procs, Begin(p) \/ Step(p) \/ Crash(p) PROVE IInv'
  <2>1. CASE Begin(p)  BY <2>1, BeginKeeps
  <2>2. CASE Read(p)  BY <2>2, ReadKeeps
  <2>3. CASE Install(p)  BY <2>3, InstallKeeps
  <2>4. CASE Finish(p)  BY <2>4, FinishKeeps
  <2>5. CASE Stage(p)  BY <2>5, StageKeeps
  <2>6. CASE Write(p)  BY <2>6, WriteKeeps
  <2>7. CASE Flush(p)  BY <2>7, FlushKeeps
  <2>8. CASE Move(p)  BY <2>8, MoveKeeps
  <2>9. CASE Lock(p)  BY <2>9, LockKeeps
  <2>10. CASE InstallManifest(p)  BY <2>10, InstallManifestKeeps
  <2>11. CASE SyncGenerations(p)  BY <2>11, SyncGenerationsKeeps
  <2>12. CASE SyncSession(p)  BY <2>12, SyncSessionKeeps
  <2>13. CASE Confirm(p)  BY <2>13, ConfirmKeeps
  <2>14. CASE AcknowledgeRetry(p)  BY <2>14, AcknowledgeRetryKeeps
  <2>15. CASE Return(p)  BY <2>15, ReturnKeeps
  <2>16. CASE Ask(p)  BY <2>16, AskKeeps
  <2>17. CASE Crash(p)  BY <2>17, CrashKeeps
  <2> QED
    BY <1>1, <2>1, <2>2, <2>3, <2>4, <2>5, <2>6, <2>7, <2>8, <2>9, <2>10, <2>11, <2>12, <2>13,
       <2>14, <2>15, <2>16, <2>17 DEF Step
<1>2. CASE PowerLoss
  BY <1>2, LossKeeps
<1>3. CASE UNCHANGED vars
  <2>1. UNCHANGED <<durable, file, disk, writer, call, acked, reported, faults, losses>>
    BY <1>3 DEF vars, fsVars, history
  <2>2. CommitTypeOK' = CommitTypeOK
    BY <2>1 DEF CommitTypeOK
  <2>3. PlaceInv' = PlaceInv
    BY <2>1 DEF PlaceInv, PlaceOf, Ahead, Its
  <2>4. LockInv' = LockInv
    BY <2>1 DEF LockInv, Locked, Before, After, Synced, At
  <2>5. FlagInv' = FlagInv
    BY <2>1 DEF FlagInv
  <2>6. /\ HeadDigest' = HeadDigest /\ (\A n : May(n)' = May(n)) /\ (\A f : Solid(f)' = Solid(f))
        /\ acked' = acked
    BY <2>1 DEF HeadDigest, May, Solid
  <2>7. HeadInv' = HeadInv
    BY <2>6 DEF HeadInv
  <2>8. ASSUME NEW p \in Procs, Knows(call[p]) /\ Has(p) PROVE Knows(call[p])' /\ Has(p)'
    <3>1. HeadsKept /\ call'[p] = call[p]
      BY <2>1, <2>6 DEF HeadsKept
    <3>2. Knows(call[p])'
      BY <2>8, <3>1, OthersKnow
    <3>3. /\ StagedName(p)' = StagedName(p) /\ Bytes(p)' = Bytes(p) /\ Its(call[p])' = Its(call[p])
          /\ \A n : Wrote(p, n)' = Wrote(p, n)
      BY <2>1 DEF StagedName, Bytes, Its, Wrote, Solid
    <3>4. Before(call[p])' = Before(call[p])
      BY <2>1 DEF Before
    <3>5. Has(p)' = Has(p)
      BY <2>1, <2>6, <3>3, <3>4 DEF Has
    <3> QED  BY <2>8, <3>2, <3>5
  <2>9. CallInv'
    BY <2>8 DEF CallInv, IInv
  <2> QED  BY <2>2, <2>3, <2>4, <2>5, <2>7, <2>9 DEF IInv
<1> QED  BY <1>1, <1>2, <1>3 DEF Next

LEMMA Invariance ==
  Spec => []IInv
<1>1. Init => IInv
  BY InitHolds
<1>2. IInv /\ [Next]_vars => IInv'
  BY NextKeeps
<1> QED  BY <1>1, <1>2, PTL DEF Spec

\* Types (CommitTypeOK): in particular no generation is committed past the
\* capacity that publish_generation_while_locked checks under the lock.
THEOREM CommitTypes ==
  Spec => []CommitTypeOK
<1>1. IInv => CommitTypeOK
  BY DEF IInv
<1> QED  BY <1>1, Invariance, PTL

\* read_committed_manifest finds a whole pointer, its manifests and its
\* checkpoint at every moment: between any two filesystem operations of a
\* writer, after its death and after a loss of power (AlwaysReadable).
THEOREM SessionReadable ==
  Spec => []AlwaysReadable
<1>1. IInv => AlwaysReadable
  BY HeadReadable DEF AlwaysReadable
<1> QED  BY <1>1, Invariance, PTL

\* A generation that publish_generation_while_locked or acknowledge_retry has
\* acknowledged is in the head's history for ever (AcknowledgedSurvives).
THEOREM AcknowledgedKept ==
  Spec => []AcknowledgedSurvives
<1>1. ASSUME IInv PROVE AcknowledgedSurvives
  <2>1. file[Current] \in May(Current)
    BY DEF May
  <2> QED  BY <1>1, <2>1 DEF IInv, HeadInv, AcknowledgedSurvives, HeadDigest
<1>2. IInv => AcknowledgedSurvives
  BY <1>1
<1> QED  BY <1>2, Invariance, PTL

\* The artifacts that the head lists are whole, although they are installed
\* without the writer lock (ListedFilesAreWhole).
THEOREM ListedWhole ==
  Spec => []ListedFilesAreWhole
<1>1. ASSUME IInv, NEW x \in Lists(HeadDigest) PROVE Whole(file[Art(x)])
  <2>1. file[Art(x)] \in May(Art(x))
    BY DEF May
  <2>2. Solid(file[Art(x)])
    BY <1>1, <2>1 DEF IInv, HeadInv
  <2> QED  BY <2>2 DEF Solid, Whole
<1>2. IInv => ListedFilesAreWhole
  BY <1>1 DEF ListedFilesAreWhole
<1> QED  BY <1>2, Invariance, PTL

\* In a durable session nothing that a dead or failed attempt leaves makes a
\* later call IntegrityFailure (DurableNeverRefused).
THEOREM DurableAccepts ==
  Spec => []DurableNeverRefused
<1>1. IInv => DurableNeverRefused
  BY DEF IInv, PlaceInv, PlaceOf, DurableNeverRefused, NeverRefused, At
<1> QED  BY <1>1, Invariance, PTL

-----------------------------------------------------------------------------
(* The session implements SessionChain.                                    *)

LEMMA PutElsewhere ==
  ASSUME NEW f, NEW at, NEW gone, Put(f, at, gone), at # Current, Current \notin gone
  PROVE  HeadDigest' = HeadDigest
BY NamesLast DEF Put, HeadDigest

LEMMA CloseHead ==
  ASSUME CommitTypeOK, NEW p \in Procs, Close(p)
  PROVE  HeadDigest' = HeadDigest
<1>1. file[Current] \in File /\ file'[Current] = Closed(file[Current], p)
  BY TypeFacts, NamesLast DEF Close
<1> QED  BY <1>1, ClosedIs DEF HeadDigest

LEMMA TouchHead ==
  ASSUME CommitTypeOK, NEW p \in Procs, NEW st, NEW by, Touch(p, st, by)
  PROVE  HeadDigest' = HeadDigest
<1>1. file[Current] \in File /\ file'[Current] = Touched(file[Current], p, st, by)
  BY TypeFacts, NamesLast DEF Touch
<1> QED  BY <1>1 DEF Touched, File, HeadDigest

LEMMA SyncHead ==
  ASSUME NEW dir, sync_directory(dir)
  PROVE  HeadDigest' = HeadDigest
BY DEF sync_directory, HeadDigest

\* What a process's step does to the head and to what was acknowledged.
LEMMA HeadSteps ==
  ASSUME IInv, NEW p \in Procs, Begin(p) \/ Step(p) \/ Crash(p)
  PROVE  \/ HeadDigest' = HeadDigest /\ acked' = acked
         \/ HeadDigest' = Append(HeadDigest, call[p].op) /\ acked' = acked
         \/ HeadDigest' = HeadDigest /\ acked' = HeadDigest
<1>0. CommitTypeOK
  BY DEF IInv
<1>1. CASE Begin(p) \/ Read(p) \/ Lock(p) \/ InstallManifest(p) \/ Confirm(p) \/ Ask(p)
  <2>1. file' = file /\ acked' = acked
    BY <1>1 DEF Begin, Read, Lock, InstallManifest, Confirm, Ask, fsVars, history
  <2> QED  BY <2>1 DEF HeadDigest
<1>2. CASE Return(p)
  <2>1. file' = file /\ acked' = call[p].seen /\ Synced(call[p])
    BY <1>2 DEF Return, fsVars, At, Synced
  <2>2. call[p].seen = HeadDigest
    BY <2>1 DEF IInv, CallInv, Knows, After
  <2> QED  BY <2>1, <2>2 DEF HeadDigest
<1>3. CASE Crash(p)
  BY <1>0, <1>3, CloseHead DEF Crash, history
<1>4. ASSUME Fail(p) PROVE HeadDigest' = HeadDigest
  BY <1>0, <1>4, CloseHead DEF Fail
<1>5. CASE Install(p)
  <2>1. acked' = acked
    BY <1>5 DEF Install, history
  <2>2. CASE InstallNew(p)
    BY <2>1, <2>2, PutElsewhere, NamesDiffer DEF InstallNew, Create
  <2>3. CASE UNCHANGED fsVars
    BY <2>1, <2>3 DEF fsVars, HeadDigest
  <2> QED  BY <1>4, <1>5, <2>1, <2>2, <2>3 DEF Install, InstallShared
<1>6. CASE Finish(p) \/ SyncGenerations(p) \/ SyncSession(p) \/ AcknowledgeRetry(p)
  BY <1>4, <1>6, SyncHead DEF Finish, SyncGenerations, SyncSession, AcknowledgeRetry, history
<1>7. CASE Stage(p)
  <2>1. acked' = acked
    BY <1>7 DEF Stage, history
  <2>2. CASE Create(p, StagedName(p), Bytes(p))
    BY <2>1, <2>2, PutElsewhere, StagedDiffer DEF Create, StagedName
  <2>3. CASE UNCHANGED fsVars
    BY <2>1, <2>3 DEF fsVars, HeadDigest
  <2> QED  BY <1>4, <1>7, <2>1, <2>2, <2>3 DEF Stage
<1>8. CASE Write(p) \/ Flush(p)
  BY <1>0, <1>4, <1>8, TouchHead DEF Write, Flush, history
<1>9. CASE Move(p)
  <2>1. acked' = acked /\ call[p].at = "rename" /\ UNCHANGED <<history, losses, durable>>
    BY <1>9 DEF Move, history, At
  <2>2. CASE Fail(p)
    BY <2>1, <2>2, <1>4
  <2>3. CASE Rename(StagedName(p), Destination(p)) /\ call[p].kind = "pointer"
    <3>1. Rename(StagedName(p), Current)
      BY <2>3 DEF Destination
    <3> QED  BY <2>1, <2>3, <3>1, PointerMoves
  <2>4. CASE Rename(StagedName(p), Destination(p)) /\ call[p].kind # "pointer"
    <3>1. call[p].kind \in {"artifact", "manifest", "chain"}
      BY <2>1, <2>4, TypeFacts, CallFacts DEF IInv, PlaceInv, PlaceOf, Kinds
    <3>2. Destination(p) # Current
      BY <3>1, NamesDiffer DEF Destination
    <3>3. Current \notin {StagedName(p)}
      BY StagedDiffer DEF StagedName
    <3> QED  BY <2>1, <2>4, <3>2, <3>3, PutElsewhere DEF Rename
  <2> QED  BY <1>9, <2>2, <2>3, <2>4 DEF Move
<1> QED
  BY <1>1, <1>2, <1>3, <1>5, <1>6, <1>7, <1>8, <1>9 DEF Step

\* Every step of a session is a step of SessionChain, or none: the rename of
\* the pointer is the commit, the return of the call the acknowledgement, and
\* only a loss of power drops generations, none of them acknowledged.
LEMMA StepImplements ==
  ASSUME IInv, [Next]_vars
  PROVE  [Promise!Next]_<<HeadDigest, Len(acked)>>
<1>0. /\ HeadDigest \in Seq(Ops) /\ Len(HeadDigest) \in Nat
      /\ acked \in Seq(Ops) /\ Len(acked) \in Nat
  BY TypeFacts, LenProperties DEF IInv
<1>1. Len(acked) <= Len(HeadDigest)
  BY DEF IInv, HeadInv, May, HeadDigest, IsPrefixOf
<1>2. ASSUME NEW p \in Procs, Begin(p) \/ Step(p) \/ Crash(p)
      PROVE  [Promise!Next]_<<HeadDigest, Len(acked)>>
  <2>1. CASE HeadDigest' = HeadDigest /\ acked' = acked
    BY <2>1
  <2>2. CASE HeadDigest' = Append(HeadDigest, call[p].op) /\ acked' = acked
    <3>1. call[p].op \in Ops
      BY TypeFacts, CallFacts DEF IInv
    <3>2. Promise!Commit
      BY <2>2, <3>1 DEF Promise!Commit
    <3> QED  BY <3>2 DEF Promise!Next
  <2>3. CASE HeadDigest' = HeadDigest /\ acked' = HeadDigest
    <3>1. CASE Len(acked) = Len(HeadDigest)
      BY <2>3, <3>1
    <3>2. CASE Len(acked) # Len(HeadDigest)
      <4>1. Len(acked)' \in Len(acked) + 1 .. Len(HeadDigest)
        BY <1>0, <1>1, <2>3, <3>2
      <4>2. Promise!Acknowledge
        BY <2>3, <4>1 DEF Promise!Acknowledge
      <4> QED  BY <4>2 DEF Promise!Next
    <3> QED  BY <3>1, <3>2
  <2> QED  BY <1>2, <2>1, <2>2, <2>3, HeadSteps
<1>3. CASE PowerLoss
  <2>1. /\ HeadInv' /\ IsPrefixOf(HeadDigest', HeadDigest) /\ IsPrefixOf(acked, HeadDigest')
        /\ acked' = acked
    BY <1>3, LossHead DEF PowerLoss, history
  <2>2. PICK h : h = HeadDigest'
    OBVIOUS
  <2>3. Len(h) <= Len(HeadDigest) /\ SubSeq(HeadDigest, 1, Len(h)) = h /\ Len(acked) <= Len(h)
    BY <2>1, <2>2 DEF IsPrefixOf, Prefix
  <2>4. IInv'
    BY <1>3, LossKeeps
  <2>5. Len(h) \in Nat
    <3>1. CommitTypeOK'
      BY <2>4 DEF IInv
    <3>2. file'[Current] \in File
      BY <3>1, NamesLast DEF CommitTypeOK
    <3>3. h = file'[Current].body
      BY <2>2 DEF HeadDigest
    <3> QED  BY <3>2, <3>3, FileFacts
  <2>6. Len(h) \in Len(acked) .. Len(HeadDigest)
    BY <1>0, <2>3, <2>5
  <2>7. Promise!Lose
    BY <2>1, <2>2, <2>3, <2>6 DEF Promise!Lose
  <2> QED  BY <2>7 DEF Promise!Next
<1>4. CASE UNCHANGED vars
  BY <1>4 DEF vars, fsVars, history, HeadDigest
<1> QED  BY <1>2, <1>3, <1>4 DEF Next

\* The publication of generations, with its staged files, renames and
\* synchronisations, implements the promise of SessionChain.
THEOREM SessionImplementsChain ==
  Spec => ImplementsSessionChain
<1>1. ASSUME Init PROVE Promise!Init
  <2>1. file[Current].body = <<>>
    BY <1>1, NamesLast DEF Init, NoFile
  <2>2. acked = <<>> /\ Len(<<>>) = 0
    BY <1>1 DEF Init
  <2> QED  BY <2>1, <2>2 DEF Promise!Init, HeadDigest
<1>2. IInv /\ [Next]_vars => [Promise!Next]_<<HeadDigest, Len(acked)>>
  BY StepImplements
<1>3. Init => Promise!Init
  BY <1>1
<1> QED  BY <1>2, <1>3, Invariance, PTL DEF Spec, ImplementsSessionChain, Promise!Spec

-----------------------------------------------------------------------------
(* What the callers of failed publications are told.                       *)

ReportInv == ReportedSurvives /\ (durable => reported = <<>>)

LEMMA ReportsKeep ==
  ASSUME TRUE \notin CallersAsk, IInv, ReportInv, [Next]_vars
  PROVE  ReportInv'
<1>0. /\ HeadDigest \in Seq(Ops) /\ Len(HeadDigest) \in Nat /\ reported \in Seq(Ops)
      /\ durable \in BOOLEAN
  BY TypeFacts, LenProperties DEF IInv, CommitTypeOK, Digest
<1>1. HeadDigest' \in Seq(Ops)
  <2>1. CommitTypeOK'
    BY NextKeeps DEF IInv
  <2>2. file'[Current] \in File /\ HeadDigest' = file'[Current].body
    BY <2>1, NamesLast DEF CommitTypeOK, HeadDigest
  <2> QED  BY <2>2, FileFacts
<1>2. ASSUME NEW p \in Procs, Begin(p) \/ Step(p) \/ Crash(p) PROVE ReportInv'
  <2>0. UNCHANGED durable
    BY <1>2 DEF Step, Begin, Crash, Read, Install, Finish, Stage, Write, Flush, Move, Lock,
                InstallManifest, SyncGenerations, SyncSession, Confirm, AcknowledgeRetry,
                Return, Ask
  <2>1. IsPrefixOf(HeadDigest, HeadDigest')
    <3>1. call[p].op \in Ops
      BY TypeFacts, CallFacts DEF IInv
    <3> QED  BY <1>0, <1>2, <3>1, HeadSteps, PrefixWhole, PrefixAppend
  <2>2. CASE UNCHANGED reported
    BY <1>0, <1>1, <2>0, <2>1, <2>2, PrefixTrans DEF ReportInv, ReportedSurvives
  <2>3. ASSUME NEW g \in call[p].expected + 1 .. Len(HeadDigest), durable \in CallersAsk,
               reported' = Prefix(HeadDigest, g)
        PROVE  ReportInv'
    <3>1. g \in 0..Len(HeadDigest)
      BY <1>0, TypeFacts, CallFacts DEF IInv
    <3>2. IsPrefixOf(reported', HeadDigest) /\ reported' \in Seq(Ops)
      BY <1>0, <2>3, <3>1, PrefixTaken, PrefixIs
    <3>3. IsPrefixOf(reported', HeadDigest')
      BY <1>0, <1>1, <2>1, <3>2, PrefixTrans
    <3>4. ~durable
      BY <1>0, <2>3
    <3> QED  BY <2>0, <3>3, <3>4 DEF ReportInv, ReportedSurvives
  <2>4. CASE Ask(p)
    BY <2>2, <2>3, <2>4 DEF Ask
  <2>5. CASE ~Ask(p)
    <3>1. UNCHANGED reported
      BY <1>2, <2>5 DEF Step, Begin, Crash, Read, Install, Finish, Stage, Write, Flush, Move, Lock,
                InstallManifest, SyncGenerations, SyncSession, Confirm, AcknowledgeRetry,
                Return, history
    <3> QED  BY <2>2, <3>1
  <2> QED  BY <2>4, <2>5
<1>3. CASE PowerLoss
  <2>1. durable /\ UNCHANGED <<durable, reported>>
    BY <1>3, LossLeaves DEF PowerLoss, history
  <2>2. reported' = <<>>
    BY <2>1 DEF ReportInv
  <2>3. IsPrefixOf(<<>>, HeadDigest')
    BY <1>1, PrefixWhole
  <2> QED  BY <2>2, <2>3 DEF ReportInv, ReportedSurvives
<1>4. CASE UNCHANGED vars
  BY <1>4 DEF vars, fsVars, history, HeadDigest, ReportInv, ReportedSurvives
<1> QED  BY <1>2, <1>3, <1>4 DEF Next

\* If only callers of ephemeral sessions ask the chain after a failed
\* publication, what they are told is never taken back (ReportedSurvives): the
\* answer that a loss of power can take back is the durable job's alone.
THEOREM EphemeralReportsSurvive ==
  ASSUME TRUE \notin CallersAsk
  PROVE  Spec => []ReportedSurvives
<1>1. Init => ReportInv
  <2>1. SUFFICES ASSUME Init PROVE ReportInv
    OBVIOUS
  <2>2. reported = <<>> /\ HeadDigest \in Seq(Ops)
    BY <2>1, InitHolds, TypeFacts DEF Init, IInv
  <2> QED  BY <2>2, PrefixWhole DEF ReportInv, ReportedSurvives
<1>2. IInv /\ ReportInv /\ [Next]_vars => ReportInv'
  BY ReportsKeep
<1>3. ReportInv => ReportedSurvives
  BY DEF ReportInv
<1> QED  BY <1>1, <1>2, <1>3, Invariance, PTL DEF Spec

=============================================================================
