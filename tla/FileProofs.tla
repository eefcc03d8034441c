------------------------------ MODULE FileProofs ------------------------------
(***************************************************************************)
(* What is kept in files, for any number of them.  For any publications:   *)
(* the types, and that the collector deletes nothing that a row refers to. *)
(* For models of any length, any number of attempts, runs and mishaps: a   *)
(* model that is answered for, or that its manifest vouches for, is the    *)
(* pinned one.                                                             *)
(***************************************************************************)
EXTENDS BlobStore, ModelCache, SequenceTheorems, TLAPS

(* The publications and the collector.                                     *)

\* What the lock and the order of publish give.
Guarding ==
    \* the collector that holds the lock meets no publication that does
    /\ gc \in {"holding", "removing"} => \A p \in Publications : task[p] \notin Guarded
    \* a transaction is handed over by a task that waits for it, or is dropped
    /\ \A p \in handed : task[p] = "writing" \/ p \in abandoned
    /\ \A p \in abandoned : task[p] = "ended"
    \* the files are in the tree before it is handed over, and until it answers
    /\ \A p \in Publications : task[p] \in {"writing", "written"} =>
          \A b \in Files(p) : file[b] = "stored"
    \* no row refers to a blob before that
    /\ \A b \in referenced : task[b[1]] \in {"written", "ended"}

\* The references the collector has read are still all there are.
KnownComplete ==
    gc = "removing" =>
        \A b \in candidates \intersect referenced : b[1] \notin abandoned => b \in known

IInv == TypeOK /\ Guarding /\ KnownComplete /\ ReferencedKept

-----------------------------------------------------------------------------
LEMMA TypeInit == Init => TypeOK
BY DEF Init, TypeOK, Guarded

LEMMA TypeStep == TypeOK /\ [Next]_vars => TypeOK'
<1> SUFFICES ASSUME TypeOK, [Next]_vars
             PROVE  TypeOK'
    OBVIOUS
<1> USE DEF TypeOK, Guarded, blobVars, taskVars, gcVars
<1>1. ASSUME NEW p \in Publications, Publish(p)
      PROVE  TypeOK'
  <2>1. ASSUME NEW part \in Parts, Rename(<<p, part>>)
        PROVE  TypeOK'
      BY <2>1 DEF Rename
  <2>2. CASE Stage(p)
      BY <2>2 DEF Stage, Step
  <2>3. CASE Enter(p)
      BY <2>3 DEF Enter, Step
  <2>4. CASE HandOver(p)
      BY <2>4 DEF HandOver, Step
  <2>5. CASE Transact(p)
    <3>1. Files(p) \subseteq Blobs
        BY DEF Files, Blobs
    <3> QED
        BY <2>5, <3>1 DEF Transact, Answered
  <2>6. CASE Return(p)
      BY <2>6 DEF Return
  <2>7. CASE Drop(p)
      BY <2>7 DEF Drop
  <2> QED
      BY <1>1, <2>1, <2>2, <2>3, <2>4, <2>5, <2>6, <2>7 DEF Publish
<1>2. ASSUME NEW b \in Blobs, Age(b) \/ Forget(b)
      PROVE  TypeOK'
    BY <1>2 DEF Age, Forget
<1>3. CASE Collect
  <2>1. CASE List
      BY <2>1 DEF List, Stale
  <2>2. CASE Lock \/ ReadReferenced \/ ReadFails \/ Collected
      BY <2>2 DEF Lock, ReadReferenced, ReadFails, Collected, EndCollect
  <2>3. ASSUME NEW b \in Blobs, RemoveBlob(b) \/ Keep(b)
        PROVE  TypeOK'
      BY <2>3 DEF RemoveBlob, Keep, Decide
  <2> QED
      BY <1>3, <2>1, <2>2, <2>3 DEF Collect
<1>4. CASE Crash
    BY <1>4 DEF Crash
<1>5. CASE UNCHANGED vars
    BY <1>5 DEF vars
<1> QED
    BY <1>1, <1>2, <1>3, <1>4, <1>5 DEF Next, Running

\* Every file, reference and task has the type the code gives it.
THEOREM TypeCorrect == Spec => []TypeOK
BY TypeInit, TypeStep, PTL DEF Spec

-----------------------------------------------------------------------------
LEMMA IInvInit == Init => IInv
<1> SUFFICES ASSUME Init
             PROVE  IInv
    OBVIOUS
<1>1. TypeOK
    BY TypeInit
<1> QED
    BY <1>1 DEF Init, IInv, Guarding, KnownComplete, ReferencedKept, Guarded

LEMMA PublishKeeps ==
    ASSUME IInv, TypeOK', NEW p \in Publications, Publish(p)
    PROVE  Guarding' /\ KnownComplete' /\ ReferencedKept'
<1> USE DEF IInv, TypeOK, Guarding, KnownComplete, ReferencedKept, Guarded,
            Files, Blobs, blobVars, taskVars, gcVars
<1>1. ASSUME NEW part \in Parts, Rename(<<p, part>>)
      PROVE  Guarding' /\ KnownComplete' /\ ReferencedKept'
    BY <1>1 DEF Rename
<1>2. CASE Stage(p)
    BY <1>2 DEF Stage, Step
<1>3. CASE Enter(p)
    BY <1>3 DEF Enter, Step
<1>4. CASE HandOver(p)
    BY <1>4 DEF HandOver, Step
<1>5. CASE Transact(p)
    BY <1>5 DEF Transact, Answered
<1>6. CASE Return(p)
    BY <1>6 DEF Return
<1>7. CASE Drop(p)
    BY <1>7 DEF Drop
<1> QED
    BY <1>1, <1>2, <1>3, <1>4, <1>5, <1>6, <1>7 DEF Publish

LEMMA CollectKeeps ==
    ASSUME IInv, TypeOK', Collect
    PROVE  Guarding' /\ KnownComplete' /\ ReferencedKept'
<1> USE DEF IInv, TypeOK, Guarding, KnownComplete, ReferencedKept, Guarded,
            Files, Blobs, blobVars, taskVars, gcVars
<1>1. CASE List
    BY <1>1 DEF List
<1>2. CASE Lock
    BY <1>2 DEF Lock
<1>3. CASE ReadReferenced
    BY <1>3 DEF ReadReferenced
<1>4. CASE ReadFails \/ Collected
    BY <1>4 DEF ReadFails, Collected, EndCollect
<1>5. ASSUME NEW b \in Blobs, RemoveBlob(b)
      PROVE  Guarding' /\ KnownComplete' /\ ReferencedKept'
    BY <1>5 DEF RemoveBlob, Decide
<1>6. ASSUME NEW b \in Blobs, Keep(b)
      PROVE  Guarding' /\ KnownComplete' /\ ReferencedKept'
    BY <1>6 DEF Keep, Decide
<1> QED
    BY <1>1, <1>2, <1>3, <1>4, <1>5, <1>6 DEF Collect

LEMMA IInvStep == IInv /\ [Next]_vars => IInv'
<1> SUFFICES ASSUME IInv, [Next]_vars
             PROVE  IInv'
    OBVIOUS
<1>1. TypeOK'
    BY TypeStep DEF IInv
<1> USE DEF IInv
<1>2. CASE \E p \in Publications : Publish(p)
    BY <1>1, <1>2, PublishKeeps
<1>3. CASE Collect
    BY <1>1, <1>3, CollectKeeps
<1>4. ASSUME NEW b \in Blobs, Age(b) \/ Forget(b)
      PROVE  IInv'
    BY <1>1, <1>4 DEF Age, Forget, Guarding, KnownComplete, ReferencedKept, taskVars, gcVars
<1>5. CASE Crash
  <2> USE <1>5 DEF Crash, TypeOK, Guarding, blobVars
  <2>1. \A p \in Publications : task'[p] \in {"idle", "ended"} /\ (task[p] = "ended" => task'[p] = "ended")
      OBVIOUS
  <2>2. \A b \in referenced : task'[b[1]] = "ended"
      BY DEF Blobs
  <2>3. Guarding'
      BY <2>1, <2>2 DEF Guarded
  <2>4. KnownComplete' /\ ReferencedKept'
      BY DEF KnownComplete, ReferencedKept
  <2> QED
      BY <1>1, <2>3, <2>4
<1>6. CASE UNCHANGED vars
    BY <1>1, <1>6 DEF vars, Guarding, KnownComplete, ReferencedKept, blobVars, taskVars, gcVars
<1> QED
    BY <1>2, <1>3, <1>4, <1>5, <1>6 DEF Next, Running

\* Whatever is published, dropped, forgotten and collected at once, a row refers
\* only to files that are there, short of a publication dropped while it commits.
THEOREM ReferencedKeptCorrect == Spec => []ReferencedKept
<1>1. IInv => ReferencedKept
    BY DEF IInv
<1> QED
    BY <1>1, IInvInit, IInvStep, PTL DEF Spec

-----------------------------------------------------------------------------
(* The cache of model files.                                               *)

Releases == {"old", "new"}
Chunks == Releases \X Nat
ModelFiles == [there : BOOLEAN, data : Seq(Chunks), changed : Nat]
Manifests == [there : BOOLEAN, size : Nat, changed : Nat, release : Releases]
Places == {"rest", "look", "remove", "unvouch", "request", "receive", "rename", "vouch",
           "ready", "failed"}
Fetches ==
    [pc : Places, attempt : Nat, hashed : Seq(Chunks), asks : Nat, clock : Nat,
     faults : Nat, found : Nat, disturbed : BOOLEAN]

CacheType ==
    /\ disk \in [model : ModelFiles, manifest : Manifests, partial : ModelFiles]
    /\ fetch \in Fetches
    /\ pinned \in [release : Releases, ranges : BOOLEAN]

\* A partial file is the last that was written, so that no manifest and no model
\* bears its time.
Stamped(d, f) ==
    /\ d.partial.there => d.partial.changed > 0
    /\ d.partial.data # <<>> => d.partial.there
    /\ d.model.changed <= f.clock /\ d.partial.changed <= f.clock
    /\ d.manifest.changed <= f.clock
    /\ d.partial.there =>
         /\ d.model.there => d.model.changed # d.partial.changed
         /\ d.manifest.changed # d.partial.changed

\* A manifest that fits is that of the release it names.
Vouched(d) ==
    /\ d.model.there /\ d.manifest.there
    /\ d.manifest.size = Len(d.model.data) /\ d.manifest.changed = d.model.changed
    => d.model.data = PinnedFile(d.manifest.release)

\* What is hashed is what is in the partial file.
Hashed(d, f) ==
    f.pc \in {"receive", "rename"} => d.partial.there /\ f.hashed = d.partial.data

\* What was checked is the model.
Checked(d, f) ==
    /\ f.pc = "rename" => f.hashed = Wanted
    /\ f.pc \in {"vouch", "ready"} => d.model.there /\ d.model.data = Wanted

CacheInv ==
    /\ CacheType /\ Stamped(disk, fetch) /\ Vouched(disk)
    /\ Hashed(disk, fetch) /\ Checked(disk, fetch)

-----------------------------------------------------------------------------
LEMMA PinnedType ==
  ASSUME NEW release \in Releases
  PROVE  PinnedFile(release) \in Seq(Chunks)
<1> DEFINE n == IF release = "old" THEN OldLength ELSE NewLength
<1>1. n \in Nat
  BY CacheAssumption
<1>2. PinnedFile(release) \in [1..n -> Chunks]
  BY <1>1 DEF PinnedFile, Chunks
<1> HIDE DEF n
<1> QED
  BY <1>1, <1>2, SeqDef

LEMMA WantedType ==
  ASSUME CacheType
  PROVE  Wanted \in Seq(Chunks) /\ Len(Wanted) \in Nat
<1>1. pinned.release \in Releases
  BY DEF CacheType
<1>2. Wanted \in Seq(Chunks)
  BY <1>1, PinnedType DEF Wanted
<1> QED
  BY <1>2

\* What is left of a sequence after as much of it as another is long.
LEMMA RestOf ==
  ASSUME NEW part \in Seq(Chunks), NEW whole \in Seq(Chunks)
  PROVE  LET rest == SubSeq(whole, Len(part) + 1, Len(whole)) IN
         /\ rest \in Seq(Chunks)
         /\ rest = <<>> <=> Len(part) >= Len(whole)
         /\ rest # <<>> => Head(rest) = whole[Len(part) + 1]
<1> DEFINE m == Len(part) + 1
           n == Len(whole)
<1>1. m \in Nat /\ m >= 1 /\ n \in Nat /\ (m <= n <=> ~(Len(part) >= Len(whole)))
  BY LenProperties
<1>2. ASSUME NEW i \in m..n PROVE whole[i] \in Chunks
  <2>1. i \in 1..Len(whole)
    BY <1>1, <1>2
  <2> QED
    BY <2>1, ElementOfSeq
<1> HIDE DEF m, n
<1>3. /\ SubSeq(whole, m, n) \in Seq(Chunks)
      /\ Len(SubSeq(whole, m, n)) = IF m <= n THEN n - m + 1 ELSE 0
      /\ \A i \in 1..(n - m + 1) : SubSeq(whole, m, n)[i] = whole[m + i - 1]
  BY <1>1, <1>2, SubSeqProperties
<1>4. CASE m <= n
  <2>1. Len(SubSeq(whole, m, n)) # 0 /\ SubSeq(whole, m, n)[1] = whole[m]
    BY <1>1, <1>3, <1>4
  <2>2. SubSeq(whole, m, n) # <<>>
    BY <2>1, EmptySeq
  <2> QED
    BY <1>1, <1>3, <1>4, <2>1, <2>2 DEF m, n
<1>5. CASE ~(m <= n)
  <2>1. SubSeq(whole, m, n) = <<>>
    BY <1>1, <1>5, SubSeqEmpty
  <2> QED
    BY <1>1, <1>3, <1>5, <2>1 DEF m, n
<1> QED
  BY <1>4, <1>5

\* The manifest of a file that is read for the pinned release.
LEMMA ManifestType ==
  ASSUME CacheType, NEW f \in ModelFiles
  PROVE  /\ Manifest(f) \in Manifests
         /\ Manifest(f).there /\ Manifest(f).size = Len(f.data)
         /\ Manifest(f).changed = f.changed
         /\ Manifest(f).release = pinned.release
<1>1. pinned.release \in Releases
  BY DEF CacheType
<1>2. f.data \in Seq(Chunks) /\ f.changed \in Nat
  BY DEF ModelFiles
<1>3. Len(f.data) \in Nat
  BY <1>2
<1> QED
  BY <1>1, <1>2, <1>3 DEF Manifest, Manifests

\* An attempt that fails, and a mishap, touch neither the hash nor the clock.
LEMMA FailedType ==
  ASSUME NEW f \in Fetches
  PROVE  /\ AttemptFails(f) \in Fetches /\ AttemptFails(f).pc \in {"failed", "request"}
         /\ AttemptFails(f).clock = f.clock /\ AttemptFails(f).hashed = f.hashed
<1>1. f.attempt + 1 \in Nat
  BY DEF Fetches
<1> QED
  BY <1>1 DEF AttemptFails, Fetches, Places

LEMMA FaultType ==
  ASSUME NEW f \in Fetches
  PROVE  Fault(f) \in Fetches /\ Fault(f).clock = f.clock /\ Fault(f).hashed = f.hashed
<1>1. f.faults + 1 \in Nat
  BY DEF Fetches
<1> QED
  BY <1>1 DEF Fault, Fetches

LEMMA NothingType == NoFile \in ModelFiles /\ NoManifest \in Manifests
<1>1. <<>> \in Seq(Chunks)
  BY EmptySeq
<1> QED
  BY <1>1 DEF NoFile, NoManifest, ModelFiles, Manifests, Releases

-----------------------------------------------------------------------------
\* A run that begins, waits or ends with nothing changed in the files.
LEMMA StepAside ==
  ASSUME CacheInv, fetch' \in Fetches, fetch'.clock = fetch.clock,
         fetch'.pc \notin {"receive", "rename", "vouch", "ready"},
         pinned' \in [release : Releases, ranges : BOOLEAN], UNCHANGED disk
  PROVE  CacheInv'
<1>1. CacheType'
  BY DEF CacheInv, CacheType
<1>2. Stamped(disk, fetch)' /\ Vouched(disk)'
  BY DEF CacheInv, Stamped, Vouched, PinnedFile
<1>3. Hashed(disk, fetch)' /\ Checked(disk, fetch)'
  BY DEF Hashed, Checked
<1> QED
  BY <1>1, <1>2, <1>3 DEF CacheInv

LEMMA CacheInit0 ==
  ASSUME CacheInit PROVE CacheInv
<1>1. <<>> \in Seq(Chunks)
  BY EmptySeq
<1>2. CacheType
  BY <1>1, NothingType DEF CacheInit, CacheType, Fetches, Places, Releases
<1>3. Stamped(disk, fetch) /\ Vouched(disk) /\ Hashed(disk, fetch) /\ Checked(disk, fetch)
  BY DEF CacheInit, Stamped, Vouched, Hashed, Checked, NoFile, NoManifest
<1> QED
  BY <1>2, <1>3 DEF CacheInv

LEMMA EnsureModelKeeps ==
  ASSUME CacheInv, EnsureModel PROVE CacheInv'
<1>1. disk.partial.data \in Seq(Chunks) /\ fetch \in Fetches
  BY DEF CacheInv, CacheType, ModelFiles
<1>2. Len(disk.partial.data) \in Nat /\ fetch.asks + 1 \in Nat
  BY <1>1 DEF Fetches
<1>3. fetch' \in Fetches /\ fetch'.clock = fetch.clock /\ fetch'.pc = "look"
  BY <1>1, <1>2 DEF EnsureModel, Fetches, Places
<1>4. UNCHANGED disk /\ pinned' \in [release : Releases, ranges : BOOLEAN]
  BY DEF EnsureModel, CacheInv, CacheType
<1> QED
  BY <1>3, <1>4, StepAside

LEMMA ReadCachedKeeps ==
  ASSUME CacheInv, ReadCached PROVE CacheInv'
<1> USE DEF CacheInv, CacheType
<1>1. fetch \in Fetches /\ disk.model \in ModelFiles /\ disk.manifest \in Manifests
  OBVIOUS
<1>2. CASE fetch' = [fetch EXCEPT !.pc = "ready"]
  <2>1. /\ fetch' \in Fetches /\ fetch'.clock = fetch.clock /\ fetch'.hashed = fetch.hashed
        /\ fetch'.pc = "ready"
    BY <1>1, <1>2 DEF Fetches, Places
  <2>2. /\ disk' = [disk EXCEPT !.manifest = Manifest(disk.model)] /\ UNCHANGED pinned
        /\ disk.model.there
        /\ disk.manifest = Manifest(disk.model) \/ disk.model.data = Wanted
    BY <1>1, <1>2 DEF ReadCached, Fetches
  <2>3. /\ disk' \in [model : ModelFiles, manifest : Manifests, partial : ModelFiles]
        /\ disk'.model = disk.model /\ disk'.partial = disk.partial
        /\ disk'.manifest = Manifest(disk.model)
    BY <1>1, <2>2, ManifestType
  <2>4. disk.model.data = Wanted
    BY <1>1, <2>2, ManifestType DEF Vouched, Wanted
  <2>5. Vouched(disk)'
    <3>1. disk'.manifest.release = pinned.release
      BY <1>1, <2>3, ManifestType
    <3> QED
      BY ONLY <2>3, <2>4, <3>1 DEF Vouched, Wanted, PinnedFile
  <2>6. Stamped(disk, fetch)'
    BY <1>1, <2>1, <2>2, <2>3, ManifestType DEF Stamped
  <2>7. Hashed(disk, fetch)' /\ Checked(disk, fetch)'
    BY <2>1, <2>2, <2>3, <2>4 DEF Hashed, Checked, Wanted, PinnedFile
  <2> QED
    BY <2>1, <2>2, <2>3, <2>5, <2>6, <2>7
<1>3. CASE /\ fetch' \in {[fetch EXCEPT !.pc = "remove"], [Fault(fetch) EXCEPT !.pc = "remove"]}
           /\ UNCHANGED disk
  <2>1. fetch' \in Fetches /\ fetch'.clock = fetch.clock /\ fetch'.pc = "remove"
    BY <1>1, <1>3, FaultType DEF Fetches, Places
  <2> QED
    BY <1>3, <2>1, StepAside DEF ReadCached
<1> QED
  BY <1>2, <1>3 DEF ReadCached

LEMMA RemovalKeeps ==
  ASSUME CacheInv, RemoveModel \/ RemoveManifest PROVE CacheInv'
<1> USE DEF CacheInv, CacheType
<1>1. fetch \in Fetches /\ UNCHANGED pinned
  BY DEF RemoveModel, RemoveManifest
<1>2. PICK to \in {"unvouch", "request"} :
        fetch' \in {[fetch EXCEPT !.pc = to], [Fault(fetch) EXCEPT !.pc = to]}
  BY DEF RemoveModel, RemoveManifest
<1>3. fetch' \in Fetches /\ fetch'.clock = fetch.clock /\ fetch'.pc = to
  BY <1>1, <1>2, FaultType DEF Fetches, Places
<1>4. CASE UNCHANGED disk
  BY <1>1, <1>3, <1>4, StepAside
<1>5. CASE disk' = [disk EXCEPT !.model = NoFile] \/ disk' = [disk EXCEPT !.manifest = NoManifest]
  <2>1. /\ disk' \in [model : ModelFiles, manifest : Manifests, partial : ModelFiles]
        /\ disk'.partial = disk.partial
        /\ \/ disk'.model = NoFile /\ disk'.manifest = disk.manifest
           \/ disk'.model = disk.model /\ disk'.manifest = NoManifest
    BY <1>5, NothingType
  <2>2. Stamped(disk, fetch)'
    BY <1>3, <2>1 DEF Stamped, NoFile, NoManifest, Fetches
  <2>3. Vouched(disk)'
    BY <2>1 DEF Vouched, NoFile, NoManifest, PinnedFile
  <2>4. Hashed(disk, fetch)' /\ Checked(disk, fetch)'
    BY <1>3 DEF Hashed, Checked
  <2> QED
    BY <1>1, <1>3, <2>1, <2>2, <2>3, <2>4
<1> QED
  BY <1>4, <1>5 DEF RemoveModel, RemoveManifest

LEMMA StartDownloadKeeps ==
  ASSUME CacheInv, StartDownload PROVE CacheInv'
<1> USE DEF CacheInv, CacheType
<1>1. /\ fetch \in Fetches /\ UNCHANGED pinned
      /\ disk.partial \in ModelFiles /\ disk.partial.data \in Seq(Chunks)
      /\ fetch.clock \in Nat /\ fetch.clock + 1 \in Nat
  BY DEF StartDownload, ModelFiles, Fetches
<1>2. CASE fetch' = AttemptFails(fetch) /\ UNCHANGED disk
  BY <1>1, <1>2, FailedType, StepAside
<1>3. ASSUME NEW from \in {0, Len(disk.partial.data)},
             fetch' = [fetch EXCEPT !.pc = "receive", !.clock = @ + 1,
                                    !.hashed = SubSeq(disk.partial.data, 1, from)],
             disk' = [disk EXCEPT !.partial =
                        IF from > 0 THEN @
                        ELSE [there |-> TRUE, data |-> <<>>, changed |-> fetch.clock + 1]]
      PROVE  CacheInv'
  <2>1. /\ Len(disk.partial.data) \in Nat
        /\ SubSeq(disk.partial.data, 1, from) =
             IF from > 0 THEN disk.partial.data ELSE <<>>
    <3>1. CASE from = 0
      BY <1>1, <3>1, SubSeqEmpty
    <3>2. CASE from = Len(disk.partial.data) /\ from # 0
      BY <1>1, <3>2, SubSeqFull
    <3> QED
      BY <1>1, <1>3, <3>1, <3>2
  <2>2. <<>> \in Seq(Chunks)
    BY EmptySeq
  <2>3. /\ fetch' \in Fetches /\ fetch'.pc = "receive" /\ fetch'.clock = fetch.clock + 1
        /\ fetch'.hashed = IF from > 0 THEN disk.partial.data ELSE <<>>
    BY <1>1, <1>3, <2>1, <2>2 DEF Fetches, Places
  <2>4. CASE from > 0
    <3>1. disk.partial.data # <<>>
      BY <1>1, <1>3, <2>1, <2>4, EmptySeq
    <3>2. disk' = disk
      BY <1>3, <2>4
    <3>3. Stamped(disk, fetch)' /\ Vouched(disk)'
      BY <1>1, <2>3, <3>2 DEF Stamped, Vouched, PinnedFile, ModelFiles, Manifests
    <3>4. Hashed(disk, fetch)' /\ Checked(disk, fetch)'
      BY <2>3, <2>4, <3>1, <3>2 DEF Hashed, Checked, Stamped
    <3> QED
      BY <1>1, <2>3, <3>2, <3>3, <3>4
  <2>5. CASE ~(from > 0)
    <3>1. /\ disk' \in [model : ModelFiles, manifest : Manifests, partial : ModelFiles]
          /\ disk'.model = disk.model /\ disk'.manifest = disk.manifest
          /\ disk'.partial = [there |-> TRUE, data |-> <<>>, changed |-> fetch.clock + 1]
      BY <1>1, <1>3, <2>2, <2>5 DEF ModelFiles
    <3>2. Stamped(disk, fetch)'
      BY <1>1, <2>3, <3>1 DEF Stamped, ModelFiles, Manifests
    <3>3. Vouched(disk)'
      BY <3>1 DEF Vouched, PinnedFile
    <3>4. Hashed(disk, fetch)' /\ Checked(disk, fetch)'
      BY <2>3, <2>5, <3>1 DEF Hashed, Checked
    <3> QED
      BY <1>1, <2>3, <3>1, <3>2, <3>3, <3>4
  <2> QED
    BY <2>4, <2>5
<1>4. Len(disk.partial.data) \in Nat
  BY <1>1
<1> QED
  BY <1>2, <1>3, <1>4 DEF StartDownload

LEMMA ReceiveChunkKeeps ==
  ASSUME CacheInv, ReceiveChunk PROVE CacheInv'
<1> USE DEF CacheInv, CacheType
<1>1. /\ fetch \in Fetches /\ fetch.pc = "receive" /\ UNCHANGED pinned
      /\ disk.partial \in ModelFiles /\ disk.partial.data \in Seq(Chunks)
      /\ fetch.hashed \in Seq(Chunks)
      /\ fetch.clock \in Nat /\ fetch.clock + 1 \in Nat
  BY DEF ReceiveChunk, ModelFiles, Fetches
<1>2. Head(ToReceive) \in Chunks
  <2>1. ToReceive \in Seq(Chunks)
    BY <1>1, WantedType, RestOf DEF ToReceive
  <2>2. ToReceive # <<>>
    BY DEF ReceiveChunk
  <2> QED
    BY <2>1, <2>2, HeadTailProperties
<1>3. /\ disk' \in [model : ModelFiles, manifest : Manifests, partial : ModelFiles]
      /\ disk'.model = disk.model /\ disk'.manifest = disk.manifest
      /\ disk'.partial = [there |-> TRUE, data |-> Append(disk.partial.data, Head(ToReceive)),
                          changed |-> fetch.clock + 1]
  <2>1. Append(disk.partial.data, Head(ToReceive)) \in Seq(Chunks)
    BY <1>1, <1>2, AppendProperties
  <2> QED
    BY <1>1, <2>1 DEF ReceiveChunk, ModelFiles
<1>4. /\ fetch' \in Fetches /\ fetch'.pc = "receive" /\ fetch'.clock = fetch.clock + 1
      /\ fetch'.hashed = Append(fetch.hashed, Head(ToReceive))
  <2>1. Append(fetch.hashed, Head(ToReceive)) \in Seq(Chunks)
    BY <1>1, <1>2, AppendProperties
  <2> QED
    BY <1>1, <2>1 DEF ReceiveChunk, Fetches
<1>5. Stamped(disk, fetch)'
  <2>1. /\ disk.model.changed \in Nat /\ disk.model.changed <= fetch.clock
        /\ disk.manifest.changed \in Nat /\ disk.manifest.changed <= fetch.clock
    BY DEF Stamped, ModelFiles, Manifests
  <2>2. disk'.partial.there /\ disk'.partial.changed = fetch.clock + 1
    BY <1>3
  <2> QED
    BY ONLY <1>1, <1>3, <1>4, <2>1, <2>2 DEF Stamped
<1>6. Vouched(disk)'
  BY <1>3 DEF Vouched, PinnedFile
<1>7. Hashed(disk, fetch)' /\ Checked(disk, fetch)'
  BY <1>1, <1>3, <1>4 DEF Hashed, Checked
<1> QED
  BY <1>1, <1>3, <1>4, <1>5, <1>6, <1>7

LEMMA CheckDigestKeeps ==
  ASSUME CacheInv, CheckDigest PROVE CacheInv'
<1> USE DEF CacheInv, CacheType
<1>1. fetch \in Fetches /\ fetch.pc = "receive" /\ UNCHANGED pinned
  BY DEF CheckDigest
<1>2. CASE fetch.hashed = Wanted
  <2>1. UNCHANGED disk /\ fetch' = [fetch EXCEPT !.pc = "rename"]
    BY <1>2 DEF CheckDigest
  <2>2. /\ fetch' \in Fetches /\ fetch'.pc = "rename"
        /\ fetch'.clock = fetch.clock /\ fetch'.hashed = fetch.hashed
    BY <1>1, <2>1 DEF Fetches, Places
  <2>3. Stamped(disk, fetch)' /\ Vouched(disk)'
    BY <2>1, <2>2 DEF Stamped, Vouched, PinnedFile
  <2>4. Hashed(disk, fetch)' /\ Checked(disk, fetch)'
    BY <1>1, <1>2, <2>1, <2>2 DEF Hashed, Checked, Wanted, PinnedFile
  <2> QED
    BY <1>1, <2>1, <2>2, <2>3, <2>4
<1>3. CASE fetch.hashed # Wanted
  <2>1. disk' = [disk EXCEPT !.partial = NoFile] /\ fetch' = AttemptFails(fetch)
    BY <1>3 DEF CheckDigest
  <2>2. fetch' \in Fetches /\ fetch'.pc \in {"failed", "request"} /\ fetch'.clock = fetch.clock
    BY <1>1, <2>1, FailedType
  <2>3. /\ disk' \in [model : ModelFiles, manifest : Manifests, partial : ModelFiles]
        /\ disk'.model = disk.model /\ disk'.manifest = disk.manifest /\ disk'.partial = NoFile
    BY <2>1, NothingType
  <2>4. Stamped(disk, fetch)'
    BY <2>2, <2>3 DEF Stamped, NoFile, Fetches
  <2>5. Vouched(disk)'
    BY <2>3 DEF Vouched, PinnedFile
  <2>6. Hashed(disk, fetch)' /\ Checked(disk, fetch)'
    BY <2>2 DEF Hashed, Checked
  <2> QED
    BY <1>1, <2>2, <2>3, <2>4, <2>5, <2>6
<1> QED
  BY <1>2, <1>3

LEMMA RenamePartialKeeps ==
  ASSUME CacheInv, RenamePartial PROVE CacheInv'
<1> USE DEF CacheInv, CacheType
<1>1. /\ fetch' \in Fetches /\ fetch'.pc = "vouch" /\ fetch'.clock = fetch.clock
      /\ fetch.pc = "rename" /\ UNCHANGED pinned
  BY DEF RenamePartial, Fetches, Places
<1>2. /\ disk' \in [model : ModelFiles, manifest : Manifests, partial : ModelFiles]
      /\ disk'.model = disk.partial /\ disk'.manifest = disk.manifest /\ disk'.partial = NoFile
  BY NothingType DEF RenamePartial
<1>3. disk.partial.there /\ disk.partial.data = Wanted
  BY <1>1 DEF Hashed, Checked
<1>4. Stamped(disk, fetch)'
  BY <1>1, <1>2 DEF Stamped, NoFile, Fetches
<1>5. Vouched(disk)'
  BY <1>2, <1>3 DEF Vouched, Stamped
<1>6. Hashed(disk, fetch)' /\ Checked(disk, fetch)'
  BY <1>1, <1>2, <1>3 DEF Hashed, Checked, Wanted, PinnedFile
<1> QED
  BY <1>1, <1>2, <1>4, <1>5, <1>6

LEMMA WriteManifestKeeps ==
  ASSUME CacheInv, WriteManifest PROVE CacheInv'
<1> USE DEF CacheInv, CacheType
<1>1. /\ fetch' \in Fetches /\ fetch'.pc = "ready" /\ fetch'.clock = fetch.clock
      /\ fetch.pc = "vouch" /\ UNCHANGED pinned
  BY DEF WriteManifest, Fetches, Places
<1>2. disk.model \in ModelFiles
  OBVIOUS
<1>3. /\ disk' \in [model : ModelFiles, manifest : Manifests, partial : ModelFiles]
      /\ disk'.model = disk.model /\ disk'.partial = disk.partial
      /\ disk'.manifest = Manifest(disk.model)
  BY <1>2, ManifestType DEF WriteManifest
<1>4. disk.model.there /\ disk.model.data = Wanted
  BY <1>1 DEF Checked
<1>5. Stamped(disk, fetch)'
  BY <1>1, <1>2, <1>3, <1>4, ManifestType DEF Stamped
<1>6. Vouched(disk)'
  BY <1>2, <1>3, <1>4, ManifestType DEF Vouched, Wanted, PinnedFile
<1>7. Hashed(disk, fetch)' /\ Checked(disk, fetch)'
  BY <1>1, <1>3, <1>4 DEF Hashed, Checked, Wanted, PinnedFile
<1> QED
  BY <1>1, <1>3, <1>5, <1>6, <1>7

LEMMA MishapKeeps ==
  ASSUME CacheInv, DownloadFails \/ RunnerDropped \/ AppUpdated PROVE CacheInv'
<1> USE DEF CacheInv, CacheType
<1>1. fetch \in Fetches /\ UNCHANGED disk
  BY DEF DownloadFails, RunnerDropped, AppUpdated
<1>2. pinned' \in [release : Releases, ranges : BOOLEAN]
  BY DEF DownloadFails, RunnerDropped, AppUpdated, Releases
<1>3. CASE fetch' = AttemptFails(Fault(fetch))
  BY <1>1, <1>2, <1>3, FailedType, FaultType, StepAside
<1>4. ASSUME NEW to \in {"failed", "rest"}, fetch' = [Fault(fetch) EXCEPT !.pc = to]
      PROVE  CacheInv'
  <2>1. fetch' \in Fetches /\ fetch'.clock = fetch.clock /\ fetch'.pc = to
    BY <1>1, <1>4, FaultType DEF Fetches, Places
  <2> QED
    BY <1>1, <1>2, <2>1, StepAside
<1> QED
  BY <1>3, <1>4 DEF DownloadFails, RunnerDropped, AppUpdated

LEMMA FilesPlacedKeeps ==
  ASSUME CacheInv, FilesPlaced PROVE CacheInv'
<1> USE DEF CacheInv, CacheType
<1>1. /\ fetch \in Fetches /\ UNCHANGED pinned
      /\ fetch.clock \in Nat /\ fetch.clock + 1 \in Nat
  BY DEF FilesPlaced, Fetches
<1>2. fetch' \in Fetches /\ fetch'.clock = fetch.clock + 1 /\ fetch'.pc = "rest"
  BY <1>1, FaultType DEF FilesPlaced, Fetches, Places
<1>3. PICK cut \in {0, 1} :
        LET copy == [there |-> TRUE, data |-> SubSeq(Wanted, 1, Len(Wanted) - cut),
                     changed |-> fetch.clock + 1]
        IN disk' = [disk EXCEPT !.model = copy,
                                !.manifest = [Manifest(copy) EXCEPT !.changed = 0]]
  BY DEF FilesPlaced
<1> DEFINE copy == [there |-> TRUE, data |-> SubSeq(Wanted, 1, Len(Wanted) - cut),
                    changed |-> fetch.clock + 1]
<1>4. copy \in ModelFiles /\ copy.changed = fetch.clock + 1
  <2>1. SubSeq(Wanted, 1, Len(Wanted) - cut) \in Seq(Chunks)
    <3>1. CASE Len(Wanted) - cut < 1
      BY <3>1, WantedType, SubSeqEmpty, EmptySeq
    <3>2. CASE Len(Wanted) - cut >= 1
      BY <3>2, WantedType, SubSeqProperties
    <3> QED
      BY <3>1, <3>2, WantedType
  <2> QED
    BY <1>1, <2>1 DEF ModelFiles
<1>5. disk' = [disk EXCEPT !.model = copy,
                           !.manifest = [Manifest(copy) EXCEPT !.changed = 0]]
  BY <1>3
<1> HIDE DEF copy
<1>6. /\ disk' \in [model : ModelFiles, manifest : Manifests, partial : ModelFiles]
      /\ disk'.model = copy /\ disk'.partial = disk.partial
      /\ disk'.manifest.changed = 0
  <2>1. /\ [Manifest(copy) EXCEPT !.changed = 0] \in Manifests
        /\ [Manifest(copy) EXCEPT !.changed = 0].changed = 0
    BY <1>4, ManifestType DEF Manifests
  <2> QED
    BY <1>4, <1>5, <2>1
<1>7. Stamped(disk, fetch)'
  BY <1>1, <1>2, <1>4, <1>6 DEF Stamped, ModelFiles
<1>8. Vouched(disk)'
  BY <1>1, <1>4, <1>6 DEF Vouched
<1>9. Hashed(disk, fetch)' /\ Checked(disk, fetch)'
  BY <1>2 DEF Hashed, Checked
<1> QED
  BY <1>1, <1>2, <1>6, <1>7, <1>8, <1>9

LEMMA CacheInvStep ==
  ASSUME CacheInv, [CacheNext]_cacheVars PROVE CacheInv'
<1>1. CASE UNCHANGED cacheVars
  BY <1>1 DEF cacheVars, CacheInv, CacheType, Stamped, Vouched, Hashed, Checked, Wanted,
              PinnedFile
<1>2. CASE CacheSystem
  BY <1>2, ReadCachedKeeps, RemovalKeeps, StartDownloadKeeps, ReceiveChunkKeeps,
     CheckDigestKeeps, RenamePartialKeeps, WriteManifestKeeps DEF CacheSystem
<1> QED
  BY <1>1, <1>2, EnsureModelKeeps, MishapKeeps, FilesPlacedKeeps DEF CacheNext

\* Whatever was broken off, updated or placed by hand: a model that is answered for,
\* or that its manifest vouches for, is the pinned one, whole (ensure_model_file,
\* read_cached_size).
THEOREM CopyVerifiedCorrect == CacheSpec => []CopyVerified
<1>1. CacheInv => CopyVerified
  <2> SUFFICES ASSUME CacheInv PROVE CopyVerified
    OBVIOUS
  <2>1. disk.model \in ModelFiles
    BY DEF CacheInv, CacheType
  <2>2. ASSUME disk.model.there, disk.manifest = Manifest(disk.model)
        PROVE  disk.model.data = Wanted
    BY <2>1, <2>2, ManifestType DEF CacheInv, Vouched, Wanted
  <2>3. fetch.pc = "ready" => disk.model.there /\ disk.model.data = Wanted
    BY DEF CacheInv, Checked
  <2> QED
    BY <2>2, <2>3 DEF CopyVerified
<1> QED
  BY <1>1, CacheInit0, CacheInvStep, PTL DEF CacheSpec

-----------------------------------------------------------------------------
(* A run that meets no mishap.                                             *)

\* The run met no mishap, and found no partial file after which nothing is sent.
Passable(f, pin) == ~f.disturbed /\ ~(pin.ranges /\ f.found >= Len(PinnedFile(pin.release)))

\* What is there of the model is its beginning.
Begun(data, model) == \A i \in 1..Len(data) : i <= Len(model) /\ data[i] = model[i]

\* The first attempt goes on from what the run found, the second from nothing, and
\* there is no third.
Recovers(d, f, model) ==
    /\ f.pc # "failed"
    /\ f.pc \in {"look", "remove", "unvouch"} =>
         f.attempt = 1 /\ Len(d.partial.data) = f.found
    /\ f.pc = "request" => \/ f.attempt = 1 /\ Len(d.partial.data) = f.found
                           \/ f.attempt = 2 /\ d.partial.data = <<>>
    /\ f.pc = "receive" => \/ f.attempt = 1
                           \/ f.attempt = 2 /\ Begun(d.partial.data, model)

Recovering == Passable(fetch, pinned) => Recovers(disk, fetch, Wanted)

LEMMA RecoveringRun ==
  ASSUME CacheInv, Recovering, EnsureModel \/ ReadCached \/ RemoveModel \/ RemoveManifest
  PROVE  Recovering'
<1>1. /\ fetch \in Fetches
      /\ disk \in [model : ModelFiles, manifest : Manifests, partial : ModelFiles]
      /\ UNCHANGED pinned
  BY DEF CacheInv, CacheType, EnsureModel, ReadCached, RemoveModel, RemoveManifest
<1>2. disk'.partial = disk.partial
  BY <1>1 DEF EnsureModel, ReadCached, RemoveModel, RemoveManifest
<1>3. CASE EnsureModel
  BY <1>1, <1>2, <1>3 DEF EnsureModel, Recovering, Recovers, Fetches
<1>4. ASSUME NEW to \in {"ready", "remove", "unvouch", "request"},
             fetch' = [fetch EXCEPT !.pc = to],
             fetch.pc \in {"look", "remove", "unvouch"}
      PROVE  Recovering'
  <2>1. /\ fetch'.pc = to /\ fetch'.attempt = fetch.attempt /\ fetch'.found = fetch.found
        /\ fetch'.disturbed = fetch.disturbed
    BY <1>1, <1>4 DEF Fetches
  <2>2. Passable(fetch, pinned)' => Passable(fetch, pinned)
    BY <1>1, <2>1 DEF Passable, PinnedFile
  <2> QED
    BY <1>2, <1>4, <2>1, <2>2 DEF Recovering, Recovers
<1>5. ASSUME NEW to \in Places, fetch' = [Fault(fetch) EXCEPT !.pc = to]
      PROVE  Recovering'
  <2>1. fetch'.disturbed = TRUE
    BY <1>1, <1>5 DEF Fault, Fetches
  <2> QED
    BY <2>1 DEF Recovering, Passable
<1> QED
  BY <1>3, <1>4, <1>5 DEF ReadCached, RemoveModel, RemoveManifest, Places

LEMMA RecoveringStart ==
  ASSUME CacheInv, Recovering, StartDownload PROVE Recovering'
<1>1. /\ fetch \in Fetches /\ fetch.pc = "request" /\ UNCHANGED pinned
      /\ disk \in [model : ModelFiles, manifest : Manifests, partial : ModelFiles]
      /\ disk.partial.data \in Seq(Chunks) /\ Wanted \in Seq(Chunks)
  BY WantedType DEF CacheInv, CacheType, StartDownload, ModelFiles
<1>2. Len(disk.partial.data) \in Nat /\ Len(Wanted) \in Nat /\ fetch.found \in Nat
  BY <1>1 DEF Fetches
<1> SUFFICES ASSUME Passable(fetch, pinned)'
             PROVE  Recovers(disk, fetch, Wanted)'
  BY DEF Recovering
<1> DEFINE had == Len(disk.partial.data)
           ranged == had > 0 /\ pinned.ranges
<1>3. CASE ranged /\ had >= Len(Wanted)
  <2>1. fetch' = AttemptFails(fetch) /\ UNCHANGED disk
    BY <1>3 DEF StartDownload
  <2>2. fetch'.disturbed = fetch.disturbed /\ fetch'.found = fetch.found
    BY <1>1, <2>1 DEF AttemptFails, Fetches
  <2>3. Passable(fetch, pinned)
    BY <1>1, <2>2 DEF Passable, PinnedFile
  <2>4. had = fetch.found \/ had = 0
    BY <1>1, <2>3, EmptySeq DEF Recovering, Recovers
  <2> QED
    BY <1>2, <1>3, <2>3, <2>4 DEF Passable, Wanted
<1>4. CASE ~(ranged /\ had >= Len(Wanted))
  <2> DEFINE from == IF ranged THEN had ELSE 0
  <2>1. /\ fetch' = [fetch EXCEPT !.pc = "receive", !.clock = @ + 1,
                                  !.hashed = SubSeq(disk.partial.data, 1, from)]
        /\ disk' = [disk EXCEPT !.partial =
                      IF from > 0 THEN @
                      ELSE [there |-> TRUE, data |-> <<>>, changed |-> fetch.clock + 1]]
    BY <1>4 DEF StartDownload
  <2>2. /\ fetch'.pc = "receive" /\ fetch'.attempt = fetch.attempt
        /\ fetch'.disturbed = fetch.disturbed /\ fetch'.found = fetch.found
    BY <1>1, <2>1 DEF Fetches
  <2>3. Passable(fetch, pinned)
    BY <1>1, <2>2 DEF Passable, PinnedFile
  <2>4. CASE fetch.attempt = 1
    BY <2>2, <2>4 DEF Recovers
  <2>5. CASE fetch.attempt = 2 /\ disk.partial.data = <<>>
    <3>1. had = 0 /\ from = 0
      BY <1>2, <2>1, <2>5, EmptySeq
    <3>2. disk'.partial.data = <<>>
      BY <1>1, <2>1, <3>1
    <3>3. Begun(<<>>, Wanted')
      BY EmptySeq DEF Begun
    <3> QED
      BY <2>2, <2>5, <3>2, <3>3 DEF Recovers
  <2> QED
    BY <1>1, <2>3, <2>4, <2>5 DEF Recovering, Recovers
<1> QED
  BY <1>3, <1>4

LEMMA RecoveringReceive ==
  ASSUME CacheInv, Recovering, ReceiveChunk PROVE Recovering'
<1>1. /\ fetch \in Fetches /\ fetch.pc = "receive" /\ UNCHANGED pinned
      /\ disk \in [model : ModelFiles, manifest : Manifests, partial : ModelFiles]
      /\ disk.partial.data \in Seq(Chunks) /\ Wanted \in Seq(Chunks)
  BY WantedType DEF CacheInv, CacheType, ReceiveChunk, ModelFiles
<1> DEFINE n == Len(disk.partial.data)
<1>2. n \in Nat /\ Len(Wanted) \in Nat
  BY <1>1
<1> SUFFICES ASSUME Passable(fetch, pinned)'
             PROVE  Recovers(disk, fetch, Wanted)'
  BY DEF Recovering
<1>3. /\ fetch'.pc = "receive" /\ fetch'.attempt = fetch.attempt
      /\ fetch'.disturbed = fetch.disturbed /\ fetch'.found = fetch.found
      /\ disk'.partial.data = Append(disk.partial.data, Head(ToReceive))
  BY <1>1 DEF ReceiveChunk, Fetches
<1>4. Passable(fetch, pinned) /\ Wanted' = Wanted
  BY <1>1, <1>3 DEF Passable, PinnedFile, Wanted
<1>5. CASE fetch.attempt = 1
  BY <1>3, <1>5 DEF Recovers
<1>6. CASE fetch.attempt = 2 /\ Begun(disk.partial.data, Wanted)
  <2>1. n + 1 <= Len(Wanted)
    <3>1. ToReceive # <<>>
      BY DEF ReceiveChunk
    <3>2. ~(n >= Len(Wanted))
      BY <1>1, <3>1, RestOf DEF ToReceive
    <3> QED
      BY <1>2, <3>2
  <2>2. Head(ToReceive) = Wanted[n + 1]
    BY <1>1, RestOf DEF ToReceive, ReceiveChunk
  <2>3. Wanted[n + 1] \in Chunks
    BY <1>1, <1>2, <2>1, ElementOfSeq
  <2>4. ASSUME NEW i \in 1..Len(Append(disk.partial.data, Wanted[n + 1]))
        PROVE  i <= Len(Wanted) /\ Append(disk.partial.data, Wanted[n + 1])[i] = Wanted[i]
    <3>1. Len(Append(disk.partial.data, Wanted[n + 1])) = n + 1
      BY <1>1, <2>3, AppendProperties
    <3>2. CASE i = n + 1
      BY <1>1, <2>1, <2>3, <3>2, AppendProperties
    <3>3. CASE i \in 1..n
      BY <1>1, <1>6, <2>3, <3>3, AppendProperties DEF Begun
    <3> QED
      BY <1>2, <3>1, <3>2, <3>3
  <2>5. Begun(disk'.partial.data, Wanted)
    BY <1>3, <2>2, <2>4 DEF Begun
  <2> QED
    BY <1>3, <1>4, <1>6, <2>5 DEF Recovers
<1> QED
  BY <1>1, <1>4, <1>5, <1>6 DEF Recovering, Recovers

LEMMA RecoveringCheck ==
  ASSUME CacheInv, Recovering, CheckDigest PROVE Recovering'
<1>1. /\ fetch \in Fetches /\ fetch.pc = "receive" /\ UNCHANGED pinned
      /\ disk \in [model : ModelFiles, manifest : Manifests, partial : ModelFiles]
      /\ disk.partial.data \in Seq(Chunks) /\ Wanted \in Seq(Chunks)
      /\ fetch.hashed = disk.partial.data
  BY WantedType DEF CacheInv, CacheType, CheckDigest, ModelFiles, Hashed
<1> DEFINE n == Len(disk.partial.data)
<1>2. n \in Nat /\ Len(Wanted) \in Nat /\ 1 # DownloadAttempts
  BY <1>1, CacheAssumption
<1> SUFFICES ASSUME Passable(fetch, pinned)'
             PROVE  Recovers(disk, fetch, Wanted)'
  BY DEF Recovering
<1>3. CASE fetch.hashed = Wanted
  <2>1. fetch'.pc = "rename"
    BY <1>1, <1>3 DEF CheckDigest, Fetches
  <2> QED
    BY <2>1 DEF Recovers
<1>4. CASE fetch.hashed # Wanted
  <2>1. disk' = [disk EXCEPT !.partial = NoFile] /\ fetch' = AttemptFails(fetch)
    BY <1>4 DEF CheckDigest
  <2>2. fetch'.disturbed = fetch.disturbed /\ fetch'.found = fetch.found
    BY <1>1, <2>1 DEF AttemptFails, Fetches
  <2>3. Passable(fetch, pinned)
    BY <1>1, <2>2 DEF Passable, PinnedFile
  <2>4. CASE fetch.attempt = 1
    <3>1. fetch'.pc = "request" /\ fetch'.attempt = 2 /\ disk'.partial.data = <<>>
      BY <1>1, <1>2, <2>1, <2>4 DEF AttemptFails, Fetches, NoFile
    <3> QED
      BY <3>1 DEF Recovers
  <2>5. CASE Begun(disk.partial.data, Wanted)
    <3>1. ToReceive = <<>>
      BY DEF CheckDigest
    <3>2. n >= Len(Wanted)
      BY <1>1, <1>2, <3>1, RestOf DEF ToReceive
    <3>3. n = Len(Wanted)
      <4>1. CASE n > Len(Wanted)
        BY <1>2, <2>5, <4>1 DEF Begun
      <4> QED
        BY <1>2, <3>2, <4>1
    <3>4. disk.partial.data = Wanted
      BY <1>1, <2>5, <3>3, SeqEqual DEF Begun
    <3> QED
      BY <1>1, <1>4, <3>4
  <2> QED
    BY <1>1, <2>3, <2>4, <2>5 DEF Recovering, Recovers
<1> QED
  BY <1>3, <1>4

LEMMA RecoveringStep ==
  ASSUME CacheInv, Recovering, [CacheNext]_cacheVars PROVE Recovering'
<1>1. fetch \in Fetches
  BY DEF CacheInv, CacheType
<1>2. CASE UNCHANGED cacheVars
  BY <1>2 DEF cacheVars, Recovering, Passable, Recovers, Begun, Wanted, PinnedFile
<1>3. CASE RenamePartial \/ WriteManifest
  <2>1. fetch'.pc \in {"vouch", "ready"}
    BY <1>1, <1>3 DEF RenamePartial, WriteManifest, Fetches
  <2> QED
    BY <2>1 DEF Recovering, Recovers
<1>4. CASE DownloadFails \/ RunnerDropped \/ AppUpdated \/ FilesPlaced
  <2>1. Fault(fetch) \in Fetches /\ Fault(fetch).disturbed = TRUE
    BY <1>1, FaultType DEF Fault, Fetches
  <2>2. AttemptFails(Fault(fetch)).disturbed = TRUE
    BY <2>1 DEF AttemptFails, Fetches
  <2>3. fetch'.disturbed = TRUE
    BY <1>4, <2>1, <2>2 DEF DownloadFails, RunnerDropped, AppUpdated, FilesPlaced, Fetches
  <2> QED
    BY <2>3 DEF Recovering, Passable
<1> QED
  BY <1>2, <1>3, <1>4, RecoveringRun, RecoveringStart, RecoveringReceive, RecoveringCheck
  DEF CacheNext, CacheSystem

\* A run that meets no mishap ends with the model, whatever earlier runs left, unless
\* it found a partial file after which the address has nothing to send
\* (download_with_retries, run_download, start_download).
THEOREM DownloadRecoversCorrect == CacheSpec => []DownloadRecovers
<1>1. CacheInit => Recovering
  BY DEF CacheInit, Recovering, Recovers
<1>2. CacheInv /\ Recovering => DownloadRecovers
  <2>1. CacheInv => fetch.found \in Nat /\ Len(Wanted) \in Nat
    BY WantedType DEF CacheInv, CacheType, Fetches
  <2> QED
    BY <2>1 DEF Recovering, Recovers, Passable, DownloadRecovers, Wanted
<1> QED
  BY <1>1, <1>2, CacheInit0, CacheInvStep, RecoveringStep, PTL DEF CacheSpec
=============================================================================
