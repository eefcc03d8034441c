----------------------------- MODULE ModelCache -----------------------------
(***************************************************************************)
(* The cache of model files (crates/gpu/src/cache.rs): a file is downloaded *)
(* into a partial file, resumed from it when it was cut short, checked by   *)
(* its digest, renamed, and vouched for by a manifest of its size and the   *)
(* time of its last change.                                                *)
(*                                                                         *)
(* One runner at a time asks for a file.  The runner may be dropped and the *)
(* process may stop wherever it waits; what the system had begun to write   *)
(* has ended before the next runner asks.  A loss of power is left out.     *)
(***************************************************************************)
EXTENDS Naturals, Sequences, SequencesExt

CONSTANTS
    OldLength,          \* chunks of the release that is pinned first
    NewLength,          \* chunks of the one that another version of the app pins
    DownloadAttempts,   \* DOWNLOAD_ATTEMPTS
    AskCount,           \* times the model is asked for
    CacheFaults         \* stops, failures, updates and copies made by hand

ASSUME CacheAssumption ==
    /\ OldLength \in Nat \ {0} /\ NewLength \in Nat \ {0}
    /\ DownloadAttempts \in Nat \ {0, 1} /\ AskCount \in Nat /\ CacheFaults \in Nat

VARIABLES
    disk,       \* the model, its manifest and its partial file
    fetch,      \* the runner in ensure_model_file
    pinned      \* the release the app wants, and whether its address sends the rest of a file

cacheVars == <<disk, fetch, pinned>>

PinnedFile(release) ==
    [k \in 1..(IF release = "old" THEN OldLength ELSE NewLength) |-> <<release, k>>]

\* What the digest of the pin tells from everything else.
Wanted == PinnedFile(pinned.release)

NoFile == [there |-> FALSE, data |-> <<>>, changed |-> 0]
NoManifest == [there |-> FALSE, size |-> 0, changed |-> 0, release |-> "old"]
Manifest(f) == [there |-> TRUE, size |-> Len(f.data), changed |-> f.changed,
                release |-> pinned.release]

CacheInit ==
    /\ disk = [model |-> NoFile, manifest |-> NoManifest, partial |-> NoFile]
    /\ fetch = [pc |-> "rest", attempt |-> 0, hashed |-> <<>>, asks |-> 0,
                clock |-> 0, faults |-> 0, found |-> 0, disturbed |-> FALSE]
    /\ pinned \in [release : {"old"}, ranges : BOOLEAN]

Resting == {"rest", "ready", "failed"}

\* A mishap that the run it meets need not recover from.
Fault(f) == [f EXCEPT !.faults = @ + 1, !.disturbed = TRUE]
MayFault == fetch.faults < CacheFaults

AttemptFails(f) ==
    IF f.attempt = DownloadAttempts THEN [f EXCEPT !.pc = "failed"]
    ELSE [f EXCEPT !.attempt = @ + 1, !.pc = "request"]

-----------------------------------------------------------------------------
(* A run of ensure_model_file.                                             *)

EnsureModel ==
    /\ fetch.pc \in Resting /\ fetch.asks < AskCount
    /\ fetch' = [fetch EXCEPT !.pc = "look", !.attempt = 1, !.asks = @ + 1,
                              !.found = Len(disk.partial.data), !.disturbed = FALSE]
    /\ UNCHANGED <<disk, pinned>>

\* A file without a manifest is none.  One that changed since is read again, and
\* vouched for anew if it is the model still; if that cannot be written, it is none.
ReadCached ==
    /\ fetch.pc = "look"
    /\ LET beside == disk.model.there /\ disk.manifest.there
           vouched == beside /\ disk.manifest = Manifest(disk.model)
           same == beside /\ disk.model.data = Wanted
       IN \/ /\ vouched \/ same
             /\ fetch' = [fetch EXCEPT !.pc = "ready"]
             /\ disk' = [disk EXCEPT !.manifest = Manifest(disk.model)]
          \/ /\ ~vouched /\ ~same
             /\ fetch' = [fetch EXCEPT !.pc = "remove"] /\ UNCHANGED disk
          \/ /\ ~vouched /\ same /\ MayFault
             /\ fetch' = [Fault(fetch) EXCEPT !.pc = "remove"] /\ UNCHANGED disk
    /\ UNCHANGED pinned

\* A file that cannot be removed is left.
RemoveModel ==
    /\ fetch.pc = "remove"
    /\ \/ /\ disk' = [disk EXCEPT !.model = NoFile]
          /\ fetch' = [fetch EXCEPT !.pc = "unvouch"]
       \/ /\ MayFault /\ UNCHANGED disk
          /\ fetch' = [Fault(fetch) EXCEPT !.pc = "unvouch"]
    /\ UNCHANGED pinned

RemoveManifest ==
    /\ fetch.pc = "unvouch"
    /\ \/ /\ disk' = [disk EXCEPT !.manifest = NoManifest]
          /\ fetch' = [fetch EXCEPT !.pc = "request"]
       \/ /\ MayFault /\ UNCHANGED disk
          /\ fetch' = [Fault(fetch) EXCEPT !.pc = "request"]
    /\ UNCHANGED pinned

\* A partial file is gone on from if the address sends the rest, begun anew if it
\* sends the whole, and left as it is if there is nothing after it to send.
StartDownload ==
    /\ fetch.pc = "request"
    /\ LET had == Len(disk.partial.data)
           ranged == had > 0 /\ pinned.ranges
           from == IF ranged THEN had ELSE 0
       IN IF ranged /\ had >= Len(Wanted)
          THEN fetch' = AttemptFails(fetch) /\ UNCHANGED disk
          ELSE /\ fetch' = [fetch EXCEPT !.pc = "receive", !.clock = @ + 1,
                                         !.hashed = SubSeq(disk.partial.data, 1, from)]
               /\ disk' = [disk EXCEPT !.partial =
                              IF from > 0 THEN @
                              ELSE [there |-> TRUE, data |-> <<>>, changed |-> fetch.clock + 1]]
    /\ UNCHANGED pinned

ToReceive == SubSeq(Wanted, Len(disk.partial.data) + 1, Len(Wanted))

ReceiveChunk ==
    /\ fetch.pc = "receive" /\ ToReceive # <<>>
    /\ LET chunk == Head(ToReceive) IN
       /\ disk' = [disk EXCEPT !.partial = [there |-> TRUE, data |-> Append(@.data, chunk),
                                            changed |-> fetch.clock + 1]]
       /\ fetch' = [fetch EXCEPT !.hashed = Append(@, chunk), !.clock = @ + 1]
    /\ UNCHANGED pinned

\* A check that counts the chunks only.
CheckDigestLength ==
    /\ fetch.pc = "receive" /\ ToReceive = <<>>
    /\ IF Len(fetch.hashed) = Len(Wanted)
       THEN fetch' = [fetch EXCEPT !.pc = "rename"] /\ UNCHANGED disk
       ELSE /\ disk' = [disk EXCEPT !.partial = NoFile]
            /\ fetch' = AttemptFails(fetch)
    /\ UNCHANGED pinned

\* A check that leaves what it refuses.
CheckDigestKept ==
    /\ fetch.pc = "receive" /\ ToReceive = <<>>
    /\ fetch' = IF fetch.hashed = Wanted THEN [fetch EXCEPT !.pc = "rename"]
                ELSE AttemptFails(fetch)
    /\ UNCHANGED <<disk, pinned>>

\* What is not the model is removed, so that the next attempt begins anew.
CheckDigest ==
    /\ fetch.pc = "receive" /\ ToReceive = <<>>
    /\ IF fetch.hashed = Wanted
       THEN fetch' = [fetch EXCEPT !.pc = "rename"] /\ UNCHANGED disk
       ELSE /\ disk' = [disk EXCEPT !.partial = NoFile]
            /\ fetch' = AttemptFails(fetch)
    /\ UNCHANGED pinned

RenamePartial ==
    /\ fetch.pc = "rename"
    /\ disk' = [disk EXCEPT !.model = disk.partial, !.partial = NoFile]
    /\ fetch' = [fetch EXCEPT !.pc = "vouch"]
    /\ UNCHANGED pinned

WriteManifest ==
    /\ fetch.pc = "vouch"
    /\ disk' = [disk EXCEPT !.manifest = Manifest(disk.model)]
    /\ fetch' = [fetch EXCEPT !.pc = "ready"]
    /\ UNCHANGED pinned

-----------------------------------------------------------------------------
(* What goes wrong.                                                        *)

\* The address does not answer, answers with an error or breaks off: another
\* attempt.  No room, or a file that cannot be renamed or vouched for: the end.
DownloadFails ==
    /\ MayFault
    /\ \/ fetch.pc \in {"request", "receive"} /\ fetch' = AttemptFails(Fault(fetch))
       \/ /\ fetch.pc \in {"request", "rename", "vouch"}
          /\ fetch' = [Fault(fetch) EXCEPT !.pc = "failed"]
    /\ UNCHANGED <<disk, pinned>>

\* The step is paused, or the process stops.
RunnerDropped ==
    /\ MayFault /\ fetch.pc \notin Resting
    /\ fetch' = [Fault(fetch) EXCEPT !.pc = "rest"]
    /\ UNCHANGED <<disk, pinned>>

\* Another version of the app starts, with another pin for the same path.
AppUpdated ==
    /\ MayFault
    /\ pinned' = [pinned EXCEPT !.release = IF @ = "old" THEN "new" ELSE "old"]
    /\ fetch' = [Fault(fetch) EXCEPT !.pc = "rest"]
    /\ UNCHANGED disk

\* The model and its manifest are put in place by hand; a copy is changed later than
\* the manifest says, and may have been cut short.
FilesPlaced ==
    /\ MayFault /\ fetch.pc \in Resting
    /\ \E cut \in {0, 1} :
         LET copy == [there |-> TRUE, data |-> SubSeq(Wanted, 1, Len(Wanted) - cut),
                      changed |-> fetch.clock + 1]
         IN disk' = [disk EXCEPT !.model = copy,
                                 !.manifest = [Manifest(copy) EXCEPT !.changed = 0]]
    /\ fetch' = [Fault(fetch) EXCEPT !.pc = "rest", !.clock = @ + 1]
    /\ UNCHANGED pinned

CacheSystem ==
    \/ ReadCached \/ RemoveModel \/ RemoveManifest \/ StartDownload
    \/ ReceiveChunk \/ CheckDigest \/ RenamePartial \/ WriteManifest

CacheNext ==
    \/ EnsureModel \/ CacheSystem
    \/ DownloadFails \/ RunnerDropped \/ AppUpdated \/ FilesPlaced

CacheSpec == CacheInit /\ [][CacheNext]_cacheVars /\ WF_cacheVars(CacheSystem)

-----------------------------------------------------------------------------
FetchAwaited == fetch.pc \notin Resting

\* Whatever was broken off, gone on with under another pin, placed by hand, or
\* stopped between the rename and the manifest: a file that is answered for, or
\* that its manifest vouches for, is the pinned model, whole (ensure_model_file,
\* read_cached_size).
CopyVerified ==
    /\ disk.model.there /\ disk.manifest = Manifest(disk.model) => disk.model.data = Wanted
    /\ fetch.pc = "ready" => disk.model.there /\ disk.model.data = Wanted

\* A run that meets no mishap brings the model, whatever earlier runs left behind:
\* a partial file of two releases is removed and downloaded anew (run_download).
\* The one thing it does not get over is a partial file it finds as long as the
\* model, left by a stop before the rename or by the release before: the range after
\* it is refused (start_download), and nobody removes it.
DownloadRecovers ==
    fetch.pc = "failed" /\ ~fetch.disturbed => pinned.ranges /\ fetch.found >= Len(Wanted)
=============================================================================
