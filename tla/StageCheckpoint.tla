--------------------------- MODULE StageCheckpoint ---------------------------
(***************************************************************************)
(* The durable progress of a step that folds its units (separation): the   *)
(* row's cursor in the database, the prefix and tail files of the step's   *)
(* area, and the runner that restores them, folds one unit after another,  *)
(* persists every CheckpointEvery units and publishes the result.          *)
(*                                                                         *)
(* One row is followed, through the attempts the queue makes at it.  The   *)
(* queue may drop the runner between any two of its steps; a database      *)
(* write that is under way then still lands, early or late.  The process   *)
(* may stop anywhere and start again, perhaps as another release.          *)
(*                                                                         *)
(* Data: a frame is a cell, and what has been added to it is the sequence  *)
(* of the units added, in their order, which is what its bits depend on.   *)
(* A tail's digest is the tail itself.                                     *)
(***************************************************************************)
EXTENDS Integers, Sequences

CONSTANTS Starts,            \* UnitPlan.units: the first cell of each unit
          Length,            \* and the cells it covers
          Frames,            \* the cells of the signal
          CheckpointEvery,   \* CHECKPOINT_EVERY
          Computations,      \* what a release of the program may compute
          MaxAttempts        \* bound: the claims that are followed

Count == Len(Starts)
Cells == 0..(Frames - 1)
Units == 0..(Count - 1)

ASSUME CheckpointAssumption ==
    /\ Frames \in Nat \ {0}
    /\ Length \in Nat \ {0}
    /\ Starts \in Seq(0..(Frames - Length))
    /\ Starts # <<>>
    /\ CheckpointEvery \in Nat \ {0}
    /\ MaxAttempts \in Nat
    /\ "none" \notin Computations

VARIABLES
    \* the ProcessingStep row
    status,
    owner,          \* attemptId: the stage attempt bound to it, 0 for the claim's own id or NULL
    saved,          \* the cursor: computation, generation, next, prefix, tail
    \* the step's area, a directory per computation
    prefixFile,     \* the records of separated.prefix
    tails,          \* checkpoints/<generation>/separated.tail
    \* the runner
    pc,
    attempt,        \* attempts made so far, and the one that runs
    release,        \* what this release computes
    fold, folded,   \* the accumulator, and how many units are folded in
    committed,      \* committed_prefix
    previous,       \* the generation persist_tail has read
    answer,         \* what the queue is to write
    \* beyond it
    lateBinds, lateCommits,   \* writes that dropped runners left behind
    result          \* the fold the stored stems were made from

rowVars == <<status, owner, saved>>
fileVars == <<prefixFile, tails>>
foldVars == <<fold, folded, committed>>
lateVars == <<lateBinds, lateCommits>>
vars == <<rowVars, fileVars, pc, attempt, release, foldVars, previous, answer,
          lateVars, result>>

NoFold == [c \in Cells |-> <<-1>>]
EmptyFold == [c \in Cells |-> <<>>]
NoCursor == [computation |-> "none", generation |-> 0, next |-> 0, prefix |-> 0, tail |-> <<>>]

Init ==
    /\ status = "pending"
    /\ owner = 0
    /\ saved = NoCursor
    /\ prefixFile = [k \in Computations |-> <<>>]
    /\ tails = [k \in Computations |-> [g \in {} |-> <<>>]]
    /\ pc = "off"
    /\ attempt = 0
    /\ release \in Computations
    /\ fold = EmptyFold
    /\ folded = 0
    /\ committed = 0
    /\ previous = 0
    /\ answer = "none"
    /\ lateBinds = {}
    /\ lateCommits = {}
    /\ result = NoFold

-----------------------------------------------------------------------------
(* The plan.  Units are numbered from 0.                                    *)

Start(u) == Starts[u + 1]
Covers(u, c) == Start(u) <= c /\ c < Start(u) + Length

\* The cells before settled are in no later unit, those from reached on in no
\* unit so far.
settled_frames(next) ==
    CHOOSE n \in 0..Frames :
        /\ \A u \in Units : u >= next => n <= Start(u)
        /\ n = Frames \/ \E u \in Units : u >= next /\ n = Start(u)

reached_frames(next) ==
    CHOOSE n \in 0..Frames :
        /\ \A u \in Units : u < next => Start(u) + Length <= n
        /\ n = 0 \/ \E u \in Units : u < next /\ n = Start(u) + Length

\* Mutant: none after the last unit, unless it falls due.
DueEvery(next) == next % CheckpointEvery = 0

\* A checkpoint is due after every CheckpointEvery units and after the last.
Due(next) == next = Count \/ next % CheckpointEvery = 0

\* The records of the cells from..to-1.
Records(content, from, to) == [i \in 1..(to - from) |-> content[from + i - 1]]

Add(content, u) ==
    [c \in Cells |-> IF Covers(u, c) THEN Append(content[c], u) ELSE content[c]]

-----------------------------------------------------------------------------
(* The queue: claim, settle, and the retry of the user.                     *)

Claim ==
    /\ pc = "off"
    /\ status = "pending"
    /\ attempt < MaxAttempts
    /\ status' = "processing"
    /\ owner' = 0
    /\ attempt' = attempt + 1
    /\ pc' = "resume"
    /\ UNCHANGED <<saved, fileVars, release, foldVars, previous, answer, lateVars, result>>

\* The runner's state goes with it.
Leave(status_) ==
    /\ answer' = status_
    /\ pc' = "settle"
    /\ fold' = EmptyFold
    /\ folded' = 0
    /\ committed' = 0
    /\ previous' = 0

Settle ==
    /\ pc = "settle"
    /\ status' = IF status = "processing" THEN answer ELSE status
    /\ owner' = IF status = "processing" THEN 0 ELSE owner
    /\ pc' = "off"
    /\ answer' = "none"
    /\ UNCHANGED <<saved, fileVars, attempt, release, foldVars, previous, lateVars, result>>

Retry ==
    /\ pc # "down"
    /\ status = "failed"
    /\ status' = "pending"
    /\ UNCHANGED <<owner, saved, fileVars, pc, attempt, release, foldVars, previous,
                   answer, lateVars, result>>

-----------------------------------------------------------------------------
(* resume, register and bind.                                               *)

Resumable == saved.computation = release /\ saved.generation > 0

Restorable(k) ==
    /\ saved.generation \in DOMAIN tails[k]
    /\ tails[k][saved.generation] = saved.tail
    /\ saved.prefix <= Len(prefixFile[k])
    /\ saved.prefix + Len(saved.tail) <= Frames

\* Mutant: the tail is placed one cell too early.
RestoredEarly(k) ==
    [c \in Cells |->
        IF c + 1 < saved.prefix THEN prefixFile[k][c + 1]
        ELSE IF c + 1 < saved.prefix + Len(saved.tail) THEN saved.tail[c - saved.prefix + 2]
        ELSE <<>>]

\* FoldAccumulator::restore: the prefix, then the tail, the rest untouched.
Restored(k) ==
    [c \in Cells |->
        IF c < saved.prefix THEN prefixFile[k][c + 1]
        ELSE IF c < saved.prefix + Len(saved.tail) THEN saved.tail[c - saved.prefix + 1]
        ELSE <<>>]

Begin(content, next, prefix) ==
    /\ fold' = content
    /\ folded' = next
    /\ committed' = prefix
    /\ pc' = "bind"
    /\ UNCHANGED answer

BeginAfresh ==
    /\ pc = "resume"
    /\ ~Resumable
    /\ Begin(EmptyFold, 0, 0)
    /\ UNCHANGED <<rowVars, fileVars, attempt, release, previous, lateVars, result>>

BeginRestored ==
    /\ pc = "resume"
    /\ Resumable
    /\ Restorable(release)
    /\ Begin(Restored(release), saved.next, saved.prefix)
    /\ UNCHANGED <<rowVars, fileVars, attempt, release, previous, lateVars, result>>

RefuseRestore ==
    /\ pc = "resume"
    /\ Resumable
    /\ ~Restorable(release)
    /\ Leave("failed")
    /\ UNCHANGED <<rowVars, fileVars, attempt, release, lateVars, result>>

\* bind_attempt asks only that the row is being processed.
BoundTo(a) == IF status = "processing" THEN a ELSE owner

Bind ==
    /\ pc = "bind"
    /\ status = "processing"
    /\ owner' = BoundTo(attempt)
    /\ pc' = "units"
    /\ UNCHANGED <<status, saved, fileVars, attempt, release, foldVars, previous, answer,
                   lateVars, result>>

-----------------------------------------------------------------------------
(* stage: one unit at a time, and persist when a checkpoint is due.         *)

FoldUnit ==
    /\ pc = "units"
    /\ folded < Count
    /\ fold' = Add(fold, folded)
    /\ folded' = folded + 1
    /\ pc' = IF Due(folded + 1) THEN "generation" ELSE "units"
    /\ UNCHANGED <<rowVars, fileVars, attempt, release, committed, previous, answer,
                   lateVars, result>>

ReadGeneration ==
    /\ pc = "generation"
    /\ previous' = saved.generation
    /\ pc' = "cut"
    /\ UNCHANGED <<rowVars, fileVars, attempt, release, foldVars, answer, lateVars, result>>

\* append_prefix: set_len fills with zeros what the file does not have.
CutPrefix ==
    /\ pc = "cut"
    /\ prefixFile' = [prefixFile EXCEPT ![release] =
                         [i \in 1..committed |-> IF i <= Len(@) THEN @[i] ELSE <<>>]]
    /\ pc' = "append"
    /\ UNCHANGED <<rowVars, tails, attempt, release, foldVars, previous, answer, lateVars, result>>

\* It writes from there, and may be stopped after any number of records.
AppendRecord ==
    /\ pc = "append"
    /\ LET length == Len(prefixFile[release]) IN
         /\ length < settled_frames(folded)
         /\ prefixFile' = [prefixFile EXCEPT ![release] = Append(@, fold[length])]
    /\ UNCHANGED <<rowVars, tails, pc, attempt, release, foldVars, previous, answer,
                   lateVars, result>>

\* write_tail: a rename puts the whole file in place, over one of an attempt
\* that did not commit the same generation.
Snapshot ==
    LET settled == settled_frames(folded)
        reached == reached_frames(folded)
    IN Records(fold, settled, IF reached < settled THEN settled ELSE reached)

WriteTail ==
    /\ pc = "append"
    /\ Len(prefixFile[release]) = settled_frames(folded)
    /\ tails' = [tails EXCEPT ![release] =
                    [g \in DOMAIN @ \union {previous + 1} |->
                        IF g = previous + 1 THEN Snapshot ELSE @[g]]]
    /\ pc' = "commit"
    /\ UNCHANGED <<rowVars, prefixFile, attempt, release, foldVars, previous, answer,
                   lateVars, result>>

Cursor ==
    [computation |-> release, generation |-> previous + 1, next |-> folded,
     prefix |-> settled_frames(folded), tail |-> Snapshot]

\* Mutant: for any attempt while the row is processed.
AcceptsAny(a) == status = "processing"

\* write_checkpoint: only for the attempt that the row is bound to.
Accepts(a) == status = "processing" /\ owner = a

CommitCheckpoint ==
    /\ pc = "commit"
    /\ Accepts(attempt)
    /\ saved' = Cursor
    /\ committed' = settled_frames(folded)
    /\ pc' = "discard"
    /\ UNCHANGED <<status, owner, fileVars, attempt, release, fold, folded, previous,
                   answer, lateVars, result>>

CommitRefused ==
    /\ pc = "commit"
    /\ ~Accepts(attempt)
    /\ Leave("failed")
    /\ UNCHANGED <<rowVars, fileVars, attempt, release, lateVars, result>>

\* Mutant: the generation just committed is discarded.
DiscardCommitted ==
    /\ pc = "discard"
    /\ tails' = [tails EXCEPT ![release] = [g \in DOMAIN @ \ {previous + 1} |-> @[g]]]
    /\ previous' = 0
    /\ pc' = "units"
    /\ UNCHANGED <<rowVars, prefixFile, attempt, release, foldVars, answer, lateVars, result>>

Discard ==
    /\ pc = "discard"
    /\ tails' = [tails EXCEPT ![release] = [g \in DOMAIN @ \ {previous} |-> @[g]]]
    /\ previous' = 0
    /\ pc' = "units"
    /\ UNCHANGED <<rowVars, prefixFile, attempt, release, foldVars, answer, lateVars, result>>

-----------------------------------------------------------------------------
(* finalize, store and close_area.                                          *)

\* Mutant: finalize does not ask whether every unit is folded.
PublishEarly ==
    /\ pc = "units"
    /\ result' = fold
    /\ pc' = "close"
    /\ UNCHANGED <<rowVars, fileVars, attempt, release, foldVars, previous, answer, lateVars>>

Publish ==
    /\ pc = "units"
    /\ folded = Count
    /\ result' = fold
    /\ pc' = "close"
    /\ UNCHANGED <<rowVars, fileVars, attempt, release, foldVars, previous, answer, lateVars>>

\* The step's area is the parent of the directories of its computations.
CloseArea ==
    /\ pc = "close"
    /\ prefixFile' = [k \in Computations |-> <<>>]
    /\ tails' = [k \in Computations |-> [g \in {} |-> <<>>]]
    /\ pc' = "closed"
    /\ UNCHANGED <<rowVars, attempt, release, foldVars, previous, answer, lateVars, result>>

Finish ==
    /\ pc = "closed"
    /\ Leave("done")
    /\ UNCHANGED <<rowVars, fileVars, attempt, release, lateVars, result>>

-----------------------------------------------------------------------------
(* What stops a runner.                                                     *)

Running == {"resume", "bind", "units", "generation", "cut", "append", "commit",
            "discard", "close", "closed"}

\* An error, a lost executor, a pause or the watchdog: whichever write is under
\* way is left behind.  (A publication left behind lands in Publish.)
Drop(status_) ==
    /\ pc \in Running
    /\ Leave(status_)
    /\ lateBinds' = IF pc = "bind" THEN lateBinds \union {attempt} ELSE lateBinds
    /\ lateCommits' = IF pc = "commit"
                        THEN lateCommits \union {[attempt |-> attempt, cursor |-> Cursor]}
                        ELSE lateCommits
    /\ UNCHANGED <<rowVars, fileVars, attempt, release, result>>

LateBind(a) ==
    /\ a \in lateBinds
    /\ lateBinds' = lateBinds \ {a}
    /\ owner' = BoundTo(a)
    /\ UNCHANGED <<status, saved, fileVars, pc, attempt, release, foldVars, previous,
                   answer, lateCommits, result>>

LateCommit(late) ==
    /\ late \in lateCommits
    /\ lateCommits' = lateCommits \ {late}
    /\ saved' = IF Accepts(late.attempt) THEN late.cursor ELSE saved
    /\ UNCHANGED <<status, owner, fileVars, pc, attempt, release, foldVars, previous,
                   answer, lateBinds, result>>

Crash ==
    /\ pc # "down"
    /\ pc' = "down"
    /\ fold' = EmptyFold
    /\ folded' = 0
    /\ committed' = 0
    /\ previous' = 0
    /\ answer' = "none"
    /\ lateBinds' = {}
    /\ lateCommits' = {}
    /\ UNCHANGED <<rowVars, fileVars, attempt, release, result>>

\* abandon_running_steps; the program may have been updated.
Restart ==
    /\ pc = "down"
    /\ status' = IF status = "processing" THEN "pending" ELSE status
    /\ owner' = IF status = "processing" THEN 0 ELSE owner
    /\ release' \in Computations
    /\ pc' = "off"
    /\ UNCHANGED <<saved, fileVars, attempt, foldVars, previous, answer, lateVars, result>>

-----------------------------------------------------------------------------
Queue == Claim \/ Settle \/ Retry
Resume == BeginAfresh \/ BeginRestored \/ RefuseRestore \/ Bind
Persist == ReadGeneration \/ CutPrefix \/ AppendRecord \/ WriteTail
           \/ CommitCheckpoint \/ CommitRefused \/ Discard
End == Publish \/ CloseArea \/ Finish
Late == (\E a \in lateBinds : LateBind(a)) \/ (\E late \in lateCommits : LateCommit(late))

Next ==
    \/ Queue \/ Resume \/ FoldUnit \/ Persist \/ End
    \/ \E status_ \in {"pending", "failed"} : Drop(status_)
    \/ Late \/ Crash \/ Restart

Spec == Init /\ [][Next]_vars

-----------------------------------------------------------------------------
(* Properties.                                                              *)

\* What has been added to the cell c: each of the first n units that cover it,
\* once, in order, and nothing else.
Adds(added, n, c) ==
    /\ \A i, k \in 1..Len(added) : i < k => added[i] < added[k]
    /\ {added[i] : i \in 1..Len(added)} = {u \in Units : u < n /\ Covers(u, c)}

IsFold(content, n) == \A c \in Cells : Adds(content[c], n, c)

\* The runner's fold is that of a run that never stopped, whatever it was
\* restored from: no unit is lost, added twice or out of order.
FoldExact == pc \in Running \ {"resume"} => IsFold(fold, folded)

\* Until a result is stored, the committed cursor has its files: what a crash, a
\* drop, a late write or another attempt leaves behind restores to exactly the
\* units the cursor counts.
CheckpointRestores ==
    saved.generation > 0 /\ result = NoFold =>
        /\ Restorable(saved.computation)
        /\ IsFold(Restored(saved.computation), saved.next)

\* The stems are made from every unit once.
ResultWhole == result # NoFold => IsFold(result, Count)

\* A commit left behind can reach the row only until the row is settled: a later
\* attempt is never bound under it, even by a bind that was left behind too.
LateCommitsFenced ==
    \A late \in lateCommits : Accepts(late.attempt) => pc = "settle"

\* A commit takes the next generation, and goes forward in the same computation.
ProgressKept ==
    [][saved' # saved =>
         /\ saved'.generation = saved.generation + 1
         /\ saved'.computation = saved.computation => saved'.next > saved.next]_vars

\* The checkpoints implement a fold that is durable.
Durable == INSTANCE DurableFold WITH
    computation <- saved.computation, durable <- saved.next, complete <- result # NoFold
DurableSpec == Durable!Spec

\* What `restores_the_committed_generation_when_a_newer_tail_is_uncommitted'
\* (checkpoint/tests.rs) says of a generation the row names: while the step is
\* still to be done, its files are there to restore.
CommittedGenerationRestores ==
    status = "pending" /\ saved.generation > 0 => Restorable(saved.computation)
=============================================================================
