------------------------------ MODULE StageProofs ------------------------------
(***************************************************************************)
(* A stage of the separation.  For any plan, interval, releases and number *)
(* of attempts: a commit that a dropped runner left behind is fenced,      *)
(* checkpoints only go forward, and what they restore is the fold of a run *)
(* that never stopped.  For any number of units, outputs, handlers and     *)
(* broken connections of an attempt: the units are folded in order and     *)
(* once, from whole files, and none whose outputs the page was told are    *)
(* stored is forgotten.                                                    *)
(***************************************************************************)
EXTENDS StageCheckpoint, StageUnits, FiniteSetTheorems, SequenceTheorems, WellFoundedInduction, TLAPS

-----------------------------------------------------------------------------
(* The attempts, and the checkpoints between them.                         *)

\* An attempt leaves one write behind at most, and none while it runs.
Fenced ==
    /\ attempt \in Nat
    /\ lateBinds \subseteq 1..attempt
    /\ \A late \in lateCommits : late.attempt \in (1..attempt) \ lateBinds
    /\ \A late, other \in lateCommits : late.attempt = other.attempt => late = other
    /\ pc \in Running =>
         /\ attempt \in (1..attempt) \ lateBinds
         /\ \A late \in lateCommits : late.attempt # attempt
    /\ LateCommitsFenced

-----------------------------------------------------------------------------
LEMMA FencedInit == Init => Fenced
  BY DEF Init, Fenced, LateCommitsFenced, Running

\* Most steps of a runner change neither the row's status, its owner nor what is
\* left behind, and end at another point of it.
LEMMA FencedInside ==
  ASSUME Fenced, UNCHANGED <<status, owner, attempt, lateVars>>,
         pc' \in Running \union {"off", "down"} => pc' = pc \/ pc \in Running,
         pc = "settle" => pc' = "settle"
  PROVE  Fenced'
  BY DEF Fenced, LateCommitsFenced, Accepts, Running, lateVars

LEMMA FencedStep ==
  ASSUME Fenced, [Next]_vars
  PROVE  Fenced'
<1> USE DEF rowVars, fileVars, foldVars, lateVars
<1>1. CASE Claim
  BY <1>1 DEF Claim, Fenced, LateCommitsFenced, Accepts, Running
<1>2. CASE Settle
  BY <1>2 DEF Settle, Fenced, LateCommitsFenced, Accepts, Running
<1>3. CASE Retry
  BY <1>3 DEF Retry, Fenced, LateCommitsFenced, Accepts, Running
<1>4. CASE BeginAfresh \/ BeginRestored \/ RefuseRestore
  BY <1>4, FencedInside
     DEF BeginAfresh, BeginRestored, RefuseRestore, Begin, Leave, Running
<1>5. CASE Bind
  BY <1>5 DEF Bind, BoundTo, Fenced, LateCommitsFenced, Accepts, Running
<1>6. CASE FoldUnit
  BY <1>6, FencedInside DEF FoldUnit, Running
<1>7. CASE Persist
  BY <1>7, FencedInside
     DEF Persist, ReadGeneration, CutPrefix, AppendRecord, WriteTail, CommitCheckpoint,
         CommitRefused, Discard, Leave, Running
<1>8. CASE End
  BY <1>8, FencedInside DEF End, Publish, CloseArea, Finish, Leave, Running
<1>9. ASSUME NEW status_ \in {"pending", "failed"}, Drop(status_)
      PROVE  Fenced'
  BY <1>9 DEF Drop, Leave, Fenced, LateCommitsFenced, Accepts, Running
<1>10. ASSUME NEW a \in lateBinds, LateBind(a)
       PROVE  Fenced'
  BY <1>10 DEF LateBind, BoundTo, Fenced, LateCommitsFenced, Accepts, Running
<1>11. ASSUME NEW late \in lateCommits, LateCommit(late)
       PROVE  Fenced'
  BY <1>11 DEF LateCommit, Fenced, LateCommitsFenced, Accepts, Running
<1>12. CASE Crash
  BY <1>12 DEF Crash, Fenced, LateCommitsFenced, Accepts, Running
<1>13. CASE Restart
  BY <1>13 DEF Restart, Fenced, LateCommitsFenced, Accepts, Running
<1>14. CASE UNCHANGED vars
  BY <1>14, FencedInside DEF vars
<1> QED
  BY <1>1, <1>2, <1>3, <1>4, <1>5, <1>6, <1>7, <1>8, <1>9, <1>10, <1>11, <1>12, <1>13,
     <1>14 DEF Next, Queue, Resume, Late

-----------------------------------------------------------------------------
(* What the files hold for a cursor.                                        *)

Contents == Seq(Units)

\* The files of a cursor are there to restore.
Kept(cursor, heads, ends) ==
    LET k == cursor.computation IN
    /\ cursor.generation \in DOMAIN ends[k]
    /\ ends[k][cursor.generation] = cursor.tail
    /\ cursor.prefix <= Len(heads[k])
    /\ cursor.prefix + Len(cursor.tail) <= Frames

\* And what they restore is the fold of the units the cursor counts.
Exact(cursor, heads) ==
    \A c \in Cells :
        Adds(IF c < cursor.prefix THEN heads[cursor.computation][c + 1]
             ELSE IF c < cursor.prefix + Len(cursor.tail) THEN cursor.tail[c - cursor.prefix + 1]
             ELSE <<>>, cursor.next, c)

IsCursor(cursor) ==
    /\ cursor.computation \in Computations
    /\ cursor.generation \in Nat \ {0}
    /\ cursor.next \in 1..Count
    /\ cursor.prefix = settled_frames(cursor.next)
    /\ cursor.tail \in Seq(Contents)

\* A cursor that may take the place of the last one.
Ready(cursor, last, heads, ends) ==
    /\ IsCursor(cursor)
    /\ cursor.generation = last.generation + 1
    /\ cursor.computation = last.computation => cursor.next > last.next
    /\ Kept(cursor, heads, ends)
    /\ Exact(cursor, heads)

-----------------------------------------------------------------------------
(* The invariant, by where the runner is.                                   *)

Types ==
    /\ release \in Computations
    /\ fold \in [Cells -> Contents]
    /\ folded \in 0..Count
    /\ prefixFile \in [Computations -> Seq(Contents)]
    /\ tails = [k \in Computations |-> tails[k]]

SavedKept ==
    \/ saved = NoCursor
    \/ /\ IsCursor(saved)
       /\ result = NoFold => Kept(saved, prefixFile, tails)
       /\ Kept(saved, prefixFile, tails) => Exact(saved, prefixFile)

LateReady ==
    \A late \in lateCommits :
        Accepts(late.attempt) => Ready(late.cursor, saved, prefixFile, tails)

Working == pc \in Running \ {"resume"}

\* The fold goes on from the cursor of this release, or from nothing.
Counting ==
    Working =>
        /\ IsFold(fold, folded)
        /\ saved.computation = release =>
             /\ folded >= saved.next
             /\ committed = saved.prefix
             /\ pc # "closed" => Kept(saved, prefixFile, tails)
        /\ saved.computation # release => committed = 0

Persisting ==
    /\ pc \in {"generation", "cut", "append", "commit"} =>
         folded >= 1 /\ (saved.computation = release => folded > saved.next)
    /\ pc \in {"cut", "append", "commit"} => previous = saved.generation
    /\ pc = "append" =>
         LET length == Len(prefixFile[release]) IN
         /\ length \in committed..settled_frames(folded)
         /\ \A c \in 0..(length - 1) : Adds(prefixFile[release][c + 1], folded, c)
    /\ pc = "commit" => Ready(Cursor, saved, prefixFile, tails)
    /\ pc = "discard" =>
         previous + 1 = saved.generation /\ release = saved.computation /\ folded = saved.next

Ending ==
    /\ pc \in {"bind", "units"} /\ folded = Count => saved.next = Count
    /\ pc \in {"close", "closed"} => result # NoFold

Exactness ==
    Types /\ SavedKept /\ LateReady /\ Counting /\ Persisting /\ Ending /\ ResultWhole

IInv == Fenced /\ Exactness

-----------------------------------------------------------------------------
(* The plan.                                                                *)

Less == {pair \in Nat \X Nat : pair[1] < pair[2]}

LEMMA LeastNat ==
  ASSUME NEW S \in SUBSET Nat, S # {}
  PROVE  \E least \in S : \A n \in S : least <= n
<1>1. IsWellFoundedOn(Less, Nat)
  BY NatLessThanWellFounded, Zenon DEF OpToRel, Less
<1>2. PICK least \in S : \A n \in S : <<n, least>> \notin Less
  BY <1>1, WFMin, Zenon
<1>3. ASSUME NEW n \in S PROVE least <= n
  <2>1. <<n, least>> \in Nat \X Nat /\ <<n, least>> \notin Less
    BY <1>2
  <2>2. <<n, least>>[1] = n /\ <<n, least>>[2] = least
    OBVIOUS
  <2>3. ~(n < least)
    BY <2>1, <2>2, Zenon DEF Less
  <2> QED
    BY <2>1, <2>3
<1> QED
  BY <1>3

LEMMA PlanType ==
  /\ Count \in Nat \ {0} /\ Frames \in Nat \ {0} /\ Length \in Nat \ {0}
  /\ \A u \in Units : Start(u) \in Nat /\ Start(u) + Length <= Frames
<1>1. Count \in Nat \ {0}
  BY CheckpointAssumption, EmptySeq, LenProperties DEF CheckpointAssumption, Count
<1>2. ASSUME NEW u \in Units PROVE Start(u) \in 0..(Frames - Length)
  <2>1. u + 1 \in 1..Len(Starts)
    BY <1>1, <1>2 DEF Units, Count
  <2> QED
    BY <2>1, CheckpointAssumption, ElementOfSeq DEF CheckpointAssumption, Start
<1> QED
  BY <1>1, <1>2, CheckpointAssumption DEF CheckpointAssumption

\* No unit from next on covers a cell before the settled ones.
LEMMA Settled ==
  ASSUME NEW next \in 0..Count
  PROVE  /\ settled_frames(next) \in 0..Frames
         /\ \A u \in Units : u >= next => settled_frames(next) <= Start(u)
         /\ \/ settled_frames(next) = Frames
            \/ \E u \in Units : u >= next /\ settled_frames(next) = Start(u)
<1> DEFINE S == {Frames} \union {Start(u) : u \in {v \in Units : v >= next}}
           Fits(n) == /\ \A u \in Units : u >= next => n <= Start(u)
                      /\ n = Frames \/ \E u \in Units : u >= next /\ n = Start(u)
<1>1. S \in SUBSET Nat /\ S # {}
  BY PlanType
<1>2. PICK least \in S : \A n \in S : least <= n
  BY <1>1, LeastNat
<1>3. least \in 0..Frames /\ Fits(least)
  BY <1>1, <1>2, PlanType
<1>4. settled_frames(next) = CHOOSE n \in 0..Frames : Fits(n)
  BY DEF settled_frames
<1> HIDE DEF Fits
<1>5. settled_frames(next) \in 0..Frames /\ Fits(settled_frames(next))
  BY <1>3, <1>4
<1> QED
  BY <1>5 DEF Fits

\* No unit before next covers a cell from the reached ones on.
LEMMA Reached ==
  ASSUME NEW next \in 0..Count
  PROVE  /\ reached_frames(next) \in 0..Frames
         /\ \A u \in Units : u < next => Start(u) + Length <= reached_frames(next)
<1> DEFINE S == {Frames} \union {Frames - (Start(u) + Length) : u \in {v \in Units : v < next}}
           Fits(n) == /\ \A u \in Units : u < next => Start(u) + Length <= n
                      /\ n = 0 \/ \E u \in Units : u < next /\ n = Start(u) + Length
<1>1. S \in SUBSET Nat /\ S # {}
  BY PlanType
<1>2. PICK least \in S : \A n \in S : least <= n
  BY <1>1, LeastNat
<1>3. Frames - least \in 0..Frames /\ Fits(Frames - least)
  BY <1>1, <1>2, PlanType
<1>4. reached_frames(next) = CHOOSE n \in 0..Frames : Fits(n)
  BY DEF reached_frames
<1> HIDE DEF Fits
<1>5. reached_frames(next) \in 0..Frames /\ Fits(reached_frames(next))
  BY <1>3, <1>4
<1> QED
  BY <1>5 DEF Fits

\* Counting on settles no fewer cells.
LEMMA SettledGrows ==
  ASSUME NEW m \in 0..Count, NEW n \in m..Count
  PROVE  settled_frames(m) <= settled_frames(n)
<1>1. /\ settled_frames(m) \in 0..Frames /\ settled_frames(n) \in 0..Frames
      /\ \A u \in Units : u >= m => settled_frames(m) <= Start(u)
      /\ \/ settled_frames(n) = Frames
         \/ \E u \in Units : u >= n /\ settled_frames(n) = Start(u)
  BY Settled, PlanType
<1> QED
  BY <1>1, PlanType DEF Units

-----------------------------------------------------------------------------
(* The fold of one cell.                                                    *)

LEMMA NothingAdded ==
  ASSUME NEW n \in 0..Count, NEW c \in Cells,
         \A u \in Units : u < n => ~Covers(u, c)
  PROVE  Adds(<<>>, n, c)
  BY EmptySeq DEF Adds

\* A settled cell is that of every later fold.
LEMMA SettledAdds ==
  ASSUME NEW m \in 0..Count, NEW n \in m..Count, NEW c \in Cells,
         c < settled_frames(m), NEW more, Adds(more, m, c)
  PROVE  Adds(more, n, c)
<1>1. ASSUME NEW u \in Units, u >= m PROVE ~Covers(u, c)
  BY <1>1, Settled, PlanType DEF Covers, Cells
<1>2. {u \in Units : u < m /\ Covers(u, c)} = {u \in Units : u < n /\ Covers(u, c)}
  BY <1>1, PlanType DEF Units
<1> QED
  BY <1>2 DEF Adds

LEMMA UnitAdds ==
  ASSUME NEW content \in [Cells -> Contents], NEW n \in 0..(Count - 1),
         IsFold(content, n)
  PROVE  Add(content, n) \in [Cells -> Contents] /\ IsFold(Add(content, n), n + 1)
<1>1. n \in Units
  BY PlanType DEF Units
<1>2. Add(content, n) \in [Cells -> Contents]
  BY <1>1, AppendProperties DEF Add, Contents
<1>3. ASSUME NEW c \in Cells PROVE Adds(Add(content, n)[c], n + 1, c)
  <2> DEFINE more == content[c]
  <2>1. more \in Seq(Units) /\ Adds(more, n, c)
    BY DEF Contents, IsFold
  <2>2. CASE ~Covers(n, c)
    <3>1. Add(content, n)[c] = more
      BY <2>2 DEF Add
    <3>2. {u \in Units : u < n /\ Covers(u, c)} = {u \in Units : u < n + 1 /\ Covers(u, c)}
      BY <2>2, PlanType DEF Units
    <3> QED
      BY <2>1, <3>1, <3>2 DEF Adds
  <2>3. CASE Covers(n, c)
    <3> DEFINE all == Append(more, n)
    <3>1. Add(content, n)[c] = all
      BY <2>3 DEF Add
    <3>2. /\ Len(more) \in Nat /\ Len(all) = Len(more) + 1 /\ all[Len(more) + 1] = n
          /\ \A i \in 1..Len(more) : all[i] = more[i]
      BY <1>1, <2>1, AppendProperties
    <3>3. /\ \A i, k \in 1..Len(more) : i < k => more[i] < more[k]
          /\ \A i \in 1..Len(more) : more[i] \in Units /\ more[i] < n /\ Covers(more[i], c)
          /\ \A u \in Units : u < n /\ Covers(u, c) => \E i \in 1..Len(more) : more[i] = u
      BY <2>1 DEF Adds
    <3> HIDE DEF more, all
    <3>4. \A i, k \in 1..Len(all) : i < k => all[i] < all[k]
      BY <3>2, <3>3
    <3>5. \A i \in 1..Len(all) : all[i] \in Units /\ all[i] < n + 1 /\ Covers(all[i], c)
      BY <1>1, <2>3, <3>2, <3>3 DEF Units
    <3>6. ASSUME NEW u \in Units, u < n + 1, Covers(u, c)
          PROVE  \E i \in 1..Len(all) : all[i] = u
      BY <1>1, <3>2, <3>3, <3>6 DEF Units
    <3> QED
      BY <3>1, <3>4, <3>5, <3>6 DEF Adds
  <2> QED
    BY <2>2, <2>3
<1> QED
  BY <1>2, <1>3 DEF IsFold

-----------------------------------------------------------------------------
(* What a cursor restores, and what a checkpoint stores.                    *)

LEMMA EmptyFoldExact == EmptyFold \in [Cells -> Contents] /\ IsFold(EmptyFold, 0)
<1>1. EmptyFold \in [Cells -> Contents]
  BY EmptySeq DEF EmptyFold, Contents
<1>2. ASSUME NEW c \in Cells PROVE Adds(EmptyFold[c], 0, c)
  BY NothingAdded, PlanType DEF EmptyFold, Units
<1> QED
  BY <1>1, <1>2 DEF IsFold

LEMMA RestoredExact ==
  ASSUME Types, IsCursor(saved), saved.computation = release,
         Kept(saved, prefixFile, tails), Exact(saved, prefixFile)
  PROVE  Restored(release) \in [Cells -> Contents] /\ IsFold(Restored(release), saved.next)
<1>1. /\ prefixFile[release] \in Seq(Contents) /\ saved.tail \in Seq(Contents)
      /\ saved.prefix \in 0..Frames /\ saved.prefix <= Len(prefixFile[release])
      /\ <<>> \in Contents
  BY Settled, EmptySeq, PlanType DEF Types, IsCursor, Kept, Contents
<1>2. ASSUME NEW c \in Cells PROVE Restored(release)[c] \in Contents
  <2>1. CASE c < saved.prefix
    BY <1>1, <2>1, ElementOfSeq, LenProperties, PlanType DEF Restored, Cells
  <2>2. CASE ~(c < saved.prefix) /\ c < saved.prefix + Len(saved.tail)
    <3>1. c - saved.prefix + 1 \in 1..Len(saved.tail)
      BY <1>1, <2>2, LenProperties, PlanType DEF Cells
    <3> QED
      BY <1>1, <2>2, <3>1, ElementOfSeq DEF Restored
  <2>3. CASE ~(c < saved.prefix) /\ ~(c < saved.prefix + Len(saved.tail))
    BY <1>1, <2>3 DEF Restored
  <2> QED
    BY <2>1, <2>2, <2>3
<1>3. ASSUME NEW c \in Cells PROVE Adds(Restored(release)[c], saved.next, c)
  BY DEF Exact, Restored
<1> QED
  BY <1>2, <1>3 DEF Restored, IsFold

\* The tail that is written, with the records before it, restores the fold.
LEMMA CheckpointExact ==
  ASSUME Types, folded >= 1, IsFold(fold, folded), previous \in Nat,
         NEW heads \in Seq(Contents), Len(heads) = settled_frames(folded),
         \A c \in 0..(Len(heads) - 1) : Adds(heads[c + 1], folded, c),
         NEW files, files[release] = heads
  PROVE  /\ IsCursor(Cursor) /\ Exact(Cursor, files)
         /\ Cursor.prefix + Len(Cursor.tail) <= Frames
<1> DEFINE settled == settled_frames(folded)
           end == IF reached_frames(folded) < settled THEN settled ELSE reached_frames(folded)
<1>1. /\ settled \in 0..Frames /\ end \in settled..Frames
      /\ \A u \in Units : u < folded => Start(u) + Length <= end
  BY Settled, Reached, PlanType DEF Types, Units
<1>2. Snapshot = Records(fold, settled, end)
  BY DEF Snapshot
<1> HIDE DEF settled, end
<1>3. ASSUME NEW i \in 1..(end - settled)
      PROVE  settled + i - 1 \in Cells /\ Snapshot[i] = fold[settled + i - 1]
  BY <1>1, <1>2, PlanType DEF Records, Cells
<1>4. Snapshot \in Seq(Contents) /\ Len(Snapshot) = end - settled
  <2>1. Snapshot = [i \in 1..(end - settled) |-> fold[settled + i - 1]]
    BY <1>2 DEF Records
  <2>2. \A i \in 1..(end - settled) : fold[settled + i - 1] \in Contents
    BY <1>3 DEF Types
  <2>3. end - settled \in Nat
    BY <1>1, PlanType
  <2> QED
    BY <2>1, <2>2, <2>3
<1>5. /\ Cursor.computation = release /\ Cursor.generation = previous + 1
      /\ Cursor.next = folded /\ Cursor.prefix = settled /\ Cursor.tail = Snapshot
  BY DEF Cursor, settled
<1>6. IsCursor(Cursor)
  BY <1>4, <1>5, PlanType DEF IsCursor, Types, settled
<1>7. ASSUME NEW c \in Cells
      PROVE  Adds(IF c < settled THEN heads[c + 1]
                  ELSE IF c < end THEN Snapshot[c - settled + 1] ELSE <<>>, folded, c)
  <2>1. c \in Nat /\ c < Frames
    BY <1>7, PlanType DEF Cells
  <2>2. CASE c < settled
    BY <1>1, <2>1, <2>2 DEF settled
  <2>3. CASE ~(c < settled) /\ c < end
    <3>1. c - settled + 1 \in 1..(end - settled)
      BY <1>1, <2>1, <2>3, PlanType
    <3>2. Snapshot[c - settled + 1] = fold[c]
      BY <1>1, <1>3, <2>1, <3>1, PlanType
    <3> QED
      BY <2>3, <3>2 DEF IsFold
  <2>4. CASE ~(c < settled) /\ ~(c < end)
    <3>1. \A u \in Units : u < folded => ~Covers(u, c)
      BY <1>1, <2>1, <2>4, PlanType DEF Covers
    <3>2. Adds(<<>>, folded, c)
      BY <3>1, NothingAdded DEF Types
    <3> QED
      BY <2>4, <3>2
  <2> QED
    BY <2>2, <2>3, <2>4
<1>8. Exact(Cursor, files)
  <2>1. settled + Len(Snapshot) = end
    BY <1>1, <1>4, PlanType
  <2> QED
    BY <1>5, <1>7, <2>1 DEF Exact
<1> QED
  BY <1>1, <1>4, <1>5, <1>6, <1>8, PlanType

-----------------------------------------------------------------------------
(* The steps.                                                               *)

LEMMA CursorSaved == IsCursor(saved) => saved # NoCursor /\ saved.generation \in Nat \ {0}
  BY DEF IsCursor, NoCursor

LEMMA SavedPlain ==
  ASSUME SavedKept
  PROVE  /\ saved.generation \in Nat /\ saved.next \in 0..Count
         /\ saved.generation = 0 <=> saved = NoCursor
         /\ saved = NoCursor <=> saved.computation \notin Computations
  BY CheckpointAssumption, PlanType DEF CheckpointAssumption, SavedKept, IsCursor, NoCursor

LEMMA RestorableKept ==
  saved.computation = release => (Restorable(release) <=> Kept(saved, prefixFile, tails))
  BY DEF Restorable, Kept

LEMMA ExactInit == Init => Exactness
<1> SUFFICES ASSUME Init PROVE Exactness
  OBVIOUS
<1>1. Types
  BY EmptyFoldExact, EmptySeq, PlanType DEF Init, Types
<1> QED
  BY <1>1 DEF Init, Exactness, SavedKept, LateReady, Counting, Working, Running, Persisting,
              Ending, ResultWhole

\* Nothing a commit left behind could do once the row is settled.
LEMMA LateElsewhere == Fenced' /\ pc' # "settle" => LateReady'
  BY DEF Fenced, LateCommitsFenced, LateReady

\* No runner holds anything.
LEMMA Resting ==
  ASSUME Exactness, Types', ~Working', LateReady',
         UNCHANGED <<saved, fileVars, result>>
  PROVE  Exactness'
<1>1. SavedKept' /\ ResultWhole'
  BY DEF Exactness, SavedKept, ResultWhole, fileVars
<1>2. pc' \notin {"bind", "units", "generation", "cut", "append", "commit", "discard",
                 "close", "closed"}
  BY DEF Working, Running
<1>3. Counting' /\ Persisting' /\ Ending'
  BY <1>2 DEF Counting, Persisting, Ending, Working
<1> QED
  BY <1>1, <1>3 DEF Exactness

LEMMA QueueExact ==
  ASSUME IInv, Fenced', Claim \/ Settle \/ Crash \/ Restart
  PROVE  Exactness'
<1> USE DEF rowVars, fileVars, foldVars, lateVars
<1>1. ~Working' /\ UNCHANGED <<saved, fileVars, result>> /\ pc' # "settle"
  BY DEF Claim, Settle, Crash, Restart, Working, Running
<1>2. Types'
  <2>1. CASE Crash
    BY <2>1, EmptyFoldExact, PlanType DEF IInv, Exactness, Types, Crash
  <2>2. CASE Claim \/ Settle \/ Restart
    BY <2>2 DEF IInv, Exactness, Types, Claim, Settle, Restart
  <2> QED
    BY <2>1, <2>2
<1> QED
  BY <1>1, <1>2, Resting, LateElsewhere DEF IInv

\* The row's status and owner are not part of it.
LEMMA RowExact ==
  ASSUME Exactness, LateReady',
         UNCHANGED <<saved, fileVars, pc, release, foldVars, previous, result>>
  PROVE  Exactness'
<1> USE DEF fileVars, foldVars
<1>1. Types' /\ SavedKept' /\ Counting' /\ Ending' /\ ResultWhole'
  BY DEF Exactness, Types, SavedKept, Counting, Working, Ending, ResultWhole
<1>2. Cursor' = Cursor
  BY DEF Cursor, Snapshot
<1>3. Persisting'
  BY <1>2 DEF Exactness, Persisting
<1> QED
  BY <1>1, <1>3 DEF Exactness

LEMMA LeaveExact ==
  ASSUME IInv, Fenced', LateReady', NEW status_, Leave(status_),
         UNCHANGED <<saved, fileVars, release, result>>
  PROVE  Exactness'
<1>1. Types'
  BY EmptyFoldExact, PlanType DEF IInv, Exactness, Types, Leave, fileVars
<1>2. ~Working'
  BY DEF Leave, Working, Running
<1> QED
  BY <1>1, <1>2, Resting DEF IInv

LEMMA RefusalExact ==
  ASSUME IInv, Fenced', RefuseRestore \/ CommitRefused \/ Finish
  PROVE  Exactness'
<1> USE DEF rowVars, fileVars, lateVars
<1>1. PICK status_ : Leave(status_)
  BY DEF RefuseRestore, CommitRefused, Finish
<1>2. /\ UNCHANGED <<saved, fileVars, release, result, status, owner, lateCommits>>
      /\ pc \in Running /\ pc # "settle"
  BY DEF RefuseRestore, CommitRefused, Finish, Running
<1>3. LateReady'
  BY <1>2 DEF IInv, Fenced, LateCommitsFenced, LateReady, Accepts
<1> QED
  BY <1>1, <1>2, <1>3, LeaveExact

LEMMA DropExact ==
  ASSUME IInv, Fenced', NEW status_, Drop(status_)
  PROVE  Exactness'
<1> USE DEF rowVars, fileVars, lateVars
<1>1. /\ Leave(status_) /\ pc \in Running
      /\ UNCHANGED <<saved, fileVars, release, result, status, owner>>
  BY DEF Drop
<1>2. ASSUME NEW late \in lateCommits', Accepts(late.attempt)'
      PROVE  Ready(late.cursor, saved, prefixFile, tails)
  <2>1. Accepts(late.attempt) /\ pc # "settle"
    BY <1>1, <1>2 DEF Accepts, Running
  <2>2. late \notin lateCommits
    BY <2>1 DEF IInv, Fenced, LateCommitsFenced
  <2>3. pc = "commit" /\ late = [attempt |-> attempt, cursor |-> Cursor]
    BY <1>2, <2>2 DEF Drop
  <2> QED
    BY <2>3 DEF IInv, Exactness, Persisting
<1>3. LateReady'
  BY <1>1, <1>2 DEF LateReady
<1> QED
  BY <1>1, <1>3, LeaveExact

\* A commit that was left behind puts its cursor in place while its files are.
LEMMA LateCommitExact ==
  ASSUME IInv, Fenced', NEW late \in lateCommits, LateCommit(late)
  PROVE  Exactness'
<1> USE DEF fileVars, foldVars
<1>1. CASE ~Accepts(late.attempt)
  <2>1. LateReady' /\ saved' = saved
    BY <1>1 DEF IInv, Exactness, LateReady, LateCommit, Accepts
  <2> QED
    BY <2>1, RowExact DEF IInv, LateCommit
<1>2. CASE Accepts(late.attempt)
  <2>1. /\ pc' = "settle" /\ saved' = late.cursor
        /\ Ready(late.cursor, saved, prefixFile, tails)
    BY <1>2 DEF IInv, Fenced, LateCommitsFenced, Exactness, LateReady, LateCommit
  <2>2. \A other \in lateCommits' : ~Accepts(other.attempt)'
    BY <1>2 DEF IInv, Fenced, LateCommit, Accepts
  <2>3. Types' /\ ResultWhole' /\ LateReady'
    BY <2>2 DEF IInv, Exactness, Types, ResultWhole, LateReady, LateCommit
  <2>4. SavedKept'
    BY <2>1 DEF Ready, SavedKept, LateCommit
  <2>5. Counting' /\ Persisting' /\ Ending'
    BY <2>1 DEF Counting, Working, Running, Persisting, Ending
  <2> QED
    BY <2>3, <2>4, <2>5 DEF Exactness
<1> QED
  BY <1>1, <1>2

LEMMA BeginExact ==
  ASSUME IInv, Fenced', BeginAfresh \/ BeginRestored
  PROVE  Exactness'
<1> USE DEF rowVars, fileVars
<1>1. /\ pc' = "bind" /\ folded' \in 0..Count /\ fold' \in [Cells -> Contents]
      /\ IsFold(fold', folded')
      /\ folded' = Count => saved.next = Count
      /\ saved.computation = release =>
           folded' = saved.next /\ committed' = saved.prefix /\ Kept(saved, prefixFile, tails)
      /\ saved.computation # release => committed' = 0
  <2>1. CASE BeginAfresh
    <3>1. saved.computation # release
      BY <2>1, SavedPlain DEF IInv, Exactness, Types, BeginAfresh, Resumable
    <3> QED
      BY <2>1, <3>1, EmptyFoldExact, PlanType DEF BeginAfresh, Begin
  <2>2. CASE BeginRestored
    <3>1. /\ saved.computation = release /\ saved.generation > 0
          /\ Kept(saved, prefixFile, tails)
      BY <2>2, RestorableKept DEF BeginRestored, Resumable
    <3>2. IsCursor(saved) /\ Exact(saved, prefixFile)
      BY <3>1, SavedPlain DEF IInv, Exactness, SavedKept
    <3>3. Restored(release) \in [Cells -> Contents] /\ IsFold(Restored(release), saved.next)
      BY <3>1, <3>2, RestoredExact DEF IInv, Exactness
    <3> QED
      BY <2>2, <3>1, <3>3, SavedPlain DEF IInv, Exactness, BeginRestored, Begin
  <2> QED
    BY <2>1, <2>2
<1>2. UNCHANGED <<saved, fileVars, release, result>>
  BY DEF BeginAfresh, BeginRestored
<1>3. Types' /\ SavedKept' /\ ResultWhole'
  BY <1>1, <1>2 DEF IInv, Exactness, Types, SavedKept, ResultWhole
<1>4. Counting'
  <2>1. saved.computation = release => folded' >= saved.next
    BY <1>1, SavedPlain, PlanType DEF IInv, Exactness
  <2> QED
    BY <1>1, <1>2, <2>1 DEF Counting
<1>5. Persisting' /\ Ending'
  BY <1>1, <1>2 DEF Persisting, Ending
<1> QED
  BY <1>1, <1>3, <1>4, <1>5, LateElsewhere DEF Exactness

LEMMA BindExact ==
  ASSUME IInv, Fenced', Bind
  PROVE  Exactness'
<1> USE DEF fileVars, foldVars
<1>1. Types' /\ SavedKept' /\ ResultWhole'
  BY DEF IInv, Exactness, Types, SavedKept, ResultWhole, Bind
<1>2. Counting' /\ Persisting' /\ Ending'
  BY DEF IInv, Exactness, Bind, Counting, Working, Running, Persisting, Ending
<1> QED
  BY <1>1, <1>2, LateElsewhere DEF Exactness, Bind

LEMMA FoldUnitExact ==
  ASSUME IInv, Fenced', FoldUnit
  PROVE  Exactness'
<1> USE DEF rowVars, fileVars
<1>1. /\ UNCHANGED <<saved, fileVars, release, committed, result>>
      /\ fold' = Add(fold, folded) /\ folded' = folded + 1 /\ folded \in 0..(Count - 1)
      /\ pc = "units" /\ pc' \in {"units", "generation"}
      /\ pc' = "units" => folded' # Count
  BY PlanType DEF IInv, Exactness, Types, FoldUnit, Due
<1>2. /\ IsFold(fold, folded)
      /\ saved.computation = release =>
           /\ folded >= saved.next /\ committed = saved.prefix
           /\ Kept(saved, prefixFile, tails)
      /\ saved.computation # release => committed = 0
  BY <1>1 DEF IInv, Exactness, Counting, Working, Running
<1>3. fold' \in [Cells -> Contents] /\ IsFold(fold', folded')
  BY <1>1, <1>2, UnitAdds DEF IInv, Exactness, Types
<1>4. Types' /\ SavedKept' /\ ResultWhole'
  BY <1>1, <1>3, PlanType DEF IInv, Exactness, Types, SavedKept, ResultWhole
<1>5. saved.computation = release => folded' > saved.next
  BY <1>1, <1>2, SavedPlain, PlanType DEF IInv, Exactness
<1>6. Counting'
  BY <1>1, <1>2, <1>3, <1>5, SavedPlain, PlanType DEF IInv, Exactness, Counting
<1>7. Persisting' /\ Ending'
  BY <1>1, <1>5, PlanType DEF Persisting, Ending
<1> QED
  BY <1>1, <1>4, <1>6, <1>7, LateElsewhere DEF Exactness

LEMMA ReadGenerationExact ==
  ASSUME IInv, Fenced', ReadGeneration
  PROVE  Exactness'
<1> USE DEF rowVars, fileVars, foldVars
<1>1. Types' /\ SavedKept' /\ ResultWhole'
  BY DEF IInv, Exactness, Types, SavedKept, ResultWhole, ReadGeneration
<1>2. Counting' /\ Persisting' /\ Ending'
  BY DEF IInv, Exactness, ReadGeneration, Counting, Working, Running, Persisting, Ending
<1> QED
  BY <1>1, <1>2, LateElsewhere DEF Exactness, ReadGeneration

\* What the runner knows before it writes.
LEMMA AtPersist ==
  ASSUME IInv, pc \in {"cut", "append"}
  PROVE  /\ IsFold(fold, folded) /\ folded \in 1..Count /\ previous = saved.generation
         /\ prefixFile[release] \in Seq(Contents) /\ Len(prefixFile[release]) \in Nat
         /\ settled_frames(folded) \in 0..Frames /\ committed \in 0..settled_frames(folded)
         /\ saved.computation = release =>
              /\ IsCursor(saved) /\ folded > saved.next /\ committed = saved.prefix
              /\ Kept(saved, prefixFile, tails) /\ Exact(saved, prefixFile)
         /\ saved.computation # release => committed = 0
<1>1. /\ IsFold(fold, folded) /\ folded \in 1..Count /\ previous = saved.generation
      /\ prefixFile[release] \in Seq(Contents) /\ release \in Computations
  BY PlanType DEF IInv, Exactness, Types, Counting, Working, Running, Persisting
<1>2. Len(prefixFile[release]) \in Nat
  BY <1>1, LenProperties
<1>3. ASSUME saved.computation = release
      PROVE  /\ IsCursor(saved) /\ folded > saved.next /\ committed = saved.prefix
             /\ Kept(saved, prefixFile, tails) /\ Exact(saved, prefixFile)
  BY <1>1, <1>3, SavedPlain
     DEF IInv, Exactness, SavedKept, Counting, Working, Running, Persisting
<1>4. saved.computation # release => committed = 0
  BY DEF IInv, Exactness, Counting, Working, Running
<1>5. settled_frames(folded) \in 0..Frames
  BY <1>1, Settled, PlanType
<1>6. committed \in 0..settled_frames(folded)
  <2>1. CASE saved.computation = release
    <3>1. saved.next \in 0..Count /\ folded \in saved.next..Count
      BY <1>1, <1>3, <2>1, PlanType DEF IsCursor
    <3>2. settled_frames(saved.next) <= settled_frames(folded)
      BY <3>1, SettledGrows
    <3> QED
      BY <1>3, <1>5, <2>1, <3>1, <3>2, Settled, PlanType DEF IsCursor
  <2> QED
    BY <1>4, <1>5, <2>1, PlanType
<1> QED
  BY <1>1, <1>2, <1>3, <1>4, <1>5, <1>6

\* The records that stay, those of the cursor, are those of every later fold.
LEMMA CutPrefixExact ==
  ASSUME IInv, Fenced', CutPrefix
  PROVE  Exactness'
<1> DEFINE heads == prefixFile[release]
           kept == [i \in 1..committed |-> IF i <= Len(heads) THEN heads[i] ELSE <<>>]
<1> USE DEF rowVars, foldVars
<1>1. /\ UNCHANGED <<rowVars, tails, release, foldVars, previous, result>>
      /\ pc = "cut" /\ pc' = "append" /\ prefixFile' = [prefixFile EXCEPT ![release] = kept]
  BY DEF CutPrefix
<1>2. /\ IsFold(fold, folded) /\ folded \in 1..Count /\ previous = saved.generation
      /\ heads \in Seq(Contents) /\ Len(heads) \in Nat
      /\ settled_frames(folded) \in 0..Frames /\ committed \in 0..settled_frames(folded)
      /\ saved.computation = release =>
           /\ IsCursor(saved) /\ folded > saved.next /\ committed = saved.prefix
           /\ Kept(saved, prefixFile, tails) /\ Exact(saved, prefixFile)
      /\ saved.computation # release => committed = 0
  BY <1>1, AtPersist
<1>3. kept \in Seq(Contents) /\ Len(kept) = committed
  <2>1. \A i \in 1..committed : (IF i <= Len(heads) THEN heads[i] ELSE <<>>) \in Contents
    BY <1>2, ElementOfSeq, EmptySeq, PlanType DEF Contents
  <2> QED
    BY <1>2, <2>1, PlanType
<1>4. saved.computation = release =>
        committed <= Len(heads) /\ \A i \in 1..committed : kept[i] = heads[i]
  BY <1>2, PlanType DEF Kept
<1>5. ASSUME NEW c \in 0..(committed - 1) PROVE Adds(kept[c + 1], folded, c)
  <2>1. saved.computation = release /\ c \in Cells /\ c + 1 \in 1..committed
    BY <1>2, PlanType DEF Cells
  <2>2. kept[c + 1] = heads[c + 1] /\ c < saved.prefix
    BY <1>2, <1>4, <2>1, PlanType
  <2>3. Adds(heads[c + 1], saved.next, c)
    BY <1>2, <2>1, <2>2 DEF Exact
  <2> QED
    BY <1>2, <2>1, <2>2, <2>3, SettledAdds, PlanType DEF IsCursor
<1> HIDE DEF heads, kept
<1>6. /\ release \in Computations /\ prefixFile' \in [Computations -> Seq(Contents)]
      /\ prefixFile'[release] = kept
      /\ \A k \in Computations : k # release => prefixFile'[k] = prefixFile[k]
  BY <1>1, <1>3 DEF IInv, Exactness, Types
<1>7. IsCursor(saved) =>
        /\ result = NoFold => Kept(saved, prefixFile', tails)
        /\ Kept(saved, prefixFile', tails) => Exact(saved, prefixFile')
  <2>1. CASE saved.computation = release
    <3>1. Kept(saved, prefixFile', tails)
      BY <1>2, <1>3, <1>6, <2>1, PlanType DEF Kept
    <3>2. Exact(saved, prefixFile')
      <4>1. ASSUME NEW c \in Cells, c < saved.prefix
            PROVE  prefixFile'[release][c + 1] = prefixFile[release][c + 1]
        BY <1>2, <1>4, <1>6, <2>1, <4>1, PlanType DEF Cells, heads
      <4> QED
        BY <1>2, <2>1, <4>1 DEF Exact
    <3> QED
      BY <1>2, <2>1, <3>1, <3>2
  <2>2. CASE saved.computation # release
    BY <1>6, <2>2, CursorSaved DEF IInv, Exactness, SavedKept, IsCursor, Kept, Exact
  <2> QED
    BY <2>1, <2>2
<1>8. Types' /\ SavedKept' /\ ResultWhole'
  <2>1. IsCursor(saved) \/ saved = NoCursor
    BY DEF IInv, Exactness, SavedKept
  <2> QED
    BY <1>1, <1>6, <1>7, <2>1 DEF IInv, Exactness, Types, SavedKept, ResultWhole
<1>9. Counting'
  <2>1. saved.computation = release => Kept(saved, prefixFile', tails)
    BY <1>2, <1>3, <1>6, PlanType DEF Kept
  <2>2. saved.computation = release => folded >= saved.next
    BY <1>2, PlanType DEF IsCursor
  <2> QED
    BY <1>1, <1>2, <2>1, <2>2 DEF Counting
<1>10. Persisting' /\ Ending'
  <2>1. folded >= 1
    BY <1>2, PlanType
  <2>2. committed \in committed..settled_frames(folded)
    BY <1>2, PlanType
  <2>3. settled_frames(folded)' = settled_frames(folded)
    BY <1>1
  <2> QED
    BY <1>1, <1>2, <1>3, <1>5, <1>6, <2>1, <2>2, <2>3 DEF Persisting, Ending
<1> QED
  BY <1>1, <1>8, <1>9, <1>10, LateElsewhere DEF Exactness

\* A record is put behind those that are there, those of the cursor among them.
LEMMA AppendRecordExact ==
  ASSUME IInv, Fenced', AppendRecord
  PROVE  Exactness'
<1> DEFINE heads == prefixFile[release]
           longer == Append(heads, fold[Len(heads)])
<1> USE DEF rowVars, foldVars
<1>1. /\ UNCHANGED <<rowVars, tails, pc, release, foldVars, previous, result>>
      /\ pc = "append" /\ Len(heads) < settled_frames(folded)
      /\ prefixFile' = [prefixFile EXCEPT ![release] = longer]
  BY DEF AppendRecord
<1>2. /\ IsFold(fold, folded) /\ folded \in 1..Count /\ previous = saved.generation
      /\ heads \in Seq(Contents) /\ Len(heads) \in Nat
      /\ settled_frames(folded) \in 0..Frames /\ committed \in 0..settled_frames(folded)
      /\ saved.computation = release =>
           /\ IsCursor(saved) /\ folded > saved.next /\ committed = saved.prefix
           /\ Kept(saved, prefixFile, tails) /\ Exact(saved, prefixFile)
      /\ saved.computation # release => committed = 0
  BY <1>1, AtPersist
<1>3. /\ Len(heads) \in committed..settled_frames(folded)
      /\ \A c \in 0..(Len(heads) - 1) : Adds(heads[c + 1], folded, c)
  BY <1>1 DEF IInv, Exactness, Persisting
<1>4. Len(heads) \in Cells
  BY <1>1, <1>2, PlanType DEF Cells
<1>5. /\ longer \in Seq(Contents) /\ Len(longer) = Len(heads) + 1
      /\ longer[Len(heads) + 1] = fold[Len(heads)]
      /\ \A i \in 1..Len(heads) : longer[i] = heads[i]
  BY <1>2, <1>4, AppendProperties DEF IInv, Exactness, Types
<1>6. Adds(fold[Len(heads)], folded, Len(heads))
  BY <1>2, <1>4 DEF IsFold
<1> HIDE DEF heads, longer
<1>7. ASSUME NEW c \in 0..(Len(longer) - 1) PROVE Adds(longer[c + 1], folded, c)
  <2>1. CASE c = Len(heads)
    BY <1>5, <1>6, <2>1
  <2>2. CASE c # Len(heads)
    <3>1. c \in 0..(Len(heads) - 1) /\ c + 1 \in 1..Len(heads)
      BY <1>2, <1>5, <2>2
    <3> QED
      BY <1>3, <1>5, <3>1
  <2> QED
    BY <2>1, <2>2
<1>8. /\ release \in Computations /\ prefixFile' \in [Computations -> Seq(Contents)]
      /\ prefixFile'[release] = longer
      /\ \A k \in Computations : k # release => prefixFile'[k] = prefixFile[k]
  BY <1>1, <1>5 DEF IInv, Exactness, Types
<1>9. saved.computation = release =>
        Kept(saved, prefixFile', tails) /\ Exact(saved, prefixFile')
  <2> SUFFICES ASSUME saved.computation = release
               PROVE  Kept(saved, prefixFile', tails) /\ Exact(saved, prefixFile')
    OBVIOUS
  <2>1. saved.prefix \in Nat /\ saved.prefix <= Len(heads)
    BY <1>2, <1>3
  <2>2. Kept(saved, prefixFile', tails)
    BY <1>2, <1>5, <1>8, <2>1 DEF Kept
  <2>3. ASSUME NEW c \in Cells, c < saved.prefix
        PROVE  prefixFile'[release][c + 1] = prefixFile[release][c + 1]
    BY <1>2, <1>5, <1>8, <2>1, <2>3, PlanType DEF Cells, heads
  <2> QED
    BY <1>2, <2>2, <2>3 DEF Exact
<1>10. IsCursor(saved) /\ saved.computation # release =>
         /\ Kept(saved, prefixFile', tails) <=> Kept(saved, prefixFile, tails)
         /\ Exact(saved, prefixFile') <=> Exact(saved, prefixFile)
  BY <1>8 DEF IsCursor, Kept, Exact
<1>11. Types' /\ SavedKept' /\ ResultWhole'
  BY <1>1, <1>8, <1>9, <1>10, SavedPlain DEF IInv, Exactness, Types, SavedKept, ResultWhole
<1>12. Counting'
  BY <1>1, <1>9 DEF IInv, Exactness, Counting, Working
<1>13. Persisting' /\ Ending'
  <2>1. Len(longer) \in committed..settled_frames(folded)
    BY <1>1, <1>2, <1>3, <1>5, PlanType
  <2>2. settled_frames(folded)' = settled_frames(folded)
    BY <1>1
  <2>3. folded >= 1 /\ (saved.computation = release => folded > saved.next)
    BY <1>2, PlanType
  <2> QED
    BY <1>1, <1>2, <1>7, <1>8, <2>1, <2>2, <2>3 DEF Persisting, Ending
<1> QED
  BY <1>1, <1>11, <1>12, <1>13, LateElsewhere DEF Exactness

\* The new tail is a file of its own, so the cursor keeps both of its own.
LEMMA WriteTailExact ==
  ASSUME IInv, Fenced', WriteTail
  PROVE  Exactness'
<1> USE DEF rowVars, foldVars
<1>1. /\ UNCHANGED <<rowVars, prefixFile, release, foldVars, previous, result>>
      /\ pc = "append" /\ pc' = "commit"
      /\ Len(prefixFile[release]) = settled_frames(folded)
  BY DEF WriteTail
<1>2. /\ IsFold(fold, folded) /\ folded \in 1..Count /\ previous = saved.generation
      /\ prefixFile[release] \in Seq(Contents)
      /\ saved.computation = release =>
           folded > saved.next /\ committed = saved.prefix /\ Kept(saved, prefixFile, tails)
      /\ saved.computation # release => committed = 0
  BY <1>1, AtPersist
<1>3. \A c \in 0..(Len(prefixFile[release]) - 1) : Adds(prefixFile[release][c + 1], folded, c)
  BY <1>1 DEF IInv, Exactness, Persisting
<1>4. saved.generation \in Nat /\ release \in Computations
  BY SavedPlain DEF IInv, Exactness, Types
<1>5. /\ IsCursor(Cursor) /\ Exact(Cursor, prefixFile)
      /\ Cursor.prefix + Len(Cursor.tail) <= Frames
  BY <1>1, <1>2, <1>3, <1>4, CheckpointExact, PlanType DEF IInv, Exactness
<1>6. /\ tails' = [k \in Computations |-> tails'[k]]
      /\ \A k \in Computations : k # release => tails'[k] = tails[k]
      /\ tails'[release] = [g \in DOMAIN tails[release] \union {previous + 1} |->
                              IF g = previous + 1 THEN Snapshot ELSE tails[release][g]]
  BY <1>4 DEF IInv, Exactness, Types, WriteTail
<1>7. Kept(Cursor, prefixFile, tails')
  BY <1>1, <1>5, <1>6 DEF Kept, Cursor
<1>8. Kept(saved, prefixFile, tails) /\ IsCursor(saved) => Kept(saved, prefixFile, tails')
  <2>1. saved.generation # previous + 1
    BY <1>2, <1>4
  <2> QED
    BY <1>6, <2>1 DEF Kept, IsCursor
<1>9. Kept(saved, prefixFile, tails') /\ IsCursor(saved) => Kept(saved, prefixFile, tails)
  <2>1. saved.generation # previous + 1
    BY <1>2, <1>4
  <2> QED
    BY <1>6, <2>1 DEF Kept, IsCursor
<1>10. Types' /\ SavedKept' /\ ResultWhole'
  BY <1>1, <1>6, <1>8, <1>9 DEF IInv, Exactness, Types, SavedKept, ResultWhole
<1>11. Counting'
  <2>1. saved.computation = release => IsCursor(saved)
    BY <1>4, SavedPlain DEF IInv, Exactness, SavedKept
  <2>2. saved.computation = release => folded >= saved.next
    BY <1>2, <2>1, PlanType DEF IsCursor
  <2> QED
    BY <1>1, <1>2, <1>8, <2>1, <2>2 DEF Counting
<1>12. Ready(Cursor, saved, prefixFile, tails')
  BY <1>2, <1>5, <1>7 DEF Ready, Cursor
<1>13. Cursor' = Cursor
  BY <1>1 DEF Cursor, Snapshot
<1>14. Persisting' /\ Ending'
  <2>1. folded >= 1
    BY <1>2, PlanType
  <2> QED
    BY <1>1, <1>2, <1>12, <1>13, <2>1 DEF Persisting, Ending
<1> QED
  BY <1>1, <1>10, <1>11, <1>14, LateElsewhere DEF Exactness

LEMMA CommitExact ==
  ASSUME IInv, Fenced', CommitCheckpoint
  PROVE  Exactness'
<1> USE DEF fileVars
<1>1. /\ UNCHANGED <<fileVars, release, fold, folded, previous, result>>
      /\ pc = "commit" /\ pc' = "discard"
      /\ saved' = Cursor /\ committed' = settled_frames(folded)
  BY DEF CommitCheckpoint
<1>2. /\ Ready(Cursor, saved, prefixFile, tails) /\ previous = saved.generation
      /\ IsFold(fold, folded) /\ folded \in 0..Count
  BY <1>1 DEF IInv, Exactness, Types, Counting, Working, Running, Persisting
<1>3. /\ Cursor.computation = release /\ Cursor.next = folded
      /\ Cursor.generation = previous + 1 /\ Cursor.prefix = settled_frames(folded)
  BY DEF Cursor
<1>4. Types' /\ SavedKept' /\ ResultWhole'
  BY <1>1, <1>2 DEF IInv, Exactness, Types, Ready, SavedKept, ResultWhole
<1>5. Counting'
  <2>1. folded >= folded
    BY <1>2, PlanType
  <2> QED
    BY <1>1, <1>2, <1>3, <2>1 DEF Counting, Ready
<1>6. Persisting' /\ Ending'
  BY <1>1, <1>3 DEF Persisting, Ending
<1> QED
  BY <1>1, <1>4, <1>5, <1>6, LateElsewhere DEF Exactness

\* Only the tail of the generation before goes.
LEMMA DiscardExact ==
  ASSUME IInv, Fenced', Discard
  PROVE  Exactness'
<1> USE DEF rowVars, foldVars
<1>1. /\ UNCHANGED <<saved, prefixFile, release, foldVars, result>>
      /\ pc = "discard" /\ pc' = "units"
      /\ tails' = [tails EXCEPT ![release] = [g \in DOMAIN @ \ {previous} |-> @[g]]]
  BY DEF Discard
<1>2. /\ previous + 1 = saved.generation /\ release = saved.computation
      /\ folded = saved.next /\ committed = saved.prefix /\ IsFold(fold, folded)
      /\ Kept(saved, prefixFile, tails) /\ folded >= saved.next
  BY <1>1 DEF IInv, Exactness, Counting, Working, Running, Persisting
<1>3. /\ release \in Computations /\ saved.generation \in Nat
      /\ IsCursor(saved) /\ Exact(saved, prefixFile)
  BY <1>2, SavedPlain DEF IInv, Exactness, Types, SavedKept
<1>4. /\ tails' = [k \in Computations |-> tails'[k]]
      /\ tails'[release] = [g \in DOMAIN tails[release] \ {previous} |-> tails[release][g]]
  BY <1>1, <1>3 DEF IInv, Exactness, Types
<1>5. Kept(saved, prefixFile, tails')
  <2>1. saved.generation # previous
    BY <1>2, <1>3
  <2> QED
    BY <1>2, <1>4, <2>1 DEF Kept
<1>6. Types' /\ SavedKept' /\ ResultWhole'
  BY <1>1, <1>3, <1>4, <1>5 DEF IInv, Exactness, Types, SavedKept, ResultWhole
<1>7. Counting' /\ Persisting' /\ Ending'
  BY <1>1, <1>2, <1>5 DEF Counting, Persisting, Ending
<1> QED
  BY <1>1, <1>6, <1>7, LateElsewhere DEF Exactness

\* A whole fold is not what stands for none.
LEMMA FoldSome ==
  ASSUME NEW content, IsFold(content, Count)
  PROVE  content # NoFold
<1>1. 0 \in Cells /\ Adds(content[0], Count, 0)
  BY PlanType DEF Cells, IsFold
<1>2. SUFFICES ASSUME content[0] = <<-1>> PROVE FALSE
  BY <1>1 DEF NoFold
<1>3. 1 \in 1..Len(content[0]) /\ content[0][1] = -1
  BY <1>2
<1>4. -1 \in Units
  BY <1>1, <1>3 DEF Adds
<1> QED
  BY <1>4 DEF Units

LEMMA EndExact ==
  ASSUME IInv, Fenced', Publish \/ CloseArea
  PROVE  Exactness'
<1> USE DEF rowVars, fileVars, foldVars
<1>1. CASE Publish
  <2>1. IsFold(fold, Count) /\ fold # NoFold
    BY <1>1, FoldSome DEF IInv, Exactness, Counting, Working, Running, Publish
  <2>2. Types' /\ SavedKept' /\ ResultWhole'
    BY <1>1, <2>1 DEF IInv, Exactness, Types, SavedKept, ResultWhole, Publish
  <2>3. Counting' /\ Persisting' /\ Ending'
    BY <1>1, <2>1
       DEF IInv, Exactness, Counting, Working, Running, Persisting, Ending, Publish
  <2> QED
    BY <1>1, <2>2, <2>3, LateElsewhere DEF Exactness, Publish
<1>2. CASE CloseArea
  <2>1. /\ UNCHANGED <<saved, release, foldVars, result>> /\ pc = "close" /\ pc' = "closed"
        /\ prefixFile' = [k \in Computations |-> <<>>]
        /\ tails' = [k \in Computations |-> [g \in {} |-> <<>>]]
        /\ result # NoFold
    BY <1>2 DEF IInv, Exactness, Ending, CloseArea
  <2>2. IsCursor(saved) => ~Kept(saved, prefixFile', tails')
    BY <2>1 DEF IsCursor, Kept
  <2>3. Types' /\ SavedKept' /\ ResultWhole'
    BY <2>1, <2>2, EmptySeq DEF IInv, Exactness, Types, SavedKept, ResultWhole
  <2>4. Counting' /\ Persisting' /\ Ending'
    BY <2>1 DEF IInv, Exactness, Counting, Working, Running, Persisting, Ending
  <2> QED
    BY <2>1, <2>3, <2>4, LateElsewhere DEF Exactness
<1> QED
  BY <1>1, <1>2

LEMMA LeftExact ==
  ASSUME IInv, Fenced', Retry \/ (\E a \in lateBinds : LateBind(a)) \/ UNCHANGED vars
  PROVE  Exactness'
<1> USE DEF rowVars, fileVars, foldVars, lateVars
<1>1. UNCHANGED <<saved, fileVars, pc, release, foldVars, previous, result, lateCommits>>
  BY DEF Retry, LateBind, vars
<1>2. ASSUME NEW late \in lateCommits, Accepts(late.attempt)' PROVE Accepts(late.attempt)
  BY <1>2 DEF IInv, Fenced, Accepts, Retry, LateBind, BoundTo, vars
<1>3. LateReady'
  BY <1>1, <1>2 DEF IInv, Exactness, LateReady
<1> QED
  BY <1>1, <1>3, RowExact DEF IInv

LEMMA IInvStep == IInv /\ [Next]_vars => IInv'
<1> SUFFICES ASSUME IInv, [Next]_vars PROVE IInv'
  OBVIOUS
<1>1. Fenced'
  BY FencedStep DEF IInv
<1> SUFFICES Exactness'
  BY <1>1 DEF IInv
<1>2. CASE Queue \/ Crash \/ Restart
  BY <1>1, <1>2, QueueExact, LeftExact DEF Queue
<1>3. CASE Resume
  BY <1>1, <1>3, BeginExact, RefusalExact, BindExact DEF Resume
<1>4. CASE FoldUnit
  BY <1>1, <1>4, FoldUnitExact
<1>5. CASE Persist
  BY <1>1, <1>5, ReadGenerationExact, CutPrefixExact, AppendRecordExact, WriteTailExact,
     CommitExact, RefusalExact, DiscardExact DEF Persist
<1>6. CASE End
  BY <1>1, <1>6, EndExact, RefusalExact DEF End
<1>7. CASE \E status_ \in {"pending", "failed"} : Drop(status_)
  BY <1>1, <1>7, DropExact
<1>8. CASE Late
  BY <1>1, <1>8, LeftExact, LateCommitExact DEF Late
<1>9. CASE UNCHANGED vars
  BY <1>1, <1>9, LeftExact
<1> QED
  BY <1>2, <1>3, <1>4, <1>5, <1>6, <1>7, <1>8, <1>9 DEF Next

LEMMA IInvCorrect == Spec => []IInv
<1>1. Init => IInv
  BY FencedInit, ExactInit DEF IInv
<1> QED
  BY <1>1, IInvStep, PTL DEF Spec

-----------------------------------------------------------------------------
(* The theorems.                                                            *)

\* A commit left behind can reach the row only until the row is settled.
THEOREM LateCommitsFencedCorrect == Spec => []LateCommitsFenced
<1>1. IInv => LateCommitsFenced
  BY DEF IInv, Fenced
<1> QED
  BY <1>1, IInvCorrect, PTL

\* Whatever the runner was restored from, it has folded each unit once, in order.
THEOREM FoldExactCorrect == Spec => []FoldExact
<1>1. IInv => FoldExact
  BY DEF IInv, Exactness, Counting, Working, FoldExact
<1> QED
  BY <1>1, IInvCorrect, PTL

\* The committed cursor has its files, and they restore what it counts.
THEOREM CheckpointRestoresCorrect == Spec => []CheckpointRestores
<1>1. IInv => CheckpointRestores
  <2> SUFFICES ASSUME IInv, saved.generation > 0, result = NoFold
               PROVE  /\ Restorable(saved.computation)
                      /\ IsFold(Restored(saved.computation), saved.next)
    BY DEF CheckpointRestores
  <2>1. Kept(saved, prefixFile, tails) /\ Exact(saved, prefixFile)
    BY SavedPlain DEF IInv, Exactness, SavedKept
  <2>2. Restorable(saved.computation)
    BY <2>1 DEF Restorable, Kept
  <2>3. IsFold(Restored(saved.computation), saved.next)
    BY <2>1 DEF IsFold, Restored, Exact
  <2> QED
    BY <2>2, <2>3
<1> QED
  BY <1>1, IInvCorrect, PTL

\* The stems are made from every unit once.
THEOREM ResultWholeCorrect == Spec => []ResultWhole
<1>1. IInv => ResultWhole
  BY DEF IInv, Exactness
<1> QED
  BY <1>1, IInvCorrect, PTL

\* Only a commit writes the cursor, and the one it writes is ready.
LEMMA CursorWritten ==
  ASSUME IInv, [Next]_vars, saved' # saved
  PROVE  Ready(saved', saved, prefixFile, tails) /\ result' = result
<1> USE DEF rowVars, fileVars
<1>1. CASE CommitCheckpoint
  BY <1>1 DEF CommitCheckpoint, IInv, Exactness, Persisting
<1>2. ASSUME NEW late \in lateCommits, LateCommit(late)
      PROVE  Ready(saved', saved, prefixFile, tails) /\ result' = result
  BY <1>2 DEF LateCommit, IInv, Exactness, LateReady
<1>3. CommitCheckpoint \/ \E late \in lateCommits : LateCommit(late)
  BY DEF Next, vars, Queue, Claim, Settle, Retry, Resume, BeginAfresh, BeginRestored,
         RefuseRestore, Bind, FoldUnit, Persist, ReadGeneration, CutPrefix, AppendRecord,
         WriteTail, CommitRefused, Discard, End, Publish, CloseArea, Finish, Drop, Late,
         LateBind, Crash, Restart
<1> QED
  BY <1>1, <1>2, <1>3

\* A commit takes the next generation, and goes forward in the same computation.
THEOREM ProgressKeptCorrect == Spec => ProgressKept
<1>1. IInv /\ [Next]_vars =>
        [saved' # saved =>
          /\ saved'.generation = saved.generation + 1
          /\ saved'.computation = saved.computation => saved'.next > saved.next]_vars
  BY CursorWritten DEF Ready
<1> QED
  BY <1>1, IInvCorrect, PTL DEF Spec, ProgressKept

LEMMA DurableStep ==
  ASSUME IInv, [Next]_vars
  PROVE  [Durable!Next]_<<saved.computation, saved.next, result # NoFold>>
<1> USE DEF rowVars, fileVars
<1>1. CASE saved' # saved
  <2>1. /\ IsCursor(saved') /\ result' = result
        /\ saved'.computation = saved.computation => saved'.next > saved.next
    BY <1>1, CursorWritten DEF Ready
  <2>2. saved'.computation \in Computations /\ saved'.next \in 1..Count
    BY <2>1 DEF IsCursor
  <2>3. CASE saved'.computation = saved.computation
    <3>1. saved.computation # "none" /\ saved.next \in 0..Count
      BY <2>2, <2>3, SavedPlain, CheckpointAssumption
         DEF IInv, Exactness, CheckpointAssumption
    <3>2. saved'.next \in (saved.next + 1)..Count
      BY <2>1, <2>2, <2>3, <3>1, PlanType
    <3> QED
      BY <2>1, <2>3, <3>1, <3>2 DEF Durable!Next, Durable!Advance
  <2>4. CASE saved'.computation # saved.computation
    BY <2>1, <2>2, <2>4 DEF Durable!Next, Durable!Begin
  <2> QED
    BY <2>3, <2>4
<1>2. CASE saved' = saved /\ Publish
  <2>1. saved.next = Count /\ IsFold(fold, Count)
    BY <1>2 DEF IInv, Exactness, Ending, Counting, Working, Running, Publish
  <2>2. (result # NoFold)'
    BY <1>2, <2>1, FoldSome DEF Publish
  <2> QED
    BY <1>2, <2>1, <2>2 DEF Durable!Next, Durable!Store
<1>3. CASE saved' = saved /\ ~Publish
  <2>1. result' = result
    BY <1>3
       DEF Next, vars, Queue, Claim, Settle, Retry, Resume, BeginAfresh, BeginRestored,
           RefuseRestore, Bind, FoldUnit, Persist, ReadGeneration, CutPrefix, AppendRecord,
           WriteTail, CommitCheckpoint, CommitRefused, Discard, End, CloseArea, Finish, Drop,
           Late, LateBind, LateCommit, Crash, Restart
  <2> QED
    BY <1>3, <2>1
<1> QED
  BY <1>1, <1>2, <1>3

\* The checkpoints implement a fold that is durable, and complete only when every
\* unit is.
THEOREM DurableFoldImplemented == Spec => DurableSpec
<1>1. Init => Durable!Init
  BY DEF Init, NoCursor, Durable!Init
<1> QED
  BY <1>1, DurableStep, IInvCorrect, PTL DEF Spec, DurableSpec, Durable!Spec

-----------------------------------------------------------------------------
(* The units of an attempt.                                                *)

Content == {"none", "cut", "whole"} \union Handlers

\* A handler at work, and one that folds, with what it has read.
HandlerSteps == {"create", "body", "remove", "refused", "compare", "promote", "mark", "stored", "clean"}
Handling ==
    {Idle} \union [pc : HandlerSteps, key : Keys]
    \union [pc : HandlerSteps \union {"read"}, key : Keys, got : SUBSET Outputs, whole : BOOLEAN]

UnitTypes ==
    /\ accepted \in SUBSET Keys
    /\ added \in [UnitIndices -> Seq(BOOLEAN)]
    /\ part \in [Keys -> Content]
    /\ ready \in [Keys -> Content]
    /\ handler \in [Handlers -> Handling]
    /\ \A h \in Handlers : In(h, "read") => "got" \in DOMAIN handler[h]
    /\ asked \in [output : Outputs \union {"none"}, by : Handlers \union {Nobody}]
    /\ todo \in SUBSET Outputs

Works(h) == handler[h].pc # "idle"

\* The units are sent, and so folded, one after another.
InOrder ==
    /\ sent \in NextUnit..(UnitCount - 1)
    /\ serving \in 0..(sent + 1)
    /\ foldedUnits = 0..(sent - 1) \/ foldedUnits = 0..sent
    /\ \A h \in Handlers : Works(h) => Unit(h) <= sent

\* Two handlers work on one output only if it counts as overlapped.
Apart ==
    \A g, h \in Handlers :
        Works(g) /\ Works(h) /\ handler[g].key = handler[h].key /\ g # h
        => handler[g].key \in overlapped

\* What a handler of an output of a unit that is not folded may rely on.
Relies(h) ==
    LET k == handler[h].key IN
    k[1] \notin foldedUnits =>
        /\ handler[h].pc = "body" /\ k \notin overlapped => part[k] = h
        /\ handler[h].pc = "promote" /\ k \notin overlapped => part[k] = "whole"
        /\ handler[h].pc = "mark" =>
             ready[k] # "none" /\ (k \notin overlapped => ready[k] = "whole")
        /\ handler[h].pc \in {"compare", "stored"} => k \in accepted
        /\ handler[h].pc = "read" =>
             /\ KeysOf(k[1]) \subseteq accepted
             /\ KeysOf(k[1]) \intersect overlapped = {} => handler[h].whole
        /\ handler[h].pc # "clean"

\* The page has the answers of the outputs that are stored, and waits for one more.
Answers ==
    /\ asked # NotAsked => asked.output \in Outputs
    /\ asked.by # Nobody =>
         /\ asked.by \in Handlers
         /\ Works(asked.by)
         /\ handler[asked.by].key = <<serving, asked.output>>
    /\ serving \notin foldedUnits => \A o \in Outputs \ todo : <<serving, o>> \in accepted

\* A unit whose outputs are all accepted has a handler that folds it, or lost it.
Entered == \A u \in UnitIndices : KeysOf(u) \subseteq accepted => Folding(u) \/ u \in lostFold

UnitsInv ==
    /\ UnitTypes /\ InOrder /\ Apart /\ \A h \in Handlers : Works(h) => Relies(h)
    /\ Answers /\ Entered
    /\ AddedOnce /\ AcceptedStored /\ DeliveredFolds

-----------------------------------------------------------------------------
LEMMA SomeOutput == Outputs # {} /\ Handlers \intersect {"none", "cut", "whole"} = {}
                    /\ Nobody \notin Handlers /\ UnitCount \in Nat /\ NextUnit \in 0..(UnitCount - 1)
  BY UnitsAssumption DEF UnitsAssumption

LEMMA UnitKeys ==
  /\ \A u \in UnitIndices, o \in Outputs : <<u, o>> \in Keys /\ <<u, o>> \in KeysOf(u)
  /\ \A k \in Keys : k[1] \in UnitIndices /\ k[2] \in Outputs /\ k = <<k[1], k[2]>> /\ k \in KeysOf(k[1])
  /\ \A u \in UnitIndices : KeysOf(u) \subseteq Keys /\ \A k \in KeysOf(u) : k[1] = u
  BY DEF Keys, KeysOf

LEMMA WorkingType ==
  ASSUME UnitTypes, NEW h \in Handlers, Works(h)
  PROVE  /\ handler[h].key \in Keys /\ Unit(h) \in UnitIndices
         /\ handler[h].pc \in HandlerSteps \union {"read"}
         /\ handler[h] \in [pc : HandlerSteps, key : Keys]
            \union [pc : HandlerSteps \union {"read"}, key : Keys, got : SUBSET Outputs, whole : BOOLEAN]
  BY UnitKeys DEF UnitTypes, Works, Handling, Idle, Unit

\* A handler goes on, with its output, and the others stay where they are.
LEMMA GoesOn ==
  ASSUME UnitTypes, NEW h \in Handlers, Works(h), NEW step \in HandlerSteps, Goes(h, step)
  PROVE  /\ handler' \in [Handlers -> Handling]
         /\ handler'[h].pc = step /\ handler'[h].key = handler[h].key
         /\ \A g \in Handlers : g # h => handler'[g] = handler[g]
         /\ \A g \in Handlers : In(g, "read")' => "got" \in DOMAIN handler'[g]
<1>1. handler' = [handler EXCEPT ![h] = [handler[h] EXCEPT !.pc = step]]
  BY DEF Goes
<1>2. /\ [handler[h] EXCEPT !.pc = step] \in Handling
      /\ [handler[h] EXCEPT !.pc = step].pc = step
      /\ [handler[h] EXCEPT !.pc = step].key = handler[h].key
  BY WorkingType DEF Handling
<1>3. step # "read"
  BY DEF HandlerSteps
<1> QED
  BY <1>1, <1>2, <1>3 DEF UnitTypes, In

\* What becomes of a file that h has truncated last.
LEMMA WrittenKeeps ==
  ASSUME NEW h \in Handlers, NEW file \in [Keys -> Content], NEW c \in {"cut", "whole"}
  PROVE  /\ Written(h, file, c) \in [Keys -> Content]
         /\ \A k \in Keys :
              /\ file[k] # h => Written(h, file, c)[k] = file[k]
              /\ file[k] = h => Written(h, file, c)[k] = c
              /\ file[k] # "none" => Written(h, file, c)[k] # "none"
              /\ file[k] = "whole" => Written(h, file, c)[k] = "whole"
  BY SomeOutput DEF Written, Content

\* A folded unit has no accepted outputs.
LEMMA AcceptedUnfolded ==
  ASSUME AcceptedStored, NEW u \in UnitIndices, KeysOf(u) \subseteq accepted
  PROVE  u \notin foldedUnits
<1>1. PICK o \in Outputs : TRUE
  BY SomeOutput
<1>2. <<u, o>> \in accepted /\ <<u, o>>[1] = u
  BY UnitKeys
<1> QED
  BY <1>2 DEF AcceptedStored

\* The steps at which nothing is accepted or folded and no PUT begins or ends well.
LEMMA Quiet ==
  ASSUME UnitsInv, UnitTypes', UNCHANGED <<stageVars, sent, serving, todo, overlapped>>,
         \A h \in Handlers : Works(h)' => Works(h) /\ handler'[h].key = handler[h].key,
         \A h \in Handlers : Works(h)' => Relies(h)',
         asked' \in {asked, NotAsked, [asked EXCEPT !.by = Nobody]},
         asked.by # Nobody /\ asked'.by # Nobody => Works(asked.by)',
         \A u \in UnitIndices \ foldedUnits : Folding(u) => Folding(u)' \/ u \in lostFold',
         lostFold \subseteq lostFold',
         \A k \in accepted : /\ ready[k] # "none" => ready'[k] # "none"
                             /\ k \notin overlapped /\ ready[k] = "whole" => ready'[k] = "whole"
  PROVE  UnitsInv'
<1> USE DEF stageVars
<1>1. InOrder' /\ Apart'
  BY DEF UnitsInv, InOrder, Apart, Unit
<1>2. Answers'
  <2>1. asked'.by # Nobody => asked' = asked
    BY DEF NotAsked, UnitsInv, UnitTypes
  <2>2. asked' # NotAsked => asked'.output \in Outputs
    <3>1. CASE asked' = [asked EXCEPT !.by = Nobody]
      <4>1. asked'.output = asked.output /\ (asked = NotAsked => asked' = NotAsked)
        BY <3>1 DEF UnitsInv, UnitTypes, NotAsked
      <4> QED
        BY <4>1 DEF UnitsInv, Answers
    <3> QED
      BY <3>1 DEF UnitsInv, Answers
  <2>3. asked'.by # Nobody =>
          /\ asked.by \in Handlers /\ Works(asked.by)'
          /\ handler'[asked.by].key = <<serving, asked.output>>
    BY <2>1 DEF UnitsInv, Answers
  <2>4. serving \notin foldedUnits => \A o \in Outputs \ todo : <<serving, o>> \in accepted
    BY DEF UnitsInv, Answers
  <2> QED
    BY <2>1, <2>2, <2>3, <2>4 DEF Answers
<1>3. Entered'
  <2>1. \A u \in UnitIndices : KeysOf(u) \subseteq accepted => u \notin foldedUnits
    BY AcceptedUnfolded DEF UnitsInv
  <2> QED
    BY <2>1 DEF UnitsInv, Entered
<1>4. DeliveredFolds'
  <2>1. NextUnit..(serving - 1) \subseteq UnitIndices
    BY SomeOutput DEF UnitsInv, InOrder, UnitIndices
  <2> QED
    BY <2>1 DEF UnitsInv, DeliveredFolds
<1>5. AddedOnce'
  BY DEF UnitsInv, AddedOnce
<1>6. AcceptedStored'
  <2>1. ASSUME NEW k \in accepted
        PROVE  k[1] \notin foldedUnits /\ ready'[k] # "none" /\ (k \notin overlapped => ready'[k] = "whole")
    <3>1. k[1] \notin foldedUnits /\ ready[k] # "none" /\ (k \notin overlapped => ready[k] = "whole")
      BY <2>1 DEF UnitsInv, AcceptedStored
    <3> QED
      BY <2>1, <3>1
  <2> QED
    BY <2>1 DEF AcceptedStored
<1> QED
  BY <1>1, <1>2, <1>3, <1>4, <1>5, <1>6 DEF UnitsInv

-----------------------------------------------------------------------------
(* The steps that accept and fold nothing.                                  *)

\* The page: what the handlers rely on is not touched.
LEMMA PageQuiet == UnitsInv /\ (Break \/ FailJob) => UnitsInv'
<1> SUFFICES ASSUME UnitsInv, Break \/ FailJob PROVE UnitsInv'
  OBVIOUS
<1> USE DEF stageVars, incomingVars, historyVars
<1>1. /\ UNCHANGED <<stageVars, incomingVars, handler, sent, serving, todo, historyVars>>
      /\ asked' \in {NotAsked, [asked EXCEPT !.by = Nobody]} /\ asked'.by = Nobody
  BY DEF Break, FailJob, NotAsked, UnitsInv, UnitTypes
<1>2. UnitTypes'
  BY <1>1 DEF UnitsInv, UnitTypes, In, NotAsked
<1>3. ASSUME NEW h \in Handlers, Works(h)'
      PROVE  Works(h) /\ handler'[h].key = handler[h].key /\ Relies(h)'
  BY <1>1, <1>3 DEF UnitsInv, Works, Relies
<1>4. \A u \in UnitIndices : Folding(u) => Folding(u)'
  BY <1>1 DEF Folding, In, Unit
<1> QED
  BY <1>1, <1>2, <1>3, <1>4, Quiet

\* A handler that goes on to another point, while it and the others may rely on
\* the files as before.
LEMMA QuietHandler ==
  ASSUME UnitsInv, NEW h \in Handlers, Works(h), NEW step \in HandlerSteps, Goes(h, step),
         UNCHANGED <<stageVars, pageVars, overlapped>>,
         part' \in [Keys -> Content], ready' \in [Keys -> Content],
         Relies(h)',
         \A g \in Handlers \ {h} : Works(g) => Relies(g)',
         In(h, "read") => Unit(h) \in foldedUnits \union lostFold', lostFold \subseteq lostFold',
         \A k \in accepted : /\ ready[k] # "none" => ready'[k] # "none"
                             /\ k \notin overlapped /\ ready[k] = "whole" => ready'[k] = "whole"
  PROVE  UnitsInv'
<1> USE DEF stageVars, pageVars
<1>1. /\ handler' \in [Handlers -> Handling]
      /\ handler'[h].pc = step /\ handler'[h].key = handler[h].key
      /\ \A g \in Handlers : g # h => handler'[g] = handler[g]
      /\ \A g \in Handlers : In(g, "read")' => "got" \in DOMAIN handler'[g]
  BY GoesOn DEF UnitsInv
<1>2. UnitTypes'
  BY <1>1 DEF UnitsInv, UnitTypes
<1>3. ASSUME NEW g \in Handlers, Works(g)'
      PROVE  Works(g) /\ handler'[g].key = handler[g].key /\ Relies(g)'
  BY <1>1, <1>3 DEF Works
<1>4. asked.by # Nobody => Works(asked.by)'
  <2>1. step # "idle"
    BY DEF HandlerSteps
  <2> QED
    BY <1>1, <2>1 DEF UnitsInv, Answers, Works
<1>5. ASSUME NEW u \in UnitIndices \ foldedUnits, Folding(u)
      PROVE  Folding(u)' \/ u \in lostFold'
  BY <1>1, <1>5 DEF Folding, In, Unit
<1> QED
  BY <1>2, <1>3, <1>4, <1>5, Quiet

\* The part of another output, or of one that has another handler, too.
LEMMA CreateQuiet == \A h \in Handlers : UnitsInv /\ Create(h) => UnitsInv'
<1> SUFFICES ASSUME NEW h \in Handlers, UnitsInv, Create(h) PROVE UnitsInv'
  OBVIOUS
<1> USE DEF stageVars, pageVars, historyVars
<1>1. /\ Works(h) /\ ~In(h, "read") /\ Goes(h, "body") /\ "body" \in HandlerSteps
      /\ UNCHANGED <<stageVars, ready, pageVars, historyVars>>
      /\ part' = [part EXCEPT ![handler[h].key] = h]
  BY DEF Create, In, Works, HandlerSteps
<1>2. /\ handler'[h].pc = "body" /\ handler'[h].key = handler[h].key
      /\ \A g \in Handlers : g # h => handler'[g] = handler[g]
      /\ handler[h].key \in Keys
  BY <1>1, GoesOn, WorkingType DEF UnitsInv
<1>3. part' \in [Keys -> Content] /\ part'[handler[h].key] = h
      /\ \A k \in Keys : k # handler[h].key => part'[k] = part[k]
  BY <1>1, <1>2 DEF UnitsInv, UnitTypes, Content
<1>4. Relies(h)'
  BY <1>2, <1>3 DEF Relies
<1>5. ASSUME NEW g \in Handlers \ {h}, Works(g) PROVE Relies(g)'
  <2>1. Relies(g) /\ handler[g].key \in Keys
    BY <1>5, WorkingType DEF UnitsInv
  <2>2. handler[g].key \notin overlapped => handler[g].key # handler[h].key
    BY <1>1, <1>5 DEF UnitsInv, Apart
  <2> QED
    BY <1>1, <1>2, <1>3, <2>1, <2>2 DEF Relies
<1> QED
  BY <1>1, <1>3, <1>4, <1>5, QuietHandler DEF UnitsInv, UnitTypes

LEMMA RemoveQuiet == \A h \in Handlers : UnitsInv /\ RemovePart(h) => UnitsInv'
<1> SUFFICES ASSUME NEW h \in Handlers, UnitsInv, RemovePart(h) PROVE UnitsInv'
  OBVIOUS
<1> USE DEF stageVars, pageVars, historyVars
<1>1. /\ Works(h) /\ ~In(h, "read") /\ Goes(h, "refused") /\ "refused" \in HandlerSteps
      /\ UNCHANGED <<stageVars, ready, pageVars, historyVars>>
      /\ part' = [part EXCEPT ![handler[h].key] = "none"]
  BY DEF RemovePart, In, Works, HandlerSteps
<1>2. /\ handler'[h].pc = "refused" /\ handler'[h].key = handler[h].key
      /\ \A g \in Handlers : g # h => handler'[g] = handler[g]
      /\ handler[h].key \in Keys
  BY <1>1, GoesOn, WorkingType DEF UnitsInv
<1>3. part' \in [Keys -> Content]
      /\ \A k \in Keys : k # handler[h].key => part'[k] = part[k]
  BY <1>1, <1>2 DEF UnitsInv, UnitTypes, Content
<1>4. Relies(h)'
  BY <1>2 DEF Relies
<1>5. ASSUME NEW g \in Handlers \ {h}, Works(g) PROVE Relies(g)'
  <2>1. Relies(g) /\ handler[g].key \in Keys
    BY <1>5, WorkingType DEF UnitsInv
  <2>2. handler[g].key \notin overlapped => handler[g].key # handler[h].key
    BY <1>1, <1>5 DEF UnitsInv, Apart
  <2> QED
    BY <1>1, <1>2, <1>3, <2>1, <2>2 DEF Relies
<1> QED
  BY <1>1, <1>3, <1>4, <1>5, QuietHandler DEF UnitsInv, UnitTypes

\* The file that h has truncated, wherever it is, gets its content.
LEMMA WrittenQuiet ==
  ASSUME NEW h \in Handlers, UnitsInv, NEW c \in {"cut", "whole"}, NEW step \in HandlerSteps,
         Works(h), ~In(h, "read"), Goes(h, step),
         UNCHANGED <<stageVars, pageVars, historyVars>>,
         part' = Written(h, part, c), ready' = Written(h, ready, c),
         step \in {"promote", "remove"}, step = "promote" => In(h, "body") /\ c = "whole"
  PROVE  UnitsInv'
<1> USE DEF stageVars, pageVars, historyVars
<1>1. /\ handler'[h].pc = step /\ handler'[h].key = handler[h].key
      /\ \A g \in Handlers : g # h => handler'[g] = handler[g]
      /\ handler[h].key \in Keys
  BY GoesOn, WorkingType DEF UnitsInv
<1>2. part' \in [Keys -> Content] /\ ready' \in [Keys -> Content]
  BY WrittenKeeps DEF UnitsInv, UnitTypes
<1>3. \A k \in Keys :
        /\ part[k] # h => part'[k] = part[k]
        /\ part[k] = h => part'[k] = c
        /\ part[k] = "whole" => part'[k] = "whole"
        /\ ready[k] # "none" => ready'[k] # "none"
        /\ ready[k] = "whole" => ready'[k] = "whole"
  BY WrittenKeeps DEF UnitsInv, UnitTypes
<1>4. Relies(h)'
  BY <1>1, <1>3 DEF UnitsInv, Relies, In
<1>5. ASSUME NEW g \in Handlers \ {h}, Works(g) PROVE Relies(g)'
  <2>1. Relies(g) /\ handler[g].key \in Keys
    BY <1>5, WorkingType DEF UnitsInv
  <2> QED
    BY <1>1, <1>3, <2>1 DEF Relies
<1>6. accepted \subseteq Keys
  BY DEF UnitsInv, UnitTypes
<1> QED
  BY <1>2, <1>3, <1>4, <1>5, <1>6, QuietHandler

LEMMA BodyQuiet == \A h \in Handlers : UnitsInv /\ (Receive(h) \/ CutShort(h)) => UnitsInv'
  BY WrittenQuiet DEF Receive, CutShort, In, Works, HandlerSteps

LEMMA CompareQuiet == \A h \in Handlers : UnitsInv /\ Compare(h) => UnitsInv'
<1> SUFFICES ASSUME NEW h \in Handlers, UnitsInv, Compare(h) PROVE UnitsInv'
  OBVIOUS
<1> USE DEF stageVars, incomingVars, pageVars, historyVars
<1>1. PICK step \in {"stored", "refused"} : Goes(h, step)
  BY DEF Compare
<1>2. /\ Works(h) /\ ~In(h, "read") /\ step \in HandlerSteps /\ handler[h].pc = "compare"
      /\ UNCHANGED <<stageVars, incomingVars, pageVars, historyVars>>
  BY <1>1 DEF Compare, In, Works, HandlerSteps
<1>3. /\ handler'[h].pc = step /\ handler'[h].key = handler[h].key
      /\ \A g \in Handlers : g # h => handler'[g] = handler[g]
  BY <1>1, <1>2, GoesOn DEF UnitsInv
<1>4. Relies(h)'
  BY <1>1, <1>2, <1>3 DEF UnitsInv, Relies
<1>5. ASSUME NEW g \in Handlers \ {h}, Works(g) PROVE Relies(g)'
  BY <1>2, <1>3, <1>5 DEF UnitsInv, Relies
<1> QED
  BY <1>1, <1>2, <1>4, <1>5, QuietHandler DEF UnitsInv, UnitTypes

\* A rename: the file has what its handlers have received.
LEMMA PromoteQuiet == \A h \in Handlers : UnitsInv /\ Promote(h) => UnitsInv'
<1> SUFFICES ASSUME NEW h \in Handlers, UnitsInv, Promote(h) PROVE UnitsInv'
  OBVIOUS
<1> DEFINE k == handler[h].key
<1> USE DEF stageVars, incomingVars, pageVars, historyVars
<1>1. PICK step \in {"refused", "mark"} :
        /\ Goes(h, step) /\ Works(h) /\ ~In(h, "read") /\ handler[h].pc = "promote"
        /\ UNCHANGED <<stageVars, pageVars, historyVars>>
        /\ step = "refused" => part[k] = "none" /\ UNCHANGED incomingVars
        /\ step = "mark" =>
             /\ part[k] # "none"
             /\ part' = [part EXCEPT ![k] = "none"] /\ ready' = [ready EXCEPT ![k] = part[k]]
  BY DEF Promote, In, Works
<1>2. /\ handler'[h].pc = step /\ handler'[h].key = k /\ k \in Keys /\ step \in HandlerSteps
      /\ \A g \in Handlers : g # h => handler'[g] = handler[g]
  BY <1>1, GoesOn, WorkingType DEF UnitsInv, HandlerSteps
<1> HIDE DEF k
<1>3. /\ part' \in [Keys -> Content] /\ ready' \in [Keys -> Content]
      /\ \A j \in Keys : j # k => part'[j] = part[j] /\ ready'[j] = ready[j]
      /\ step = "mark" => ready'[k] = part[k]
      /\ step = "refused" => ready' = ready
  BY <1>1, <1>2 DEF UnitsInv, UnitTypes, Content
<1>4. k[1] \notin foldedUnits /\ k \notin overlapped => part[k] = "whole"
  BY <1>1 DEF UnitsInv, Relies, k
<1>5. Relies(h)'
  BY <1>1, <1>2, <1>3, <1>4 DEF Relies
<1>6. ASSUME NEW g \in Handlers \ {h}, Works(g) PROVE Relies(g)'
  <2>1. Relies(g) /\ handler[g].key \in Keys
    BY <1>6, WorkingType DEF UnitsInv
  <2>2. handler[g].key \notin overlapped => handler[g].key # k
    BY <1>1, <1>6 DEF UnitsInv, Apart, k
  <2>3. CASE handler[g].key # k
    BY <1>1, <1>2, <1>3, <2>1, <2>3 DEF Relies
  <2>4. CASE handler[g].key = k
    BY <1>1, <1>2, <1>3, <2>1, <2>2, <2>4 DEF Relies
  <2> QED
    BY <2>3, <2>4
<1>7. ASSUME NEW j \in accepted
      PROVE  /\ ready[j] # "none" => ready'[j] # "none"
             /\ j \notin overlapped /\ ready[j] = "whole" => ready'[j] = "whole"
  <2>1. j \in Keys /\ j[1] \notin foldedUnits /\ (j \notin overlapped => ready[j] = "whole")
    BY DEF UnitsInv, UnitTypes, AcceptedStored
  <2> QED
    BY <1>1, <1>3, <1>4, <2>1
<1> QED
  BY <1>1, <1>2, <1>3, <1>5, <1>6, <1>7, QuietHandler

\* The files of a folded unit, which nobody relies on.
LEMMA CleanQuiet == \A h \in Handlers : UnitsInv /\ Clean(h) => UnitsInv'
<1> SUFFICES ASSUME NEW h \in Handlers, UnitsInv, Clean(h) PROVE UnitsInv'
  OBVIOUS
<1> USE DEF stageVars, incomingVars, pageVars, historyVars
<1>1. /\ Works(h) /\ ~In(h, "read") /\ Goes(h, "stored") /\ "stored" \in HandlerSteps
      /\ handler[h].pc = "clean" /\ UNCHANGED <<stageVars, pageVars, historyVars>>
  BY DEF Clean, In, Works, HandlerSteps
<1>2. /\ handler'[h].pc = "stored" /\ handler'[h].key = handler[h].key
      /\ \A g \in Handlers : g # h => handler'[g] = handler[g]
      /\ Unit(h) \in foldedUnits
  BY <1>1, GoesOn DEF UnitsInv, Relies, Unit
<1>3. /\ part' \in [Keys -> Content] /\ ready' \in [Keys -> Content]
      /\ \A k \in Keys : k[1] \notin foldedUnits => part'[k] = part[k] /\ ready'[k] = ready[k]
  <2>1. \A k \in KeysOf(Unit(h)) : k[1] = Unit(h)
    BY <1>1, WorkingType, UnitKeys DEF UnitsInv
  <2> QED
    BY <1>2, <2>1 DEF Clean, UnitsInv, UnitTypes, Content
<1>4. Relies(h)'
  BY <1>1, <1>2 DEF Relies, Unit
<1>5. ASSUME NEW g \in Handlers \ {h}, Works(g) PROVE Relies(g)'
  <2>1. Relies(g) /\ handler[g].key \in Keys
    BY <1>5, WorkingType DEF UnitsInv
  <2> QED
    BY <1>1, <1>2, <1>3, <2>1 DEF Relies
<1>6. \A k \in accepted : ready'[k] = ready[k]
  BY <1>3 DEF UnitsInv, UnitTypes, AcceptedStored
<1> QED
  BY <1>1, <1>3, <1>4, <1>5, <1>6, QuietHandler

LEMMA ReadFailsQuiet == \A h \in Handlers : UnitsInv /\ ReadFails(h) => UnitsInv'
<1> SUFFICES ASSUME NEW h \in Handlers, UnitsInv, ReadFails(h) PROVE UnitsInv'
  OBVIOUS
<1> USE DEF stageVars, incomingVars, pageVars
<1>1. /\ Works(h) /\ Goes(h, "refused") /\ "refused" \in HandlerSteps
      /\ UNCHANGED <<stageVars, incomingVars, pageVars, overlapped>>
      /\ lostFold' = lostFold \union {Unit(h)}
  BY DEF ReadFails, In, Works, HandlerSteps
<1>2. /\ handler'[h].pc = "refused" /\ handler'[h].key = handler[h].key
      /\ \A g \in Handlers : g # h => handler'[g] = handler[g]
  BY <1>1, GoesOn DEF UnitsInv
<1>3. Relies(h)'
  BY <1>2 DEF Relies
<1>4. ASSUME NEW g \in Handlers \ {h}, Works(g) PROVE Relies(g)'
  BY <1>1, <1>2, <1>4 DEF UnitsInv, Relies
<1> QED
  BY <1>1, <1>3, <1>4, QuietHandler DEF UnitsInv, UnitTypes

\* A whole file is read from every accepted output.
LEMMA ReadQuiet == \A h \in Handlers, o \in Outputs : UnitsInv /\ Read(h, o) => UnitsInv'
<1> SUFFICES ASSUME NEW h \in Handlers, NEW o \in Outputs, UnitsInv, Read(h, o) PROVE UnitsInv'
  OBVIOUS
<1> DEFINE k == <<Unit(h), o>>
           read == [handler[h] EXCEPT !.got = @ \union {o},
                                      !.whole = @ /\ ready[k] = "whole"]
<1> USE DEF stageVars, incomingVars, pageVars, historyVars
<1>1. /\ Works(h) /\ handler[h].pc = "read" /\ handler' = [handler EXCEPT ![h] = read]
      /\ UNCHANGED <<stageVars, incomingVars, pageVars, historyVars>>
  BY DEF Read, In, Works
<1>2. handler[h] \in [pc : HandlerSteps \union {"read"}, key : Keys, got : SUBSET Outputs, whole : BOOLEAN]
  BY <1>1, WorkingType DEF UnitsInv, UnitTypes, In, HandlerSteps
<1>3. /\ read \in Handling /\ "got" \in DOMAIN read
      /\ read.pc = "read" /\ read.key = handler[h].key
      /\ read.whole = (handler[h].whole /\ ready[k] = "whole")
  <2> DEFINE r == handler[h]
             whole == ready[k] = "whole"
             Reading == [pc : HandlerSteps \union {"read"}, key : Keys, got : SUBSET Outputs,
                         whole : BOOLEAN]
  <2>1. r \in Reading /\ r.pc = "read" /\ whole \in BOOLEAN
    BY <1>1, <1>2
  <2>2. read = [r EXCEPT !.got = @ \union {o}, !.whole = @ /\ whole]
    OBVIOUS
  <2> HIDE DEF r, whole, read
  <2>3. read \in Reading
    BY <2>1, <2>2
  <2>4. read.pc = r.pc /\ read.key = r.key /\ read.whole = (r.whole /\ whole)
    BY <2>1, <2>2
  <2>5. read \in Handling /\ "got" \in DOMAIN read
    BY <2>3 DEF Handling
  <2> QED
    BY <2>1, <2>4, <2>5 DEF r, whole
<1> HIDE DEF read
<1>4. /\ handler'[h] = read /\ \A g \in Handlers : g # h => handler'[g] = handler[g]
      /\ handler' \in [Handlers -> Handling]
  BY <1>1, <1>3 DEF UnitsInv, UnitTypes
<1>5. UnitTypes'
  BY <1>1, <1>3, <1>4 DEF UnitsInv, UnitTypes, In
<1>6. Relies(h)'
  <2> SUFFICES ASSUME handler[h].key[1] \notin foldedUnits
               PROVE  LET u == handler[h].key[1] IN
                      /\ KeysOf(u) \subseteq accepted
                      /\ KeysOf(u) \intersect overlapped = {} => read.whole
    BY <1>1, <1>3, <1>4 DEF Relies
  <2>1. /\ KeysOf(handler[h].key[1]) \subseteq accepted
        /\ KeysOf(handler[h].key[1]) \intersect overlapped = {} => handler[h].whole
    BY <1>1 DEF UnitsInv, Relies
  <2>2. k \in KeysOf(handler[h].key[1])
    BY <1>1, WorkingType, UnitKeys DEF UnitsInv, Unit
  <2>3. k \notin overlapped => ready[k] = "whole"
    BY <2>1, <2>2 DEF UnitsInv, AcceptedStored
  <2> QED
    BY <1>3, <2>1, <2>2, <2>3
<1>7. ASSUME NEW g \in Handlers, Works(g)'
      PROVE  Works(g) /\ handler'[g].key = handler[g].key /\ Relies(g)'
  <2>1. CASE g = h
    BY <1>1, <1>3, <1>4, <1>6, <2>1
  <2>2. CASE g # h
    BY <1>1, <1>4, <1>7, <2>2 DEF UnitsInv, Works, Relies
  <2> QED
    BY <2>1, <2>2
<1>8. asked.by # Nobody => Works(asked.by)'
  BY <1>1, <1>3, <1>4 DEF UnitsInv, Answers, Works
<1>9. ASSUME NEW u \in UnitIndices, Folding(u) PROVE Folding(u)'
  BY <1>1, <1>3, <1>4, <1>9 DEF Folding, In, Unit
<1> QED
  BY <1>1, <1>5, <1>7, <1>8, <1>9, Quiet

LEMMA DropQuiet == \A h \in Handlers : UnitsInv /\ DropHandler(h) => UnitsInv'
<1> SUFFICES ASSUME NEW h \in Handlers, UnitsInv, DropHandler(h) PROVE UnitsInv'
  OBVIOUS
<1> USE DEF stageVars, pageVars
<1>1. /\ UNCHANGED <<stageVars, pageVars, overlapped>> /\ asked.by # h
      /\ part' = Written(h, part, "cut") /\ ready' = Written(h, ready, "cut")
      /\ lostFold' = IF In(h, "read") THEN lostFold \union {Unit(h)} ELSE lostFold
  BY DEF DropHandler
<1>2. /\ handler' \in [Handlers -> Handling] /\ handler'[h].pc = "idle"
      /\ \A g \in Handlers : g # h => handler'[g] = handler[g]
  BY DEF DropHandler, UnitsInv, UnitTypes, Handling, Idle
<1>3. part' \in [Keys -> Content] /\ ready' \in [Keys -> Content]
  BY <1>1, WrittenKeeps DEF UnitsInv, UnitTypes
<1>4. \A k \in Keys :
        /\ part[k] # h => part'[k] = part[k]
        /\ part[k] = "whole" => part'[k] = "whole"
        /\ ready[k] # "none" => ready'[k] # "none"
        /\ ready[k] = "whole" => ready'[k] = "whole"
  BY <1>1, WrittenKeeps DEF UnitsInv, UnitTypes
<1>5. UnitTypes'
  BY <1>1, <1>2, <1>3 DEF UnitsInv, UnitTypes, In
<1>6. ASSUME NEW g \in Handlers, Works(g)'
      PROVE  Works(g) /\ handler'[g].key = handler[g].key /\ Relies(g)'
  <2>1. g # h /\ handler'[g] = handler[g] /\ Works(g)
    BY <1>2, <1>6 DEF Works
  <2>2. Relies(g) /\ handler[g].key \in Keys
    BY <2>1, WorkingType DEF UnitsInv
  <2>3. Relies(g)'
    BY <1>1, <1>4, <2>1, <2>2 DEF Relies
  <2> QED
    BY <2>1, <2>3
<1>7. asked.by # Nobody => Works(asked.by)'
  BY <1>1, <1>2 DEF UnitsInv, Answers, Works
<1>8. ASSUME NEW u \in UnitIndices, Folding(u) PROVE Folding(u)' \/ u \in lostFold'
  BY <1>1, <1>2, <1>8 DEF Folding, In, Unit
<1>9. accepted \subseteq Keys
  BY DEF UnitsInv, UnitTypes
<1> QED
  BY <1>1, <1>4, <1>5, <1>6, <1>7, <1>8, <1>9, Quiet

-----------------------------------------------------------------------------
(* The runner's step, and those at which a PUT begins or ends.              *)

LEMMA SendUnitStep == UnitsInv /\ SendUnit => UnitsInv'
<1> SUFFICES ASSUME UnitsInv, SendUnit PROVE UnitsInv'
  OBVIOUS
<1> USE DEF stageVars, incomingVars, historyVars
<1>1. /\ UNCHANGED <<stageVars, incomingVars, handler, serving, todo, asked, historyVars>>
      /\ sent' = sent + 1 /\ sent + 1 \in UnitIndices /\ sent \in foldedUnits
  BY DEF SendUnit
<1>2. InOrder'
  <2>1. sent \in NextUnit..(UnitCount - 1) /\ foldedUnits = 0..sent
    BY <1>1, SomeOutput DEF UnitsInv, InOrder, UnitIndices
  <2>2. \A h \in Handlers : Works(h) => Unit(h) \in UnitIndices /\ Unit(h) <= sent
    BY WorkingType DEF UnitsInv, InOrder
  <2>3. \A h \in Handlers : Works(h)' => Works(h) /\ Unit(h)' = Unit(h)
    BY <1>1 DEF Works, Unit
  <2>4. \A h \in Handlers : Works(h)' => Unit(h)' <= sent + 1
    BY <2>1, <2>2, <2>3, SomeOutput DEF UnitIndices
  <2>5. serving \in 0..(sent + 2)
    BY <2>1, SomeOutput DEF UnitsInv, InOrder
  <2> QED
    BY <1>1, <2>1, <2>4, <2>5, SomeOutput DEF InOrder, UnitIndices
<1>3. UnitTypes' /\ Apart' /\ Answers' /\ Entered'
  BY <1>1 DEF UnitsInv, UnitTypes, In, Apart, Works, Answers, Entered, Folding, Unit
<1>4. \A h \in Handlers : Works(h)' => Relies(h)'
  BY <1>1 DEF UnitsInv, Works, Relies
<1>5. AddedOnce' /\ AcceptedStored' /\ DeliveredFolds'
  BY <1>1 DEF UnitsInv, AddedOnce, AcceptedStored, DeliveredFolds, Folding, In, Unit
<1> QED
  BY <1>2, <1>3, <1>4, <1>5 DEF UnitsInv

LEMMA PutStep == \A h \in Handlers, o \in Outputs : UnitsInv /\ Put(h, o) => UnitsInv'
<1> SUFFICES ASSUME NEW h \in Handlers, NEW o \in Outputs, UnitsInv, Put(h, o) PROVE UnitsInv'
  OBVIOUS
<1> DEFINE k == <<serving, o>>
           begins == At(Target(k), k)
<1> USE DEF stageVars, incomingVars
<1>1. /\ UNCHANGED <<stageVars, incomingVars, sent, serving, todo, lostFold>>
      /\ ~Works(h) /\ asked.by = Nobody /\ asked' = [output |-> o, by |-> h]
      /\ handler' = [handler EXCEPT ![h] = begins]
      /\ overlapped' = IF WorkingOn(k) = {} THEN overlapped ELSE overlapped \union {k}
      /\ serving <= sent
  BY DEF Put, In, Works
<1>2. serving \in UnitIndices /\ k \in Keys /\ k[1] = serving
  <2>1. serving \in UnitIndices
    BY <1>1, SomeOutput DEF UnitsInv, InOrder, UnitIndices
  <2> QED
    BY <2>1, UnitKeys
<1>3. /\ Target(k) \in {"stored", "compare", "create"}
      /\ Target(k) = "stored" => serving \in foldedUnits
      /\ Target(k) = "compare" => k \in accepted
  BY <1>2 DEF Target
<1>4. /\ begins \in Handling /\ begins.pc = Target(k) /\ begins.key = k
      /\ begins.pc \in {"stored", "compare", "create"}
  BY <1>2, <1>3 DEF At, Handling, HandlerSteps
<1> HIDE DEF begins
<1>5. /\ handler' \in [Handlers -> Handling] /\ handler'[h] = begins
      /\ \A g \in Handlers : g # h => handler'[g] = handler[g]
  BY <1>1, <1>4 DEF UnitsInv, UnitTypes
<1>6. UnitTypes'
  <2>1. \A g \in Handlers : In(g, "read")' => "got" \in DOMAIN handler'[g]
    BY <1>4, <1>5 DEF UnitsInv, UnitTypes, In
  <2> QED
    BY <1>1, <1>5, <2>1 DEF UnitsInv, UnitTypes
<1>7. InOrder'
  <2>1. \A g \in Handlers : Works(g)' => Unit(g)' <= sent
    BY <1>1, <1>2, <1>4, <1>5 DEF UnitsInv, InOrder, Works, Unit
  <2> QED
    BY <1>1, <2>1 DEF UnitsInv, InOrder
<1>8. Apart'
  <2>1. ASSUME NEW g \in Handlers, g # h, Works(g), handler[g].key = k
        PROVE  k \in overlapped'
    BY <1>1, <2>1 DEF WorkingOn, In, Works
  <2>2. overlapped \subseteq overlapped'
    BY <1>1
  <2> QED
    BY <1>4, <1>5, <2>1, <2>2 DEF UnitsInv, Apart, Works
<1>9. ASSUME NEW g \in Handlers, Works(g)' PROVE Relies(g)'
  <2>1. CASE g = h
    BY <1>1, <1>2, <1>3, <1>4, <1>5, <2>1 DEF Relies
  <2>2. CASE g # h
    <3>1. Works(g) /\ Relies(g) /\ handler'[g] = handler[g]
      BY <1>5, <1>9, <2>2 DEF UnitsInv, Works
    <3>2. overlapped \subseteq overlapped'
      BY <1>1
    <3> QED
      BY <1>1, <3>1, <3>2 DEF Relies
  <2> QED
    BY <2>1, <2>2
<1>10. Answers'
  <2>1. Works(h)' /\ handler'[h].key = k
    BY <1>4, <1>5 DEF Works
  <2>2. asked'.output = o /\ asked'.by = h
    BY <1>1
  <2>3. serving \notin foldedUnits => \A i \in Outputs \ todo : <<serving, i>> \in accepted
    BY DEF UnitsInv, Answers
  <2> QED
    BY <1>1, <2>1, <2>2, <2>3 DEF Answers
<1>11. \A u \in UnitIndices : Folding(u) => Folding(u)'
  BY <1>1, <1>5 DEF Folding, In, Unit, Works
<1>12. Entered'
  BY <1>1, <1>11 DEF UnitsInv, Entered
<1>13. DeliveredFolds'
  <2>1. NextUnit..(serving - 1) \subseteq UnitIndices
    BY SomeOutput DEF UnitsInv, InOrder, UnitIndices
  <2> QED
    BY <1>1, <1>11, <2>1 DEF UnitsInv, DeliveredFolds
<1>14. AddedOnce' /\ AcceptedStored'
  <2>1. overlapped \subseteq overlapped'
    BY <1>1
  <2> QED
    BY <1>1, <2>1 DEF UnitsInv, AddedOnce, AcceptedStored
<1> QED
  BY <1>6, <1>7, <1>8, <1>9, <1>10, <1>12, <1>13, <1>14 DEF UnitsInv

\* With the last answer of a unit, all of its outputs have been accepted.
LEMMA StoredStep == \A h \in Handlers : UnitsInv /\ Stored(h) => UnitsInv'
<1> SUFFICES ASSUME NEW h \in Handlers, UnitsInv, Stored(h) PROVE UnitsInv'
  OBVIOUS
<1> DEFINE o == asked.output
           last == todo = {o}
<1> USE DEF stageVars, incomingVars, historyVars
<1>1. /\ UNCHANGED <<stageVars, incomingVars, sent, historyVars>>
      /\ Works(h) /\ handler[h].pc = "stored" /\ asked.by = h /\ asked' = NotAsked
      /\ handler' = [handler EXCEPT ![h] = Idle]
      /\ last => serving' = serving + 1 /\ todo' = Outputs
      /\ ~last => serving' = serving /\ todo' = todo \ {o}
  BY DEF Stored, In, Works
<1>2. o \in Outputs /\ handler[h].key = <<serving, o>>
  BY <1>1, SomeOutput DEF UnitsInv, Answers, NotAsked, UnitTypes
<1>3. serving \in UnitIndices /\ serving <= sent /\ Unit(h) = serving
  BY <1>1, <1>2, WorkingType DEF UnitsInv, InOrder, Unit
<1>4. serving \notin foldedUnits => \A i \in (Outputs \ todo) \union {o} : <<serving, i>> \in accepted
  BY <1>1, <1>2, <1>3 DEF UnitsInv, Answers, Relies, Unit
<1>5. /\ handler' \in [Handlers -> Handling] /\ handler'[h].pc = "idle"
      /\ \A g \in Handlers : g # h => handler'[g] = handler[g]
  BY <1>1 DEF UnitsInv, UnitTypes, Handling, Idle
<1>6. todo' \in SUBSET Outputs
  BY <1>1 DEF UnitsInv, UnitTypes
<1>7. UnitTypes'
  <2>1. \A g \in Handlers : In(g, "read")' => "got" \in DOMAIN handler'[g]
    BY <1>5 DEF UnitsInv, UnitTypes, In
  <2>2. asked' \in [output : Outputs \union {"none"}, by : Handlers \union {Nobody}]
    BY <1>1 DEF NotAsked
  <2> QED
    BY <1>1, <1>5, <1>6, <2>1, <2>2 DEF UnitsInv, UnitTypes
<1>8. InOrder'
  <2>1. \A g \in Handlers : Works(g)' => Unit(g)' <= sent
    BY <1>5 DEF UnitsInv, InOrder, Works, Unit
  <2>2. serving' \in 0..(sent + 1)
    BY <1>1, <1>3, SomeOutput DEF UnitsInv, InOrder, UnitIndices
  <2> QED
    BY <1>1, <2>1, <2>2 DEF UnitsInv, InOrder
<1>9. Apart'
  BY <1>1, <1>5 DEF UnitsInv, Apart, Works
<1>10. ASSUME NEW g \in Handlers, Works(g)' PROVE Relies(g)'
  <2>1. Works(g) /\ Relies(g) /\ handler'[g] = handler[g]
    BY <1>5, <1>10 DEF UnitsInv, Works
  <2> QED
    BY <1>1, <2>1 DEF Relies
<1>11. Answers'
  <2>1. CASE last
    BY <1>1, <2>1 DEF Answers, NotAsked
  <2>2. CASE ~last
    BY <1>1, <1>4, <2>2 DEF Answers, NotAsked
  <2> QED
    BY <2>1, <2>2
<1>12. \A u \in UnitIndices : Folding(u) => Folding(u)'
  BY <1>1, <1>5 DEF Folding, In, Unit
<1>13. Entered'
  BY <1>1, <1>12 DEF UnitsInv, Entered
<1>14. DeliveredFolds'
  <2>1. ASSUME NEW u \in NextUnit..(serving - 1)
        PROVE  u \in foldedUnits \/ Folding(u)' \/ u \in lostFold
    <3>1. u \in UnitIndices
      BY <2>1, SomeOutput DEF UnitsInv, InOrder, UnitIndices
    <3> QED
      BY <1>12, <2>1, <3>1 DEF UnitsInv, DeliveredFolds
  <2>2. CASE last
    <3>1. PICK done \in UnitIndices : done = serving
      BY <1>3
    <3>2. done \notin foldedUnits => KeysOf(done) \subseteq accepted
      BY <1>4, <2>2, <3>1 DEF KeysOf
    <3>3. done \in foldedUnits \/ Folding(done)' \/ done \in lostFold
      BY <1>12, <3>2 DEF UnitsInv, Entered
    <3>4. \A u \in NextUnit..(serving' - 1) : u \in NextUnit..(serving - 1) \/ u = done
      BY <1>1, <2>2, <3>1, SomeOutput DEF UnitIndices
    <3> QED
      BY <1>1, <2>1, <3>3, <3>4 DEF DeliveredFolds
  <2>3. CASE ~last
    BY <1>1, <2>1, <2>3 DEF DeliveredFolds
  <2> QED
    BY <2>2, <2>3
<1>15. AddedOnce' /\ AcceptedStored'
  BY <1>1 DEF UnitsInv, AddedOnce, AcceptedStored
<1> QED
  BY <1>7, <1>8, <1>9, <1>10, <1>11, <1>13, <1>14, <1>15 DEF UnitsInv

-----------------------------------------------------------------------------
(* The steps that accept and fold.                                          *)

\* The handler that enters the last output goes on to the fold.
LEMMA MarkStep == \A h \in Handlers : UnitsInv /\ Mark(h) => UnitsInv'
<1> SUFFICES ASSUME NEW h \in Handlers, UnitsInv, Mark(h) PROVE UnitsInv'
  OBVIOUS
<1> DEFINE k == handler[h].key
           u == k[1]
           folds == [pc |-> "read", key |-> k, got |-> {}, whole |-> TRUE]
<1> USE DEF stageVars, incomingVars, pageVars, historyVars
<1>1. /\ Works(h) /\ ~In(h, "read") /\ handler[h].pc = "mark"
      /\ UNCHANGED <<foldedUnits, added, incomingVars, pageVars, historyVars>>
      /\ k \in Keys /\ u \in UnitIndices /\ k \in KeysOf(u)
  <2>1. Works(h) /\ handler[h].pc = "mark"
    BY DEF Mark, In, Works
  <2> QED
    BY <2>1, WorkingType, UnitKeys DEF Mark, UnitsInv, In
<1>2. CASE u \in foldedUnits
  <2>1. Goes(h, "stored") /\ UNCHANGED accepted /\ "stored" \in HandlerSteps
    BY <1>2 DEF Mark, HandlerSteps
  <2>2. /\ handler'[h].pc = "stored" /\ handler'[h].key = k
        /\ \A g \in Handlers : g # h => handler'[g] = handler[g]
    BY <1>1, <2>1, GoesOn DEF UnitsInv
  <2>3. Relies(h)'
    BY <1>1, <1>2, <2>2 DEF Relies
  <2>4. ASSUME NEW g \in Handlers \ {h}, Works(g) PROVE Relies(g)'
    BY <1>1, <2>1, <2>2, <2>4 DEF UnitsInv, Relies
  <2> QED
    BY <1>1, <2>1, <2>3, <2>4, QuietHandler DEF UnitsInv, UnitTypes
<1>3. CASE u \notin foldedUnits
  <2>1. /\ accepted' = accepted \union {k}
        /\ \/ KeysOf(u) \subseteq accepted' /\ handler' = [handler EXCEPT ![h] = folds]
           \/ ~(KeysOf(u) \subseteq accepted') /\ Goes(h, "stored")
    BY <1>3 DEF Mark
  <2>2. /\ handler' \in [Handlers -> Handling]
        /\ handler'[h].key = k /\ handler'[h].pc \in {"read", "stored"}
        /\ handler'[h].pc = "read" =>
             KeysOf(u) \subseteq accepted' /\ handler'[h].whole /\ "got" \in DOMAIN handler'[h]
        /\ handler'[h].pc = "stored" => ~(KeysOf(u) \subseteq accepted')
        /\ \A g \in Handlers : g # h => handler'[g] = handler[g]
    <3>1. CASE KeysOf(u) \subseteq accepted' /\ handler' = [handler EXCEPT ![h] = folds]
      <4>1. folds \in Handling /\ folds.pc = "read" /\ folds.key = k /\ folds.whole
            /\ "got" \in DOMAIN folds
        BY <1>1 DEF Handling
      <4> HIDE DEF folds
      <4> QED
        BY <3>1, <4>1 DEF UnitsInv, UnitTypes
    <3>2. CASE ~(KeysOf(u) \subseteq accepted') /\ Goes(h, "stored")
      BY <1>1, <3>2, GoesOn DEF UnitsInv, HandlerSteps
    <3> QED
      BY <2>1, <3>1, <3>2
  <2> HIDE DEF k, u, folds
  <2>3. UnitTypes'
    <3>1. \A g \in Handlers : In(g, "read")' => "got" \in DOMAIN handler'[g]
      BY <2>2 DEF UnitsInv, UnitTypes, In
    <3> QED
      BY <1>1, <2>1, <2>2, <3>1 DEF UnitsInv, UnitTypes
  <2>4. \A g \in Handlers : Works(g)' => Works(g) /\ handler'[g].key = handler[g].key
    BY <1>1, <2>2 DEF Works, k
  <2>5. InOrder' /\ Apart'
    BY <1>1, <2>4 DEF UnitsInv, InOrder, Apart, Unit
  <2>6. ASSUME NEW g \in Handlers, Works(g)' PROVE Relies(g)'
    <3>1. CASE g = h
      <4>1. k \in accepted'
        BY <2>1
      <4> QED
        BY <2>2, <3>1, <4>1 DEF Relies, u
    <3>2. CASE g # h
      <4>1. Works(g) /\ Relies(g) /\ handler'[g] = handler[g] /\ accepted \subseteq accepted'
        BY <2>1, <2>2, <2>6, <3>2 DEF UnitsInv, Works
      <4> QED
        BY <1>1, <4>1 DEF Relies
    <3> QED
      BY <3>1, <3>2
  <2>7. Answers'
    <3>1. asked.by # Nobody => Works(asked.by)' /\ handler'[asked.by].key = handler[asked.by].key
      BY <1>1, <2>2 DEF UnitsInv, Answers, Works, k
    <3>2. accepted \subseteq accepted'
      BY <2>1
    <3> QED
      BY <1>1, <3>1, <3>2 DEF UnitsInv, Answers
  <2>8. \A v \in UnitIndices : Folding(v) => Folding(v)'
    BY <1>1, <2>2 DEF Folding, In, Unit
  <2>9. Entered'
    <3>1. ASSUME NEW v \in UnitIndices, KeysOf(v) \subseteq accepted'
          PROVE  Folding(v)' \/ v \in lostFold
      <4>1. CASE v = u
        <5>1. handler'[h].pc = "read" /\ Unit(h)' = v
          BY <2>2, <3>1, <4>1 DEF Unit, u
        <5> QED
          BY <5>1 DEF Folding, In
      <4>2. CASE v # u
        <5>1. KeysOf(v) \subseteq accepted
          BY <1>1, <2>1, <3>1, <4>2, UnitKeys DEF u
        <5> QED
          BY <2>8, <5>1 DEF UnitsInv, Entered
      <4> QED
        BY <4>1, <4>2
    <3> QED
      BY <1>1, <3>1 DEF Entered
  <2>10. DeliveredFolds'
    <3>1. NextUnit..(serving - 1) \subseteq UnitIndices
      BY SomeOutput DEF UnitsInv, InOrder, UnitIndices
    <3> QED
      BY <1>1, <2>8, <3>1 DEF UnitsInv, DeliveredFolds
  <2>11. AddedOnce'
    BY <1>1 DEF UnitsInv, AddedOnce
  <2>12. AcceptedStored'
    <3>1. ready[k] # "none" /\ (k \notin overlapped => ready[k] = "whole")
      BY <1>1, <1>3 DEF UnitsInv, Relies, k, u
    <3> QED
      BY <1>1, <1>3, <2>1, <3>1 DEF UnitsInv, AcceptedStored, u
  <2> QED
    BY <2>3, <2>5, <2>6, <2>7, <2>9, <2>10, <2>11, <2>12 DEF UnitsInv
<1> QED
  BY <1>2, <1>3

\* The unit that is folded is the one the runner has sent last.
LEMMA AddStep == \A h \in Handlers : UnitsInv /\ AddUnit(h) => UnitsInv'
<1> SUFFICES ASSUME NEW h \in Handlers, UnitsInv, AddUnit(h) PROVE UnitsInv'
  OBVIOUS
<1> DEFINE u == Unit(h)
<1> USE DEF incomingVars, pageVars, historyVars
<1>1. /\ Works(h) /\ handler[h].pc = "read" /\ u \in UnitIndices
      /\ UNCHANGED <<incomingVars, pageVars, historyVars>>
  <2>1. Works(h) /\ handler[h].pc = "read"
    BY DEF AddUnit, In, Works
  <2> QED
    BY <2>1, WorkingType DEF AddUnit, UnitsInv
<1>2. CASE u \in foldedUnits
  <2>1. Goes(h, "stored") /\ UNCHANGED stageVars /\ "stored" \in HandlerSteps
    BY <1>2 DEF AddUnit, HandlerSteps
  <2>2. /\ handler'[h].pc = "stored" /\ handler'[h].key = handler[h].key
        /\ \A g \in Handlers : g # h => handler'[g] = handler[g]
    BY <1>1, <2>1, GoesOn DEF UnitsInv
  <2>3. Relies(h)'
    BY <1>2, <2>1, <2>2 DEF Relies, Unit, stageVars
  <2>4. ASSUME NEW g \in Handlers \ {h}, Works(g) PROVE Relies(g)'
    BY <1>1, <2>1, <2>2, <2>4 DEF UnitsInv, Relies, stageVars
  <2> QED
    BY <1>1, <1>2, <2>1, <2>3, <2>4, QuietHandler DEF UnitsInv, UnitTypes
<1>3. CASE u \notin foldedUnits
  <2>1. /\ Goes(h, "clean") /\ "clean" \in HandlerSteps
        /\ added' = [added EXCEPT ![u] = Append(@, handler[h].whole)]
        /\ foldedUnits' = foldedUnits \union {u} /\ accepted' = accepted \ KeysOf(u)
    BY <1>3 DEF AddUnit, HandlerSteps
  <2>2. /\ handler' \in [Handlers -> Handling]
        /\ handler'[h].pc = "clean" /\ handler'[h].key = handler[h].key
        /\ \A g \in Handlers : g # h => handler'[g] = handler[g]
        /\ \A g \in Handlers : In(g, "read")' => "got" \in DOMAIN handler'[g]
    BY <1>1, <2>1, GoesOn DEF UnitsInv
  <2>3. foldedUnits = 0..(sent - 1) /\ u = sent /\ foldedUnits' = 0..sent
    <3>1. u \in 0..(UnitCount - 1) /\ u <= sent /\ sent \in NextUnit..(UnitCount - 1)
      BY <1>1 DEF UnitsInv, InOrder, UnitIndices
    <3>2. foldedUnits = 0..(sent - 1) /\ u = sent
      BY <1>3, <3>1, SomeOutput DEF UnitsInv, InOrder
    <3> QED
      BY <2>1, <3>1, <3>2, SomeOutput
  <2>4. /\ handler[h].whole \in BOOLEAN
        /\ KeysOf(u) \intersect overlapped = {} => handler[h].whole
    <3>1. handler[h].whole \in BOOLEAN
      BY <1>1, WorkingType DEF UnitsInv, UnitTypes, In, HandlerSteps
    <3> QED
      BY <1>1, <1>3, <3>1 DEF UnitsInv, Relies, Unit
  <2>5. /\ added' \in [UnitIndices -> Seq(BOOLEAN)]
        /\ \A v \in UnitIndices : v # u => added'[v] = added[v]
        /\ Len(added'[u]) = 1
        /\ KeysOf(u) \intersect overlapped = {} => added'[u] = <<TRUE>>
    <3>1. added[u] \in Seq(BOOLEAN) /\ Len(added[u]) = 0
      BY <1>1, <1>3, <2>3, SomeOutput DEF UnitsInv, UnitTypes, InOrder, AddedOnce
    <3>2. added[u] = <<>>
      BY <3>1, EmptySeq
    <3>3. added'[u] = <<handler[h].whole>> /\ \A v \in UnitIndices : v # u => added'[v] = added[v]
      BY <1>1, <2>1, <3>2 DEF UnitsInv, UnitTypes
    <3>4. added' \in [UnitIndices -> Seq(BOOLEAN)]
      BY <1>1, <2>1, <2>4, <3>1, AppendProperties DEF UnitsInv, UnitTypes
    <3>5. KeysOf(u) \intersect overlapped = {} => handler[h].whole = TRUE
      BY <2>4
    <3> QED
      BY <3>3, <3>4, <3>5
  <2> HIDE DEF u
  <2>6. UnitTypes'
    BY <1>1, <2>1, <2>2, <2>5 DEF UnitsInv, UnitTypes
  <2>7. \A g \in Handlers : Works(g)' => Works(g) /\ handler'[g].key = handler[g].key
    BY <1>1, <2>2 DEF Works
  <2>8. InOrder' /\ Apart'
    BY <1>1, <2>3, <2>7 DEF UnitsInv, InOrder, Apart, Unit
  <2>9. ASSUME NEW g \in Handlers, Works(g)' PROVE Relies(g)'
    <3>1. CASE g = h
      BY <2>1, <2>2, <3>1 DEF Relies, u, Unit
    <3>2. CASE g # h
      <4> DEFINE k == handler[g].key
      <4>1. Works(g) /\ Relies(g) /\ handler'[g] = handler[g]
        BY <2>2, <2>9, <3>2 DEF UnitsInv, Works
      <4>2. k \in Keys
        BY <4>1, WorkingType DEF UnitsInv
      <4>3. k[1] \notin foldedUnits' =>
              k[1] \notin foldedUnits /\ k \notin KeysOf(u) /\ KeysOf(k[1]) \intersect KeysOf(u) = {}
        BY <1>1, <2>1, <4>2, UnitKeys
      <4> HIDE DEF k
      <4> QED
        BY <1>1, <2>1, <4>1, <4>3 DEF Relies, k
    <3> QED
      BY <3>1, <3>2
  <2>10. Answers'
    <3>1. asked.by # Nobody => Works(asked.by)' /\ handler'[asked.by].key = handler[asked.by].key
      BY <1>1, <2>2 DEF UnitsInv, Answers, Works
    <3>2. serving \notin foldedUnits' => \A o \in Outputs : <<serving, o>> \notin KeysOf(u)
      BY <1>1, <2>1, UnitKeys DEF KeysOf
    <3> QED
      BY <1>1, <2>1, <3>1, <3>2 DEF UnitsInv, Answers
  <2>11. \A v \in UnitIndices : v # u /\ Folding(v) => Folding(v)'
    BY <1>1, <2>2 DEF Folding, In, Unit, u
  <2>12. Entered'
    <3>1. ASSUME NEW v \in UnitIndices, KeysOf(v) \subseteq accepted'
          PROVE  Folding(v)' \/ v \in lostFold
      <4>1. KeysOf(v) \subseteq accepted
        BY <2>1, <3>1
      <4>2. v # u
        <5>1. PICK o \in Outputs : TRUE
          BY SomeOutput
        <5> QED
          BY <2>1, <3>1, <5>1, UnitKeys
      <4> QED
        BY <2>11, <4>1, <4>2 DEF UnitsInv, Entered
    <3> QED
      BY <1>1, <3>1 DEF Entered
  <2>13. DeliveredFolds'
    <3>1. NextUnit..(serving - 1) \subseteq UnitIndices
      BY SomeOutput DEF UnitsInv, InOrder, UnitIndices
    <3> QED
      BY <1>1, <2>1, <2>11, <3>1 DEF UnitsInv, DeliveredFolds
  <2>14. AddedOnce'
    <3>1. ASSUME NEW v \in NextUnit..(UnitCount - 1)
          PROVE  /\ Len(added'[v]) = IF v \in foldedUnits' THEN 1 ELSE 0
                 /\ KeysOf(v) \intersect overlapped = {} => added'[v] \in {<<>>, <<TRUE>>}
      <4>1. v \in UnitIndices
        BY SomeOutput DEF UnitIndices
      <4>2. CASE v = u
        BY <2>1, <2>5, <4>2
      <4>3. CASE v # u
        <5>1. /\ Len(added[v]) = IF v \in foldedUnits THEN 1 ELSE 0
              /\ KeysOf(v) \intersect overlapped = {} => added[v] \in {<<>>, <<TRUE>>}
          BY DEF UnitsInv, AddedOnce
        <5>2. added'[v] = added[v] /\ (v \in foldedUnits' <=> v \in foldedUnits)
          BY <2>1, <2>5, <4>1, <4>3
        <5> QED
          BY <5>1, <5>2
      <4> QED
        BY <4>2, <4>3
    <3> QED
      BY <1>1, <3>1 DEF AddedOnce
  <2>15. AcceptedStored'
    <3>1. ASSUME NEW k \in accepted'
          PROVE  k[1] \notin foldedUnits' /\ k \in accepted
      BY <1>1, <2>1, <3>1, UnitKeys DEF UnitsInv, UnitTypes, AcceptedStored
    <3> QED
      BY <1>1, <3>1 DEF UnitsInv, AcceptedStored
  <2> QED
    BY <2>6, <2>8, <2>9, <2>10, <2>12, <2>13, <2>14, <2>15 DEF UnitsInv
<1> QED
  BY <1>2, <1>3

-----------------------------------------------------------------------------
LEMMA UnitsInvInit == UnitsInit => UnitsInv
<1> SUFFICES ASSUME UnitsInit PROVE UnitsInv
  OBVIOUS
<1>1. \A h \in Handlers : handler[h] = Idle /\ ~Works(h)
  BY DEF UnitsInit, Works, Idle
<1>2. UnitTypes
  <2>1. added \in [UnitIndices -> Seq(BOOLEAN)]
    BY EmptySeq DEF UnitsInit
  <2>2. \A h \in Handlers : ~In(h, "read")
    BY <1>1 DEF In, Idle
  <2> QED
    BY <1>1, <2>1, <2>2 DEF UnitsInit, UnitTypes, Content, Handling, NotAsked
<1>3. InOrder
  BY <1>1, SomeOutput DEF UnitsInit, InOrder
<1>4. Apart /\ Answers /\ DeliveredFolds /\ AcceptedStored
  BY <1>1, SomeOutput DEF UnitsInit, Apart, Answers, NotAsked, DeliveredFolds, AcceptedStored
<1>5. Entered
  <2>1. ASSUME NEW u \in UnitIndices PROVE ~(KeysOf(u) \subseteq accepted)
    BY SomeOutput, UnitKeys DEF UnitsInit
  <2> QED
    BY <2>1 DEF Entered
<1>6. AddedOnce
  <2>1. ASSUME NEW u \in NextUnit..(UnitCount - 1)
        PROVE  u \notin foldedUnits /\ added[u] = <<>>
    BY SomeOutput DEF UnitsInit, UnitIndices
  <2> QED
    BY <2>1, EmptySeq DEF AddedOnce
<1> QED
  BY <1>1, <1>2, <1>3, <1>4, <1>5, <1>6 DEF UnitsInv

LEMMA UnitsInvStep == UnitsInv /\ [UnitsNext]_unitVars => UnitsInv'
<1> SUFFICES ASSUME UnitsInv, [UnitsNext]_unitVars PROVE UnitsInv'
  OBVIOUS
<1>1. CASE SendUnit
  BY <1>1, SendUnitStep
<1>2. CASE Page
  BY <1>2, PageQuiet, StoredStep, PutStep DEF Page
<1>3. ASSUME NEW h \in Handlers, Handle(h) PROVE UnitsInv'
  BY <1>3, CreateQuiet, BodyQuiet, RemoveQuiet, CompareQuiet, PromoteQuiet, MarkStep, AddStep,
     CleanQuiet, ReadQuiet DEF Handle
<1>4. ASSUME NEW h \in Handlers, CutShort(h) \/ ReadFails(h) \/ DropHandler(h) PROVE UnitsInv'
  BY <1>4, BodyQuiet, ReadFailsQuiet, DropQuiet
<1>5. CASE UNCHANGED unitVars
  BY <1>5 DEF unitVars, stageVars, incomingVars, pageVars, historyVars, UnitsInv, UnitTypes, In, InOrder,
              Works, Unit, Apart, Relies, Answers, Entered, Folding, AddedOnce,
              AcceptedStored, DeliveredFolds
<1> QED
  BY <1>1, <1>2, <1>3, <1>4, <1>5 DEF UnitsNext

LEMMA UnitsInvCorrect == UnitsSpec => []UnitsInv
  BY UnitsInvInit, UnitsInvStep, PTL DEF UnitsSpec

-----------------------------------------------------------------------------
(* The theorems.                                                            *)

\* A unit is added to the fold at most once, exactly when it counts as folded, and
\* whole unless two handlers have shared a part file of it.
THEOREM AddedOnceCorrect == UnitsSpec => []AddedOnce
<1>1. UnitsInv => AddedOnce
  BY DEF UnitsInv
<1> QED
  BY <1>1, UnitsInvCorrect, PTL

\* The folded units are the first of the plan.
THEOREM FoldedPrefixCorrect == UnitsSpec => []FoldedPrefix
<1>1. UnitsInv => FoldedPrefix
  <2> SUFFICES ASSUME UnitsInv PROVE FoldedPrefix
    OBVIOUS
  <2>1. sent \in Nat
    BY SomeOutput DEF UnitsInv, InOrder
  <2>2. CASE foldedUnits = 0..(sent - 1)
    <3>1. Cardinality(foldedUnits) = sent
      BY <2>1, <2>2, FS_Interval
    <3> QED
      BY <2>2, <3>1 DEF FoldedPrefix
  <2>3. CASE foldedUnits = 0..sent
    <3>1. Cardinality(foldedUnits) = sent + 1
      BY <2>1, <2>3, FS_Interval
    <3> QED
      BY <2>1, <2>3, <3>1 DEF FoldedPrefix
  <2> QED
    BY <2>2, <2>3 DEF UnitsInv, InOrder
<1> QED
  BY <1>1, UnitsInvCorrect, PTL

\* An accepted output has a file to compare a second PUT with.
THEOREM AcceptedStoredCorrect == UnitsSpec => []AcceptedStored
<1>1. UnitsInv => AcceptedStored
  BY DEF UnitsInv
<1> QED
  BY <1>1, UnitsInvCorrect, PTL

\* A unit the page was told is stored is folded, being folded, or its fold was cut off.
THEOREM DeliveredFoldsCorrect == UnitsSpec => []DeliveredFolds
<1>1. UnitsInv => DeliveredFolds
  BY DEF UnitsInv
<1> QED
  BY <1>1, UnitsInvCorrect, PTL
=============================================================================
