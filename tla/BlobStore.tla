------------------------------ MODULE BlobStore ------------------------------
(***************************************************************************)
(* The blob tree of the host: publications move staged files into it and   *)
(* then refer to them in the database, while a collector deletes the files *)
(* that are past their retention and that no row refers to.  Publications  *)
(* hold the read side of a fair lock, the collector its write side.        *)
(*                                                                         *)
(* The task of a publication (an HTTP handler, a step runner) may be       *)
(* dropped at any await.  Its guard goes with it; a transaction that has   *)
(* been handed to the blocking pool does not, and runs when it runs.       *)
(***************************************************************************)
EXTENDS Integers

CONSTANTS Publications,   \* each publishes files of its own, under fresh ids
          Parts           \* the files of one publication

ASSUME PartsAssumption == Parts # {}

Blobs == Publications \X Parts
Files(p) == {p} \X Parts

VARIABLES
    file,          \* where the file of each blob is: "none", "staged", "stored"
    aged,          \* blobs whose file was written longer ago than BLOB_RETENTION
    referenced,    \* blobs that a row of the database refers to
    task,          \* what the task of each publication is doing
    handed,        \* publications whose transaction waits in the blocking pool
    gc,            \* what the collector is doing
    candidates,    \* the files it has listed and not decided on yet
    known,         \* the references it has read
    abandoned      \* history: dropped after handing their transaction over

blobVars == <<file, aged, referenced>>
taskVars == <<task, handed, abandoned>>
gcVars == <<gc, candidates, known>>
vars == <<blobVars, taskVars, gcVars>>

Init ==
    /\ file = [b \in Blobs |-> "none"]
    /\ aged = {}
    /\ referenced = {}
    /\ task = [p \in Publications |-> "idle"]
    /\ handed = {}
    /\ gc = "sleep"
    /\ candidates = {}
    /\ known = {}
    /\ abandoned = {}

-----------------------------------------------------------------------------
(* publish.                                                                 *)

Guarded == {"renaming", "writing", "written"}

Step(p, from, to) ==
    /\ task[p] = from
    /\ task' = [task EXCEPT ![p] = to]

Stage(p) ==
    /\ Step(p, "idle", "staged")
    /\ file' = [b \in Blobs |-> IF b \in Files(p) THEN "staged" ELSE file[b]]
    /\ UNCHANGED <<aged, referenced, handed, abandoned, gcVars>>

\* Time passes: a rename does not touch the time a file was written.
Age(b) ==
    /\ file[b] # "none"
    /\ b \notin aged
    /\ aged' = aged \union {b}
    /\ UNCHANGED <<file, referenced, taskVars, gcVars>>

\* The lock is fair: nobody passes a collector that holds it or waits for it.
Enter(p) ==
    /\ Step(p, "staged", "renaming")
    /\ gc = "sleep"
    /\ UNCHANGED <<blobVars, handed, abandoned, gcVars>>

Rename(b) ==
    /\ task[b[1]] = "renaming"
    /\ file[b] = "staged"
    /\ file' = [file EXCEPT ![b] = "stored"]
    /\ UNCHANGED <<aged, referenced, taskVars, gcVars>>

HandOver(p) ==
    /\ \A b \in Files(p) : file[b] = "stored"
    /\ Step(p, "renaming", "writing")
    /\ handed' = handed \union {p}
    /\ UNCHANGED <<blobVars, abandoned, gcVars>>

Answered(p) == IF task[p] = "writing" THEN [task EXCEPT ![p] = "written"] ELSE task

\* The transaction refers to all of the files, or fails and to none.
Transact(p) ==
    /\ p \in handed
    /\ handed' = handed \ {p}
    /\ referenced' \in {referenced, referenced \union Files(p)}
    /\ task' = Answered(p)
    /\ UNCHANGED <<file, aged, abandoned, gcVars>>

\* The answer, or an error of a rename: the guard is dropped.
Return(p) ==
    /\ task[p] \in {"renaming", "written"}
    /\ task' = [task EXCEPT ![p] = "ended"]
    /\ UNCHANGED <<blobVars, handed, abandoned, gcVars>>

\* The task is dropped: the client has gone, or the step is paused.
Drop(p) ==
    /\ task[p] \in {"staged", "renaming", "writing", "written"}
    /\ task' = [task EXCEPT ![p] = "ended"]
    /\ abandoned' = IF task[p] = "writing" THEN abandoned \union {p} ELSE abandoned
    /\ UNCHANGED <<blobVars, handed, gcVars>>

\* Rows that refer to a blob are deleted, or refer to another one instead.
Forget(b) ==
    /\ b \in referenced
    /\ referenced' = referenced \ {b}
    /\ UNCHANGED <<file, aged, taskVars, gcVars>>

-----------------------------------------------------------------------------
(* collect.                                                                 *)

\* Mutant: the retention is compared the wrong way round.
StaleWhileNew == {b \in Blobs : file[b] = "stored" /\ b \notin aged}

Stale == {b \in Blobs : file[b] = "stored" /\ b \in aged}

\* Nothing to delete: the lock is not taken.
List ==
    /\ gc = "sleep"
    /\ candidates' = Stale
    /\ gc' = IF Stale = {} THEN "sleep" ELSE "locking"
    /\ UNCHANGED <<blobVars, taskVars, known>>

\* Mutant: the deletions wait for no publication.
LockAtOnce ==
    /\ gc = "locking"
    /\ gc' = "holding"
    /\ UNCHANGED <<blobVars, taskVars, candidates, known>>

Lock ==
    /\ gc = "locking"
    /\ \A p \in Publications : task[p] \notin Guarded
    /\ gc' = "holding"
    /\ UNCHANGED <<blobVars, taskVars, candidates, known>>

ReadReferenced ==
    /\ gc = "holding"
    /\ known' = referenced
    /\ gc' = "removing"
    /\ UNCHANGED <<blobVars, taskVars, candidates>>

EndCollect ==
    /\ gc' = "sleep"
    /\ candidates' = {}
    /\ known' = {}
    /\ UNCHANGED <<blobVars, taskVars>>

ReadFails == gc = "holding" /\ EndCollect

Decide(b) ==
    /\ gc = "removing"
    /\ b \in candidates
    /\ candidates' = candidates \ {b}
    /\ UNCHANGED <<referenced, taskVars, gc, known>>

RemoveBlob(b) ==
    /\ Decide(b)
    /\ b \notin known
    /\ file' = [file EXCEPT ![b] = "none"]
    /\ aged' = aged \ {b}

\* It is referred to, or cannot be deleted.
Keep(b) == Decide(b) /\ UNCHANGED <<file, aged>>

Collected == gc = "removing" /\ candidates = {} /\ EndCollect

-----------------------------------------------------------------------------
\* The process stops; what was handed over has been committed or never is.
Crash ==
    /\ task' = [p \in Publications |-> IF task[p] = "idle" THEN "idle" ELSE "ended"]
    /\ handed' = {}
    /\ gc' = "sleep"
    /\ candidates' = {}
    /\ known' = {}
    /\ UNCHANGED <<blobVars, abandoned>>

Publish(p) ==
    \/ Stage(p) \/ Enter(p) \/ HandOver(p) \/ Transact(p) \/ Return(p) \/ Drop(p)
    \/ \E part \in Parts : Rename(<<p, part>>)

Collect ==
    \/ List \/ Lock \/ ReadReferenced \/ ReadFails \/ Collected
    \/ \E b \in Blobs : RemoveBlob(b) \/ Keep(b)

Running ==
    \/ \E p \in Publications : Publish(p)
    \/ \E b \in Blobs : Age(b) \/ Forget(b)
    \/ Collect

Next == Running \/ Crash

Spec == Init /\ [][Next]_vars
-----------------------------------------------------------------------------
(* Properties.                                                              *)

\* The type invariant.
TypeOK ==
    /\ file \in [Blobs -> {"none", "staged", "stored"}]
    /\ aged \subseteq Blobs
    /\ referenced \subseteq Blobs
    /\ task \in [Publications -> {"idle", "staged", "ended"} \union Guarded]
    /\ handed \subseteq Publications
    /\ gc \in {"sleep", "locking", "holding", "removing"}
    /\ candidates \subseteq Blobs
    /\ known \subseteq Blobs
    /\ abandoned \subseteq Publications
    /\ gc = "sleep" => candidates = {} /\ known = {}

\* A blob that a row refers to is in the tree, however old its file was when the
\* row was written and wherever the collector stood, unless its publication was
\* dropped between handing its transaction over and the answer.
ReferencedKept ==
    \A b \in referenced : b[1] \notin abandoned => file[b] = "stored"

\* What `keeps_a_blob_referenced_after_the_candidates_were_listed' (garbage.rs)
\* says, without that exception.
ReferencedStored == \A b \in referenced : file[b] = "stored"

Orphan(b) ==
    /\ file[b] = "stored"
    /\ b \notin referenced
    /\ task[b[1]] = "ended"
    /\ b[1] \notin handed

(* While the process is up: publications go on, time passes, the collector's *)
(* task is scheduled, and its reads and deletions do not fail for ever.      *)
Fairness ==
    /\ \A b \in Blobs : WF_vars(Age(b)) /\ WF_vars(Rename(b)) /\ SF_vars(RemoveBlob(b))
    /\ \A p \in Publications : WF_vars(HandOver(p)) /\ WF_vars(Transact(p)) /\ WF_vars(Return(p))
    /\ WF_vars(List) /\ WF_vars(Lock) /\ SF_vars(ReadReferenced) /\ WF_vars(Collected)
    /\ \A b \in Blobs : WF_vars(Keep(b))

FairSpec == Init /\ [][Running]_vars /\ Fairness

\* What a failed, dropped or forgotten publication leaves in the tree is deleted.
OrphansCollected == \A b \in Blobs : Orphan(b) ~> file[b] # "stored"
=============================================================================
