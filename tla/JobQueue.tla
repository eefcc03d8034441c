------------------------------- MODULE JobQueue -------------------------------
(***************************************************************************)
(* The processing queue of the host (server/crates/jobs): one worker task  *)
(* that claims the ProcessingStep rows of the projects one after another,  *)
(* drives a step runner, and settles the row with what the runner answers, *)
(* while HTTP handlers create, remove, pause, reorder and retry projects   *)
(* and while the process may stop between any two steps.                   *)
(*                                                                         *)
(* A handler writes the database first and signals the queue afterwards;   *)
(* the two halves are separate actions and the signals under way are in    *)
(* `calls' and `removals'.  A tokio Notify is one stored permit.           *)
(***************************************************************************)
EXTENDS Integers, FiniteSets

CONSTANTS MaxProject,     \* project ids are 1..MaxProject, given out in order
          Steps,          \* the steps a project has, a subset of QueueOrder's
          AttachLimit,    \* ATTACH_LIMIT
          MaxSignals      \* bound: handlers between their write and their signal

QueueOrder == <<"transcription", "voiceRange", "rhythm", "key", "chords", "separation">>

ASSUME QueueAssumption ==
    /\ MaxProject \in Nat
    /\ AttachLimit \in Nat \ {0}
    /\ MaxSignals \in Nat \ {0}
    /\ Steps \subseteq {QueueOrder[i] : i \in 1..6}

Projects == 1..MaxProject
Jobs == Projects \X Steps
NoJob == <<0, "none">>
NoWait == [reason |-> "none", attempt |-> 0]
Waits == [reason : {"absent", "lost"}, attempt : 0..AttachLimit]

VARIABLES
    \* the database
    row,            \* status column of each ProcessingStep row, "absent" if none
    stored,         \* jobs whose result rows exist (for separation: its masters)
    position,       \* Project.position
    paused,         \* projects with Project.paused set
    allPaused,      \* Processing.paused
    nextId,         \* the next id AUTOINCREMENT gives
    \* the worker task
    pc,             \* where the worker stands
    job,            \* the job it read, claims or runs
    attempted,      \* the jobs this drain has taken
    phase,          \* the runner: "work", "saving" (commit under way), "saved"
    ran,            \* Running.executor_ran
    outcome,        \* the status to write, and whether the drain goes on
    worked,         \* Queue.worked
    dry,            \* history: the last drain ended because nothing was runnable
    \* shared memory
    parked,         \* Queue.parked
    wakePermit, cancelPermit,
    cancelled,      \* Queue.cancelled
    late,           \* commits a dropped runner left behind
    calls,          \* signals under way: pause_changed and wake calls not made yet
    removals        \* cancel_project calls not made yet

dbVars == <<row, stored, position, paused, allPaused, nextId>>
runVars == <<job, attempted, phase, ran, outcome>>
restVars == <<worked, dry>>
sharedVars == <<parked, wakePermit, cancelPermit, cancelled, late, calls, removals>>
vars == <<dbVars, pc, runVars, restVars, sharedVars>>

Kinds == {"pause", "wake"}
NoOutcome == [status |-> "none", more |-> FALSE]
Outcomes == [status : {"pending", "done", "failed"}, more : BOOLEAN]

Init ==
    /\ row = [j \in Jobs |-> "absent"]
    /\ stored = {}
    /\ position = [p \in Projects |-> 0]
    /\ paused = {}
    /\ allPaused = FALSE
    /\ nextId = 1
    /\ pc = "read"
    /\ job = NoJob
    /\ attempted = {}
    /\ phase = "work"
    /\ ran = FALSE
    /\ outcome = NoOutcome
    /\ worked = FALSE
    /\ dry = FALSE
    /\ parked = [j \in Jobs |-> NoWait]
    /\ wakePermit = FALSE
    /\ cancelPermit = FALSE
    /\ cancelled = {}
    /\ late = {}
    /\ calls = [kind \in Kinds |-> 0]
    /\ removals = {}

Exists(p) == \E s \in Steps : row[<<p, s>>] # "absent"

-----------------------------------------------------------------------------
(* What the queue reads: the pending rows of unpaused projects whose source *)
(* master is there, the lowest (position, step rank, project id) first.     *)

Rank(s) == CHOOSE i \in 1..6 : QueueOrder[i] = s

\* Analyses read the lead or instrumental master, which separation stores.
HasSource(j) == j[2] = "separation" \/ <<j[1], "separation">> \in stored

Runnable ==
    {j \in Jobs : /\ ~allPaused
                  /\ row[j] = "pending"
                  /\ j[1] \notin paused
                  /\ HasSource(j)}

Before(j, k) ==
    \/ position[j[1]] < position[k[1]]
    \/ /\ position[j[1]] = position[k[1]]
       /\ \/ Rank(j[2]) < Rank(k[2])
          \/ Rank(j[2]) = Rank(k[2]) /\ j[1] < k[1]

Foremost(j) == j \in Runnable /\ \A k \in Runnable \ {j} : Before(j, k)

Stopped(p) == allPaused \/ p \in paused \/ ~Exists(p)

-----------------------------------------------------------------------------
(* drain: read a job, claim it, run it, settle it, and read again.          *)

\* Mutant: a drain that ends does not forget what it took.
EndDrainRemembering(isDry) ==
    /\ pc' = "rest"
    /\ dry' = isDry
    /\ UNCHANGED <<dbVars, runVars, worked>>

EndDrain(isDry) ==
    /\ pc' = "rest"
    /\ job' = NoJob
    /\ attempted' = {}
    /\ dry' = isDry
    /\ phase' = "work"
    /\ ran' = FALSE
    /\ outcome' = NoOutcome
    /\ UNCHANGED <<dbVars, worked>>

ReadJob(j) ==
    /\ pc = "read"
    /\ Foremost(j)
    /\ UNCHANGED sharedVars
    /\ IF j \in attempted
         THEN EndDrain(FALSE)
         ELSE /\ pc' = "claim"
              /\ job' = j
              /\ attempted' = attempted \union {j}
              /\ worked' = TRUE
              /\ UNCHANGED <<dbVars, phase, ran, outcome, dry>>

ReadNothing == pc = "read" /\ Runnable = {} /\ EndDrain(TRUE) /\ UNCHANGED sharedVars

ReadFails == pc = "read" /\ EndDrain(FALSE) /\ UNCHANGED sharedVars

\* Mutants: a claim that does not look at the row, and one that first throws
\* away the stop signal it finds.
ClaimRowBlindly ==
    /\ pc = "claim"
    /\ row' = [row EXCEPT ![job] = "processing"]
    /\ pc' = "states"
    /\ UNCHANGED <<stored, position, paused, allPaused, nextId, runVars, restVars, sharedVars>>

ClaimRowAfresh ==
    /\ pc = "claim"
    /\ row[job] = "pending"
    /\ row' = [row EXCEPT ![job] = "processing"]
    /\ pc' = "states"
    /\ cancelPermit' = FALSE
    /\ UNCHANGED <<stored, position, paused, allPaused, nextId, runVars, restVars,
                   parked, wakePermit, cancelled, late, calls, removals>>

\* start: the claim is a compare-and-set on a waiting row.
ClaimRow ==
    /\ pc = "claim"
    /\ row[job] = "pending"
    /\ row' = [row EXCEPT ![job] = "processing"]
    /\ pc' = "states"
    /\ UNCHANGED <<stored, position, paused, allPaused, nextId, runVars, restVars, sharedVars>>

ClaimMisses == pc = "claim" /\ row[job] # "pending" /\ EndDrain(FALSE) /\ UNCHANGED sharedVars

ClaimFails == pc = "claim" /\ EndDrain(FALSE) /\ UNCHANGED sharedVars

ReadStates ==
    /\ pc = "states"
    /\ pc' = "run"
    /\ UNCHANGED <<dbVars, runVars, restVars, sharedVars>>

ReadStatesFails ==
    /\ pc = "states"
    /\ pc' = "revert"
    /\ UNCHANGED <<dbVars, runVars, restVars, sharedVars>>

\* persist: the write is retried until the database accepts it, and finds no
\* processing row when the project has gone.
WriteRow(status) ==
    row' = [row EXCEPT ![job] = IF @ = "processing" THEN status ELSE @]

Revert ==
    /\ pc = "revert"
    /\ WriteRow("pending")
    /\ pc' = "rest"
    /\ job' = NoJob
    /\ attempted' = {}
    /\ dry' = FALSE
    /\ UNCHANGED <<stored, position, paused, allPaused, nextId,
                   phase, ran, outcome, worked, sharedVars>>

-----------------------------------------------------------------------------
(* execute: the runner against the stop signal and the watchdog.            *)

\* Mutant: only a new wait changes the parked entry.
ResolveParking(status, more, wait) ==
    /\ pc' = "settle"
    /\ outcome' = [status |-> status, more |-> more]
    /\ parked' = IF wait = NoWait THEN parked ELSE [parked EXCEPT ![job] = wait]
    /\ late' = IF phase = "saving" THEN late \union {job} ELSE late
    /\ UNCHANGED <<dbVars, job, attempted, phase, ran, restVars,
                   wakePermit, cancelled, calls, removals>>

\* resolve: the answer becomes the status to write, and the job's parked entry
\* follows it.  A runner dropped while its commit is under way cannot recall it.
Resolve(status, more, wait) ==
    /\ pc' = "settle"
    /\ outcome' = [status |-> status, more |-> more]
    /\ parked' = [parked EXCEPT ![job] = wait]
    /\ late' = IF phase = "saving" THEN late \union {job} ELSE late
    /\ UNCHANGED <<dbVars, job, attempted, phase, ran, restVars,
                   wakePermit, cancelled, calls, removals>>

Report ==
    /\ pc = "run"
    /\ phase = "work"
    /\ ran' = TRUE
    /\ UNCHANGED <<dbVars, pc, job, attempted, phase, outcome, restVars, sharedVars>>

StartSave ==
    /\ pc = "run"
    /\ phase = "work"
    /\ phase' = "saving"
    /\ UNCHANGED <<dbVars, pc, job, attempted, ran, outcome, restVars, sharedVars>>

\* The result rows refer to the project: the insert fails once it has gone.
StoreResult(j) == stored' = IF Exists(j[1]) THEN stored \union {j} ELSE stored

CommitSave ==
    /\ pc \in {"run", "check"}
    /\ phase = "saving"
    /\ StoreResult(job)
    /\ phase' = IF Exists(job[1]) THEN "saved" ELSE "refused"
    /\ UNCHANGED <<row, position, paused, allPaused, nextId, pc, job, attempted,
                   ran, outcome, restVars, sharedVars>>

LateCommit(j) ==
    /\ j \in late
    /\ late' = late \ {j}
    /\ StoreResult(j)
    /\ UNCHANGED <<row, position, paused, allPaused, nextId, pc, runVars, restVars,
                   parked, wakePermit, cancelPermit, cancelled, calls, removals>>

\* Mutant: the runner answers while its commit is under way.
AnswerFinishedEarly ==
    /\ pc = "run"
    /\ phase \in {"saving", "saved"}
    /\ Resolve("done", TRUE, NoWait)
    /\ UNCHANGED cancelPermit

AnswerFinished ==
    /\ pc = "run"
    /\ phase = "saved"
    /\ Resolve("done", TRUE, NoWait)
    /\ UNCHANGED cancelPermit

\* An error of the runner, a panic, or no report within the idle limit.
AnswerFailed == pc = "run" /\ Resolve("failed", TRUE, NoWait) /\ UNCHANGED cancelPermit

\* Mutant: the count goes on past the limit.
NextWaitUnlimited(reason) ==
    [reason |-> reason,
     attempt |-> IF parked[job].reason # reason THEN 1 ELSE parked[job].attempt + 1]

\* next_wait: one more attempt on the same reason, from nothing after progress.
NextWait(reason) ==
    [reason |-> reason,
     attempt |-> IF ran THEN 0
                 ELSE IF parked[job].reason # reason THEN 1
                 ELSE IF parked[job].attempt < AttachLimit
                      THEN parked[job].attempt + 1
                      ELSE AttachLimit]

Exhausted(wait) == wait.reason = "lost" /\ ~ran /\ wait.attempt >= AttachLimit

\* park.  No executor is attached before the first unit is sent, or the one
\* that was is lost; only losses are limited, so the count of absences stops.
AnswerWaiting(reason) ==
    /\ pc = "run"
    /\ phase = "work"
    /\ reason = "absent" => ~ran
    /\ LET wait == NextWait(reason) IN
         IF Exhausted(wait) THEN Resolve("failed", FALSE, NoWait)
                            ELSE Resolve("pending", FALSE, wait)
    /\ UNCHANGED cancelPermit

\* Mutant: the rows are not read again for a pause.
TakeCancelUnread ==
    /\ pc = "run"
    /\ cancelPermit
    /\ cancelPermit' = FALSE
    /\ IF job[1] \in cancelled
         THEN Resolve("pending", FALSE, NoWait)
         ELSE UNCHANGED <<dbVars, pc, runVars, restVars, parked, wakePermit,
                          cancelled, late, calls, removals>>

\* The stop signal: a removed project at once, a pause after reading the rows.
TakeCancel ==
    /\ pc = "run"
    /\ cancelPermit
    /\ cancelPermit' = FALSE
    /\ IF job[1] \in cancelled
         THEN Resolve("pending", FALSE, NoWait)
         ELSE /\ pc' = "check"
              /\ UNCHANGED <<dbVars, runVars, restVars, parked, wakePermit,
                             cancelled, late, calls, removals>>

CheckPaused ==
    /\ pc = "check"
    /\ allPaused \/ job[1] \in paused
    /\ Resolve("pending", FALSE, NoWait)
    /\ UNCHANGED cancelPermit

CheckClear ==
    /\ pc = "check"
    /\ ~Stopped(job[1])
    /\ pc' = "run"
    /\ UNCHANGED <<dbVars, runVars, restVars, sharedVars>>

\* The project row has gone, or the read failed.
CheckFails ==
    /\ pc = "check"
    /\ Resolve("failed", TRUE, NoWait)
    /\ UNCHANGED cancelPermit

\* settle, then what run_job does after it.
Settle ==
    /\ pc = "settle"
    /\ WriteRow(outcome.status)
    /\ pc' = "clear"
    /\ UNCHANGED <<stored, position, paused, allPaused, nextId, runVars, restVars, sharedVars>>

Clear ==
    /\ pc = "clear"
    /\ cancelled' = cancelled \ {job[1]}
    /\ pc' = IF outcome.more THEN "read" ELSE "rest"
    /\ attempted' = IF outcome.more THEN attempted ELSE {}
    /\ job' = NoJob
    /\ phase' = "work"
    /\ ran' = FALSE
    /\ outcome' = NoOutcome
    /\ dry' = FALSE
    /\ UNCHANGED <<dbVars, worked, parked, wakePermit, cancelPermit, late, calls, removals>>

-----------------------------------------------------------------------------
(* work: rest when idle, then sleep until woken or until the interval ends. *)

\* rest_when_idle with no job left, or with a read that failed.
Rest ==
    /\ pc = "rest"
    /\ worked' = FALSE
    /\ pc' = "sleep"
    /\ UNCHANGED <<dbVars, runVars, dry, sharedVars>>

StayUp ==
    /\ pc = "rest"
    /\ worked
    /\ Runnable # {}
    /\ pc' = "sleep"
    /\ UNCHANGED <<dbVars, runVars, restVars, sharedVars>>

Woken ==
    /\ pc = "sleep"
    /\ wakePermit
    /\ wakePermit' = FALSE
    /\ pc' = "read"
    /\ UNCHANGED <<dbVars, runVars, restVars, parked, cancelPermit, cancelled, late,
                   calls, removals>>

Tick ==
    /\ pc = "sleep"
    /\ pc' = "read"
    /\ UNCHANGED <<dbVars, runVars, restVars, sharedVars>>

-----------------------------------------------------------------------------
(* The handlers, and the signals that follow their writes.                  *)

Up == pc # "down"

SignalsUnderWay == calls["pause"] + calls["wake"] + Cardinality(removals)

Calling(kind) ==
    /\ SignalsUnderWay < MaxSignals
    /\ calls' = [calls EXCEPT ![kind] = @ + 1]
    /\ UNCHANGED <<pc, runVars, restVars, parked, wakePermit, cancelPermit, cancelled,
                   late, removals>>

\* A new project goes behind the last one.
CreateProject ==
    /\ Up
    /\ nextId <= MaxProject
    /\ row' = [j \in Jobs |-> IF j[1] = nextId THEN "pending" ELSE row[j]]
    /\ \E n \in {0} \union {position[p] : p \in Projects} :
          /\ \A p \in Projects : position[p] <= n
          /\ position' = [position EXCEPT ![nextId] = n + 1]
    /\ nextId' = nextId + 1
    /\ Calling("wake")
    /\ UNCHANGED <<stored, paused, allPaused>>

RemoveProject(p) ==
    /\ Up
    /\ Exists(p)
    /\ SignalsUnderWay < MaxSignals
    /\ row' = [j \in Jobs |-> IF j[1] = p THEN "absent" ELSE row[j]]
    /\ stored' = {j \in stored : j[1] # p}
    /\ position' = [position EXCEPT ![p] = 0]
    /\ paused' = paused \ {p}
    /\ removals' = removals \union {p}
    /\ UNCHANGED <<allPaused, nextId, pc, runVars, restVars, parked, wakePermit,
                   cancelPermit, cancelled, late, calls>>

PauseAll(on) ==
    /\ Up
    /\ allPaused' = on
    /\ Calling("pause")
    /\ UNCHANGED <<row, stored, position, paused, nextId>>

PauseProject(p, on) ==
    /\ Up
    /\ Exists(p)
    /\ paused' = IF on THEN paused \union {p} ELSE paused \ {p}
    /\ Calling("pause")
    /\ UNCHANGED <<row, stored, position, allPaused, nextId>>

\* A list of ids, some of which may be unknown: each listed project takes the
\* index it is at, the others keep their position.
Listings ==
    UNION {{f \in [S -> 0..(MaxProject - 1)] : \A p, q \in S : f[p] = f[q] => p = q} :
              S \in SUBSET {p \in Projects : Exists(p)}}

OrderProjects(listing) ==
    /\ Up
    /\ position' = [p \in Projects |-> IF p \in DOMAIN listing THEN listing[p] ELSE position[p]]
    /\ Calling("wake")
    /\ UNCHANGED <<row, stored, paused, allPaused, nextId>>

\* Mutant: a retry without the wake.
RetrySilently(j) ==
    /\ Up
    /\ row[j] = "failed"
    /\ row' = [row EXCEPT ![j] = "pending"]
    /\ UNCHANGED <<stored, position, paused, allPaused, nextId, pc, runVars, restVars,
                   sharedVars>>

\* A retry that finds the row no longer failed writes nothing.
Retry(j) ==
    /\ Up
    /\ row[j] = "failed"
    /\ row' = [row EXCEPT ![j] = "pending"]
    /\ Calling("wake")
    /\ UNCHANGED <<stored, position, paused, allPaused, nextId>>

PauseChanged ==
    /\ calls["pause"] > 0
    /\ calls' = [calls EXCEPT !["pause"] = @ - 1]
    /\ cancelPermit' = TRUE
    /\ wakePermit' = TRUE
    /\ UNCHANGED <<dbVars, pc, runVars, restVars, parked, cancelled, late, removals>>

Wake ==
    /\ calls["wake"] > 0
    /\ calls' = [calls EXCEPT !["wake"] = @ - 1]
    /\ wakePermit' = TRUE
    /\ UNCHANGED <<dbVars, pc, runVars, restVars, parked, cancelPermit, cancelled, late,
                   removals>>

CancelProject(p) ==
    /\ p \in removals
    /\ removals' = removals \ {p}
    /\ cancelled' = cancelled \union {p}
    /\ cancelPermit' = TRUE
    /\ UNCHANGED <<dbVars, pc, runVars, restVars, parked, wakePermit, late, calls>>

\* wake_on_arrival: an executor has attached.
ExecutorArrives ==
    /\ Up
    /\ wakePermit' = TRUE
    /\ UNCHANGED <<dbVars, pc, runVars, restVars, parked, cancelPermit, cancelled, late,
                   calls, removals>>

-----------------------------------------------------------------------------
(* The process stops anywhere; a commit under way lands before or never.    *)

Crash ==
    /\ Up
    /\ pc' = "down"
    /\ job' = NoJob
    /\ attempted' = {}
    /\ phase' = "work"
    /\ ran' = FALSE
    /\ outcome' = NoOutcome
    /\ worked' = FALSE
    /\ dry' = FALSE
    /\ parked' = [j \in Jobs |-> NoWait]
    /\ wakePermit' = FALSE
    /\ cancelPermit' = FALSE
    /\ cancelled' = {}
    /\ late' = {}
    /\ calls' = [kind \in Kinds |-> 0]
    /\ removals' = {}
    /\ UNCHANGED dbVars

\* Mutant: the worker is spawned on the rows as they are.
RestartAsIs ==
    /\ pc = "down"
    /\ pc' = "read"
    /\ UNCHANGED <<dbVars, runVars, restVars, sharedVars>>

\* abandon_running_steps, before the worker is spawned.
Restart ==
    /\ pc = "down"
    /\ row' = [j \in Jobs |-> IF row[j] = "processing" THEN "pending" ELSE row[j]]
    /\ pc' = "read"
    /\ UNCHANGED <<stored, position, paused, allPaused, nextId, runVars, restVars, sharedVars>>

-----------------------------------------------------------------------------
Drain ==
    \/ \E j \in Jobs : ReadJob(j)
    \/ ReadNothing \/ ReadFails
    \/ ClaimRow \/ ClaimMisses \/ ClaimFails
    \/ ReadStates \/ ReadStatesFails \/ Revert
    \/ Settle \/ Clear

Stop == TakeCancel \/ CheckPaused \/ CheckClear \/ CheckFails

Runner ==
    \/ Report \/ StartSave \/ CommitSave
    \/ AnswerFinished \/ AnswerFailed
    \/ \E reason \in {"absent", "lost"} : AnswerWaiting(reason)

Work == Rest \/ StayUp \/ Woken \/ Tick

Handlers ==
    \/ CreateProject
    \/ \E p \in Projects : RemoveProject(p)
    \/ \E on \in BOOLEAN : PauseAll(on) \/ \E p \in Projects : PauseProject(p, on)
    \/ \E listing \in Listings : OrderProjects(listing)
    \/ \E j \in Jobs : Retry(j)

Signals ==
    \/ PauseChanged \/ Wake \/ ExecutorArrives
    \/ \E p \in Projects : CancelProject(p)

Next ==
    \/ Drain \/ Stop \/ Runner \/ Work \/ Handlers \/ Signals
    \/ \E j \in Jobs : LateCommit(j)
    \/ Crash \/ Restart

Spec == Init /\ [][Next]_vars

-----------------------------------------------------------------------------
(* Properties.                                                              *)

PcNames == {"down", "read", "claim", "states", "revert", "run", "check",
            "settle", "clear", "rest", "sleep"}
Holding == {"claim", "states", "revert", "run", "check", "settle", "clear"}

\* The type invariant.
TypeOK ==
    /\ row \in [Jobs -> {"absent", "pending", "processing", "done", "failed"}]
    /\ stored \subseteq Jobs
    /\ position \in [Projects -> Nat]
    /\ paused \subseteq Projects
    /\ allPaused \in BOOLEAN
    /\ nextId \in 1..(MaxProject + 1)
    /\ pc \in PcNames
    /\ job \in Jobs \union {NoJob}
    /\ pc \in Holding => job \in Jobs
    /\ attempted \subseteq Jobs
    /\ phase \in {"work", "saving", "saved", "refused"}
    /\ ran \in BOOLEAN
    /\ outcome \in Outcomes \union {NoOutcome}
    /\ pc \in {"settle", "clear"} => outcome \in Outcomes
    /\ worked \in BOOLEAN
    /\ dry \in BOOLEAN
    /\ parked \in [Jobs -> Waits \union {NoWait}]
    /\ wakePermit \in BOOLEAN
    /\ cancelPermit \in BOOLEAN
    /\ cancelled \subseteq Projects
    /\ late \subseteq Jobs
    /\ calls \in [Kinds -> Nat]
    /\ removals \subseteq Projects

\* A row marked processing is the one the worker holds between its claim and its
\* settling write; none is left behind by a failed start, a crash or a removal.
OneProcessing ==
    \A j \in Jobs : row[j] = "processing" =>
        \/ pc = "down"
        \/ pc \in {"states", "revert", "run", "check", "settle"} /\ job = j

\* While the worker starts or runs a step of a project that has been paused or
\* removed, a stop signal is stored or still to be sent: none is lost by being
\* sent before the step runs, merged with another, or taken before the write.
StopSignalKept ==
    pc \in {"claim", "states", "run"} /\ Stopped(job[1]) =>
        cancelPermit \/ calls["pause"] > 0 \/ job[1] \in removals

\* A step is kept parked only while it is still to be done: a parked entry that
\* outlived its step would be shown on it, and count its next loss too early.
ParkedOnlyWhileOpen ==
    \A j \in Jobs : parked[j] # NoWait => row[j] \notin {"done", "failed"}

\* A step is done only after its result is stored, and is run only when the
\* master it reads is stored, whatever commit lands late or process stops.
ResultsBeforeStatus ==
    \A j \in Jobs :
        /\ row[j] = "done" => j \in stored
        /\ row[j] \in {"processing", "done"} => HasSource(j)

\* When the worker sleeps after finding nothing to do and no wake is stored or
\* still to be sent, nothing is runnable: a handler's change is not slept over
\* until the interval ends.  The one thing no wake follows is the late commit of
\* stems by a dropped separation, which makes the analyses of its project
\* runnable while it is not done itself.
DrySleeper ==
    pc = "sleep" /\ dry /\ ~wakePermit /\ calls["wake"] = 0 /\ calls["pause"] = 0 =>
        \A j \in Runnable :
            j[2] # "separation" /\ row[<<j[1], "separation">>] # "done"

\* The queue implements the life of its rows.
Lifecycle == INSTANCE StepLifecycle
LifecycleSpec == Lifecycle!Spec

-----------------------------------------------------------------------------
(* Fairness.  The worker is a task of the runtime and is always scheduled;  *)
(* a read or a write of the database that fails is tried again, here after  *)
(* the interval, and does not fail for ever; a handler that has written its *)
(* change sends its signal.  Nothing is assumed of the runner.              *)

WorkerFairness ==
    /\ SF_vars(\E j \in Jobs : ReadJob(j)) /\ WF_vars(ReadNothing)
    /\ SF_vars(ClaimRow) /\ WF_vars(ClaimMisses)
    /\ SF_vars(ReadStates) /\ WF_vars(Revert)
    /\ WF_vars(Settle) /\ WF_vars(Clear)
    /\ WF_vars(Rest) /\ WF_vars(Tick)
    /\ WF_vars(TakeCancel) /\ WF_vars(CheckPaused \/ CheckClear \/ CheckFails)
    /\ WF_vars(Restart)

SignalFairness ==
    /\ WF_vars(PauseChanged) /\ WF_vars(Wake)
    /\ \A p \in Projects : WF_vars(CancelProject(p))

FairSpec == Spec /\ WorkerFairness /\ SignalFairness

Holds(j) == pc \in Holding \ {"claim"} /\ job = j

\* A step whose project is paused or removed while it is held is let go, however
\* the runner behaves, unless the project is resumed first.
StopHonoured ==
    \A j \in Jobs :
        Holds(j) /\ Stopped(j[1]) ~> ~Holds(j) \/ ~Stopped(j[1])

\* The queue left alone: projects are created and failed steps retried, and the
\* process may stop.  The watchdog answers for a runner that does not; a stop
\* signal would start its wait anew, so it is only fair when they cease.
QuietNext ==
    \/ Drain \/ Runner \/ Work
    \/ CreateProject \/ Wake \/ ExecutorArrives
    \/ \E j \in Jobs : Retry(j) \/ LateCommit(j)
    \/ Crash \/ Restart

QuietSpec ==
    /\ Init /\ [][QuietNext]_vars
    /\ WorkerFairness /\ SignalFairness
    /\ WF_vars(AnswerFailed)

\* A claimed step is settled again.
ProcessingSettles == \A j \in Jobs : row[j] = "processing" ~> row[j] # "processing"

\* The foremost runnable step does not stay so: it is claimed, whatever the
\* drains before it ended on, unless crashes never end.
ForemostClaimed == \A j \in Jobs : []<>~Foremost(j) \/ []<>(pc = "down")
=============================================================================
