---------------------------- MODULE JobQueueProofs ----------------------------
(***************************************************************************)
(* The safety of the job queue for every number of projects, every set of  *)
(* steps and every limit.                                                  *)
(***************************************************************************)
EXTENDS JobQueue, TLAPS

LEMMA TypeInit == Init => TypeOK
<1> SUFFICES ASSUME Init PROVE TypeOK
  OBVIOUS
<1> USE DEF Init
<1>1. nextId \in 1..(MaxProject + 1)
  BY QueueAssumption DEF QueueAssumption
<1>2. /\ row \in [Jobs -> {"absent", "pending", "processing", "done", "failed"}]
      /\ position \in [Projects -> Nat]
      /\ parked \in [Jobs -> Waits \union {NoWait}]
      /\ calls \in [Kinds -> Nat]
  OBVIOUS
<1>3. pc \in PcNames /\ pc \notin Holding /\ pc \notin {"settle", "clear"}
  BY DEF PcNames, Holding
<1> QED
  BY <1>1, <1>2, <1>3 DEF TypeOK

\* The worker's own steps keep the types.
LEMMA TypeDrain == TypeOK /\ Drain => TypeOK'
<1> SUFFICES ASSUME TypeOK, Drain PROVE TypeOK'
  OBVIOUS
<1> USE QueueAssumption DEF QueueAssumption, TypeOK, PcNames, Holding, dbVars, runVars, restVars, sharedVars
<1>1. ASSUME NEW j \in Jobs, ReadJob(j) PROVE TypeOK'
  BY <1>1 DEF ReadJob, EndDrain, NoOutcome
<1>2. CASE ReadNothing \/ ReadFails \/ ClaimMisses \/ ClaimFails
  BY <1>2 DEF ReadNothing, ReadFails, ClaimMisses, ClaimFails, EndDrain, NoOutcome
<1>3. CASE ClaimRow \/ ReadStates \/ ReadStatesFails
  BY <1>3 DEF ClaimRow, ReadStates, ReadStatesFails
<1>4. CASE Revert
  BY <1>4 DEF Revert, WriteRow, NoOutcome
<1>5. CASE Settle
  BY <1>5 DEF Settle, WriteRow, Outcomes
<1>6. CASE Clear
  BY <1>6 DEF Clear, NoOutcome
<1> QED
  BY <1>1, <1>2, <1>3, <1>4, <1>5, <1>6 DEF Drain

\* Settling an answer keeps the types.
LEMMA ResolveType ==
  ASSUME TypeOK, pc \in {"run", "check"}, cancelPermit' \in BOOLEAN,
         NEW status \in {"pending", "done", "failed"}, NEW more \in BOOLEAN,
         NEW wait \in Waits \union {NoWait},
         Resolve(status, more, wait)
  PROVE  TypeOK'
<1>1. job \in Jobs
  BY DEF TypeOK, Holding
<1>2. /\ outcome' \in Outcomes /\ late' \subseteq Jobs
      /\ parked' \in [Jobs -> Waits \union {NoWait}]
  BY <1>1 DEF TypeOK, Resolve, Outcomes
<1> QED
  BY <1>1, <1>2 DEF TypeOK, Resolve, PcNames, Holding, dbVars, restVars

LEMMA TypeStop == TypeOK /\ Stop => TypeOK'
<1> SUFFICES ASSUME TypeOK, Stop PROVE TypeOK'
  OBVIOUS
<1>1. CASE TakeCancel
  <2>1. CASE job[1] \in cancelled
    BY <1>1, <2>1, ResolveType DEF TakeCancel
  <2>2. CASE job[1] \notin cancelled
    BY <1>1, <2>2 DEF TakeCancel, TypeOK, PcNames, Holding, dbVars, runVars, restVars
  <2> QED
    BY <2>1, <2>2
<1>2. CASE CheckClear
  BY <1>2 DEF CheckClear, TypeOK, PcNames, Holding, dbVars, runVars, restVars, sharedVars
<1>3. CASE CheckPaused
  <2>1. cancelPermit' \in BOOLEAN
    BY <1>3 DEF CheckPaused, TypeOK
  <2> QED
    BY <1>3, <2>1, ResolveType DEF CheckPaused
<1>4. CASE CheckFails
  <2>1. cancelPermit' \in BOOLEAN
    BY <1>4 DEF CheckFails, TypeOK
  <2> QED
    BY <1>4, <2>1, ResolveType DEF CheckFails
<1> QED
  BY <1>1, <1>2, <1>3, <1>4 DEF Stop

\* What the next wait may be.
LEMMA NextWaitType ==
  ASSUME TypeOK, pc = "run", NEW reason \in {"absent", "lost"}
  PROVE  NextWait(reason) \in Waits
<1>1. AttachLimit \in Nat \ {0} /\ parked[job] \in Waits \union {NoWait}
  BY QueueAssumption DEF QueueAssumption, TypeOK, Holding
<1>2. CASE parked[job] \in Waits
  BY <1>1, <1>2 DEF NextWait, Waits
<1>3. CASE parked[job] = NoWait
  BY <1>1, <1>3 DEF NextWait, Waits, NoWait
<1> QED
  BY <1>1, <1>2, <1>3

LEMMA TypeRunner == TypeOK /\ Runner => TypeOK'
<1> SUFFICES ASSUME TypeOK, Runner PROVE TypeOK'
  OBVIOUS
<1>1. CASE Report \/ StartSave
  BY <1>1 DEF Report, StartSave, TypeOK, PcNames, Holding, dbVars, restVars, sharedVars
<1>2. CASE CommitSave
  BY <1>2 DEF CommitSave, StoreResult, TypeOK, PcNames, Holding, restVars, sharedVars
<1>3. UNCHANGED cancelPermit => cancelPermit' \in BOOLEAN
  BY DEF TypeOK
<1>4. CASE AnswerFinished
  BY <1>3, <1>4, ResolveType DEF AnswerFinished
<1>5. CASE AnswerFailed
  BY <1>3, <1>5, ResolveType DEF AnswerFailed
<1>6. ASSUME NEW reason \in {"absent", "lost"}, AnswerWaiting(reason) PROVE TypeOK'
  <2> DEFINE wait == NextWait(reason)
  <2>1. pc = "run" /\ UNCHANGED cancelPermit
    BY <1>6 DEF AnswerWaiting
  <2>2. wait \in Waits
    BY <2>1, NextWaitType
  <2>3. \/ Resolve("failed", FALSE, NoWait)
        \/ Resolve("pending", FALSE, wait)
    BY <1>6 DEF AnswerWaiting
  <2> HIDE DEF wait
  <2> QED
    BY <1>3, <2>1, <2>2, <2>3, ResolveType
<1> QED
  BY <1>1, <1>2, <1>4, <1>5, <1>6 DEF Runner

LEMMA TypeWork == TypeOK /\ Work => TypeOK'
  BY DEF TypeOK, PcNames, Holding, Work, Rest, StayUp, Woken, Tick,
         dbVars, runVars, restVars, sharedVars

LEMMA TypeHandlers == TypeOK /\ Handlers => TypeOK'
<1> SUFFICES ASSUME TypeOK, Handlers PROVE TypeOK'
  OBVIOUS
<1> USE QueueAssumption DEF QueueAssumption, TypeOK, Kinds, Up, Calling,
        dbVars, runVars, restVars, sharedVars
<1>1. CASE CreateProject
  <2>1. PICK n \in {0} \union {position[p] : p \in Projects} :
           position' = [position EXCEPT ![nextId] = n + 1]
    BY <1>1 DEF CreateProject
  <2>2. n + 1 \in Nat
    BY <2>1
  <2>3. position' \in [Projects -> Nat]
    <3>1. position \in [Projects -> Nat]
      OBVIOUS
    <3> QED
      BY ONLY <2>1, <2>2, <3>1
  <2>4. nextId' \in 1..(MaxProject + 1)
    BY <1>1 DEF CreateProject
  <2> QED
    BY <1>1, <2>3, <2>4 DEF CreateProject
<1>2. ASSUME NEW p \in Projects, RemoveProject(p) PROVE TypeOK'
  BY <1>2 DEF RemoveProject
<1>3. ASSUME NEW on \in BOOLEAN, PauseAll(on) PROVE TypeOK'
  BY <1>3 DEF PauseAll
<1>4. ASSUME NEW on \in BOOLEAN, NEW p \in Projects, PauseProject(p, on) PROVE TypeOK'
  BY <1>4 DEF PauseProject
<1>5. ASSUME NEW listing \in Listings, OrderProjects(listing) PROVE TypeOK'
  <2>1. PICK S \in SUBSET {p \in Projects : Exists(p)} : listing \in [S -> 0..(MaxProject - 1)]
    BY DEF Listings
  <2>2. \A p \in DOMAIN listing : listing[p] \in Nat
    <3>1. MaxProject \in Nat /\ DOMAIN listing = S
      BY <2>1
    <3>2. \A p \in S : listing[p] \in 0..(MaxProject - 1)
      BY <2>1
    <3> QED
      BY <3>1, <3>2
  <2>3. position' \in [Projects -> Nat]
    <3>1. \A p \in Projects :
             (IF p \in DOMAIN listing THEN listing[p] ELSE position[p]) \in Nat
      BY <2>2
    <3> QED
      BY ONLY <1>5, <3>1 DEF OrderProjects
  <2> QED
    BY <1>5, <2>3 DEF OrderProjects
<1>6. ASSUME NEW j \in Jobs, Retry(j) PROVE TypeOK'
  BY <1>6 DEF Retry
<1> QED
  BY <1>1, <1>2, <1>3, <1>4, <1>5, <1>6 DEF Handlers

LEMMA TypeSignals == TypeOK /\ Signals => TypeOK'
<1> SUFFICES ASSUME TypeOK, Signals PROVE TypeOK'
  OBVIOUS
<1> USE DEF TypeOK, Kinds, dbVars, runVars, restVars
<1>1. CASE PauseChanged
  BY <1>1 DEF PauseChanged
<1>2. CASE Wake
  BY <1>2 DEF Wake
<1>3. CASE ExecutorArrives
  BY <1>3 DEF ExecutorArrives
<1>4. ASSUME NEW p \in Projects, CancelProject(p) PROVE TypeOK'
  BY <1>4 DEF CancelProject
<1> QED
  BY <1>1, <1>2, <1>3, <1>4 DEF Signals

LEMMA TypeProcess == TypeOK /\ (Crash \/ Restart \/ \E j \in Jobs : LateCommit(j)) => TypeOK'
<1> SUFFICES ASSUME TypeOK, Crash \/ Restart \/ \E j \in Jobs : LateCommit(j) PROVE TypeOK'
  OBVIOUS
<1> USE DEF TypeOK, PcNames, Holding, Kinds, dbVars, runVars, restVars, sharedVars
<1>1. CASE Crash
  BY <1>1 DEF Crash
<1>2. CASE Restart
  BY <1>2 DEF Restart
<1>3. ASSUME NEW j \in Jobs, LateCommit(j) PROVE TypeOK'
  BY <1>3 DEF LateCommit, StoreResult
<1> QED
  BY <1>1, <1>2, <1>3

LEMMA TypeStep == TypeOK /\ [Next]_vars => TypeOK'
<1>1. TypeOK /\ UNCHANGED vars => TypeOK'
  BY DEF TypeOK, vars, dbVars, runVars, restVars, sharedVars
<1> QED
  BY <1>1, TypeDrain, TypeStop, TypeRunner, TypeWork, TypeHandlers, TypeSignals,
     TypeProcess DEF Next

\* Every state the queue reaches is well typed.
THEOREM TypeCorrect == Spec => []TypeOK
  BY TypeInit, TypeStep, PTL DEF Spec

-----------------------------------------------------------------------------
(* The inductive invariant: what the safety properties rest on.             *)

\* The worker owns its job from the claim to the settling write.
Working == {"states", "revert", "run", "check", "settle"}

\* Ids that have not been given out have no rows, and the worker's has.
FreshIds == \A j \in Jobs : j[1] >= nextId => row[j] = "absent"
HeldKnown == pc \in Holding => job[1] < nextId

\* Nobody but the worker writes the row it owns, short of deleting it.
HeldRow == pc \in Working => row[job] \in {"processing", "absent"}

\* A job is only claimed for the source it was read with.
ClaimSource == pc = "claim" /\ row[job] # "absent" => HasSource(job)

\* The runner's phase says what it has stored, and the answer follows it.
PhaseReset == pc \notin {"run", "check", "settle", "clear"} => phase = "work"
RunStored ==
    pc \in {"run", "check"} /\ phase = "saved" => job \in stored \/ row[job] = "absent"
SettleStored ==
    pc = "settle" /\ outcome.status = "done" => job \in stored \/ row[job] = "absent"

\* An answer that closes a step has unparked it.
SettleParked ==
    pc = "settle" /\ outcome.status \in {"done", "failed"} => parked[job] = NoWait

IInv ==
    /\ TypeOK
    /\ FreshIds /\ HeldKnown /\ HeldRow /\ OneProcessing
    /\ ClaimSource /\ PhaseReset /\ RunStored /\ SettleStored /\ ResultsBeforeStatus
    /\ SettleParked /\ ParkedOnlyWhileOpen
    /\ StopSignalKept

\* What reading a job does, whether the drain has had it or not.
LEMMA ReadJobEffect ==
  ASSUME NEW j \in Jobs, ReadJob(j)
  PROVE  /\ row' = row /\ stored' = stored /\ nextId' = nextId /\ parked' = parked
         /\ paused' = paused /\ allPaused' = allPaused
         /\ pc = "read" /\ j \in Runnable
         /\ \/ pc' = "rest" /\ phase' = "work"
            \/ pc' = "claim" /\ job' = j /\ UNCHANGED phase
<1>1. CASE j \in attempted
  BY <1>1 DEF ReadJob, EndDrain, Foremost, dbVars, sharedVars
<1>2. CASE j \notin attempted
  BY <1>2 DEF ReadJob, Foremost, dbVars, sharedVars
<1> QED
  BY <1>1, <1>2

LEMMA IInvInit == Init => IInv
<1> SUFFICES ASSUME Init PROVE IInv
  OBVIOUS
<1>1. TypeOK
  BY TypeInit
<1>2. \A j \in Jobs : row[j] = "absent" /\ parked[j] = NoWait
  BY DEF Init
<1>3. pc = "read" /\ phase = "work"
  BY DEF Init
<1> QED
  BY <1>1, <1>2, <1>3 DEF IInv, FreshIds, HeldKnown, HeldRow, OneProcessing, ClaimSource,
     PhaseReset, RunStored, SettleStored, ResultsBeforeStatus, SettleParked,
     ParkedOnlyWhileOpen, StopSignalKept, Holding, Working

\* The rows: ids not given out, and the row the worker owns.
RowsInv == FreshIds /\ HeldKnown /\ HeldRow /\ OneProcessing

LEMMA RowsStep == TypeOK /\ TypeOK' /\ RowsInv /\ [Next]_vars => RowsInv'
<1> SUFFICES ASSUME TypeOK, TypeOK', RowsInv, [Next]_vars PROVE RowsInv'
  OBVIOUS
<1> USE DEF RowsInv, FreshIds, HeldKnown, HeldRow, OneProcessing, Holding, Working
<1>1. /\ row \in [Jobs -> {"absent", "pending", "processing", "done", "failed"}]
      /\ pc \in Holding => job \in Jobs
      /\ nextId \in Nat
  BY QueueAssumption DEF QueueAssumption, TypeOK
<1>2. ASSUME UNCHANGED <<row, nextId, job>>,
             UNCHANGED pc \/ (pc \in Working /\ pc' \in Working)
      PROVE RowsInv'
  BY <1>1, <1>2
<1>3. CASE Drain
  <2>1. ASSUME NEW j \in Jobs, ReadJob(j) PROVE RowsInv'
    <3>1. /\ row' = row /\ nextId' = nextId /\ pc = "read"
          /\ pc' = "rest" \/ (pc' = "claim" /\ job' = j)
      BY <2>1, ReadJobEffect
    <3>3. row[j] = "pending"
      BY <2>1, ReadJobEffect DEF Runnable
    <3>2. j[1] \in Nat /\ j[1] < nextId
      BY <1>1, <3>3 DEF Jobs, Projects
    <3> QED
      BY <1>1, <3>1, <3>2
  <2>2. CASE ReadNothing \/ ReadFails \/ ClaimMisses \/ ClaimFails
    BY <1>1, <2>2 DEF ReadNothing, ReadFails, ClaimMisses, ClaimFails, EndDrain, dbVars
  <2>3. CASE ClaimRow
    BY <1>1, <2>3 DEF ClaimRow, runVars
  <2>4. CASE ReadStates \/ ReadStatesFails
    BY <1>1, <2>4 DEF ReadStates, ReadStatesFails, dbVars, runVars
  <2>5. CASE Revert
    BY <1>1, <2>5 DEF Revert, WriteRow
  <2>6. CASE Settle
    <3>1. outcome.status \in {"pending", "done", "failed"}
      BY <2>6 DEF TypeOK, Settle, Outcomes
    <3> QED
      BY <1>1, <2>6, <3>1 DEF Settle, WriteRow, runVars
  <2>7. CASE Clear
    BY <1>1, <2>7 DEF Clear, dbVars
  <2> QED
    BY <1>3, <2>1, <2>2, <2>3, <2>4, <2>5, <2>6, <2>7 DEF Drain
<1>4. CASE Stop \/ Runner
  BY <1>2, <1>4 DEF Stop, TakeCancel, CheckPaused, CheckClear, CheckFails, Runner, Report,
     StartSave, CommitSave, AnswerFinished, AnswerFailed, AnswerWaiting, Resolve,
     dbVars, runVars
<1>5. CASE Work
  BY <1>1, <1>5 DEF Work, Rest, StayUp, Woken, Tick, dbVars, runVars
<1>6. CASE Handlers
  <2>1. CASE CreateProject
    <3>1. \A j \in Jobs : j[1] \in Nat
      BY DEF Jobs, Projects
    <3>2. /\ row' = [j \in Jobs |-> IF j[1] = nextId THEN "pending" ELSE row[j]]
          /\ nextId' = nextId + 1 /\ UNCHANGED <<pc, job>>
      BY <2>1 DEF CreateProject, Calling, runVars
    <3> QED
      BY <1>1, <3>1, <3>2
  <2>2. ASSUME NEW p \in Projects, RemoveProject(p) PROVE RowsInv'
    BY <1>1, <2>2 DEF RemoveProject, runVars
  <2>3. ASSUME NEW on \in BOOLEAN, PauseAll(on) PROVE RowsInv'
    BY <1>2, <2>3 DEF PauseAll, Calling, runVars
  <2>4. ASSUME NEW on \in BOOLEAN, NEW p \in Projects, PauseProject(p, on) PROVE RowsInv'
    BY <1>2, <2>4 DEF PauseProject, Calling, runVars
  <2>5. ASSUME NEW listing \in Listings, OrderProjects(listing) PROVE RowsInv'
    BY <1>2, <2>5 DEF OrderProjects, Calling, runVars
  <2>6. ASSUME NEW j \in Jobs, Retry(j) PROVE RowsInv'
    BY <1>1, <2>6 DEF Retry, Calling, runVars
  <2> QED
    BY <1>6, <2>1, <2>2, <2>3, <2>4, <2>5, <2>6 DEF Handlers
<1>7. CASE Signals \/ \E j \in Jobs : LateCommit(j)
  BY <1>2, <1>7 DEF Signals, PauseChanged, Wake, ExecutorArrives, CancelProject, LateCommit,
     dbVars, runVars
<1>8. CASE Crash
  BY <1>1, <1>8 DEF Crash, dbVars
<1>9. CASE Restart
  BY <1>1, <1>9 DEF Restart, runVars
<1>10. CASE UNCHANGED vars
  BY <1>2, <1>10 DEF vars, dbVars, runVars
<1> QED
  BY <1>3, <1>4, <1>5, <1>6, <1>7, <1>8, <1>9, <1>10 DEF Next

\* What is stored: a status never runs ahead of it.
StoredInv == ClaimSource /\ PhaseReset /\ RunStored /\ SettleStored /\ ResultsBeforeStatus

LEMMA StoredStep ==
  TypeOK /\ TypeOK' /\ RowsInv /\ StoredInv /\ [Next]_vars => StoredInv'
<1> SUFFICES ASSUME TypeOK, TypeOK', RowsInv, StoredInv, [Next]_vars PROVE StoredInv'
  OBVIOUS
<1> USE DEF StoredInv, ClaimSource, PhaseReset, RunStored, SettleStored,
        ResultsBeforeStatus, HasSource
<1>1. /\ row \in [Jobs -> {"absent", "pending", "processing", "done", "failed"}]
      /\ pc \in Holding => job \in Jobs
      /\ stored \subseteq Jobs
  BY DEF TypeOK
<1>2. ASSUME row' = row, stored \subseteq stored', phase' = phase, outcome' = outcome,
             job' = job, pc' = pc
      PROVE  StoredInv'
  BY <1>1, <1>2
<1>3. CASE Drain
  <2>1. ASSUME NEW j \in Jobs, ReadJob(j) PROVE StoredInv'
    <3>1. HasSource(j)
      BY <2>1, ReadJobEffect DEF Runnable
    <3>2. /\ row' = row /\ stored' = stored /\ pc = "read"
          /\ \/ pc' = "rest" /\ phase' = "work"
             \/ pc' = "claim" /\ job' = j /\ phase' = phase
      BY <2>1, ReadJobEffect
    <3> QED
      BY <1>1, <3>1, <3>2
  <2>2. CASE ReadNothing \/ ReadFails \/ ClaimMisses \/ ClaimFails
    BY <1>1, <2>2 DEF ReadNothing, ReadFails, ClaimMisses, ClaimFails, EndDrain, dbVars
  <2>3. CASE ClaimRow
    BY <1>1, <2>3 DEF ClaimRow, runVars, Holding
  <2>4. CASE ReadStates \/ ReadStatesFails
    BY <1>1, <2>4 DEF ReadStates, ReadStatesFails, dbVars, runVars
  <2>5. CASE Revert
    BY <1>1, <2>5 DEF Revert, WriteRow, Holding
  <2>6. CASE Settle
    <3>1. outcome.status \in {"pending", "done", "failed"}
      BY <2>6 DEF TypeOK, Settle, Outcomes
    <3> QED
      BY <1>1, <2>6, <3>1 DEF Settle, WriteRow, runVars, Holding
  <2>7. CASE Clear
    BY <1>1, <2>7 DEF Clear, dbVars
  <2> QED
    BY <1>3, <2>1, <2>2, <2>3, <2>4, <2>5, <2>6, <2>7 DEF Drain
<1>4. ASSUME pc \in {"run", "check"}, NEW status, NEW more, NEW wait,
             status = "done" => pc = "run" /\ phase = "saved",
             Resolve(status, more, wait)
      PROVE  StoredInv'
  BY <1>1, <1>4 DEF Resolve, dbVars
<1>5. CASE Stop
  <2>1. CASE TakeCancel
    <3>1. CASE job[1] \in cancelled
      BY <1>4, <2>1, <3>1 DEF TakeCancel
    <3>2. CASE job[1] \notin cancelled
      BY <1>1, <2>1, <3>2 DEF TakeCancel, dbVars, runVars
    <3> QED
      BY <3>1, <3>2
  <2>2. CASE CheckPaused
    BY <1>4, <2>2 DEF CheckPaused
  <2>3. CASE CheckClear
    BY <1>1, <2>3 DEF CheckClear, dbVars, runVars
  <2>4. CASE CheckFails
    BY <1>4, <2>4 DEF CheckFails
  <2> QED
    BY <1>5, <2>1, <2>2, <2>3, <2>4 DEF Stop
<1>6. CASE Runner
  <2>1. CASE Report \/ StartSave
    BY <1>1, <2>1 DEF Report, StartSave, dbVars
  <2>2. CASE CommitSave
    <3>1. job \in Jobs
      BY <1>1, <2>2 DEF CommitSave, Holding
    <3>2. ~Exists(job[1]) => row[job] = "absent"
      BY <3>1 DEF Exists, Jobs
    <3>3. /\ row' = row /\ pc' = pc /\ job' = job /\ outcome' = outcome
          /\ pc \in {"run", "check"}
          /\ stored' = IF Exists(job[1]) THEN stored \union {job} ELSE stored
          /\ phase' = IF Exists(job[1]) THEN "saved" ELSE "refused"
      BY <2>2 DEF CommitSave, StoreResult
    <3> QED
      BY <1>1, <3>1, <3>2, <3>3
  <2>3. CASE AnswerFinished
    BY <1>4, <2>3 DEF AnswerFinished
  <2>4. CASE AnswerFailed
    BY <1>4, <2>4 DEF AnswerFailed
  <2>5. ASSUME NEW reason \in {"absent", "lost"}, AnswerWaiting(reason) PROVE StoredInv'
    BY <1>4, <2>5 DEF AnswerWaiting
  <2> QED
    BY <1>6, <2>1, <2>2, <2>3, <2>4, <2>5 DEF Runner
<1>7. CASE Work
  BY <1>1, <1>7 DEF Work, Rest, StayUp, Woken, Tick, dbVars, runVars
<1>8. CASE Handlers
  <2>1. CASE CreateProject
    <3>1. /\ row' = [j \in Jobs |-> IF j[1] = nextId THEN "pending" ELSE row[j]]
          /\ stored' = stored
          /\ UNCHANGED <<pc, job, phase, outcome>>
      BY <2>1 DEF CreateProject, Calling, runVars
    <3>2. pc \in Holding => job[1] # nextId
      BY <1>1, QueueAssumption DEF QueueAssumption, TypeOK, RowsInv, HeldKnown
    <3> QED
      BY <1>1, <3>1, <3>2 DEF Holding
  <2>2. ASSUME NEW p \in Projects, RemoveProject(p) PROVE StoredInv'
    <3>1. /\ row' = [j \in Jobs |-> IF j[1] = p THEN "absent" ELSE row[j]]
          /\ stored' = {j \in stored : j[1] # p}
          /\ UNCHANGED <<pc, job, phase, outcome>>
      BY <2>2 DEF RemoveProject, runVars
    <3>2. \A j \in Jobs : <<j[1], "separation">>[1] = j[1]
      OBVIOUS
    <3> QED
      BY <1>1, <3>1, <3>2 DEF Holding
  <2>3. ASSUME NEW on \in BOOLEAN, PauseAll(on) PROVE StoredInv'
    BY <1>2, <2>3 DEF PauseAll, Calling, runVars
  <2>4. ASSUME NEW on \in BOOLEAN, NEW p \in Projects, PauseProject(p, on)
        PROVE  StoredInv'
    BY <1>2, <2>4 DEF PauseProject, Calling, runVars
  <2>5. ASSUME NEW listing \in Listings, OrderProjects(listing) PROVE StoredInv'
    BY <1>2, <2>5 DEF OrderProjects, Calling, runVars
  <2>6. ASSUME NEW j \in Jobs, Retry(j) PROVE StoredInv'
    BY <1>1, <2>6 DEF Retry, Calling, runVars, Holding
  <2> QED
    BY <1>8, <2>1, <2>2, <2>3, <2>4, <2>5, <2>6 DEF Handlers
<1>9. CASE Signals
  BY <1>2, <1>9 DEF Signals, PauseChanged, Wake, ExecutorArrives, CancelProject,
     dbVars, runVars
<1>10. ASSUME NEW j \in Jobs, LateCommit(j) PROVE StoredInv'
  BY <1>2, <1>10 DEF LateCommit, StoreResult, runVars
<1>11. CASE Crash
  BY <1>1, <1>11 DEF Crash, dbVars
<1>12. CASE Restart
  BY <1>1, <1>12 DEF Restart, runVars
<1>13. CASE UNCHANGED vars
  BY <1>2, <1>13 DEF vars, dbVars, runVars
<1> QED
  BY <1>3, <1>5, <1>6, <1>7, <1>8, <1>9, <1>10, <1>11, <1>12, <1>13 DEF Next

\* What is parked: nothing that is closed.
ParkedInv == SettleParked /\ ParkedOnlyWhileOpen

LEMMA ParkedStep ==
  TypeOK /\ TypeOK' /\ RowsInv /\ ParkedInv /\ [Next]_vars => ParkedInv'
<1> SUFFICES ASSUME TypeOK, TypeOK', RowsInv, ParkedInv, [Next]_vars PROVE ParkedInv'
  OBVIOUS
<1> USE DEF ParkedInv, SettleParked, ParkedOnlyWhileOpen
<1>1. /\ row \in [Jobs -> {"absent", "pending", "processing", "done", "failed"}]
      /\ parked \in [Jobs -> Waits \union {NoWait}]
      /\ pc \in Holding => job \in Jobs
  BY DEF TypeOK
<1>2. ASSUME parked' = parked,
             \A j \in Jobs : row'[j] \in {"done", "failed"} => row'[j] = row[j],
             pc' # "settle" \/ (pc' = pc /\ job' = job /\ outcome' = outcome)
      PROVE  ParkedInv'
  BY <1>1, <1>2
<1>3. CASE Drain
  <2>1. ASSUME NEW j \in Jobs, ReadJob(j) PROVE ParkedInv'
    BY <1>2, <2>1, ReadJobEffect
  <2>2. CASE ReadNothing \/ ReadFails \/ ClaimMisses \/ ClaimFails
    BY <1>2, <2>2 DEF ReadNothing, ReadFails, ClaimMisses, ClaimFails, EndDrain, dbVars,
       sharedVars
  <2>3. CASE ClaimRow \/ ReadStates \/ ReadStatesFails
    BY <1>1, <1>2, <2>3 DEF ClaimRow, ReadStates, ReadStatesFails, dbVars, sharedVars, Holding
  <2>4. CASE Revert
    BY <1>1, <1>2, <2>4 DEF Revert, WriteRow, sharedVars, Holding
  <2>5. CASE Settle
    BY <1>1, <2>5 DEF Settle, WriteRow, sharedVars, Holding
  <2>6. CASE Clear
    BY <1>2, <2>6 DEF Clear, dbVars
  <2> QED
    BY <1>3, <2>1, <2>2, <2>3, <2>4, <2>5, <2>6 DEF Drain
<1>4. ASSUME pc \in {"run", "check"}, NEW status, NEW more, NEW wait,
             status \in {"done", "failed"} => wait = NoWait,
             Resolve(status, more, wait)
      PROVE  ParkedInv'
  <2>1. row[job] \in {"processing", "absent"} /\ job \in Jobs
    BY <1>1, <1>4 DEF RowsInv, HeldRow, Working, Holding
  <2> QED
    BY <1>1, <1>4, <2>1 DEF Resolve, dbVars
<1>5. CASE Stop
  <2>1. CASE TakeCancel
    <3>1. CASE job[1] \in cancelled
      BY <1>4, <2>1, <3>1 DEF TakeCancel
    <3>2. CASE job[1] \notin cancelled
      BY <1>2, <2>1, <3>2 DEF TakeCancel, dbVars
    <3> QED
      BY <3>1, <3>2
  <2>2. CASE CheckPaused
    BY <1>4, <2>2 DEF CheckPaused
  <2>3. CASE CheckClear
    BY <1>2, <2>3 DEF CheckClear, dbVars, sharedVars
  <2>4. CASE CheckFails
    BY <1>4, <2>4 DEF CheckFails
  <2> QED
    BY <1>5, <2>1, <2>2, <2>3, <2>4 DEF Stop
<1>6. CASE Runner
  <2>1. CASE Report \/ StartSave \/ CommitSave
    BY <1>2, <2>1 DEF Report, StartSave, CommitSave, dbVars, sharedVars
  <2>2. CASE AnswerFinished
    BY <1>4, <2>2 DEF AnswerFinished
  <2>3. CASE AnswerFailed
    BY <1>4, <2>3 DEF AnswerFailed
  <2>4. ASSUME NEW reason \in {"absent", "lost"}, AnswerWaiting(reason) PROVE ParkedInv'
    BY <1>4, <2>4 DEF AnswerWaiting
  <2> QED
    BY <1>6, <2>1, <2>2, <2>3, <2>4 DEF Runner
<1>7. CASE Work
  BY <1>2, <1>7 DEF Work, Rest, StayUp, Woken, Tick, dbVars, sharedVars
<1>8. CASE Handlers
  <2>1. CASE CreateProject
    BY <1>1, <1>2, <2>1 DEF CreateProject, Calling, runVars
  <2>2. ASSUME NEW p \in Projects, RemoveProject(p) PROVE ParkedInv'
    BY <1>1, <1>2, <2>2 DEF RemoveProject, runVars
  <2>3. ASSUME NEW on \in BOOLEAN, PauseAll(on) PROVE ParkedInv'
    BY <1>2, <2>3 DEF PauseAll, Calling, runVars
  <2>4. ASSUME NEW on \in BOOLEAN, NEW p \in Projects, PauseProject(p, on)
        PROVE  ParkedInv'
    BY <1>2, <2>4 DEF PauseProject, Calling, runVars
  <2>5. ASSUME NEW listing \in Listings, OrderProjects(listing) PROVE ParkedInv'
    BY <1>2, <2>5 DEF OrderProjects, Calling, runVars
  <2>6. ASSUME NEW j \in Jobs, Retry(j) PROVE ParkedInv'
    BY <1>1, <1>2, <2>6 DEF Retry, Calling, runVars
  <2> QED
    BY <1>8, <2>1, <2>2, <2>3, <2>4, <2>5, <2>6 DEF Handlers
<1>9. CASE Signals \/ \E j \in Jobs : LateCommit(j)
  BY <1>2, <1>9 DEF Signals, PauseChanged, Wake, ExecutorArrives, CancelProject, LateCommit,
     dbVars, runVars
<1>10. CASE Crash
  BY <1>10 DEF Crash
<1>11. CASE Restart
  BY <1>1, <1>2, <1>11 DEF Restart, sharedVars
<1>12. CASE UNCHANGED vars
  BY <1>2, <1>12 DEF vars, dbVars, runVars, sharedVars
<1> QED
  BY <1>3, <1>5, <1>6, <1>7, <1>8, <1>9, <1>10, <1>11, <1>12 DEF Next

\* What stops the worker: a signal is never spent before the rows say so.
LEMMA StopStep ==
  TypeOK /\ TypeOK' /\ RowsInv /\ StopSignalKept /\ [Next]_vars => StopSignalKept'
<1> SUFFICES ASSUME TypeOK, TypeOK', RowsInv, StopSignalKept, [Next]_vars
             PROVE  StopSignalKept'
  OBVIOUS
<1> USE DEF StopSignalKept, Stopped
<1>1. /\ row \in [Jobs -> {"absent", "pending", "processing", "done", "failed"}]
      /\ pc \in Holding => job \in Jobs
      /\ calls \in [Kinds -> Nat]
  BY DEF TypeOK
<1>2. ASSUME pc' = pc, job' = job, allPaused' = allPaused, paused' = paused, calls' = calls,
             removals' = removals, cancelPermit => cancelPermit',
             \A p \in Projects : Exists(p) => Exists(p)'
      PROVE  StopSignalKept'
  <2>1. pc \in Holding => job[1] \in Projects
    BY <1>1 DEF Jobs
  <2> QED
    BY <1>2, <2>1 DEF Holding
<1>4. ASSUME pc' \notin {"claim", "states", "run"} PROVE StopSignalKept'
  BY <1>4
<1>5. row' = row => \A p \in Projects : Exists(p) => Exists(p)'
  BY DEF Exists
<1>6. CASE Drain
  <2>1. ASSUME NEW j \in Jobs, ReadJob(j) PROVE StopSignalKept'
    <3>1. CASE pc' = "rest"
      BY <1>4, <3>1
    <3>2. CASE pc' = "claim" /\ job' = j
      <4>1. ~allPaused /\ row[j] = "pending" /\ j[1] \notin paused
        BY <2>1, ReadJobEffect DEF Runnable
      <4>2. Exists(j[1])
        BY <4>1 DEF Exists, Jobs
      <4>3. ~allPaused' /\ j[1] \notin paused' /\ row' = row
        BY <2>1, <4>1, ReadJobEffect
      <4>4. Exists(j[1])'
        BY <4>2, <4>3 DEF Exists
      <4> QED
        BY <3>2, <4>3, <4>4
    <3> QED
      BY <2>1, <3>1, <3>2, ReadJobEffect
  <2>2. CASE ReadNothing \/ ReadFails \/ ClaimMisses \/ ClaimFails
    BY <1>4, <2>2 DEF ReadNothing, ReadFails, ClaimMisses, ClaimFails, EndDrain
  <2>3. CASE ClaimRow
    <3>1. \A p \in Projects : Exists(p) => Exists(p)'
      BY <1>1, <2>3 DEF ClaimRow, Exists
    <3>2. job[1] \in Projects
      BY <1>1, <2>3 DEF ClaimRow, Holding, Jobs
    <3> QED
      BY <2>3, <3>1, <3>2 DEF ClaimRow, runVars, sharedVars
  <2>4. CASE ReadStates
    BY <1>5, <2>4, <1>1 DEF ReadStates, dbVars, runVars, sharedVars, Holding, Jobs
  <2>5. CASE ReadStatesFails \/ Revert \/ Settle \/ Clear
    BY <1>4, <2>5 DEF ReadStatesFails, Revert, Settle, Clear
  <2> QED
    BY <1>6, <2>1, <2>2, <2>3, <2>4, <2>5 DEF Drain
<1>7. ASSUME NEW status, NEW more, NEW wait, Resolve(status, more, wait)
      PROVE  StopSignalKept'
  BY <1>4, <1>7 DEF Resolve
<1>8. CASE Stop
  <2>1. CASE TakeCancel
    <3>1. CASE job[1] \in cancelled
      BY <1>7, <2>1, <3>1 DEF TakeCancel
    <3>2. CASE job[1] \notin cancelled
      BY <1>4, <2>1, <3>2 DEF TakeCancel
    <3> QED
      BY <3>1, <3>2
  <2>2. CASE CheckPaused \/ CheckFails
    BY <1>7, <2>2 DEF CheckPaused, CheckFails
  <2>3. CASE CheckClear
    BY <2>3 DEF CheckClear, Exists, dbVars, runVars, sharedVars
  <2> QED
    BY <1>8, <2>1, <2>2, <2>3 DEF Stop
<1>9. CASE Runner
  <2>1. CASE Report \/ StartSave \/ CommitSave
    BY <1>2, <1>5, <2>1 DEF Report, StartSave, CommitSave, dbVars, sharedVars
  <2>2. CASE AnswerFinished \/ AnswerFailed
    BY <1>7, <2>2 DEF AnswerFinished, AnswerFailed
  <2>3. ASSUME NEW reason \in {"absent", "lost"}, AnswerWaiting(reason)
        PROVE  StopSignalKept'
    BY <1>7, <2>3 DEF AnswerWaiting
  <2> QED
    BY <1>9, <2>1, <2>2, <2>3 DEF Runner
<1>10. CASE Work
  BY <1>4, <1>10 DEF Work, Rest, StayUp, Woken, Tick
<1>11. ASSUME NEW kind \in Kinds, Calling(kind)
       PROVE  /\ calls'[kind] > 0 /\ UNCHANGED <<pc, job, removals, cancelPermit>>
              /\ \A k \in Kinds : calls[k] > 0 => calls'[k] > 0
  BY <1>1, <1>11 DEF Calling, runVars
<1>12. CASE Handlers
  <2>1. CASE CreateProject
    <3>1. \A p \in Projects : Exists(p) => Exists(p)'
      BY <2>1 DEF CreateProject, Exists, Jobs
    <3>2. pc \in Holding => job[1] \in Projects
      BY <1>1 DEF Jobs
    <3> QED
      BY <2>1, <3>1, <3>2, <1>11 DEF CreateProject, Kinds, Holding
  <2>2. ASSUME NEW p \in Projects, RemoveProject(p) PROVE StopSignalKept'
    <3>1. \A q \in Projects \ {p} : Exists(q) => Exists(q)'
      BY <2>2 DEF RemoveProject, Exists, Jobs
    <3>2. pc \in Holding => job[1] \in Projects
      BY <1>1 DEF Jobs
    <3> QED
      BY <2>2, <3>1, <3>2 DEF RemoveProject, runVars, Holding
  <2>3. ASSUME NEW on \in BOOLEAN, PauseAll(on) PROVE StopSignalKept'
    BY <1>11, <2>3 DEF PauseAll, Kinds
  <2>4. ASSUME NEW on \in BOOLEAN, NEW p \in Projects, PauseProject(p, on)
        PROVE  StopSignalKept'
    BY <1>11, <2>4 DEF PauseProject, Kinds
  <2>5. ASSUME NEW listing \in Listings, OrderProjects(listing) PROVE StopSignalKept'
    BY <1>11, <1>5, <1>1, <2>5 DEF OrderProjects, Kinds, Holding, Jobs
  <2>6. ASSUME NEW j \in Jobs, Retry(j) PROVE StopSignalKept'
    <3>1. \A p \in Projects : Exists(p) => Exists(p)'
      BY <1>1, <2>6 DEF Retry, Exists, Jobs
    <3>2. pc \in Holding => job[1] \in Projects
      BY <1>1 DEF Jobs
    <3> QED
      BY <2>6, <3>1, <3>2, <1>11 DEF Retry, Kinds, Holding
  <2> QED
    BY <1>12, <2>1, <2>2, <2>3, <2>4, <2>5, <2>6 DEF Handlers
<1>13. CASE Signals
  <2>1. CASE PauseChanged
    BY <2>1 DEF PauseChanged
  <2>2. CASE Wake
    <3>1. calls'["pause"] = calls["pause"]
      BY <1>1, <2>2 DEF Wake, Kinds
    <3> QED
      BY <2>2, <3>1, <1>5, <1>1 DEF Wake, dbVars, runVars, Holding, Jobs
  <2>3. CASE ExecutorArrives
    BY <1>2, <1>5, <2>3 DEF ExecutorArrives, dbVars, runVars
  <2>4. ASSUME NEW p \in Projects, CancelProject(p) PROVE StopSignalKept'
    BY <2>4 DEF CancelProject
  <2> QED
    BY <1>13, <2>1, <2>2, <2>3, <2>4 DEF Signals
<1>14. ASSUME NEW j \in Jobs, LateCommit(j) PROVE StopSignalKept'
  BY <1>2, <1>5, <1>14 DEF LateCommit, runVars
<1>15. CASE Crash
  BY <1>4, <1>15 DEF Crash
<1>16. CASE Restart
  BY <1>4, <1>16 DEF Restart
<1>17. CASE UNCHANGED vars
  BY <1>2, <1>5, <1>17 DEF vars, dbVars, runVars, sharedVars
<1> QED
  BY <1>6, <1>8, <1>9, <1>10, <1>12, <1>13, <1>14, <1>15, <1>16, <1>17 DEF Next

LEMMA IInvStep == IInv /\ [Next]_vars => IInv'
  BY TypeStep, RowsStep, StoredStep, ParkedStep, StopStep
  DEF IInv, RowsInv, StoredInv, ParkedInv

\* What holds of every state the queue reaches.
LEMMA IInvCorrect == Spec => []IInv
  BY IInvInit, IInvStep, PTL DEF Spec

\* A processing row is the one the worker holds.
THEOREM OneProcessingCorrect == Spec => []OneProcessing
<1>1. IInv => OneProcessing
  BY DEF IInv
<1> QED
  BY <1>1, IInvCorrect, PTL

\* No stop signal is lost.
THEOREM StopSignalKeptCorrect == Spec => []StopSignalKept
<1>1. IInv => StopSignalKept
  BY DEF IInv
<1> QED
  BY <1>1, IInvCorrect, PTL

\* Nothing parked is closed.
THEOREM ParkedCorrect == Spec => []ParkedOnlyWhileOpen
<1>1. IInv => ParkedOnlyWhileOpen
  BY DEF IInv
<1> QED
  BY <1>1, IInvCorrect, PTL

\* No status runs ahead of what is stored.
THEOREM ResultsCorrect == Spec => []ResultsBeforeStatus
<1>1. IInv => ResultsBeforeStatus
  BY DEF IInv
<1> QED
  BY <1>1, IInvCorrect, PTL

-----------------------------------------------------------------------------
(* The sleep after finding nothing: it is entered with nothing runnable, and *)
(* every step that makes a job runnable leaves a signal, except one.        *)

\* What DrySleeper says holds from the end of the drain on.
Unheard == ~wakePermit /\ calls["wake"] = 0 /\ calls["pause"] = 0
OnlyLateStems ==
    \A j \in Runnable : j[2] # "separation" /\ row[<<j[1], "separation">>] # "done"
DryRest == pc \in {"rest", "sleep"} /\ dry /\ Unheard => OnlyLateStems

\* What is runnable depends on the database alone.
LEMMA DryKept == OnlyLateStems /\ UNCHANGED dbVars => OnlyLateStems'
<1> SUFFICES ASSUME OnlyLateStems, UNCHANGED dbVars PROVE OnlyLateStems'
  OBVIOUS
<1>1. Runnable' = Runnable
  BY DEF dbVars, Runnable, HasSource
<1> QED
  BY <1>1 DEF dbVars, OnlyLateStems

\* A handler that announces itself leaves its signal to be made.
LEMMA CallingHeard ==
  ASSUME TypeOK, NEW kind \in Kinds, Calling(kind)
  PROVE  ~Unheard'
<1>1. calls[kind] \in Nat /\ calls' = [calls EXCEPT ![kind] = calls[kind] + 1]
  BY DEF TypeOK, Calling
<1>2. calls'[kind] # 0
  BY <1>1 DEF TypeOK
<1> QED
  BY <1>2 DEF Unheard, Kinds

LEMMA DryDrain == DryRest /\ (Drain \/ Stop \/ Runner \/ Work) => DryRest'
<1> SUFFICES ASSUME DryRest, Drain \/ Stop \/ Runner \/ Work,
                    pc' \in {"rest", "sleep"}, dry', Unheard'
             PROVE  OnlyLateStems'
  BY DEF DryRest
<1>1. ASSUME NEW j \in Jobs, ReadJob(j) PROVE FALSE
  BY <1>1 DEF ReadJob, EndDrain
<1>2. CASE ReadNothing
  <2>1. OnlyLateStems /\ UNCHANGED dbVars
    BY <1>2 DEF ReadNothing, EndDrain, OnlyLateStems
  <2> QED
    BY <2>1, DryKept
<1>3. CASE Rest \/ StayUp
  <2>1. pc = "rest" /\ dry' = dry /\ UNCHANGED <<dbVars, sharedVars>>
    BY <1>3 DEF Rest, StayUp, restVars
  <2>2. Unheard
    BY <2>1 DEF sharedVars, Unheard
  <2>3. OnlyLateStems
    BY <2>1, <2>2 DEF DryRest
  <2> QED
    BY <2>1, <2>3, DryKept
<1>4. CASE ReadFails \/ ClaimRow \/ ClaimMisses \/ ClaimFails \/ ReadStates
           \/ ReadStatesFails \/ Revert \/ Settle \/ Clear
  BY <1>4 DEF ReadFails, ClaimRow, ClaimMisses, ClaimFails, ReadStates, ReadStatesFails,
     Revert, Settle, Clear, EndDrain
<1>5. CASE Stop \/ Runner
  BY <1>5 DEF Stop, TakeCancel, CheckPaused, CheckClear, CheckFails, Runner, Report,
     StartSave, CommitSave, AnswerFinished, AnswerFailed, AnswerWaiting, Resolve
<1>6. CASE Woken \/ Tick
  BY <1>6 DEF Woken, Tick
<1> QED
  BY <1>1, <1>2, <1>3, <1>4, <1>5, <1>6 DEF Drain, Work

LEMMA DryHandlers == IInv /\ DryRest /\ Handlers => DryRest'
<1> SUFFICES ASSUME IInv, DryRest, Handlers, pc' \in {"rest", "sleep"}, dry', Unheard'
             PROVE  OnlyLateStems'
  BY DEF DryRest
<1>1. TypeOK
  BY DEF IInv
<1>2. ASSUME NEW kind \in Kinds, Calling(kind) PROVE FALSE
  BY <1>1, <1>2, CallingHeard
<1>3. ASSUME NEW p \in Projects, RemoveProject(p) PROVE OnlyLateStems'
  <2>1. OnlyLateStems
    BY <1>3 DEF RemoveProject, DryRest, Unheard, restVars
  <2>2. ASSUME NEW j \in Runnable'
        PROVE  j \in Runnable /\ j[1] # p
    <3>1. /\ j \in Jobs /\ ~allPaused /\ row'[j] = "pending" /\ j[1] \notin paused \ {p}
          /\ j[2] = "separation" \/ <<j[1], "separation">> \in stored'
      BY <1>3, <2>2 DEF Runnable, HasSource, RemoveProject
    <3>2. j[1] # p /\ row[j] = "pending"
      BY <1>3, <3>1 DEF RemoveProject
    <3>3. j[2] = "separation" \/ <<j[1], "separation">> \in stored
      BY <1>3, <3>1 DEF RemoveProject
    <3> QED
      BY <3>1, <3>2, <3>3 DEF Runnable, HasSource
  <2>3. ASSUME NEW j \in Runnable', j[2] # "separation"
        PROVE  row'[<<j[1], "separation">>] = row[<<j[1], "separation">>]
    <3>1. <<j[1], "separation">> \in Jobs
      BY <1>1, <2>2, <2>3 DEF Runnable, HasSource, TypeOK
    <3>2. j[1] # p
      BY <2>2
    <3> QED
      BY <1>3, <3>1, <3>2 DEF RemoveProject
  <2> QED
    BY <2>1, <2>2, <2>3 DEF OnlyLateStems
<1>4. ASSUME NEW on \in BOOLEAN, PauseAll(on) PROVE FALSE
  BY <1>2, <1>4 DEF PauseAll, Kinds
<1>5. ASSUME NEW on \in BOOLEAN, NEW p \in Projects, PauseProject(p, on) PROVE FALSE
  BY <1>2, <1>5 DEF PauseProject, Kinds
<1>6. ASSUME NEW listing \in Listings, OrderProjects(listing) PROVE FALSE
  BY <1>2, <1>6 DEF OrderProjects, Kinds
<1>7. ASSUME NEW j \in Jobs, Retry(j) PROVE FALSE
  BY <1>2, <1>7 DEF Retry, Kinds
<1>8. ~CreateProject
  BY <1>2 DEF CreateProject, Kinds
<1> QED
  BY <1>3, <1>4, <1>5, <1>6, <1>7, <1>8 DEF Handlers

\* The commit a dropped separation left behind is the exception: the stems it
\* stores are new, so its row is not done.
LEMMA DryLate ==
  ASSUME IInv, DryRest, NEW j \in Jobs, LateCommit(j)
  PROVE  DryRest'
<1> SUFFICES ASSUME pc' \in {"rest", "sleep"}, dry', Unheard'
             PROVE  OnlyLateStems'
  BY DEF DryRest
<1>1. OnlyLateStems /\ row' = row /\ allPaused' = allPaused /\ paused' = paused
  BY DEF LateCommit, DryRest, Unheard, restVars
<1>2. stored' \subseteq stored \union {j}
  BY DEF LateCommit, StoreResult
<1>3. ASSUME NEW k \in Runnable', k \notin Runnable
      PROVE  k[2] # "separation" /\ row[<<k[1], "separation">>] # "done"
  <2>1. k \in Jobs /\ k[2] # "separation"
    BY <1>1, <1>3 DEF Runnable, HasSource
  <2>2. <<k[1], "separation">> \in stored' /\ <<k[1], "separation">> \notin stored
    BY <1>1, <1>3, <2>1 DEF Runnable, HasSource
  <2>3. <<k[1], "separation">> \in Jobs
    BY <1>2, <2>2
  <2> QED
    BY <2>1, <2>2, <2>3 DEF IInv, ResultsBeforeStatus
<1> QED
  BY <1>1, <1>3 DEF OnlyLateStems

LEMMA DrySignals == DryRest /\ Signals => DryRest'
<1> SUFFICES ASSUME DryRest, Signals, pc' \in {"rest", "sleep"}, dry', Unheard'
             PROVE  OnlyLateStems'
  BY DEF DryRest
<1>1. CASE PauseChanged \/ Wake \/ ExecutorArrives
  BY <1>1 DEF PauseChanged, Wake, ExecutorArrives, Unheard
<1>2. ASSUME NEW p \in Projects, CancelProject(p) PROVE OnlyLateStems'
  <2>1. OnlyLateStems /\ UNCHANGED dbVars
    BY <1>2 DEF CancelProject, DryRest, Unheard, restVars
  <2> QED
    BY <2>1, DryKept
<1> QED
  BY <1>1, <1>2 DEF Signals

LEMMA DryStep == IInv /\ DryRest /\ [Next]_vars => DryRest'
<1> SUFFICES ASSUME IInv, DryRest, [Next]_vars PROVE DryRest'
  OBVIOUS
<1>1. CASE Crash \/ Restart
  BY <1>1 DEF Crash, Restart, DryRest
<1>2. CASE UNCHANGED vars
  BY <1>2, DryKept DEF vars, restVars, sharedVars, DryRest, Unheard
<1> QED
  BY <1>1, <1>2, DryDrain, DryHandlers, DrySignals, DryLate DEF Next

\* A handler's change is never slept over, whatever the handlers, the crashes
\* and the commits of dropped runners do meanwhile.
THEOREM DrySleeperCorrect == Spec => []DrySleeper
<1>1. Init => DryRest
  BY DEF Init, DryRest
<1>2. DryRest => DrySleeper
  BY DEF DryRest, DrySleeper, Unheard, OnlyLateStems
<1> QED
  BY <1>1, <1>2, DryStep, IInvCorrect, PTL DEF Spec

-----------------------------------------------------------------------------
(* The queue implements the life of its rows: each step is one of the       *)
(* abstract steps, or leaves the rows alone.                                *)

LEMMA LifecycleInit == Init => Lifecycle!Init
  BY DEF Init, Jobs, Lifecycle!Init, Lifecycle!Jobs

LEMMA LifecycleStep == IInv /\ [Next]_vars => [Lifecycle!Next]_row
<1> SUFFICES ASSUME IInv, [Next]_vars PROVE [Lifecycle!Next]_row
  OBVIOUS
<1> USE DEF Lifecycle!Next, Lifecycle!Jobs, Jobs
<1>1. /\ row \in [Jobs -> {"absent", "pending", "processing", "done", "failed"}]
      /\ pc \in Holding => job \in Jobs
  BY DEF IInv, TypeOK
<1>2. CASE row' = row
  BY <1>2
<1>3. CASE ClaimRow
  <2>1. job \in Jobs /\ \A k \in Jobs : row[k] # "processing"
    BY <1>1, <1>3 DEF ClaimRow, IInv, OneProcessing, Holding
  <2>2. Lifecycle!Claim(job)
    BY <1>3, <2>1 DEF ClaimRow, Lifecycle!Claim
  <2> QED
    BY <2>1, <2>2
<1>4. ASSUME pc \in Holding, NEW status \in {"pending", "done", "failed"}, WriteRow(status)
      PROVE  [Lifecycle!Next]_row
  <2>1. CASE row[job] = "processing"
    <3>1. Lifecycle!Settle(job)
      BY <1>1, <1>4, <2>1 DEF WriteRow, Lifecycle!Settle
    <3> QED
      BY <1>1, <1>4, <3>1
  <2>2. CASE row[job] # "processing"
    BY <1>1, <1>4, <2>2 DEF WriteRow
  <2> QED
    BY <2>1, <2>2
<1>5. CASE Revert
  BY <1>4, <1>5 DEF Revert, Holding
<1>6. CASE Settle
  <2>1. outcome.status \in {"pending", "done", "failed"}
    BY <1>6 DEF IInv, TypeOK, Settle, Outcomes
  <2> QED
    BY <1>4, <1>6, <2>1 DEF Settle, Holding
<1>7. CASE CreateProject
  <2>1. nextId \in Projects
    BY <1>7, QueueAssumption DEF QueueAssumption, IInv, TypeOK, CreateProject, Projects
  <2>2. \A j \in Lifecycle!Rows(nextId) : row[j] = "absent"
    <3>1. ASSUME NEW j \in Lifecycle!Rows(nextId) PROVE row[j] = "absent"
      <4>1. j \in Jobs /\ j[1] = nextId /\ nextId >= nextId
        BY <2>1 DEF Lifecycle!Rows, Projects
      <4> QED
        BY <4>1 DEF IInv, FreshIds
    <3> QED
      BY <3>1
  <2>3. Lifecycle!CreateProject(nextId)
    BY <1>7, <2>2 DEF CreateProject, Lifecycle!CreateProject
  <2> QED
    BY <2>1, <2>3
<1>8. ASSUME NEW p \in Projects, RemoveProject(p) PROVE [Lifecycle!Next]_row
  BY <1>8 DEF RemoveProject, Lifecycle!RemoveProject
<1>9. ASSUME NEW j \in Jobs, Retry(j) PROVE [Lifecycle!Next]_row
  BY <1>9 DEF Retry, Lifecycle!Retry
<1>10. CASE Restart
  BY <1>10 DEF Restart, Lifecycle!Recover
<1>11. CASE Drain
  <2>1. ASSUME NEW j \in Jobs, ReadJob(j) PROVE row' = row
    BY <2>1, ReadJobEffect
  <2>2. CASE ReadNothing \/ ReadFails \/ ClaimMisses \/ ClaimFails
    BY <1>2, <2>2 DEF ReadNothing, ReadFails, ClaimMisses, ClaimFails, EndDrain, dbVars
  <2>3. CASE ReadStates \/ ReadStatesFails \/ Clear
    BY <1>2, <2>3 DEF ReadStates, ReadStatesFails, Clear, dbVars
  <2> QED
    BY <1>2, <1>3, <1>5, <1>6, <1>11, <2>1, <2>2, <2>3 DEF Drain
<1>12. CASE Stop \/ Runner
  <2>1. row' = row
    BY <1>12 DEF Stop, TakeCancel, CheckPaused, CheckClear, CheckFails, Runner, Report,
       StartSave, CommitSave, AnswerFinished, AnswerFailed, AnswerWaiting, Resolve, dbVars
  <2> QED
    BY <1>2, <2>1
<1>13. CASE Work \/ Signals \/ Crash \/ \E j \in Jobs : LateCommit(j)
  BY <1>2, <1>13 DEF Work, Rest, StayUp, Woken, Tick, Signals, PauseChanged, Wake,
     ExecutorArrives, CancelProject, Crash, LateCommit, dbVars
<1>14. CASE Handlers
  <2>1. ASSUME NEW on \in BOOLEAN, PauseAll(on) PROVE row' = row
    BY <2>1 DEF PauseAll
  <2>2. ASSUME NEW on \in BOOLEAN, NEW p \in Projects, PauseProject(p, on) PROVE row' = row
    BY <2>2 DEF PauseProject
  <2>3. ASSUME NEW listing \in Listings, OrderProjects(listing) PROVE row' = row
    BY <2>3 DEF OrderProjects
  <2> QED
    BY <1>2, <1>7, <1>8, <1>9, <1>14, <2>1, <2>2, <2>3 DEF Handlers
<1>15. CASE UNCHANGED vars
  BY <1>2, <1>15 DEF vars, dbVars
<1> QED
  BY <1>10, <1>11, <1>12, <1>13, <1>14, <1>15 DEF Next

\* Every behaviour of the queue is a life of its rows.
THEOREM LifecycleImplemented == Spec => LifecycleSpec
  BY LifecycleInit, LifecycleStep, IInvCorrect, PTL DEF Spec, LifecycleSpec, Lifecycle!Spec
=============================================================================
