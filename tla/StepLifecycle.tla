---------------------------- MODULE StepLifecycle ----------------------------
(***************************************************************************)
(* What the job queue promises of the ProcessingStep rows, whoever asks:   *)
(* a row is claimed only when it waits and when no other row is claimed, a *)
(* claimed row settles once, a finished row never changes again short of   *)
(* its project being deleted, and only a retry reopens a failed one.       *)
(***************************************************************************)
CONSTANTS Projects,   \* the ids of the Project table
          Steps       \* the processing steps a project is created with

VARIABLE row          \* row[j]: the status column of row j, "absent" when there is none

Jobs == Projects \X Steps

Init == row = [j \in Jobs |-> "absent"]

Rows(p) == {p} \X Steps

\* A project appears with every row waiting, and takes its rows away with it.
CreateProject(p) ==
    /\ \A j \in Rows(p) : row[j] = "absent"
    /\ row' = [j \in Jobs |-> IF j[1] = p THEN "pending" ELSE row[j]]

RemoveProject(p) ==
    row' = [j \in Jobs |-> IF j[1] = p THEN "absent" ELSE row[j]]

Claim(j) ==
    /\ row[j] = "pending"
    /\ \A k \in Jobs : row[k] # "processing"
    /\ row' = [row EXCEPT ![j] = "processing"]

Settle(j) ==
    /\ row[j] = "processing"
    /\ \E s \in {"pending", "done", "failed"} : row' = [row EXCEPT ![j] = s]

Retry(j) ==
    /\ row[j] = "failed"
    /\ row' = [row EXCEPT ![j] = "pending"]

Recover ==
    row' = [j \in Jobs |-> IF row[j] = "processing" THEN "pending" ELSE row[j]]

Next ==
    \/ \E p \in Projects : CreateProject(p) \/ RemoveProject(p)
    \/ \E j \in Jobs : Claim(j) \/ Settle(j) \/ Retry(j)
    \/ Recover

Spec == Init /\ [][Next]_row
=============================================================================
