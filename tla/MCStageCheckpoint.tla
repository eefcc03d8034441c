-------------------------- MODULE MCStageCheckpoint --------------------------
(***************************************************************************)
(* Five units of two cells on five cells, as UnitPlan::vocals lays them    *)
(* out: each overlaps the next, and the last two both end at the end of    *)
(* the signal.  Checkpoints fall after two, four and all five of them.     *)
(***************************************************************************)
EXTENDS StageCheckpoint

PlanStarts == <<0, 1, 2, 3, 3>>
=============================================================================
