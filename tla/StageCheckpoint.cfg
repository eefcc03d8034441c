SPECIFICATION Spec
CONSTANTS
  Starts <- PlanStarts
  Length = 2
  Frames = 5
  CheckpointEvery = 2
  Computations = {"first", "second"}
  MaxAttempts = 3
INVARIANTS FoldExact CheckpointRestores LateCommitsFenced
PROPERTIES ProgressKept DurableSpec
