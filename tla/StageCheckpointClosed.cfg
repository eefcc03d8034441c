SPECIFICATION Spec
CONSTANTS
  Starts <- PlanStarts
  Length = 2
  Frames = 5
  CheckpointEvery = 2
  Computations = {"first"}
  MaxAttempts = 2
INVARIANT CommittedGenerationRestores
