SPECIFICATION Spec
CONSTANTS
  MaxProject = 1
  Steps = {"separation", "transcription"}
  AttachLimit = 2
  MaxSignals = 1
INVARIANTS OneProcessing  ParkedOnlyWhileOpen ResultsBeforeStatus 
PROPERTY LifecycleSpec
