SPECIFICATION QuietSpec
CONSTANTS
  MaxProject = 1
  Steps = {"separation", "transcription"}
  AttachLimit = 2
  MaxSignals = 1
PROPERTIES ProcessingSettles ForemostClaimed
