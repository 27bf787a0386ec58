\* One dataset that the server has; the connection is lost once.
CONSTANTS
  NumObjects = 0
  NumDatasets = 1
  ReadMode = "DATASET_READING"
  Answer <- AnswersAll
  TransientErrors = FALSE
  MaxFaults = 1
SPECIFICATION Spec
INVARIANT NeverCrashes
