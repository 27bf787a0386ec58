\* One data object; one request of a healthy connection fails.
CONSTANTS
  NumObjects = 1
  NumDatasets = 0
  ReadMode = "DO_READING"
  Answer <- AnswersAll
  TransientErrors = TRUE
  MaxFaults = 1
SPECIFICATION LiveSpec
PROPERTY ServedExported
