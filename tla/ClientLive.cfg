\* Five data objects, one of them unknown to the server, one at times denied
\* and one of an unsupported type; the requests of a healthy connection are
\* answered, and the server always comes back.
CONSTANTS
  NumObjects = 5
  NumDatasets = 0
  ReadMode = "DO_READING"
  Answer <- AnswersLive
  TransientErrors = FALSE
  MaxFaults = 2
SPECIFICATION LiveSpec
INVARIANT NamesComplete
PROPERTY ServedExported
