\* Two data objects, one at times denied and one of an unsupported type, read
\* in DO mode, and a dataset that the server does not have; requests may fail
\* on a healthy connection; two faults.
CONSTANTS
  NumObjects = 2
  NumDatasets = 1
  ReadMode = "DO_READING"
  Answer <- AnswersDO
  TransientErrors = TRUE
  MaxFaults = 2
SPECIFICATION FairSpec
INVARIANT TypeOK
INVARIANT ClientInv
INVARIANT ConnectionOwnership
INVARIANT ConnectionExists
INVARIANT NoThreadOutlivesClient
INVARIANT NamesMatchConnection
PROPERTY StopReturns
PROPERTY KeepsPromise
