\* One data object and two datasets, read in dataset mode; the server has the
\* first dataset only, and at times denies its members.
CONSTANTS
  NumObjects = 1
  NumDatasets = 2
  ReadMode = "DATASET_READING"
  Answer <- AnswersDataset
  TransientErrors = TRUE
  MaxFaults = 2
SPECIFICATION Spec
INVARIANT NoThreadOutlivesClient
INVARIANT NamesMatchConnection
PROPERTY KeepsSafePromise
