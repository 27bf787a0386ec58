\* Two imports in a row of any of the documents.
CONSTANTS
  UIntRange = 2000
  Absent = Absent
  Malformed = Malformed
  Docs <- SmallDocs
  MaxImports = 2
SPECIFICATION Spec
INVARIANT FirstImportIsExact
INVARIANT FailureKeepsPrefix
INVARIANT OnlyValidServers
\* The number of imports is bounded.
CHECK_DEADLOCK FALSE
