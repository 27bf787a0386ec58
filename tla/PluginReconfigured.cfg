\* One reconfiguration of a started plugin.
CONSTANTS
  UIntRange = 2000
  Absent = Absent
  Malformed = Malformed
  NoDoc = NoDoc
  Free = Free
  Servers <- SmallServers
  Docs <- ValidDocs
  MaxReconfigures = 1
SPECIFICATION Spec
INVARIANT OnlyConfiguredServersRun
CHECK_DEADLOCK FALSE
