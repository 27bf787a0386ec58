\* Three servers, two reconfigurations with any of three documents; the
\* calls and the readers are fair.
CONSTANTS
  UIntRange = 2000
  Absent = Absent
  Malformed = Malformed
  NoDoc = NoDoc
  Free = Free
  Servers <- SmallServers
  Docs <- SmallDocs
  MaxReconfigures = 2
SPECIFICATION FairSpec
INVARIANT TypeOK
INVARIANT NoIngestAfterDelete
INVARIANT FeedIsSerial
INVARIANT AllClientsOrNone
PROPERTY ConfigStableWhileClientsRun
PROPERTY CallsReturn
PROPERTY SouthPromise
PROPERTY ClientsKeepPromise
\* The plugin may be shut down, and then nothing is left to do.
CHECK_DEADLOCK FALSE
