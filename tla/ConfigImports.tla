---------------------------- MODULE ConfigImports ----------------------------
(***************************************************************************)
(* The configuration object of the plugin over several imports: each call  *)
(* of IEC61850::setConfig imports a document into the same object, and the *)
(* caller goes on with it whether the import threw or not.                 *)
(***************************************************************************)
EXTENDS ClientConfig

CONSTANTS
    Docs,          \* the documents that may be imported
    MaxImports     \* bound on the number of imports

SectionStates == {"missing", "malformed", "ok"}

\* What the checks on a document establish: a datapoint that is not malformed
\* has an array of protocols, and the period is an int, which is within the
\* range of an unsigned int unless it is negative.
ASSUME DocsAssumption ==
    \A d \in Docs :
      /\ d.exchangedData.state \in SectionStates
      /\ d.exchangedDatasets.state \in SectionStates
      /\ IsArray(d.transport.connections)
      /\ IsArray(d.exchangedData.datapoints)
      /\ IsArray(d.exchangedDatasets.datasets)
      /\ \A i \in DOMAIN d.exchangedData.datapoints :
           LET dp == d.exchangedData.datapoints[i]
           IN  dp # Malformed => IsArray(dp.protocols)
      /\ d.application.period \in Nat => d.application.period < UIntRange

VARIABLES
    config,        \* *m_config
    before,        \* what it was before the last import
    doc,           \* the document of the last import
    ok,            \* did the last import return?
    imports        \* the number of imports

vars == <<config, before, doc, ok, imports>>

Init ==
    /\ config = DefaultConfig /\ before = DefaultConfig
    /\ doc = Absent
    /\ ok = TRUE
    /\ imports = 0

SetConfig(d) ==
    /\ imports < MaxImports
    /\ imports' = imports + 1
    /\ LET result == ImportConfig(config, d)
       IN  config' = result.value /\ ok' = result.ok
    /\ before' = config
    /\ doc' = d

Next == \E d \in Docs : SetConfig(d)

Spec == Init /\ [][Next]_vars

-----------------------------------------------------------------------------
(***************************************************************************)
(* What an import should do, said without the order it does it in.         *)
(***************************************************************************)

\* The value for key of the last element of list that has it.
LastOf(list, HasKey(_)) ==
    list[CHOOSE i \in DOMAIN list :
           HasKey(list[i]) /\ \A j \in DOMAIN list : HasKey(list[j]) => j <= i]

Elements(section, list) == IF section.state = "ok" THEN list ELSE <<>>

ExpectedServers(d) ==
    LET list == d.transport.connections
    IN  [k \in {list[i].key : i \in DOMAIN list} |->
           LastOf(list, LAMBDA conn : conn.key = k).osi]

\* Of the protocols that concern this plugin the last one names the data
\* object, and the last one with a type that the plugin knows its type.
Concerns(protocol) == protocol.name = "iec61850"
Types(protocol) == Concerns(protocol) /\ protocol.typeid \in {"SPS", "MV"}

ExpectedDatapoint(dp) ==
    LET list == dp.protocols
    IN  [label    |-> dp.label,
         dataPath |-> IF \E i \in DOMAIN list : Concerns(list[i])
                        THEN LastOf(list, Concerns).address
                        ELSE "NOT_DEFINED",
         type     |-> IF \E i \in DOMAIN list : Types(list[i])
                        THEN LastOf(list, Types).typeid
                        ELSE "UNKNOWN"]

ExpectedData(d) ==
    LET list == Elements(d.exchangedData, d.exchangedData.datapoints)
    IN  [i \in DOMAIN list |-> ExpectedDatapoint(list[i])]

ExpectedObjects(list, ref) ==
    LET objects == LastOf(list, LAMBDA ds : ds.ref = ref).objects
    IN  [i \in DOMAIN objects |->
           [label    |-> objects[i].label,
            dataPath |-> objects[i].doName,
            type     |-> IF objects[i].typeid \in {"SPS", "MV"}
                           THEN objects[i].typeid ELSE "UNKNOWN"]]

ExpectedDatasets(d) ==
    LET list == Elements(d.exchangedDatasets, d.exchangedDatasets.datasets)
    IN  [r \in {list[i].ref : i \in DOMAIN list} |-> ExpectedObjects(list, r)]

ExpectedMode(d) ==
    IF d.application.mode = "dataset" THEN "DATASET_READING" ELSE "DO_READING"

\* The first document that a plugin imports is stored as it is written:
\* servers and datasets by their keys, the last one with a key winning, the
\* datapoints in their order, two with the same label included, the reading
\* mode, and a period that is no negative number.
FirstImportIsExact ==
    ok /\ imports = 1 =>
        /\ config.servers = ExpectedServers(doc)
        /\ config.exchangedData = ExpectedData(doc)
        /\ config.datasets = ExpectedDatasets(doc)
        /\ config.readMode = ExpectedMode(doc)
        /\ doc.application.period \in Nat
             => config.pollingPeriod = doc.application.period
        /\ doc.application.period = Absent
             => config.pollingPeriod = DefaultConfig.pollingPeriod

ValidTransport(d) ==
    /\ d.transport.state = "ok"
    /\ \A i \in DOMAIN d.transport.connections :
         ValidConnection(d.transport.connections[i])

ValidApplication(d) ==
    d.application.state = "ok" /\ d.application.period # Malformed
                               /\ d.application.mode # Malformed

ValidData(d) ==
    /\ d.exchangedData.state # "malformed"
    /\ LET list == Elements(d.exchangedData, d.exchangedData.datapoints)
       IN  \A i \in DOMAIN list : ValidDatapoint(list[i])

\* An import that throws has stored a prefix of the document: a section is
\* touched only when every section before it was imported as a whole.
FailureKeepsPrefix ==
    ~ok =>
        /\ <<config.pollingPeriod, config.readMode>>
               # <<before.pollingPeriod, before.readMode>>
             => ValidTransport(doc)
        /\ config.exchangedData # before.exchangedData
             => ValidTransport(doc) /\ ValidApplication(doc)
        /\ config.datasets # before.datasets
             => ValidTransport(doc) /\ ValidApplication(doc) /\ ValidData(doc)

\* No document, accepted or refused, makes a client of a server whose
\* connection failed a check: whatever is in the dictionary after an import
\* was there before, or is a connection of the document that is all valid.
OnlyValidServers ==
    \A k \in DOMAIN config.servers :
        \/ k \in DOMAIN before.servers /\ config.servers[k] = before.servers[k]
        \/ \E i \in DOMAIN doc.transport.connections :
               LET conn == doc.transport.connections[i]
               IN  /\ ValidConnection(conn)
                   /\ conn.key = k /\ conn.osi = config.servers[k]
=============================================================================
