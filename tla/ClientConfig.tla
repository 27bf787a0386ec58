---------------------------- MODULE ClientConfig ----------------------------
(***************************************************************************)
(* IEC61850ClientConfig::importConfig as an operator: what importing a     *)
(* JSON document does to the configuration object, and whether it throws.  *)
(*                                                                         *)
(* A document is abstracted to what the import distinguishes.  Each of its *)
(* sections is [state, ...] with state "missing", "malformed" (it fails    *)
(* one of the checks of presence and type made before anything of the      *)
(* section is stored) or "ok"; each element of a list is either Malformed  *)
(* or the record of its values.                                            *)
(*                                                                         *)
(* An import throws at the first check that fails and keeps what it stored *)
(* before: each operator takes the configuration, or the part of it that   *)
(* it stores into, and returns [value, ok].  Then runs the next part only  *)
(* after success.                                                          *)
(***************************************************************************)
EXTENDS Integers, SequencesExt

CONSTANTS
    UIntRange,   \* 2^32, the range of readPollingPeriodInMs
    Absent,      \* a JSON member that is not there
    Malformed    \* a JSON value that fails the checks made on it

ASSUME ConfigAssumption ==
    /\ UIntRange \in Nat \ {0}
    /\ Absent # Malformed /\ Absent \notin Nat /\ Absent # "dataset"

(***************************************************************************)
(* The configuration object.  servers is the map serverConfigDict, from    *)
(* the keys of buildKey to the OSI parameters; datasets is the map         *)
(* selectedDOInExchangedDatasets.                                          *)
(***************************************************************************)
EmptyMap == [k \in {} |-> Absent]

DefaultConfig ==
    [logMinLevel   |-> "none",
     servers       |-> EmptyMap,
     pollingPeriod |-> 1000 % UIntRange,
     readMode      |-> "DO_READING",
     exchangedData |-> <<>>,
     datasets      |-> EmptyMap]

\* The default values of a DatapointConfig.  The functional constraint is a
\* function of the type: ST for SPS, MX for MV, NONE otherwise.
DefaultDatapoint(label) ==
    [label |-> label, dataPath |-> "NOT_DEFINED", type |-> "UNKNOWN"]

Done(value)   == [value |-> value, ok |-> TRUE]
Throws(value) == [value |-> value, ok |-> FALSE]

Then(result, Op(_)) == IF result.ok THEN Op(result.value) ELSE result

\* A JSON array.
IsArray(list) == Len(list) \in Nat /\ DOMAIN list = 1..Len(list)

\* A range-based for over a JSON array, left by the first exception: what is
\* stored before it, and after each of its rounds.
Rounds(start, list, Op(_, _)) ==
    LET after[i \in 0..Len(list)] ==
          IF i = 0 THEN Done(start)
                   ELSE Then(after[i - 1], LAMBDA v : Op(v, list[i]))
    IN  after

ForEach(start, list, Op(_, _)) ==
    Rounds(start, list, Op)[Len(list)]

\* Assignment to an element of a std::map.
Put(map, key, value) ==
    [k \in DOMAIN map \cup {key} |-> IF k = key THEN value ELSE map[k]]

-----------------------------------------------------------------------------
(***************************************************************************)
(* The transport layer.                                                    *)
(***************************************************************************)

\* A connection is stored when all of it is valid, its OSI section included;
\* one with the key of an earlier one replaces it.
ValidConnection(conn) == conn # Malformed /\ conn.osi # Malformed

\* Faulty variant: the server is stored before its OSI section is checked.
ImportConnectionEarly(servers, conn) ==
    IF conn = Malformed THEN Throws(servers)
      ELSE [value |-> Put(servers, conn.key, conn.osi),
            ok    |-> conn.osi # Malformed]

ImportConnection(servers, conn) ==
    IF ValidConnection(conn) THEN Done(Put(servers, conn.key, conn.osi))
                             ELSE Throws(servers)

ImportTransportLayer(config, transport) ==
    IF transport.state # "ok" THEN Throws(config)
      ELSE LET stored == ForEach(config.servers, transport.connections,
                                 ImportConnection)
           IN  [value |-> [config EXCEPT !.servers = stored.value],
                ok    |-> stored.ok]

-----------------------------------------------------------------------------
(***************************************************************************)
(* The application layer.                                                  *)
(***************************************************************************)

\* GetInt() assigned to an unsigned int.
ImportReadingPeriod(config, period) ==
    CASE period = Absent    -> Done(config)
      [] period = Malformed -> Throws(config)
      [] OTHER -> Done([config EXCEPT !.pollingPeriod = period % UIntRange])

ImportReadMode(config, mode) ==
    CASE mode = Absent    -> Done(config)
      [] mode = Malformed -> Throws(config)
      [] OTHER -> Done([config EXCEPT !.readMode =
                          IF mode = "dataset" THEN "DATASET_READING"
                                              ELSE "DO_READING"])

ImportApplicationLayer(config, application) ==
    IF application.state # "ok" THEN Throws(config)
      ELSE Then(ImportReadingPeriod(config, application.period),
                LAMBDA c : ImportReadMode(c, application.mode))

ImportProtocolStack(config, doc) ==
    Then(ImportTransportLayer(config, doc.transport),
         LAMBDA c : ImportApplicationLayer(c, doc.application))

-----------------------------------------------------------------------------
(***************************************************************************)
(* The exchanged data and datasets.                                        *)
(***************************************************************************)

\* A typeid other than SPS and MV is logged and leaves the type as it was.
SetDatapointType(dpConfig, typeid) ==
    IF typeid \in {"SPS", "MV"} THEN [dpConfig EXCEPT !.type = typeid]
                                ELSE dpConfig

\* The part of a protocol that concerns this plugin: the last one counts.
ApplyProtocol(dpConfig, protocol) ==
    IF protocol.name # "iec61850" THEN dpConfig
      ELSE SetDatapointType([dpConfig EXCEPT !.dataPath = protocol.address],
                            protocol.typeid)

\* The datapoint that an element of exchanged_data describes.
DatapointOf(dp) ==
    LET after[i \in 0..Len(dp.protocols)] ==
          IF i = 0 THEN DefaultDatapoint(dp.label)
                   ELSE ApplyProtocol(after[i - 1], dp.protocols[i])
    IN  after[Len(dp.protocols)]

ValidList(list) == \A i \in DOMAIN list : list[i] # Malformed

ValidDatapoint(dp) == dp # Malformed /\ ValidList(dp.protocols)

\* Faulty variant: a datapoint replaces one of the same label.
ImportDatapointByLabel(data, dp) ==
    IF ~ValidDatapoint(dp) THEN Throws(data)
      ELSE Done(Append(SelectSeq(data, LAMBDA d : d.label # dp.label),
                       DatapointOf(dp)))

\* The datapoint is stored once all its protocols were accepted.
ImportDatapoint(data, dp) ==
    IF ValidDatapoint(dp) THEN Done(Append(data, DatapointOf(dp)))
                          ELSE Throws(data)

\* The section may be missing; once there it must be well formed.
ImportExchangedData(config, exchanged) ==
    CASE exchanged.state = "missing"   -> Done(config)
      [] exchanged.state = "malformed" -> Throws(config)
      [] OTHER ->
           LET stored == ForEach(config.exchangedData, exchanged.datapoints,
                                 ImportDatapoint)
           IN  [value |-> [config EXCEPT !.exchangedData = stored.value],
                ok    |-> stored.ok]

SelectedObject(object) ==
    SetDatapointType([DefaultDatapoint(object.label)
                        EXCEPT !.dataPath = object.doName], object.typeid)

\* A dataset is stored with all its selected objects, or not at all.
ImportDataset(datasets, dataset) ==
    IF dataset = Malformed \/ ~ValidList(dataset.objects)
      THEN Throws(datasets)
      ELSE Done(Put(datasets, dataset.ref,
                    [i \in DOMAIN dataset.objects |->
                       SelectedObject(dataset.objects[i])]))

ImportExchangedDatasets(config, exchanged) ==
    CASE exchanged.state = "missing"   -> Done(config)
      [] exchanged.state = "malformed" -> Throws(config)
      [] OTHER ->
           LET stored == ForEach(config.datasets, exchanged.datasets,
                                 ImportDataset)
           IN  [value |-> [config EXCEPT !.datasets = stored.value],
                ok    |-> stored.ok]

-----------------------------------------------------------------------------
\* Faulty variant: the datapoints are imported before the connections.
ImportConfigDataFirst(config, doc) ==
    LET c0 == [config EXCEPT !.logMinLevel = doc.logMinLevel]
    IN  Then(Then(ImportExchangedData(c0, doc.exchangedData),
                  LAMBDA c : ImportProtocolStack(c, doc)),
             LAMBDA c : ImportExchangedDatasets(c, doc.exchangedDatasets))

(***************************************************************************)
(* importConfig.  The log level always takes a value, that of the document *)
(* or the default; the rest is added to what the object holds already.     *)
(***************************************************************************)
ImportConfig(config, doc) ==
    LET c0 == [config EXCEPT !.logMinLevel = doc.logMinLevel]
    IN  Then(Then(ImportProtocolStack(c0, doc),
                  LAMBDA c : ImportExchangedData(c, doc.exchangedData)),
             LAMBDA c : ImportExchangedDatasets(c, doc.exchangedDatasets))
=============================================================================
