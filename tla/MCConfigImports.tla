-------------------------- MODULE MCConfigImports --------------------------
(***************************************************************************)
(* Documents for TLC: around a base document, every combination of a       *)
(* transport and an application layer, and every combination of exchanged  *)
(* data and datasets, lists of up to two elements.                         *)
(***************************************************************************)
EXTENDS ConfigImports

Connections ==
    {Malformed, [key |-> "k1", osi |-> Absent], [key |-> "k1", osi |-> "osi"],
     [key |-> "k2", osi |-> Malformed]}

Transports ==
    [state : {"ok"}, connections : BoundedSeq(Connections, 2)]
      \cup {[state |-> "malformed", connections |-> <<>>]}

Applications ==
    [state : {"ok"}, period : {Absent, Malformed, -1, 500},
     mode : {Absent, Malformed, "dataset", "do"}]
      \cup {[state |-> "missing", period |-> Absent, mode |-> Absent]}

Iec(address, typeid) ==
    [name |-> "iec61850", address |-> address, typeid |-> typeid]
Other == [name |-> "other", address |-> "x", typeid |-> "MV"]

Datapoints ==
    {Malformed,
     [label |-> "L1", protocols |-> <<Iec("a", "SPS"), Iec("b", "ENS")>>],
     [label |-> "L1", protocols |-> <<Iec("c", "MV"), Other>>],
     [label |-> "L2", protocols |-> <<Other, Malformed>>]}

ExchangedData ==
    [state : {"ok"}, datapoints : BoundedSeq(Datapoints, 2)]
      \cup [state : {"missing", "malformed"}, datapoints : {<<>>}]

Object(name, typeid) == [label |-> "L3", doName |-> name, typeid |-> typeid]

Datasets ==
    {Malformed,
     [ref |-> "d1", objects |-> <<>>],
     [ref |-> "d1", objects |-> <<Object("o1", "MV"), Object("o2", "ENS")>>],
     [ref |-> "d2", objects |-> <<Malformed>>]}

ExchangedDatasets ==
    [state : {"ok"}, datasets : BoundedSeq(Datasets, 2)]
      \cup [state : {"missing", "malformed"}, datasets : {<<>>}]

Base ==
    [logMinLevel       |-> "info",
     transport         |-> [state |-> "ok", connections |->
                              <<[key |-> "k1", osi |-> Absent]>>],
     application       |-> [state |-> "ok", period |-> 500, mode |-> Absent],
     exchangedData     |-> [state |-> "ok", datapoints |->
                              <<[label |-> "L1", protocols |->
                                   <<Iec("a", "SPS")>>]>>],
     exchangedDatasets |-> [state |-> "missing", datasets |-> <<>>]]

SmallDocs ==
    {[Base EXCEPT !.transport = t, !.application = a] :
        t \in Transports, a \in Applications}
      \cup {[Base EXCEPT !.exchangedData = e, !.exchangedDatasets = s] :
              e \in ExchangedData, s \in ExchangedDatasets}
=============================================================================
