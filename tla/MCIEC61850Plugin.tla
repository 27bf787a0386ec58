-------------------------- MODULE MCIEC61850Plugin --------------------------
(***************************************************************************)
(* Three documents for TLC: one for each of two servers, and one that      *)
(* throws after its connection was imported.                               *)
(***************************************************************************)
EXTENDS IEC61850Plugin

Doc(keys, state) ==
    [logMinLevel       |-> "info",
     transport         |-> [state |-> "ok", connections |->
                              [i \in DOMAIN keys |->
                                 [key |-> keys[i], osi |-> Absent]]],
     application       |-> [state |-> state, period |-> Absent,
                            mode |-> Absent],
     exchangedData     |-> [state |-> "missing", datapoints |-> <<>>],
     exchangedDatasets |-> [state |-> "missing", datasets |-> <<>>]]

SmallDocs == {Doc(<<"k1">>, "ok"), Doc(<<"k2", "k3">>, "ok"),
              Doc(<<"k2">>, "missing")}

ValidDocs == {Doc(<<"k1">>, "ok"), Doc(<<"k2", "k3">>, "ok")}

SmallServers == {"k1", "k2", "k3"}
=============================================================================
