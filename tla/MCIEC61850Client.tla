-------------------------- MODULE MCIEC61850Client --------------------------
(***************************************************************************)
(* Small clients for TLC: what the server answers for each of the          *)
(* configured items.                                                       *)
(***************************************************************************)
EXTENDS IEC61850Client

\* The server has a value for everything that is configured.
AnswersAll == [i \in Items |-> "value"]

\* A data object that is at times denied, one of an unsupported type, and a
\* dataset, the last item, that the server does not have.
AnswersDO == <<"denied", "unsupported", "unknown">>

\* A data object and two datasets, the last of them unknown to the server.
AnswersDataset == <<"value", "denied", "unknown">>

\* Five data objects: the two with a value are among, and before, others that
\* Fledge never gets or does not always get.
AnswersLive == <<"value", "unknown", "denied", "value", "unsupported">>
=============================================================================
