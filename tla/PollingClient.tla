---------------------------- MODULE PollingClient ----------------------------
(***************************************************************************)
(* What an IEC61850Client promises to the IEC61850 object that owns it,    *)
(* and no more: data reach the owner only between start() and the return   *)
(* of stop(), a client that was stopped is never started again, and stop() *)
(* returns.  How the client's two threads and its connection achieve this  *)
(* is the subject of the module IEC61850Client, which implements this one. *)
(***************************************************************************)

CONSTANT Items            \* what the client is configured to read

VARIABLES phase,          \* where the owner is in the life of the client
          exported        \* the items handed to the owner in this read cycle

absVars == <<phase, exported>>

Phases == {"idle", "active", "stopping", "stopped", "destroyed"}

AbsInit == phase = "idle" /\ exported = {}

\* The owner calls start().
AbsStart == phase = "idle" /\ phase' = "active" /\ UNCHANGED exported

\* The client exports data, or begins a new read cycle.
AbsExport ==
    /\ phase \in {"active", "stopping"}
    /\ exported' \in SUBSET Items
    /\ UNCHANGED phase

\* The owner calls stop(), or the destructor, which calls it.
AbsOrderStop ==
    /\ phase \in {"idle", "active", "stopped"}
    /\ phase' = "stopping"
    /\ UNCHANGED exported

\* stop() or the destructor returns.
AbsFinish ==
    /\ phase = "stopping"
    /\ phase' \in {"stopped", "destroyed"}
    /\ UNCHANGED exported

AbsNext == AbsStart \/ AbsExport \/ AbsOrderStop \/ AbsFinish

\* The safety part of the promise.
AbsSafety == AbsInit /\ [][AbsNext]_absVars

\* The whole promise: a stop() that was called returns.
AbsSpec == AbsSafety /\ WF_absVars(AbsFinish)
==============================================================================
