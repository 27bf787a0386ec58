----------------------------- MODULE SouthPlugin -----------------------------
(***************************************************************************)
(* What an asynchronous south plugin promises to the Fledge service that   *)
(* loads it, and no more: readings are fed one at a time, through the      *)
(* callback that was registered, by sources that exist; once a shutdown    *)
(* has returned there is no source left and nobody in the callback; and    *)
(* every call returns.  Which sources there are, and when, is left open.   *)
(* The module IEC61850Plugin implements this one with a client, and the    *)
(* reader of this client, per server.                                      *)
(***************************************************************************)

VARIABLES life,         \* "none", "live" or "deleted"
          call,         \* the call of Fledge under way, or "none"
          registered,   \* has Fledge registered its callback?
          sources,      \* what may feed readings
          feeding       \* the sources that are in the callback

southVars == <<life, call, registered, sources, feeding>>

SouthInit ==
    /\ life = "none" /\ call = "none"
    /\ registered = FALSE
    /\ sources = {} /\ feeding = {}

Create ==
    /\ life = "none" /\ life' = "live"
    /\ UNCHANGED <<call, registered, sources, feeding>>

Register ==
    /\ life = "live" /\ call = "none" /\ sources = {}
    /\ registered' = TRUE
    /\ UNCHANGED <<life, call, sources, feeding>>

Call ==
    /\ life = "live" /\ call = "none"
    /\ call' \in {"start", "reconfigure", "shutdown"}
    /\ UNCHANGED <<life, registered, sources, feeding>>

\* A call makes and removes sources, a shutdown only removes them; none is
\* removed while it feeds.
ChangeSources ==
    /\ call # "none"
    /\ feeding \subseteq sources'
    /\ call = "shutdown" => sources' \subseteq sources
    /\ UNCHANGED <<life, call, registered, feeding>>

Return ==
    /\ call # "none" /\ call' = "none"
    /\ IF call = "shutdown" THEN sources = {} /\ life' = "deleted"
                            ELSE UNCHANGED life
    /\ UNCHANGED <<registered, sources, feeding>>

Feed ==
    /\ registered /\ life = "live"
    /\ feeding = {}
    /\ \E s \in sources : feeding' = {s}
    /\ UNCHANGED <<life, call, registered, sources>>

Fed ==
    /\ feeding # {} /\ feeding' = {}
    /\ UNCHANGED <<life, call, registered, sources>>

SouthNext ==
    Create \/ Register \/ Call \/ ChangeSources \/ Return \/ Feed \/ Fed

\* The safety part of the promise.
SouthSafety == SouthInit /\ [][SouthNext]_southVars

\* The whole promise: every call returns.
CallReturns == call # "none" ~> call = "none"
SouthSpec   == SouthSafety /\ CallReturns
=============================================================================
