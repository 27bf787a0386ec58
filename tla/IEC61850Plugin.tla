--------------------------- MODULE IEC61850Plugin ---------------------------
(***************************************************************************)
(* The plugin as Fledge sees it: the C interface of plugin.cpp and the     *)
(* class IEC61850 behind the handle, which owns the configuration, one     *)
(* client per server, and the callback that hands readings to Fledge.      *)
(*                                                                         *)
(* Fledge makes one call at a time.  A call runs through the clients one   *)
(* by one, and the clients that run go on reading meanwhile: their threads *)
(* meet in ingest(), under m_ingestMutex.  A client is known here by the   *)
(* phases of PollingClient, "none" standing for no object; its stop()      *)
(* returns when its reader is out of ingest(), which it joins.             *)
(***************************************************************************)
EXTENDS ClientConfig, FiniteSets

CONSTANTS
    Servers,          \* the keys of the servers that documents name
    Docs,             \* the documents that Fledge may pass
    NoDoc,            \* no document
    Free,             \* the value of a mutex that nobody owns
    MaxReconfigures   \* bound on the number of reconfigurations

ASSUME PluginAssumption ==
    /\ MaxReconfigures \in Nat
    /\ NoDoc \notin Docs /\ Free \notin Servers
    /\ \A d \in Docs :
         LET connections == d.transport.connections
         IN  /\ IsArray(connections) /\ IsArray(d.exchangedData.datapoints)
             /\ \A i \in DOMAIN connections :
                  ValidConnection(connections[i])
                    => connections[i].key \in Servers

VARIABLES
    handle,     \* the PLUGIN_HANDLE: "none", "live" or "deleted"
    config,     \* *m_config
    phase,      \* m_clients, by key
    reader,     \* where the reader of each client is
    mutex,      \* the owner of m_ingestMutex, or Free
    callback,   \* is m_ingest_callback set?
    op,         \* the call of Fledge under way
    step,       \* what this call does now
    todo,       \* the servers that this step has not done yet
    newDoc,     \* the document of the call
    accepted,   \* the last document that was imported without exception
    reconfigures

apiVars    == <<op, step, todo, newDoc>>
clientVars == <<phase, reader, mutex>>
vars == <<handle, config, clientVars, callback, apiVars, accepted,
          reconfigures>>

Phases == {"none", "active", "stopping", "stopped"}

Init ==
    /\ handle = "none"
    /\ config = DefaultConfig
    /\ phase = [k \in Servers |-> "none"]
    /\ reader = [k \in Servers |-> "polling"]
    /\ mutex = Free
    /\ callback = FALSE
    /\ op = "none" /\ step = "idle" /\ todo = {} /\ newDoc = NoDoc
    /\ accepted = NoDoc
    /\ reconfigures = 0

Objects == {k \in Servers : phase[k] # "none"}

-----------------------------------------------------------------------------
(***************************************************************************)
(* The calls of Fledge.                                                    *)
(***************************************************************************)

\* plugin_init, with a document or without; when the import throws Fledge
\* gets no handle.
PluginInit ==
    /\ handle = "none"
    /\ \/ UNCHANGED <<config, accepted>>
       \/ \E d \in Docs :
            /\ ImportConfig(DefaultConfig, d).ok
            /\ config' = ImportConfig(DefaultConfig, d).value
            /\ accepted' = d
    /\ handle' = "live"
    /\ UNCHANGED <<clientVars, callback, apiVars, reconfigures>>

Idle == handle = "live" /\ step = "idle"

\* plugin_register_ingest, which Fledge calls before it starts the plugin.
RegisterIngest ==
    /\ Idle /\ ~callback /\ Objects = {}
    /\ callback' = TRUE
    /\ UNCHANGED <<handle, config, clientVars, apiVars, accepted, reconfigures>>

PluginStart ==
    /\ Idle
    /\ op' = "start" /\ step' = "start"
    /\ todo' = DOMAIN config.servers
    /\ UNCHANGED <<handle, config, clientVars, callback, newDoc, accepted,
                   reconfigures>>

\* Faulty variant: the new document is imported while the clients run.
PluginReconfigureRunning ==
    /\ Idle /\ reconfigures < MaxReconfigures
    /\ reconfigures' = reconfigures + 1
    /\ op' = "reconfigure" /\ step' = "configure" /\ todo' = {}
    /\ newDoc' \in Docs
    /\ UNCHANGED <<handle, config, clientVars, callback, accepted>>

PluginReconfigure ==
    /\ Idle /\ reconfigures < MaxReconfigures
    /\ reconfigures' = reconfigures + 1
    /\ op' = "reconfigure" /\ step' = "stop" /\ todo' = Objects
    /\ newDoc' \in Docs
    /\ UNCHANGED <<handle, config, clientVars, callback, accepted>>

PluginShutdown ==
    /\ Idle
    /\ op' = "shutdown" /\ step' = "stop" /\ todo' = Objects
    /\ UNCHANGED <<handle, config, clientVars, callback, newDoc, accepted,
                   reconfigures>>

-----------------------------------------------------------------------------
(***************************************************************************)
(* IEC61850::start.                                                        *)
(***************************************************************************)

\* No client is between running and gone: the clients are handled in turn.
NoneInTransit == \A j \in Servers : phase[j] \in {"none", "active"}

StartClient(k) ==
    /\ step = "start" /\ k \in todo
    /\ phase[k] = "none" /\ NoneInTransit
    /\ phase' = [phase EXCEPT ![k] = "active"]
    /\ todo' = todo \ {k}
    /\ UNCHANGED <<handle, config, reader, mutex, callback, op, step, newDoc,
                   accepted, reconfigures>>

\* The plugin was started already: the client in the way is destroyed.
ReplaceClient(k) ==
    /\ step = "start" /\ k \in todo
    /\ \/ /\ phase[k] = "active" /\ NoneInTransit
          /\ phase' = [phase EXCEPT ![k] = "stopping"]
       \/ /\ phase[k] = "stopped"
          /\ phase' = [phase EXCEPT ![k] = "none"]
    /\ UNCHANGED <<handle, config, reader, mutex, callback, apiVars, accepted,
                   reconfigures>>

Return(step_) == step = step_ /\ op' = "none" /\ step' = "idle"

\* Faulty variant: start() gives up after the first client.
StartReturnsEarly ==
    /\ Return("start") /\ \A k \in todo : phase[k] # "stopping"
    /\ \E k \in Servers : phase[k] = "active"
    /\ UNCHANGED <<handle, config, clientVars, callback, todo, newDoc, accepted,
                   reconfigures>>

StartReturns ==
    /\ Return("start") /\ todo = {}
    /\ UNCHANGED <<handle, config, clientVars, callback, todo, newDoc, accepted,
                   reconfigures>>

-----------------------------------------------------------------------------
(***************************************************************************)
(* IEC61850::stop, and what follows it in its two callers.                 *)
(***************************************************************************)

\* The clients are stopped one after the other.
StopClient(k) ==
    /\ step = "stop" /\ k \in todo
    /\ phase[k] = "active"
    /\ \A j \in Servers : phase[j] # "stopping"
    /\ phase' = [phase EXCEPT ![k] = "stopping"]
    /\ todo' = todo \ {k}
    /\ UNCHANGED <<handle, config, reader, mutex, callback, op, step, newDoc,
                   accepted, reconfigures>>

\* Faulty variant: the client's stop() does not wait for its reader.
ClientStoppedEarly(k) ==
    /\ phase[k] = "stopping"
    /\ phase' = [phase EXCEPT ![k] = "stopped"]
    /\ UNCHANGED <<handle, config, reader, mutex, callback, apiVars, accepted,
                   reconfigures>>

\* The client's stop() or destructor returns: its reader was joined.
ClientStopped(k) ==
    /\ phase[k] = "stopping"
    /\ reader[k] = "polling"
    /\ phase' = [phase EXCEPT ![k] = "stopped"]
    /\ UNCHANGED <<handle, config, reader, mutex, callback, apiVars, accepted,
                   reconfigures>>

\* Faulty variant: a shutdown leaves the clients to the destructor.
ClearClientsLate ==
    /\ step = "stop" /\ todo = {}
    /\ \A k \in Servers : phase[k] \in {"none", "stopped"}
    /\ phase' = IF op = "shutdown" THEN phase ELSE [k \in Servers |-> "none"]
    /\ step' = IF op = "shutdown" THEN "delete" ELSE "configure"
    /\ UNCHANGED <<handle, config, reader, mutex, callback, op, todo, newDoc,
                   accepted, reconfigures>>

\* m_clients.clear()
ClearClients ==
    /\ step = "stop" /\ todo = {}
    /\ \A k \in Servers : phase[k] \in {"none", "stopped"}
    /\ phase' = [k \in Servers |-> "none"]
    /\ step' = IF op = "shutdown" THEN "delete" ELSE "configure"
    /\ UNCHANGED <<handle, config, reader, mutex, callback, op, todo, newDoc,
                   accepted, reconfigures>>

\* setConfig in plugin_reconfigure.  An exception ends the call, with the
\* clients stopped and what was imported before it in the configuration.
Configure ==
    /\ step = "configure"
    /\ LET result == ImportConfig(config, newDoc)
       IN  /\ config' = result.value
           /\ \/ /\ result.ok
                 /\ accepted' = newDoc
                 /\ step' = "start" /\ todo' = DOMAIN result.value.servers
                 /\ UNCHANGED op
              \/ /\ ~result.ok
                 /\ Return("configure")
                 /\ UNCHANGED <<accepted, todo>>
    /\ newDoc' = NoDoc
    /\ UNCHANGED <<handle, clientVars, callback, reconfigures>>

\* The delete of plugin_shutdown.
Delete ==
    /\ Return("delete")
    /\ handle' = "deleted"
    /\ UNCHANGED <<config, clientVars, callback, todo, newDoc, accepted,
                   reconfigures>>

-----------------------------------------------------------------------------
(***************************************************************************)
(* IEC61850::ingest, called by the readers.                                *)
(***************************************************************************)

IngestCalled(k) ==
    /\ phase[k] \in {"active", "stopping"}
    /\ reader[k] = "polling"
    /\ reader' = [reader EXCEPT ![k] = "waiting"]
    /\ UNCHANGED <<handle, config, phase, mutex, callback, apiVars, accepted,
                   reconfigures>>

\* Faulty variant: ingest() without the guard of m_ingestMutex.
IngestUnguarded(k) ==
    /\ reader[k] = "waiting"
    /\ IF callback
         THEN reader' = [reader EXCEPT ![k] = "inCallback"]
         ELSE reader' = [reader EXCEPT ![k] = "polling"]
    /\ UNCHANGED <<handle, config, phase, mutex, callback, apiVars, accepted,
                   reconfigures>>

\* The mutex is taken; without a callback nothing more is done.
IngestLocked(k) ==
    /\ reader[k] = "waiting" /\ mutex = Free
    /\ IF callback
         THEN reader' = [reader EXCEPT ![k] = "inCallback"] /\ mutex' = k
         ELSE reader' = [reader EXCEPT ![k] = "polling"] /\ UNCHANGED mutex
    /\ UNCHANGED <<handle, config, phase, callback, apiVars, accepted,
                   reconfigures>>

\* Faulty variant: the mutex stays locked after the callback.
IngestReturnsLocked(k) ==
    /\ reader[k] = "inCallback"
    /\ reader' = [reader EXCEPT ![k] = "polling"]
    /\ UNCHANGED <<handle, config, phase, mutex, callback, apiVars, accepted,
                   reconfigures>>

IngestReturns(k) ==
    /\ reader[k] = "inCallback"
    /\ reader' = [reader EXCEPT ![k] = "polling"]
    /\ mutex' = Free
    /\ UNCHANGED <<handle, config, phase, callback, apiVars, accepted,
                   reconfigures>>

-----------------------------------------------------------------------------
\* What a call that was made goes on to do.
CallStep ==
    \/ \E k \in Servers : StartClient(k) \/ ReplaceClient(k) \/ StopClient(k)
    \/ StartReturns \/ ClearClients \/ Configure \/ Delete

FledgeCall == PluginInit \/ RegisterIngest \/ PluginStart \/ PluginReconfigure
                \/ PluginShutdown

Ingest(k) == IngestCalled(k) \/ IngestLocked(k) \/ IngestReturns(k)

Next ==
    \/ FledgeCall \/ CallStep
    \/ \E k \in Servers : ClientStopped(k) \/ Ingest(k)

Spec == Init /\ [][Next]_vars

(***************************************************************************)
(* The callback of Fledge returns, and a call goes on.  A reader sleeps    *)
(* between its cycles, so one that waits for the mutex gets it in the end, *)
(* and one that was told to stop does so after its cycle: both are enabled *)
(* again and again, hence the strong fairness.                             *)
(***************************************************************************)
Fairness ==
    /\ WF_vars(CallStep)
    /\ \A k \in Servers :
         /\ WF_vars(IngestReturns(k))
         /\ SF_vars(IngestLocked(k))
         /\ SF_vars(ClientStopped(k))

FairSpec == Spec /\ Fairness

-----------------------------------------------------------------------------
\* Every variable keeps its type, and a call leaves nothing behind: between
\* two calls there is no server left to do and no document.
TypeOK ==
    /\ handle \in {"none", "live", "deleted"}
    /\ DOMAIN config.servers \subseteq Servers
    /\ phase \in [Servers -> Phases]
    /\ reader \in [Servers -> {"polling", "waiting", "inCallback"}]
    /\ mutex \in Servers \cup {Free}
    /\ callback \in BOOLEAN
    /\ op \in {"none", "start", "reconfigure", "shutdown"}
    /\ step \in {"idle", "start", "stop", "configure", "delete"}
    /\ todo \subseteq Servers
    /\ newDoc \in Docs \cup {NoDoc}
    /\ accepted \in Docs \cup {NoDoc}
    /\ reconfigures \in 0..MaxReconfigures
    /\ step = "idle" <=> op = "none"
    /\ todo # {} => step \in {"start", "stop"}
    /\ newDoc # NoDoc => op = "reconfigure"

\* No reader is in ingest() of an object that is being or has been deleted,
\* nor in that of a client that was destroyed or replaced.
NoIngestAfterDelete ==
    \A k \in Servers : reader[k] # "polling" =>
        /\ handle = "live" /\ step # "delete"
        /\ phase[k] \in {"active", "stopping"}

\* Fledge's callback is entered by one thread at a time, however many clients
\* read, so that the readings are fed one by one.
FeedIsSerial ==
    \A j, k \in Servers :
        reader[j] = "inCallback" /\ reader[k] = "inCallback" => j = k

\* The clients hold references into the configuration: it changes only while
\* there is no client.
ConfigStableWhileClientsRun == [][config' # config => Objects = {}]_vars

\* Between two calls of Fledge the plugin runs a client for every server of
\* its configuration or, never started or after an import that threw, none:
\* no failure leaves it running in part.
AllClientsOrNone ==
    Idle => \/ Objects = {}
            \/ /\ Objects = DOMAIN config.servers
               /\ \A k \in Objects : phase[k] = "active"

-----------------------------------------------------------------------------
(***************************************************************************)
(* What the plugin promises to Fledge, and what it has from its clients.   *)
(***************************************************************************)

InCallback == {k \in Servers : reader[k] = "inCallback"}

South == INSTANCE SouthPlugin
           WITH life <- handle, call <- op, registered <- callback,
                sources <- Objects, feeding <- InCallback

\* The plugin keeps the promise of an asynchronous south plugin: readings are
\* fed one at a time by clients that exist, none is destroyed inside the
\* callback, and a shutdown leaves neither client nor reader.
SouthPromise == South!SouthSafety

\* Every call of Fledge returns, although it waits for readers that wait for
\* the mutex of other readers.
CallsReturn == South!CallReturns

\* Client k, of which the plugin sees whether its reader is in ingest().
Client(k) == INSTANCE PollingClient
               WITH Items <- {k},
                    phase <- phase[k],
                    exported <- IF reader[k] = "polling" THEN {} ELSE {k}

\* Client k does a step of its life, or none, or is constructed and started, or
\* is destroyed.
ClientStep(k) ==
    \/ Client(k)!AbsNext
    \/ UNCHANGED <<phase[k], reader[k]>>
    \/ phase[k] = "none" /\ phase'[k] = "active" /\ UNCHANGED (reader[k])
    \/ phase[k] = "stopped" /\ phase'[k] = "none" /\ UNCHANGED (reader[k])

\* Each client lives as PollingClient allows, from the start() that follows
\* its construction to its destructor: no more data of it reach the plugin
\* after its stop() has returned, and a stopped one is replaced, not restarted.
ClientsKeepPromise == [][\A k \in Servers : ClientStep(k)]_vars

\* After a reconfiguration the plugin reads the servers of the new document.
\* The code fails this one: importConfig adds to the old configuration.
OnlyConfiguredServersRun ==
    Idle /\ accepted # NoDoc =>
        Objects \subseteq
            DOMAIN ImportConfig(DefaultConfig, accepted).value.servers
=============================================================================
