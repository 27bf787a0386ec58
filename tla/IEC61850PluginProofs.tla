------------------------ MODULE IEC61850PluginProofs ------------------------
(***************************************************************************)
(* Proofs about IEC61850Plugin: for any set of servers, any documents and  *)
(* any number of clients that ingest meanwhile, the plugin keeps its       *)
(* promise to Fledge.                                                      *)
(***************************************************************************)
EXTENDS IEC61850Plugin, ClientConfigProofs

-----------------------------------------------------------------------------
(***************************************************************************)
(* The inductive invariant.                                                *)
(***************************************************************************)

\* A step belongs to some calls only, and the document is there until it has
\* been imported.
CallShape ==
  /\ handle # "live" => step = "idle"
  /\ step = "start" => op \in {"start", "reconfigure"} /\ newDoc = NoDoc
  /\ step = "stop" => op \in {"reconfigure", "shutdown"}
  /\ step = "configure" => op = "reconfigure"
  /\ step = "delete" => op = "shutdown"
  /\ op = "reconfigure" /\ step \in {"stop", "configure"} => newDoc \in Docs

\* Which clients there are: none before and after the life of the object and
\* while the configuration or the object goes, between two calls all or none;
\* in start() those that it is done with run.
ClientShape ==
  /\ handle # "live" \/ step \in {"configure", "delete"}
       => \A k \in Servers : phase[k] = "none"
  /\ step = "idle" =>
       \/ \A k \in Servers : phase[k] = "none"
       \/ \A k \in Servers :
            phase[k] = IF k \in DOMAIN config.servers THEN "active" ELSE "none"
  /\ step = "start" =>
       \A k \in Servers :
         /\ phase[k] # "none" \/ k \in todo => k \in DOMAIN config.servers
         /\ k \in DOMAIN config.servers => k \in todo \/ phase[k] = "active"

\* Which readers are in ingest(), and which one owns its mutex.
ReaderShape ==
  \A k \in Servers :
    /\ reader[k] # "polling" => phase[k] \in {"active", "stopping"}
    /\ reader[k] = "inCallback" <=> mutex = k

PluginInv ==
  TypeOK /\ IsConfig(config) /\ CallShape /\ ClientShape /\ ReaderShape

\* What an import leaves has the keys of known servers.
LEMMA ServersKnown ==
  ASSUME NEW c, IsConfig(c), DOMAIN c.servers \subseteq Servers, NEW d \in Docs
  PROVE  /\ IsConfig(ImportConfig(c, d).value)
         /\ DOMAIN ImportConfig(c, d).value.servers \subseteq Servers
<1> DEFINE result == ImportConfig(c, d)
           list == d.transport.connections
<1>1. /\ IsArray(list) /\ IsArray(d.exchangedData.datapoints)
      /\ \A i \in DOMAIN list :
           ValidConnection(list[i]) => list[i].key \in Servers
  BY PluginAssumption
<1>2. IsConfig(result.value)
  BY <1>1, ConfigImported
<1>3. result.value.servers \in ServerMaps(c.servers, list)
  BY <1>1, ConfigImported
<1>4. ASSUME NEW k \in DOMAIN result.value.servers
      PROVE  k \in Servers
  <2>1. Sourced(k, result.value.servers[k], c.servers, list)
    BY <1>3, <1>4 DEF ServerMaps
  <2> HIDE DEF result, list
  <2> QED
    BY <1>1, <2>1 DEF Sourced
<1> QED
  BY <1>2, <1>4

LEMMA InitInv == Init => PluginInv
<1> SUFFICES ASSUME Init PROVE PluginInv
  OBVIOUS
<1>1. IsConfig(config) /\ DOMAIN config.servers = {}
  BY DefaultIsConfig DEF Init, DefaultConfig, EmptyMap
<1>2. TypeOK
  <2>1. 0 \in 0..MaxReconfigures
    BY PluginAssumption
  <2> QED
    BY <1>1, <2>1 DEF Init, TypeOK, Phases
<1>3. CallShape /\ ClientShape
  BY DEF Init, CallShape, ClientShape
<1>4. ReaderShape
  BY PluginAssumption DEF Init, ReaderShape
<1> QED
  BY <1>1, <1>2, <1>3, <1>4 DEF PluginInv

-----------------------------------------------------------------------------
(***************************************************************************)
(* The calls of Fledge.                                                    *)
(***************************************************************************)

LEMMA FledgeCallInv ==
  ASSUME PluginInv, FledgeCall
  PROVE  PluginInv'
<1> USE DEF PluginInv
<1>1. CASE PluginInit
  <2>1. IsConfig(config') /\ DOMAIN config'.servers \subseteq Servers
    <3>1. CASE config' = config
      BY <3>1 DEF TypeOK
    <3>2. CASE \E d \in Docs : config' = ImportConfig(DefaultConfig, d).value
      <4>1. DOMAIN DefaultConfig.servers = {}
        BY DEF DefaultConfig, EmptyMap
      <4> QED
        BY <3>2, <4>1, DefaultIsConfig, ServersKnown
    <3> QED
      BY <1>1, <3>1, <3>2 DEF PluginInit
  <2>2. TypeOK'
    BY <1>1, <2>1 DEF PluginInit, TypeOK, apiVars, clientVars
  <2>3. CallShape' /\ ClientShape'
    BY <1>1 DEF PluginInit, CallShape, ClientShape, apiVars, clientVars
  <2>4. ReaderShape'
    BY <1>1 DEF PluginInit, ReaderShape, clientVars
  <2> QED
    BY <2>1, <2>2, <2>3, <2>4
<1>2. CASE RegisterIngest
  <2>1. TypeOK'
    BY <1>2 DEF RegisterIngest, Idle, TypeOK, apiVars, clientVars
  <2>2. CallShape' /\ ClientShape' /\ ReaderShape' /\ IsConfig(config')
    BY <1>2 DEF RegisterIngest, Idle, CallShape, ClientShape, ReaderShape,
                apiVars, clientVars
  <2> QED
    BY <2>1, <2>2
<1>3. CASE PluginStart
  <2>1. TypeOK'
    BY <1>3 DEF PluginStart, Idle, TypeOK, clientVars
  <2>2. CallShape'
    BY <1>3 DEF PluginStart, Idle, CallShape, TypeOK
  <2>3. ClientShape'
    BY <1>3 DEF PluginStart, Idle, ClientShape, clientVars
  <2>4. ReaderShape' /\ IsConfig(config')
    BY <1>3 DEF PluginStart, ReaderShape, clientVars
  <2> QED
    BY <2>1, <2>2, <2>3, <2>4
<1>4. CASE PluginReconfigure
  <2>1. TypeOK'
    BY <1>4, PluginAssumption
      DEF PluginReconfigure, Idle, Objects, TypeOK, clientVars
  <2>2. CallShape' /\ ClientShape'
    BY <1>4 DEF PluginReconfigure, Idle, CallShape, ClientShape, clientVars
  <2>3. ReaderShape' /\ IsConfig(config')
    BY <1>4 DEF PluginReconfigure, ReaderShape, clientVars
  <2> QED
    BY <2>1, <2>2, <2>3
<1>5. CASE PluginShutdown
  <2>1. TypeOK'
    BY <1>5 DEF PluginShutdown, Idle, Objects, TypeOK, clientVars
  <2>2. CallShape' /\ ClientShape'
    BY <1>5 DEF PluginShutdown, Idle, CallShape, ClientShape, clientVars
  <2>3. ReaderShape' /\ IsConfig(config')
    BY <1>5 DEF PluginShutdown, ReaderShape, clientVars
  <2> QED
    BY <2>1, <2>2, <2>3
<1> QED
  BY <1>1, <1>2, <1>3, <1>4, <1>5 DEF FledgeCall

-----------------------------------------------------------------------------
(***************************************************************************)
(* What the calls go on to do.                                             *)
(***************************************************************************)

LEMMA CallStepInv ==
  ASSUME PluginInv, CallStep
  PROVE  PluginInv'
<1> USE DEF PluginInv
<1>1. ASSUME NEW k \in Servers, StartClient(k) PROVE PluginInv'
  <2>1. TypeOK'
    BY <1>1 DEF StartClient, TypeOK, Phases
  <2>2. CallShape' /\ IsConfig(config')
    BY <1>1 DEF StartClient, CallShape
  <2>3. ClientShape'
    <3>1. step' = "start" /\ handle' = "live"
      BY <1>1 DEF StartClient, CallShape
    <3>2. ASSUME NEW j \in Servers
          PROVE  /\ phase'[j] # "none" \/ j \in todo'
                      => j \in DOMAIN config'.servers
                 /\ j \in DOMAIN config'.servers
                      => j \in todo' \/ phase'[j] = "active"
      BY <1>1 DEF StartClient, ClientShape, TypeOK
    <3> QED
      BY <3>1, <3>2 DEF ClientShape
  <2>4. ReaderShape'
    BY <1>1 DEF StartClient, ReaderShape, TypeOK
  <2> QED
    BY <2>1, <2>2, <2>3, <2>4
<1>2. ASSUME NEW k \in Servers, ReplaceClient(k) PROVE PluginInv'
  <2>1. TypeOK'
    BY <1>2 DEF ReplaceClient, TypeOK, Phases, apiVars
  <2>2. CallShape' /\ IsConfig(config')
    BY <1>2 DEF ReplaceClient, CallShape, apiVars
  <2>3. ClientShape'
    BY <1>2 DEF ReplaceClient, CallShape, ClientShape, TypeOK, apiVars
  <2>4. ReaderShape'
    BY <1>2 DEF ReplaceClient, ReaderShape, TypeOK
  <2> QED
    BY <2>1, <2>2, <2>3, <2>4
<1>3. ASSUME NEW k \in Servers, StopClient(k) PROVE PluginInv'
  <2>1. TypeOK'
    BY <1>3 DEF StopClient, TypeOK, Phases
  <2>2. CallShape' /\ IsConfig(config')
    BY <1>3 DEF StopClient, CallShape
  <2>3. ClientShape'
    BY <1>3 DEF StopClient, CallShape, ClientShape, TypeOK
  <2>4. ReaderShape'
    BY <1>3 DEF StopClient, ReaderShape, TypeOK
  <2> QED
    BY <2>1, <2>2, <2>3, <2>4
<1>4. CASE StartReturns
  <2>1. TypeOK'
    BY <1>4 DEF StartReturns, Return, CallShape, TypeOK, clientVars
  <2>2. CallShape' /\ IsConfig(config')
    BY <1>4 DEF StartReturns, Return, CallShape
  <2>3. ClientShape'
    BY <1>4 DEF StartReturns, Return, CallShape, ClientShape, TypeOK, clientVars
  <2>4. ReaderShape'
    BY <1>4 DEF StartReturns, ReaderShape, clientVars
  <2> QED
    BY <2>1, <2>2, <2>3, <2>4
<1>5. CASE ClearClients
  <2>1. TypeOK'
    BY <1>5 DEF ClearClients, TypeOK, Phases, CallShape
  <2>2. CallShape' /\ IsConfig(config')
    BY <1>5 DEF ClearClients, CallShape
  <2>3. ClientShape'
    BY <1>5 DEF ClearClients, CallShape, ClientShape
  <2>4. ReaderShape'
    BY <1>5 DEF ClearClients, ReaderShape
  <2> QED
    BY <2>1, <2>2, <2>3, <2>4
<1>6. CASE Configure
  <2> DEFINE result == ImportConfig(config, newDoc)
  <2>1. newDoc \in Docs /\ op = "reconfigure" /\ handle = "live"
    BY <1>6 DEF Configure, CallShape
  <2>2. \A k \in Servers : phase[k] = "none"
    BY <1>6 DEF Configure, ClientShape
  <2>3. /\ config' = result.value /\ newDoc' = NoDoc
        /\ \/ /\ accepted' = newDoc /\ step' = "start"
              /\ todo' = DOMAIN config'.servers /\ op' = op
           \/ /\ op' = "none" /\ step' = "idle"
              /\ accepted' = accepted /\ todo' = todo
        /\ UNCHANGED <<handle, phase, reader, mutex, callback, reconfigures>>
    BY <1>6 DEF Configure, Return, clientVars
  <2>4. IsConfig(config') /\ DOMAIN config'.servers \subseteq Servers
    BY <2>1, <2>3, ServersKnown DEF TypeOK
  <2> HIDE DEF result
  <2>5. TypeOK'
    <3>1. step = "configure" /\ todo = {}
      BY <1>6 DEF Configure, TypeOK
    <3> QED
      BY <2>1, <2>3, <2>4, <3>1 DEF TypeOK
  <2>6. CallShape'
    BY <2>1, <2>3 DEF CallShape
  <2>7. ClientShape'
    BY <2>1, <2>2, <2>3 DEF ClientShape
  <2>8. ReaderShape'
    BY <2>3 DEF ReaderShape
  <2> QED
    BY <2>4, <2>5, <2>6, <2>7, <2>8
<1>7. CASE Delete
  <2>1. TypeOK'
    BY <1>7 DEF Delete, Return, TypeOK, CallShape, clientVars
  <2>2. CallShape' /\ IsConfig(config')
    BY <1>7 DEF Delete, Return, CallShape
  <2>3. ClientShape'
    BY <1>7 DEF Delete, Return, ClientShape, clientVars
  <2>4. ReaderShape'
    BY <1>7 DEF Delete, ReaderShape, clientVars
  <2> QED
    BY <2>1, <2>2, <2>3, <2>4
<1> QED
  BY <1>1, <1>2, <1>3, <1>4, <1>5, <1>6, <1>7 DEF CallStep

-----------------------------------------------------------------------------
(***************************************************************************)
(* The clients.                                                            *)
(***************************************************************************)

LEMMA ClientInv ==
  ASSUME PluginInv, NEW k \in Servers, ClientStopped(k) \/ Ingest(k)
  PROVE  PluginInv'
<1> USE DEF PluginInv
<1>1. CASE ClientStopped(k)
  <2>1. TypeOK'
    BY <1>1 DEF ClientStopped, TypeOK, Phases, apiVars
  <2>2. CallShape' /\ IsConfig(config')
    BY <1>1 DEF ClientStopped, CallShape, apiVars
  <2>3. ClientShape'
    BY <1>1 DEF ClientStopped, ClientShape, TypeOK, apiVars
  <2>4. ReaderShape'
    BY <1>1 DEF ClientStopped, ReaderShape, TypeOK
  <2> QED
    BY <2>1, <2>2, <2>3, <2>4
<1>2. CASE Ingest(k)
  <2>1. TypeOK'
    BY <1>2 DEF Ingest, IngestCalled, IngestLocked, IngestReturns, TypeOK,
                apiVars
  <2>2. CallShape' /\ ClientShape' /\ IsConfig(config')
    BY <1>2 DEF Ingest, IngestCalled, IngestLocked, IngestReturns, CallShape,
                ClientShape, apiVars
  <2>3. CASE IngestCalled(k)
    <3>1. ReaderShape'
      BY <2>3 DEF IngestCalled, ReaderShape, TypeOK
    <3> QED
      BY <2>1, <2>2, <3>1
  <2>4. CASE IngestLocked(k)
    <3>1. ReaderShape'
      BY <2>4, PluginAssumption DEF IngestLocked, ReaderShape, TypeOK
    <3> QED
      BY <2>1, <2>2, <3>1
  <2>5. CASE IngestReturns(k)
    <3>1. ReaderShape'
      BY <2>5, PluginAssumption DEF IngestReturns, ReaderShape, TypeOK
    <3> QED
      BY <2>1, <2>2, <3>1
  <2> QED
    BY <1>2, <2>3, <2>4, <2>5 DEF Ingest
<1> QED
  BY <1>1, <1>2

-----------------------------------------------------------------------------
LEMMA StepInv == PluginInv /\ [Next]_vars => PluginInv'
<1> SUFFICES ASSUME PluginInv, [Next]_vars PROVE PluginInv'
  OBVIOUS
<1>1. CASE Next
  BY <1>1, FledgeCallInv, CallStepInv, ClientInv DEF Next
<1>2. CASE UNCHANGED vars
  BY <1>2 DEF vars, apiVars, clientVars, PluginInv, TypeOK, CallShape,
              ClientShape, ReaderShape
<1> QED
  BY <1>1, <1>2

LEMMA Invariance == Spec => []PluginInv
BY InitInv, StepInv, PTL DEF Spec

\* Every variable of the plugin keeps its type, whatever Fledge calls.
THEOREM TypeCorrect == Spec => []TypeOK
<1>1. PluginInv => TypeOK
  BY DEF PluginInv
<1> QED
  BY <1>1, Invariance, PTL

\* No reader is in ingest() of a deleted object, or of a destroyed client.
THEOREM NobodyIngestsAfterDelete == Spec => []NoIngestAfterDelete
<1>1. ASSUME PluginInv PROVE NoIngestAfterDelete
  BY <1>1 DEF PluginInv, CallShape, ClientShape, ReaderShape,
              NoIngestAfterDelete
<1> QED
  BY <1>1, Invariance, PTL

\* However many clients read, one thread at a time is in Fledge's callback.
THEOREM OneFeedAtATime == Spec => []FeedIsSerial
<1>1. ASSUME PluginInv PROVE FeedIsSerial
  BY <1>1 DEF PluginInv, ReaderShape, FeedIsSerial
<1> QED
  BY <1>1, Invariance, PTL

\* Between two calls all the clients of the configuration run, or none does.
THEOREM NeverInPart == Spec => []AllClientsOrNone
<1>1. ASSUME PluginInv PROVE AllClientsOrNone
  <2> SUFFICES ASSUME Idle
               PROVE  \/ Objects = {}
                      \/ /\ Objects = DOMAIN config.servers
                         /\ \A k \in Objects : phase[k] = "active"
    BY DEF AllClientsOrNone
  <2>1. CASE \A k \in Servers : phase[k] = "none"
    BY <2>1 DEF Objects
  <2>2. CASE \A k \in Servers :
               phase[k] = IF k \in DOMAIN config.servers THEN "active"
                                                         ELSE "none"
    <3>1. DOMAIN config.servers \subseteq Servers
      BY <1>1 DEF PluginInv, TypeOK
    <3> QED
      BY <2>2, <3>1 DEF Objects
  <2> QED
    BY <1>1, <2>1, <2>2 DEF PluginInv, ClientShape, Idle
<1> QED
  BY <1>1, Invariance, PTL

\* The configuration changes only while there is no client that refers to it.
THEOREM ConfigStable == Spec => ConfigStableWhileClientsRun
<1>1. ASSUME PluginInv, [Next]_vars
      PROVE  [config' # config => Objects = {}]_vars
  <2>1. CASE PluginInit \/ Configure
    <3>1. \A k \in Servers : phase[k] = "none"
      BY <1>1, <2>1 DEF PluginInv, ClientShape, PluginInit, Configure
    <3> QED
      BY <3>1 DEF Objects
  <2>2. CASE UNCHANGED vars
    BY <2>2
  <2>3. CASE Next /\ ~(PluginInit \/ Configure)
    <3>1. config' = config
      BY <2>3 DEF Next, FledgeCall, RegisterIngest, PluginStart,
        PluginReconfigure, PluginShutdown, CallStep, StartClient,
        ReplaceClient, StopClient, StartReturns, ClearClients, Delete,
        ClientStopped, Ingest, IngestCalled, IngestLocked, IngestReturns
    <3> QED
      BY <3>1
  <2> QED
    BY <1>1, <2>1, <2>2, <2>3
<1> QED
  BY <1>1, Invariance, PTL DEF Spec, ConfigStableWhileClientsRun

-----------------------------------------------------------------------------
(***************************************************************************)
(* The refinement of SouthPlugin.                                          *)
(***************************************************************************)

LEMMA SouthInitially == Init => South!SouthInit
<1> SUFFICES ASSUME Init PROVE South!SouthInit
  OBVIOUS
<1>1. Objects = {}
  BY DEF Init, Objects
<1>2. InCallback = {}
  BY DEF Init, InCallback
<1> QED
  BY <1>1, <1>2 DEF Init, South!SouthInit

\* The sources of a call that does not touch the clients.
LEMMA SameObjects ==
  ASSUME UNCHANGED <<phase, reader>>
  PROVE  UNCHANGED <<Objects, InCallback>>
BY DEF Objects, InCallback

LEMMA FledgeCallRefines ==
  ASSUME PluginInv, FledgeCall
  PROVE  South!SouthNext
<1>1. UNCHANGED <<phase, reader>>
  BY DEF FledgeCall, PluginInit, RegisterIngest, PluginStart,
         PluginReconfigure, PluginShutdown, clientVars
<1>2. UNCHANGED <<Objects, InCallback>>
  BY <1>1, SameObjects
<1>3. CASE PluginInit
  BY <1>2, <1>3 DEF PluginInit, apiVars, South!Create, South!SouthNext
<1>4. CASE RegisterIngest
  BY <1>2, <1>4 DEF RegisterIngest, Idle, apiVars, PluginInv, TypeOK,
                    South!Register, South!SouthNext
<1>5. CASE PluginStart \/ PluginReconfigure \/ PluginShutdown
  BY <1>2, <1>5 DEF PluginStart, PluginReconfigure, PluginShutdown, Idle,
                    PluginInv, TypeOK, South!Call, South!SouthNext
<1> QED
  BY <1>3, <1>4, <1>5 DEF FledgeCall

\* A client that comes or goes: none goes while its reader is in the callback.
LEMMA ObjectsChange ==
  ASSUME PluginInv, op # "none", PluginInv',
         op = "shutdown" => Objects' \subseteq Objects,
         UNCHANGED <<handle, op, callback, reader>>
  PROVE  South!ChangeSources
<1>1. InCallback' = InCallback
  BY DEF InCallback
<1>2. InCallback \subseteq Objects'
  BY DEF PluginInv, ReaderShape, InCallback, Objects
<1> QED
  BY <1>1, <1>2 DEF South!ChangeSources

LEMMA CallStepRefines ==
  ASSUME PluginInv, CallStep
  PROVE  South!SouthNext \/ UNCHANGED South!southVars
<1>1. PluginInv'
  BY CallStepInv
<1>2. op # "none"
  BY DEF CallStep, StartClient, ReplaceClient, StopClient, StartReturns,
         ClearClients, Configure, Delete, Return, PluginInv, TypeOK
<1>3. CASE \/ \E k \in Servers : StartClient(k) \/ ReplaceClient(k)
                                                \/ StopClient(k)
           \/ ClearClients
  <2>1. UNCHANGED <<handle, op, callback, reader>>
    BY <1>3 DEF StartClient, ReplaceClient, StopClient, ClearClients, apiVars
  <2>2. op = "shutdown" => Objects' \subseteq Objects
    <3>1. ASSUME op = "shutdown", NEW k \in Servers, StopClient(k)
          PROVE  Objects' \subseteq Objects
      BY <3>1 DEF StopClient, Objects, PluginInv, TypeOK
    <3>2. ASSUME op = "shutdown", ClearClients
          PROVE  Objects' \subseteq Objects
      BY <3>2 DEF ClearClients, Objects
    <3>3. op = "shutdown" => step # "start"
      BY DEF PluginInv, CallShape
    <3> QED
      BY <1>3, <3>1, <3>2, <3>3 DEF StartClient, ReplaceClient
  <2> QED
    BY <1>1, <1>2, <2>1, <2>2, ObjectsChange DEF South!SouthNext
<1>4. CASE StartReturns
  <2>1. UNCHANGED <<Objects, InCallback>>
    BY <1>4, SameObjects DEF StartReturns, clientVars
  <2>2. op # "shutdown"
    BY <1>4 DEF StartReturns, Return, PluginInv, CallShape
  <2> QED
    BY <1>2, <1>4, <2>1, <2>2
      DEF StartReturns, Return, South!Return, South!SouthNext
<1>5. CASE Configure
  <2>1. UNCHANGED <<Objects, InCallback>>
    BY <1>5, SameObjects DEF Configure, clientVars
  <2>2. op = "reconfigure"
    BY <1>5 DEF Configure, PluginInv, CallShape
  <2>3. op' = op \/ op' = "none"
    BY <1>5 DEF Configure, Return
  <2>4. UNCHANGED <<handle, callback>>
    BY <1>5 DEF Configure
  <2> QED
    BY <2>1, <2>2, <2>3, <2>4
      DEF South!Return, South!SouthNext, South!southVars
<1>6. CASE Delete
  <2>1. UNCHANGED <<Objects, InCallback>>
    BY <1>6, SameObjects DEF Delete, clientVars
  <2>2. op = "shutdown"
    BY <1>6 DEF Delete, Return, PluginInv, CallShape
  <2>3. Objects = {}
    BY <1>6 DEF Delete, Return, PluginInv, ClientShape, Objects
  <2> QED
    BY <1>6, <2>1, <2>2, <2>3
      DEF Delete, Return, South!Return, South!SouthNext
<1> QED
  BY <1>3, <1>4, <1>5, <1>6 DEF CallStep

LEMMA ClientRefines ==
  ASSUME PluginInv, NEW k \in Servers, ClientStopped(k) \/ Ingest(k)
  PROVE  South!SouthNext \/ UNCHANGED South!southVars
<1>1. UNCHANGED <<handle, op, callback>>
  BY DEF ClientStopped, Ingest, IngestCalled, IngestLocked, IngestReturns,
         apiVars
<1>2. Objects' = Objects
  BY DEF ClientStopped, Ingest, IngestCalled, IngestLocked, IngestReturns,
         Objects, PluginInv, TypeOK
<1>3. reader \in [Servers -> {"polling", "waiting", "inCallback"}]
  BY DEF PluginInv, TypeOK
<1>4. CASE ClientStopped(k) \/ IngestCalled(k) \/ (IngestLocked(k) /\ ~callback)
  <2>1. InCallback' = InCallback
    BY <1>3, <1>4 DEF ClientStopped, IngestCalled, IngestLocked, InCallback
  <2> QED
    BY <1>1, <1>2, <2>1 DEF South!southVars
<1>5. CASE IngestLocked(k) /\ callback
  <2>1. InCallback = {}
    BY <1>5, PluginAssumption DEF IngestLocked, InCallback, PluginInv,
                                  ReaderShape
  <2>2. InCallback' = {k}
    BY <1>3, <1>5, <2>1 DEF IngestLocked, InCallback
  <2>3. handle = "live" /\ k \in Objects
    BY <1>5 DEF IngestLocked, PluginInv, ReaderShape, ClientShape, Objects
  <2> QED
    BY <1>1, <1>2, <1>5, <2>1, <2>2, <2>3 DEF South!Feed, South!SouthNext
<1>6. CASE IngestReturns(k)
  <2>1. k \in InCallback
    BY <1>6 DEF IngestReturns, InCallback
  <2>2. InCallback' = {}
    BY <1>3, <1>6 DEF IngestReturns, InCallback, PluginInv, ReaderShape
  <2> QED
    BY <1>1, <1>2, <2>1, <2>2 DEF South!Fed, South!SouthNext
<1> QED
  BY <1>4, <1>5, <1>6 DEF Ingest

\* The plugin implements the safety part of SouthPlugin: for any number of
\* clients, Fledge sees one source at a time, and none after a shutdown.
THEOREM KeepsSouthPromise == Spec => SouthPromise
<1>1. ASSUME PluginInv, [Next]_vars
      PROVE  [South!SouthNext]_(South!southVars)
  <2>1. CASE Next
    BY <1>1, <2>1, FledgeCallRefines, CallStepRefines, ClientRefines DEF Next
  <2>2. CASE UNCHANGED vars
    <3>1. UNCHANGED <<Objects, InCallback>>
      BY <2>2, SameObjects DEF vars, clientVars
    <3> QED
      BY <2>2, <3>1 DEF vars, apiVars, South!southVars
  <2> QED
    BY <1>1, <2>1, <2>2
<1> QED
  BY <1>1, SouthInitially, Invariance, PTL
    DEF Spec, SouthPromise, South!SouthSafety

-----------------------------------------------------------------------------
(***************************************************************************)
(* The life of one client.                                                 *)
(***************************************************************************)

LEMMA ClientSteps ==
  ASSUME PluginInv, Next, NEW j \in Servers
  PROVE  ClientStep(j)
<1>1. /\ phase \in [Servers -> Phases]
      /\ reader \in [Servers -> {"polling", "waiting", "inCallback"}]
  BY DEF PluginInv, TypeOK
<1>2. CASE FledgeCall \/ StartReturns \/ Configure \/ Delete
  BY <1>2 DEF FledgeCall, PluginInit, RegisterIngest, PluginStart,
       PluginReconfigure, PluginShutdown, StartReturns, Configure, Delete,
       clientVars, ClientStep
<1>3. ASSUME NEW k \in Servers, StartClient(k)
      PROVE  ClientStep(j)
  BY <1>1, <1>3 DEF StartClient, ClientStep
<1>4. ASSUME NEW k \in Servers, ReplaceClient(k) \/ StopClient(k)
      PROVE  ClientStep(j)
  <2>1. CASE j # k
    BY <1>1, <1>4, <2>1 DEF ReplaceClient, StopClient, ClientStep
  <2>2. CASE j = k /\ phase[k] = "active"
    <3>1. phase'[j] = "stopping" /\ reader' = reader
      BY <1>1, <1>4, <2>2 DEF ReplaceClient, StopClient
    <3> QED
      BY <2>2, <3>1 DEF ClientStep, Client!AbsNext, Client!AbsOrderStop
  <2>3. CASE j = k /\ phase[k] # "active"
    BY <1>1, <1>4, <2>3 DEF ReplaceClient, StopClient, ClientStep
  <2> QED
    BY <2>1, <2>2, <2>3
<1>5. CASE ClearClients
  BY <1>1, <1>5 DEF ClearClients, ClientStep
<1>6. ASSUME NEW k \in Servers, ClientStopped(k)
      PROVE  ClientStep(j)
  <2>1. CASE j # k
    BY <1>1, <1>6, <2>1 DEF ClientStopped, ClientStep
  <2>2. CASE j = k
    <3>1. phase[j] = "stopping" /\ phase'[j] = "stopped" /\ reader' = reader
      BY <1>1, <1>6, <2>2 DEF ClientStopped
    <3> QED
      BY <3>1 DEF ClientStep, Client!AbsNext, Client!AbsFinish
  <2> QED
    BY <2>1, <2>2
<1>7. ASSUME NEW k \in Servers, Ingest(k)
      PROVE  ClientStep(j)
  <2>1. phase' = phase
    BY <1>7 DEF Ingest, IngestCalled, IngestLocked, IngestReturns
  <2>2. CASE j # k
    <3>1. reader'[j] = reader[j]
      BY <1>1, <1>7, <2>2 DEF Ingest, IngestCalled, IngestLocked, IngestReturns
    <3> QED
      BY <2>1, <3>1 DEF ClientStep
  <2>3. CASE j = k
    <3>1. phase[j] \in {"active", "stopping"}
      BY <1>7, <2>3 DEF Ingest, IngestCalled, IngestLocked, IngestReturns,
                        PluginInv, ReaderShape
    <3> QED
      BY <2>1, <3>1 DEF ClientStep, Client!AbsNext, Client!AbsExport
  <2> QED
    BY <2>2, <2>3
<1> QED
  BY <1>2, <1>3, <1>4, <1>5, <1>6, <1>7 DEF Next, CallStep

\* Whatever Fledge calls, a client is used as PollingClient says, and keeps
\* its promise: the reader of a stopped one does not reach the plugin.
THEOREM ClientsAreUsedProperly == Spec => ClientsKeepPromise
<1>1. ASSUME PluginInv, [Next]_vars
      PROVE  [\A k \in Servers : ClientStep(k)]_vars
  BY <1>1, ClientSteps
<1> QED
  BY <1>1, Invariance, PTL DEF Spec, ClientsKeepPromise
=============================================================================
