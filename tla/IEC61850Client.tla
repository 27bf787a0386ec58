--------------------------- MODULE IEC61850Client ---------------------------
(***************************************************************************)
(* One client of the plugin: the class IEC61850Client together with the    *)
(* IEC61850ClientConnection it owns.  Three threads meet here:             *)
(*   - the caller: the Fledge thread that runs start(), stop() and the     *)
(*     destructor;                                                         *)
(*   - "launch": m_backgroundLaunchThread, which opens the first connection *)
(*     and then spawns the reader;                                         *)
(*   - "reader": m_mmsReadingThread, the polling loop, which also reopens  *)
(*     the connection when it finds it closed.                             *)
(* m_connection is a plain unique_ptr and m_networkStack_error a plain     *)
(* enum: no lock protects them between threads, the order of spawns and    *)
(* joins does.  The server and the network fail at any moment.             *)
(*                                                                         *)
(* The sleeps of the two loops carry no state: each is part of the step    *)
(* that tests the loop's condition after it.                               *)
(***************************************************************************)
EXTENDS Naturals, FiniteSets

CONSTANTS
    NumObjects,       \* size of m_localExchangedData (the configured DOs)
    NumDatasets,      \* size of m_selectedDOInExchangedDatasets
    ReadMode,         \* m_applicationParams.readMode
    Answer,           \* what the server answers to a read of each item
    TransientErrors,  \* may a request fail on a connection that stays healthy?
    MaxFaults         \* bound on the faults of the server and the network

\* The items in the order of buildConfigurationNameTrees: the data objects,
\* then the datasets.
N == NumObjects + NumDatasets
Items == 1..N

(***************************************************************************)
(* "value": a value that buildDatapointFromMms converts when the names     *)
(* match.  "unsupported": one with a part of a type that it refuses.       *)
(* "denied": at times a value, at times an access error (of a dataset, for *)
(* its members).  "unknown": the data model of the server lacks the item.  *)
(***************************************************************************)
Answers == {"value", "unsupported", "denied", "unknown"}

\* The items that exist in the data model of the server.
Served == {i \in Items : Answer[i] # "unknown"}

ASSUME ClientAssumption ==
    /\ NumObjects \in Nat
    /\ NumDatasets \in Nat
    /\ ReadMode \in {"DO_READING", "DATASET_READING"}
    /\ Answer \in [Items -> Answers]
    /\ TransientErrors \in BOOLEAN
    /\ MaxFaults \in Nat

VARIABLES
    caller,     \* control point of the thread that owns the client
    inDtor,     \* is the stop() under way the one of the destructor?
    pc,         \* control points of the two threads of the client
    idx,        \* loop index of each of these threads, in its list of items
    stopOrder,  \* m_stopOrder
    activated,  \* m_isMmsReadingActivated
    conn,       \* m_connection, and the state of its IedConnection
    stackError, \* m_networkStack_error # IED_ERROR_OK
    names,      \* the MMS name trees of each item
    exported,   \* the items sent to Fledge in this read cycle
    serverUp,   \* does the server accept connections?
    faults,     \* the faults so far
    crashed     \* the process died of a null pointer

callerVars == <<caller, inDtor>>
connVars   == <<conn, stackError, names>>
envVars    == <<serverUp, faults>>
vars == <<callerVars, pc, idx, stopOrder, activated, connVars, exported,
          envVars, crashed>>

Threads == {"launch", "reader"}

(***************************************************************************)
(* "null": no connection object.  "connected": IED_STATE_CONNECTED and the *)
(* server answers.  "stale": the peer is gone but the library has not seen *)
(* it yet, so the state still reads IED_STATE_CONNECTED.  "closed": any    *)
(* other state.                                                            *)
(***************************************************************************)
ConnStates == {"null", "connected", "stale", "closed"}

(***************************************************************************)
(* "none": never built.  "partial": some names are missing, so the value   *)
(* of the item does not match.  "complete": built from the answers of the  *)
(* connection in use.  "outdated": built over an earlier connection, to a  *)
(* server whose data model may have changed since.                         *)
(***************************************************************************)
NameStates == {"none", "partial", "complete", "outdated"}

\* initializeConnection, which both threads run
InitLabels == {"destroy", "create", "check", "build", "retry"}
\* readMmsLoop and what it calls on the connection
ReadLabels == {"conn", "err", "item", "request"}
Labels == {"none", "done", "activate", "spawn", "loop"}
            \cup InitLabels \cup ReadLabels

CallerLabels == {"created", "started", "joinLaunch", "stopReading",
                 "joinReader", "release", "stopped", "destroyed"}

\* The items that a read cycle visits, an interval of 1..N.
First == IF ReadMode = "DO_READING" THEN 1 ELSE NumObjects + 1
Last  == IF ReadMode = "DO_READING" THEN NumObjects ELSE N
Polled == First..Last

IsConnected == conn \in {"connected", "stale"}

Goto(t, label) == pc' = [pc EXCEPT ![t] = label]
At(t, label) == ~crashed /\ pc[t] = label
MayFault == faults < MaxFaults
Fault == MayFault /\ faults' = faults + 1

Init ==
    /\ caller = "created"
    /\ inDtor = FALSE
    /\ pc = [t \in Threads |-> "none"]
    /\ idx = [t \in Threads |-> 1]
    /\ stopOrder = FALSE
    /\ activated = FALSE
    /\ conn = "null"
    /\ stackError = FALSE
    /\ names = [i \in Items |-> "none"]
    /\ exported = {}
    /\ serverUp \in BOOLEAN
    /\ faults = 0
    /\ crashed = FALSE

-----------------------------------------------------------------------------
(***************************************************************************)
(* The caller.                                                             *)
(***************************************************************************)

\* start(): spawn the launch thread, whose first call is initializeConnection.
Start ==
    /\ ~crashed /\ caller = "created"
    /\ caller' = "started"
    /\ Goto("launch", "destroy")
    /\ UNCHANGED <<inDtor, idx, stopOrder, activated, connVars, exported,
                   envVars, crashed>>

\* stop() is entered, by the owner or from the destructor.
OrderStop ==
    /\ ~crashed /\ caller \in {"created", "started", "stopped"}
    /\ inDtor' \in (IF caller = "stopped" THEN {TRUE} ELSE BOOLEAN)
    /\ stopOrder' = TRUE
    /\ caller' = "joinLaunch"
    /\ UNCHANGED <<pc, idx, activated, connVars, exported, envVars, crashed>>

\* Faulty variant: stop() detaches the launch thread in place of joining it.
JoinLaunchDetached ==
    /\ ~crashed /\ caller = "joinLaunch"
    /\ caller' = "stopReading"
    /\ UNCHANGED <<inDtor, pc, idx, stopOrder, activated, connVars, exported,
                   envVars, crashed>>

\* joinable() is false for a thread never spawned, or joined before.
JoinLaunch ==
    /\ ~crashed /\ caller = "joinLaunch"
    /\ pc["launch"] \in {"none", "done"}
    /\ caller' = "stopReading"
    /\ UNCHANGED <<inDtor, pc, idx, stopOrder, activated, connVars, exported,
                   envVars, crashed>>

\* Faulty variant: the flag is reset and the reader is not joined.
StopMmsReadingUnjoined ==
    /\ ~crashed /\ caller = "stopReading"
    /\ activated' = FALSE
    /\ caller' = "release"
    /\ UNCHANGED <<inDtor, pc, idx, stopOrder, connVars, exported, envVars,
                   crashed>>

StopMmsReading ==
    /\ ~crashed /\ caller = "stopReading"
    /\ activated' = FALSE
    /\ caller' = IF activated THEN "joinReader" ELSE "release"
    /\ UNCHANGED <<inDtor, pc, idx, stopOrder, connVars, exported, envVars,
                   crashed>>

JoinReader ==
    /\ ~crashed /\ caller = "joinReader"
    /\ pc["reader"] = "done"
    /\ caller' = "release"
    /\ UNCHANGED <<inDtor, pc, idx, stopOrder, activated, connVars, exported,
                   envVars, crashed>>

\* The destroyConnection() that ends stop().
Release ==
    /\ ~crashed /\ caller = "release"
    /\ conn' = "null"
    /\ caller' = IF inDtor THEN "destroyed" ELSE "stopped"
    /\ UNCHANGED <<inDtor, pc, idx, stopOrder, activated, stackError, names,
                   exported, envVars, crashed>>

Caller == Start \/ OrderStop \/ JoinLaunch \/ StopMmsReading \/ JoinReader
            \/ Release

-----------------------------------------------------------------------------
(***************************************************************************)
(* The server and the network, seen through libiec61850.                   *)
(***************************************************************************)

\* The server stops; its connections are lost, unnoticed at first.
ServerFails ==
    /\ ~crashed /\ serverUp
    /\ Fault
    /\ serverUp' = FALSE
    /\ conn' = IF conn = "connected" THEN "stale" ELSE conn
    /\ UNCHANGED <<callerVars, pc, idx, stopOrder, activated, stackError,
                   names, exported, crashed>>

ServerRecovers ==
    /\ ~crashed /\ ~serverUp
    /\ serverUp' = TRUE
    /\ UNCHANGED <<callerVars, pc, idx, stopOrder, activated, connVars,
                   exported, faults, crashed>>

\* The association is lost while the server goes on.
LinkLost ==
    /\ ~crashed /\ conn = "connected" /\ serverUp
    /\ Fault
    /\ conn' = "stale"
    /\ UNCHANGED <<callerVars, pc, idx, stopOrder, activated, stackError,
                   names, exported, serverUp, crashed>>

\* The library notices, and IedConnection_getState changes.
DetectLoss ==
    /\ ~crashed /\ conn = "stale"
    /\ conn' = "closed"
    /\ UNCHANGED <<callerVars, pc, idx, stopOrder, activated, stackError,
                   names, exported, envVars, crashed>>

Environment == ServerFails \/ ServerRecovers \/ LinkLost \/ DetectLoss

-----------------------------------------------------------------------------
(***************************************************************************)
(* initializeConnection, run by thread t.                                  *)
(***************************************************************************)

DestroyConnection(t) ==
    /\ At(t, "destroy")
    /\ conn' = "null"
    /\ Goto(t, "create")
    /\ UNCHANGED <<callerVars, idx, stopOrder, activated, stackError, names,
                   exported, envVars, crashed>>

\* The constructor of the connection opens it, so its outcome is known here.
CreateConnection(t) ==
    /\ At(t, "create")
    /\ Goto(t, "check")
    /\ IF conn = "null"
         THEN /\ conn' = IF serverUp THEN "connected" ELSE "closed"
              /\ stackError' = ~serverUp
              /\ names' = [i \in Items |-> IF names[i] = "none"
                                           THEN "none" ELSE "outdated"]
         ELSE UNCHANGED connVars
    /\ UNCHANGED <<callerVars, idx, stopOrder, activated, exported, envVars,
                   crashed>>

\* Faulty variant: names that were built once are never built again.
CheckConnectedOnce(t) ==
    /\ At(t, "check")
    /\ IF IsConnected /\ \E i \in Items : names[i] = "none"
         THEN Goto(t, "build") /\ idx' = [idx EXCEPT ![t] = 1]
         ELSE Goto(t, "retry") /\ UNCHANGED idx
    /\ UNCHANGED <<callerVars, stopOrder, activated, connVars, exported,
                   envVars, crashed>>

CheckConnected(t) ==
    /\ At(t, "check")
    /\ IF IsConnected /\ Items # {}
         THEN Goto(t, "build") /\ idx' = [idx EXCEPT ![t] = 1]
         ELSE Goto(t, "retry") /\ UNCHANGED idx
    /\ UNCHANGED <<callerVars, stopOrder, activated, connVars, exported,
                   envVars, crashed>>

(***************************************************************************)
(* What buildNameTree and getDoPathListWithFCFromDataset leave of item i:  *)
(* its name trees, and the error of the last of their requests.            *)
(***************************************************************************)
BuildNamesOf(i) ==
    \/ /\ ~IsConnected
       /\ names' = [names EXCEPT ![i] = "partial"]
       /\ UNCHANGED <<stackError, faults>>
    \/ /\ conn = "connected" /\ i \in Served
       /\ names' = [names EXCEPT ![i] = "complete"]
       /\ stackError' = FALSE
       /\ UNCHANGED faults
    \/ /\ conn = "connected" /\ i \notin Served
       /\ names' = [names EXCEPT ![i] = "partial"]
       /\ stackError' \in BOOLEAN
       /\ UNCHANGED faults
    \/ /\ \/ conn = "stale" /\ UNCHANGED faults
          \/ conn = "connected" /\ i \in Served /\ TransientErrors /\ Fault
       /\ \E state \in {"partial", "complete"} :
            names' = [names EXCEPT ![i] = state]
       /\ stackError' \in BOOLEAN

\* Faulty variants: the loop stops one item short, or runs one too far.
BuildNamesShort(t) ==
    /\ At(t, "build")
    /\ BuildNamesOf(idx[t])
    /\ IF idx[t] < N - 1
         THEN idx' = [idx EXCEPT ![t] = @ + 1] /\ UNCHANGED pc
         ELSE Goto(t, "retry") /\ UNCHANGED idx
    /\ UNCHANGED <<callerVars, stopOrder, activated, conn, exported, serverUp,
                   crashed>>

BuildNamesPastEnd(t) ==
    /\ At(t, "build")
    /\ IF idx[t] \in Items THEN BuildNamesOf(idx[t])
         ELSE UNCHANGED <<names, stackError, faults>>
    /\ IF idx[t] <= N
         THEN idx' = [idx EXCEPT ![t] = @ + 1] /\ UNCHANGED pc
         ELSE Goto(t, "retry") /\ UNCHANGED idx
    /\ UNCHANGED <<callerVars, stopOrder, activated, conn, exported, serverUp,
                   crashed>>

\* One round of the loops of buildConfigurationNameTrees.
BuildNames(t) ==
    /\ At(t, "build")
    /\ BuildNamesOf(idx[t])
    /\ IF idx[t] < N
         THEN idx' = [idx EXCEPT ![t] = @ + 1] /\ UNCHANGED pc
         ELSE Goto(t, "retry") /\ UNCHANGED idx
    /\ UNCHANGED <<callerVars, stopOrder, activated, conn, exported, serverUp,
                   crashed>>

\* Where initializeConnection returns to, in thread t.
AfterInit(t) == IF t = "launch" THEN "activate" ELSE "loop"

\* Faulty variant: the order to stop is not seen while the server is away.
RetryForever(t) ==
    /\ At(t, "retry")
    /\ Goto(t, IF ~IsConnected THEN "destroy" ELSE AfterInit(t))
    /\ UNCHANGED <<callerVars, idx, stopOrder, activated, connVars, exported,
                   envVars, crashed>>

\* The condition of the do-while, after its sleep of one second.
Retry(t) ==
    /\ At(t, "retry")
    /\ Goto(t, IF ~stopOrder /\ ~IsConnected THEN "destroy" ELSE AfterInit(t))
    /\ UNCHANGED <<callerVars, idx, stopOrder, activated, connVars, exported,
                   envVars, crashed>>

InitializeConnection(t) ==
    DestroyConnection(t) \/ CreateConnection(t) \/ CheckConnected(t)
        \/ BuildNames(t) \/ Retry(t)

-----------------------------------------------------------------------------
(***************************************************************************)
(* startMmsReading, the end of launch().                                   *)
(***************************************************************************)

Activate ==
    /\ At("launch", "activate")
    /\ activated' = TRUE
    /\ Goto("launch", "spawn")
    /\ UNCHANGED <<callerVars, idx, stopOrder, connVars, exported, envVars,
                   crashed>>

SpawnReader ==
    /\ At("launch", "spawn")
    /\ pc' = [pc EXCEPT !["launch"] = "done", !["reader"] = "loop"]
    /\ UNCHANGED <<callerVars, idx, stopOrder, activated, connVars, exported,
                   envVars, crashed>>

Launch == InitializeConnection("launch") \/ Activate \/ SpawnReader

-----------------------------------------------------------------------------
(***************************************************************************)
(* readMmsLoop.  An exception ends the read cycle, never the loop.         *)
(***************************************************************************)

LoopTest ==
    /\ At("reader", "loop")
    /\ IF activated
         THEN Goto("reader", "conn") /\ exported' = {}
         ELSE Goto("reader", "done") /\ UNCHANGED exported
    /\ UNCHANGED <<callerVars, idx, stopOrder, activated, connVars, envVars,
                   crashed>>

\* Faulty variant: the cycle is skipped and nobody opens the connection again.
CheckConnectionOnly ==
    /\ At("reader", "conn")
    /\ Goto("reader", IF IsConnected THEN "err" ELSE "loop")
    /\ UNCHANGED <<callerVars, idx, stopOrder, activated, connVars, exported,
                   envVars, crashed>>

CheckConnection ==
    /\ At("reader", "conn")
    /\ Goto("reader", IF IsConnected THEN "err" ELSE "destroy")
    /\ UNCHANGED <<callerVars, idx, stopOrder, activated, connVars, exported,
                   envVars, crashed>>

\* isNoError, whose failure only logs.
CheckError ==
    /\ At("reader", "err")
    /\ IF ~stackError /\ Polled # {}
         THEN Goto("reader", "item") /\ idx' = [idx EXCEPT !["reader"] = First]
         ELSE Goto("reader", "loop") /\ UNCHANGED idx
    /\ UNCHANGED <<callerVars, stopOrder, activated, connVars, exported,
                   envVars, crashed>>

\* The next item of the cycle, or its end.
Advance ==
    IF idx["reader"] < Last
      THEN /\ pc' = [pc EXCEPT !["reader"] = "item"]
           /\ idx' = [idx EXCEPT !["reader"] = @ + 1]
      ELSE Goto("reader", "loop") /\ UNCHANGED idx

(***************************************************************************)
(* readDO and readDataset return a null pointer when they find the         *)
(* connection closed.  Its user tests it for a data object only; the       *)
(* dataset's goes through it, and the process dies.                        *)
(***************************************************************************)
CheckItem ==
    /\ At("reader", "item")
    /\ \/ /\ IsConnected
          /\ Goto("reader", "request")
          /\ UNCHANGED <<idx, crashed>>
       \/ /\ ~IsConnected /\ ReadMode = "DO_READING"
          /\ Advance
          /\ UNCHANGED crashed
       \/ /\ ~IsConnected /\ ReadMode = "DATASET_READING"
          /\ crashed' = TRUE
          /\ UNCHANGED <<pc, idx>>
    /\ UNCHANGED <<callerVars, stopOrder, activated, connVars, exported,
                   envVars>>

(***************************************************************************)
(* The server sends the value of the item.  It is exported when it matches *)
(* the names and all of its types are known, otherwise an exception ends   *)
(* the cycle, and what comes after the item is not read.  (The members of  *)
(* a dataset that precede the exception are sent: see MmsReading.)         *)
(***************************************************************************)
Reply(i) ==
    /\ conn = "connected" /\ i \in Served
    /\ stackError' = FALSE
    /\ IF names[i] = "complete" /\ Answer[i] # "unsupported"
         THEN Advance /\ exported' = exported \cup {i}
         ELSE Goto("reader", "loop") /\ UNCHANGED <<idx, exported>>
    /\ UNCHANGED <<faults, crashed>>

(***************************************************************************)
(* A data object that the server denies, or does not have, is read as an   *)
(* access error.  That is a value: no datapoint is made of it, whatever    *)
(* its names are, and no error is recorded.  The members of a dataset      *)
(* likewise, unless there are not as many as its names.                    *)
(***************************************************************************)
AccessError(i) ==
    /\ conn = "connected"
    /\ \/ Answer[i] = "denied"
       \/ Answer[i] = "unknown" /\ ReadMode = "DO_READING"
    /\ stackError' = FALSE
    /\ \/ Advance
       \/ /\ ReadMode = "DATASET_READING" /\ names[i] # "complete"
          /\ Goto("reader", "loop") /\ UNCHANGED idx
    /\ UNCHANGED <<exported, faults, crashed>>

\* The request fails.  A data object has a null value, which is not sent; a
\* dataset has no ClientDataSet, whose values readDataset asks for.
RequestFails(i) ==
    /\ \/ conn \in {"stale", "closed"} /\ UNCHANGED faults
       \/ conn = "connected" /\ i \in Served /\ TransientErrors /\ Fault
       \/ /\ conn = "connected" /\ i \notin Served
          /\ ReadMode = "DATASET_READING" /\ UNCHANGED faults
    /\ stackError' = TRUE
    /\ IF ReadMode = "DO_READING"
         THEN Advance /\ UNCHANGED crashed
         ELSE crashed' = TRUE /\ UNCHANGED <<pc, idx>>
    /\ UNCHANGED exported

Request ==
    /\ At("reader", "request")
    /\ \/ Reply(idx["reader"])
       \/ AccessError(idx["reader"])
       \/ RequestFails(idx["reader"])
    /\ UNCHANGED <<callerVars, stopOrder, activated, conn, names, serverUp>>

Reader == InitializeConnection("reader") \/ LoopTest \/ CheckConnection
            \/ CheckError \/ CheckItem \/ Request

-----------------------------------------------------------------------------
\* The client is destroyed or the process is dead: nothing is left to do.
Terminated == (caller = "destroyed" \/ crashed) /\ UNCHANGED vars

Next == Caller \/ Launch \/ Reader \/ Environment \/ Terminated

Spec == Init /\ [][Next]_vars

(***************************************************************************)
(* Every thread runs, and the library notices a lost connection (the       *)
(* keep-alive of TCP, or the time limit of a request).  The owner is not   *)
(* obliged to call start() or stop(), nor the faults to happen.            *)
(***************************************************************************)
Fairness ==
    /\ WF_vars(JoinLaunch \/ StopMmsReading \/ JoinReader \/ Release)
    /\ WF_vars(Launch)
    /\ WF_vars(Reader)
    /\ WF_vars(DetectLoss)

FairSpec == Spec /\ Fairness

\* What the client's data depend on besides: a server that comes back.
LiveSpec == FairSpec /\ WF_vars(ServerRecovers)

-----------------------------------------------------------------------------
(***************************************************************************)
(* Type correctness.                                                       *)
(***************************************************************************)

\* Every variable keeps its type: the indices stay in the lists they scan,
\* and each thread stays in the functions that it runs.
LaunchLabels == {"none", "done", "activate", "spawn"} \cup InitLabels
ReaderLabels == {"none", "done", "loop"} \cup InitLabels \cup ReadLabels

TypeOK ==
    /\ caller \in CallerLabels
    /\ inDtor \in BOOLEAN
    /\ pc \in [Threads -> Labels]
    /\ pc["launch"] \in LaunchLabels
    /\ pc["reader"] \in ReaderLabels
    /\ idx \in [Threads -> Nat]
    /\ \A t \in Threads : pc[t] \in {"build", "item", "request"}
                                => idx[t] \in Items
    /\ stopOrder \in BOOLEAN
    /\ activated \in BOOLEAN
    /\ conn \in ConnStates
    /\ stackError \in BOOLEAN
    /\ names \in [Items -> NameStates]
    /\ exported \subseteq Items
    /\ serverUp \in BOOLEAN
    /\ faults \in 0..MaxFaults
    /\ crashed \in BOOLEAN

-----------------------------------------------------------------------------
(***************************************************************************)
(* Safety.                                                                 *)
(***************************************************************************)

\* The threads that may now use m_connection, the caller among them.
Users == {t \in Threads : pc[t] \in InitLabels \cup ReadLabels}
           \cup {c \in {"caller"} : caller = "release"}

\* m_connection has no lock: at any time at most one of the three threads is
\* in code that uses it, so the order of spawns and joins is lock enough.
ConnectionOwnership == \A t, u \in Users : t = u

\* The positions where m_connection is dereferenced.
DerefLabels == {"check", "build", "retry"} \cup ReadLabels

\* Nobody dereferences m_connection while it is null: not the reader while
\* stop() destroys it, nor a thread between the destruction and the creation
\* of initializeConnection.
ConnectionExists ==
    \A t \in Threads : pc[t] \in DerefLabels => conn # "null"

\* When stop() returns, from the owner or the destructor, no thread of the
\* client runs any more, so the members that they use can be destroyed.
NoThreadOutlivesClient ==
    caller \in {"stopped", "destroyed"} =>
        /\ \A t \in Threads : pc[t] \in {"none", "done"}
        /\ ~activated
        /\ conn = "null"

Built(i) == names[i] \in {"partial", "complete"}

\* The reader never matches a value against names that were asked from an
\* earlier connection, or that were never asked: every reconnection rebuilds
\* them before the first read.
NamesMatchConnection ==
    pc["reader"] \in {"err", "item", "request"} /\ IsConnected
        => \A i \in Items : Built(i)

\* On a connection that was never disturbed, the names of all that the server
\* has are complete when the reader reads, so that no value is refused.
NamesComplete ==
    ~TransientErrors /\ pc["reader"] \in {"err", "item", "request"}
                     /\ conn = "connected"
        => \A i \in Served : names[i] = "complete"

\* No sequence of faults kills the process.  The code fails this one in the
\* reading mode of datasets: see CheckItem and RequestFails.
NeverCrashes == ~crashed

-----------------------------------------------------------------------------
(***************************************************************************)
(* The inductive strengthening of the safety invariants: how far each      *)
(* thread can be, given where the others are.                              *)
(***************************************************************************)

\* The reader exists once launch() has ended; the flag is set in between.
Handover ==
    /\ pc["launch"] = "done" <=> pc["reader"] # "none"
    /\ activated => pc["launch"] \in {"spawn", "done"}
    /\ pc["launch"] = "spawn" => activated
    /\ pc["reader"] = "done" => ~activated

\* The caller is past a join only when the thread has ended.
Joined ==
    /\ caller = "created" => pc["launch"] = "none"
    /\ caller \in {"stopReading", "joinReader", "release", "stopped",
                   "destroyed"} => pc["launch"] \in {"none", "done"}
    /\ caller \in {"joinReader", "release", "stopped", "destroyed"}
         => ~activated
    /\ ~activated /\ caller # "joinReader"
         => pc["reader"] \in {"none", "done"}

\* A connection object exists while a thread is anywhere but at the two
\* steps that replace it.
Held ==
    /\ pc["launch"] \notin {"none", "done", "destroy", "create"}
         => conn # "null"
    /\ pc["reader"] \notin {"none", "done", "destroy", "create"}
         => conn # "null"
    /\ caller \in {"stopped", "destroyed"} => conn = "null"

\* The loop of buildConfigurationNameTrees has built what it has passed, and
\* everything once it has ended on a connection that still looks open.
NamesProgress ==
    /\ \A t \in Threads : pc[t] = "build"
         => \A i \in Items : i < idx[t] => Built(i)
    /\ pc["launch"] \in {"retry", "activate", "spawn"} /\ IsConnected
         => \A i \in Items : Built(i)
    /\ pc["reader"] \in {"retry", "loop"} \cup ReadLabels /\ IsConnected
         => \A i \in Items : Built(i)

\* The inductive invariant: it implies each of the safety invariants above.
ClientInv == TypeOK /\ Handover /\ Joined /\ Held /\ NamesProgress

-----------------------------------------------------------------------------
(***************************************************************************)
(* Liveness, and the promise to the owner.                                 *)
(***************************************************************************)

\* A stop() that was called returns, whatever the server does: neither the
\* reconnection loop nor the polling loop can hold the owner.
StopReturns == caller = "joinLaunch" ~> caller \in {"stopped", "destroyed"}

(***************************************************************************)
(* The items that the client is sure to export.  A value is not enough:    *)
(* an exception ends each cycle at the item that causes it, and an error   *)
(* that the last request for names leaves is never reset, so that on a     *)
(* healthy connection it stops all cycles: see CheckError.  Therefore no   *)
(* item before it in the cycle may be unsupported, and the server must     *)
(* have the very last item of the configuration.                           *)
(***************************************************************************)
Due == {i \in Polled : /\ Answer[i] = "value" /\ N \in Served
                       /\ \A j \in First..(i - 1) : Answer[j] # "unsupported"}

\* As long as the owner does not stop the client, each of these is sent again
\* and again: whatever outages there are, and although other items are
\* unknown to the server, denied or, after it, of an unsupported type.
ServedExported ==
    \A i \in Due : caller = "started" ~> (i \in exported \/ stopOrder)

\* The life of the client as its owner sees it.
Phase == CASE caller = "created"   -> "idle"
           [] caller = "started"   -> "active"
           [] caller = "stopped"   -> "stopped"
           [] caller = "destroyed" -> "destroyed"
           [] OTHER                -> "stopping"

Promise == INSTANCE PollingClient WITH phase <- Phase

\* The client implements the promise of PollingClient: data reach the owner
\* only between start() and the return of stop(), and stop() returns.
KeepsPromise == Promise!AbsSpec

\* The part of the promise that survives the death of the process.
KeepsSafePromise == Promise!AbsSafety
=============================================================================
