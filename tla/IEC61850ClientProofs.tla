------------------------ MODULE IEC61850ClientProofs ------------------------
(***************************************************************************)
(* Proofs about IEC61850Client, for every configuration of the client and  *)
(* every server: ClientInv is an inductive invariant, the safety           *)
(* invariants follow from it, and so does the safety part of the promise   *)
(* of PollingClient.                                                       *)
(***************************************************************************)
EXTENDS IEC61850Client, TLAPS

\* What a read cycle visits is configured: First and Last bound indices of
\* items.
LEMMA PolledItems ==
    /\ N \in Nat /\ First \in Nat /\ Last \in Nat
    /\ Last <= N /\ 1 <= First
    /\ Polled # {} => First \in Items
  BY ClientAssumption DEF Polled, First, Last, Items, N

\* A fault stays within the bound on their number.
LEMMA FaultsBounded ==
    faults \in 0..MaxFaults /\ Fault => faults' \in 0..MaxFaults
  BY ClientAssumption DEF Fault, MayFault

LEMMA InitiallyInv == Init => ClientInv
<1> SUFFICES ASSUME Init PROVE ClientInv
  OBVIOUS
<1>1. TypeOK
  <2>1. /\ pc \in [Threads -> Labels]
        /\ \A t \in Threads : pc[t] = "none"
    BY DEF Init, Threads, Labels
  <2>2. /\ idx \in [Threads -> Nat]
        /\ names \in [Items -> NameStates]
    BY DEF Init, NameStates
  <2>3. faults \in 0..MaxFaults /\ exported \subseteq Items
    BY ClientAssumption DEF Init
  <2> QED
    BY <2>1, <2>2, <2>3 DEF Init, TypeOK, CallerLabels, LaunchLabels,
       ReaderLabels, Threads, ConnStates
<1>2. Handover /\ Joined /\ Held /\ NamesProgress
  BY DEF Init, Handover, Joined, Held, NamesProgress, Threads, ReadLabels
<1> QED
  BY <1>1, <1>2 DEF ClientInv

-----------------------------------------------------------------------------
(***************************************************************************)
(* Each action keeps the invariant.                                        *)
(***************************************************************************)

LEMMA CallerKeepsInv == ClientInv /\ Caller => ClientInv'
<1> SUFFICES ASSUME ClientInv, Caller PROVE ClientInv'
  OBVIOUS
<1> USE DEF ClientInv, callerVars, connVars, envVars
<1>1. CASE Start
  <2>1. TypeOK'
    BY <1>1 DEF Start, Goto, TypeOK, CallerLabels, Labels, LaunchLabels,
       ReaderLabels, InitLabels, Threads
  <2>2. Handover' /\ Joined' /\ Held'
    BY <1>1 DEF Start, Goto, TypeOK, Threads, Handover, Joined, Held
  <2>3. NamesProgress'
    BY <1>1 DEF Start, Goto, TypeOK, Threads, NamesProgress, Built,
       IsConnected, ReadLabels
  <2> QED  BY <2>1, <2>2, <2>3
<1>2. CASE OrderStop
  <2>1. TypeOK'
    BY <1>2 DEF OrderStop, TypeOK, CallerLabels
  <2>2. Handover' /\ Joined' /\ Held'
    BY <1>2 DEF OrderStop, Handover, Joined, Held
  <2>3. NamesProgress'
    BY <1>2 DEF OrderStop, NamesProgress, Built, IsConnected
  <2> QED  BY <2>1, <2>2, <2>3
<1>3. CASE JoinLaunch
  <2>1. TypeOK'
    BY <1>3 DEF JoinLaunch, TypeOK, CallerLabels
  <2>2. Handover' /\ Joined' /\ Held'
    BY <1>3 DEF JoinLaunch, Handover, Joined, Held
  <2>3. NamesProgress'
    BY <1>3 DEF JoinLaunch, NamesProgress, Built, IsConnected
  <2> QED  BY <2>1, <2>2, <2>3
<1>4. CASE StopMmsReading
  <2>1. TypeOK'
    BY <1>4 DEF StopMmsReading, TypeOK, CallerLabels
  <2>2. Handover' /\ Joined' /\ Held'
    BY <1>4 DEF StopMmsReading, TypeOK, Handover, Joined, Held
  <2>3. NamesProgress'
    BY <1>4 DEF StopMmsReading, NamesProgress, Built, IsConnected
  <2> QED  BY <2>1, <2>2, <2>3
<1>5. CASE JoinReader
  <2>1. TypeOK'
    BY <1>5 DEF JoinReader, TypeOK, CallerLabels
  <2>2. Handover' /\ Joined' /\ Held'
    BY <1>5 DEF JoinReader, Handover, Joined, Held
  <2>3. NamesProgress'
    BY <1>5 DEF JoinReader, NamesProgress, Built, IsConnected
  <2> QED  BY <2>1, <2>2, <2>3
<1>6. CASE Release
  <2>1. TypeOK'
    BY <1>6 DEF Release, TypeOK, CallerLabels, ConnStates
  <2>2. Handover' /\ Joined' /\ Held'
    BY <1>6 DEF Release, Handover, Joined, Held
  <2>3. NamesProgress'
    BY <1>6 DEF Release, NamesProgress, Built, IsConnected
  <2> QED  BY <2>1, <2>2, <2>3
<1> QED
  BY <1>1, <1>2, <1>3, <1>4, <1>5, <1>6 DEF Caller

LEMMA EnvironmentKeepsInv == ClientInv /\ Environment => ClientInv'
<1> SUFFICES ASSUME ClientInv, Environment PROVE ClientInv'
  OBVIOUS
<1> USE DEF ClientInv, callerVars, connVars, envVars
<1>1. CASE ServerFails
  <2>0. faults' \in 0..MaxFaults
    BY <1>1, FaultsBounded DEF ServerFails, TypeOK
  <2>1. TypeOK'
    BY <1>1, <2>0 DEF ServerFails, TypeOK, ConnStates
  <2>2. Handover' /\ Joined' /\ Held'
    BY <1>1 DEF ServerFails, Handover, Joined, Held
  <2>3. NamesProgress'
    BY <1>1 DEF ServerFails, NamesProgress, Built, IsConnected
  <2> QED  BY <2>1, <2>2, <2>3
<1>2. CASE ServerRecovers
  <2>1. TypeOK'
    BY <1>2 DEF ServerRecovers, TypeOK
  <2>2. Handover' /\ Joined' /\ Held'
    BY <1>2 DEF ServerRecovers, Handover, Joined, Held
  <2>3. NamesProgress'
    BY <1>2 DEF ServerRecovers, NamesProgress, Built, IsConnected
  <2> QED  BY <2>1, <2>2, <2>3
<1>3. CASE LinkLost
  <2>0. faults' \in 0..MaxFaults
    BY <1>3, FaultsBounded DEF LinkLost, TypeOK
  <2>1. TypeOK'
    BY <1>3, <2>0 DEF LinkLost, TypeOK, ConnStates
  <2>2. Handover' /\ Joined' /\ Held'
    BY <1>3 DEF LinkLost, Handover, Joined, Held
  <2>3. NamesProgress'
    BY <1>3 DEF LinkLost, NamesProgress, Built, IsConnected
  <2> QED  BY <2>1, <2>2, <2>3
<1>4. CASE DetectLoss
  <2>1. TypeOK'
    BY <1>4 DEF DetectLoss, TypeOK, ConnStates
  <2>2. Handover' /\ Joined' /\ Held'
    BY <1>4 DEF DetectLoss, Handover, Joined, Held
  <2>3. NamesProgress'
    BY <1>4 DEF DetectLoss, NamesProgress, Built, IsConnected
  <2> QED  BY <2>1, <2>2, <2>3
<1> QED
  BY <1>1, <1>2, <1>3, <1>4 DEF Environment

\* Only one of the two threads is in initializeConnection, and the caller
\* then has not released the connection.
LEMMA SoleInitializer ==
    ASSUME ClientInv, NEW t \in Threads, pc[t] \in InitLabels
    PROVE  /\ caller \notin {"created", "release", "stopped", "destroyed"}
           /\ t = "launch" => pc["reader"] = "none"
           /\ t = "reader" => pc["launch"] = "done"
  BY DEF ClientInv, TypeOK, Handover, Joined, Threads, InitLabels

LEMMA InitializeKeepsInv ==
    ASSUME ClientInv, NEW t \in Threads, InitializeConnection(t)
    PROVE  ClientInv'
<1> USE DEF ClientInv, callerVars, connVars, envVars, At, Goto
<1>1. CASE DestroyConnection(t)
  <2>0. pc[t] = "destroy" /\ pc[t] \in InitLabels
    BY <1>1 DEF DestroyConnection, InitLabels
  <2>1. TypeOK'
    BY <1>1 DEF DestroyConnection, TypeOK, Labels, LaunchLabels, ReaderLabels,
       InitLabels, Threads, ConnStates
  <2>2. Handover' /\ Joined' /\ Held'
    BY <1>1, <2>0, SoleInitializer
    DEF DestroyConnection, TypeOK, Threads, Handover, Joined, Held
  <2>3. NamesProgress'
    BY <1>1, <2>0, SoleInitializer
    DEF DestroyConnection, TypeOK, Threads, NamesProgress, IsConnected
  <2> QED  BY <2>1, <2>2, <2>3
<1>2. CASE CreateConnection(t)
  <2>0. pc[t] = "create" /\ pc[t] \in InitLabels
    BY <1>2 DEF CreateConnection, InitLabels
  <2>1. TypeOK'
    <3>1. names' \in [Items -> NameStates]
      BY <1>2 DEF CreateConnection, TypeOK, NameStates
    <3>2. conn' \in ConnStates /\ stackError' \in BOOLEAN
      BY <1>2 DEF CreateConnection, TypeOK, ConnStates
    <3> QED
      BY <1>2, <3>1, <3>2 DEF CreateConnection, TypeOK, Labels, LaunchLabels,
         ReaderLabels, InitLabels, Threads
  <2>2. Handover' /\ Joined' /\ Held'
    <3>1. conn' # "null"
      BY <1>2 DEF CreateConnection
    <3> QED
      BY <1>2, <2>0, <3>1, SoleInitializer
      DEF CreateConnection, TypeOK, Threads, Handover, Joined, Held
  <2>3. NamesProgress'
    BY <1>2, <2>0, SoleInitializer
    DEF CreateConnection, TypeOK, Threads, NamesProgress, ReadLabels
  <2> QED  BY <2>1, <2>2, <2>3
<1>3. CASE CheckConnected(t)
  <2>0. pc[t] = "check" /\ pc[t] \in InitLabels
    BY <1>3 DEF CheckConnected, InitLabels
  <2>1. TypeOK'
    <3>1. Items # {} => 1 \in Items
      BY PolledItems DEF Items
    <3> QED
      BY <1>3, <3>1 DEF CheckConnected, TypeOK, Labels, LaunchLabels,
         ReaderLabels, InitLabels, Threads
  <2>2. Handover' /\ Joined' /\ Held'
    BY <1>3, <2>0 DEF CheckConnected, TypeOK, Threads, Handover, Joined, Held
  <2>3. NamesProgress'
    BY <1>3, <2>0, SoleInitializer, PolledItems
    DEF CheckConnected, TypeOK, Threads, NamesProgress, ReadLabels,
        IsConnected, Built, Items
  <2> QED  BY <2>1, <2>2, <2>3
<1>4. CASE BuildNames(t)
  <2>0. pc[t] = "build" /\ pc[t] \in InitLabels /\ idx[t] \in Items
    BY <1>4 DEF BuildNames, InitLabels, TypeOK
  <2>1. /\ names' \in [Items -> NameStates]
        /\ \A i \in Items : i = idx[t] \/ Built(i) => Built(i)'
    BY <1>4, <2>0 DEF BuildNames, BuildNamesOf, TypeOK, NameStates, Built
  <2>2. faults' \in 0..MaxFaults /\ stackError' \in BOOLEAN
    BY <1>4, FaultsBounded DEF BuildNames, BuildNamesOf, TypeOK
  <2>3. TypeOK'
    BY <1>4, <2>0, <2>1, <2>2, PolledItems
    DEF BuildNames, TypeOK, Labels, LaunchLabels, ReaderLabels, InitLabels,
        Threads, Items
  <2>4. Handover' /\ Joined' /\ Held'
    BY <1>4, <2>0 DEF BuildNames, TypeOK, Threads, Handover, Joined, Held
  <2>5. NamesProgress'
    <3>1. CASE idx[t] < N
      BY <1>4, <2>0, <2>1, <3>1, SoleInitializer, PolledItems
      DEF BuildNames, TypeOK, Threads, NamesProgress, ReadLabels, Items
    <3>2. CASE ~(idx[t] < N)
      BY <1>4, <2>0, <2>1, <3>2, SoleInitializer, PolledItems
      DEF BuildNames, TypeOK, Threads, NamesProgress, ReadLabels, Items
    <3> QED  BY <3>1, <3>2
  <2> QED  BY <2>3, <2>4, <2>5
<1>5. CASE Retry(t)
  <2>0. pc[t] = "retry" /\ pc[t] \in InitLabels
    BY <1>5 DEF Retry, InitLabels
  <2>1. TypeOK'
    BY <1>5 DEF Retry, AfterInit, TypeOK, Labels, LaunchLabels, ReaderLabels,
       InitLabels, Threads
  <2>2. Handover' /\ Joined' /\ Held'
    BY <1>5, <2>0, SoleInitializer
    DEF Retry, AfterInit, TypeOK, Threads, Handover, Joined, Held
  <2>3. NamesProgress'
    BY <1>5, <2>0, SoleInitializer
    DEF Retry, AfterInit, TypeOK, Threads, NamesProgress, ReadLabels,
        IsConnected, Built
  <2> QED  BY <2>1, <2>2, <2>3
<1> QED
  BY <1>1, <1>2, <1>3, <1>4, <1>5 DEF InitializeConnection

LEMMA LaunchKeepsInv == ClientInv /\ Launch => ClientInv'
<1> SUFFICES ASSUME ClientInv, Launch PROVE ClientInv'
  OBVIOUS
<1> USE DEF ClientInv, callerVars, connVars, envVars, At, Goto
<1>1. CASE InitializeConnection("launch")
  BY <1>1, InitializeKeepsInv DEF Threads
<1>2. CASE Activate
  <2>1. TypeOK'
    BY <1>2 DEF Activate, TypeOK, Labels, LaunchLabels, Threads
  <2>2. Handover' /\ Joined' /\ Held'
    BY <1>2 DEF Activate, TypeOK, Threads, Handover, Joined, Held
  <2>3. NamesProgress'
    BY <1>2 DEF Activate, TypeOK, Threads, NamesProgress, IsConnected, Built,
       ReadLabels
  <2> QED  BY <2>1, <2>2, <2>3
<1>3. CASE SpawnReader
  <2>1. TypeOK'
    BY <1>3 DEF SpawnReader, TypeOK, Labels, LaunchLabels, ReaderLabels,
       Threads
  <2>2. Handover' /\ Joined' /\ Held'
    BY <1>3 DEF SpawnReader, TypeOK, Threads, Handover, Joined, Held
  <2>3. NamesProgress'
    BY <1>3 DEF SpawnReader, TypeOK, Threads, NamesProgress, IsConnected,
       Built, ReadLabels
  <2> QED  BY <2>1, <2>2, <2>3
<1> QED
  BY <1>1, <1>2, <1>3 DEF Launch

\* The next item of a cycle is an item, and the reader goes on or back.
LEMMA AdvanceIsTyped ==
    ASSUME TypeOK, Advance, pc["reader"] \in {"item", "request"}
    PROVE  /\ pc' \in [Threads -> Labels]
           /\ idx' \in [Threads -> Nat]
           /\ pc'["launch"] = pc["launch"]
           /\ pc'["reader"] \in {"item", "loop"}
           /\ idx'["launch"] = idx["launch"]
           /\ pc'["reader"] = "item" => idx'["reader"] \in Items
  BY PolledItems
  DEF Advance, Goto, TypeOK, Threads, Labels, ReadLabels, Items

\* Wherever the reader goes within its loop, with the variables that the
\* other threads look at unchanged, it keeps the invariant.
LEMMA ReaderMoves ==
    ASSUME ClientInv, TypeOK',
           pc["reader"] \in {"loop"} \cup ReadLabels,
           pc'["reader"] \in {"loop"} \cup ReadLabels,
           pc'["launch"] = pc["launch"], caller' = caller,
           activated' = activated, conn' = conn, names' = names,
           idx'["launch"] = idx["launch"]
    PROVE  ClientInv'
<1>1. Handover' /\ Joined' /\ Held'
  BY DEF ClientInv, TypeOK, ReadLabels, Handover, Joined, Held
<1>2. NamesProgress'
  BY DEF ClientInv, TypeOK, Threads, ReadLabels, NamesProgress, IsConnected,
     Built
<1> QED
  BY <1>1, <1>2 DEF ClientInv

LEMMA ReaderKeepsInv == ClientInv /\ Reader => ClientInv'
<1> SUFFICES ASSUME ClientInv, Reader PROVE ClientInv'
  OBVIOUS
<1> USE DEF callerVars, connVars, envVars, At
<1>1. CASE InitializeConnection("reader")
  BY <1>1, InitializeKeepsInv DEF Threads
<1>2. CASE LoopTest
  <2>1. TypeOK'
    BY <1>2 DEF ClientInv, LoopTest, Goto, TypeOK, Labels, ReadLabels,
       ReaderLabels, Threads
  <2>2. CASE activated
    BY <1>2, <2>1, <2>2, ReaderMoves
    DEF LoopTest, Goto, ClientInv, TypeOK, Threads, ReadLabels
  <2>3. CASE ~activated
    <3>1. Handover' /\ Joined' /\ Held'
      BY <1>2, <2>3 DEF LoopTest, Goto, ClientInv, TypeOK, Threads, Handover,
         Joined, Held
    <3>2. NamesProgress'
      BY <1>2, <2>3 DEF LoopTest, Goto, ClientInv, TypeOK, Threads,
         NamesProgress, IsConnected, Built, ReadLabels
    <3> QED  BY <2>1, <3>1, <3>2 DEF ClientInv
  <2> QED  BY <2>2, <2>3
<1>3. CASE CheckConnection
  <2>1. TypeOK'
    BY <1>3 DEF ClientInv, CheckConnection, Goto, TypeOK, Labels, ReadLabels,
       InitLabels, ReaderLabels, Threads
  <2>2. CASE IsConnected
    BY <1>3, <2>1, <2>2, ReaderMoves
    DEF CheckConnection, Goto, ClientInv, TypeOK, Threads, ReadLabels
  <2>3. CASE ~IsConnected
    <3>1. Handover' /\ Joined' /\ Held'
      BY <1>3, <2>3 DEF CheckConnection, Goto, ClientInv, TypeOK, Threads,
         Handover, Joined, Held
    <3>2. NamesProgress'
      BY <1>3, <2>3 DEF CheckConnection, Goto, ClientInv, TypeOK, Threads,
         NamesProgress, IsConnected, Built, ReadLabels
    <3> QED  BY <2>1, <3>1, <3>2 DEF ClientInv
  <2> QED  BY <2>2, <2>3
<1>4. CASE CheckError
  <2>1. TypeOK'
    BY <1>4, PolledItems DEF ClientInv, CheckError, Goto, TypeOK, Labels,
       ReadLabels, ReaderLabels, Threads
  <2> QED
    BY <1>4, <2>1, ReaderMoves
    DEF CheckError, Goto, ClientInv, TypeOK, Threads, ReadLabels
<1>5. CASE CheckItem
  <2>0. ClientInv /\ pc["reader"] = "item"
    BY <1>5 DEF CheckItem
  <2>1. CASE Advance /\ UNCHANGED crashed
    BY <1>5, <2>0, <2>1, AdvanceIsTyped, ReaderMoves
    DEF CheckItem, ClientInv, TypeOK, Threads, ReadLabels, ReaderLabels
  <2>2. CASE Goto("reader", "request") /\ UNCHANGED <<idx, crashed>>
    BY <1>5, <2>0, <2>2, ReaderMoves
    DEF CheckItem, Goto, ClientInv, TypeOK, Threads, Labels, ReadLabels,
        ReaderLabels
  <2>3. CASE crashed' = TRUE /\ UNCHANGED <<pc, idx>>
    BY <1>5, <2>0, <2>3, ReaderMoves
    DEF CheckItem, ClientInv, TypeOK, ReadLabels
  <2> QED
    BY <1>5, <2>1, <2>2, <2>3 DEF CheckItem
<1>6. CASE Request
  <2> DEFINE i == idx["reader"]
  <2>0. /\ ClientInv /\ TypeOK /\ pc["reader"] = "request" /\ i \in Items
        /\ UNCHANGED <<caller, inDtor, stopOrder, activated, conn, names,
                       serverUp>>
    BY <1>6 DEF Request, ClientInv, TypeOK, Threads
  <2>1. faults' \in 0..MaxFaults /\ exported' \subseteq Items
        /\ stackError' \in BOOLEAN /\ crashed' \in BOOLEAN
    BY <1>6, <2>0, FaultsBounded
    DEF Request, Reply, AccessError, RequestFails, TypeOK
  <2>2. CASE Advance
    BY <2>0, <2>1, <2>2, AdvanceIsTyped, ReaderMoves
    DEF TypeOK, Threads, ReadLabels, ReaderLabels
  <2>3. CASE Goto("reader", "loop") /\ UNCHANGED idx
    BY <2>0, <2>1, <2>3, ReaderMoves
    DEF Goto, TypeOK, Threads, Labels, ReadLabels, ReaderLabels
  <2>4. CASE UNCHANGED <<pc, idx>>
    BY <2>0, <2>1, <2>4, ReaderMoves
    DEF TypeOK, Threads, ReadLabels
  <2> QED
    BY <1>6, <2>2, <2>3, <2>4 DEF Request, Reply, AccessError, RequestFails
<1> QED
  BY <1>1, <1>2, <1>3, <1>4, <1>5, <1>6 DEF Reader

\* A step that changes nothing keeps the invariant.
LEMMA StutterKeepsInv == ClientInv /\ UNCHANGED vars => ClientInv'
  BY DEF ClientInv, vars, callerVars, connVars, envVars, TypeOK, Handover,
     Joined, Held, NamesProgress, IsConnected, Built

\* ClientInv is inductive.
LEMMA StepKeepsInv == ClientInv /\ [Next]_vars => ClientInv'
  BY CallerKeepsInv, LaunchKeepsInv, ReaderKeepsInv, EnvironmentKeepsInv,
     StutterKeepsInv
  DEF Next, Terminated

-----------------------------------------------------------------------------
(***************************************************************************)
(* The theorems.                                                           *)
(***************************************************************************)

\* The positions of the three threads, the connection and the name trees are
\* always in one of the combinations that ClientInv allows.
THEOREM Invariance == Spec => []ClientInv
<1>1. Init => ClientInv
  BY InitiallyInv
<1>2. ClientInv /\ [Next]_vars => ClientInv'
  BY StepKeepsInv
<1> QED
  BY <1>1, <1>2, PTL DEF Spec

\* Every variable keeps its type, for any number of objects and datasets.
THEOREM TypeCorrectness == Spec => []TypeOK
<1>1. ClientInv => TypeOK
  BY DEF ClientInv
<1> QED
  BY <1>1, Invariance, PTL

\* The launch thread, the reader and the caller of stop() are never together
\* in code that uses m_connection.
THEOREM Ownership == Spec => []ConnectionOwnership
<1>1. ClientInv => ConnectionOwnership
  <2> SUFFICES ASSUME ClientInv, NEW t \in Users, NEW u \in Users
               PROVE  t = u
    BY DEF ConnectionOwnership
  <2>1. caller = "release" => /\ pc["launch"] \in {"none", "done"}
                              /\ pc["reader"] \in {"none", "done"}
    BY DEF ClientInv, Joined
  <2>2. pc["launch"] \in InitLabels \cup ReadLabels
          => pc["reader"] = "none"
    BY DEF ClientInv, Handover, InitLabels, ReadLabels
  <2> QED
    BY <2>1, <2>2 DEF Users, Threads, InitLabels, ReadLabels
<1> QED
  BY <1>1, Invariance, PTL

\* m_connection is not null wherever it is dereferenced.
THEOREM Existence == Spec => []ConnectionExists
<1>1. ClientInv => ConnectionExists
  BY DEF ClientInv, Held, ConnectionExists, Threads, DerefLabels, ReadLabels
<1> QED
  BY <1>1, Invariance, PTL

\* When stop() has returned no thread of the client runs.
THEOREM Termination == Spec => []NoThreadOutlivesClient
<1>1. ClientInv => NoThreadOutlivesClient
  BY DEF ClientInv, Joined, Held, NoThreadOutlivesClient, Threads
<1> QED
  BY <1>1, Invariance, PTL

\* The reader never uses names of an earlier connection.
THEOREM FreshNames == Spec => []NamesMatchConnection
<1>1. ClientInv => NamesMatchConnection
  BY DEF ClientInv, NamesProgress, NamesMatchConnection, ReadLabels
<1> QED
  BY <1>1, Invariance, PTL

-----------------------------------------------------------------------------
(***************************************************************************)
(* Complete names.  When healthy connections answer every request, the     *)
(* loop of buildConfigurationNameTrees leaves complete names of all that   *)
(* the server has, unless the connection is disturbed meanwhile.           *)
(***************************************************************************)

\* Where a thread is once its loop over the items has ended.
AfterBuild == {"retry", "activate", "spawn", "loop"} \cup ReadLabels

\* Thread t has passed item i on the connection in use.
Passed(t, i) == pc[t] \in AfterBuild \/ (pc[t] = "build" /\ i < idx[t])

ServedProgress ==
    ~TransientErrors /\ conn = "connected"
        => \A t \in Threads, i \in Served : Passed(t, i)
                                              => names[i] = "complete"

\* A step that takes no thread past an item, renames nothing and connects to
\* no server keeps this.
LEMMA NothingPassed ==
    ASSUME ServedProgress, names' = names,
           conn' = "connected" => conn = "connected",
           \A t \in Threads, i \in Served :
             Passed(t, i)' => \E u \in Threads : Passed(u, i)
    PROVE  ServedProgress'
  BY DEF ServedProgress

\* A read cycle and the steps of start() and stop() pass nothing.
LEMMA OthersPassNothing ==
    ASSUME ClientInv, ServedProgress,
           \/ Caller \/ Environment \/ Activate \/ SpawnReader
           \/ LoopTest \/ CheckConnection \/ CheckError \/ CheckItem \/ Request
           \/ UNCHANGED vars
    PROVE  ServedProgress'
<1> USE DEF callerVars, connVars, envVars
<1>1. names' = names /\ (conn' = "connected" => conn = "connected")
  BY DEF Caller, Start, OrderStop, JoinLaunch, StopMmsReading, JoinReader,
         Release, Environment, ServerFails, ServerRecovers, LinkLost,
         DetectLoss, Activate, SpawnReader, LoopTest, CheckConnection,
         CheckError, CheckItem, Request, vars
<1> SUFFICES ASSUME NEW t \in Threads, NEW i \in Served, Passed(t, i)'
             PROVE  \E u \in Threads : Passed(u, i)
  BY <1>1, NothingPassed
<1> USE DEF Threads, ClientInv, TypeOK
<1>2. CASE Caller
  BY <1>2 DEF Caller, Start, OrderStop, JoinLaunch, StopMmsReading, JoinReader,
              Release, Goto, Passed, AfterBuild, ReadLabels
<1>3. CASE Environment \/ UNCHANGED vars
  BY <1>3 DEF Environment, ServerFails, ServerRecovers, LinkLost, DetectLoss,
              vars, Passed
<1>4. CASE Activate
  BY <1>4 DEF Activate, At, Goto, Passed, AfterBuild
<1>5. CASE SpawnReader
  BY <1>5 DEF SpawnReader, At, Passed, AfterBuild
<1>6. CASE LoopTest
  BY <1>6 DEF LoopTest, At, Goto, Passed, AfterBuild
<1>7. CASE CheckConnection
  BY <1>7 DEF CheckConnection, At, Goto, Passed, AfterBuild, ReadLabels
<1>8. CASE CheckError
  BY <1>8 DEF CheckError, At, Goto, Passed, AfterBuild, ReadLabels
<1>9. CASE CheckItem
  <2>1. Passed("reader", i) /\ pc'["launch"] = pc["launch"]
                            /\ idx'["launch"] = idx["launch"]
    BY <1>9 DEF CheckItem, Advance, At, Goto, Passed, AfterBuild, ReadLabels
  <2> QED
    BY <2>1
<1>10. CASE Request
  <2>1. Passed("reader", i)
    BY <1>10 DEF Request, At, Passed, AfterBuild, ReadLabels
  <2> QED
    BY <2>1
<1> QED
  BY <1>2, <1>3, <1>4, <1>5, <1>6, <1>7, <1>8, <1>9, <1>10

LEMMA InitializePasses ==
    ASSUME ClientInv, ServedProgress, NEW t \in Threads, InitializeConnection(t)
    PROVE  ServedProgress'
<1> USE DEF callerVars, connVars, envVars, At, Goto, ClientInv, TypeOK
<1>0. /\ pc[t] \in InitLabels
      /\ \A u \in Threads : u # t => pc[u] \in {"none", "done"} /\ pc'[u] = pc[u]
  <2>1. pc[t] \in InitLabels
    BY DEF InitializeConnection, DestroyConnection, CreateConnection,
           CheckConnected, BuildNames, Retry, InitLabels
  <2>2. \A u \in Threads : u # t => pc'[u] = pc[u]
    BY DEF InitializeConnection, DestroyConnection, CreateConnection,
           CheckConnected, BuildNames, Retry
  <2> QED
    BY <2>1, <2>2, SoleInitializer DEF Threads
<1>1. \A u \in Threads, i \in Served : u # t => ~Passed(u, i)'
  BY <1>0 DEF Passed, AfterBuild, ReadLabels
<1>2. CASE DestroyConnection(t)
  BY <1>2 DEF DestroyConnection, ServedProgress
<1>3. CASE CreateConnection(t)
  <2>1. \A i \in Served : ~Passed(t, i)'
    BY <1>3 DEF CreateConnection, Passed, AfterBuild, ReadLabels
  <2> QED
    BY <1>1, <2>1 DEF ServedProgress
<1>4. CASE CheckConnected(t)
  <2> SUFFICES ASSUME conn' = "connected", NEW i \in Served
               PROVE  ~Passed(t, i)'
    BY <1>1 DEF ServedProgress
  <2>1. i \in Items /\ i \in Nat /\ ~(i < 1)
    BY ClientAssumption DEF Items, Served
  <2>2. conn = "connected" /\ IsConnected
    BY <1>4 DEF CheckConnected, IsConnected
  <2> QED
    BY <1>4, <2>1, <2>2 DEF CheckConnected, Passed, AfterBuild, ReadLabels
<1>5. CASE BuildNames(t)
  <2> SUFFICES ASSUME ~TransientErrors, conn' = "connected", NEW i \in Served,
                      Passed(t, i)'
               PROVE  names'[i] = "complete"
    BY <1>1 DEF ServedProgress
  <2>1. /\ conn = "connected" /\ pc[t] = "build"
        /\ idx[t] \in Items /\ i \in Items /\ i \in Nat /\ idx[t] \in Nat
        /\ N \in Nat /\ i <= N
    BY <1>5, ClientAssumption DEF BuildNames, Items, N, Served
  <2>2. i < idx[t] => names[i] = "complete"
    BY <2>1 DEF ServedProgress, Passed
  <2>3. /\ i = idx[t] => names'[i] = "complete"
        /\ i # idx[t] => names'[i] = names[i]
    BY <1>5, <2>1 DEF BuildNames, BuildNamesOf, IsConnected
  <2>4. i <= idx[t]
    BY <1>5, <2>1 DEF BuildNames, Passed, AfterBuild, ReadLabels
  <2> QED
    BY <2>1, <2>2, <2>3, <2>4
<1>6. CASE Retry(t)
  <2>1. \A i \in Served : Passed(t, i)
    BY <1>6 DEF Retry, Passed, AfterBuild
  <2> QED
    BY <1>6, <2>1 DEF Retry, ServedProgress
<1> QED
  BY <1>2, <1>3, <1>4, <1>5, <1>6 DEF InitializeConnection

LEMMA ServedProgressKept ==
    ClientInv /\ ServedProgress /\ [Next]_vars => ServedProgress'
<1> SUFFICES ASSUME ClientInv, ServedProgress, [Next]_vars
             PROVE  ServedProgress'
  OBVIOUS
<1>1. \/ \E t \in Threads : InitializeConnection(t)
      \/ Caller \/ Environment \/ Activate \/ SpawnReader
      \/ LoopTest \/ CheckConnection \/ CheckError \/ CheckItem \/ Request
      \/ UNCHANGED vars
  BY DEF Next, Launch, Reader, Terminated, Threads
<1> QED
  BY <1>1, OthersPassNothing, InitializePasses

\* With a server that answers on every healthy connection the reader finds
\* complete names of all items that the server has, so that no value of them
\* is refused.
THEOREM CompleteNames == Spec => []NamesComplete
<1>1. Init => ServedProgress
  BY DEF Init, ServedProgress
<1>2. ServedProgress => NamesComplete
  BY DEF ServedProgress, Passed, AfterBuild, NamesComplete, ReadLabels, Threads
<1> QED
  BY <1>1, <1>2, ServedProgressKept, Invariance, PTL DEF Spec

-----------------------------------------------------------------------------
(***************************************************************************)
(* Refinement: a step of the client is a step of PollingClient, or leaves  *)
(* what PollingClient sees unchanged.                                      *)
(***************************************************************************)

LEMMA InitRefines == Init => Promise!AbsInit
  BY DEF Init, Promise!AbsInit, Phase

\* Starting, stopping and returning are the abstract actions of these names;
\* the joins in between are not seen.
LEMMA CallerRefines ==
    ClientInv /\ Caller => Promise!AbsNext \/ UNCHANGED Promise!absVars
<1> SUFFICES ASSUME ClientInv, Caller
             PROVE  Promise!AbsNext \/ UNCHANGED Promise!absVars
  OBVIOUS
<1> USE DEF Promise!AbsNext, Promise!absVars, Phase
<1>1. CASE Start
  BY <1>1 DEF Start, envVars, connVars, Promise!AbsStart
<1>2. CASE OrderStop
  BY <1>2 DEF OrderStop, Promise!AbsOrderStop
<1>3. CASE JoinLaunch
  BY <1>3 DEF JoinLaunch
<1>4. CASE StopMmsReading
  BY <1>4 DEF StopMmsReading
<1>5. CASE JoinReader
  BY <1>5 DEF JoinReader
<1>6. CASE Release
  BY <1>6 DEF Release, Promise!AbsFinish
<1> QED
  BY <1>1, <1>2, <1>3, <1>4, <1>5, <1>6 DEF Caller

\* The reader is the only one to export, and it runs only while the owner
\* has not got its stop() back.
LEMMA ReaderRefines ==
    ClientInv /\ Reader => Promise!AbsNext \/ UNCHANGED Promise!absVars
<1> SUFFICES ASSUME ClientInv, Reader
             PROVE  Promise!AbsNext \/ UNCHANGED Promise!absVars
  OBVIOUS
<1>1. UNCHANGED caller
  BY DEF Reader, InitializeConnection, DestroyConnection, CreateConnection,
     CheckConnected, BuildNames, Retry, LoopTest, CheckConnection, CheckError,
     CheckItem, Request, callerVars
<1>2. exported' \in SUBSET Items
  <2>1. ClientInv'
    BY ReaderKeepsInv
  <2> QED
    BY <2>1 DEF ClientInv, TypeOK
<1>3. pc["reader"] \notin {"none", "done"}
  BY DEF Reader, InitializeConnection, DestroyConnection, CreateConnection,
     CheckConnected, BuildNames, Retry, LoopTest, CheckConnection, CheckError,
     CheckItem, Request, At
<1>4. Phase \in {"active", "stopping"}
  BY <1>3 DEF ClientInv, TypeOK, CallerLabels, Joined, Handover, Phase
<1> QED
  BY <1>1, <1>2, <1>4 DEF Promise!AbsNext, Promise!AbsExport, Phase

\* The launch thread and the environment are not seen by the owner.
LEMMA OthersRefine ==
    Launch \/ Environment \/ Terminated \/ UNCHANGED vars
      => UNCHANGED Promise!absVars
<1>1. Launch => UNCHANGED <<caller, exported>>
  BY DEF Launch, InitializeConnection, DestroyConnection, CreateConnection,
     CheckConnected, BuildNames, Retry, Activate, SpawnReader, callerVars,
     connVars, envVars
<1>2. Environment => UNCHANGED <<caller, exported>>
  BY DEF Environment, ServerFails, ServerRecovers, LinkLost, DetectLoss,
     callerVars, connVars, envVars
<1>3. Terminated \/ UNCHANGED vars => UNCHANGED <<caller, exported>>
  BY DEF Terminated, vars, callerVars
<1> QED
  BY <1>1, <1>2, <1>3 DEF Promise!absVars, Phase

\* For every configuration, data reach the owner only between start() and the
\* return of stop(), and a stopped client is not started again.
THEOREM SafeRefinement == Spec => KeepsSafePromise
<1>1. Init => Promise!AbsInit
  BY InitRefines
<1>2. ClientInv /\ [Next]_vars => [Promise!AbsNext]_(Promise!absVars)
  BY CallerRefines, ReaderRefines, OthersRefine DEF Next
<1> QED
  BY <1>1, <1>2, Invariance, PTL
  DEF Spec, KeepsSafePromise, Promise!AbsSafety
=============================================================================
