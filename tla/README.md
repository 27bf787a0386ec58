# Verification of the Fledge IEC 61850 south plugin

TLA+ models, TLC runs and TLAPS proofs for the C++ plugin in `src/src` and
`src/include`. The plugin connects to IEC 61850 servers over MMS (library
libiec61850), reads data objects or datasets at a fixed period and hands them to
Fledge as readings.

The source is the reference: each definition that stands for code is listed in
`PROJECT.json` under `map`, with the lines it models.

## 1. The system

### Components

| Component | Files | State | Operations |
|---|---|---|---|
| Fledge interface | `plugin.cpp`, `plugin.h` | the handle | `plugin_init`, `plugin_start`, `plugin_register_ingest`, `plugin_reconfigure`, `plugin_shutdown` (and `plugin_info`, `plugin_poll`, which keep nothing) |
| Gateway `IEC61850` | `iec61850.{h,cpp}` | `m_config`, `m_clients`, `m_ingest_callback`, `m_ingestMutex` | `setConfig`, `start`, `stop`, `ingest`, `registerIngest` |
| Configuration | `iec61850_client_config.{h,cpp}` | `serverConfigDict`, `applicationParams`, `exchangedData`, `selectedDOInExchangedDatasets` | `importConfig` and the importers it calls |
| OSI parameters | same files, and `setOsiConnectionParameters` | `OsiParameters` of a server | `parseOsiSelector`, the AP titles, passing them to the library |
| Client `IEC61850Client` | `iec61850_client.{h,cpp}` | `m_connection`, two threads, `m_stopOrder`, `m_isMmsReadingActivated`, local copies of the exchanged data with their name trees | `start`, `stop`, the destructor, `launch`, `initializeConnection`, `readMmsLoop` |
| Connection | `iec61850_client_connection.{h,cpp}` | `m_iedConnection`, `m_networkStack_error`, a mutex around each request | `open`, `close`, `isConnected`, `isNoError`, `readDO`, `readDataset`, `buildNameTree`, `getDoPathListWithFCFromDataset` |
| Conversion | `iec61850_client.cpp` 146-336 | none | `buildDatapointFromMms`, `insertTypeInDatapoint`, `sendData` |
| `WrappedMms` | `wrapped_mms.{h,cpp}` | one `MmsValue` pointer | owns it |
| Error list | `iec61850_client_connection_error_list.cpp` | none | `logError`: texts only |

### How they interact

Fledge makes one call at a time into the C interface, which casts the handle to
an `IEC61850` and calls it. `start()` builds one client per entry of
`serverConfigDict` and starts it; the clients keep references into the
configuration object. `stop()` stops them one after the other and destroys them.
Each client runs two threads. `m_backgroundLaunchThread` opens the connection,
asks the server for the names of everything that will be read, and ends by
spawning `m_mmsReadingThread`, which loops: test the flag, read, sleep. When the
reader finds the connection closed it runs `initializeConnection` itself. Every
value read is converted and passed up through `sendData` to `IEC61850::ingest`,
where all the readers of all the clients meet under `m_ingestMutex` to call
Fledge's callback.

### What is hard

* `m_connection` is a `unique_ptr` with no lock, replaced by the launch thread,
  the reader and `stop()`. What protects it is the order of spawns and joins
  alone (the mutex of the connection is inside the object that is replaced).
* `stopMmsReading` decides from a flag whether there is a thread to join; the flag
  is set by another thread, one statement before the thread exists.
* The reconnection loop must see the stop order, in both threads, or `stop()`
  never returns.
* `m_networkStack_error` is the error of the last request of any kind and is
  tested before the requests of the next cycle.
* The connection may be lost between any check and the use it guards; the state
  that the library reports lags behind.
* The name trees are asked over one connection and used to decode values read
  over it: each reconnection must rebuild them first.
* `importConfig` throws half way and works on an object that is never cleared.
* `stop()` joins a reader that may wait for the ingest mutex, held by another.

### What makes each component correct

* Client: one user of the connection object at a time, never a null one; no thread
  outlives `stop()` or the destructor; `stop()` returns whatever the server does;
  names always come from the connection in use; what the server has and the client
  can convert is read again and again; no fault kills the process.
* Configuration: a document is stored exactly; a refused one leaves a prefix of
  itself, never a server that failed a check.
* Gateway and interface: the configuration never moves under a client; a
  reconfiguration leaves all clients or none; no reading reaches a deleted object;
  the callback is never entered twice; each call returns; and after a
  reconfiguration the plugin serves the new document.
* OSI parameters: what was configured, and only that, reaches the library.
* Conversion: a reading has the shape of the value and is renamed consistently; an
  exception costs the member at which it came and none before it.

## 2. The modules

| Module | What it is |
|---|---|
| `PollingClient` | abstract specification: what a client promises to the gateway |
| `IEC61850Client` | client and connection: caller, launch thread, reader, server and network |
| `IEC61850ClientProofs` | the theorems about `IEC61850Client` |
| `ClientConfig` | `importConfig` as an operator from a configuration and a document |
| `ClientConfigProofs` | what `importConfig` and its parts do to the configuration, as lemmas |
| `ConfigImports` | the configuration object over several imports, and what they should do |
| `ConfigImportsProofs` | the theorems about `ConfigImports` |
| `OsiParameters` | titles and selectors: parsing, storage, and what the library is given |
| `OsiParametersProofs` | the theorems about `OsiParameters` |
| `Loops` | lemmas about functions that stand for loops: that they exist, and induction over their rounds |
| `SouthPlugin` | abstract specification: what an asynchronous south plugin promises to Fledge |
| `MmsReading` | name trees, dataset members and the conversion of a value to a datapoint |
| `MmsReadingProofs` | the theorems about `MmsReading` |
| `IEC61850Plugin` | Fledge's calls, the gateway and the readers in `ingest()` |
| `IEC61850PluginProofs` | the theorems about `IEC61850Plugin` |
| `MC*` | values for TLC |

`IEC61850Plugin` composes: it imports with `ClientConfig!ImportConfig` and knows
a client only by the phases of `PollingClient` — started, stopping, stopped —
which is what `IEC61850Client` is shown to implement. Two refinements bind the
layers together. Upwards, `South == INSTANCE SouthPlugin` maps the handle, the call
under way, the objects in `m_clients` and the readers in the callback to the promise
made to Fledge (`SouthPromise`, `CallsReturn`). Downwards, `Client(k) == INSTANCE
PollingClient` maps what the plugin sees of client `k`, and `ClientsKeepPromise` says that
the plugin constructs, starts, stops and destroys it only as `PollingClient` allows, and
that `ingest()` is reached by it only in the phases in which `IEC61850Client` is shown
to export. Together: `IEC61850Client` implements `PollingClient`, which is all that
`IEC61850Plugin` uses, which implements `SouthPlugin`.

### IEC61850Client

| Variable | Code |
|---|---|
| `caller`, `inDtor` | where the Fledge thread is in `start()`, `stop()` and `~IEC61850Client()` |
| `pc`, `idx` | the statement each thread is at, and its loop index |
| `stopOrder`, `activated` | `m_stopOrder`, `m_isMmsReadingActivated` |
| `conn` | `m_connection` (`"null"`) and the state of its `IedConnection` |
| `stackError` | `m_networkStack_error # IED_ERROR_OK` |
| `names` | the name trees of each item: never built, partial, complete, or left from an earlier connection |
| `exported` | what was sent in the read cycle under way (an observation) |
| `serverUp`, `faults`, `crashed` | the server, the fault budget, the process |

Each statement that touches shared state is a step: `destroyConnection`,
`createConnection`, the check, one item of `buildConfigurationNameTrees`, the
loop condition; the flag and the thread creation of `startMmsReading`; the loop
test, the two checks of `readAndExportMms`, and per item the check inside
`readDO`/`readDataset` and the request. The caller's steps are the joins and the
flag of `stop()`. The sleeps hold no state and are part of the test that follows.

Abstractions. An *item* is a data object or a whole dataset; the requests of one
item's name tree are one step with one outcome (`BuildNamesOf`), since between them
the code tests nothing but the connection. The library is external: a request on a
live connection is answered, on a lost one fails. The constant `Answer` says how the
server answers for each item: with a value that the client converts, with one that has a part of a
type `buildDatapointFromMms` refuses, at times with an access error, or that the item is unknown.
Accordingly `Reply` exports the item and goes on, or ends the cycle by an exception (names
that are incomplete, an unsupported type), and `AccessError` goes on without a datapoint.
A request for the names of an unknown item may leave an error or none. `"stale"` is the gap in which
the peer is gone and the library still says connected. The atomicity of a request is that of
`m_iedConnectionMutex`; only one thread ever uses the connection (which is proved),
so it is never contended and is not a variable.

### ClientConfig and ConfigImports

A JSON document becomes a record whose sections are missing, malformed or fine,
and whose list elements are values or `Malformed`. Everything the importer
distinguishes is kept: the order of sections, what was stored before the first
exception, maps that replace and vectors that append, the last protocol that
applies, the type that an unknown `typeid` leaves alone, the conversion of the
period to `unsigned int`. A loop over a JSON array is `Rounds`, the recursive function
of what is stored after each round; `ForEach` is its last value. `Malformed` stands for all of a part's failed checks,
which all throw. `FirstImportIsExact` compares with a reference written without the
importer's order. One failure is outside it: the members of a `data_objects`
element are read without a test of their type, and a wrong type trips an assertion
of RapidJSON in place of an exception.

### IEC61850Plugin

`op`, `step` and `todo` are the call under way and the part of its loop that is
left; `phase` the clients of `m_clients`; `reader` and `mutex` the readers in
`ingest()`. `PluginInit` … `PluginShutdown` are the C functions; `StartClient`,
`ReplaceClient`, `StopClient`, `ClientStopped`, `ClearClients`, `Configure`,
`Delete` what they go on to do; `IngestCalled`, `IngestLocked`, `IngestReturns` the
readers. `std::map` fixes the order of the clients, the model takes any. Fledge
registers its callback once and before the start, and no call overlaps another:
both are Fledge's discipline, taken as the environment's.

### OsiParameters

The import is followed step by step: `ImportTitles` for the qualifiers and titles of both
ends, then one `ImportSelector` for each of the six blocks of
`importJsonConnectionOsiSelectors`, in their order (`Order`); an exception (`thrown`) ends it
where it is, with what has been stored so far. Only after the last block
`SetOsiConnectionParameters` gives the result to the library (`given`).

A selector string is the sequence of its tokens, each a number, or a text that is
no number; the parser is the loop `ParseRounds` over the tokens into an array of fixed
size, with one cell more behind it. `StoresStayInArray` looks at that cell in every state,
before, during and after the import and also when it threw, against `before`, the
memory that the import found. A title is the sequence of its characters: `IsTitle` is the check
for digits, `TitleText` the replacement of commas by dots.

Parameters of a server start with whatever the memory holds (`TSelector` and its
like are C structures without initial values), so that is a nondeterministic
choice.

### MmsReading

The server is a list of nodes, parents before children, each with its name, its
children and the member of the dataset that it belongs to; a value is a part with a
kind, its elements, and the node at which it stands. A member's tree of names is the
set of requests that were answered: `NameChildren` is what `buildNameTree` leaves of a
node, and `NameOf` the label for the root and the server's name for the others.
`BuildDatapoint` is the recursion of `buildDatapointFromMms`, written as a recursive
function from the node of a name and the part of a value (so that it can be proved
about), with `BuildPart`, `BuildStructure`, `Dictionary` and `FirstOfMag` for its
branches. A datapoint is flat: the parts that it was made of, with their names; an
exception carries the parts whose datapoints it leaves unfreed on its way out of the
nested calls, at each level the children before the failing one (the vector has been
given to nobody yet). `DatasetMembers` is the selection loop of
`buildConfigurationNameTrees` for the `selection` that the document has for the dataset, and
`Export` the loop of `readAndExportOneDataset`,
which converts and sends one member after the other. The texts of paths are sequences
of names.

A member of a dataset is a data object or a single attribute of one (the dataset `Events` of the
server in `src/tests` has such members): its root is then a leaf, or an analogue value `mag`. The
mapping of names applies to the root as to any other node, so that a lone `stVal` that is not
selected reaches Fledge as `do_value`, and the label `q` as `do_quality`; `NameFor` says
so.

What is assumed of the server is `ServerAssumption` (the nodes form a tree below each member,
and an attribute `mag` is the AnalogueValue of IEC 61850-7-3, a structure of plain
values) and `ValuesAssumption` (a structure is never empty, a structure of the right size
has elements that stand where the node's children do, an access error stands for a whole
member); values of any other shape and unsupported types may come anywhere. A
plain value in place of a structured data object is not considered: the code does not
compare it with the names and would send it. `LabelAssumption` says that the path of a member ends
with its own name, and that no selected data object is given the label `mag`, by which the conversion
would take it for an analogue value and keep its first attribute only. Every other label is
allowed, and none too.

## 3. The runs

| Run | Question | Bounds |
|---|---|---|
| `client_do` | do three threads share `m_connection` safely, does `stop()` return, does the client keep its promise, when it reads data objects? | two data objects, one at times denied and one of an unsupported type, and a dataset that the server does not have; two faults, requests may fail at any time |
| `client_dataset` | the same safety in dataset mode, up to the death of the process | one data object, two datasets (one at times denied, one unknown), two faults |
| `client_live` | is every data object that is due read again and again across outages? | five data objects: a value, one unknown, one at times denied, a value, one of an unsupported type; two faults; healthy connections answer |
| `client_sticky` (violation) | and if one request fails on a connection that stays open? | one data object, one fault |
| `client_crash` (violation) | can the loss of the connection kill the process? | one dataset, one fault |
| `config_imports` | is a document stored exactly, and what does a refused one leave? | every pair of imports of some 900 documents, lists of up to two elements |
| `reading` | is what is sent complete and under the right names, whatever requests for names failed, and what does an exception cost? | three data objects and two attributes, one a `mag`; two data objects selected, or the two attributes, or nothing that the dataset has; nested structures; twenty-two values: for each member also an access error, an unsupported type, one in its last attribute, another shape |
| `selection` (violation) | does each member get the label of its own selection? | `SPSSO1` and `SPSSO10` |
| `osi` | are selectors parsed inside the array, even by an import that throws, are they and the titles stored exactly and given to the library? | arrays of two and one cells, texts up to one token beyond, titles with each separator; 1485 sections, two memories |
| `osi_transport` (violation) | are the T-selectors given to the right ends? | the same |
| `plugin_calls` | are the configuration, the clients and the callback safe under any sequence of calls, does each call return, does the plugin implement `SouthPlugin` and use its clients as `PollingClient` says? | three servers, three documents (one that throws half way), two reconfigurations |
| `plugin_reconfigured` (violation) | does the plugin read the servers of the new document only? | two documents, one reconfiguration |

Why the bounds are enough. Two faults allow the loss of the connection that
replaced a lost one, and a fault in each of the two threads that open connections; a third
repeats a state with a smaller budget. Two polled items are needed for an order
inside a cycle and an item that fails before one that does not; the third of `client_do` is
there for what is configured and not polled, and the five of `client_live` put a value behind
one of each kind that lets the cycle go on, and before one that ends it. `stop()` may come at any step and the
destructor with or without it. Two imports reach every pair of a former and a
new section; with two elements a list has an earlier and a later, with equal or
different keys, and a failure before or after a success. Two selected members with one
between them that is not distinguish the index of a value from that of a label, and the three
selections reach each branch of the choice: a member selected, one not, and none at all. Three servers
allow one that runs, one to stop and one that waits, and two reconfigurations a failed
one followed by a good one. The proofs lift all of these bounds for the properties
that section 5 lists.

Every property of a passing run is paired in `PROJECT.json` with a faulty variant
of one definition — the plausible slips kept in the modules as `...Unjoined`,
`...Late`, `...Skipping` and so on — under which TLC finds it violated.

### What the violations show

* **A failed request can silence a client.** `readAndExportMms` returns while
  `m_networkStack_error` is set, and only a request or a new connection resets it.
  After one failure on a connection that stays open neither ever comes.
  `ServedExported` fails; it holds (`client_live`) when healthy connections answer
  every request, the assumption that the code makes silently.

  That assumption includes more than it seems to. The names are asked in the order of the
  configuration, and the error of the last item's request is the one that is left: if the
  server does not have that item, the error may stay, and no cycle ever runs on a perfectly
  healthy connection. Therefore `Due` has the premise `N \in Served`. An unknown item elsewhere
  in the configuration is harmless, as the next request resets the error. `Due` also leaves out
  what comes after an item of an unsupported type: the exception ends each cycle there.
* **A lost connection can kill the process in dataset mode.** `readDataset` returns a
  null pointer, or clones the values of a null `ClientDataSet`, and the caller uses
  it before the test that was to throw.
* **A reconfiguration adds.** `importConfig` does not clear what an earlier one
  stored, so the servers and datapoints of the former configuration stay.
* **A selected name matches longer names.** `doPath.find("." + name)` also finds
  `SPSSO10` for `SPSSO1`, and the first match gives the label.
* **The T-selectors are exchanged** between `setRemoteAddresses` and
  `setLocalAddresses`.

## 4. Fairness

* Each thread runs: weak fairness of the launch thread, of the reader, and of the
  caller inside `stop()`. The operating system schedules them, and the sleeps
  end. The owner is not obliged to call `start()` or `stop()`.
* The library notices a lost connection (`DetectLoss`): the peer's reset, TCP
  keep-alive or the time limit of a request. It never has to happen for
  `StopReturns` itself.
* The server comes back (`ServerRecovers`): in `LiveSpec` only, used for
  `ServedExported`, which is about data and cannot hold without a server.
* Faults happen never more than the budget, and never have to.
* In `IEC61850Plugin`: a call goes on and the callback of Fledge returns (weak);
  a reader that waits for `m_ingestMutex` gets it, and a client told to stop finds
  its reader out of `ingest()` (strong). A mutex is not fair by itself, but each
  reader sleeps between its cycles, at least a millisecond, and tests its flag after
  each of them; both conditions recur until they are used.

## 5. What is proved

`IEC61850ClientProofs` proves, for every number of data objects and datasets, both
reading modes, every answer of the server to each item, any number of faults,
with and without failing requests, from `ClientAssumption` (the types of the
constants) alone:

| Theorem | Statement |
|---|---|
| `Invariance` | `Spec => []ClientInv` |
| `TypeCorrectness` | `Spec => []TypeOK` |
| `Ownership` | `Spec => []ConnectionOwnership` |
| `Existence` | `Spec => []ConnectionExists` |
| `Termination` | `Spec => []NoThreadOutlivesClient` |
| `FreshNames` | `Spec => []NamesMatchConnection` |
| `CompleteNames` | `Spec => []NamesComplete` |
| `SafeRefinement` | `Spec => KeepsSafePromise` |

None of the safety properties is inductive: that two threads never use the
connection depends on how far each of them can be given the others. `ClientInv` says so:

* `Handover`: the reader exists exactly when the launch thread is done, and the
  flag is set from just before that on;
* `Joined`: the caller is past a join only when the thread has ended, and past the
  reset of the flag without a join only when there never was a reader;
* `Held`: the connection object exists while a thread is anywhere but at its
  replacement;
* `NamesProgress`: the loop over the items has built all that it has passed, and
  everything once it is over and the connection still looks open;
* `TypeOK`.

`Handover` and `Joined` are what makes the flag of `stopMmsReading` safe although
it is set one statement before the thread handle: the caller reads it only after it
has joined the thread that sets it. The preservation proof has one lemma for each group
of actions (caller, environment, `initializeConnection` of either thread, end of
`launch`, reader) and under it one step per action. `CompleteNames` has a
second invariant over the first: `ServedProgress`, that each thread has complete names
of the served items that it has passed, as long as the connection is undisturbed; here
`ClientInv` gives that no other thread renames them meanwhile. The refinement maps every
step of the caller to a step of `PollingClient`, the start of a cycle and a reply to
`AbsExport`, and the rest to stutters; `ClientInv` is needed to know that a reader
exports only while the owner is in `start`ed or stopping phase.

### The plugin

`IEC61850PluginProofs` takes from `PluginAssumption` that the lists of a document are
arrays and that `Servers` holds the keys of its valid connections, and nothing of how
many there are; any sequence of calls, any number of reconfigurations.

| Theorem | Statement |
|---|---|
| `TypeCorrect` | `Spec => []TypeOK` |
| `NobodyIngestsAfterDelete` | `Spec => []NoIngestAfterDelete` |
| `OneFeedAtATime` | `Spec => []FeedIsSerial` |
| `NeverInPart` | `Spec => []AllClientsOrNone` |
| `ConfigStable` | `Spec => ConfigStableWhileClientsRun` |
| `KeepsSouthPromise` | `Spec => SouthPromise` |
| `ClientsAreUsedProperly` | `Spec => ClientsKeepPromise` |

The inductive invariant `PluginInv` ties the call under way to the clients and the
clients to the readers:

* `CallShape`: which step belongs to which call, and that the document of a
  reconfiguration is there until it has been imported;
* `ClientShape`: there is no client before and after the life of the object and while
  the configuration or the object goes; between calls there are all or none; inside
  `start()` each server of the configuration is still to be done or runs;
* `ReaderShape`: a reader in `ingest()` belongs to a client that is active or
  stopping, and the one in the callback owns the mutex;
* `TypeOK` and `IsConfig`, for which the configuration has to be followed through an
  import: `ConfigImported` of `ClientConfigProofs`.

`ClientShape` is what the two orders that the code depends on come down to: `stop()`
clears the clients before `setConfig` touches what they refer to, and before the object
goes, whose `m_config` would otherwise be destroyed ahead of `m_clients`.

### The configuration and the selectors

| Theorem | Statement |
|---|---|
| `ServersValid` | `Spec => []OnlyValidServers` |
| `PrefixStored` | `Spec => []FailureKeepsPrefix` |
| `FirstImportStored` | `Spec => []FirstImportIsExact` |
| `ArrayBounds` | `Spec => []StoresStayInArray` |
| `ExactSelectors` | `Spec => []SelectorsExact` |
| `UpperLayers` | `Spec => []UpperLayersAsConfigured` |
| `Titles` | `Spec => []TitlesAsConfigured` |

from `ConfigAssumption` (the stand-ins for missing and malformed are no values) and
`DocsAssumption` (a section is missing, malformed or there, its lists are arrays of any
length, a period fits into an `unsigned int`), and `OsiAssumption` (arrays
have a cell or more, the memory of a structure holds bytes, a selector is missing,
malformed or a sequence of tokens, a title a sequence of characters). `ArrayBounds` holds of every
state of an import: the invariant `OsiInv` says of the selectors that are done that they
are exact, and of all of them, the one at which an exception ended the import among them, that the
cell behind the array is untouched.

Both modules are loops that an exception may leave, over lists of any length. `Loops`
proves once, by a least counterexample among the round numbers, that a function
defined by its rounds exists and has the values that its definition says
(`LoopDefined`), and that a set of round numbers which holds 0 and is closed under the
next round holds all of them (`LoopInduction`). The invariant of each loop is then an
ordinary set: after `i` tokens without exception `i` cells are written, each with its
token, and all others are as they were (`RoundStores`, `RoundStays`), with an exception or not those
behind the array; after `i`
connections every server in the map was there before the loop or is one of the valid
connections up to `i` (`ConnectionRun`). In these lemmas the length of a list is a
number `n` with `DOMAIN list = 1..n`, since the functions of the rounds are over `0..n`.

`FirstImportStored` compares the loops with a reference that has none: of the connections
and datasets with one key the last is stored, the datapoints are those of the document
in its order, each with what its last IEC 61850 protocol says. It goes section by section:
a loop without exception has put every element (`ConnectionsPut`, `DatasetsPut`,
`DatapointsAppended`), what a run of puts leaves is the last value of each key
(`PutsKeepLast`) and what a run of appends leaves is the list itself
(`ExtendedFromEmpty`). The property speaks of the first import alone, so the invariant
`FirstInv` adds that before it the configuration is the default one.

### The readings

| Theorem | Statement |
|---|---|
| `ReadingIsOutcome` | `Spec => []ReadingInv` |
| `ValuesUnderTheirNames` | `Spec => []NamesMatchValues` |
| `DataObjectsAreWhole` | `Spec => []NothingPartial` |
| `ExceptionCostsOne` | `Spec => []LossIsConfined` |
| `SelectedByName` | `PlainNames` gives `Spec => []SelectionByName` |

from `ReadingAssumption`, the three assumptions that the section on `MmsReading` lists,
for servers with trees of any depth and width, datasets of any length, of data objects or of
attributes, any selections with labels other than `mag`, and any set of failing requests. The state invariant `ReadingInv` says only that the
name trees are those of some set of answered requests and that the last reading is the
outcome of its value under them; the work is in the operators:

* the recursive function of the conversion exists: `BuildIsLocal` (it needs its own values
  at the children only), then the nodes are added from the last to the first
  (`BuildExists`);
* `GoodPoint` is the invariant of the recursion, proved by the node nearest to the end at
  which it would fail (`PartGood`, with one lemma per branch, and `BuildGood`): each part in a
  datapoint is one to be sent and has its own name, all children of a part that is there are
  there too, and what an exception leaves are parts of the same member;
* `Complete`: a datapoint with the root and closed under children has all of the data
  object, since the first node that was missing would have a parent that is there. This
  is where a structure of the right size with names that are missing is excluded: the sizes
  are compared at each level;
* `ExportIs` relates what is sent to the first member that throws.

`PlainNames` says that no text of a member's path goes on after the name of a selected data
object, and that each of those has a label. Without it `SelectionByName` is false, which is what the run `selection` shows.

### Checked by TLC alone

Liveness (`StopReturns`, `ServedExported`, `CallsReturn` and the fairness part of
`KeepsPromise`), which is beyond the prover. Every other property of a passing run is
a theorem.

## 6. What is not modelled

* Logging, including the error list; the order and wording of messages.
* `assetName` and `iedName`, which are stored and never read; `plugin_info` and
  `plugin_poll`, which keep no state.
* The durations of the sleeps, hence the polling period in the client; a period
  that wraps is part of the import.
* Memory: the `MmsValue` that `WrappedMms` owns, the lists of the library, and a
  datapoint that `ingest()` drops without a callback or that Fledge has taken. What an
  exception leaks of the datapoints under construction is modelled.
* The object of a `plugin_init` that throws, which nobody deletes.
* `registerIngest` against a running reader: Fledge registers before the start.
* A reconfiguration whose text is not JSON: it throws before `stop()` and changes
  nothing.
* libiec61850 and the servers, but for their answers.
* The unit tests, the build and packaging files, and `docs/html`: pages and scripts
  generated by Doxygen, no part of the plugin.

## 7. Plan

Done, in this order: `PollingClient` and `IEC61850Client` with their proofs, as the
concurrency of the client is where the plugin is most likely to be wrong; the
configuration; Fledge's calls over both; OSI parameters and the readings; the proofs
about the plugin, the configuration and the selectors; `SouthPlugin` above the plugin
and `PollingClient` below it; what an exception leaks of a reading; the first import
and the readings as theorems.

Left: the lengths of the sleeps. How late `stop()` may return is the polling period, or
the pause of the reconnection loop; it needs a clock in `IEC61850Client`.
