-------------------------- MODULE ClientConfigProofs --------------------------
(***************************************************************************)
(* Lemmas about importConfig, for documents of any length: what one import *)
(* can do to the servers of a configuration, and what it has accepted when *)
(* it goes on from one section to the next.                                *)
(***************************************************************************)
EXTENDS ClientConfig, Loops

\* A std::map, and a list of whatever elements.
IsMap(m) == m = [k \in DOMAIN m |-> m[k]]
IsList(s) == s \in Seq({s[i] : i \in DOMAIN s})

-----------------------------------------------------------------------------
(***************************************************************************)
(* The loop over the connections.                                          *)
(***************************************************************************)

\* Where a server can come from: it was there, or the list names it in a
\* connection that is all valid.
Sourced(k, osi, servers, list) ==
  \/ k \in DOMAIN servers /\ osi = servers[k]
  \/ \E i \in DOMAIN list :
       ValidConnection(list[i]) /\ list[i].key = k /\ list[i].osi = osi

ServerMaps(servers, list) ==
  LET keys   == DOMAIN servers \cup {list[i].key : i \in DOMAIN list}
      values == {servers[k] : k \in DOMAIN servers}
                  \cup {list[i].osi : i \in DOMAIN list}
  IN  {m \in UNION {[D -> values] : D \in SUBSET keys} :
         \A k \in DOMAIN m : Sourced(k, m[k], servers, list)}

LEMMA PutSourced ==
  ASSUME NEW servers, NEW list, NEW i \in DOMAIN list,
         NEW m \in ServerMaps(servers, list), ValidConnection(list[i])
  PROVE  Put(m, list[i].key, list[i].osi) \in ServerMaps(servers, list)
<1> DEFINE keys == DOMAIN servers \cup {list[j].key : j \in DOMAIN list}
           values == {servers[k] : k \in DOMAIN servers}
                       \cup {list[j].osi : j \in DOMAIN list}
           p == Put(m, list[i].key, list[i].osi)
<1>1. PICK D \in SUBSET keys : m \in [D -> values]
  BY DEF ServerMaps
<1>2. p = [k \in D \cup {list[i].key} |->
             IF k = list[i].key THEN list[i].osi ELSE m[k]]
  BY <1>1 DEF Put
<1>3. D \cup {list[i].key} \in SUBSET keys
  OBVIOUS
<1>4. p \in [D \cup {list[i].key} -> values]
  BY <1>1, <1>2
<1>5. ASSUME NEW k \in DOMAIN p
      PROVE  Sourced(k, p[k], servers, list)
  <2>1. CASE k = list[i].key
    BY <1>2, <2>1 DEF Sourced
  <2>2. CASE k # list[i].key
    BY <1>1, <1>2, <2>2 DEF ServerMaps
  <2> QED
    BY <2>1, <2>2
<1>6. p \in UNION {[E -> values] : E \in SUBSET keys}
  BY <1>3, <1>4
<1> QED
  BY <1>5, <1>6 DEF ServerMaps

LEMMA StartSourced ==
  ASSUME NEW servers, IsMap(servers), NEW list
  PROVE  servers \in ServerMaps(servers, list)
<1> DEFINE keys == DOMAIN servers \cup {list[j].key : j \in DOMAIN list}
           values == {servers[k] : k \in DOMAIN servers}
                       \cup {list[j].osi : j \in DOMAIN list}
<1>1. servers \in [DOMAIN servers -> values]
  BY DEF IsMap
<1>2. servers \in UNION {[E -> values] : E \in SUBSET keys}
  BY <1>1
<1> QED
  BY <1>2 DEF ServerMaps, Sourced

\* The runs of the loop over n connections.
ConnectionRun(f, servers, list, n) ==
  f = [i \in 0..n |-> IF i = 0 THEN Done(servers)
                      ELSE IF f[i - 1].ok
                             THEN ImportConnection(f[i - 1].value, list[i])
                             ELSE f[i - 1]]

LEMMA ConnectionRound ==
  ASSUME NEW servers, NEW list, NEW i \in DOMAIN list,
         NEW r \in [value : ServerMaps(servers, list), ok : BOOLEAN], r.ok
  PROVE  /\ ImportConnection(r.value, list[i])
              \in [value : ServerMaps(servers, list), ok : BOOLEAN]
         /\ ImportConnection(r.value, list[i]).ok => ValidConnection(list[i])
<1>1. CASE ValidConnection(list[i])
  <2>1. Put(r.value, list[i].key, list[i].osi) \in ServerMaps(servers, list)
    BY <1>1, PutSourced
  <2> QED
    BY <1>1, <2>1 DEF ImportConnection, Done
<1>2. CASE ~ValidConnection(list[i])
  BY <1>2 DEF ImportConnection, Throws
<1> QED
  BY <1>1, <1>2

LEMMA ConnectionRunExists ==
  ASSUME NEW servers, IsMap(servers), NEW list, NEW n \in Nat, DOMAIN list = 1..n
  PROVE  \E f : ConnectionRun(f, servers, list, n)
<1> DEFINE S == [value : ServerMaps(servers, list), ok : BOOLEAN]
           Round(i, r) == IF r.ok THEN ImportConnection(r.value, list[i]) ELSE r
           step == [x \in (1..n) \X S |-> Round(x[1], x[2])]
<1>1. Done(servers) \in S
  BY StartSourced DEF Done
<1>2. step \in [(1..n) \X S -> S]
  <2>1. ASSUME NEW i \in 1..n, NEW r \in S
        PROVE  Round(i, r) \in S
    BY ConnectionRound
  <2> HIDE DEF S, Round
  <2> QED
    BY <2>1
<1>3. PICK f : IsLoop(f, n, S, Done(servers), step)
  <2> HIDE DEF S, step
  <2> QED
    BY <1>1, <1>2, LoopDefined
<1>4. /\ f \in [0..n -> S] /\ f[0] = Done(servers)
      /\ \A i \in 1..n : f[i] = step[<<i, f[i - 1]>>]
  <2> HIDE DEF S, step
  <2> QED
    BY <1>3 DEF IsLoop
<1>5. ASSUME NEW i \in 1..n
      PROVE  f[i] = Round(i, f[i - 1])
  <2>1. i - 1 \in 0..n
    OBVIOUS
  <2> HIDE DEF S, Round
  <2>2. <<i, f[i - 1]>> \in (1..n) \X S
    BY <1>4, <2>1
  <2>3. f[i] = step[<<i, f[i - 1]>>]
    BY <1>4
  <2> QED
    BY <2>2, <2>3
<1> QED
  <2> HIDE DEF S
  <2> QED
    BY <1>4, <1>5 DEF ConnectionRun

LEMMA ConnectionRunStays ==
  ASSUME NEW servers, IsMap(servers), NEW list, NEW n \in Nat, DOMAIN list = 1..n,
         NEW f, ConnectionRun(f, servers, list, n)
  PROVE  \A i \in 0..n :
           /\ f[i] \in [value : ServerMaps(servers, list), ok : BOOLEAN]
           /\ f[i].ok => \A j \in 1..i : ValidConnection(list[j])
<1> DEFINE S == [value : ServerMaps(servers, list), ok : BOOLEAN]
           T == {i \in 0..n : /\ f[i] \in S
                              /\ f[i].ok => \A j \in 1..i : ValidConnection(list[j])}
<1>1. f[0] = Done(servers)
  BY DEF ConnectionRun
<1>2. \A i \in 1..n : f[i] = IF f[i - 1].ok
                               THEN ImportConnection(f[i - 1].value, list[i])
                               ELSE f[i - 1]
  BY DEF ConnectionRun
<1>3. 0 \in T
  <2>1. Done(servers) \in S
    BY StartSourced DEF Done
  <2> HIDE DEF S
  <2> QED
    BY <1>1, <2>1
<1>4. ASSUME NEW i \in 1..n, i - 1 \in T
      PROVE  i \in T
  <2>1. i \in 0..n /\ i \in DOMAIN list /\ f[i - 1] \in S
    BY <1>4
  <2>2. CASE f[i - 1].ok
    <3>1. f[i] = ImportConnection(f[i - 1].value, list[i])
      BY <1>2, <2>2
    <3>2. f[i] \in S /\ (f[i].ok => ValidConnection(list[i]))
      BY <2>1, <2>2, <3>1, ConnectionRound
    <3>3. \A j \in 1..(i - 1) : ValidConnection(list[j])
      BY <1>4, <2>2
    <3>4. \A j \in 1..i : j = i \/ j \in 1..(i - 1)
      OBVIOUS
    <3> HIDE DEF S
    <3> QED
      BY <2>1, <3>2, <3>3, <3>4
  <2>3. CASE ~f[i - 1].ok
    <3>1. f[i] = f[i - 1]
      BY <1>2, <2>3
    <3> HIDE DEF S
    <3> QED
      BY <2>1, <2>3, <3>1
  <2> QED
    BY <2>2, <2>3
<1>5. 0..n \subseteq T
  <2> HIDE DEF T
  <2> QED
    BY <1>3, <1>4, LoopInduction
<1> QED
  BY <1>5

\* The loop of importConfig is the last state of such a run.
LEMMA ConnectionLoop ==
  ASSUME NEW servers, IsMap(servers), NEW list, IsArray(list)
  PROVE  \E n \in Nat : \E f :
           /\ DOMAIN list = 1..n
           /\ ConnectionRun(f, servers, list, n)
           /\ ForEach(servers, list, ImportConnection) = f[n]
<1>1. PICK n \in Nat : n = Len(list) /\ DOMAIN list = 1..n
  BY DEF IsArray
<1> DEFINE Is(f) == ConnectionRun(f, servers, list, n)
<1>2. \E f : Is(f)
  BY <1>1, ConnectionRunExists
<1>3. Rounds(servers, list, ImportConnection) = CHOOSE f : Is(f)
  BY <1>1 DEF Rounds, Then, ConnectionRun
<1>4. PICK f : Is(f) /\ f = Rounds(servers, list, ImportConnection)
  <2> HIDE DEF Is
  <2> QED
    BY <1>2, <1>3
<1>5. ForEach(servers, list, ImportConnection) = f[n]
  BY <1>1, <1>4 DEF ForEach
<1>6. DOMAIN list = 1..n /\ Is(f)
  BY <1>1, <1>4
<1> HIDE DEF Is
<1>7. \E g : DOMAIN list = 1..n /\ Is(g) /\ ForEach(servers, list, ImportConnection) = g[n]
  BY <1>5, <1>6
<1> QED
  BY <1>7 DEF Is

\* What is in the dictionary after the loop was there before or is a valid
\* connection of the list, and a loop without exception found them all valid.
LEMMA ConnectionsImported ==
  ASSUME NEW servers, IsMap(servers), NEW list, IsArray(list)
  PROVE  LET stored == ForEach(servers, list, ImportConnection)
         IN  /\ stored \in [value : ServerMaps(servers, list), ok : BOOLEAN]
             /\ stored.ok => \A i \in DOMAIN list : ValidConnection(list[i])
<1> DEFINE stored == ForEach(servers, list, ImportConnection)
<1>0. PICK n \in Nat : \E f :
       /\ DOMAIN list = 1..n
       /\ ConnectionRun(f, servers, list, n)
       /\ stored = f[n]
  BY ConnectionLoop
<1>1. PICK f : /\ DOMAIN list = 1..n
               /\ ConnectionRun(f, servers, list, n)
               /\ stored = f[n]
  BY <1>0
<1> HIDE DEF stored
<1>2. /\ f[n] \in [value : ServerMaps(servers, list), ok : BOOLEAN]
      /\ f[n].ok => \A j \in 1..n : ValidConnection(list[j])
  <2>1. n \in 0..n
    OBVIOUS
  <2> QED
    BY <1>1, <2>1, ConnectionRunStays
<1>3. /\ stored \in [value : ServerMaps(servers, list), ok : BOOLEAN]
      /\ stored.ok => \A i \in DOMAIN list : ValidConnection(list[i])
  BY <1>1, <1>2
<1> QED
  BY <1>3 DEF stored

-----------------------------------------------------------------------------
(***************************************************************************)
(* The loop over the datapoints.                                           *)
(***************************************************************************)

\* The lists of datapoints that the loop can hold.
DatapointLists(data, list) ==
  Seq({data[i] : i \in DOMAIN data}
        \cup {DatapointOf(list[i]) : i \in DOMAIN list})

LEMMA StartListed ==
  ASSUME NEW data, IsList(data), NEW list
  PROVE  data \in DatapointLists(data, list)
<1>1. data \in Seq({data[i] : i \in DOMAIN data})
  BY DEF IsList
<1> QED
  BY <1>1 DEF DatapointLists

\* The runs of the loop over n datapoints.
DatapointRun(f, data, list, n) ==
  f = [i \in 0..n |-> IF i = 0 THEN Done(data)
                      ELSE IF f[i - 1].ok
                             THEN ImportDatapoint(f[i - 1].value, list[i])
                             ELSE f[i - 1]]

LEMMA DatapointRound ==
  ASSUME NEW data, NEW list, NEW i \in DOMAIN list,
         NEW r \in [value : DatapointLists(data, list), ok : BOOLEAN], r.ok
  PROVE  /\ ImportDatapoint(r.value, list[i])
              \in [value : DatapointLists(data, list), ok : BOOLEAN]
         /\ ImportDatapoint(r.value, list[i]).ok => ValidDatapoint(list[i])
<1>1. CASE ValidDatapoint(list[i])
  <2> DEFINE D == {data[j] : j \in DOMAIN data}
                    \cup {DatapointOf(list[j]) : j \in DOMAIN list}
  <2>1. DatapointOf(list[i]) \in D
    OBVIOUS
  <2>2. r.value \in Seq(D)
    BY DEF DatapointLists
  <2>3. Append(r.value, DatapointOf(list[i])) \in Seq(D)
    <3> HIDE DEF D
    <3> QED
      BY <2>1, <2>2
  <2>4. Append(r.value, DatapointOf(list[i])) \in DatapointLists(data, list)
    BY <2>3 DEF DatapointLists
  <2> QED
    BY <1>1, <2>4 DEF ImportDatapoint, Done
<1>2. CASE ~ValidDatapoint(list[i])
  BY <1>2 DEF ImportDatapoint, Throws
<1> QED
  BY <1>1, <1>2

LEMMA DatapointRunExists ==
  ASSUME NEW data, IsList(data), NEW list, NEW n \in Nat, DOMAIN list = 1..n
  PROVE  \E f : DatapointRun(f, data, list, n)
<1> DEFINE S == [value : DatapointLists(data, list), ok : BOOLEAN]
           Round(i, r) == IF r.ok THEN ImportDatapoint(r.value, list[i]) ELSE r
           step == [x \in (1..n) \X S |-> Round(x[1], x[2])]
<1>1. Done(data) \in S
  BY StartListed DEF Done
<1>2. step \in [(1..n) \X S -> S]
  <2>1. ASSUME NEW i \in 1..n, NEW r \in S
        PROVE  Round(i, r) \in S
    BY DatapointRound
  <2> HIDE DEF S, Round
  <2> QED
    BY <2>1
<1>3. PICK f : IsLoop(f, n, S, Done(data), step)
  <2> HIDE DEF S, step
  <2> QED
    BY <1>1, <1>2, LoopDefined
<1>4. /\ f \in [0..n -> S] /\ f[0] = Done(data)
      /\ \A i \in 1..n : f[i] = step[<<i, f[i - 1]>>]
  <2> HIDE DEF S, step
  <2> QED
    BY <1>3 DEF IsLoop
<1>5. ASSUME NEW i \in 1..n
      PROVE  f[i] = Round(i, f[i - 1])
  <2>1. i - 1 \in 0..n
    OBVIOUS
  <2> HIDE DEF S, Round
  <2>2. <<i, f[i - 1]>> \in (1..n) \X S
    BY <1>4, <2>1
  <2>3. f[i] = step[<<i, f[i - 1]>>]
    BY <1>4
  <2> QED
    BY <2>2, <2>3
<1> QED
  <2> HIDE DEF S
  <2> QED
    BY <1>4, <1>5 DEF DatapointRun

LEMMA DatapointRunStays ==
  ASSUME NEW data, IsList(data), NEW list, NEW n \in Nat, DOMAIN list = 1..n,
         NEW f, DatapointRun(f, data, list, n)
  PROVE  \A i \in 0..n :
           /\ f[i] \in [value : DatapointLists(data, list), ok : BOOLEAN]
           /\ f[i].ok => \A j \in 1..i : ValidDatapoint(list[j])
<1> DEFINE S == [value : DatapointLists(data, list), ok : BOOLEAN]
           T == {i \in 0..n : /\ f[i] \in S
                              /\ f[i].ok => \A j \in 1..i : ValidDatapoint(list[j])}
<1>1. f[0] = Done(data)
  BY DEF DatapointRun
<1>2. \A i \in 1..n : f[i] = IF f[i - 1].ok
                               THEN ImportDatapoint(f[i - 1].value, list[i])
                               ELSE f[i - 1]
  BY DEF DatapointRun
<1>3. 0 \in T
  <2>1. Done(data) \in S
    BY StartListed DEF Done
  <2> HIDE DEF S
  <2> QED
    BY <1>1, <2>1
<1>4. ASSUME NEW i \in 1..n, i - 1 \in T
      PROVE  i \in T
  <2>1. i \in 0..n /\ i \in DOMAIN list /\ f[i - 1] \in S
    BY <1>4
  <2>2. CASE f[i - 1].ok
    <3>1. f[i] = ImportDatapoint(f[i - 1].value, list[i])
      BY <1>2, <2>2
    <3>2. f[i] \in S /\ (f[i].ok => ValidDatapoint(list[i]))
      BY <2>1, <2>2, <3>1, DatapointRound
    <3>3. \A j \in 1..(i - 1) : ValidDatapoint(list[j])
      BY <1>4, <2>2
    <3>4. \A j \in 1..i : j = i \/ j \in 1..(i - 1)
      OBVIOUS
    <3> HIDE DEF S
    <3> QED
      BY <2>1, <3>2, <3>3, <3>4
  <2>3. CASE ~f[i - 1].ok
    <3>1. f[i] = f[i - 1]
      BY <1>2, <2>3
    <3> HIDE DEF S
    <3> QED
      BY <2>1, <2>3, <3>1
  <2> QED
    BY <2>2, <2>3
<1>5. 0..n \subseteq T
  <2> HIDE DEF T
  <2> QED
    BY <1>3, <1>4, LoopInduction
<1> QED
  BY <1>5

\* The loop of importConfig is the last state of such a run.
LEMMA DatapointLoop ==
  ASSUME NEW data, IsList(data), NEW list, IsArray(list)
  PROVE  \E n \in Nat : \E f :
           /\ DOMAIN list = 1..n
           /\ DatapointRun(f, data, list, n)
           /\ ForEach(data, list, ImportDatapoint) = f[n]
<1>1. PICK n \in Nat : n = Len(list) /\ DOMAIN list = 1..n
  BY DEF IsArray
<1> DEFINE Is(f) == DatapointRun(f, data, list, n)
<1>2. \E f : Is(f)
  BY <1>1, DatapointRunExists
<1>3. Rounds(data, list, ImportDatapoint) = CHOOSE f : Is(f)
  BY <1>1 DEF Rounds, Then, DatapointRun
<1>4. PICK f : Is(f) /\ f = Rounds(data, list, ImportDatapoint)
  <2> HIDE DEF Is
  <2> QED
    BY <1>2, <1>3
<1>5. ForEach(data, list, ImportDatapoint) = f[n]
  BY <1>1, <1>4 DEF ForEach
<1>6. DOMAIN list = 1..n /\ Is(f)
  BY <1>1, <1>4
<1> HIDE DEF Is
<1>7. \E g : DOMAIN list = 1..n /\ Is(g) /\ ForEach(data, list, ImportDatapoint) = g[n]
  BY <1>5, <1>6
<1> QED
  BY <1>7 DEF Is

\* The loop leaves a list of the datapoints it had and those that it read, and
\* without exception has found all of them valid.
LEMMA DatapointsImported ==
  ASSUME NEW data, IsList(data), NEW list, IsArray(list)
  PROVE  LET stored == ForEach(data, list, ImportDatapoint)
         IN  /\ stored \in [value : DatapointLists(data, list), ok : BOOLEAN]
             /\ stored.ok => \A i \in DOMAIN list : ValidDatapoint(list[i])
<1> DEFINE stored == ForEach(data, list, ImportDatapoint)
<1>0. PICK n \in Nat : \E f :
       /\ DOMAIN list = 1..n
       /\ DatapointRun(f, data, list, n)
       /\ stored = f[n]
  BY DatapointLoop
<1>1. PICK f : /\ DOMAIN list = 1..n
               /\ DatapointRun(f, data, list, n)
               /\ stored = f[n]
  BY <1>0
<1> HIDE DEF stored
<1>2. /\ f[n] \in [value : DatapointLists(data, list), ok : BOOLEAN]
      /\ f[n].ok => \A j \in 1..n : ValidDatapoint(list[j])
  <2>1. n \in 0..n
    OBVIOUS
  <2> QED
    BY <1>1, <2>1, DatapointRunStays
<1>3. /\ stored \in [value : DatapointLists(data, list), ok : BOOLEAN]
      /\ stored.ok => \A i \in DOMAIN list : ValidDatapoint(list[i])
  BY <1>1, <1>2
<1> QED
  BY <1>3 DEF stored

\* What the loop leaves is a list.
LEMMA ListedIsList ==
  ASSUME NEW data, NEW list, NEW v \in DatapointLists(data, list)
  PROVE  IsList(v)
<1>1. /\ Len(v) \in Nat
      /\ v = [k \in 1..Len(v) |-> v[k]]
      /\ DOMAIN v = 1..Len(v)
  BY DEF DatapointLists
<1>2. v \in [1..Len(v) -> {v[k] : k \in DOMAIN v}]
  BY <1>1
<1>3. v \in Seq({v[k] : k \in DOMAIN v})
  BY <1>1, <1>2
<1> QED
  BY <1>3 DEF IsList

-----------------------------------------------------------------------------
(***************************************************************************)
(* The loop over the datasets.                                             *)
(***************************************************************************)

\* What is stored of a dataset, and the maps that the loop can hold.
StoredObjects(dataset) ==
  [i \in DOMAIN dataset.objects |-> SelectedObject(dataset.objects[i])]

ValidDataset(dataset) == dataset # Malformed /\ ValidList(dataset.objects)

DatasetMaps(datasets, list) ==
  LET keys   == DOMAIN datasets \cup {list[i].ref : i \in DOMAIN list}
      values == {datasets[k] : k \in DOMAIN datasets}
                  \cup {StoredObjects(list[i]) : i \in DOMAIN list}
  IN  UNION {[D -> values] : D \in SUBSET keys}

LEMMA StartMapped ==
  ASSUME NEW datasets, IsMap(datasets), NEW list
  PROVE  datasets \in DatasetMaps(datasets, list)
<1> DEFINE values == {datasets[k] : k \in DOMAIN datasets}
                       \cup {StoredObjects(list[j]) : j \in DOMAIN list}
<1>1. datasets \in [DOMAIN datasets -> values]
  BY DEF IsMap
<1> QED
  BY <1>1 DEF DatasetMaps

\* The runs of the loop over n datasets.
DatasetRun(f, datasets, list, n) ==
  f = [i \in 0..n |-> IF i = 0 THEN Done(datasets)
                      ELSE IF f[i - 1].ok
                             THEN ImportDataset(f[i - 1].value, list[i])
                             ELSE f[i - 1]]

LEMMA DatasetRound ==
  ASSUME NEW datasets, NEW list, NEW i \in DOMAIN list,
         NEW r \in [value : DatasetMaps(datasets, list), ok : BOOLEAN], r.ok
  PROVE  /\ ImportDataset(r.value, list[i])
              \in [value : DatasetMaps(datasets, list), ok : BOOLEAN]
         /\ ImportDataset(r.value, list[i]).ok => ValidDataset(list[i])
<1>1. CASE ValidDataset(list[i])
  <2> DEFINE keys == DOMAIN datasets \cup {list[j].ref : j \in DOMAIN list}
             values == {datasets[k] : k \in DOMAIN datasets}
                         \cup {StoredObjects(list[j]) : j \in DOMAIN list}
             p == Put(r.value, list[i].ref, StoredObjects(list[i]))
  <2>1. PICK D \in SUBSET keys : r.value \in [D -> values]
    BY DEF DatasetMaps
  <2>2. D \cup {list[i].ref} \in SUBSET keys /\ StoredObjects(list[i]) \in values
    OBVIOUS
  <2>3. p \in [D \cup {list[i].ref} -> values]
    <3> HIDE DEF keys, values
    <3> QED
      BY <2>1, <2>2 DEF Put
  <2>4. p \in DatasetMaps(datasets, list)
    BY <2>2, <2>3 DEF DatasetMaps
  <2>5. ImportDataset(r.value, list[i]) = Done(p)
    BY <1>1 DEF ImportDataset, ValidDataset, StoredObjects
  <2> HIDE DEF p
  <2> QED
    BY <1>1, <2>4, <2>5 DEF Done
<1>2. CASE ~ValidDataset(list[i])
  BY <1>2 DEF ImportDataset, ValidDataset, Throws
<1> QED
  BY <1>1, <1>2

LEMMA DatasetRunExists ==
  ASSUME NEW datasets, IsMap(datasets), NEW list, NEW n \in Nat,
         DOMAIN list = 1..n
  PROVE  \E f : DatasetRun(f, datasets, list, n)
<1> DEFINE S == [value : DatasetMaps(datasets, list), ok : BOOLEAN]
           Round(i, r) == IF r.ok THEN ImportDataset(r.value, list[i]) ELSE r
           step == [x \in (1..n) \X S |-> Round(x[1], x[2])]
<1>1. Done(datasets) \in S
  BY StartMapped DEF Done
<1>2. step \in [(1..n) \X S -> S]
  <2>1. ASSUME NEW i \in 1..n, NEW r \in S
        PROVE  Round(i, r) \in S
    BY DatasetRound
  <2> HIDE DEF S, Round
  <2> QED
    BY <2>1
<1>3. PICK f : IsLoop(f, n, S, Done(datasets), step)
  <2> HIDE DEF S, step
  <2> QED
    BY <1>1, <1>2, LoopDefined
<1>4. /\ f \in [0..n -> S] /\ f[0] = Done(datasets)
      /\ \A i \in 1..n : f[i] = step[<<i, f[i - 1]>>]
  <2> HIDE DEF S, step
  <2> QED
    BY <1>3 DEF IsLoop
<1>5. ASSUME NEW i \in 1..n
      PROVE  f[i] = Round(i, f[i - 1])
  <2>1. i - 1 \in 0..n
    OBVIOUS
  <2> HIDE DEF S, Round
  <2>2. <<i, f[i - 1]>> \in (1..n) \X S
    BY <1>4, <2>1
  <2>3. f[i] = step[<<i, f[i - 1]>>]
    BY <1>4
  <2> QED
    BY <2>2, <2>3
<1> QED
  <2> HIDE DEF S
  <2> QED
    BY <1>4, <1>5 DEF DatasetRun

\* A loop without exception has found all datasets valid.
LEMMA DatasetRunStays ==
  ASSUME NEW datasets, NEW list, NEW n \in Nat, DOMAIN list = 1..n,
         NEW f, DatasetRun(f, datasets, list, n)
  PROVE  \A i \in 0..n : f[i].ok => \A j \in 1..i : ValidDataset(list[j])
<1> DEFINE T == {i \in 0..n : f[i].ok => \A j \in 1..i : ValidDataset(list[j])}
<1>1. 0 \in T
  OBVIOUS
<1>2. ASSUME NEW i \in 1..n, i - 1 \in T
      PROVE  i \in T
  <2>1. f[i] = IF f[i - 1].ok THEN ImportDataset(f[i - 1].value, list[i])
                              ELSE f[i - 1]
    BY DEF DatasetRun
  <2>2. CASE f[i - 1].ok
    <3>1. f[i].ok => ValidDataset(list[i])
      BY <2>1, <2>2 DEF ImportDataset, ValidDataset, Throws
    <3>2. \A j \in 1..i : j = i \/ j \in 1..(i - 1)
      OBVIOUS
    <3> QED
      BY <1>2, <2>2, <3>1, <3>2
  <2>3. CASE ~f[i - 1].ok
    BY <2>1, <2>3
  <2> QED
    BY <2>2, <2>3
<1>3. 0..n \subseteq T
  <2> HIDE DEF T
  <2> QED
    BY <1>1, <1>2, LoopInduction
<1> QED
  BY <1>3

\* The loop of importConfig is the last state of such a run.
LEMMA DatasetLoop ==
  ASSUME NEW datasets, IsMap(datasets), NEW list, IsArray(list)
  PROVE  \E n \in Nat : \E f :
           /\ DOMAIN list = 1..n
           /\ DatasetRun(f, datasets, list, n)
           /\ ForEach(datasets, list, ImportDataset) = f[n]
<1>1. PICK n \in Nat : n = Len(list) /\ DOMAIN list = 1..n
  BY DEF IsArray
<1> DEFINE Is(f) == DatasetRun(f, datasets, list, n)
<1>2. \E f : Is(f)
  BY <1>1, DatasetRunExists
<1>3. Rounds(datasets, list, ImportDataset) = CHOOSE f : Is(f)
  BY <1>1 DEF Rounds, Then, DatasetRun
<1>4. PICK f : Is(f) /\ f = Rounds(datasets, list, ImportDataset)
  <2> HIDE DEF Is
  <2> QED
    BY <1>2, <1>3
<1>5. ForEach(datasets, list, ImportDataset) = f[n]
  BY <1>1, <1>4 DEF ForEach
<1>6. DOMAIN list = 1..n /\ Is(f)
  BY <1>1, <1>4
<1> HIDE DEF Is
<1>7. \E g : DOMAIN list = 1..n /\ Is(g) /\ ForEach(datasets, list, ImportDataset) = g[n]
  BY <1>5, <1>6
<1> QED
  BY <1>7 DEF Is

-----------------------------------------------------------------------------
(***************************************************************************)
(* The sections of a document, one after the other.                        *)
(***************************************************************************)

\* What the proofs need to know of a configuration object.
IsConfig(config) ==
  /\ {"logMinLevel", "servers", "pollingPeriod", "readMode", "exchangedData",
      "datasets"} \subseteq DOMAIN config
  /\ IsMap(config.servers)
  /\ IsList(config.exchangedData)

LEMMA DefaultIsConfig == IsConfig(DefaultConfig)
<1>1. IsMap(EmptyMap)
  BY DEF IsMap, EmptyMap
<1>2. IsList(<<>>)
  BY DEF IsList
<1> QED
  BY <1>1, <1>2 DEF IsConfig, DefaultConfig

LEMMA MapsAreMaps ==
  ASSUME NEW servers, NEW list, NEW m \in ServerMaps(servers, list)
  PROVE  IsMap(m)
BY DEF ServerMaps, IsMap

\* The transport layer.
LEMMA TransportImported ==
  ASSUME NEW config, IsConfig(config),
         NEW transport, IsArray(transport.connections)
  PROVE  LET result == ImportTransportLayer(config, transport)
         IN  /\ IsConfig(result.value)
             /\ result.value.servers
                  \in ServerMaps(config.servers, transport.connections)
             /\ result.value.pollingPeriod = config.pollingPeriod
             /\ result.value.readMode = config.readMode
             /\ result.value.exchangedData = config.exchangedData
             /\ result.value.datasets = config.datasets
             /\ result.ok =>
                  /\ transport.state = "ok"
                  /\ \A i \in DOMAIN transport.connections :
                       ValidConnection(transport.connections[i])
<1> DEFINE list == transport.connections
           stored == ForEach(config.servers, list, ImportConnection)
           result == ImportTransportLayer(config, transport)
<1>1. IsMap(config.servers)
  BY DEF IsConfig
<1>2. /\ stored.value \in ServerMaps(config.servers, list)
      /\ stored.ok => \A i \in DOMAIN list : ValidConnection(list[i])
  BY <1>1, ConnectionsImported
<1>3. CASE transport.state # "ok"
  <2>1. result.value = config /\ ~result.ok
    BY <1>3 DEF ImportTransportLayer, Throws
  <2>2. config.servers \in ServerMaps(config.servers, list)
    BY <1>1, StartSourced
  <2> HIDE DEF result
  <2>3. result.value.servers \in ServerMaps(config.servers, list)
    BY <2>1, <2>2
  <2> QED
    BY <2>1, <2>3 DEF result
<1>4. CASE transport.state = "ok"
  <2>1. /\ result.value = [config EXCEPT !.servers = stored.value]
        /\ result.ok = stored.ok
    BY <1>4 DEF ImportTransportLayer
  <2> HIDE DEF result, stored
  <2>2. /\ result.value.servers = stored.value
        /\ result.value.pollingPeriod = config.pollingPeriod
        /\ result.value.readMode = config.readMode
        /\ result.value.exchangedData = config.exchangedData
        /\ result.value.datasets = config.datasets
        /\ DOMAIN result.value = DOMAIN config
    BY <2>1 DEF IsConfig
  <2>3. IsMap(result.value.servers)
    BY <1>2, <2>2, MapsAreMaps
  <2>4. IsConfig(result.value)
    BY <2>2, <2>3 DEF IsConfig
  <2> QED
    BY <1>2, <1>4, <2>1, <2>2, <2>4 DEF result
<1> QED
  BY <1>3, <1>4

\* The application layer.
LEMMA ApplicationImported ==
  ASSUME NEW config, IsConfig(config), NEW application
  PROVE  LET result == ImportApplicationLayer(config, application)
         IN  /\ IsConfig(result.value)
             /\ result.value.servers = config.servers
             /\ result.value.exchangedData = config.exchangedData
             /\ result.value.datasets = config.datasets
             /\ result.ok => /\ application.state = "ok"
                             /\ application.period # Malformed
                             /\ application.mode # Malformed
<1> DEFINE Kept(r, c) == /\ DOMAIN r.value = DOMAIN c
                         /\ r.value.servers = c.servers
                         /\ r.value.exchangedData = c.exchangedData
                         /\ r.value.datasets = c.datasets
           period == ImportReadingPeriod(config, application.period)
           mode(c) == ImportReadMode(c, application.mode)
           result == ImportApplicationLayer(config, application)
<1>1. Kept(period, config) /\ (period.ok => application.period # Malformed)
  <2>1. CASE application.period = Absent
    BY <2>1, ConfigAssumption DEF ImportReadingPeriod, Done
  <2>2. CASE application.period = Malformed
    BY <2>2, ConfigAssumption DEF ImportReadingPeriod, Throws
  <2>3. CASE application.period \notin {Absent, Malformed}
    <3>1. period = Done([config EXCEPT !.pollingPeriod =
                                 application.period % UIntRange])
      BY <2>3 DEF ImportReadingPeriod
    <3> HIDE DEF period
    <3> QED
      BY <2>3, <3>1 DEF IsConfig, Done
  <2> QED
    BY <2>1, <2>2, <2>3
<1>2. ASSUME NEW c, IsConfig(c)
      PROVE  Kept(mode(c), c) /\ (mode(c).ok => application.mode # Malformed)
  <2>1. CASE application.mode = Absent
    BY <2>1, ConfigAssumption DEF ImportReadMode, Done
  <2>2. CASE application.mode = Malformed
    BY <2>2, ConfigAssumption DEF ImportReadMode, Throws
  <2>3. CASE application.mode \notin {Absent, Malformed}
    <3> DEFINE m == IF application.mode = "dataset" THEN "DATASET_READING"
                                                     ELSE "DO_READING"
    <3>1. mode(c) = Done([c EXCEPT !.readMode = m])
      BY <2>3 DEF ImportReadMode
    <3> HIDE DEF mode, m
    <3> QED
      BY <1>2, <2>3, <3>1 DEF IsConfig, Done
  <2> QED
    BY <2>1, <2>2, <2>3
<1> HIDE DEF period, mode
<1>3. IsConfig(period.value)
  BY <1>1 DEF IsConfig
<1>4. result = IF application.state # "ok" THEN Throws(config)
               ELSE IF period.ok THEN mode(period.value) ELSE period
  BY DEF ImportApplicationLayer, Then, period, mode
<1>5. /\ Kept(result, config)
      /\ result.ok => /\ application.state = "ok"
                      /\ application.period # Malformed
                      /\ application.mode # Malformed
  <2> HIDE DEF result
  <2>1. CASE application.state # "ok"
    BY <1>4, <2>1 DEF Throws
  <2>2. CASE application.state = "ok" /\ ~period.ok
    BY <1>1, <1>4, <2>2
  <2>3. CASE application.state = "ok" /\ period.ok
    BY <1>1, <1>2, <1>3, <1>4, <2>3
  <2> QED
    BY <2>1, <2>2, <2>3
<1>6. IsConfig(result.value)
  <2> HIDE DEF result
  <2> QED
    BY <1>5 DEF IsConfig
<1> QED
  BY <1>5, <1>6

\* The exchanged data.
LEMMA DataImported ==
  ASSUME NEW config, IsConfig(config),
         NEW exchanged, IsArray(exchanged.datapoints)
  PROVE  LET result == ImportExchangedData(config, exchanged)
         IN  /\ IsConfig(result.value)
             /\ result.value.servers = config.servers
             /\ result.value.pollingPeriod = config.pollingPeriod
             /\ result.value.readMode = config.readMode
             /\ result.value.datasets = config.datasets
             /\ result.ok =>
                  /\ exchanged.state # "malformed"
                  /\ exchanged.state # "missing" =>
                       \A i \in DOMAIN exchanged.datapoints :
                         ValidDatapoint(exchanged.datapoints[i])
<1> DEFINE list == exchanged.datapoints
           stored == ForEach(config.exchangedData, list, ImportDatapoint)
           result == ImportExchangedData(config, exchanged)
<1>1. /\ stored.value \in DatapointLists(config.exchangedData, list)
      /\ stored.ok => \A i \in DOMAIN list : ValidDatapoint(list[i])
  BY DatapointsImported DEF IsConfig
<1>2. CASE exchanged.state = "missing"
  BY <1>2 DEF ImportExchangedData, Done
<1>3. CASE exchanged.state = "malformed"
  BY <1>3 DEF ImportExchangedData, Throws
<1>4. CASE exchanged.state \notin {"missing", "malformed"}
  <2>1. /\ result.value = [config EXCEPT !.exchangedData = stored.value]
        /\ result.ok = stored.ok
    BY <1>4 DEF ImportExchangedData
  <2> HIDE DEF result, stored
  <2>2. /\ result.value.servers = config.servers
        /\ result.value.pollingPeriod = config.pollingPeriod
        /\ result.value.readMode = config.readMode
        /\ result.value.exchangedData = stored.value
        /\ result.value.datasets = config.datasets
        /\ DOMAIN result.value = DOMAIN config
    BY <2>1 DEF IsConfig
  <2>3. IsList(result.value.exchangedData)
    BY <1>1, <2>2, ListedIsList
  <2>4. IsConfig(result.value)
    BY <2>2, <2>3 DEF IsConfig
  <2> QED
    BY <1>1, <1>4, <2>1, <2>2, <2>4 DEF result
<1> QED
  BY <1>2, <1>3, <1>4

\* The datasets, the last of the sections.
LEMMA DatasetsImported ==
  ASSUME NEW config, IsConfig(config), NEW exchanged
  PROVE  LET result == ImportExchangedDatasets(config, exchanged)
         IN  /\ IsConfig(result.value)
             /\ result.value.servers = config.servers
             /\ result.value.pollingPeriod = config.pollingPeriod
             /\ result.value.readMode = config.readMode
             /\ result.value.exchangedData = config.exchangedData
<1> DEFINE stored == ForEach(config.datasets, exchanged.datasets, ImportDataset)
           result == ImportExchangedDatasets(config, exchanged)
<1>1. CASE exchanged.state = "missing"
  BY <1>1 DEF ImportExchangedDatasets, Done
<1>2. CASE exchanged.state = "malformed"
  BY <1>2 DEF ImportExchangedDatasets, Throws
<1>3. CASE exchanged.state \notin {"missing", "malformed"}
  <2>1. result.value = [config EXCEPT !.datasets = stored.value]
    BY <1>3 DEF ImportExchangedDatasets
  <2> HIDE DEF result, stored
  <2> QED
    BY <2>1 DEF IsConfig, result
<1> QED
  BY <1>1, <1>2, <1>3

-----------------------------------------------------------------------------
(***************************************************************************)
(* A whole import: what each section works on.                             *)
(***************************************************************************)
Labelled(config, doc) == [config EXCEPT !.logMinLevel = doc.logMinLevel]

AfterTransport(config, doc) ==
  ImportTransportLayer(Labelled(config, doc), doc.transport)

AfterApplication(config, doc) ==
  IF AfterTransport(config, doc).ok
    THEN ImportApplicationLayer(AfterTransport(config, doc).value,
                                doc.application)
    ELSE AfterTransport(config, doc)

AfterData(config, doc) ==
  IF AfterApplication(config, doc).ok
    THEN ImportExchangedData(AfterApplication(config, doc).value,
                             doc.exchangedData)
    ELSE AfterApplication(config, doc)

LEMMA ImportSteps ==
  ASSUME NEW config, NEW doc
  PROVE  ImportConfig(config, doc) =
           IF AfterData(config, doc).ok
             THEN ImportExchangedDatasets(AfterData(config, doc).value,
                                          doc.exchangedDatasets)
             ELSE AfterData(config, doc)
BY DEF ImportConfig, ImportProtocolStack, Then, Labelled, AfterTransport,
       AfterApplication, AfterData

LEMMA LabelledIsConfig ==
  ASSUME NEW config, IsConfig(config), NEW doc
  PROVE  /\ IsConfig(Labelled(config, doc))
         /\ Labelled(config, doc).servers = config.servers
         /\ Labelled(config, doc).pollingPeriod = config.pollingPeriod
         /\ Labelled(config, doc).readMode = config.readMode
         /\ Labelled(config, doc).exchangedData = config.exchangedData
         /\ Labelled(config, doc).datasets = config.datasets
BY DEF Labelled, IsConfig

\* What an import can do to a configuration, and what it says about the
\* document: a section is touched only after every one before it was valid.
LEMMA ConfigImported ==
  ASSUME NEW config, IsConfig(config), NEW doc,
         IsArray(doc.transport.connections), IsArray(doc.exchangedData.datapoints)
  PROVE  LET result == ImportConfig(config, doc)
             TransportOk ==
               /\ doc.transport.state = "ok"
               /\ \A i \in DOMAIN doc.transport.connections :
                    ValidConnection(doc.transport.connections[i])
             ApplicationOk == /\ doc.application.state = "ok"
                              /\ doc.application.period # Malformed
                              /\ doc.application.mode # Malformed
             DataOk ==
               /\ doc.exchangedData.state # "malformed"
               /\ doc.exchangedData.state # "missing" =>
                    \A i \in DOMAIN doc.exchangedData.datapoints :
                      ValidDatapoint(doc.exchangedData.datapoints[i])
         IN  /\ IsConfig(result.value)
             /\ result.value.servers
                  \in ServerMaps(config.servers, doc.transport.connections)
             /\ \/ result.value.pollingPeriod # config.pollingPeriod
                \/ result.value.readMode # config.readMode
                => TransportOk
             /\ result.value.exchangedData # config.exchangedData
                => TransportOk /\ ApplicationOk
             /\ result.value.datasets # config.datasets
                => TransportOk /\ ApplicationOk /\ DataOk
<1> DEFINE c0 == Labelled(config, doc)
           r1 == AfterTransport(config, doc)
           r2 == AfterApplication(config, doc)
           r3 == AfterData(config, doc)
           r4 == ImportConfig(config, doc)
           TransportOk ==
             /\ doc.transport.state = "ok"
             /\ \A i \in DOMAIN doc.transport.connections :
                  ValidConnection(doc.transport.connections[i])
           ApplicationOk == /\ doc.application.state = "ok"
                            /\ doc.application.period # Malformed
                            /\ doc.application.mode # Malformed
           DataOk ==
             /\ doc.exchangedData.state # "malformed"
             /\ doc.exchangedData.state # "missing" =>
                  \A i \in DOMAIN doc.exchangedData.datapoints :
                    ValidDatapoint(doc.exchangedData.datapoints[i])
           Maps == ServerMaps(config.servers, doc.transport.connections)
<1>1. /\ IsConfig(c0)
      /\ c0.servers = config.servers
      /\ c0.pollingPeriod = config.pollingPeriod
      /\ c0.readMode = config.readMode
      /\ c0.exchangedData = config.exchangedData
      /\ c0.datasets = config.datasets
  BY LabelledIsConfig
<1> HIDE DEF c0
<1>2. /\ IsConfig(r1.value)
      /\ r1.value.servers \in Maps
      /\ r1.value.pollingPeriod = config.pollingPeriod
      /\ r1.value.readMode = config.readMode
      /\ r1.value.exchangedData = config.exchangedData
      /\ r1.value.datasets = config.datasets
      /\ r1.ok => TransportOk
  <2>1. r1 = ImportTransportLayer(c0, doc.transport)
    BY DEF AfterTransport, c0
  <2> HIDE DEF r1
  <2> QED
    BY <1>1, <2>1, TransportImported
<1>3. /\ IsConfig(r2.value)
      /\ r2.value.servers \in Maps
      /\ \/ r2.value.pollingPeriod # config.pollingPeriod
         \/ r2.value.readMode # config.readMode
         => TransportOk
      /\ r2.value.exchangedData = config.exchangedData
      /\ r2.value.datasets = config.datasets
      /\ r2.ok => TransportOk /\ ApplicationOk
  <2>1. r2 = IF r1.ok THEN ImportApplicationLayer(r1.value, doc.application)
                      ELSE r1
    BY DEF AfterApplication
  <2> HIDE DEF r1, r2, TransportOk, Maps
  <2>2. CASE r1.ok
    <3>1. r2 = ImportApplicationLayer(r1.value, doc.application)
      BY <2>1, <2>2
    <3> QED
      BY <1>2, <2>2, <3>1, ApplicationImported
  <2>3. CASE ~r1.ok
    BY <1>2, <2>1, <2>3
  <2> QED
    BY <2>2, <2>3
<1>4. /\ IsConfig(r3.value)
      /\ r3.value.servers \in Maps
      /\ \/ r3.value.pollingPeriod # config.pollingPeriod
         \/ r3.value.readMode # config.readMode
         => TransportOk
      /\ r3.value.exchangedData # config.exchangedData
         => TransportOk /\ ApplicationOk
      /\ r3.value.datasets = config.datasets
      /\ r3.ok => TransportOk /\ ApplicationOk /\ DataOk
  <2>1. r3 = IF r2.ok THEN ImportExchangedData(r2.value, doc.exchangedData)
                      ELSE r2
    BY DEF AfterData
  <2> HIDE DEF r2, r3, TransportOk, ApplicationOk, Maps
  <2>2. CASE r2.ok
    <3>1. r3 = ImportExchangedData(r2.value, doc.exchangedData)
      BY <2>1, <2>2
    <3>2. /\ IsConfig(r3.value)
          /\ r3.value.servers = r2.value.servers
          /\ r3.value.pollingPeriod = r2.value.pollingPeriod
          /\ r3.value.readMode = r2.value.readMode
          /\ r3.value.datasets = r2.value.datasets
          /\ r3.ok => DataOk
      BY <1>3, <3>1, DataImported
    <3> HIDE DEF DataOk
    <3> QED
      BY <1>3, <2>2, <3>2
  <2>3. CASE ~r2.ok
    BY <1>3, <2>1, <2>3
  <2> QED
    BY <2>2, <2>3
<1>5. /\ IsConfig(r4.value)
      /\ r4.value.servers \in Maps
      /\ \/ r4.value.pollingPeriod # config.pollingPeriod
         \/ r4.value.readMode # config.readMode
         => TransportOk
      /\ r4.value.exchangedData # config.exchangedData
         => TransportOk /\ ApplicationOk
      /\ r4.value.datasets # config.datasets
         => TransportOk /\ ApplicationOk /\ DataOk
  <2>1. r4 = IF r3.ok
               THEN ImportExchangedDatasets(r3.value, doc.exchangedDatasets)
               ELSE r3
    BY ImportSteps
  <2> HIDE DEF r3, r4, TransportOk, ApplicationOk, DataOk, Maps
  <2>2. CASE r3.ok
    <3>1. r4 = ImportExchangedDatasets(r3.value, doc.exchangedDatasets)
      BY <2>1, <2>2
    <3>2. /\ IsConfig(r4.value)
          /\ r4.value.servers = r3.value.servers
          /\ r4.value.pollingPeriod = r3.value.pollingPeriod
          /\ r4.value.readMode = r3.value.readMode
          /\ r4.value.exchangedData = r3.value.exchangedData
      BY <1>4, <3>1, DatasetsImported
    <3> QED
      BY <1>4, <2>2, <3>2
  <2>3. CASE ~r3.ok
    BY <1>4, <2>1, <2>3
  <2> QED
    BY <2>2, <2>3
<1> QED
  BY <1>5
=============================================================================
