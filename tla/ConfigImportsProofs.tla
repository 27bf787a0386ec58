------------------------- MODULE ConfigImportsProofs -------------------------
(***************************************************************************)
(* Proofs about ConfigImports: for any documents, with lists of any        *)
(* length, and any number of imports into the same object, the dictionary  *)
(* of servers holds only connections that were all valid, and an import    *)
(* that throws has stored a prefix of its document; what the first import  *)
(* has stored when it returns is what its document says.                   *)
(***************************************************************************)
EXTENDS ConfigImports, ClientConfigProofs

(***************************************************************************)
(* The maps and the lists that the loops of an import leave.               *)
(***************************************************************************)

\* The last of n positions that has the key k.
IsLastFor(i, key, n, k) ==
  i \in 1..n /\ key[i] = k /\ \A j \in 1..n : key[j] = k => j <= i

LastFor(key, n, k) == CHOOSE i : IsLastFor(i, key, n, k)

LEMMA LastExists ==
  ASSUME NEW n \in Nat, NEW key, NEW i \in 1..n
  PROVE  IsLastFor(LastFor(key, n, key[i]), key, n, key[i])
<1> DEFINE T == {j \in 1..n : key[j] = key[i]}
<1>1. T \in SUBSET (1..n) /\ T # {}
  OBVIOUS
<1>2. PICK j \in T : \A l \in T : l <= j
  <2> HIDE DEF T
  <2> QED
    BY <1>1, GreatestElement
<1>3. IsLastFor(j, key, n, key[i])
  BY <1>2 DEF IsLastFor
<1> QED
  BY <1>3 DEF LastFor

LastPuts(key, val, n) ==
  [k \in {key[i] : i \in 1..n} |-> val[LastFor(key, n, k)]]

\* A map into which n values were put in turn has the last one for each key.
LEMMA PutsKeepLast ==
  ASSUME NEW n \in Nat, NEW m, NEW key, NEW val,
         m[0] = EmptyMap,
         \A i \in 1..n : m[i] = Put(m[i - 1], key[i], val[i])
  PROVE  m[n] = LastPuts(key, val, n)
<1> DEFINE T == {i \in 0..n :
                   /\ IsMap(m[i])
                   /\ DOMAIN m[i] = {key[j] : j \in 1..i}
                   /\ \A j \in 1..i : IsLastFor(j, key, i, key[j])
                                        => m[i][key[j]] = val[j]}
<1>1. 0 \in T
  BY DEF EmptyMap, IsMap
<1>2. ASSUME NEW i \in 1..n, i - 1 \in T
      PROVE  i \in T
  <2> DEFINE p == m[i - 1]
  <2>1. m[i] = [k \in DOMAIN p \cup {key[i]} |->
                  IF k = key[i] THEN val[i] ELSE p[k]]
    BY DEF Put
  <2>2. /\ DOMAIN p = {key[j] : j \in 1..(i - 1)}
        /\ \A j \in 1..(i - 1) : IsLastFor(j, key, i - 1, key[j])
                                   => p[key[j]] = val[j]
    BY <1>2
  <2>3. IsMap(m[i]) /\ DOMAIN m[i] = {key[j] : j \in 1..i}
    <3>1. \A j \in 1..i : j = i \/ j \in 1..(i - 1)
      OBVIOUS
    <3>2. i \in 1..i /\ 1..(i - 1) \subseteq 1..i
      OBVIOUS
    <3>3. {key[j] : j \in 1..i} = {key[j] : j \in 1..(i - 1)} \cup {key[i]}
      BY <3>1, <3>2
    <3> HIDE DEF p
    <3> QED
      BY <2>1, <2>2, <3>3 DEF IsMap
  <2>4. ASSUME NEW j \in 1..i, IsLastFor(j, key, i, key[j])
        PROVE  m[i][key[j]] = val[j]
    <3>1. CASE key[j] = key[i]
      <4>1. j = i
        BY <2>4, <3>1 DEF IsLastFor
      <4> QED
        BY <2>1, <4>1
    <3>2. CASE key[j] # key[i]
      <4>1. j \in 1..(i - 1)
        BY <3>2
      <4>2. IsLastFor(j, key, i - 1, key[j])
        BY <2>4, <4>1 DEF IsLastFor
      <4>3. p[key[j]] = val[j]
        BY <2>2, <4>1, <4>2
      <4>4. key[j] \in DOMAIN p
        BY <2>2, <4>1
      <4> HIDE DEF p
      <4> QED
        BY <2>1, <3>2, <4>3, <4>4
    <3> QED
      BY <3>1, <3>2
  <2> QED
    BY <2>3, <2>4
<1>3. n \in T
  <2>1. 0..n \subseteq T
    <3> HIDE DEF T
    <3> QED
      BY <1>1, <1>2, LoopInduction
  <2> QED
    BY <2>1
<1>4. ASSUME NEW k \in DOMAIN m[n]
      PROVE  m[n][k] = val[LastFor(key, n, k)]
  <2>1. PICK j \in 1..n : key[j] = k
    BY <1>3
  <2>2. PICK i : i = LastFor(key, n, k)
    OBVIOUS
  <2>3. IsLastFor(i, key, n, k)
    BY <2>1, <2>2, LastExists
  <2>4. i \in 1..n /\ key[i] = k
    BY <2>3 DEF IsLastFor
  <2> QED
    BY <1>3, <2>2, <2>3, <2>4
<1>5. IsMap(m[n]) /\ DOMAIN m[n] = {key[i] : i \in 1..n}
  BY <1>3
<1> QED
  BY <1>4, <1>5 DEF IsMap, LastPuts

LEMMA EmptyIsMap == IsMap(EmptyMap)
BY DEF IsMap, EmptyMap

\* A loop over valid connections puts all of them into the map.
LEMMA ConnectionsPut ==
  ASSUME NEW list, NEW n \in Nat, NEW f, ConnectionRun(f, EmptyMap, list, n),
         \A i \in 1..n : ValidConnection(list[i])
  PROVE  /\ f[0].value = EmptyMap
         /\ \A i \in 1..n :
              f[i].value = Put(f[i - 1].value, list[i].key, list[i].osi)
<1> DEFINE T == {i \in 0..n : f[i].ok}
<1>1. f[0] = Done(EmptyMap)
  BY DEF ConnectionRun
<1>2. ASSUME NEW i \in 1..n, f[i - 1].ok
      PROVE  /\ f[i].value = Put(f[i - 1].value, list[i].key, list[i].osi)
             /\ f[i].ok
  <2>1. f[i] = ImportConnection(f[i - 1].value, list[i])
    BY <1>2 DEF ConnectionRun
  <2> QED
    BY <2>1 DEF ImportConnection, Done
<1>3. 0 \in T
  BY <1>1 DEF Done
<1>4. ASSUME NEW i \in 1..n, i - 1 \in T PROVE i \in T
  BY <1>2, <1>4
<1>5. 0..n \subseteq T
  <2> HIDE DEF T
  <2> QED
    BY <1>3, <1>4, LoopInduction
<1>6. ASSUME NEW i \in 1..n
      PROVE  f[i].value = Put(f[i - 1].value, list[i].key, list[i].osi)
  <2>1. i - 1 \in 0..n
    OBVIOUS
  <2>2. f[i - 1].ok
    BY <1>5, <2>1
  <2> QED
    BY <1>2, <2>2
<1> QED
  BY <1>1, <1>6 DEF Done

\* The servers after a loop without exception: the last connection with a key
\* is the one that is stored.
LEMMA ServersExact ==
  ASSUME NEW list, IsArray(list),
         ForEach(EmptyMap, list, ImportConnection).ok
  PROVE  ForEach(EmptyMap, list, ImportConnection).value =
           [k \in {list[i].key : i \in DOMAIN list} |->
              LastOf(list, LAMBDA conn : conn.key = k).osi]
<1> DEFINE stored == ForEach(EmptyMap, list, ImportConnection)
<1>0. PICK n \in Nat : \E f :
       /\ DOMAIN list = 1..n
       /\ ConnectionRun(f, EmptyMap, list, n)
       /\ stored = f[n]
  BY EmptyIsMap, ConnectionLoop
<1>1. PICK f : /\ DOMAIN list = 1..n
               /\ ConnectionRun(f, EmptyMap, list, n)
               /\ stored = f[n]
  BY <1>0
<1>2. \A i \in 1..n : ValidConnection(list[i])
  BY <1>1, EmptyIsMap, ConnectionsImported
<1> HIDE DEF stored
<1> DEFINE key == [i \in 1..n |-> list[i].key]
           osi == [i \in 1..n |-> list[i].osi]
           m == [i \in 0..n |-> f[i].value]
<1>3. /\ m[0] = EmptyMap
      /\ \A i \in 1..n : m[i] = Put(m[i - 1], key[i], osi[i])
  BY <1>1, <1>2, ConnectionsPut
<1>4. m[n] = LastPuts(key, osi, n)
  <2> HIDE DEF m, key, osi
  <2> QED
    BY <1>3, PutsKeepLast
<1>5. m[n] = stored.value
  BY <1>1
<1>6. {key[i] : i \in 1..n} = {list[i].key : i \in DOMAIN list}
  BY <1>1
<1>7. ASSUME NEW k \in {key[i] : i \in 1..n}
      PROVE  osi[LastFor(key, n, k)]
               = LastOf(list, LAMBDA conn : conn.key = k).osi
  <2> DEFINE last == LastFor(key, n, k)
             Is(i) == /\ i \in DOMAIN list /\ list[i].key = k
                      /\ \A j \in DOMAIN list : list[j].key = k => j <= i
  <2>1. IsLastFor(last, key, n, k)
    BY LastExists
  <2>2. \A i : IsLastFor(i, key, n, k) <=> Is(i)
    BY <1>1 DEF IsLastFor
  <2>3. last = CHOOSE i : Is(i)
    BY <2>2 DEF LastFor
  <2>4. LastOf(list, LAMBDA conn : conn.key = k) = list[CHOOSE i : Is(i)]
    BY DEF LastOf
  <2>5. osi[last] = list[last].osi
    BY <2>1 DEF IsLastFor
  <2>6. osi[last] = LastOf(list, LAMBDA conn : conn.key = k).osi
    <3> HIDE DEF last, Is, osi
    <3> QED
      BY <2>3, <2>4, <2>5
  <2> QED
    BY <2>6
<1>8. m[n] = [k \in {list[i].key : i \in DOMAIN list} |->
                LastOf(list, LAMBDA conn : conn.key = k).osi]
  <2> HIDE DEF m, key, osi
  <2> QED
    BY <1>4, <1>6, <1>7 DEF LastPuts
<1> HIDE DEF m
<1> QED
  BY <1>5, <1>8 DEF stored

\* A loop over valid datasets puts all of them into the map.
LEMMA DatasetsPut ==
  ASSUME NEW list, NEW n \in Nat, NEW f, DatasetRun(f, EmptyMap, list, n),
         \A i \in 1..n : ValidDataset(list[i])
  PROVE  /\ f[0].value = EmptyMap
         /\ \A i \in 1..n :
              f[i].value = Put(f[i - 1].value, list[i].ref,
                               StoredObjects(list[i]))
<1> DEFINE T == {i \in 0..n : f[i].ok}
<1>1. f[0] = Done(EmptyMap)
  BY DEF DatasetRun
<1>2. ASSUME NEW i \in 1..n, f[i - 1].ok
      PROVE  /\ f[i].value = Put(f[i - 1].value, list[i].ref,
                                 StoredObjects(list[i]))
             /\ f[i].ok
  <2>1. f[i] = ImportDataset(f[i - 1].value, list[i])
    BY <1>2 DEF DatasetRun
  <2>2. ImportDataset(f[i - 1].value, list[i])
          = Done(Put(f[i - 1].value, list[i].ref, StoredObjects(list[i])))
    BY DEF ImportDataset, ValidDataset, StoredObjects
  <2> QED
    BY <2>1, <2>2 DEF Done
<1>3. 0 \in T
  BY <1>1 DEF Done
<1>4. ASSUME NEW i \in 1..n, i - 1 \in T PROVE i \in T
  BY <1>2, <1>4
<1>5. 0..n \subseteq T
  <2> HIDE DEF T
  <2> QED
    BY <1>3, <1>4, LoopInduction
<1>6. ASSUME NEW i \in 1..n
      PROVE  f[i].value = Put(f[i - 1].value, list[i].ref,
                              StoredObjects(list[i]))
  <2>1. i - 1 \in 0..n
    OBVIOUS
  <2>2. f[i - 1].ok
    BY <1>5, <2>1
  <2> QED
    BY <1>2, <2>2
<1> QED
  BY <1>1, <1>6 DEF Done

\* The datasets after a loop without exception.
LEMMA DatasetsExact ==
  ASSUME NEW list, IsArray(list),
         ForEach(EmptyMap, list, ImportDataset).ok
  PROVE  ForEach(EmptyMap, list, ImportDataset).value =
           [r \in {list[i].ref : i \in DOMAIN list} |->
              StoredObjects(LastOf(list, LAMBDA ds : ds.ref = r))]
<1> DEFINE stored == ForEach(EmptyMap, list, ImportDataset)
<1>0. PICK n \in Nat : \E f :
       /\ DOMAIN list = 1..n
       /\ DatasetRun(f, EmptyMap, list, n)
       /\ stored = f[n]
  BY EmptyIsMap, DatasetLoop
<1>1. PICK f : /\ DOMAIN list = 1..n
               /\ DatasetRun(f, EmptyMap, list, n)
               /\ stored = f[n]
  BY <1>0
<1>2. \A i \in 1..n : ValidDataset(list[i])
  <2>1. n \in 0..n /\ f[n].ok
    BY <1>1
  <2> QED
    BY <1>1, <2>1, DatasetRunStays
<1> HIDE DEF stored
<1> DEFINE key == [i \in 1..n |-> list[i].ref]
           val == [i \in 1..n |-> StoredObjects(list[i])]
           m == [i \in 0..n |-> f[i].value]
<1>3. /\ m[0] = EmptyMap
      /\ \A i \in 1..n : m[i] = Put(m[i - 1], key[i], val[i])
  BY <1>1, <1>2, DatasetsPut
<1>4. m[n] = LastPuts(key, val, n)
  <2> HIDE DEF m, key, val
  <2> QED
    BY <1>3, PutsKeepLast
<1>5. m[n] = stored.value
  BY <1>1
<1>6. {key[i] : i \in 1..n} = {list[i].ref : i \in DOMAIN list}
  BY <1>1
<1>7. ASSUME NEW k \in {key[i] : i \in 1..n}
      PROVE  val[LastFor(key, n, k)]
               = StoredObjects(LastOf(list, LAMBDA ds : ds.ref = k))
  <2> DEFINE last == LastFor(key, n, k)
             Is(i) == /\ i \in DOMAIN list /\ list[i].ref = k
                      /\ \A j \in DOMAIN list : list[j].ref = k => j <= i
  <2>1. IsLastFor(last, key, n, k)
    BY LastExists
  <2>2. \A i : IsLastFor(i, key, n, k) <=> Is(i)
    BY <1>1 DEF IsLastFor
  <2>3. last = CHOOSE i : Is(i)
    BY <2>2 DEF LastFor
  <2>4. LastOf(list, LAMBDA ds : ds.ref = k) = list[CHOOSE i : Is(i)]
    BY DEF LastOf
  <2>5. val[last] = StoredObjects(list[last])
    BY <2>1 DEF IsLastFor
  <2>6. val[last] = StoredObjects(LastOf(list, LAMBDA ds : ds.ref = k))
    <3> HIDE DEF last, Is, val
    <3> QED
      BY <2>3, <2>4, <2>5
  <2> QED
    BY <2>6
<1>8. m[n] = [k \in {list[i].ref : i \in DOMAIN list} |->
                StoredObjects(LastOf(list, LAMBDA ds : ds.ref = k))]
  <2> HIDE DEF m, key, val
  <2> QED
    BY <1>4, <1>6, <1>7 DEF LastPuts
<1> HIDE DEF m
<1> QED
  BY <1>5, <1>8 DEF stored

LEMMA AppendGrows ==
  ASSUME NEW i \in Nat \ {0}, NEW h
  PROVE  Append([j \in 1..(i - 1) |-> h[j]], h[i]) = [j \in 1..i |-> h[j]]
<1> DEFINE s == [j \in 1..(i - 1) |-> h[j]]
           D == {h[j] : j \in 1..i}
<1>1. s \in Seq(D) /\ Len(s) = i - 1
  BY \A j \in 1..(i - 1) : j \in 1..i
<1>2. h[i] \in D
  OBVIOUS
<1>3. /\ Append(s, h[i]) \in Seq(D)
      /\ Len(Append(s, h[i])) = i
      /\ \A j \in 1..i : Append(s, h[i])[j] = IF j <= i - 1 THEN s[j] ELSE h[i]
  <2> HIDE DEF s, D
  <2> QED
    BY <1>1, <1>2
<1> QED
  BY <1>3

Extended(data, point) == Append(data, point)

LEMMA DatapointExtends ==
  ASSUME NEW data, NEW dp, ValidDatapoint(dp)
  PROVE  ImportDatapoint(data, dp) = Done(Extended(data, DatapointOf(dp)))
BY DEF ImportDatapoint, Extended

\* A loop over valid datapoints appends all of them.
AppendsAll(f, empty, list, n) ==
  /\ f[0].value = empty
  /\ \A i \in 1..n :
       f[i].value = Extended(f[i - 1].value, DatapointOf(list[i]))

LEMMA DatapointsAppended ==
  ASSUME NEW empty, NEW list, NEW n \in Nat, NEW f,
         DatapointRun(f, empty, list, n),
         \A i \in 1..n : ValidDatapoint(list[i])
  PROVE  AppendsAll(f, empty, list, n)
<1> DEFINE T == {i \in 0..n : f[i].ok}
<1>1. f[0] = Done(empty)
  BY DEF DatapointRun
<1>2. ASSUME NEW i \in 1..n, f[i - 1].ok
      PROVE  /\ f[i].value = Extended(f[i - 1].value, DatapointOf(list[i]))
             /\ f[i].ok
  <2>1. f[i] = ImportDatapoint(f[i - 1].value, list[i])
    BY <1>2 DEF DatapointRun
  <2> QED
    BY <2>1, DatapointExtends DEF Done
<1>3. 0 \in T
  BY <1>1 DEF Done
<1>4. ASSUME NEW i \in 1..n, i - 1 \in T PROVE i \in T
  BY <1>2, <1>4
<1>5. 0..n \subseteq T
  <2> HIDE DEF T
  <2> QED
    BY <1>3, <1>4, LoopInduction
<1>6. ASSUME NEW i \in 1..n
      PROVE  f[i].value = Extended(f[i - 1].value, DatapointOf(list[i]))
  <2>1. i - 1 \in 0..n
    OBVIOUS
  <2>2. f[i - 1].ok
    BY <1>5, <2>1
  <2> QED
    BY <1>2, <2>2
<1> QED
  BY <1>1, <1>6 DEF Done, AppendsAll

LEMMA ExtendedGrows ==
  ASSUME NEW i \in Nat \ {0}, NEW h
  PROVE  Extended([j \in 1..(i - 1) |-> h[j]], h[i]) = [j \in 1..i |-> h[j]]
BY AppendGrows DEF Extended

\* The first i elements of a list.
FirstOf(i, h) == [j \in 1..i |-> h[j]]

\* What a list has become to which n elements were appended.
LEMMA ExtendedFromEmpty ==
  ASSUME NEW n \in Nat, NEW h, NEW m, m[0] = FirstOf(0, h),
         \A i \in 1..n : m[i] = Extended(m[i - 1], h[i])
  PROVE  m[n] = FirstOf(n, h)
<1> DEFINE T == {i \in 0..n : m[i] = FirstOf(i, h)}
<1>1. 0 \in T
  OBVIOUS
<1>2. ASSUME NEW i \in 1..n, i - 1 \in T PROVE i \in T
  <2>1. i \in Nat \ {0} /\ i \in 0..n /\ m[i - 1] = FirstOf(i - 1, h)
    BY <1>2
  <2>2. Extended(FirstOf(i - 1, h), h[i]) = FirstOf(i, h)
    BY <2>1, ExtendedGrows DEF FirstOf
  <2> QED
    BY <2>1, <2>2
<1>3. 0..n \subseteq T
  <2> HIDE DEF T
  <2> QED
    BY <1>1, <1>2, LoopInduction
<1> QED
  BY <1>3

LEMMA DatapointsListed ==
  ASSUME NEW empty, IsList(empty), empty = [j \in {} |-> j],
         NEW list, IsArray(list), ForEach(empty, list, ImportDatapoint).ok
  PROVE  ForEach(empty, list, ImportDatapoint).value =
           [i \in DOMAIN list |-> DatapointOf(list[i])]
<1> DEFINE stored == ForEach(empty, list, ImportDatapoint)
           h == [i \in DOMAIN list |-> DatapointOf(list[i])]
<1>0. PICK n \in Nat : \E f :
       /\ DOMAIN list = 1..n
       /\ DatapointRun(f, empty, list, n)
       /\ stored = f[n]
  BY DatapointLoop
<1>1. PICK f : /\ DOMAIN list = 1..n
               /\ DatapointRun(f, empty, list, n)
               /\ stored = f[n]
  BY <1>0
<1>2. \A i \in 1..n : ValidDatapoint(list[i])
  BY <1>1, DatapointsImported
<1> DEFINE m == [i \in 0..n |-> f[i].value]
<1>3. AppendsAll(f, empty, list, n)
  <2>1. DatapointRun(f, empty, list, n)
    BY <1>1
  <2> HIDE DEF m, h, stored
  <2> QED
    BY <1>2, <2>1, DatapointsAppended
<1>4. ASSUME NEW i \in 1..n
      PROVE  /\ m[i] = f[i].value /\ m[i - 1] = f[i - 1].value
             /\ h[i] = DatapointOf(list[i])
  BY <1>1
<1>5. m[0] = f[0].value
  OBVIOUS
<1>6. m[0] = FirstOf(0, h)
  BY <1>3, <1>5 DEF AppendsAll, FirstOf
<1>7. m[n] = FirstOf(n, h)
  <2> HIDE DEF m, h
  <2>1. \A i \in 1..n : m[i] = Extended(m[i - 1], h[i])
    BY <1>3, <1>4 DEF AppendsAll
  <2> QED
    BY <1>6, <2>1, ExtendedFromEmpty
<1>8. m[n] = stored.value
  BY <1>1
<1>9. h = FirstOf(n, h)
  BY <1>1 DEF FirstOf
<1> HIDE DEF m, h, stored
<1>10. stored.value = h
  BY <1>7, <1>8, <1>9
<1> QED
  BY <1>10 DEF h, stored

\* The datapoints after a loop without exception, in the order of the list.
LEMMA DatapointsExact ==
  ASSUME NEW list, IsArray(list),
         ForEach(<<>>, list, ImportDatapoint).ok
  PROVE  ForEach(<<>>, list, ImportDatapoint).value =
           [i \in DOMAIN list |-> DatapointOf(list[i])]
<1>1. IsList(<<>>) /\ <<>> = [j \in {} |-> j]
  BY DEF IsList
<1> QED
  BY <1>1, DatapointsListed

\* The runs of the loop over the n protocols of a datapoint.
ProtocolRun(g, dp, n) ==
  g = [i \in 0..n |-> IF i = 0 THEN DefaultDatapoint(dp.label)
                      ELSE ApplyProtocol(g[i - 1], dp.protocols[i])]

DatapointConfigs(dp) ==
  [label    : {dp.label},
   dataPath : {"NOT_DEFINED"}
                \cup {dp.protocols[i].address : i \in DOMAIN dp.protocols},
   type     : {"UNKNOWN", "SPS", "MV"}]

LEMMA ProtocolRound ==
  ASSUME NEW dp, NEW i \in DOMAIN dp.protocols, NEW c \in DatapointConfigs(dp)
  PROVE  LET p == dp.protocols[i]
             r == ApplyProtocol(c, p)
         IN  /\ r \in DatapointConfigs(dp)
             /\ r.dataPath = IF Concerns(p) THEN p.address ELSE c.dataPath
             /\ r.type = IF Types(p) THEN p.typeid ELSE c.type
<1> DEFINE p == dp.protocols[i]
           a == {dp.protocols[j].address : j \in DOMAIN dp.protocols}
           d == [c EXCEPT !.dataPath = p.address]
           S == [label : {dp.label}, dataPath : {"NOT_DEFINED"} \cup a,
                 type : {"UNKNOWN", "SPS", "MV"}]
<1>1. p.address \in a /\ c \in S
  BY DEF DatapointConfigs
<1> HIDE DEF a, p
<1>2. d \in S /\ d.dataPath = p.address /\ d.type = c.type
  BY <1>1
<1>3. ApplyProtocol(c, p) = IF p.name # "iec61850" THEN c
                            ELSE IF p.typeid \in {"SPS", "MV"}
                              THEN [d EXCEPT !.type = p.typeid] ELSE d
  BY DEF ApplyProtocol, SetDatapointType
<1> HIDE DEF d
<1>4. /\ ApplyProtocol(c, p) \in S
      /\ ApplyProtocol(c, p).dataPath
           = IF Concerns(p) THEN p.address ELSE c.dataPath
      /\ ApplyProtocol(c, p).type = IF Types(p) THEN p.typeid ELSE c.type
  BY <1>1, <1>2, <1>3 DEF Concerns, Types
<1> QED
  BY <1>4 DEF DatapointConfigs, a, p

LEMMA ProtocolRunExists ==
  ASSUME NEW dp, NEW n \in Nat, DOMAIN dp.protocols = 1..n
  PROVE  \E g : ProtocolRun(g, dp, n)
<1> DEFINE S == DatapointConfigs(dp)
           base == DefaultDatapoint(dp.label)
           step == [x \in (1..n) \X S |-> ApplyProtocol(x[2], dp.protocols[x[1]])]
<1>1. base \in S
  BY DEF DefaultDatapoint, DatapointConfigs
<1>2. step \in [(1..n) \X S -> S]
  <2>1. ASSUME NEW i \in 1..n, NEW c \in S
        PROVE  ApplyProtocol(c, dp.protocols[i]) \in S
    BY ProtocolRound
  <2> HIDE DEF S
  <2> QED
    BY <2>1
<1> HIDE DEF S, base
<1>3. PICK g : IsLoop(g, n, S, base, step)
  <2> HIDE DEF step
  <2> QED
    BY <1>1, <1>2, LoopDefined
<1>4. /\ g \in [0..n -> S] /\ g[0] = base
      /\ \A i \in 1..n : g[i] = step[<<i, g[i - 1]>>]
  <2> HIDE DEF step
  <2> QED
    BY <1>3 DEF IsLoop
<1>5. ASSUME NEW i \in 1..n
      PROVE  g[i] = ApplyProtocol(g[i - 1], dp.protocols[i])
  <2>1. g[i - 1] \in S
    BY <1>4
  <2> QED
    BY <1>4, <2>1
<1> QED
  BY <1>4, <1>5 DEF ProtocolRun, base

\* What the last protocol that concerns the plugin, and the last one with a
\* type, have left after some rounds.
LEMMA ProtocolRunStays ==
  ASSUME NEW dp, NEW n \in Nat, DOMAIN dp.protocols = 1..n,
         NEW g, ProtocolRun(g, dp, n)
  PROVE  LET list == dp.protocols
         IN  /\ g[n] \in DatapointConfigs(dp)
             /\ (\A i \in 1..n : ~Concerns(list[i]))
                  => g[n].dataPath = "NOT_DEFINED"
             /\ (\A i \in 1..n : ~Types(list[i])) => g[n].type = "UNKNOWN"
             /\ \A j \in 1..n :
                  /\ Concerns(list[j])
                  /\ \A i \in 1..n : Concerns(list[i]) => i <= j
                  => g[n].dataPath = list[j].address
             /\ \A j \in 1..n :
                  /\ Types(list[j])
                  /\ \A i \in 1..n : Types(list[i]) => i <= j
                  => g[n].type = list[j].typeid
<1> DEFINE list == dp.protocols
           Path(m) == /\ (\A i \in 1..m : ~Concerns(list[i]))
                           => g[m].dataPath = "NOT_DEFINED"
                      /\ \A j \in 1..m :
                           /\ Concerns(list[j])
                           /\ \A i \in 1..m : Concerns(list[i]) => i <= j
                           => g[m].dataPath = list[j].address
           Type(m) == /\ (\A i \in 1..m : ~Types(list[i]))
                           => g[m].type = "UNKNOWN"
                      /\ \A j \in 1..m :
                           /\ Types(list[j])
                           /\ \A i \in 1..m : Types(list[i]) => i <= j
                           => g[m].type = list[j].typeid
           T == {m \in 0..n : g[m] \in DatapointConfigs(dp) /\ Path(m) /\ Type(m)}
<1>1. 0 \in T
  <2>1. g[0] = DefaultDatapoint(dp.label)
    BY DEF ProtocolRun
  <2>2. g[0].dataPath = "NOT_DEFINED" /\ g[0].type = "UNKNOWN"
    BY <2>1 DEF DefaultDatapoint
  <2>3. g[0] \in DatapointConfigs(dp)
    BY <2>1 DEF DefaultDatapoint, DatapointConfigs
  <2> QED
    BY <2>2, <2>3
<1>2. ASSUME NEW m \in 1..n, m - 1 \in T
      PROVE  m \in T
  <2>1. /\ g[m] \in DatapointConfigs(dp)
        /\ g[m].dataPath = IF Concerns(list[m]) THEN list[m].address
                                                ELSE g[m - 1].dataPath
        /\ g[m].type = IF Types(list[m]) THEN list[m].typeid ELSE g[m - 1].type
    <3>1. g[m] = ApplyProtocol(g[m - 1], list[m])
      BY DEF ProtocolRun
    <3>2. g[m - 1] \in DatapointConfigs(dp)
      BY <1>2
    <3> QED
      BY <3>1, <3>2, ProtocolRound
  <2> HIDE DEF list
  <2>2. \A i \in 1..m : i = m \/ i \in 1..(m - 1)
    OBVIOUS
  <2>3. m \in 1..m /\ 1..(m - 1) \subseteq 1..m
    OBVIOUS
  <2>4. Path(m - 1) /\ Type(m - 1)
    BY <1>2
  <2>5. Path(m)
    <3>1. CASE Concerns(list[m])
      <4>1. ASSUME NEW j \in 1..m, m <= j PROVE j = m
        BY <4>1
      <4> QED
        BY <2>1, <2>3, <3>1, <4>1
    <3>2. CASE ~Concerns(list[m])
      BY <2>1, <2>2, <2>3, <2>4, <3>2
    <3> QED
      BY <3>1, <3>2
  <2>6. Type(m)
    <3>1. CASE Types(list[m])
      <4>1. ASSUME NEW j \in 1..m, m <= j PROVE j = m
        BY <4>1
      <4> QED
        BY <2>1, <2>3, <3>1, <4>1
    <3>2. CASE ~Types(list[m])
      BY <2>1, <2>2, <2>3, <2>4, <3>2
    <3> QED
      BY <3>1, <3>2
  <2> QED
    BY <2>1, <2>5, <2>6
<1>3. 0..n \subseteq T
  <2> HIDE DEF T
  <2> QED
    BY <1>1, <1>2, LoopInduction
<1>4. n \in T
  BY <1>3
<1> QED
  BY <1>4

LEMMA ProtocolsExact ==
  ASSUME NEW dp, IsArray(dp.protocols)
  PROVE  DatapointOf(dp) = ExpectedDatapoint(dp)
<1> DEFINE list == dp.protocols
<1>1. PICK n \in Nat : n = Len(list) /\ DOMAIN list = 1..n
  BY DEF IsArray
<1> DEFINE Is(g) == ProtocolRun(g, dp, n)
<1>2. \E g : Is(g)
  BY <1>1, ProtocolRunExists
<1>3. DatapointOf(dp) = (CHOOSE g : Is(g))[n]
  BY <1>1 DEF DatapointOf, ProtocolRun
<1>4. PICK g : Is(g) /\ DatapointOf(dp) = g[n]
  <2> HIDE DEF Is
  <2> QED
    BY <1>2, <1>3
<1>5. DOMAIN list = 1..n /\ ProtocolRun(g, dp, n)
  BY <1>1, <1>4
<1>6. PICK point : point = DatapointOf(dp)
  OBVIOUS
<1>7. /\ point \in DatapointConfigs(dp)
      /\ (\A i \in 1..n : ~Concerns(list[i])) => point.dataPath = "NOT_DEFINED"
      /\ (\A i \in 1..n : ~Types(list[i])) => point.type = "UNKNOWN"
      /\ \A j \in 1..n : /\ Concerns(list[j])
                         /\ \A i \in 1..n : Concerns(list[i]) => i <= j
                         => point.dataPath = list[j].address
      /\ \A j \in 1..n : /\ Types(list[j])
                         /\ \A i \in 1..n : Types(list[i]) => i <= j
                         => point.type = list[j].typeid
  BY <1>4, <1>5, <1>6, ProtocolRunStays
<1>8. point.dataPath = IF \E i \in DOMAIN list : Concerns(list[i])
                         THEN LastOf(list, Concerns).address
                         ELSE "NOT_DEFINED"
  <2>1. CASE \A i \in 1..n : ~Concerns(list[i])
    BY <1>5, <1>7, <2>1
  <2>2. CASE \E i \in 1..n : Concerns(list[i])
    <3> DEFINE T == {i \in 1..n : Concerns(list[i])}
               Is1(i) == i \in 1..n /\ Concerns(list[i])
                         /\ \A j \in 1..n : Concerns(list[j]) => j <= i
    <3>1. PICK j \in T : \A i \in T : i <= j
      <4>1. T \in SUBSET (1..n) /\ T # {}
        BY <2>2
      <4> HIDE DEF T
      <4> QED
        BY <4>1, GreatestElement
    <3>2. LastOf(list, Concerns) = list[CHOOSE i : Is1(i)]
      BY <1>5 DEF LastOf
    <3>3. Is1(j)
      BY <3>1
    <3>4. PICK i : i = (CHOOSE x : Is1(x)) /\ Is1(i)
      <4> HIDE DEF Is1
      <4> QED
        BY <3>3
    <3>5. point.dataPath = list[i].address
      BY <1>7, <3>4
    <3> HIDE DEF Is1, T
    <3> QED
      BY <1>5, <2>2, <3>2, <3>4, <3>5
  <2> QED
    BY <2>1, <2>2
<1>9. point.type = IF \E i \in DOMAIN list : Types(list[i])
                     THEN LastOf(list, Types).typeid ELSE "UNKNOWN"
  <2>1. CASE \A i \in 1..n : ~Types(list[i])
    BY <1>5, <1>7, <2>1
  <2>2. CASE \E i \in 1..n : Types(list[i])
    <3> DEFINE T == {i \in 1..n : Types(list[i])}
               Is1(i) == i \in 1..n /\ Types(list[i])
                         /\ \A j \in 1..n : Types(list[j]) => j <= i
    <3>1. PICK j \in T : \A i \in T : i <= j
      <4>1. T \in SUBSET (1..n) /\ T # {}
        BY <2>2
      <4> HIDE DEF T
      <4> QED
        BY <4>1, GreatestElement
    <3>2. LastOf(list, Types) = list[CHOOSE i : Is1(i)]
      BY <1>5 DEF LastOf
    <3>3. Is1(j)
      BY <3>1
    <3>4. PICK i : i = (CHOOSE x : Is1(x)) /\ Is1(i)
      <4> HIDE DEF Is1
      <4> QED
        BY <3>3
    <3>5. point.type = list[i].typeid
      BY <1>7, <3>4
    <3> HIDE DEF Is1, T
    <3> QED
      BY <1>5, <2>2, <3>2, <3>4, <3>5
  <2> QED
    BY <2>1, <2>2
<1>10. /\ point.label = dp.label
       /\ point = [label |-> point.label, dataPath |-> point.dataPath,
                   type |-> point.type]
  BY <1>7 DEF DatapointConfigs
<1> QED
  BY <1>6, <1>8, <1>9, <1>10 DEF ExpectedDatapoint

-----------------------------------------------------------------------------
(***************************************************************************)
(* An import into the configuration of a new object.                       *)
(***************************************************************************)
Fields == {"logMinLevel", "servers", "pollingPeriod", "readMode",
           "exchangedData", "datasets"}

LEMMA TransportExact ==
  ASSUME NEW d \in Docs, AfterTransport(DefaultConfig, d).ok
  PROVE  LET c == AfterTransport(DefaultConfig, d).value
         IN  /\ DOMAIN c = Fields
             /\ c.servers = ExpectedServers(d)
             /\ c.pollingPeriod = DefaultConfig.pollingPeriod
             /\ c.readMode = "DO_READING"
             /\ c.exchangedData = <<>>
             /\ c.datasets = EmptyMap
<1> DEFINE c0 == Labelled(DefaultConfig, d)
           list == d.transport.connections
           stored == ForEach(EmptyMap, list, ImportConnection)
           r == AfterTransport(DefaultConfig, d)
<1>1. /\ DOMAIN c0 = Fields
      /\ c0.servers = EmptyMap
      /\ c0.pollingPeriod = DefaultConfig.pollingPeriod
      /\ c0.readMode = "DO_READING"
      /\ c0.exchangedData = <<>>
      /\ c0.datasets = EmptyMap
  BY DEF Labelled, DefaultConfig, Fields
<1>2. r = IF d.transport.state # "ok" THEN Throws(c0)
          ELSE [value |-> [c0 EXCEPT !.servers = stored.value],
                ok    |-> stored.ok]
  BY <1>1 DEF AfterTransport, ImportTransportLayer
<1> HIDE DEF c0, stored, r
<1>3. stored.ok /\ r.value = [c0 EXCEPT !.servers = stored.value]
  BY <1>2 DEF Throws, r
<1>4. stored.value = ExpectedServers(d)
  <2>1. IsArray(list)
    BY DocsAssumption
  <2> QED
    BY <1>3, <2>1, ServersExact DEF stored, ExpectedServers
<1>5. /\ DOMAIN r.value = Fields
      /\ r.value.servers = ExpectedServers(d)
      /\ r.value.pollingPeriod = DefaultConfig.pollingPeriod
      /\ r.value.readMode = "DO_READING"
      /\ r.value.exchangedData = <<>>
      /\ r.value.datasets = EmptyMap
  BY <1>1, <1>3, <1>4 DEF Fields
<1> QED
  BY <1>5 DEF r

\* The period and the mode; what the sections before have stored stays.
LEMMA ApplicationExact ==
  ASSUME NEW d \in Docs, NEW c, DOMAIN c = Fields, c.readMode = "DO_READING",
         ImportApplicationLayer(c, d.application).ok
  PROVE  LET v == ImportApplicationLayer(c, d.application).value
         IN  /\ DOMAIN v = Fields
             /\ v.servers = c.servers
             /\ d.application.period \in Nat
                  => v.pollingPeriod = d.application.period
             /\ d.application.period = Absent
                  => v.pollingPeriod = c.pollingPeriod
             /\ v.readMode = ExpectedMode(d)
             /\ v.exchangedData = c.exchangedData
             /\ v.datasets = c.datasets
<1> DEFINE period == d.application.period
           mode == d.application.mode
           p == ImportReadingPeriod(c, period)
           q == ImportReadMode(p.value, mode)
           result == ImportApplicationLayer(c, d.application)
           read == IF mode = "dataset" THEN "DATASET_READING" ELSE "DO_READING"
<1>1. result = IF d.application.state # "ok" THEN Throws(c)
               ELSE IF p.ok THEN q ELSE p
  BY DEF ImportApplicationLayer, Then
<1> HIDE DEF p, q, result
<1>2. p.ok /\ result = q /\ q.ok
  BY <1>1 DEF Throws, result
<1>3. /\ DOMAIN p.value = Fields
      /\ p.value.servers = c.servers
      /\ period \in Nat => p.value.pollingPeriod = period
      /\ period = Absent => p.value.pollingPeriod = c.pollingPeriod
      /\ p.value.readMode = "DO_READING"
      /\ p.value.exchangedData = c.exchangedData
      /\ p.value.datasets = c.datasets
  <2>1. CASE period = Absent
    <3>1. p.value = c
      BY <2>1, ConfigAssumption DEF p, ImportReadingPeriod, Done
    <3> QED
      BY <2>1, <3>1, ConfigAssumption
  <2>2. CASE period = Malformed
    BY <1>2, <2>2, ConfigAssumption DEF p, ImportReadingPeriod, Throws
  <2>3. CASE period \notin {Absent, Malformed}
    <3>1. p.value = [c EXCEPT !.pollingPeriod = period % UIntRange]
      BY <2>3 DEF p, ImportReadingPeriod, Done
    <3>2. period \in Nat => period % UIntRange = period
      <4>1. period \in Nat => period < UIntRange
        BY DocsAssumption
      <4> HIDE DEF period
      <4> QED
        BY <4>1, ConfigAssumption
    <3> QED
      BY <2>3, <3>1, <3>2 DEF Fields
  <2> QED
    BY <2>1, <2>2, <2>3
<1>4. /\ DOMAIN q.value = Fields
      /\ q.value.servers = p.value.servers
      /\ q.value.pollingPeriod = p.value.pollingPeriod
      /\ q.value.readMode = read
      /\ q.value.exchangedData = p.value.exchangedData
      /\ q.value.datasets = p.value.datasets
  <2>1. CASE mode = Absent
    <3>1. q.value = p.value
      BY <2>1, ConfigAssumption DEF q, ImportReadMode, Done
    <3> QED
      BY <1>3, <2>1, <3>1, ConfigAssumption
  <2>2. CASE mode = Malformed
    BY <1>2, <2>2, ConfigAssumption DEF q, ImportReadMode, Throws
  <2>3. CASE mode \notin {Absent, Malformed}
    <3>1. q.value = [p.value EXCEPT !.readMode = read]
      BY <2>3 DEF q, ImportReadMode, Done
    <3> HIDE DEF read
    <3> QED
      BY <1>3, <3>1 DEF Fields
  <2> QED
    BY <2>1, <2>2, <2>3
<1>5. read = ExpectedMode(d)
  BY DEF ExpectedMode
<1> HIDE DEF read
<1> QED
  BY <1>2, <1>3, <1>4, <1>5 DEF result

LEMMA DataExact ==
  ASSUME NEW d \in Docs, NEW c, DOMAIN c = Fields, c.exchangedData = <<>>,
         ImportExchangedData(c, d.exchangedData).ok
  PROVE  LET v == ImportExchangedData(c, d.exchangedData).value
         IN  /\ DOMAIN v = Fields
             /\ v.servers = c.servers
             /\ v.pollingPeriod = c.pollingPeriod
             /\ v.readMode = c.readMode
             /\ v.exchangedData = ExpectedData(d)
             /\ v.datasets = c.datasets
<1> DEFINE list == d.exchangedData.datapoints
           stored == ForEach(<<>>, list, ImportDatapoint)
           result == ImportExchangedData(c, d.exchangedData)
<1>1. d.exchangedData.state \in SectionStates /\ IsArray(list)
  BY DocsAssumption
<1>2. CASE d.exchangedData.state = "missing"
  <2>1. result.value = c
    BY <1>2 DEF ImportExchangedData, Done
  <2>2. ExpectedData(d) = <<>>
    BY <1>2 DEF ExpectedData, Elements
  <2> HIDE DEF result
  <2> QED
    BY <2>1, <2>2 DEF result
<1>3. CASE d.exchangedData.state = "malformed"
  BY <1>3 DEF ImportExchangedData, Throws
<1>4. CASE d.exchangedData.state = "ok"
  <2>1. /\ result.value = [c EXCEPT !.exchangedData = stored.value]
        /\ result.ok = stored.ok
    BY <1>4 DEF ImportExchangedData
  <2> HIDE DEF stored
  <2>2. stored.value = [i \in DOMAIN list |-> DatapointOf(list[i])]
    BY <1>1, <2>1, DatapointsExact DEF stored
  <2>3. \A i \in DOMAIN list : ValidDatapoint(list[i])
    <3>1. IsList(<<>>) /\ stored.ok
      BY <2>1 DEF IsList
    <3> QED
      BY <1>1, <3>1, DatapointsImported DEF stored
  <2>4. \A i \in DOMAIN list : DatapointOf(list[i]) = ExpectedDatapoint(list[i])
    BY <2>3, ProtocolsExact, DocsAssumption DEF ValidDatapoint
  <2>5. stored.value = ExpectedData(d)
    BY <1>4, <2>2, <2>4 DEF ExpectedData, Elements
  <2> HIDE DEF result
  <2> QED
    BY <2>1, <2>5 DEF result, Fields
<1> QED
  BY <1>1, <1>2, <1>3, <1>4 DEF SectionStates

LEMMA StoredDatasets ==
  ASSUME NEW ds
  PROVE  StoredObjects(ds) =
           [i \in DOMAIN ds.objects |->
              [label    |-> ds.objects[i].label,
               dataPath |-> ds.objects[i].doName,
               type     |-> IF ds.objects[i].typeid \in {"SPS", "MV"}
                              THEN ds.objects[i].typeid ELSE "UNKNOWN"]]
<1>1. ASSUME NEW object
      PROVE  SelectedObject(object) =
               [label    |-> object.label,
                dataPath |-> object.doName,
                type     |-> IF object.typeid \in {"SPS", "MV"}
                               THEN object.typeid ELSE "UNKNOWN"]
  BY DEF SelectedObject, SetDatapointType, DefaultDatapoint
<1> QED
  BY <1>1 DEF StoredObjects

LEMMA ExchangedDatasetsExact ==
  ASSUME NEW d \in Docs, NEW c, DOMAIN c = Fields, c.datasets = EmptyMap,
         ImportExchangedDatasets(c, d.exchangedDatasets).ok
  PROVE  LET v == ImportExchangedDatasets(c, d.exchangedDatasets).value
         IN  /\ v.servers = c.servers
             /\ v.pollingPeriod = c.pollingPeriod
             /\ v.readMode = c.readMode
             /\ v.exchangedData = c.exchangedData
             /\ v.datasets = ExpectedDatasets(d)
<1> DEFINE list == d.exchangedDatasets.datasets
           stored == ForEach(EmptyMap, list, ImportDataset)
           result == ImportExchangedDatasets(c, d.exchangedDatasets)
<1>1. d.exchangedDatasets.state \in SectionStates /\ IsArray(list)
  BY DocsAssumption
<1>2. CASE d.exchangedDatasets.state = "missing"
  <2>1. result.value = c
    BY <1>2 DEF ImportExchangedDatasets, Done
  <2>2. ExpectedDatasets(d) = EmptyMap
    BY <1>2 DEF ExpectedDatasets, Elements, EmptyMap
  <2> HIDE DEF result
  <2> QED
    BY <2>1, <2>2 DEF result
<1>3. CASE d.exchangedDatasets.state = "malformed"
  BY <1>3 DEF ImportExchangedDatasets, Throws
<1>4. CASE d.exchangedDatasets.state = "ok"
  <2>1. /\ result.value = [c EXCEPT !.datasets = stored.value]
        /\ result.ok = stored.ok
    BY <1>4 DEF ImportExchangedDatasets
  <2> HIDE DEF stored
  <2>2. stored.value = [r \in {list[i].ref : i \in DOMAIN list} |->
                          StoredObjects(LastOf(list, LAMBDA ds : ds.ref = r))]
    BY <1>1, <2>1, DatasetsExact DEF stored
  <2>3. stored.value = ExpectedDatasets(d)
    <3>1. Elements(d.exchangedDatasets, list) = list
      BY <1>4 DEF Elements
    <3>2. ASSUME NEW r
          PROVE  StoredObjects(LastOf(list, LAMBDA ds : ds.ref = r))
                   = ExpectedObjects(list, r)
      BY StoredDatasets DEF ExpectedObjects
    <3>3. ExpectedDatasets(d) =
            [r \in {list[i].ref : i \in DOMAIN list} |-> ExpectedObjects(list, r)]
      BY <3>1 DEF ExpectedDatasets
    <3> HIDE DEF list
    <3> QED
      BY <2>2, <3>2, <3>3
  <2> HIDE DEF result
  <2> QED
    BY <2>1, <2>3 DEF result, Fields
<1> QED
  BY <1>1, <1>2, <1>3, <1>4 DEF SectionStates

\* An import into a new object, when it returns.
LEMMA FirstImport ==
  ASSUME NEW d \in Docs, ImportConfig(DefaultConfig, d).ok
  PROVE  LET c == ImportConfig(DefaultConfig, d).value
         IN  /\ c.servers = ExpectedServers(d)
             /\ c.exchangedData = ExpectedData(d)
             /\ c.datasets = ExpectedDatasets(d)
             /\ c.readMode = ExpectedMode(d)
             /\ d.application.period \in Nat
                  => c.pollingPeriod = d.application.period
             /\ d.application.period = Absent
                  => c.pollingPeriod = DefaultConfig.pollingPeriod
<1> DEFINE r1 == AfterTransport(DefaultConfig, d)
           r2 == AfterApplication(DefaultConfig, d)
           r3 == AfterData(DefaultConfig, d)
           r4 == ImportConfig(DefaultConfig, d)
<1>1. /\ r4 = IF r3.ok THEN ImportExchangedDatasets(r3.value, d.exchangedDatasets)
                       ELSE r3
      /\ r3 = IF r2.ok THEN ImportExchangedData(r2.value, d.exchangedData)
                       ELSE r2
      /\ r2 = IF r1.ok THEN ImportApplicationLayer(r1.value, d.application)
                       ELSE r1
  BY ImportSteps DEF AfterData, AfterApplication
<1>2. r1.ok /\ r2.ok /\ r3.ok /\ r4.ok
  <2> HIDE DEF r1, r2, r3, r4
  <2> QED
    BY <1>1 DEF r4
<1>3. /\ DOMAIN r1.value = Fields
      /\ r1.value.servers = ExpectedServers(d)
      /\ r1.value.pollingPeriod = DefaultConfig.pollingPeriod
      /\ r1.value.readMode = "DO_READING"
      /\ r1.value.exchangedData = <<>>
      /\ r1.value.datasets = EmptyMap
  BY <1>2, TransportExact
<1> HIDE DEF r1, r2, r3, r4
<1>4. /\ DOMAIN r2.value = Fields
      /\ r2.value.servers = ExpectedServers(d)
      /\ d.application.period \in Nat
           => r2.value.pollingPeriod = d.application.period
      /\ d.application.period = Absent
           => r2.value.pollingPeriod = DefaultConfig.pollingPeriod
      /\ r2.value.readMode = ExpectedMode(d)
      /\ r2.value.exchangedData = <<>>
      /\ r2.value.datasets = EmptyMap
  BY <1>1, <1>2, <1>3, ApplicationExact
<1>5. /\ DOMAIN r3.value = Fields
      /\ r3.value.servers = r2.value.servers
      /\ r3.value.pollingPeriod = r2.value.pollingPeriod
      /\ r3.value.readMode = r2.value.readMode
      /\ r3.value.exchangedData = ExpectedData(d)
      /\ r3.value.datasets = EmptyMap
  BY <1>1, <1>2, <1>4, DataExact
<1>6. /\ r4.value.servers = r3.value.servers
      /\ r4.value.pollingPeriod = r3.value.pollingPeriod
      /\ r4.value.readMode = r3.value.readMode
      /\ r4.value.exchangedData = r3.value.exchangedData
      /\ r4.value.datasets = ExpectedDatasets(d)
  BY <1>1, <1>2, <1>5, ExchangedDatasetsExact
<1> QED
  BY <1>4, <1>5, <1>6 DEF r4

-----------------------------------------------------------------------------
ImportsInv == IsConfig(config) /\ OnlyValidServers /\ FailureKeepsPrefix

LEMMA InitInv == Init => ImportsInv
<1> SUFFICES ASSUME Init PROVE ImportsInv
  OBVIOUS
<1>1. IsConfig(config) /\ config = before
  BY DefaultIsConfig DEF Init
<1>2. OnlyValidServers
  BY DEF Init, OnlyValidServers, DefaultConfig, EmptyMap
<1>3. FailureKeepsPrefix
  BY DEF Init, FailureKeepsPrefix
<1> QED
  BY <1>1, <1>2, <1>3 DEF ImportsInv

LEMMA SetConfigInv ==
  ASSUME ImportsInv, NEW d \in Docs, SetConfig(d)
  PROVE  ImportsInv'
<1> DEFINE result == ImportConfig(config, d)
<1>1. /\ config' = result.value /\ ok' = result.ok
      /\ before' = config /\ doc' = d
  BY DEF SetConfig
<1>2. /\ IsConfig(config)
      /\ IsArray(d.transport.connections)
      /\ IsArray(d.exchangedData.datapoints)
  BY DocsAssumption DEF ImportsInv
<1>3. IsConfig(config')
  BY <1>1, <1>2, ConfigImported
<1>4. config'.servers
        \in ServerMaps(before'.servers, doc'.transport.connections)
  BY <1>1, <1>2, ConfigImported
<1>5. OnlyValidServers'
  <2>1. \A k \in DOMAIN config'.servers :
          Sourced(k, config'.servers[k], before'.servers,
                  doc'.transport.connections)
    BY <1>4 DEF ServerMaps
  <2> QED
    BY <2>1 DEF Sourced, OnlyValidServers
<1>6. FailureKeepsPrefix'
  <2> DEFINE DataOk ==
               /\ d.exchangedData.state # "malformed"
               /\ d.exchangedData.state # "missing" =>
                    \A i \in DOMAIN d.exchangedData.datapoints :
                      ValidDatapoint(d.exchangedData.datapoints[i])
  <2>1. /\ \/ config'.pollingPeriod # config.pollingPeriod
           \/ config'.readMode # config.readMode
           => ValidTransport(d)
        /\ config'.exchangedData # config.exchangedData
           => ValidTransport(d) /\ ValidApplication(d)
        /\ config'.datasets # config.datasets
           => ValidTransport(d) /\ ValidApplication(d) /\ DataOk
    BY <1>1, <1>2, ConfigImported DEF ValidTransport, ValidApplication
  <2>2. DataOk => ValidData(d)
    BY DEF ValidData, Elements
  <2> HIDE DEF DataOk
  <2> QED
    BY <1>1, <2>1, <2>2 DEF FailureKeepsPrefix
<1> QED
  BY <1>3, <1>5, <1>6 DEF ImportsInv

LEMMA Invariance == Spec => []ImportsInv
<1>1. ASSUME ImportsInv, [Next]_vars
      PROVE  ImportsInv'
  <2>1. CASE Next
    BY <1>1, <2>1, SetConfigInv DEF Next
  <2>2. CASE UNCHANGED vars
    BY <1>1, <2>2 DEF vars, ImportsInv, OnlyValidServers, FailureKeepsPrefix
  <2> QED
    BY <1>1, <2>1, <2>2
<1> QED
  BY InitInv, <1>1, PTL DEF Spec

\* No document makes a client of a server whose connection failed a check:
\* what importConfig leaves in the dictionary was there or is all valid.
THEOREM ServersValid == Spec => []OnlyValidServers
<1>1. ImportsInv => OnlyValidServers
  BY DEF ImportsInv
<1> QED
  BY <1>1, Invariance, PTL

\* An import that throws has touched a section of the configuration only when
\* every section before it was imported as a whole.
THEOREM PrefixStored == Spec => []FailureKeepsPrefix
<1>1. ImportsInv => FailureKeepsPrefix
  BY DEF ImportsInv
<1> QED
  BY <1>1, Invariance, PTL

-----------------------------------------------------------------------------
\* The first import works on the configuration of a new object.
FirstInv ==
  /\ imports \in Nat
  /\ imports = 0 => config = DefaultConfig
  /\ FirstImportIsExact

LEMMA InitFirst == Init => FirstInv
BY DEF Init, FirstInv, FirstImportIsExact

LEMMA SetConfigFirst ==
  ASSUME FirstInv, NEW d \in Docs, SetConfig(d)
  PROVE  FirstInv'
<1>1. /\ imports \in Nat
      /\ imports = 0 => config = DefaultConfig
      /\ imports' = imports + 1
      /\ config' = ImportConfig(config, d).value
      /\ ok' = ImportConfig(config, d).ok
      /\ doc' = d
  BY DEF FirstInv, SetConfig
<1>2. imports' \in Nat /\ imports' # 0
  BY <1>1
<1>3. FirstImportIsExact'
  <2> SUFFICES ASSUME ok', imports' = 1 PROVE FirstImportIsExact'
    BY DEF FirstImportIsExact
  <2>1. config = DefaultConfig
    BY <1>1
  <2>2. ImportConfig(DefaultConfig, d).ok
    BY <1>1, <2>1
  <2>3. config' = ImportConfig(DefaultConfig, d).value
    BY <1>1, <2>1
  <2> QED
    BY <1>1, <2>2, <2>3, FirstImport DEF FirstImportIsExact
<1> QED
  BY <1>2, <1>3 DEF FirstInv

\* The first document that a plugin imports is stored as it is written: each
\* server and each dataset by the last element with its key, the datapoints in
\* their order, the mode and the period.
THEOREM FirstImportStored == Spec => []FirstImportIsExact
<1>1. ASSUME FirstInv, [Next]_vars
      PROVE  FirstInv'
  <2>1. CASE Next
    BY <1>1, <2>1, SetConfigFirst DEF Next
  <2>2. CASE UNCHANGED vars
    BY <1>1, <2>2 DEF vars, FirstInv, FirstImportIsExact
  <2> QED
    BY <1>1, <2>1, <2>2
<1>2. FirstInv => FirstImportIsExact
  BY DEF FirstInv
<1> QED
  BY InitFirst, <1>1, <1>2, PTL DEF Spec
=============================================================================
