-------------------------- MODULE MmsReadingProofs --------------------------
(***************************************************************************)
(* Proofs about readings: the recursion of the conversion has a result for *)
(* every server; a data object that it accepts is complete and under the   *)
(* right names; and what an exception costs.                               *)
(***************************************************************************)
EXTENDS MmsReading, Loops

-----------------------------------------------------------------------------
(***************************************************************************)
(* The nodes of the server.                                                *)
(***************************************************************************)
LEMMA EmptyDomain == DOMAIN Empty = {}
BY DEF Empty

\* The nodes are the numbers up to the last one.
LEMMA NodesAreNumbers ==
  \E N \in Nat : Nodes = 1..N
BY ReadingAssumption DEF ServerAssumption, IsArray, Nodes

\* A node that has children has a first one.
LEMMA FirstChild ==
  ASSUME NEW n \in Nodes, DOMAIN Server[n].children # {}
  PROVE  1 \in DOMAIN Server[n].children
<1>1. PICK N \in Nat : DOMAIN Server[n].children = 1..N
  BY ReadingAssumption DEF ServerAssumption, IsArray
<1> QED
  BY <1>1

\* A child comes after its parent, belongs to its data object, and has no
\* other parent.
LEMMA ChildOf ==
  ASSUME NEW n \in Nodes, NEW i \in DOMAIN Server[n].children
  PROVE  /\ Child(n, i) \in Nodes /\ Child(n, i) > n
         /\ Server[Child(n, i)].member = Server[n].member
         /\ Parents(Child(n, i)) = {n}
         /\ Child(n, i) # Members[Server[n].member].node
<1>1. /\ Child(n, i) \in Nodes /\ Child(n, i) > n
      /\ Server[Child(n, i)].member = Server[n].member
  BY ReadingAssumption DEF ServerAssumption
<1>2. n \in Parents(Child(n, i))
  BY DEF Parents
<1>3. \A q, r \in Parents(Child(n, i)) : q = r
  BY <1>1, ReadingAssumption DEF ServerAssumption
<1>4. Child(n, i) # Members[Server[Child(n, i)].member].node
  BY <1>1, <1>2, ReadingAssumption DEF ServerAssumption
<1> QED
  BY <1>1, <1>2, <1>3, <1>4

\* The children of a mag are plain.
LEMMA MagChildren ==
  ASSUME NEW n \in Nodes, Server[n].name = Mag
  PROVE  /\ DOMAIN Server[n].children # {}
         /\ \A i \in DOMAIN Server[n].children :
              /\ DOMAIN Server[Child(n, i)].children = {}
              /\ Server[Child(n, i)].name # Mag
              /\ Renamed(Server[Child(n, i)].name) = Server[Child(n, i)].name
BY ReadingAssumption DEF ServerAssumption

\* The elements of a structure that has the shape of its node.
LEMMA ElementsStand ==
  ASSUME NEW p \in Parts, Mms[p].kind = "structure",
         DOMAIN Mms[p].elems = DOMAIN Server[Mms[p].at].children,
         NEW i \in DOMAIN Mms[p].elems
  PROVE  /\ Mms[p].elems[i] \in Parts
         /\ Mms[Mms[p].elems[i]].at = Child(Mms[p].at, i)
         /\ Mms[Mms[p].elems[i]].kind # "accessError"
BY ReadingAssumption DEF ValuesAssumption

LEMMA PartAt ==
  ASSUME NEW p \in Parts
  PROVE  /\ Mms[p].at \in Nodes
         /\ Mms[p].kind = "primitive"
              => DOMAIN Server[Mms[p].at].children = {}
         /\ Mms[p].kind = "structure" => DOMAIN Mms[p].elems # {}
BY ReadingAssumption DEF ValuesAssumption

\* The names that match a structure are those of the node's own children.
LEMMA NamesKnown ==
  ASSUME NEW member, NEW p \in Parts, NEW n \in Nodes,
         Mms[p].kind = "structure",
         DOMAIN Mms[p].elems = DOMAIN NameChildren(member, n)
  PROVE  /\ NameChildren(member, n) = Server[n].children
         /\ DOMAIN Server[n].children # {}
BY PartAt, EmptyDomain DEF NameChildren

-----------------------------------------------------------------------------
(***************************************************************************)
(* The recursion.                                                          *)
(***************************************************************************)
Row(b, member, n) == [q \in Parts |-> BuildPart(b, member, q, n)]

\* The conversion of a part under the names of a node needs that of its
\* elements under the names of the node's children only.
LEMMA BuildIsLocal ==
  ASSUME NEW member, NEW b, NEW c, NEW n \in Nodes,
         \A k \in Nodes : k > n => b[k] = c[k]
  PROVE  Row(b, member, n) = Row(c, member, n)
<1>1. ASSUME NEW p \in Parts
      PROVE  BuildPart(b, member, p, n) = BuildPart(c, member, p, n)
  <2>1. CASE Mms[p].kind = "structure"
               /\ DOMAIN Mms[p].elems = DOMAIN NameChildren(member, n)
    <3>1. NameChildren(member, n) = Server[n].children
      BY <2>1, NamesKnown
    <3>2. ASSUME NEW i \in DOMAIN Mms[p].elems
          PROVE  b[NameChildren(member, n)[i]] = c[NameChildren(member, n)[i]]
      BY <2>1, <3>1, <3>2, ChildOf DEF Child
    <3>3. 1 \in DOMAIN Mms[p].elems
      BY <2>1, <3>1, NamesKnown, FirstChild
    <3>4. [i \in DOMAIN Mms[p].elems |->
             b[NameChildren(member, n)[i]][Mms[p].elems[i]]]
            = [i \in DOMAIN Mms[p].elems |->
                 c[NameChildren(member, n)[i]][Mms[p].elems[i]]]
      BY <3>2
    <3>5. BuildStructure(b, member, p, n) = BuildStructure(c, member, p, n)
      BY <3>2, <3>3, <3>4 DEF BuildStructure
    <3> QED
      BY <2>1, <3>5 DEF BuildPart
  <2>2. CASE Mms[p].kind = "structure"
               /\ DOMAIN Mms[p].elems # DOMAIN NameChildren(member, n)
    BY <2>2 DEF BuildPart, BuildStructure
  <2>3. CASE Mms[p].kind # "structure"
    BY <2>3 DEF BuildPart
  <2> QED
    BY <2>1, <2>2, <2>3
<1> QED
  BY <1>1 DEF Row

IsBuild(b, member) == b = [n \in Nodes |-> Row(b, member, n)]

\* So there is a conversion for every tree of names: nodes are added from the
\* last one to the first.
LEMMA BuildExists ==
  ASSUME NEW member
  PROVE  \E b : IsBuild(b, member)
<1>1. PICK N \in Nat : Nodes = 1..N
  BY NodesAreNumbers
<1> DEFINE Upto(b, k) == \A n \in Nodes : n > N - k => b[n] = Row(b, member, n)
           T == {k \in 0..N : \E b : Upto(b, k)}
<1>2. 0 \in T
  BY <1>1
<1>3. ASSUME NEW k \in 1..N, k - 1 \in T PROVE k \in T
  <2>1. PICK b : Upto(b, k - 1)
    BY <1>3
  <2> DEFINE m == N - k + 1
             c == [n \in Nodes |-> IF n = m THEN Row(b, member, m) ELSE b[n]]
  <2>2. m \in Nodes
    BY <1>1
  <2>3. ASSUME NEW n \in Nodes, n > N - k PROVE c[n] = Row(c, member, n)
    <3>1. n \in Nat /\ n >= m
      BY <1>1, <2>3
    <3>2. \A j \in Nodes : j > n => b[j] = c[j]
      BY <1>1, <3>1
    <3>3. Row(b, member, n) = Row(c, member, n)
      <4> HIDE DEF c
      <4> QED
        BY <3>2, BuildIsLocal
    <3>4. CASE n = m
      BY <2>2, <3>3, <3>4
    <3>5. CASE n # m
      <4>1. b[n] = Row(b, member, n)
        BY <1>1, <2>1, <3>1, <3>5
      <4>2. c[n] = b[n]
        BY <3>5
      <4> QED
        BY <3>3, <4>1, <4>2
    <3> QED
      BY <3>4, <3>5
  <2>4. Upto(c, k)
    BY <2>3
  <2>5. k \in 0..N
    BY <1>3
  <2> HIDE DEF Upto
  <2> QED
    BY <2>4, <2>5
<1>4. 0..N \subseteq T
  <2> HIDE DEF T
  <2> QED
    BY <1>2, <1>3, LoopInduction
<1>5. PICK b : Upto(b, N)
  BY <1>4
<1> DEFINE c == [n \in Nodes |-> b[n]]
<1>6. ASSUME NEW n \in Nodes PROVE c[n] = Row(c, member, n)
  <2>1. \A j \in Nodes : j > n => b[j] = c[j]
    OBVIOUS
  <2>2. Row(b, member, n) = Row(c, member, n)
    <3> HIDE DEF c
    <3> QED
      BY <2>1, BuildIsLocal
  <2>3. b[n] = Row(b, member, n)
    BY <1>1, <1>5
  <2> QED
    BY <2>2, <2>3
<1>7. IsBuild(c, member)
  <2>1. c = [n \in Nodes |-> c[n]]
    OBVIOUS
  <2> HIDE DEF c
  <2> QED
    BY <1>6, <2>1 DEF IsBuild
<1> QED
  BY <1>7

\* What BuildDatapoint is.
LEMMA DatapointBuilt ==
  ASSUME NEW member
  PROVE  \E b : /\ IsBuild(b, member)
                /\ \A p : BuildDatapoint(p, member) = b[member.node][p]
<1> DEFINE c == CHOOSE b : IsBuild(b, member)
<1>1. IsBuild(c, member)
  BY BuildExists
<1>2. \A p : BuildDatapoint(p, member) = c[member.node][p]
  BY DEF BuildDatapoint, IsBuild, Row
<1> QED
  BY <1>1, <1>2

-----------------------------------------------------------------------------
(***************************************************************************)
(* What one conversion gives, by induction from the last node to the       *)
(* first.  The children of a mag are left to the mag.                      *)
(***************************************************************************)
IsRegular(n, m, label) ==
    /\ n \in Nodes /\ Server[n].member = m
    /\ \A q \in Parents(n) : TreeName(q, label) # Mag

\* The node whose value stands for n in a datapoint.
Kept(n, label) == IF TreeName(n, label) = Mag THEN Child(n, 1) ELSE n

\* Every part in a datapoint is one that Fledge is to get, under its name.
EntriesRight(point, m, label) ==
    \A e \in Entries(point) :
        /\ Mms[e.part].at \in Exported(m, label)
        /\ e.name = NameFor(Mms[e.part].at, label)

\* With a part come all of its children.
IsClosed(point, label) ==
    \A n \in Places(point) : \A i \in DOMAIN Server[n].children :
        Kept(Child(n, i), label) \in Places(point)

\* What the conversion of part p makes of it.
GoodPoint(point, p, m, label) ==
    /\ point.kind \in {"point", "null", "exception"}
    /\ point.kind = "null" <=> Mms[p].kind = "accessError"
    /\ point.kind = "exception" =>
         \A q \in point.left : Mms[q].at \in Exported(m, label)
    /\ point.kind = "point" => /\ EntriesRight(point, m, label)
                               /\ Kept(Mms[p].at, label) \in Places(point)
                               /\ IsClosed(point, label)

\* A member that goes by the name of mag is one.
FitsLabel(m, label) == label = Mag => Server[Members[m].node].name = Mag

\* The member of the dataset that a tree of names belongs to.
IsMember(member, m) ==
    /\ m \in DOMAIN Members
    /\ member.node = Members[m].node
    /\ FitsLabel(m, member.label)

LEMMA ExceptionGood ==
  ASSUME NEW p, NEW m, NEW label, Mms[p].kind # "accessError"
  PROVE  GoodPoint(Exception({}), p, m, label)
BY DEF GoodPoint, Exception

LEMMA NullGood ==
  ASSUME NEW p, NEW m, NEW label, Mms[p].kind = "accessError"
  PROVE  GoodPoint(NullPoint, p, m, label)
BY DEF GoodPoint, NullPoint

\* A node that is not below a mag is exported if it is no mag itself.
LEMMA RegularExported ==
  ASSUME NEW m, NEW label, NEW n, IsRegular(n, m, label),
         TreeName(n, label) # Mag
  PROVE  n \in Exported(m, label) /\ Kept(n, label) = n /\ ~IsMagnitude(n, label)
BY DEF IsRegular, Exported, Kept, IsSkipped, IsMagnitude

\* The conversion goes by the names of the tree.
LEMMA NameInTree ==
  ASSUME NEW member, NEW m, IsMember(member, m),
         NEW n, Server[n].member = m
  PROVE  NameOf(member, n) = TreeName(n, member.label)
BY DEF IsMember, NameOf, TreeName

LEMMA RegularName ==
  ASSUME NEW member, NEW m, IsMember(member, m),
         NEW n, IsRegular(n, m, member.label), TreeName(n, member.label) # Mag
  PROVE  /\ NameOf(member, n) # Mag
         /\ Renamed(NameOf(member, n)) = NameFor(n, member.label)
<1>1. NameOf(member, n) = TreeName(n, member.label)
  BY NameInTree DEF IsRegular
<1> QED
  BY <1>1, RegularExported DEF NameFor

\* What goes by the name of mag is one.
LEMMA MagByName ==
  ASSUME NEW m, NEW label, FitsLabel(m, label),
         NEW n, Server[n].member = m, TreeName(n, label) = Mag
  PROVE  Server[n].name = Mag
BY DEF FitsLabel, TreeName

\* The names and places of a datapoint.
LEMMA EntriesOf ==
  ASSUME NEW part, NEW name, NEW items, NEW type
  PROVE  /\ Entries(Point(part, name, items, type))
              = {[part |-> part, name |-> name]} \cup items
         /\ Point(part, name, items, type).kind = "point"
BY DEF Entries, Point

LEMMA PlacesAre ==
  ASSUME NEW point, NEW e \in Entries(point)
  PROVE  Mms[e.part].at \in Places(point)
BY DEF Places, PartsOf

LEMMA PlaceHasEntry ==
  ASSUME NEW point, NEW n \in Places(point)
  PROVE  \E e \in Entries(point) : n = Mms[e.part].at
BY DEF Places, PartsOf

\* A datapoint of one part alone: a plain value.
LEMMA LoneGood ==
  ASSUME NEW p \in Parts, NEW m, NEW label, NEW name, NEW type, NEW q \in Parts,
         Mms[q].kind # "accessError",
         Mms[p].at \in Exported(m, label), name = NameFor(Mms[p].at, label),
         Kept(Mms[q].at, label) = Mms[p].at,
         DOMAIN Server[Mms[p].at].children = {}
  PROVE  GoodPoint(Point(p, name, {}, type), q, m, label)
<1> DEFINE x == Point(p, name, {}, type)
<1>1. Entries(x) = {[part |-> p, name |-> name]} /\ x.kind = "point"
  BY EntriesOf
<1> HIDE DEF x
<1>2. Places(x) = {Mms[p].at}
  BY <1>1 DEF Places, PartsOf
<1>3. EntriesRight(x, m, label)
  BY <1>1 DEF EntriesRight
<1>4. IsClosed(x, label)
  BY <1>2 DEF IsClosed
<1>5. GoodPoint(x, q, m, label)
  BY <1>1, <1>2, <1>3, <1>4 DEF GoodPoint
<1> QED
  BY <1>5 DEF x

\* The child of a mag: a plain value, or refused.
LEMMA LeafBuilt ==
  ASSUME NEW b, NEW member, NEW p \in Parts, NEW n \in Nodes,
         DOMAIN Server[n].children = {}, Mms[p].kind # "accessError"
  PROVE  \/ BuildPart(b, member, p, n)
              = Point(p, Renamed(NameOf(member, n)), {}, Empty)
         \/ BuildPart(b, member, p, n) = Exception({})
<1>1. Mms[p].kind = "structure"
        => DOMAIN Mms[p].elems # DOMAIN NameChildren(member, n)
  BY PartAt, EmptyDomain DEF NameChildren
<1> QED
  BY <1>1 DEF BuildPart, BuildStructure

\* A mag is good by its first child.
LEMMA MagGood ==
  ASSUME NEW b, NEW member, NEW m, IsMember(member, m), IsBuild(b, member),
         NEW n, IsRegular(n, m, member.label), NEW p \in Parts, Mms[p].at = n,
         Mms[p].kind = "structure",
         DOMAIN Mms[p].elems = DOMAIN NameChildren(member, n),
         TreeName(n, member.label) = Mag
  PROVE  GoodPoint(BuildPart(b, member, p, n), p, m, member.label)
<1> DEFINE c == Child(n, 1)
           q == Mms[p].elems[1]
           x == BuildPart(b, member, q, c)
<1>0. n \in Nodes /\ Server[n].member = m /\ Server[n].name = Mag
      /\ NameOf(member, n) = Mag
  BY NameInTree, MagByName DEF IsRegular, IsMember
<1>1. NameChildren(member, n) = Server[n].children
      /\ 1 \in DOMAIN Server[n].children
  BY <1>0, NamesKnown, FirstChild
<1>2. /\ c \in Nodes /\ Server[c].member = m /\ Parents(c) = {n}
      /\ c # Members[m].node
  BY <1>0, <1>1, ChildOf
<1>3. /\ DOMAIN Server[c].children = {} /\ Server[c].name # Mag
      /\ Renamed(Server[c].name) = Server[c].name
  BY <1>0, <1>1, MagChildren
<1>4. q \in Parts /\ Mms[q].at = c /\ Mms[q].kind # "accessError"
  BY <1>1, ElementsStand
<1>5. b[c][q] = x
  BY <1>2, <1>4 DEF IsBuild, Row
<1>6. BuildPart(b, member, p, n) = FirstOfMag(x)
  <2>1. b[NameChildren(member, n)[1]][Mms[p].elems[1]] = x
    BY <1>1, <1>5 DEF Child
  <2> HIDE DEF x
  <2> QED
    BY <1>0, <2>1 DEF BuildPart, BuildStructure
<1>7. x = Point(q, Renamed(NameOf(member, c)), {}, Empty)
      \/ x = Exception({})
  BY <1>2, <1>3, <1>4, LeafBuilt
<1>8. NameOf(member, c) = Server[c].name
        /\ TreeName(c, member.label) = Server[c].name
  BY <1>2 DEF NameOf, TreeName, IsMember
<1> HIDE DEF x
<1>9. CASE x = Exception({})
  <2>1. FirstOfMag(x) = Exception({})
    BY <1>9 DEF FirstOfMag, Exception
  <2> QED
    BY <1>6, <2>1, ExceptionGood
<1>10. CASE x = Point(q, Renamed(NameOf(member, c)), {}, Empty)
  <2>1. FirstOfMag(x)
          = Point(q, Renamed(Mag \o Dot \o Server[c].name), {}, Empty)
    BY <1>3, <1>8, <1>10 DEF FirstOfMag, Point
  <2>2. IsMagnitude(c, member.label) /\ ~IsSkipped(c, member.label)
    BY <1>0, <1>2 DEF IsMagnitude, IsSkipped
  <2>3. Mms[q].at \in Exported(m, member.label)
    BY <1>2, <1>3, <1>4, <1>8, <2>2 DEF Exported
  <2>4. Renamed(Mag \o Dot \o Server[c].name) = NameFor(c, member.label)
    BY <1>2, <2>2 DEF NameFor
  <2>5. Kept(Mms[p].at, member.label) = Mms[q].at
    BY <1>4 DEF Kept
  <2> HIDE DEF c, q
  <2>6. GoodPoint(Point(q, NameFor(c, member.label), {}, Empty),
                  p, m, member.label)
    BY <1>3, <1>4, <2>3, <2>5, LoneGood
  <2> QED
    BY <1>6, <2>1, <2>4, <2>6
<1> QED
  BY <1>7, <1>9, <1>10

\* Of positions that are not none there is a first.
LEMMA MinExists ==
  ASSUME NEW S \in SUBSET Nat, S # {}
  PROVE  Min(S) \in S /\ \A j \in S : Min(S) <= j
<1>1. PICK i \in S : \A j \in S : ~(j < i)
  BY LeastElement
<1>2. \A j \in S : i <= j
  BY <1>1
<1> QED
  BY <1>2 DEF Min

\* A dictionary of good children, none of them null, that stand where those of
\* its node do.
LEMMA DictionaryGood ==
  ASSUME NEW member, NEW m, IsMember(member, m),
         NEW n, IsRegular(n, m, member.label), TreeName(n, member.label) # Mag,
         NEW p \in Parts, Mms[p].at = n, Mms[p].kind # "accessError",
         NEW N \in Nat, DOMAIN Server[n].children = 1..N,
         NEW child, DOMAIN child = 1..N, NEW part,
         \A i \in 1..N : /\ child[i].kind # "null"
                         /\ Mms[part[i]].at = Child(n, i)
                         /\ GoodPoint(child[i], part[i], m, member.label)
  PROVE  GoodPoint(Dictionary(p, NameOf(member, n), child),
                   p, m, member.label)
<1> DEFINE label == member.label
           x == Dictionary(p, NameOf(member, n), child)
<1>1. n \in Exported(m, label) /\ Kept(n, label) = n
  BY RegularExported
<1>2. CASE Failing(child) = {}
  <2> DEFINE items == UNION {Entries(child[i]) : i \in 1..N}
             e0 == [part |-> p, name |-> NameFor(n, label)]
  <2>1. x = Point(p, NameFor(n, label), items, Empty)
    BY <1>2, RegularName DEF Dictionary
  <2>2. x.kind = "point" /\ Entries(x) = {e0} \cup items
    <3> HIDE DEF x, items
    <3> QED
      BY <2>1, EntriesOf
  <2>3. ASSUME NEW i \in 1..N
        PROVE  /\ EntriesRight(child[i], m, label)
               /\ Kept(Child(n, i), label) \in Places(child[i])
               /\ IsClosed(child[i], label)
    <3>1. child[i].kind = "point"
      BY <1>2 DEF Failing, GoodPoint
    <3> QED
      BY <3>1 DEF GoodPoint
  <2> HIDE DEF x
  <2>4. EntriesRight(x, m, label)
    <3>1. ASSUME NEW e \in items
          PROVE  /\ Mms[e.part].at \in Exported(m, label)
                 /\ e.name = NameFor(Mms[e.part].at, label)
      <4>1. PICK i \in 1..N : e \in Entries(child[i])
        BY <3>1
      <4> QED
        BY <2>3, <4>1 DEF EntriesRight
    <3>2. /\ Mms[e0.part].at \in Exported(m, label)
          /\ e0.name = NameFor(Mms[e0.part].at, label)
      BY <1>1
    <3> HIDE DEF items, e0
    <3> QED
      BY <2>2, <3>1, <3>2 DEF EntriesRight
  <2>5. n \in Places(x)
    <3>1. e0 \in Entries(x) /\ Mms[e0.part].at = n
      BY <2>2
    <3> HIDE DEF e0
    <3> QED
      BY <3>1, PlacesAre
  <2>6. ASSUME NEW i \in 1..N PROVE Places(child[i]) \subseteq Places(x)
    <3>1. Entries(child[i]) \subseteq Entries(x)
      BY <2>2
    <3> QED
      BY <3>1 DEF Places, PartsOf
  <2>7. ASSUME NEW k \in Places(x), NEW j \in DOMAIN Server[k].children
        PROVE  Kept(Child(k, j), label) \in Places(x)
    <3>1. PICK e \in Entries(x) : k = Mms[e.part].at
      BY <2>7, PlaceHasEntry
    <3>2. CASE e = e0
      <4>1. k = n
        BY <3>1, <3>2
      <4> QED
        BY <2>3, <2>6, <2>7, <4>1
    <3>3. CASE e \in items
      <4>1. PICK i \in 1..N : e \in Entries(child[i])
        BY <3>3
      <4>2. k \in Places(child[i])
        BY <3>1, <4>1, PlacesAre
      <4>3. Kept(Child(k, j), label) \in Places(child[i])
        BY <2>3, <2>7, <4>2 DEF IsClosed
      <4> QED
        BY <2>6, <4>3
    <3> QED
      BY <2>2, <3>1, <3>2, <3>3
  <2>8. IsClosed(x, label)
    BY <2>7 DEF IsClosed
  <2>9. GoodPoint(x, p, m, label)
    <3> HIDE DEF label
    <3> QED
      BY <1>1, <2>2, <2>4, <2>5, <2>8 DEF GoodPoint
  <2> QED
    BY <2>9 DEF x
<1>3. CASE Failing(child) # {}
  <2> DEFINE first == FirstFailing(child)
             left == child[first].left
                       \cup UNION {PartsOf(child[i]) :
                                     i \in {j \in DOMAIN child : j < first}}
  <2>1. first \in Failing(child)
    <3>1. Failing(child) \in SUBSET Nat
      BY DEF Failing
    <3> QED
      BY <1>3, <3>1, MinExists DEF FirstFailing
  <2>2. x = Exception(left)
    BY <1>3 DEF Dictionary
  <2>3. \A q \in child[first].left : Mms[q].at \in Exported(m, label)
    BY <2>1 DEF Failing, GoodPoint
  <2>4. ASSUME NEW i \in DOMAIN child, NEW q \in PartsOf(child[i])
        PROVE  Mms[q].at \in Exported(m, label)
    <3>1. PICK e \in Entries(child[i]) : q = e.part
      BY <2>4 DEF PartsOf
    <3>2. child[i].kind = "point"
      BY <3>1 DEF Entries
    <3> QED
      BY <2>4, <3>1, <3>2 DEF GoodPoint, EntriesRight
  <2>5. \A q \in left : Mms[q].at \in Exported(m, label)
    <3> HIDE DEF first
    <3> QED
      BY <2>3, <2>4
  <2>6. x.kind = "exception" /\ x.left = left
    <3> HIDE DEF left, x
    <3> QED
      BY <2>2 DEF Exception
  <2> HIDE DEF x, left, label
  <2>7. GoodPoint(x, p, m, label)
    BY <2>5, <2>6 DEF GoodPoint
  <2> QED
    BY <2>7 DEF x, label
<1> QED
  BY <1>2, <1>3

\* The step of the induction.
LEMMA PartGood ==
  ASSUME NEW b, NEW member, NEW m, IsMember(member, m), IsBuild(b, member),
         NEW n, IsRegular(n, m, member.label), NEW p \in Parts, Mms[p].at = n,
         \A k \in Nodes : k > n /\ IsRegular(k, m, member.label) =>
           \A q \in Parts : Mms[q].at = k =>
             GoodPoint(b[k][q], q, m, member.label)
  PROVE  GoodPoint(BuildPart(b, member, p, n), p, m, member.label)
<1> DEFINE x == BuildPart(b, member, p, n)
<1>0. n \in Nodes /\ Server[n].member = m
  BY DEF IsRegular
<1>1. CASE Mms[p].kind = "primitive"
  <2>1. DOMAIN Server[n].children = {}
    BY <1>1, PartAt
  <2>2. TreeName(n, member.label) # Mag
    BY <1>0, <2>1, MagByName, MagChildren DEF IsMember
  <2>3. x = Point(p, NameFor(n, member.label), {}, Empty)
    BY <1>1, <2>2, RegularName DEF BuildPart
  <2>4. n \in Exported(m, member.label) /\ Kept(n, member.label) = n
    BY <2>2, RegularExported
  <2>5. GoodPoint(Point(p, NameFor(n, member.label), {}, Empty),
                  p, m, member.label)
    BY <1>1, <2>1, <2>4, LoneGood
  <2> QED
    BY <2>3, <2>5
<1>2. CASE Mms[p].kind = "structure"
  <2>1. CASE DOMAIN Mms[p].elems # DOMAIN NameChildren(member, n)
    <3>1. x = Exception({})
      BY <1>2, <2>1 DEF BuildPart, BuildStructure
    <3> QED
      BY <1>2, <3>1, ExceptionGood
  <2>2. CASE /\ DOMAIN Mms[p].elems = DOMAIN NameChildren(member, n)
             /\ TreeName(n, member.label) = Mag
    BY <1>2, <2>2, MagGood
  <2>3. CASE /\ DOMAIN Mms[p].elems = DOMAIN NameChildren(member, n)
             /\ TreeName(n, member.label) # Mag
    <3> DEFINE elems == Mms[p].elems
               child == [i \in DOMAIN elems |->
                           b[NameChildren(member, n)[i]][elems[i]]]
    <3>1. NameChildren(member, n) = Server[n].children
      BY <1>0, <1>2, <2>3, NamesKnown
    <3>2. PICK N \in Nat : DOMAIN Server[n].children = 1..N
      BY <1>0, ReadingAssumption DEF ServerAssumption, IsArray
    <3>3. DOMAIN elems = 1..N
      BY <2>3, <3>1, <3>2
    <3>4. x = Dictionary(p, NameOf(member, n), child)
      <4>1. NameOf(member, n) # Mag
        BY <2>3, RegularName
      <4> QED
        BY <1>2, <2>3, <4>1 DEF BuildPart, BuildStructure
    <3>5. ASSUME NEW i \in 1..N
          PROVE  /\ child[i].kind # "null"
                 /\ Mms[elems[i]].at = Child(n, i)
                 /\ GoodPoint(child[i], elems[i], m, member.label)
      <4> DEFINE k == Child(n, i)
                 q == elems[i]
      <4>1. k \in Nodes /\ k > n /\ Server[k].member = m /\ Parents(k) = {n}
        BY <1>0, <3>2, <3>5, ChildOf
      <4>2. IsRegular(k, m, member.label)
        BY <2>3, <4>1 DEF IsRegular
      <4>3. q \in Parts /\ Mms[q].at = k /\ Mms[q].kind # "accessError"
        BY <1>2, <2>3, <3>1, <3>3, <3>5, ElementsStand
      <4>4. child[i] = b[k][q]
        BY <3>1, <3>3, <3>5 DEF Child
      <4> HIDE DEF k, q, child
      <4>5. GoodPoint(b[k][q], q, m, member.label)
        BY <4>1, <4>2, <4>3
      <4>6. child[i].kind # "null"
        BY <4>3, <4>4, <4>5 DEF GoodPoint
      <4> QED
        BY <4>3, <4>4, <4>5, <4>6 DEF k, q
    <3>6. DOMAIN child = 1..N
      BY <3>3
    <3> HIDE DEF child, elems
    <3>7. GoodPoint(Dictionary(p, NameOf(member, n), child),
                    p, m, member.label)
      BY <1>2, <2>3, <3>2, <3>5, <3>6, DictionaryGood
    <3> QED
      BY <3>4, <3>7
  <2> QED
    BY <2>1, <2>2, <2>3
<1>3. CASE Mms[p].kind = "accessError"
  <2>1. x = NullPoint
    BY <1>3 DEF BuildPart
  <2> QED
    BY <1>3, <2>1, NullGood
<1>4. CASE Mms[p].kind \notin {"primitive", "structure", "accessError"}
  <2>1. x = Exception({})
    BY <1>4 DEF BuildPart
  <2> QED
    BY <1>4, <2>1, ExceptionGood
<1> QED
  BY <1>1, <1>2, <1>3, <1>4

\* So every conversion is good.
LEMMA BuildGood ==
  ASSUME NEW b, NEW member, NEW m, IsMember(member, m), IsBuild(b, member),
         NEW n, IsRegular(n, m, member.label), NEW p \in Parts, Mms[p].at = n
  PROVE  GoodPoint(b[n][p], p, m, member.label)
<1> DEFINE Bad(k, q) == /\ IsRegular(k, m, member.label) /\ q \in Parts /\ Mms[q].at = k
                        /\ ~GoodPoint(b[k][q], q, m, member.label)
           T == {k \in Nodes : \E q : Bad(k, q)}
<1> SUFFICES ASSUME T # {} PROVE FALSE
  BY DEF IsRegular
<1>1. PICK N \in Nat : Nodes = 1..N
  BY NodesAreNumbers
<1>2. PICK k \in T : \A j \in T : j <= k
  <2>1. T \in SUBSET (1..N)
    BY <1>1
  <2> HIDE DEF T
  <2> QED
    BY <2>1, GreatestElement
<1>3. PICK q : Bad(k, q)
  BY <1>2
<1>4. \A j \in Nodes : j > k => j \notin T
  BY <1>1, <1>2
<1>5. \A j \in Nodes : j > k /\ IsRegular(j, m, member.label) =>
        \A r \in Parts : Mms[r].at = j =>
          GoodPoint(b[j][r], r, m, member.label)
  BY <1>4
<1>6. GoodPoint(BuildPart(b, member, q, k), q, m, member.label)
  <2>1. q \in Parts /\ Mms[q].at = k /\ IsRegular(k, m, member.label)
    BY <1>3
  <2> HIDE DEF T, Bad
  <2> QED
    BY <1>5, <2>1, PartGood
<1>7. b[k][q] = BuildPart(b, member, q, k)
  BY <1>3 DEF IsBuild, Row, IsRegular
<1> QED
  BY <1>3, <1>6, <1>7

-----------------------------------------------------------------------------
(***************************************************************************)
(* A datapoint with the root of a data object has all of it: parts come    *)
(* with their children, so the first node that was missing would have a    *)
(* parent that is there.                                                   *)
(***************************************************************************)
LEMMA RootIsRegular ==
  ASSUME NEW m \in DOMAIN Members, NEW label
  PROVE  IsRegular(Members[m].node, m, label)
BY ReadingAssumption DEF ServerAssumption, IsRegular

\* A node with children is not below a mag.
LEMMA ParentIsRegular ==
  ASSUME NEW m, NEW label, FitsLabel(m, label),
         NEW n \in Nodes, Server[n].member = m,
         NEW i \in DOMAIN Server[n].children
  PROVE  IsRegular(n, m, label)
<1>1. ASSUME NEW q \in Parents(n), TreeName(q, label) = Mag PROVE FALSE
  <2>1. PICK j \in DOMAIN Server[q].children : Child(q, j) = n
    BY <1>1 DEF Parents
  <2>2. q \in Nodes
    BY <1>1 DEF Parents
  <2>3. Server[q].name = Mag
    BY <1>1, <2>1, <2>2, ChildOf, MagByName
  <2> QED
    BY <2>1, <2>2, <2>3, MagChildren
<1> QED
  BY <1>1 DEF IsRegular

\* Every node but a root has a parent.
LEMMA HasParent ==
  ASSUME NEW m, NEW n \in Nodes, Server[n].member = m, n # Members[m].node
  PROVE  \E y \in Nodes : /\ Server[y].member = m /\ n > y
                          /\ \E i \in DOMAIN Server[y].children : n = Child(y, i)
<1>1. Parents(n) # {}
  BY ReadingAssumption DEF ServerAssumption
<1>2. PICK y \in Nodes : \E i \in DOMAIN Server[y].children : Child(y, i) = n
  BY <1>1 DEF Parents
<1> QED
  BY <1>2, ChildOf

LEMMA Complete ==
  ASSUME NEW point, NEW p, NEW m \in DOMAIN Members, NEW label,
         FitsLabel(m, label),
         GoodPoint(point, p, m, label), point.kind = "point",
         Mms[p].at = Members[m].node
  PROVE  Places(point) = Exported(m, label)
<1> DEFINE root == Members[m].node
<1>1. Places(point) \subseteq Exported(m, label)
  BY PlaceHasEntry DEF GoodPoint, EntriesRight
<1>2. Kept(root, label) \in Places(point)
  BY DEF GoodPoint
<1>3. ASSUME NEW k \in Places(point), NEW i \in DOMAIN Server[k].children
      PROVE  Kept(Child(k, i), label) \in Places(point)
  BY <1>3 DEF GoodPoint, IsClosed
<1> DEFINE T == Exported(m, label) \ Places(point)
<1>4. ASSUME T # {} PROVE FALSE
  <2>1. PICK N \in Nat : Nodes = 1..N
    BY NodesAreNumbers
  <2>2. PICK d \in T : \A j \in T : ~(j < d)
    <3>1. T \in SUBSET Nat
      BY <2>1 DEF Exported
    <3> HIDE DEF T
    <3> QED
      BY <1>4, <3>1, LeastElement
  <2>3. /\ d \in Nodes /\ Server[d].member = m
        /\ TreeName(d, label) # Mag /\ ~IsSkipped(d, label)
        /\ d \notin Places(point)
    BY <2>2 DEF Exported
  <2>4. d # root
    BY <1>2, <2>3 DEF Kept
  <2>5. PICK y \in Nodes : /\ Server[y].member = m /\ d > y
                           /\ \E i \in DOMAIN Server[y].children : d = Child(y, i)
    BY <2>3, <2>4, HasParent
  <2>6. PICK i \in DOMAIN Server[y].children : d = Child(y, i)
    BY <2>5
  <2>7. \A k \in Exported(m, label) : d > k => k \in Places(point)
    BY <2>2, <2>1 DEF Exported
  <2>8. CASE TreeName(y, label) # Mag
    <3>1. y \in Places(point)
      BY <2>5, <2>6, <2>7, <2>8, ParentIsRegular, RegularExported
    <3>2. Kept(d, label) \in Places(point)
      BY <1>3, <2>6, <3>1
    <3> QED
      BY <2>3, <3>2 DEF Kept
  <2>9. CASE TreeName(y, label) = Mag
    <3>1. Kept(y, label) = d
      <4>1. y \in Parents(d)
        BY <2>6 DEF Parents
      <4> QED
        BY <2>3, <2>9, <4>1 DEF IsSkipped, Kept
    <3>2. CASE y = root
      BY <1>2, <2>3, <3>1, <3>2
    <3>3. CASE y # root
      <4>1. PICK z \in Nodes :
              /\ Server[z].member = m /\ y > z
              /\ \E j \in DOMAIN Server[z].children : y = Child(z, j)
        BY <2>5, <3>3, HasParent
      <4>2. PICK j \in DOMAIN Server[z].children : y = Child(z, j)
        BY <4>1
      <4>3. TreeName(z, label) # Mag
        <5>1. Server[y].name = Mag
          BY <2>5, <2>9, MagByName
        <5> QED
          BY <4>1, <4>2, <5>1, MagByName, MagChildren
      <4>4. z \in Exported(m, label)
        BY <4>1, <4>2, <4>3, ParentIsRegular, RegularExported
      <4>5. z \in Places(point)
        BY <2>1, <2>3, <2>5, <2>7, <4>1, <4>4
      <4>6. Kept(y, label) \in Places(point)
        BY <1>3, <4>2, <4>5
      <4> QED
        BY <2>3, <3>1, <4>6
    <3> QED
      BY <3>2, <3>3
  <2> QED
    BY <2>8, <2>9
<1> QED
  BY <1>1, <1>4

-----------------------------------------------------------------------------
(***************************************************************************)
(* One member of the dataset.                                              *)
(***************************************************************************)

\* What sendData is to get for the value p of member m, or why it gets none.
GoodReading(point, p, m, label) ==
    /\ point.kind \in {"point", "null", "exception"}
    /\ point.kind = "null" <=> Mms[p].kind = "accessError"
    /\ point.kind = "exception" => \A q \in point.left : Mms[q].at \in Exported(m, label)
    /\ point.kind = "point" =>
         /\ Places(point) = Exported(m, label)
         /\ \A e \in Entries(point) : e.name = NameFor(Mms[e.part].at, label)

LEMMA ConvertGood ==
  ASSUME NEW member, NEW m, IsMember(member, m), NEW p \in Parts,
         Mms[p].at = Members[m].node
  PROVE  GoodReading(Convert(p, member), p, m, member.label)
<1> DEFINE x == BuildDatapoint(p, member)
           y == Convert(p, member)
<1>1. PICK b : IsBuild(b, member) /\ x = b[member.node][p]
  BY DatapointBuilt
<1>2. /\ m \in DOMAIN Members /\ member.node = Members[m].node
      /\ FitsLabel(m, member.label)
  BY DEF IsMember
<1>3. GoodPoint(x, p, m, member.label)
  BY <1>1, <1>2, RootIsRegular, BuildGood
<1>4. x.kind = "point" => Places(x) = Exported(m, member.label)
  BY <1>2, <1>3, Complete
<1>5. y = InsertType(x, member.type)
  BY DEF Convert
<1> HIDE DEF x, y
<1>6. y.kind = x.kind /\ Entries(y) = Entries(x)
      /\ (x.kind # "point" => y = x)
  <2>1. CASE x.kind = "point" /\ Mms[x.part].kind = "structure"
    <3>1. y = Point(x.part, x.name, x.items, member.type)
      BY <1>5, <2>1 DEF InsertType
    <3>2. Entries(x) = {[part |-> x.part, name |-> x.name]} \cup x.items
      BY <2>1 DEF Entries
    <3> QED
      BY <2>1, <3>1, <3>2, EntriesOf
  <2>2. CASE ~(x.kind = "point" /\ Mms[x.part].kind = "structure")
    BY <1>5, <2>2 DEF InsertType
  <2> QED
    BY <2>1, <2>2
<1>7. Places(y) = Places(x)
  BY <1>6 DEF Places, PartsOf
<1>8. GoodReading(y, p, m, member.label)
  BY <1>3, <1>4, <1>6, <1>7 DEF GoodPoint, GoodReading, EntriesRight
<1> QED
  BY <1>8 DEF y

-----------------------------------------------------------------------------
(***************************************************************************)
(* The selection.                                                          *)
(***************************************************************************)
LEMMA SelectedIs ==
  ASSUME selection \in Selections, NEW path
  PROVE  \/ \E s \in DOMAIN selection : /\ Matches(selection[s], path)
                                        /\ SelectedFor(path) = selection[s]
         \/ /\ \A s \in DOMAIN selection : ~Matches(selection[s], path)
            /\ SelectedFor(path) = Unselected
<1> DEFINE matching == {s \in DOMAIN selection : Matches(selection[s], path)}
<1>1. matching \in SUBSET Nat
  <2>1. IsArray(selection)
    BY ReadingAssumption DEF LabelAssumption
  <2> QED
    BY <2>1 DEF IsArray
<1>2. matching # {} => Min(matching) \in matching
  <2> HIDE DEF matching
  <2> QED
    BY <1>1, MinExists
<1> QED
  BY <1>2 DEF SelectedFor

\* No data object is selected under the name of mag.
LEMMA SelectedLabel ==
  ASSUME selection \in Selections, NEW path
  PROVE  SelectedFor(path).label # Mag
<1>1. \A s \in DOMAIN selection : selection[s].label # Mag
  BY ReadingAssumption DEF LabelAssumption
<1>2. Empty # Mag
  BY DEF Empty, Mag
<1> QED
  BY <1>1, <1>2, SelectedIs DEF Unselected

LEMMA DoNameIsLast ==
  ASSUME NEW m \in DOMAIN Members
  PROVE  /\ DoName(Members[m].path) = Last(Members[m].path)
         /\ Last(Members[m].path) = Server[Members[m].node].name
BY ReadingAssumption DEF LabelAssumption, DoName

\* What one member of the dataset becomes.
LEMMA MemberIs ==
  ASSUME NEW answered, NEW m \in DOMAIN Members
  PROVE  LET member == DatasetMembers(answered)[m]
             chosen == SelectedFor(Members[m].path)
         IN  /\ member.node = Members[m].node
             /\ member.type = chosen.type
             /\ member.label =
                  IF \A i \in DOMAIN Members :
                       SelectedFor(Members[i].path).label = Empty
                    THEN Last(Members[m].path) ELSE chosen.label
BY DoNameIsLast DEF DatasetMembers

LEMMA DatasetDomain ==
  ASSUME NEW answered
  PROVE  DOMAIN DatasetMembers(answered) = DOMAIN Members
BY DEF DatasetMembers

\* A member of the dataset goes by a label that fits it.
LEMMA MemberFits ==
  ASSUME selection \in Selections, NEW answered, NEW m \in DOMAIN Members
  PROVE  IsMember(DatasetMembers(answered)[m], m)
<1> DEFINE member == DatasetMembers(answered)[m]
<1>1. member.node = Members[m].node
  BY MemberIs
<1>2. member.label = Mag => member.label = Last(Members[m].path)
  BY MemberIs, SelectedLabel
<1>3. FitsLabel(m, member.label)
  BY <1>2, DoNameIsLast DEF FitsLabel
<1> QED
  BY <1>1, <1>3 DEF IsMember

-----------------------------------------------------------------------------
(***************************************************************************)
(* The invariant: the names are those of the dataset, and the last reading *)
(* is the outcome of its value under them.                                 *)
(***************************************************************************)
NamesInv ==
    /\ selection \in Selections
    /\ local = Empty \/ \E answered \in SUBSET Inner :
                          local = DatasetMembers(answered)

NothingRead == value = Empty /\ sent = Empty /\ lost = {} /\ thrown = FALSE

HasRead(v) ==
    /\ value = v /\ sent = Outcome(v).sent /\ lost = Outcome(v).lost
    /\ thrown = Outcome(v).thrown

ResultInv == NothingRead \/ \E v \in Values : HasRead(v)

ReadingInv == NamesInv /\ ResultInv

LEMMA InitInv == Init => ReadingInv
BY DEF Init, ReadingInv, NamesInv, ResultInv, NothingRead, Empty

LEMMA NextInv == ReadingInv /\ [Next]_vars => ReadingInv'
<1> SUFFICES ASSUME ReadingInv, [Next]_vars PROVE ReadingInv'
  OBVIOUS
<1>1. CASE BuildNames
  <2>1. selection' = selection
    BY <1>1 DEF BuildNames
  <2>2. \A answered : DatasetMembers(answered)' = DatasetMembers(answered)
    BY <2>1 DEF DatasetMembers, SelectedFor
  <2>3. NamesInv'
    BY <1>1, <2>1, <2>2 DEF BuildNames, ReadingInv, NamesInv, Empty
  <2> QED
    BY <1>1, <2>3 DEF BuildNames, ReadingInv, ResultInv, NothingRead, Empty
<1>2. CASE ReadDataset
  <2>1. PICK v \in Values : /\ value' = v /\ sent' = Outcome(v).sent
                            /\ lost' = Outcome(v).lost
                            /\ thrown' = Outcome(v).thrown
                            /\ local' = local /\ selection' = selection
    BY <1>2 DEF ReadDataset
  <2>2. Outcome(v)' = Outcome(v)
    BY <2>1 DEF Outcome, Points, Selected, ValueOf
  <2>3. HasRead(v)'
    BY <2>1, <2>2 DEF HasRead
  <2>4. \A answered : DatasetMembers(answered)' = DatasetMembers(answered)
    BY <2>1 DEF DatasetMembers, SelectedFor
  <2> QED
    BY <2>1, <2>3, <2>4 DEF ReadingInv, NamesInv, ResultInv
<1>3. CASE UNCHANGED vars
  <2>1. local' = local /\ selection' = selection
    BY <1>3 DEF vars
  <2>2. \A v : Outcome(v)' = Outcome(v)
    BY <2>1 DEF Outcome, Points, Selected, ValueOf
  <2>3. \A answered : DatasetMembers(answered)' = DatasetMembers(answered)
    BY <2>1 DEF DatasetMembers, SelectedFor
  <2>4. NamesInv'
    BY <2>1, <2>3 DEF ReadingInv, NamesInv
  <2>5. ResultInv'
    BY <1>3, <2>2 DEF vars, ReadingInv, ResultInv, NothingRead, HasRead
  <2> QED
    BY <2>4, <2>5 DEF ReadingInv
<1> QED
  BY <1>1, <1>2, <1>3 DEF Next

THEOREM ReadingIsOutcome == Spec => []ReadingInv
BY InitInv, NextInv, PTL DEF Spec

\* The members are numbers.
LEMMA MembersAreNumbers ==
  /\ DOMAIN Members \subseteq Nat \ {0}
  /\ 1 \in DOMAIN Members
<1>1. PICK N \in Nat : DOMAIN Members = 1..N
  BY ReadingAssumption DEF ServerAssumption, IsArray
<1> QED
  BY <1>1, ReadingAssumption DEF ServerAssumption

LEMMA LocalDomain ==
  ASSUME NamesInv
  PROVE  DOMAIN local \subseteq DOMAIN Members
BY EmptyDomain, DatasetDomain DEF NamesInv

\* The datapoints of the selected members.
LEMMA PointsGood ==
  ASSUME NamesInv, NEW v \in Values, DOMAIN v = DOMAIN local,
         NEW m \in Selected
  PROVE  /\ m \in DOMAIN Members
         /\ GoodReading(Points(v)[m], v[m], m, local[m].label)
<1>1. m \in DOMAIN local /\ m \in DOMAIN Members
  BY LocalDomain DEF Selected
<1>2. PICK answered : local = DatasetMembers(answered)
  BY <1>1, EmptyDomain DEF NamesInv
<1>3. IsMember(local[m], m)
  BY <1>1, <1>2, MemberFits DEF NamesInv
<1>4. v[m] \in Parts /\ Mms[v[m]].at = Members[m].node
  BY <1>1, <1>2, DatasetDomain, ReadingAssumption DEF ValuesAssumption
<1>5. Points(v)[m] = Convert(v[m], local[m])
  BY DEF Points, ValueOf
<1> QED
  BY <1>1, <1>3, <1>4, <1>5, ConvertGood

\* What is sent, and at which member an exception ends it.
LEMMA ExportIs ==
  ASSUME NEW points, DOMAIN points \subseteq Nat
  PROVE  LET r == Export(points)
             failing == Failing(points)
         IN  /\ DOMAIN r.sent = {i \in DOMAIN points :
                                   /\ points[i].kind = "point"
                                   /\ \A j \in failing : i < j}
             /\ \A i \in DOMAIN r.sent : r.sent[i] = points[i]
             /\ IF failing = {} THEN r.thrown = FALSE /\ r.lost = {}
                  ELSE /\ r.thrown = TRUE
                       /\ FirstFailing(points) \in failing
                       /\ \A j \in failing : FirstFailing(points) <= j
                       /\ r.lost = points[FirstFailing(points)].left
<1>1. Failing(points) \in SUBSET Nat
  BY DEF Failing
<1>2. Failing(points) # {} =>
        /\ FirstFailing(points) \in Failing(points)
        /\ \A j \in Failing(points) : FirstFailing(points) <= j
  BY <1>1, MinExists DEF FirstFailing
<1> QED
  BY <1>2 DEF Export

\* What a reading has sent, when value and members were as many.
LEMMA SentIs ==
  ASSUME ReadingInv, ~NothingRead, DOMAIN value = DOMAIN local
  PROVE  /\ value \in Values
         /\ sent = Export(Points(value)).sent
         /\ lost = Export(Points(value)).lost
         /\ thrown = Export(Points(value)).thrown
         /\ DOMAIN Points(value) = Selected
         /\ Selected \subseteq Nat
<1>1. PICK v \in Values : HasRead(v)
  BY DEF ReadingInv, ResultInv
<1>2. value = v /\ Outcome(v) = Export(Points(v))
  BY <1>1 DEF HasRead, Outcome
<1>3. DOMAIN Points(value) = Selected
  BY DEF Points
<1>4. Selected \subseteq Nat
  BY LocalDomain, MembersAreNumbers DEF Selected, ReadingInv
<1> QED
  BY <1>1, <1>2, <1>3, <1>4 DEF HasRead

\* And when they were not, or nothing was read yet.
LEMMA NothingSent ==
  ASSUME ReadingInv, NothingRead \/ DOMAIN value # DOMAIN local
  PROVE  /\ DOMAIN sent = {} /\ lost = {}
         /\ thrown => ~NothingRead
         /\ ~thrown => DOMAIN value = {}
<1>1. CASE NothingRead
  BY <1>1, EmptyDomain DEF NothingRead
<1>2. CASE ~NothingRead
  <2>1. PICK v \in Values : HasRead(v)
    BY <1>2 DEF ReadingInv, ResultInv
  <2>2. Outcome(v) = [sent |-> Empty, lost |-> {}, thrown |-> TRUE]
    BY <1>2, <2>1 DEF HasRead, Outcome, Empty
  <2>3. sent = Empty /\ lost = {} /\ thrown = TRUE
    BY <2>1, <2>2 DEF HasRead
  <2> QED
    BY <1>2, <2>3, EmptyDomain
<1> QED
  BY <1>1, <1>2

\* Every datapoint that was sent is a whole data object under its names.
LEMMA SentGood ==
  ASSUME ReadingInv, NEW m \in DOMAIN sent
  PROVE  /\ Places(sent[m]) = ExportedOf(m)
         /\ \A e \in Entries(sent[m]) :
              /\ Server[Mms[e.part].at].member = m
              /\ e.name = NameFor(Mms[e.part].at, local[m].label)
<1>1. ~NothingRead /\ DOMAIN value = DOMAIN local
  BY NothingSent
<1> DEFINE points == Points(value)
<1>2. /\ value \in Values /\ sent = Export(points).sent
      /\ DOMAIN points = Selected /\ Selected \subseteq Nat
  BY <1>1, SentIs
<1>3. m \in Selected /\ sent[m] = points[m] /\ points[m].kind = "point"
  <2> HIDE DEF points
  <2>1. DOMAIN sent = {i \in Selected : /\ points[i].kind = "point"
                                        /\ \A j \in Failing(points) : i < j}
    BY <1>2, ExportIs
  <2>2. \A i \in DOMAIN sent : sent[i] = points[i]
    BY <1>2, ExportIs
  <2> QED
    BY <2>1, <2>2
<1>4. GoodReading(points[m], value[m], m, local[m].label)
  BY <1>1, <1>2, <1>3, PointsGood DEF ReadingInv
<1>5. /\ Places(sent[m]) = ExportedOf(m)
      /\ \A e \in Entries(sent[m]) :
           e.name = NameFor(Mms[e.part].at, local[m].label)
  <2> HIDE DEF points
  <2> QED
    BY <1>3, <1>4 DEF GoodReading, ExportedOf
<1>6. ASSUME NEW e \in Entries(sent[m])
      PROVE  Server[Mms[e.part].at].member = m
  <2>1. Mms[e.part].at \in ExportedOf(m)
    BY <1>5, PlacesAre
  <2> QED
    BY <2>1 DEF ExportedOf, Exported
<1> QED
  BY <1>5, <1>6

-----------------------------------------------------------------------------
(***************************************************************************)
(* The properties.                                                         *)
(***************************************************************************)

\* A value is never sent under the name of another, for every server, dataset
\* of data objects and attributes, selection and value, and whichever requests
\* for the names failed.
THEOREM ValuesUnderTheirNames == Spec => []NamesMatchValues
<1>1. ReadingInv => NamesMatchValues
  BY SentGood DEF NamesMatchValues
<1> QED
  BY ReadingIsOutcome, <1>1, PTL

\* No member of a dataset is sent in part.
THEOREM DataObjectsAreWhole == Spec => []NothingPartial
<1>1. ReadingInv => NothingPartial
  BY SentGood DEF NothingPartial
<1> QED
  BY ReadingIsOutcome, <1>1, PTL

\* An exception ends the reading at one data object: those before it are sent,
\* and the memory that is lost is a part of that one.
LEMMA LossInv ==
  ASSUME ReadingInv
  PROVE  LossIsConfined
<1> DEFINE known == DOMAIN local \cap DOMAIN value
<1>1. known \subseteq Nat \ {0}
  BY LocalDomain, MembersAreNumbers DEF ReadingInv
<1>2. CASE NothingRead \/ DOMAIN value # DOMAIN local
  <2>1. DOMAIN sent = {} /\ lost = {}
    BY <1>2, NothingSent
  <2>2. \A n : ~IsSent(n)
    BY <2>1 DEF IsSent
  <2>3. CASE thrown
    <3>1. \A n \in known : ~(n < 1)
      BY <1>1
    <3> HIDE DEF known
    <3>2. /\ lost # {} => 1 \in known
          /\ \A n \in known : IsSent(n) <=> n < 1 /\ IsDue(n)
          /\ \A p \in lost : Mms[p].at \in ExportedOf(1)
      BY <2>1, <2>2, <3>1
    <3> QED
      BY <2>3, <3>2, MembersAreNumbers DEF LossIsConfined, known
  <2>4. CASE ~thrown
    <3>1. known = {}
      BY <1>2, <2>4, NothingSent
    <3> QED
      BY <2>1, <2>4, <3>1 DEF LossIsConfined
  <2> QED
    BY <2>3, <2>4
<1>3. CASE ~NothingRead /\ DOMAIN value = DOMAIN local
  <2> DEFINE points == Points(value)
             failing == Failing(points)
             m == FirstFailing(points)
  <2>1. /\ value \in Values
        /\ sent = Export(points).sent /\ lost = Export(points).lost
        /\ thrown = Export(points).thrown
        /\ DOMAIN points = Selected /\ Selected \subseteq Nat
    BY <1>3, SentIs
  <2>2. ASSUME NEW n \in Selected
        PROVE  /\ n \in DOMAIN Members
               /\ GoodReading(points[n], value[n], n, local[n].label)
    BY <1>3, <2>1, PointsGood DEF ReadingInv
  <2> HIDE DEF points
  <2>3. /\ DOMAIN sent = {i \in Selected : /\ points[i].kind = "point"
                                           /\ \A j \in failing : i < j}
        /\ IF failing = {} THEN thrown = FALSE /\ lost = {}
             ELSE /\ thrown = TRUE /\ m \in failing
                  /\ \A j \in failing : m <= j
                  /\ lost = points[m].left
    BY <2>1, ExportIs
  <2>4. failing \subseteq Selected
    BY <2>1 DEF Failing
  <2>5. \A n \in Selected : /\ n \in failing <=> points[n].kind = "exception"
                            /\ IsDue(n) <=> points[n].kind # "null"
                            /\ points[n].kind \in {"point", "null", "exception"}
    BY <2>1, <2>2 DEF Failing, GoodReading, IsDue
  <2>6. \A n : IsSent(n) <=> n \in DOMAIN sent
    BY SentGood DEF IsSent
  <2>7. \A n : IsDue(n) => n \in Selected
    BY DEF IsDue
  <2> HIDE DEF failing, m
  <2>8. CASE failing = {}
    <3>1. \A n : IsSent(n) <=> IsDue(n)
      BY <2>3, <2>5, <2>6, <2>7, <2>8
    <3> QED
      BY <2>3, <2>8, <3>1 DEF LossIsConfined
  <2>9. CASE failing # {}
    <3>1. ASSUME NEW n PROVE IsSent(n) <=> n < m /\ IsDue(n)
      <4>1. CASE n \notin Selected
        BY <2>3, <2>6, <2>7, <4>1
      <4>2. CASE n \in Selected
        <5>1. n \in Nat /\ m \in Nat /\ failing \subseteq Nat /\ m \in failing
          BY <2>1, <2>3, <2>4, <2>9, <4>2
        <5>2. (\A j \in failing : n < j) <=> n < m
          BY <2>3, <2>9, <5>1
        <5>3. n < m => n \notin failing
          BY <2>3, <2>9, <5>1
        <5> QED
          BY <2>3, <2>5, <2>6, <4>2, <5>2, <5>3
      <4> QED
        BY <4>1, <4>2
    <3>2. /\ m \in DOMAIN Members /\ m \in DOMAIN local \cap DOMAIN value
          /\ \A p \in lost : Mms[p].at \in ExportedOf(m)
      <4>1. m \in Selected /\ points[m].kind = "exception"
        BY <2>3, <2>4, <2>5, <2>9
      <4>2. m \in DOMAIN local \cap DOMAIN value
        BY <1>3, <4>1 DEF Selected
      <4> QED
        BY <2>2, <2>3, <2>9, <4>1, <4>2 DEF GoodReading, ExportedOf
    <3> QED
      BY <2>3, <2>9, <3>1, <3>2 DEF LossIsConfined
  <2> QED
    BY <2>8, <2>9
<1> QED
  BY <1>2, <1>3

THEOREM ExceptionCostsOne == Spec => []LossIsConfined
BY ReadingIsOutcome, LossInv, PTL

-----------------------------------------------------------------------------
(***************************************************************************)
(* The selection by name, for documents in which no text of a path goes on *)
(* after the name of a selected data object (Matches finds such a text     *)
(* too) and every selected data object has a label (an empty one means     *)
(* that the member is not selected).                                       *)
(***************************************************************************)
PlainNames ==
    \A list \in Selections : \A s \in DOMAIN list :
        /\ list[s].label # Empty
        /\ \A m \in DOMAIN Members : \A i \in 2..Len(Members[m].path) :
             IsPrefix(list[s].doName, Members[m].path[i])
               => Members[m].path[i] = list[s].doName

LEMMA PrefixOfItself ==
  ASSUME NEW text, IsArray(text)
  PROVE  IsPrefix(text, text)
BY DEF IsPrefix, IsArray

LEMMA MatchesByName ==
  ASSUME PlainNames, selection \in Selections,
         NEW s \in DOMAIN selection, NEW m \in DOMAIN Members
  PROVE  Matches(selection[s], Members[m].path)
           <=> IsNamed(selection[s], Members[m].path)
<1> DEFINE name == selection[s].doName
           path == Members[m].path
<1>1. IsPrefix(name, name)
  BY PrefixOfItself, ReadingAssumption DEF LabelAssumption
<1>2. ASSUME NEW i \in 2..Len(path)
      PROVE  IsPrefix(name, path[i]) <=> path[i] = name
  BY <1>1 DEF PlainNames
<1> QED
  BY <1>2 DEF Matches, IsNamed

LEMMA SelectionInv ==
  ASSUME PlainNames, NamesInv
  PROVE  SelectionByName
<1> SUFFICES ASSUME NEW m \in DOMAIN local
             PROVE  \/ \E s \in DOMAIN selection :
                         /\ IsNamed(selection[s], Members[m].path)
                         /\ local[m].label = selection[s].label
                         /\ local[m].type = selection[s].type
                    \/ /\ \A s \in DOMAIN selection :
                            ~IsNamed(selection[s], Members[m].path)
                       /\ local[m].label =
                            IF \E n \in DOMAIN Members, s \in DOMAIN selection :
                                 IsNamed(selection[s], Members[n].path)
                              THEN Empty ELSE Last(Members[m].path)
  BY DEF SelectionByName
<1>1. m \in DOMAIN Members
  BY LocalDomain
<1>2. PICK answered : local = DatasetMembers(answered)
  BY EmptyDomain DEF NamesInv
<1> DEFINE Chosen(n) == SelectedFor(Members[n].path)
           none == \A n \in DOMAIN Members : Chosen(n).label = Empty
<1>3. /\ local[m].type = Chosen(m).type
      /\ local[m].label = IF none THEN Last(Members[m].path)
                                  ELSE Chosen(m).label
  BY <1>1, <1>2, MemberIs
<1>4. ASSUME NEW n \in DOMAIN Members
      PROVE  \/ \E s \in DOMAIN selection :
                  /\ IsNamed(selection[s], Members[n].path)
                  /\ Chosen(n) = selection[s] /\ Chosen(n).label # Empty
             \/ /\ \A s \in DOMAIN selection :
                     ~IsNamed(selection[s], Members[n].path)
                /\ Chosen(n).label = Empty
  <2>1. selection \in Selections
    BY DEF NamesInv
  <2>2. \A s \in DOMAIN selection : selection[s].label # Empty
    BY <2>1 DEF PlainNames
  <2> QED
    BY <2>1, <2>2, SelectedIs, MatchesByName DEF Unselected
<1> HIDE DEF Chosen
<1>5. none <=> ~\E n \in DOMAIN Members, s \in DOMAIN selection :
                    IsNamed(selection[s], Members[n].path)
  BY <1>4
<1>6. CASE \E s \in DOMAIN selection : IsNamed(selection[s], Members[m].path)
  <2>1. ~none
    BY <1>1, <1>5, <1>6
  <2>2. PICK s \in DOMAIN selection :
          /\ IsNamed(selection[s], Members[m].path)
          /\ Chosen(m) = selection[s]
    BY <1>1, <1>4, <1>6
  <2> HIDE DEF none
  <2> QED
    BY <1>3, <2>1, <2>2
<1>7. CASE \A s \in DOMAIN selection : ~IsNamed(selection[s], Members[m].path)
  <2>1. Chosen(m).label = Empty
    BY <1>1, <1>4, <1>7
  <2> HIDE DEF none
  <2> QED
    BY <1>3, <1>5, <1>7, <2>1
<1> QED
  BY <1>6, <1>7

\* Where no name goes on after that of a selected data object, a member has
\* the label of the selected data object with its name.
THEOREM SelectedByName ==
  ASSUME PlainNames
  PROVE  Spec => []SelectionByName
<1>1. ReadingInv => SelectionByName
  BY SelectionInv DEF ReadingInv
<1> QED
  BY ReadingIsOutcome, <1>1, PTL
=============================================================================
