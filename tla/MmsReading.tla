----------------------------- MODULE MmsReading -----------------------------
(***************************************************************************)
(* How a value of the server becomes a reading of Fledge: the name trees   *)
(* that buildConfigurationNameTrees asks from the server for a dataset,    *)
(* the choice of its data objects, and the conversion of the values by     *)
(* readAndExportOneDataset and buildDatapointFromMms.  A data object that  *)
(* is read on its own goes through the same Convert.                       *)
(*                                                                         *)
(* A text is the sequence of its pieces, so that one name may begin with   *)
(* another: <<"SPSSO", "1">> and <<"SPSSO", "1", "0">>.                    *)
(***************************************************************************)
EXTENDS Naturals, SequencesExt

CONSTANTS
    Server,       \* the data objects and attributes of the server, parents
                  \* before children: [name, children, member]
    Members,      \* the members of the dataset, in the order of the server:
                  \* [path |-> texts between the dots, node]
    Selections,   \* the lists of selected data objects that the document may
                  \* have, in its order: [doName, label, type]
    Mms,          \* the values and their parts: [kind, elems, at], at being
                  \* the node whose value it is
    Values        \* the values that the dataset may be read with

VARIABLES
    selection,    \* the dataset's entry of m_selectedDOInExchangedDatasets
    local,        \* the dataset's entry of m_localExchangedDatasets
    value,        \* what was read last
    sent,         \* the datapoints that this reading passed to sendData
    lost,         \* the parts of the value in those that it never freed
    thrown        \* did it end by an exception?

vars == <<selection, local, value, sent, lost, thrown>>

Nodes == DOMAIN Server
Parts == DOMAIN Mms

Empty == <<>>
Dot == <<".">>
Mag == <<"mag">>
NoName == <<"noName">>

-----------------------------------------------------------------------------
(***************************************************************************)
(* The members of the dataset.                                             *)
(***************************************************************************)

\* doPath.find("." + dataPath): the name found may go on.
Matches(selected, path) ==
    \E i \in 2..Len(path) : IsPrefix(selected.doName, path[i])

Unselected == [doName |-> Empty, label |-> Empty, type |-> Empty]

\* The first selected data object that matches.
SelectedFor(path) ==
    LET matching == {s \in DOMAIN selection : Matches(selection[s], path)}
    IN  IF matching = {} THEN Unselected ELSE selection[Min(matching)]

\* The text after the last dot of a path.
DoName(path) == IF Len(path) > 1 THEN Last(path) ELSE NoName

\* Faulty variant: a member that is not selected always keeps its own name.
DatasetMembersAll(answered) ==
    [i \in DOMAIN Members |->
       LET chosen == SelectedFor(Members[i].path)
       IN  [node |-> Members[i].node, answered |-> answered,
            type |-> chosen.type,
            label |-> IF chosen.label = Empty THEN DoName(Members[i].path)
                                              ELSE chosen.label]]

\* When no member is selected, all are, under their own names.  A member
\* keeps its tree of names: see NameChildren.
DatasetMembers(answered) ==
    LET chosen == [i \in DOMAIN Members |-> SelectedFor(Members[i].path)]
        none   == \A i \in DOMAIN Members : chosen[i].label = Empty
    IN  [i \in DOMAIN Members |->
           [node |-> Members[i].node, answered |-> answered,
            type |-> chosen[i].type,
            label |-> IF none THEN DoName(Members[i].path)
                              ELSE chosen[i].label]]

-----------------------------------------------------------------------------
(***************************************************************************)
(* The name tree of a member.  buildNameTree asks for the children of each *)
(* node by one request, and a node whose request fails has none; the root  *)
(* is given the label.                                                     *)
(***************************************************************************)
NameChildren(member, n) ==
    IF n \in member.answered THEN Server[n].children ELSE Empty

NameOf(member, n) ==
    IF n = member.node THEN member.label ELSE Server[n].name

-----------------------------------------------------------------------------
(***************************************************************************)
(* The conversion.  The kind of a part is "structure", "primitive",        *)
(* "accessError" or "unsupported".  A datapoint is flat: the part that it  *)
(* was made of, its name, and the same of each of its items, with those of *)
(* theirs; type is the do_type that was inserted before them.              *)
(***************************************************************************)
Renamed(name) ==
    CASE name = <<"cdc">>                                   -> <<"do_type">>
      [] name \in {<<"stVal">>, <<"mag", ".", "value">>,
                   <<"mag", ".", "f">>}                     -> <<"do_value">>
      [] name = <<"q">>                                     -> <<"do_quality">>
      [] name = <<"t">>                                     -> <<"do_ts">>
      [] OTHER                                              -> name

Point(part, name, items, type) ==
    [kind |-> "point", part |-> part, name |-> name, items |-> items,
     type |-> type]

NullPoint == [kind |-> "null"]

\* An exception, and the parts whose datapoints it leaves in a vector that
\* nobody has.
Exception(left) == [kind |-> "exception", left |-> left]

Entries(point) ==
    IF point.kind = "point"
      THEN {[part |-> point.part, name |-> point.name]} \cup point.items
      ELSE {}

PartsOf(point) == {e.part : e \in Entries(point)}

\* The index of the first exception among points.
Failing(points) == {i \in DOMAIN points : points[i].kind = "exception"}
FirstFailing(points) == Min(Failing(points))

\* A dictionary of its children, which are converted one after the other.
Dictionary(p, name, child) ==
    IF Failing(child) = {}
      THEN Point(p, Renamed(name),
                 UNION {Entries(child[i]) : i \in DOMAIN child}, Empty)
      ELSE LET first == FirstFailing(child)
           IN  Exception(child[first].left
                           \cup UNION {PartsOf(child[i]) :
                                         i \in {j \in DOMAIN child : j < first}})

\* Of "mag" only the first child is kept, under a name joined from both.
FirstOfMag(child) ==
    IF child.kind = "exception" THEN child
      ELSE Point(child.part, Renamed(Mag \o Dot \o child.name), child.items,
                 Empty)

\* Faulty variant: the sizes of value and names are only compared in mag.
BuildStructureUnsized(build, member, p, n) ==
    LET elems == Mms[p].elems
        names == NameChildren(member, n)
    IN  IF NameOf(member, n) = Mag
          THEN IF names = Empty THEN Exception({})
                 ELSE FirstOfMag(build[names[1]][elems[1]])
          ELSE Dictionary(p, NameOf(member, n),
                          [i \in DOMAIN names \cap DOMAIN elems |->
                             build[names[i]][elems[i]]])

BuildStructure(build, member, p, n) ==
    LET elems == Mms[p].elems
        names == NameChildren(member, n)
    IN  IF DOMAIN elems # DOMAIN names THEN Exception({})
        ELSE IF NameOf(member, n) = Mag
          THEN FirstOfMag(build[names[1]][elems[1]])
        ELSE Dictionary(p, NameOf(member, n),
                        [i \in DOMAIN elems |-> build[names[i]][elems[i]]])

\* The conversion of part p under the names of node n, where build[k][q] is
\* that of part q under the names of k.
BuildPart(build, member, p, n) ==
    CASE Mms[p].kind = "primitive" ->
           Point(p, Renamed(NameOf(member, n)), {}, Empty)
      [] Mms[p].kind = "structure"   -> BuildStructure(build, member, p, n)
      [] Mms[p].kind = "accessError" -> NullPoint
      [] OTHER                       -> Exception({})

BuildDatapoint(p, member) ==
    LET build[n \in Nodes] ==
          [q \in Parts |-> BuildPart(build, member, q, n)]
    IN  build[member.node][p]

\* insertTypeInDatapoint: a dictionary begins with the configured type.
InsertType(point, type) ==
    IF point.kind = "point" /\ Mms[point.part].kind = "structure"
      THEN Point(point.part, point.name, point.items, type)
      ELSE point

Convert(p, member) == InsertType(BuildDatapoint(p, member), member.type)

-----------------------------------------------------------------------------
Init ==
    /\ selection \in Selections
    /\ local = <<>> /\ value = <<>> /\ sent = <<>>
    /\ lost = {} /\ thrown = FALSE

\* The nodes that have children: the requests whose answer matters.
Inner == {n \in Nodes : DOMAIN Server[n].children # {}}

\* The part of buildConfigurationNameTrees for one dataset.  Without an
\* answer for its directory the dataset has no members.
BuildNames ==
    /\ \/ local' = <<>>
       \/ \E answered \in SUBSET Inner : local' = DatasetMembers(answered)
    /\ value' = <<>> /\ sent' = <<>> /\ lost' = {} /\ thrown' = FALSE
    /\ UNCHANGED selection

Selected == {i \in DOMAIN local : local[i].label # Empty}

\* Faulty variant: an ignored member does not advance the index.
ValueOfSkipping(v, i) == v[Cardinality({j \in Selected : j <= i})]

\* Member i has the i-th value, whether those before it are sent or not.
ValueOf(v, i) == v[i]

Points(v) == [i \in Selected |-> Convert(ValueOf(v, i), local[i])]

\* Faulty variant: all members are converted before the first one is sent.
ExportAtOnce(points) ==
    IF Failing(points) = {}
      THEN [sent |-> [i \in {j \in DOMAIN points : points[j].kind = "point"} |->
                        points[i]],
            lost |-> {}, thrown |-> FALSE]
      ELSE LET first == FirstFailing(points)
           IN  [sent |-> <<>>, thrown |-> TRUE,
                lost |-> points[first].left
                           \cup UNION {PartsOf(points[i]) :
                                        i \in {j \in DOMAIN points : j < first}}]

\* The members are converted and sent one after the other, up to the first
\* exception; sendData ignores a null datapoint.
Export(points) ==
    LET failing == Failing(points)
        done    == {i \in DOMAIN points : \A j \in failing : i < j}
    IN  [sent   |-> [i \in {j \in done : points[j].kind = "point"} |->
                  points[i]],
         lost   |-> IF failing = {} THEN {}
                      ELSE points[FirstFailing(points)].left,
         thrown |-> failing # {}]

\* readAndExportOneDataset: values and members must be as many.
Outcome(v) ==
    IF DOMAIN v = DOMAIN local THEN Export(Points(v))
      ELSE [sent |-> <<>>, lost |-> {}, thrown |-> TRUE]

ReadDataset ==
    \E v \in Values :
        /\ value' = v
        /\ sent' = Outcome(v).sent
        /\ lost' = Outcome(v).lost
        /\ thrown' = Outcome(v).thrown
        /\ UNCHANGED <<selection, local>>

Next == BuildNames \/ ReadDataset

Spec == Init /\ [][Next]_vars

-----------------------------------------------------------------------------
(***************************************************************************)
(* What the constants are.                                                 *)
(***************************************************************************)
IsArray(list) == Len(list) \in Nat /\ DOMAIN list = 1..Len(list)

Child(n, i) == Server[n].children[i]
Parents(n) == {q \in Nodes : \E i \in DOMAIN Server[q].children : Child(q, i) = n}

\* The server's part of a data object is a tree below its member of the
\* dataset.  An attribute named mag, a member or below one, is the
\* AnalogueValue of IEC 61850-7-3: a structure of plain values, which no name
\* of the mapping stands for.
ServerAssumption ==
    /\ IsArray(Server) /\ IsArray(Members) /\ DOMAIN Members # {}
    /\ \A n \in Nodes :
         /\ IsArray(Server[n].children)
         /\ \A i \in DOMAIN Server[n].children :
              /\ Child(n, i) \in Nodes /\ Child(n, i) > n
              /\ Server[Child(n, i)].member = Server[n].member
         /\ Server[n].member \in DOMAIN Members
         /\ \A q, r \in Parents(n) : q = r
         /\ Parents(n) = {} <=> n = Members[Server[n].member].node
         /\ Server[n].name = Mag =>
              /\ DOMAIN Server[n].children # {}
              /\ \A i \in DOMAIN Server[n].children :
                   /\ DOMAIN Server[Child(n, i)].children = {}
                   /\ Server[Child(n, i)].name # Mag
                   /\ Renamed(Server[Child(n, i)].name)
                        = Server[Child(n, i)].name
    /\ \A m \in DOMAIN Members :
         Members[m].node \in Nodes /\ Server[Members[m].node].member = m

\* The path of a member, a data object or one of its attributes, begins with
\* the text of its logical node and ends with its own name.  Any label may be
\* configured but "mag", by which the conversion tells an analogue value.
LabelAssumption ==
    /\ \A list \in Selections :
         /\ IsArray(list)
         /\ \A s \in DOMAIN list : IsArray(list[s].doName) /\ list[s].label # Mag
    /\ \A m \in DOMAIN Members :
         /\ IsArray(Members[m].path) /\ Len(Members[m].path) > 1
         /\ Last(Members[m].path) = Server[Members[m].node].name

\* The values of the server: a structure has the shape of its node or any
\* other, and its elements stand where their nodes do; a plain value is that
\* of an attribute.  The library knows access errors for whole data objects,
\* never inside of one.
ValuesAssumption ==
    /\ \A p \in Parts :
         LET val == Mms[p] IN
         /\ val.at \in Nodes
         /\ val.kind = "primitive" => DOMAIN Server[val.at].children = {}
         /\ val.kind = "structure" =>
              /\ DOMAIN val.elems # {}
              /\ DOMAIN val.elems = DOMAIN Server[val.at].children =>
                   \A i \in DOMAIN val.elems :
                     /\ val.elems[i] \in Parts
                     /\ Mms[val.elems[i]].at = Child(val.at, i)
                     /\ Mms[val.elems[i]].kind # "accessError"
    /\ \A v \in Values :
         DOMAIN v = DOMAIN Members =>
           \A m \in DOMAIN Members :
             v[m] \in Parts /\ Mms[v[m]].at = Members[m].node

ASSUME ReadingAssumption ==
    ServerAssumption /\ LabelAssumption /\ ValuesAssumption

-----------------------------------------------------------------------------
(***************************************************************************)
(* What a reading should be, said of the server and without the recursion. *)
(***************************************************************************)

\* The name that a node goes by in a dataset in which its member has the
\* given label: the member itself goes by that.
TreeName(n, label) ==
    IF n = Members[Server[n].member].node THEN label ELSE Server[n].name

\* A child of mag that is not its first, and one that is.
IsSkipped(n, label) ==
    \E q \in Parents(n) : TreeName(q, label) = Mag /\ Child(q, 1) # n
IsMagnitude(n, label) ==
    \E q \in Parents(n) : TreeName(q, label) = Mag /\ Child(q, 1) = n

\* What Fledge is to get of a member: everything but a mag itself and the
\* children of one that are not its first.
Exported(m, label) ==
    {n \in Nodes : /\ Server[n].member = m
                   /\ TreeName(n, label) # Mag /\ ~IsSkipped(n, label)}

\* The name under which Fledge is to get it: the mapping of the plugin
\* applies to all of them, so that the lone attribute stVal is a do_value.
NameFor(n, label) ==
    IF IsMagnitude(n, label) THEN Renamed(Mag \o Dot \o Server[n].name)
                             ELSE Renamed(TreeName(n, label))

Places(point) == {Mms[p].at : p \in PartsOf(point)}

\* A value is never sent under the name of another: each part of a value that
\* reaches Fledge has the name that the mapping gives to the label of its own
\* member or to its own attribute, whatever requests failed while the names
\* were asked.
NamesMatchValues ==
    \A m \in DOMAIN sent : \A e \in Entries(sent[m]) :
        LET n == Mms[e.part].at
        IN  e.name = NameFor(n, local[Server[n].member].label)

ExportedOf(m) == Exported(m, local[m].label)

\* No member is sent in part: with an incomplete tree of names it is refused
\* as a whole, so that a reading has all of its attributes.
NothingPartial ==
    \A m \in DOMAIN sent : Places(sent[m]) = ExportedOf(m)

\* Is member m sent, with all of its attributes?
IsSent(m) == m \in DOMAIN sent /\ Places(sent[m]) = ExportedOf(m)

\* Is it to be sent?
IsDue(m) == m \in Selected /\ Mms[value[m]].kind # "accessError"

\* An exception costs Fledge no other data object than the one at which it
\* ended the reading and those after it: all selected ones before that one
\* were sent.  The memory that it leaks is a part of that one alone, and of
\* nothing that Fledge owns; a reading without an exception leaks none.
LossIsConfined ==
    LET known == DOMAIN local \cap DOMAIN value
    IN  IF thrown
          THEN \E m \in DOMAIN Members :
                 /\ \A n \in known : IsSent(n) <=> n < m /\ IsDue(n)
                 /\ lost # {} => m \in known
                 /\ \A p \in lost : Mms[p].at \in ExportedOf(m)
          ELSE /\ \A n \in known : IsSent(n) <=> IsDue(n)
               /\ lost = {}

\* The selected data object that has the very name of the member.
IsNamed(selected, path) == \E i \in 2..Len(path) : path[i] = selected.doName

\* A member gets the label of the selected data object that has its name; one
\* that is not selected has none, unless nothing at all is selected.
SelectionByName ==
    \A m \in DOMAIN local :
        \/ \E s \in DOMAIN selection :
             /\ IsNamed(selection[s], Members[m].path)
             /\ local[m].label = selection[s].label
             /\ local[m].type = selection[s].type
        \/ /\ \A s \in DOMAIN selection :
                ~IsNamed(selection[s], Members[m].path)
           /\ local[m].label =
                IF \E n \in DOMAIN Members, s \in DOMAIN selection :
                     IsNamed(selection[s], Members[n].path)
                  THEN Empty ELSE Last(Members[m].path)
=============================================================================
