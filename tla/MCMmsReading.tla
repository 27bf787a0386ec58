---------------------------- MODULE MCMmsReading ----------------------------
(***************************************************************************)
(* A dataset of three data objects and two attributes for TLC, and the     *)
(* values it is read with: as the server has them, with an access error,   *)
(* with a member less, with a data object of another shape, and with an    *)
(* attribute of a type that the conversion does not know.                  *)
(***************************************************************************)
EXTENDS MmsReading

Root(name, member, children) ==
    [name |-> name, member |-> member, children |-> children]
Node(name, member, children) == Root(<<name>>, member, children)

\* The nodes of a data object of the given member from number n on.
Status(name, member, n) ==
    <<Root(name, member, <<n + 1, n + 2, n + 3>>),
      Node("stVal", member, <<>>), Node("q", member, <<>>),
      Node("t", member, <<>>)>>
Measure(name, member, n) ==
    <<Root(name, member, <<n + 1, n + 4, n + 5>>),
      Node("mag", member, <<n + 2, n + 3>>),
      Node("f", member, <<>>), Node("i", member, <<>>),
      Node("q", member, <<>>),
      Node("range", member, <<n + 6, n + 7>>),
      Node("min", member, <<>>), Node("max", member, <<>>)>>

LN == <<"GGIO1">>
One == <<"SPSSO", "1">>
Ten == <<"SPSSO", "1", "0">>
Two == <<"SPSSO", "2">>
Three == <<"SPSSO", "3">>
AnIn == <<"AnIn">>
Four == <<"SPCSO", "4">>
Other == <<"AnOut">>

\* No name of this dataset begins with another.  The last two members are
\* attributes: a status and an analogue value.
PlainServer ==
    Status(Two, 1, 1) \o Status(Three, 2, 5) \o Measure(AnIn, 3, 9)
      \o <<Node("stVal", 4, <<>>), Node("mag", 5, <<19, 20>>),
           Node("f", 5, <<>>), Node("i", 5, <<>>)>>
PlainMembers ==
    <<[path |-> <<LN, Two>>,                 node |-> 1],
      [path |-> <<LN, Three>>,               node |-> 5],
      [path |-> <<LN, AnIn>>,                node |-> 9],
      [path |-> <<LN, Four, <<"stVal">>>>,   node |-> 17],
      [path |-> <<LN, Other, <<"mag">>>>,    node |-> 18]>>

\* The name of the second data object begins with the name of the first.
LikeServer == Status(One, 1, 1) \o Status(Ten, 2, 5)
LikeMembers ==
    <<[path |-> <<LN, One>>, node |-> 1],
      [path |-> <<LN, Ten>>, node |-> 5]>>

Select(doName, label) ==
    [doName |-> doName, label |-> label, type |-> <<"SPS">>]

\* Two data objects are selected; an attribute of each kind, under a label
\* and under a name that the mapping changes; none of the dataset's.
SelectTwo == <<Select(AnIn, <<"MV1">>), Select(Two, <<"TS2">>)>>
SelectAttributes == <<Select(Four, <<"t">>), Select(Other, <<"MV2">>)>>
SelectForeign == <<Select(One, <<"TS1">>)>>
PlainSelections == {SelectTwo, SelectAttributes, SelectForeign}

LikeSelections == {<<Select(One, <<"TS1">>), Select(Ten, <<"TS10">>)>>}

\* A part of a value is <<how, n>>: what the server answers for node n.
Answers == {"right", "spoiled", "accessError", "unsupported", "changed"}

\* "spoiled" is the right value with an unsupported type in its last
\* attribute, "changed" a structure of the first attribute only.
PartOf(how, n) ==
    LET children == Server[n].children
        Elements(list) ==
          [i \in DOMAIN list |->
             <<IF how = "spoiled" /\ i = Len(list) THEN "spoiled" ELSE "right",
               list[i]>>]
    IN  [at    |-> n,
         kind  |-> IF how \in {"accessError", "unsupported"} THEN how
                   ELSE IF children # <<>> THEN "structure"
                   ELSE IF how = "right" THEN "primitive"
                   ELSE "unsupported",
         elems |-> IF how = "changed" /\ children # <<>>
                     THEN Elements(<<children[1]>>)
                     ELSE Elements(children)]

SmallMms ==
    [p \in Answers \X DOMAIN Server |-> PartOf(p[1], p[2])]

Right == [i \in DOMAIN Members |-> <<"right", Members[i].node>>]

SmallValues ==
    {Right, Tail(Right)}
      \cup {[Right EXCEPT ![i] = <<how, Members[i].node>>] :
              i \in DOMAIN Members, how \in Answers}
=============================================================================
