--------------------------- MODULE MCOsiParameters ---------------------------
(***************************************************************************)
(* Sections for TLC: around one that is all valid, every pair of selectors *)
(* takes every small text, and every title and qualifier varies.  Arrays   *)
(* have two cells, those of the T-selectors one.                           *)
(***************************************************************************)
EXTENDS OsiParameters

SmallRoom == [l \in Layers |-> IF l = "T" THEN 1 ELSE 2]

Texts == {Absent, Malformed, <<>>, <<0>>, <<255>>, <<256>>, <<NotANumber>>,
          <<7, 8>>, <<0, 1, 2>>}

Base ==
    [title     |-> [e \in Ends |-> <<"1", ".", "3">>],
     qualifier |-> [local |-> 12, remote |-> 1],
     selector  |-> [p \in Places |-> IF p[1] = "local" THEN <<1>> ELSE <<2>>]]

SelectorSections ==
    {[Base EXCEPT !.selector[p1] = x, !.selector[p2] = y] :
        p1 \in Places, p2 \in Places, x \in Texts, y \in Texts}

\* Titles with each separator, of separators only, empty, and illegal.
SmallTitles == {Absent, Malformed, <<>>, <<"1", ",", "3", ".", "9">>,
                <<",">>, <<"1", Other, "3">>}

TitleSections ==
    {[Base EXCEPT !.title = [local |-> t, remote |-> u],
                  !.qualifier = [local |-> q, remote |-> r]] :
        t \in SmallTitles, u \in SmallTitles,
        q \in {Absent, Malformed, 12}, r \in {Absent, 1}}

SmallSections == SelectorSections \cup TitleSections

\* The memory of a structure: cleared, or full of something.
Cells(p, byte, size) ==
    [size |-> size, value |-> [i \in 1..(SmallRoom[p[2]] + 1) |-> byte]]
SmallGarbage ==
    {[p \in Places |-> Cells(p, 0, 0)], [p \in Places |-> Cells(p, 99, 1)]}
==============================================================================
