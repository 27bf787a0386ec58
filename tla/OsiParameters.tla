---------------------------- MODULE OsiParameters ----------------------------
(***************************************************************************)
(* The lower layers of a connection: how the "osi" section of a server is  *)
(* parsed into its OsiParameters, and what setOsiConnectionParameters then *)
(* gives to libiec61850.                                                   *)
(*                                                                         *)
(* A selector is written as the sequence of its tokens, each the number    *)
(* that stoul makes of it, or NotANumber.  The parser stores the tokens    *)
(* one after the other in an array of a C structure; the cell behind the   *)
(* array is part of the model, so that a store into it can be seen.  A      *)
(* title is the sequence of its characters.                                *)
(***************************************************************************)
EXTENDS Naturals, Sequences, SequencesExt

CONSTANTS
    Sections,     \* the "osi" sections that a document may hold
    Garbage,      \* what the selectors of a new OsiParameters may hold
    Room,         \* the cells of the array, by layer: 16, 16 and 4
    Absent,       \* a JSON member that is not there, a value never given
    Malformed,    \* a JSON value of the wrong type
    NotANumber,   \* a token without digits, or beyond an unsigned long
    Other         \* a character that is neither a digit, a comma nor a dot

Layers == {"P", "S", "T"}
Ends == {"local", "remote"}
Places == Ends \X Layers
MaxByte == 255
Octets == 0..MaxByte
Digits == {"0", "1", "2", "3", "4", "5", "6", "7", "8", "9"}
Characters == Digits \cup {",", ".", Other}

\* What a selector of this many cells may hold as a C structure; the cell
\* behind the array is the last one.
Memory(room) == [value : [1..(room + 1) -> Octets], size : Octets]

ASSUME OsiAssumption ==
    /\ Room \in [Layers -> 1..MaxByte]
    /\ NotANumber \notin Nat
    /\ Other \notin Digits \cup {",", "."}
    /\ Malformed # Absent
    /\ \A garbage \in Garbage :
         /\ garbage = [p \in Places |-> garbage[p]]
         /\ \A p \in Places : garbage[p] \in Memory(Room[p[2]])
    /\ \A sec \in Sections :
         /\ \A p \in Places : sec.selector[p] \in
              {Absent, Malformed} \cup Seq(Nat \cup {NotANumber})
         /\ \A e \in Ends : sec.title[e] \in
              {Absent, Malformed} \cup Seq(Characters)

VARIABLES
    section,      \* the section that is imported, of
                  \*   [title, qualifier : [Ends -> ...],
                  \*    selector : [Places -> ...]]
    before,       \* what the memory of the selectors held before the import
    titles,       \* localApTitle and remoteApTitle
    qualifiers,   \* localAeQualifier and remoteAeQualifier
    selectors,    \* the memory of the selectors, as the import leaves it
    next,         \* the part of the section that is imported next
    thrown,       \* did an exception end the import?
    given         \* the IsoConnectionParameters of the library, or Absent

osi == <<titles, qualifiers, selectors>>
vars == <<section, before, osi, next, thrown, given>>

\* The selectors in the order of importJsonConnectionOsiSelectors.
Order == <<<<"local", "P">>, <<"local", "S">>, <<"local", "T">>,
           <<"remote", "P">>, <<"remote", "S">>, <<"remote", "T">>>>
Imported == next = Len(Order) + 1

Init ==
    /\ section \in Sections
    /\ before \in Garbage
    /\ titles = [e \in Ends |-> <<>>]
    /\ qualifiers = [e \in Ends |-> 0]
    /\ selectors = before
    /\ next = 0
    /\ thrown = FALSE
    /\ given = Absent

-----------------------------------------------------------------------------
(***************************************************************************)
(* parseOsiSelector.                                                       *)
(***************************************************************************)

\* Faulty variant: the bound is tested after the store.
ParseTokenStoreFirst(room, parse, token) ==
    IF ~parse.ok \/ token \notin Octets
      THEN [parse EXCEPT !.ok = FALSE]
      ELSE [value |-> [parse.value EXCEPT ![parse.count + 1] = token],
            count |-> parse.count + 1,
            ok    |-> parse.count < room]

\* Faulty variant: a number that exceeds a byte is cut.
ParseTokenCut(room, parse, token) ==
    IF ~parse.ok \/ parse.count >= room \/ token = NotANumber
      THEN [parse EXCEPT !.ok = FALSE]
      ELSE [parse EXCEPT !.value[parse.count + 1] = token % (MaxByte + 1),
                         !.count = @ + 1]

\* One round of its loop; an exception leaves it.
ParseToken(room, parse, token) ==
    IF ~parse.ok \/ parse.count >= room \/ token \notin Octets
      THEN [parse EXCEPT !.ok = FALSE]
      ELSE [value |-> [parse.value EXCEPT ![parse.count + 1] = token],
            count |-> parse.count + 1,
            ok    |-> TRUE]

\* The loop over the tokens: the state before it, and after each round.
ParseRounds(tokens, memory, room) ==
    LET after[i \in 0..Len(tokens)] ==
          IF i = 0 THEN [value |-> memory, count |-> 0, ok |-> TRUE]
                   ELSE ParseToken(room, after[i - 1], tokens[i])
    IN  after

ParseOsiSelector(tokens, memory, room) ==
    ParseRounds(tokens, memory, room)[Len(tokens)]

\* A selector of the section over the memory of the structure: one that is
\* not there leaves the memory as it is, the size included, and an exception
\* leaves the bytes that were stored before it.
SelectorOver(written, memory, room) ==
    CASE written = Absent    -> [selector |-> memory, ok |-> TRUE]
      [] written = Malformed -> [selector |-> memory, ok |-> FALSE]
      [] OTHER ->
           LET parse == ParseOsiSelector(written, memory.value, room)
           IN  [ok       |-> parse.ok,
                selector |-> [value |-> parse.value,
                              size  |-> IF parse.ok THEN parse.count
                                                    ELSE memory.size]]

-----------------------------------------------------------------------------
(***************************************************************************)
(* importJsonConnectionOsiConfig: the qualifiers and the titles, then the  *)
(* selectors one after the other.  The first exception ends it.            *)
(***************************************************************************)

\* Faulty variant: the commas are only left out of the check.
TitleTextKept(written) == IF written = Absent THEN <<>> ELSE written

\* std::replace: the commas of a title become dots.
TitleText(written) ==
    IF written = Absent THEN <<>>
      ELSE [i \in DOMAIN written |-> IF written[i] = "," THEN "."
                                                       ELSE written[i]]

\* What is left of a title without its dots has to be digits.
IsTitle(written) ==
    /\ written # Malformed
    /\ written # Absent =>
         \A i \in DOMAIN written : written[i] \in Digits \cup {",", "."}

Qualifier(written) == IF written = Absent THEN 0 ELSE written

\* (What an exception leaves of them is lost with the connection's record:
\* only an import that returns stores that.)
ImportTitles ==
    /\ next = 0 /\ ~thrown
    /\ IF \A e \in Ends : /\ section.qualifier[e] # Malformed
                           /\ IsTitle(section.title[e])
         THEN /\ titles' = [e \in Ends |-> TitleText(section.title[e])]
              /\ qualifiers' = [e \in Ends |-> Qualifier(section.qualifier[e])]
              /\ next' = 1
              /\ UNCHANGED thrown
         ELSE /\ thrown' = TRUE
              /\ UNCHANGED <<titles, qualifiers, next>>
    /\ UNCHANGED <<section, before, selectors, given>>

\* One of the six blocks of importJsonConnectionOsiSelectors.
ImportSelector ==
    /\ next \in DOMAIN Order /\ ~thrown
    /\ LET p == Order[next]
           result == SelectorOver(section.selector[p], selectors[p], Room[p[2]])
       IN  /\ selectors' = [selectors EXCEPT ![p] = result.selector]
           /\ thrown' = ~result.ok
           /\ next' = IF result.ok THEN next + 1 ELSE next
    /\ UNCHANGED <<section, before, titles, qualifiers, given>>

-----------------------------------------------------------------------------
(***************************************************************************)
(* setOsiConnectionParameters, run when the connection is opened.  The     *)
(* library takes copies of the structures, and keeps its own title and     *)
(* qualifier at an end whose title is empty.                               *)
(***************************************************************************)
GivenTitle(end) ==
    IF titles[end] = <<>> THEN Absent
      ELSE [title |-> titles[end], qualifier |-> qualifiers[end]]

\* Faulty variant: the presentation selectors change their ends as well.
GivenSelectorsCrossed ==
    [local  |-> [P |-> selectors[<<"remote", "P">>],
                 S |-> selectors[<<"local", "S">>],
                 T |-> selectors[<<"remote", "T">>]],
     remote |-> [P |-> selectors[<<"local", "P">>],
                 S |-> selectors[<<"remote", "S">>],
                 T |-> selectors[<<"local", "T">>]]]

\* setRemoteAddresses and setLocalAddresses: each T-selector goes to the end
\* opposite to its name.
GivenSelectors ==
    [local  |-> [P |-> selectors[<<"local", "P">>],
                 S |-> selectors[<<"local", "S">>],
                 T |-> selectors[<<"remote", "T">>]],
     remote |-> [P |-> selectors[<<"remote", "P">>],
                 S |-> selectors[<<"remote", "S">>],
                 T |-> selectors[<<"local", "T">>]]]

SetOsiConnectionParameters ==
    /\ Imported /\ given = Absent
    /\ given' = [title    |-> [e \in Ends |-> GivenTitle(e)],
                 selector |-> GivenSelectors]
    /\ UNCHANGED <<section, before, osi, next, thrown>>

Next == ImportTitles \/ ImportSelector \/ SetOsiConnectionParameters

Spec == Init /\ [][Next]_vars

-----------------------------------------------------------------------------
Written(p) == section.selector[p] \notin {Absent, Malformed}

\* The parser never stores a byte behind the array of the selector, however
\* many tokens the document has, whether the import returns or throws: at any
\* time the cell there is what it was before the import.
StoresStayInArray ==
    \A p \in Places :
        selectors[p].value[Room[p[2]] + 1] = before[p].value[Room[p[2]] + 1]

\* Each selector of an imported section is stored as the tokens written, all
\* of them bytes: none is cut, dropped or moved.
SelectorExact(p) ==
    LET tokens   == section.selector[p]
        selector == selectors[p]
    IN  /\ selector.size = Len(tokens)
        /\ Len(tokens) <= Room[p[2]]
        /\ \A i \in DOMAIN tokens : /\ tokens[i] \in 0..MaxByte
                                    /\ selector.value[i] = tokens[i]
SelectorsExact == Imported => \A p \in Places : Written(p) => SelectorExact(p)

\* The bytes that a selector given to the library stands for.
Bytes(selector) == [i \in 1..selector.size |-> selector.value[i]]

\* At both ends the presentation and session layers are addressed by the
\* selectors that the section gives for that end.
UpperLayersAsConfigured ==
    given # Absent =>
        \A e \in Ends, l \in {"P", "S"} : Written(<<e, l>>) =>
            Bytes(given.selector[e][l]) = section.selector[<<e, l>>]

\* The library is given, for each end, the title that the section has for it
\* and the qualifier of the same end; it splits the title at its dots, so
\* every separator has become one and nothing but digits is between them.
TitlesAsConfigured ==
    given # Absent =>
        \A e \in Ends : section.title[e] \notin {Absent, <<>>} =>
            LET written == section.title[e]
                title   == given.title[e].title
            IN  /\ given.title[e].qualifier = Qualifier(section.qualifier[e])
                /\ Len(title) = Len(written)
                /\ \A i \in DOMAIN written :
                     \/ written[i] \in {",", "."} /\ title[i] = "."
                     \/ written[i] \in Digits /\ title[i] = written[i]

\* The transport layer is addressed like the two above it.  The code fails
\* this one: the remote end is addressed by the local T-selector, and the
\* other way round.
TransportAsConfigured ==
    given # Absent =>
        \A e \in Ends : Written(<<e, "T">>) =>
            Bytes(given.selector[e]["T"]) = section.selector[<<e, "T">>]
==============================================================================
