-------------------------- MODULE OsiParametersProofs --------------------------
(***************************************************************************)
(* Proofs about OsiParameters: for texts of any length, arrays of any size *)
(* and whatever is in the memory, the selector parser stores the bytes of  *)
(* the text in the array and nothing behind it.                            *)
(***************************************************************************)
EXTENDS OsiParameters, Loops

Token == Nat \cup {NotANumber}

\* The states that the parser's loop can be in.
Parses(room) == [value : [1..(room + 1) -> Octets], count : 0..room, ok : BOOLEAN]

-----------------------------------------------------------------------------
\* One round of the loop keeps the count within the array, and the cell behind
\* the array as it is.
LEMMA RoundStays ==
  ASSUME NEW room \in Nat, NEW p \in Parses(room), NEW t
  PROVE  /\ ParseToken(room, p, t) \in Parses(room)
         /\ ParseToken(room, p, t).value[room + 1] = p.value[room + 1]
<1>1. CASE ~p.ok \/ p.count >= room \/ t \notin Octets
  BY <1>1 DEF ParseToken, Parses
<1>2. CASE ~(~p.ok \/ p.count >= room \/ t \notin Octets)
  <2> DEFINE q == [value |-> [p.value EXCEPT ![p.count + 1] = t],
                  count |-> p.count + 1, ok |-> TRUE]
  <2>1. ParseToken(room, p, t) = q
    BY <1>2 DEF ParseToken
  <2>2. p.count \in 0..room /\ p.count < room /\ t \in Octets
    BY <1>2 DEF Parses
  <2>3. q.value = [p.value EXCEPT ![p.count + 1] = t]
    BY DEF Parses
  <2>4. q.value \in [1..(room + 1) -> Octets]
    BY <2>2, <2>3 DEF Parses
  <2>5. q \in Parses(room)
    <3>1. p.count + 1 \in 0..room
      BY <2>2
    <3> QED
      BY <2>4, <3>1 DEF Parses
  <2>6. q.value[room + 1] = p.value[room + 1]
    BY <2>2, <2>3 DEF Parses
  <2> QED
    BY <2>1, <2>5, <2>6
<1> QED
  BY <1>1, <1>2

\* A round that succeeds stores its token, a byte, behind the bytes of the
\* rounds before, which it keeps.
LEMMA RoundStores ==
  ASSUME NEW room \in Nat, NEW p \in Parses(room), NEW t,
         ParseToken(room, p, t).ok
  PROVE  /\ p.ok /\ t \in Octets
         /\ ParseToken(room, p, t).count = p.count + 1
         /\ ParseToken(room, p, t).value[p.count + 1] = t
         /\ \A j \in 1..p.count :
              ParseToken(room, p, t).value[j] = p.value[j]
<1> DEFINE q == [value |-> [p.value EXCEPT ![p.count + 1] = t],
                  count |-> p.count + 1, ok |-> TRUE]
<1>1. ~(~p.ok \/ p.count >= room \/ t \notin Octets)
  BY DEF ParseToken, Parses
<1>2. ParseToken(room, p, t) = q
  BY <1>1 DEF ParseToken
<1>3. p.count \in 0..room /\ p.count < room
  BY <1>1 DEF Parses
<1>4. q.value = [p.value EXCEPT ![p.count + 1] = t] /\ q.count = p.count + 1
  BY DEF Parses
<1> QED
  BY <1>1, <1>2, <1>3, <1>4 DEF Parses

-----------------------------------------------------------------------------
First(memory) == [value |-> memory, count |-> 0, ok |-> TRUE]

\* The runs of the loop over n tokens.
IsParse(f, tokens, n, memory, room) ==
  f = [i \in 0..n |-> IF i = 0 THEN First(memory)
                               ELSE ParseToken(room, f[i - 1], tokens[i])]

LEMMA ParseExists ==
  ASSUME NEW room \in Nat, NEW n \in Nat, NEW tokens,
         NEW memory \in [1..(room + 1) -> Octets]
  PROVE  \E f : IsParse(f, tokens, n, memory, room)
<1> DEFINE step == [x \in (1..n) \X Parses(room) |->
                      ParseToken(room, x[2], tokens[x[1]])]
<1>1. First(memory) \in Parses(room)
  BY DEF First, Parses
<1>2. step \in [(1..n) \X Parses(room) -> Parses(room)]
  <2>1. ASSUME NEW x \in (1..n) \X Parses(room)
        PROVE  ParseToken(room, x[2], tokens[x[1]]) \in Parses(room)
    BY RoundStays
  <2> QED
    BY <2>1
<1>3. PICK f : IsLoop(f, n, Parses(room), First(memory), step)
  <2> HIDE DEF step
  <2> QED
    BY <1>1, <1>2, LoopDefined
<1>4. /\ f \in [0..n -> Parses(room)] /\ f[0] = First(memory)
      /\ \A i \in 1..n : f[i] = step[<<i, f[i - 1]>>]
  <2> HIDE DEF step
  <2> QED
    BY <1>3 DEF IsLoop
<1>5. ASSUME NEW i \in 1..n
      PROVE  f[i] = ParseToken(room, f[i - 1], tokens[i])
  <2>1. i - 1 \in 0..n
    OBVIOUS
  <2>2. <<i, f[i - 1]>> \in (1..n) \X Parses(room)
    BY <1>4, <2>1
  <2>3. f[i] = step[<<i, f[i - 1]>>]
    BY <1>4
  <2> QED
    BY <2>2, <2>3
<1> QED
  BY <1>4, <1>5 DEF IsParse

\* Whatever the text, no round of the loop writes behind the array.
LEMMA ParseStays ==
  ASSUME NEW room \in Nat, NEW n \in Nat, NEW tokens,
         NEW memory \in [1..(room + 1) -> Octets],
         NEW f, IsParse(f, tokens, n, memory, room)
  PROVE  \A i \in 0..n : /\ f[i] \in Parses(room)
                         /\ f[i].value[room + 1] = memory[room + 1]
<1> DEFINE T == {i \in 0..n : /\ f[i] \in Parses(room)
                              /\ f[i].value[room + 1] = memory[room + 1]}
<1>1. f[0] = First(memory)
  BY DEF IsParse
<1>2. \A i \in 1..n : f[i] = ParseToken(room, f[i - 1], tokens[i])
  BY DEF IsParse
<1>3. 0 \in T
  <2>1. First(memory) \in Parses(room) /\ First(memory).value = memory
    BY DEF First, Parses
  <2> QED
    BY <1>1, <2>1
<1>4. ASSUME NEW i \in 1..n, i - 1 \in T
      PROVE  i \in T
  <2>1. f[i - 1] \in Parses(room)
    BY <1>4
  <2>2. /\ ParseToken(room, f[i - 1], tokens[i]) \in Parses(room)
        /\ ParseToken(room, f[i - 1], tokens[i]).value[room + 1]
             = f[i - 1].value[room + 1]
    BY <2>1, RoundStays
  <2>3. f[i] \in Parses(room) /\ f[i].value[room + 1] = memory[room + 1]
    BY <1>2, <1>4, <2>2
  <2> QED
    BY <2>3
<1>5. 0..n \subseteq T
  <2> HIDE DEF T
  <2> QED
    BY <1>3, <1>4, LoopInduction
<1> QED
  BY <1>5

\* What the loop has stored without exception are the tokens, all of them bytes.
LEMMA ParseStores ==
  ASSUME NEW room \in Nat, NEW n \in Nat, NEW tokens,
         NEW memory \in [1..(room + 1) -> Octets],
         NEW f, IsParse(f, tokens, n, memory, room)
  PROVE  \A i \in 0..n : f[i].ok =>
           /\ f[i].count = i
           /\ \A j \in 1..i : tokens[j] \in Octets /\ f[i].value[j] = tokens[j]
<1> DEFINE Exact(i) == /\ f[i].count = i
                       /\ \A j \in 1..i : /\ tokens[j] \in Octets
                                          /\ f[i].value[j] = tokens[j]
           T == {i \in 0..n : f[i].ok => Exact(i)}
<1>1. f[0] = First(memory)
  BY DEF IsParse
<1>2. \A i \in 1..n : f[i] = ParseToken(room, f[i - 1], tokens[i])
  BY DEF IsParse
<1>3. 0 \in T
  BY <1>1 DEF First
<1>4. ASSUME NEW i \in 1..n, i - 1 \in T
      PROVE  i \in T
  <2>1. i \in 0..n /\ i - 1 \in 0..n
    OBVIOUS
  <2>2. f[i - 1] \in Parses(room)
    BY <2>1, ParseStays
  <2> SUFFICES ASSUME f[i].ok PROVE Exact(i)
    BY <2>1
  <2>3. /\ f[i - 1].ok /\ tokens[i] \in Octets
        /\ f[i].count = f[i - 1].count + 1
        /\ f[i].value[f[i - 1].count + 1] = tokens[i]
        /\ \A j \in 1..f[i - 1].count : f[i].value[j] = f[i - 1].value[j]
    BY <1>2, <2>2, RoundStores
  <2>4. Exact(i - 1)
    BY <1>4, <2>3
  <2>5. f[i].count = i /\ f[i].value[i] = tokens[i]
    BY <2>3, <2>4
  <2>6. ASSUME NEW j \in 1..i
        PROVE  tokens[j] \in Octets /\ f[i].value[j] = tokens[j]
    <3>1. CASE j = i
      BY <3>1, <2>3, <2>5
    <3>2. CASE j # i
      <4>1. j \in 1..(i - 1)
        BY <3>2
      <4> QED
        BY <4>1, <2>3, <2>4
    <3> QED
      BY <3>1, <3>2
  <2> QED
    BY <2>5, <2>6
<1>5. 0..n \subseteq T
  <2> HIDE DEF T
  <2> QED
    BY <1>3, <1>4, LoopInduction
<1> QED
  BY <1>5

\* The parser is the last round of a run of the loop.
LEMMA ParserRuns ==
  ASSUME NEW room \in Nat, NEW tokens,
         NEW n \in Nat, n = Len(tokens),
         NEW memory \in [1..(room + 1) -> Octets]
  PROVE  \E f : /\ IsParse(f, tokens, n, memory, room)
                /\ ParseOsiSelector(tokens, memory, room) = f[n]
<1> DEFINE Is(f) == IsParse(f, tokens, n, memory, room)
<1>1. ParseRounds(tokens, memory, room) = CHOOSE f : Is(f)
  BY DEF ParseRounds, IsParse, First
<1>2. \E f : Is(f)
  BY ParseExists
<1>3. Is(ParseRounds(tokens, memory, room))
  <2> HIDE DEF Is
  <2> QED
    BY <1>1, <1>2
<1> QED
  BY <1>3 DEF ParseOsiSelector

LEMMA ParserStaysInArray ==
  ASSUME NEW room \in Nat, NEW tokens \in Seq(Token),
         NEW memory \in [1..(room + 1) -> Octets]
  PROVE  /\ ParseOsiSelector(tokens, memory, room) \in Parses(room)
         /\ ParseOsiSelector(tokens, memory, room).value[room + 1]
              = memory[room + 1]
<1>1. PICK n \in Nat : n = Len(tokens)
  OBVIOUS
<1>2. PICK f : /\ IsParse(f, tokens, n, memory, room)
               /\ ParseOsiSelector(tokens, memory, room) = f[n]
  BY <1>1, ParserRuns
<1>3. \A i \in 0..n : /\ f[i] \in Parses(room)
                      /\ f[i].value[room + 1] = memory[room + 1]
  BY <1>2, ParseStays
<1>4. n \in 0..n
  OBVIOUS
<1> QED
  BY <1>2, <1>3, <1>4

\* A text that the parser accepts is stored byte by byte.
LEMMA ParserExact ==
  ASSUME NEW room \in Nat, NEW tokens \in Seq(Token),
         NEW memory \in [1..(room + 1) -> Octets],
         ParseOsiSelector(tokens, memory, room).ok
  PROVE  LET parse == ParseOsiSelector(tokens, memory, room)
         IN  /\ parse.count = Len(tokens)
             /\ \A i \in DOMAIN tokens : /\ tokens[i] \in Octets
                                         /\ parse.value[i] = tokens[i]
<1>1. PICK n \in Nat : n = Len(tokens)
  OBVIOUS
<1>2. PICK f : /\ IsParse(f, tokens, n, memory, room)
               /\ ParseOsiSelector(tokens, memory, room) = f[n]
  BY <1>1, ParserRuns
<1>3. n \in 0..n /\ f[n].ok
  BY <1>2
<1>4. /\ f[n].count = n
      /\ \A j \in 1..n : tokens[j] \in Octets /\ f[n].value[j] = tokens[j]
  BY <1>2, <1>3, ParseStores
<1>5. DOMAIN tokens = 1..n
  BY <1>1
<1> QED
  BY <1>1, <1>2, <1>4, <1>5

-----------------------------------------------------------------------------
Selector(room) == [1..(room + 1) -> Octets]

\* A selector of the section is imported: whether this returns or throws, the
\* cell behind the array is that of the memory; when it returns, a selector
\* that is written is stored as it is.
LEMMA SelectorImported ==
  ASSUME NEW room \in Nat,
         NEW written \in {Absent, Malformed} \cup Seq(Token),
         NEW memory, memory.value \in Selector(room)
  PROVE  LET result   == SelectorOver(written, memory, room)
             selector == result.selector
         IN  /\ selector.value \in Selector(room)
             /\ selector.value[room + 1] = memory.value[room + 1]
             /\ result.ok /\ written \notin {Absent, Malformed} =>
                  /\ selector.size = Len(written)
                  /\ Len(written) <= room
                  /\ \A i \in DOMAIN written :
                       written[i] \in Octets /\ selector.value[i] = written[i]
<1>1. CASE written \in {Absent, Malformed}
  BY <1>1 DEF SelectorOver
<1>2. CASE written \notin {Absent, Malformed}
  <2> DEFINE parse == ParseOsiSelector(written, memory.value, room)
  <2>1. memory.value \in [1..(room + 1) -> Octets] /\ written \in Seq(Token)
    BY <1>2 DEF Selector
  <2>2. SelectorOver(written, memory, room)
          = [ok       |-> parse.ok,
             selector |-> [value |-> parse.value,
                           size  |-> IF parse.ok THEN parse.count
                                                 ELSE memory.size]]
    BY <1>2 DEF SelectorOver
  <2> HIDE DEF parse
  <2>3. /\ parse \in Parses(room)
        /\ parse.value[room + 1] = memory.value[room + 1]
    BY <2>1, ParserStaysInArray DEF parse
  <2>4. parse.value \in Selector(room) /\ parse.count \in 0..room
    BY <2>3 DEF Parses, Selector
  <2>5. parse.ok => /\ parse.count = Len(written)
                    /\ \A i \in DOMAIN written : /\ written[i] \in Octets
                                                 /\ parse.value[i] = written[i]
    BY <2>1, ParserExact DEF parse
  <2>6. parse.ok => Len(written) <= room
    BY <2>4, <2>5
  <2> QED
    BY <2>2, <2>3, <2>4, <2>5, <2>6
<1> QED
  BY <1>1, <1>2

LEMMA RoomIsNat == \A l \in Layers : Room[l] \in Nat
<1>1. Room \in [Layers -> 1..MaxByte]
  BY OsiAssumption
<1> QED
  BY <1>1 DEF MaxByte

\* The six blocks import each selector once.
LEMMA OrderOfPlaces ==
  /\ DOMAIN Order = 1..6 /\ Len(Order) = 6
  /\ \A k \in 1..6 : Order[k] \in Places
  /\ \A k, m \in 1..6 : Order[k] = Order[m] => k = m
  /\ \A p \in Places : \E k \in 1..6 : Order[k] = p
<1>1. DOMAIN Order = 1..6 /\ Len(Order) = 6
  BY DEF Order
<1>2. /\ Order[1] = <<"local", "P">>  /\ Order[2] = <<"local", "S">>
      /\ Order[3] = <<"local", "T">>  /\ Order[4] = <<"remote", "P">>
      /\ Order[5] = <<"remote", "S">> /\ Order[6] = <<"remote", "T">>
  BY DEF Order
<1>3. \A k \in 1..6 : k = 1 \/ k = 2 \/ k = 3 \/ k = 4 \/ k = 5 \/ k = 6
  OBVIOUS
<1>4. \A k \in 1..6 : Order[k] \in Places
  BY <1>2, <1>3 DEF Places, Ends, Layers
<1>5. \A k, m \in 1..6 : Order[k] = Order[m] => k = m
  BY <1>2, <1>3
<1>6. ASSUME NEW p \in Places
      PROVE  \E k \in 1..6 : Order[k] = p
  <2>1. PICK e \in Ends, l \in Layers : p = <<e, l>>
    BY DEF Places
  <2>2. p \in {Order[1], Order[2], Order[3], Order[4], Order[5], Order[6]}
    BY <1>2, <2>1 DEF Ends, Layers
  <2> QED
    BY <2>2
<1> QED
  BY <1>1, <1>4, <1>5, <1>6

-----------------------------------------------------------------------------
(***************************************************************************)
(* The life of a section.  A selector is stored once, after those before   *)
(* it, and the library is given what was stored.                           *)
(***************************************************************************)
SelectorsTyped ==
  /\ selectors = [p \in Places |-> selectors[p]]
  /\ \A p \in Places : selectors[p].value \in Selector(Room[p[2]])

PrefixExact ==
  /\ next \in 0..7
  /\ \A k \in 1..6 : k < next /\ Written(Order[k]) => SelectorExact(Order[k])

TitlesStored ==
  next > 0 => \A e \in Ends : /\ IsTitle(section.title[e])
                              /\ titles[e] = TitleText(section.title[e])
                              /\ qualifiers[e] = Qualifier(section.qualifier[e])

GivenAsStored ==
  given # Absent =>
    /\ next = 7
    /\ \A e \in Ends : given.title[e] = GivenTitle(e)
    /\ \A e \in Ends, l \in {"P", "S"} :
         given.selector[e][l] = selectors[<<e, l>>]

OsiInv == /\ section \in Sections /\ before \in Garbage
          /\ SelectorsTyped
          /\ StoresStayInArray
          /\ PrefixExact
          /\ TitlesStored
          /\ GivenAsStored

LEMMA InitInv == Init => OsiInv
<1> SUFFICES ASSUME Init PROVE OsiInv
  OBVIOUS
<1>1. section \in Sections /\ before \in Garbage /\ selectors = before
  BY DEF Init
<1>2. SelectorsTyped
  <2>1. before = [p \in Places |-> before[p]]
    BY <1>1, OsiAssumption
  <2>2. \A p \in Places : before[p].value \in Selector(Room[p[2]])
    BY <1>1, OsiAssumption DEF Memory, Selector
  <2> QED
    BY <1>1, <2>1, <2>2 DEF SelectorsTyped
<1>3. StoresStayInArray
  BY <1>1 DEF StoresStayInArray
<1>4. PrefixExact /\ TitlesStored /\ GivenAsStored
  BY DEF Init, PrefixExact, TitlesStored, GivenAsStored
<1> QED
  BY <1>1, <1>2, <1>3, <1>4 DEF OsiInv

\* The qualifiers and titles are imported before the first selector.
LEMMA TitlesInv == OsiInv /\ ImportTitles => OsiInv'
<1> SUFFICES ASSUME OsiInv, ImportTitles PROVE OsiInv'
  OBVIOUS
<1>1. UNCHANGED <<section, before, selectors, given>>
  BY DEF ImportTitles
<1>2. next = 0 /\ next' \in {0, 1}
  BY DEF ImportTitles
<1>3. given = Absent
  BY <1>2 DEF OsiInv, GivenAsStored
<1>4. section' \in Sections /\ before' \in Garbage /\ SelectorsTyped'
        /\ StoresStayInArray'
  BY <1>1 DEF OsiInv, SelectorsTyped, StoresStayInArray
<1>5. PrefixExact'
  BY <1>2 DEF PrefixExact
<1>6. TitlesStored'
  BY <1>1, <1>2 DEF ImportTitles, TitlesStored
<1>7. GivenAsStored'
  BY <1>1, <1>3 DEF GivenAsStored
<1> QED
  BY <1>4, <1>5, <1>6, <1>7 DEF OsiInv

\* The import of a selector leaves the others, and the bytes behind its array.
LEMMA SelectorInv == OsiInv /\ ImportSelector => OsiInv'
<1> SUFFICES ASSUME OsiInv, ImportSelector PROVE OsiInv'
  OBVIOUS
<1> DEFINE here == Order[next]
           room == Room[here[2]]
           written == section.selector[here]
           held == selectors[here]
           result == SelectorOver(written, held, room)
<1>1. next \in 1..6 /\ here \in Places
  BY OrderOfPlaces DEF ImportSelector
<1>2. /\ UNCHANGED <<section, before, titles, qualifiers, given>>
      /\ selectors' = [selectors EXCEPT ![here] = result.selector]
      /\ next' = IF result.ok THEN next + 1 ELSE next
  BY DEF ImportSelector
<1>3. given = Absent
  BY <1>1 DEF OsiInv, GivenAsStored
<1>4. /\ room \in Nat /\ held.value \in Selector(room)
      /\ written \in {Absent, Malformed} \cup Seq(Token)
      /\ held.value[room + 1] = before[here].value[room + 1]
  <2> HIDE DEF here
  <2>1. here[2] \in Layers
    BY <1>1 DEF Places
  <2>2. room \in Nat
    BY <2>1, RoomIsNat
  <2>3. written \in {Absent, Malformed} \cup Seq(Token)
    BY <1>1, OsiAssumption DEF OsiInv, Token
  <2> QED
    BY <1>1, <2>2, <2>3 DEF OsiInv, SelectorsTyped, StoresStayInArray
<1>5. /\ result.selector.value \in Selector(room)
      /\ result.selector.value[room + 1] = before[here].value[room + 1]
      /\ result.ok /\ written \notin {Absent, Malformed} =>
           /\ result.selector.size = Len(written)
           /\ Len(written) <= room
           /\ \A i \in DOMAIN written :
                /\ written[i] \in Octets
                /\ result.selector.value[i] = written[i]
  <2> HIDE DEF room, written, held
  <2> QED
    BY <1>4, SelectorImported
<1> HIDE DEF result
<1>6. /\ selectors' = [p \in Places |-> selectors'[p]]
      /\ selectors'[here] = result.selector
      /\ \A p \in Places : p # here => selectors'[p] = selectors[p]
  <2> HIDE DEF here
  <2>1. selectors = [p \in Places |-> selectors[p]]
    BY DEF OsiInv, SelectorsTyped
  <2> QED
    BY <1>1, <1>2, <2>1
<1>7. SelectorsTyped' /\ StoresStayInArray'
  <2>1. ASSUME NEW p \in Places
        PROVE  /\ selectors'[p].value \in Selector(Room[p[2]])
               /\ selectors'[p].value[Room[p[2]] + 1]
                    = before[p].value[Room[p[2]] + 1]
    <3>1. CASE p = here
      BY <3>1, <1>5, <1>6
    <3>2. CASE p # here
      BY <3>2, <1>6 DEF OsiInv, SelectorsTyped, StoresStayInArray
    <3> QED
      BY <3>1, <3>2
  <2> QED
    BY <1>2, <1>6, <2>1 DEF SelectorsTyped, StoresStayInArray
<1>8. PrefixExact'
  <2>1. next' \in 0..7
    BY <1>1, <1>2
  <2>2. ASSUME NEW k \in 1..6, k < next', Written(Order[k])'
        PROVE  SelectorExact(Order[k])'
    <3>1. CASE k = next
      <4>1. result.ok /\ Order[k] = here
        BY <3>1, <2>2, <1>1, <1>2
      <4>2. written \notin {Absent, Malformed}
        BY <2>2, <4>1, <1>2 DEF Written
      <4> QED
        BY <4>1, <4>2, <1>2, <1>5, <1>6 DEF SelectorExact, Octets
    <3>2. CASE k # next
      <4>1. k < next
        BY <3>2, <2>2, <1>1, <1>2
      <4>2. Order[k] \in Places /\ Order[k] # here
        BY <3>2, <1>1, OrderOfPlaces
      <4>3. selectors'[Order[k]] = selectors[Order[k]]
        BY <4>2, <1>6
      <4>4. Written(Order[k])
        BY <2>2, <1>2 DEF Written
      <4>5. SelectorExact(Order[k])
        BY <4>1, <4>4 DEF OsiInv, PrefixExact
      <4> QED
        BY <4>3, <4>5, <1>2 DEF SelectorExact
    <3> QED
      BY <3>1, <3>2
  <2> QED
    BY <2>1, <2>2 DEF PrefixExact
<1>9. TitlesStored'
  BY <1>1, <1>2 DEF OsiInv, TitlesStored
<1>10. GivenAsStored'
  BY <1>2, <1>3 DEF GivenAsStored
<1> QED
  BY <1>2, <1>7, <1>8, <1>9, <1>10 DEF OsiInv

\* The opening of the connection.
LEMMA OpenInv == OsiInv /\ SetOsiConnectionParameters => OsiInv'
<1> SUFFICES ASSUME OsiInv, SetOsiConnectionParameters PROVE OsiInv'
  OBVIOUS
<1>1. UNCHANGED <<section, before, osi, next>>
  BY DEF SetOsiConnectionParameters
<1>2. /\ section' \in Sections /\ before' \in Garbage
      /\ SelectorsTyped' /\ StoresStayInArray' /\ PrefixExact' /\ TitlesStored'
  BY <1>1 DEF OsiInv, SelectorsTyped, StoresStayInArray, PrefixExact,
              TitlesStored, SelectorExact, Written, osi
<1>3. GivenAsStored'
  <2>1. next' = 7
    BY <1>1, OrderOfPlaces DEF SetOsiConnectionParameters, Imported
  <2>2. given' = [title    |-> [e \in Ends |-> GivenTitle(e)],
                  selector |-> GivenSelectors]
    BY DEF SetOsiConnectionParameters
  <2>3. \A e \in Ends : given'.title[e] = GivenTitle(e)' 
    BY <2>2, <1>1 DEF GivenTitle, osi
  <2>4. \A e \in Ends, l \in {"P", "S"} :
          given'.selector[e][l] = selectors'[<<e, l>>]
    BY <2>2, <1>1 DEF GivenSelectors, Ends, osi
  <2> QED
    BY <2>1, <2>3, <2>4 DEF GivenAsStored
<1> QED
  BY <1>2, <1>3 DEF OsiInv

LEMMA OsiInvariance == Spec => []OsiInv
<1>1. OsiInv /\ UNCHANGED vars => OsiInv'
  <2> SUFFICES ASSUME OsiInv, UNCHANGED vars PROVE OsiInv'
    OBVIOUS
  <2>1. UNCHANGED <<section, before, titles, qualifiers, selectors, next, given>>
    BY DEF vars, osi
  <2>2. /\ section' \in Sections /\ before' \in Garbage
        /\ SelectorsTyped' /\ StoresStayInArray' /\ TitlesStored'
    BY <2>1 DEF OsiInv, SelectorsTyped, StoresStayInArray, TitlesStored
  <2>3. PrefixExact'
    BY <2>1 DEF OsiInv, PrefixExact, SelectorExact, Written
  <2>4. GivenAsStored'
    BY <2>1 DEF OsiInv, GivenAsStored, GivenTitle
  <2> QED
    BY <2>2, <2>3, <2>4 DEF OsiInv
<1>2. OsiInv /\ [Next]_vars => OsiInv'
  BY <1>1, TitlesInv, SelectorInv, OpenInv DEF Next
<1> QED
  BY InitInv, <1>2, PTL DEF Spec

-----------------------------------------------------------------------------
\* parseOsiSelector never writes behind the array of a selector, and neither
\* does an import that ends with an exception.
THEOREM ArrayBounds == Spec => []StoresStayInArray
<1>1. OsiInv => StoresStayInArray
  BY DEF OsiInv
<1> QED
  BY <1>1, OsiInvariance, PTL

LEMMA ImportedExact == OsiInv => SelectorsExact
<1> SUFFICES ASSUME OsiInv, Imported, NEW p \in Places, Written(p)
             PROVE  SelectorExact(p)
  BY DEF SelectorsExact
<1>1. PICK k \in 1..6 : Order[k] = p
  BY OrderOfPlaces
<1>2. k < next
  BY <1>1, OrderOfPlaces DEF Imported
<1> QED
  BY <1>1, <1>2 DEF OsiInv, PrefixExact

\* A selector that is imported is stored as the bytes that are written.
THEOREM ExactSelectors == Spec => []SelectorsExact
  BY ImportedExact, OsiInvariance, PTL

\* The library is given the presentation and session selectors of the section
\* for the ends that the section gives them for.
THEOREM UpperLayers == Spec => []UpperLayersAsConfigured
<1>1. OsiInv => UpperLayersAsConfigured
  <2> SUFFICES ASSUME OsiInv, given # Absent,
                      NEW e \in Ends, NEW l \in {"P", "S"}, Written(<<e, l>>)
               PROVE  Bytes(given.selector[e][l]) = section.selector[<<e, l>>]
    BY DEF UpperLayersAsConfigured
  <2> DEFINE tokens == section.selector[<<e, l>>]
             selector == selectors[<<e, l>>]
  <2>1. Imported /\ given.selector[e][l] = selector
    <3>1. next = 7 /\ given.selector[e][l] = selectors[<<e, l>>]
      BY DEF OsiInv, GivenAsStored
    <3> QED
      BY <3>1, OrderOfPlaces DEF Imported
  <2>2. <<e, l>> \in Places
    BY DEF Places, Layers
  <2>3. /\ selector.size = Len(tokens)
        /\ \A i \in DOMAIN tokens : selector.value[i] = tokens[i]
    BY <2>1, <2>2, ImportedExact DEF SelectorsExact, SelectorExact
  <2>4. tokens \in Seq(Token)
    BY <2>2, OsiAssumption DEF OsiInv, Written, Token
  <2> HIDE DEF tokens, selector
  <2>5. tokens = [i \in 1..Len(tokens) |-> tokens[i]]
    BY <2>4
  <2>6. Bytes(selector) = [i \in 1..Len(tokens) |-> tokens[i]]
    BY <2>3, <2>4 DEF Bytes
  <2> QED
    BY <2>1, <2>5, <2>6 DEF tokens
<1> QED
  BY <1>1, OsiInvariance, PTL

\* std::replace changes the commas of a title and nothing else.
LEMMA TitleReplaced ==
  ASSUME NEW written \in Seq(Characters), written # Absent
  PROVE  /\ Len(TitleText(written)) = Len(written)
         /\ DOMAIN TitleText(written) = DOMAIN written
         /\ \A i \in DOMAIN written :
              TitleText(written)[i] = IF written[i] = "," THEN "."
                                                          ELSE written[i]
<1> DEFINE n == Len(written)
           text == [i \in 1..n |-> IF written[i] = "," THEN "." ELSE written[i]]
<1>1. n \in Nat /\ DOMAIN written = 1..n
  OBVIOUS
<1>2. TitleText(written) = text
  BY <1>1 DEF TitleText
<1>3. Len(text) = n
  OBVIOUS
<1> QED
  BY <1>1, <1>2, <1>3

\* The library is given the titles and qualifiers of the section for the ends
\* that the section gives them for, in the form that it can split.
THEOREM Titles == Spec => []TitlesAsConfigured
<1>1. OsiInv => TitlesAsConfigured
  <2> SUFFICES ASSUME OsiInv, given # Absent, NEW e \in Ends,
                      section.title[e] \notin {Absent, <<>>}
               PROVE  LET written == section.title[e]
                          title   == given.title[e].title
                      IN  /\ given.title[e].qualifier
                               = Qualifier(section.qualifier[e])
                          /\ Len(title) = Len(written)
                          /\ \A i \in DOMAIN written :
                               \/ written[i] \in {",", "."} /\ title[i] = "."
                               \/ written[i] \in Digits /\ title[i] = written[i]
    BY DEF TitlesAsConfigured
  <2> DEFINE written == section.title[e]
  <2>1. next = 7 /\ given.title[e] = GivenTitle(e)
    BY DEF OsiInv, GivenAsStored
  <2>2. /\ IsTitle(written) /\ titles[e] = TitleText(written)
        /\ qualifiers[e] = Qualifier(section.qualifier[e])
    BY <2>1 DEF OsiInv, TitlesStored
  <2>3. written \in Seq(Characters)
    <3>1. written \in {Absent, Malformed} \cup Seq(Characters)
      BY OsiAssumption DEF OsiInv
    <3> QED
      BY <2>2, <3>1 DEF IsTitle
  <2> HIDE DEF written
  <2>4. /\ Len(titles[e]) = Len(written)
        /\ \A i \in DOMAIN written :
             titles[e][i] = IF written[i] = "," THEN "." ELSE written[i]
    <3>1. written # Absent
      BY DEF written
    <3> QED
      BY <2>2, <2>3, <3>1, TitleReplaced
  <2>5. Len(written) # 0
    BY <2>3 DEF written
  <2>6. titles[e] # <<>>
    BY <2>4, <2>5
  <2>7. given.title[e] = [title |-> titles[e], qualifier |-> qualifiers[e]]
    BY <2>1, <2>6 DEF GivenTitle
  <2>8. \A i \in DOMAIN written : written[i] \in Digits \cup {",", "."}
    BY <2>2 DEF IsTitle, written
  <2>9. \A i \in DOMAIN written :
          \/ written[i] \in {",", "."} /\ titles[e][i] = "."
          \/ written[i] \in Digits /\ titles[e][i] = written[i]
    BY <2>4, <2>8
  <2>10. /\ given.title[e].title = titles[e]
         /\ given.title[e].qualifier = Qualifier(section.qualifier[e])
    BY <2>2, <2>7
  <2> QED
    BY <2>4, <2>9, <2>10 DEF written
<1> QED
  BY <1>1, OsiInvariance, PTL
=============================================================================
