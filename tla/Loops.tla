-------------------------------- MODULE Loops --------------------------------
(***************************************************************************)
(* Facts about loops, for the proofs of the operators that model one.  A   *)
(* loop of n rounds is a function on 0..n: the state before the first      *)
(* round, then the state after each of them.  An invariant is a set, so    *)
(* that the facts are of first order and can be cited for any loop.        *)
(***************************************************************************)
EXTENDS Integers, WellFoundedInduction, TLAPS

\* A set of natural numbers that is not empty has a least element.
LEMMA LeastElement ==
  ASSUME NEW T \in SUBSET Nat, T # {}
  PROVE  \E i \in T : \A j \in T : ~(j < i)
<1>1. \E x \in T : \A y \in T : <<y, x>> \notin OpToRel(<, Nat)
  BY NatLessThanWellFounded, WFMin
<1> QED
  BY <1>1 DEF OpToRel

\* Of finitely many positions that are not none, one is the last.
LEMMA GreatestElement ==
  ASSUME NEW n \in Nat, NEW T \in SUBSET (1..n), T # {}
  PROVE  \E i \in T : \A j \in T : j <= i
<1> DEFINE U == {n - i : i \in T}
<1>1. U \in SUBSET Nat /\ U # {}
  <2>1. \A i \in T : n - i \in Nat
    OBVIOUS
  <2> QED
    BY <2>1
<1>2. PICK u \in U : \A v \in U : ~(v < u)
  <2> HIDE DEF U
  <2> QED
    BY <1>1, LeastElement
<1>3. PICK i \in T : u = n - i
  OBVIOUS
<1>4. ASSUME NEW j \in T PROVE j <= i
  <2>1. n - j \in U
    OBVIOUS
  <2>2. ~(n - j < n - i)
    BY <1>2, <1>3, <2>1
  <2> QED
    BY <2>2
<1> QED
  BY <1>4

\* What holds before the first round and is preserved by each round holds
\* after all of them.
LEMMA LoopInduction ==
  ASSUME NEW n \in Nat, NEW T, 0 \in T,
         \A i \in 1..n : i - 1 \in T => i \in T
  PROVE  0..n \subseteq T
<1> DEFINE Left == (0..n) \ T
<1> SUFFICES ASSUME Left # {} PROVE FALSE
  OBVIOUS
<1>1. Left \in SUBSET Nat
  OBVIOUS
<1>2. PICK i \in Left : \A j \in Left : ~(j < i)
  <2> HIDE DEF Left
  <2> QED
    BY <1>1, LeastElement
<1>3. i \in 1..n /\ i - 1 \in 0..n
  OBVIOUS
<1> QED
  BY <1>2, <1>3

\* The states of a loop of n rounds over S, each round given by step.
IsLoop(f, n, S, base, step) ==
  /\ f \in [0..n -> S]
  /\ f[0] = base
  /\ \A i \in 1..n : f[i] = step[<<i, f[i - 1]>>]

\* A loop whose rounds stay in a set of states runs, and stays in it.
LEMMA LoopDefined ==
  ASSUME NEW n \in Nat, NEW S, NEW base \in S,
         NEW step \in [(1..n) \X S -> S]
  PROVE  \E f : IsLoop(f, n, S, base, step)
<1> DEFINE Runs(f, i) == /\ f \in [0..i -> S]
                         /\ f[0] = base
                         /\ \A j \in 1..i : f[j] = step[<<j, f[j - 1]>>]
           T == {i \in 0..n : \E f : Runs(f, i)}
<1>1. 0 \in T
  <2>1. Runs([j \in 0..0 |-> base], 0)
    OBVIOUS
  <2>2. 0 \in 0..n
    OBVIOUS
  <2> HIDE DEF Runs
  <2> QED
    BY <2>1, <2>2
<1>2. ASSUME NEW i \in 1..n, i - 1 \in T
      PROVE  i \in T
  <2>1. PICK f : Runs(f, i - 1)
    BY <1>2
  <2> DEFINE g == [j \in 0..i |-> IF j < i THEN f[j]
                                           ELSE step[<<i, f[i - 1]>>]]
  <2>2. f[i - 1] \in S
    BY <2>1
  <2>3. step[<<i, f[i - 1]>>] \in S
    BY <2>2
  <2>4. g \in [0..i -> S]
    <3>1. ASSUME NEW j \in 0..i PROVE g[j] \in S
      <4>1. CASE j < i
        BY <4>1, <2>1
      <4>2. CASE j = i
        BY <4>2, <2>3
      <4> QED
        BY <4>1, <4>2
    <3> QED
      BY <3>1
  <2>5. ASSUME NEW j \in 1..i
        PROVE  g[j] = step[<<j, g[j - 1]>>]
    <3>1. g[j - 1] = f[j - 1]
      OBVIOUS
    <3>2. CASE j < i
      <4>1. j \in 1..(i - 1)
        BY <3>2
      <4> QED
        BY <2>1, <3>1, <3>2, <4>1
    <3>3. CASE j = i
      <4>1. g[i] = step[<<i, f[i - 1]>>]
        OBVIOUS
      <4> HIDE DEF g
      <4> QED
        BY <3>1, <3>3, <4>1
    <3> QED
      BY <3>2, <3>3
  <2>6. g[0] = base
    BY <2>1
  <2>7. Runs(g, i)
    BY <2>4, <2>5, <2>6
  <2>8. i \in 0..n
    OBVIOUS
  <2> HIDE DEF Runs
  <2> QED
    BY <2>7, <2>8
<1>3. 0..n \subseteq T
  <2> HIDE DEF T
  <2> QED
    BY <1>1, <1>2, LoopInduction
<1>4. n \in T
  BY <1>3
<1> QED
  BY <1>4 DEF IsLoop
=============================================================================
