----------------------------- MODULE LoopLemmas -----------------------------
(***************************************************************************)
(* Induction, for the proofs about loops and finite sets.  The induction   *)
(* rules of the library take a predicate; these take the set of the        *)
(* numbers it holds of, and a loop's step as a function.                   *)
(***************************************************************************)
EXTENDS Naturals, SequencesExt, FiniteSetTheorems, WellFoundedInduction, TLAPS

\* A set with 0 and with each number that follows one of it has them all.
LEMMA Reaches ==
  ASSUME NEW n \in Nat, NEW G, 0 \in G, \A i \in 1 .. n : i - 1 \in G => i \in G
  PROVE  \A i \in 0 .. n : i \in G
<1> DEFINE Bad == {i \in 0 .. n : i \notin G}
<1> SUFFICES ASSUME Bad # {} PROVE FALSE
  OBVIOUS
<1>1. Bad \subseteq Nat
  OBVIOUS
<1>2. PICK i \in Bad : \A j \in Bad : ~(<<j, i>> \in OpToRel(<, Nat))
  BY <1>1, WFMin, NatLessThanWellFounded
<1>3. \A j \in Bad : ~(j < i)
  BY <1>1, <1>2 DEF OpToRel
<1>4. i \in 1 .. n /\ i - 1 \in 0 .. n /\ i - 1 < i
  OBVIOUS
<1>5. i - 1 \in G
  BY <1>3, <1>4
<1>6. QED BY <1>4, <1>5

\* f is the history of a loop over the first n numbers.
LoopRuns(n, T, base, step, f) ==
  /\ f \in [0 .. n -> T]
  /\ f[0] = base
  /\ \A i \in 1 .. n : f[i] = step[<<f[i - 1], i>>]

\* Every loop has a history.
LEMMA LoopExists ==
  ASSUME NEW n \in Nat, NEW T, NEW base \in T, NEW step \in [T \X (1 .. n) -> T]
  PROVE  \E f : LoopRuns(n, T, base, step, f)
<1> DEFINE Runs(f, m) == f[0] = base /\ \A i \in 1 .. m : f[i] = step[<<f[i - 1], i>>]
           G == {m \in 0 .. n : \E f \in [0 .. m -> T] : Runs(f, m)}
<1>1. 0 \in G
  <2> DEFINE f == [i \in 0 .. 0 |-> base]
  <2>1. f \in [0 .. 0 -> T] /\ Runs(f, 0)
    OBVIOUS
  <2>2. 0 \in 0 .. n
    OBVIOUS
  <2> HIDE DEF f, Runs
  <2>3. QED BY <2>1, <2>2
<1>2. ASSUME NEW m \in 1 .. n, m - 1 \in G PROVE m \in G
  <2>1. PICK f \in [0 .. m - 1 -> T] : Runs(f, m - 1)
    BY <1>2
  <2> DEFINE g == [i \in 0 .. m |-> IF i = m THEN step[<<f[m - 1], m>>] ELSE f[i]]
  <2>2. step[<<f[m - 1], m>>] \in T
    OBVIOUS
  <2>3. g \in [0 .. m -> T]
    BY <2>2
  <2>4. Runs(g, m)
    <3>1. g[0] = base
      BY <2>1
    <3>2. ASSUME NEW i \in 1 .. m PROVE g[i] = step[<<g[i - 1], i>>]
      <4>1. CASE i = m
        <5>1. g[m] = step[<<f[m - 1], m>>] /\ m - 1 \in 0 .. m /\ m - 1 # m
          OBVIOUS
        <5>2. g[m - 1] = f[m - 1]
          BY <5>1
        <5>3. QED BY <4>1, <5>1, <5>2, Zenon
      <4>2. CASE i # m
        <5>1. i \in 1 .. m - 1 /\ g[i] = f[i] /\ g[i - 1] = f[i - 1]
          BY <4>2
        <5>2. QED BY <2>1, <5>1
      <4>3. QED BY <4>1, <4>2
    <3>3. QED BY <3>1, <3>2
  <2>5. m \in 0 .. n
    OBVIOUS
  <2> HIDE DEF g, Runs
  <2>6. QED BY <2>3, <2>4, <2>5
<1>3. n \in G
  <2> HIDE DEF G
  <2>1. \A i \in 0 .. n : i \in G
    BY <1>1, <1>2, Reaches
  <2>2. QED BY <2>1
<1>4. QED BY <1>3 DEF LoopRuns

\* What each round of a loop keeps, the loop keeps.
LEMMA LoopTyped ==
  ASSUME NEW n \in Nat, NEW T, NEW f, f = [i \in 0 .. n |-> f[i]], f[0] \in T,
         \A i \in 1 .. n : f[i - 1] \in T => f[i] \in T
  PROVE  f \in [0 .. n -> T]
<1> DEFINE G == {i \in 0 .. n : f[i] \in T}
<1>1. 0 \in G
  OBVIOUS
<1>2. ASSUME NEW i \in 1 .. n, i - 1 \in G PROVE i \in G
  BY <1>2
<1>3. \A i \in 0 .. n : i \in G
  <2> HIDE DEF G
  <2>1. QED BY <1>1, <1>2, Reaches
<1>4. QED BY <1>3

-----------------------------------------------------------------------------
(* Sequences, element by element.                                          *)

\* An element more.
LEMMA AppendFacts ==
  ASSUME NEW S, NEW q \in Seq(S), NEW x \in S
  PROVE  /\ Append(q, x) \in Seq(S) /\ Len(Append(q, x)) = Len(q) + 1
         /\ ToSet(Append(q, x)) = ToSet(q) \cup {x}
<1>1. /\ Append(q, x) \in Seq(S) /\ Len(Append(q, x)) = Len(q) + 1
      /\ Append(q, x)[Len(q) + 1] = x
      /\ \A i \in 1 .. Len(q) : Append(q, x)[i] = q[i]
  OBVIOUS
<1>2. Len(q) \in Nat /\ DOMAIN q = 1 .. Len(q) /\ DOMAIN Append(q, x) = 1 .. Len(q) + 1
  BY <1>1
<1> DEFINE p == Append(q, x)
<1> HIDE DEF p
<1>3. ASSUME NEW y PROVE (\E i \in 1 .. Len(q) + 1 : p[i] = y) <=> (\E i \in 1 .. Len(q) : q[i] = y) \/ y = x
  BY <1>1, <1>2 DEF p
<1>4. ToSet(p) = {p[i] : i \in 1 .. Len(q) + 1} /\ ToSet(q) = {q[i] : i \in 1 .. Len(q)}
  BY <1>2 DEF ToSet, p
<1>5. ToSet(p) = ToSet(q) \cup {x}
  BY <1>3, <1>4
<1>6. QED BY <1>1, <1>5 DEF p

\* What a sequence begins with.
FirstOf(s, i) == {s[j] : j \in 1 .. i}

\* It grows with each element, from nothing to all of them.
LEMMA FirstOfFacts ==
  ASSUME NEW S, NEW s \in Seq(S)
  PROVE  /\ FirstOf(s, 0) = {} /\ FirstOf(s, Len(s)) = ToSet(s)
         /\ \A i \in 1 .. Len(s) : FirstOf(s, i) = FirstOf(s, i - 1) \cup {s[i]}
<1>1. Len(s) \in Nat /\ DOMAIN s = 1 .. Len(s)
  OBVIOUS
<1>2. FirstOf(s, 0) = {} /\ FirstOf(s, Len(s)) = ToSet(s)
  BY <1>1 DEF FirstOf, ToSet
<1>3. ASSUME NEW i \in 1 .. Len(s) PROVE FirstOf(s, i) = FirstOf(s, i - 1) \cup {s[i]}
  <2>1. 1 .. i = (1 .. i - 1) \cup {i}
    BY <1>1
  <2>2. QED BY <2>1 DEF FirstOf
<1>4. QED BY <1>2, <1>3

-----------------------------------------------------------------------------
(* Orders.                                                                 *)

\* A finite set that is totally ordered has a least element.
LEMMA LeastExists ==
  ASSUME NEW S, IsFiniteSet(S), S # {}, NEW R,
         \A x, y \in S : x # y => <<x, y>> \in R \/ <<y, x>> \in R,
         \A x, y, z \in S : <<x, y>> \in R /\ <<y, z>> \in R => <<x, z>> \in R
  PROVE  \E x \in S : \A y \in S \ {x} : <<x, y>> \in R
<1> DEFINE n == Cardinality(S)
           Led(T) == T # {} => \E x \in T : \A y \in T \ {x} : <<x, y>> \in R
           G == {i \in 0 .. n : \A T \in SUBSET S : Cardinality(T) = i => Led(T)}
<1>1. n \in Nat
  BY FS_CardinalityType
<1>2. 0 \in G
  <2>1. ASSUME NEW T \in SUBSET S, Cardinality(T) = 0 PROVE Led(T)
    BY <2>1, FS_Subset, FS_EmptySet
  <2>2. 0 \in 0 .. n
    BY <1>1
  <2> HIDE DEF Led
  <2>3. QED BY <2>1, <2>2
<1>3. ASSUME NEW i \in 1 .. n, i - 1 \in G PROVE i \in G
  <2>1. ASSUME NEW T \in SUBSET S, Cardinality(T) = i PROVE Led(T)
    <3> SUFFICES ASSUME T # {} PROVE \E x \in T : \A y \in T \ {x} : <<x, y>> \in R
      OBVIOUS
    <3>1. PICK t \in T : TRUE
      OBVIOUS
    <3> DEFINE U == T \ {t}
    <3>2. IsFiniteSet(T)
      BY FS_Subset
    <3>3. Cardinality(U) = i - 1
      BY <2>1, <3>2, FS_RemoveElement
    <3>4. U \in SUBSET S /\ Led(U)
      BY <1>3, <3>3
    <3>5. CASE U = {}
      BY <3>5
    <3>6. CASE U # {}
      <4>1. PICK x \in U : \A y \in U \ {x} : <<x, y>> \in R
        BY <3>4, <3>6
      <4>2. CASE <<x, t>> \in R
        BY <4>1, <4>2
      <4>3. CASE <<t, x>> \in R
        <5>1. \A y \in T \ {t} : <<t, y>> \in R
          BY <4>1, <4>3
        <5>2. QED BY <5>1
      <4>4. QED BY <4>1, <4>2, <4>3
    <3>7. QED BY <3>5, <3>6
  <2>2. i \in 0 .. n
    BY <1>1
  <2> HIDE DEF Led
  <2>3. QED BY <2>1, <2>2
<1> HIDE DEF G
<1>4. n \in G
  <2>1. \A i \in 0 .. n : i \in G
    BY <1>1, <1>2, <1>3, Reaches
  <2>2. QED BY <1>1, <2>1
<1>5. QED BY <1>4 DEF G

\* Fractions a/A, b/B, c/C, compared by cross-multiplication.
LEMMA FractionsOrdered ==
  ASSUME NEW a \in Nat, NEW b \in Nat, NEW c \in Nat,
         NEW A \in Nat \ {0}, NEW B \in Nat \ {0}, NEW C \in Nat \ {0},
         a * B <= b * A, b * C <= c * B
  PROVE  /\ a * C <= c * A
         /\ a * B < b * A \/ b * C < c * B => a * C < c * A
<1>1. ASSUME NEW x \in Nat, NEW y \in Nat, NEW k \in Nat \ {0}
      PROVE  /\ x <= y => x * k <= y * k
             /\ x < y => x * k < y * k
  OBVIOUS
<1>2. /\ a * B \in Nat /\ b * A \in Nat /\ b * C \in Nat /\ c * B \in Nat
      /\ a * C \in Nat /\ c * A \in Nat
  OBVIOUS
<1>3. /\ (a * B) * C <= (b * A) * C /\ (b * C) * A <= (c * B) * A
      /\ a * B < b * A => (a * B) * C < (b * A) * C
      /\ b * C < c * B => (b * C) * A < (c * B) * A
  BY <1>1, <1>2
<1>4. /\ (a * B) * C = (a * C) * B /\ (b * A) * C = (b * C) * A /\ (c * B) * A = (c * A) * B
      /\ (a * C) * B \in Nat /\ (b * C) * A \in Nat /\ (c * A) * B \in Nat
  OBVIOUS
<1>5. /\ (a * C) * B <= (c * A) * B
      /\ a * B < b * A \/ b * C < c * B => (a * C) * B < (c * A) * B
  BY <1>3, <1>4
<1>6. a * C <= c * A
  <2>1. c * A < a * C => (c * A) * B < (a * C) * B
    BY <1>1, <1>2
  <2>2. QED BY <1>2, <1>4, <1>5, <2>1
<1>7. ASSUME a * B < b * A \/ b * C < c * B PROVE a * C < c * A
  <2>1. a * C # c * A
    BY <1>4, <1>5, <1>7
  <2>2. QED BY <1>2, <1>6, <2>1
<1>8. QED BY <1>6, <1>7
=============================================================================
