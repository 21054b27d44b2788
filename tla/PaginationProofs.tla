-------------------------- MODULE PaginationProofs --------------------------
(***************************************************************************)
(* Theorems about Pagination for every set of clients, questions, pages,   *)
(* old cursors and lists of providers, and all limits.                     *)
(***************************************************************************)
EXTENDS Pagination, LoopLemmas, FiniteSetTheorems, TLAPS

-----------------------------------------------------------------------------
(* The operators that are loops.                                           *)

\* kept is what CompatibleProviders has after each provider.
CompatibleRuns(question, S, providers, kept) ==
  /\ kept \in [0 .. Len(providers) -> Seq(S)]
  /\ CompatibleProviders(question, providers) = kept[Len(providers)]
  /\ kept[0] = <<>>
  /\ \A i \in 1 .. Len(providers) :
       kept[i] = IF Supports(providers[i], question.options)
                 THEN Append(kept[i - 1], providers[i]) ELSE kept[i - 1]

\* The loop of CompatibleProviders has a history.
LEMMA CompatibleLoop ==
  ASSUME NEW question, NEW S, NEW providers \in Seq(S)
  PROVE  \E kept : CompatibleRuns(question, S, providers, kept)
<1> DEFINE n == Len(providers)
           T == Seq(S)
           base == <<>>
           Then(q, i) == IF Supports(providers[i], question.options) THEN Append(q, providers[i]) ELSE q
           Body(g) == [i \in 0 .. n |-> IF i = 0 THEN base ELSE Then(g[i - 1], i)]
           kept == CHOOSE g : g = Body(g)
<1>1. CompatibleProviders(question, providers) = kept[n]
  BY DEF CompatibleProviders
<1>2. n \in Nat /\ base \in T
  OBVIOUS
<1>3. \A q \in T, i \in 1 .. n : Then(q, i) \in T
  OBVIOUS
<1> HIDE DEF n, T, base, Then
<1>4. \E f : f = Body(f)
  <2> DEFINE step == [p \in T \X (1 .. n) |-> Then(p[1], p[2])]
  <2>1. step \in [T \X (1 .. n) -> T]
    BY <1>3
  <2>2. \A q \in T, i \in 1 .. n : step[<<q, i>>] = Then(q, i)
    OBVIOUS
  <2> HIDE DEF step
  <2>3. PICK f : LoopRuns(n, T, base, step, f)
    BY <1>2, <2>1, LoopExists
  <2>4. f \in [0 .. n -> T] /\ f[0] = base
    BY <2>3 DEF LoopRuns
  <2>5. ASSUME NEW i \in 1 .. n PROVE f[i] = Then(f[i - 1], i)
    <3>1. i - 1 \in 0 .. n
      BY <1>2
    <3>2. f[i - 1] \in T
      BY <2>4, <3>1
    <3>3. QED BY <2>2, <2>3, <3>2 DEF LoopRuns
  <2>6. ASSUME NEW i \in 0 .. n PROVE f[i] = Body(f)[i]
    <3>1. i = 0 \/ i \in 1 .. n
      BY <1>2
    <3>2. QED BY <2>4, <2>5, <3>1
  <2>7. f = Body(f)
    BY <2>4, <2>6
  <2> HIDE DEF Body
  <2>8. QED BY <2>7
<1>5. kept = Body(kept)
  <2> HIDE DEF Body
  <2>1. QED BY <1>4
<1> HIDE DEF kept
<1>6. kept[0] = base /\ kept = [i \in 0 .. n |-> kept[i]]
  BY <1>2, <1>5
<1>7. ASSUME NEW i \in 1 .. n PROVE kept[i] = Then(kept[i - 1], i)
  <2>1. i \in 0 .. n /\ i # 0
    BY <1>2
  <2>2. QED BY <1>5, <2>1
<1>8. kept \in [0 .. n -> T]
  <2>1. \A i \in 1 .. n : kept[i - 1] \in T => kept[i] \in T
    BY <1>3, <1>7
  <2>2. kept[0] \in T
    BY <1>2, <1>6
  <2>3. QED BY <1>2, <1>6, <2>1, <2>2, LoopTyped
<1>9. QED BY <1>1, <1>6, <1>7, <1>8 DEF n, T, base, Then, CompatibleRuns

\* kept is what Finalize has after each link.
FinalizeRuns(question, S, raw, kept) ==
  /\ kept \in [0 .. Len(raw) -> Seq(S)]
  /\ Finalize(question, raw) = kept[Len(raw)]
  /\ kept[0] = <<>>
  /\ \A i \in 1 .. Len(raw) :
       kept[i] = IF Lists(question, kept[i - 1], raw[i])
                 THEN Append(kept[i - 1], raw[i]) ELSE kept[i - 1]

\* The loop of Finalize has a history.
LEMMA FinalizeLoop ==
  ASSUME NEW question, NEW S, NEW raw \in Seq(S)
  PROVE  \E kept : FinalizeRuns(question, S, raw, kept)
<1> DEFINE n == Len(raw)
           T == Seq(S)
           base == <<>>
           Then(q, i) == IF Lists(question, q, raw[i]) THEN Append(q, raw[i]) ELSE q
           Body(g) == [i \in 0 .. n |-> IF i = 0 THEN base ELSE Then(g[i - 1], i)]
           kept == CHOOSE g : g = Body(g)
<1>1. Finalize(question, raw) = kept[n]
  BY DEF Finalize
<1>2. n \in Nat /\ base \in T
  OBVIOUS
<1>3. \A q \in T, i \in 1 .. n : Then(q, i) \in T
  OBVIOUS
<1> HIDE DEF n, T, base, Then
<1>4. \E f : f = Body(f)
  <2> DEFINE step == [p \in T \X (1 .. n) |-> Then(p[1], p[2])]
  <2>1. step \in [T \X (1 .. n) -> T]
    BY <1>3
  <2>2. \A q \in T, i \in 1 .. n : step[<<q, i>>] = Then(q, i)
    OBVIOUS
  <2> HIDE DEF step
  <2>3. PICK f : LoopRuns(n, T, base, step, f)
    BY <1>2, <2>1, LoopExists
  <2>4. f \in [0 .. n -> T] /\ f[0] = base
    BY <2>3 DEF LoopRuns
  <2>5. ASSUME NEW i \in 1 .. n PROVE f[i] = Then(f[i - 1], i)
    <3>1. i - 1 \in 0 .. n
      BY <1>2
    <3>2. f[i - 1] \in T
      BY <2>4, <3>1
    <3>3. QED BY <2>2, <2>3, <3>2 DEF LoopRuns
  <2>6. ASSUME NEW i \in 0 .. n PROVE f[i] = Body(f)[i]
    <3>1. i = 0 \/ i \in 1 .. n
      BY <1>2
    <3>2. QED BY <2>4, <2>5, <3>1
  <2>7. f = Body(f)
    BY <2>4, <2>6
  <2> HIDE DEF Body
  <2>8. QED BY <2>7
<1>5. kept = Body(kept)
  <2> HIDE DEF Body
  <2>1. QED BY <1>4
<1> HIDE DEF kept
<1>6. kept[0] = base /\ kept = [i \in 0 .. n |-> kept[i]]
  BY <1>2, <1>5
<1>7. ASSUME NEW i \in 1 .. n PROVE kept[i] = Then(kept[i - 1], i)
  <2>1. i \in 0 .. n /\ i # 0
    BY <1>2
  <2>2. QED BY <1>5, <2>1
<1>8. kept \in [0 .. n -> T]
  <2>1. \A i \in 1 .. n : kept[i - 1] \in T => kept[i] \in T
    BY <1>3, <1>7
  <2>2. kept[0] \in T
    BY <1>2, <1>6
  <2>3. QED BY <1>2, <1>6, <2>1, <2>2, LoopTyped
<1>9. QED BY <1>1, <1>6, <1>7, <1>8 DEF n, T, base, Then, FinalizeRuns

\* CompatibleProviders keeps the providers that can answer, and no others.
LEMMA CompatibleFacts ==
  ASSUME NEW question, NEW S, NEW providers \in Seq(S)
  PROVE  /\ CompatibleProviders(question, providers) \in Seq(S)
         /\ ToSet(CompatibleProviders(question, providers)) =
              {name \in ToSet(providers) : Supports(name, question.options)}
<1> DEFINE n == Len(providers)
           Able(set) == {name \in set : Supports(name, question.options)}
<1>1. n \in Nat /\ \A i \in 1 .. n : providers[i] \in S
  OBVIOUS
<1>2. PICK kept \in [0 .. n -> Seq(S)] :
        /\ CompatibleProviders(question, providers) = kept[n]
        /\ kept[0] = <<>>
        /\ \A i \in 1 .. n : kept[i] = IF Supports(providers[i], question.options)
                                       THEN Append(kept[i - 1], providers[i]) ELSE kept[i - 1]
  <2>1. \E kept : CompatibleRuns(question, S, providers, kept)
    BY CompatibleLoop
  <2>2. QED BY <2>1 DEF CompatibleRuns
<1> HIDE DEF n
<1>3. \A i \in 0 .. n : ToSet(kept[i]) = Able(FirstOf(providers, i))
  <2> DEFINE G == {i \in 0 .. n : ToSet(kept[i]) = Able(FirstOf(providers, i))}
  <2>1. 0 \in G
    <3>1. ToSet(kept[0]) = {}
      BY <1>2 DEF ToSet
    <3>2. Able(FirstOf(providers, 0)) = {}
      BY FirstOfFacts
    <3>3. 0 \in 0 .. n
      BY <1>1
    <3>4. QED BY <3>1, <3>2, <3>3
  <2>2. ASSUME NEW i \in 1 .. n, i - 1 \in G PROVE i \in G
    <3>1. /\ i \in 0 .. n /\ i - 1 \in 0 .. n
          /\ ToSet(kept[i - 1]) = Able(FirstOf(providers, i - 1))
      BY <1>1, <2>2
    <3>2. FirstOf(providers, i) = FirstOf(providers, i - 1) \cup {providers[i]}
      BY FirstOfFacts DEF n
    <3>3. kept[i - 1] \in Seq(S) /\ providers[i] \in S
      BY <1>1, <3>1
    <3>4. ToSet(Append(kept[i - 1], providers[i])) = ToSet(kept[i - 1]) \cup {providers[i]}
      BY <3>3, AppendFacts
    <3>5. ToSet(kept[i]) = Able(FirstOf(providers, i))
      BY <1>2, <3>1, <3>2, <3>4
    <3>6. QED BY <3>1, <3>5
  <2> HIDE DEF G
  <2>3. \A i \in 0 .. n : i \in G
    BY <1>1, <2>1, <2>2, Reaches
  <2>4. QED BY <2>3 DEF G
<1>4. n \in 0 .. n /\ FirstOf(providers, n) = ToSet(providers)
  BY <1>1, FirstOfFacts DEF n
<1>5. QED BY <1>2, <1>3, <1>4

\* The least of two numbers.
LEMMA MinOfTwo ==
  ASSUME NEW a \in Nat, NEW b \in Nat
  PROVE  Min({a, b}) = IF a <= b THEN a ELSE b
<1> DEFINE m == IF a <= b THEN a ELSE b
<1>1. m \in {a, b} /\ \A y \in {a, b} : m <= y
  OBVIOUS
<1>2. \A x \in {a, b} : (\A y \in {a, b} : x <= y) => x = m
  OBVIOUS
<1> HIDE DEF m
<1>3. Min({a, b}) = m
  BY <1>1, <1>2 DEF Min
<1>4. QED BY <1>3 DEF m

\* Of some links, those that a page may list, and the pages they lead to.
Wanted(question, links) ==
  {link \in links : Canonical[link] # None /\ DomainAllowed(Canonical[link].host, question)}
URLsOf(links) == {Canonical[link].url : link \in links}

\* What Finalize has kept after the links in seen.
KeptOf(question, seen, q) ==
  /\ ToSet(q) \subseteq Wanted(question, seen)
  /\ IsFiniteSet(URLsOf(Wanted(question, seen)))
  /\ Cardinality(URLsOf(ToSet(q))) = Len(q)
  /\ Len(q) <= question.limit
  /\ Len(q) < question.limit => URLsOf(ToSet(q)) = URLsOf(Wanted(question, seen))

\* The pages of two sets of links.
LEMMA URLsOfBoth ==
  ASSUME NEW A, NEW B
  PROVE  URLsOf(A \cup B) = URLsOf(A) \cup URLsOf(B)
BY DEF URLsOf

\* One more link: it is listed, or it adds nothing to what may be listed, or
\* there is no room for it.
LEMMA KeptStep ==
  ASSUME NEW question, question.limit \in Nat, NEW S, NEW seen, NEW q \in Seq(S), NEW x \in S,
         KeptOf(question, seen, q)
  PROVE  KeptOf(question, seen \cup {x}, IF Lists(question, q, x) THEN Append(q, x) ELSE q)
<1> DEFINE W == Wanted(question, seen)
           V == Wanted(question, seen \cup {x})
           OK == Canonical[x] # None /\ DomainAllowed(Canonical[x].host, question)
           url == Canonical[x].url
<1>1. V = W \cup (IF OK THEN {x} ELSE {})
  BY DEF Wanted
<1>2. URLsOf({x}) = {url} /\ URLsOf({}) = {}
  BY DEF URLsOf
<1>3. URLsOf(V) = URLsOf(W) \cup (IF OK THEN {url} ELSE {})
  <2>1. CASE OK
    <3>1. V = W \cup {x}
      BY <1>1, <2>1
    <3> HIDE DEF V, W, url, OK
    <3>2. URLsOf(V) = URLsOf(W) \cup URLsOf({x})
      BY <3>1, URLsOfBoth
    <3>3. QED BY <1>2, <2>1, <3>2
  <2>2. CASE ~OK
    <3>1. V = W
      BY <1>1, <2>2
    <3> HIDE DEF V, W, OK
    <3>2. QED BY <2>2, <3>1
  <2>3. QED BY <2>1, <2>2
<1>4. /\ ToSet(q) \subseteq W
      /\ IsFiniteSet(URLsOf(W)) /\ Cardinality(URLsOf(ToSet(q))) = Len(q)
      /\ Len(q) \in Nat /\ Len(q) <= question.limit
      /\ Len(q) < question.limit => URLsOf(ToSet(q)) = URLsOf(W)
  BY DEF KeptOf
<1>5. ToSet(q) = {q[i] : i \in 1 .. Len(q)} /\ DOMAIN q = 1 .. Len(q)
  BY DEF ToSet
<1>6. URLsOf(ToSet(q)) = {Canonical[q[i]].url : i \in 1 .. Len(q)}
  BY <1>5 DEF URLsOf
<1>7. Lists(question, q, x) <=> Len(q) < question.limit /\ OK /\ url \notin URLsOf(ToSet(q))
  BY <1>5, <1>6 DEF Lists, CanonicalizeURL
<1>8. IsFiniteSet(URLsOf(V))
  <2>1. IsFiniteSet(URLsOf(W) \cup {url})
    BY <1>4, FS_AddElement
  <2> HIDE DEF V, W, url, OK
  <2>2. QED BY <1>3, <1>4, <2>1
<1>9. IsFiniteSet(URLsOf(ToSet(q)))
  <2>1. URLsOf(ToSet(q)) \subseteq URLsOf(W)
    BY <1>4 DEF URLsOf
  <2>2. QED BY <1>4, <2>1, FS_Subset
<1>10. CASE Lists(question, q, x)
  <2> DEFINE p == Append(q, x)
  <2>1. p \in Seq(S) /\ Len(p) = Len(q) + 1 /\ ToSet(p) = ToSet(q) \cup {x}
    BY AppendFacts
  <2> HIDE DEF p
  <2>2. URLsOf(ToSet(p)) = URLsOf(ToSet(q)) \cup {url}
    BY <1>2, <2>1, URLsOfBoth
  <2>3. Cardinality(URLsOf(ToSet(p))) = Len(p)
    <3>1. Cardinality(URLsOf(ToSet(q)) \cup {url}) = Cardinality(URLsOf(ToSet(q))) + 1
      BY <1>7, <1>9, <1>10, FS_AddElement
    <3>2. QED BY <1>4, <2>1, <2>2, <3>1
  <2>4. ToSet(p) \subseteq V
    BY <1>1, <1>4, <1>7, <1>10, <2>1
  <2>5. Len(p) <= question.limit
    BY <1>4, <1>7, <1>10, <2>1
  <2>6. URLsOf(ToSet(p)) = URLsOf(V)
    BY <1>3, <1>4, <1>7, <1>10, <2>2
  <2>7. KeptOf(question, seen \cup {x}, p)
    BY <1>8, <2>3, <2>4, <2>5, <2>6 DEF KeptOf
  <2>8. QED BY <1>10, <2>7 DEF p
<1>11. CASE ~Lists(question, q, x)
  <2>1. ToSet(q) \subseteq V
    BY <1>1, <1>4
  <2>2. Len(q) < question.limit => URLsOf(ToSet(q)) = URLsOf(V)
    BY <1>3, <1>4, <1>7, <1>11
  <2>3. KeptOf(question, seen \cup {x}, q)
    BY <1>4, <1>8, <2>1, <2>2 DEF KeptOf
  <2>4. QED BY <1>11, <2>3
<1>12. QED BY <1>10, <1>11

\* A page lists links that may be listed, each page once, and as many as there
\* are, up to the limit (plan.go, Finalize).
THEOREM FinalizeFacts ==
  ASSUME NEW question, question.limit \in Nat, NEW S, NEW raw \in Seq(S)
  PROVE  LET links == Finalize(question, raw)
             wanted == Wanted(question, ToSet(raw))
         IN /\ ToSet(links) \subseteq wanted
            /\ Len(links) = Cardinality(URLsOf(ToSet(links)))
            /\ Len(links) = Min({question.limit, Cardinality(URLsOf(wanted))})
<1> DEFINE n == Len(raw)
<1>1. n \in Nat /\ \A i \in 1 .. n : raw[i] \in S
  OBVIOUS
<1>2. PICK kept : FinalizeRuns(question, S, raw, kept)
  BY FinalizeLoop
<1>3. /\ kept \in [0 .. n -> Seq(S)]
      /\ Finalize(question, raw) = kept[n]
      /\ kept[0] = <<>>
      /\ \A i \in 1 .. n : kept[i] = IF Lists(question, kept[i - 1], raw[i])
                                     THEN Append(kept[i - 1], raw[i]) ELSE kept[i - 1]
  BY <1>2 DEF FinalizeRuns
<1> HIDE DEF n
<1>4. KeptOf(question, {}, <<>>)
  <2>1. Wanted(question, {}) = {} /\ URLsOf({}) = {} /\ ToSet(<<>>) = {} /\ Len(<<>>) = 0
    BY DEF Wanted, URLsOf, ToSet
  <2>2. IsFiniteSet({}) /\ Cardinality({}) = 0
    BY FS_EmptySet
  <2>3. 0 <= question.limit
    OBVIOUS
  <2>4. QED BY <2>1, <2>2, <2>3 DEF KeptOf
<1>5. \A i \in 0 .. n : KeptOf(question, FirstOf(raw, i), kept[i])
  <2> DEFINE H == {i \in 0 .. n : KeptOf(question, FirstOf(raw, i), kept[i])}
  <2>1. 0 \in H
    <3>1. FirstOf(raw, 0) = {} /\ 0 \in 0 .. n
      BY <1>1, FirstOfFacts
    <3>2. QED BY <1>3, <1>4, <3>1
  <2>2. ASSUME NEW i \in 1 .. n, i - 1 \in H PROVE i \in H
    <3>1. i \in 0 .. n /\ i - 1 \in 0 .. n /\ KeptOf(question, FirstOf(raw, i - 1), kept[i - 1])
      BY <1>1, <2>2
    <3>2. FirstOf(raw, i) = FirstOf(raw, i - 1) \cup {raw[i]}
      BY FirstOfFacts DEF n
    <3>3. kept[i - 1] \in Seq(S) /\ raw[i] \in S
      BY <1>1, <1>3, <3>1
    <3>4. KeptOf(question, FirstOf(raw, i - 1) \cup {raw[i]},
                 IF Lists(question, kept[i - 1], raw[i]) THEN Append(kept[i - 1], raw[i]) ELSE kept[i - 1])
      BY <3>1, <3>3, KeptStep
    <3>5. KeptOf(question, FirstOf(raw, i), kept[i])
      BY <1>3, <3>2, <3>4
    <3>6. QED BY <3>1, <3>5
  <2> HIDE DEF H
  <2>3. \A i \in 0 .. n : i \in H
    BY <1>1, <2>1, <2>2, Reaches
  <2>4. QED BY <2>3 DEF H
<1> DEFINE links == Finalize(question, raw)
           wanted == Wanted(question, ToSet(raw))
<1>6. links \in Seq(S) /\ KeptOf(question, ToSet(raw), links)
  <2>1. n \in 0 .. n /\ FirstOf(raw, n) = ToSet(raw)
    BY <1>1, FirstOfFacts DEF n
  <2>2. QED BY <1>3, <1>5, <2>1
<1> HIDE DEF links, wanted
<1>7. /\ ToSet(links) \subseteq wanted /\ IsFiniteSet(URLsOf(wanted))
      /\ Cardinality(URLsOf(ToSet(links))) = Len(links)
      /\ Len(links) \in Nat /\ Len(links) <= question.limit
      /\ Len(links) < question.limit => URLsOf(ToSet(links)) = URLsOf(wanted)
  BY <1>6 DEF KeptOf, wanted
<1>8. Cardinality(URLsOf(wanted)) \in Nat /\ Len(links) <= Cardinality(URLsOf(wanted))
  <2>1. URLsOf(ToSet(links)) \subseteq URLsOf(wanted)
    BY <1>7 DEF URLsOf
  <2>2. QED BY <1>7, <2>1, FS_Subset, FS_CardinalityType
<1>9. Len(links) = Min({question.limit, Cardinality(URLsOf(wanted))})
  BY <1>7, <1>8, MinOfTwo
<1>10. QED BY <1>7, <1>9 DEF links, wanted

\* Links lead to no more pages than there are links.
LEMMA FewPages ==
  ASSUME NEW S, NEW s \in Seq(S), NEW links \in SUBSET ToSet(s)
  PROVE  /\ IsFiniteSet(URLsOf(links)) /\ Cardinality(URLsOf(links)) \in Nat
         /\ Cardinality(URLsOf(links)) <= Len(s)
<1> DEFINE n == Len(s)
           T == URLsOf(ToSet(s))
           f == [i \in 1 .. n |-> Canonical[s[i]].url]
<1>1. n \in Nat /\ ToSet(s) = {s[i] : i \in 1 .. n}
  BY DEF ToSet
<1>2. f \in Surjection(1 .. n, T)
  <2>1. T = {Canonical[s[i]].url : i \in 1 .. n}
    BY <1>1 DEF URLsOf
  <2> HIDE DEF T, n
  <2>2. QED BY <2>1 DEF Surjection
<1>3. IsFiniteSet(1 .. n) /\ Cardinality(1 .. n) = n
  <2>1. 0 \in Int /\ 1 \in Int /\ n \in Int
    BY <1>1
  <2>2. /\ IsFiniteSet(1 .. n)
        /\ Cardinality(1 .. n) = IF 1 > n THEN 0 ELSE n - 1 + 1
    BY <2>1, FS_Interval
  <2>3. QED BY <1>1, <2>2
<1> HIDE DEF f, n, T
<1>4. IsFiniteSet(T) /\ Cardinality(T) <= Cardinality(1 .. n)
  BY <1>2, <1>3, FS_Surjection
<1>5. URLsOf(links) \subseteq T
  BY DEF URLsOf, T
<1>6. /\ IsFiniteSet(URLsOf(links)) /\ Cardinality(URLsOf(links)) <= Cardinality(T)
      /\ Cardinality(T) \in Nat /\ Cardinality(URLsOf(links)) \in Nat
  BY <1>4, <1>5, FS_Subset, FS_CardinalityType
<1>7. QED BY <1>1, <1>3, <1>4, <1>6 DEF n

\* The parser leaves the first links of a page, and no more than the limit.
LEMMA ParsePageFacts ==
  ASSUME NEW question, question.limit \in Nat, NEW S, NEW raw \in Seq(S)
  PROVE  LET parsed == ParsePage(question, raw)
         IN /\ parsed \in Seq(S) /\ Len(parsed) <= question.limit
            /\ ToSet(parsed) = {raw[i] : i \in 1 .. Min({question.limit, Len(raw)})}
<1> DEFINE k == Min({question.limit, Len(raw)})
           parsed == SubSeq(raw, 1, k)
<1>1. k \in Nat /\ k <= question.limit /\ k <= Len(raw)
  BY MinOfTwo
<1> HIDE DEF k
<1>2. /\ parsed \in Seq(S) /\ Len(parsed) = k
      /\ \A i \in 1 .. k : parsed[i] = raw[i]
  BY <1>1
<1>3. ToSet(parsed) = {raw[i] : i \in 1 .. k}
  <2> HIDE DEF parsed
  <2>1. DOMAIN parsed = 1 .. k
    BY <1>2
  <2>2. QED BY <1>2, <2>1 DEF ToSet
<1>4. QED BY <1>1, <1>2, <1>3 DEF ParsePage, k

\* A page that is parsed and finalized lists, each page once, all that may be
\* listed of the entries that the parser reads (plan.go, Finalize).
THEOREM PageFacts ==
  ASSUME NEW question, question.limit \in Nat, NEW S, NEW raw \in Seq(S)
  PROVE  LinksHonourFilters(question, Finalize(question, ParsePage(question, raw)), raw)
<1> DEFINE parsed == ParsePage(question, raw)
           links == Finalize(question, parsed)
           wanted == Wanted(question, ToSet(parsed))
<1>1. /\ parsed \in Seq(S) /\ Len(parsed) <= question.limit
      /\ ToSet(parsed) = {raw[i] : i \in 1 .. Min({question.limit, Len(raw)})}
  BY ParsePageFacts
<1> HIDE DEF parsed
<1>2. /\ ToSet(links) \subseteq wanted
      /\ Len(links) = Cardinality(URLsOf(ToSet(links)))
      /\ Len(links) = Min({question.limit, Cardinality(URLsOf(wanted))})
  BY <1>1, FinalizeFacts
<1>3. wanted \in SUBSET ToSet(parsed)
  BY DEF Wanted
<1> HIDE DEF links, wanted
<1>4. /\ IsFiniteSet(URLsOf(wanted)) /\ Cardinality(URLsOf(wanted)) \in Nat
      /\ Cardinality(URLsOf(wanted)) <= Len(parsed)
  BY <1>1, <1>3, FewPages
<1>5. Cardinality(URLsOf(wanted)) <= question.limit
  <2>1. Len(parsed) \in Nat
    BY <1>1
  <2>2. QED BY <1>1, <1>4, <2>1
<1>6. Len(links) = Cardinality(URLsOf(wanted))
  <2>1. Min({question.limit, Cardinality(URLsOf(wanted))}) = Cardinality(URLsOf(wanted))
    BY <1>4, <1>5, MinOfTwo
  <2>2. QED BY <1>2, <2>1
<1>7. URLsOf(ToSet(links)) = URLsOf(wanted)
  <2>1. URLsOf(ToSet(links)) \subseteq URLsOf(wanted)
    BY <1>2 DEF URLsOf
  <2>2. QED BY <1>2, <1>4, <1>6, <2>1, FS_Subset
<1>8. Len(links) <= question.limit
  BY <1>5, <1>6
<1> DEFINE read == {raw[i] : i \in 1 .. Min({question.limit, Len(raw)})}
           able == {link \in read :
                      /\ Canonical[link] # None
                      /\ \A f \in question.exclude : Canonical[link].host \notin HostMatches[f]
                      /\ \/ question.include = {}
                         \/ \E f \in question.include : Canonical[link].host \in HostMatches[f]}
<1>9. able = wanted
  <2>1. read = ToSet(parsed)
    BY <1>1
  <2> HIDE DEF read
  <2>2. QED BY <2>1 DEF wanted, Wanted, DomainAllowed
<1> HIDE DEF able
<1>10. /\ ToSet(links) \subseteq able
       /\ Len(links) <= question.limit
       /\ Len(links) = Cardinality({Canonical[link].url : link \in ToSet(links)})
       /\ {Canonical[link].url : link \in ToSet(links)} = {Canonical[link].url : link \in able}
  BY <1>2, <1>7, <1>8, <1>9 DEF URLsOf
<1>11. LinksHonourFilters(question, links, raw)
  BY <1>10 DEF LinksHonourFilters, able
<1>12. QED BY <1>11 DEF links, parsed

-----------------------------------------------------------------------------
(* The inductive invariant: what a cursor, a cached response and a request *)
(* under way say of the session that they belong to.                       *)

\* A cursor continues a session that its provider began; what it says of the
\* request it continues is what the session began with.
CursorFits(k) ==
  /\ k.version \in {1, 2}
  /\ k.session = [question |-> k.session.question, provider |-> k.provider,
                  pages |-> k.session.pages]
  /\ k.provider # None /\ k.providers # <<>>
  /\ k.session.pages \in Nat /\ k.page = k.session.pages + 1 /\ k.page > 1
  /\ k.limit = k.session.question.limit
  /\ k.version = 1 => k.session.question = [query |-> k.fingerprint, limit |-> k.limit,
                                            include |-> {}, exclude |-> {}, options |-> {}]
  /\ k.version = 2 =>
       /\ k.fingerprint = Fingerprint(k.session.question, k.providers)
       /\ ~Conflicting(k.session.question) /\ Supports(k.provider, k.session.question.options)
       /\ k.page <= MaxPage
       /\ k.provider \in Tokened => k.token # None

\* A response is a page of the question it answers, by a provider that could.
ResponseFits(response) ==
  /\ response.provider # None /\ Supports(response.provider, response.of.options)
  /\ response.known = (response.provider \in Tokened)
  /\ response.raw \in RawPages
  /\ response.links = Finalize(response.of, ParsePage(response.of, response.raw))

\* It answers the request it is kept for.
Answers(response, r) ==
  /\ ResponseFits(response)
  /\ response.of = r.question /\ response.page = r.page
  /\ r.provider # None => response.provider = r.provider

\* A kept response answers the requests of its key.
EntryFits(kept) ==
  /\ ResponseFits(kept.response)
  /\ kept.key[1] # None => kept.response.provider = kept.key[1]
  /\ kept.response.page = kept.key[2]
  /\ kept.response.of = kept.key[3][1]

\* A request under way asks its payload's question, and its cursor's.
RequestFits(r) ==
  /\ r.payload \in Payloads /\ r.question = r.payload.question
  /\ ~Conflicting(r.question) /\ r.providers # <<>>
  /\ r.cursor = None => r.provider = None /\ r.page = 1 /\ None \notin ToSet(r.providers)
  /\ r.cursor # None =>
       /\ CursorFits(r.cursor) /\ r.question = r.cursor.session.question
       /\ r.provider = r.cursor.provider /\ r.page = r.cursor.page /\ r.token = r.cursor.token

EnabledFits == enabled \in Configurations
CursorsFit ==
  /\ held = [c \in Clients |-> held[c]]
  /\ \A c \in Clients : held[c] # None => CursorFits(held[c])
CacheFits == \A kept \in cache : EntryFits(kept)
RequestsFit ==
  /\ req = [c \in Clients |-> req[c]]
  /\ \A c \in Clients : req[c] # None => RequestFits(req[c])
RepliesFit == SessionIsOneSearch /\ CursorsAreRedeemable /\ PagesHonourFilters

IInv == EnabledFits /\ CursorsFit /\ CacheFits /\ RequestsFit /\ RepliesFit

\* A question has a limit.
LEMMA LimitType ==
  ASSUME NEW payload \in Payloads
  PROVE  payload.question.limit \in Nat
BY ConstantsOK DEF Questions

\* Cursors of version 1 fit.
LEMMA LegacyFits ==
  ASSUME NEW k \in LegacyCursors
  PROVE  CursorFits(k)
<1>1. /\ k.version = 1 /\ k.provider # None /\ k.providers # <<>> /\ k.page \in Nat \ {0, 1}
      /\ k.session = [question |-> [query |-> k.fingerprint, limit |-> k.limit, include |-> {},
                                    exclude |-> {}, options |-> {}],
                      provider |-> k.provider, pages |-> k.page - 1]
  BY ConstantsOK
<1>2. QED BY <1>1 DEF CursorFits

\* The providers of a request without a cursor are enabled ones.
LEMMA RequestedFacts ==
  ASSUME EnabledFits, NEW payload \in Payloads, ToSet(payload.routing) \subseteq ToSet(enabled)
  PROVE  /\ None \notin ToSet(Requested(payload))
         /\ payload.routing = <<>> =>
              ToSet(Requested(payload)) =
                {name \in ToSet(enabled) : Supports(name, payload.question.options)}
<1> DEFINE p == payload
           of == IF p.routing = <<>> THEN enabled ELSE p.routing
<1>1. enabled \in Seq(ToSet(enabled)) /\ None \notin ToSet(enabled)
  BY ConstantsOK DEF EnabledFits
<1>2. p.routing \in Seq(ToSet(p.routing))
  BY ConstantsOK
<1>3. of \in Seq(ToSet(of)) /\ ToSet(of) \subseteq ToSet(enabled)
  BY <1>1, <1>2
<1> HIDE DEF of
<1>4. ToSet(CompatibleProviders(p.question, of)) =
        {name \in ToSet(of) : Supports(name, p.question.options)}
  BY <1>3, CompatibleFacts
<1>5. Requested(payload) = CompatibleProviders(p.question, of)
  BY DEF Requested, of
<1>6. p.routing = <<>> => of = enabled
  BY DEF of
<1>7. QED BY <1>1, <1>3, <1>4, <1>5, <1>6

\* What Post may be given as a cursor.
Cursors == {None, Garbage} \cup {held[d] : d \in Clients}

\* What a request that passes the validations has.
LEMMA Accepted ==
  ASSUME NEW payload, NEW cursor, Refusal(payload, cursor) = None
  PROVE  /\ ToSet(payload.routing) \subseteq ToSet(enabled) /\ ~Conflicting(payload.question)
         /\ Requested(payload) # <<>>
         /\ cursor # None => cursor # Garbage /\ Matches(payload, cursor)
<1>1. None \notin {"invalid_request", "provider_selection_forbidden", "unsupported_search_options",
                   "invalid_cursor", "cursor_expired", "cursor_mismatch", "provider_unavailable"}
  BY NoneIsNothing DEF Problems
<1>2. QED BY <1>1 DEF Refusal

\* The request that Post puts under way fits.
LEMMA AcceptedFits ==
  ASSUME EnabledFits, CursorsFit, NEW payload \in Payloads, NEW cursor \in Cursors,
         Refusal(payload, cursor) = None
  PROVE  RequestFits([question |-> payload.question, providers |-> Asked(payload, cursor),
                      provider |-> IF cursor = None THEN None ELSE cursor.provider,
                      page |-> IF cursor = None THEN 1 ELSE cursor.page,
                      token |-> IF cursor = None THEN None ELSE cursor.token,
                      payload |-> payload, cursor |-> cursor])
<1> DEFINE q == payload.question
           r == [question |-> payload.question, providers |-> Asked(payload, cursor),
                 provider |-> IF cursor = None THEN None ELSE cursor.provider,
                 page |-> IF cursor = None THEN 1 ELSE cursor.page,
                 token |-> IF cursor = None THEN None ELSE cursor.token,
                 payload |-> payload, cursor |-> cursor]
<1>1. /\ ToSet(payload.routing) \subseteq ToSet(enabled) /\ ~Conflicting(q)
      /\ Requested(payload) # <<>>
      /\ cursor # None => cursor # Garbage /\ Matches(payload, cursor)
  BY Accepted
<1>2. CASE cursor = None
  <2>1. Asked(payload, cursor) = Requested(payload)
    BY <1>2 DEF Asked
  <2>2. None \notin ToSet(Requested(payload))
    BY <1>1, RequestedFacts
  <2>3. QED BY <1>1, <1>2, <2>1, <2>2 DEF RequestFits
<1>3. CASE cursor # None
  <2>1. CursorFits(cursor) /\ Matches(payload, cursor)
    BY <1>1, <1>3 DEF Cursors, CursorsFit
  <2>2. cursor.limit = q.limit /\ cursor.providers = Asked(payload, cursor)
    BY <2>1 DEF Matches
  <2>3. Asked(payload, cursor) # <<>>
    BY <2>1, <2>2 DEF CursorFits
  <2>4. q = cursor.session.question
    <3>1. CASE cursor.version = 1
      <4>1. q \in [query : {p.question.query : p \in Payloads}, limit : Nat \ {0},
                   include : SUBSET DOMAIN HostMatches, exclude : SUBSET DOMAIN HostMatches,
                   options : {p.question.options : p \in Payloads}]
        BY ConstantsOK DEF Questions
      <4>2. q = [query |-> q.query, limit |-> q.limit, include |-> q.include,
                 exclude |-> q.exclude, options |-> q.options]
        BY <4>1
      <4>3. cursor.fingerprint = q.query /\ q.include = {} /\ q.exclude = {} /\ q.options = {}
        <5>1. cursor.fingerprint = q.query /\ q.include \cup q.exclude \cup q.options = {}
          BY <2>1, <3>1 DEF Matches
        <5>2. QED BY <5>1
      <4>4. cursor.session.question = [query |-> cursor.fingerprint, limit |-> cursor.limit,
                                       include |-> {}, exclude |-> {}, options |-> {}]
        BY <2>1, <3>1 DEF CursorFits
      <4>5. QED BY <2>2, <4>2, <4>3, <4>4
    <3>2. CASE cursor.version = 2
      <4>1. cursor.fingerprint = <<q, Asked(payload, cursor)>>
        BY <2>1, <3>2 DEF Matches, Fingerprint
      <4>2. cursor.fingerprint = <<cursor.session.question, cursor.providers>>
        BY <2>1, <3>2 DEF CursorFits, Fingerprint
      <4>3. QED BY <4>1, <4>2
    <3>3. QED BY <2>1, <3>1, <3>2 DEF CursorFits
  <2>5. /\ r.payload = payload /\ r.question = q /\ r.providers = Asked(payload, cursor)
        /\ r.cursor = cursor /\ r.provider = cursor.provider /\ r.page = cursor.page
        /\ r.token = cursor.token
    BY <1>3
  <2> HIDE DEF r, q
  <2>6. payload.question = q
    BY DEF q
  <2>7. RequestFits(r)
    BY <1>1, <1>3, <2>1, <2>3, <2>4, <2>5, <2>6 DEF RequestFits
  <2>8. QED BY <2>7 DEF r, q
<1>4. QED BY <1>2, <1>3

\* What a client that repeats its question with its cursor is told of: its
\* cursor is old or too long, or it may not name providers.
LEMMA RefusedForACause ==
  ASSUME EnabledFits, NEW payload \in Payloads, NEW cursor, cursor \notin {None, Garbage},
         CursorFits(cursor), cursor.version = 2, payload.well,
         payload.question = cursor.session.question,
         \/ payload.routing = <<>>
         \/ /\ IsInjective(payload.routing)
            /\ Requested(payload) = cursor.providers,
         {cursor.provider} \cup ToSet(payload.routing) \subseteq ToSet(enabled)
  PROVE  \/ Refusal(payload, cursor) \in {None, "cursor_expired", "provider_selection_forbidden"}
         \/ Refusal(payload, cursor) = "invalid_request" /\ TooLong(cursor)
<1> DEFINE q == payload.question
<1>1. /\ ~Conflicting(q) /\ Supports(cursor.provider, q.options) /\ cursor.providers # <<>>
      /\ cursor.limit = q.limit
      /\ cursor.fingerprint = Fingerprint(q, cursor.providers)
  BY DEF CursorFits
<1>2. IsInjective(payload.routing)
  <2>1. IsInjective(<<>>)
    BY DEF IsInjective
  <2>2. QED BY <2>1
<1>3. Requested(payload) # <<>>
  <2>1. CASE payload.routing = <<>>
    <3>1. cursor.provider \in ToSet(Requested(payload))
      BY <1>1, <2>1, RequestedFacts
    <3>2. ToSet(<<>>) = {}
      BY DEF ToSet
    <3>3. QED BY <3>1, <3>2
  <2>2. CASE payload.routing # <<>>
    BY <1>1, <2>2
  <2>3. QED BY <2>1, <2>2
<1>4. Asked(payload, cursor) = cursor.providers
  BY DEF Asked
<1>5. Matches(payload, cursor)
  BY <1>1, <1>4 DEF Matches
<1>6. QED BY <1>1, <1>2, <1>3, <1>5 DEF Refusal

\* A request is put under way, or refused.
LEMMA PostKeeps ==
  ASSUME IInv, NEW c \in Clients, Post(c)
  PROVE  IInv'
<1>1. EnabledFits /\ CursorsFit /\ CacheFits /\ RequestsFit
  BY DEF IInv
<1>2. /\ enabled' = enabled /\ cache' = cache /\ held' = held /\ now' = now
  BY DEF Post
<1>3. PICK payload \in Payloads, cursor \in Cursors :
        LET code == Refusal(payload, cursor)
        IN IF code # None
           THEN reply' = Problem(code, None, payload, cursor) /\ UNCHANGED req
           ELSE /\ req' = [req EXCEPT ![c] =
                     [question |-> payload.question, providers |-> Asked(payload, cursor),
                      provider |-> IF cursor = None THEN None ELSE cursor.provider,
                      page |-> IF cursor = None THEN 1 ELSE cursor.page,
                      token |-> IF cursor = None THEN None ELSE cursor.token,
                      payload |-> payload, cursor |-> cursor]]
                /\ reply' = None
  BY DEF Post, Cursors
<1>4. EnabledFits' /\ CursorsFit' /\ CacheFits'
  BY <1>1, <1>2 DEF EnabledFits, CursorsFit, CacheFits
<1>5. CASE Refusal(payload, cursor) = None
  <2> DEFINE r == [question |-> payload.question, providers |-> Asked(payload, cursor),
                   provider |-> IF cursor = None THEN None ELSE cursor.provider,
                   page |-> IF cursor = None THEN 1 ELSE cursor.page,
                   token |-> IF cursor = None THEN None ELSE cursor.token,
                   payload |-> payload, cursor |-> cursor]
  <2>1. RequestFits(r)
    BY <1>1, <1>5, AcceptedFits
  <2>2. req' = [req EXCEPT ![c] = r] /\ reply' = None
    BY <1>3, <1>5
  <2> HIDE DEF r
  <2>3. /\ req' = [d \in Clients |-> req'[d]]
        /\ \A d \in Clients : req'[d] = IF d = c THEN r ELSE req[d]
    BY <1>1, <2>2 DEF RequestsFit
  <2>4. RequestsFit'
    BY <1>1, <2>1, <2>3 DEF RequestsFit
  <2>5. RepliesFit'
    BY <2>2 DEF RepliesFit, SessionIsOneSearch, CursorsAreRedeemable, PagesHonourFilters, Served
  <2>6. QED BY <1>4, <2>4, <2>5 DEF IInv
<1>6. CASE Refusal(payload, cursor) # None
  <2>1. req' = req /\ reply' = Problem(Refusal(payload, cursor), None, payload, cursor)
    BY <1>3, <1>6
  <2>2. RequestsFit'
    BY <1>1, <2>1 DEF RequestsFit
  <2>3. /\ reply'.problem = Refusal(payload, cursor) /\ reply'.cause = None
        /\ reply'.payload = payload /\ reply'.cursor = cursor
    BY <2>1 DEF Problem
  <2>4. ~Served'
    BY <1>6, <2>3 DEF Served
  <2>5. (SessionIsOneSearch /\ PagesHonourFilters)'
    BY <2>4 DEF SessionIsOneSearch, PagesHonourFilters
  <2>6. CursorsAreRedeemable'
    <3> SUFFICES ASSUME cursor \notin {None, Garbage}, cursor.version = 2, payload.well,
                        payload.question = cursor.session.question,
                        \/ payload.routing = <<>>
                        \/ /\ IsInjective(payload.routing)
                           /\ Requested(payload)' = cursor.providers,
                        {cursor.provider} \cup ToSet(payload.routing) \subseteq ToSet(enabled)
                 PROVE  /\ \/ Refusal(payload, cursor) \in
                                 {"cursor_expired", "provider_selection_forbidden",
                                  "pagination_source_unavailable"}
                           \/ Refusal(payload, cursor) = "invalid_request" /\ TooLong(cursor)
                        /\ None # "invalid_request"
      BY <1>2, <2>3 DEF CursorsAreRedeemable
    <3>1. Requested(payload)' = Requested(payload)
      BY <1>2 DEF Requested
    <3>2. CursorFits(cursor)
      BY <1>1 DEF Cursors, CursorsFit
    <3>3. \/ Refusal(payload, cursor) \in {None, "cursor_expired", "provider_selection_forbidden"}
          \/ Refusal(payload, cursor) = "invalid_request" /\ TooLong(cursor)
      BY <1>1, <3>1, <3>2, RefusedForACause
    <3>4. None # "invalid_request"
      BY NoneIsNothing DEF Problems
    <3>5. QED BY <1>6, <3>3, <3>4
  <2>7. QED BY <1>4, <2>2, <2>5, <2>6 DEF IInv, RepliesFit
<1>7. QED BY <1>5, <1>6

\* The page of a request: it is of the session that the cursor continues.
LEMMA PageOfRequest ==
  ASSUME NEW r, RequestFits(r)
  PROVE  /\ r.page \in Nat /\ r.page >= 1
         /\ r.cursor # None => r.page = r.cursor.session.pages + 1
BY DEF RequestFits, CursorFits

\* The cursor that a page hands out fits.
LEMMA NextCursorFits ==
  ASSUME NEW r, RequestFits(r), NEW response, Answers(response, r), HasMore(r, response)
  PROVE  CursorFits(Cursor(r, response))
<1> DEFINE k == Cursor(r, response)
           s == k.session
<1>1. r.page \in Nat /\ r.page >= 1 /\ MaxPage \in Nat
  BY ConstantsOK, PageOfRequest
<1>2. /\ k.version = 2 /\ k.fingerprint = Fingerprint(r.question, r.providers)
      /\ k.provider = response.provider /\ k.providers = r.providers /\ k.page = r.page + 1
      /\ k.token = response.token /\ k.limit = r.question.limit
      /\ s = IF r.cursor = None
             THEN [question |-> r.question, provider |-> response.provider, pages |-> 1]
             ELSE [r.cursor.session EXCEPT !.pages = @ + 1]
  BY DEF Cursor
<1>3. s = [question |-> r.question, provider |-> response.provider, pages |-> r.page]
  <2>1. CASE r.cursor = None
    BY <1>2, <2>1 DEF RequestFits
  <2>2. CASE r.cursor # None
    <3> DEFINE t == r.cursor.session
    <3>1. /\ t = [question |-> t.question, provider |-> r.cursor.provider, pages |-> t.pages]
          /\ r.question = t.question /\ r.provider = r.cursor.provider /\ r.provider # None
          /\ r.page = t.pages + 1
      BY <2>2 DEF RequestFits, CursorFits
    <3>2. response.provider = r.provider
      BY <3>1 DEF Answers
    <3>3. s = [t EXCEPT !.pages = t.pages + 1]
      BY <1>2, <2>2
    <3> HIDE DEF t, s
    <3>4. s = [question |-> t.question, provider |-> r.cursor.provider, pages |-> t.pages + 1]
      BY <3>1, <3>3
    <3>5. QED BY <3>1, <3>2, <3>4
  <2>3. QED BY <2>1, <2>2
<1>4. k.page <= MaxPage
  BY <1>1, <1>2 DEF HasMore
<1>5. k.provider # None /\ Supports(k.provider, r.question.options)
  BY <1>2 DEF Answers, ResponseFits
<1>6. k.provider \in Tokened => k.token # None
  BY <1>2 DEF Answers, ResponseFits, HasMore
<1>7. k.providers # <<>> /\ ~Conflicting(r.question)
  BY <1>2 DEF RequestFits
<1> HIDE DEF k
<1>8. CursorFits(k)
  BY <1>1, <1>2, <1>3, <1>4, <1>5, <1>6, <1>7 DEF CursorFits
<1>9. QED BY <1>8 DEF k

\* A page that answers the request is served: the client has it, and a cursor
\* that fits.
LEMMA ServeKeeps ==
  ASSUME IInv, NEW c \in Clients, req[c] # None, req[c].page <= MaxPage, NEW response,
         Answers(response, req[c]), Serve(c, response)
  PROVE  EnabledFits' /\ CursorsFit' /\ RequestsFit' /\ RepliesFit'
<1> DEFINE r == req[c]
<1>1. EnabledFits /\ CursorsFit /\ RequestsFit /\ RequestFits(r)
  BY DEF IInv, RequestsFit
<1>2. /\ req' = [req EXCEPT ![c] = None]
      /\ held' = [held EXCEPT ![c] = IF HasMore(r, response) THEN Cursor(r, response) ELSE None]
      /\ reply' = [problem |-> None, payload |-> r.payload, cursor |-> r.cursor,
                   response |-> response]
      /\ now' = now /\ enabled' = enabled
  BY DEF Serve
<1>3. EnabledFits'
  BY <1>1, <1>2 DEF EnabledFits
<1>4. CursorsFit'
  <2> DEFINE k == IF HasMore(r, response) THEN Cursor(r, response) ELSE None
  <2>1. k # None => CursorFits(k)
    BY <1>1, NextCursorFits
  <2>2. held' = [held EXCEPT ![c] = k]
    BY <1>2
  <2> HIDE DEF k
  <2>3. /\ held' = [d \in Clients |-> held'[d]]
        /\ \A d \in Clients : held'[d] = IF d = c THEN k ELSE held[d]
    BY <1>1, <2>2 DEF CursorsFit
  <2>4. QED BY <1>1, <2>1, <2>3 DEF CursorsFit
<1>5. RequestsFit'
  <2>1. /\ req' = [d \in Clients |-> req'[d]]
        /\ \A d \in Clients : req'[d] = IF d = c THEN None ELSE req[d]
    BY <1>1, <1>2 DEF RequestsFit
  <2>2. QED BY <1>1, <2>1 DEF RequestsFit
<1>6. /\ reply'.problem = None /\ reply'.payload = r.payload /\ reply'.cursor = r.cursor
      /\ reply'.response = response
  BY <1>2
<1>7. SessionIsOneSearch'
  <2> SUFFICES ASSUME r.cursor # None
               PROVE  /\ response.provider = r.cursor.session.provider
                      /\ response.of = r.cursor.session.question
                      /\ response.page = r.cursor.session.pages + 1
                      /\ response.page <= MaxPage
    BY <1>6 DEF SessionIsOneSearch
  <2>1. CursorFits(r.cursor)
    BY <1>1 DEF RequestFits
  <2>2. r.cursor.session.provider = r.cursor.provider
    <3> DEFINE t == r.cursor.session
    <3>1. t = [question |-> t.question, provider |-> r.cursor.provider, pages |-> t.pages]
      BY <2>1 DEF CursorFits
    <3> HIDE DEF t
    <3>2. t.provider = r.cursor.provider
      BY <3>1
    <3>3. QED BY <3>2 DEF t
  <2>3. /\ r.provider = r.cursor.provider /\ r.cursor.provider # None
        /\ r.question = r.cursor.session.question
    BY <1>1, <2>1 DEF RequestFits, CursorFits
  <2>4. r.page = r.cursor.session.pages + 1
    BY <1>1, PageOfRequest
  <2>5. /\ response.provider = r.provider /\ response.of = r.question
        /\ response.page = r.page
    BY <2>3 DEF Answers
  <2>6. QED BY <2>2, <2>3, <2>4, <2>5
<1>8. CursorsAreRedeemable'
  <2>1. ~(reply' # None /\ ~Served')
    BY <1>6 DEF Served
  <2>2. QED BY <2>1 DEF CursorsAreRedeemable
<1>9. PagesHonourFilters'
  <2>1. /\ response.links = Finalize(r.question, ParsePage(r.question, response.raw))
        /\ response.raw \in Seq(DOMAIN Canonical)
        /\ r.payload.question = r.question /\ r.question.limit \in Nat
    BY <1>1, ConstantsOK, LimitType DEF Answers, ResponseFits, RequestFits
  <2>2. LinksHonourFilters(r.payload.question, response.links, response.raw)
    BY <2>1, PageFacts
  <2>3. QED BY <1>6, <2>2 DEF PagesHonourFilters
<1>10. QED BY <1>3, <1>4, <1>5, <1>7, <1>8, <1>9 DEF RepliesFit

\* A kept page answers the request that finds it.
LEMMA ServeCachedKeeps ==
  ASSUME IInv, NEW c \in Clients, ServeCached(c)
  PROVE  IInv'
<1>1. PICK kept \in cache : kept.key = CacheKey(req[c]) /\ Serve(c, kept.response)
  BY DEF ServeCached
<1>2. req[c] # None /\ req[c].page <= MaxPage /\ cache' = cache
  BY DEF ServeCached
<1>3. EntryFits(kept) /\ CacheFits
  BY DEF IInv, CacheFits
<1>4. /\ kept.key[1] = req[c].provider /\ kept.key[2] = req[c].page
      /\ kept.key[3][1] = req[c].question
  BY <1>1 DEF CacheKey, Fingerprint
<1>5. Answers(kept.response, req[c])
  BY <1>3, <1>4 DEF EntryFits, Answers
<1>6. EnabledFits' /\ CursorsFit' /\ RequestsFit' /\ RepliesFit'
  BY <1>1, <1>2, <1>5, ServeKeeps
<1>7. CacheFits'
  BY <1>2, <1>3 DEF CacheFits
<1>8. QED BY <1>6, <1>7 DEF IInv

\* A live page answers the request, and so does what is kept of it.
LEMMA ServeLiveKeeps ==
  ASSUME IInv, NEW c \in Clients, ServeLive(c)
  PROVE  IInv'
<1> DEFINE r == req[c]
           others == {kept \in cache : kept.key # CacheKey(r)}
           Response(name, raw, token) ==
             [provider |-> name, links |-> Finalize(r.question, ParsePage(r.question, raw)),
              raw |-> raw, of |-> r.question, page |-> r.page,
              known |-> name \in Tokened, token |-> token]
<1>1. r # None
  BY DEF ServeLive
<1>2. PICK name \in (IF r.provider = None THEN ToSet(r.providers) ELSE {r.provider}),
           raw \in RawPages :
        \E token \in NextForms(name, r) :
        /\ ~Unacceptable(name, r)
        /\ r.provider = None => Response(name, raw, token).links # <<>>
        /\ Serve(c, Response(name, raw, token))
        /\ \E kept \in IF Cardinality(others) < MaxItems THEN {others}
                       ELSE {others \ {old} : old \in others} :
             cache' = kept \cup {[key |-> CacheKey(r), response |-> Response(name, raw, token)]}
  BY Zenon DEF ServeLive
<1>3. PICK token \in NextForms(name, r) :
        /\ ~Unacceptable(name, r)
        /\ r.provider = None => Response(name, raw, token).links # <<>>
        /\ Serve(c, Response(name, raw, token))
        /\ \E kept \in IF Cardinality(others) < MaxItems THEN {others}
                       ELSE {others \ {old} : old \in others} :
             cache' = kept \cup {[key |-> CacheKey(r), response |-> Response(name, raw, token)]}
  BY Zenon, <1>2
<1> DEFINE response == Response(name, raw, token)
<1>4. RequestFits(r) /\ CacheFits
  BY <1>1 DEF IInv, RequestsFit
<1>5. r.page <= MaxPage /\ Supports(name, r.question.options)
  <2>1. r.page \in Nat /\ MaxPage \in Nat
    BY <1>4, ConstantsOK, PageOfRequest
  <2>2. QED BY <1>3, <2>1 DEF Unacceptable
<1>6. /\ name # None
      /\ r.provider # None => name = r.provider
  <2>1. CASE r.provider = None
    <3>1. r.cursor = None /\ name \in ToSet(r.providers)
      BY <1>3, <1>4, <2>1 DEF RequestFits, CursorFits
    <3>2. QED BY <1>4, <2>1, <3>1 DEF RequestFits
  <2>2. CASE r.provider # None
    BY <1>3, <2>2
  <2>3. QED BY <2>1, <2>2
<1>7. /\ response.provider = name
      /\ response.links = Finalize(r.question, ParsePage(r.question, raw))
      /\ response.raw = raw /\ response.of = r.question /\ response.page = r.page
      /\ response.known = (name \in Tokened)
  OBVIOUS
<1>8. /\ Serve(c, response)
      /\ \A kept \in cache' : kept \in cache \/ kept = [key |-> CacheKey(r), response |-> response]
  BY <1>3
<1> HIDE DEF Response, response, others
<1>9. ResponseFits(response) /\ Answers(response, r)
  BY <1>3, <1>5, <1>6, <1>7 DEF ResponseFits, Answers
<1>10. EnabledFits' /\ CursorsFit' /\ RequestsFit' /\ RepliesFit'
  BY <1>1, <1>5, <1>8, <1>9, ServeKeeps
<1>11. EntryFits([key |-> CacheKey(r), response |-> response])
  <2>1. CacheKey(r)[1] = r.provider /\ CacheKey(r)[2] = r.page /\ CacheKey(r)[3][1] = r.question
    BY DEF CacheKey, Fingerprint
  <2>2. QED BY <1>9, <2>1 DEF EntryFits, Answers
<1>12. CacheFits'
  BY <1>4, <1>8, <1>11 DEF CacheFits
<1>13. QED BY <1>10, <1>12 DEF IInv

\* A search that fails blames a cursor only for what the site put into it.
LEMMA SearchFailsKeeps ==
  ASSUME IInv, NEW c \in Clients, SearchFails(c)
  PROVE  IInv'
<1> DEFINE r == req[c]
           cause == IF r.provider # None /\ Unacceptable(r.provider, r)
                    THEN "invalid_request" ELSE "provider_unavailable"
           code == IF r.cursor = None THEN "upstream_failed" ELSE "pagination_source_unavailable"
<1>1. EnabledFits /\ CursorsFit /\ CacheFits /\ RequestsFit
  BY DEF IInv
<1>2. /\ r # None /\ req' = [req EXCEPT ![c] = None]
      /\ reply' = [problem |-> code, cause |-> cause, payload |-> r.payload, cursor |-> r.cursor]
      /\ enabled' = enabled /\ cache' = cache /\ held' = held
  BY DEF SearchFails, Problem
<1>3. RequestFits(r)
  BY <1>1, <1>2 DEF RequestsFit
<1>4. EnabledFits' /\ CursorsFit' /\ CacheFits'
  BY <1>1, <1>2 DEF EnabledFits, CursorsFit, CacheFits
<1>5. RequestsFit'
  <2>1. /\ req' = [d \in Clients |-> req'[d]]
        /\ \A d \in Clients : req'[d] = IF d = c THEN None ELSE req[d]
    BY <1>1, <1>2 DEF RequestsFit
  <2>2. QED BY <1>1, <2>1 DEF RequestsFit
<1>6. /\ reply'.problem = code /\ reply'.cause = cause
      /\ reply'.payload = r.payload /\ reply'.cursor = r.cursor
  BY <1>2
<1>7. (SessionIsOneSearch /\ PagesHonourFilters)'
  <2>1. code # None
    BY NoneIsNothing DEF Problems
  <2>2. ~Served'
    BY <1>6, <2>1 DEF Served
  <2>3. QED BY <2>2 DEF SessionIsOneSearch, PagesHonourFilters
<1>8. CursorsAreRedeemable'
  <2> SUFFICES ASSUME r.cursor # None, r.cursor.version = 2
               PROVE  /\ code = "pagination_source_unavailable"
                      /\ cause = "invalid_request" =>
                           /\ r.cursor.token # None
                           /\ r.cursor.token.q # Compile(r.cursor.session.question)
    BY <1>6 DEF CursorsAreRedeemable
  <2>1. /\ CursorFits(r.cursor) /\ r.provider = r.cursor.provider /\ r.page = r.cursor.page
        /\ r.token = r.cursor.token /\ r.question = r.cursor.session.question
    BY <1>3 DEF RequestFits
  <2>2. /\ r.page <= MaxPage /\ Supports(r.provider, r.question.options)
        /\ r.provider \in Tokened => r.token # None
    BY <2>1 DEF CursorFits
  <2>3. r.page \in Nat /\ MaxPage \in Nat
    BY <1>3, ConstantsOK, PageOfRequest
  <2>4. Unacceptable(r.provider, r) =>
          /\ r.cursor.token # None
          /\ r.cursor.token.q # Compile(r.cursor.session.question)
    BY <2>1, <2>2, <2>3 DEF Unacceptable
  <2>5. QED BY <2>4
<1>9. QED BY <1>4, <1>5, <1>7, <1>8 DEF IInv, RepliesFit

\* Other providers may be enabled from now on, and the cursors still fit.
LEMMA RestartKeeps ==
  ASSUME IInv, Restart
  PROVE  IInv'
<1>1. /\ enabled' \in Configurations /\ cache' = {} /\ held' = held /\ reply' = None
      /\ req' = [c \in Clients |-> None]
  BY DEF Restart
<1>2. EnabledFits' /\ CursorsFit' /\ CacheFits'
  BY <1>1 DEF IInv, EnabledFits, CursorsFit, CacheFits
<1>3. RequestsFit'
  <2>1. /\ req' = [d \in Clients |-> req'[d]]
        /\ \A d \in Clients : req'[d] = None
    BY <1>1
  <2>2. QED BY <2>1 DEF RequestsFit
<1>4. RepliesFit'
  BY <1>1 DEF RepliesFit, SessionIsOneSearch, CursorsAreRedeemable, PagesHonourFilters, Served
<1>5. QED BY <1>2, <1>3, <1>4 DEF IInv

\* Time passes; no cursor changes with it.
LEMMA TickKeeps ==
  ASSUME IInv, Tick
  PROVE  IInv'
<1>1. enabled' = enabled /\ cache' = cache /\ held' = held /\ req' = req /\ reply' = None
  BY DEF Tick
<1>2. EnabledFits' /\ CursorsFit' /\ CacheFits' /\ RequestsFit'
  BY <1>1 DEF IInv, EnabledFits, CursorsFit, CacheFits, RequestsFit
<1>3. RepliesFit'
  BY <1>1 DEF RepliesFit, SessionIsOneSearch, CursorsAreRedeemable, PagesHonourFilters, Served
<1>4. QED BY <1>2, <1>3 DEF IInv

\* Old cursors may be with clients when the service starts.
LEMMA InitFits ==
  ASSUME Init
  PROVE  IInv
<1>1. EnabledFits /\ CacheFits
  BY DEF Init, EnabledFits, CacheFits
<1>2. CursorsFit
  BY LegacyFits DEF Init, CursorsFit
<1>3. RequestsFit
  <2>1. req = [c \in Clients |-> req[c]] /\ \A c \in Clients : req[c] = None
    BY DEF Init
  <2>2. QED BY <2>1 DEF RequestsFit
<1>4. RepliesFit
  BY DEF Init, RepliesFit, SessionIsOneSearch, CursorsAreRedeemable, PagesHonourFilters, Served
<1>5. QED BY <1>1, <1>2, <1>3, <1>4 DEF IInv

\* Every cursor that clients hold, every page kept in the cache and every
\* request under way fit the session they belong to, in every state.
THEOREM InductiveInvariant == Spec => []IInv
<1>1. Init => IInv
  BY InitFits
<1>2. IInv /\ [Next]_vars => IInv'
  <2> SUFFICES ASSUME IInv, [Next]_vars PROVE IInv'
    OBVIOUS
  <2>1. ASSUME NEW c \in Clients, ClientStep(c) PROVE IInv'
    BY <2>1, PostKeeps, ServeCachedKeeps, ServeLiveKeeps, SearchFailsKeeps DEF ClientStep
  <2>2. CASE UNCHANGED vars
    <3>1. /\ now' = now /\ enabled' = enabled /\ cache' = cache /\ held' = held /\ req' = req
          /\ reply' = reply
      BY <2>2 DEF vars
    <3>2. EnabledFits' /\ CursorsFit' /\ CacheFits' /\ RequestsFit'
      BY <3>1 DEF IInv, EnabledFits, CursorsFit, CacheFits, RequestsFit
    <3>3. (SessionIsOneSearch /\ PagesHonourFilters)'
      BY <3>1 DEF IInv, RepliesFit, SessionIsOneSearch, PagesHonourFilters, Served
    <3>4. CursorsAreRedeemable'
      BY <3>1 DEF IInv, RepliesFit, CursorsAreRedeemable, Served, Requested
    <3>5. QED BY <3>2, <3>3, <3>4 DEF IInv, RepliesFit
  <2>3. QED BY <2>1, <2>2, RestartKeeps, TickKeeps DEF Next
<1>3. QED BY <1>1, <1>2, PTL DEF Spec

\* The pages of a session are one search: same provider, same question, one
\* page after the other (search_service.go, router.go, cursor/codec.go).
THEOREM SessionsAreSearches == Spec => []SessionIsOneSearch
<1>1. IInv => SessionIsOneSearch
  BY DEF IInv, RepliesFit
<1>2. QED BY <1>1, InductiveInvariant, PTL

\* A cursor that the service handed out is not turned down as one that does
\* not fit its request, however the configuration has changed in between, if
\* the providers it needs are enabled; and it is not called invalid, unless the
\* form in the site's page has made it too long or names another query.
THEOREM CursorsRedeem == Spec => []CursorsAreRedeemable
<1>1. IInv => CursorsAreRedeemable
  BY DEF IInv, RepliesFit
<1>2. QED BY <1>1, InductiveInvariant, PTL

\* Every page, live or from the cache, keeps to the filters and the limit of
\* the request that it answers and lists nothing twice; of the entries that the
\* parsers read, the first ones up to the limit, it leaves out none that the
\* request allows.
THEOREM PagesAreFiltered == Spec => []PagesHonourFilters
<1>1. IInv => PagesHonourFilters
  BY DEF IInv, RepliesFit
<1>2. QED BY <1>1, InductiveInvariant, PTL
=============================================================================
