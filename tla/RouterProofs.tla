----------------------------- MODULE RouterProofs -----------------------------
(***************************************************************************)
(* Theorems about Router for every set of searches, providers and profiles *)
(* and all limits.                                                         *)
(***************************************************************************)
EXTENDS Router, FiniteSetTheorems, WellFoundedInduction, TLAPS

-----------------------------------------------------------------------------
(* The inductive invariant.                                                *)

\* The attempts of a search, numbered for each provider.
Attempted(s) == {x \in Providers \X (1 .. MaxAgentAttempts) : x[2] <= attempts[s][x[1]]}

\* A search with a lease has not given up its provider, and may have it once
\* more: its attempts are used up only while the last one is under way.
SearchShape(s) ==
  /\ pc[s] \in {"granted", "searching"} => mine[s] # None
  /\ mine[s] # None => /\ pc[s] \in {"leaving", "granted", "searching"}
                       /\ ProviderOf[mine[s]] \notin attempted[s]
  /\ \A p \in Providers : attempts[s][p] <= MaxAgentAttempts
  /\ pc[s] = "deciding" => at[s] \in Providers
  /\ \A p \in Providers \ attempted[s] :
       attempts[s][p] = MaxAgentAttempts =>
         \/ pc[s] \in {"done", "failed"}
         \/ pc[s] = "searching" /\ p = ProviderOf[mine[s]]
         \/ pc[s] = "deciding" /\ p = at[s]

\* Every wait but the last was followed by an attempt.
RoundsShape(s) ==
  /\ round[s] <= Cardinality(Attempted(s)) + 1
  /\ pc[s] \in {"idle", "loop", "trying", "rejected", "searching", "deciding"}
       => round[s] <= Cardinality(Attempted(s))
  /\ pc[s] \in {"waiting", "collecting", "leaving"} => round[s] # 0

Waiting(k) == k[2] = round[k[1]] /\ pc[k[1]] = "waiting"

\* A goroutine holds a lease of its pool from the grant to its end; the winner
\* is the only one, and while the wait has not timed out the search waits.
WorkerShape(k, p) ==
  /\ worker[k][p] \in {"obtained", "checked", "won"} <=> theirs[k][p] # None
  /\ theirs[k][p] # None => ProviderOf[theirs[k][p]] = p
  /\ worker[k][p] = "won" =>
       /\ accepted[k] /\ offered[k] = None
       /\ \A q \in Providers : worker[k][q] = "won" => p = q
  /\ worker[k][p] # "over" /\ ~Returned(k) => p \notin attempted[k[1]]
  /\ worker[k][p] = "won" \/ (worker[k][p] # "over" /\ ~accepted[k])
       => expired[k] \/ Waiting(k)

\* Nothing happens in a call before its time, and while the wait has not timed
\* out the search is there to take what the winner offers.
CallShape(k) ==
  /\ k[2] > round[k[1]] =>
       offered[k] = None /\ \A p \in Providers : worker[k][p] = "over"
  /\ \A p \in Providers : WorkerShape(k, p)
  /\ offered[k] # None =>
       /\ accepted[k] /\ (expired[k] \/ Waiting(k))
       /\ ~Returned(k) => ProviderOf[offered[k]] \notin attempted[k[1]]

\* No two places hold the same lease.
Exclusive ==
  /\ \A s, t \in Searches : mine[s] # None /\ mine[s] = mine[t] => s = t
  /\ \A k, l \in Calls : offered[k] # None /\ offered[k] = offered[l] => k = l
  /\ \A k, l \in Calls : \A p, q \in Providers :
       theirs[k][p] # None /\ theirs[k][p] = theirs[l][q] => k = l /\ p = q
  /\ \A s \in Searches, k \in Calls : mine[s] # None => mine[s] # offered[k]
  /\ \A s \in Searches, k \in Calls : \A p \in Providers : mine[s] # None => mine[s] # theirs[k][p]
  /\ \A k, l \in Calls : \A p \in Providers : offered[k] # None => offered[k] # theirs[l][p]

IInv ==
  /\ TypeOK
  /\ QueueAccounting
  /\ \A s \in Searches : SearchShape(s) /\ RoundsShape(s)
  /\ \A k \in Calls : CallShape(k)
  /\ Exclusive

-----------------------------------------------------------------------------
(* Counting.                                                               *)

\* The attempts of a search are limited by its providers.
LEMMA AttemptsCounted ==
  ASSUME NEW s \in Searches
  PROVE  /\ IsFiniteSet(Attempted(s)) /\ Cardinality(Attempted(s)) \in Nat
         /\ Cardinality(Attempted(s)) <= Cardinality(Providers) * MaxAgentAttempts
         /\ Cardinality(Providers) * MaxAgentAttempts \in Nat
<1>1. /\ IsFiniteSet(Providers) /\ Cardinality(Providers) \in Nat /\ MaxAgentAttempts \in Nat \ {0}
  BY ConstantsOK, FS_CardinalityType
<1>2. IsFiniteSet(1 .. MaxAgentAttempts) /\ Cardinality(1 .. MaxAgentAttempts) = MaxAgentAttempts
  BY <1>1, FS_Interval
<1> DEFINE all == Providers \X (1 .. MaxAgentAttempts)
<1>3. IsFiniteSet(all) /\ Cardinality(all) = Cardinality(Providers) * MaxAgentAttempts
  BY <1>1, <1>2, FS_Product
<1>4. Attempted(s) \in SUBSET all
  BY DEF Attempted
<1> HIDE DEF all
<1>5. IsFiniteSet(Attempted(s)) /\ Cardinality(Attempted(s)) <= Cardinality(all)
  BY <1>3, <1>4, FS_Subset
<1>6. Cardinality(Attempted(s)) \in Nat /\ Cardinality(all) \in Nat
  BY <1>3, <1>5, FS_CardinalityType
<1>7. QED BY <1>3, <1>5, <1>6

\* A lease entered into the books is one attempt more.
LEMMA AttemptCount ==
  ASSUME TypeOK, NEW s \in Searches, NEW p \in Providers, attempts[s][p] < MaxAgentAttempts,
         attempts' = [attempts EXCEPT ![s][p] = @ + 1]
  PROVE  Cardinality(Attempted(s)') = Cardinality(Attempted(s)) + 1
<1>1. /\ attempts[s] \in [Providers -> Nat] /\ MaxAgentAttempts \in Nat
      /\ attempts \in [Searches -> [Providers -> Nat]]
  BY ConstantsOK DEF TypeOK
<1>2. /\ attempts'[s][p] = attempts[s][p] + 1
      /\ \A q \in Providers \ {p} : attempts'[s][q] = attempts[s][q]
  BY <1>1
<1> DEFINE new == <<p, attempts[s][p] + 1>>
<1>3. new \notin Attempted(s)
  BY <1>1 DEF Attempted
<1>4. Attempted(s)' = Attempted(s) \cup {new}
  <2>1. new \in Attempted(s)'
    BY <1>1, <1>2 DEF Attempted
  <2>2. ASSUME NEW x \in Attempted(s) PROVE x \in Attempted(s)'
    <3>1. x[1] \in Providers /\ x[2] \in 1 .. MaxAgentAttempts /\ x[2] <= attempts[s][x[1]]
          /\ x \in Providers \X (1 .. MaxAgentAttempts)
      BY DEF Attempted
    <3>2. x[2] <= attempts'[s][x[1]]
      BY <1>1, <1>2, <3>1
    <3>3. QED BY <3>1, <3>2 DEF Attempted
  <2>3. ASSUME NEW x \in Attempted(s)', x # new PROVE x \in Attempted(s)
    <3>1. x \in Providers \X (1 .. MaxAgentAttempts) /\ x[2] <= attempts'[s][x[1]]
      BY DEF Attempted
    <3>2. x[1] \in Providers /\ x[2] \in Nat /\ x = <<x[1], x[2]>>
      BY <1>1, <3>1
    <3>3. CASE x[1] = p
      <4>1. x[2] # attempts[s][p] + 1 /\ x[2] <= attempts[s][p] + 1
        BY <1>2, <2>3, <3>1, <3>2, <3>3
      <4>2. attempts[s][p] \in Nat
        BY <1>1
      <4>3. x[2] <= attempts[s][x[1]]
        BY <3>2, <3>3, <4>1, <4>2
      <4>4. QED BY <3>1, <4>3 DEF Attempted
    <3>4. CASE x[1] # p
      BY <1>2, <3>1, <3>2, <3>4 DEF Attempted
    <3>5. QED BY <3>3, <3>4
  <2>4. QED BY <2>1, <2>2, <2>3
<1> HIDE DEF new
<1>5. QED BY <1>3, <1>4, AttemptsCounted, FS_AddElement

\* There are finitely many searches, so sets of them can be counted.
LEMMA SearchesCounted ==
  ASSUME NEW S \in SUBSET Searches
  PROVE  IsFiniteSet(S) /\ Cardinality(S) \in Nat
BY ConstantsOK, FS_Subset, FS_CardinalityType

\* The two kinds of counted searches, as the place of one of them changes.
LEMMA PlaceCounted ==
  ASSUME TypeOK, NEW s \in Searches, NEW place \in SearchPlaces,
         pc' = [pc EXCEPT ![s] = place]
  PROVE  /\ Cardinality(Queueing') = Cardinality(Queueing)
              + (IF place \in {"waiting", "collecting", "leaving"} THEN 1 ELSE 0)
              - (IF pc[s] \in {"waiting", "collecting", "leaving"} THEN 1 ELSE 0)
         /\ Cardinality(Rejected') = Cardinality(Rejected)
              + (IF place = "rejected" THEN 1 ELSE 0) - (IF pc[s] = "rejected" THEN 1 ELSE 0)
         /\ Cardinality(Queueing) \in Nat /\ Cardinality(Rejected) \in Nat
         /\ Cardinality(Queueing') \in Nat /\ Cardinality(Rejected') \in Nat
<1>1. /\ Queueing \in SUBSET Searches /\ Rejected \in SUBSET Searches
      /\ Queueing' \in SUBSET Searches /\ Rejected' \in SUBSET Searches
  BY DEF Queueing, Rejected
<1>2. /\ IsFiniteSet(Queueing) /\ IsFiniteSet(Rejected)
      /\ Cardinality(Queueing) \in Nat /\ Cardinality(Rejected) \in Nat
      /\ Cardinality(Queueing') \in Nat /\ Cardinality(Rejected') \in Nat
  BY <1>1, SearchesCounted
<1>3. pc'[s] = place /\ \A t \in Searches \ {s} : pc'[t] = pc[t]
  BY DEF TypeOK
<1>4. /\ Queueing' = IF place \in {"waiting", "collecting", "leaving"}
                     THEN Queueing \cup {s} ELSE Queueing \ {s}
      /\ s \in Queueing <=> pc[s] \in {"waiting", "collecting", "leaving"}
  BY <1>3 DEF Queueing
<1>5. /\ Rejected' = IF place = "rejected" THEN Rejected \cup {s} ELSE Rejected \ {s}
      /\ s \in Rejected <=> pc[s] = "rejected"
  BY <1>3 DEF Rejected
<1>6. /\ Cardinality(Queueing \cup {s}) =
           IF s \in Queueing THEN Cardinality(Queueing) ELSE Cardinality(Queueing) + 1
      /\ Cardinality(Rejected \cup {s}) =
           IF s \in Rejected THEN Cardinality(Rejected) ELSE Cardinality(Rejected) + 1
  <2>1. ASSUME NEW S \in SUBSET Searches
        PROVE  Cardinality(S \cup {s}) = IF s \in S THEN Cardinality(S) ELSE Cardinality(S) + 1
    <3>1. CASE s \in S
      <4>1. S \cup {s} = S
        BY <3>1
      <4>2. QED BY <3>1, <4>1
    <3>2. CASE s \notin S
      BY <3>2, SearchesCounted, FS_AddElement
    <3>3. QED BY <3>1, <3>2
  <2>2. QED BY <1>1, <2>1
<1>6a. /\ Cardinality(Queueing \ {s}) =
           IF s \in Queueing THEN Cardinality(Queueing) - 1 ELSE Cardinality(Queueing)
       /\ Cardinality(Rejected \ {s}) =
           IF s \in Rejected THEN Cardinality(Rejected) - 1 ELSE Cardinality(Rejected)
  <2>1. ASSUME NEW S \in SUBSET Searches
        PROVE  Cardinality(S \ {s}) = IF s \in S THEN Cardinality(S) - 1 ELSE Cardinality(S)
    <3>1. CASE s \notin S
      <4>1. S \ {s} = S
        BY <3>1
      <4>2. QED BY <3>1, <4>1
    <3>2. CASE s \in S
      BY <3>2, SearchesCounted, FS_RemoveElement
    <3>3. QED BY <3>1, <3>2
  <2>2. QED BY <1>1, <2>1
<1>7. Cardinality(Queueing') = Cardinality(Queueing)
        + (IF place \in {"waiting", "collecting", "leaving"} THEN 1 ELSE 0)
        - (IF pc[s] \in {"waiting", "collecting", "leaving"} THEN 1 ELSE 0)
  BY <1>2, <1>4, <1>6, <1>6a
<1>8. Cardinality(Rejected') = Cardinality(Rejected)
        + (IF place = "rejected" THEN 1 ELSE 0) - (IF pc[s] = "rejected" THEN 1 ELSE 0)
  BY <1>2, <1>5, <1>6, <1>6a
<1>9. QED BY <1>2, <1>7, <1>8

\* The queue counter follows the places of the searches.
LEMMA QueueStays ==
  ASSUME IInv, NEW s \in Searches, NEW place \in SearchPlaces, pc' = [pc EXCEPT ![s] = place],
         queued' = queued
              + (IF place \in {"waiting", "collecting", "leaving", "rejected"} THEN 1 ELSE 0)
              - (IF pc[s] \in {"waiting", "collecting", "leaving", "rejected"} THEN 1 ELSE 0),
         \/ place \notin {"waiting", "collecting", "leaving"}
         \/ pc[s] \in {"waiting", "collecting", "leaving"}
         \/ pc[s] # "rejected" /\ queued' <= AutoQueueMax
  PROVE  QueueAccounting' /\ queued' \in Nat
<1>1. /\ TypeOK /\ pc[s] \in SearchPlaces /\ queued \in Nat /\ AutoQueueMax \in Nat
      /\ queued = Cardinality(Queueing) + Cardinality(Rejected)
      /\ Cardinality(Queueing) <= AutoQueueMax
  BY ConstantsOK DEF IInv, QueueAccounting, TypeOK
<1> DEFINE wait(x) == x \in {"waiting", "collecting", "leaving"}
           rej(x)  == x = "rejected"
<1>2. /\ Cardinality(Queueing') = Cardinality(Queueing)
              + (IF wait(place) THEN 1 ELSE 0) - (IF wait(pc[s]) THEN 1 ELSE 0)
      /\ Cardinality(Rejected') = Cardinality(Rejected)
              + (IF rej(place) THEN 1 ELSE 0) - (IF rej(pc[s]) THEN 1 ELSE 0)
      /\ Cardinality(Queueing) \in Nat /\ Cardinality(Rejected) \in Nat
      /\ Cardinality(Queueing') \in Nat /\ Cardinality(Rejected') \in Nat
  BY <1>1, PlaceCounted
<1>3. /\ queued' = queued + (IF wait(place) \/ rej(place) THEN 1 ELSE 0)
                          - (IF wait(pc[s]) \/ rej(pc[s]) THEN 1 ELSE 0)
      /\ ~(wait(place) /\ rej(place)) /\ ~(wait(pc[s]) /\ rej(pc[s]))
      /\ ~wait(place) \/ wait(pc[s]) \/ (~rej(pc[s]) /\ queued' <= AutoQueueMax)
  OBVIOUS
<1> HIDE DEF wait, rej
<1>4. queued' = Cardinality(Queueing') + Cardinality(Rejected')
  BY <1>1, <1>2, <1>3
<1>5. Cardinality(Queueing') <= AutoQueueMax
  BY <1>1, <1>2, <1>3, <1>4
<1>6. queued' \in Nat
  BY <1>2, <1>4
<1>7. QED BY <1>4, <1>5, <1>6 DEF QueueAccounting

-----------------------------------------------------------------------------
(* Leases.                                                                 *)

\* Leases that are given back leave the others where they are.
LEMMA LeasesReturned ==
  ASSUME Exclusive,
         \A s \in Searches : mine'[s] \in {mine[s], None},
         \A k \in Calls : offered'[k] \in {offered[k], None},
         \A k \in Calls : \A p \in Providers : theirs'[k][p] \in {theirs[k][p], None}
  PROVE  Exclusive'
<1>1. \A s, t \in Searches : mine'[s] # None /\ mine'[s] = mine'[t] => s = t
  BY DEF Exclusive
<1>2. \A k, l \in Calls : offered'[k] # None /\ offered'[k] = offered'[l] => k = l
  BY DEF Exclusive
<1>3. \A k, l \in Calls : \A p, q \in Providers :
        theirs'[k][p] # None /\ theirs'[k][p] = theirs'[l][q] => k = l /\ p = q
  BY DEF Exclusive
<1>4. \A s \in Searches, k \in Calls : mine'[s] # None => mine'[s] # offered'[k]
  BY DEF Exclusive
<1>5. \A s \in Searches, k \in Calls : \A p \in Providers :
        mine'[s] # None => mine'[s] # theirs'[k][p]
  BY DEF Exclusive
<1>6. \A k, l \in Calls : \A p \in Providers : offered'[k] # None => offered'[k] # theirs'[l][p]
  BY DEF Exclusive
<1>7. QED BY <1>1, <1>2, <1>3, <1>4, <1>5, <1>6 DEF Exclusive

\* A lease that a pool grants is in no other place.
LEMMA LeaseAsked ==
  ASSUME Exclusive, TypeOK, NEW s \in Searches, NEW f \in Profiles, ~Leased(f),
         mine' = [mine EXCEPT ![s] = f], UNCHANGED <<offered, theirs>>
  PROVE  Exclusive'
<1>1. mine'[s] = f /\ \A t \in Searches \ {s} : mine'[t] = mine[t]
  BY DEF TypeOK
<1>2. /\ \A t \in Searches : mine[t] # f
      /\ \A k \in Calls : offered[k] # f
      /\ \A k \in Calls : \A p \in Providers : theirs[k][p] # f
  BY DEF Leased
<1>3. QED BY <1>1, <1>2 DEF Exclusive

\* The same for a lease that a goroutine of acquireAnyAuto obtains.
LEMMA LeaseObtained ==
  ASSUME Exclusive, TypeOK, NEW k \in Calls, NEW p \in Providers, NEW f \in Profiles, ~Leased(f),
         Holds(k, p, f), UNCHANGED <<mine, offered>>
  PROVE  Exclusive'
<1>1. /\ theirs'[k][p] = f
      /\ \A l \in Calls : \A q \in Providers : l # k \/ q # p => theirs'[l][q] = theirs[l][q]
  BY DEF TypeOK, Holds
<1>2. /\ \A t \in Searches : mine[t] # f
      /\ \A l \in Calls : offered[l] # f
      /\ \A l \in Calls : \A q \in Providers : theirs[l][q] # f
  BY DEF Leased
<1>3. \A l, m \in Calls : \A q, r \in Providers :
        theirs'[l][q] # None /\ theirs'[l][q] = theirs'[m][r] => l = m /\ q = r
  BY <1>1, <1>2 DEF Exclusive
<1>4. \A t \in Searches, l \in Calls : \A q \in Providers :
        mine[t] # None => mine[t] # theirs'[l][q]
  BY <1>1, <1>2 DEF Exclusive
<1>5. \A l, m \in Calls : \A q \in Providers : offered[l] # None => offered[l] # theirs'[m][q]
  BY <1>1, <1>2 DEF Exclusive
<1>6. QED BY <1>3, <1>4, <1>5 DEF Exclusive

\* A lease that is handed on leaves the place it comes from.
LEMMA LeaseOffered ==
  ASSUME Exclusive, TypeOK, NEW k \in Calls, NEW p \in Providers,
         offered' = [offered EXCEPT ![k] = theirs[k][p]], Holds(k, p, None), UNCHANGED mine
  PROVE  Exclusive'
<1>1. /\ theirs'[k][p] = None
      /\ \A l \in Calls : \A q \in Providers : l # k \/ q # p => theirs'[l][q] = theirs[l][q]
      /\ offered'[k] = theirs[k][p] /\ \A l \in Calls \ {k} : offered'[l] = offered[l]
  BY DEF TypeOK, Holds
<1>2. \A l, m \in Calls : offered'[l] # None /\ offered'[l] = offered'[m] => l = m
  BY <1>1 DEF Exclusive
<1>3. \A l, m \in Calls : \A q, r \in Providers :
        theirs'[l][q] # None /\ theirs'[l][q] = theirs'[m][r] => l = m /\ q = r
  BY <1>1 DEF Exclusive
<1>4. /\ \A t \in Searches, l \in Calls : mine[t] # None => mine[t] # offered'[l]
      /\ \A t \in Searches, l \in Calls : \A q \in Providers :
           mine[t] # None => mine[t] # theirs'[l][q]
  BY <1>1 DEF Exclusive
<1>5. \A l, m \in Calls : \A q \in Providers : offered'[l] # None => offered'[l] # theirs'[m][q]
  BY <1>1 DEF Exclusive
<1>6. QED BY <1>2, <1>3, <1>4, <1>5 DEF Exclusive

\* The same for the lease that the search takes out of the channel.
LEMMA LeaseReceived ==
  ASSUME Exclusive, TypeOK, NEW s \in Searches, NEW k \in Calls,
         mine' = [mine EXCEPT ![s] = offered[k]], offered' = [offered EXCEPT ![k] = None],
         UNCHANGED theirs
  PROVE  Exclusive'
<1>1. /\ mine'[s] = offered[k] /\ \A t \in Searches \ {s} : mine'[t] = mine[t]
      /\ offered'[k] = None /\ \A l \in Calls \ {k} : offered'[l] = offered[l]
  BY DEF TypeOK
<1>2. \A t, u \in Searches : mine'[t] # None /\ mine'[t] = mine'[u] => t = u
  BY <1>1 DEF Exclusive
<1>3. \A l, m \in Calls : offered'[l] # None /\ offered'[l] = offered'[m] => l = m
  BY <1>1 DEF Exclusive
<1>4. \A t \in Searches, l \in Calls : mine'[t] # None => mine'[t] # offered'[l]
  BY <1>1 DEF Exclusive
<1>5. \A t \in Searches, l \in Calls : \A q \in Providers :
        mine'[t] # None => mine'[t] # theirs[l][q]
  BY <1>1 DEF Exclusive
<1>6. \A l, m \in Calls : \A q \in Providers : offered'[l] # None => offered'[l] # theirs[m][q]
  BY <1>1 DEF Exclusive
<1>7. QED BY <1>2, <1>3, <1>4, <1>5, <1>6 DEF Exclusive

-----------------------------------------------------------------------------
(* What a step leaves alone.                                               *)

\* The provider tryAcquire asks next is one it may ask.
LEMMA FirstIsOne ==
  ASSUME NEW ps \in SUBSET Nat, ps # {}
  PROVE  First(ps) \in ps
<1> DEFINE less == {ss \in Nat \X Nat : ss[1] < ss[2]}
<1>1. IsWellFoundedOn(less, Nat)
  BY NatLessThanWellFounded DEF OpToRel
<1>2. \A x, y \in Nat : <<y, x>> \in less <=> y < x
  OBVIOUS
<1> HIDE DEF less
<1>3. PICK x \in ps : \A y \in ps : ~ (<<y, x>> \in less)
  BY <1>1, WFMin
<1>4. ASSUME NEW y \in ps PROVE x <= y
  <2>1. x \in Nat /\ y \in Nat
    OBVIOUS
  <2>2. ~ (y < x)
    BY <1>2, <1>3, <2>1
  <2>3. QED BY <2>1, <2>2
<1>5. QED BY <1>4 DEF First

\* A search keeps its shape while its own variables stay.
LEMMA SearchKept ==
  ASSUME NEW t \in Searches, SearchShape(t), RoundsShape(t),
         pc'[t] = pc[t], at'[t] = at[t], attempted'[t] = attempted[t],
         attempts'[t] = attempts[t], mine'[t] = mine[t], round'[t] = round[t]
  PROVE  SearchShape(t)' /\ RoundsShape(t)'
<1>1. SearchShape(t)'
  BY DEF SearchShape
<1>2. Attempted(t)' = Attempted(t)
  BY DEF Attempted
<1>3. QED BY <1>1, <1>2 DEF RoundsShape

\* A call keeps its shape while its own variables stay, it stays returned and
\* its search stays waiting.
LEMMA CallKept ==
  ASSUME NEW k \in Calls, CallShape(k),
         accepted'[k] = accepted[k], offered'[k] = offered[k], expired'[k] = expired[k],
         worker'[k] = worker[k], theirs'[k] = theirs[k],
         k[2] > round'[k[1]] => k[2] > round[k[1]],
         Returned(k) => Returned(k)', Waiting(k) => Waiting(k)',
         ~ (k[2] > round[k[1]]) /\ ~Returned(k)' => attempted'[k[1]] = attempted[k[1]]
  PROVE  CallShape(k)'
<1>1. CASE k[2] > round[k[1]]
  BY <1>1 DEF CallShape, WorkerShape
<1>2. CASE ~ (k[2] > round[k[1]])
  BY <1>2 DEF CallShape, WorkerShape
<1>3. QED BY <1>1, <1>2

\* A call is a search and a number.
LEMMA CallParts ==
  ASSUME NEW k \in Calls
  PROVE  k[1] \in Searches /\ k[2] \in Rounds /\ k[2] \in Nat /\ k = <<k[1], k[2]>>
<1>1. Rounds \subseteq Nat
  BY DEF Rounds
<1>2. k \in Searches \X Rounds
  BY DEF Calls
<1>3. k[1] \in Searches /\ k[2] \in Rounds
  BY <1>2
<1>4. k = <<k[1], k[2]>>
  BY <1>2
<1>5. QED BY <1>1, <1>3, <1>4

\* A step of a search outside its calls disturbs only what it changes itself.
LEMMA SearchAlone ==
  ASSUME IInv, NEW s \in Searches, NEW place \in SearchPlaces, pc' = [pc EXCEPT ![s] = place],
         UNCHANGED <<callVars, round>>,
         \A t \in Searches \ {s} :
           at'[t] = at[t] /\ attempted'[t] = attempted[t] /\ attempts'[t] = attempts[t] /\ mine'[t] = mine[t],
         pc[s] # "waiting", place \notin {"waiting", "collecting", "leaving"},
         queued' = queued
              + (IF place \in {"waiting", "collecting", "leaving", "rejected"} THEN 1 ELSE 0)
              - (IF pc[s] \in {"waiting", "collecting", "leaving", "rejected"} THEN 1 ELSE 0),
         TypeOK', SearchShape(s)', RoundsShape(s)', Exclusive'
  PROVE  IInv'
<1>1. pc'[s] = place /\ \A t \in Searches \ {s} : pc'[t] = pc[t]
  BY DEF IInv, TypeOK
<1>2. QueueAccounting'
  BY QueueStays
<1>3. ASSUME NEW t \in Searches PROVE SearchShape(t)' /\ RoundsShape(t)'
  <2>1. CASE t = s
    BY <2>1
  <2>2. CASE t # s
    BY <1>1, <2>2, SearchKept DEF IInv
  <2>3. QED BY <2>1, <2>2
<1>4. ASSUME NEW k \in Calls PROVE CallShape(k)'
  <2>1. /\ accepted'[k] = accepted[k] /\ offered'[k] = offered[k] /\ expired'[k] = expired[k]
        /\ worker'[k] = worker[k] /\ theirs'[k] = theirs[k] /\ round' = round
    BY DEF callVars
  <2>2. Returned(k) => Returned(k)'
    BY <1>1, <2>1, CallParts DEF Returned
  <2>3. Waiting(k) => Waiting(k)'
    BY <1>1, <2>1, CallParts DEF Waiting
  <2>4. ~ (k[2] > round[k[1]]) /\ ~Returned(k)' => attempted'[k[1]] = attempted[k[1]]
    <3>1. CASE k[1] = s
      <4>1. round[s] \in Nat
        BY DEF IInv, TypeOK, Rounds
      <4>2. QED BY <1>1, <2>1, <3>1, <4>1, CallParts DEF Returned
    <3>2. CASE k[1] # s
      BY <3>2, CallParts
    <3>3. QED BY <3>1, <3>2
  <2>5. QED BY <2>1, <2>2, <2>3, <2>4, CallKept DEF IInv
<1>5. QED BY <1>2, <1>3, <1>4 DEF IInv

\* A step of a goroutine disturbs only its call.
LEMMA WorkerAlone ==
  ASSUME IInv, NEW k \in Calls, UNCHANGED searchVars,
         \A l \in Calls \ {k} :
           /\ accepted'[l] = accepted[l] /\ offered'[l] = offered[l] /\ expired'[l] = expired[l]
           /\ worker'[l] = worker[l] /\ theirs'[l] = theirs[l],
         TypeOK', CallShape(k)', Exclusive'
  PROVE  IInv'
<1>1. UNCHANGED <<pc, at, attempted, attempts, queued, round, mine>>
  BY DEF searchVars, choiceVars, queueVars
<1>2. QueueAccounting'
  BY <1>1 DEF IInv, QueueAccounting, Queueing, Rejected
<1>3. ASSUME NEW t \in Searches PROVE SearchShape(t)' /\ RoundsShape(t)'
  BY <1>1, SearchKept DEF IInv
<1>4. ASSUME NEW l \in Calls, l # k PROVE CallShape(l)'
  <2>1. /\ accepted'[l] = accepted[l] /\ offered'[l] = offered[l] /\ expired'[l] = expired[l]
        /\ worker'[l] = worker[l] /\ theirs'[l] = theirs[l]
    BY <1>4
  <2>2. (Returned(l) => Returned(l)') /\ (Waiting(l) => Waiting(l)')
    BY <1>1 DEF Returned, Waiting
  <2>3. CallShape(l)
    BY DEF IInv
  <2>4. QED BY <1>1, <2>1, <2>2, <2>3, CallKept
<1>5. QED BY <1>2, <1>3, <1>4 DEF IInv

\* Nor does a step that touches neither searches nor calls.
LEMMA NothingTouched ==
  ASSUME IInv, UNCHANGED <<searchVars, callVars>>, open' \subseteq Profiles
  PROVE  IInv'
<1>1. UNCHANGED <<pc, at, attempted, attempts, excluded, queued, round, mine>>
  BY DEF searchVars, choiceVars, queueVars
<1>2. UNCHANGED <<accepted, offered, expired, worker, theirs>>
  BY DEF callVars
<1>3. TypeOK' /\ QueueAccounting'
  BY <1>1, <1>2 DEF IInv, TypeOK, QueueAccounting, Queueing, Rejected
<1>4. ASSUME NEW t \in Searches PROVE SearchShape(t)' /\ RoundsShape(t)'
  BY <1>1, SearchKept DEF IInv
<1>5. ASSUME NEW k \in Calls PROVE CallShape(k)'
  <2>1. (Returned(k) => Returned(k)') /\ (Waiting(k) => Waiting(k)')
    BY <1>1 DEF Returned, Waiting
  <2>2. CallShape(k)
    BY DEF IInv
  <2>3. QED BY <1>1, <1>2, <2>1, <2>2, CallKept
<1>6. Exclusive'
  BY <1>1, <1>2 DEF IInv, Exclusive
<1>7. QED BY <1>3, <1>4, <1>5, <1>6 DEF IInv

-----------------------------------------------------------------------------
(* Steps of a search outside its calls.                                    *)

\* A search is started, goes on or gives up, and no lease moves.
LEMMA SteerStep ==
  ASSUME IInv, NEW s \in Searches, Start(s) \/ Loop(s) \/ GiveUp(s)
  PROVE  IInv'
<1>1. PICK place \in {"loop", "trying", "failed"} : Goto(s, place)
  BY DEF Start, Loop, GiveUp
<1>2. /\ pc[s] \in {"idle", "loop", "retrying"} /\ (place # "failed" => pc[s] # "retrying")
      /\ UNCHANGED <<at, choiceVars, queueVars, callVars, mine, open>>
  <2>1. CASE Start(s)
    BY <2>1 DEF Start
  <2>2. CASE Loop(s)
    BY <2>2 DEF Loop
  <2>3. CASE GiveUp(s)
    BY <1>1, <2>3 DEF GiveUp, Goto, IInv, TypeOK
  <2>4. QED BY <2>1, <2>2, <2>3
<1>3. UNCHANGED <<attempted, attempts, excluded, queued, round, accepted, offered, expired,
                  worker, theirs, at, mine, open>>
  BY <1>2 DEF choiceVars, queueVars, callVars
<1>4. TypeOK /\ SearchShape(s) /\ RoundsShape(s) /\ Exclusive
  BY DEF IInv
<1>5. pc' = [pc EXCEPT ![s] = place] /\ pc'[s] = place /\ place \in SearchPlaces
  BY <1>1, <1>4 DEF Goto, TypeOK, SearchPlaces
<1>6. TypeOK'
  BY <1>3, <1>4, <1>5 DEF TypeOK
<1>7. SearchShape(s)'
  BY <1>2, <1>3, <1>4, <1>5, <1>1 DEF SearchShape
<1>8. RoundsShape(s)'
  <2>1. Attempted(s)' = Attempted(s)
    BY <1>3 DEF Attempted
  <2>2. QED BY <1>1, <1>2, <1>3, <1>4, <1>5, <2>1 DEF RoundsShape
<1>9. Exclusive'
  BY <1>3, <1>4 DEF Exclusive
<1>10. queued' = queued
              + (IF place \in {"waiting", "collecting", "leaving", "rejected"} THEN 1 ELSE 0)
              - (IF pc[s] \in {"waiting", "collecting", "leaving", "rejected"} THEN 1 ELSE 0)
  BY <1>1, <1>2, <1>3, <1>4 DEF TypeOK
<1>11. QED
  BY <1>1, <1>2, <1>3, <1>5, <1>6, <1>7, <1>8, <1>9, <1>10, SearchAlone DEF callVars

\* A pool is asked for a lease, and has one or not.
LEMMA AskStep ==
  ASSUME IInv, NEW s \in Searches, Ask(s)
  PROVE  IInv'
<1> DEFINE p == First(Untried(s))
<1>1. TypeOK /\ SearchShape(s) /\ RoundsShape(s) /\ Exclusive
  BY DEF IInv
<1>2. p \in Providers \ attempted[s] /\ p \in Nat
  <2>1. Untried(s) \in SUBSET Nat /\ Untried(s) # {} /\ Untried(s) \subseteq Providers \ attempted[s]
    BY ConstantsOK DEF Ask, Untried
  <2>2. QED BY <2>1, FirstIsOne
<1>3. /\ pc[s] \in {"trying", "retrying"} /\ UNCHANGED <<choiceVars, queueVars, callVars, open>>
      /\ \/ at' = [at EXCEPT ![s] = p + 1] /\ UNCHANGED <<pc, mine>>
         \/ \E f \in Available(p, excluded[s][p]) :
              mine' = [mine EXCEPT ![s] = f] /\ Goto(s, "granted") /\ Rewound(s)
  BY DEF Ask
<1> HIDE DEF p
<1>4. UNCHANGED <<attempted, attempts, excluded, queued, round, accepted, offered, expired,
                  worker, theirs, open>>
  BY <1>3 DEF choiceVars, queueVars, callVars
<1>5. Attempted(s)' = Attempted(s)
  BY <1>4 DEF Attempted
<1>6. mine[s] = None
  BY <1>1, <1>3 DEF SearchShape
<1>7. CASE at' = [at EXCEPT ![s] = p + 1] /\ UNCHANGED <<pc, mine>>
  <2>1. pc[s] \in SearchPlaces /\ pc' = [pc EXCEPT ![s] = pc[s]]
    BY <1>1, <1>7 DEF TypeOK
  <2>2. TypeOK'
    BY <1>1, <1>2, <1>4, <1>7 DEF TypeOK
  <2>3. SearchShape(s)'
    BY <1>1, <1>3, <1>4, <1>7 DEF SearchShape
  <2>4. RoundsShape(s)'
    BY <1>1, <1>4, <1>5, <1>7 DEF RoundsShape
  <2>5. Exclusive'
    BY <1>1, <1>4, <1>7 DEF Exclusive
  <2>6. \A t \in Searches \ {s} : at'[t] = at[t]
    BY <1>1, <1>7 DEF TypeOK
  <2>7. queued' = queued
              + (IF pc[s] \in {"waiting", "collecting", "leaving", "rejected"} THEN 1 ELSE 0)
              - (IF pc[s] \in {"waiting", "collecting", "leaving", "rejected"} THEN 1 ELSE 0)
    BY <1>1, <1>3, <1>4 DEF TypeOK
  <2>8. QED
    BY <1>3, <1>4, <1>7, <2>1, <2>2, <2>3, <2>4, <2>5, <2>6, <2>7, SearchAlone DEF callVars
<1>8. CASE \E f \in Available(p, excluded[s][p]) :
             mine' = [mine EXCEPT ![s] = f] /\ Goto(s, "granted") /\ Rewound(s)
  <2>1. PICK f \in Available(p, excluded[s][p]) :
          mine' = [mine EXCEPT ![s] = f] /\ Goto(s, "granted") /\ Rewound(s)
    BY <1>8
  <2>2. f \in Profiles /\ ~Leased(f) /\ ProviderOf[f] = p
    BY <1>1 DEF Available, TypeOK
  <2>3. /\ pc' = [pc EXCEPT ![s] = "granted"] /\ pc'[s] = "granted" /\ "granted" \in SearchPlaces
        /\ at' = [at EXCEPT ![s] = 1] /\ mine'[s] = f
    BY <1>1, <2>1 DEF Goto, Rewound, TypeOK, SearchPlaces
  <2>4. TypeOK'
    BY <1>1, <1>4, <2>1, <2>2, <2>3 DEF TypeOK
  <2>5. SearchShape(s)'
    BY <1>1, <1>2, <1>3, <1>4, <2>2, <2>3, ConstantsOK DEF SearchShape
  <2>6. RoundsShape(s)'
    BY <1>1, <1>3, <1>4, <1>5, <2>3 DEF RoundsShape
  <2>7. Exclusive'
    BY <1>1, <1>4, <2>1, <2>2, LeaseAsked
  <2>8. \A t \in Searches \ {s} : at'[t] = at[t] /\ mine'[t] = mine[t]
    BY <1>1, <2>1, <2>3 DEF TypeOK
  <2>9. queued' = queued
              + (IF "granted" \in {"waiting", "collecting", "leaving", "rejected"} THEN 1 ELSE 0)
              - (IF pc[s] \in {"waiting", "collecting", "leaving", "rejected"} THEN 1 ELSE 0)
    BY <1>1, <1>3, <1>4 DEF TypeOK
  <2>10. pc[s] # "waiting" /\ "granted" \notin {"waiting", "collecting", "leaving"}
    BY <1>3
  <2>11. QED
    BY <1>4, <2>3, <2>4, <2>5, <2>6, <2>7, <2>8, <2>9, <2>10, SearchAlone DEF callVars
<1>9. QED BY <1>3, <1>7, <1>8

\* A wait ends for the counter: the rejected search goes, and a call returns.
LEMMA UncountStep ==
  ASSUME IInv, NEW s \in Searches, Reject(s) \/ Leave(s)
  PROVE  IInv'
<1>1. PICK place \in {"failed", "retrying", "granted"} :
        /\ Goto(s, place)
        /\ place \in {"failed", "retrying"} \/ mine[s] # None
        /\ place = "retrying" => mine[s] = None
  BY DEF Reject, Leave
<1>2. /\ pc[s] \in {"rejected", "leaving"} /\ queued' = queued - 1
      /\ UNCHANGED <<at, choiceVars, round, callVars, mine, open>>
  BY DEF Reject, Leave
<1>3. UNCHANGED <<attempted, attempts, excluded, round, accepted, offered, expired,
                  worker, theirs, at, mine, open>>
  BY <1>2 DEF choiceVars, callVars
<1>4. TypeOK /\ SearchShape(s) /\ RoundsShape(s) /\ Exclusive
  BY DEF IInv
<1>5. pc' = [pc EXCEPT ![s] = place] /\ pc'[s] = place /\ place \in SearchPlaces
  BY <1>1, <1>4 DEF Goto, TypeOK, SearchPlaces
<1>6. place = "failed" => mine[s] = None
  <2>1. CASE Reject(s)
    BY <1>4, <2>1 DEF Reject, SearchShape
  <2>2. CASE Leave(s)
    BY <1>1, <1>4, <1>5, <2>2 DEF Leave, Goto, TypeOK
  <2>3. QED BY <2>1, <2>2
<1>7. queued' = queued
              + (IF place \in {"waiting", "collecting", "leaving", "rejected"} THEN 1 ELSE 0)
              - (IF pc[s] \in {"waiting", "collecting", "leaving", "rejected"} THEN 1 ELSE 0)
  BY <1>1, <1>2, <1>4 DEF TypeOK
<1>8. place \notin {"waiting", "collecting", "leaving"} /\ pc[s] # "waiting"
  BY <1>1, <1>2
<1>9. TypeOK'
  <2>1. queued' \in Nat
    BY <1>5, <1>7, <1>8, QueueStays
  <2>2. QED BY <1>3, <1>4, <1>5, <2>1 DEF TypeOK
<1>10. SearchShape(s)'
  BY <1>1, <1>2, <1>3, <1>4, <1>5, <1>6 DEF SearchShape
<1>11. RoundsShape(s)'
  <2>1. Attempted(s)' = Attempted(s)
    BY <1>3 DEF Attempted
  <2>2. QED BY <1>1, <1>2, <1>3, <1>4, <1>5, <2>1 DEF RoundsShape
<1>12. Exclusive'
  BY <1>3, <1>4 DEF Exclusive
<1>13. QED
  BY <1>3, <1>5, <1>7, <1>8, <1>9, <1>10, <1>11, <1>12, SearchAlone DEF callVars

-----------------------------------------------------------------------------
(* The attempt.                                                            *)

\* A lease is entered into the books: one attempt more of its provider.
LEMMA BookStep ==
  ASSUME IInv, NEW s \in Searches, Book(s)
  PROVE  IInv'
<1> DEFINE p == ProviderOf[mine[s]]
<1>1. TypeOK /\ SearchShape(s) /\ RoundsShape(s) /\ Exclusive
  BY DEF IInv
<1>2. /\ pc[s] = "granted" /\ attempts' = [attempts EXCEPT ![s][p] = @ + 1]
      /\ UNCHANGED <<at, attempted, excluded, queueVars, callVars, open>>
  BY DEF Book
<1>3. PICK place \in {"searching", "failed"} :
        Goto(s, place) /\ mine' = IF place = "searching" THEN mine ELSE [mine EXCEPT ![s] = None]
  BY DEF Book
<1>4. mine[s] \in Profiles /\ p \in Providers \ attempted[s]
  BY <1>1, <1>2, ConstantsOK DEF SearchShape, TypeOK
<1> HIDE DEF p
<1>5. UNCHANGED <<queued, round, accepted, offered, expired, worker, theirs>>
  BY <1>2 DEF queueVars, callVars
<1>6. /\ pc' = [pc EXCEPT ![s] = place] /\ pc'[s] = place /\ place \in SearchPlaces
      /\ mine'[s] \in {mine[s], None} /\ (place = "searching" => mine'[s] = mine[s])
      /\ (place = "failed" => mine'[s] = None)
      /\ \A t \in Searches \ {s} : mine'[t] = mine[t]
  BY <1>1, <1>3 DEF Goto, TypeOK, SearchPlaces
<1>7. /\ MaxAgentAttempts \in Nat /\ \A q \in Providers : attempts[s][q] \in Nat
      /\ attempts[s][p] < MaxAgentAttempts
      /\ \A q \in Providers \ attempted[s] : attempts[s][q] # MaxAgentAttempts
  <2>1. MaxAgentAttempts \in Nat /\ \A q \in Providers : attempts[s][q] \in Nat
    BY <1>1, ConstantsOK DEF TypeOK
  <2>2. \A q \in Providers : attempts[s][q] <= MaxAgentAttempts
    BY <1>1 DEF SearchShape
  <2>3. \A q \in Providers \ attempted[s] : attempts[s][q] # MaxAgentAttempts
    BY <1>1, <1>2 DEF SearchShape
  <2>4. QED BY <1>4, <2>1, <2>2, <2>3
<1>8. /\ attempts'[s][p] = attempts[s][p] + 1
      /\ \A q \in Providers \ {p} : attempts'[s][q] = attempts[s][q]
      /\ \A t \in Searches \ {s} : attempts'[t] = attempts[t]
  BY <1>1, <1>2, <1>4 DEF TypeOK
<1>9. TypeOK'
  BY <1>1, <1>2, <1>3, <1>4, <1>5, <1>6 DEF TypeOK
<1>10. SearchShape(s)'
  <2>1. \A q \in Providers : attempts'[s][q] <= MaxAgentAttempts
    BY <1>1, <1>7, <1>8 DEF SearchShape
  <2>2. \A q \in Providers \ attempted[s] : attempts'[s][q] = MaxAgentAttempts =>
          place = "failed" \/ (place = "searching" /\ q = p)
    BY <1>3, <1>7, <1>8
  <2>3. place = "searching" => p = ProviderOf[mine'[s]]
    BY <1>6 DEF p
  <2>4. QED BY <1>1, <1>2, <1>3, <1>4, <1>6, <2>1, <2>2, <2>3 DEF SearchShape, p
<1>11. RoundsShape(s)'
  <2>1. Cardinality(Attempted(s)') = Cardinality(Attempted(s)) + 1
    BY <1>1, <1>2, <1>4, <1>7, AttemptCount
  <2>2. Cardinality(Attempted(s)) \in Nat /\ round[s] \in Nat
    BY <1>1, AttemptsCounted DEF TypeOK, Rounds
  <2>3. round[s] <= Cardinality(Attempted(s)')
    BY <1>1, <2>1, <2>2 DEF RoundsShape
  <2>4. Cardinality(Attempted(s)') \in Nat
    BY <2>1, <2>2
  <2>5. QED BY <1>3, <1>5, <1>6, <2>2, <2>3, <2>4 DEF RoundsShape
<1>12. Exclusive'
  BY <1>1, <1>5, <1>6, LeasesReturned
<1>13. queued' = queued
              + (IF place \in {"waiting", "collecting", "leaving", "rejected"} THEN 1 ELSE 0)
              - (IF pc[s] \in {"waiting", "collecting", "leaving", "rejected"} THEN 1 ELSE 0)
  BY <1>1, <1>2, <1>3, <1>5 DEF TypeOK
<1>14. pc[s] # "waiting" /\ place \notin {"waiting", "collecting", "leaving"}
  BY <1>2, <1>3
<1>15. QED
  BY <1>2, <1>5, <1>6, <1>8, <1>9, <1>10, <1>11, <1>12, <1>13, <1>14, SearchAlone DEF callVars

\* The provider answers and the lease goes back.
LEMMA FinishStep ==
  ASSUME IInv, NEW s \in Searches, Finish(s)
  PROVE  IInv'
<1> DEFINE p == ProviderOf[mine[s]]
<1>1. TypeOK /\ SearchShape(s) /\ RoundsShape(s) /\ Exclusive
  BY DEF IInv
<1>2. /\ pc[s] = "searching" /\ mine' = [mine EXCEPT ![s] = None]
      /\ UNCHANGED <<attempted, attempts, queueVars, callVars, open>>
  BY DEF Finish
<1>3. PICK place \in {"done", "failed", "deciding"} :
        /\ Goto(s, place)
        /\ IF place = "deciding"
           THEN excluded' = [excluded EXCEPT ![s][p] = mine[s]] /\ at' = [at EXCEPT ![s] = p]
           ELSE UNCHANGED <<at, excluded>>
  BY DEF Finish
<1>4. mine[s] \in Profiles /\ p \in Providers /\ p \in Nat
  BY <1>1, <1>2, ConstantsOK DEF SearchShape, TypeOK
<1>5. UNCHANGED <<queued, round, accepted, offered, expired, worker, theirs>>
  BY <1>2 DEF queueVars, callVars
<1>6. /\ pc' = [pc EXCEPT ![s] = place] /\ pc'[s] = place /\ place \in SearchPlaces
      /\ mine'[s] = None /\ \A t \in Searches \ {s} : mine'[t] = mine[t]
      /\ \A t \in Searches \ {s} : at'[t] = at[t]
  BY <1>1, <1>2, <1>3 DEF Goto, TypeOK, SearchPlaces
<1>7. \A q \in Providers \ attempted[s] : attempts[s][q] = MaxAgentAttempts => q = p
  BY <1>1, <1>2 DEF SearchShape
<1>8. place = "deciding" => at'[s] = p
  BY <1>1, <1>3 DEF TypeOK
<1> HIDE DEF p
<1>9. TypeOK'
  <2>1. at' \in [Searches -> Nat] /\ excluded' \in [Searches -> [Providers -> Profiles \cup {None}]]
    <3>1. CASE place = "deciding"
      <4>1. /\ at' = [at EXCEPT ![s] = p] /\ excluded' = [excluded EXCEPT ![s][p] = mine[s]]
            /\ at \in [Searches -> Nat]
            /\ excluded \in [Searches -> [Providers -> Profiles \cup {None}]]
        BY <1>1, <1>3, <3>1 DEF TypeOK
      <4>2. excluded[s] \in [Providers -> Profiles \cup {None}]
        BY <4>1
      <4>3. [excluded[s] EXCEPT ![p] = mine[s]] \in [Providers -> Profiles \cup {None}]
        BY <1>4, <4>2
      <4>4. excluded' = [excluded EXCEPT ![s] = [excluded[s] EXCEPT ![p] = mine[s]]]
        BY <4>1
      <4>5. QED BY <1>4, <4>1, <4>3, <4>4
    <3>2. CASE place # "deciding"
      BY <1>1, <1>3, <3>2 DEF TypeOK
    <3>3. QED BY <3>1, <3>2
  <2>2. pc' \in [Searches -> SearchPlaces] /\ mine' \in [Searches -> Profiles \cup {None}]
    BY <1>1, <1>2, <1>6 DEF TypeOK
  <2>3. QED BY <1>1, <1>2, <1>5, <2>1, <2>2 DEF TypeOK
<1>10. SearchShape(s)'
  BY <1>1, <1>2, <1>3, <1>4, <1>6, <1>7, <1>8 DEF SearchShape
<1>11. RoundsShape(s)'
  <2>1. Attempted(s)' = Attempted(s)
    BY <1>2 DEF Attempted
  <2>2. QED BY <1>1, <1>2, <1>3, <1>5, <1>6, <2>1 DEF RoundsShape
<1>12. Exclusive'
  BY <1>1, <1>5, <1>6, LeasesReturned
<1>13. queued' = queued
              + (IF place \in {"waiting", "collecting", "leaving", "rejected"} THEN 1 ELSE 0)
              - (IF pc[s] \in {"waiting", "collecting", "leaving", "rejected"} THEN 1 ELSE 0)
  BY <1>1, <1>2, <1>3, <1>5 DEF TypeOK
<1>14. pc[s] # "waiting" /\ place \notin {"waiting", "collecting", "leaving"}
  BY <1>2, <1>3
<1>15. QED
  BY <1>2, <1>5, <1>6, <1>9, <1>10, <1>11, <1>12, <1>13, <1>14, SearchAlone DEF callVars

\* After a failure the provider is tried again or given up.
LEMMA DecideStep ==
  ASSUME IInv, NEW s \in Searches, Decide(s)
  PROVE  IInv'
<1>1. TypeOK /\ SearchShape(s) /\ RoundsShape(s) /\ Exclusive
  BY DEF IInv
<1>2. /\ pc[s] = "deciding" /\ Goto(s, "loop") /\ Rewound(s)
      /\ attempted' = IF Again(s, at[s]) THEN attempted
                      ELSE [attempted EXCEPT ![s] = @ \cup {at[s]}]
      /\ UNCHANGED <<attempts, excluded, queueVars, callVars, mine, open>>
  BY DEF Decide
<1>3. UNCHANGED <<queued, round, accepted, offered, expired, worker, theirs>>
  BY <1>2 DEF queueVars, callVars
<1>4. /\ pc' = [pc EXCEPT ![s] = "loop"] /\ pc'[s] = "loop" /\ "loop" \in SearchPlaces
      /\ at' = [at EXCEPT ![s] = 1] /\ \A t \in Searches \ {s} : at'[t] = at[t]
  BY <1>1, <1>2 DEF Goto, Rewound, TypeOK, SearchPlaces
<1>5. at[s] \in Providers /\ mine[s] = None
  BY <1>1, <1>2 DEF SearchShape
<1>6. /\ attempted'[s] \in {attempted[s], attempted[s] \cup {at[s]}}
      /\ attempts[s][at[s]] = MaxAgentAttempts => at[s] \in attempted'[s]
      /\ \A t \in Searches \ {s} : attempted'[t] = attempted[t]
  <2>1. CASE Again(s, at[s])
    <3>1. attempts[s][at[s]] # MaxAgentAttempts
      BY <1>1, <1>5, <2>1, ConstantsOK DEF Again, TypeOK
    <3>2. QED BY <1>2, <2>1, <3>1
  <2>2. CASE ~Again(s, at[s])
    BY <1>1, <1>2, <2>2 DEF TypeOK
  <2>3. QED BY <2>1, <2>2
<1>7. TypeOK'
  BY <1>1, <1>2, <1>3, <1>4, <1>5 DEF TypeOK
<1>8. SearchShape(s)'
  <2>1. \A q \in Providers \ attempted'[s] : attempts[s][q] # MaxAgentAttempts
    BY <1>1, <1>2, <1>6 DEF SearchShape
  <2>2. QED BY <1>1, <1>2, <1>4, <1>5, <2>1 DEF SearchShape
<1>9. RoundsShape(s)'
  <2>1. Attempted(s)' = Attempted(s)
    BY <1>2 DEF Attempted
  <2>2. QED BY <1>1, <1>2, <1>3, <1>4, <2>1 DEF RoundsShape
<1>10. Exclusive'
  BY <1>1, <1>2, <1>3 DEF Exclusive
<1>11. queued' = queued
              + (IF "loop" \in {"waiting", "collecting", "leaving", "rejected"} THEN 1 ELSE 0)
              - (IF pc[s] \in {"waiting", "collecting", "leaving", "rejected"} THEN 1 ELSE 0)
  BY <1>1, <1>2, <1>3 DEF TypeOK
<1>12. pc[s] # "waiting" /\ "loop" \notin {"waiting", "collecting", "leaving"}
  BY <1>2
<1>13. QED
  BY <1>2, <1>3, <1>4, <1>6, <1>7, <1>8, <1>9, <1>10, <1>11, <1>12, SearchAlone DEF callVars

-----------------------------------------------------------------------------
(* Queueing, and what the search does in a call.                           *)

\* No pool had a lease: the search is counted, and rejected or put in a call
\* that has not been used.
LEMMA EnqueueStep ==
  ASSUME IInv, NEW s \in Searches, Enqueue(s)
  PROVE  IInv'
<1>1. TypeOK /\ SearchShape(s) /\ RoundsShape(s) /\ Exclusive
  BY DEF IInv
<1>2. /\ pc[s] = "trying" /\ at' = [at EXCEPT ![s] = 1] /\ queued' = queued + 1
      /\ UNCHANGED <<choiceVars, accepted, offered, expired, theirs, mine, open>>
  BY DEF Enqueue, Rewound
<1>3. UNCHANGED <<attempted, attempts, excluded, accepted, offered, expired, theirs, mine, open>>
  BY <1>2 DEF choiceVars
<1>4. queued \in Nat /\ AutoQueueMax \in Nat /\ mine[s] = None
  BY <1>1, <1>2, ConstantsOK DEF TypeOK, SearchShape
<1>5. Attempted(s)' = Attempted(s)
  BY <1>3 DEF Attempted
<1>6. Exclusive'
  BY <1>1, <1>3 DEF Exclusive
<1>7. \A t \in Searches \ {s} : at'[t] = at[t]
  BY <1>1, <1>2 DEF TypeOK
<1>8. CASE queued' > AutoQueueMax
  <2>1. Goto(s, "rejected") /\ UNCHANGED <<round, worker>>
    BY <1>8 DEF Enqueue
  <2>2. pc' = [pc EXCEPT ![s] = "rejected"] /\ pc'[s] = "rejected" /\ "rejected" \in SearchPlaces
    BY <1>1, <2>1 DEF Goto, TypeOK, SearchPlaces
  <2>3. TypeOK'
    BY <1>1, <1>2, <1>3, <1>4, <2>1, <2>2 DEF TypeOK
  <2>4. SearchShape(s)'
    BY <1>1, <1>2, <1>3, <1>4, <2>2 DEF SearchShape
  <2>5. RoundsShape(s)'
    BY <1>1, <1>2, <1>5, <2>1, <2>2 DEF RoundsShape
  <2>6. /\ pc[s] # "waiting" /\ "rejected" \notin {"waiting", "collecting", "leaving"}
        /\ queued' = queued
              + (IF "rejected" \in {"waiting", "collecting", "leaving", "rejected"} THEN 1 ELSE 0)
              - (IF pc[s] \in {"waiting", "collecting", "leaving", "rejected"} THEN 1 ELSE 0)
    BY <1>2, <1>4
  <2>7. QED
    BY <1>3, <1>6, <1>7, <2>1, <2>2, <2>3, <2>4, <2>5, <2>6, SearchAlone DEF callVars
<1>9. CASE ~ (queued' > AutoQueueMax)
  <2> DEFINE new == <<s, round[s] + 1>>
  <2>1. PICK place \in {"waiting", "leaving"} :
          /\ Goto(s, place) /\ round' = [round EXCEPT ![s] = @ + 1]
          /\ worker' = [worker EXCEPT ![new] = Launched(s)]
    BY <1>9 DEF Enqueue
  <2>2. /\ pc' = [pc EXCEPT ![s] = place] /\ pc'[s] = place /\ place \in SearchPlaces
        /\ \A t \in Searches \ {s} : pc'[t] = pc[t]
    BY <1>1, <2>1 DEF Goto, TypeOK, SearchPlaces
  <2>3. round[s] \in Nat /\ round[s] + 1 \in Rounds
    <3>1. round[s] \in Nat /\ round[s] <= Cardinality(Attempted(s))
      BY <1>1, <1>2 DEF RoundsShape, TypeOK, Rounds
    <3>2. QED BY <3>1, AttemptsCounted DEF Rounds
  <2>4. /\ round'[s] = round[s] + 1 /\ \A t \in Searches \ {s} : round'[t] = round[t]
        /\ \A t \in Searches : round[t] \in Nat /\ round'[t] \in Nat /\ round'[t] >= round[t]
    BY <1>1, <2>1, <2>3 DEF TypeOK, Rounds
  <2>5. new \in Calls
    BY <2>3 DEF Calls
  <2>6. /\ Launched(s) \in [Providers -> WorkerPlaces]
        /\ \A p \in Providers : Launched(s)[p] \in {"acquiring", "over"}
        /\ \A p \in Providers : p \in attempted[s] => Launched(s)[p] = "over"
    BY DEF Launched, WorkerPlaces
  <2>7. worker'[new] = Launched(s) /\ \A k \in Calls \ {new} : worker'[k] = worker[k]
    BY <1>1, <2>1, <2>5 DEF TypeOK
  <2> HIDE DEF new
  <2>8. TypeOK'
    <3>1. worker' \in [Calls -> [Providers -> WorkerPlaces]]
      BY <1>1, <2>1, <2>6 DEF TypeOK
    <3>2. round' \in [Searches -> Rounds \cup {0}] /\ queued' \in Nat
      BY <1>1, <1>2, <1>4, <2>1, <2>3 DEF TypeOK
    <3>3. QED BY <1>1, <1>2, <1>3, <2>2, <3>1, <3>2 DEF TypeOK
  <2>9. QueueAccounting'
    <3>1. queued' <= AutoQueueMax
      BY <1>2, <1>4, <1>9
    <3>2. queued' = queued
              + (IF place \in {"waiting", "collecting", "leaving", "rejected"} THEN 1 ELSE 0)
              - (IF pc[s] \in {"waiting", "collecting", "leaving", "rejected"} THEN 1 ELSE 0)
      BY <1>2, <1>4, <2>1
    <3>3. QED BY <1>2, <2>2, <3>1, <3>2, QueueStays
  <2>10. ASSUME NEW t \in Searches PROVE SearchShape(t)' /\ RoundsShape(t)'
    <3>1. CASE t # s
      <4>1. SearchShape(t) /\ RoundsShape(t)
        BY DEF IInv
      <4>2. QED BY <1>3, <1>7, <2>2, <2>4, <3>1, <4>1, SearchKept
    <3>2. SearchShape(s)'
      BY <1>1, <1>2, <1>3, <1>4, <2>2 DEF SearchShape
    <3>3. RoundsShape(s)'
      <4>1. Cardinality(Attempted(s)) \in Nat /\ round[s] <= Cardinality(Attempted(s))
        BY <1>1, <1>2, AttemptsCounted DEF RoundsShape
      <4>2. place \notin {"idle", "loop", "trying", "rejected", "searching", "deciding"}
        BY <2>1
      <4>3. QED BY <1>5, <2>2, <2>3, <2>4, <4>1, <4>2 DEF RoundsShape
    <3>4. QED BY <3>1, <3>2, <3>3
  <2>11. ASSUME NEW k \in Calls PROVE CallShape(k)'
    <3>1. CallShape(k) /\ k[1] \in Searches /\ k[2] \in Nat /\ k = <<k[1], k[2]>>
      BY CallParts DEF IInv
    <3>2. CASE k = new
      <4>1. k[1] = s /\ k[2] = round[s] + 1
        BY <3>2 DEF new
      <4>2. offered[k] = None /\ \A p \in Providers : worker[k][p] = "over"
        BY <2>3, <3>1, <4>1 DEF CallShape, WorkerShape
      <4>3. \A p \in Providers : theirs[k][p] = None
        BY <3>1, <4>2 DEF CallShape, WorkerShape
      <4>4. place = "waiting" \/ \A p \in Providers : worker'[k][p] = "over"
        <5>1. CASE Providers \subseteq attempted[s]
          BY <2>6, <2>7, <3>2, <5>1
        <5>2. CASE ~ (Providers \subseteq attempted[s])
          <6>1. Goto(s, "waiting")
            BY <1>9, <5>2 DEF Enqueue
          <6>2. QED BY <1>1, <2>2, <6>1 DEF Goto, TypeOK
        <5>3. QED BY <5>1, <5>2
      <4>5. place = "waiting" => Waiting(k)'
        BY <2>2, <2>4, <4>1 DEF Waiting
      <4>6. \A p \in Providers : /\ worker'[k][p] \in {"acquiring", "over"}
                                 /\ p \in attempted'[s] => worker'[k][p] = "over"
        BY <1>3, <2>6, <2>7, <3>2
      <4>7. ~ (k[2] > round'[k[1]])
        BY <2>3, <2>4, <4>1
      <4>8. QED BY <1>3, <4>1, <4>2, <4>3, <4>4, <4>5, <4>6, <4>7 DEF CallShape, WorkerShape
    <3>3. CASE k # new
      <4>1. k[1] = s => k[2] # round[s] + 1
        BY <3>1, <3>3 DEF new
      <4>2. worker'[k] = worker[k]
        BY <2>7, <3>3
      <4>3. k[2] > round'[k[1]] => k[2] > round[k[1]]
        BY <2>4, <3>1
      <4>4. Waiting(k) => Waiting(k)'
        <5>1. CASE k[1] = s
          BY <1>2, <5>1 DEF Waiting
        <5>2. CASE k[1] # s
          BY <2>2, <2>4, <3>1, <5>2 DEF Waiting
        <5>3. QED BY <5>1, <5>2
      <4>5. Returned(k) => Returned(k)'
        <5>1. CASE k[1] = s
          BY <2>4, <3>1, <5>1 DEF Returned
        <5>2. CASE k[1] # s
          BY <2>2, <2>4, <3>1, <5>2 DEF Returned
        <5>3. QED BY <5>1, <5>2
      <4>6. QED BY <1>3, <3>1, <4>2, <4>3, <4>4, <4>5, CallKept
    <3>4. QED BY <3>2, <3>3
  <2>12. QED BY <1>6, <2>8, <2>9, <2>10, <2>11 DEF IInv
<1>10. QED BY <1>8, <1>9

\* A step of a search in its call disturbs only the two of them.
LEMMA CallAlone ==
  ASSUME IInv, NEW s \in Searches, NEW c \in Calls, c = Call(s),
         NEW place \in {"collecting", "leaving"}, pc[s] \in {"waiting", "collecting"}, pc' = [pc EXCEPT ![s] = place],
         UNCHANGED <<at, choiceVars, queueVars, expired, worker, theirs>>,
         \A t \in Searches \ {s} : mine'[t] = mine[t],
         \A k \in Calls \ {c} : accepted'[k] = accepted[k] /\ offered'[k] = offered[k],
         TypeOK', SearchShape(s)', CallShape(c)', Exclusive'
  PROVE  IInv'
<1>1. TypeOK /\ pc'[s] = place /\ place \in SearchPlaces /\ \A t \in Searches \ {s} : pc'[t] = pc[t]
  BY DEF IInv, TypeOK, SearchPlaces
<1>2. UNCHANGED <<attempted, attempts, queued, round>>
  BY DEF choiceVars, queueVars
<1>3. queued' = queued
              + (IF place \in {"waiting", "collecting", "leaving", "rejected"} THEN 1 ELSE 0)
              - (IF pc[s] \in {"waiting", "collecting", "leaving", "rejected"} THEN 1 ELSE 0)
  BY <1>1, <1>2 DEF TypeOK
<1>4. QueueAccounting'
  BY <1>1, <1>3, QueueStays
<1>5. RoundsShape(s)'
  <2>1. Attempted(s)' = Attempted(s)
    BY <1>2 DEF Attempted
  <2>2. RoundsShape(s)
    BY DEF IInv
  <2>3. QED BY <1>1, <1>2, <2>1, <2>2 DEF RoundsShape
<1>6. ASSUME NEW t \in Searches PROVE SearchShape(t)' /\ RoundsShape(t)'
  <2>1. CASE t # s
    <3>1. SearchShape(t) /\ RoundsShape(t)
      BY DEF IInv
    <3>2. QED BY <1>1, <1>2, <2>1, <3>1, SearchKept
  <2>2. QED BY <1>5, <2>1
<1>7. ASSUME NEW k \in Calls PROVE CallShape(k)'
  <2>1. CallShape(k) /\ k[1] \in Searches /\ k = <<k[1], k[2]>>
    BY CallParts DEF IInv
  <2>2. CASE k # c
    <3>1. k[1] = s => k[2] # round[s]
      BY <2>1, <2>2 DEF Call
    <3>2. Returned(k) => Returned(k)'
      BY <1>1, <1>2, <2>1, <3>1 DEF Returned
    <3>3. Waiting(k) => Waiting(k)'
      BY <1>1, <1>2, <2>1, <3>1 DEF Waiting
    <3>4. QED BY <1>2, <2>1, <2>2, <3>2, <3>3, CallKept
  <2>3. QED BY <2>2
<1>8. QED BY <1>4, <1>6, <1>7 DEF IInv

\* A search in a call is in its last one.
LEMMA InCall ==
  ASSUME IInv, NEW s \in Searches, pc[s] \in {"waiting", "collecting", "leaving"}
  PROVE  /\ Call(s) \in Calls /\ Call(s)[1] = s /\ Call(s)[2] = round[s] /\ round[s] \in Nat
         /\ ~Returned(Call(s)) /\ CallShape(Call(s)) /\ ~ (Call(s)[2] > round[s])
<1>1. round[s] \in Rounds /\ round[s] \in Nat
  <2>1. RoundsShape(s) /\ round[s] \in Rounds \cup {0}
    BY DEF IInv, TypeOK
  <2>2. round[s] \in Rounds
    BY <2>1 DEF RoundsShape
  <2>3. QED BY <2>2 DEF Rounds
<1>2. Call(s) \in Calls /\ Call(s)[1] = s /\ Call(s)[2] = round[s]
  BY <1>1 DEF Call, Calls
<1>3. CallShape(Call(s))
  BY <1>2 DEF IInv
<1>4. ~Returned(Call(s)) /\ ~ (Call(s)[2] > round[s])
  BY <1>1, <1>2 DEF Returned
<1>5. QED BY <1>1, <1>2, <1>3, <1>4

\* The search takes the winner's lease.
LEMMA ReceiveStep ==
  ASSUME IInv, NEW s \in Searches, Receive(s)
  PROVE  IInv'
<1>1. /\ TypeOK /\ SearchShape(s) /\ Exclusive
      /\ pc[s] = "waiting" /\ pc[s] \in {"waiting", "collecting", "leaving"}
  BY DEF IInv, Receive
<1>2. PICK c \in Calls : c = Call(s)
  BY <1>1, InCall
<1>3. c[1] = s /\ c[2] = round[s] /\ round[s] \in Nat /\ ~Returned(c) /\ CallShape(c)
  BY <1>1, <1>2, InCall
<1>4. /\ offered[c] # None /\ Goto(s, "leaving")
      /\ mine' = [mine EXCEPT ![s] = offered[c]] /\ offered' = [offered EXCEPT ![c] = None]
      /\ UNCHANGED <<at, choiceVars, queueVars, accepted, expired, worker, theirs, open>>
  BY <1>2 DEF Receive
<1>5. UNCHANGED <<attempted, attempts, excluded, queued, round, accepted, expired, worker,
                  theirs, at, open>>
  BY <1>4 DEF choiceVars, queueVars
<1>6. /\ pc' = [pc EXCEPT ![s] = "leaving"] /\ pc'[s] = "leaving" /\ "leaving" \in SearchPlaces
      /\ mine'[s] = offered[c] /\ \A t \in Searches \ {s} : mine'[t] = mine[t]
      /\ offered'[c] = None /\ \A k \in Calls \ {c} : offered'[k] = offered[k]
  BY <1>1, <1>4 DEF Goto, TypeOK, SearchPlaces
<1>7. TypeOK'
  BY <1>1, <1>4, <1>5, <1>6 DEF TypeOK
<1>8. ProviderOf[offered[c]] \notin attempted[s] /\ accepted[c]
      /\ \A p \in Providers : worker[c][p] # "won"
  BY <1>3, <1>4 DEF CallShape, WorkerShape
<1>9. SearchShape(s)'
  BY <1>1, <1>5, <1>6, <1>8 DEF SearchShape
<1>10. CallShape(c)'
  <2>1. ~ (c[2] > round'[c[1]])
    BY <1>3, <1>5
  <2>2. \A p \in Providers :
          /\ worker[c][p] \in {"obtained", "checked", "won"} <=> theirs[c][p] # None
          /\ theirs[c][p] # None => ProviderOf[theirs[c][p]] = p
          /\ worker[c][p] # "over" => p \notin attempted[s]
    BY <1>3 DEF CallShape, WorkerShape
  <2>3. QED BY <1>3, <1>5, <1>6, <1>8, <2>1, <2>2 DEF CallShape, WorkerShape
<1>11. Exclusive'
  BY <1>1, <1>4, <1>5, LeaseReceived
<1>12. QED
  BY <1>1, <1>2, <1>4, <1>5, <1>6, <1>7, <1>9, <1>10, <1>11, CallAlone

\* The wait is over without a winner.
LEMMA TimeOutStep ==
  ASSUME IInv, NEW s \in Searches, TimeOut(s)
  PROVE  IInv'
<1>1. /\ TypeOK /\ SearchShape(s) /\ Exclusive
      /\ pc[s] = "waiting" /\ pc[s] \in {"waiting", "collecting", "leaving"}
  BY DEF IInv, TimeOut
<1>2. PICK c \in Calls : c = Call(s)
  BY <1>1, InCall
<1>3. c[1] = s /\ c[2] = round[s] /\ round[s] \in Nat /\ ~Returned(c) /\ CallShape(c)
  BY <1>1, <1>2, InCall
<1>4. /\ expired[c] /\ Goto(s, "collecting") /\ accepted' = [accepted EXCEPT ![c] = TRUE]
      /\ UNCHANGED <<at, choiceVars, queueVars, offered, expired, worker, theirs, mine, open>>
  BY <1>2 DEF TimeOut
<1>5. UNCHANGED <<attempted, attempts, excluded, queued, round, offered, expired, worker,
                  theirs, at, mine, open>>
  BY <1>4 DEF choiceVars, queueVars
<1>6. /\ pc' = [pc EXCEPT ![s] = "collecting"] /\ pc'[s] = "collecting"
      /\ "collecting" \in SearchPlaces
      /\ accepted'[c] /\ \A k \in Calls \ {c} : accepted'[k] = accepted[k]
  BY <1>1, <1>4 DEF Goto, TypeOK, SearchPlaces
<1>7. TypeOK'
  BY <1>1, <1>4, <1>5, <1>6 DEF TypeOK
<1>8. SearchShape(s)'
  BY <1>1, <1>5, <1>6 DEF SearchShape
<1>9. CallShape(c)'
  <2>1. ~ (c[2] > round'[c[1]])
    BY <1>3, <1>5
  <2>2. QED BY <1>3, <1>4, <1>5, <1>6, <2>1 DEF CallShape, WorkerShape
<1>10. Exclusive'
  BY <1>1, <1>5 DEF Exclusive
<1>11. QED
  BY <1>1, <1>2, <1>4, <1>5, <1>6, <1>7, <1>8, <1>9, <1>10, CallAlone

\* What had been offered meanwhile is given back.
LEMMA CollectStep ==
  ASSUME IInv, NEW s \in Searches, Collect(s)
  PROVE  IInv'
<1>1. /\ TypeOK /\ SearchShape(s) /\ Exclusive
      /\ pc[s] = "collecting" /\ pc[s] \in {"waiting", "collecting", "leaving"}
  BY DEF IInv, Collect
<1>2. PICK c \in Calls : c = Call(s)
  BY <1>1, InCall
<1>3. c[1] = s /\ c[2] = round[s] /\ round[s] \in Nat /\ ~Returned(c) /\ CallShape(c)
  BY <1>1, <1>2, InCall
<1>4. /\ Goto(s, "leaving") /\ offered' = [offered EXCEPT ![c] = None]
      /\ UNCHANGED <<at, choiceVars, queueVars, accepted, expired, worker, theirs, mine, open>>
  BY <1>2 DEF Collect
<1>5. UNCHANGED <<attempted, attempts, excluded, queued, round, accepted, expired, worker,
                  theirs, at, mine, open>>
  BY <1>4 DEF choiceVars, queueVars
<1>6. /\ pc' = [pc EXCEPT ![s] = "leaving"] /\ pc'[s] = "leaving" /\ "leaving" \in SearchPlaces
      /\ offered'[c] = None /\ \A k \in Calls \ {c} : offered'[k] = offered[k]
  BY <1>1, <1>4 DEF Goto, TypeOK, SearchPlaces
<1>7. TypeOK'
  BY <1>1, <1>4, <1>5, <1>6 DEF TypeOK
<1>8. SearchShape(s)'
  BY <1>1, <1>5, <1>6 DEF SearchShape
<1>9. CallShape(c)'
  <2>1. ~ (c[2] > round'[c[1]])
    BY <1>3, <1>5
  <2>2. ~Waiting(c)
    BY <1>1, <1>3 DEF Waiting
  <2>3. QED BY <1>3, <1>5, <1>6, <2>1, <2>2 DEF CallShape, WorkerShape
<1>10. Exclusive'
  BY <1>1, <1>5, <1>6, LeasesReturned
<1>11. QED
  BY <1>1, <1>2, <1>4, <1>5, <1>6, <1>7, <1>8, <1>9, <1>10, CallAlone

-----------------------------------------------------------------------------
(* Steps of a goroutine.                                                   *)

\* A goroutine changes its place and no other's.
LEMMA WorkerMoves ==
  ASSUME TypeOK, NEW k \in Calls, NEW p \in Providers, NEW place \in WorkerPlaces,
         SetWorker(k, p, place)
  PROVE  /\ worker' \in [Calls -> [Providers -> WorkerPlaces]]
         /\ worker'[k][p] = place /\ \A q \in Providers \ {p} : worker'[k][q] = worker[k][q]
         /\ \A l \in Calls \ {k} : worker'[l] = worker[l]
BY DEF TypeOK, SetWorker

\* Likewise the lease it holds.
LEMMA LeaseMoves ==
  ASSUME TypeOK, NEW k \in Calls, NEW p \in Providers, NEW f \in Profiles \cup {None},
         Holds(k, p, f)
  PROVE  /\ theirs' \in [Calls -> [Providers -> Profiles \cup {None}]]
         /\ theirs'[k][p] = f /\ \A q \in Providers \ {p} : theirs'[k][q] = theirs[k][q]
         /\ \A l \in Calls \ {k} : theirs'[l] = theirs[l]
BY DEF TypeOK, Holds

\* The end of a call is the same before and after.
LEMMA ReturnedKept ==
  ASSUME NEW k \in Calls, UNCHANGED searchVars
  PROVE  /\ Returned(k)' = Returned(k) /\ Waiting(k)' = Waiting(k) /\ round' = round
         /\ attempted' = attempted /\ mine' = mine
         /\ UNCHANGED <<pc, at, attempts, excluded, queued>>
BY DEF searchVars, choiceVars, queueVars, Returned, Waiting

\* A goroutine is granted a lease.
LEMMA ObtainStep ==
  ASSUME IInv, NEW k \in Calls, NEW p \in Providers, Obtain(k, p)
  PROVE  IInv'
<1>1. TypeOK /\ CallShape(k) /\ Exclusive
  BY DEF IInv
<1>2. PICK f \in Available(p, None) : Holds(k, p, f)
  BY DEF Obtain
<1>3. f \in Profiles /\ ~Leased(f) /\ ProviderOf[f] = p /\ f # None
  BY <1>1, <1>2, ConstantsOK DEF Available, TypeOK
<1>4. /\ worker[k][p] = "acquiring" /\ SetWorker(k, p, "obtained")
      /\ UNCHANGED <<searchVars, accepted, offered, expired, open>>
  BY DEF Obtain
<1>5. /\ worker' \in [Calls -> [Providers -> WorkerPlaces]]
      /\ worker'[k][p] = "obtained" /\ \A q \in Providers \ {p} : worker'[k][q] = worker[k][q]
      /\ \A l \in Calls \ {k} : worker'[l] = worker[l]
  BY <1>1, <1>4, WorkerMoves DEF WorkerPlaces
<1>6. /\ theirs' \in [Calls -> [Providers -> Profiles \cup {None}]]
      /\ theirs'[k][p] = f /\ \A q \in Providers \ {p} : theirs'[k][q] = theirs[k][q]
      /\ \A l \in Calls \ {k} : theirs'[l] = theirs[l]
  BY <1>1, <1>2, <1>3, LeaseMoves
<1>7. /\ Returned(k)' = Returned(k) /\ Waiting(k)' = Waiting(k) /\ round' = round
      /\ attempted' = attempted /\ mine' = mine /\ UNCHANGED <<pc, at, attempts, excluded, queued>>
  BY <1>4, ReturnedKept
<1>8. TypeOK'
  BY <1>1, <1>4, <1>5, <1>6, <1>7 DEF TypeOK
<1>9. CallShape(k)'
  <2>1. ~ (k[2] > round[k[1]])
    BY <1>1, <1>4 DEF CallShape
  <2>2. WorkerShape(k, p)'
    BY <1>1, <1>3, <1>4, <1>5, <1>6, <1>7 DEF CallShape, WorkerShape
  <2>3. ASSUME NEW q \in Providers \ {p} PROVE WorkerShape(k, q)'
    <3>1. WorkerShape(k, q)
      BY <1>1 DEF CallShape
    <3>2. /\ worker'[k][q] = worker[k][q] /\ theirs'[k][q] = theirs[k][q]
          /\ UNCHANGED <<accepted, offered, expired, attempted>>
      BY <1>4, <1>5, <1>6, <1>7
    <3>3. \A r \in Providers : worker'[k][r] = "won" => worker[k][r] = "won"
      BY <1>5
    <3>4. QED BY <1>7, <3>1, <3>2, <3>3 DEF WorkerShape
  <2>4. QED BY <1>1, <1>4, <1>7, <2>1, <2>2, <2>3 DEF CallShape
<1>10. Exclusive'
  BY <1>1, <1>2, <1>3, <1>4, <1>7, LeaseObtained
<1>11. QED
  BY <1>4, <1>5, <1>6, <1>8, <1>9, <1>10, WorkerAlone

\* A goroutine ends: it has no lease, or gives back the one it has.
LEMMA EndStep ==
  ASSUME IInv, NEW k \in Calls, NEW p \in Providers,
         SetWorker(k, p, "over"), worker[k][p] # "over",
         Holds(k, p, None) \/ (worker[k][p] = "acquiring" /\ UNCHANGED theirs),
         UNCHANGED <<searchVars, accepted, offered, expired, open>>
  PROVE  IInv'
<1>1. TypeOK /\ CallShape(k) /\ Exclusive
  BY DEF IInv
<1>2. /\ worker' \in [Calls -> [Providers -> WorkerPlaces]]
      /\ worker'[k][p] = "over" /\ \A q \in Providers \ {p} : worker'[k][q] = worker[k][q]
      /\ \A l \in Calls \ {k} : worker'[l] = worker[l]
  BY <1>1, WorkerMoves DEF WorkerPlaces
<1>3. /\ theirs' \in [Calls -> [Providers -> Profiles \cup {None}]]
      /\ theirs'[k][p] = None /\ \A q \in Providers \ {p} : theirs'[k][q] = theirs[k][q]
      /\ \A l \in Calls \ {k} : theirs'[l] = theirs[l]
  <2>1. CASE Holds(k, p, None)
    BY <1>1, <2>1, LeaseMoves
  <2>2. CASE worker[k][p] = "acquiring" /\ UNCHANGED theirs
    <3>1. theirs[k][p] = None
      BY <1>1, <2>2 DEF CallShape, WorkerShape
    <3>2. QED BY <1>1, <2>2, <3>1 DEF TypeOK
  <2>3. QED BY <2>1, <2>2
<1>4. /\ Returned(k)' = Returned(k) /\ Waiting(k)' = Waiting(k) /\ round' = round
      /\ attempted' = attempted /\ mine' = mine /\ UNCHANGED <<pc, at, attempts, excluded, queued>>
  BY ReturnedKept
<1>5. TypeOK'
  BY <1>1, <1>2, <1>3, <1>4 DEF TypeOK
<1>6. CallShape(k)'
  <2>1. ~ (k[2] > round[k[1]])
    BY <1>1 DEF CallShape
  <2>2. WorkerShape(k, p)'
    BY <1>2, <1>3 DEF WorkerShape
  <2>3. ASSUME NEW q \in Providers \ {p} PROVE WorkerShape(k, q)'
    <3>1. WorkerShape(k, q)
      BY <1>1 DEF CallShape
    <3>2. QED BY <1>2, <1>3, <1>4, <3>1 DEF WorkerShape
  <2>4. QED BY <1>1, <1>4, <2>1, <2>2, <2>3 DEF CallShape
<1>7. Exclusive'
  <2>1. \A l \in Calls : \A q \in Providers : theirs'[l][q] \in {theirs[l][q], None}
    BY <1>3
  <2>2. QED BY <1>1, <1>4, <2>1, LeasesReturned
<1>8. QED BY <1>2, <1>3, <1>5, <1>6, <1>7, WorkerAlone

\* A goroutine with a lease passes its check, or wins the race.
LEMMA AdvanceStep ==
  ASSUME IInv, NEW k \in Calls, NEW p \in Providers, NEW place \in {"checked", "won"},
         SetWorker(k, p, place), UNCHANGED <<searchVars, theirs, offered, expired, open>>,
         IF place = "won"
         THEN worker[k][p] = "checked" /\ ~accepted[k] /\ accepted' = [accepted EXCEPT ![k] = TRUE]
         ELSE worker[k][p] = "obtained" /\ UNCHANGED accepted
  PROVE  IInv'
<1>1. TypeOK /\ CallShape(k) /\ Exclusive
  BY DEF IInv
<1>2. /\ worker' \in [Calls -> [Providers -> WorkerPlaces]]
      /\ worker'[k][p] = place /\ \A q \in Providers \ {p} : worker'[k][q] = worker[k][q]
      /\ \A l \in Calls \ {k} : worker'[l] = worker[l]
  BY <1>1, WorkerMoves DEF WorkerPlaces
<1>3. /\ accepted' \in [Calls -> BOOLEAN] /\ \A l \in Calls \ {k} : accepted'[l] = accepted[l]
      /\ accepted'[k] = IF place = "won" THEN TRUE ELSE accepted[k]
  BY <1>1 DEF TypeOK
<1>4. /\ Returned(k)' = Returned(k) /\ Waiting(k)' = Waiting(k) /\ round' = round
      /\ attempted' = attempted /\ mine' = mine /\ UNCHANGED <<pc, at, attempts, excluded, queued>>
  BY ReturnedKept
<1>5. TypeOK'
  BY <1>1, <1>2, <1>3, <1>4 DEF TypeOK
<1>6. CallShape(k)'
  <2>1. CASE place = "won"
    BY <1>1, <1>2, <1>3, <1>4, <2>1 DEF CallShape, WorkerShape
  <2>2. CASE place = "checked"
    BY <1>1, <1>2, <1>3, <1>4, <2>2 DEF CallShape, WorkerShape
  <2>3. QED BY <2>1, <2>2
<1>7. Exclusive'
  BY <1>1, <1>4 DEF Exclusive
<1>8. QED BY <1>2, <1>3, <1>5, <1>6, <1>7, WorkerAlone

\* The winner offers its lease.
LEMMA OfferStep ==
  ASSUME IInv, NEW k \in Calls, NEW p \in Providers, Offer(k, p)
  PROVE  IInv'
<1>1. TypeOK /\ CallShape(k) /\ Exclusive
  BY DEF IInv
<1>2. /\ worker[k][p] = "won" /\ offered' = [offered EXCEPT ![k] = theirs[k][p]]
      /\ SetWorker(k, p, "over") /\ Holds(k, p, None)
      /\ UNCHANGED <<searchVars, accepted, expired, open>>
  BY DEF Offer
<1>3. /\ worker' \in [Calls -> [Providers -> WorkerPlaces]]
      /\ worker'[k][p] = "over" /\ \A q \in Providers \ {p} : worker'[k][q] = worker[k][q]
      /\ \A l \in Calls \ {k} : worker'[l] = worker[l]
  BY <1>1, <1>2, WorkerMoves DEF WorkerPlaces
<1>4. /\ theirs' \in [Calls -> [Providers -> Profiles \cup {None}]]
      /\ theirs'[k][p] = None /\ \A q \in Providers \ {p} : theirs'[k][q] = theirs[k][q]
      /\ \A l \in Calls \ {k} : theirs'[l] = theirs[l]
  BY <1>1, <1>2, LeaseMoves
<1>5. /\ offered' \in [Calls -> Profiles \cup {None}] /\ offered'[k] = theirs[k][p]
      /\ \A l \in Calls \ {k} : offered'[l] = offered[l]
  BY <1>1, <1>2 DEF TypeOK
<1>6. /\ Returned(k)' = Returned(k) /\ Waiting(k)' = Waiting(k) /\ round' = round
      /\ attempted' = attempted /\ mine' = mine /\ UNCHANGED <<pc, at, attempts, excluded, queued>>
  BY <1>2, ReturnedKept
<1>7. TypeOK'
  BY <1>1, <1>2, <1>3, <1>4, <1>5, <1>6 DEF TypeOK
<1>8. CallShape(k)'
  <2>1. /\ accepted[k] /\ theirs[k][p] # None /\ ProviderOf[theirs[k][p]] = p
        /\ expired[k] \/ Waiting(k)
        /\ ~Returned(k) => p \notin attempted[k[1]]
        /\ ~ (k[2] > round[k[1]])
        /\ \A q \in Providers \ {p} : worker[k][q] # "won"
    BY <1>1, <1>2 DEF CallShape, WorkerShape
  <2>2. WorkerShape(k, p)'
    BY <1>3, <1>4 DEF WorkerShape
  <2>3. ASSUME NEW q \in Providers \ {p} PROVE WorkerShape(k, q)'
    <3>1. WorkerShape(k, q)
      BY <1>1 DEF CallShape
    <3>2. QED BY <1>2, <1>3, <1>4, <1>6, <2>1, <3>1 DEF WorkerShape
  <2>4. QED BY <1>2, <1>5, <1>6, <2>1, <2>2, <2>3 DEF CallShape
<1>9. Exclusive'
  BY <1>1, <1>2, <1>6, LeaseOffered
<1>10. QED BY <1>2, <1>3, <1>4, <1>5, <1>7, <1>8, <1>9, WorkerAlone

\* The timer of a call fires.
LEMMA ExpireStep ==
  ASSUME IInv, NEW k \in Calls, Expire(k)
  PROVE  IInv'
<1>1. TypeOK /\ CallShape(k) /\ Exclusive
  BY DEF IInv
<1>2. /\ k[2] = round[k[1]] /\ expired' = [expired EXCEPT ![k] = TRUE]
      /\ UNCHANGED <<searchVars, accepted, offered, worker, theirs, open>>
  BY DEF Expire
<1>3. /\ expired' \in [Calls -> BOOLEAN] /\ expired'[k]
      /\ \A l \in Calls \ {k} : expired'[l] = expired[l]
  BY <1>1, <1>2 DEF TypeOK
<1>4. /\ Returned(k)' = Returned(k) /\ Waiting(k)' = Waiting(k) /\ round' = round
      /\ attempted' = attempted /\ mine' = mine /\ UNCHANGED <<pc, at, attempts, excluded, queued>>
  BY <1>2, ReturnedKept
<1>5. TypeOK'
  BY <1>1, <1>2, <1>3, <1>4 DEF TypeOK
<1>6. CallShape(k)'
  BY <1>1, <1>2, <1>3, <1>4 DEF CallShape, WorkerShape
<1>7. Exclusive'
  BY <1>1, <1>2, <1>4 DEF Exclusive
<1>8. QED BY <1>2, <1>3, <1>5, <1>6, <1>7, WorkerAlone

-----------------------------------------------------------------------------
(* The invariant.                                                          *)

\* It holds initially.
LEMMA InitIInv == Init => IInv
<1> SUFFICES ASSUME Init PROVE IInv
  OBVIOUS
<1>1. TypeOK
  BY DEF Init, TypeOK, SearchPlaces, WorkerPlaces
<1>2. QueueAccounting
  <2>1. Queueing = {} /\ Rejected = {}
    BY DEF Init, Queueing, Rejected
  <2>2. QED BY <2>1, FS_EmptySet, ConstantsOK DEF Init, QueueAccounting
<1>3. ASSUME NEW s \in Searches PROVE SearchShape(s)
  BY ConstantsOK DEF Init, SearchShape
<1>4. ASSUME NEW s \in Searches PROVE RoundsShape(s)
  BY AttemptsCounted DEF Init, RoundsShape
<1>5. ASSUME NEW k \in Calls PROVE CallShape(k)
  BY DEF Init, CallShape, WorkerShape
<1>6. Exclusive
  BY DEF Init, Exclusive
<1>7. QED BY <1>1, <1>2, <1>3, <1>4, <1>5, <1>6 DEF IInv

\* Every step of a search keeps it.
LEMMA SearchStepIInv ==
  ASSUME IInv, NEW s \in Searches, SearchStep(s)
  PROVE  IInv'
BY SteerStep, AskStep, EnqueueStep, UncountStep, BookStep, FinishStep, DecideStep,
   ReceiveStep, TimeOutStep, CollectStep DEF SearchStep

\* Every step of a goroutine keeps it.
LEMMA WorkerStepIInv ==
  ASSUME IInv, NEW k \in Calls, NEW p \in Providers, WorkerStep(k, p)
  PROVE  IInv'
<1>1. CASE Obtain(k, p)
  BY <1>1, ObtainStep
<1>2. CASE Abandon(k, p)
  BY <1>2, EndStep DEF Abandon
<1>3. CASE Check(k, p)
  <2>1. CASE WaitOver(k)
    BY <1>3, <2>1, EndStep DEF Check
  <2>2. CASE ~WaitOver(k)
    BY <1>3, <2>2, AdvanceStep DEF Check
  <2>3. QED BY <2>1, <2>2
<1>4. CASE Claim(k, p)
  <2>1. CASE accepted[k]
    BY <1>4, <2>1, EndStep DEF Claim
  <2>2. CASE ~accepted[k]
    BY <1>4, <2>2, AdvanceStep DEF Claim
  <2>3. QED BY <2>1, <2>2
<1>5. CASE Offer(k, p)
  BY <1>5, OfferStep
<1>6. CASE Retract(k, p)
  BY <1>6, EndStep DEF Retract
<1>7. QED BY <1>1, <1>2, <1>3, <1>4, <1>5, <1>6 DEF WorkerStep

\* Every step keeps it.
LEMMA NextIInv == IInv /\ [Next]_vars => IInv'
<1> SUFFICES ASSUME IInv, [Next]_vars PROVE IInv'
  OBVIOUS
<1>1. ASSUME NEW f \in Profiles, Turn(f) PROVE IInv'
  <2>1. open' \subseteq Profiles /\ UNCHANGED <<searchVars, callVars>>
    BY <1>1 DEF Turn, IInv, TypeOK
  <2>2. QED BY <2>1, NothingTouched
<1>2. CASE UNCHANGED vars
  <2>1. open' \subseteq Profiles /\ UNCHANGED <<searchVars, callVars>>
    BY <1>2 DEF vars, IInv, TypeOK
  <2>2. QED BY <2>1, NothingTouched
<1>3. QED
  BY <1>1, <1>2, SearchStepIInv, WorkerStepIInv, ExpireStep DEF Next

\* In every reachable state the types, the queue, the searches, the races and
\* the leases are as IInv says (router.go:84, router.go:156).
THEOREM InductiveInvariant == Spec => []IInv
<1>1. QED BY InitIInv, NextIInv, PTL DEF Spec

\* Every variable keeps its type, so no search ever waits more often than its
\* providers and their attempts allow (router.go:84).
THEOREM TypeCorrect == Spec => []TypeOK
<1>1. IInv => TypeOK
  BY DEF IInv
<1>2. QED BY <1>1, InductiveInvariant, PTL

\* The queue counter is the number of searches that wait or are being turned
\* away, and never more than AutoQueueMax wait (router.go:87).
THEOREM QueueCounted == Spec => []QueueAccounting
<1>1. IInv => QueueAccounting
  BY DEF IInv
<1>2. QED BY <1>1, InductiveInvariant, PTL

\* A lease is in one place: with one search, in one channel or with one
\* goroutine (router.go:173, router.go:190).
THEOREM LeasesExclusive == Spec => []OneOwner
<1>1. IInv => OneOwner
  <2> SUFFICES ASSUME IInv, NEW f \in Profiles PROVE Cardinality(PlacesOf(f)) <= 1
    BY DEF OneOwner
  <2>1. f # None /\ Exclusive
    BY ConstantsOK DEF IInv
  <2>2. ASSUME NEW x \in PlacesOf(f), NEW y \in PlacesOf(f) PROVE x = y
    <3>1. \/ \E s \in Searches : x = <<"search", s>> /\ mine[s] = f
          \/ \E k \in Calls : x = <<"channel", k>> /\ offered[k] = f
          \/ \E k \in Calls, p \in Providers : x = <<"worker", <<k, p>>>> /\ theirs[k][p] = f
      BY DEF PlacesOf
    <3>2. \/ \E s \in Searches : y = <<"search", s>> /\ mine[s] = f
          \/ \E k \in Calls : y = <<"channel", k>> /\ offered[k] = f
          \/ \E k \in Calls, p \in Providers : y = <<"worker", <<k, p>>>> /\ theirs[k][p] = f
      BY DEF PlacesOf
    <3>3. QED BY <2>1, <3>1, <3>2 DEF Exclusive
  <2>3. CASE PlacesOf(f) = {}
    BY <2>3, FS_EmptySet
  <2>4. CASE PlacesOf(f) # {}
    <3>1. PICK x \in PlacesOf(f) : TRUE
      BY <2>4
    <3>2. PlacesOf(f) = {x}
      BY <2>2, <3>1
    <3>3. QED BY <3>2, FS_Singleton
  <2>5. QED BY <2>3, <2>4
<1>2. QED BY <1>1, InductiveInvariant, PTL

\* A search never exceeds its attempts of a provider, and never runs on a lease
\* of a provider it has given up (router.go:104, router.go:141).
THEOREM AttemptsLimited == Spec => []AttemptsBounded
<1>1. IInv => AttemptsBounded
  BY DEF IInv, SearchShape, AttemptsBounded
<1>2. QED BY <1>1, InductiveInvariant, PTL

\* Only a wait that timed out can leave a lease in its channel (router.go:173).
THEOREM OnlyTimeoutsLeave == Spec => []WinnersLeaveNothing
<1>1. IInv => WinnersLeaveNothing
  <2> SUFFICES ASSUME IInv, NEW k \in Calls, Returned(k), offered[k] # None PROVE expired[k]
    BY DEF WinnersLeaveNothing
  <2>1. CallShape(k) /\ round[k[1]] \in Nat /\ k[2] \in Nat
    BY CallParts DEF IInv, TypeOK, Rounds
  <2>2. ~Waiting(k)
    BY <2>1 DEF Waiting, Returned
  <2>3. QED BY <2>1, <2>2 DEF CallShape, WorkerShape
<1>2. QED BY <1>1, InductiveInvariant, PTL
-----------------------------------------------------------------------------
(* Termination, as far as it is a matter of counting: how many steps a     *)
(* search has left.                                                        *)

\* How far a search is from the end, or from the attempt that comes next.
Distance(place) ==
  CASE place = "idle" -> 11 [] place = "searching" -> 10 [] place = "deciding" -> 9
    [] place = "loop" -> 8 [] place = "trying" -> 7 [] place = "waiting" -> 6
    [] place = "collecting" -> 5 [] place = "leaving" -> 4 [] place = "retrying" -> 3
    [] place = "granted" -> 2 [] place = "rejected" -> 1 [] OTHER -> 0

\* The attempts it may still make come first, then its place, then the pools
\* that tryAcquire has not asked yet.
Energy(s) ==
  LET left == Cardinality(Providers) * MaxAgentAttempts - Cardinality(Attempted(s))
  IN (12 * left + Distance(pc[s])) * (Cardinality(Providers) + 1) + Cardinality(Untried(s))

\* Every step of a search uses up some of what it has left, and nothing any
\* other search, goroutine, timer or pool does gives it more: whatever
\* providers and pools do, and whoever else waits, the loop of Search
\* (router.go:84) makes a bounded number of steps.
SearchesRunDown ==
  [][\A s \in Searches : /\ Energy(s)' <= Energy(s)
                         /\ SearchStep(s) => Energy(s)' < Energy(s)]_vars

\* More distance outweighs any number of pools.
LEMMA DistanceWeighs ==
  ASSUME NEW n \in Nat, NEW a \in Nat, NEW b \in Nat, b < a, NEW u \in Nat, NEW v \in 0 .. n
  PROVE  b * (n + 1) + v < a * (n + 1) + u
<1> DEFINE d == a - b - 1
<1>1. d \in Nat /\ a = b + 1 + d
  OBVIOUS
<1>2. d * (n + 1) \in Nat /\ b * (n + 1) \in Nat
  BY <1>1
<1>3. a * (n + 1) = b * (n + 1) + (n + 1) + d * (n + 1)
  BY <1>1
<1> HIDE DEF d
<1>4. QED BY <1>2, <1>3

\* The pools that are left to ask can be counted.
LEMMA UntriedCounted ==
  ASSUME NEW s \in Searches
  PROVE  /\ IsFiniteSet(Untried(s)) /\ Cardinality(Untried(s)) \in 0 .. Cardinality(Providers)
         /\ IsFiniteSet(Untried(s)') /\ Cardinality(Untried(s)') \in 0 .. Cardinality(Providers)
<1>1. Untried(s) \in SUBSET Providers /\ Untried(s)' \in SUBSET Providers
  BY DEF Untried
<1>2. IsFiniteSet(Providers)
  BY ConstantsOK
<1>3. \A S \in SUBSET Providers :
        IsFiniteSet(S) /\ Cardinality(S) \in Nat /\ Cardinality(S) <= Cardinality(Providers)
  BY <1>2, FS_Subset, FS_CardinalityType
<1>4. Cardinality(Providers) \in Nat
  BY <1>2, FS_CardinalityType
<1>5. QED BY <1>1, <1>3, <1>4

\* So can the attempts that are left.
LEMMA AttemptsLeft ==
  ASSUME NEW s \in Searches
  PROVE  /\ Cardinality(Providers) * MaxAgentAttempts - Cardinality(Attempted(s)) \in Nat
         /\ Cardinality(Providers) * MaxAgentAttempts - Cardinality(Attempted(s)') \in Nat
         /\ Cardinality(Providers) \in Nat
<1>1. IsFiniteSet(Providers) /\ Cardinality(Providers) \in Nat /\ MaxAgentAttempts \in Nat \ {0}
  BY ConstantsOK, FS_CardinalityType
<1> DEFINE all == Providers \X (1 .. MaxAgentAttempts)
<1>2. IsFiniteSet(all) /\ Cardinality(all) = Cardinality(Providers) * MaxAgentAttempts
  <2>1. IsFiniteSet(1 .. MaxAgentAttempts) /\ Cardinality(1 .. MaxAgentAttempts) = MaxAgentAttempts
    BY <1>1, FS_Interval
  <2>2. QED BY <1>1, <2>1, FS_Product
<1>3. Attempted(s) \in SUBSET all /\ Attempted(s)' \in SUBSET all
  BY DEF Attempted
<1> HIDE DEF all
<1>4. \A S \in SUBSET all : Cardinality(S) \in Nat /\ Cardinality(S) <= Cardinality(all)
  BY <1>2, FS_Subset, FS_CardinalityType
<1>5. Cardinality(all) \in Nat
  BY <1>2, FS_CardinalityType
<1>6. QED BY <1>1, <1>2, <1>3, <1>4, <1>5

\* So energy is a number, and cannot fall for ever.
LEMMA EnergyIsNatural ==
  ASSUME NEW s \in Searches
  PROVE  Energy(s) \in Nat /\ Energy(s)' \in Nat
<1>1. \A place : Distance(place) \in Nat
  BY DEF Distance
<1>2. ASSUME NEW left \in Nat, NEW d \in Nat, NEW n \in Nat, NEW u \in Nat
      PROVE  (12 * left + d) * (n + 1) + u \in Nat
  OBVIOUS
<1>3. Energy(s) \in Nat
  BY <1>1, <1>2, AttemptsLeft, UntriedCounted DEF Energy
<1>4. Energy(s)' \in Nat
  BY <1>1, <1>2, AttemptsLeft, UntriedCounted DEF Energy
<1>5. QED BY <1>3, <1>4

\* A search that comes nearer to the end has less energy,
LEMMA NearerIsLess ==
  ASSUME NEW s \in Searches, attempts'[s] = attempts[s], Distance(pc'[s]) < Distance(pc[s])
  PROVE  Energy(s)' < Energy(s)
<1> DEFINE left == Cardinality(Providers) * MaxAgentAttempts - Cardinality(Attempted(s))
           a == 12 * left + Distance(pc[s])
           b == 12 * left + Distance(pc'[s])
<1>1. Attempted(s)' = Attempted(s)
  BY DEF Attempted
<1>2. Distance(pc[s]) \in Nat /\ Distance(pc'[s]) \in Nat
  BY DEF Distance
<1>3. left \in Nat /\ Cardinality(Providers) \in Nat
  BY AttemptsLeft
<1> HIDE DEF left
<1>4. a \in Nat /\ b \in Nat /\ b < a
  BY <1>2, <1>3
<1>5. /\ Energy(s) = a * (Cardinality(Providers) + 1) + Cardinality(Untried(s))
      /\ Energy(s)' = b * (Cardinality(Providers) + 1) + Cardinality(Untried(s)')
  BY <1>1 DEF Energy, left
<1> HIDE DEF a, b
<1>6. QED BY <1>3, <1>4, <1>5, UntriedCounted, DistanceWeighs

\* and so has one that made an attempt, wherever it is,
LEMMA AttemptIsLess ==
  ASSUME IInv, NEW s \in Searches, pc[s] = "granted",
         attempts' = [attempts EXCEPT ![s][ProviderOf[mine[s]]] = @ + 1], pc'[s] \in {"searching", "failed"}
  PROVE  Energy(s)' < Energy(s)
<1> DEFINE left == Cardinality(Providers) * MaxAgentAttempts - Cardinality(Attempted(s))
           a == 12 * left + Distance(pc[s])
           b == 12 * (left - 1) + Distance(pc'[s])
<1>1. Cardinality(Attempted(s)') = Cardinality(Attempted(s)) + 1
  <2> DEFINE p == ProviderOf[mine[s]]
  <2>1. TypeOK /\ SearchShape(s)
    BY DEF IInv
  <2>2. mine[s] \in Profiles /\ p \in Providers \ attempted[s]
    <3>1. mine[s] # None /\ p \notin attempted[s]
      BY <2>1 DEF SearchShape
    <3>2. mine[s] \in Profiles
      BY <2>1, <3>1 DEF TypeOK
    <3>3. QED BY <3>1, <3>2, ConstantsOK
  <2>3. MaxAgentAttempts \in Nat /\ \A q \in Providers : attempts[s][q] \in Nat
    BY <2>1, ConstantsOK DEF TypeOK
  <2> HIDE DEF p
  <2>4. attempts[s][p] < MaxAgentAttempts
    <3>1. attempts[s][p] <= MaxAgentAttempts
      BY <2>1, <2>2 DEF SearchShape
    <3>2. attempts[s][p] # MaxAgentAttempts
      BY <2>1, <2>2 DEF SearchShape
    <3>3. QED BY <2>2, <2>3, <3>1, <3>2
  <2>5. attempts' = [attempts EXCEPT ![s][p] = @ + 1]
    BY DEF p
  <2>6. QED BY <2>1, <2>2, <2>4, <2>5, AttemptCount
<1>2. Distance(pc[s]) = 2 /\ Distance(pc'[s]) \in Nat /\ Distance(pc'[s]) <= 10
  BY DEF Distance
<1>3. left \in Nat /\ left - 1 \in Nat /\ Cardinality(Providers) \in Nat
  <2>1. IsFiniteSet(Attempted(s)) /\ Cardinality(Attempted(s)) \in Nat
    BY AttemptsCounted
  <2>2. Cardinality(Providers) * MaxAgentAttempts \in Nat
    BY AttemptsCounted
  <2>3. Cardinality(Providers) * MaxAgentAttempts - Cardinality(Attempted(s)') \in Nat
    BY AttemptsLeft
  <2>4. QED BY <1>1, <2>1, <2>2, <2>3, AttemptsLeft
<1>4. left - 1 = Cardinality(Providers) * MaxAgentAttempts - Cardinality(Attempted(s)')
  BY <1>1, AttemptsCounted
<1>5. /\ Energy(s) = a * (Cardinality(Providers) + 1) + Cardinality(Untried(s))
      /\ Energy(s)' = b * (Cardinality(Providers) + 1) + Cardinality(Untried(s)')
  BY <1>4 DEF Energy
<1> HIDE DEF left
<1>6. a \in Nat /\ b \in Nat /\ b < a
  BY <1>2, <1>3
<1> HIDE DEF a, b
<1>7. QED BY <1>3, <1>5, <1>6, UntriedCounted, DistanceWeighs

\* and one that asked a pool in vain.
LEMMA AskedIsLess ==
  ASSUME IInv, NEW s \in Searches, Untried(s) # {}, at' = [at EXCEPT ![s] = First(Untried(s)) + 1],
         UNCHANGED <<pc, attempted, attempts>>
  PROVE  Energy(s)' < Energy(s)
<1> DEFINE p == First(Untried(s))
<1>1. p \in Untried(s) /\ p \in Nat /\ Untried(s) \subseteq Nat
  <2>1. Untried(s) \in SUBSET Nat
    BY ConstantsOK DEF Untried
  <2>2. QED BY <2>1, FirstIsOne
<1>2. at'[s] = p + 1 /\ at[s] \in Nat
  BY DEF IInv, TypeOK
<1> HIDE DEF p
<1>3. Untried(s)' \subseteq Untried(s) \ {p}
  <2>1. ASSUME NEW q \in Untried(s)' PROVE q \in Untried(s) /\ q # p
    <3>1. q \in Providers \ attempted[s] /\ q >= p + 1 /\ q \in Nat
      BY <1>2, ConstantsOK DEF Untried
    <3>2. p >= at[s]
      BY <1>1 DEF Untried
    <3>3. QED BY <1>1, <1>2, <3>1, <3>2 DEF Untried
  <2>2. QED BY <2>1
<1>4. Cardinality(Untried(s)') < Cardinality(Untried(s))
  <2>1. Cardinality(Untried(s) \ {p}) = Cardinality(Untried(s)) - 1 /\ IsFiniteSet(Untried(s) \ {p})
    BY <1>1, UntriedCounted, FS_RemoveElement
  <2>2. Cardinality(Untried(s)') <= Cardinality(Untried(s) \ {p})
    BY <1>3, <2>1, FS_Subset
  <2>3. QED BY <2>1, <2>2, UntriedCounted
<1> DEFINE left == Cardinality(Providers) * MaxAgentAttempts - Cardinality(Attempted(s))
           weight == (12 * left + Distance(pc[s])) * (Cardinality(Providers) + 1)
<1>5. Attempted(s)' = Attempted(s)
  BY DEF Attempted
<1>6. weight \in Nat
  <2>1. left \in Nat /\ Cardinality(Providers) \in Nat /\ Distance(pc[s]) \in Nat
    BY AttemptsLeft DEF Distance
  <2> HIDE DEF left
  <2>2. QED BY <2>1
<1>7. Energy(s) = weight + Cardinality(Untried(s)) /\ Energy(s)' = weight + Cardinality(Untried(s)')
  BY <1>5 DEF Energy
<1> HIDE DEF weight
<1>8. QED BY <1>4, <1>6, <1>7, UntriedCounted

\* So every step of a search costs energy.
LEMMA StepsCost ==
  ASSUME IInv, NEW s \in Searches, SearchStep(s)
  PROVE  Energy(s)' < Energy(s)
<1>1. pc \in [Searches -> SearchPlaces] /\ TypeOK
  BY DEF IInv, TypeOK
<1>2. ASSUME NEW place, Goto(s, place) PROVE pc'[s] = place
  BY <1>1, <1>2 DEF Goto
<1>3. CASE Ask(s)
  <2>1. UNCHANGED <<attempted, attempts>> /\ Untried(s) # {}
    BY <1>3 DEF Ask, choiceVars
  <2>2. CASE at' = [at EXCEPT ![s] = First(Untried(s)) + 1] /\ UNCHANGED pc
    BY <2>1, <2>2, AskedIsLess
  <2>3. CASE Goto(s, "granted")
    BY <1>2, <1>3, <2>1, <2>3, NearerIsLess DEF Ask, Distance
  <2>4. QED BY <1>3, <2>2, <2>3 DEF Ask
<1>4. CASE Book(s)
  BY <1>2, <1>4, AttemptIsLess DEF Book
<1>5. CASE Start(s) \/ Loop(s) \/ GiveUp(s)
  BY <1>2, <1>5, NearerIsLess DEF Start, Loop, GiveUp, Distance, choiceVars
<1>6. CASE Enqueue(s)
  BY <1>2, <1>6, NearerIsLess DEF Enqueue, Distance, choiceVars
<1>7. CASE Reject(s) \/ Leave(s)
  BY <1>2, <1>7, NearerIsLess DEF Reject, Leave, Distance, choiceVars
<1>8. CASE Finish(s) \/ Decide(s)
  BY <1>2, <1>8, NearerIsLess DEF Finish, Decide, Distance
<1>9. CASE Receive(s) \/ TimeOut(s) \/ Collect(s)
  BY <1>2, <1>9, NearerIsLess DEF Receive, TimeOut, Collect, Distance, choiceVars
<1>10. QED BY <1>3, <1>4, <1>5, <1>6, <1>7, <1>8, <1>9 DEF SearchStep

\* The steps of others cost it nothing.
LEMMA OthersCostNothing ==
  ASSUME NEW t \in Searches,
         pc'[t] = pc[t], at'[t] = at[t], attempted'[t] = attempted[t], attempts'[t] = attempts[t]
  PROVE  Energy(t)' = Energy(t)
<1>1. Attempted(t)' = Attempted(t) /\ Untried(t)' = Untried(t)
  BY DEF Attempted, Untried
<1>2. QED BY <1>1 DEF Energy

\* Another search leaves it where it is.
LEMMA SearchesApart ==
  ASSUME TypeOK, NEW s \in Searches, SearchStep(s), NEW t \in Searches, t # s
  PROVE  pc'[t] = pc[t] /\ at'[t] = at[t] /\ attempted'[t] = attempted[t] /\ attempts'[t] = attempts[t]
<1>1. /\ \E place : Goto(s, place) \/ UNCHANGED pc
      /\ UNCHANGED at \/ \E i : at' = [at EXCEPT ![s] = i]
      /\ UNCHANGED attempted \/ \E ps : attempted' = [attempted EXCEPT ![s] = ps]
      /\ UNCHANGED attempts \/ \E ns : attempts' = [attempts EXCEPT ![s] = ns]
  <2>1. CASE Ask(s) \/ Book(s)
    <3>1. CASE Ask(s)
      BY <3>1 DEF Ask, Rewound, choiceVars
    <3>2. CASE Book(s)
      <4>1. attempts' = [attempts EXCEPT ![s] = [attempts[s] EXCEPT ![ProviderOf[mine[s]]] = @ + 1]]
        BY <3>2 DEF Book, TypeOK
      <4>2. QED BY <3>2, <4>1 DEF Book
    <3>3. QED BY <2>1, <3>1, <3>2
  <2>2. CASE Start(s) \/ Loop(s) \/ GiveUp(s)
    BY <2>2 DEF Start, Loop, GiveUp, choiceVars
  <2>3. CASE Enqueue(s)
    BY <2>3 DEF Enqueue, Rewound, choiceVars
  <2>4. CASE Reject(s) \/ Leave(s)
    BY <2>4 DEF Reject, Leave, choiceVars
  <2>5. CASE Finish(s) \/ Decide(s)
    BY <2>5 DEF Finish, Decide, Rewound
  <2>6. CASE Receive(s) \/ TimeOut(s) \/ Collect(s)
    BY <2>6 DEF Receive, TimeOut, Collect, choiceVars
  <2>7. QED BY <2>1, <2>2, <2>3, <2>4, <2>5, <2>6 DEF SearchStep
<1>2. pc'[t] = pc[t]
  BY <1>1 DEF Goto, TypeOK
<1>3. at'[t] = at[t] /\ attempted'[t] = attempted[t] /\ attempts'[t] = attempts[t]
  BY <1>1 DEF TypeOK
<1>4. QED BY <1>2, <1>3

\* No search runs for ever, whatever its pools and providers do: it makes at most
\* as many steps as its energy says at its start (router.go:84).
THEOREM SearchesEnd == Spec => SearchesRunDown
<1> DEFINE Down == \A s \in Searches : /\ Energy(s)' <= Energy(s)
                                       /\ SearchStep(s) => Energy(s)' < Energy(s)
<1>1. ASSUME IInv, Next, NEW s \in Searches
      PROVE  Energy(s)' <= Energy(s) /\ (SearchStep(s) => Energy(s)' < Energy(s))
  <2>1. Energy(s) \in Nat /\ Energy(s)' \in Nat
    BY EnergyIsNatural
  <2>2. SearchStep(s) => Energy(s)' < Energy(s)
    BY <1>1, StepsCost
  <2>3. Energy(s)' < Energy(s) \/ Energy(s)' = Energy(s)
    <3>1. CASE SearchStep(s)
      BY <2>2, <3>1
    <3>2. CASE \E t \in Searches \ {s} : SearchStep(t)
      BY <1>1, <3>2, SearchesApart, OthersCostNothing DEF IInv
    <3>3. CASE UNCHANGED searchVars
      BY <3>3, OthersCostNothing DEF searchVars, choiceVars
    <3>4. ASSUME NEW k \in Calls, NEW p \in Providers, WorkerStep(k, p) PROVE UNCHANGED searchVars
      BY <3>4 DEF WorkerStep, Obtain, Abandon, Check, Claim, Offer, Retract
    <3>5. ASSUME NEW k \in Calls, Expire(k) PROVE UNCHANGED searchVars
      BY <3>5 DEF Expire
    <3>6. ASSUME NEW f \in Profiles, Turn(f) PROVE UNCHANGED searchVars
      BY <3>6 DEF Turn
    <3>7. QED BY <1>1, <3>1, <3>2, <3>3, <3>4, <3>5, <3>6 DEF Next
  <2>4. Energy(s)' <= Energy(s)
    BY <2>1, <2>3
  <2>5. QED BY <2>2, <2>4
<1>2. IInv /\ [Next]_vars => [Down]_vars
  BY <1>1
<1>3. QED BY <1>2, InductiveInvariant, PTL DEF Spec, SearchesRunDown

-----------------------------------------------------------------------------
(* The pools.                                                              *)

\* The router as LeasePool sees it.  A lease is its profile, whoever keeps it at
\* the moment: the search, a goroutine, or the channel between them.
held == [f \in Profiles |-> IF Leased(f) THEN f ELSE None]

Pool == INSTANCE LeasePool WITH
          Callers     <- Profiles,
          Capacity    <- [f \in Profiles |-> 1],
          NoProfile   <- None,
          incarnation <- [f \in Profiles |-> 0],
          accepting   <- open # {}

\* The router uses its pools as LeasePool promises they may be used, whatever
\* searches, goroutines and timers do: a step takes one lease, of a profile that
\* is open and not leased, or gives one back, and nobody else has it then; a
\* lease that goes from a goroutine through the channel to the search stays out
\* all the way (router.go:156, lease.go:41).
PoolsUsedRightly ==
  [][\/ \E f \in open : Pool!Grant(f, f)
     \/ \E f \in Profiles : Pool!Return(f)
     \/ Pool!Switch]_(Pool!vars)

\* LeasePool counts as this module does.
LEMMA PoolCounts ==
  ASSUME NEW S PROVE Pool!Cardinality(S) = Cardinality(S)
BY DEF Pool!Cardinality, Cardinality

\* A profile that becomes leased was granted.
LEMMA GrantOfPool ==
  ASSUME NEW f \in Profiles, f \in open, ~Leased(f), Leased(f)',
         \A g \in Profiles : g # f => (Leased(g)' <=> Leased(g)), UNCHANGED open
  PROVE  Pool!Grant(f, f)
<1>1. Pool!HoldersOf(f) = {}
  BY ConstantsOK DEF Pool!HoldersOf, held
<1>2. Pool!Cardinality(Pool!HoldersOf(f)) < [g \in Profiles |-> 1][f]
  BY <1>1, FS_EmptySet, PoolCounts
<1>3. held' = [held EXCEPT ![f] = f] /\ held[f] = None
  BY DEF held
<1>4. open # {} /\ UNCHANGED <<[g \in Profiles |-> 0], open # {}>>
  OBVIOUS
<1>5. QED BY <1>2, <1>3, <1>4 DEF Pool!Grant

\* A profile that is no longer leased was given back.
LEMMA ReturnToPool ==
  ASSUME NEW f \in Profiles, Leased(f), ~(Leased(f)'),
         \A g \in Profiles : g # f => (Leased(g)' <=> Leased(g)), UNCHANGED open
  PROVE  Pool!Return(f)
<1>1. held' = [held EXCEPT ![f] = None] /\ held[f] # None
  BY ConstantsOK DEF held
<1>2. UNCHANGED <<[g \in Profiles |-> 0], open # {}>>
  OBVIOUS
<1>3. QED BY <1>1, <1>2 DEF Pool!Return

\* If the same profiles are leased as before, no pool notices.
LEMMA PoolUnchanged ==
  ASSUME \A g \in Profiles : Leased(g)' <=> Leased(g), UNCHANGED open
  PROVE  UNCHANGED Pool!vars
<1>1. held' = held
  BY DEF held
<1>2. UNCHANGED <<[g \in Profiles |-> 0], open # {}>>
  OBVIOUS
<1>3. QED BY <1>1, <1>2 DEF Pool!vars

PoolStep ==
  \/ \E f \in open : Pool!Grant(f, f)
  \/ \E f \in Profiles : Pool!Return(f)
  \/ Pool!Switch
  \/ UNCHANGED Pool!vars

\* A search is granted a lease, or gives its lease back.
LEMMA SearchesAtPools ==
  ASSUME IInv, NEW s \in Searches, UNCHANGED <<offered, theirs, open>>,
         \/ \E f \in open : /\ ~Leased(f) /\ mine[s] = None
                            /\ mine' = [mine EXCEPT ![s] = f]
         \/ mine[s] # None /\ mine' = [mine EXCEPT ![s] = None]
  PROVE  PoolStep
<1>1. mine \in [Searches -> Profiles \cup {None}] /\ open \subseteq Profiles
  BY DEF IInv, TypeOK
<1>2. CASE \E f \in open : /\ ~Leased(f) /\ mine[s] = None
                           /\ mine' = [mine EXCEPT ![s] = f]
  <2>1. PICK f \in open : /\ ~Leased(f) /\ mine[s] = None
                          /\ mine' = [mine EXCEPT ![s] = f]
    BY <1>2
  <2>2. f \in Profiles /\ mine'[s] = f /\ \A t \in Searches \ {s} : mine'[t] = mine[t]
    BY <1>1, <2>1
  <2>3. Leased(f)'
    BY <2>2 DEF Leased
  <2>4. \A g \in Profiles : g # f => (Leased(g)' <=> Leased(g))
    BY <2>1, <2>2, ConstantsOK DEF Leased
  <2>5. QED BY <2>1, <2>2, <2>3, <2>4, GrantOfPool DEF PoolStep
<1>3. CASE mine[s] # None /\ mine' = [mine EXCEPT ![s] = None]
  <2>1. PICK f \in Profiles : f = mine[s]
    BY <1>1, <1>3
  <2>2. mine'[s] = None /\ \A t \in Searches \ {s} : mine'[t] = mine[t]
    BY <1>1, <1>3
  <2>3. Leased(f)
    BY <2>1 DEF Leased
  <2>4. ~(Leased(f)')
    <3>1. /\ \A t \in Searches : mine'[t] # f
          /\ \A k \in Calls : offered[k] # f
          /\ \A k \in Calls : \A p \in Providers : theirs[k][p] # f
      BY <1>3, <2>1, <2>2 DEF IInv, Exclusive
    <3>2. QED BY <3>1 DEF Leased
  <2>5. \A g \in Profiles : g # f => (Leased(g)' <=> Leased(g))
    BY <1>3, <2>1, <2>2, ConstantsOK DEF Leased
  <2>6. QED BY <2>3, <2>4, <2>5, ReturnToPool DEF PoolStep
<1>4. QED BY <1>2, <1>3

\* So does a goroutine.
LEMMA WorkersAtPools ==
  ASSUME IInv, NEW k \in Calls, NEW p \in Providers, UNCHANGED <<mine, offered, open>>,
         \/ \E f \in open : ~Leased(f) /\ theirs[k][p] = None /\ Holds(k, p, f)
         \/ theirs[k][p] # None /\ Holds(k, p, None)
  PROVE  PoolStep
<1>1. theirs \in [Calls -> [Providers -> Profiles \cup {None}]] /\ open \subseteq Profiles
  BY DEF IInv, TypeOK
<1>2. ASSUME NEW f, Holds(k, p, f)
      PROVE  /\ theirs'[k][p] = f
             /\ \A l \in Calls : \A q \in Providers :
                  l # k \/ q # p => theirs'[l][q] = theirs[l][q]
  BY <1>1, <1>2 DEF Holds
<1>3. CASE \E f \in open : ~Leased(f) /\ theirs[k][p] = None /\ Holds(k, p, f)
  <2>1. PICK f \in open : ~Leased(f) /\ theirs[k][p] = None /\ Holds(k, p, f)
    BY <1>3
  <2>2. f \in Profiles
    BY <1>1, <2>1
  <2>3. Leased(f)'
    BY <1>2, <2>1 DEF Leased
  <2>4. \A g \in Profiles : g # f => (Leased(g)' <=> Leased(g))
    BY <1>2, <2>1, ConstantsOK DEF Leased
  <2>5. QED BY <2>1, <2>2, <2>3, <2>4, GrantOfPool DEF PoolStep
<1>4. CASE theirs[k][p] # None /\ Holds(k, p, None)
  <2>1. PICK f \in Profiles : f = theirs[k][p]
    BY <1>1, <1>4
  <2>2. Leased(f)
    BY <2>1 DEF Leased
  <2>3. ~(Leased(f)')
    <3>1. /\ \A t \in Searches : mine[t] # f
          /\ \A l \in Calls : offered[l] # f
          /\ \A l \in Calls : \A q \in Providers : theirs'[l][q] # f
      BY <1>2, <1>4, <2>1 DEF IInv, Exclusive
    <3>2. QED BY <3>1 DEF Leased
  <2>4. \A g \in Profiles : g # f => (Leased(g)' <=> Leased(g))
    BY <1>2, <1>4, <2>1, ConstantsOK DEF Leased
  <2>5. QED BY <2>2, <2>3, <2>4, ReturnToPool DEF PoolStep
<1>5. QED BY <1>3, <1>4

\* What lies in a channel when the wait is over goes back.
LEMMA ChannelEmptied ==
  ASSUME IInv, NEW k \in Calls, UNCHANGED <<mine, theirs, open>>,
         offered' = [offered EXCEPT ![k] = None]
  PROVE  PoolStep
<1>1. offered \in [Calls -> Profiles \cup {None}]
  BY DEF IInv, TypeOK
<1>2. offered'[k] = None /\ \A l \in Calls \ {k} : offered'[l] = offered[l]
  BY <1>1
<1>3. CASE offered[k] = None
  <2>1. \A g \in Profiles : Leased(g)' <=> Leased(g)
    BY <1>2, <1>3, ConstantsOK DEF Leased
  <2>2. QED BY <2>1, PoolUnchanged DEF PoolStep
<1>4. CASE offered[k] # None
  <2>1. PICK f \in Profiles : f = offered[k]
    BY <1>1, <1>4
  <2>2. Leased(f)
    BY <2>1 DEF Leased
  <2>3. ~(Leased(f)')
    <3>1. /\ \A t \in Searches : mine[t] # f
          /\ \A l \in Calls : offered'[l] # f
          /\ \A l \in Calls : \A q \in Providers : theirs[l][q] # f
      BY <1>2, <1>4, <2>1 DEF IInv, Exclusive
    <3>2. QED BY <3>1 DEF Leased
  <2>4. \A g \in Profiles : g # f => (Leased(g)' <=> Leased(g))
    BY <1>2, <1>4, <2>1, ConstantsOK DEF Leased
  <2>5. QED BY <2>2, <2>3, <2>4, ReturnToPool DEF PoolStep
<1>5. QED BY <1>3, <1>4

\* A lease that changes hands stays out: the channel has room for it, and the
\* search that takes it has none.
LEMMA HandedOn ==
  ASSUME IInv, UNCHANGED open,
         \/ \E k \in Calls, p \in Providers :
              /\ offered[k] = None /\ UNCHANGED mine
              /\ offered' = [offered EXCEPT ![k] = theirs[k][p]] /\ Holds(k, p, None)
         \/ \E s \in Searches, k \in Calls :
              /\ mine[s] = None /\ UNCHANGED theirs
              /\ mine' = [mine EXCEPT ![s] = offered[k]]
              /\ offered' = [offered EXCEPT ![k] = None]
  PROVE  PoolStep
<1>1. /\ theirs \in [Calls -> [Providers -> Profiles \cup {None}]]
      /\ offered \in [Calls -> Profiles \cup {None}]
      /\ mine \in [Searches -> Profiles \cup {None}]
  BY DEF IInv, TypeOK
<1>2. ASSUME NEW k \in Calls, NEW p \in Providers, offered[k] = None, UNCHANGED mine,
             offered' = [offered EXCEPT ![k] = theirs[k][p]], Holds(k, p, None)
      PROVE  \A g \in Profiles : Leased(g)' <=> Leased(g)
  <2>1. /\ theirs'[k][p] = None
        /\ \A l \in Calls : \A q \in Providers : l # k \/ q # p => theirs'[l][q] = theirs[l][q]
        /\ offered'[k] = theirs[k][p] /\ \A l \in Calls \ {k} : offered'[l] = offered[l]
    BY <1>1, <1>2 DEF Holds
  <2>2. QED BY <1>2, <2>1, ConstantsOK DEF Leased
<1>3. ASSUME NEW s \in Searches, NEW k \in Calls, mine[s] = None, UNCHANGED theirs,
             mine' = [mine EXCEPT ![s] = offered[k]], offered' = [offered EXCEPT ![k] = None]
      PROVE  \A g \in Profiles : Leased(g)' <=> Leased(g)
  <2>1. /\ mine'[s] = offered[k] /\ \A t \in Searches \ {s} : mine'[t] = mine[t]
        /\ offered'[k] = None /\ \A l \in Calls \ {k} : offered'[l] = offered[l]
    BY <1>1, <1>3
  <2>2. QED BY <1>3, <2>1, ConstantsOK DEF Leased
<1>4. QED BY <1>2, <1>3, PoolUnchanged DEF PoolStep

\* A pool that opens or closes profiles meanwhile switches, or is not seen to.
LEMMA TurnAtPool ==
  ASSUME NEW f \in Profiles, Turn(f)
  PROVE  PoolStep
<1>1. UNCHANGED <<mine, offered, theirs>>
  BY DEF Turn, searchVars, callVars
<1>2. held' = held
  BY <1>1 DEF held, Leased
<1>3. (open' # {}) = (open # {}) \/ (open' # {}) = ~(open # {})
  OBVIOUS
<1>4. UNCHANGED [g \in Profiles |-> 0]
  OBVIOUS
<1>5. QED BY <1>2, <1>3, <1>4 DEF PoolStep, Pool!Switch, Pool!vars

\* One step for each action.
LEMMA StepsAtPools == IInv /\ Next => PoolStep
<1> SUFFICES ASSUME IInv, Next PROVE PoolStep
  OBVIOUS
<1>1. ASSUME UNCHANGED <<mine, offered, theirs, open>> PROVE PoolStep
  <2>1. \A g \in Profiles : Leased(g)' <=> Leased(g)
    BY <1>1 DEF Leased
  <2>2. QED BY <1>1, <2>1, PoolUnchanged DEF PoolStep
<1>2. ASSUME NEW s \in Searches, SearchStep(s) PROVE PoolStep
  <2>1. SearchShape(s)
    BY DEF IInv
  <2>2. CASE Start(s) \/ Loop(s) \/ GiveUp(s) \/ Enqueue(s) \/ Reject(s) \/ Leave(s)
             \/ Decide(s) \/ TimeOut(s)
    BY <1>1, <2>2 DEF Start, Loop, GiveUp, Enqueue, Reject, Leave, Decide, TimeOut, callVars
  <2>3. CASE Ask(s)
    BY <1>1, <2>1, <2>3, SearchesAtPools DEF Ask, Available, callVars, SearchShape
  <2>4. CASE Book(s)
    BY <1>1, <2>1, <2>4, SearchesAtPools DEF Book, callVars, SearchShape
  <2>5. CASE Finish(s)
    BY <2>1, <2>5, SearchesAtPools DEF Finish, callVars, SearchShape
  <2>6. ASSUME Receive(s) \/ Collect(s) PROVE Call(s) \in Calls
    <3>1. round[s] \in Rounds
      BY <2>6 DEF IInv, TypeOK, RoundsShape, Receive, Collect
    <3>2. QED BY <3>1 DEF Call, Calls
  <2>7. CASE Receive(s)
    BY <2>1, <2>6, <2>7, HandedOn DEF Receive, SearchShape
  <2>8. CASE Collect(s)
    BY <2>6, <2>8, ChannelEmptied DEF Collect
  <2>9. QED BY <1>2, <2>2, <2>3, <2>4, <2>5, <2>7, <2>8 DEF SearchStep
<1>3. ASSUME NEW k \in Calls, NEW p \in Providers, WorkerStep(k, p) PROVE PoolStep
  <2>1. WorkerShape(k, p)
    BY DEF IInv, CallShape
  <2>2. CASE Obtain(k, p)
    BY <2>1, <2>2, WorkersAtPools DEF Obtain, Available, searchVars, WorkerShape
  <2>3. CASE Abandon(k, p)
    BY <1>1, <2>3 DEF Abandon, searchVars
  <2>4. CASE Check(k, p)
    BY <1>1, <2>1, <2>4, WorkersAtPools DEF Check, searchVars, WorkerShape
  <2>5. CASE Claim(k, p)
    BY <1>1, <2>1, <2>5, WorkersAtPools DEF Claim, searchVars, WorkerShape
  <2>6. CASE Offer(k, p)
    BY <2>1, <2>6, HandedOn DEF Offer, searchVars, WorkerShape
  <2>7. CASE Retract(k, p)
    BY <2>1, <2>7, WorkersAtPools DEF Retract, searchVars, WorkerShape
  <2>8. QED BY <1>3, <2>2, <2>3, <2>4, <2>5, <2>6, <2>7 DEF WorkerStep
<1>4. ASSUME NEW k \in Calls, Expire(k) PROVE PoolStep
  BY <1>1, <1>4 DEF Expire, searchVars
<1>5. ASSUME NEW f \in Profiles, Turn(f) PROVE PoolStep
  BY <1>5, TurnAtPool
<1>6. QED BY <1>2, <1>3, <1>4, <1>5 DEF Next

\* Automatic routing uses its pools as ProfilePool, by LeasePool, says they are
\* used: it neither copies a lease nor gives one back that somebody has.
THEOREM RoutesThroughPools == Spec => PoolsUsedRightly
<1>1. IInv /\ [Next]_vars =>
        [\/ \E f \in open : Pool!Grant(f, f)
         \/ \E f \in Profiles : Pool!Return(f)
         \/ Pool!Switch]_(Pool!vars)
  <2>1. CASE UNCHANGED vars
    <3>1. UNCHANGED <<mine, offered, theirs, open>>
      BY <2>1 DEF vars, searchVars, callVars
    <3>2. \A g \in Profiles : Leased(g)' <=> Leased(g)
      BY <3>1 DEF Leased
    <3>3. QED BY <3>1, <3>2, PoolUnchanged
  <2>2. QED BY <2>1, StepsAtPools DEF PoolStep
<1>2. QED BY <1>1, InductiveInvariant, PTL DEF Spec, PoolsUsedRightly
=============================================================================
