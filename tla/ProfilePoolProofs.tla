-------------------------- MODULE ProfilePoolProofs --------------------------
(***************************************************************************)
(* Theorems about ProfilePool for every set of profiles and callers, every *)
(* capacity and every threshold, cooldown and bound.                       *)
(***************************************************************************)
EXTENDS ProfilePool, LoopLemmas, FiniteSetTheorems, WellFoundedInduction, TLAPS

-----------------------------------------------------------------------------
(* What the operators on one entry return.                                 *)

\* The configured thresholds are natural numbers (trust.go, Config).
LEMMA Thresholds ==
  /\ MinSamples \in Nat /\ MaxConsecutiveFailures \in Nat
  /\ MaxRecoveryAttempts \in Nat
  /\ QuarantineCooldown \in Nat /\ DegradedCooldown \in Nat
BY ConstantsOK

\* AtMost is a minimum.
LEMMA AtMostFacts ==
  ASSUME NEW n \in Nat, NEW cap \in Nat
  PROVE  AtMost(n, cap) \in 0 .. cap
BY DEF AtMost

\* A fresh or loaded entry is well formed and has no lease on it.
LEMMA FreshFacts ==
  ASSUME NEW st \in States, NEW gen \in Nat
  PROVE  /\ FreshEntry(st, gen) \in EntryType
         /\ FreshEntry(st, gen).inFlight = 0
         /\ FreshEntry(st, gen).open
         /\ FreshEntry(st, gen).state = st
         /\ FreshEntry(st, gen).generation = gen
BY Thresholds DEF FreshEntry, EntryType, Serving

\* What New loads from a manifest is well formed, warming and unleased.
LEMMA LoadedFacts ==
  ASSUME NEW m \in ManifestType, NEW kept \in 0 .. MinSamples
  PROVE  /\ LoadedEntry(m, kept) \in EntryType
         /\ LoadedEntry(m, kept).inFlight = 0
         /\ LoadedEntry(m, kept).open
         /\ LoadedEntry(m, kept).state = "warming"
<1>1. CASE m.desired = "none"
  BY <1>1, FreshFacts DEF LoadedEntry, States
<1>2. CASE m.desired # "none"
  <2>1. m.desired \in Serving /\ m.generation + 1 \in Nat
    BY <1>2 DEF ManifestType
  <2>2. /\ m.failures \in 0 .. MaxConsecutiveFailures
        /\ m.attempts \in 0 .. MaxRecoveryAttempts
        /\ m.remaining \in Nat
    BY DEF ManifestType
  <2>3. LoadedEntry(m, kept) =
          [state |-> "warming", inFlight |-> 0, samples |-> kept,
           failures |-> m.failures, attempts |-> m.attempts,
           remaining |-> m.remaining, generation |-> m.generation + 1,
           recovery |-> m.desired, open |-> TRUE]
    BY <1>2 DEF LoadedEntry, FreshEntry
  <2>4. QED BY <2>1, <2>2, <2>3 DEF EntryType, States
<1>3. QED BY <1>1, <1>2

\* The end of a cooldown changes neither leases nor the resource, and retires
\* a profile only if it is idle, drains it only if it is not.
LEMMA ReconciledFacts ==
  ASSUME NEW e \in EntryType
  PROVE  /\ Reconciled(e) \in EntryType
         /\ Reconciled(e).inFlight = e.inFlight
         /\ Reconciled(e).open = e.open
         /\ Reconciled(e).generation = e.generation
         /\ Reconciled(e).state \in {e.state, "probation", "retired", "draining"}
         /\ Reconciled(e).state = "retired" => e.state = "retired" \/ e.inFlight = 0
         /\ Reconciled(e).state = "draining" => e.state = "draining" \/ e.inFlight > 0
         /\ e.state = "retired" => Reconciled(e).state = "retired"
<1>1. CASE ~(e.state \in {"quarantined", "degraded"} /\ e.remaining = 0)
  BY <1>1 DEF Reconciled
<1>2. CASE /\ e.state \in {"quarantined", "degraded"} /\ e.remaining = 0
           /\ e.attempts >= MaxRecoveryAttempts
  <2>1. Reconciled(e) = [e EXCEPT !.state = DrainState(e.inFlight)]
    BY <1>2 DEF Reconciled
  <2>2. QED BY <1>2, <2>1 DEF EntryType, States, DrainState
<1>3. CASE /\ e.state \in {"quarantined", "degraded"} /\ e.remaining = 0
           /\ ~(e.attempts >= MaxRecoveryAttempts)
  <2>1. e.attempts + 1 \in 0 .. MaxRecoveryAttempts
    BY <1>3, Thresholds DEF EntryType
  <2>2. Reconciled(e) = [[[e EXCEPT !.state = "probation"] EXCEPT !.attempts = e.attempts + 1]
                           EXCEPT !.failures = 0]
    BY <1>3 DEF Reconciled, EntryType
  <2>3. 0 \in 0 .. MaxConsecutiveFailures
    BY Thresholds
  <2>4. QED BY <1>3, <2>1, <2>2, <2>3 DEF EntryType, States
<1>4. QED BY <1>1, <1>2, <1>3

\* Returning a slot.
LEMMA ReturnedFacts ==
  ASSUME NEW e \in EntryType
  PROVE  /\ Returned(e) \in EntryType
         /\ e.inFlight > 0 => Returned(e).inFlight = e.inFlight - 1
         /\ Returned(e).open = e.open
         /\ Returned(e).generation = e.generation
         /\ Returned(e).attempts = e.attempts /\ Returned(e).samples = e.samples
         /\ Returned(e).state = e.state
BY DEF Returned, EntryType

\* Counting and judging a report changes neither leases nor the resource; it
\* never retires or drains a profile.
LEMMA JudgedFacts ==
  ASSUME NEW e \in EntryType, NEW result \in Results, NEW promote \in BOOLEAN
  PROVE  LET f == Judged(Counted(e, result), result, promote)
         IN  /\ f \in EntryType
             /\ f.inFlight = e.inFlight
             /\ f.open = e.open
             /\ f.generation = e.generation /\ f.attempts = e.attempts
             /\ f.state \in {e.state, "quarantined", "degraded", "trusted"}
<1> DEFINE n == Counted(e, result)
           kept == AtMost(e.samples + 1, MinSamples)
           fails == IF result = "success" THEN 0
                    ELSE AtMost(e.failures + 1, MaxConsecutiveFailures)
<1>1. n \in EntryType /\ n.inFlight = e.inFlight /\ n.open = e.open
      /\ n.generation = e.generation /\ n.attempts = e.attempts /\ n.state = e.state
  <2>0. e.samples + 1 \in Nat /\ e.failures + 1 \in Nat
    BY Thresholds DEF EntryType
  <2>1. kept \in 0 .. MinSamples
    BY <2>0, Thresholds, AtMostFacts
  <2>2. AtMost(e.failures + 1, MaxConsecutiveFailures) \in 0 .. MaxConsecutiveFailures
    BY <2>0, Thresholds, AtMostFacts
  <2>3. fails \in 0 .. MaxConsecutiveFailures
    BY <2>2, Thresholds
  <2>4. n = [[e EXCEPT !.samples = kept] EXCEPT !.failures = fails]
    BY DEF Counted, EntryType
  <2> HIDE DEF n, kept, fails
  <2>5. QED BY <2>1, <2>3, <2>4 DEF EntryType
<1> HIDE DEF n
<1> DEFINE f == Judged(n, result, promote)
<1>2. SUFFICES /\ f \in EntryType /\ f.inFlight = n.inFlight /\ f.open = n.open
               /\ f.generation = n.generation /\ f.attempts = n.attempts
               /\ f.state \in {n.state, "quarantined", "degraded", "trusted"}
  BY <1>1 DEF n
<1>3. CASE result = "banned"
  <2>1. f = [[n EXCEPT !.state = "quarantined"] EXCEPT !.remaining = QuarantineCooldown]
    BY <1>1, <1>3 DEF Judged, EntryType
  <2> HIDE DEF f
  <2>2. QED BY <1>1, <2>1, Thresholds DEF EntryType, States
<1>4. CASE result # "banned" /\ n.failures >= MaxConsecutiveFailures
  <2>1. f = [[n EXCEPT !.state = "degraded"] EXCEPT !.remaining = DegradedCooldown]
    BY <1>1, <1>4 DEF Judged, EntryType
  <2> HIDE DEF f
  <2>2. QED BY <1>1, <2>1, Thresholds DEF EntryType, States
<1>5. CASE result # "banned" /\ ~(n.failures >= MaxConsecutiveFailures)
  <2>1. f \in {n, [n EXCEPT !.state = "trusted"]}
    BY <1>5 DEF Judged
  <2> HIDE DEF f
  <2>2. QED BY <1>1, <2>1 DEF EntryType, States
<1>6. QED BY <1>3, <1>4, <1>5

\* What saveManifest writes of an entry is a manifest.
LEMMA ManifestFacts ==
  ASSUME NEW e \in EntryType
  PROVE  ManifestOf(e) \in ManifestType
BY DEF ManifestOf, EntryType, ManifestType, Serving

\* A selected profile serves and has a free slot.
LEMMA SelectedFacts ==
  ASSUME NEW es, NEW preferred \in Serving, NEW excluded,
         NEW p \in Selected(es, preferred, excluded)
  PROVE  /\ p \in Profiles
         /\ es[p].state \in Serving
         /\ es[p].inFlight < Capacity[p]
BY DEF Selected, SelectEntry, Candidates, Other, Serving

\* The profile the manager acts on next is one of those it still has to do.
LEMMA NextTodoFacts ==
  ASSUME todo \subseteq Profiles, todo # {}
  PROVE  NextTodo \in todo
<1> DEFINE less == {ss \in Nat \X Nat : ss[1] < ss[2]}
<1>1. todo \subseteq Nat
  BY ConstantsOK
<1>2. IsWellFoundedOn(less, Nat)
  BY NatLessThanWellFounded DEF OpToRel
<1>3. \E p \in todo : \A q \in todo : <<q, p>> \notin less
  BY <1>1, <1>2, WFMin
<1>4. PICK p \in todo : \A q \in todo : <<q, p>> \notin less
  BY <1>3
<1>5. ASSUME NEW q \in todo PROVE p <= q
  <2>1. p \in Nat /\ q \in Nat
    BY <1>1
  <2>2. <<q, p>> \in less <=> q < p
    BY <2>1
  <2>3. QED BY <1>4, <2>1, <2>2
<1>6. QED BY <1>5 DEF NextTodo

\* A wake-up only moves callers from one blocked place to another.
LEMMA WokenFacts ==
  ASSUME NEW pcs \in [Callers -> PcType]
  PROVE  /\ Woken(pcs) \in [Callers -> PcType]
         /\ \A c \in Callers :
              /\ Woken(pcs)[c] = "holding" <=> pcs[c] = "holding"
              /\ Woken(pcs)[c] = "idle" <=> pcs[c] = "idle"
              /\ Woken(pcs)[c] = "leaving" <=> pcs[c] \in {"leaving", "watching"}
              /\ Woken(pcs)[c] # "watching"
              /\ Woken(pcs)[c] = "trying" <=> pcs[c] = "trying"
BY DEF Woken, PcType

-----------------------------------------------------------------------------
(* Type correctness.                                                       *)

CallerTypes ==
  /\ pc \in [Callers -> PcType]
  /\ lease \in [Callers -> Profiles \cup {NoProfile}]

\* Saving one well-formed entry keeps the manifests well formed.
LEMMA SaveType ==
  ASSUME disk \in [Profiles -> ManifestType], NEW p \in Profiles,
         NEW e \in EntryType, NEW ok \in SaveOutcomes, SaveManifest(p, e, ok)
  PROVE  disk' \in [Profiles -> ManifestType] /\ manifestHealthy' \in BOOLEAN
BY ManifestFacts DEF SaveManifest, SaveOutcomes

\* The four variables an attempt touches stay well typed.
LEMMA TryAcquireType ==
  ASSUME TypeOK, NEW c \in Callers, NEW kind \in Kinds, NEW x,
         NEW granted \in PcType, NEW refused \in PcType,
         TryAcquire(c, kind, x, granted, refused)
  PROVE  /\ entry' \in [Profiles -> EntryType]
         /\ CallerTypes'
         /\ autoWaiters' \in Nat /\ explicitStreak' \in 0 .. ExplicitBurst
         /\ overtaken' \in Nat
         /\ UNCHANGED <<diskVars, phase, todo, restarts>>
<1> DEFINE es == [p \in Profiles |-> Reconciled(entry[p])]
<1>1. es \in [Profiles -> EntryType]
  BY ReconciledFacts DEF TypeOK
<1> HIDE DEF es
<1>2. CASE Refused(c, kind, refused)
  BY <1>2 DEF Refused, TypeOK, CallerTypes, fairVars, TryAcquire
<1>3. ASSUME NEW preferred \in Serving, NoSlot(c, kind, preferred, x, refused)
      PROVE  /\ entry' \in [Profiles -> EntryType]
             /\ CallerTypes' /\ UNCHANGED fairVars
  BY <1>1, <1>3 DEF NoSlot, es, TypeOK, CallerTypes
<1>4. ASSUME NEW preferred \in Serving, Reserved(c, kind, preferred, x, granted)
      PROVE  /\ entry' \in [Profiles -> EntryType]
             /\ CallerTypes'
             /\ autoWaiters' \in Nat /\ explicitStreak' \in 0 .. ExplicitBurst
             /\ overtaken' \in Nat
  <2>1. PICK p \in Selected(es, preferred, x) :
          /\ entry' = [es EXCEPT ![p].inFlight = @ + 1]
          /\ lease' = [lease EXCEPT ![c] = p]
    BY <1>4 DEF Reserved, es
  <2>2. p \in Profiles
    BY SelectedFacts
  <2>3. [es[p] EXCEPT !.inFlight = @ + 1] \in EntryType
    BY <1>1, <2>2 DEF EntryType
  <2>4. entry' \in [Profiles -> EntryType]
    BY <1>1, <2>1, <2>3
  <2>5. CallerTypes'
    BY <1>4, <2>1, <2>2 DEF Reserved, TypeOK, CallerTypes
  <2>6. explicitStreak + 1 \in Nat /\ ExplicitBurst \in Nat
    BY DEF TypeOK, ExplicitBurst
  <2>7. AtMost(explicitStreak + 1, ExplicitBurst) \in 0 .. ExplicitBurst
    BY <2>6, AtMostFacts
  <2>8. Charge(kind)
    BY <1>4 DEF Reserved
  <2>9. /\ autoWaiters' \in Nat /\ explicitStreak' \in 0 .. ExplicitBurst
        /\ overtaken' \in Nat
    BY <2>7, <2>8 DEF Charge, Kinds, TypeOK, ExplicitBurst
  <2>10. QED BY <2>4, <2>5, <2>9
<1>5. QED
  BY <1>2, <1>3, <1>4 DEF TryAcquire, TypeOK, fairVars, CallerTypes

-----------------------------------------------------------------------------
(***************************************************************************)
(* The inductive invariant.  TypeOK and the properties are not inductive   *)
(* by themselves: that a release gives back a slot that was counted needs  *)
(* the relation between program counters and leases (CallerShape), that    *)
(* the deferred decrement of autoWaiters stays in Nat needs the exact      *)
(* count, that a replacement finds its profile idle needs EntryShape, and  *)
(* that Close finds no replacement under way needs SnapshotShape.          *)
(***************************************************************************)

\* A caller holds a lease exactly when it is using it or, for a granted
\* AcquireAuto, is about to leave; only automatic callers are ever registered.
CallerShape ==
  \A c \in Callers :
    /\ pc[c] = "holding" => lease[c] # NoProfile
    /\ pc[c] \notin {"holding", "leaving"} => lease[c] = NoProfile
    /\ c \in Explicit => pc[c] \notin {"leaving", "watching"}
    /\ phase = "starting" => pc[c] = "idle"

\* Until the pool closes every profile has its resource; a warming or retired
\* one is idle, a draining one is not.
EntryShape ==
  phase # "closed" =>
    \A p \in Profiles :
      /\ entry[p].open
      /\ entry[p].state \in {"warming", "retired"} => entry[p].inFlight = 0
      /\ entry[p].state = "draining" => entry[p].inFlight > 0

\* The manager works only on an open pool, on profiles that are retired.
SnapshotShape ==
  /\ todo # {} => phase = "open"
  /\ SnapshotStillRetired

\* An explicit lease that overtakes a waiting automatic caller also lengthens
\* the streak the pool counts.
FairShape == overtaken <= explicitStreak

IInv ==
  /\ TypeOK /\ CallerShape /\ LeaseAccounting /\ EntryShape
  /\ SnapshotShape /\ AutoWaitersExact /\ FairShape

\* The registered automatic callers.
Registered == {c \in Automatic : pc[c] \notin {"idle", "holding"}}

\* The sets whose cardinalities the invariant speaks of are finite.
LEMMA CallersFinite ==
  /\ IsFiniteSet(Explicit) /\ IsFiniteSet(Automatic)
  /\ \A p : IsFiniteSet(HoldersOf(p))
  /\ IsFiniteSet(Registered)
<1>1. IsFiniteSet(Explicit) /\ IsFiniteSet(Automatic)
  BY ConstantsOK
<1>2. IsFiniteSet(Callers)
  BY <1>1, FS_Union DEF Callers
<1>3. \A p : HoldersOf(p) \in SUBSET Callers
  BY DEF HoldersOf
<1>4. Registered \in SUBSET Automatic
  BY DEF Registered
<1>5. QED BY <1>1, <1>2, <1>3, <1>4, FS_Subset

\* A caller that is on its way out is still counted.
LEMMA LeavingCounted ==
  ASSUME IInv, NEW c \in Callers, pc[c] = "leaving"
  PROVE  autoWaiters >= 1 /\ c \in Registered
<1>1. c \in Registered
  BY DEF IInv, CallerShape, Registered, Callers
<1>2. Cardinality(Registered) # 0 /\ Cardinality(Registered) \in Nat
  BY <1>1, CallersFinite, FS_EmptySet, FS_CardinalityType
<1>3. QED BY <1>1, <1>2 DEF IInv, AutoWaitersExact, Registered

\* A caller that holds a lease holds one on a profile whose counter shows it.
LEMMA HeldCounted ==
  ASSUME IInv, NEW c \in Callers, pc[c] = "holding"
  PROVE  lease[c] \in Profiles /\ entry[lease[c]].inFlight > 0
<1>1. lease[c] \in Profiles
  BY DEF IInv, TypeOK, CallerShape
<1>2. c \in HoldersOf(lease[c])
  BY DEF HoldersOf
<1>3. Cardinality(HoldersOf(lease[c])) # 0 /\ Cardinality(HoldersOf(lease[c])) \in Nat
  BY <1>2, CallersFinite, FS_EmptySet, FS_CardinalityType
<1>4. QED BY <1>1, <1>3 DEF IInv, LeaseAccounting

-----------------------------------------------------------------------------
\* Init gives every variable its type.
LEMMA TypeInit == Init => TypeOK
<1> SUFFICES ASSUME Init PROVE TypeOK
  OBVIOUS
<1>1. entry \in [Profiles -> EntryType]
  BY FreshFacts DEF Init, States
<1>2. NoManifest \in ManifestType
  BY Thresholds DEF NoManifest, ManifestType
<1>3. disk \in [Profiles -> ManifestType]
  BY <1>2 DEF Init
<1>4. QED
  BY <1>1, <1>3 DEF Init, TypeOK, PcType, ExplicitBurst

\* A release leaves every entry and manifest well formed.
LEMMA ReleaseType ==
  ASSUME IInv, NEW c \in Callers, NEW result \in Results, Release(c, result)
  PROVE  TypeOK'
<1> DEFINE p == lease[c]
           e == Returned(entry[p])
<1>1. p \in Profiles
  BY HeldCounted DEF Release
<1>2. e \in EntryType
  BY <1>1, ReturnedFacts DEF IInv, TypeOK
<1>3. [e EXCEPT !.state = "retired"] \in EntryType
  BY <1>2 DEF EntryType, States
<1>4. \A promote \in BOOLEAN : Judged(Counted(e, result), result, promote) \in EntryType
  BY <1>2, JudgedFacts
<1>5. /\ entry' \in [Profiles -> EntryType]
      /\ disk' \in [Profiles -> ManifestType] /\ manifestHealthy' \in BOOLEAN
  <2>1. CASE e.state = "draining" /\ e.inFlight = 0
    <3>1. entry' = [entry EXCEPT ![p] = [e EXCEPT !.state = "retired"]]
      BY <2>1 DEF Release
    <3>2. entry' \in [Profiles -> EntryType] /\ entry'[p] \in EntryType
      BY <1>1, <1>3, <3>1 DEF IInv, TypeOK
    <3>3. \E ok \in SaveOutcomes : SaveManifest(p, entry'[p], ok)
      BY <2>1 DEF Release
    <3>4. QED BY <1>1, <3>2, <3>3, SaveType DEF IInv, TypeOK
  <2>2. CASE ~(e.state = "draining" /\ e.inFlight = 0) /\ result = "parse_changed"
    BY <1>1, <1>2, <2>2 DEF Release, IInv, TypeOK, diskVars
  <2>3. CASE ~(e.state = "draining" /\ e.inFlight = 0) /\ result # "parse_changed"
    <3>1. PICK promote \in BOOLEAN :
            entry' = [entry EXCEPT ![p] = Judged(Counted(e, result), result, promote)]
      BY <2>3 DEF Release
    <3>2. entry' \in [Profiles -> EntryType] /\ entry'[p] \in EntryType
      BY <1>1, <1>4, <3>1 DEF IInv, TypeOK
    <3>3. \E ok \in SaveOutcomes : SaveManifest(p, entry'[p], ok)
      BY <2>3 DEF Release
    <3>4. QED BY <1>1, <3>2, <3>3, SaveType DEF IInv, TypeOK
  <2>4. QED BY <2>1, <2>2, <2>3
<1>6. /\ [pc EXCEPT ![c] = "idle"] \in [Callers -> PcType]
      /\ lease' \in [Callers -> Profiles \cup {NoProfile}]
  BY DEF Release, IInv, TypeOK, PcType
<1>7. pc' \in [Callers -> PcType]
  BY <1>6, WokenFacts DEF Release
<1>8. QED BY <1>5, <1>6, <1>7 DEF Release, IInv, TypeOK, fairVars

\* Every step keeps every variable in its type.
LEMMA TypeStep == IInv /\ [Next]_vars => TypeOK'
<1> SUFFICES ASSUME IInv, [Next]_vars PROVE TypeOK'
  OBVIOUS
<1> USE DEF callerVars, fairVars, diskVars
<1>0. TypeOK
  BY DEF IInv
<1>1. ASSUME NEW c \in Callers, TryOnce(c) PROVE TypeOK'
  <2>1. \E kind \in Kinds : \E x : TryAcquire(c, kind, x, "holding", "idle")
    BY <1>1 DEF TryOnce, Kinds
  <2>2. QED BY <1>0, <2>1, TryAcquireType DEF TypeOK, CallerTypes, PcType
<1>2. ASSUME NEW c \in Callers, Attempt(c) PROVE TypeOK'
  <2>1. \E kind \in Kinds : \/ TryAcquire(c, kind, NoProfile, "holding", "fetching")
                            \/ TryAcquire(c, kind, NoProfile, "leaving", "fetching")
    BY <1>2 DEF Attempt, Kinds
  <2>2. QED BY <1>0, <2>1, TryAcquireType DEF TypeOK, CallerTypes, PcType
<1>3. ASSUME NEW c \in Callers, \/ StartAcquire(c) \/ StartAcquireAuto(c)
                               \/ StartWaitAvailable(c) \/ Fetch(c) \/ Resume(c)
                               \/ GiveUp(c)
      PROVE TypeOK'
  BY <1>0, <1>3 DEF StartAcquire, StartAcquireAuto, StartWaitAvailable, Fetch, Resume,
              GiveUp, TypeOK, PcType
<1>4. ASSUME NEW c \in Callers, Leave(c) PROVE TypeOK'
  BY <1>0, <1>4, LeavingCounted DEF Leave, TypeOK, PcType
<1>5. ASSUME NEW c \in Callers, NEW result \in Results, Release(c, result) PROVE TypeOK'
  BY <1>5, ReleaseType
<1>6. ASSUME NEW p \in Profiles, Drain(p) PROVE TypeOK'
  <2>1. /\ [entry[p] EXCEPT !.state = DrainState(entry[p].inFlight)] \in EntryType
        /\ entry' = [entry EXCEPT ![p] = [entry[p] EXCEPT !.state = DrainState(entry[p].inFlight)]]
    BY <1>0, <1>6 DEF Drain, TypeOK, EntryType, DrainState, States
  <2>2. entry' \in [Profiles -> EntryType] /\ entry'[p] \in EntryType
    BY <1>0, <2>1 DEF TypeOK
  <2>3. PICK ok \in SaveOutcomes : SaveManifest(p, entry'[p], ok) /\ pc' = IF ok THEN Woken(pc) ELSE pc
    BY <1>6 DEF Drain
  <2>4. disk' \in [Profiles -> ManifestType] /\ manifestHealthy' \in BOOLEAN
    BY <1>0, <2>2, <2>3, SaveType DEF TypeOK
  <2>5. pc' \in [Callers -> PcType]
    BY <1>0, <2>3, WokenFacts DEF TypeOK
  <2>6. QED BY <1>0, <1>6, <2>2, <2>4, <2>5 DEF Drain, TypeOK
<1>7. ASSUME Tick PROVE TypeOK'
  <2>1. \A p \in Profiles : [entry[p] EXCEPT !.remaining = IF @ > 0 THEN @ - 1 ELSE 0] \in EntryType
    BY <1>0 DEF TypeOK, EntryType
  <2>2. \A p \in Profiles : [disk[p] EXCEPT !.remaining = IF @ > 0 THEN @ - 1 ELSE 0] \in ManifestType
    BY <1>0 DEF TypeOK, ManifestType
  <2>3. QED BY <1>0, <1>7, <2>1, <2>2 DEF Tick, TypeOK
<1>8. CASE StartReconcile \/ RecreateFails
  BY <1>0, <1>8 DEF StartReconcile, RecreateFails, TypeOK
<1>9. ASSUME ReplaceRetired PROVE TypeOK'
  <2> DEFINE p == NextTodo
             e == [FreshEntry("probation", entry[p].generation + 1) EXCEPT !.remaining = entry[p].remaining]
  <2>1. CASE entry[p].state # "retired"
    BY <1>0, <1>9, <2>1 DEF ReplaceRetired, TypeOK
  <2>2. CASE entry[p].state = "retired"
    <3>1. p \in Profiles
      BY <1>0, <1>9, NextTodoFacts DEF ReplaceRetired, TypeOK
    <3>2. /\ entry[p].generation + 1 \in Nat /\ entry[p].remaining \in Nat
          /\ "probation" \in States
      BY <1>0, <3>1 DEF TypeOK, EntryType, States
    <3>3a. FreshEntry("probation", entry[p].generation + 1) \in EntryType
      BY <3>2, FreshFacts
    <3>3. e \in EntryType
      BY <3>2, <3>3a DEF EntryType
    <3>4. entry' = [entry EXCEPT ![p] = e]
      BY <1>9, <2>2 DEF ReplaceRetired
    <3>5. entry' \in [Profiles -> EntryType] /\ entry'[p] \in EntryType
      BY <1>0, <3>1, <3>3, <3>4 DEF TypeOK
    <3>6. PICK ok \in SaveOutcomes : /\ SaveManifest(p, entry'[p], ok)
                                     /\ pc' = IF ok THEN Woken(pc) ELSE pc
                                     /\ todo' = IF ok THEN todo \ {p} ELSE {}
      BY <1>9, <2>2 DEF ReplaceRetired
    <3>7. disk' \in [Profiles -> ManifestType] /\ manifestHealthy' \in BOOLEAN
      BY <1>0, <3>1, <3>5, <3>6, SaveType DEF TypeOK
    <3>8. pc' \in [Callers -> PcType] /\ todo' \subseteq Profiles
      BY <1>0, <3>6, WokenFacts DEF TypeOK
    <3>9. QED BY <1>0, <1>9, <3>5, <3>7, <3>8 DEF ReplaceRetired, TypeOK
  <2>3. QED BY <2>1, <2>2
<1>10. ASSUME Activate PROVE TypeOK'
  <2>1. \A p \in Profiles : /\ Activated(p) \in EntryType
                            /\ [entry[p] EXCEPT !.state = "retired", !.open = FALSE] \in EntryType
    BY <1>0 DEF Activated, TypeOK, EntryType, States, Serving
  <2>2. \A ps \in SUBSET Profiles : SaveActivated(ps) => disk' \in [Profiles -> ManifestType]
    BY <1>0, <2>1, ManifestFacts DEF SaveActivated, TypeOK
  <2>3. disk' \in [Profiles -> ManifestType]
    BY <1>10, <2>2 DEF Activate
  <2>4. entry' \in [Profiles -> EntryType]
    BY <1>10, <2>1 DEF Activate
  <2>5. QED BY <1>0, <1>10, <2>3, <2>4 DEF Activate, TypeOK
<1>11. ASSUME Close PROVE TypeOK'
  <2>1. \A p \in Profiles : [entry[p] EXCEPT !.state = "retired", !.open = FALSE] \in EntryType
    BY <1>0 DEF TypeOK, EntryType, States
  <2>2. pc' \in [Callers -> PcType]
    BY <1>0, <1>11, WokenFacts DEF Close, TypeOK
  <2>3. QED BY <1>0, <1>11, <2>1, <2>2 DEF Close, TypeOK
<1>12. ASSUME Restart PROVE TypeOK'
  <2>1. PICK kept \in [Profiles -> 0 .. MinSamples] :
          entry' = [p \in Profiles |-> LoadedEntry(disk[p], kept[p])]
    BY <1>12 DEF Restart
  <2>2. entry' \in [Profiles -> EntryType]
    BY <1>0, <2>1, LoadedFacts DEF TypeOK
  <2>3. QED BY <1>0, <1>12, <2>2 DEF Restart, TypeOK, PcType, ExplicitBurst
<1>13. CASE UNCHANGED vars
  BY <1>0, <1>13 DEF vars, TypeOK
<1>14. QED
  BY <1>1, <1>2, <1>3, <1>4, <1>5, <1>6, <1>7, <1>8, <1>9, <1>10, <1>11, <1>12, <1>13
     DEF Next, CallerStep

-----------------------------------------------------------------------------
(* Counting leases and waiters.                                            *)

\* A granted lease adds one holder to its profile and to no other.
LEMMA GrantCount ==
  ASSUME CallerTypes, NEW c \in Callers, lease[c] = NoProfile,
         NEW p \in Profiles, lease' = [lease EXCEPT ![c] = p]
  PROVE  /\ Cardinality(HoldersOf(p)') = Cardinality(HoldersOf(p)) + 1
         /\ \A q \in Profiles \ {p} : HoldersOf(q)' = HoldersOf(q)
<1>1. NoProfile \notin Profiles
  BY ConstantsOK
<1>2. c \notin HoldersOf(p) /\ HoldersOf(p)' = HoldersOf(p) \cup {c}
  BY <1>1 DEF HoldersOf, CallerTypes
<1>3. \A q \in Profiles \ {p} : HoldersOf(q)' = HoldersOf(q)
  BY <1>1 DEF HoldersOf, CallerTypes
<1>4. QED BY <1>2, <1>3, CallersFinite, FS_AddElement

\* A returned lease takes one holder from its profile and from no other.
LEMMA ReturnCount ==
  ASSUME CallerTypes, NEW c \in Callers, NEW p \in Profiles, lease[c] = p,
         lease' = [lease EXCEPT ![c] = NoProfile]
  PROVE  /\ Cardinality(HoldersOf(p)') = Cardinality(HoldersOf(p)) - 1
         /\ \A q \in Profiles \ {p} : HoldersOf(q)' = HoldersOf(q)
<1>1. NoProfile \notin Profiles
  BY ConstantsOK
<1>2. c \in HoldersOf(p) /\ HoldersOf(p)' = HoldersOf(p) \ {c}
  BY <1>1 DEF HoldersOf, CallerTypes
<1>3. \A q \in Profiles \ {p} : HoldersOf(q)' = HoldersOf(q)
  BY <1>1 DEF HoldersOf, CallerTypes
<1>4. QED BY <1>2, <1>3, CallersFinite, FS_RemoveElement

\* The count stays exact when nobody registers or leaves ...
LEMMA NobodyRegisters ==
  ASSUME IInv, UNCHANGED autoWaiters,
         \A a \in Automatic : pc'[a] \in {"idle", "holding"} <=> pc[a] \in {"idle", "holding"}
  PROVE  AutoWaitersExact'
<1>1. Registered' = Registered
  BY DEF Registered
<1>2. QED BY <1>1 DEF IInv, AutoWaitersExact, Registered

\* ... when an automatic caller registers ...
LEMMA OneRegisters ==
  ASSUME IInv, NEW c \in Automatic, pc[c] = "idle",
         NEW next \in {"trying", "watching"}, pc' = [pc EXCEPT ![c] = next],
         autoWaiters' = autoWaiters + 1
  PROVE  AutoWaitersExact'
<1>1. c \notin Registered /\ Registered' = Registered \cup {c}
  BY DEF Registered, IInv, TypeOK, Callers
<1>2. Cardinality(Registered') = Cardinality(Registered) + 1
  BY <1>1, CallersFinite, FS_AddElement
<1>3. QED BY <1>2 DEF IInv, AutoWaitersExact, Registered

\* ... and when one leaves.
LEMMA OneLeaves ==
  ASSUME IInv, NEW c \in Callers, pc[c] = "leaving",
         NEW next \in {"idle", "holding"}, pc' = [pc EXCEPT ![c] = next],
         autoWaiters' = autoWaiters - 1
  PROVE  AutoWaitersExact'
<1>1. c \in Registered /\ Registered' = Registered \ {c}
  BY LeavingCounted DEF Registered, IInv, TypeOK, Callers
<1>2. Cardinality(Registered') = Cardinality(Registered) - 1
  BY <1>1, CallersFinite, FS_RemoveElement
<1>3. QED BY <1>2 DEF IInv, AutoWaitersExact, Registered

-----------------------------------------------------------------------------
(* What an attempt to take a lease does.                                   *)

\* The parts of the invariant that the whole of tryAcquire could disturb.
LEMMA TryAcquireEffect ==
  ASSUME IInv, phase # "starting",
         NEW c \in Callers, lease[c] = NoProfile, NEW kind \in Kinds, NEW x,
         NEW granted, NEW refused, TryAcquire(c, kind, x, granted, refused)
  PROVE  /\ LeaseAccounting' /\ EntryShape' /\ SnapshotShape' /\ FairShape'
         /\ UNCHANGED <<autoWaiters, phase>>
         /\ \A q \in Profiles : entry'[q].generation = entry[q].generation
         /\ \/ pc' = [pc EXCEPT ![c] = refused] /\ UNCHANGED lease
            \/ /\ pc' = [pc EXCEPT ![c] = granted]
               /\ phase = "open"
               /\ \E p \in Profiles :
                    /\ lease' = [lease EXCEPT ![c] = p]
                    /\ Cardinality(HoldersOf(p)) < Capacity[p]
<1> DEFINE es == [p \in Profiles |-> Reconciled(entry[p])]
<1>0. TypeOK /\ CallerTypes /\ UNCHANGED <<diskVars, phase, todo, restarts>>
  BY DEF IInv, TypeOK, CallerTypes, TryAcquire
<1>1. \A q \in Profiles :
        /\ entry[q] \in EntryType
        /\ es[q] \in EntryType
        /\ es[q].inFlight = entry[q].inFlight
        /\ es[q].open = entry[q].open
        /\ es[q].generation = entry[q].generation
        /\ es[q].state = "warming" => entry[q].state = "warming"
        /\ es[q].state = "retired" => entry[q].state = "retired" \/ entry[q].inFlight = 0
        /\ es[q].state = "draining" => entry[q].state = "draining" \/ entry[q].inFlight > 0
        /\ entry[q].state = "retired" => es[q].state = "retired"
  BY <1>0, ReconciledFacts DEF TypeOK
<1>1a. es \in [Profiles -> EntryType]
  BY <1>1
<1> HIDE DEF es
<1>2. CASE Refused(c, kind, refused)
  BY <1>0, <1>2 DEF Refused, fairVars, IInv, LeaseAccounting, HoldersOf, EntryShape,
     SnapshotShape, SnapshotStillRetired, FairShape
<1>3. ASSUME NEW preferred \in Serving, NoSlot(c, kind, preferred, x, refused)
      PROVE  /\ LeaseAccounting' /\ EntryShape' /\ SnapshotShape' /\ FairShape'
             /\ UNCHANGED <<autoWaiters, phase>>
             /\ \A q \in Profiles : entry'[q].generation = entry[q].generation
             /\ pc' = [pc EXCEPT ![c] = refused] /\ UNCHANGED lease
  <2>1. /\ entry' = es /\ UNCHANGED <<lease, autoWaiters, explicitStreak, overtaken>>
        /\ pc' = [pc EXCEPT ![c] = refused]
    BY <1>3 DEF NoSlot, es, fairVars
  <2>2. LeaseAccounting'
    BY <1>1, <2>1 DEF IInv, LeaseAccounting, HoldersOf
  <2>3. EntryShape'
    BY <1>0, <1>1, <2>1 DEF IInv, EntryShape
  <2>4. SnapshotShape'
    BY <1>0, <1>1, <2>1 DEF IInv, TypeOK, SnapshotShape, SnapshotStillRetired
  <2>5. QED BY <1>0, <1>1, <2>1, <2>2, <2>3, <2>4 DEF IInv, FairShape
<1>4. ASSUME NEW preferred \in Serving, Reserved(c, kind, preferred, x, granted)
      PROVE  /\ LeaseAccounting' /\ EntryShape' /\ SnapshotShape' /\ FairShape'
             /\ UNCHANGED <<autoWaiters, phase>>
             /\ \A q \in Profiles : entry'[q].generation = entry[q].generation
             /\ pc' = [pc EXCEPT ![c] = granted]
             /\ phase = "open"
             /\ \E p \in Profiles : /\ lease' = [lease EXCEPT ![c] = p]
                                    /\ Cardinality(HoldersOf(p)) < Capacity[p]
  <2>1. PICK p \in Selected(es, preferred, x) :
          /\ entry' = [es EXCEPT ![p].inFlight = @ + 1]
          /\ lease' = [lease EXCEPT ![c] = p]
    BY <1>4 DEF Reserved, es
  <2>2. /\ p \in Profiles /\ es[p].state \in Serving
        /\ es[p].inFlight < Capacity[p]
    BY SelectedFacts
  <2>3. /\ Cardinality(HoldersOf(p)') = Cardinality(HoldersOf(p)) + 1
        /\ \A q \in Profiles \ {p} : HoldersOf(q)' = HoldersOf(q)
    BY <1>0, <2>1, <2>2, GrantCount
  <2>4. /\ entry'[p].inFlight = es[p].inFlight + 1
        /\ entry'[p].state = es[p].state /\ entry'[p].open = es[p].open
        /\ entry'[p].generation = es[p].generation
        /\ \A q \in Profiles \ {p} : entry'[q] = es[q]
    BY <1>1, <1>1a, <2>1, <2>2 DEF EntryType
  <2>5. Capacity[p] \in Nat
    BY <2>2, ConstantsOK
  <2>6. LeaseAccounting'
    <3>1. ASSUME NEW q \in Profiles, q # p
          PROVE  /\ entry'[q].inFlight = Cardinality(HoldersOf(q)')
                 /\ entry'[q].inFlight <= Capacity[q]
      BY <1>1, <2>3, <2>4, <3>1 DEF IInv, LeaseAccounting
    <3>2. /\ entry'[p].inFlight = Cardinality(HoldersOf(p)')
          /\ entry'[p].inFlight <= Capacity[p]
      BY <1>1, <2>2, <2>3, <2>4, <2>5 DEF IInv, LeaseAccounting, EntryType
    <3>3. QED BY <3>1, <3>2 DEF LeaseAccounting
  <2>7. EntryShape'
    BY <1>0, <1>1, <2>2, <2>4 DEF IInv, EntryShape, Serving
  <2>8. SnapshotShape'
    BY <1>0, <1>1, <2>2, <2>4 DEF IInv, TypeOK, SnapshotShape, SnapshotStillRetired, Serving
  <2>9. FairShape'
    BY <1>0, <1>4 DEF Reserved, Charge, Admitted, Kinds, AtMost, ExplicitBurst, IInv, TypeOK,
       FairShape
  <2>10. phase = "open"
    BY <1>0, <1>4 DEF Reserved, Admitted, TypeOK
  <2>11. Cardinality(HoldersOf(p)) < Capacity[p]
    BY <1>1, <2>2 DEF IInv, LeaseAccounting
  <2>12. pc' = [pc EXCEPT ![c] = granted] /\ UNCHANGED autoWaiters
    BY <1>4 DEF Reserved, Charge
  <2>13. QED
    BY <1>0, <1>1, <2>1, <2>2, <2>4, <2>6, <2>7, <2>8, <2>9, <2>10, <2>11, <2>12
<1>5. QED BY <1>2, <1>3, <1>4, <1>0 DEF TryAcquire, Refused, fairVars

-----------------------------------------------------------------------------
(* The parts of the invariant beyond TypeOK, action by action.             *)

Rest ==
  /\ CallerShape /\ LeaseAccounting /\ EntryShape
  /\ SnapshotShape /\ AutoWaitersExact /\ FairShape

\* The attempts that do not wait: a grant is a lease, a refusal is nothing.
LEMMA TryOnceStep ==
  ASSUME IInv, NEW c \in Callers, TryOnce(c)
  PROVE  Rest'
<1>1. phase # "starting" /\ c \in Automatic /\ pc[c] = "idle" /\ lease[c] = NoProfile
  BY DEF TryOnce, IInv, CallerShape
<1>2. \E kind \in Kinds : \E x : TryAcquire(c, kind, x, "holding", "idle")
  BY DEF TryOnce, Kinds
<1>3. /\ LeaseAccounting' /\ EntryShape' /\ SnapshotShape' /\ FairShape'
      /\ UNCHANGED <<autoWaiters, phase>>
      /\ \/ pc' = [pc EXCEPT ![c] = "idle"] /\ UNCHANGED lease
         \/ /\ pc' = [pc EXCEPT ![c] = "holding"]
            /\ \E p \in Profiles : lease' = [lease EXCEPT ![c] = p]
  BY <1>1, <1>2, TryAcquireEffect
<1>4. CallerShape'
  BY <1>1, <1>3, ConstantsOK DEF IInv, TypeOK, CallerShape, Callers
<1>5. AutoWaitersExact'
  BY <1>1, <1>3, NobodyRegisters DEF IInv, TypeOK, Callers
<1>6. QED BY <1>3, <1>4, <1>5 DEF Rest

\* One round of Acquire's and AcquireAuto's loop.
LEMMA AttemptStep ==
  ASSUME IInv, NEW c \in Callers, Attempt(c)
  PROVE  Rest'
<1>1. phase # "starting" /\ pc[c] = "trying" /\ lease[c] = NoProfile
  BY DEF Attempt, IInv, CallerShape
<1>2. PICK granted \in {"holding", "leaving"} :
        /\ c \in Explicit => granted = "holding"
        /\ c \in Automatic => granted = "leaving"
        /\ \E kind \in Kinds : TryAcquire(c, kind, NoProfile, granted, "fetching")
  BY ConstantsOK DEF Attempt, Kinds
<1>3. /\ LeaseAccounting' /\ EntryShape' /\ SnapshotShape' /\ FairShape'
      /\ UNCHANGED <<autoWaiters, phase>>
      /\ \/ pc' = [pc EXCEPT ![c] = "fetching"] /\ UNCHANGED lease
         \/ /\ pc' = [pc EXCEPT ![c] = granted]
            /\ \E p \in Profiles : lease' = [lease EXCEPT ![c] = p]
  BY <1>1, <1>2, TryAcquireEffect
<1>4. CallerShape'
  BY <1>1, <1>2, <1>3, ConstantsOK DEF IInv, TypeOK, CallerShape, Callers
<1>5. AutoWaitersExact'
  BY <1>1, <1>2, <1>3, NobodyRegisters DEF IInv, TypeOK, Callers
<1>6. QED BY <1>3, <1>4, <1>5 DEF Rest

\* The steps that only move a caller, and the registrations.
LEMMA WaitingStep ==
  ASSUME IInv, NEW c \in Callers,
         \/ StartAcquire(c) \/ StartAcquireAuto(c) \/ StartWaitAvailable(c)
         \/ Fetch(c) \/ Resume(c) \/ GiveUp(c) \/ Leave(c)
  PROVE  Rest'
<1> USE DEF StartAcquire, StartAcquireAuto, StartWaitAvailable, Fetch, Resume, GiveUp, Leave
<1>1. UNCHANGED <<entry, phase, lease, todo, explicitStreak>>
  BY DEF fairVars
<1>2. LeaseAccounting' /\ EntryShape' /\ SnapshotShape'
  BY <1>1 DEF IInv, LeaseAccounting, HoldersOf, EntryShape, SnapshotShape,
     SnapshotStillRetired
<1>3. FairShape'
  <2>1. overtaken' \in {0, overtaken}
    BY DEF fairVars
  <2>2. QED BY <1>1, <2>1 DEF IInv, TypeOK, FairShape
<1>4. CallerShape'
  BY ConstantsOK DEF IInv, TypeOK, CallerShape, Callers
<1>5. AutoWaitersExact'
  <2>1. CASE StartAcquire(c) \/ Fetch(c) \/ Resume(c) \/ GiveUp(c)
    BY <2>1, NobodyRegisters, ConstantsOK DEF IInv, TypeOK, Callers, fairVars
  <2>2. CASE StartAcquireAuto(c) \/ StartWaitAvailable(c)
    BY <2>2, OneRegisters
  <2>3. CASE Leave(c)
    BY <2>3, OneLeaves
  <2>4. QED BY <2>1, <2>2, <2>3
<1>6. QED BY <1>2, <1>3, <1>4, <1>5 DEF Rest

\* A wake-up by itself keeps the callers' shape and the count of waiters.
LEMMA WokenStep ==
  ASSUME IInv, NEW pcs \in [Callers -> PcType], pc' = Woken(pcs) \/ pc' = pcs,
         lease' \in [Callers -> Profiles \cup {NoProfile}],
         \A c \in Callers :
           /\ pcs[c] = pc[c] \/ (pc[c] = "holding" /\ pcs[c] = "idle" /\ lease'[c] = NoProfile)
           /\ pcs[c] = pc[c] => lease'[c] = lease[c],
         UNCHANGED autoWaiters, phase # "starting", phase' # "starting"
  PROVE  CallerShape' /\ AutoWaitersExact'
<1>1. pc' \in [Callers -> PcType] /\
      \A c \in Callers :
        /\ pc'[c] = "holding" <=> pcs[c] = "holding"
        /\ pc'[c] = "idle" <=> pcs[c] = "idle"
        /\ pc'[c] = "leaving" => pcs[c] \in {"leaving", "watching"}
        /\ pc'[c] = "watching" => pcs[c] = "watching"
        /\ pcs[c] = "leaving" => pc'[c] = "leaving"
  BY WokenFacts
<1>2. CallerShape'
  BY <1>1 DEF IInv, CallerShape
<1>3. AutoWaitersExact'
  BY <1>1, NobodyRegisters DEF Callers
<1>4. QED BY <1>2, <1>3

\* A release takes one holder and one slot from one profile, and retires a
\* draining profile exactly when the last of them is back.
LEMMA ReleaseStep ==
  ASSUME IInv, NEW c \in Callers, NEW result \in Results, Release(c, result)
  PROVE  /\ Rest'
         /\ \A q \in Profiles : entry'[q].generation = entry[q].generation
<1>0. PICK p \in Profiles : p = lease[c]
  BY HeldCounted DEF Release
<1> DEFINE e == Returned(entry[p])
           f == entry'[p]
<1>1. /\ p \in Profiles /\ entry[p].inFlight > 0 /\ entry[p] \in EntryType
      /\ pc[c] = "holding" /\ phase # "starting"
  BY <1>0, HeldCounted DEF Release, IInv, TypeOK, CallerShape
<1>2. /\ e \in EntryType /\ e.inFlight = entry[p].inFlight - 1
      /\ e.open = entry[p].open /\ e.state = entry[p].state
      /\ e.generation = entry[p].generation
  BY <1>1, ReturnedFacts
<1>3. /\ f.inFlight = e.inFlight /\ f.open = e.open /\ f.generation = e.generation
      /\ f.state = "draining" => e.state = "draining" /\ e.inFlight # 0
      /\ f.state \in {"warming", "retired"} => e.state = f.state \/ e.inFlight = 0
      /\ \A q \in Profiles \ {p} : entry'[q] = entry[q]
  <2>1. CASE e.state = "draining" /\ e.inFlight = 0
    <3>1. entry' = [entry EXCEPT ![p] = [e EXCEPT !.state = "retired"]]
      BY <1>0, <2>1 DEF Release
    <3>2. QED BY <1>1, <1>2, <2>1, <3>1 DEF IInv, TypeOK, EntryType
  <2>2. CASE ~(e.state = "draining" /\ e.inFlight = 0) /\ result = "parse_changed"
    <3>1. entry' = [entry EXCEPT ![p] = e]
      BY <1>0, <2>2 DEF Release
    <3>2. QED BY <1>1, <1>2, <2>2, <3>1 DEF IInv, TypeOK
  <2>3. CASE ~(e.state = "draining" /\ e.inFlight = 0) /\ result # "parse_changed"
    <3>1. PICK promote \in BOOLEAN :
            entry' = [entry EXCEPT ![p] = Judged(Counted(e, result), result, promote)]
      BY <1>0, <2>3 DEF Release
    <3>2. /\ f.inFlight = e.inFlight /\ f.open = e.open /\ f.generation = e.generation
          /\ f.state \in {e.state, "quarantined", "degraded", "trusted"}
      BY <1>1, <1>2, <3>1, JudgedFacts DEF IInv, TypeOK
    <3>3. \A q \in Profiles \ {p} : entry'[q] = entry[q]
      BY <3>1 DEF IInv, TypeOK
    <3>4. QED BY <2>3, <3>2, <3>3
  <2>4. QED BY <2>1, <2>2, <2>3
<1>4. /\ lease' = [lease EXCEPT ![c] = NoProfile]
      /\ pc' = Woken([pc EXCEPT ![c] = "idle"])
      /\ UNCHANGED <<phase, autoWaiters, explicitStreak, overtaken, todo>>
  BY DEF Release, fairVars
<1>5. /\ Cardinality(HoldersOf(p)') = Cardinality(HoldersOf(p)) - 1
      /\ \A q \in Profiles \ {p} : HoldersOf(q)' = HoldersOf(q)
  BY <1>0, <1>4, ReturnCount DEF IInv, TypeOK, CallerTypes
<1> HIDE DEF e, f
<1>6. LeaseAccounting'
  <2>1. ASSUME NEW q \in Profiles, q # p
        PROVE  /\ entry'[q].inFlight = Cardinality(HoldersOf(q)')
               /\ entry'[q].inFlight <= Capacity[q]
    BY <1>3, <1>5, <2>1 DEF IInv, LeaseAccounting
  <2>2. Capacity[p] \in Nat
    BY <1>1, ConstantsOK
  <2>3. /\ entry'[p].inFlight = Cardinality(HoldersOf(p)')
        /\ entry'[p].inFlight <= Capacity[p]
    BY <1>1, <1>2, <1>3, <1>5, <2>2 DEF IInv, LeaseAccounting, EntryType, f
  <2>4. QED BY <2>1, <2>3 DEF LeaseAccounting, HoldersOf
<1>7. EntryShape'
  BY <1>1, <1>2, <1>3, <1>4 DEF IInv, EntryShape, EntryType, f
<1>8. SnapshotShape'
  BY <1>1, <1>3, <1>4 DEF IInv, TypeOK, EntryShape, SnapshotShape, SnapshotStillRetired
<1>9. FairShape'
  BY <1>4 DEF IInv, FairShape
<1>10. CallerShape' /\ AutoWaitersExact'
  <2>1. [pc EXCEPT ![c] = "idle"] \in [Callers -> PcType]
    BY DEF IInv, TypeOK, PcType
  <2>2. QED BY <1>1, <1>4, <2>1, WokenStep DEF IInv, TypeOK
<1>11. \A q \in Profiles : entry'[q].generation = entry[q].generation
  BY <1>2, <1>3 DEF f
<1>12. QED BY <1>6, <1>7, <1>8, <1>9, <1>10, <1>11 DEF Rest

\* Drain retires an idle profile and drains one that is leased.
LEMMA DrainStep ==
  ASSUME IInv, NEW p \in Profiles, Drain(p)
  PROVE  /\ Rest'
         /\ \A q \in Profiles : entry'[q].generation = entry[q].generation
<1>1. /\ phase = "open" /\ entry[p] \in EntryType
      /\ entry' = [entry EXCEPT ![p].state = DrainState(entry[p].inFlight)]
      /\ UNCHANGED <<phase, autoWaiters, explicitStreak, overtaken, lease, todo>>
      /\ pc' = Woken(pc) \/ pc' = pc
  BY DEF Drain, fairVars, IInv, TypeOK
<1>2. /\ entry'[p].inFlight = entry[p].inFlight /\ entry'[p].open = entry[p].open
      /\ entry'[p].generation = entry[p].generation
      /\ entry'[p].state = DrainState(entry[p].inFlight)
      /\ \A q \in Profiles \ {p} : entry'[q] = entry[q]
  BY <1>1 DEF IInv, TypeOK, EntryType
<1>3. LeaseAccounting'
  BY <1>1, <1>2 DEF IInv, LeaseAccounting, HoldersOf
<1>4. EntryShape'
  BY <1>1, <1>2 DEF IInv, EntryShape, DrainState, EntryType
<1>5. SnapshotShape'
  BY <1>1, <1>2 DEF IInv, TypeOK, SnapshotShape, SnapshotStillRetired, EntryShape, DrainState
<1>6. CallerShape' /\ AutoWaitersExact'
  BY <1>1, WokenStep DEF IInv, TypeOK
<1>7. FairShape'
  BY <1>1 DEF IInv, FairShape
<1>8. QED BY <1>2, <1>3, <1>4, <1>5, <1>6, <1>7 DEF Rest

\* Time changes nothing but the deadlines.
LEMMA TickStep ==
  ASSUME IInv, Tick
  PROVE  /\ Rest'
         /\ \A q \in Profiles : entry'[q].generation = entry[q].generation
<1>1. /\ UNCHANGED <<phase, autoWaiters, explicitStreak, overtaken, pc, lease, todo>>
      /\ \A q \in Profiles : /\ entry'[q].inFlight = entry[q].inFlight
                             /\ entry'[q].open = entry[q].open
                             /\ entry'[q].state = entry[q].state
                             /\ entry'[q].generation = entry[q].generation
  BY DEF Tick, fairVars, callerVars, IInv, TypeOK, EntryType
<1>2. LeaseAccounting' /\ EntryShape'
  BY <1>1 DEF IInv, LeaseAccounting, HoldersOf, EntryShape
<1>3. SnapshotShape'
  BY <1>1 DEF IInv, TypeOK, SnapshotShape, SnapshotStillRetired
<1>4. CallerShape' /\ AutoWaitersExact' /\ FairShape'
  BY <1>1, NobodyRegisters DEF IInv, CallerShape, FairShape
<1>5. QED BY <1>1, <1>2, <1>3, <1>4 DEF Rest

\* The manager's snapshot and its early return change only what it has to do.
LEMMA ReconcileStep ==
  ASSUME IInv, StartReconcile \/ RecreateFails
  PROVE  Rest'
<1>1. UNCHANGED <<entry, phase, autoWaiters, explicitStreak, overtaken, pc, lease>>
  BY DEF StartReconcile, RecreateFails, fairVars, callerVars
<1>2. LeaseAccounting' /\ EntryShape'
  BY <1>1 DEF IInv, LeaseAccounting, HoldersOf, EntryShape
<1>3. SnapshotShape'
  BY <1>1 DEF IInv, SnapshotShape, SnapshotStillRetired, StartReconcile, RecreateFails
<1>4. CallerShape' /\ AutoWaitersExact' /\ FairShape'
  BY <1>1, NobodyRegisters DEF IInv, CallerShape, FairShape
<1>5. QED BY <1>2, <1>3, <1>4 DEF Rest

\* A replacement finds its profile retired, hence idle, hence unleased.
LEMMA ReplaceStep ==
  ASSUME IInv, ReplaceRetired
  PROVE  /\ Rest'
         /\ \/ entry' = entry
            \/ \E p \in Profiles :
                 /\ HoldersOf(p) = {}
                 /\ entry'[p].generation = entry[p].generation + 1
                 /\ \A q \in Profiles \ {p} : entry'[q] = entry[q]
<1>1. PICK p \in todo : p = NextTodo
  BY NextTodoFacts DEF ReplaceRetired, IInv, TypeOK
<1>2. /\ p \in Profiles /\ entry[p] \in EntryType
      /\ phase = "open" /\ entry[p].state = "retired" /\ entry[p].inFlight = 0
  BY <1>1 DEF IInv, TypeOK, SnapshotShape, SnapshotStillRetired, EntryShape
<1> DEFINE g == entry[p].generation + 1
           fresh == FreshEntry("probation", g)
           e == [fresh EXCEPT !.remaining = entry[p].remaining]
<1>3. /\ entry' = [entry EXCEPT ![p] = e]
      /\ todo' = todo \ {p} \/ todo' = {}
      /\ pc' = Woken(pc) \/ pc' = pc
      /\ UNCHANGED <<phase, lease, autoWaiters, explicitStreak, overtaken>>
  BY <1>1, <1>2 DEF ReplaceRetired, fairVars
<1>4. /\ fresh \in EntryType /\ fresh.inFlight = 0 /\ fresh.open
      /\ fresh.state = "probation" /\ fresh.generation = g
  <2>1. g \in Nat /\ "probation" \in States
    BY <1>2 DEF EntryType, States
  <2>2. QED BY <2>1, FreshFacts
<1>5. e.inFlight = 0 /\ e.open /\ e.state = "probation" /\ e.generation = g
  BY <1>4 DEF EntryType
<1> HIDE DEF e, g
<1>6. entry'[p] = e /\ \A q \in Profiles \ {p} : entry'[q] = entry[q]
  BY <1>2, <1>3 DEF IInv, TypeOK
<1>7. LeaseAccounting'
  BY <1>2, <1>3, <1>5, <1>6 DEF IInv, LeaseAccounting, HoldersOf
<1>8. EntryShape'
  BY <1>2, <1>3, <1>5, <1>6 DEF IInv, EntryShape
<1>9. SnapshotShape'
  BY <1>2, <1>3, <1>6 DEF IInv, TypeOK, SnapshotShape, SnapshotStillRetired
<1>10. CallerShape' /\ AutoWaitersExact'
  BY <1>2, <1>3, WokenStep DEF IInv, TypeOK
<1>11. FairShape'
  BY <1>3 DEF IInv, FairShape
<1>12. HoldersOf(p) = {}
  BY <1>2, CallersFinite, FS_EmptySet DEF IInv, LeaseAccounting
<1>13. QED
  BY <1>2, <1>5, <1>6, <1>7, <1>8, <1>9, <1>10, <1>11, <1>12 DEF Rest, g

\* Activation makes the warming profiles serve, or closes the pool.
LEMMA ActivateStep ==
  ASSUME IInv, Activate
  PROVE  /\ Rest'
         /\ \A q \in Profiles : entry'[q].generation = entry[q].generation
<1>1. /\ phase = "starting" /\ phase' \in {"open", "closed"}
      /\ UNCHANGED <<autoWaiters, explicitStreak, overtaken, pc, lease, todo>>
      /\ \A q \in Profiles : entry[q] \in EntryType
  BY DEF Activate, fairVars, callerVars, IInv, TypeOK
<1>2. /\ \A q \in Profiles : /\ entry'[q].inFlight = entry[q].inFlight
                             /\ entry'[q].generation = entry[q].generation
      /\ phase' = "open" =>
           \A q \in Profiles :
             /\ entry'[q].open = entry[q].open
             /\ entry'[q].state = entry[q].state \/ entry'[q].state \in Serving
  BY <1>1 DEF Activate, Activated, EntryType
<1>3. LeaseAccounting'
  BY <1>1, <1>2 DEF IInv, LeaseAccounting, HoldersOf
<1>4. EntryShape'
  BY <1>1, <1>2 DEF IInv, EntryShape, Serving
<1>5. SnapshotShape'
  BY <1>1 DEF IInv, SnapshotShape, SnapshotStillRetired
<1>6. CallerShape' /\ AutoWaitersExact' /\ FairShape'
  BY <1>1, NobodyRegisters DEF IInv, CallerShape, FairShape
<1>7. QED BY <1>2, <1>3, <1>4, <1>5, <1>6 DEF Rest

\* Close retires every profile, leased or not; the counters still stand.
LEMMA CloseStep ==
  ASSUME IInv, Close
  PROVE  /\ Rest'
         /\ \A q \in Profiles : entry'[q].generation = entry[q].generation
<1>1. /\ phase = "open" /\ phase' = "closed" /\ todo = {}
      /\ UNCHANGED <<autoWaiters, explicitStreak, overtaken, lease, todo>>
      /\ pc' = Woken(pc)
      /\ \A q \in Profiles : entry[q] \in EntryType
  BY DEF Close, fairVars, IInv, TypeOK
<1>2. \A q \in Profiles : /\ entry'[q].inFlight = entry[q].inFlight
                          /\ entry'[q].generation = entry[q].generation
  BY <1>1 DEF Close, EntryType
<1>3. LeaseAccounting'
  BY <1>1, <1>2 DEF IInv, LeaseAccounting, HoldersOf
<1>4. EntryShape' /\ SnapshotShape' /\ FairShape'
  BY <1>1 DEF IInv, EntryShape, SnapshotShape, SnapshotStillRetired, FairShape
<1>5. CallerShape' /\ AutoWaitersExact'
  BY <1>1, WokenStep DEF IInv, TypeOK
<1>6. QED BY <1>2, <1>3, <1>4, <1>5 DEF Rest

\* A restart forgets the callers, their leases and their counters together.
LEMMA RestartStep ==
  ASSUME IInv, Restart
  PROVE  Rest'
<1>1. /\ lease' = [c \in Callers |-> NoProfile] /\ pc' = [c \in Callers |-> "idle"]
      /\ autoWaiters' = 0 /\ explicitStreak' = 0 /\ overtaken' = 0
      /\ todo' = {} /\ phase' = "starting"
  BY DEF Restart
<1>2. PICK kept \in [Profiles -> 0 .. MinSamples] :
        entry' = [p \in Profiles |-> LoadedEntry(disk[p], kept[p])]
  BY DEF Restart
<1>3. \A q \in Profiles : /\ entry'[q].inFlight = 0 /\ entry'[q].open
                          /\ entry'[q].state = "warming"
  BY <1>2, LoadedFacts DEF IInv, TypeOK
<1>4. /\ \A p \in Profiles : Cardinality(HoldersOf(p)') = 0
      /\ Cardinality(Registered') = 0
  <2>1. \A p \in Profiles : HoldersOf(p)' = {}
    BY <1>1, ConstantsOK DEF HoldersOf
  <2>2. Registered' = {}
    BY <1>1 DEF Registered, Callers
  <2>3. QED BY <2>1, <2>2, FS_EmptySet
<1>5. LeaseAccounting' /\ EntryShape' /\ AutoWaitersExact'
  <2>1. LeaseAccounting'
    <3>1. \A p \in Profiles : Capacity[p] \in Nat
      BY ConstantsOK
    <3>2. QED BY <1>3, <1>4, <3>1 DEF LeaseAccounting
  <2>2. EntryShape'
    BY <1>3 DEF EntryShape
  <2>3. AutoWaitersExact'
    BY <1>1, <1>4 DEF AutoWaitersExact, Registered
  <2>4. QED BY <2>1, <2>2, <2>3
<1>6. CallerShape' /\ SnapshotShape' /\ FairShape'
  BY <1>1 DEF CallerShape, SnapshotShape, SnapshotStillRetired, FairShape
<1>7. QED BY <1>5, <1>6 DEF Rest

-----------------------------------------------------------------------------
(* The theorems.                                                           *)

\* The invariant holds at the start ...
LEMMA InitIInv == Init => IInv
<1> SUFFICES ASSUME Init PROVE IInv
  OBVIOUS
<1>1. TypeOK
  BY TypeInit
<1>2. \A p \in Profiles : /\ entry[p].inFlight = 0 /\ entry[p].open
                          /\ entry[p].state # "draining"
  BY FreshFacts DEF Init, States
<1>3. (\A p \in Profiles : HoldersOf(p) = {}) /\ Registered = {}
  BY ConstantsOK DEF Init, HoldersOf, Registered, Callers
<1>4. LeaseAccounting /\ AutoWaitersExact
  BY <1>2, <1>3, FS_EmptySet, ConstantsOK DEF Init, LeaseAccounting, AutoWaitersExact, Registered
<1>5. CallerShape /\ EntryShape /\ SnapshotShape /\ FairShape
  BY <1>2 DEF Init, CallerShape, EntryShape, SnapshotShape, SnapshotStillRetired, FairShape
<1>6. QED BY <1>1, <1>4, <1>5 DEF IInv

\* ... and every step keeps it.
LEMMA NextIInv == IInv /\ [Next]_vars => IInv'
<1> SUFFICES ASSUME IInv, [Next]_vars PROVE IInv'
  OBVIOUS
<1>1. ASSUME NEW c \in Callers, CallerStep(c) PROVE Rest'
  BY <1>1, TryOnceStep, AttemptStep, WaitingStep, ReleaseStep DEF CallerStep
<1>2. ASSUME NEW p \in Profiles, Drain(p) PROVE Rest'
  BY <1>2, DrainStep
<1>3. ASSUME \/ Tick \/ StartReconcile \/ RecreateFails \/ ReplaceRetired
             \/ Activate \/ Close \/ Restart
      PROVE  Rest'
  BY <1>3, TickStep, ReconcileStep, ReplaceStep, ActivateStep, CloseStep, RestartStep
<1>4. ASSUME UNCHANGED vars PROVE Rest'
  BY <1>4 DEF vars, fairVars, callerVars, IInv, Rest, CallerShape, LeaseAccounting, HoldersOf,
     EntryShape, SnapshotShape, SnapshotStillRetired, AutoWaitersExact, FairShape
<1>5. Rest'
  BY <1>1, <1>2, <1>3, <1>4 DEF Next
<1>6. TypeOK'
  BY TypeStep
<1>7. QED BY <1>5, <1>6 DEF Rest, IInv

\* The inductive invariant holds in every reachable state.
THEOREM InductiveInvariant == Spec => []IInv
BY InitIInv, NextIInv, PTL DEF Spec

\* Every variable of the pool keeps its type, for any profiles and callers.
THEOREM TypeCorrect == Spec => []TypeOK
<1>1. IInv => TypeOK
  BY DEF IInv
<1>2. QED BY <1>1, InductiveInvariant, PTL

\* The slot counters of tryAcquire and release equal the leases that are out
\* and respect the capacities, for any number of profiles and callers.
THEOREM SlotsAccountedFor == Spec => []LeaseAccounting
<1>1. IInv => LeaseAccounting
  BY DEF IInv
<1>2. QED BY <1>1, InductiveInvariant, PTL

\* Until Close, a leased profile is never retired, replaced or closed.
THEOREM LeasedStaysIntact == Spec => []LeasedProfileIntact
<1>1. ASSUME IInv PROVE LeasedProfileIntact
  <2> SUFFICES ASSUME phase # "closed", NEW c \in Callers, lease[c] # NoProfile
               PROVE  entry[lease[c]].open /\ entry[lease[c]].state \notin {"warming", "retired"}
    BY DEF LeasedProfileIntact
  <2>1. lease[c] \in Profiles /\ c \in HoldersOf(lease[c])
    BY <1>1 DEF IInv, TypeOK, HoldersOf
  <2>2. Cardinality(HoldersOf(lease[c])) # 0
    BY <2>1, CallersFinite, FS_EmptySet
  <2>3. entry[lease[c]].inFlight # 0
    BY <1>1, <2>1, <2>2 DEF IInv, LeaseAccounting
  <2>4. QED BY <1>1, <2>1, <2>3 DEF IInv, EntryShape
<1>2. QED BY <1>1, InductiveInvariant, PTL

\* Until Close, a draining profile has a lease out whose release retires it.
THEOREM DrainsAreFinished == Spec => []DrainHasHolder
<1>1. ASSUME IInv PROVE DrainHasHolder
  <2> SUFFICES ASSUME phase # "closed", NEW p \in Profiles, entry[p].state = "draining"
               PROVE  HoldersOf(p) # {}
    BY DEF DrainHasHolder
  <2>1. entry[p].inFlight > 0
    BY <1>1 DEF IInv, EntryShape
  <2>2. Cardinality(HoldersOf(p)) # 0
    BY <1>1, <2>1 DEF IInv, LeaseAccounting
  <2>3. QED BY <2>2, FS_EmptySet
<1>2. QED BY <1>1, InductiveInvariant, PTL

\* What the manager's unlocked snapshot says of a profile is still so when
\* replaceRetired takes the lock again.
THEOREM SnapshotsStayTrue == Spec => []SnapshotStillRetired
<1>1. IInv => SnapshotStillRetired
  BY DEF IInv, SnapshotShape
<1>2. QED BY <1>1, InductiveInvariant, PTL

\* autoWaiters is the number of registered automatic callers.
THEOREM WaitersCounted == Spec => []AutoWaitersExact
<1>1. IInv => AutoWaitersExact
  BY DEF IInv
<1>2. QED BY <1>1, InductiveInvariant, PTL

\* Explicit callers overtake waiting automatic ones three times at most.
THEOREM AutoNotStarved == Spec => []ExplicitBurstBounded
<1>1. ASSUME IInv PROVE ExplicitBurstBounded
  BY <1>1 DEF IInv, TypeOK, FairShape, ExplicitBurstBounded, ExplicitBurst
<1>2. QED BY <1>1, InductiveInvariant, PTL

-----------------------------------------------------------------------------
(* The pool implements LeasePool.                                          *)

\* The refinement mapping's view of the resources.
Generations == [p \in Profiles |-> entry[p].generation]

\* The slots LeasePool counts are the holders ProfilePool counts.
LEMMA SameCardinality ==
  ASSUME NEW S PROVE Abstract!Cardinality(S) = Cardinality(S)
BY DEF Abstract!Cardinality, Cardinality

\* A step that keeps the generations keeps LeasePool's incarnations.
LEMMA SameGenerations ==
  ASSUME \A q \in Profiles : entry'[q].generation = entry[q].generation
  PROVE  Generations' = Generations
BY DEF Generations

\* A step that changes no lease, no resource and no phase is a stutter.
LEMMA StutterMaps ==
  ASSUME UNCHANGED <<lease, phase, Generations>>
  PROVE  UNCHANGED Abstract!vars
BY DEF Abstract!vars, Generations

\* A granted lease is a Grant, a refused one a stutter.
LEMMA AttemptMaps ==
  ASSUME IInv, phase # "starting", NEW c \in Callers, lease[c] = NoProfile,
         NEW kind \in Kinds, NEW x, NEW granted, NEW refused,
         TryAcquire(c, kind, x, granted, refused)
  PROVE  [Abstract!Next]_Abstract!vars
<1>1. /\ UNCHANGED phase
      /\ \A q \in Profiles : entry'[q].generation = entry[q].generation
      /\ \/ UNCHANGED lease
         \/ /\ phase = "open"
            /\ \E p \in Profiles : /\ lease' = [lease EXCEPT ![c] = p]
                                   /\ Cardinality(HoldersOf(p)) < Capacity[p]
  BY TryAcquireEffect
<1>2. Generations' = Generations
  BY <1>1, SameGenerations
<1>3. CASE UNCHANGED lease
  BY <1>1, <1>2, <1>3, StutterMaps
<1>4. ASSUME phase = "open", NEW p \in Profiles, lease' = [lease EXCEPT ![c] = p],
             Cardinality(HoldersOf(p)) < Capacity[p]
      PROVE  Abstract!Grant(c, p)
  BY <1>1, <1>2, <1>4, SameCardinality DEF Abstract!Grant, Abstract!HoldersOf, HoldersOf, Generations
<1>5. QED BY <1>1, <1>3, <1>4 DEF Abstract!Next

\* A caller's step takes or returns at most one lease, as LeasePool allows.
LEMMA CallerMaps ==
  ASSUME IInv, NEW c \in Callers, CallerStep(c)
  PROVE  [Abstract!Next]_Abstract!vars
<1>1. CASE TryOnce(c)
  <2>1. phase # "starting" /\ lease[c] = NoProfile
    BY <1>1 DEF TryOnce, IInv, CallerShape
  <2>2. \E kind \in Kinds : \E x : TryAcquire(c, kind, x, "holding", "idle")
    BY <1>1 DEF TryOnce, Kinds
  <2>3. QED BY <2>1, <2>2, AttemptMaps
<1>2. CASE Attempt(c)
  <2>1. phase # "starting" /\ lease[c] = NoProfile
    BY <1>2 DEF Attempt, IInv, CallerShape
  <2>2. \E kind \in Kinds : \E granted : TryAcquire(c, kind, NoProfile, granted, "fetching")
    BY <1>2 DEF Attempt, Kinds
  <2>3. QED BY <2>1, <2>2, AttemptMaps
<1>3. CASE \/ StartAcquire(c) \/ StartAcquireAuto(c) \/ StartWaitAvailable(c)
           \/ Fetch(c) \/ Resume(c) \/ GiveUp(c) \/ Leave(c)
  <2>1. UNCHANGED <<lease, phase, entry>>
    BY <1>3 DEF StartAcquire, StartAcquireAuto, StartWaitAvailable, Fetch, Resume, GiveUp, Leave
  <2>2. QED BY <2>1, StutterMaps DEF Generations
<1>4. ASSUME NEW result \in Results, Release(c, result)
      PROVE  Abstract!Return(c)
  <2>1. lease[c] # NoProfile
    BY <1>4 DEF Release, IInv, CallerShape
  <2>2. Generations' = Generations
    BY <1>4, ReleaseStep, SameGenerations
  <2>3. lease' = [lease EXCEPT ![c] = NoProfile] /\ UNCHANGED phase
    BY <1>4 DEF Release
  <2>4. QED BY <2>1, <2>2, <2>3 DEF Abstract!Return, Generations
<1>5. QED BY <1>1, <1>2, <1>3, <1>4 DEF CallerStep, Abstract!Next

\* A replacement is LeasePool's, or nothing to it.
LEMMA ReplaceMaps ==
  ASSUME IInv, ReplaceRetired
  PROVE  [Abstract!Next]_Abstract!vars
<1>1. UNCHANGED <<lease, phase>>
  BY DEF ReplaceRetired
<1>2. CASE entry' = entry
  BY <1>1, <1>2, StutterMaps DEF Generations
<1>3. ASSUME NEW p \in Profiles, HoldersOf(p) = {},
             entry'[p].generation = entry[p].generation + 1,
             \A q \in Profiles \ {p} : entry'[q] = entry[q]
      PROVE  Abstract!Exchange(p)
  <2>1. Generations' = [Generations EXCEPT ![p] = @ + 1]
    BY <1>3 DEF Generations
  <2>2. QED BY <1>1, <1>3, <2>1 DEF Abstract!Exchange, Abstract!HoldersOf, HoldersOf, Generations
<1>4. QED BY <1>2, <1>3, ReplaceStep DEF Abstract!Next

\* The initial states are initial states of LeasePool.
LEMMA InitMaps == Init => Abstract!Init
<1> SUFFICES ASSUME Init PROVE Abstract!Init
  OBVIOUS
<1>1. Generations \in [Profiles -> Nat]
  BY FreshFacts DEF Init, Generations, States
<1>2. QED BY <1>1 DEF Init, Abstract!Init, Generations

\* Every step is a step of LeasePool or a stutter.
LEMMA StepMaps == IInv /\ IInv' /\ [Next]_vars => [Abstract!Next]_Abstract!vars
<1> SUFFICES ASSUME IInv, IInv', [Next]_vars PROVE [Abstract!Next]_Abstract!vars
  OBVIOUS
<1>1. ASSUME NEW c \in Callers, CallerStep(c) PROVE [Abstract!Next]_Abstract!vars
  BY <1>1, CallerMaps
<1>2. ASSUME NEW p \in Profiles, Drain(p) PROVE [Abstract!Next]_Abstract!vars
  BY <1>2, DrainStep, SameGenerations, StutterMaps DEF Drain
<1>3. CASE Tick
  BY <1>3, TickStep, SameGenerations, StutterMaps DEF Tick, callerVars
<1>4. CASE StartReconcile \/ RecreateFails
  BY <1>4, StutterMaps DEF StartReconcile, RecreateFails, callerVars, Generations
<1>5. CASE ReplaceRetired
  BY <1>5, ReplaceMaps
<1>6. CASE Activate \/ Close
  <2>1. Generations' = Generations /\ UNCHANGED lease
    BY <1>6, ActivateStep, CloseStep, SameGenerations DEF Activate, Close, callerVars
  <2>2. CASE (phase' = "open") = (phase = "open")
    BY <2>1, <2>2 DEF Abstract!vars, Generations
  <2>3. CASE (phase' = "open") = ~(phase = "open")
    BY <2>1, <2>3 DEF Abstract!Switch, Abstract!Next, Generations
  <2>4. QED BY <2>2, <2>3
<1>7. CASE Restart
  <2>1. lease' = [c \in Callers |-> NoProfile] /\ phase' = "starting"
    BY <1>7 DEF Restart
  <2>2. Generations' \in [Profiles -> Nat]
    BY DEF IInv, TypeOK, EntryType, Generations
  <2>3. Abstract!Restart
    BY <2>1, <2>2 DEF Abstract!Restart, Generations
  <2>4. QED BY <2>3 DEF Abstract!Next
<1>8. CASE UNCHANGED vars
  BY <1>8, StutterMaps DEF vars, callerVars, Generations
<1>9. QED BY <1>1, <1>2, <1>3, <1>4, <1>5, <1>6, <1>7, <1>8 DEF Next

\* Every behaviour of the pool is one of LeasePool: grants only to a caller
\* without a lease and below capacity while the pool is open, exchanges of a
\* resource only with nobody holding it.
THEOREM PoolImplementsLeasePool == Spec => ImplementsLeasePool
BY InitMaps, StepMaps, InductiveInvariant, PTL DEF Spec, ImplementsLeasePool, Abstract!Spec

-----------------------------------------------------------------------------
(***************************************************************************)
(* What the manifests keep.  That a crash forgives one attempt only is not *)
(* inductive: reconcileLocked spends an attempt in memory, so before it    *)
(* does, disk must know of all those spent so far.  It does while the flag *)
(* is up (UnspentKept), and no lease is granted while it is down.          *)
(***************************************************************************)

\* Of a profile that has a recovery to come, disk knows the attempts so far.
UnspentKept ==
  OneFlagSuffices /\ manifestHealthy /\ phase # "closed" =>
    \A p \in Profiles : entry[p].state \in {"quarantined", "degraded"} =>
      entry[p].attempts <= disk[p].attempts

SavedShape ==
  /\ ~SavesCanFail => manifestHealthy
  /\ HealthyMeansSaved /\ CrashForgivesOneAttempt /\ UnspentKept

\* The end of a cooldown spends an attempt, or nothing that a manifest keeps.
LEMMA ReconciledSpends ==
  ASSUME NEW e \in EntryType
  PROVE  /\ Reconciled(e).samples = e.samples
         /\ \/ Reconciled(e).attempts = e.attempts
            \/ /\ e.state \in {"quarantined", "degraded"}
               /\ Reconciled(e).attempts = e.attempts + 1
               /\ Reconciled(e).state = "probation"
         /\ Reconciled(e).state \in {"quarantined", "degraded"} =>
              Reconciled(e).state = e.state
<1>1. CASE ~(e.state \in {"quarantined", "degraded"} /\ e.remaining = 0)
  BY <1>1 DEF Reconciled
<1>2. CASE /\ e.state \in {"quarantined", "degraded"} /\ e.remaining = 0
           /\ e.attempts >= MaxRecoveryAttempts
  <2>1. Reconciled(e) = [e EXCEPT !.state = DrainState(e.inFlight)]
    BY <1>2 DEF Reconciled
  <2>2. QED BY <1>2, <2>1 DEF EntryType, DrainState
<1>3. CASE /\ e.state \in {"quarantined", "degraded"} /\ e.remaining = 0
           /\ ~(e.attempts >= MaxRecoveryAttempts)
  <2>1. Reconciled(e) = [[[e EXCEPT !.state = "probation"] EXCEPT !.attempts = e.attempts + 1]
                           EXCEPT !.failures = 0]
    BY <1>3 DEF Reconciled, EntryType
  <2>2. QED BY <1>3, <2>1 DEF EntryType
<1>4. QED BY <1>1, <1>2, <1>3

\* The fields of a manifest.
LEMMA ManifestKeeps ==
  ASSUME NEW e
  PROVE  /\ ManifestOf(e).samples = e.samples /\ ManifestOf(e).generation = e.generation
         /\ ManifestOf(e).attempts = e.attempts
BY DEF ManifestOf

\* Where one flag suffices and a save may fail, there is one profile.
LEMMA OneProfile ==
  ASSUME OneFlagSuffices, SavesCanFail, NEW p \in Profiles, NEW q \in Profiles
  PROVE  p = q
<1>1. IsFiniteSet(Profiles) /\ Cardinality(Profiles) = 1
  BY ConstantsOK DEF OneFlagSuffices
<1>2. PICK x : Profiles = {x}
  BY <1>1, FS_Singleton
<1>3. QED BY <1>2

\* The critical sections that change one entry and save it.
LEMMA SaveKeepsShape ==
  ASSUME TypeOK, SavedShape, NEW p \in Profiles, NEW e \in EntryType,
         entry' = [entry EXCEPT ![p] = e], e.attempts <= entry[p].attempts,
         NEW ok \in SaveOutcomes, SaveManifest(p, e, ok), phase' = phase
  PROVE  SavedShape'
<1>1. /\ entry'[p] = e
      /\ \A q \in Profiles : q # p => entry'[q] = entry[q]
      /\ \A q \in Profiles : entry[q] \in EntryType /\ disk[q] \in ManifestType
  BY DEF TypeOK
<1>2. manifestHealthy' = ok /\ (~SavesCanFail => ok)
  BY DEF SaveManifest, SaveOutcomes
<1>3. /\ e.attempts \in Nat /\ \A q \in Profiles : entry[q].attempts \in Nat /\ disk[q].attempts \in Nat
  BY <1>1, Thresholds DEF EntryType, ManifestType
<1>4. CASE ~OneFlagSuffices
  BY <1>2, <1>4 DEF SavedShape, HealthyMeansSaved, CrashForgivesOneAttempt, UnspentKept
<1>5. CASE OneFlagSuffices /\ ok
  <2>1. disk' = [disk EXCEPT ![p] = ManifestOf(e)]
    BY <1>5 DEF SaveManifest, OneFlagSuffices
  <2>2. /\ disk'[p].samples = e.samples /\ disk'[p].generation = e.generation
        /\ disk'[p].attempts = e.attempts
        /\ \A q \in Profiles : q # p => disk'[q] = disk[q]
    BY <2>1, ManifestKeeps DEF TypeOK
  <2>3. \A q \in Profiles : q # p => manifestHealthy
    BY <1>5, OneProfile DEF SavedShape
  <2>4. ASSUME NEW q \in Profiles
        PROVE  /\ phase = "open" => /\ disk'[q].samples = entry'[q].samples
                                    /\ disk'[q].generation = entry'[q].generation
               /\ entry'[q].attempts <= disk'[q].attempts + 1
               /\ phase # "closed" /\ entry'[q].state \in {"quarantined", "degraded"} =>
                    entry'[q].attempts <= disk'[q].attempts
    <3>1. CASE q = p
      BY <1>1, <1>3, <2>2, <3>1
    <3>2. CASE q # p
      BY <1>1, <1>5, <2>2, <2>3, <3>2
         DEF SavedShape, HealthyMeansSaved, CrashForgivesOneAttempt, UnspentKept
    <3>3. QED BY <3>1, <3>2
  <2>5. QED
    BY <1>2, <2>4 DEF SavedShape, HealthyMeansSaved, CrashForgivesOneAttempt, UnspentKept
<1>6. CASE OneFlagSuffices /\ ~ok
  <2>1. disk' = disk /\ ~manifestHealthy'
    BY <1>6 DEF SaveManifest
  <2>2. \A q \in Profiles : entry'[q].attempts <= entry[q].attempts
    BY <1>1, <1>3
  <2>3. \A q \in Profiles : entry[q].attempts <= disk[q].attempts + 1
    BY <1>6 DEF SavedShape, CrashForgivesOneAttempt
  <2>4. \A q \in Profiles : entry'[q].attempts \in Nat
    BY <1>1, <1>3
  <2>5. \A q \in Profiles : entry'[q].attempts <= disk'[q].attempts + 1
    BY <1>3, <2>1, <2>2, <2>3, <2>4
  <2>6. QED
    BY <1>2, <2>1, <2>5 DEF SavedShape, HealthyMeansSaved, CrashForgivesOneAttempt, UnspentKept
<1>7. QED BY <1>2, <1>4, <1>5, <1>6 DEF SaveOutcomes

\* The critical sections that save nothing: they spend no attempt, or one of
\* a profile whose earlier ones disk knows, and leave the rest alone.
LEMMA UnsavedKeepsShape ==
  ASSUME TypeOK, SavedShape, UNCHANGED <<disk, manifestHealthy>>, phase' \in {phase, "closed"},
         \A p \in Profiles :
           /\ entry'[p].samples = entry[p].samples /\ entry'[p].generation = entry[p].generation
           /\ \/ entry'[p].attempts = entry[p].attempts
              \/ /\ manifestHealthy /\ phase # "closed"
                 /\ entry[p].state \in {"quarantined", "degraded"}
                 /\ entry'[p].attempts = entry[p].attempts + 1
                 /\ entry'[p].state = "probation"
           /\ entry'[p].state \in {"quarantined", "degraded"} => entry'[p].state = entry[p].state
  PROVE  SavedShape'
<1>1. \A p \in Profiles : entry[p].attempts \in Nat /\ disk[p].attempts \in Nat
  BY Thresholds DEF TypeOK, EntryType, ManifestType
<1>2. HealthyMeansSaved'
  BY DEF SavedShape, HealthyMeansSaved
<1>3. CrashForgivesOneAttempt'
  BY <1>1 DEF SavedShape, CrashForgivesOneAttempt, UnspentKept
<1>4. UnspentKept'
  BY <1>1 DEF SavedShape, UnspentKept
<1>5. QED BY <1>2, <1>3, <1>4 DEF SavedShape

\* tryAcquire: attempts are spent while the flag is up, or not at all.
LEMMA TryAcquireKeepsShape ==
  ASSUME TypeOK, SavedShape, NEW c \in Callers, NEW kind, NEW x, NEW granted, NEW refused,
         TryAcquire(c, kind, x, granted, refused)
  PROVE  SavedShape'
<1> DEFINE es == [p \in Profiles |-> Reconciled(entry[p])]
<1>1. \A p \in Profiles :
        /\ es[p] \in EntryType /\ es[p].samples = entry[p].samples
        /\ es[p].generation = entry[p].generation
        /\ \/ es[p].attempts = entry[p].attempts
           \/ /\ entry[p].state \in {"quarantined", "degraded"}
              /\ es[p].attempts = entry[p].attempts + 1 /\ es[p].state = "probation"
        /\ es[p].state \in {"quarantined", "degraded"} => es[p].state = entry[p].state
  BY ReconciledFacts, ReconciledSpends DEF TypeOK
<1>2. es \in [Profiles -> EntryType]
  BY <1>1
<1> HIDE DEF es
<1>3. UNCHANGED <<disk, manifestHealthy, phase>>
  BY DEF TryAcquire, diskVars
<1>4. CASE entry' = entry
  BY <1>3, <1>4, UnsavedKeepsShape
<1>5. CASE entry' = es /\ Admitted(kind)
  BY <1>1, <1>3, <1>5, UnsavedKeepsShape DEF Admitted
<1>6. ASSUME NEW p \in Profiles, entry' = [es EXCEPT ![p].inFlight = @ + 1], Admitted(kind)
      PROVE  SavedShape'
  <2>1. \A q \in Profiles :
          /\ entry'[q].samples = es[q].samples /\ entry'[q].generation = es[q].generation
          /\ entry'[q].attempts = es[q].attempts /\ entry'[q].state = es[q].state
    BY <1>2, <1>6 DEF EntryType
  <2>2. manifestHealthy /\ phase # "closed"
    BY <1>6 DEF Admitted
  <2>3. QED BY <1>1, <1>3, <2>1, <2>2, UnsavedKeepsShape
<1>7. ASSUME NEW preferred \in Serving, Reserved(c, kind, preferred, x, granted)
      PROVE  SavedShape'
  <2>1. PICK p \in Selected(es, preferred, x) : entry' = [es EXCEPT ![p].inFlight = @ + 1]
    BY <1>7 DEF Reserved, es
  <2>2. p \in Profiles /\ Admitted(kind)
    BY <1>7, SelectedFacts DEF Reserved
  <2>3. QED BY <1>6, <2>1, <2>2
<1>8. QED
  <2>1. \/ entry' = entry
        \/ entry' = es /\ Admitted(kind)
        \/ \E preferred \in Serving : Reserved(c, kind, preferred, x, granted)
    BY DEF TryAcquire, Refused, NoSlot, es
  <2>2. QED BY <1>4, <1>5, <1>7, <2>1

\* release: it saves what it changed, or changed nothing that is saved.
LEMMA ReleaseKeepsShape ==
  ASSUME IInv, SavedShape, NEW c \in Callers, NEW result \in Results, Release(c, result)
  PROVE  SavedShape'
<1> DEFINE p == lease[c]
           e == Returned(entry[p])
<1>1. TypeOK /\ p \in Profiles
  BY DEF Release, IInv, TypeOK, CallerShape
<1>2. entry[p] \in EntryType /\ entry \in [Profiles -> EntryType]
  BY <1>1 DEF TypeOK
<1>3. /\ e \in EntryType /\ e.attempts = entry[p].attempts /\ e.samples = entry[p].samples
      /\ e.generation = entry[p].generation /\ e.state = entry[p].state
  BY <1>2, ReturnedFacts
<1>4. phase' = phase
  BY DEF Release
<1> HIDE DEF p, e
<1>5. ASSUME NEW f \in EntryType, f.attempts = e.attempts, entry' = [entry EXCEPT ![p] = f],
             NEW ok \in SaveOutcomes, SaveManifest(p, entry'[p], ok)
      PROVE  SavedShape'
  <2>1. entry'[p] = f
    BY <1>1, <1>2, <1>5
  <2>2. f.attempts <= entry[p].attempts
    BY <1>2, <1>3, <1>5, Thresholds DEF EntryType
  <2>3. SaveManifest(p, f, ok)
    BY <1>5, <2>1
  <2>4. QED BY <1>1, <1>4, <1>5, <2>2, <2>3, SaveKeepsShape DEF IInv
<1>6. CASE /\ entry' = [entry EXCEPT ![p] = [e EXCEPT !.state = "retired"]]
           /\ \E ok \in SaveOutcomes : SaveManifest(p, entry'[p], ok)
  <2> DEFINE f == [e EXCEPT !.state = "retired"]
  <2>1. f \in EntryType /\ f.attempts = e.attempts
    BY <1>3 DEF EntryType, States
  <2>2. entry' = [entry EXCEPT ![p] = f]
    BY <1>6
  <2> HIDE DEF f
  <2>3. QED BY <1>5, <1>6, <2>1, <2>2
<1>7. CASE entry' = [entry EXCEPT ![p] = e] /\ UNCHANGED diskVars
  <2>1. \A q \in Profiles :
          /\ entry'[q].samples = entry[q].samples /\ entry'[q].generation = entry[q].generation
          /\ entry'[q].attempts = entry[q].attempts /\ entry'[q].state = entry[q].state
    BY <1>2, <1>3, <1>7
  <2>2. UNCHANGED <<disk, manifestHealthy>>
    BY <1>7 DEF diskVars
  <2>3. QED BY <1>1, <1>4, <2>1, <2>2, UnsavedKeepsShape
<1>8. CASE /\ \E promote \in BOOLEAN :
                entry' = [entry EXCEPT ![p] = Judged(Counted(e, result), result, promote)]
           /\ \E ok \in SaveOutcomes : SaveManifest(p, entry'[p], ok)
  <2>1. PICK promote \in BOOLEAN :
          entry' = [entry EXCEPT ![p] = Judged(Counted(e, result), result, promote)]
    BY <1>8
  <2> DEFINE f == Judged(Counted(e, result), result, promote)
  <2>2. f \in EntryType /\ f.attempts = e.attempts
    BY <1>3, JudgedFacts
  <2>3. entry' = [entry EXCEPT ![p] = f]
    BY <2>1
  <2> HIDE DEF f
  <2>4. QED BY <1>5, <1>8, <2>2, <2>3
<1>9. QED BY <1>6, <1>7, <1>8 DEF Release, p, e

\* Drain saves the drained profile.
LEMMA DrainKeepsShape ==
  ASSUME TypeOK, SavedShape, NEW p \in Profiles, Drain(p)
  PROVE  SavedShape'
<1>1. entry[p] \in EntryType /\ entry \in [Profiles -> EntryType]
  BY DEF TypeOK
<1> DEFINE f == [entry[p] EXCEPT !.state = DrainState(entry[p].inFlight)]
<1>2. f \in EntryType /\ f.attempts = entry[p].attempts
  BY <1>1 DEF EntryType, States, DrainState
<1>3. entry' = [entry EXCEPT ![p] = f] /\ phase' = phase
  BY DEF Drain
<1>4. PICK ok \in SaveOutcomes : SaveManifest(p, entry'[p], ok)
  BY DEF Drain
<1> HIDE DEF f
<1>5. SaveManifest(p, f, ok)
  BY <1>1, <1>3, <1>4
<1>6. f.attempts <= entry[p].attempts
  BY <1>1, <1>2, Thresholds DEF EntryType
<1>7. QED BY <1>2, <1>3, <1>5, <1>6, SaveKeepsShape

\* A replacement is saved with clean counters.
LEMMA ReplaceKeepsShape ==
  ASSUME TypeOK, SavedShape, ReplaceRetired
  PROVE  SavedShape'
<1> DEFINE p == NextTodo
           g == FreshEntry("probation", entry[p].generation + 1)
           f == [g EXCEPT !.remaining = entry[p].remaining]
<1>1. p \in Profiles /\ entry[p] \in EntryType /\ entry \in [Profiles -> EntryType]
  BY NextTodoFacts DEF ReplaceRetired, TypeOK
<1>2. phase' = phase
  BY DEF ReplaceRetired
<1>3. CASE UNCHANGED <<entry, diskVars>>
  BY <1>2, <1>3, UnsavedKeepsShape DEF diskVars
<1>4. CASE /\ entry' = [entry EXCEPT ![p] = f]
           /\ \E ok \in SaveOutcomes : SaveManifest(p, entry'[p], ok)
  <2>1. g \in EntryType /\ g.attempts = 0 /\ entry[p].remaining \in Nat
    BY <1>1, FreshFacts DEF EntryType, FreshEntry, States
  <2> HIDE DEF g
  <2>2. f \in EntryType /\ f.attempts = 0
    BY <2>1 DEF EntryType
  <2>3. entry' = [entry EXCEPT ![p] = f]
    BY <1>4
  <2> HIDE DEF f, p
  <2>4. PICK ok \in SaveOutcomes : SaveManifest(p, entry'[p], ok)
    BY <1>4
  <2>5. SaveManifest(p, f, ok)
    BY <1>1, <2>3, <2>4
  <2>6. f.attempts <= entry[p].attempts
    BY <1>1, <2>2, Thresholds DEF EntryType
  <2>7. QED BY <1>1, <1>2, <2>2, <2>3, <2>5, <2>6, SaveKeepsShape
<1>5. QED BY <1>3, <1>4 DEF ReplaceRetired

\* Time changes nothing but deadlines.
LEMMA TickKeepsShape ==
  ASSUME TypeOK, SavedShape, Tick
  PROVE  SavedShape'
<1>1. \A p \in Profiles : entry[p] \in EntryType /\ disk[p] \in ManifestType
  BY DEF TypeOK
<1>2. \A p \in Profiles :
        /\ entry'[p].samples = entry[p].samples /\ entry'[p].generation = entry[p].generation
        /\ entry'[p].attempts = entry[p].attempts /\ entry'[p].state = entry[p].state
        /\ disk'[p].samples = disk[p].samples /\ disk'[p].generation = disk[p].generation
        /\ disk'[p].attempts = disk[p].attempts
  BY <1>1 DEF Tick, EntryType, ManifestType
<1>3. manifestHealthy' = manifestHealthy /\ phase' = phase
  BY DEF Tick
<1>4. QED
  BY <1>2, <1>3 DEF SavedShape, HealthyMeansSaved, CrashForgivesOneAttempt, UnspentKept

\* Activate saves every profile, or the pool does not open.
LEMMA ActivateKeepsShape ==
  ASSUME TypeOK, SavedShape, Activate
  PROVE  SavedShape'
<1>1. \A p \in Profiles :
        /\ entry[p] \in EntryType /\ entry[p].attempts \in Nat /\ disk[p].attempts \in Nat
  BY Thresholds DEF TypeOK, EntryType, ManifestType
<1>2. \A p \in Profiles :
        /\ Activated(p).samples = entry[p].samples
        /\ Activated(p).generation = entry[p].generation
        /\ Activated(p).attempts = entry[p].attempts
  BY <1>1 DEF Activated, EntryType
<1>3. \A p \in Profiles :
        /\ ManifestOf(Activated(p)).samples = entry[p].samples
        /\ ManifestOf(Activated(p)).generation = entry[p].generation
        /\ ManifestOf(Activated(p)).attempts = entry[p].attempts
  BY <1>2, ManifestKeeps
<1>4. CASE /\ entry' = [p \in Profiles |-> Activated(p)] /\ SaveActivated(Profiles)
           /\ phase' = "open" /\ UNCHANGED manifestHealthy
  <2>1. OneFlagSuffices =>
          \A p \in Profiles :
            /\ disk'[p].samples = entry'[p].samples /\ disk'[p].generation = entry'[p].generation
            /\ disk'[p].attempts = entry'[p].attempts /\ entry'[p].attempts \in Nat
    <3>1. OneFlagSuffices => \A p \in Profiles : disk'[p] = ManifestOf(Activated(p))
      BY <1>4 DEF SaveActivated, OneFlagSuffices
    <3>2. \A p \in Profiles : entry'[p] = Activated(p)
      BY <1>4
    <3>3. QED BY <1>1, <1>2, <1>3, <3>1, <3>2
  <2>2. QED
    BY <1>4, <2>1 DEF SavedShape, HealthyMeansSaved, CrashForgivesOneAttempt, UnspentKept
<1>5. ASSUME SavesCanFail, NEW failing \in Profiles,
             SaveActivated({p \in Profiles : p < failing}),
             entry' = [p \in Profiles |-> [entry[p] EXCEPT !.state = "retired", !.open = FALSE]],
             manifestHealthy' = FALSE, phase' = "closed"
      PROVE  SavedShape'
  <2>1. \A p \in Profiles : entry'[p].attempts = entry[p].attempts
    BY <1>1, <1>5 DEF EntryType
  <2>2. \A p \in Profiles :
          disk'[p].attempts = entry[p].attempts \/ disk'[p].attempts = disk[p].attempts
    <3>1. \A p \in Profiles : disk'[p] = ManifestOf(Activated(p)) \/ disk'[p] = disk[p]
      BY <1>5 DEF SaveActivated
    <3>2. QED BY <1>3, <3>1
  <2>3. CrashForgivesOneAttempt'
    BY <1>1, <2>1, <2>2 DEF SavedShape, CrashForgivesOneAttempt
  <2>4. QED BY <1>5, <2>3 DEF SavedShape, HealthyMeansSaved, UnspentKept
<1>6. QED BY <1>4, <1>5 DEF Activate

\* Close saves nothing.
LEMMA CloseKeepsShape ==
  ASSUME TypeOK, SavedShape, Close
  PROVE  SavedShape'
<1>1. \A p \in Profiles : entry[p] \in EntryType
  BY DEF TypeOK
<1>2. \A p \in Profiles :
        /\ entry'[p].samples = entry[p].samples /\ entry'[p].generation = entry[p].generation
        /\ entry'[p].attempts = entry[p].attempts /\ entry'[p].state = "retired"
  BY <1>1 DEF Close, EntryType
<1>3. UNCHANGED <<disk, manifestHealthy>> /\ phase' = "closed"
  BY DEF Close, diskVars
<1>4. QED BY <1>2, <1>3, UnsavedKeepsShape

\* A new process knows the attempts that disk knows.
LEMMA RestartKeepsShape ==
  ASSUME TypeOK, SavedShape, Restart
  PROVE  SavedShape'
<1>1. PICK kept \in [Profiles -> 0 .. MinSamples] :
        entry' = [p \in Profiles |-> LoadedEntry(disk[p], kept[p])]
  BY DEF Restart
<1>2. \A p \in Profiles : disk[p] \in ManifestType /\ disk[p].attempts \in Nat
  BY Thresholds DEF TypeOK, ManifestType
<1>3. ASSUME NEW p \in Profiles
      PROVE  entry'[p].state = "warming" /\ entry'[p].attempts \in {0, disk[p].attempts}
  <2>1. entry'[p] = LoadedEntry(disk[p], kept[p])
    BY <1>1
  <2>2. LoadedEntry(disk[p], kept[p]).state = "warming"
    BY <1>2, LoadedFacts
  <2>3. LoadedEntry(disk[p], kept[p]).attempts \in {0, disk[p].attempts}
    BY DEF LoadedEntry, FreshEntry
  <2>4. QED BY <2>1, <2>2, <2>3
<1>4. disk' = disk /\ manifestHealthy' = TRUE /\ phase' = "starting"
  BY DEF Restart
<1>5. CrashForgivesOneAttempt'
  BY <1>2, <1>3, <1>4 DEF CrashForgivesOneAttempt
<1>6. HealthyMeansSaved' /\ UnspentKept'
  BY <1>3, <1>4 DEF HealthyMeansSaved, UnspentKept
<1>7. QED BY <1>4, <1>5, <1>6 DEF SavedShape

\* The manifests of every reachable state.
THEOREM SavedInvariant == Spec => []SavedShape
<1>1. Init => SavedShape
  <2> SUFFICES ASSUME Init PROVE SavedShape
    OBVIOUS
  <2>1. \A p \in Profiles : entry[p].attempts = 0 /\ disk[p].attempts = 0
    BY DEF Init, FreshEntry, NoManifest
  <2>2. \A p \in Profiles : entry[p].state \notin {"quarantined", "degraded"}
    BY DEF Init, FreshEntry
  <2>3. manifestHealthy = TRUE /\ phase = "starting"
    BY DEF Init
  <2>4. QED
    BY <2>1, <2>2, <2>3 DEF SavedShape, HealthyMeansSaved, CrashForgivesOneAttempt, UnspentKept
<1>2. IInv /\ SavedShape /\ [Next]_vars => SavedShape'
  <2> SUFFICES ASSUME IInv, SavedShape, [Next]_vars PROVE SavedShape'
    OBVIOUS
  <2>1. TypeOK
    BY DEF IInv
  <2>2. ASSUME UNCHANGED <<entry, diskVars, phase>> PROVE SavedShape'
    BY <2>1, <2>2, UnsavedKeepsShape DEF diskVars
  <2>3. ASSUME NEW c \in Callers, CallerStep(c) PROVE SavedShape'
    <3>1. ASSUME TryOnce(c) \/ Attempt(c) PROVE SavedShape'
      BY <2>1, <3>1, TryAcquireKeepsShape DEF TryOnce, Attempt
    <3>2. ASSUME \/ StartAcquire(c) \/ StartAcquireAuto(c) \/ StartWaitAvailable(c)
                 \/ Fetch(c) \/ Resume(c) \/ GiveUp(c) \/ Leave(c)
          PROVE  SavedShape'
      BY <2>2, <3>2 DEF StartAcquire, StartAcquireAuto, StartWaitAvailable, Fetch, Resume,
         GiveUp, Leave
    <3>3. QED BY <2>3, <3>1, <3>2, ReleaseKeepsShape DEF CallerStep
  <2>4. ASSUME NEW p \in Profiles, Drain(p) PROVE SavedShape'
    BY <2>1, <2>4, DrainKeepsShape
  <2>5. ASSUME StartReconcile \/ RecreateFails PROVE SavedShape'
    BY <2>2, <2>5 DEF StartReconcile, RecreateFails
  <2>6. ASSUME Tick \/ ReplaceRetired \/ Activate \/ Close \/ Restart PROVE SavedShape'
    BY <2>1, <2>6, TickKeepsShape, ReplaceKeepsShape, ActivateKeepsShape, CloseKeepsShape,
       RestartKeepsShape
  <2>7. ASSUME UNCHANGED vars PROVE SavedShape'
    BY <2>2, <2>7 DEF vars
  <2>8. QED BY <2>3, <2>4, <2>5, <2>6, <2>7 DEF Next
<1>3. QED BY <1>1, <1>2, InductiveInvariant, PTL DEF Spec

\* While manifestHealthy is up, disk holds the reports that memory holds.
THEOREM HealthIsHonest == Spec => []HealthyMeansSaved
<1>1. SavedShape => HealthyMeansSaved
  BY DEF SavedShape
<1>2. QED BY <1>1, SavedInvariant, PTL

\* A crash gives a profile back at most one of the attempts it has spent.
THEOREM CrashesForgiveOne == Spec => []CrashForgivesOneAttempt
<1>1. SavedShape => CrashForgivesOneAttempt
  BY DEF SavedShape
<1>2. QED BY <1>1, SavedInvariant, PTL

-----------------------------------------------------------------------------
(* Selection (selectEntry, lessLoaded): no free slot is overlooked.        *)

\* Loads order the profiles, whatever the capacities are.
LEMMA LoadsOrdered ==
  ASSUME NEW es \in [Profiles -> EntryType], NEW p \in Profiles, NEW q \in Profiles
  PROVE  /\ p # q => LessLoaded(es, p, q) \/ LessLoaded(es, q, p)
         /\ ~(LessLoaded(es, p, q) /\ LessLoaded(es, q, p))
         /\ \A r \in Profiles :
              LessLoaded(es, p, q) /\ LessLoaded(es, q, r) => LessLoaded(es, p, r)
<1> DEFINE n(x) == es[x].inFlight
<1>1. \A x \in Profiles : n(x) \in Nat /\ Capacity[x] \in Nat \ {0} /\ x \in Nat
  BY ConstantsOK DEF EntryType
<1>2. \A x, y \in Profiles :
        LessLoaded(es, x, y) <=> \/ n(x) * Capacity[y] < n(y) * Capacity[x]
                                 \/ n(x) * Capacity[y] = n(y) * Capacity[x] /\ x < y
  BY DEF LessLoaded
<1>3. \A x, y \in Profiles : n(x) * Capacity[y] \in Nat
  <2>1. \A i \in Nat, k \in Nat \ {0} : i * k \in Nat
    OBVIOUS
  <2>2. QED BY <1>1, <2>1
<1> HIDE DEF n
<1>4. p # q => LessLoaded(es, p, q) \/ LessLoaded(es, q, p)
  BY <1>1, <1>2, <1>3
<1>5. ~(LessLoaded(es, p, q) /\ LessLoaded(es, q, p))
  BY <1>1, <1>2, <1>3
<1>6. ASSUME NEW r \in Profiles, LessLoaded(es, p, q), LessLoaded(es, q, r)
      PROVE  LessLoaded(es, p, r)
  <2>1. /\ n(p) * Capacity[q] <= n(q) * Capacity[p]
        /\ n(q) * Capacity[r] <= n(r) * Capacity[q]
    BY <1>2, <1>3, <1>6
  <2>2. /\ n(p) * Capacity[r] <= n(r) * Capacity[p]
        /\ n(p) * Capacity[q] < n(q) * Capacity[p] \/ n(q) * Capacity[r] < n(r) * Capacity[q]
             => n(p) * Capacity[r] < n(r) * Capacity[p]
    <3>1. /\ n(p) \in Nat /\ n(q) \in Nat /\ n(r) \in Nat
          /\ Capacity[p] \in Nat \ {0} /\ Capacity[q] \in Nat \ {0} /\ Capacity[r] \in Nat \ {0}
      BY <1>1
    <3>2. QED BY <2>1, <3>1, FractionsOrdered
  <2>3. CASE n(p) * Capacity[r] < n(r) * Capacity[p]
    BY <1>2, <2>3
  <2>4. CASE n(p) * Capacity[r] = n(r) * Capacity[p]
    <3>1. p < q /\ q < r
      BY <1>2, <1>3, <1>6, <2>2, <2>4
    <3>2. p < r
      BY <1>1, <3>1
    <3>3. QED BY <1>2, <2>4, <3>2
  <2>5. QED BY <1>3, <2>2, <2>3, <2>4
<1>7. QED BY <1>4, <1>5, <1>6

\* selectEntry finds a candidate where there is one, and one only.
LEMMA SelectEntryFacts ==
  ASSUME NEW es \in [Profiles -> EntryType], NEW st, NEW excluded
  PROVE  /\ SelectEntry(es, st, excluded) = {} <=> Candidates(es, st, excluded) = {}
         /\ \A p, q \in SelectEntry(es, st, excluded) : p = q
<1> DEFINE S == Candidates(es, st, excluded)
           R == {pq \in Profiles \X Profiles : LessLoaded(es, pq[1], pq[2])}
<1>1. S \subseteq Profiles /\ IsFiniteSet(S)
  <2>1. S \subseteq Profiles
    BY DEF Candidates
  <2>2. QED BY <2>1, ConstantsOK, FS_Subset
<1>2. \A x, y \in Profiles : <<x, y>> \in R <=> LessLoaded(es, x, y)
  OBVIOUS
<1>3. SelectEntry(es, st, excluded) = {p \in S : \A q \in S \ {p} : LessLoaded(es, p, q)}
  BY DEF SelectEntry
<1> HIDE DEF S, R
<1>4. /\ \A x, y \in S : x # y => <<x, y>> \in R \/ <<y, x>> \in R
      /\ \A x, y, z \in S : <<x, y>> \in R /\ <<y, z>> \in R => <<x, z>> \in R
  BY <1>1, <1>2, LoadsOrdered
<1>5. S # {} => \E x \in S : \A y \in S \ {x} : <<x, y>> \in R
  BY <1>1, <1>4, LeastExists
<1>6. ASSUME NEW p \in SelectEntry(es, st, excluded), NEW q \in SelectEntry(es, st, excluded)
      PROVE  p = q
  BY <1>1, <1>3, LoadsOrdered
<1>7. SelectEntry(es, st, excluded) = {} <=> S = {}
  BY <1>1, <1>2, <1>3, <1>5
<1>8. QED BY <1>6, <1>7 DEF S

\* Whatever the loads and capacities: tryAcquire finds a profile exactly when
\* one that serves has a free slot; the choice is determined; and it is of
\* the preferred trust class if that class has a free slot (pool.go:339).
THEOREM SelectionOverlooksNothing ==
  ASSUME NEW es \in [Profiles -> EntryType], NEW preferred \in Serving, NEW excluded
  PROVE  /\ Selected(es, preferred, excluded) = {} <=>
              \A st \in Serving : Candidates(es, st, excluded) = {}
         /\ \A p, q \in Selected(es, preferred, excluded) : p = q
         /\ Candidates(es, preferred, excluded) # {} =>
              Selected(es, preferred, excluded) \subseteq Candidates(es, preferred, excluded)
<1>1. \A st \in Serving :
        /\ SelectEntry(es, st, excluded) = {} <=> Candidates(es, st, excluded) = {}
        /\ \A p, q \in SelectEntry(es, st, excluded) : p = q
  BY SelectEntryFacts
<1>2. Other(preferred) \in Serving /\ Serving = {preferred, Other(preferred)}
  BY DEF Other, Serving
<1>3. SelectEntry(es, preferred, excluded) \subseteq Candidates(es, preferred, excluded)
  BY DEF SelectEntry
<1>4. Selected(es, preferred, excluded) =
        IF SelectEntry(es, preferred, excluded) # {} THEN SelectEntry(es, preferred, excluded)
        ELSE SelectEntry(es, Other(preferred), excluded)
  BY DEF Selected
<1>5. QED BY <1>1, <1>2, <1>3, <1>4

\* Who goes to wait, although admitted, has found no free slot: at the moment of
\* the attempt every profile that serves is full (pool.go:223).
WaitsOnlyWhenFull ==
  [][\A c \in Callers :
       pc[c] = "trying" /\ pc'[c] = "fetching" /\ Admitted(KindOf(c)) =>
         \A p \in Profiles :
           entry'[p].state \in Serving => entry'[p].inFlight >= Capacity[p]]_vars

\* Only the attempt of a caller sends it to fetch the channel.
LEMMA OnlyAttemptsFetch ==
  ASSUME IInv, Next, NEW c \in Callers, pc[c] = "trying", pc'[c] = "fetching"
  PROVE  Attempt(c)
<1>1. pc \in [Callers -> PcType]
  BY DEF IInv, TypeOK
<1>2. ASSUME NEW d \in Callers, d # c, CallerStep(d) PROVE FALSE
  <2>1. ASSUME NEW result \in Results, Release(d, result) PROVE FALSE
    <3> DEFINE pcs == [pc EXCEPT ![d] = "idle"]
    <3>1. pcs \in [Callers -> PcType] /\ pcs[c] = "trying" /\ pc' = Woken(pcs)
      BY <1>1, <1>2, <2>1 DEF Release, PcType
    <3> HIDE DEF pcs
    <3>2. pc'[c] = "trying"
      BY <3>1, WokenFacts
    <3>3. QED BY <3>2
  <2>2. \E there : pc' = [pc EXCEPT ![d] = there]
    BY <1>2, <2>1 DEF CallerStep, TryOnce, Attempt, TryAcquire, Refused, NoSlot, Reserved,
       StartAcquire, StartAcquireAuto, StartWaitAvailable, Fetch, Resume, GiveUp, Leave
  <2>3. pc'[c] = pc[c]
    BY <1>1, <1>2, <2>2
  <2>4. QED BY <2>3
<1>3. ASSUME CallerStep(c) PROVE Attempt(c)
  BY <1>1, <1>3 DEF CallerStep, TryOnce, StartAcquire, StartAcquireAuto, StartWaitAvailable,
     Fetch, Resume, GiveUp, Leave, Release
<1>4. ASSUME UNCHANGED pc \/ pc' = Woken(pc) \/ pc' = [d \in Callers |-> "idle"] PROVE FALSE
  <2>1. Woken(pc)[c] = "trying"
    BY <1>1, WokenFacts
  <2>2. QED BY <1>4, <2>1
<1>5. ASSUME NEW p \in Profiles, Drain(p) PROVE FALSE
  BY <1>4, <1>5 DEF Drain
<1>6. ASSUME \/ Tick \/ StartReconcile \/ RecreateFails \/ ReplaceRetired \/ Activate \/ Close
             \/ Restart
      PROVE  FALSE
  BY <1>4, <1>6 DEF Tick, StartReconcile, RecreateFails, ReplaceRetired, Activate, Close, Restart,
     callerVars
<1>7. QED BY <1>2, <1>3, <1>5, <1>6 DEF Next

\* Acquire and AcquireAuto wait for a reason.
THEOREM WaitingHasAReason == Spec => WaitsOnlyWhenFull
<1> DEFINE Full == \A c \in Callers :
                     pc[c] = "trying" /\ pc'[c] = "fetching" /\ Admitted(KindOf(c)) =>
                       \A p \in Profiles :
                         entry'[p].state \in Serving => entry'[p].inFlight >= Capacity[p]
<1>1. ASSUME IInv, Next PROVE Full
  <2> SUFFICES ASSUME NEW c \in Callers, pc[c] = "trying", pc'[c] = "fetching",
                      Admitted(KindOf(c)), NEW p \in Profiles, entry'[p].state \in Serving
               PROVE  entry'[p].inFlight >= Capacity[p]
    OBVIOUS
  <2> DEFINE es == [q \in Profiles |-> Reconciled(entry[q])]
  <2>1. Attempt(c)
    BY <1>1, OnlyAttemptsFetch
  <2>2. pc \in [Callers -> PcType]
    BY <1>1 DEF IInv, TypeOK
  <2>3. es \in [Profiles -> EntryType]
    BY <1>1, ReconciledFacts DEF IInv, TypeOK
  <2>4. PICK granted \in {"holding", "leaving"} :
          TryAcquire(c, KindOf(c), NoProfile, granted, "fetching")
    BY <2>1, ConstantsOK DEF Attempt, KindOf
  <2>5. PICK preferred \in Serving : NoSlot(c, KindOf(c), preferred, NoProfile, "fetching")
    <3>1. ~Refused(c, KindOf(c), "fetching")
      BY DEF Refused
    <3>2. \A preferred \in Serving : ~Reserved(c, KindOf(c), preferred, NoProfile, granted)
      BY <2>2 DEF Reserved
    <3>3. QED BY <2>4, <3>1, <3>2 DEF TryAcquire
  <2>6. entry' = es /\ Selected(es, preferred, NoProfile) = {}
    BY <2>5 DEF NoSlot
  <2> HIDE DEF es
  <2>7. p \notin Candidates(es, entry'[p].state, NoProfile)
    BY <2>3, <2>6, SelectionOverlooksNothing
  <2>8. ~(es[p].inFlight < Capacity[p])
    BY <2>6, <2>7, ConstantsOK DEF Candidates
  <2>9. es[p].inFlight \in Nat /\ Capacity[p] \in Nat
    BY <2>3, ConstantsOK DEF EntryType
  <2>10. QED BY <2>6, <2>8, <2>9
<1>2. IInv /\ [Next]_vars => [Full]_vars
  BY <1>1
<1>3. QED BY <1>2, InductiveInvariant, PTL DEF Spec, WaitsOnlyWhenFull

-----------------------------------------------------------------------------
(* Drains.                                                                 *)

\* "Drain removes a profile from new scheduling and retires it after in-flight
\* leases finish" (pool.go:146).  It does if the profile has one slot: the lease
\* that is out is the last one, and its release retires the profile whatever it
\* reports.
OneSlotDrainsAreFinal ==
  [][\A p \in Profiles :
       Capacity[p] = 1 /\ entry[p].state = "draining" =>
         entry'[p].state \in {"draining", "retired"} \/ phase' = "starting"]_vars

\* The steps that do not release a lease.
LEMMA DrainingStays ==
  ASSUME IInv, Next, NEW p \in Profiles, entry[p].state = "draining",
         \A c \in Callers, result \in Results : ~Release(c, result)
  PROVE  entry'[p].state \in {"draining", "retired"} \/ phase' = "starting"
<1>1. \A q \in Profiles : entry[q] \in EntryType
  BY DEF IInv, TypeOK
<1>2. entry \in [Profiles -> EntryType]
  BY DEF IInv, TypeOK
<1>3. ASSUME UNCHANGED entry PROVE entry'[p].state = "draining"
  BY <1>3
<1>4. ASSUME NEW c \in Callers, NEW kind, NEW x, NEW granted, NEW refused,
             TryAcquire(c, kind, x, granted, refused)
      PROVE  entry'[p].state = "draining"
  <2> DEFINE es == [q \in Profiles |-> Reconciled(entry[q])]
  <2>1. es[p] = entry[p] /\ es \in [Profiles -> EntryType]
    BY <1>1, ReconciledFacts DEF Reconciled
  <2>2. \/ entry' = entry \/ entry' = es
        \/ \E q : entry' = [es EXCEPT ![q].inFlight = @ + 1]
    BY <1>4 DEF TryAcquire, Refused, NoSlot, Reserved
  <2> HIDE DEF es
  <2>3. QED BY <1>1, <2>1, <2>2 DEF EntryType
<1>5. ASSUME NEW c \in Callers, CallerStep(c)
      PROVE  entry'[p].state \in {"draining", "retired"}
  BY <1>3, <1>4, <1>5 DEF CallerStep, TryOnce, Attempt, StartAcquire, StartAcquireAuto,
     StartWaitAvailable, Fetch, Resume, GiveUp, Leave
<1>6. ASSUME NEW q \in Profiles, Drain(q) PROVE entry'[p].state \in {"draining", "retired"}
  BY <1>1, <1>2, <1>6 DEF Drain, DrainState, EntryType
<1>7. ASSUME Tick PROVE entry'[p].state = "draining"
  BY <1>1, <1>7 DEF Tick, EntryType
<1>8. ASSUME ReplaceRetired PROVE entry'[p].state = "draining"
  <2>1. NextTodo \in Profiles
    BY <1>8, NextTodoFacts DEF ReplaceRetired, IInv, TypeOK
  <2>2. CASE entry[NextTodo].state # "retired"
    BY <1>3, <1>8, <2>2 DEF ReplaceRetired
  <2>3. CASE entry[NextTodo].state = "retired"
    <3>1. entry' = [entry EXCEPT ![NextTodo] = entry'[NextTodo]] /\ NextTodo # p
      BY <1>2, <1>8, <2>1, <2>3 DEF ReplaceRetired
    <3>2. QED BY <1>2, <3>1
  <2>4. QED BY <2>2, <2>3
<1>9. ASSUME Activate PROVE entry'[p].state \in {"draining", "retired"}
  BY <1>1, <1>9 DEF Activate, Activated, EntryType
<1>10. ASSUME Close PROVE entry'[p].state = "retired"
  BY <1>1, <1>10 DEF Close, EntryType
<1>11. ASSUME StartReconcile \/ RecreateFails PROVE entry'[p].state = "draining"
  BY <1>3, <1>11 DEF StartReconcile, RecreateFails
<1>12. ASSUME Restart PROVE phase' = "starting"
  BY <1>12 DEF Restart
<1>13. QED
  BY <1>5, <1>6, <1>7, <1>8, <1>9, <1>10, <1>11, <1>12 DEF Next

\* Profiles of one slot, which is what all providers but Bing are configured
\* with (config.go:90), drain as documented.
THEOREM OneSlotDrainsEnd == Spec => OneSlotDrainsAreFinal
<1> DEFINE Final == \A p \in Profiles :
                      Capacity[p] = 1 /\ entry[p].state = "draining" =>
                        entry'[p].state \in {"draining", "retired"} \/ phase' = "starting"
<1>1. ASSUME IInv, Next PROVE Final
  <2> SUFFICES ASSUME NEW p \in Profiles, Capacity[p] = 1, entry[p].state = "draining"
               PROVE  entry'[p].state \in {"draining", "retired"} \/ phase' = "starting"
    OBVIOUS
  <2>1. ASSUME NEW c \in Callers, NEW result \in Results, Release(c, result), lease[c] = p
        PROVE  entry'[p].state = "retired"
    <3>1. /\ entry[p] \in EntryType /\ entry \in [Profiles -> EntryType]
          /\ entry[p].inFlight = Cardinality(HoldersOf(p)) /\ entry[p].inFlight <= 1
      BY <1>1 DEF IInv, TypeOK, LeaseAccounting
    <3>2. c \in HoldersOf(p) /\ IsFiniteSet(HoldersOf(p))
      BY <2>1, CallersFinite DEF HoldersOf
    <3>3. entry[p].inFlight = 1
      <4>1. Cardinality(HoldersOf(p)) # 0
        BY <3>2, FS_EmptySet
      <4>2. QED BY <3>1, <4>1 DEF EntryType
    <3> DEFINE e == Returned(entry[p])
    <3>4. e \in EntryType /\ e.inFlight = 0 /\ e.state = "draining"
      BY <3>1, <3>3, ReturnedFacts
    <3>5. entry' = [entry EXCEPT ![p] = [e EXCEPT !.state = "retired"]]
      BY <2>1, <3>4 DEF Release
    <3> HIDE DEF e
    <3>6. QED BY <3>1, <3>4, <3>5 DEF EntryType
  <2>2. ASSUME NEW c \in Callers, NEW result \in Results, Release(c, result), lease[c] # p
        PROVE  entry'[p] = entry[p]
    <3>1. lease[c] \in Profiles /\ entry \in [Profiles -> EntryType]
      BY <1>1, <2>2 DEF Release, IInv, TypeOK, CallerShape
    <3>2. \E e : entry' = [entry EXCEPT ![lease[c]] = e]
      BY <2>2 DEF Release
    <3>3. QED BY <2>2, <3>1, <3>2
  <2>3. QED BY <1>1, <2>1, <2>2, DrainingStays
<1>2. IInv /\ [Next]_vars => [Final]_vars
  BY <1>1
<1>3. QED BY <1>2, InductiveInvariant, PTL DEF Spec, OneSlotDrainsAreFinal

-----------------------------------------------------------------------------
(* Cooldowns.                                                              *)

Cooling == {"quarantined", "degraded"}

\* A ban quarantines a profile for its whole cooldown (lease.go:82).  It does if
\* the profile has one slot: nobody else holds a lease on it whose report could
\* shorten the cooldown, make a quarantine a degradation, or start either anew.
\* Only time brings its end nearer, and only Drain, Close and a restart end it
\* earlier.  With two slots this does not hold.
OneSlotCoolsFully ==
  [][\A p \in Profiles :
       Capacity[p] = 1 /\ entry[p].state \in Cooling /\ entry[p].remaining > 0 =>
         \/ /\ entry'[p].state = entry[p].state
            /\ entry'[p].remaining \in {entry[p].remaining, entry[p].remaining - 1}
         \/ entry'[p].state = "retired"
         \/ phase' = "starting"]_vars

\* What makes it so: while a profile of one slot cools down, nobody has a lease
\* on it.
CoolingIsIdle ==
  \A p \in Profiles :
    Capacity[p] = 1 /\ entry[p].state \in Cooling => entry[p].inFlight = 0

\* What a step that releases no lease makes of a profile: it cools down as
\* before, or it does not cool down and had a reason to stop.
CoolsOn(p) ==
  /\ entry[p].state \in Cooling /\ entry'[p].state = entry[p].state
  /\ entry'[p].inFlight = entry[p].inFlight
  /\ entry'[p].remaining \in {entry[p].remaining, entry[p].remaining - 1}

CoolsNoMore(p) ==
  /\ entry'[p].state \notin Cooling
  /\ \/ entry[p].state \notin Cooling
     \/ entry[p].remaining = 0
     \/ entry'[p].state = "retired"
     \/ entry[p].inFlight # 0
     \/ phase' = "starting"

\* A profile whose entry stays as it is cools down as before, or not at all.
LEMMA UntouchedCools ==
  ASSUME NEW p \in Profiles, entry'[p] = entry[p]
  PROVE  CoolsOn(p) \/ CoolsNoMore(p)
BY DEF CoolsOn, CoolsNoMore

\* Only the end of the cooldown brings a profile back to selection, and only
\* then does it get a lease.
LEMMA TryAcquireCools ==
  ASSUME IInv, NEW p \in Profiles,
         NEW c \in Callers, NEW kind, NEW x, NEW granted, NEW refused,
         TryAcquire(c, kind, x, granted, refused)
  PROVE  CoolsOn(p) \/ CoolsNoMore(p)
<1> DEFINE es == [q \in Profiles |-> Reconciled(entry[q])]
<1>1. \A q \in Profiles : entry[q] \in EntryType
  BY DEF IInv, TypeOK
<1>2. es \in [Profiles -> EntryType]
  BY <1>1, ReconciledFacts
<1>3. \/ es[p] = entry[p]
      \/ entry[p].state \in Cooling /\ entry[p].remaining = 0 /\ es[p].state \notin Cooling
  <2>1. \/ Reconciled(entry[p]) = entry[p]
        \/ /\ entry[p].state \in Cooling /\ entry[p].remaining = 0
           /\ Reconciled(entry[p]).state \in {"retired", "draining", "probation"}
    BY <1>1 DEF Reconciled, Cooling, EntryType, DrainState
  <2>2. QED BY <2>1 DEF Cooling
<1>4. CASE entry' = entry
  BY <1>4, UntouchedCools
<1>5. CASE entry' = es
  BY <1>3, <1>5 DEF CoolsOn, CoolsNoMore, Cooling
<1>6. CASE \E preferred \in Serving :
             \E q \in Selected(es, preferred, x) : entry' = [es EXCEPT ![q].inFlight = @ + 1]
  <2> HIDE DEF es
  <2>1. PICK q \in Profiles : /\ es[q].state \in Serving
                              /\ entry' = [es EXCEPT ![q].inFlight = @ + 1]
    BY <1>6, SelectedFacts
  <2>2. CASE p # q
    <3>1. entry'[p] = es[p]
      BY <1>2, <2>1, <2>2
    <3>2. QED BY <1>3, <3>1 DEF CoolsOn, CoolsNoMore, Cooling
  <2>3. CASE p = q
    <3>1. entry'[p].state = es[p].state /\ es[p].state \notin Cooling
      BY <1>2, <2>1, <2>3 DEF EntryType, Serving, Cooling
    <3>2. QED BY <1>3, <3>1 DEF CoolsNoMore
  <2>4. QED BY <2>2, <2>3
<1>7. QED
  BY <1>4, <1>5, <1>6 DEF TryAcquire, Refused, NoSlot, Reserved

\* The steps that do not release a lease.
LEMMA CoolingStep ==
  ASSUME IInv, Next, NEW p \in Profiles,
         \A c \in Callers, result \in Results : ~Release(c, result)
  PROVE  CoolsOn(p) \/ CoolsNoMore(p)
<1>1. \A q \in Profiles : entry[q] \in EntryType
  BY DEF IInv, TypeOK
<1>2. entry \in [Profiles -> EntryType]
  BY DEF IInv, TypeOK
<1>3. ASSUME UNCHANGED entry PROVE CoolsOn(p) \/ CoolsNoMore(p)
  BY <1>3, UntouchedCools
<1>4. ASSUME NEW c \in Callers, CallerStep(c) PROVE CoolsOn(p) \/ CoolsNoMore(p)
  BY <1>3, <1>4, TryAcquireCools DEF CallerStep, TryOnce, Attempt, StartAcquire,
     StartAcquireAuto, StartWaitAvailable, Fetch, Resume, GiveUp, Leave
<1>5. ASSUME NEW q \in Profiles, Drain(q) PROVE CoolsOn(p) \/ CoolsNoMore(p)
  <2>1. entry' = [entry EXCEPT ![q].state = DrainState(entry[q].inFlight)]
    BY <1>5 DEF Drain
  <2>2. CASE p # q
    BY <1>2, <2>1, <2>2, UntouchedCools
  <2>3. CASE p = q
    <3>1. entry'[p].state = DrainState(entry[p].inFlight)
      BY <1>1, <1>2, <2>1, <2>3 DEF EntryType
    <3>2. QED BY <3>1 DEF DrainState, CoolsNoMore, Cooling
  <2>4. QED BY <2>2, <2>3
<1>6. ASSUME Tick PROVE CoolsOn(p) \/ CoolsNoMore(p)
  <2>1. /\ entry'[p].state = entry[p].state /\ entry'[p].inFlight = entry[p].inFlight
        /\ entry'[p].remaining \in {entry[p].remaining, entry[p].remaining - 1}
    BY <1>1, <1>6 DEF Tick, EntryType
  <2>2. QED BY <2>1 DEF CoolsOn, CoolsNoMore
<1>7. ASSUME ReplaceRetired PROVE CoolsOn(p) \/ CoolsNoMore(p)
  <2>1. NextTodo \in Profiles
    BY <1>7, NextTodoFacts DEF ReplaceRetired, IInv, TypeOK
  <2>2. CASE entry[NextTodo].state # "retired"
    BY <1>3, <1>7, <2>2 DEF ReplaceRetired
  <2>3. CASE entry[NextTodo].state = "retired" /\ NextTodo # p
    <3>1. entry' = [entry EXCEPT ![NextTodo] = entry'[NextTodo]]
      BY <1>2, <1>7, <2>1, <2>3 DEF ReplaceRetired
    <3>2. QED BY <1>2, <2>3, <3>1, UntouchedCools
  <2>4. CASE entry[NextTodo].state = "retired" /\ NextTodo = p
    <3>1. entry'[p].state = "probation"
      BY <1>1, <1>2, <1>7, <2>4 DEF ReplaceRetired, FreshEntry
    <3>2. QED BY <2>4, <3>1 DEF CoolsNoMore, Cooling
  <2>5. QED BY <2>2, <2>3, <2>4
<1>8. ASSUME Activate PROVE CoolsOn(p) \/ CoolsNoMore(p)
  <2>1. CASE entry' = [q \in Profiles |-> Activated(q)]
    <3>1. CASE entry[p].state = "warming"
      <4>1. entry'[p].state = entry[p].recovery /\ entry[p].recovery \in Serving
        BY <1>1, <2>1, <3>1 DEF Activated, EntryType
      <4>2. QED BY <3>1, <4>1 DEF CoolsNoMore, Cooling, Serving
    <3>2. CASE entry[p].state # "warming"
      <4>1. entry'[p] = entry[p]
        BY <1>1, <2>1, <3>2 DEF Activated, EntryType
      <4>2. QED BY <4>1, UntouchedCools
    <3>3. QED BY <3>1, <3>2
  <2>2. CASE entry' = [q \in Profiles |-> [entry[q] EXCEPT !.state = "retired", !.open = FALSE]]
    <3>1. entry'[p].state = "retired"
      BY <1>1, <2>2 DEF EntryType
    <3>2. QED BY <3>1 DEF CoolsNoMore, Cooling
  <2>3. QED BY <1>8, <2>1, <2>2 DEF Activate
<1>9. ASSUME Close PROVE CoolsOn(p) \/ CoolsNoMore(p)
  <2>1. entry'[p].state = "retired"
    BY <1>1, <1>9 DEF Close, EntryType
  <2>2. QED BY <2>1 DEF CoolsNoMore, Cooling
<1>10. ASSUME StartReconcile \/ RecreateFails PROVE CoolsOn(p) \/ CoolsNoMore(p)
  BY <1>3, <1>10 DEF StartReconcile, RecreateFails
<1>11. ASSUME Restart PROVE CoolsOn(p) \/ CoolsNoMore(p)
  <2>1. entry'[p].state = "warming"
    <3>1. PICK kept \in [Profiles -> 0 .. MinSamples] :
            entry' = [q \in Profiles |-> LoadedEntry(disk[q], kept[q])]
      BY <1>11 DEF Restart
    <3>2. entry'[p] = LoadedEntry(disk[p], kept[p]) /\ disk[p] \in ManifestType
      BY <3>1 DEF IInv, TypeOK
    <3>3. kept[p] \in 0 .. MinSamples
      OBVIOUS
    <3>4. QED BY <3>2, <3>3, LoadedFacts
  <2>2. QED BY <1>11, <2>1 DEF CoolsNoMore, Cooling, Restart
<1>12. QED
  BY <1>4, <1>5, <1>6, <1>7, <1>8, <1>9, <1>10, <1>11 DEF Next

\* A release leaves a profile of one slot idle, and no other profile notices.
LEMMA ReleaseLeavesIdle ==
  ASSUME IInv, NEW p \in Profiles, NEW c \in Callers, NEW result \in Results,
         Release(c, result)
  PROVE  /\ lease[c] # p => entry'[p] = entry[p]
         /\ lease[c] = p => entry[p].inFlight # 0
         /\ lease[c] = p /\ Capacity[p] = 1 => entry'[p].inFlight = 0
<1>1. ASSUME lease[c] # p PROVE entry'[p] = entry[p]
  <2>1. lease[c] \in Profiles /\ entry \in [Profiles -> EntryType]
    BY DEF Release, IInv, TypeOK, CallerShape
  <2>2. \E e : entry' = [entry EXCEPT ![lease[c]] = e]
    BY DEF Release
  <2>3. QED BY <1>1, <2>1, <2>2
<1>2. ASSUME lease[c] = p
      PROVE  entry[p].inFlight # 0 /\ (Capacity[p] = 1 => entry'[p].inFlight = 0)
  <2>1. /\ entry[p] \in EntryType /\ entry \in [Profiles -> EntryType]
        /\ entry[p].inFlight = Cardinality(HoldersOf(p)) /\ entry[p].inFlight <= Capacity[p]
    BY DEF IInv, TypeOK, LeaseAccounting
  <2>2. c \in HoldersOf(p) /\ IsFiniteSet(HoldersOf(p))
    BY <1>2, CallersFinite DEF HoldersOf
  <2>3. entry[p].inFlight # 0 /\ entry[p].inFlight \in Nat
    <3>1. Cardinality(HoldersOf(p)) # 0
      BY <2>2, FS_EmptySet
    <3>2. QED BY <2>1, <3>1 DEF EntryType
  <2> DEFINE e == Returned(entry[p])
  <2>4. ASSUME Capacity[p] = 1 PROVE entry'[p].inFlight = 0
    <3>1. e \in EntryType /\ e.inFlight = 0
      BY <2>1, <2>3, <2>4, ReturnedFacts
    <3>2. \/ entry' = [entry EXCEPT ![p] = [e EXCEPT !.state = "retired"]]
          \/ entry' = [entry EXCEPT ![p] = e]
          \/ \E promote \in BOOLEAN :
               entry' = [entry EXCEPT ![p] = Judged(Counted(e, result), result, promote)]
      BY <1>2 DEF Release
    <3> HIDE DEF e
    <3>3. \A promote \in BOOLEAN : Judged(Counted(e, result), result, promote).inFlight = 0
      BY <3>1, JudgedFacts
    <3>4. [e EXCEPT !.state = "retired"].inFlight = 0
      BY <3>1 DEF EntryType
    <3>5. QED BY <2>1, <3>1, <3>2, <3>3, <3>4
  <2>5. QED BY <2>3, <2>4
<1>3. QED BY <1>1, <1>2

\* A profile of one slot is idle while it cools down.
THEOREM CoolingProfilesIdle == Spec => []CoolingIsIdle
<1>1. ASSUME Init PROVE CoolingIsIdle
  BY <1>1, FreshFacts DEF Init, CoolingIsIdle, States
<1>2. ASSUME IInv, CoolingIsIdle, [Next]_vars PROVE CoolingIsIdle'
  <2> SUFFICES ASSUME NEW p \in Profiles, Capacity[p] = 1, entry'[p].state \in Cooling
               PROVE  entry'[p].inFlight = 0
    BY DEF CoolingIsIdle
  <2>1. CASE UNCHANGED vars
    BY <1>2, <2>1 DEF vars, CoolingIsIdle
  <2>2. ASSUME NEW c \in Callers, NEW result \in Results, Release(c, result)
        PROVE  entry'[p].inFlight = 0
    BY <1>2, <2>2, ReleaseLeavesIdle DEF CoolingIsIdle
  <2>3. ASSUME Next, \A c \in Callers, result \in Results : ~Release(c, result)
        PROVE  entry'[p].inFlight = 0
    BY <1>2, <2>3, CoolingStep DEF CoolingIsIdle, CoolsOn, CoolsNoMore
  <2>4. QED BY <1>2, <2>1, <2>2, <2>3
<1>3. QED BY <1>1, <1>2, InductiveInvariant, PTL DEF Spec

\* A profile of one slot serves its cooldown in full.
THEOREM OneSlotServesCooldown == Spec => OneSlotCoolsFully
<1> DEFINE Kept == \A p \in Profiles :
       Capacity[p] = 1 /\ entry[p].state \in Cooling /\ entry[p].remaining > 0 =>
         \/ /\ entry'[p].state = entry[p].state
            /\ entry'[p].remaining \in {entry[p].remaining, entry[p].remaining - 1}
         \/ entry'[p].state = "retired"
         \/ phase' = "starting"
<1>1. ASSUME IInv, CoolingIsIdle, Next PROVE Kept
  <2> SUFFICES ASSUME NEW p \in Profiles, Capacity[p] = 1,
                      entry[p].state \in Cooling, entry[p].remaining > 0
               PROVE  \/ CoolsOn(p) \/ entry'[p].state = "retired" \/ phase' = "starting"
    BY DEF CoolsOn
  <2>1. entry[p].inFlight = 0 /\ entry[p].remaining # 0
    BY <1>1 DEF CoolingIsIdle, IInv, TypeOK, EntryType
  <2>2. ASSUME NEW c \in Callers, NEW result \in Results, Release(c, result)
        PROVE  CoolsOn(p)
    BY <1>1, <2>1, <2>2, ReleaseLeavesIdle DEF CoolsOn
  <2>3. ASSUME \A c \in Callers, result \in Results : ~Release(c, result)
        PROVE  \/ CoolsOn(p) \/ entry'[p].state = "retired" \/ phase' = "starting"
    BY <1>1, <2>1, <2>3, CoolingStep DEF CoolsNoMore
  <2>4. QED BY <2>2, <2>3
<1>2. IInv /\ CoolingIsIdle /\ [Next]_vars => [Kept]_vars
  BY <1>1
<1>3. QED BY <1>2, InductiveInvariant, CoolingProfilesIdle, PTL DEF Spec, OneSlotCoolsFully
=============================================================================
