----------------------------- MODULE ProfilePool -----------------------------
(***************************************************************************)
(* websearch/internal/profilepool: one provider's pool of search           *)
(* identities ("profiles").  Goroutines lease a slot of a profile, search  *)
(* through it and report the outcome back; the report drives the           *)
(* profile's trust state; a manager replaces retired profiles; counters    *)
(* survive a restart in a manifest file per profile.                       *)
(*                                                                         *)
(* One action is one critical section of Pool.mu (or one step between two  *)
(* of them).  pool.notify, a channel closed and replaced by signal(), is   *)
(* modelled by the program counters: "waiting" blocks on the current       *)
(* channel, "notified" on one that has been closed.                        *)
(*                                                                         *)
(* Abstractions.  Success and failure weights and the EWMA only decide     *)
(* whether a probation profile with enough samples is promoted: that       *)
(* decision is free.  Samples and consecutive failures saturate where the  *)
(* code stops telling them apart, as does the explicit streak.  Absolute   *)
(* deadlines are kept as the time that remains until them.  The hash       *)
(* bucket of a request id, which picks the preferred trust class, is free. *)
(***************************************************************************)
EXTENDS Naturals, FiniteSets

CONSTANTS
  Profiles,                \* profile ids, numbers: ties are broken by id order
  Explicit, Automatic,     \* goroutines that call Acquire / AcquireAuto & co.
  NoProfile,               \* no lease, no excluded profile
  Capacity,                \* [Profiles -> Nat \ {0}]
  MinSamples,              \* TrustConfig.MinSamples
  MaxConsecutiveFailures,  \* TrustConfig.MaxConsecutiveFailures
  MaxRecoveryAttempts,     \* Config.MaxRecoveryAttempts
  QuarantineCooldown, DegradedCooldown,
  Recreatable,             \* whether profiles carry a Recreate factory
  Persistent,              \* Config.Manifest # nil
  SavesCanFail,            \* ManifestStore.Save may return an error
  MaxGeneration,           \* bound: replacements of one profile
  MaxRestarts              \* bound: process restarts

Callers == Explicit \cup Automatic

ASSUME ConstantsOK ==
  /\ Profiles \subseteq Nat /\ IsFiniteSet(Profiles) /\ Profiles # {}
  /\ IsFiniteSet(Explicit) /\ IsFiniteSet(Automatic) /\ Explicit \cap Automatic = {}
  /\ NoProfile \notin Profiles
  /\ Capacity \in [Profiles -> Nat \ {0}]
  /\ MinSamples \in Nat \ {0} /\ MaxConsecutiveFailures \in Nat \ {0}
  /\ MaxRecoveryAttempts \in Nat \ {0}
  /\ QuarantineCooldown \in Nat \ {0} /\ DegradedCooldown \in Nat \ {0}
  /\ Recreatable \in BOOLEAN /\ Persistent \in BOOLEAN
  /\ SavesCanFail \in BOOLEAN /\ (SavesCanFail => Persistent)
  /\ MaxGeneration \in Nat /\ MaxRestarts \in Nat

States == {"warming", "probation", "trusted", "degraded", "quarantined",
           "draining", "retired"}
Serving == {"probation", "trusted"}

\* How a search ended, as release() tells outcomes apart: "banned" is captcha
\* or rate_limited, "parse_changed" is not charged to the profile, "failure"
\* is everything else (timeout, network error, empty page).
Results == {"success", "banned", "parse_changed", "failure"}

\* The literal 3 of tryAcquire: explicit leases granted in a row after which
\* explicit callers stand back for a registered auto waiter.
ExplicitBurst == 3

VARIABLES
  entry,            \* the entry struct of each profile
  disk,             \* the manifest file of each profile
  manifestHealthy,  \* whether the last Save succeeded
  phase,            \* "starting" until Activate returns, then "open", "closed"
  autoWaiters, explicitStreak,
  pc, lease,        \* where each caller is, and the profile it holds
  todo,             \* profiles Manager.Reconcile's loop still has to replace
  restarts,         \* restarts so far (bounds the model)
  overtaken         \* history: explicit leases granted past waiting auto
                    \* callers since an auto lease was last granted

callerVars == <<pc, lease>>
fairVars   == <<autoWaiters, explicitStreak, overtaken>>
diskVars   == <<disk, manifestHealthy>>
vars == <<entry, diskVars, phase, fairVars, callerVars, todo, restarts>>

AtMost(n, cap) == IF n < cap THEN n ELSE cap

-----------------------------------------------------------------------------
(* One entry.                                                              *)

FreshEntry(st, gen) ==
  [state |-> st, inFlight |-> 0, samples |-> 0, failures |-> 0,
   attempts |-> 0, remaining |-> 0, generation |-> gen,
   recovery |-> "probation", open |-> TRUE]

\* Mutants of DrainState: leases that are out are ignored; an idle profile waits
\* for a release that never comes.
DrainStateAbrupt(n) == "retired"
DrainStateStuck(n) == "draining"

\* Draining until the last lease is back, retired from then on.
DrainState(n) == IF n = 0 THEN "retired" ELSE "draining"

\* Mutants of Reconciled: > for >= in the recovery limit; retiring at the limit
\* without a look at the leases.
ReconciledOneMore(e) ==
  IF ~(e.state \in {"quarantined", "degraded"} /\ e.remaining = 0) THEN e
  ELSE IF e.attempts > MaxRecoveryAttempts
       THEN [e EXCEPT !.state = DrainState(e.inFlight)]
       ELSE [e EXCEPT !.state = "probation", !.attempts = @ + 1,
                      !.failures = 0]

ReconciledUnderLease(e) ==
  IF ~(e.state \in {"quarantined", "degraded"} /\ e.remaining = 0) THEN e
  ELSE IF e.attempts >= MaxRecoveryAttempts
       THEN [e EXCEPT !.state = "retired"]
       ELSE [e EXCEPT !.state = "probation", !.attempts = @ + 1,
                      !.failures = 0]

\* reconcileLocked: what the end of a cooldown makes of an entry.
Reconciled(e) ==
  IF ~(e.state \in {"quarantined", "degraded"} /\ e.remaining = 0) THEN e
  ELSE IF e.attempts >= MaxRecoveryAttempts
       THEN [e EXCEPT !.state = DrainState(e.inFlight)]
       ELSE [e EXCEPT !.state = "probation", !.attempts = @ + 1,
                      !.failures = 0]

Returned(e) ==
  [e EXCEPT !.inFlight = IF @ > 0 THEN @ - 1 ELSE @]

\* release() past its early returns: counters first, then the state.
Counted(e, result) ==
  [e EXCEPT !.samples = AtMost(@ + 1, MinSamples),
            !.failures = IF result = "success" THEN 0
                         ELSE AtMost(@ + 1, MaxConsecutiveFailures)]

Judged(e, result, promote) ==
  IF result = "banned"
    THEN [e EXCEPT !.state = "quarantined", !.remaining = QuarantineCooldown]
  ELSE IF e.failures >= MaxConsecutiveFailures
    THEN [e EXCEPT !.state = "degraded", !.remaining = DegradedCooldown]
  ELSE IF e.state = "probation" /\ e.samples >= MinSamples /\ promote
    THEN [e EXCEPT !.state = "trusted"]
  ELSE e

\* Manifest, as saveManifest writes it and New reads it back: of DesiredState
\* New only asks whether it is "trusted".  "none": there is no file.
NoManifest ==
  [desired |-> "none", samples |-> 0, failures |-> 0, generation |-> 0,
   remaining |-> 0, attempts |-> 0]

\* Mutant of ManifestOf: the recovery attempts are not written.
ManifestOfForgetful(e) ==
  [desired |-> IF e.state = "trusted" THEN "trusted" ELSE "probation",
   samples |-> e.samples, failures |-> e.failures,
   generation |-> e.generation, remaining |-> e.remaining,
   attempts |-> 0]

ManifestOf(e) ==
  [desired |-> IF e.state = "trusted" THEN "trusted" ELSE "probation",
   samples |-> e.samples, failures |-> e.failures,
   generation |-> e.generation, remaining |-> e.remaining,
   attempts |-> e.attempts]

\* New: the entry a manifest is loaded into, with `kept` of its samples left
\* after the half-life decay.
LoadedEntry(m, kept) ==
  IF m.desired = "none" THEN FreshEntry("warming", 1)
  ELSE [FreshEntry("warming", m.generation + 1) EXCEPT
          !.samples = kept, !.failures = m.failures,
          !.remaining = m.remaining, !.attempts = m.attempts,
          !.recovery = m.desired]

SaveOutcomes == IF SavesCanFail THEN BOOLEAN ELSE {TRUE}

\* Mutant of SaveManifest: the error is dropped.
SaveManifestOptimistic(p, e, ok) ==
  /\ manifestHealthy' = TRUE
  /\ disk' = IF Persistent /\ ok THEN [disk EXCEPT ![p] = ManifestOf(e)]
             ELSE disk

\* saveManifest: temporary file and rename, so the file holds the old manifest
\* or the new one; an error leaves the old one.
SaveManifest(p, e, ok) ==
  /\ manifestHealthy' = ok
  /\ disk' = IF Persistent /\ ok THEN [disk EXCEPT ![p] = ManifestOf(e)]
             ELSE disk

\* signal(): everyone blocked on the current channel is woken.
Woken(pcs) ==
  [c \in Callers |-> CASE pcs[c] = "waiting"  -> "notified"
                       [] pcs[c] = "watching" -> "leaving"
                       [] OTHER               -> pcs[c]]

-----------------------------------------------------------------------------
(* Selection.                                                              *)

\* Mutant of Candidates: <= for < in the capacity check.
CandidatesOverfull(es, st, excluded) ==
  {p \in Profiles : /\ p # excluded
                    /\ es[p].state = st
                    /\ es[p].inFlight <= Capacity[p]}

Candidates(es, st, excluded) ==
  {p \in Profiles : /\ p # excluded
                    /\ es[p].state = st
                    /\ es[p].inFlight < Capacity[p]}

LessLoaded(es, p, q) ==
  LET left  == es[p].inFlight * Capacity[q]
      right == es[q].inFlight * Capacity[p]
  IN left < right \/ (left = right /\ p < q)

\* selectEntry, as the set of its result (empty for nil).
SelectEntry(es, st, excluded) ==
  {p \in Candidates(es, st, excluded) :
     \A q \in Candidates(es, st, excluded) \ {p} : LessLoaded(es, p, q)}

Other(st) == IF st = "trusted" THEN "probation" ELSE "trusted"

Selected(es, preferred, excluded) ==
  LET first == SelectEntry(es, preferred, excluded)
  IN IF first # {} THEN first ELSE SelectEntry(es, Other(preferred), excluded)

-----------------------------------------------------------------------------
(* Taking leases.                                                          *)

\* The kinds of tryAcquire's callers: "explicit" (Acquire), "auto"
\* (AcquireAuto, TryAcquireAuto and TryAcquireAutoExcept), "plain".
Kinds == {"explicit", "auto", "plain"}

\* Mutant of Admitted: > for >= in the explicit burst.
AdmittedOneMore(kind) ==
  /\ phase # "closed" /\ manifestHealthy
  /\ ~(kind = "explicit" /\ autoWaiters > 0 /\ explicitStreak > ExplicitBurst)

Admitted(kind) ==
  /\ phase # "closed" /\ manifestHealthy
  /\ ~(kind = "explicit" /\ autoWaiters > 0 /\ explicitStreak >= ExplicitBurst)

Charge(kind) ==
  /\ explicitStreak' = CASE kind = "auto" -> 0
                         [] kind = "explicit" -> AtMost(explicitStreak + 1, ExplicitBurst)
                         [] OTHER -> explicitStreak
  /\ overtaken' = CASE kind = "auto" -> 0
                    [] kind = "explicit" /\ autoWaiters > 0 -> overtaken + 1
                    [] OTHER -> overtaken
  /\ UNCHANGED autoWaiters

\* tryAcquire: the whole critical section, refused at the door, finding no
\* slot after the reconciliation, or reserving one.
Refused(c, kind, next) ==
  /\ ~Admitted(kind)
  /\ pc' = [pc EXCEPT ![c] = next]
  /\ UNCHANGED <<entry, lease, fairVars>>

NoSlot(c, kind, preferred, excluded, next) ==
  LET es == [p \in Profiles |-> Reconciled(entry[p])]
  IN /\ Admitted(kind)
     /\ Selected(es, preferred, excluded) = {}
     /\ entry' = es
     /\ pc' = [pc EXCEPT ![c] = next]
     /\ UNCHANGED <<lease, fairVars>>

Reserved(c, kind, preferred, excluded, next) ==
  LET es == [p \in Profiles |-> Reconciled(entry[p])]
  IN /\ Admitted(kind)
     /\ \E p \in Selected(es, preferred, excluded) :
          /\ entry' = [es EXCEPT ![p].inFlight = @ + 1]
          /\ lease' = [lease EXCEPT ![c] = p]
     /\ pc' = [pc EXCEPT ![c] = next]
     /\ Charge(kind)

TryAcquire(c, kind, excluded, granted, refused) ==
  /\ \/ Refused(c, kind, refused)
     \/ \E preferred \in Serving :
          \/ NoSlot(c, kind, preferred, excluded, refused)
          \/ Reserved(c, kind, preferred, excluded, granted)
  /\ UNCHANGED <<diskVars, phase, todo, restarts>>

\* TryAcquire, TryAcquireAuto, TryAcquireAutoExcept: one attempt, no waiting.
TryOnce(c) ==
  /\ phase # "starting" /\ c \in Automatic /\ pc[c] = "idle"
  /\ \/ TryAcquire(c, "plain", NoProfile, "holding", "idle")
     \/ \E x \in Profiles \cup {NoProfile} :
          TryAcquire(c, "auto", x, "holding", "idle")

\* Acquire.
StartAcquire(c) ==
  /\ phase # "starting" /\ c \in Explicit /\ pc[c] = "idle"
  /\ pc' = [pc EXCEPT ![c] = "trying"]
  /\ UNCHANGED <<entry, diskVars, phase, fairVars, lease, todo, restarts>>

\* AcquireAuto registers the waiter before its first attempt.
StartAcquireAuto(c) ==
  /\ phase # "starting" /\ c \in Automatic /\ pc[c] = "idle"
  /\ pc' = [pc EXCEPT ![c] = "trying"]
  /\ autoWaiters' = autoWaiters + 1
  /\ UNCHANGED <<entry, diskVars, phase, explicitStreak, overtaken, lease, todo,
                 restarts>>

\* WaitAvailable registers and takes the channel in one critical section.
StartWaitAvailable(c) ==
  /\ phase # "starting" /\ c \in Automatic /\ pc[c] = "idle"
  /\ pc' = [pc EXCEPT ![c] = "watching"]
  /\ autoWaiters' = autoWaiters + 1
  /\ UNCHANGED <<entry, diskVars, phase, explicitStreak, overtaken, lease, todo,
                 restarts>>

\* The loop of Acquire and AcquireAuto: attempt, then take the channel in a
\* second critical section, then block on it and on ctx.
Attempt(c) ==
  /\ pc[c] = "trying"
  /\ \/ c \in Explicit /\ TryAcquire(c, "explicit", NoProfile, "holding", "fetching")
     \/ c \in Automatic /\ TryAcquire(c, "auto", NoProfile, "leaving", "fetching")

Fetch(c) ==
  /\ pc[c] = "fetching"
  /\ pc' = [pc EXCEPT ![c] = "waiting"]
  /\ UNCHANGED <<entry, diskVars, phase, fairVars, lease, todo, restarts>>

Resume(c) ==
  /\ pc[c] = "notified"
  /\ pc' = [pc EXCEPT ![c] = "trying"]
  /\ UNCHANGED <<entry, diskVars, phase, fairVars, lease, todo, restarts>>

\* Mutant of GiveUp: WaitAvailable does not look at its context.
GiveUpDeaf(c) ==
  /\ pc[c] \in {"waiting", "notified"}
  /\ pc' = [pc EXCEPT ![c] = IF c \in Automatic THEN "leaving" ELSE "idle"]
  /\ UNCHANGED <<entry, diskVars, phase, fairVars, lease, todo, restarts>>

\* ctx is done: select may take that branch even if the channel is closed.
GiveUp(c) ==
  /\ pc[c] \in {"waiting", "notified", "watching"}
  /\ pc' = [pc EXCEPT ![c] = IF c \in Automatic THEN "leaving" ELSE "idle"]
  /\ UNCHANGED <<entry, diskVars, phase, fairVars, lease, todo, restarts>>

\* Mutant of Leave: the waiter is unregistered only when it got no lease.
LeaveUncounted(c) ==
  /\ pc[c] = "leaving"
  /\ pc' = [pc EXCEPT ![c] = IF lease[c] = NoProfile THEN "idle" ELSE "holding"]
  /\ autoWaiters' = IF lease[c] = NoProfile THEN autoWaiters - 1 ELSE autoWaiters
  /\ overtaken' = IF autoWaiters = 1 THEN 0 ELSE overtaken
  /\ UNCHANGED <<entry, diskVars, phase, explicitStreak, lease, todo, restarts>>

\* The deferred autoWaiters-- of AcquireAuto and WaitAvailable, in a critical
\* section of its own, after the lease was granted or given up; no signal.
Leave(c) ==
  /\ pc[c] = "leaving"
  /\ pc' = [pc EXCEPT ![c] = IF lease[c] = NoProfile THEN "idle" ELSE "holding"]
  /\ autoWaiters' = autoWaiters - 1
  /\ overtaken' = IF autoWaiters = 1 THEN 0 ELSE overtaken
  /\ UNCHANGED <<entry, diskVars, phase, explicitStreak, lease, todo, restarts>>

-----------------------------------------------------------------------------
(* Giving leases back.                                                     *)

\* release(): the last lease of a draining profile retires it and the result
\* is dropped; parse_changed only returns the slot; any other result is
\* counted, judged and saved.  A failed Save is reported after the signal.
Release(c, result) ==
  LET p == lease[c]
      e == Returned(entry[p])
  IN /\ pc[c] = "holding"
     /\ \/ /\ e.state = "draining" /\ e.inFlight = 0
           /\ entry' = [entry EXCEPT ![p] = [e EXCEPT !.state = "retired"]]
           /\ \E ok \in SaveOutcomes : SaveManifest(p, entry'[p], ok)
        \/ /\ ~(e.state = "draining" /\ e.inFlight = 0)
           /\ result = "parse_changed"
           /\ entry' = [entry EXCEPT ![p] = e]
           /\ UNCHANGED diskVars
        \/ /\ ~(e.state = "draining" /\ e.inFlight = 0)
           /\ result # "parse_changed"
           /\ \E promote \in BOOLEAN :
                entry' = [entry EXCEPT ![p] = Judged(Counted(e, result), result, promote)]
           /\ \E ok \in SaveOutcomes : SaveManifest(p, entry'[p], ok)
     /\ lease' = [lease EXCEPT ![c] = NoProfile]
     /\ pc' = Woken([pc EXCEPT ![c] = "idle"])
     /\ UNCHANGED <<phase, fairVars, todo, restarts>>

-----------------------------------------------------------------------------
(* Lifecycle.                                                              *)

\* Time passes for every cooldown, in memory and on disk.
Tick ==
  /\ \E p \in Profiles : entry[p].remaining > 0 \/ disk[p].remaining > 0
  /\ entry' = [p \in Profiles |-> [entry[p] EXCEPT !.remaining = IF @ > 0 THEN @ - 1 ELSE 0]]
  /\ disk' = [p \in Profiles |-> [disk[p] EXCEPT !.remaining = IF @ > 0 THEN @ - 1 ELSE 0]]
  /\ UNCHANGED <<manifestHealthy, phase, fairVars, callerVars, todo, restarts>>

\* Drain: a failed Save returns before the signal.
Drain(p) ==
  /\ phase = "open"
  /\ entry' = [entry EXCEPT ![p].state = DrainState(entry[p].inFlight)]
  /\ \E ok \in SaveOutcomes :
       /\ SaveManifest(p, entry'[p], ok)
       /\ pc' = IF ok THEN Woken(pc) ELSE pc
  /\ UNCHANGED <<phase, fairVars, lease, todo, restarts>>

\* Mutant of StartReconcile: nothing is replaced while any profile serves.
StartReconcileAllRetired ==
  /\ phase = "open" /\ todo = {}
  /\ \A p \in Profiles : entry[p].state = "retired"
  /\ todo' = Profiles
  /\ UNCHANGED <<entry, diskVars, phase, fairVars, callerVars, restarts>>

\* Manager.Reconcile reads a snapshot and then, without the lock between two
\* iterations, replaces the profiles that were retired in it, in order; the
\* first error ends the loop.
StartReconcile ==
  /\ phase = "open" /\ todo = {}
  /\ \E p \in Profiles : entry[p].state = "retired"
  /\ todo' = {p \in Profiles : entry[p].state = "retired"}
  /\ UNCHANGED <<entry, diskVars, phase, fairVars, callerVars, restarts>>

NextTodo == CHOOSE p \in todo : \A q \in todo : p <= q

\* recreate: no factory, or the factory fails.
RecreateFails ==
  /\ todo # {}
  /\ todo' = {}
  /\ UNCHANGED <<entry, diskVars, phase, fairVars, callerVars, restarts>>

\* replaceRetired, with the replacement recreate() returned: closes the old
\* resource, installs the new one with clean counters; the deadline of an old
\* cooldown is left in place.  Closing never fails for the profiles built in
\* bootstrap/search_runtime.go.
ReplaceRetired ==
  LET p == NextTodo
      e == entry[p]
  IN /\ todo # {} /\ Recreatable
     /\ IF e.state # "retired"
          THEN todo' = {} /\ UNCHANGED <<entry, diskVars, pc>>
          ELSE /\ e.generation < MaxGeneration
               /\ entry' = [entry EXCEPT ![p] =
                    [FreshEntry("probation", e.generation + 1) EXCEPT !.remaining = e.remaining]]
               /\ \E ok \in SaveOutcomes :
                    /\ SaveManifest(p, entry'[p], ok)
                    /\ pc' = IF ok THEN Woken(pc) ELSE pc
                    /\ todo' = IF ok THEN todo \ {p} ELSE {}
     /\ UNCHANGED <<phase, fairVars, lease, restarts>>

\* Close, called by searchRuntime.Close once the reconcile goroutine is gone
\* (todo = {}), with leases possibly still out.
Close ==
  /\ phase = "open" /\ todo = {}
  /\ phase' = "closed"
  /\ entry' = [p \in Profiles |-> [entry[p] EXCEPT !.state = "retired", !.open = FALSE]]
  /\ pc' = Woken(pc)
  /\ UNCHANGED <<diskVars, fairVars, lease, todo, restarts>>

\* Activate ends the warming; it saves profile by profile and stops at the
\* first error, upon which newManagedPool closes the pool and start-up fails.
Activated(p) == [entry[p] EXCEPT !.state = IF @ = "warming" THEN entry[p].recovery ELSE @]

SaveActivated(ps) ==
  disk' = [p \in Profiles |-> IF Persistent /\ p \in ps THEN ManifestOf(Activated(p))
                              ELSE disk[p]]

Activate ==
  /\ phase = "starting"
  /\ \/ /\ entry' = [p \in Profiles |-> Activated(p)]
        /\ SaveActivated(Profiles)
        /\ phase' = "open"
        /\ UNCHANGED manifestHealthy
     \/ /\ SavesCanFail
        /\ \E failing \in Profiles : SaveActivated({p \in Profiles : p < failing})
        /\ entry' = [p \in Profiles |-> [entry[p] EXCEPT !.state = "retired", !.open = FALSE]]
        /\ manifestHealthy' = FALSE
        /\ phase' = "closed"
  /\ UNCHANGED <<fairVars, callerVars, todo, restarts>>

\* The process dies, whatever it was doing, and a new one runs New.
Restart ==
  /\ Persistent /\ restarts < MaxRestarts
  /\ restarts' = restarts + 1
  /\ \E kept \in [Profiles -> 0 .. MinSamples] :
       /\ \A p \in Profiles : kept[p] <= disk[p].samples
       /\ entry' = [p \in Profiles |-> LoadedEntry(disk[p], kept[p])]
  /\ manifestHealthy' = TRUE
  /\ phase' = "starting"
  /\ autoWaiters' = 0 /\ explicitStreak' = 0 /\ overtaken' = 0
  /\ pc' = [c \in Callers |-> "idle"]
  /\ lease' = [c \in Callers |-> NoProfile]
  /\ todo' = {}
  /\ UNCHANGED disk

-----------------------------------------------------------------------------
Init ==
  /\ entry = [p \in Profiles |-> FreshEntry(IF Persistent THEN "warming" ELSE "probation", 1)]
  /\ disk = [p \in Profiles |-> NoManifest]
  /\ manifestHealthy = TRUE
  /\ phase = "starting"
  /\ autoWaiters = 0 /\ explicitStreak = 0 /\ overtaken = 0
  /\ pc = [c \in Callers |-> "idle"]
  /\ lease = [c \in Callers |-> NoProfile]
  /\ todo = {}
  /\ restarts = 0

CallerStep(c) ==
  \/ TryOnce(c) \/ StartAcquire(c) \/ StartAcquireAuto(c) \/ StartWaitAvailable(c)
  \/ Attempt(c) \/ Fetch(c) \/ Resume(c) \/ GiveUp(c) \/ Leave(c)
  \/ \E result \in Results : Release(c, result)

Next ==
  \/ \E c \in Callers : CallerStep(c)
  \/ \E p \in Profiles : Drain(p)
  \/ Tick \/ StartReconcile \/ RecreateFails \/ ReplaceRetired
  \/ Activate \/ Close \/ Restart

Spec == Init /\ [][Next]_vars

\* Goroutines run; a search ends because its context does, and then its lease
\* is released; a context expires, and a select whose context is done and
\* whose channel keeps being closed does not ignore the context forever; the
\* reconcile ticker fires, and recreating a profile does not fail forever.
Fairness ==
  /\ \A c \in Callers :
       /\ WF_vars(Attempt(c)) /\ WF_vars(Fetch(c)) /\ WF_vars(Resume(c))
       /\ WF_vars(Leave(c)) /\ SF_vars(GiveUp(c))
       /\ WF_vars(\E result \in Results : Release(c, result))
  /\ WF_vars(StartReconcile) /\ SF_vars(ReplaceRetired) /\ WF_vars(Activate)
  /\ WF_vars(Tick)

FairSpec == Spec /\ Fairness

-----------------------------------------------------------------------------
(* Properties.                                                             *)

EntryType ==
  [state : States, inFlight : Nat, samples : 0 .. MinSamples,
   failures : 0 .. MaxConsecutiveFailures, attempts : 0 .. MaxRecoveryAttempts,
   remaining : Nat, generation : Nat, recovery : Serving, open : BOOLEAN]

ManifestType ==
  [desired : Serving \cup {"none"}, samples : 0 .. MinSamples,
   failures : 0 .. MaxConsecutiveFailures, attempts : 0 .. MaxRecoveryAttempts,
   remaining : Nat, generation : Nat]

PcType == {"idle", "trying", "fetching", "waiting", "notified", "watching",
           "leaving", "holding"}

\* Every variable keeps its type.
TypeOK ==
  /\ entry \in [Profiles -> EntryType]
  /\ disk \in [Profiles -> ManifestType]
  /\ manifestHealthy \in BOOLEAN
  /\ phase \in {"starting", "open", "closed"}
  /\ autoWaiters \in Nat /\ explicitStreak \in 0 .. ExplicitBurst /\ overtaken \in Nat
  /\ pc \in [Callers -> PcType]
  /\ lease \in [Callers -> Profiles \cup {NoProfile}]
  /\ todo \subseteq Profiles
  /\ restarts \in Nat

HoldersOf(p) == {c \in Callers : lease[c] = p}

\* The slot counter of a profile is the number of leases that are out, and
\* never more than the profile's capacity: no release is lost or counted
\* twice, whatever drains, replacements, restarts and shutdowns come between
\* a lease's acquisition and its release (pool.go:242, lease.go:53).
LeaseAccounting ==
  \A p \in Profiles : /\ entry[p].inFlight = Cardinality(HoldersOf(p))
                      /\ entry[p].inFlight <= Capacity[p]

\* As long as the pool is not closed, a leased profile is one that still has
\* its resource and has not been retired: a search never runs on a closed
\* session, and the manager's unlocked snapshot-recreate-replace sequence
\* never exchanges a profile under a lease (manager.go:17, pool.go:165).
LeasedProfileIntact ==
  phase # "closed" =>
    \A c \in Callers : lease[c] # NoProfile =>
      entry[lease[c]].open /\ entry[lease[c]].state \notin {"warming", "retired"}

\* A profile never stays in draining with nobody left to finish the drain:
\* only release() retires a draining profile, so every path into draining
\* must leave a lease out (pool.go:154, pool.go:262, lease.go:57).
DrainHasHolder ==
  phase # "closed" =>
    \A p \in Profiles : entry[p].state = "draining" => HoldersOf(p) # {}

\* What Manager.Reconcile read in its snapshot still holds when it acts on
\* it: a profile it is about to replace is still retired (manager.go:21).
SnapshotStillRetired ==
  \A p \in todo : entry[p].state = "retired"

\* The registered-waiter count is exact, over grants, cancellations, wake-ups
\* and the deferred decrement: it neither leaks (explicit callers would be
\* held back for good) nor goes negative (pool.go:303, pool.go:306).
AutoWaitersExact ==
  autoWaiters = Cardinality({c \in Automatic : pc[c] \notin {"idle", "holding"}})

\* While automatic callers are registered, at most three explicit leases are
\* granted in a row before an automatic one (pool.go:229).
ExplicitBurstBounded == overtaken <= ExplicitBurst

\* The promise of LeasePool.tla.
Abstract == INSTANCE LeasePool WITH
              held        <- lease,
              incarnation <- [p \in Profiles |-> entry[p].generation],
              accepting   <- phase = "open"

ImplementsLeasePool == Abstract!Spec

\* An Acquire, AcquireAuto or WaitAvailable call returns: with a lease, or
\* because its context ended (pool.go:285, pool.go:302, pool.go:325).
AcquireReturns ==
  \A c \in Callers : pc[c] \in {"trying", "watching"} ~> pc[c] \in {"idle", "holding"}

\* A retired profile of a recreatable kind is replaced and serves again, or
\* the pool is shut down (manager.go:17, search_runtime.go:167).
BoundReached == \E p \in Profiles : entry[p].generation = MaxGeneration

RetiredIsReplaced ==
  \A p \in Profiles :
    phase = "open" /\ entry[p].state = "retired"
      ~> phase # "open" \/ entry[p].state # "retired" \/ BoundReached

\* manifestHealthy is one flag for the whole pool and remembers the last Save
\* only: with several profiles, one profile's successful Save hides another's
\* failed one.  The two properties below are what the flag buys where that
\* cannot happen and manifests are kept at all.
OneFlagSuffices == Persistent /\ (~SavesCanFail \/ Cardinality(Profiles) = 1)

\* While the pool believes its manifests are healthy, disk holds the reports
\* memory holds: no lease is granted on the strength of a report that a crash
\* would forget (pool.go:225, pool.go:280).
HealthyMeansSaved ==
  OneFlagSuffices /\ manifestHealthy /\ phase = "open" =>
    \A p \in Profiles : /\ disk[p].samples = entry[p].samples
                        /\ disk[p].generation = entry[p].generation

\* Recovery attempts are spent in memory (pool.go:268) and saved only with the
\* next report, yet one crash makes the pool forget at most one of them,
\* however often it has crashed before.  That bounds what a crash forgets and
\* not how long a banned profile survives: a restart puts it back on probation
\* and spends no attempt on that (pool.go:117, 133-137).
CrashForgivesOneAttempt ==
  OneFlagSuffices =>
    \A p \in Profiles : entry[p].attempts <= disk[p].attempts + 1

\* "Drain removes a profile from new scheduling and retires it after in-flight
\* leases finish" (pool.go:146): within a process, a draining profile only
\* ever becomes retired.
DrainIsFinal ==
  [][\A p \in Profiles :
       entry[p].state = "draining" =>
         entry'[p].state \in {"draining", "retired"} \/ phase' = "starting"]_vars

\* TestPoolAcquireWakesAfterRelease (pool_test.go:44, "waiting acquire did not
\* wake"): nobody sleeps on a channel that is still open while a slot it
\* would be given is free.
KindOf(c) == IF c \in Explicit THEN "explicit" ELSE "auto"

NoStrandedWaiter ==
  \A c \in Callers :
    pc[c] = "waiting" /\ phase = "open" /\ Admitted(KindOf(c)) =>
      \A st \in Serving : Candidates(entry, st, NoProfile) = {}
=============================================================================
