# A verification project for search-x

search-x is two Go services with a shared runtime: *websearch* answers search
requests through the result pages of Baidu, Bing, Brave and DuckDuckGo, and
*webfetch* reads a page and returns its text. What is hard in them is not
parsing but sharing: search identities are leased to concurrent requests,
banned, cooled down, drained, replaced and restored after a restart; requests
race for them, queue for them, retry and share each other's results. This
directory holds TLA+ models of that machinery, the TLC configurations that
check them on small instances, and proofs, checked by TLAPS, of what holds for
instances of every size.

Paths below are relative to `src/websearch/internal/` unless they start with
`webfetch/`. `PROJECT.json` lists components, runs, mutants, findings, hazards
and theorems, and maps every definition to the lines it translates.

## 1. Inventory

| Component | State | Operations | Talks to |
| --- | --- | --- | --- |
| Profile pool (`profilepool/pool.go`, `lease.go`, `trust.go`, `profile.go`) | an entry per profile (state, slots in use, samples, failures, recovery attempts, deadline, generation), the notification channel, `autoWaiters`, `explicitStreak`, `manifestHealthy`, `closed`; one mutex | `New`, `Activate`, `Acquire`, `AcquireAuto`, `TryAcquire*`, `WaitAvailable`, `Lease.Release`, `Drain`, `replaceRetired`, `Close`, `Snapshot` | manifest store, profiles; used by router, pooled provider, manager |
| Manager (`profilepool/manager.go`) | none of its own; works on an unlocked snapshot | `Reconcile` | pool |
| Manifest store (`profilepool/manifest.go`) | one JSON file per profile | `Load`, `Save` (temporary file, rename) | file system |
| Search runtime (`bootstrap/search_runtime.go`) | pools, the reconcile ticker | `newManagedPool`, `runReconcile`, `Close` | all of the above |
| Router (`routing/router.go`) | the queue counter; per search: attempted providers, attempts, excluded profiles; per wait: one goroutine per provider, a compare-and-swap flag, a buffered channel | `Search`, `acquireAnyAuto`, `tryAcquire` | pools, tracing |
| Pooled provider (`routing/provider.go`) | none | `Search`: Acquire, search, Release | one pool |
| Search service (`app/search_service.go`) | singleflight group, live-search slots, queue counter | `Search`, `selectProvider`, `acquireLive` | cache, registry, chain, pooled providers |
| Provider chain (`provider/chain.go`, `planned.go`) | none | `Search`: members in order until one succeeds | pooled providers |
| Search cache (`cache/memory.go`) | a bounded map with storage times | `GetFresh`, `GetStale`, `Set` | - |
| Baidu provider (`provider/baidu/`) | one fixed session: cold, warm or cooling; a one-place gate; a pacer; a breaker | `Search` over its strategies, `Fetch` of the session | HTTP client, browser client, detector |
| Browser and HTTP clients (`transport/`) | the browser's tab semaphore, the mutex of its lazy start | `Fetch`, `Close` | Chrome, sites |
| Search API (`api/httpapi/router.go`, `cursor/codec.go`) | none: what a session needs is sealed in its cursor | `POST /v1/websearch` | search service, search plan |
| Search plan (`searchplan/`) | none | `Normalize`, `CompatibleProviders`, `Compile`, `Finalize`, `Fingerprint` | - |
| Bing, Brave, DuckDuckGo (`provider/*`) | none | request building, parsing, page tokens | HTTP client |
| Read service (`webfetch/internal/app/read_service.go`) | singleflight group, read cache | `Read`: policy, cache, one shared detached operation, rendering, stale fallback | readers, extractors, quality gate, cache |
| Readers and gates (`webfetch/internal/fetch/`) | none but the read cache | redirects under the URL policy, detection, extraction, quality, rendering, conversion | sites, Chrome |
| Runtime, configuration, tracing, demo | - | environment, logging, trace files, a page for the browser | - |

Which behaviours are hard:

* *Slots.* A slot is taken by one goroutine and returned by the same one much
  later; a drain, a ban, a recovery, a replacement, a shutdown may come between.
* *Waiting.* `Acquire` tries and takes the notification channel in two critical
  sections; `AcquireAuto` unregisters its waiter in a third; a context may end
  between any two of them; explicit callers may not starve automatic ones.
* *Snapshots.* The manager reads a snapshot without the lock, recreates a
  resource (slow, may fail), and replaces the old one afterwards.
* *Failure.* A manifest may not be saved; the process may die after any step.
* *Races for leases.* A waiting search runs one goroutine per pool, keeps the
  first lease, and all others have to find their way back.
* *Sharing.* Identical searches and reads share one flight, with the context,
  the refresh flag and the slot of whoever came first.
* *One session for many.* The searches of a Baidu profile share a session that
  is built, paced, banned and rebuilt under one gate, while each of them has a
  deadline of its own and falls back to strategies behind a breaker.
* *Sessions without state.* Pages of one search are requests minutes apart,
  held together by a cursor only, over a cache and restarts.

What makes the components correct: slots are accounted for exactly and only
idle profiles change their resource (pool); waiting ends, counts are exact and
fair (pool, router); what is on disk is what granting relies on (manifests);
each lease has one owner at all times and is returned once (router); retries
stay within their limits (router, chain); what a cache holds is an answer to the
question it is kept for, and never replaced by an older one (services); a
banned session is left alone, and a ban is reported whatever else failed
(Baidu); pages of a session answer one question from one provider (API).

## 2. Modules

```
LeasePool            what a pool promises
   ^ implemented by
ProfilePool          pool + manager + manifests + lifecycle
   ^ extended by
ProfilePoolProofs    inductive invariant, safety theorems, refinement
MCProfilePool        constants for TLC

Router               automatic routing, on pools as LeasePool describes them
   ^ extended by
RouterProofs         inductive invariant, safety, end of a search, use of pools
MCRouter             constants for TLC

Flight               what a shared operation promises
   ^ implemented by
SearchService        search service + chain + pooled provider + cache
ReadService          read service + readers and gates + cache
   ^ extended by
SearchServiceProofs, ReadServiceProofs   inductive invariants, safety theorems,
                     refinements, end of an operation, use of pools
MCSearchService, MCReadService   constants for TLC

BaiduSearch          searches of one Baidu profile: session, strategies, browser
   ^ extended by
BaiduSearchProofs    inductive invariant, safety theorems, end of a search
MCBaiduSearch        constants for TLC

Pagination           search API + cursor + search plan, on a search service
   ^ extended by     reduced to its outcomes
PaginationProofs     inductive invariant, safety theorems, what Finalize computes
MCPagination         constants for TLC

LoopLemmas           induction over numbers, loops and finite sets, for
                     ProfilePoolProofs and PaginationProofs
```

### LeasePool

The abstract specification, four facts: a caller holds at most one lease; a
profile is leased to at most `Capacity` callers, and only while the pool accepts
work; a profile's resource is exchanged only with nobody holding it; a lease
can be returned in every phase. Two variables (`held`, `incarnation`) and the
switch `accepting`.

### ProfilePool

One action is one critical section of `Pool.mu`. `entry[p]` is the `entry`
struct; `disk[p]` the manifest file; `phase` is "starting" between `New` and the
end of `Activate`, then "open", then "closed". A caller is a goroutine: `Explicit`
ones call `Acquire`, `Automatic` ones `AcquireAuto`, `WaitAvailable` and the
`TryAcquire` family. The notification channel is kept in the program counters:
"waiting" and "watching" are blocked on the channel of the moment, and `signal()`
(`Woken`) turns those, and only those, into "notified" and "leaving", which is
what closing and replacing the channel does.

| Actions | Code |
| --- | --- |
| `TryOnce`, `StartAcquire`, `StartAcquireAuto`, `StartWaitAvailable`, `Attempt`, `Fetch`, `Resume`, `GiveUp`, `Leave` | the acquiring functions of `pool.go`, step by step; all attempts go through `TryAcquire`, which is `tryAcquire` with its reconciliation, selection and streak |
| `Release` | `lease.go` `release`: return the slot, finish a drain, count, judge, save, signal |
| `Drain`, `Close`, `Activate`, `Restart` | the lifecycle; `Activate` with a failing save closes the pool as `newManagedPool` does |
| `StartReconcile`, `RecreateFails`, `ReplaceRetired` | `Manager.Reconcile` as the three separate critical sections it is |
| `Tick` | time, for cooldowns in memory and on disk |

Abstractions: deadlines are the time that remains; samples, failures and the
streak saturate where the code stops telling values apart; whether the moving
averages allow a promotion, and which trust class a request id hashes to, is
free. The mutex makes the bodies atomic. `Recreate`'s product is either
installed or lost; the `ReplacementFactory` hook, which no production code sets,
is left out.

### Router

`pc[s]` is where a search is in `Search`; a search's maps are `attempted`,
`attempts` and `excluded`. The k-th wait of a search has its own locals
`accepted`, `offered` (the buffered channel), `expired` (its context) and one
goroutine per provider (`worker`, from "acquiring" over "obtained", "checked",
"won" to "over"). A lease is kept where the code keeps it: in the search (`mine`),
a goroutine (`theirs`) or the channel. Whether a pool would grant a profile is
the set `open`, which changes by itself (`Turn`); that a leased profile is not
granted again, and that every pool answers by itself, is all that is used of
the pool, which is LeasePool's promise for profiles of capacity one.
`context.WithTimeout` and the deferred cancels are `WaitOver`. Tracing is
reduced to the possibility that it fails at the places where the code looks at
its error. `waitAny`, which nothing calls, is left out.

### Flight

The abstract specification of what both services build on
`golang.org/x/sync/singleflight`: who joins a key joins the operation under way
for it or begins one; an operation ends once, and frees its key; a caller gets
the outcome of the very operation it joined, or leaves without it.

### SearchService

Callers and operations are kept apart, as in the code: `pc`, `req`, `alive`,
`joined` and `answer` belong to the goroutine in `Search`, `op` to the closure it
may have given to `DoChan`, which runs with that caller's context and request.
`op[c].at` walks through the closure: the second look into the cache, the live
guard, the members of the chain, storing, the stale fallback, the deferred
release, and the end of the flight. What an operation has forgotten when it
returns (`failed`, `stamp`) is reset.

| Actions | Code |
| --- | --- |
| `Submit`, `Join`, `Receive`, `Abandon` | `Search` up to `DoChan`, and its final `select` |
| `LookAgain`, `Store`, `FallBack`, `ReleaseSlot`, `Land` | the closure around the live search, its deferred release, and the end of the flight, which singleflight notes after it |
| `TakeSlot`, `Enqueue`, `WaitForSlot`, `Unqueue` | `acquireLive`: the counter is raised before it is compared, and lowered again in a step of its own on each of the three ways out |
| `Acquire`, `GiveUpLease`, `Reply`, `Cancel` | `Chain.Search` over `PooledProvider.Search`, or the one provider a request names |

A key is what `cacheKey` hashes; `FlightKey` adds whether the request is for
debugging. Contents are told apart by key and provider. `MaxItems`, the two
lifetimes and the clock make eviction and staleness happen. A pool is a number
of leases here; what it does otherwise is ProfilePool's.

### BaiduSearch

Searches share `session` (`baiduSession`), the `gate`, the breaker (`openUntil`),
the tabs and the mutex of the browser (`starting`). A search is a place, the
index of its strategy, a deadline and the classes of the failures it has met.
Pages are told by status, by the marks the detector looks for and by the
layouts the parsers know, and `Classify`, `Parses`, `Allows`, `BuildSearchError`
are the code's decisions over these. `EnterSession` to `SessionError` are
`BaiduSessionTransport.Fetch` between its blocking points: the gate, the pacer's
timer, the bootstrap and the search request. `Reserve` is the time the pacer
must leave. `history` is an auxiliary variable that no action reads. The
generation of the session, which only traces report, is left out. So are three
ways out of `Fetch` that this program cannot take: a search URL that does not
parse (`validateSessionConfig` has parsed it), a client that cannot be made
(`cookiejar.New(nil)` returns no error), and a bootstrap page with an error status
that is no risk (`detector.Classify` makes a risk of every status from 400 on).

### ReadService

As SearchService, but its operation is detached (`context.WithoutCancel`) with a
timeout of its own, and the fallback to a stale document belongs to each caller.
The operation fetches (`Redirect`, each hop judged by `Objection`;
`FetchReply`; `FetchError`), judges (`JudgeFetched`: status, size, kind,
signature, extraction, quality, in the code's order), may have the page
rendered (`JudgeRendered`), and stores what it accepts. A fetch times out when the
operation does, or earlier, as the reader, the TLS handshake and the network have
time-outs of their own: these may come at any time once time has passed. Among
entries of the cache that are equally old any may be dropped, as the order of a
Go map decides.

### Pagination

`Post` is the handler up to the search with its refusals in order; `ServeCached`,
`ServeLive` and `SearchFails` are what the search may come back with, `Serve` the
handler after it. A cursor is a record that clients keep and cannot forge
(`cursor/codec.go` signs it); its field `session` is auxiliary. Cursors of
version 1, expiry, restarts with other providers and a cache that is shared by
all clients are part of the model. A client keeps the cursor it was handed last;
one that keeps several is several clients here. `CompatibleProviders`, `Finalize`
and, before it, the cut that every parser makes are translated: a parser stops at
the limit of the request (`ParsePage`), and only what it has read is filtered. The
text a compiler produces is the record of what it is made of.

The page token of DuckDuckGo is a form in the site's page (`NextForms`), so two
things about it are the site's to decide and free in the model: the query it
names, which the provider compares with its own when the token comes back, and
its length. The form travels in the cursor, whose length nothing bounds when it
is made, and the handler takes back 4096 characters only (`TooLong`).

## 3. Runs

| Run | Instance | Shows |
| --- | --- | --- |
| `pool_core` | one profile of two slots, two explicit and one automatic caller, three generations | `LeaseAccounting`, `LeasedProfileIntact`, `DrainHasHolder`, `AutoWaitersExact`, `ExplicitBurstBounded`, and that ProfilePool implements LeasePool |
| `pool_restart` | one persistent profile, an explicit and an automatic caller, saves that fail, two crashes | `HealthyMeansSaved`: granting never rests on a report a crash would forget; `CrashForgivesOneAttempt` |
| `pool_liveness` | two profiles, one automatic caller, manager | `SnapshotStillRetired`, `AcquireReturns`, `RetiredIsReplaced` |
| `pool_drain` | as `pool_core`, smaller | violated: `DrainIsFinal` |
| `pool_wakeup` | one slot, two explicit callers | violated: `NoStrandedWaiter` |
| `router_queue` | two searches, two providers of one profile, a queue of one place, tracing may fail | `QueueAccounting`, `OneOwner`, `WinnersLeaveNothing` |
| `router_reroute` | one search, two profiles of one provider and one of another, three provider and two profile attempts | `AttemptsBounded`, `SearchReturns`, `WorkersEnd` |
| `router_leak` | one search, two providers | violated: `NoLeaseForgotten` |
| `search_service` | three callers (a plain one that may leave, one that refreshes, one for debugging that names its provider), a chain of two providers, a cache of one entry; the guard with one slot and one queue place, one slot and none, two slots | `SlotsExact`, `OnlyAnswersAreStored`, `ChainInOrder`, `ExpiryHasACause`, `CacheMovesForward`, `ComesToRest`, and that SearchService implements Flight |
| `baidu_session` | two searches through session, desktop page and browser, six kinds of pages, one tab | `SessionPaced`, `QuietAfterRisk`, `RiskIsReported`, `NothingLeftBehind`, `EverySearchEnds` |
| `read_service` | two callers, two public URLs and an internal one, nine kinds of pages, one redirect, a cache of one entry | `OnlyArticlesAreKept`, `LeavingChangesNothing`, and that ReadService implements Flight |
| `pagination` | two clients; plain, filtered, contradictory and malformed requests of three results; two provider lists, an old cursor, three pages, result pages longer than the limit with links that are no links, filtered or listed twice | `SessionIsOneSearch`, `CursorsAreRedeemable`, `PagesHonourFilters` |

Bounds and why they are enough. Two slots and three callers let a slot be taken,
returned and taken again while another lease on the same profile is out, which
is what drains, bans and replacements have to get right; four explicit leases
in a row against a registered waiter are reached, one more than the burst. Two
samples and two failures distinguish the first, the tolerated and the last
report. Cooldowns of two and one ticks can be shortened and can end in any order
with respect to releases; two recovery attempts reach the limit and the step
before it. `MaxGeneration` bounds replacements (`RetiredIsReplaced` ends at the
bound); the second restart crashes a pool that the first has restored from disk.
Two searches and one queue place make the counter pass its limit; two
providers give every race a loser; three provider attempts with two providers
reach the wait that starts no goroutine. `Shifting` names the profiles whose
pools open and close meanwhile; in `router_reroute` the second profile of the
first provider keeps the state it began in. The number of waits of a search
(`Rounds`) is no bound: every wait but the last is followed by an attempt, and
attempts are limited.

Three callers of the search service are the two of one key, who share or follow
each other, and one that competes with them for slots, leases and the only
place of the cache; the second look into the cache finds something another
flight stored. A stale lifetime one tick longer than the fresh one tells the two
apart. The two searches of `baidu_session` meet in the gate, in the pacer, in a
cooldown, at the only tab and at the start of the browser; the first asks for
page one, the other for any page; four ticks are enough for a bootstrap, a paced
search and a fallback, and too few for the second search behind a slow first
one. Searches begin until `Latest`, so that all of them see their deadline
before the clock stops. `MaxSearching` in `pagination` lets one search be under
way at a time, as searches share nothing but the cache, which each may find in
any state another has left; clients are interchangeable (symmetry; no liveness
is checked there). `Garbage` stands for every cursor that does not decode.

Deadlock is checked in the pool's runs and in `pagination`, whose service can
always be asked again. Elsewhere every caller makes one request, so the end is
reached and deadlock is not an error.

Fairness. For the pool: goroutines that can run do run (weak fairness of each
step); searches end with their contexts and are then released; a caller's
context ends, and a select on a finished context and a channel that keeps being
closed does not choose the channel for ever (strong fairness of `GiveUp`; every
request passes through `runtime/requesttimeout`); the reconcile ticker fires; a
factory does not fail for ever. So `AcquireReturns` says that callers return, if
need be because their context has ended, and not that they are woken in time
(`pool_wakeup` shows that they are not always); and `RetiredIsReplaced` says nothing
of a profile that can never be recreated, behind which others wait for ever. For
the router: goroutines run, a provider
answers or its context ends, and the timer of `AutoWait` fires. Nothing is
assumed of pools: they may stay closed for ever. For the search service:
goroutines run, a provider's search ends, so does the wait for a lease (each is
bounded by a timeout), and the contexts of requests end; a caller whose context
ends leaves its operation behind, which still has to end. For Baidu: time passes
and some search that can take a step takes one, which is less than fairness for
each search; mutexes, semaphores and the gate are thus free to prefer anyone.
The start of Chrome returns (chromedp bounds it).

Every property of a passing run comes with a mutant, a plausible bug in one
definition, for which TLC finds the property violated.

## 4. Theorems

`ProfilePoolProofs` proves, for any sets of profiles and callers, any
capacities, thresholds and cooldowns, with or without persistence, failing saves
and any number of restarts and generations:

* `TypeCorrect`, `SlotsAccountedFor`, `LeasedStaysIntact`, `DrainsAreFinished`,
  `SnapshotsStayTrue`, `WaitersCounted`, `AutoNotStarved`: the safety invariants
  of `pool_core` and `pool_liveness`;
* `PoolImplementsLeasePool`: every behaviour of ProfilePool is one of LeasePool
  with `held <- lease`, `incarnation <-` the generations and `accepting <-
  phase = "open"`.

* `HealthIsHonest`, `CrashesForgiveOne`: the invariants of `pool_restart`. The
  second bounds what one crash forgets of the attempts spent, after any number of
  crashes before it. It does not bound how often a profile that is banned again
  and again may serve: a ban that is saved and then restored by a restart becomes
  a probation at no cost (see 5);
* `SelectionOverlooksNothing`, about `tryAcquire`'s choice (`pool.go:339`) for any
  loads and capacities: it finds a profile exactly when a serving one has a free
  slot, only one, and one of the preferred trust class if that has a free slot;
* `WaitingHasAReason`: who is admitted and still goes to wait has found every
  serving profile full, at the moment of the attempt;
* `OneSlotDrainsEnd`: a profile of one slot drains as documented;
* `OneSlotServesCooldown`: a profile of one slot serves every cooldown in full.
  Nobody has a lease on it meanwhile (`CoolingProfilesIdle`), so no report can
  shorten a quarantine, make a degradation of it, or start it anew.

The only assumption is `ConstantsOK` of ProfilePool, which TLC evaluates in each
pool run. The last three are action properties stated beside their proofs; TLC
has checked them on small instances. The last fails with two slots, as TLC shows
at once.

The argument. None of the invariants is inductive alone. `IInv` is the
conjunction of

* `TypeOK`;
* `CallerShape`: who holds a lease is "holding", or is an automatic caller that
  is "leaving" (the lease is granted before the waiter is unregistered); before
  activation nobody is anywhere;
* `LeaseAccounting`: the slots in use are the holders;
* `EntryShape`: until the pool is closed, a retired or warming profile has no
  slot in use, a draining one has, and resources are open. With the accounting,
  this is why a profile the manager replaces has no holder, and why every drain
  ends with a release;
* `SnapshotShape`: what the manager still has to replace is retired, since
  only `ReplaceRetired` leads out of "retired" while the pool is open, and only
  the manager takes that step;
* `AutoWaitersExact`;
* `FairShape`: what overtook a waiter is at most the explicit streak.

`InitIInv` and `NextIInv` show that it is inductive, one lemma per group of
actions; facts about cardinalities of holders (`GrantCount`, `ReturnCount`) carry
the accounting. The refinement uses `IInv` in both states: a grant needs the
accounting to know that the abstract capacity is not reached, a replacement
needs it to know that nobody holds the profile. TLC has checked `IInv` as an
invariant of the three passing pool configurations.

What disk knows needs an invariant of its own, `SavedShape`. A recovery attempt
is spent in memory, by an acquisition, and saved only with the next report; for
a crash to give back one at most, disk must know every earlier attempt of a
profile that can spend one. It does while the flag is up (`UnspentKept`, which is
`CrashForgivesOneAttempt` without the "+ 1", of quarantined and degraded
profiles), and while it is down nothing is acquired, so nothing is spent. A save
that succeeds raises the flag for the whole pool; that is right if saves do not
fail at all, or if there is only one profile, which then has just been saved.
This is `OneFlagSuffices`, the hypothesis of both properties, and it is the
code's limit and not the proof's (see 5). TLC has checked `SavedShape` on the
instance of `pool_restart` and on one of two profiles whose saves succeed.

Selection compares loads by multiplying crosswise. `FractionsOrdered` shows that
this orders fractions of positive denominators, ties broken by id strictly, so
that a least candidate exists (`LeastExists`) and is alone.

`SearchServiceProofs` proves, for any finite set of callers, any providers, keys,
chains, guards, pool capacities, lifetimes and cache sizes:

* `TypeCorrect`, `GuardAccountedFor`, `CacheHoldsAnswers`, `ChainKeepsOrder`,
  `ExpiryExplained`: the safety invariants of `search_service`;
* `CacheNeverGoesBack`: its action property;
* `ServiceImplementsFlight`: every behaviour of SearchService is one of Flight,
  with the outcomes of landed operations for `outcome`, and for `got` what a
  caller took from the operation it joined.

Assumed are `ConstantsOK` and `NoneIsNothing` of SearchService ("nothing" is no
provider, content or result), which TLC evaluates in `search_service`.

The argument. Again none of the properties is inductive alone. `IInv` adds to
`TypeOK`, `SlotsExact` and `OnlyAnswersAreStored`

* `OpHolds`: by its place, whether an operation has a slot, a lease and an
  outcome; it never has the outcome "abandoned", and "expired" or "cancelled"
  only if the context it borrowed has ended. This is what `ExpiryHasACause` and
  the refinement rest on: a caller that left cannot be mistaken for one that
  received;
* `OpTried`: what the members tried so far replied, and whose answer is stored;
* `CallerShape`: an answer is the outcome of the landed operation the caller has
  joined, or the caller's own;
* `FlightShape`: the flights are the operations under way, each under its own
  key. So two operations for a key without debugging requests are one, and
* `CacheShape` holds: nothing that waits to be stored is older than what is
  stored for its key, although the clock was read before the lock was taken.
  `CacheMovesForward` needs exactly this.

One lemma per group of steps (`GuardFacts`, `MemberStepFacts`, `LastStepFacts`,
`ReleaseFacts`, `LandFacts`) says how an operation moves; `OpsAndCallers`, `FlightsStay`,
`CountsStay`, `AnswersStored` and `StampsStay` then carry one part of `IInv` each
over any of them. TLC has checked `IInv` on the instance of `search_service`.

Two action properties are stated beside their proofs, and TLC has checked both on
the same instance:

* `SearchesThroughPools` composes the service with LeasePool: with the lease of an
  operation for `held`, every step is a grant of a provider with a free slot to an
  operation without a lease, a return, or none of the pools' business. `OpHolds`
  says that there is a lease exactly while a member of the chain is asked; so
  none is carried on to the next member, and none outlives its operation;
* `OperationsEnd`: every step of an operation lowers its `Energy`, made of the
  members it has not tried and its place on the way to the next one, and neither
  callers nor other operations raise it. This is the half of `ComesToRest` that
  needs no fairness.

`RouterProofs` proves, for any finite sets of searches and providers, any
profiles, any queue limit and any limits of attempts, with tracing that fails or
not: `TypeCorrect`, `QueueCounted`, `LeasesExclusive`, `AttemptsLimited` and
`OnlyTimeoutsLeave`, all the safety invariants of `router_queue` and
`router_reroute`. Assumed is `ConstantsOK` of Router. `IInv` adds to `TypeOK` and
`QueueAccounting`

* `SearchShape`: a search has a lease only where the code uses or returns it,
  never of a provider it has given up; a provider's attempts are used up only
  while the last one is under way or has just failed;
* `RoundsShape`: every wait but the last was followed by an attempt. With the
  limit of attempts this bounds the waits, so `Rounds` really is no bound;
* `CallShape` and `WorkerShape`: a goroutine holds a lease exactly from its grant
  to its end; a race has one winner; and until its wait has timed out, the search
  is there to take what the winner offers, which is `OnlyTimeoutsLeave`;
* `Exclusive`: searches, channels and goroutines never hold the same lease. That
  a pool grants only what is not out, LeasePool's promise, is used in the two
  steps that obtain a lease; every other step moves or drops one.

One lemma per action shows what it does to the search or the call it belongs to;
`SearchAlone`, `CallAlone` and `WorkerAlone` show that the others are not
disturbed. TLC has checked `IInv` on both instances.

Two action properties are stated beside their proofs, and TLC has checked both on
the instances of `router_queue` and `router_reroute`:

* `RoutesThroughPools` composes the router with LeasePool, which ProfilePool
  implements. With the profile itself for a lease, `Leased` for `held` and "a
  profile is open" for `accepting`, every step is a grant of an open profile that
  is not leased, a return, or none of the pools' business. `Exclusive` is what
  makes the returns returns: who gives a lease back is the last to have it;
* `SearchesEnd`: every step of a search lowers its `Energy`, made of the attempts
  left to it, its place on the way to the next one, and the pools left to ask;
  no goroutine, timer or pool raises it. So searches take a bounded number of
  steps without any fairness; that an enabled step is taken is the other half of
  `SearchReturns`, and TLC's.

`ReadServiceProofs` proves, for any finite set of callers, any URLs, policy,
pages and requests, with or without a browser, and for all limits and timeouts:

* `TypeCorrect`: no operation follows more redirects than it may, and who is done
  has a result;
* `ArticlesKept`: `OnlyArticlesAreKept`, however redirects, refusals and
  renderings follow each other;
* `LeavingHarmless`: `LeavingChangesNothing`, the action property;
* `ReadImplementsFlight`: every behaviour of ReadService is one of Flight. A
  stale answer after a failed read, and a failure to format a good one, are ways
  to leave: Flight does not say what else a caller may do.

Assumed are `ConstantsOK` and `NoneIsNothing` of ReadService ("nothing" is no
document, code or result), which TLC evaluates in `read_service`.

The argument. `IInv` adds to `TypeOK` and `OnlyArticlesAreKept`

* `OpShape`: an operation belongs to a caller that has joined it and asks for a
  URL the policy approved, hop after hop; this, and not the judgement of the
  page, is why the place a fetched document comes from is approved;
* `CallerShape`: a caller that joins has had its URL approved; an answer is the
  caller's own, or its operation has landed;
* `FlightShape`: the flights are the operations under way, each under its URL.

`OpStepEnds` shows that every step of an operation does one of two things: it
`Proceeds`, seen by nobody, or it `Lands` with an outcome that is due. All that
follows (`CacheStays`, `OpStepInv`, `LeavingHarmless`, `OpMaps`) uses these two
and looks at no page again. TLC has checked `IInv` on the instance of
`read_service`, and there, too, what `OperationsEnd` proves: a read ends in at
most `MaxRedirects` + 3 steps (a look into the cache, the hops, the page they
lead to, one rendering), however pages redirect to each other.

`BaiduSearchProofs` proves, for any finite set of searches, any pages and list of
strategies, any intervals, cooldowns, deadlines and number of tabs:
`TypeCorrect`, `HoldersAreWhereTheyNeed`, `Paces`, `KeepsQuiet` and `ReportsRisks`,
all the safety invariants of `baidu_session`. Assumed are `ConstantsOK` and
`NoneIsNothing` of BaiduSearch, which TLC evaluates there. `IInv` adds to `TypeOK`
and `NothingLeftBehind`

* `Local`: by the place of a search, its step, what it has met and how it ended.
  A search that is under way has met no risk, as a risk ends it; so it meets one
  at most, and names that one;
* `SessionShape`: a cooling session is nobody's, and its deadline is the end of
  the time it has to be quiet; a session that is not cooling has been quiet for
  long enough. Whoever holds the gate has a client;
* `Paced`: the timer of a search that sleeps at the gate ends no earlier than the
  interval after the last request; what it sends then keeps that distance, and
  the cooldown, because only the holder of the gate can move either.

A step belongs to one search: `Move` says where to, `HoldsFollow` that gate, tabs
and mutex follow it, and one lemma per group of actions does the rest. TLC has
checked `IInv` on the instance of `baidu_session`. `SearchesEnd` is, as in the
router, the half of `EverySearchEnds` that needs no fairness: an `Energy` of the
strategies left and the way still to go in the present one, which falls with
every step of the search and which no other search raises, although they share
gate, session and browser. TLC has checked it on the same instance.

`PaginationProofs` proves, for any set of clients, any questions, domains, pages
and links, and all limits: `SessionsAreSearches`, `CursorsRedeem` and
`PagesAreFiltered`, the safety invariants of `pagination`, whatever clients ask,
keep and repeat, and however often the service is restarted with other
providers. Assumed are `ConstantsOK` and `NoneIsNothing` of Pagination, which TLC
evaluates there. `ConstantsOK` says of cursors of version 1 what the service that
sealed them did: they name a provider and a list of providers, a limit and a
later page (`Decode` turns down what lacks them, `cursor/codec.go:98`).
`CursorsRedeem` names the two refusals that can meet a cursor just handed out, both
of the site's making: one longer than 4096 characters, and one whose form names
another query than was asked. That there is no third is what is proved. `IInv` is the
conjunction of

* `CursorsFit`: a cursor continues the session its provider began, and its
  fingerprint, limit and page are those of that session's question, and it has a
  token if its provider wants one back. Here is why a question that changed in any
  part finds no cursor that fits, and why the cursor of an unchanged one is refused
  only for its length or for the query its page's form echoes;
* `CacheFits`: a kept response answers the question, the page and the provider of
  its key; whoever is served from the cache gets what a search would have given;
* `RequestsFit`: a request under way asks what its cursor's session asks;
* `RepliesFit`, the three properties, and `EnabledFits`, the type of the providers.

The text of a response never has to be looked into but in one place:
`FinalizeFacts` says what the loop of `Finalize` computes for every list of links,
filter and limit, namely distinct links among those that may be listed, and as
many as there are of these, up to the limit. As a parser hands over no more links
than the limit, the loop never stops early (`FewPages`), and `PageFacts` says what
becomes of a result page: of the entries read, all that may be listed, once each.
`PagesAreFiltered` follows from it for live pages and, by `CacheFits`, for cached
ones. It claims nothing of the entries beyond the limit, which nobody reads. TLC has
checked `IInv` on the instance of `pagination`.

`LoopLemmas` holds the inductions. The library's rules take a predicate, which no
installed prover can instantiate; `Reaches` takes the set of the numbers that a
fact holds of, `LoopRuns` the step of a loop as a function, and `LeastExists` an
order as a set of pairs.

Only model-checked is liveness, which is out of the prover's reach:
`AcquireReturns`, `RetiredIsReplaced`, `SearchReturns`, `WorkersEnd`,
`ComesToRest` and `EverySearchEnds`. Behind `SearchReturns`, `ComesToRest` and
`EverySearchEnds` the theorems `SearchesEnd` and `OperationsEnd` prove that nothing
goes on for ever; what TLC adds is that nothing stops half-way. Every other property of a passing run is the
consequence of a theorem.

## 5. Findings

1. `pool_drain`. `pool.go:146`: "Drain removes a profile from new scheduling and
   retires it after in-flight leases finish." With two leases out, a captcha
   reported by the first release turns the draining profile into a quarantined
   one (`lease.go:79-84`); its cooldown ends in probation and it is leased again.
   It takes two leases on one profile: `OneSlotDrainsEnd` shows that profiles of
   one slot, by default those of all providers but Bing (`config/config.go:90`),
   drain as documented.
2. `pool_wakeup`. `pool_test.go:44-62` expects a waiter to wake when a slot is
   released. If the release falls between the failed attempt and the fetch of
   the channel (`pool.go:287-296`, `308-317`), its signal is lost and the waiter
   sleeps beside a free slot until another signal or the end of its context.
   `WaitingHasAReason` shows that nothing is lost before that gap: the attempt
   itself overlooks no slot.
3. `router_leak`. `lease.go:41`: "Release reports the result and returns the
   capacity slot exactly once." A goroutine of `acquireAnyAuto` that passed the
   compare-and-swap before the wait ended may send its lease after the search
   looked into the channel for the last time (`router.go:178`, `190-194`). The
   slot is lost.

Seen while modelling, and claimed nowhere, so no property of a run:

* Pool: a restart forgets that a profile is quarantined (it keeps only the
  deadline), and `Activate` makes it a probation without spending a recovery
  attempt (`pool.go:117`, `133-137`), so a profile that is banned and restarted in
  turn serves for ever; a later failure may shorten a quarantine, if the profile has more
  than one slot (`OneSlotServesCooldown`); `manifestHealthy` is one
  flag for all profiles, so one profile's successful save hides another's failed
  one (`HealthyMeansSaved` is stated where that cannot happen).
* Router: goroutines that lose a race report network errors for profiles they
  never used; a wait may return the profile that has just failed; the API always
  names the providers of a request, so automatic routing is not reached by it.
* Search service: callers that join a flight depend on the context of the one
  that began it (`ExpiryHasACause` says no more than that); a refresh may join a
  flight that is none; an entry found by the second look is returned without
  being marked as cached; a degraded answer is later served from the cache
  without that mark, a stale one with the request id of another; who finds the
  queue full gets no stale answer; a busy provider ends the chain.
* Baidu: a later trip may shorten the breaker's earlier one; limiter and jitter
  are waited for between asking the breaker and sending; later pages pass a
  cooling session by; "blocked" is not among the causes an error is named after;
  the browser reports status 200 for every page; the wait for the start of
  Chrome does not end with the caller's context; the HTTP strategy sends the
  query of the request, the session and the browser the compiled one.
* Read service: a name that cannot be resolved is refused as unsafe, in the
  first look and only there; a caller whose context ends while its answer is
  formatted is told that extraction failed; a challenge found in the markup is
  worth a browser, one found in the text is not.
* Pagination: a page that filters made short ends the pagination of a provider
  that has no page tokens; the parsers stop at the limit before anything is
  filtered, so a page may be short although the result page listed more
  (`duckduckgo/parser.go:34` and its like, `planned.go:41`); a cursor may be handed
  out that is too long to be taken back (`codec.go:78` sets no bound, `router.go:137`
  has one), and one whose form names another query is accepted and then fails as
  an invalid request (`duckduckgo/provider.go:210`); cursors of version 1 cannot be redeemed with
  DuckDuckGo; the cache key names page and provider, but not the token.

## 6. Plan

Done: the pool, the router, both services, the Baidu provider and pagination,
all with proofs of their safety, and the composition of router and search service
with the pools, through LeasePool. What is left: `Close` of the browser client
beside fetches under way, and the web fetch client, whose tabs follow the same
protocol.

## 7. Not modelled

HTML parsing, URL building, the text of compiled queries, content extraction
and conversion are functions of documents whose cases are strings; their tests
state them better. What the models keep of them is which cases they tell apart.
Close of the browser clients, the health and provider listings of the APIs,
trace and artifact files, header profiles, configuration, logging and the demo
have no protocol of their own. The profile adapter (`provider_profile.go`)
appears as the pool's open flag and the constant `Recreatable`.
