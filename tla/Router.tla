------------------------------- MODULE Router -------------------------------
(***************************************************************************)
(* websearch/internal/routing/router.go: automatic routing.  A search      *)
(* takes the first pool, in configured order, that has a lease at once;    *)
(* otherwise it queues, and acquireAnyAuto races one goroutine per pool    *)
(* for a lease.  The search runs through the lease; a retryable failure    *)
(* sends it to another profile or another provider.                        *)
(*                                                                         *)
(* A pool is what LeasePool.tla promises of it: profiles of capacity one,  *)
(* each of them open to the router or not, for reasons of its own (its     *)
(* trust state, an explicit caller's lease, a shutdown).  A lease is the   *)
(* profile it is on, and is kept where the code keeps it: in the search    *)
(* (mine), in a goroutine of acquireAnyAuto (theirs), or in the buffered   *)
(* channel between them (offered).                                         *)
(*                                                                         *)
(* Abstractions.  Errors are those the search reroutes on or not.  Tracing *)
(* is the possibility that it fails where the code looks at the error.     *)
(***************************************************************************)
EXTENDS Naturals, FiniteSets

CONSTANTS
  Searches,             \* concurrent automatic searches
  Providers,            \* numbered in configured order
  Profiles,
  ProviderOf,           \* [Profiles -> Providers]
  None,                 \* no profile
  MaxProviderAttempts, MaxAgentAttempts, AutoQueueMax,  \* Config
  Shifting,             \* bound: the profiles a pool opens and closes meanwhile
  TracingFails          \* whether searchtrace.Manager.Append may fail

ASSUME ConstantsOK ==
  /\ Providers \subseteq Nat \ {0} /\ IsFiniteSet(Providers) /\ Providers # {}
  /\ IsFiniteSet(Searches)
  /\ ProviderOf \in [Profiles -> Providers] /\ None \notin Profiles
  /\ MaxProviderAttempts \in Nat \ {0} /\ MaxAgentAttempts \in Nat \ {0}
  /\ AutoQueueMax \in Nat \ {0}
  /\ Shifting \subseteq Profiles /\ TracingFails \in BOOLEAN

\* Every wait but the last of a search is followed by an attempt, so this is
\* no bound but the number of waits a search can come to.
Rounds == 1 .. (Cardinality(Providers) * MaxAgentAttempts + 1)

VARIABLES
  pc,            \* where each search is
  at,            \* the pool tryAcquire has come to; in Decide, the one that failed
  attempted,     \* providers a search has given up
  attempts,      \* agentAttempts
  excluded,      \* excludedProfiles
  queued,        \* Router.queued
  round,         \* calls of acquireAnyAuto so far
  accepted, offered, expired,   \* the locals of each such call
  worker,        \* the goroutines of each such call
  mine, theirs,  \* the lease each search and each goroutine holds
  open           \* the profiles a pool would lease out

choiceVars == <<attempted, attempts, excluded>>
queueVars  == <<queued, round>>
callVars   == <<accepted, offered, expired, worker, theirs>>
searchVars == <<pc, at, choiceVars, queueVars, mine>>
vars == <<searchVars, callVars, open>>

Calls == Searches \X Rounds

\* A lease on f is out.
Leased(f) ==
  \/ \E s \in Searches : mine[s] = f
  \/ \E k \in Calls : offered[k] = f
  \/ \E k \in Calls, p \in Providers : theirs[k][p] = f

Available(p, exception) ==
  {f \in open \ {exception} : ProviderOf[f] = p /\ ~Leased(f)}

Goto(s, place) == pc' = [pc EXCEPT ![s] = place]

\* Where tryAcquire starts.
Rewound(s) == at' = [at EXCEPT ![s] = 1]

\* The current call of acquireAnyAuto.
Call(s) == <<s, round[s]>>

\* The search has come back from acquireAnyAuto, or only has to return.
Returned(k) ==
  \/ k[2] < round[k[1]]
  \/ k[2] = round[k[1]] /\ pc[k[1]] \notin {"waiting", "collecting", "leaving"}

\* A goroutine's waitCtx, a child of the caller's context; the call cancels
\* it when it returns.
WaitOver(k) == expired[k] \/ Returned(k)

-----------------------------------------------------------------------------
(* Router.Search.                                                          *)

Start(s) ==
  /\ pc[s] = "idle"
  /\ \/ Goto(s, "loop")
     \/ TracingFails /\ Goto(s, "failed")
  /\ UNCHANGED <<at, choiceVars, queueVars, callVars, mine, open>>

\* The loop's condition.  When too little of the request's time is left
\* (hasAttemptBudget), the search ends whatever it has attempted.
Loop(s) ==
  /\ pc[s] = "loop"
  /\ \/ Cardinality(attempted[s]) < MaxProviderAttempts /\ Goto(s, "trying")
     \/ Goto(s, "failed")
  /\ UNCHANGED <<at, choiceVars, queueVars, callVars, mine, open>>

\* tryAcquire asks one pool after the other; each answers by itself.
Untried(s) == {p \in Providers \ attempted[s] : p >= at[s]}

First(ps) == CHOOSE p \in ps : \A q \in ps : p <= q

Ask(s) ==
  LET p == First(Untried(s))
  IN /\ pc[s] \in {"trying", "retrying"} /\ Untried(s) # {}
     /\ \/ /\ Available(p, excluded[s][p]) = {}
           /\ at' = [at EXCEPT ![s] = p + 1]
           /\ UNCHANGED <<pc, mine>>
        \/ \E f \in Available(p, excluded[s][p]) :
             /\ mine' = [mine EXCEPT ![s] = f]
             /\ Goto(s, "granted") /\ Rewound(s)
     /\ UNCHANGED <<choiceVars, queueVars, callVars, open>>

\* No pool had a lease, not even after the wait.
GiveUp(s) ==
  /\ pc[s] = "retrying" /\ Untried(s) = {}
  /\ Goto(s, "failed")
  /\ UNCHANGED <<at, choiceVars, queueVars, callVars, mine, open>>

\* acquireAnyAuto starts a goroutine for every provider but those given up.
Launched(s) ==
  [p \in Providers |-> IF p \in attempted[s] THEN "over" ELSE "acquiring"]

\* Mutant of Enqueue: the limit is compared before the counter is raised.
EnqueueComparedFirst(s) ==
  /\ pc[s] = "trying" /\ Untried(s) = {} /\ Rewound(s)
  /\ IF queued >= AutoQueueMax
     THEN Goto(s, "rejected") /\ UNCHANGED <<queueVars, worker>>
     ELSE /\ queued' = queued + 1
          /\ round' = [round EXCEPT ![s] = @ + 1]
          /\ worker' = [worker EXCEPT ![<<s, round[s] + 1>>] = Launched(s)]
          /\ Goto(s, IF Providers \subseteq attempted[s] THEN "leaving" ELSE "waiting")
  /\ UNCHANGED <<choiceVars, accepted, offered, expired, theirs, mine, open>>

\* No pool had a lease: queue, unless the queue is full, and call
\* acquireAnyAuto.  The counter is raised first, also by the rejected.
Enqueue(s) ==
  /\ pc[s] = "trying" /\ Untried(s) = {} /\ Rewound(s)
  /\ queued' = queued + 1
  /\ IF queued' > AutoQueueMax
     THEN Goto(s, "rejected") /\ UNCHANGED <<round, worker>>
     ELSE /\ round' = [round EXCEPT ![s] = @ + 1]
          /\ worker' = [worker EXCEPT ![<<s, round[s] + 1>>] = Launched(s)]
          /\ Goto(s, IF Providers \subseteq attempted[s] THEN "leaving" ELSE "waiting")
  /\ UNCHANGED <<choiceVars, accepted, offered, expired, theirs, mine, open>>

\* Mutant of Reject: the rejected search stays counted.
RejectCounted(s) ==
  /\ pc[s] = "rejected"
  /\ Goto(s, "failed")
  /\ UNCHANGED <<at, choiceVars, queueVars, callVars, mine, open>>

Reject(s) ==
  /\ pc[s] = "rejected"
  /\ queued' = queued - 1
  /\ Goto(s, "failed")
  /\ UNCHANGED <<at, choiceVars, round, callVars, mine, open>>

\* acquireAnyAuto returns: cancel(), the counter, and tryAcquire once more if
\* it brought no lease.
Leave(s) ==
  /\ pc[s] = "leaving"
  /\ queued' = queued - 1
  /\ Goto(s, IF mine[s] = None THEN "retrying" ELSE "granted")
  /\ UNCHANGED <<at, choiceVars, round, callVars, mine, open>>

\* The lease is entered into the books; if it cannot be traced it is given
\* back unused.
Book(s) ==
  /\ pc[s] = "granted"
  /\ attempts' = [attempts EXCEPT ![s][ProviderOf[mine[s]]] = @ + 1]
  /\ \/ Goto(s, "searching") /\ UNCHANGED mine
     \/ TracingFails /\ Goto(s, "failed") /\ mine' = [mine EXCEPT ![s] = None]
  /\ UNCHANGED <<at, attempted, excluded, queueVars, callVars, open>>

\* The provider answers and the lease is released.  The search succeeds, fails
\* (as it also does if the report cannot be saved or traced), or reroutes.
Finish(s) ==
  LET p == ProviderOf[mine[s]]
  IN /\ pc[s] = "searching"
     /\ \/ Goto(s, "done") /\ UNCHANGED <<at, excluded>>
        \/ Goto(s, "failed") /\ UNCHANGED <<at, excluded>>
        \/ /\ Goto(s, "deciding")
           /\ excluded' = [excluded EXCEPT ![s][p] = mine[s]]
           /\ at' = [at EXCEPT ![s] = p]
     /\ mine' = [mine EXCEPT ![s] = None]
     /\ UNCHANGED <<attempted, attempts, queueVars, callVars, open>>

\* Mutant of Again: <= for < in the attempts of one provider.
AgainOnceMore(s, p) ==
  attempts[s][p] <= MaxAgentAttempts /\ Available(p, excluded[s][p]) # {}

\* After a retryable failure: the same provider again while it has another
\* profile (hasAlternativeProfile, a snapshot of its own), else the next one.
Again(s, p) ==
  attempts[s][p] < MaxAgentAttempts /\ Available(p, excluded[s][p]) # {}

Decide(s) ==
  /\ pc[s] = "deciding"
  /\ attempted' = IF Again(s, at[s]) THEN attempted
                  ELSE [attempted EXCEPT ![s] = @ \cup {at[s]}]
  /\ Goto(s, "loop") /\ Rewound(s)
  /\ UNCHANGED <<attempts, excluded, queueVars, callVars, mine, open>>

-----------------------------------------------------------------------------
(* acquireAnyAuto.                                                         *)

SetWorker(k, p, place) == worker' = [worker EXCEPT ![k][p] = place]
Holds(k, p, f) == theirs' = [theirs EXCEPT ![k][p] = f]

\* A goroutine in candidate.AcquireAuto, which tries once more before it looks
\* at its context, and knows of no excluded profile.
Obtain(k, p) ==
  /\ worker[k][p] = "acquiring"
  /\ \E f \in Available(p, None) : Holds(k, p, f)
  /\ SetWorker(k, p, "obtained")
  /\ UNCHANGED <<searchVars, accepted, offered, expired, open>>

\* Mutant of Abandon: the goroutine listens to no context.
AbandonNever(k, p) == FALSE /\ UNCHANGED vars

Abandon(k, p) ==
  /\ worker[k][p] = "acquiring" /\ WaitOver(k)
  /\ SetWorker(k, p, "over")
  /\ UNCHANGED <<searchVars, accepted, offered, expired, theirs, open>>

\* waitCtx.Err() # nil, or a go at `accepted`.
Check(k, p) ==
  /\ worker[k][p] = "obtained"
  /\ IF WaitOver(k) THEN SetWorker(k, p, "over") /\ Holds(k, p, None)
                    ELSE SetWorker(k, p, "checked") /\ UNCHANGED theirs
  /\ UNCHANGED <<searchVars, accepted, offered, expired, open>>

\* Mutant of Claim: no goroutine ever loses.
ClaimAlways(k, p) ==
  /\ worker[k][p] = "checked"
  /\ SetWorker(k, p, "won")
  /\ UNCHANGED <<searchVars, accepted, offered, expired, theirs, open>>

\* The compare-and-swap; the loser gives its lease back.
Claim(k, p) ==
  /\ worker[k][p] = "checked"
  /\ IF accepted[k]
     THEN SetWorker(k, p, "over") /\ Holds(k, p, None) /\ UNCHANGED accepted
     ELSE /\ SetWorker(k, p, "won") /\ UNCHANGED theirs
          /\ accepted' = [accepted EXCEPT ![k] = TRUE]
  /\ UNCHANGED <<searchVars, offered, expired, open>>

\* Mutant of Offer: having sent its lease, the goroutine still thinks it has it.
OfferKept(k, p) ==
  /\ worker[k][p] = "won" /\ offered[k] = None
  /\ offered' = [offered EXCEPT ![k] = theirs[k][p]]
  /\ UNCHANGED <<searchVars, accepted, expired, worker, theirs, open>>

\* The winner's select: the channel has room, so sending is always possible,
\* also when waitCtx is done.
Offer(k, p) ==
  /\ worker[k][p] = "won"
  /\ offered' = [offered EXCEPT ![k] = theirs[k][p]]
  /\ SetWorker(k, p, "over") /\ Holds(k, p, None)
  /\ UNCHANGED <<searchVars, accepted, expired, open>>

Retract(k, p) ==
  /\ worker[k][p] = "won" /\ WaitOver(k)
  /\ SetWorker(k, p, "over") /\ Holds(k, p, None)
  /\ UNCHANGED <<searchVars, accepted, offered, expired, open>>

\* The search's select: a winner, or the end of AutoWait or of the request.
Receive(s) ==
  /\ pc[s] = "waiting" /\ offered[Call(s)] # None
  /\ mine' = [mine EXCEPT ![s] = offered[Call(s)]]
  /\ offered' = [offered EXCEPT ![Call(s)] = None]
  /\ Goto(s, "leaving")
  /\ UNCHANGED <<at, choiceVars, queueVars, accepted, expired, worker, theirs, open>>

\* Mutant of TimeOut: the search waits for a winner only.
TimeOutNever(s) == FALSE /\ UNCHANGED vars

TimeOut(s) ==
  /\ pc[s] = "waiting" /\ expired[Call(s)]
  /\ accepted' = [accepted EXCEPT ![Call(s)] = TRUE]
  /\ Goto(s, "collecting")
  /\ UNCHANGED <<at, choiceVars, queueVars, offered, expired, worker, theirs, mine, open>>

\* A lease that is already in the channel is given back.
Collect(s) ==
  /\ pc[s] = "collecting"
  /\ offered' = [offered EXCEPT ![Call(s)] = None]
  /\ Goto(s, "leaving")
  /\ UNCHANGED <<at, choiceVars, queueVars, accepted, expired, worker, theirs, mine, open>>

-----------------------------------------------------------------------------
(* Around the router.                                                      *)

\* The AutoWait timer of a call, or the request's context behind it.
Expire(k) ==
  /\ k[2] = round[k[1]] /\ ~Returned(k) /\ ~expired[k]
  /\ expired' = [expired EXCEPT ![k] = TRUE]
  /\ UNCHANGED <<searchVars, accepted, offered, worker, theirs, open>>

\* A pool opens or closes a profile.  What it does to one that is leased is
\* seen when the lease is back.
Turn(f) ==
  /\ f \in Shifting /\ ~Leased(f)
  /\ open' = IF f \in open THEN open \ {f} ELSE open \cup {f}
  /\ UNCHANGED <<searchVars, callVars>>

-----------------------------------------------------------------------------
Init ==
  /\ pc = [s \in Searches |-> "idle"]
  /\ at = [s \in Searches |-> 1]
  /\ attempted = [s \in Searches |-> {}]
  /\ attempts = [s \in Searches |-> [p \in Providers |-> 0]]
  /\ excluded = [s \in Searches |-> [p \in Providers |-> None]]
  /\ queued = 0
  /\ round = [s \in Searches |-> 0]
  /\ accepted = [k \in Calls |-> FALSE]
  /\ offered = [k \in Calls |-> None]
  /\ expired = [k \in Calls |-> FALSE]
  /\ worker = [k \in Calls |-> [p \in Providers |-> "over"]]
  /\ theirs = [k \in Calls |-> [p \in Providers |-> None]]
  /\ mine = [s \in Searches |-> None]
  /\ open \in SUBSET Profiles

SearchStep(s) ==
  \/ Start(s) \/ Loop(s) \/ Ask(s) \/ GiveUp(s) \/ Enqueue(s) \/ Reject(s)
  \/ Leave(s) \/ Book(s) \/ Finish(s) \/ Decide(s)
  \/ Receive(s) \/ TimeOut(s) \/ Collect(s)

WorkerStep(k, p) ==
  \/ Obtain(k, p) \/ Abandon(k, p) \/ Check(k, p) \/ Claim(k, p)
  \/ Offer(k, p) \/ Retract(k, p)

Next ==
  \/ \E s \in Searches : SearchStep(s)
  \/ \E k \in Calls : Expire(k) \/ \E p \in Providers : WorkerStep(k, p)
  \/ \E f \in Profiles : Turn(f)

Spec == Init /\ [][Next]_vars

\* Goroutines run, a provider's answer or the end of its context comes, and
\* the AutoWait timer fires.
Fairness ==
  /\ \A s \in Searches : WF_vars(SearchStep(s))
  /\ \A k \in Calls : WF_vars(Expire(k)) /\ \A p \in Providers : WF_vars(WorkerStep(k, p))

FairSpec == Spec /\ Fairness

-----------------------------------------------------------------------------
(* Properties.                                                             *)

SearchPlaces == {"idle", "loop", "trying", "rejected", "waiting", "collecting", "leaving",
                 "retrying", "granted", "searching", "deciding", "done", "failed"}
WorkerPlaces == {"acquiring", "obtained", "checked", "won", "over"}

\* Every variable keeps its type; no search comes to more waits than Rounds.
TypeOK ==
  /\ pc \in [Searches -> SearchPlaces]
  /\ at \in [Searches -> Nat]
  /\ attempted \in [Searches -> SUBSET Providers]
  /\ attempts \in [Searches -> [Providers -> Nat]]
  /\ excluded \in [Searches -> [Providers -> Profiles \cup {None}]]
  /\ queued \in Nat
  /\ round \in [Searches -> Rounds \cup {0}]
  /\ accepted \in [Calls -> BOOLEAN] /\ expired \in [Calls -> BOOLEAN]
  /\ offered \in [Calls -> Profiles \cup {None}]
  /\ worker \in [Calls -> [Providers -> WorkerPlaces]]
  /\ theirs \in [Calls -> [Providers -> Profiles \cup {None}]]
  /\ mine \in [Searches -> Profiles \cup {None}]
  /\ open \subseteq Profiles

Queueing == {s \in Searches : pc[s] \in {"waiting", "collecting", "leaving"}}
Rejected == {s \in Searches : pc[s] = "rejected"}

\* Router.queued counts the searches that wait, and for a moment those it
\* turns away; never more than AutoQueueMax wait (router.go:87).
QueueAccounting ==
  /\ queued = Cardinality(Queueing) + Cardinality(Rejected)
  /\ Cardinality(Queueing) <= AutoQueueMax

\* The places a lease on f can be in.
PlacesOf(f) ==
  {<<"search", s>> : s \in {t \in Searches : mine[t] = f}}
  \cup {<<"channel", k>> : k \in {l \in Calls : offered[l] = f}}
  \cup {<<"worker", k>> : k \in {l \in Calls \X Providers : theirs[l[1]][l[2]] = f}}

\* A lease is in one place: it is never used by the search after a goroutine
\* gave it back, and never given back twice (router.go:173, router.go:190).
OneOwner == \A f \in Profiles : Cardinality(PlacesOf(f)) <= 1

\* A search uses at most MaxAgentAttempts leases of one provider, and none of a
\* provider it has given up, whichever way it got them (router.go:104, 141, 163).
AttemptsBounded ==
  \A s \in Searches :
    /\ \A p \in Providers : attempts[s][p] <= MaxAgentAttempts
    /\ pc[s] \in {"granted", "searching"} => ProviderOf[mine[s]] \notin attempted[s]

\* A wait that ends with a lease ends with one: what other goroutines obtain in
\* the same race is given back, so only a wait that timed out can leave a lease
\* behind (router.go:173).
WinnersLeaveNothing ==
  \A k \in Calls : Returned(k) /\ offered[k] # None => expired[k]

\* "Release reports the result and returns the capacity slot exactly once"
\* (lease.go:41): no lease lies in the channel of a call that has returned,
\* where nobody will ever release it.
NoLeaseForgotten ==
  \A k \in Calls : Returned(k) => offered[k] = None

\* Every search returns, with whatever its providers and pools do (router.go:84).
SearchReturns == \A s \in Searches : pc[s] # "idle" ~> pc[s] \in {"done", "failed"}

\* Every goroutine of acquireAnyAuto ends once its call is over, holding
\* nothing (router.go:168).
WorkersEnd ==
  \A k \in Calls : Returned(k) ~> \A p \in Providers : worker[k][p] = "over" /\ theirs[k][p] = None
=============================================================================
