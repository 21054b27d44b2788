--------------------------- MODULE SearchService ---------------------------
(***************************************************************************)
(* websearch/internal/app/search_service.go: a search is answered from the *)
(* cache, or by a live search that identical requests share; the live      *)
(* search takes a slot of the live guard and runs the provider its key     *)
(* names, or the chain of providers, each behind a pool of leases          *)
(* (routing/provider.go).  Its answer is stored; when it fails, a stale    *)
(* answer may do.                                                          *)
(*                                                                         *)
(* A key stands for the query, the options, the page and the providers of  *)
(* a request: cacheKey.  What a provider finds is told by who found it     *)
(* when, and for which key.  A caller submits one request; the operation   *)
(* it starts, if it is the first, is named after it.                       *)
(***************************************************************************)
EXTENDS Naturals, Sequences, FiniteSets

CONSTANTS
  Callers, Providers, Keys,
  ChainOf,              \* [Keys -> Seq(Providers)], the providers of a request
  Pinned,               \* keys whose request names one provider
  Registered,           \* providers in the registry
  Requests,             \* the requests each caller may submit
  None, Left,
  Guards,                         \* settings of ConfigureLiveGuard
  Capacity,                       \* leases of a pool
  MaxItems, FreshTTL, StaleTTL,   \* NewMemory
  MaxTime,                        \* bound of the clock
  Impatient                       \* bound: callers whose contexts may end early

ASSUME ConstantsOK ==
  /\ IsFiniteSet(Callers) /\ None \notin Callers
  /\ ChainOf \in [Keys -> Seq(Providers) \ {<<>>}]
  /\ \A k \in Keys : \A i, j \in DOMAIN ChainOf[k] : ChainOf[k][i] = ChainOf[k][j] => i = j
  /\ Pinned \subseteq Keys /\ \A k \in Pinned : Len(ChainOf[k]) = 1
  /\ Requests \in [Callers -> SUBSET [key : Keys, refresh : BOOLEAN, debug : BOOLEAN]]
  /\ Guards \subseteq [slots : Nat \ {0}, queue : Nat]
  /\ Capacity \in [Providers -> Nat \ {0}]
  /\ MaxItems \in Nat \ {0} /\ FreshTTL \in Nat /\ StaleTTL \in Nat /\ FreshTTL < StaleTTL
  /\ MaxTime \in Nat /\ Impatient \subseteq Callers

VARIABLES
  now,
  cache,      \* Memory.entries
  pc, req, alive,   \* of each caller: where it is, its request, its context
  joined, answer,   \* whose operation it waits for, and what it returns
  flight,     \* singleflight: the caller whose operation is under way
  op,         \* the operation a caller started
  guard,            \* inflightMax and queueMax, set before the service runs
  inflight, queued  \* len(liveSlots) and the queue counter

callerVars == <<pc, req, joined, answer>>
guardVars == <<guard, inflight, queued>>
vars == <<now, cache, callerVars, alive, flight, op, guardVars>>

\* An operation: where it is, whether it holds a slot, the provider whose
\* lease it holds, what the members of the chain tried so far have replied,
\* the clock read for the cache, and its outcome.
Idle == [at |-> "none", slot |-> FALSE, lease |-> None, failed |-> <<>>,
         stamp |-> 0, outcome |-> None]

Failure(code) == [error |-> code]
Answered(content, how) == [content |-> content, how |-> how]

Key(c) == req[c].key

\* Mutant of FlightKey: a refresh has a flight of its own.
FlightKeyByRefresh(c) == <<req[c].key, req[c].refresh>>

\* Requests for debugging do not share flights with others.
FlightKey(c) == <<req[c].key, req[c].debug>>
FlightKeys == Keys \X BOOLEAN

Absent == [stored |-> 0, content |-> None]

\* Memory.get: the context is looked at first, then entry and clock.
Get(c, k, ttl) ==
  /\ alive[c]
  /\ cache[k] # Absent
  /\ now - cache[k].stored <= ttl

At(c, place) == op' = [op EXCEPT ![c].at = place]

-----------------------------------------------------------------------------
(* Search, in the goroutine of the caller.                                 *)

Return(c, result) ==
  /\ pc' = [pc EXCEPT ![c] = "done"]
  /\ answer' = [answer EXCEPT ![c] = result]

\* Normalization, selectProvider and the first look into the cache.
Submit(c) ==
  /\ pc[c] = "idle"
  /\ \E r \in Requests[c] :
       /\ req' = [req EXCEPT ![c] = r]
       /\ IF \E i \in DOMAIN ChainOf[r.key] : ChainOf[r.key][i] \notin Registered
          THEN Return(c, Failure("provider_not_found"))
          ELSE IF ~r.refresh /\ Get(c, r.key, FreshTTL)
          THEN Return(c, Answered(cache[r.key].content, "fresh"))
          ELSE pc' = [pc EXCEPT ![c] = "joining"] /\ UNCHANGED answer
  /\ UNCHANGED <<now, cache, joined, alive, flight, op, guardVars>>

\* Mutant of Join: every caller starts an operation.
JoinRestarting(c) ==
  /\ pc[c] = "joining"
  /\ pc' = [pc EXCEPT ![c] = "waiting"]
  /\ joined' = [joined EXCEPT ![c] = c]
  /\ flight' = [flight EXCEPT ![FlightKey(c)] = c]
  /\ At(c, "looking")
  /\ UNCHANGED <<now, cache, req, answer, alive, guardVars>>

\* DoChan: the first caller of a key starts the operation.
Join(c) ==
  LET first == flight[FlightKey(c)] = None
      leader == IF first THEN c ELSE flight[FlightKey(c)]
  IN /\ pc[c] = "joining"
     /\ pc' = [pc EXCEPT ![c] = "waiting"]
     /\ joined' = [joined EXCEPT ![c] = leader]
     /\ flight' = [flight EXCEPT ![FlightKey(c)] = leader]
     /\ IF first THEN At(c, "looking") ELSE UNCHANGED op
     /\ UNCHANGED <<now, cache, req, answer, alive, guardVars>>

Receive(c) ==
  /\ pc[c] = "waiting" /\ op[joined[c]].at = "landed"
  /\ Return(c, op[joined[c]].outcome)
  /\ UNCHANGED <<now, cache, req, joined, alive, flight, op, guardVars>>

\* The context of the caller ends while it waits.
Abandon(c) ==
  /\ pc[c] = "waiting" /\ ~alive[c]
  /\ Return(c, Failure("abandoned"))
  /\ UNCHANGED <<now, cache, req, joined, alive, flight, op, guardVars>>

-----------------------------------------------------------------------------
(* The operation, in the goroutine of singleflight, with the context and   *)
(* the request of the caller that started it.                              *)

\* It looks into the cache once more, and returns the entry as it was stored.
LookAgain(c) ==
  /\ op[c].at = "looking"
  /\ IF ~req[c].refresh /\ Get(c, Key(c), FreshTTL)
     THEN op' = [op EXCEPT ![c].at = "returning",
                           ![c].outcome = Answered(cache[Key(c)].content, "stored")]
     ELSE At(c, "guard")
  /\ UNCHANGED <<now, cache, callerVars, alive, flight, guardVars>>

\* acquireLive.
TakeSlot(c) ==
  /\ op[c].at = "guard" /\ inflight < guard.slots
  /\ inflight' = inflight + 1
  /\ op' = [op EXCEPT ![c].at = "member", ![c].slot = TRUE]
  /\ UNCHANGED <<now, cache, callerVars, alive, flight, guard, queued>>

\* The counter is raised first, also by the one that finds the queue full.
Enqueue(c) ==
  /\ op[c].at = "guard" /\ inflight >= guard.slots
  /\ queued' = queued + 1
  /\ op' = IF queued' > guard.queue
           THEN [op EXCEPT ![c].at = "unqueueing", ![c].outcome = Failure("queue_full")]
           ELSE [op EXCEPT ![c].at = "queued"]
  /\ UNCHANGED <<now, cache, callerVars, alive, flight, guard, inflight>>

\* Mutant of WaitForSlot: the end of a wait is taken for a slot.
WaitForSlotUnchecked(c) ==
  /\ op[c].at = "queued"
  /\ inflight' = inflight + 1
  /\ op' = [op EXCEPT ![c].at = "unqueueing", ![c].slot = TRUE]
  /\ UNCHANGED <<now, cache, callerVars, alive, flight, guard, queued>>

\* Mutant of WaitForSlot: an operation that is queued gives up at once.
WaitForSlotHasty(c) ==
  /\ op[c].at = "queued"
  /\ op' = [op EXCEPT ![c].at = "unqueueing", ![c].outcome = Failure("expired")]
  /\ UNCHANGED <<now, cache, callerVars, alive, flight, guardVars>>

WaitForSlot(c) ==
  /\ op[c].at = "queued"
  /\ \/ /\ inflight < guard.slots
        /\ inflight' = inflight + 1
        /\ op' = [op EXCEPT ![c].at = "unqueueing", ![c].slot = TRUE]
     \/ /\ ~alive[c]
        /\ op' = [op EXCEPT ![c].at = "unqueueing", ![c].outcome = Failure("expired")]
        /\ UNCHANGED inflight
  /\ UNCHANGED <<now, cache, callerVars, alive, flight, guard, queued>>

Unqueue(c) ==
  /\ op[c].at = "unqueueing"
  /\ queued' = queued - 1
  /\ At(c, IF op[c].slot THEN "member" ELSE "returning")
  /\ UNCHANGED <<now, cache, callerVars, alive, flight, guard, inflight>>

\* The member of the chain whose turn it is.
Chain(c) == ChainOf[Key(c)]
Member(c) == Chain(c)[Len(op[c].failed) + 1]
Alone(c) == Key(c) \in Pinned

Fail(c, code, failed) ==
  op' = [op EXCEPT ![c].at = "failing", ![c].lease = None, ![c].failed = failed,
                   ![c].outcome = Failure(code)]

\* Only the chain looks at the context between its members.
Cancel(c) ==
  /\ op[c].at = "member" /\ ~Alone(c) /\ ~alive[c]
  /\ Fail(c, "cancelled", op[c].failed)
  /\ UNCHANGED <<now, cache, callerVars, alive, flight, guardVars>>

\* PooledProvider.Search gets a lease of the provider's pool.
Acquire(c) ==
  /\ op[c].at = "member" /\ (Alone(c) \/ alive[c])
  /\ Cardinality({d \in Callers : op[d].lease = Member(c)}) < Capacity[Member(c)]
  /\ op' = [op EXCEPT ![c].at = "leased", ![c].lease = Member(c)]
  /\ UNCHANGED <<now, cache, callerVars, alive, flight, guardVars>>

\* Mutant of AllowsFallback: a busy provider is passed over.
AllowsFallbackBusy(reply) == reply # "fatal"

\* After which failures the chain tries its next member.
AllowsFallback(reply) == reply \in {"empty", "retryable"}

\* The search has an answer.  Memory.Set looks at the context and at the clock
\* before it locks; not to be able to store is but a warning.
Succeed(c, reply) ==
  op' = [op EXCEPT ![c].at = IF alive[c] THEN "storing" ELSE "releasing",
                   ![c].lease = None, ![c].stamp = now,
                   ![c].outcome = Answered([of |-> Key(c), by |-> Member(c),
                                            empty |-> reply = "empty"], "live")]

\* Mutant of Judge: the chain takes any reply without an error.
JudgeAnyReply(c, reply) ==
  LET failed == Append(op[c].failed, reply)
  IN IF reply \in {"results", "empty"}
     THEN Succeed(c, reply)
     ELSE IF Alone(c) \/ ~AllowsFallback(reply) THEN Fail(c, reply, failed)
     ELSE IF Len(failed) = Len(Chain(c)) THEN Fail(c, "unavailable", failed)
     ELSE op' = [op EXCEPT ![c].at = "member", ![c].lease = None, ![c].failed = failed]

\* What Chain.Search, or without a chain the service itself, makes of the
\* reply of a member.  No lease is held any more.
Judge(c, reply) ==
  LET failed == Append(op[c].failed, reply)
  IN IF reply = "results" \/ (reply = "empty" /\ Alone(c))
     THEN Succeed(c, reply)
     ELSE IF ~Alone(c) /\ ~alive[c] THEN Fail(c, "cancelled", failed)
     ELSE IF Alone(c) \/ ~AllowsFallback(reply) THEN Fail(c, reply, failed)
     ELSE IF Len(failed) = Len(Chain(c)) THEN Fail(c, "unavailable", failed)
     ELSE op' = [op EXCEPT ![c].at = "member", ![c].lease = None, ![c].failed = failed]

\* No lease within the time allowed.
GiveUpLease(c) ==
  /\ op[c].at = "member"
  /\ Judge(c, "busy")
  /\ UNCHANGED <<now, cache, callerVars, alive, flight, guardVars>>

\* What a leased profile answers: results, none, an error the chain goes on
\* after, or one it stops at; without a chain errors are alike.
Replies(c) == {"results", "empty", "fatal"} \cup (IF Alone(c) THEN {} ELSE {"retryable"})

\* The leased profile searches, and the lease is released with the result.
\* A release or a trace that fails makes a "retryable" of any reply.
Reply(c) ==
  /\ op[c].at = "leased"
  /\ \E reply \in Replies(c) : Judge(c, reply)
  /\ UNCHANGED <<now, cache, callerVars, alive, flight, guardVars>>

Stored == {k \in Keys : cache[k] # Absent}

Oldest == {k \in Stored : \A l \in Stored : cache[k].stored <= cache[l].stored}

Store(c) ==
  LET entry == [stored |-> op[c].stamp, content |-> op[c].outcome.content]
  IN /\ op[c].at = "storing"
     /\ IF cache[Key(c)] = Absent /\ Cardinality(Stored) >= MaxItems
        THEN \E k \in Oldest :
               cache' = [cache EXCEPT ![k] = Absent, ![Key(c)] = entry]
        ELSE cache' = [cache EXCEPT ![Key(c)] = entry]
     /\ op' = [op EXCEPT ![c].at = "releasing", ![c].failed = <<>>, ![c].stamp = 0]
     /\ UNCHANGED <<now, callerVars, alive, flight, guardVars>>

FallBack(c) ==
  /\ op[c].at = "failing"
  /\ op' = IF Get(c, Key(c), StaleTTL)
           THEN [op EXCEPT ![c].at = "releasing", ![c].failed = <<>>,
                           ![c].outcome = Answered(cache[Key(c)].content, "stale")]
           ELSE [op EXCEPT ![c].at = "releasing", ![c].failed = <<>>]
  /\ UNCHANGED <<now, cache, callerVars, alive, flight, guardVars>>

\* Mutant of ReleaseSlot: the slot is returned after an answer only.
ReleaseSlotLeaking(c) ==
  /\ op[c].at = "releasing"
  /\ inflight' = IF "content" \in DOMAIN op[c].outcome THEN inflight - 1 ELSE inflight
  /\ op' = [op EXCEPT ![c].at = "returning", ![c].slot = FALSE,
                        ![c].failed = <<>>, ![c].stamp = 0]
  /\ UNCHANGED <<now, cache, callerVars, alive, flight, guard, queued>>

\* The deferred release, as the operation returns.
ReleaseSlot(c) ==
  /\ op[c].at = "releasing"
  /\ inflight' = inflight - 1
  /\ op' = [op EXCEPT ![c].at = "returning", ![c].slot = FALSE,
                        ![c].failed = <<>>, ![c].stamp = 0]
  /\ UNCHANGED <<now, cache, callerVars, alive, flight, guard, queued>>

\* singleflight forgets the key after that: who joins before shares an outcome
\* that is already decided.
Land(c) ==
  /\ op[c].at = "returning"
  /\ At(c, "landed")
  /\ flight' = [flight EXCEPT ![FlightKey(c)] = None]
  /\ UNCHANGED <<now, cache, callerVars, alive, guardVars>>

-----------------------------------------------------------------------------
\* The request's timeout, or its client, ends its context.
EndContext(c) ==
  /\ c \in Impatient /\ alive[c] /\ pc[c] \notin {"idle", "done"}
  /\ alive' = [alive EXCEPT ![c] = FALSE]
  /\ UNCHANGED <<now, cache, callerVars, flight, op, guardVars>>

Tick ==
  /\ now < MaxTime
  /\ now' = now + 1
  /\ UNCHANGED <<cache, callerVars, alive, flight, op, guardVars>>

Init ==
  /\ now = 0
  /\ cache = [k \in Keys |-> Absent]
  /\ pc = [c \in Callers |-> "idle"]
  /\ req = [c \in Callers |-> None]
  /\ alive = [c \in Callers |-> TRUE]
  /\ joined = [c \in Callers |-> None]
  /\ answer = [c \in Callers |-> None]
  /\ flight = [f \in FlightKeys |-> None]
  /\ op = [c \in Callers |-> Idle]
  /\ guard \in Guards /\ inflight = 0 /\ queued = 0

CallerStep(c) == Submit(c) \/ Join(c) \/ Receive(c) \/ Abandon(c)

GuardStep(c) == TakeSlot(c) \/ Enqueue(c) \/ WaitForSlot(c) \/ Unqueue(c)

OpStep(c) ==
  \/ LookAgain(c) \/ GuardStep(c)
  \/ Cancel(c) \/ Acquire(c) \/ GiveUpLease(c) \/ Reply(c)
  \/ Store(c) \/ FallBack(c) \/ ReleaseSlot(c) \/ Land(c)

Next == Tick \/ \E c \in Callers : CallerStep(c) \/ OpStep(c) \/ EndContext(c)

Spec == Init /\ [][Next]_vars

\* Goroutines run, providers answer and waits for leases end, and so do the
\* contexts of requests.
Fairness ==
  \A c \in Callers :
    /\ WF_vars(Join(c)) /\ WF_vars(Receive(c) \/ Abandon(c))
    /\ WF_vars(OpStep(c)) /\ WF_vars(EndContext(c))

FairSpec == Spec /\ Fairness

-----------------------------------------------------------------------------
(* Properties.                                                             *)

Contents == [of : Keys, by : Providers, empty : BOOLEAN]

Codes == {"provider_not_found", "queue_full", "abandoned", "expired", "cancelled", "unavailable",
          "busy", "retryable", "fatal"}

Results == [error : Codes] \cup [content : Contents, how : {"live", "fresh", "stored", "stale"}]

\* "Nothing" is told apart from everything there can be.
ASSUME NoneIsNothing ==
  None \notin Providers /\ None \notin Contents /\ None \notin Results

\* Every variable has its type; no more searches run than the guard allows.
TypeOK ==
  /\ now \in 0 .. MaxTime
  /\ cache \in [Keys -> {Absent} \cup [stored : 0 .. MaxTime, content : Contents]]
  /\ pc \in [Callers -> {"idle", "joining", "waiting", "done"}]
  /\ \A c \in Callers : req[c] \in Requests[c] \cup {None}
  /\ alive \in [Callers -> BOOLEAN]
  /\ joined \in [Callers -> Callers \cup {None}]
  /\ answer \in [Callers -> {None} \cup Results]
  /\ flight \in [FlightKeys -> Callers \cup {None}]
  /\ \A c \in Callers :
       /\ op[c].at \in {"none", "looking", "guard", "queued", "unqueueing", "member",
                        "leased", "storing", "failing", "releasing", "returning", "landed"}
       /\ op[c].slot \in BOOLEAN /\ op[c].lease \in Providers \cup {None}
       /\ op[c].stamp \in 0 .. MaxTime
       /\ op[c].outcome = None \/ op[c].outcome \in Results
  /\ guard \in Guards /\ inflight \in 0 .. guard.slots
  /\ queued \in 0 .. Cardinality(Callers)

\* acquireLive: the channel holds one token for every operation that still
\* has to give one back, the counter one for every operation that is queued
\* or just leaving the queue, and no lease is out but under a slot.
SlotsExact ==
  /\ inflight = Cardinality({c \in Callers : op[c].slot})
  /\ queued = Cardinality({c \in Callers : op[c].at \in {"queued", "unqueueing"}})
  /\ \A c \in Callers : op[c].lease # None => op[c].slot
  /\ \A c \in Callers : op[c].slot => flight[FlightKey(c)] = c

\* Search, Memory.Set: what is stored is the answer of a live search of this
\* very key, by a provider of its chain; an empty answer is stored only if one
\* provider alone was asked.
OnlyAnswersAreStored ==
  \A k \in Stored :
    LET found == cache[k].content
    IN /\ found.of = k
       /\ \E i \in DOMAIN ChainOf[k] : found.by = ChainOf[k][i]
       /\ found.empty => k \in Pinned

\* Chain.Search, "an ordered list of providers until one succeeds": when an
\* operation has an answer from the chain, all members before failed in a way
\* that allows a fallback, and none after was asked; when it is given up as
\* unavailable, every member was.
ChainInOrder ==
  \A c \in Callers :
    LET tried == op[c].failed
        recoverable == {"empty", "retryable"}
    IN op[c].at \notin {"none", "releasing", "returning", "landed"} =>
         /\ Len(tried) <= Len(Chain(c))
         /\ \A i \in 1 .. Len(tried) - 1 : tried[i] \in recoverable
         /\ op[c].outcome = Failure("unavailable") =>
              Len(tried) = Len(Chain(c)) /\ \A i \in DOMAIN tried : tried[i] \in recoverable
         /\ op[c].at = "storing" =>
              /\ \A i \in DOMAIN tried : tried[i] \in recoverable
              /\ op[c].outcome.content.by = Chain(c)[Len(tried) + 1]

\* The contexts of others: a caller is told that time is up or the search was
\* cancelled only when its own context or that of the operation it shares has
\* ended.
ExpiryHasACause ==
  \A c \in Callers :
    answer[c] \in {Failure(code) : code \in {"abandoned", "expired", "cancelled"}} =>
      ~alive[c] \/ ~alive[joined[c]]

\* Memory.Set reads the clock before it locks, yet what is stored for a key
\* is never replaced by something older, for flights keep the searches of one
\* key apart; requests for debugging have flights of their own.
CacheMovesForward ==
  [][\A k \in Keys :
       (/\ cache[k] # Absent /\ cache'[k] # Absent
        /\ \A c \in Callers : \A r \in Requests[c] : r.key = k => ~r.debug)
       => cache[k].stored <= cache'[k].stored]_vars

\* Everything begun comes to its end, whatever it meets: a full queue, a busy
\* pool, the end of the context an operation borrowed.  Callers return, and
\* operations nobody waits for any more give back what they hold.
Quiet ==
  \A c \in Callers : pc[c] \in {"idle", "done"} /\ op[c].at \in {"none", "landed"}

ComesToRest == []<>Quiet

\* The service shares operations as Flight.tla describes.
Shared == INSTANCE Flight WITH
  Outcomes <- Results,
  outcome <- [c \in Callers |-> IF op[c].at = "landed" THEN op[c].outcome ELSE None],
  got <- [c \in Callers |->
            IF answer[c] = None THEN None
            ELSE IF joined[c] = None \/ answer[c] # op[joined[c]].outcome THEN Left
            ELSE answer[c]]
ImplementsFlight == Shared!Spec
=============================================================================
