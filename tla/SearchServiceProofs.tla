------------------------ MODULE SearchServiceProofs ------------------------
(***************************************************************************)
(* Theorems about SearchService for every set of callers, providers and    *)
(* keys, every chain, guard, capacity and bound.                           *)
(***************************************************************************)
EXTENDS SearchService, FiniteSetTheorems, TLAPS

-----------------------------------------------------------------------------
(* The inductive invariant.                                                *)

Places == {"none", "looking", "guard", "queued", "unqueueing", "member", "leased",
           "storing", "failing", "releasing", "returning", "landed"}
Replied == {"results", "empty", "fatal", "retryable", "busy"}

OpType == [at : Places, slot : BOOLEAN, lease : Providers \cup {None}, failed : Seq(Replied),
           stamp : 0 .. MaxTime, outcome : Results \cup {None}]

Active(c) == op[c].at \notin {"none", "landed"}

Recoverable(tried) == \A i \in 1 .. Len(tried) : tried[i] \in {"empty", "retryable"}

\* What an operation holds and has decided, by its place.
OpHolds(c) ==
  LET o == op[c]
  IN /\ o.at # "none" => pc[c] \in {"waiting", "done"} /\ joined[c] = c
     /\ o.at \in {"member", "leased", "storing", "failing", "releasing"} => o.slot
     /\ o.at \in {"none", "looking", "guard", "queued", "returning", "landed"} => ~o.slot
     /\ o.lease # None <=> o.at = "leased"
     /\ o.at \in {"none", "looking", "guard", "queued", "member", "leased"} => o.outcome = None
     /\ o.at = "unqueueing" =>
          IF o.slot THEN o.outcome = None
          ELSE o.outcome \in {Failure("queue_full"), Failure("expired")}
     /\ o.at \in {"storing", "failing", "releasing", "returning", "landed"} =>
          o.outcome \in Results
     /\ o.outcome # Failure("abandoned")
     /\ o.outcome \in {Failure("expired"), Failure("cancelled")} => ~alive[c]

\* What the members of the chain that an operation has tried replied.
OpTried(c) ==
  LET o == op[c]
  IN /\ o.at \in {"none", "looking", "guard", "queued", "unqueueing"} => o.failed = <<>>
     /\ o.at \in {"member", "leased", "storing"} =>
          Len(o.failed) < Len(Chain(c)) /\ Recoverable(o.failed)
     /\ o.at = "storing" =>
          /\ o.outcome \in [content : Contents, how : {"live"}]
          /\ o.outcome.content.of = Key(c)
          /\ o.outcome.content.by = Chain(c)[Len(o.failed) + 1]
          /\ o.outcome.content.empty => Key(c) \in Pinned
     /\ o.at = "failing" =>
          /\ Len(o.failed) <= Len(Chain(c))
          /\ \A i \in 1 .. Len(o.failed) - 1 : o.failed[i] \in {"empty", "retryable"}
          /\ o.outcome = Failure("unavailable") =>
               Len(o.failed) = Len(Chain(c)) /\ Recoverable(o.failed)

\* Where a caller is, and where its answer came from.
CallerShape(c) ==
  /\ pc[c] # "idle" => req[c] \in Requests[c]
  /\ pc[c] \in {"idle", "joining"} => joined[c] = None
  /\ pc[c] = "waiting" => joined[c] # None
  /\ pc[c] = "done" <=> answer[c] # None
  /\ joined[c] # None => op[joined[c]].at # "none"
  /\ answer[c] # None =>
       \/ /\ joined[c] = None
          /\ answer[c] \notin {Failure("abandoned"), Failure("expired"), Failure("cancelled")}
       \/ joined[c] # None /\ answer[c] = Failure("abandoned") /\ ~alive[c]
       \/ /\ joined[c] # None /\ op[joined[c]].at = "landed"
          /\ answer[c] = op[joined[c]].outcome

\* A flight is the one operation under way for its key.
FlightShape ==
  /\ \A c \in Callers : Active(c) => flight[FlightKey(c)] = c
  /\ \A f \in FlightKeys : flight[f] # None =>
       Active(flight[f]) /\ FlightKey(flight[f]) = f

\* All requests for the key share their flights.
Plain(k) == \A c \in Callers : \A r \in Requests[c] : r.key = k => ~r.debug

\* What the cache holds was stored in the past, and nothing that is about to
\* replace it is older.
CacheShape ==
  /\ \A k \in Keys : cache[k] # Absent => cache[k].stored <= now
  /\ \A c \in Callers : op[c].stamp <= now
  /\ \A c \in Callers :
       (op[c].at = "storing" /\ cache[Key(c)] # Absent /\ Plain(Key(c)))
         => cache[Key(c)].stored <= op[c].stamp

IInv ==
  /\ TypeOK
  /\ op \in [Callers -> OpType]
  /\ req \in [Callers -> [key : Keys, refresh : BOOLEAN, debug : BOOLEAN] \cup {None}]
  /\ \A c \in Callers : OpHolds(c) /\ OpTried(c) /\ CallerShape(c)
  /\ FlightShape
  /\ SlotsExact
  /\ OnlyAnswersAreStored
  /\ CacheShape

-----------------------------------------------------------------------------
(* Values.                                                                 *)

\* Failures differ from each other and from answers.
LEMMA Outcomes ==
  /\ \A a, b : Failure(a) = Failure(b) => a = b
  /\ \A a, x, y : Failure(a) # Answered(x, y)
  /\ \A a \in Codes : Failure(a) \in Results
  /\ \A x \in Contents, y \in {"live", "fresh", "stored", "stale"} : Answered(x, y) \in Results
  /\ \A x, y : Answered(x, y).content = x
<1>1. \A a, b : Failure(a) = Failure(b) => a = b
  <2> TAKE a, b
  <2>1. Failure(a).error = a /\ Failure(b).error = b
    BY DEF Failure
  <2>2. QED BY <2>1
<1>2. \A a, x, y : Failure(a) # Answered(x, y)
  <2> TAKE a, x, y
  <2>1. "content" \in DOMAIN Answered(x, y) /\ "content" \notin DOMAIN Failure(a)
    BY DEF Failure, Answered
  <2>2. QED BY <2>1
<1>3. \A a \in Codes : Failure(a) \in Results
  BY DEF Failure, Results
<1>4. \A x \in Contents, y \in {"live", "fresh", "stored", "stale"} : Answered(x, y) \in Results
  BY DEF Answered, Results
<1>5. \A x, y : Answered(x, y).content = x
  BY DEF Answered
<1>6. QED BY <1>1, <1>2, <1>3, <1>4, <1>5

\* Requests and keys have their types.
LEMMA RequestFacts ==
  ASSUME NEW c \in Callers, req[c] \in Requests[c]
  PROVE  /\ Key(c) \in Keys
         /\ FlightKey(c) \in FlightKeys
         /\ FlightKey(c) = <<Key(c), req[c].debug>>
         /\ Chain(c) \in Seq(Providers) /\ Len(Chain(c)) \in Nat \ {0}
         /\ Alone(c) => Key(c) \in Pinned
<1>1. req[c] \in [key : Keys, refresh : BOOLEAN, debug : BOOLEAN]
  BY ConstantsOK
<1>2. Key(c) \in Keys /\ FlightKey(c) \in FlightKeys /\ FlightKey(c) = <<Key(c), req[c].debug>>
  BY <1>1 DEF Key, FlightKey, FlightKeys
<1>3. Chain(c) \in Seq(Providers) /\ Chain(c) # <<>>
  BY <1>2, ConstantsOK DEF Chain
<1>4. QED BY <1>2, <1>3 DEF Alone

\* A member of the chain is a provider.
LEMMA MemberFacts ==
  ASSUME NEW c \in Callers, req[c] \in Requests[c], op[c] \in OpType,
         Len(op[c].failed) < Len(Chain(c))
  PROVE  /\ Member(c) \in Providers
         /\ Len(op[c].failed) + 1 \in DOMAIN ChainOf[Key(c)]
         /\ Member(c) = ChainOf[Key(c)][Len(op[c].failed) + 1]
<1>1. Len(op[c].failed) \in Nat
  BY DEF OpType
<1>2. QED BY <1>1, RequestFacts DEF Member, Chain

-----------------------------------------------------------------------------
(* Steps of an operation.                                                  *)

\* A step that changes the operation of c only, and leaves it well formed.
Moved(c) ==
  /\ op' \in [Callers -> OpType]
  /\ \A d \in Callers \ {c} : op'[d] = op[d]
  /\ OpHolds(c)' /\ OpTried(c)'

\* What the invariant says of one operation under way.
LEMMA ActiveFacts ==
  ASSUME IInv, NEW c \in Callers, op[c].at # "none"
  PROVE  /\ op[c] \in OpType
         /\ pc[c] \in {"waiting", "done"} /\ joined[c] = c
         /\ req[c] \in Requests[c]
         /\ alive[c] \in BOOLEAN
BY DEF IInv, OpHolds, CallerShape, TypeOK

\* An operation that fails keeps its slot and gives up its lease.
LEMMA FailFacts ==
  ASSUME IInv, NEW c \in Callers, op[c].at \in {"member", "leased"},
         NEW code \in Codes, code \notin {"abandoned", "expired"},
         code = "cancelled" => ~alive[c],
         NEW failed \in Seq(Replied), Len(failed) <= Len(Chain(c)),
         \A i \in 1 .. Len(failed) - 1 : failed[i] \in {"empty", "retryable"},
         code = "unavailable" => Len(failed) = Len(Chain(c)) /\ Recoverable(failed),
         Fail(c, code, failed), UNCHANGED <<callerVars, alive>>
  PROVE  /\ Moved(c)
         /\ op'[c].slot = op[c].slot /\ op'[c].at = "failing"
         /\ op'[c].stamp = op[c].stamp
<1>1. /\ op[c] \in OpType /\ pc[c] \in {"waiting", "done"} /\ joined[c] = c
      /\ op[c].slot /\ op \in [Callers -> OpType]
  BY ActiveFacts DEF IInv, OpHolds
<1>2. op'[c] = [at |-> "failing", slot |-> op[c].slot, lease |-> None, failed |-> failed,
                stamp |-> op[c].stamp, outcome |-> Failure(code)]
  BY <1>1 DEF Fail, OpType
<1>3. \A d \in Callers \ {c} : op'[d] = op[d]
  BY <1>1 DEF Fail
<1>4. Failure(code) \in Results
  BY Outcomes
<1>5. op'[c] \in OpType
  BY <1>1, <1>2, <1>4 DEF OpType, Places
<1>6. op' \in [Callers -> OpType]
  BY <1>1, <1>3, <1>5 DEF Fail
<1>7. /\ Failure(code) # Failure("abandoned")
      /\ Failure(code) # Failure("expired")
      /\ Failure(code) = Failure("cancelled") => code = "cancelled"
      /\ Failure(code) = Failure("unavailable") => code = "unavailable"
  BY Outcomes
<1>8. OpHolds(c)'
  BY <1>1, <1>2, <1>4, <1>7 DEF OpHolds, callerVars
<1>9. Chain(c)' = Chain(c) /\ Key(c)' = Key(c)
  BY DEF callerVars, Chain, Key
<1>10. OpTried(c)'
  BY <1>2, <1>7, <1>9 DEF OpTried, Recoverable
<1>11. QED BY <1>2, <1>3, <1>6, <1>8, <1>10 DEF Moved

\* An operation that has its answer stores it, if its context still lives.
LEMMA SucceedFacts ==
  ASSUME IInv, NEW c \in Callers, op[c].at \in {"member", "leased"},
         NEW reply \in Replied, reply = "empty" => Key(c) \in Pinned,
         Succeed(c, reply), UNCHANGED <<callerVars, alive>>
  PROVE  /\ Moved(c)
         /\ op'[c].slot = op[c].slot /\ op'[c].at \in {"storing", "releasing"}
         /\ op'[c].stamp = now
<1> DEFINE found == [of |-> Key(c), by |-> Member(c), empty |-> reply = "empty"]
<1>1. /\ op[c] \in OpType /\ pc[c] \in {"waiting", "done"} /\ joined[c] = c
      /\ op[c].slot /\ op \in [Callers -> OpType] /\ req[c] \in Requests[c]
      /\ now \in 0 .. MaxTime /\ alive[c] \in BOOLEAN
      /\ Len(op[c].failed) < Len(Chain(c)) /\ Recoverable(op[c].failed)
  BY ActiveFacts DEF IInv, OpHolds, OpTried, TypeOK
<1>2. Member(c) \in Providers /\ Member(c) = Chain(c)[Len(op[c].failed) + 1] /\ Key(c) \in Keys
  BY <1>1, MemberFacts, RequestFacts DEF Member
<1>3. found \in Contents /\ found.of = Key(c) /\ found.by = Member(c) /\ (found.empty <=> reply = "empty")
  BY <1>2 DEF Contents
<1> DEFINE place == IF alive[c] THEN "storing" ELSE "releasing"
<1>4. op'[c] = [at |-> place, slot |-> op[c].slot, lease |-> None, failed |-> op[c].failed,
                stamp |-> now, outcome |-> Answered(found, "live")]
  BY <1>1 DEF Succeed, OpType
<1>5. \A d \in Callers \ {c} : op'[d] = op[d]
  BY <1>1 DEF Succeed
<1> HIDE DEF found
<1>6. /\ Answered(found, "live") \in Results
      /\ Answered(found, "live") \in [content : Contents, how : {"live"}]
      /\ Answered(found, "live").content = found
      /\ \A code : Answered(found, "live") # Failure(code)
  BY <1>3, Outcomes DEF Answered
<1>7. place \in Places /\ place \in {"storing", "releasing"}
  BY DEF Places
<1> HIDE DEF place
<1>8. op'[c] \in OpType
  BY <1>1, <1>4, <1>6, <1>7 DEF OpType
<1>9. op' \in [Callers -> OpType]
  BY <1>1, <1>5, <1>8 DEF Succeed
<1>10. OpHolds(c)'
  BY <1>1, <1>4, <1>6, <1>7 DEF OpHolds, callerVars
<1>11. Chain(c)' = Chain(c) /\ Key(c)' = Key(c)
  BY DEF callerVars, Chain, Key
<1>12. Len(op[c].failed) \in Nat /\ Len(Chain(c)) \in Nat
  BY <1>1, RequestFacts DEF OpType
<1>13. OpTried(c)'
  BY <1>1, <1>2, <1>3, <1>4, <1>6, <1>7, <1>11, <1>12 DEF OpTried, Recoverable
<1>14. QED BY <1>4, <1>5, <1>7, <1>9, <1>10, <1>13 DEF Moved

\* A reply is an answer, ends the search or passes it on to the next member.
LEMMA JudgeFacts ==
  ASSUME IInv, NEW c \in Callers, op[c].at \in {"member", "leased"},
         NEW reply \in Replied, Judge(c, reply), UNCHANGED <<callerVars, alive>>
  PROVE  /\ Moved(c)
         /\ op'[c].slot = op[c].slot
         /\ op'[c].at \in {"storing", "releasing", "failing", "member"}
         /\ op'[c].stamp \in {op[c].stamp, now}
         /\ op'[c].at = "storing" => op'[c].stamp = now
<1> DEFINE failed == Append(op[c].failed, reply)
<1>1. /\ op[c] \in OpType /\ pc[c] \in {"waiting", "done"} /\ joined[c] = c
      /\ op[c].slot /\ op \in [Callers -> OpType] /\ req[c] \in Requests[c]
      /\ Len(op[c].failed) < Len(Chain(c)) /\ Recoverable(op[c].failed)
      /\ op[c].outcome = None
  BY ActiveFacts DEF IInv, OpHolds, OpTried
<1>2. Len(Chain(c)) \in Nat /\ (Alone(c) => Key(c) \in Pinned)
  BY <1>1, RequestFacts
<1>3. op[c].failed \in Seq(Replied)
  BY <1>1 DEF OpType
<1>4. /\ failed \in Seq(Replied) /\ Len(failed) = Len(op[c].failed) + 1
      /\ \A i \in 1 .. Len(op[c].failed) : failed[i] = op[c].failed[i]
      /\ failed[Len(failed)] = reply
      /\ Len(op[c].failed) \in Nat
  BY <1>3
<1>5. /\ Len(failed) <= Len(Chain(c))
      /\ \A i \in 1 .. Len(failed) - 1 : failed[i] \in {"empty", "retryable"}
  BY <1>1, <1>2, <1>4 DEF Recoverable
<1>6. AllowsFallback(reply) => Recoverable(failed)
  <2> SUFFICES ASSUME AllowsFallback(reply), NEW i \in 1 .. Len(failed)
               PROVE  failed[i] \in {"empty", "retryable"}
    BY DEF Recoverable
  <2>1. CASE i = Len(failed)
    BY <2>1, <1>4 DEF AllowsFallback
  <2>2. CASE i # Len(failed)
    BY <2>2, <1>4, <1>5
  <2>3. QED BY <2>1, <2>2
<1>7. CASE reply = "results" \/ (reply = "empty" /\ Alone(c))
  <2>1. Succeed(c, reply)
    BY <1>7 DEF Judge
  <2>2. QED BY <2>1, <1>2, <1>7, SucceedFacts
<1>8. CASE /\ ~(reply = "results" \/ (reply = "empty" /\ Alone(c)))
           /\ ~Alone(c) /\ ~alive[c]
  <2>1. Fail(c, "cancelled", failed)
    BY <1>8 DEF Judge
  <2> HIDE DEF failed
  <2>2. QED BY <2>1, <1>4, <1>5, <1>8, FailFacts DEF Codes
<1>9. CASE /\ ~(reply = "results" \/ (reply = "empty" /\ Alone(c)))
           /\ ~(~Alone(c) /\ ~alive[c])
           /\ Alone(c) \/ ~AllowsFallback(reply)
  <2>1. Fail(c, reply, failed)
    BY <1>9 DEF Judge
  <2>2. reply \in {"fatal", "retryable", "busy"}
    BY <1>9 DEF Replied, AllowsFallback
  <2>3. reply \in Codes /\ reply \notin {"abandoned", "expired", "cancelled", "unavailable"}
    BY <2>2 DEF Codes
  <2> HIDE DEF failed
  <2>4. QED BY <2>1, <2>3, <1>4, <1>5, FailFacts
<1>10. CASE /\ ~(reply = "results" \/ (reply = "empty" /\ Alone(c)))
            /\ ~(~Alone(c) /\ ~alive[c])
            /\ ~(Alone(c) \/ ~AllowsFallback(reply))
            /\ Len(failed) = Len(Chain(c))
  <2>1. Fail(c, "unavailable", failed)
    BY <1>10 DEF Judge
  <2> HIDE DEF failed
  <2>2. QED BY <2>1, <1>4, <1>5, <1>6, <1>10, FailFacts DEF Codes
<1>11. CASE /\ ~(reply = "results" \/ (reply = "empty" /\ Alone(c)))
            /\ ~(~Alone(c) /\ ~alive[c])
            /\ ~(Alone(c) \/ ~AllowsFallback(reply))
            /\ Len(failed) # Len(Chain(c))
  <2>1. op' = [op EXCEPT ![c].at = "member", ![c].lease = None, ![c].failed = failed]
    BY <1>11 DEF Judge
  <2> HIDE DEF failed
  <2>2. op'[c] = [at |-> "member", slot |-> op[c].slot, lease |-> None, failed |-> failed,
                  stamp |-> op[c].stamp, outcome |-> None]
    BY <1>1, <2>1 DEF OpType
  <2>3. op'[c] \in OpType /\ \A d \in Callers \ {c} : op'[d] = op[d]
    BY <1>1, <1>4, <2>1, <2>2 DEF OpType, Places
  <2>4. op' \in [Callers -> OpType]
    BY <1>1, <2>1, <2>3
  <2>5. None \notin Results /\ Failure("abandoned") \in Results /\ Failure("expired") \in Results
        /\ Failure("cancelled") \in Results
    BY Outcomes, NoneIsNothing DEF Codes
  <2>6. OpHolds(c)'
    BY <1>1, <2>2, <2>5 DEF OpHolds, callerVars
  <2>7. Chain(c)' = Chain(c)
    BY DEF callerVars, Chain, Key
  <2>8. Len(failed) < Len(Chain(c)) /\ Recoverable(failed)
    BY <1>2, <1>4, <1>5, <1>6, <1>11
  <2>9. OpTried(c)'
    BY <2>2, <2>7, <2>8 DEF OpTried, Recoverable
  <2>10. QED BY <2>2, <2>3, <2>4, <2>6, <2>9 DEF Moved
<1>12. QED BY <1>7, <1>8, <1>9, <1>10, <1>11

\* The look into the cache and the guard.
LEMMA GuardFacts ==
  ASSUME IInv, NEW c \in Callers, LookAgain(c) \/ GuardStep(c)
  PROVE  /\ Moved(c) /\ op'[c].stamp = op[c].stamp
         /\ op'[c].at \notin {"none", "landed", "storing"} /\ op[c].at \notin {"none", "landed"}
<1>1. /\ op[c] \in OpType /\ pc[c] \in {"waiting", "done"} /\ joined[c] = c
      /\ op \in [Callers -> OpType] /\ req[c] \in Requests[c] /\ op[c].at \notin {"none", "landed"}
  BY ActiveFacts DEF IInv, LookAgain, GuardStep, TakeSlot, Enqueue, WaitForSlot, Unqueue
<1>2. UNCHANGED <<callerVars, alive>>
  BY DEF LookAgain, GuardStep, TakeSlot, Enqueue, WaitForSlot, Unqueue
<1>3. /\ None \notin Results
      /\ \A code \in Codes : Failure(code) \in Results
      /\ \A a, b \in Codes : Failure(a) = Failure(b) => a = b
      /\ {"abandoned", "expired", "cancelled", "unavailable", "queue_full"} \subseteq Codes
  BY Outcomes, NoneIsNothing DEF Codes
<1>4. OpHolds(c) /\ OpTried(c)
  BY DEF IInv
<1>5. Chain(c)' = Chain(c) /\ Len(Chain(c)) \in Nat \ {0}
  BY <1>1, <1>2, RequestFacts DEF callerVars, Chain, Key
<1>6. Len(<<>>) = 0 /\ Recoverable(<<>>)
  BY DEF Recoverable
<1> DEFINE Leads(at, slot, outcome) ==
      /\ op'[c] = [at |-> at, slot |-> slot, lease |-> None, failed |-> <<>>,
                   stamp |-> op[c].stamp, outcome |-> outcome]
      /\ \A d \in Callers \ {c} : op'[d] = op[d]
      /\ op' \in [Callers -> OpType]
<1>7. CASE LookAgain(c)
  <2>1. CASE ~req[c].refresh /\ Get(c, Key(c), FreshTTL)
    <3>1. cache[Key(c)].content \in Contents
      BY <1>1, <2>1, RequestFacts DEF IInv, TypeOK, Get
    <3> DEFINE got == Answered(cache[Key(c)].content, "stored")
    <3>2. got \in Results /\ \A code : got # Failure(code)
      BY <3>1, Outcomes
    <3>3. op' = [op EXCEPT ![c].at = "returning", ![c].outcome = got] /\ op[c].at = "looking"
      BY <1>7, <2>1 DEF LookAgain
    <3> HIDE DEF got
    <3>4. Leads("returning", FALSE, got)
      BY <1>1, <1>4, <3>2, <3>3 DEF OpType, Places, OpHolds, OpTried
    <3>5. OpHolds(c)' /\ OpTried(c)'
      BY <1>1, <1>2, <1>5, <1>6, <3>2, <3>4 DEF OpHolds, OpTried, callerVars
    <3>6. QED BY <1>1, <3>4, <3>5 DEF Moved
  <2>2. CASE ~(~req[c].refresh /\ Get(c, Key(c), FreshTTL))
    <3>1. op' = [op EXCEPT ![c].at = "guard"] /\ op[c].at = "looking"
      BY <1>7, <2>2 DEF LookAgain, At
    <3>2. Leads("guard", FALSE, None)
      BY <1>1, <1>4, <3>1 DEF OpType, Places, OpHolds, OpTried
    <3>3. OpHolds(c)' /\ OpTried(c)'
      BY <1>1, <1>2, <1>3, <1>5, <1>6, <3>2 DEF OpHolds, OpTried, callerVars
    <3>4. QED BY <1>1, <3>2, <3>3 DEF Moved
  <2>3. QED BY <2>1, <2>2
<1>8. CASE TakeSlot(c)
  <2>1. op' = [op EXCEPT ![c].at = "member", ![c].slot = TRUE] /\ op[c].at = "guard"
    BY <1>8 DEF TakeSlot
  <2>2. Leads("member", TRUE, None)
    BY <1>1, <1>4, <2>1 DEF OpType, Places, OpHolds, OpTried
  <2>3. OpHolds(c)' /\ OpTried(c)'
    BY <1>1, <1>2, <1>3, <1>5, <1>6, <2>2 DEF OpHolds, OpTried, callerVars, Recoverable
  <2>4. QED BY <1>1, <2>2, <2>3 DEF Moved
<1>9. CASE Enqueue(c)
  <2>1. op[c].at = "guard"
    BY <1>9 DEF Enqueue
  <2>2. CASE op' = [op EXCEPT ![c].at = "unqueueing", ![c].outcome = Failure("queue_full")]
    <3> DEFINE full == Failure("queue_full")
    <3>1. full \in Results
      BY <1>3
    <3>2. op' = [op EXCEPT ![c].at = "unqueueing", ![c].outcome = full]
      BY <2>2
    <3> HIDE DEF full
    <3>3. Leads("unqueueing", FALSE, full)
      BY <1>1, <1>4, <2>1, <3>1, <3>2 DEF OpType, Places, OpHolds, OpTried
    <3> USE DEF full
    <3>4. OpHolds(c)' /\ OpTried(c)'
      BY <1>1, <1>2, <1>3, <1>5, <1>6, <3>3 DEF OpHolds, OpTried, callerVars
    <3>5. QED BY <1>1, <3>3, <3>4 DEF Moved
  <2>3. CASE op' = [op EXCEPT ![c].at = "queued"]
    <3>1. Leads("queued", FALSE, None)
      BY <1>1, <1>4, <2>1, <2>3 DEF OpType, Places, OpHolds, OpTried
    <3>2. OpHolds(c)' /\ OpTried(c)'
      BY <1>1, <1>2, <1>3, <1>5, <1>6, <3>1 DEF OpHolds, OpTried, callerVars
    <3>3. QED BY <1>1, <3>1, <3>2 DEF Moved
  <2>4. QED BY <1>9, <2>2, <2>3 DEF Enqueue
<1>10. CASE WaitForSlot(c)
  <2>1. op[c].at = "queued"
    BY <1>10 DEF WaitForSlot
  <2>2. CASE op' = [op EXCEPT ![c].at = "unqueueing", ![c].slot = TRUE]
    <3>1. Leads("unqueueing", TRUE, None)
      BY <1>1, <1>4, <2>1, <2>2 DEF OpType, Places, OpHolds, OpTried
    <3>2. OpHolds(c)' /\ OpTried(c)'
      BY <1>1, <1>2, <1>3, <1>5, <1>6, <3>1 DEF OpHolds, OpTried, callerVars
    <3>3. QED BY <1>1, <3>1, <3>2 DEF Moved
  <2>3. CASE /\ ~alive[c]
             /\ op' = [op EXCEPT ![c].at = "unqueueing", ![c].outcome = Failure("expired")]
    <3> DEFINE late == Failure("expired")
    <3>1. /\ late \in Results /\ late # None /\ late # Failure("abandoned")
          /\ late \in {Failure("queue_full"), Failure("expired")}
      BY <1>3
    <3>2. op' = [op EXCEPT ![c].at = "unqueueing", ![c].outcome = late]
      BY <2>3
    <3> HIDE DEF late
    <3>3. Leads("unqueueing", FALSE, late)
      BY <1>1, <1>4, <2>1, <3>1, <3>2 DEF OpType, Places, OpHolds, OpTried
    <3>4. ~alive'[c] /\ pc'[c] \in {"waiting", "done"} /\ joined'[c] = c
      BY <1>1, <1>2, <2>3 DEF callerVars
    <3>5. OpHolds(c)'
      BY <3>1, <3>3, <3>4 DEF OpHolds
    <3>6. OpTried(c)'
      BY <1>5, <1>6, <3>3 DEF OpTried
    <3>7. QED BY <1>1, <3>3, <3>5, <3>6 DEF Moved
  <2>4. QED BY <1>10, <2>2, <2>3 DEF WaitForSlot
<1>11. CASE Unqueue(c)
  <2>1. op' = [op EXCEPT ![c].at = IF op[c].slot THEN "member" ELSE "returning"]
        /\ op[c].at = "unqueueing"
    BY <1>11 DEF Unqueue, At
  <2>2. Leads(IF op[c].slot THEN "member" ELSE "returning", op[c].slot, op[c].outcome)
    BY <1>1, <1>4, <2>1 DEF OpType, Places, OpHolds, OpTried
  <2>3. OpHolds(c)'
    BY <1>1, <1>2, <1>3, <1>4, <2>1, <2>2 DEF OpHolds, callerVars
  <2>4. OpTried(c)'
    BY <1>1, <1>2, <1>3, <1>4, <1>5, <1>6, <2>1, <2>2 DEF OpHolds, OpTried, callerVars, Recoverable
  <2>5. QED BY <1>1, <2>2, <2>3, <2>4 DEF Moved
<1>12. QED BY <1>7, <1>8, <1>9, <1>10, <1>11 DEF GuardStep

\* A member of the chain is asked, or passed over.
LEMMA MemberStepFacts ==
  ASSUME IInv, NEW c \in Callers, Cancel(c) \/ Acquire(c) \/ GiveUpLease(c) \/ Reply(c)
  PROVE  /\ Moved(c)
         /\ op[c].at \in {"member", "leased"}
         /\ op'[c].slot = op[c].slot
         /\ op'[c].at \in {"storing", "releasing", "failing", "member", "leased"}
         /\ op'[c].stamp \in {op[c].stamp, now}
         /\ op'[c].at = "storing" => op'[c].stamp = now
<1>1. op[c].at \in {"member", "leased"}
  BY DEF Cancel, Acquire, GiveUpLease, Reply
<1>2. UNCHANGED <<callerVars, alive>>
  BY DEF Cancel, Acquire, GiveUpLease, Reply
<1>3. /\ op[c] \in OpType /\ pc[c] \in {"waiting", "done"} /\ joined[c] = c
      /\ op \in [Callers -> OpType] /\ req[c] \in Requests[c]
      /\ Len(op[c].failed) < Len(Chain(c)) /\ Recoverable(op[c].failed)
      /\ op[c].slot /\ op[c].outcome = None
  BY <1>1, ActiveFacts DEF IInv, OpHolds, OpTried
<1>4. CASE Cancel(c)
  <2>1. op[c].failed \in Seq(Replied) /\ Len(op[c].failed) \in Nat
    BY <1>3 DEF OpType
  <2>2. /\ Len(op[c].failed) <= Len(Chain(c))
        /\ \A i \in 1 .. Len(op[c].failed) - 1 : op[c].failed[i] \in {"empty", "retryable"}
    BY <1>3, <2>1, RequestFacts DEF Recoverable
  <2>3. Fail(c, "cancelled", op[c].failed) /\ ~alive[c]
    BY <1>4 DEF Cancel
  <2>4. "cancelled" \in Codes
    BY DEF Codes
  <2>5. QED BY <1>1, <1>2, <2>1, <2>2, <2>3, <2>4, FailFacts
<1>5. CASE Acquire(c)
  <2>1. Member(c) \in Providers /\ Member(c) # None
    BY <1>3, MemberFacts, NoneIsNothing
  <2>2. op' = [op EXCEPT ![c].at = "leased", ![c].lease = Member(c)]
    BY <1>5 DEF Acquire
  <2>3. op'[c] = [at |-> "leased", slot |-> TRUE, lease |-> Member(c), failed |-> op[c].failed,
                  stamp |-> op[c].stamp, outcome |-> None]
    BY <1>3, <2>2 DEF OpType
  <2>4. op'[c] \in OpType /\ \A d \in Callers \ {c} : op'[d] = op[d]
    BY <1>3, <2>1, <2>2, <2>3 DEF OpType, Places
  <2>5. op' \in [Callers -> OpType]
    BY <1>3, <2>2, <2>4
  <2>6. /\ None # Failure("abandoned") /\ None # Failure("expired") /\ None # Failure("cancelled")
    BY Outcomes, NoneIsNothing DEF Codes
  <2>7. OpHolds(c)'
    BY <1>2, <1>3, <2>1, <2>3, <2>6 DEF OpHolds, callerVars
  <2>8. Chain(c)' = Chain(c)
    BY <1>2 DEF callerVars, Chain, Key
  <2>9. OpTried(c)'
    BY <1>3, <2>3, <2>8 DEF OpTried, Recoverable
  <2>10. QED BY <1>1, <1>3, <2>3, <2>4, <2>5, <2>7, <2>9 DEF Moved
<1>6. CASE GiveUpLease(c)
  <2>1. Judge(c, "busy") /\ "busy" \in Replied
    BY <1>6 DEF GiveUpLease, Replied
  <2>2. QED BY <1>1, <1>2, <2>1, JudgeFacts
<1>7. CASE Reply(c)
  <2>1. PICK reply \in Replies(c) : Judge(c, reply)
    BY <1>7 DEF Reply
  <2>2. reply \in Replied
    BY DEF Replies, Replied
  <2>3. QED BY <1>1, <1>2, <2>1, <2>2, JudgeFacts
<1>8. QED BY <1>4, <1>5, <1>6, <1>7

\* A search that is over stores its answer or falls back to an older one.
LEMMA LastStepFacts ==
  ASSUME IInv, NEW c \in Callers, Store(c) \/ FallBack(c)
  PROVE  /\ Moved(c)
         /\ op[c].at \in {"storing", "failing"} /\ op'[c].at = "releasing"
         /\ op'[c].slot = op[c].slot /\ op'[c].stamp \in {op[c].stamp, 0}
<1>1. op[c].at \in {"storing", "failing"}
  BY DEF Store, FallBack
<1>2. UNCHANGED <<callerVars, alive>>
  BY DEF Store, FallBack
<1>3. /\ op[c] \in OpType /\ pc[c] \in {"waiting", "done"} /\ joined[c] = c
      /\ op \in [Callers -> OpType] /\ req[c] \in Requests[c]
      /\ op[c].lease = None /\ op[c].slot /\ op[c].outcome \in Results
  BY <1>1, ActiveFacts DEF IInv, OpHolds
<1>4. OpHolds(c)
  BY DEF IInv
<1>5. 0 \in 0 .. MaxTime /\ <<>> \in Seq(Replied)
  BY ConstantsOK
<1>6. ASSUME NEW stamp \in {op[c].stamp, 0}, NEW outcome \in Results,
             outcome = op[c].outcome \/ \A code : outcome # Failure(code),
             op'[c] = [at |-> "releasing", slot |-> op[c].slot, lease |-> None, failed |-> <<>>,
                       stamp |-> stamp, outcome |-> outcome],
             op' = [op EXCEPT ![c] = op'[c]]
      PROVE  Moved(c) /\ op'[c].stamp \in {op[c].stamp, 0}
  <2>1. op'[c] \in OpType
    BY <1>3, <1>5, <1>6 DEF OpType, Places
  <2>2. op' \in [Callers -> OpType] /\ \A d \in Callers \ {c} : op'[d] = op[d]
    BY <1>3, <1>6, <2>1
  <2>3. OpHolds(c)'
    BY <1>2, <1>3, <1>4, <1>6 DEF OpHolds, callerVars
  <2>4. OpTried(c)'
    BY <1>6 DEF OpTried
  <2>5. QED BY <1>6, <2>2, <2>3, <2>4 DEF Moved
<1>7. CASE Store(c)
  <2>1. op' = [op EXCEPT ![c].at = "releasing", ![c].failed = <<>>, ![c].stamp = 0]
    BY <1>7 DEF Store
  <2>2. op'[c] = [at |-> "releasing", slot |-> op[c].slot, lease |-> None, failed |-> <<>>,
                  stamp |-> 0, outcome |-> op[c].outcome]
    BY <1>3, <2>1 DEF OpType
  <2>3. op' = [op EXCEPT ![c] = op'[c]]
    BY <1>3, <2>1
  <2>4. QED BY <1>1, <1>3, <1>6, <2>2, <2>3
<1>8. CASE FallBack(c) /\ Get(c, Key(c), StaleTTL)
  <2> DEFINE got == Answered(cache[Key(c)].content, "stale")
  <2>1. cache[Key(c)].content \in Contents
    BY <1>3, <1>8, RequestFacts DEF IInv, TypeOK, Get
  <2>2. got \in Results /\ \A code : got # Failure(code)
    BY <2>1, Outcomes
  <2>3. op' = [op EXCEPT ![c].at = "releasing", ![c].failed = <<>>, ![c].outcome = got]
    BY <1>8 DEF FallBack
  <2> HIDE DEF got
  <2>4. op'[c] = [at |-> "releasing", slot |-> op[c].slot, lease |-> None, failed |-> <<>>,
                  stamp |-> op[c].stamp, outcome |-> got]
    BY <1>3, <2>3 DEF OpType
  <2>5. op' = [op EXCEPT ![c] = op'[c]]
    BY <1>3, <2>3
  <2>6. QED BY <1>1, <1>3, <1>6, <2>2, <2>4, <2>5
<1>9. CASE FallBack(c) /\ ~Get(c, Key(c), StaleTTL)
  <2>1. op' = [op EXCEPT ![c].at = "releasing", ![c].failed = <<>>]
    BY <1>9 DEF FallBack
  <2>2. op'[c] = [at |-> "releasing", slot |-> op[c].slot, lease |-> None, failed |-> <<>>,
                  stamp |-> op[c].stamp, outcome |-> op[c].outcome]
    BY <1>3, <2>1 DEF OpType
  <2>3. op' = [op EXCEPT ![c] = op'[c]]
    BY <1>3, <2>1
  <2>4. QED BY <1>1, <1>3, <1>6, <2>2, <2>3
<1>10. QED BY <1>7, <1>8, <1>9

\* The operation gives its slot back.
LEMMA ReleaseFacts ==
  ASSUME IInv, NEW c \in Callers, ReleaseSlot(c)
  PROVE  /\ Moved(c)
         /\ op[c].at = "releasing" /\ op'[c].at = "returning"
         /\ op[c].slot /\ ~op'[c].slot /\ op'[c].stamp = 0
<1>1. op[c].at = "releasing" /\ UNCHANGED <<callerVars, alive>>
  BY DEF ReleaseSlot
<1>2. /\ op[c] \in OpType /\ pc[c] \in {"waiting", "done"} /\ joined[c] = c
      /\ op \in [Callers -> OpType]
      /\ op[c].lease = None /\ op[c].slot /\ op[c].outcome \in Results /\ OpHolds(c)
  BY <1>1, ActiveFacts DEF IInv, OpHolds
<1>3. op' = [op EXCEPT ![c].at = "returning", ![c].slot = FALSE,
                       ![c].failed = <<>>, ![c].stamp = 0]
  BY DEF ReleaseSlot
<1>4. op'[c] = [at |-> "returning", slot |-> FALSE, lease |-> None, failed |-> <<>>,
                stamp |-> 0, outcome |-> op[c].outcome]
  BY <1>2, <1>3 DEF OpType
<1>5. op'[c] \in OpType
  <2>1. 0 \in 0 .. MaxTime /\ <<>> \in Seq(Replied)
    BY ConstantsOK
  <2>2. QED BY <1>2, <1>4, <2>1 DEF OpType, Places
<1>6. op' \in [Callers -> OpType] /\ \A d \in Callers \ {c} : op'[d] = op[d]
  BY <1>2, <1>3, <1>5
<1>7. OpHolds(c)'
  BY <1>1, <1>2, <1>4 DEF OpHolds, callerVars
<1>8. OpTried(c)'
  BY <1>4 DEF OpTried
<1>9. QED BY <1>1, <1>2, <1>4, <1>6, <1>7, <1>8 DEF Moved

\* The operation lands.
LEMMA LandFacts ==
  ASSUME IInv, NEW c \in Callers, Land(c)
  PROVE  /\ Moved(c)
         /\ op[c].at = "returning" /\ op'[c].at = "landed"
         /\ op'[c].slot = op[c].slot /\ op'[c].stamp = op[c].stamp
         /\ op'[c].outcome = op[c].outcome
<1>1. op[c].at = "returning" /\ UNCHANGED <<callerVars, alive>>
  BY DEF Land
<1>2. /\ op[c] \in OpType /\ pc[c] \in {"waiting", "done"} /\ joined[c] = c
      /\ op \in [Callers -> OpType] /\ OpHolds(c)
      /\ op[c].lease = None /\ ~op[c].slot /\ op[c].outcome \in Results
  BY <1>1, ActiveFacts DEF IInv, OpHolds
<1>3. op' = [op EXCEPT ![c].at = "landed"]
  BY DEF Land, At
<1>4. op'[c] = [at |-> "landed", slot |-> op[c].slot, lease |-> op[c].lease,
                failed |-> op[c].failed, stamp |-> op[c].stamp, outcome |-> op[c].outcome]
  BY <1>2, <1>3 DEF OpType
<1>5. op'[c] \in OpType
  BY <1>2, <1>4 DEF OpType, Places
<1>6. op' \in [Callers -> OpType] /\ \A d \in Callers \ {c} : op'[d] = op[d]
  BY <1>2, <1>3, <1>5
<1>7. OpHolds(c)'
  BY <1>1, <1>2, <1>4 DEF OpHolds, callerVars
<1>8. OpTried(c)'
  BY <1>4 DEF OpTried
<1>9. QED BY <1>1, <1>4, <1>6, <1>7, <1>8 DEF Moved

\* What every step of an operation does, and leaves alone.
LEMMA OpStepFacts ==
  ASSUME IInv, NEW c \in Callers, OpStep(c)
  PROVE  /\ Moved(c) /\ UNCHANGED <<now, callerVars, alive, guard>>
         /\ Active(c) /\ op'[c].at # "none"
         /\ op'[c].stamp \in {op[c].stamp, now, 0}
         /\ op'[c].at = "storing" => op'[c].stamp = now
         /\ Land(c) \/ (op'[c].at # "landed" /\ UNCHANGED flight)
         /\ Land(c) => op'[c].at = "landed" /\ op'[c].outcome = op[c].outcome
         /\ Store(c) \/ UNCHANGED cache
<1>1. UNCHANGED <<now, callerVars, alive, guard>> /\ (Store(c) \/ UNCHANGED cache)
  BY DEF OpStep, LookAgain, GuardStep, TakeSlot, Enqueue, WaitForSlot, Unqueue, Cancel, Acquire,
         GiveUpLease, Reply, Store, FallBack, ReleaseSlot, Land, guardVars
<1>2. Land(c) \/ UNCHANGED flight
  BY DEF OpStep, LookAgain, GuardStep, TakeSlot, Enqueue, WaitForSlot, Unqueue, Cancel, Acquire,
         GiveUpLease, Reply, Store, FallBack, ReleaseSlot
<1>3. CASE LookAgain(c) \/ GuardStep(c)
  BY <1>1, <1>2, <1>3, GuardFacts, LandFacts DEF Active
<1>4. CASE Cancel(c) \/ Acquire(c) \/ GiveUpLease(c) \/ Reply(c)
  BY <1>1, <1>2, <1>4, MemberStepFacts, LandFacts DEF Active
<1>5. CASE Store(c) \/ FallBack(c)
  BY <1>1, <1>2, <1>5, LastStepFacts, LandFacts DEF Active
<1>6. CASE ReleaseSlot(c)
  BY <1>1, <1>2, <1>6, ReleaseFacts, LandFacts DEF Active
<1>7. CASE Land(c)
  BY <1>1, <1>7, LandFacts DEF Active
<1>8. QED BY <1>3, <1>4, <1>5, <1>6, <1>7 DEF OpStep

\* The other operations and all callers are as they were.
LEMMA OpsAndCallers ==
  ASSUME IInv, NEW c \in Callers, OpStep(c)
  PROVE  \A d \in Callers : OpHolds(d)' /\ OpTried(d)' /\ CallerShape(d)'
<1>1. /\ Moved(c) /\ UNCHANGED <<callerVars, alive>>
      /\ op[c].at \notin {"none", "landed"} /\ op'[c].at # "none"
  BY OpStepFacts DEF Active
<1>2. ASSUME NEW d \in Callers
      PROVE  OpHolds(d)' /\ OpTried(d)'
  <2>1. CASE d = c
    BY <1>1, <2>1 DEF Moved
  <2>2. CASE d # c
    <3>1. op'[d] = op[d] /\ Key(d)' = Key(d) /\ Chain(d)' = Chain(d)
      BY <1>1, <2>2 DEF Moved, callerVars, Key, Chain
    <3>2. OpHolds(d) /\ OpTried(d)
      BY DEF IInv
    <3>3. OpHolds(d)'
      BY <1>1, <3>1, <3>2 DEF OpHolds, callerVars
    <3>4. OpTried(d)'
      BY <3>1, <3>2 DEF OpTried, Recoverable
    <3>5. QED BY <3>3, <3>4
  <2>3. QED BY <2>1, <2>2
<1>3. ASSUME NEW d \in Callers
      PROVE  CallerShape(d)'
  <2>1. CallerShape(d) /\ joined[d] \in Callers \cup {None}
    BY DEF IInv, TypeOK
  <2>2. CASE joined[d] = None
    BY <1>1, <2>1, <2>2 DEF CallerShape, callerVars
  <2>3. CASE joined[d] # None
    <3>1. op[joined[d]].at = "landed" => op'[joined[d]] = op[joined[d]]
      BY <1>1, <2>1, <2>3 DEF Moved
    <3>2. op'[joined[d]].at # "none"
      BY <1>1, <2>1, <2>3 DEF Moved, CallerShape
    <3>3. QED BY <1>1, <2>1, <2>3, <3>1, <3>2 DEF CallerShape, callerVars
  <2>4. QED BY <2>2, <2>3
<1>4. QED BY <1>2, <1>3

\* Flights stay the operations under way, also when one of them lands.
LEMMA FlightsStay ==
  ASSUME IInv, NEW c \in Callers, OpStep(c)
  PROVE  FlightShape' /\ flight' \in [FlightKeys -> Callers \cup {None}]
<1>1. /\ Moved(c) /\ UNCHANGED callerVars /\ Active(c) /\ op'[c].at # "none"
      /\ Land(c) \/ (op'[c].at # "landed" /\ UNCHANGED flight)
      /\ Land(c) => op'[c].at = "landed"
  BY OpStepFacts
<1>2. FlightShape /\ flight \in [FlightKeys -> Callers \cup {None}]
  BY DEF IInv, TypeOK
<1>3. \A d \in Callers : FlightKey(d)' = FlightKey(d)
  BY <1>1 DEF FlightKey, callerVars
<1>4. \A d \in Callers \ {c} : Active(d)' <=> Active(d)
  BY <1>1 DEF Moved, Active
<1>5. CASE Land(c)
  <2>1. flight' = [flight EXCEPT ![FlightKey(c)] = None] /\ ~Active(c)'
    BY <1>1, <1>5 DEF Land, Active
  <2>2. FlightKey(c) \in FlightKeys /\ flight[FlightKey(c)] = c
    BY <1>1, <1>2, ActiveFacts, RequestFacts DEF FlightShape, Active
  <2>3. ASSUME NEW d \in Callers, Active(d)'
        PROVE  flight'[FlightKey(d)] = d
    <3>1. d # c /\ Active(d) /\ flight[FlightKey(d)] = d
      BY <1>2, <1>4, <2>1, <2>3 DEF FlightShape
    <3>2. FlightKey(d) \in FlightKeys /\ FlightKey(d) # FlightKey(c)
      BY <2>2, <3>1, ActiveFacts, RequestFacts DEF Active
    <3>3. QED BY <1>2, <2>1, <3>1, <3>2
  <2>4. ASSUME NEW f \in FlightKeys, flight'[f] # None
        PROVE  (Active(flight[f]) /\ FlightKey(flight[f]) = f)'
    <3>1. f # FlightKey(c) /\ flight'[f] = flight[f] /\ flight[f] # None
      BY <1>2, <2>1, <2>4
    <3>2. Active(flight[f]) /\ FlightKey(flight[f]) = f /\ flight[f] \in Callers \ {c}
      BY <1>2, <2>2, <3>1 DEF FlightShape
    <3>3. op'[flight[f]] = op[flight[f]] /\ req' = req
      BY <1>1, <3>2 DEF Moved, callerVars
    <3>4. QED BY <3>1, <3>2, <3>3 DEF Active, FlightKey
  <2>5. FlightShape'
    BY <2>3, <2>4, <1>3 DEF FlightShape
  <2>6. QED BY <1>2, <2>1, <2>5
<1>6. CASE op'[c].at # "landed" /\ UNCHANGED flight
  <2>1. \A d \in Callers : Active(d)' <=> Active(d)
    BY <1>1, <1>4, <1>6 DEF Active
  <2>2. ASSUME NEW f \in FlightKeys, flight'[f] # None
        PROVE  (Active(flight[f]) /\ FlightKey(flight[f]) = f)'
    <3>1. flight'[f] = flight[f]
      BY <1>6
    <3>2. flight[f] \in Callers /\ Active(flight[f]) /\ FlightKey(flight[f]) = f
      BY <1>2, <2>2, <3>1 DEF FlightShape
    <3>3. op'[flight[f]].at \notin {"none", "landed"} /\ req' = req
      BY <1>1, <2>1, <3>2 DEF Active, callerVars
    <3>4. QED BY <3>1, <3>2, <3>3 DEF Active, FlightKey
  <2>3. \A d \in Callers : Active(d)' => flight'[FlightKey(d)] = d
    BY <1>2, <1>6, <2>1 DEF FlightShape
  <2>4. FlightShape'
    BY <1>3, <2>2, <2>3 DEF FlightShape
  <2>5. QED BY <1>2, <1>6, <2>4
<1>7. QED BY <1>1, <1>5, <1>6

-----------------------------------------------------------------------------
(* Counting slots and waiters.                                             *)

Slotted == {c \in Callers : op[c].slot}
Waiters == {c \in Callers : op[c].at \in {"queued", "unqueueing"}}

\* What SlotsExact counts, and the bounds of the two counts.
Counts ==
  /\ inflight = Cardinality(Slotted) /\ queued = Cardinality(Waiters)
  /\ inflight <= guard.slots

\* There are finitely many callers, so sets of them can be counted.
LEMMA CallersCounted ==
  ASSUME NEW S \in SUBSET Callers
  PROVE  /\ IsFiniteSet(S) /\ Cardinality(S) \in 0 .. Cardinality(Callers)
<1>1. IsFiniteSet(Callers)
  BY ConstantsOK
<1>2. IsFiniteSet(S) /\ Cardinality(S) <= Cardinality(Callers)
  BY <1>1, FS_Subset
<1>3. QED BY <1>1, <1>2, FS_CardinalityType

\* The two counts change by the member that joins or leaves a set.
LEMMA OneMore ==
  ASSUME NEW S \in SUBSET Callers, NEW c \in Callers
  PROVE  /\ c \notin S => Cardinality(S \cup {c}) = Cardinality(S) + 1
         /\ c \in S => Cardinality(S \ {c}) = Cardinality(S) - 1
BY CallersCounted, FS_AddElement, FS_RemoveElement

\* The invariant holds the counts, and the guard is a setting.
LEMMA CountFacts ==
  ASSUME IInv
  PROVE  /\ Counts /\ guard.slots \in Nat
         /\ Slotted \in SUBSET Callers /\ Waiters \in SUBSET Callers
         /\ Cardinality(Slotted) \in Nat /\ Cardinality(Waiters) \in Nat
<1>1. inflight = Cardinality(Slotted) /\ queued = Cardinality(Waiters)
  BY DEF IInv, SlotsExact, Slotted, Waiters
<1>2. guard \in [slots : Nat \ {0}, queue : Nat] /\ inflight \in 0 .. guard.slots
  BY ConstantsOK DEF IInv, TypeOK
<1>3. Slotted \in SUBSET Callers /\ Waiters \in SUBSET Callers
  BY DEF Slotted, Waiters
<1>4. Cardinality(Slotted) \in Nat /\ Cardinality(Waiters) \in Nat
  BY <1>3, CallersCounted
<1>5. QED BY <1>1, <1>2, <1>3, <1>4 DEF Counts

\* A step that changes one operation changes the sets by that one.
LEMMA OneCounted ==
  ASSUME IInv, NEW c \in Callers, \A d \in Callers \ {c} : op'[d] = op[d]
  PROVE  /\ Slotted' = IF op'[c].slot THEN Slotted \cup {c} ELSE Slotted \ {c}
         /\ Waiters' = IF op'[c].at \in {"queued", "unqueueing"} THEN Waiters \cup {c}
                       ELSE Waiters \ {c}
         /\ c \in Slotted <=> op[c].slot
         /\ c \in Waiters <=> op[c].at \in {"queued", "unqueueing"}
BY DEF Slotted, Waiters

\* A step that touches neither slot nor queue keeps the counts.
LEMMA NothingCounted ==
  ASSUME IInv, NEW c \in Callers, \A d \in Callers \ {c} : op'[d] = op[d],
         op'[c].slot = op[c].slot, op[c].slot \in BOOLEAN,
         op'[c].at \notin {"queued", "unqueueing"}, op[c].at \notin {"queued", "unqueueing"},
         UNCHANGED guardVars
  PROVE  Counts'
<1>1. Slotted' = Slotted
  BY DEF Slotted
<1>2. Waiters' = Waiters
  BY DEF Waiters
<1>3. QED BY <1>1, <1>2, CountFacts DEF Counts, guardVars

\* Every path out of the guard gives back what it took.
LEMMA CountsStay ==
  ASSUME IInv, NEW c \in Callers, OpStep(c)
  PROVE  Counts'
<1>1. /\ Moved(c) /\ op[c].at # "none" /\ guard' = guard
  BY OpStepFacts DEF Active
<1>2. /\ op[c] \in OpType /\ op \in [Callers -> OpType] /\ op[c].slot \in BOOLEAN
      /\ \A d \in Callers \ {c} : op'[d] = op[d]
  BY <1>1, ActiveFacts DEF IInv, Moved, OpType
<1>3. OpHolds(c)
  BY DEF IInv
<1>4. /\ inflight = Cardinality(Slotted) /\ queued = Cardinality(Waiters)
      /\ inflight <= guard.slots /\ inflight \in Nat /\ queued \in Nat /\ guard.slots \in Nat
      /\ Slotted \in SUBSET Callers /\ Waiters \in SUBSET Callers
  BY CountFacts DEF Counts
<1>5. CASE LookAgain(c)
  <2>1. op[c].at = "looking" /\ UNCHANGED guardVars
    BY <1>5 DEF LookAgain
  <2>2. op'[c].slot = op[c].slot /\ op'[c].at \in {"returning", "guard"}
    BY <1>2, <1>5 DEF LookAgain, At, OpType
  <2>3. QED BY <1>2, <2>1, <2>2, NothingCounted
<1>6. CASE TakeSlot(c)
  <2>1. op[c].at = "guard" /\ inflight < guard.slots /\ inflight' = inflight + 1 /\ queued' = queued
    BY <1>6 DEF TakeSlot
  <2>2. op'[c].slot = TRUE /\ op'[c].at = "member" /\ ~op[c].slot
    BY <1>2, <1>3, <1>6, <2>1 DEF TakeSlot, OpType, OpHolds
  <2>3. Slotted' = Slotted \cup {c} /\ c \notin Slotted /\ Waiters' = Waiters
    BY <1>2, <2>1, <2>2, OneCounted DEF Waiters
  <2>4. Cardinality(Slotted') = inflight'
    BY <1>4, <2>1, <2>3, OneMore
  <2>5. QED BY <1>1, <1>4, <2>1, <2>3, <2>4 DEF Counts
<1>7. CASE Enqueue(c)
  <2>1. op[c].at = "guard" /\ inflight' = inflight /\ queued' = queued + 1
    BY <1>7 DEF Enqueue
  <2>2. op'[c].slot = op[c].slot /\ op'[c].at \in {"queued", "unqueueing"} /\ ~op[c].slot
    <3>1. \/ op' = [op EXCEPT ![c].at = "unqueueing", ![c].outcome = Failure("queue_full")]
          \/ op' = [op EXCEPT ![c].at = "queued"]
      BY <1>7 DEF Enqueue
    <3>2. QED BY <1>2, <1>3, <2>1, <3>1 DEF OpType, OpHolds
  <2>3. Slotted' = Slotted /\ Waiters' = Waiters \cup {c} /\ c \notin Waiters
    BY <1>2, <2>1, <2>2, OneCounted DEF Slotted
  <2>4. Cardinality(Waiters') = queued'
    BY <1>4, <2>1, <2>3, OneMore
  <2>5. QED BY <1>1, <1>4, <2>1, <2>3, <2>4 DEF Counts
<1>8. CASE WaitForSlot(c)
  <2>1. op[c].at = "queued" /\ ~op[c].slot /\ queued' = queued
    BY <1>3, <1>8 DEF WaitForSlot, OpHolds
  <2>2. CASE /\ inflight < guard.slots /\ inflight' = inflight + 1
             /\ op' = [op EXCEPT ![c].at = "unqueueing", ![c].slot = TRUE]
    <3>1. op'[c].slot = TRUE /\ op'[c].at = "unqueueing"
      BY <1>2, <2>2 DEF OpType
    <3>2. Slotted' = Slotted \cup {c} /\ c \notin Slotted /\ Waiters' = Waiters
      BY <1>2, <2>1, <3>1, OneCounted DEF Waiters
    <3>3. Cardinality(Slotted') = inflight'
      BY <1>4, <2>2, <3>2, OneMore
    <3>4. QED BY <1>1, <1>4, <2>1, <2>2, <3>2, <3>3 DEF Counts
  <2>3. CASE /\ inflight' = inflight
             /\ op' = [op EXCEPT ![c].at = "unqueueing", ![c].outcome = Failure("expired")]
    <3>1. op'[c].slot = op[c].slot /\ op'[c].at = "unqueueing"
      BY <1>2, <2>3 DEF OpType
    <3>2. Slotted' = Slotted /\ Waiters' = Waiters
      BY <1>2, <2>1, <3>1, OneCounted DEF Slotted, Waiters
    <3>3. QED BY <1>1, <1>4, <2>1, <2>3, <3>2 DEF Counts
  <2>4. QED BY <1>8, <2>2, <2>3 DEF WaitForSlot
<1>9. CASE Unqueue(c)
  <2>1. op[c].at = "unqueueing" /\ inflight' = inflight /\ queued' = queued - 1
    BY <1>9 DEF Unqueue
  <2>2. op'[c].slot = op[c].slot /\ op'[c].at \in {"member", "returning"}
    BY <1>2, <1>9 DEF Unqueue, At, OpType
  <2>3. Slotted' = Slotted /\ Waiters' = Waiters \ {c} /\ c \in Waiters
    BY <1>2, <2>1, <2>2, OneCounted DEF Slotted
  <2>4. Cardinality(Waiters') = queued'
    BY <1>4, <2>1, <2>3, OneMore
  <2>5. QED BY <1>1, <1>4, <2>1, <2>3, <2>4 DEF Counts
<1>10. CASE Cancel(c) \/ Acquire(c) \/ GiveUpLease(c) \/ Reply(c)
  <2>1. UNCHANGED guardVars
    BY <1>10 DEF Cancel, Acquire, GiveUpLease, Reply
  <2>2. QED BY <1>2, <1>10, <2>1, MemberStepFacts, NothingCounted
<1>11. CASE Store(c) \/ FallBack(c)
  <2>1. UNCHANGED guardVars
    BY <1>11 DEF Store, FallBack
  <2>2. QED BY <1>2, <1>11, <2>1, LastStepFacts, NothingCounted
<1>12. CASE ReleaseSlot(c)
  <2>1. inflight' = inflight - 1 /\ queued' = queued /\ op[c].at = "releasing" /\ op[c].slot
        /\ ~op'[c].slot /\ op'[c].at = "returning"
    BY <1>12, ReleaseFacts DEF ReleaseSlot
  <2>2. Slotted' = Slotted \ {c} /\ c \in Slotted /\ Waiters' = Waiters
    BY <1>2, <2>1, OneCounted DEF Waiters
  <2>3. Cardinality(Slotted') = inflight'
    BY <1>4, <2>1, <2>2, OneMore
  <2>4. QED BY <1>1, <1>4, <2>1, <2>2, <2>3 DEF Counts
<1>13. CASE Land(c)
  <2>1. UNCHANGED guardVars
    BY <1>13 DEF Land
  <2>2. QED BY <1>2, <1>13, <2>1, LandFacts, NothingCounted
<1>14. QED
  BY <1>5, <1>6, <1>7, <1>8, <1>9, <1>10, <1>11, <1>12, <1>13 DEF OpStep, GuardStep

\* What SlotsExact says besides follows from the places of the operations,
\* and so do the bounds of the counts.
LEMMA SlotsFollow ==
  ASSUME Counts', FlightShape', \A c \in Callers : OpHolds(c)', guard' \in Guards
  PROVE  /\ SlotsExact'
         /\ inflight' \in 0 .. guard'.slots /\ queued' \in 0 .. Cardinality(Callers)
<1>1. SlotsExact'
  BY DEF Counts, FlightShape, OpHolds, SlotsExact, Slotted, Waiters, Active
<1>2. Slotted' \in SUBSET Callers /\ Waiters' \in SUBSET Callers
  BY DEF Slotted, Waiters
<1>3. inflight' \in Nat /\ queued' \in 0 .. Cardinality(Callers)
  BY <1>2, CallersCounted DEF Counts
<1>4. guard'.slots \in Nat
  BY ConstantsOK
<1>5. QED BY <1>1, <1>3, <1>4 DEF Counts

-----------------------------------------------------------------------------
(* The cache.                                                              *)

CacheType == [Keys -> {Absent} \cup [stored : 0 .. MaxTime, content : Contents]]

\* The step that stores: what it stores, and what it may throw out for it.
LEMMA StoreFacts ==
  ASSUME IInv, NEW c \in Callers, Store(c)
  PROVE  /\ cache' \in CacheType
         /\ Key(c) \in Keys /\ op[c].at = "storing"
         /\ cache'[Key(c)].stored = op[c].stamp
         /\ cache'[Key(c)].content = op[c].outcome.content
         /\ \A k \in Keys \ {Key(c)} : cache'[k] \in {cache[k], Absent}
         /\ op[c].outcome.content \in Contents
<1> DEFINE entry == [stored |-> op[c].stamp, content |-> op[c].outcome.content]
<1>1. op[c].at = "storing"
  BY DEF Store
<1>2. op[c] \in OpType /\ Key(c) \in Keys
  BY <1>1, ActiveFacts, RequestFacts
<1>3. op[c].stamp \in 0 .. MaxTime /\ op[c].outcome.content \in Contents
  BY <1>1, <1>2 DEF IInv, OpTried, OpType
<1>4. cache \in CacheType
  BY DEF IInv, TypeOK, CacheType
<1>5. entry \in [stored : 0 .. MaxTime, content : Contents]
  BY <1>3
<1>6. entry.stored = op[c].stamp /\ entry.content = op[c].outcome.content
  OBVIOUS
<1>7. \/ cache' = [cache EXCEPT ![Key(c)] = entry]
      \/ /\ cache[Key(c)] = Absent
         /\ \E k \in Oldest : cache' = [cache EXCEPT ![k] = Absent, ![Key(c)] = entry]
  BY DEF Store
<1> HIDE DEF entry
<1>8. CASE cache' = [cache EXCEPT ![Key(c)] = entry]
  BY <1>1, <1>2, <1>3, <1>4, <1>5, <1>6, <1>8 DEF CacheType
<1>9. CASE \E k \in Oldest : cache' = [cache EXCEPT ![k] = Absent, ![Key(c)] = entry]
  <2>1. PICK k \in Oldest : cache' = [cache EXCEPT ![k] = Absent, ![Key(c)] = entry]
    BY <1>9
  <2>2. k \in Keys
    BY DEF Oldest, Stored
  <2>3. QED BY <1>1, <1>2, <1>3, <1>4, <1>5, <1>6, <2>1, <2>2 DEF CacheType
<1>10. QED BY <1>7, <1>8, <1>9

\* What is stored is a live answer to its key.
LEMMA AnswersStored ==
  ASSUME IInv, NEW c \in Callers, OpStep(c)
  PROVE  OnlyAnswersAreStored' /\ cache' \in CacheType
<1>1. CASE UNCHANGED cache
  BY <1>1 DEF IInv, TypeOK, CacheType, OnlyAnswersAreStored, Stored
<1>2. CASE Store(c)
  <2>1. /\ cache' \in CacheType /\ Key(c) \in Keys /\ op[c].at = "storing"
        /\ cache'[Key(c)].content = op[c].outcome.content
        /\ \A k \in Keys \ {Key(c)} : cache'[k] \in {cache[k], Absent}
    BY <1>2, StoreFacts
  <2>2. /\ op[c].outcome.content.of = Key(c)
        /\ op[c].outcome.content.by = Chain(c)[Len(op[c].failed) + 1]
        /\ op[c].outcome.content.empty => Key(c) \in Pinned
        /\ Len(op[c].failed) < Len(Chain(c)) /\ op[c] \in OpType
    BY <2>1, ActiveFacts DEF IInv, OpTried
  <2>3. Len(op[c].failed) + 1 \in DOMAIN ChainOf[Key(c)]
    BY <2>1, <2>2, ActiveFacts, MemberFacts
  <2>4. SUFFICES ASSUME NEW k \in Keys, cache'[k] # Absent
                 PROVE  /\ cache'[k].content.of = k
                        /\ \E i \in DOMAIN ChainOf[k] : cache'[k].content.by = ChainOf[k][i]
                        /\ cache'[k].content.empty => k \in Pinned
    BY <2>1 DEF OnlyAnswersAreStored, Stored, Absent
  <2>5. CASE k = Key(c)
    BY <2>1, <2>2, <2>3, <2>5 DEF Chain
  <2>6. CASE k # Key(c)
    <3>1. cache'[k] = cache[k] /\ k \in Stored
      BY <2>1, <2>4, <2>6 DEF Stored
    <3>2. QED BY <3>1 DEF IInv, OnlyAnswersAreStored
  <2>7. QED BY <2>5, <2>6
<1>3. QED BY <1>1, <1>2, OpStepFacts

\* Two operations under way whose key is plain are one.
LEMMA PlainShared ==
  ASSUME IInv, NEW c \in Callers, NEW d \in Callers, Active(c), Active(d),
         Key(c) = Key(d), Plain(Key(c))
  PROVE  c = d
<1>1. req[c] \in Requests[c] /\ req[d] \in Requests[d]
  BY ActiveFacts DEF Active
<1>2. ~req[c].debug /\ ~req[d].debug
  BY <1>1 DEF Plain, Key
<1>3. req[c].debug = req[d].debug
  <2>1. req[c].debug \in BOOLEAN /\ req[d].debug \in BOOLEAN
    BY <1>1, ConstantsOK
  <2>2. QED BY <1>2, <2>1
<1>4. FlightKey(c) = FlightKey(d)
  BY <1>1, <1>3, RequestFacts
<1>5. flight[FlightKey(c)] = c /\ flight[FlightKey(d)] = d
  BY DEF IInv, FlightShape
<1>6. QED BY <1>4, <1>5

\* Nothing that waits to be stored falls behind what is stored.
LEMMA StampsStay ==
  ASSUME IInv, NEW c \in Callers, OpStep(c)
  PROVE  CacheShape'
<1>1. /\ Moved(c) /\ UNCHANGED <<now, callerVars>> /\ Active(c)
      /\ op'[c].stamp \in {op[c].stamp, now, 0}
      /\ op'[c].at = "storing" => op'[c].stamp = now
      /\ Store(c) \/ UNCHANGED cache
  BY OpStepFacts
<1>2. /\ CacheShape /\ now \in 0 .. MaxTime /\ MaxTime \in Nat
      /\ \A d \in Callers : op[d].stamp \in 0 .. MaxTime
      /\ cache \in CacheType
  BY ConstantsOK DEF IInv, TypeOK, CacheType
<1>3. \A d \in Callers : op'[d].stamp <= now'
  BY <1>1, <1>2 DEF CacheShape, Moved
<1>4. \A d \in Callers : Key(d)' = Key(d)
  BY <1>1 DEF Key, callerVars
<1>5. CASE UNCHANGED cache
  <2>1. \A k \in Keys : cache'[k] # Absent => cache'[k].stored <= now'
    BY <1>1, <1>2, <1>5 DEF CacheShape
  <2>2. ASSUME NEW d \in Callers, op'[d].at = "storing", cache[Key(d)] # Absent, Plain(Key(d))
        PROVE  cache[Key(d)].stored <= op'[d].stamp
    <3>1. CASE d = c
      <4>1. Key(c) \in Keys
        BY <1>1, ActiveFacts, RequestFacts DEF Active
      <4>2. QED BY <1>1, <1>2, <2>2, <3>1, <4>1 DEF CacheShape
    <3>2. CASE d # c
      BY <1>1, <1>2, <2>2, <3>2 DEF Moved, CacheShape
    <3>3. QED BY <3>1, <3>2
  <2>3. QED BY <1>3, <1>4, <1>5, <2>1, <2>2 DEF CacheShape, Absent, Plain
<1>6. CASE Store(c)
  <2>1. /\ Key(c) \in Keys /\ op[c].at = "storing"
        /\ cache'[Key(c)].stored = op[c].stamp
        /\ \A k \in Keys \ {Key(c)} : cache'[k] \in {cache[k], Absent}
    BY <1>6, StoreFacts
  <2>2. \A k \in Keys : cache'[k] # Absent => cache'[k].stored <= now'
    BY <1>1, <1>2, <2>1 DEF CacheShape
  <2>3. ASSUME NEW d \in Callers, op'[d].at = "storing", cache'[Key(d)] # Absent, Plain(Key(d))
        PROVE  cache'[Key(d)].stored <= op'[d].stamp
    <3>1. d # c
      BY <1>6, <2>3, LastStepFacts
    <3>2. op'[d] = op[d] /\ op[d].at = "storing" /\ Active(d)
      BY <1>1, <2>3, <3>1 DEF Moved, Active
    <3>3. Key(d) # Key(c)
      BY <1>1, <2>3, <3>1, <3>2, PlainShared
    <3>4. Key(d) \in Keys
      BY <3>2, ActiveFacts, RequestFacts
    <3>5. cache'[Key(d)] = cache[Key(d)]
      BY <2>1, <2>3, <3>3, <3>4
    <3>6. QED BY <1>2, <2>3, <3>2, <3>5 DEF CacheShape
  <2>4. QED BY <1>3, <1>4, <2>2, <2>3 DEF CacheShape, Absent, Plain
<1>7. QED BY <1>1, <1>5, <1>6

-----------------------------------------------------------------------------
(* The invariant is inductive.                                             *)

\* A step that leaves the types of all but the callers' records to show.
LEMMA TypesFollow ==
  ASSUME now' \in 0 .. MaxTime, cache' \in CacheType,
         pc' \in [Callers -> {"idle", "joining", "waiting", "done"}],
         \A c \in Callers : req'[c] \in Requests[c] \cup {None},
         alive' \in [Callers -> BOOLEAN],
         joined' \in [Callers -> Callers \cup {None}],
         answer' \in [Callers -> {None} \cup Results],
         flight' \in [FlightKeys -> Callers \cup {None}],
         op' \in [Callers -> OpType],
         guard' \in Guards,
         inflight' \in 0 .. guard'.slots, queued' \in 0 .. Cardinality(Callers)
  PROVE  TypeOK'
<1>1. \A c \in Callers :
        /\ op'[c].at \in Places
        /\ op'[c].slot \in BOOLEAN /\ op'[c].lease \in Providers \cup {None}
        /\ op'[c].stamp \in 0 .. MaxTime
        /\ op'[c].outcome = None \/ op'[c].outcome \in Results
  BY DEF OpType
<1>2. QED BY <1>1 DEF TypeOK, CacheType, Places

\* An operation preserves the invariant.
LEMMA OpStepInv ==
  ASSUME IInv, NEW c \in Callers, OpStep(c)
  PROVE  IInv'
<1>1. Moved(c) /\ UNCHANGED <<now, callerVars, alive, guard>>
  BY OpStepFacts
<1>2. \A d \in Callers : OpHolds(d)' /\ OpTried(d)' /\ CallerShape(d)'
  BY OpsAndCallers
<1>3. FlightShape' /\ flight' \in [FlightKeys -> Callers \cup {None}]
  BY FlightsStay
<1>4. Counts'
  BY CountsStay
<1>5. OnlyAnswersAreStored' /\ cache' \in CacheType
  BY AnswersStored
<1>6. CacheShape'
  BY StampsStay
<1>7. guard' \in Guards
  BY <1>1 DEF IInv, TypeOK
<1>8. SlotsExact' /\ inflight' \in 0 .. guard'.slots /\ queued' \in 0 .. Cardinality(Callers)
  BY <1>2, <1>3, <1>4, <1>7, SlotsFollow
<1>9. op' \in [Callers -> OpType]
  BY <1>1 DEF Moved
<1>10. TypeOK'
  <2>1. /\ now' \in 0 .. MaxTime
        /\ pc' \in [Callers -> {"idle", "joining", "waiting", "done"}]
        /\ \A d \in Callers : req'[d] \in Requests[d] \cup {None}
        /\ alive' \in [Callers -> BOOLEAN]
        /\ joined' \in [Callers -> Callers \cup {None}]
        /\ answer' \in [Callers -> {None} \cup Results]
    BY <1>1 DEF IInv, TypeOK, callerVars
  <2>2. QED BY <1>3, <1>5, <1>7, <1>8, <1>9, <2>1, TypesFollow
<1>11. req' \in [Callers -> [key : Keys, refresh : BOOLEAN, debug : BOOLEAN] \cup {None}]
  BY <1>1 DEF IInv, callerVars
<1>12. QED BY <1>2, <1>3, <1>5, <1>6, <1>8, <1>9, <1>10, <1>11 DEF IInv

\* A caller that changes only its own place, request and answer leaves the
\* operations as they are.
LEMMA CallerMoves ==
  ASSUME IInv, NEW c \in Callers, NEW place \in {"joining", "done"},
         NEW result \in {None} \cup Results,
         pc' = [pc EXCEPT ![c] = place], answer' = [answer EXCEPT ![c] = result],
         place = "joining" => pc[c] = "idle",
         \/ pc[c] = "waiting" /\ UNCHANGED req
         \/ pc[c] = "idle" /\ \E r \in Requests[c] : req' = [req EXCEPT ![c] = r],
         UNCHANGED <<now, cache, joined, alive, flight, op, guardVars>>,
         CallerShape(c)'
  PROVE  IInv'
<1>1. /\ TypeOK /\ op \in [Callers -> OpType] /\ FlightShape /\ CacheShape
      /\ req \in [Callers -> [key : Keys, refresh : BOOLEAN, debug : BOOLEAN] \cup {None}]
  BY DEF IInv
<1>2. /\ \A d \in Callers \ {c} : req'[d] = req[d]
      /\ \A d \in Callers : op[d].at # "none" => req'[d] = req[d]
      /\ \A d \in Callers : req'[d] \in Requests[d] \cup {None}
      /\ req' \in [Callers -> [key : Keys, refresh : BOOLEAN, debug : BOOLEAN] \cup {None}]
  <2>1. CASE UNCHANGED req
    BY <1>1, <2>1 DEF TypeOK
  <2>2. CASE pc[c] = "idle" /\ \E r \in Requests[c] : req' = [req EXCEPT ![c] = r]
    <3>1. PICK r \in Requests[c] : req' = [req EXCEPT ![c] = r]
      BY <2>2
    <3>2. r \in [key : Keys, refresh : BOOLEAN, debug : BOOLEAN]
      BY ConstantsOK
    <3>3. op[c].at = "none"
      BY <2>2 DEF IInv, OpHolds
    <3>4. QED BY <1>1, <3>1, <3>2, <3>3 DEF TypeOK
  <2>3. QED BY <2>1, <2>2
<1>3. ASSUME NEW d \in Callers
      PROVE  OpHolds(d)' /\ OpTried(d)' /\ CallerShape(d)'
  <2>1. OpHolds(d)'
    BY <1>1 DEF IInv, OpHolds, TypeOK
  <2>2. OpTried(d)'
    <3>1. OpTried(d) /\ op' = op
      BY DEF IInv
    <3>2. CASE op[d].at = "none"
      BY <3>1, <3>2 DEF OpTried
    <3>3. CASE op[d].at # "none"
      <4>1. Key(d)' = Key(d) /\ Chain(d)' = Chain(d)
        BY <1>2, <3>3 DEF Key, Chain
      <4>2. QED BY <3>1, <4>1 DEF OpTried, Recoverable
    <3>4. QED BY <3>2, <3>3
  <2>3. CallerShape(d)'
    <3>1. CASE d = c
      BY <3>1
    <3>2. CASE d # c
      <4>1. pc'[d] = pc[d] /\ answer'[d] = answer[d] /\ req'[d] = req[d] /\ CallerShape(d)
        BY <1>1, <1>2, <3>2 DEF IInv, TypeOK
      <4>2. QED BY <4>1 DEF CallerShape
    <3>3. QED BY <3>1, <3>2
  <2>4. QED BY <2>1, <2>2, <2>3
<1>4. \A d \in Callers : op[d].at # "none" => FlightKey(d)' = FlightKey(d) /\ Key(d)' = Key(d)
  BY <1>2 DEF FlightKey, Key
<1>5. FlightShape'
  <2>1. \A d \in Callers : Active(d)' <=> Active(d)
    BY DEF Active
  <2>2. \A d \in Callers : Active(d) => op[d].at # "none"
    BY DEF Active
  <2>3. \A d \in Callers : Active(d)' => (flight[FlightKey(d)] = d)'
    BY <1>1, <1>4, <2>1, <2>2 DEF FlightShape
  <2>4. ASSUME NEW f \in FlightKeys, flight'[f] # None
        PROVE  (Active(flight[f]) /\ FlightKey(flight[f]) = f)'
    <3>1. flight'[f] = flight[f] /\ Active(flight[f]) /\ FlightKey(flight[f]) = f
      BY <1>1, <2>4 DEF FlightShape
    <3>2. flight[f] \in Callers
      BY <1>1, <2>4 DEF TypeOK
    <3>3. op[flight[f]].at \notin {"none", "landed"}
      BY <3>1 DEF Active
    <3>4. req'[flight[f]] = req[flight[f]]
      BY <1>2, <3>2, <3>3
    <3>5. QED BY <3>1, <3>3, <3>4 DEF Active, FlightKey
  <2>5. QED BY <2>3, <2>4 DEF FlightShape
<1>6. Counts'
  BY CountFacts DEF Counts, Slotted, Waiters, guardVars
<1>7. guard' \in Guards
  BY <1>1 DEF TypeOK, guardVars
<1>8. SlotsExact' /\ inflight' \in 0 .. guard'.slots /\ queued' \in 0 .. Cardinality(Callers)
  BY <1>3, <1>5, <1>6, <1>7, SlotsFollow
<1>9. OnlyAnswersAreStored'
  BY DEF IInv, OnlyAnswersAreStored, Stored
<1>10. CacheShape'
  <2>1. \A k \in Keys : cache'[k] # Absent' => cache'[k].stored <= now'
    BY <1>1 DEF CacheShape, Absent
  <2>2. ASSUME NEW d \in Callers, op'[d].at = "storing", cache'[Key(d)'] # Absent, Plain(Key(d)')
        PROVE  cache'[Key(d)'].stored <= op'[d].stamp
    <3>1. op[d].at = "storing" /\ Key(d)' = Key(d)
      BY <1>4, <2>2
    <3>2. QED BY <1>1, <2>2, <3>1 DEF CacheShape
  <2>3. QED BY <1>1, <2>1, <2>2 DEF CacheShape, Plain, Absent
<1>11. TypeOK'
  <2>1. /\ now' \in 0 .. MaxTime /\ cache' \in CacheType
        /\ pc' \in [Callers -> {"idle", "joining", "waiting", "done"}]
        /\ alive' \in [Callers -> BOOLEAN]
        /\ joined' \in [Callers -> Callers \cup {None}]
        /\ answer' \in [Callers -> {None} \cup Results]
        /\ flight' \in [FlightKeys -> Callers \cup {None}]
        /\ op' \in [Callers -> OpType]
    BY <1>1 DEF TypeOK, CacheType
  <2>2. QED BY <1>2, <1>7, <1>8, <2>1, TypesFollow
<1>12. op' \in [Callers -> OpType]
  BY <1>1
<1>13. QED BY <1>2, <1>3, <1>5, <1>8, <1>9, <1>10, <1>11, <1>12 DEF IInv

\* A request is answered at once, or joins.
LEMMA SubmitInv ==
  ASSUME IInv, NEW c \in Callers, Submit(c)
  PROVE  IInv'
<1>1. /\ pc[c] = "idle" /\ UNCHANGED <<now, cache, joined, alive, flight, op, guardVars>>
      /\ TypeOK /\ CallerShape(c)
      /\ req \in [Callers -> [key : Keys, refresh : BOOLEAN, debug : BOOLEAN] \cup {None}]
  BY DEF Submit, IInv
<1>2. PICK r \in Requests[c] :
        /\ req' = [req EXCEPT ![c] = r]
        /\ \/ Return(c, Failure("provider_not_found"))
           \/ Get(c, r.key, FreshTTL) /\ Return(c, Answered(cache[r.key].content, "fresh"))
           \/ pc' = [pc EXCEPT ![c] = "joining"] /\ UNCHANGED answer
  BY DEF Submit
<1>3. r.key \in Keys /\ req'[c] = r
  <2>1. r \in [key : Keys, refresh : BOOLEAN, debug : BOOLEAN]
    BY ConstantsOK
  <2>2. QED BY <1>1, <1>2, <2>1
<1>4. joined[c] = None /\ answer[c] = None /\ joined'[c] = None
  BY <1>1 DEF CallerShape
<1>5. ASSUME NEW result \in Results, Return(c, result),
             result \notin {Failure("abandoned"), Failure("expired"), Failure("cancelled")}
      PROVE  IInv'
  <2>1. /\ pc' = [pc EXCEPT ![c] = "done"] /\ answer' = [answer EXCEPT ![c] = result]
        /\ pc'[c] = "done" /\ answer'[c] = result /\ result # None
    BY <1>1, <1>5, NoneIsNothing DEF Return, TypeOK
  <2>2. CallerShape(c)'
    BY <1>2, <1>3, <1>4, <1>5, <2>1 DEF CallerShape
  <2>3. QED BY <1>1, <1>2, <2>1, <2>2, CallerMoves
<1>6. CASE Return(c, Failure("provider_not_found"))
  <2> DEFINE result == Failure("provider_not_found")
  <2>1. /\ result \in Results
        /\ result \notin {Failure("abandoned"), Failure("expired"), Failure("cancelled")}
    BY Outcomes DEF Codes
  <2> HIDE DEF result
  <2>2. Return(c, result)
    BY <1>6 DEF result
  <2>3. QED BY <1>5, <2>1, <2>2
<1>7. CASE Get(c, r.key, FreshTTL) /\ Return(c, Answered(cache[r.key].content, "fresh"))
  <2> DEFINE result == Answered(cache[r.key].content, "fresh")
  <2>1. cache[r.key].content \in Contents
    BY <1>1, <1>3, <1>7 DEF TypeOK, Get
  <2>2. /\ result \in Results
        /\ result \notin {Failure("abandoned"), Failure("expired"), Failure("cancelled")}
    BY <2>1, Outcomes
  <2>3. Return(c, result)
    BY <1>7
  <2> HIDE DEF result
  <2>4. QED BY <1>5, <2>2, <2>3
<1>8. CASE pc' = [pc EXCEPT ![c] = "joining"] /\ UNCHANGED answer
  <2>1. /\ answer' = [answer EXCEPT ![c] = None]
        /\ pc'[c] = "joining" /\ answer'[c] = None
    BY <1>1, <1>4, <1>8 DEF TypeOK
  <2>2. CallerShape(c)'
    BY <1>2, <1>3, <1>4, <2>1 DEF CallerShape
  <2>3. QED BY <1>1, <1>2, <1>8, <2>1, <2>2, CallerMoves
<1>9. QED BY <1>2, <1>6, <1>7, <1>8

\* A caller takes the outcome of the operation it has joined.
LEMMA ReceiveFacts ==
  ASSUME IInv, NEW c \in Callers, pc[c] = "waiting"
  PROVE  /\ joined[c] \in Callers /\ answer[c] = None
         /\ op[joined[c]].at = "landed" => op[joined[c]].outcome \in Results
         /\ op[joined[c]].outcome # Failure("abandoned")
BY DEF IInv, TypeOK, CallerShape, OpHolds

\* A caller that received its outcome, or left, is done.
LEMMA LeaveInv ==
  ASSUME IInv, NEW c \in Callers, Receive(c) \/ Abandon(c)
  PROVE  IInv'
<1>1. /\ pc[c] = "waiting"
      /\ UNCHANGED <<now, cache, req, joined, alive, flight, op, guardVars>>
      /\ TypeOK /\ CallerShape(c)
  BY DEF Receive, Abandon, IInv
<1>2. joined[c] \in Callers /\ joined[c] # None
  BY <1>1, ReceiveFacts DEF CallerShape
<1>3. ASSUME NEW result \in Results, Return(c, result),
             \/ result = Failure("abandoned") /\ ~alive[c]
             \/ result = op[joined[c]].outcome /\ op[joined[c]].at = "landed"
      PROVE  IInv'
  <2>1. /\ pc' = [pc EXCEPT ![c] = "done"] /\ answer' = [answer EXCEPT ![c] = result]
        /\ pc'[c] = "done" /\ answer'[c] = result /\ result # None
    BY <1>1, <1>3, NoneIsNothing DEF Return, TypeOK
  <2>2. CallerShape(c)'
    BY <1>1, <1>2, <1>3, <2>1 DEF CallerShape
  <2>3. QED BY <1>1, <2>1, <2>2, CallerMoves
<1>4. CASE Receive(c)
  <2>1. Return(c, op[joined[c]].outcome) /\ op[joined[c]].at = "landed"
    BY <1>4 DEF Receive
  <2>2. op[joined[c]].outcome \in Results
    BY <1>1, <2>1, ReceiveFacts
  <2>3. QED BY <1>3, <2>1, <2>2
<1>5. CASE Abandon(c)
  <2>1. Return(c, Failure("abandoned")) /\ ~alive[c]
    BY <1>5 DEF Abandon
  <2>2. Failure("abandoned") \in Results
    BY Outcomes DEF Codes
  <2>3. QED BY <1>3, <2>1, <2>2
<1>6. QED BY <1>4, <1>5

\* What a caller that joins finds: no operation of its own, and its request.
LEMMA JoinFacts ==
  ASSUME IInv, NEW c \in Callers, Join(c)
  PROVE  /\ pc[c] = "joining" /\ joined[c] = None /\ answer[c] = None
         /\ op[c].at = "none" /\ op[c] \in OpType
         /\ req[c] \in Requests[c] /\ FlightKey(c) \in FlightKeys
         /\ pc' = [pc EXCEPT ![c] = "waiting"]
         /\ UNCHANGED <<now, cache, req, answer, alive, guardVars>>
         /\ \/ /\ flight[FlightKey(c)] = None
               /\ flight' = [flight EXCEPT ![FlightKey(c)] = c]
               /\ joined' = [joined EXCEPT ![c] = c]
               /\ op' = [op EXCEPT ![c].at = "looking"]
            \/ /\ flight[FlightKey(c)] # None
               /\ UNCHANGED <<flight, op>>
               /\ joined' = [joined EXCEPT ![c] = flight[FlightKey(c)]]
               /\ flight[FlightKey(c)] \in Callers /\ Active(flight[FlightKey(c)])
<1>1. pc[c] = "joining" /\ None \notin Callers
  BY ConstantsOK DEF Join
<1>2. joined[c] = None /\ answer[c] = None /\ req[c] \in Requests[c]
  BY <1>1 DEF IInv, CallerShape
<1>3. op[c].at = "none" /\ op[c] \in OpType
  BY <1>1, <1>2 DEF IInv, OpHolds
<1>4. FlightKey(c) \in FlightKeys /\ flight \in [FlightKeys -> Callers \cup {None}]
  BY <1>2, RequestFacts DEF IInv, TypeOK
<1>5. /\ pc' = [pc EXCEPT ![c] = "waiting"]
      /\ UNCHANGED <<now, cache, req, answer, alive, guardVars>>
  BY DEF Join
<1>6. CASE flight[FlightKey(c)] = None
  <2>1. /\ flight' = [flight EXCEPT ![FlightKey(c)] = c]
        /\ joined' = [joined EXCEPT ![c] = c]
        /\ op' = [op EXCEPT ![c].at = "looking"]
    BY <1>6 DEF Join, At
  <2>2. QED BY <1>1, <1>2, <1>3, <1>4, <1>5, <1>6, <2>1
<1>7. CASE flight[FlightKey(c)] # None
  <2>1. /\ flight' = [flight EXCEPT ![FlightKey(c)] = flight[FlightKey(c)]]
        /\ joined' = [joined EXCEPT ![c] = flight[FlightKey(c)]]
        /\ UNCHANGED op
    BY <1>7 DEF Join
  <2>2. flight' = flight
    BY <1>4, <2>1
  <2>3. flight[FlightKey(c)] \in Callers /\ Active(flight[FlightKey(c)])
    BY <1>4, <1>7 DEF IInv, FlightShape
  <2>4. QED BY <1>1, <1>2, <1>3, <1>4, <1>5, <1>7, <2>1, <2>2, <2>3
<1>8. QED BY <1>6, <1>7

\* The operation a caller starts, if it does, is well formed.
LEMMA JoinMoves ==
  ASSUME IInv, NEW c \in Callers, Join(c)
  PROVE  /\ op' \in [Callers -> OpType]
         /\ \A d \in Callers \ {c} : op'[d] = op[d]
         /\ op'[c].at \in {"none", "looking"}
         /\ op'[c].at = "looking" => joined'[c] = c
         /\ ~op'[c].slot /\ op'[c].lease = None /\ op'[c].outcome = None
         /\ op'[c].failed = <<>> /\ op'[c].stamp = op[c].stamp
<1>1. op[c].at = "none" /\ op[c] \in OpType /\ op \in [Callers -> OpType]
  BY JoinFacts DEF IInv
<1>2. ~op[c].slot /\ op[c].lease = None /\ op[c].outcome = None /\ op[c].failed = <<>>
  BY <1>1 DEF IInv, OpHolds, OpTried
<1>3. CASE op' = [op EXCEPT ![c].at = "looking"] /\ joined' = [joined EXCEPT ![c] = c]
  <2>1. op'[c] = [at |-> "looking", slot |-> op[c].slot, lease |-> op[c].lease,
                  failed |-> op[c].failed, stamp |-> op[c].stamp, outcome |-> op[c].outcome]
    BY <1>1, <1>3 DEF OpType
  <2>2. op'[c] \in OpType /\ \A d \in Callers \ {c} : op'[d] = op[d]
    BY <1>1, <1>3, <2>1 DEF OpType, Places
  <2>3. op' \in [Callers -> OpType]
    BY <1>1, <1>3, <2>2
  <2>4. joined'[c] = c
    BY <1>3 DEF IInv, TypeOK
  <2>5. QED BY <1>2, <2>1, <2>2, <2>3, <2>4
<1>4. CASE UNCHANGED op
  BY <1>1, <1>2, <1>4
<1>5. QED BY <1>3, <1>4, JoinFacts

\* The flights after a caller has joined.
LEMMA JoinFlights ==
  ASSUME IInv, NEW c \in Callers, Join(c)
  PROVE  FlightShape' /\ flight' \in [FlightKeys -> Callers \cup {None}]
<1>1. FlightShape /\ flight \in [FlightKeys -> Callers \cup {None}]
  BY DEF IInv, TypeOK
<1>2. req' = req /\ FlightKey(c) \in FlightKeys /\ op[c].at = "none"
  BY JoinFacts
<1>3. \A d \in Callers : FlightKey(d)' = FlightKey(d)
  BY <1>2 DEF FlightKey
<1>4. CASE /\ flight[FlightKey(c)] = None
           /\ flight' = [flight EXCEPT ![FlightKey(c)] = c]
           /\ op' = [op EXCEPT ![c].at = "looking"]
  <2>1. /\ \A d \in Callers \ {c} : op'[d] = op[d]
        /\ op'[c].at = "looking"
    BY <1>4 DEF IInv, OpType
  <2>2. ASSUME NEW d \in Callers, Active(d)'
        PROVE  flight'[FlightKey(d)] = d
    <3>1. CASE d = c
      BY <1>1, <1>2, <1>4, <3>1
    <3>2. CASE d # c
      <4>1. Active(d) /\ flight[FlightKey(d)] = d /\ d # None
        BY <1>1, <2>1, <2>2, <3>2, ConstantsOK DEF Active, FlightShape
      <4>2. FlightKey(d) # FlightKey(c)
        BY <1>4, <4>1
      <4>3. FlightKey(d) \in FlightKeys
        BY <4>1, ActiveFacts, RequestFacts DEF Active
      <4>4. QED BY <1>1, <1>4, <4>1, <4>2, <4>3
    <3>3. QED BY <3>1, <3>2
  <2>3. ASSUME NEW f \in FlightKeys, flight'[f] # None
        PROVE  (Active(flight[f]) /\ FlightKey(flight[f]) = f)'
    <3>1. CASE f = FlightKey(c)
      <4>1. flight'[f] = c
        BY <1>1, <1>4, <3>1
      <4>2. QED BY <1>2, <2>1, <3>1, <4>1 DEF Active, FlightKey
    <3>2. CASE f # FlightKey(c)
      <4>1. flight'[f] = flight[f] /\ flight[f] \in Callers
        BY <1>1, <1>4, <2>3, <3>2
      <4>2. Active(flight[f]) /\ FlightKey(flight[f]) = f
        BY <1>1, <2>3, <4>1 DEF FlightShape
      <4>3. flight[f] # c
        BY <1>2, <4>2 DEF Active
      <4>4. op'[flight[f]] = op[flight[f]]
        BY <2>1, <4>1, <4>3
      <4>5. QED BY <1>2, <4>1, <4>2, <4>4 DEF Active, FlightKey
    <3>3. QED BY <3>1, <3>2
  <2>4. FlightShape'
    BY <1>3, <2>2, <2>3 DEF FlightShape
  <2>5. QED BY <1>1, <1>4, <2>4
<1>5. CASE UNCHANGED <<flight, op>>
  <2>1. ASSUME NEW f \in FlightKeys, flight'[f] # None
        PROVE  (Active(flight[f]) /\ FlightKey(flight[f]) = f)'
    BY <1>1, <1>2, <1>5, <2>1 DEF FlightShape, Active, FlightKey
  <2>2. \A d \in Callers : Active(d)' => flight'[FlightKey(d)] = d
    BY <1>1, <1>5 DEF FlightShape, Active
  <2>3. FlightShape'
    BY <1>3, <2>1, <2>2 DEF FlightShape
  <2>4. QED BY <1>1, <1>5, <2>3
<1>6. QED BY <1>4, <1>5, JoinFacts

\* A caller joins the flight of its key, or begins it.
LEMMA JoinInv ==
  ASSUME IInv, NEW c \in Callers, Join(c)
  PROVE  IInv'
<1>1. /\ pc[c] = "joining" /\ joined[c] = None /\ answer[c] = None
      /\ op[c].at = "none" /\ req[c] \in Requests[c]
      /\ pc' = [pc EXCEPT ![c] = "waiting"]
      /\ UNCHANGED <<now, cache, req, answer, alive, guardVars>>
      /\ TypeOK /\ CacheShape
  BY JoinFacts DEF IInv
<1>2. /\ op' \in [Callers -> OpType]
      /\ \A d \in Callers \ {c} : op'[d] = op[d]
      /\ op'[c].at \in {"none", "looking"}
      /\ op'[c].at = "looking" => joined'[c] = c
      /\ ~op'[c].slot /\ op'[c].lease = None /\ op'[c].outcome = None
      /\ op'[c].failed = <<>> /\ op'[c].stamp = op[c].stamp
  BY JoinMoves
<1>3. /\ joined' \in [Callers -> Callers \cup {None}] /\ joined'[c] \in Callers
      /\ \A d \in Callers \ {c} : joined'[d] = joined[d]
      /\ op'[joined'[c]].at # "none"
  <2>1. CASE joined' = [joined EXCEPT ![c] = c] /\ op' = [op EXCEPT ![c].at = "looking"]
    BY <1>1, <2>1 DEF IInv, TypeOK, OpType
  <2>2. CASE /\ joined' = [joined EXCEPT ![c] = flight[FlightKey(c)]] /\ op' = op
             /\ flight[FlightKey(c)] \in Callers /\ Active(flight[FlightKey(c)])
    BY <1>1, <2>2 DEF TypeOK, Active
  <2>3. QED BY <2>1, <2>2, JoinFacts
<1>4. FlightShape' /\ flight' \in [FlightKeys -> Callers \cup {None}]
  BY JoinFlights
<1>5. \A d \in Callers : Key(d)' = Key(d) /\ Chain(d)' = Chain(d)
  BY <1>1 DEF Key, Chain
<1>6. ASSUME NEW d \in Callers
      PROVE  OpHolds(d)' /\ OpTried(d)' /\ CallerShape(d)'
  <2>1. CASE d = c
    <3>1. pc'[c] = "waiting" /\ answer'[c] = None /\ req'[c] \in Requests[c]
      BY <1>1 DEF TypeOK
    <3>2. /\ None # Failure("abandoned") /\ None # Failure("expired") /\ None # Failure("cancelled")
      BY Outcomes, NoneIsNothing DEF Codes
    <3>3. OpHolds(c)'
      BY <1>2, <3>1, <3>2 DEF OpHolds
    <3>4. OpTried(c)'
      BY <1>2 DEF OpTried
    <3>5. joined'[c] # None
      BY <1>3, ConstantsOK
    <3>6. CallerShape(c)'
      BY <1>3, <3>1, <3>5 DEF CallerShape
    <3>7. QED BY <2>1, <3>3, <3>4, <3>6
  <2>2. CASE d # c
    <3>1. op'[d] = op[d] /\ pc'[d] = pc[d] /\ joined'[d] = joined[d] /\ alive' = alive
          /\ answer' = answer /\ req' = req
      BY <1>1, <1>2, <1>3, <2>2 DEF TypeOK
    <3>2. OpHolds(d) /\ OpTried(d) /\ CallerShape(d) /\ joined[d] \in Callers \cup {None}
      BY DEF IInv, TypeOK
    <3>3. OpHolds(d)'
      BY <3>1, <3>2 DEF OpHolds
    <3>4. OpTried(d)'
      BY <1>5, <3>1, <3>2 DEF OpTried, Recoverable
    <3>5. CASE joined[d] = None
      <4>1. CallerShape(d)'
        BY <3>1, <3>2, <3>5 DEF CallerShape
      <4>2. QED BY <3>3, <3>4, <4>1
    <3>6. CASE joined[d] # None
      <4>1. op[joined[d]].at # "none" /\ joined[d] # c
        BY <1>1, <3>2, <3>6 DEF CallerShape
      <4>2. op'[joined[d]] = op[joined[d]]
        BY <1>2, <3>2, <3>6, <4>1
      <4>3. CallerShape(d)'
        BY <3>1, <3>2, <4>1, <4>2 DEF CallerShape
      <4>4. QED BY <3>3, <3>4, <4>3
    <3>7. QED BY <3>5, <3>6
  <2>3. QED BY <2>1, <2>2
<1>7. Counts'
  <2>1. ~op[c].slot
    BY <1>1 DEF IInv, OpHolds
  <2>2. Slotted' = Slotted
    BY <1>2, <2>1 DEF Slotted
  <2>3. Waiters' = Waiters
    BY <1>1, <1>2 DEF Waiters
  <2>4. QED BY <1>1, <2>2, <2>3, CountFacts DEF Counts, guardVars
<1>8. guard' \in Guards
  BY <1>1 DEF TypeOK, guardVars
<1>9. SlotsExact' /\ inflight' \in 0 .. guard'.slots /\ queued' \in 0 .. Cardinality(Callers)
  BY <1>4, <1>6, <1>7, <1>8, SlotsFollow
<1>10. OnlyAnswersAreStored'
  BY <1>1 DEF IInv, OnlyAnswersAreStored, Stored
<1>11. CacheShape'
  <2>1. \A d \in Callers : op'[d].stamp <= now' /\ (op'[d].at = "storing" => op'[d] = op[d])
    BY <1>1, <1>2 DEF CacheShape
  <2>2. ASSUME NEW d \in Callers, op'[d].at = "storing", cache'[Key(d)'] # Absent, Plain(Key(d)')
        PROVE  cache'[Key(d)'].stored <= op'[d].stamp
    BY <1>1, <1>5, <2>1, <2>2 DEF CacheShape
  <2>3. QED BY <1>1, <2>1, <2>2 DEF CacheShape, Plain, Absent
<1>12. TypeOK'
  <2>1. /\ now' \in 0 .. MaxTime /\ cache' \in CacheType
        /\ pc' \in [Callers -> {"idle", "joining", "waiting", "done"}]
        /\ \A d \in Callers : req'[d] \in Requests[d] \cup {None}
        /\ alive' \in [Callers -> BOOLEAN]
        /\ answer' \in [Callers -> {None} \cup Results]
    BY <1>1 DEF TypeOK, CacheType
  <2>2. QED BY <1>2, <1>3, <1>4, <1>8, <1>9, <2>1, TypesFollow
<1>13. req' \in [Callers -> [key : Keys, refresh : BOOLEAN, debug : BOOLEAN] \cup {None}]
  BY <1>1 DEF IInv
<1>14. QED BY <1>2, <1>4, <1>6, <1>9, <1>10, <1>11, <1>12, <1>13 DEF IInv

\* A step that changes only the clock, or ends contexts.
LEMMA SurroundingsInv ==
  ASSUME IInv, now' \in now .. MaxTime, alive' \in [Callers -> BOOLEAN],
         \A c \in Callers : ~alive[c] => ~alive'[c],
         UNCHANGED <<cache, callerVars, flight, op, guardVars>>
  PROVE  IInv'
<1>1. /\ TypeOK /\ now \in 0 .. MaxTime /\ MaxTime \in Nat
      /\ op \in [Callers -> OpType] /\ op' = op /\ req' = req
  BY ConstantsOK DEF IInv, TypeOK, callerVars
<1>2. /\ \A c \in Callers : Key(c)' = Key(c) /\ Chain(c)' = Chain(c) /\ FlightKey(c)' = FlightKey(c)
      /\ \A c \in Callers : Active(c)' <=> Active(c)
  BY <1>1 DEF Key, Chain, FlightKey, Active
<1>3. ASSUME NEW c \in Callers
      PROVE  OpHolds(c)' /\ OpTried(c)' /\ CallerShape(c)'
  <2>1. OpHolds(c) /\ OpTried(c) /\ CallerShape(c)
    BY DEF IInv
  <2>2. OpHolds(c)'
    BY <2>1 DEF OpHolds, callerVars
  <2>3. OpTried(c)'
    BY <1>1, <1>2, <2>1 DEF OpTried, Recoverable
  <2>4. CallerShape(c)'
    BY <2>1 DEF CallerShape, callerVars
  <2>5. QED BY <2>2, <2>3, <2>4
<1>4. FlightShape'
  <2>1. FlightShape /\ flight' = flight
    BY DEF IInv
  <2>2. ASSUME NEW f \in FlightKeys, flight'[f] # None
        PROVE  (Active(flight[f]) /\ FlightKey(flight[f]) = f)'
    BY <1>1, <2>1, <2>2 DEF FlightShape, Active, FlightKey
  <2>3. QED BY <1>2, <2>1, <2>2 DEF FlightShape
<1>5. SlotsExact'
  <2>1. Counts'
    BY <1>1, CountFacts DEF Counts, Slotted, Waiters, guardVars
  <2>2. guard' \in Guards
    BY <1>1 DEF TypeOK, guardVars
  <2>3. QED BY <1>3, <1>4, <2>1, <2>2, SlotsFollow
<1>6. OnlyAnswersAreStored'
  BY DEF IInv, OnlyAnswersAreStored, Stored
<1>7. CacheShape'
  <2>1. CacheShape /\ cache' = cache /\ now <= now'
    BY <1>1 DEF IInv
  <2>2. /\ \A k \in Keys : cache[k] # Absent => cache[k].stored \in Nat
        /\ \A c \in Callers : op[c].stamp \in Nat
    BY <1>1 DEF TypeOK
  <2>3. /\ \A k \in Keys : cache[k] # Absent => cache[k].stored <= now'
        /\ \A c \in Callers : op[c].stamp <= now'
    BY <1>1, <2>1, <2>2 DEF CacheShape
  <2>4. QED BY <1>1, <1>2, <2>1, <2>3 DEF CacheShape, Plain, Absent
<1>8. TypeOK'
  <2>1. now' \in 0 .. MaxTime
    BY <1>1
  <2>2. QED BY <1>1, <2>1 DEF TypeOK, callerVars, guardVars
<1>9. QED BY <1>1, <1>3, <1>4, <1>5, <1>6, <1>7, <1>8 DEF IInv

\* At the start nothing runs and nothing is stored.
LEMMA InitIInv == Init => IInv
<1> SUFFICES ASSUME Init PROVE IInv
  OBVIOUS
<1>1. /\ now = 0 /\ 0 \in 0 .. MaxTime /\ guard \in Guards /\ guard.slots \in Nat
      /\ inflight = 0 /\ queued = 0 /\ Cardinality(Callers) \in Nat
  BY ConstantsOK, FS_CardinalityType DEF Init
<1>2. Idle \in OpType
  <2>1. <<>> \in Seq(Replied)
    OBVIOUS
  <2>2. QED BY <1>1, <2>1 DEF Idle, OpType, Places
<1>3. /\ op = [c \in Callers |-> Idle] /\ op \in [Callers -> OpType]
      /\ \A c \in Callers : /\ op[c].at = "none" /\ ~op[c].slot /\ op[c].lease = None
                           /\ op[c].failed = <<>> /\ op[c].stamp = 0 /\ op[c].outcome = None
  BY <1>2 DEF Init, Idle
<1>4. /\ \A c \in Callers : pc[c] = "idle" /\ req[c] = None /\ joined[c] = None /\ answer[c] = None
      /\ \A f \in FlightKeys : flight[f] = None
      /\ \A k \in Keys : cache[k] = Absent
  BY DEF Init
<1>5. TypeOK
  <2>1. /\ now \in 0 .. MaxTime /\ guard \in Guards
        /\ inflight \in 0 .. guard.slots /\ queued \in 0 .. Cardinality(Callers)
    BY <1>1
  <2>2. cache \in [Keys -> {Absent} \cup [stored : 0 .. MaxTime, content : Contents]]
    BY DEF Init
  <2>3. /\ pc \in [Callers -> {"idle", "joining", "waiting", "done"}]
        /\ \A c \in Callers : req[c] \in Requests[c] \cup {None}
        /\ alive \in [Callers -> BOOLEAN]
        /\ joined \in [Callers -> Callers \cup {None}]
        /\ answer \in [Callers -> {None} \cup Results]
        /\ flight \in [FlightKeys -> Callers \cup {None}]
    BY DEF Init
  <2>4. \A c \in Callers :
          /\ op[c].at \in Places /\ op[c].slot \in BOOLEAN
          /\ op[c].lease \in Providers \cup {None} /\ op[c].stamp \in 0 .. MaxTime
          /\ op[c].outcome = None
    BY <1>3 DEF OpType
  <2>5. QED BY <2>1, <2>2, <2>3, <2>4 DEF TypeOK, Places
<1>6. req \in [Callers -> [key : Keys, refresh : BOOLEAN, debug : BOOLEAN] \cup {None}]
  BY DEF Init
<1>7. /\ None # Failure("abandoned") /\ None # Failure("expired") /\ None # Failure("cancelled")
  BY Outcomes, NoneIsNothing DEF Codes
<1>8. \A c \in Callers : OpHolds(c) /\ OpTried(c) /\ CallerShape(c)
  BY <1>3, <1>4, <1>7 DEF OpHolds, OpTried, CallerShape
<1>9. FlightShape
  BY <1>3, <1>4 DEF FlightShape, Active
<1>10. SlotsExact
  <2>1. {c \in Callers : op[c].slot} = {} /\ {c \in Callers : op[c].at \in {"queued", "unqueueing"}} = {}
    BY <1>3
  <2>2. QED BY <1>1, <1>3, <2>1, FS_EmptySet DEF SlotsExact
<1>11. OnlyAnswersAreStored
  BY <1>4 DEF OnlyAnswersAreStored, Stored
<1>12. CacheShape
  BY <1>1, <1>3, <1>4 DEF CacheShape
<1>13. QED BY <1>3, <1>5, <1>6, <1>8, <1>9, <1>10, <1>11, <1>12 DEF IInv

\* Every step keeps the invariant.
LEMMA NextIInv == IInv /\ [Next]_vars => IInv'
<1> SUFFICES ASSUME IInv, [Next]_vars PROVE IInv'
  OBVIOUS
<1>1. now \in 0 .. MaxTime /\ MaxTime \in Nat /\ alive \in [Callers -> BOOLEAN]
  BY ConstantsOK DEF IInv, TypeOK
<1>2. CASE Tick
  <2>1. /\ now' \in now .. MaxTime /\ UNCHANGED <<cache, callerVars, alive, flight, op, guardVars>>
    BY <1>1, <1>2 DEF Tick
  <2>2. QED BY <1>1, <2>1, SurroundingsInv
<1>3. ASSUME NEW c \in Callers, EndContext(c) PROVE IInv'
  <2>1. /\ now' \in now .. MaxTime /\ UNCHANGED <<cache, callerVars, flight, op, guardVars>>
        /\ alive' = [alive EXCEPT ![c] = FALSE]
    BY <1>1, <1>3 DEF EndContext
  <2>2. alive' \in [Callers -> BOOLEAN] /\ \A d \in Callers : ~alive[d] => ~alive'[d]
    BY <1>1, <2>1
  <2>3. QED BY <2>1, <2>2, SurroundingsInv
<1>4. ASSUME NEW c \in Callers, CallerStep(c) PROVE IInv'
  BY <1>4, SubmitInv, JoinInv, LeaveInv DEF CallerStep
<1>5. ASSUME NEW c \in Callers, OpStep(c) PROVE IInv'
  BY <1>5, OpStepInv
<1>6. CASE UNCHANGED vars
  <2>1. /\ now' \in now .. MaxTime /\ UNCHANGED <<cache, callerVars, alive, flight, op, guardVars>>
    BY <1>1, <1>6 DEF vars
  <2>2. QED BY <1>1, <2>1, SurroundingsInv
<1>7. QED BY <1>2, <1>3, <1>4, <1>5, <1>6 DEF Next

-----------------------------------------------------------------------------
(* The theorems.                                                           *)

\* IInv holds in every state.
THEOREM InductiveInvariant == Spec => []IInv
BY InitIInv, NextIInv, PTL DEF Spec

\* Every variable of the service keeps its type; no more live searches run
\* than the guard allows.
THEOREM TypeCorrect == Spec => []TypeOK
<1>1. IInv => TypeOK
  BY DEF IInv
<1>2. QED BY <1>1, InductiveInvariant, PTL

\* The guard of acquireLive never loses or invents a slot or a place in the
\* queue, for any number of callers and any settings.
THEOREM GuardAccountedFor == Spec => []SlotsExact
<1>1. IInv => SlotsExact
  BY DEF IInv
<1>2. QED BY <1>1, InductiveInvariant, PTL

\* The cache holds nothing but answers of live searches to their own keys.
THEOREM CacheHoldsAnswers == Spec => []OnlyAnswersAreStored
<1>1. IInv => OnlyAnswersAreStored
  BY DEF IInv
<1>2. QED BY <1>1, InductiveInvariant, PTL

\* Chain.Search asks the members of any chain in their order, and goes on
\* only after failures that allow it.
THEOREM ChainKeepsOrder == Spec => []ChainInOrder
<1>1. ASSUME IInv PROVE ChainInOrder
  <2> SUFFICES ASSUME NEW c \in Callers, op[c].at \notin {"none", "releasing", "returning", "landed"}
               PROVE  /\ Len(op[c].failed) <= Len(Chain(c))
                      /\ \A i \in 1 .. Len(op[c].failed) - 1 : op[c].failed[i] \in {"empty", "retryable"}
                      /\ op[c].outcome = Failure("unavailable") =>
                           /\ Len(op[c].failed) = Len(Chain(c))
                           /\ \A i \in DOMAIN op[c].failed : op[c].failed[i] \in {"empty", "retryable"}
                      /\ op[c].at = "storing" =>
                           /\ \A i \in DOMAIN op[c].failed : op[c].failed[i] \in {"empty", "retryable"}
                           /\ op[c].outcome.content.by = Chain(c)[Len(op[c].failed) + 1]
    BY DEF ChainInOrder
  <2>1. /\ op[c] \in OpType /\ req[c] \in Requests[c] /\ OpHolds(c) /\ OpTried(c)
    BY <1>1, ActiveFacts DEF IInv
  <2>2. /\ op[c].failed \in Seq(Replied) /\ Len(op[c].failed) \in Nat
        /\ DOMAIN op[c].failed = 1 .. Len(op[c].failed) /\ Len(Chain(c)) \in Nat
    BY <2>1, RequestFacts DEF OpType
  <2>3. /\ None # Failure("unavailable") /\ Failure("queue_full") # Failure("unavailable")
        /\ Failure("expired") # Failure("unavailable")
    BY Outcomes, NoneIsNothing DEF Codes
  <2>4. CASE op[c].at \in {"looking", "guard", "queued", "unqueueing"}
    <3>1. op[c].failed = <<>> /\ op[c].outcome # Failure("unavailable")
      BY <2>1, <2>3, <2>4 DEF OpHolds, OpTried
    <3>2. QED BY <2>2, <2>4, <3>1
  <2>5. CASE op[c].at \in {"member", "leased"}
    <3>1. op[c].outcome # Failure("unavailable")
      BY <2>1, <2>3, <2>5 DEF OpHolds
    <3>2. Len(op[c].failed) < Len(Chain(c)) /\ Recoverable(op[c].failed)
      BY <2>1, <2>5 DEF OpTried
    <3>3. QED BY <2>2, <2>5, <3>1, <3>2 DEF Recoverable
  <2>6. CASE op[c].at = "storing"
    <3>1. op[c].outcome # Failure("unavailable")
      <4>1. \A r \in [content : Contents, how : {"live"}] : "content" \in DOMAIN r
        OBVIOUS
      <4>2. "content" \notin DOMAIN Failure("unavailable")
        BY DEF Failure
      <4>3. QED BY <2>1, <2>6, <4>1, <4>2 DEF OpTried
    <3>2. /\ Len(op[c].failed) < Len(Chain(c)) /\ Recoverable(op[c].failed)
          /\ op[c].outcome.content.by = Chain(c)[Len(op[c].failed) + 1]
      BY <2>1, <2>6 DEF OpTried
    <3>3. QED BY <2>2, <2>6, <3>1, <3>2 DEF Recoverable
  <2>7. CASE op[c].at = "failing"
    BY <2>1, <2>2, <2>7 DEF OpTried, Recoverable
  <2>8. QED BY <2>1, <2>4, <2>5, <2>6, <2>7 DEF OpType, Places
<1>2. QED BY <1>1, InductiveInvariant, PTL

\* A caller is told that a search expired only if its own context or that of
\* the operation it shares has ended.
THEOREM ExpiryExplained == Spec => []ExpiryHasACause
<1>1. ASSUME IInv PROVE ExpiryHasACause
  <2> SUFFICES ASSUME NEW c \in Callers,
                      answer[c] \in {Failure("abandoned"), Failure("expired"), Failure("cancelled")}
               PROVE  ~alive[c] \/ ~alive[joined[c]]
    BY DEF ExpiryHasACause
  <2>1. answer[c] # None
    BY Outcomes, NoneIsNothing DEF Codes
  <2>2. \/ answer[c] = Failure("abandoned") /\ ~alive[c]
        \/ joined[c] # None /\ answer[c] = op[joined[c]].outcome
    BY <1>1, <2>1 DEF IInv, CallerShape
  <2>3. joined[c] # None => joined[c] \in Callers
    BY <1>1 DEF IInv, TypeOK
  <2>4. QED BY <1>1, <2>2, <2>3 DEF IInv, OpHolds
<1>2. QED BY <1>1, InductiveInvariant, PTL

\* What is stored for a key is never replaced by something older, whatever
\* the searches, as long as requests for it are not for debugging.
THEOREM CacheNeverGoesBack == Spec => CacheMovesForward
<1> DEFINE Forward == \A k \in Keys :
             (/\ cache[k] # Absent /\ cache'[k] # Absent
              /\ \A c \in Callers : \A r \in Requests[c] : r.key = k => ~r.debug)
             => cache[k].stored <= cache'[k].stored
<1>1. ASSUME IInv, [Next]_vars PROVE [Forward]_vars
  <2>1. CASE UNCHANGED cache
    <3>1. \A k \in Keys : cache[k] # Absent => cache[k].stored \in Int
      BY <1>1, ConstantsOK DEF IInv, TypeOK
    <3>2. QED BY <2>1, <3>1
  <2>2. ASSUME NEW c \in Callers, Store(c) PROVE Forward
    <3>1. /\ Key(c) \in Keys /\ op[c].at = "storing"
          /\ cache'[Key(c)].stored = op[c].stamp
          /\ \A k \in Keys \ {Key(c)} : cache'[k] \in {cache[k], Absent}
      BY <1>1, <2>2, StoreFacts
    <3>2. SUFFICES ASSUME NEW k \in Keys, cache[k] # Absent, cache'[k] # Absent, Plain(k)
                   PROVE  cache[k].stored <= cache'[k].stored
      BY DEF Plain
    <3>3. CASE k = Key(c)
      BY <1>1, <2>2, <3>1, <3>2, <3>3 DEF IInv, CacheShape
    <3>4. CASE k # Key(c)
      <4>1. cache'[k] = cache[k]
        BY <3>1, <3>2, <3>4
      <4>2. cache[k].stored \in Int
        BY <1>1, <3>2, ConstantsOK DEF IInv, TypeOK
      <4>3. QED BY <4>1, <4>2
    <3>5. QED BY <3>3, <3>4
  <2>3. ASSUME NEW c \in Callers, OpStep(c) PROVE Store(c) \/ UNCHANGED cache
    BY <1>1, <2>3, OpStepFacts
  <2>4. ASSUME NEW c \in Callers, CallerStep(c) \/ EndContext(c) PROVE UNCHANGED cache
    BY <2>4 DEF CallerStep, Submit, Join, Receive, Abandon, EndContext
  <2>5. Tick \/ UNCHANGED vars => UNCHANGED cache
    BY DEF Tick, vars
  <2> HIDE DEF Forward
  <2>6. QED BY <1>1, <2>1, <2>2, <2>3, <2>4, <2>5 DEF Next
<1>2. QED BY <1>1, InductiveInvariant, PTL DEF Spec, CacheMovesForward

-----------------------------------------------------------------------------
(* The service implements Flight.                                          *)

\* What callers see of the operations, and what they took from them.
Outcome(c) == IF op[c].at = "landed" THEN op[c].outcome ELSE None
Heard(c) == IF answer[c] = None THEN None
            ELSE IF joined[c] = None \/ answer[c] # op[joined[c]].outcome THEN Left
            ELSE answer[c]

Seen == [c \in Callers |-> Outcome(c)]
Got == [c \in Callers |-> Heard(c)]

\* A step that changes neither flights nor what callers see is a stutter.
LEMMA StutterMaps ==
  ASSUME UNCHANGED <<flight, joined, Seen, Got>>
  PROVE  UNCHANGED Shared!vars
BY DEF Shared!vars, Seen, Got, Outcome, Heard

\* What a caller has heard does not change with operations that go on.
LEMMA HeardStays ==
  ASSUME IInv, IInv', NEW d \in Callers, joined'[d] = joined[d] \/ answer[d] = None,
         answer'[d] = answer[d],
         \A e \in Callers : op[e].at = "landed" => op'[e] = op[e]
  PROVE  Heard(d)' = Heard(d)
<1>1. CASE answer[d] = None
  BY <1>1 DEF Heard
<1>2. CASE answer[d] # None /\ joined[d] = None
  BY <1>2 DEF Heard
<1>3. CASE answer[d] # None /\ joined[d] # None
  <2>1. joined[d] \in Callers /\ joined'[d] = joined[d]
    BY <1>3 DEF IInv, TypeOK
  <2>2. \/ answer[d] = Failure("abandoned")
        \/ op[joined[d]].at = "landed"
    BY <1>3 DEF IInv, CallerShape
  <2>3. CASE op[joined[d]].at = "landed"
    BY <2>1, <2>3 DEF Heard
  <2>4. CASE answer[d] = Failure("abandoned")
    <3>1. op[joined[d]].outcome # Failure("abandoned") /\ op'[joined[d]].outcome # Failure("abandoned")
      BY <2>1 DEF IInv, OpHolds
    <3>2. QED BY <1>3, <2>1, <2>4, <3>1 DEF Heard
  <2>5. QED BY <2>2, <2>3, <2>4
<1>4. QED BY <1>1, <1>2, <1>3

\* The steps of operations are steps of nobody, until the operation lands.
LEMMA OpMaps ==
  ASSUME IInv, IInv', NEW c \in Callers, OpStep(c)
  PROVE  [Shared!Next]_Shared!vars
<1>1. /\ Moved(c) /\ UNCHANGED <<joined, answer>> /\ Active(c)
      /\ Land(c) \/ (op'[c].at # "landed" /\ UNCHANGED flight)
      /\ Land(c) => op'[c].at = "landed" /\ op'[c].outcome = op[c].outcome
  BY OpStepFacts DEF callerVars
<1>2. \A e \in Callers : op[e].at = "landed" => op'[e] = op[e]
  BY <1>1 DEF Moved, Active
<1>3. \A d \in Callers : Heard(d)' = Heard(d)
  BY <1>1, <1>2, HeardStays
<1>4. Got' = Got
  BY <1>3 DEF Got
<1>5. \A d \in Callers \ {c} : Outcome(d)' = Outcome(d)
  BY <1>1 DEF Moved, Outcome
<1>6. CASE op'[c].at # "landed" /\ UNCHANGED flight
  <2>1. Outcome(c)' = Outcome(c)
    BY <1>1, <1>6 DEF Outcome, Active
  <2>2. Seen' = Seen
    BY <1>5, <2>1 DEF Seen
  <2>3. QED BY <1>1, <1>4, <1>6, <2>2, StutterMaps
<1>7. CASE Land(c)
  <2>1. op[c].at = "returning" /\ flight' = [flight EXCEPT ![FlightKey(c)] = None]
    BY <1>7 DEF Land
  <2>2. flight[FlightKey(c)] = c /\ FlightKey(c) \in FlightKeys /\ c # None
    BY <1>1, <2>1, ActiveFacts, RequestFacts, ConstantsOK DEF IInv, FlightShape
  <2>3. op[c].outcome \in Results
    BY <2>1 DEF IInv, OpHolds
  <2>4. Outcome(c)' = op[c].outcome
    BY <1>1, <1>7 DEF Outcome
  <2>5. Seen' = [Seen EXCEPT ![c] = Outcome(c)'] /\ Seen'[c] = Outcome(c)'
    BY <1>5 DEF Seen
  <2>6. PICK k \in FlightKeys : k = FlightKey(c)
    BY <2>2
  <2>7. Shared!Land(k)
    BY <1>1, <1>4, <2>1, <2>2, <2>3, <2>4, <2>5, <2>6
       DEF Shared!Land, Seen, Got, Outcome, Heard
  <2>8. QED BY <2>7 DEF Shared!Next
<1>8. QED BY <1>1, <1>6, <1>7

\* A caller joins, receives or leaves as Flight allows.
LEMMA CallerMaps ==
  ASSUME IInv, IInv', NEW c \in Callers, CallerStep(c)
  PROVE  [Shared!Next]_Shared!vars
<1>0. /\ answer \in [Callers -> {None} \cup Results] /\ joined \in [Callers -> Callers \cup {None}]
      /\ CallerShape(c)
  BY DEF IInv, TypeOK
<1>1. ASSUME NEW result \in Results, answer' = [answer EXCEPT ![c] = result],
             answer[c] = None, UNCHANGED <<flight, joined, op>>,
             joined[c] = None \/ result # op[joined[c]].outcome
      PROVE  Shared!Leave(c)
  <2>1. result # None
    BY <1>1, NoneIsNothing
  <2>2. \A d \in Callers \ {c} : Heard(d)' = Heard(d)
    BY <1>0, <1>1 DEF Heard
  <2>3. Heard(c) = None /\ Heard(c)' = Left
    BY <1>0, <1>1, <2>1 DEF Heard
  <2>4. Got' = [Got EXCEPT ![c] = Left] /\ Got[c] = None
    BY <2>2, <2>3 DEF Got
  <2>5. Seen' = Seen
    BY <1>1 DEF Seen, Outcome
  <2>6. QED BY <1>1, <2>4, <2>5 DEF Shared!Leave, Got, Heard, Seen, Outcome
<1>2. CASE Submit(c)
  <2>1. pc[c] = "idle" /\ UNCHANGED <<flight, joined, op>> /\ joined[c] = None /\ answer[c] = None
    BY <1>0, <1>2 DEF Submit, CallerShape
  <2>2. CASE UNCHANGED answer
    <3>1. Seen' = Seen /\ Got' = Got
      BY <2>1, <2>2 DEF Seen, Got, Outcome, Heard
    <3>2. QED BY <2>1, <3>1, StutterMaps
  <2>3. CASE \E result : Return(c, result)
    <3>1. PICK result : answer' = [answer EXCEPT ![c] = result] /\ pc' = [pc EXCEPT ![c] = "done"]
      BY <2>3 DEF Return
    <3>2. answer'[c] = result /\ pc'[c] = "done"
      BY <1>0, <3>1 DEF IInv, TypeOK
    <3>3. result \in Results
      BY <3>2 DEF IInv, TypeOK, CallerShape
    <3>4. Shared!Leave(c)
      BY <1>1, <2>1, <3>1, <3>3
    <3>5. QED BY <3>4 DEF Shared!Next
  <2>4. QED BY <1>2, <2>2, <2>3 DEF Submit
<1>3. CASE Join(c)
  <2>1. /\ joined[c] = None /\ answer[c] = None /\ answer' = answer
        /\ op[c].at = "none" /\ FlightKey(c) \in FlightKeys
    BY <1>3, JoinFacts
  <2>2. /\ \A d \in Callers \ {c} : op'[d] = op[d]
        /\ op'[c].at \in {"none", "looking"}
    BY <1>3, JoinMoves
  <2>3. \A e \in Callers : op[e].at = "landed" => op'[e] = op[e]
    BY <2>1, <2>2
  <2>4. \A d \in Callers : joined'[d] = joined[d] \/ answer[d] = None
    BY <1>0, <1>3, <2>1, JoinFacts
  <2>5. \A d \in Callers : Heard(d)' = Heard(d)
    BY <2>1, <2>3, <2>4, HeardStays
  <2>6. Got' = Got /\ Got[c] = None
    BY <2>1, <2>5 DEF Got, Heard
  <2>7. \A d \in Callers : Outcome(d)' = Outcome(d)
    BY <2>1, <2>2 DEF Outcome
  <2>8. Seen' = Seen
    BY <2>7 DEF Seen
  <2>9. /\ flight[FlightKey(c)] = None =>
             /\ flight' = [flight EXCEPT ![FlightKey(c)] = c]
             /\ joined' = [joined EXCEPT ![c] = c]
        /\ flight[FlightKey(c)] # None =>
             /\ flight' = flight
             /\ joined' = [joined EXCEPT ![c] = flight[FlightKey(c)]]
    BY <1>3, JoinFacts
  <2>10. Shared!Join(c, FlightKey(c))
    BY <2>1, <2>6, <2>8, <2>9 DEF Shared!Join, Got, Heard, Seen, Outcome
  <2>11. QED BY <2>1, <2>10 DEF Shared!Next
<1>4. CASE Receive(c)
  <2>1. /\ pc[c] = "waiting" /\ op[joined[c]].at = "landed"
        /\ answer' = [answer EXCEPT ![c] = op[joined[c]].outcome]
        /\ UNCHANGED <<flight, joined, op>>
    BY <1>4 DEF Receive, Return
  <2>2. /\ joined[c] \in Callers /\ joined[c] # None /\ answer[c] = None
        /\ op[joined[c]].outcome \in Results /\ op[joined[c]].outcome # None
    BY <2>1, ReceiveFacts, NoneIsNothing, ConstantsOK
  <2>3. \A d \in Callers \ {c} : Heard(d)' = Heard(d)
    BY <1>0, <2>1 DEF Heard
  <2>4. Heard(c) = None /\ Heard(c)' = op[joined[c]].outcome
    BY <1>0, <2>1, <2>2 DEF Heard
  <2>5. Seen[joined[c]] = op[joined[c]].outcome
    BY <2>1, <2>2 DEF Seen, Outcome
  <2>6. Got' = [Got EXCEPT ![c] = Seen[joined[c]]] /\ Got[c] = None
    BY <2>3, <2>4, <2>5 DEF Got
  <2>7. Seen' = Seen
    BY <2>1 DEF Seen, Outcome
  <2>8. Shared!Receive(c)
    BY <2>1, <2>2, <2>5, <2>6, <2>7 DEF Shared!Receive, Got, Heard, Seen, Outcome
  <2>9. QED BY <2>8 DEF Shared!Next
<1>5. CASE Abandon(c)
  <2>1. /\ pc[c] = "waiting" /\ answer' = [answer EXCEPT ![c] = Failure("abandoned")]
        /\ UNCHANGED <<flight, joined, op>>
    BY <1>5 DEF Abandon, Return
  <2>2. answer[c] = None /\ op[joined[c]].outcome # Failure("abandoned")
    BY <2>1, ReceiveFacts
  <2>3. Failure("abandoned") \in Results
    BY Outcomes DEF Codes
  <2>4. Shared!Leave(c)
    BY <1>1, <2>1, <2>2, <2>3
  <2>5. QED BY <2>4 DEF Shared!Next
<1>6. QED BY <1>2, <1>3, <1>4, <1>5 DEF CallerStep

\* The initial states are initial states of Flight.
LEMMA InitMaps == Init => Shared!Init
<1> SUFFICES ASSUME Init PROVE Shared!Init
  OBVIOUS
<1>1. \A c \in Callers : op[c].at = "none" /\ answer[c] = None
  BY DEF Init, Idle
<1>2. QED BY <1>1 DEF Init, Shared!Init

\* Every step is a step of Flight or a stutter.
LEMMA StepMaps == IInv /\ IInv' /\ [Next]_vars => [Shared!Next]_Shared!vars
<1> SUFFICES ASSUME IInv, IInv', [Next]_vars PROVE [Shared!Next]_Shared!vars
  OBVIOUS
<1>1. ASSUME NEW c \in Callers, CallerStep(c) PROVE [Shared!Next]_Shared!vars
  BY <1>1, CallerMaps
<1>2. ASSUME NEW c \in Callers, OpStep(c) PROVE [Shared!Next]_Shared!vars
  BY <1>2, OpMaps
<1>3. ASSUME UNCHANGED <<flight, joined, op, answer>> PROVE [Shared!Next]_Shared!vars
  BY <1>3, StutterMaps DEF Seen, Got, Outcome, Heard
<1>4. ASSUME NEW c \in Callers, EndContext(c) PROVE UNCHANGED <<flight, joined, op, answer>>
  BY <1>4 DEF EndContext, callerVars
<1>5. Tick \/ UNCHANGED vars => UNCHANGED <<flight, joined, op, answer>>
  BY DEF Tick, vars, callerVars
<1>6. QED BY <1>1, <1>2, <1>3, <1>4, <1>5 DEF Next

\* Every behaviour of the service is one of Flight: callers of one key share
\* the operation under way, all who wait for it receive its one outcome, and
\* whoever leaves does not disturb it.
THEOREM ServiceImplementsFlight == Spec => ImplementsFlight
BY InitMaps, StepMaps, InductiveInvariant, PTL DEF Spec, ImplementsFlight, Shared!Spec

-----------------------------------------------------------------------------
(* The pools of the providers.                                             *)

\* The service as LeasePool sees it: an operation holds the lease, and a provider
\* is one name with as many slots as its pool has leases.
held == [c \in Callers |-> op[c].lease]

Pool == INSTANCE LeasePool WITH
          Profiles    <- Providers,
          NoProfile   <- None,
          incarnation <- [p \in Providers |-> 0],
          accepting   <- TRUE

\* Operations use the pools of their providers as LeasePool promises they may be
\* used: whatever the members of the chain reply, and whenever a context ends,
\* a step takes at most one lease, by an operation that has none, or gives back
\* the one it has; it never tries a member with the lease of another in hand
\* (routing/provider.go:48).
PoolsUsedRightly ==
  [][\/ \E c \in Callers, p \in Providers : Pool!Grant(c, p)
     \/ \E c \in Callers : Pool!Return(c)]_(Pool!vars)

\* LeasePool counts as this module does.
LEMMA PoolCounts ==
  ASSUME NEW S PROVE Pool!Cardinality(S) = Cardinality(S)
BY DEF Pool!Cardinality, Cardinality

\* One step of an operation.
LEMMA OpAtPool ==
  ASSUME IInv, NEW c \in Callers, OpStep(c)
  PROVE  \/ \E p \in Providers : Pool!Grant(c, p)
         \/ Pool!Return(c)
         \/ UNCHANGED Pool!vars
<1>1. /\ Moved(c) /\ Active(c) /\ op \in [Callers -> OpType] /\ OpHolds(c)
      /\ UNCHANGED callerVars
  BY OpStepFacts DEF IInv
<1>2. held' = [held EXCEPT ![c] = op'[c].lease]
  BY <1>1 DEF Moved, held
<1>3. UNCHANGED <<[p \in Providers |-> 0], TRUE>>
  OBVIOUS
<1>4. CASE op[c].at # "leased" /\ op'[c].at # "leased"
  <2>1. op[c].lease = None /\ op'[c].lease = None
    BY <1>1, <1>4 DEF Moved, OpHolds
  <2>2. held' = held
    BY <1>2, <2>1 DEF held
  <2>3. QED BY <1>3, <2>2 DEF Pool!vars
<1>5. CASE op[c].at = "leased"
  <2>1. op'[c].at # "leased"
    <3>1. Reply(c)
      BY <1>5 DEF OpStep, LookAgain, GuardStep, TakeSlot, Enqueue, WaitForSlot, Unqueue, Cancel,
         Acquire, GiveUpLease, Store, FallBack, ReleaseSlot, Land
    <3>2. PICK reply \in Replied : Judge(c, reply) /\ UNCHANGED <<callerVars, alive>>
      BY <3>1 DEF Reply, Replies, Replied
    <3>3. QED BY <1>5, <3>2, JudgeFacts
  <2>2. op'[c].lease = None /\ op[c].lease # None
    BY <1>1, <1>5, <2>1 DEF Moved, OpHolds
  <2>3. held' = [held EXCEPT ![c] = None] /\ held[c] # None
    BY <1>2, <2>2 DEF held
  <2>4. QED BY <1>3, <2>3 DEF Pool!Return
<1>6. CASE op[c].at # "leased" /\ op'[c].at = "leased"
  <2>1. Acquire(c)
    <3>1. ~(LookAgain(c) \/ GuardStep(c))
      BY <1>1, <1>6 DEF LookAgain, GuardStep, TakeSlot, Enqueue, WaitForSlot, Unqueue, At, OpType
    <3>2. ~(Store(c) \/ FallBack(c) \/ ReleaseSlot(c) \/ Land(c))
      BY <1>6, LastStepFacts, ReleaseFacts, LandFacts
    <3>3. ~Cancel(c)
      BY <1>1, <1>6 DEF Cancel, Fail, OpType
    <3>4. ~(GiveUpLease(c) \/ Reply(c))
      <4>1. ASSUME NEW reply \in Replied, Judge(c, reply), UNCHANGED <<callerVars, alive>>,
                   op[c].at \in {"member", "leased"}
            PROVE  FALSE
        BY <1>6, <4>1, JudgeFacts
      <4>2. QED BY <4>1 DEF GiveUpLease, Reply, Replies, Replied
    <3>5. QED BY <3>1, <3>2, <3>3, <3>4 DEF OpStep
  <2>2. /\ req[c] \in Requests[c] /\ op[c] \in OpType /\ Len(op[c].failed) < Len(Chain(c))
        /\ op[c].at = "member"
    BY <2>1, ActiveFacts DEF Acquire, IInv, OpTried
  <2>3. Member(c) \in Providers
    BY <2>2, MemberFacts
  <2>4. op'[c].lease = Member(c)
    BY <1>1, <2>1 DEF Acquire, OpType
  <2>5. held[c] = None
    BY <1>1, <2>2 DEF held, OpHolds
  <2>6. Pool!HoldersOf(Member(c)) = {d \in Callers : op[d].lease = Member(c)}
    BY DEF Pool!HoldersOf, held
  <2>7. Pool!Cardinality(Pool!HoldersOf(Member(c))) < Capacity[Member(c)]
    BY <2>1, <2>6, PoolCounts DEF Acquire
  <2>8. PICK p \in Providers : p = Member(c)
    BY <2>3
  <2>9. held' = [held EXCEPT ![c] = p]
    BY <1>2, <2>4, <2>8
  <2>10. Pool!Grant(c, p)
    BY <1>3, <2>5, <2>7, <2>8, <2>9 DEF Pool!Grant
  <2>11. QED BY <2>10
<1>7. QED BY <1>4, <1>5, <1>6

\* Steps that change no operation but to begin it are none of the pools' business.
LEMMA CallersAtPool ==
  ASSUME IInv, NEW c \in Callers, Join(c)
  PROVE  UNCHANGED Pool!vars
<1>1. op \in [Callers -> OpType]
  BY DEF IInv
<1>2. UNCHANGED op \/ op' = [op EXCEPT ![c].at = "looking"]
  BY JoinFacts
<1>3. ASSUME NEW d \in Callers PROVE op'[d].lease = op[d].lease
  <2>1. CASE UNCHANGED op
    BY <2>1
  <2>2. CASE op' = [op EXCEPT ![c].at = "looking"]
    <3>1. CASE d # c
      BY <1>1, <2>2, <3>1
    <3>2. CASE d = c
      <4>1. op'[c] = [op[c] EXCEPT !.at = "looking"] /\ op[c] \in OpType
        BY <1>1, <2>2
      <4>2. op'[c].lease = op[c].lease
        BY <4>1 DEF OpType
      <4>3. QED BY <3>2, <4>2
    <3>3. QED BY <3>1, <3>2
  <2>3. QED BY <1>2, <2>1, <2>2
<1>4. QED BY <1>3 DEF held, Pool!vars

\* The search service uses the pools of its providers as ProfilePool, by
\* LeasePool, says they are used.
THEOREM SearchesThroughPools == Spec => PoolsUsedRightly
<1> DEFINE Uses == \/ \E c \in Callers, p \in Providers : Pool!Grant(c, p)
                   \/ \E c \in Callers : Pool!Return(c)
<1>1. ASSUME UNCHANGED op PROVE UNCHANGED Pool!vars
  BY <1>1 DEF held, Pool!vars
<1>2. ASSUME IInv, [Next]_vars PROVE Uses \/ UNCHANGED Pool!vars
  <2>1. CASE UNCHANGED vars
    BY <1>1, <2>1 DEF vars
  <2>2. CASE Tick
    BY <1>1, <2>2 DEF Tick
  <2>3. ASSUME NEW c \in Callers, OpStep(c) PROVE Uses \/ UNCHANGED Pool!vars
    BY <1>2, <2>3, OpAtPool
  <2>4. ASSUME NEW c \in Callers, EndContext(c) PROVE UNCHANGED Pool!vars
    BY <1>1, <2>4 DEF EndContext
  <2>5. ASSUME NEW c \in Callers, CallerStep(c) PROVE UNCHANGED Pool!vars
    <3>1. CASE Join(c)
      BY <1>2, <3>1, CallersAtPool
    <3>2. CASE Submit(c) \/ Receive(c) \/ Abandon(c)
      BY <1>1, <3>2 DEF Submit, Receive, Abandon
    <3>3. QED BY <2>5, <3>1, <3>2 DEF CallerStep
  <2>6. QED BY <1>2, <2>1, <2>2, <2>3, <2>4, <2>5 DEF Next
<1>3. IInv /\ [Next]_vars => [Uses]_(Pool!vars)
  BY <1>2
<1>4. QED BY <1>3, InductiveInvariant, PTL DEF Spec, PoolsUsedRightly

-----------------------------------------------------------------------------
(* Termination.                                                            *)

\* Where an operation is on its way to the end.
Stage(place) ==
  CASE place = "looking" -> 9 [] place = "guard" -> 8 [] place = "queued" -> 7
    [] place = "unqueueing" -> 6 [] place = "member" -> 5 [] place = "leased" -> 4
    [] place \in {"storing", "failing"} -> 3 [] place = "releasing" -> 2
    [] place = "returning" -> 1 [] OTHER -> 0

\* The search itself is over.
Over(c) == op[c].at \in {"releasing", "returning"}

\* The members of the chain it may still try come first: to go from a lease to
\* the next member uses up one.
MembersToTry(c) == IF Over(c) THEN 0 ELSE Len(Chain(c)) - Len(op[c].failed)

Energy(c) == IF Active(c) THEN Stage(op[c].at) + 2 * MembersToTry(c) ELSE 0

\* Every step of an operation uses up some of what it has left, and no caller
\* that joins or leaves it, no other operation and no clock gives it more: each
\* member of the chain is tried once, and whatever they reply the operation
\* that all its callers wait for has a bounded number of steps
\* (app/search_service.go:84).
OperationsRunDown ==
  [][\A c \in Callers :
       Active(c) => /\ 0 <= Energy(c)' /\ Energy(c)' <= Energy(c)
                    /\ OpStep(c) => Energy(c)' < Energy(c)]_vars

\* What is left of the chain is never negative.
LEMMA MembersLeft ==
  ASSUME IInv, NEW c \in Callers, Active(c)
  PROVE  /\ Len(Chain(c)) \in Nat /\ Len(op[c].failed) \in Nat
         /\ MembersToTry(c) \in Nat
         /\ Stage(op[c].at) \in 1 .. 9
<1>1. op[c] \in OpType /\ req[c] \in Requests[c] /\ OpTried(c)
  BY ActiveFacts DEF Active, IInv
<1>2. Len(Chain(c)) \in Nat /\ Len(op[c].failed) \in Nat
  BY <1>1, RequestFacts DEF OpType
<1>3. Len(<<>>) = 0
  OBVIOUS
<1>4. Over(c) \/ Len(op[c].failed) <= Len(Chain(c))
  BY <1>1, <1>2, <1>3 DEF OpTried, OpType, Places, Active, Over
<1>5. MembersToTry(c) \in Nat
  BY <1>2, <1>4 DEF MembersToTry
<1>6. Stage(op[c].at) \in 1 .. 9
  BY <1>1 DEF Stage, OpType, Places, Active
<1>7. QED BY <1>2, <1>5, <1>6

\* Nearer the end, with as many members left or fewer.
LEMMA NearerIsLess ==
  ASSUME IInv, NEW c \in Callers, Active(c), ~Over(c), UNCHANGED callerVars,
         Len(op'[c].failed) \in Nat,
         \/ /\ Stage(op'[c].at) < Stage(op[c].at)
            /\ Over(c)' \/ Len(op[c].failed) <= Len(op'[c].failed)
         \/ /\ Stage(op'[c].at) < Stage(op[c].at) + 2
            /\ ~Over(c)' /\ Len(op[c].failed) < Len(op'[c].failed),
         op'[c] \in OpType
  PROVE  Energy(c)' < Energy(c)
<1> DEFINE chain == Len(Chain(c))
           m     == Len(op[c].failed)
           n     == Len(op'[c].failed)
           x     == Stage(op[c].at)
           y     == Stage(op'[c].at)
<1>1. chain \in Nat /\ m \in Nat /\ m <= chain /\ x \in 1 .. 9
  BY MembersLeft DEF MembersToTry
<1>2. Chain(c)' = Chain(c)
  BY DEF callerVars, Chain, Key
<1>3. Energy(c) = x + 2 * (chain - m)
  BY DEF Energy, MembersToTry
<1>4. y \in Nat
  BY DEF Stage
<1>5. CASE Over(c)'
  <2>1. Energy(c)' \in {0, y} /\ y < x
    BY <1>4, <1>5 DEF Energy, MembersToTry
  <2> HIDE DEF chain, m, n, x, y
  <2>2. QED BY <1>1, <1>3, <1>4, <2>1
<1>6. CASE ~Over(c)'
  <2>1. Energy(c)' \in {0, y + 2 * (chain - n)}
    BY <1>2, <1>6 DEF Energy, MembersToTry
  <2>2. n \in Nat /\ ((y < x /\ m <= n) \/ (y < x + 2 /\ m < n))
    BY <1>6
  <2> HIDE DEF chain, m, n, x, y
  <2>3. y + 2 * (chain - n) < x + 2 * (chain - m) /\ 0 < x + 2 * (chain - m)
    BY <1>1, <1>4, <2>2
  <2>4. QED BY <1>3, <2>1, <2>3
<1>7. QED BY <1>5, <1>6

\* A reply leads to the end, or to a later member.
LEMMA JudgeCosts ==
  ASSUME IInv, NEW c \in Callers, op[c].at \in {"member", "leased"},
         NEW reply \in Replied, Judge(c, reply), UNCHANGED <<callerVars, alive>>
  PROVE  Energy(c)' < Energy(c)
<1> DEFINE failed == Append(op[c].failed, reply)
<1>1. op[c] \in OpType /\ op \in [Callers -> OpType] /\ Active(c) /\ ~Over(c)
  BY ActiveFacts DEF IInv, Active, Over
<1>2. /\ Len(failed) = Len(op[c].failed) + 1 /\ Len(op[c].failed) \in Nat
      /\ failed \in Seq(Replied)
  BY <1>1 DEF OpType
<1>3. op'[c] \in OpType
  BY JudgeFacts DEF Moved
<1>4. CASE Succeed(c, reply)
  <2>1. op'[c].failed = op[c].failed /\ op'[c].at \in {"storing", "releasing"}
    BY <1>1, <1>4 DEF Succeed, OpType
  <2>2. QED BY <1>1, <1>2, <1>3, <2>1, NearerIsLess DEF Stage, Over
<1>5. CASE \E code : Fail(c, code, failed)
  <2> HIDE DEF failed
  <2>1. op'[c].failed = failed /\ op'[c].at = "failing"
    BY <1>1, <1>5 DEF Fail, OpType
  <2>2. QED BY <1>1, <1>2, <1>3, <2>1, NearerIsLess DEF Stage, Over
<1>6. CASE op' = [op EXCEPT ![c].at = "member", ![c].lease = None, ![c].failed = failed]
  <2> HIDE DEF failed
  <2>1. op'[c].failed = failed /\ op'[c].at = "member"
    BY <1>1, <1>6 DEF OpType
  <2>2. QED BY <1>1, <1>2, <1>3, <2>1, NearerIsLess DEF Stage, Over
<1>7. QED BY <1>4, <1>5, <1>6 DEF Judge

\* So does every other step.
LEMMA StepsCost ==
  ASSUME IInv, NEW c \in Callers, OpStep(c)
  PROVE  Energy(c)' < Energy(c)
<1>1. /\ Active(c) /\ op'[c] \in OpType /\ op[c] \in OpType /\ op \in [Callers -> OpType]
      /\ UNCHANGED <<callerVars, alive>>
  BY OpStepFacts DEF Moved, IInv
<1>2. Len(op[c].failed) \in Nat
  BY <1>1 DEF OpType
<1>3. ASSUME op'[c].failed = op[c].failed, Stage(op'[c].at) < Stage(op[c].at), ~Over(c)
      PROVE  Energy(c)' < Energy(c)
  BY <1>1, <1>2, <1>3, NearerIsLess
<1>4. CASE LookAgain(c)
  <2>1. op'[c].failed = op[c].failed /\ op'[c].at \in {"returning", "guard"}
    BY <1>1, <1>4 DEF LookAgain, At, OpType
  <2>2. QED BY <1>3, <1>4, <2>1 DEF LookAgain, Stage, Over
<1>5. CASE TakeSlot(c)
  <2>1. op'[c].failed = op[c].failed /\ op'[c].at = "member"
    BY <1>1, <1>5 DEF TakeSlot, OpType
  <2>2. QED BY <1>3, <1>5, <2>1 DEF TakeSlot, Stage, Over
<1>6. CASE Enqueue(c)
  <2>1. op'[c].failed = op[c].failed /\ op'[c].at \in {"queued", "unqueueing"}
    BY <1>1, <1>6 DEF Enqueue, OpType
  <2>2. QED BY <1>3, <1>6, <2>1 DEF Enqueue, Stage, Over
<1>7. CASE WaitForSlot(c)
  <2>1. op'[c].failed = op[c].failed /\ op'[c].at = "unqueueing"
    BY <1>1, <1>7 DEF WaitForSlot, OpType
  <2>2. QED BY <1>3, <1>7, <2>1 DEF WaitForSlot, Stage, Over
<1>8. CASE Unqueue(c)
  <2>1. op'[c].failed = op[c].failed /\ op'[c].at \in {"member", "returning"}
    BY <1>1, <1>8 DEF Unqueue, At, OpType
  <2>2. QED BY <1>3, <1>8, <2>1 DEF Unqueue, Stage, Over
<1>9. CASE Cancel(c)
  <2>1. op'[c].failed = op[c].failed /\ op'[c].at = "failing"
    BY <1>1, <1>9 DEF Cancel, Fail, OpType
  <2>2. QED BY <1>3, <1>9, <2>1 DEF Cancel, Stage, Over
<1>10. CASE Acquire(c)
  <2>1. op'[c].failed = op[c].failed /\ op'[c].at = "leased"
    BY <1>1, <1>10 DEF Acquire, OpType
  <2>2. QED BY <1>3, <1>10, <2>1 DEF Acquire, Stage, Over
<1>11. CASE GiveUpLease(c) \/ Reply(c)
  <2>1. op[c].at \in {"member", "leased"} /\ \E reply \in Replied : Judge(c, reply)
    BY <1>11 DEF GiveUpLease, Reply, Replies, Replied
  <2>2. QED BY <1>1, <2>1, JudgeCosts
<1>12. CASE Store(c) \/ FallBack(c)
  <2>1. op[c].at \in {"storing", "failing"} /\ op'[c].at = "releasing"
    BY <1>12, LastStepFacts
  <2>2. Len(op'[c].failed) \in Nat
    BY <1>1 DEF OpType
  <2>3. QED BY <1>1, <2>1, <2>2, NearerIsLess DEF Stage, Over
<1>13. CASE ReleaseSlot(c)
  <2>1. op[c].at = "releasing" /\ op'[c].at = "returning"
    BY <1>13, ReleaseFacts
  <2>2. Energy(c) = 2 /\ Energy(c)' = 1
    BY <2>1 DEF Energy, Active, MembersToTry, Over, Stage
  <2>3. QED BY <2>2
<1>14. CASE Land(c)
  <2>1. op'[c].at = "landed"
    BY <1>14, LandFacts
  <2>2. Energy(c)' = 0
    BY <2>1 DEF Energy, Active
  <2>3. QED BY <1>1, <2>2, MembersLeft DEF Energy
<1>15. QED
  BY <1>4, <1>5, <1>6, <1>7, <1>8, <1>9, <1>10, <1>11, <1>12, <1>13, <1>14
     DEF OpStep, GuardStep

\* What others do changes nothing for an operation under way.
LEMMA OthersCostNothing ==
  ASSUME IInv, NEW c \in Callers, Active(c), [Next]_vars, ~OpStep(c)
  PROVE  Energy(c)' = Energy(c)
<1>1. op \in [Callers -> OpType] /\ req \in [Callers -> [key : Keys, refresh : BOOLEAN, debug : BOOLEAN] \cup {None}]
  BY DEF IInv
<1>2. pc[c] \in {"waiting", "done"} /\ op[c].at # "none"
  BY ActiveFacts DEF Active
<1>3. ASSUME op'[c] = op[c], req'[c] = req[c] PROVE Energy(c)' = Energy(c)
  BY <1>3 DEF Energy, MembersToTry, Over, Active, Chain, Key
<1>4. CASE UNCHANGED vars
  BY <1>3, <1>4 DEF vars, callerVars
<1>5. CASE Tick
  BY <1>3, <1>5 DEF Tick, callerVars
<1>6. ASSUME NEW d \in Callers, EndContext(d) PROVE Energy(c)' = Energy(c)
  BY <1>3, <1>6 DEF EndContext, callerVars
<1>7. ASSUME NEW d \in Callers, OpStep(d) PROVE Energy(c)' = Energy(c)
  BY <1>3, <1>7, OpStepFacts DEF Moved, callerVars
<1>8. ASSUME NEW d \in Callers, Submit(d) PROVE Energy(c)' = Energy(c)
  <2>1. pc[d] = "idle" /\ UNCHANGED op /\ \E r : req' = [req EXCEPT ![d] = r]
    BY <1>8 DEF Submit
  <2>2. c # d
    BY <1>2, <2>1
  <2>3. QED BY <1>1, <1>3, <2>1, <2>2
<1>9. ASSUME NEW d \in Callers, Join(d) PROVE Energy(c)' = Energy(c)
  <2>1. /\ op[d].at = "none" /\ UNCHANGED req
        /\ UNCHANGED op \/ op' = [op EXCEPT ![d].at = "looking"]
    BY <1>9, JoinFacts
  <2>2. c # d
    BY <1>2, <2>1
  <2>3. QED BY <1>1, <1>3, <2>1, <2>2
<1>10. ASSUME NEW d \in Callers, Receive(d) \/ Abandon(d) PROVE Energy(c)' = Energy(c)
  BY <1>3, <1>10 DEF Receive, Abandon
<1>11. QED BY <1>4, <1>5, <1>6, <1>7, <1>8, <1>9, <1>10 DEF Next, CallerStep

\* No operation runs for ever: it makes at most as many steps as its energy says
\* when it begins (app/search_service.go:84).
THEOREM OperationsEnd == Spec => OperationsRunDown
<1> DEFINE Down == \A c \in Callers :
                     Active(c) => /\ 0 <= Energy(c)' /\ Energy(c)' <= Energy(c)
                                  /\ OpStep(c) => Energy(c)' < Energy(c)
<1>1. ASSUME IInv, NEW c \in Callers PROVE Energy(c) \in Nat
  <2>1. CASE Active(c)
    <3> DEFINE left == MembersToTry(c)
    <3>1. left \in Nat /\ Stage(op[c].at) \in Nat
      BY <1>1, <2>1, MembersLeft
    <3>2. Energy(c) = Stage(op[c].at) + 2 * left
      BY <2>1 DEF Energy
    <3> HIDE DEF left
    <3>3. QED BY <3>1, <3>2
  <2>2. CASE ~Active(c)
    BY <2>2 DEF Energy
  <2>3. QED BY <2>1, <2>2
<1>2. IInv => \A c \in Callers : Energy(c) \in Nat
  BY <1>1
<1>3. IInv' => (\A c \in Callers : Energy(c) \in Nat)'
  BY <1>2, PTL
<1>4. ASSUME IInv, IInv', Next PROVE Down
  <2> SUFFICES ASSUME NEW c \in Callers, Active(c)
               PROVE  /\ 0 <= Energy(c)' /\ Energy(c)' <= Energy(c)
                      /\ OpStep(c) => Energy(c)' < Energy(c)
    OBVIOUS
  <2>1. Energy(c) \in Nat /\ Energy(c)' \in Nat
    BY <1>2, <1>3, <1>4
  <2>2. CASE OpStep(c)
    BY <1>4, <2>1, <2>2, StepsCost
  <2>3. CASE ~OpStep(c)
    BY <1>4, <2>1, <2>3, OthersCostNothing
  <2>4. QED BY <2>2, <2>3
<1>5. IInv /\ IInv' /\ [Next]_vars => [Down]_vars
  BY <1>4
<1>6. QED BY <1>5, InductiveInvariant, PTL DEF Spec, OperationsRunDown
=============================================================================
