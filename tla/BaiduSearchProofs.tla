------------------------- MODULE BaiduSearchProofs -------------------------
(***************************************************************************)
(* Theorems about BaiduSearch for every set of searches and pages, every   *)
(* list of strategies, and all intervals, cooldowns, deadlines and limits. *)
(***************************************************************************)
EXTENDS BaiduSearch, FiniteSetTheorems, TLAPS

-----------------------------------------------------------------------------
(* The inductive invariant.                                                *)

\* By its place, which step a search is at and what its attempts came to: it
\* goes on after a risk never.
Local(o) ==
  /\ o.at = "done" <=> o.outcome # None
  /\ o.at \in InPool => o.step > 1
  /\ o.at \notin InPool => o.step = 1
  /\ o.at # "done" => o.tried \cap Risks = {}
  /\ o.at = "done" =>
       /\ \E class \in Telling : o.tried \subseteq {class}
       /\ o.outcome = "captcha_required" <=> "captcha" \in o.tried
       /\ o.outcome = "rate_limited" <=> "rate_limited" \in o.tried

\* A session that cools is nobody's, and cools for as long as it must be quiet;
\* any other has been quiet long enough.
SessionShape ==
  /\ session.lastFinished = history.ended
  /\ session.state = "cooling" => gate = None /\ session.blockedUntil = history.quiet
  /\ session.state # "cooling" => history.quiet <= now
  /\ gate # None => session.client

\* When the request of a search in the session goes out, or went out.
Paced(s) ==
  /\ op[s].at = "sleeping" /\ history.ended # None => op[s].until >= history.ended + MinInterval
  /\ op[s].at \in {"bootstrapping", "asking"} =>
       /\ history.ended # None => op[s].until - RequestTimeout >= history.ended + MinInterval
       /\ op[s].until - RequestTimeout >= history.quiet

IInv ==
  /\ TypeOK
  /\ \A s \in Searches : Local(op[s]) /\ Paced(s)
  /\ NothingLeftBehind
  /\ SessionShape

-----------------------------------------------------------------------------
(* Values.                                                                 *)

Classes == Telling \cup {"normal", "empty", "network_error"}

\* The constants, one by one.
LEMMA ConstantFacts ==
  /\ IsFiniteSet(Searches) /\ None \notin Searches
  /\ Len(Steps) \in Nat /\ Len(Steps) > 1 /\ DOMAIN Steps = 1 .. Len(Steps)
  /\ MinInterval \in Nat \ {0} /\ RequestTimeout \in Nat \ {0}
  /\ CaptchaCooldown \in Nat \ {0} /\ RateLimitCooldown \in Nat \ {0}
  /\ MaxJitter \in Nat /\ FallbackReserve \in Nat /\ CaptchaTrip \in Nat /\ RateLimitTrip \in Nat
  /\ MaxTabs \in Nat \ {0} /\ Latest \in Nat /\ MaxTime \in Nat
  /\ \A b \in Budgets : b \in Nat
BY ConstantsOK

\* Every page is classified, and a risk is worth reporting.
LEMMA ClassFacts ==
  /\ \A page : Classify(page) \in Classes
  /\ Risks \subseteq Telling /\ Telling \subseteq Classes
BY DEF Classify, Classes, Telling, Risks

\* A search that is over, field by field.
LEMMA DoneFacts ==
  ASSUME NEW tried, NEW outcome
  PROVE  Done(tried, outcome) \in [at : {"done"}, step : {1}, deadline : {0}, until : {0},
                                   tried : {tried}, outcome : {outcome}]
<1>1. Idle \in [at : {"idle"}, step : {1}, deadline : {0}, until : {0}, tried : {{}},
                outcome : {None}]
  BY DEF Idle
<1>2. QED BY <1>1 DEF Done

\* A failed search names the risk it met, if it met one.
LEMMA FailedFacts ==
  ASSUME NEW tried \in SUBSET Telling, NEW class \in Telling, tried \cap Risks \subseteq {class}
  PROVE  Failed(tried) \in OpType /\ Local(Failed(tried)) /\ Failed(tried).at = "done"
<1> DEFINE o == Failed(tried)
<1>1. BuildSearchError(tried) \in Outcomes
  BY DEF BuildSearchError, Outcomes
<1>2. o \in [at : {"done"}, step : {1}, deadline : {0}, until : {0},
             tried : {tried \cap Risks}, outcome : {BuildSearchError(tried)}]
  BY DoneFacts DEF Failed
<1>3. 1 \in DOMAIN Steps
  BY ConstantFacts
<1>4. o \in OpType /\ o.at = "done" /\ o.step = 1 /\ o.outcome # None
  BY <1>1, <1>2, <1>3, NoneIsNothing DEF OpType, Places
<1>5. o.tried \subseteq {class}
  BY <1>2
<1>6. /\ o.outcome = "captcha_required" <=> "captcha" \in o.tried
      /\ o.outcome = "rate_limited" <=> "rate_limited" \in o.tried
  <2>1. ~("captcha" \in tried /\ "rate_limited" \in tried)
    BY DEF Risks
  <2>2. QED BY <1>2, <2>1 DEF BuildSearchError, Risks
<1>7. QED BY <1>4, <1>5, <1>6 DEF Local, InPool

\* The next step, or the end, after failures without a risk.
LEMMA NextStepFacts ==
  ASSUME NEW o \in OpType, Local(o), o.at # "done",
         NEW tried \in SUBSET Telling, tried \cap Risks = {}
  PROVE  /\ NextStep(o, tried) \in OpType /\ Local(NextStep(o, tried))
         /\ NextStep(o, tried).at \in {"choosing", "done"}
<1>1. CASE o.step = Len(Steps)
  BY <1>1, FailedFacts DEF NextStep, Telling
<1>2. CASE o.step # Len(Steps)
  <2> DEFINE new == [o EXCEPT !.at = "choosing", !.step = @ + 1, !.until = 0, !.tried = tried]
  <2>1. o.step \in 1 .. Len(Steps) /\ o.outcome = None
    BY ConstantFacts DEF OpType, Local
  <2>2. o.step + 1 \in DOMAIN Steps /\ o.step + 1 > 1
    BY <1>2, <2>1, ConstantFacts
  <2>3. new \in OpType /\ new.at = "choosing" /\ new.step > 1 /\ new.outcome = None /\ new.tried = tried
    BY <2>1, <2>2 DEF OpType, Places, InPool
  <2>4. NextStep(o, tried) = new
    BY <1>2 DEF NextStep
  <2> HIDE DEF new
  <2>5. QED BY <2>3, <2>4 DEF Local, InPool
<1>3. QED BY <1>1, <1>2

\* A failed attempt.
LEMMA AttemptedFacts ==
  ASSUME NEW o \in OpType, Local(o), o.at # "done", NEW class \in Classes
  PROVE  /\ Attempted(o, class) \in OpType /\ Local(Attempted(o, class))
         /\ Attempted(o, class).at \in {"choosing", "done"}
<1> DEFINE tried == o.tried \cup ({class} \cap Telling)
<1>1. tried \in SUBSET Telling /\ o.tried \cap Risks = {}
  BY DEF OpType, Local
<1>2. CASE Allows(class)
  <2>1. tried \cap Risks = {}
    BY <1>1, <1>2 DEF Allows, Risks
  <2>2. Attempted(o, class) = NextStep(o, tried)
    BY <1>2 DEF Attempted
  <2>3. QED BY <1>1, <2>1, <2>2, NextStepFacts
<1>3. CASE ~Allows(class)
  <2>1. Attempted(o, class) = Failed(tried)
    BY <1>3 DEF Attempted
  <2>2. PICK t \in Telling : tried \cap Risks \subseteq {t}
    <3>1. "timeout" \in Telling
      BY DEF Telling
    <3>2. CASE class \in Telling
      BY <1>1, <3>2
    <3>3. CASE class \notin Telling
      BY <1>1, <3>1, <3>3
    <3>4. QED BY <3>2, <3>3
  <2> HIDE DEF tried
  <2>3. QED BY <1>1, <2>1, <2>2, FailedFacts
<1>4. QED BY <1>2, <1>3

\* Results.
LEMMA AnsweredFacts ==
  LET o == Done({}, "results") IN o \in OpType /\ Local(o) /\ o.at = "done"
<1> DEFINE o == Done({}, "results")
<1>1. o \in [at : {"done"}, step : {1}, deadline : {0}, until : {0}, tried : {{}},
             outcome : {"results"}]
  BY DoneFacts
<1>2. 1 \in DOMAIN Steps /\ "timeout" \in Telling /\ {} \subseteq {"timeout"} /\ None # "results"
  BY ConstantFacts, NoneIsNothing DEF Telling, Outcomes
<1>3. QED BY <1>1, <1>2 DEF OpType, Places, Outcomes, Local, InPool

\* A search in another place, with another end of a sleep and of its time.
Moved(o, place, until, deadline) ==
  [o EXCEPT !.at = place, !.until = until, !.deadline = deadline]

\* A search moves to another place of the same kind with all it has.
LEMMA MovedFacts ==
  ASSUME NEW o \in OpType, Local(o), NEW place \in Places \ {"done"}, o.at # "done",
         place \in InPool <=> o.at \in InPool, NEW until \in Nat, NEW deadline \in Nat
  PROVE  /\ Moved(o, place, until, deadline) \in OpType
         /\ Local(Moved(o, place, until, deadline))
         /\ Moved(o, place, until, deadline).at = place
         /\ Moved(o, place, until, deadline).until = until
         /\ Moved(o, place, until, deadline).step = o.step
<1> DEFINE new == Moved(o, place, until, deadline)
<1>1. /\ new \in OpType /\ new.at = place /\ new.until = until /\ new.step = o.step
      /\ new.tried = o.tried /\ new.outcome = o.outcome
  BY DEF OpType, Moved
<1> HIDE DEF new
<1>2. Local(new)
  BY <1>1 DEF Local
<1>3. QED BY <1>1, <1>2 DEF new

-----------------------------------------------------------------------------
(* A step of one search, and what it holds.                                *)

\* The search is moved, to a state that fits its place.
Move(s, new) == op' = [op EXCEPT ![s] = new] /\ new \in OpType /\ Local(new)

\* The search goes on with the header pool, or ends.
Leaves(s) == \E new : Move(s, new) /\ new.at \in {"choosing", "done"}

\* The gate, the tabs and the mutex follow the search to its new place.
HoldsFollow(s, new) ==
  /\ gate' = IF InSession(new) THEN s ELSE IF gate = s THEN None ELSE gate
  /\ InSession(new) => gate \in {None, s}
  /\ tabs' = IF InTab(new) THEN tabs \cup {s} ELSE tabs \ {s}
  /\ InTab(new) /\ s \notin tabs => Cardinality(tabs) < MaxTabs
  /\ starting' = IF new.at = "starting" THEN s ELSE IF starting = s THEN None ELSE starting
  /\ new.at = "starting" => starting \in {None, s}

\* The same for a search that leaves.
Released(s) ==
  /\ gate' = IF gate = s THEN None ELSE gate
  /\ tabs' = tabs \ {s}
  /\ starting' = IF starting = s THEN None ELSE starting

\* One search in a state of the invariant.
LEMMA SearchFacts ==
  ASSUME IInv, NEW s \in Searches
  PROVE  /\ op[s] \in OpType /\ Local(op[s]) /\ Paced(s)
         /\ gate = s <=> InSession(op[s])
         /\ s \in tabs <=> InTab(op[s])
         /\ starting = s <=> op[s].at = "starting"
         /\ tabs \subseteq Searches /\ IsFiniteSet(tabs) /\ s # None
         /\ Cardinality(tabs) \in Nat /\ Cardinality(tabs) <= MaxTabs
<1>1. tabs \subseteq Searches
  BY DEF IInv, TypeOK
<1>2. IsFiniteSet(tabs)
  BY <1>1, ConstantFacts, FS_Subset
<1>3. Cardinality(tabs) \in Nat
  BY <1>2, FS_CardinalityType
<1>4. op[s] \in OpType
  BY DEF IInv, TypeOK
<1>5. s # None
  BY ConstantFacts
<1>6. QED BY <1>1, <1>2, <1>3, <1>4, <1>5 DEF IInv, NothingLeftBehind

\* A move touches one search.
LEMMA MoveFacts ==
  ASSUME IInv, NEW s \in Searches, NEW new, Move(s, new)
  PROVE  /\ op' \in [Searches -> OpType] /\ op'[s] = new
         /\ \A r \in Searches : r # s => op'[r] = op[r]
         /\ \A r \in Searches : Local(op'[r])
<1>1. op \in [Searches -> OpType] /\ \A r \in Searches : Local(op[r])
  BY DEF IInv, TypeOK
<1>2. /\ op' \in [Searches -> OpType] /\ op'[s] = new
      /\ \A r \in Searches : r # s => op'[r] = op[r]
  BY <1>1 DEF Move
<1>3. QED BY <1>1, <1>2 DEF Move

\* Whoever holds a thing is where it needs it, after the move as before it.
LEMMA HoldsStay ==
  ASSUME IInv, NEW s \in Searches, NEW new, Move(s, new), HoldsFollow(s, new)
  PROVE  /\ NothingLeftBehind'
         /\ gate' \in Searches \cup {None} /\ starting' \in Searches \cup {None}
         /\ tabs' \subseteq Searches
<1>1. /\ op'[s] = new
      /\ \A r \in Searches : r # s => op'[r] = op[r]
  BY MoveFacts
<1>2. \A r \in Searches : r # None /\ (gate = r <=> InSession(op[r]))
          /\ (r \in tabs <=> InTab(op[r])) /\ (starting = r <=> op[r].at = "starting")
  BY SearchFacts
<1>3. gate \in Searches \cup {None} /\ starting \in Searches \cup {None} /\ tabs \subseteq Searches
  BY DEF IInv, TypeOK
<1>4. \A r \in Searches : gate' = r <=> InSession(op'[r])
  BY <1>1, <1>2 DEF HoldsFollow
<1>5. \A r \in Searches : starting' = r <=> op'[r].at = "starting"
  BY <1>1, <1>2 DEF HoldsFollow
<1>6. \A r \in Searches : r \in tabs' <=> InTab(op'[r])
  BY <1>1, <1>2 DEF HoldsFollow
<1>7. /\ tabs' \subseteq Searches
      /\ gate' \in Searches \cup {None} /\ starting' \in Searches \cup {None}
  BY <1>3 DEF HoldsFollow
<1>8. Cardinality(tabs') <= MaxTabs
  <2>1. IsFiniteSet(tabs) /\ Cardinality(tabs) \in Nat /\ Cardinality(tabs) <= MaxTabs
        /\ MaxTabs \in Nat
    BY SearchFacts, ConstantFacts
  <2>2. CASE InTab(new)
    <3>1. tabs' = tabs \cup {s} /\ (s \notin tabs => Cardinality(tabs) < MaxTabs)
      BY <2>2 DEF HoldsFollow
    <3>2. Cardinality(tabs \cup {s}) = IF s \in tabs THEN Cardinality(tabs) ELSE Cardinality(tabs) + 1
      BY <2>1, FS_AddElement
    <3>3. QED BY <2>1, <3>1, <3>2
  <2>3. CASE ~InTab(new)
    <3>1. tabs' = tabs \ {s}
      BY <2>3 DEF HoldsFollow
    <3>2. Cardinality(tabs \ {s}) = IF s \in tabs THEN Cardinality(tabs) - 1 ELSE Cardinality(tabs)
      BY <2>1, FS_RemoveElement
    <3>3. QED BY <2>1, <3>1, <3>2
  <2>4. QED BY <2>2, <2>3
<1>9. QED BY <1>4, <1>5, <1>6, <1>7, <1>8 DEF NothingLeftBehind

\* A step of one search keeps the invariant, if what it holds follows it and
\* the session, when it changes, is the search's own.
LEMMA StepInv ==
  ASSUME IInv, NEW s \in Searches, NEW new, Move(s, new), HoldsFollow(s, new),
         now' = now, openUntil' \in [HeaderPool -> Nat], browserReady' \in BOOLEAN,
         history' = history \/ gate \in {None, s},
         session' \in SessionType, history' \in [ended : Nat \cup {None}, quiet : Nat],
         session'.state = "warm" => session'.client,
         session'.state = "cooling" <=> session'.blockedBy \in Risks,
         SessionShape', Paced(s)'
  PROVE  IInv'
<1>1. NothingLeftBehind' /\ gate' \in Searches \cup {None} /\ starting' \in Searches \cup {None}
      /\ tabs' \subseteq Searches
  BY HoldsStay
<1>2. /\ op' \in [Searches -> OpType]
      /\ \A r \in Searches : r # s => op'[r] = op[r]
      /\ \A r \in Searches : Local(op'[r])
  BY MoveFacts
<1>3. \A r \in Searches : op'[r].at = "done" <=> op'[r].outcome # None
  BY <1>2 DEF Local
<1>4. now' \in 0 .. MaxTime
  BY DEF IInv, TypeOK
<1>5. ASSUME NEW r \in Searches, r # s PROVE Paced(r)'
  <2>1. op'[r] = op[r] /\ Paced(r) /\ op[r] \in OpType /\ Local(op[r]) /\ (gate = r <=> InSession(op[r]))
        /\ r # None
    BY <1>2, <1>5, SearchFacts
  <2>2. CASE history' = history
    BY <2>1, <2>2 DEF Paced
  <2>3. CASE gate \in {None, s}
    <3>1. ~InSession(op[r])
      BY <1>5, <2>1, <2>3
    <3>2. op[r].at \notin {"sleeping", "bootstrapping", "asking"}
      BY <2>1, <3>1 DEF InSession, Sleepy, Local, InPool
    <3>3. QED BY <2>1, <3>2 DEF Paced
  <2>4. QED BY <2>2, <2>3
<1>6. TypeOK'
  BY <1>1, <1>2, <1>3, <1>4 DEF TypeOK
<1>7. QED BY <1>1, <1>2, <1>5, <1>6 DEF IInv

\* A search outside the session moves on.
LEMMA OutsideInv ==
  ASSUME IInv, NEW s \in Searches, NEW new, Move(s, new), HoldsFollow(s, new),
         new.at \notin Sleepy \cup {"bootstrapping"},
         UNCHANGED <<now, session, history>>,
         openUntil' \in [HeaderPool -> Nat], browserReady' \in BOOLEAN
  PROVE  IInv'
<1>1. op'[s] = new
  BY MoveFacts
<1>2. Paced(s)'
  BY <1>1 DEF Paced, Sleepy
<1>3. gate' \in {gate, None}
  BY DEF HoldsFollow, InSession
<1>4. SessionShape'
  BY <1>3 DEF SessionShape, IInv
<1>5. QED BY <1>2, <1>4, StepInv DEF IInv, TypeOK

\* A search leaves and gives back what it held.
LEMMA LeavesInv ==
  ASSUME IInv, NEW s \in Searches, Leaves(s), Released(s),
         UNCHANGED <<now, session, history>>,
         openUntil' \in [HeaderPool -> Nat], browserReady' \in BOOLEAN
  PROVE  IInv'
<1>1. PICK new : Move(s, new) /\ new.at \in {"choosing", "done"}
  BY DEF Leaves
<1>2. HoldsFollow(s, new) /\ new.at \notin Sleepy \cup {"bootstrapping"}
  BY <1>1 DEF HoldsFollow, Released, InSession, InTab, Sleepy
<1>3. QED BY <1>1, <1>2, OutsideInv

-----------------------------------------------------------------------------
(* The steps outside the session.                                          *)

\* An attempt that fails, or results, and the search leaves.
LEMMA ConcludeLeaves ==
  ASSUME IInv, NEW s \in Searches, op[s].at # "done",
         \/ Answer(s)
         \/ \E class \in Classes : Conclude(s, class)
  PROVE  Leaves(s)
<1>1. op[s] \in OpType /\ Local(op[s])
  BY SearchFacts
<1>2. CASE Answer(s)
  BY <1>2, AnsweredFacts DEF Answer, Move, Leaves
<1>3. ASSUME NEW class \in Classes, Conclude(s, class) PROVE Leaves(s)
  <2>1. op' = [op EXCEPT ![s] = Attempted(op[s], class)]
    BY <1>3 DEF Conclude
  <2>2. QED BY <1>1, <2>1, AttemptedFacts, op[s].at # "done" DEF Move, Leaves
<1>4. QED BY <1>2, <1>3

\* A search that goes to another place of the header pool, or stays out of it.
LEMMA GotoMoves ==
  ASSUME IInv, NEW s \in Searches, NEW place \in Places \ {"done"}, op[s].at # "done",
         place \in InPool <=> op[s].at \in InPool, Goto(s, place)
  PROVE  \E new : Move(s, new) /\ new.at = place /\ new.step = op[s].step
<1>1. op[s] \in OpType /\ Local(op[s]) /\ op[s].until \in Nat /\ op[s].deadline \in Nat
  BY SearchFacts DEF OpType
<1> DEFINE new == Moved(op[s], place, op[s].until, op[s].deadline)
<1>2. new \in OpType /\ Local(new) /\ new.at = place /\ new.step = op[s].step
  BY <1>1, MovedFacts, op[s].at # "done"
<1>3. op \in [Searches -> OpType]
  BY DEF IInv, TypeOK
<1>4. op' = [op EXCEPT ![s] = new]
  BY <1>1, <1>3 DEF Goto, OpType, Moved
<1> HIDE DEF new
<1>5. QED BY <1>2, <1>4 DEF Move

\* What a page does to the search and to the breaker.
LEMMA JudgeFacts ==
  ASSUME IInv, NEW s \in Searches, op[s].at # "done", NEW page, Judge(s, page)
  PROVE  Leaves(s) /\ openUntil' \in [HeaderPool -> Nat]
<1>1. Leaves(s)
  <2>1. Classify(Seen(Steps[op[s].step], page)) \in Classes /\ "parse_changed" \in Classes
    BY ClassFacts DEF Classes, Telling
  <2>2. QED BY <2>1, ConcludeLeaves, op[s].at # "done" DEF Judge
<1>2. openUntil' \in [HeaderPool -> Nat]
  <2>1. \A class : Trip(class) => openUntil' \in [HeaderPool -> Nat]
    <3>1. openUntil \in [HeaderPool -> Nat] /\ now \in Nat /\ now + CaptchaTrip \in Nat
          /\ now + RateLimitTrip \in Nat
      BY ConstantFacts DEF IInv, TypeOK
    <3>2. QED BY <3>1 DEF Trip
  <2>2. QED BY <2>1 DEF Judge
<1>3. QED BY <1>1, <1>2

\* A search that holds nothing has nothing to release.
LEMMA HoldsNothing ==
  ASSUME IInv, NEW s \in Searches, ~InSession(op[s]), ~InTab(op[s]),
         UNCHANGED <<gate, tabs, starting>>
  PROVE  Released(s)
<1>1. gate # s /\ s \notin tabs /\ starting # s
  BY SearchFacts DEF InTab
<1>2. QED BY <1>1 DEF Released

\* The steps that end an attempt: the breaker is open, a wait that cannot
\* end, a timeout, a page or an error.
LEMMA AttemptEndsInv ==
  ASSUME IInv, NEW s \in Searches,
         \/ WaitFails(s) \/ GateTimesOut(s) \/ FetchReply(s) \/ FetchError(s)
         \/ SlotTimesOut(s) \/ Rendered(s) \/ RenderError(s)
  PROVE  IInv'
<1>0. /\ openUntil \in [HeaderPool -> Nat] /\ browserReady \in BOOLEAN
      /\ op[s] \in OpType /\ Local(op[s])
      /\ "timeout" \in Classes /\ "network_error" \in Classes
  BY SearchFacts DEF IInv, TypeOK, Classes, Telling
<1>1. CASE WaitFails(s)
  <2>1. /\ op[s].tried \cup {"timeout"} \in SUBSET Telling
        /\ (op[s].tried \cup {"timeout"}) \cap Risks \subseteq {"timeout"} /\ "timeout" \in Telling
    BY <1>0, <1>1 DEF WaitFails, Local, OpType, Telling, Risks
  <2>2. Failed(op[s].tried \cup {"timeout"}) \in OpType
        /\ Local(Failed(op[s].tried \cup {"timeout"}))
        /\ Failed(op[s].tried \cup {"timeout"}).at = "done"
    BY <2>1, FailedFacts
  <2>3. op' = [op EXCEPT ![s] = Failed(op[s].tried \cup {"timeout"})]
    BY <1>1 DEF WaitFails
  <2>4. Leaves(s)
    BY <2>2, <2>3 DEF Leaves, Move
  <2>5. Released(s)
    BY <1>1, HoldsNothing DEF WaitFails, InSession, InTab, Sleepy, browserVars
  <2>6. QED BY <1>0, <1>1, <2>4, <2>5, LeavesInv DEF WaitFails, browserVars
<1>2. CASE GateTimesOut(s) \/ SlotTimesOut(s)
  <2>1. op[s].at \in {"gate", "slot"} /\ Conclude(s, "timeout")
        /\ UNCHANGED <<now, session, gate, openUntil, browserVars, history>>
    BY <1>2 DEF GateTimesOut, SlotTimesOut
  <2>2. Leaves(s)
    BY <1>0, <2>1, ConcludeLeaves
  <2>3. Released(s)
    BY <2>1, HoldsNothing DEF InSession, InTab, Sleepy, browserVars
  <2>4. QED BY <1>0, <2>1, <2>2, <2>3, LeavesInv DEF browserVars
<1>3. CASE FetchReply(s)
  <2>1. op[s].at = "fetching" /\ (\E page \in Pages : Judge(s, page))
        /\ UNCHANGED <<now, session, gate, browserVars, history>>
    BY <1>3 DEF FetchReply
  <2>2. Leaves(s) /\ openUntil' \in [HeaderPool -> Nat]
    BY <2>1, JudgeFacts
  <2>3. Released(s)
    BY <2>1, HoldsNothing DEF InSession, InTab, Sleepy, browserVars
  <2>4. QED BY <1>0, <2>1, <2>2, <2>3, LeavesInv DEF browserVars
<1>4. CASE FetchError(s)
  <2>1. op[s].at = "fetching" /\ (\E class \in Classes : Conclude(s, class))
        /\ UNCHANGED <<now, session, gate, openUntil, browserVars, history>>
    BY <1>0, <1>4 DEF FetchError
  <2>2. Leaves(s)
    BY <2>1, ConcludeLeaves
  <2>3. Released(s)
    BY <2>1, HoldsNothing DEF InSession, InTab, Sleepy, browserVars
  <2>4. QED BY <1>0, <2>1, <2>2, <2>3, LeavesInv DEF browserVars
<1>5. CASE Rendered(s) \/ RenderError(s)
  <2>1. /\ op[s].at = "rendering" /\ tabs' = tabs \ {s}
        /\ UNCHANGED <<now, session, gate, starting, browserReady, history>>
        /\ \/ \E page \in Pages : Judge(s, page)
           \/ (\E class \in Classes : Conclude(s, class)) /\ openUntil' = openUntil
    BY <1>0, <1>5 DEF Rendered, RenderError
  <2>2. Leaves(s) /\ openUntil' \in [HeaderPool -> Nat]
    BY <1>0, <2>1, JudgeFacts, ConcludeLeaves
  <2>3. gate # s /\ starting # s
    BY <2>1, SearchFacts DEF InSession, Sleepy
  <2>4. Released(s)
    BY <2>1, <2>3 DEF Released
  <2>5. QED BY <1>0, <2>1, <2>2, <2>4, LeavesInv
<1>6. QED BY <1>1, <1>2, <1>3, <1>4, <1>5

\* The steps of the header pool that are not the end of an attempt.
LEMMA PoolInv ==
  ASSUME IInv, NEW s \in Searches,
         TryHeaderPool(s) \/ Waited(s) \/ TakeTab(s) \/ EnsureBrowser(s) \/ BrowserStarts(s)
  PROVE  IInv'
<1>0. /\ openUntil \in [HeaderPool -> Nat] /\ browserReady \in BOOLEAN
      /\ op[s] \in OpType /\ Local(op[s])
      /\ "timeout" \in Classes /\ "network_error" \in Classes
      /\ gate = s <=> InSession(op[s])
      /\ s \in tabs <=> InTab(op[s])
      /\ starting = s <=> op[s].at = "starting"
  BY SearchFacts DEF IInv, TypeOK, Classes, Telling
<1>1. CASE TryHeaderPool(s)
  <2>1. op[s].at = "choosing" /\ UNCHANGED <<now, session, gate, openUntil, browserVars, history>>
    BY <1>1 DEF TryHeaderPool
  <2>2. CASE op' = [op EXCEPT ![s] = NextStep(@, @.tried)]
    <3>1. op[s].tried \in SUBSET Telling /\ op[s].tried \cap Risks = {}
      BY <1>0, <2>1 DEF OpType, Local
    <3>2. Leaves(s)
      BY <1>0, <2>1, <2>2, <3>1, NextStepFacts DEF Leaves, Move
    <3>3. Released(s)
      BY <2>1, HoldsNothing DEF InSession, InTab, Sleepy, browserVars
    <3>4. QED BY <1>0, <2>1, <3>2, <3>3, LeavesInv DEF browserVars
  <2>3. CASE Goto(s, "waiting")
    <3>1. PICK new : Move(s, new) /\ new.at = "waiting"
      BY <2>1, <2>3, GotoMoves DEF Places, InPool, Sleepy
    <3>2. HoldsFollow(s, new)
      BY <1>0, <2>1, <3>1 DEF HoldsFollow, InSession, InTab, Sleepy, browserVars
    <3>3. QED BY <1>0, <2>1, <3>1, <3>2, OutsideInv DEF browserVars, Sleepy
  <2>4. QED BY <1>1, <2>2, <2>3 DEF TryHeaderPool
<1>2. CASE Waited(s)
  <2>1. op[s].at = "waiting" /\ UNCHANGED <<now, session, gate, openUntil, browserVars, history>>
        /\ (Goto(s, "slot") \/ Goto(s, "fetching"))
    BY <1>2 DEF Waited
  <2>2. PICK new : Move(s, new) /\ new.at \in {"slot", "fetching"}
    BY <2>1, GotoMoves DEF Places, InPool, Sleepy
  <2>3. HoldsFollow(s, new)
    BY <1>0, <2>1, <2>2 DEF HoldsFollow, InSession, InTab, Sleepy, browserVars
  <2>4. QED BY <1>0, <2>1, <2>2, <2>3, OutsideInv DEF browserVars, Sleepy
<1>3. CASE TakeTab(s)
  <2>1. op[s].at = "slot" /\ UNCHANGED <<now, session, gate, openUntil, starting, browserReady, history>>
        /\ Cardinality(tabs) < MaxTabs
    BY <1>3 DEF TakeTab
  <2>2. CASE Conclude(s, "timeout") /\ UNCHANGED tabs
    <3>1. Leaves(s)
      BY <1>0, <2>1, <2>2, ConcludeLeaves
    <3>2. Released(s)
      BY <2>1, <2>2, HoldsNothing DEF InSession, InTab, Sleepy
    <3>3. QED BY <1>0, <2>1, <3>1, <3>2, LeavesInv
  <2>3. CASE Goto(s, "browser") /\ tabs' = tabs \cup {s}
    <3>1. PICK new : Move(s, new) /\ new.at = "browser"
      BY <2>1, <2>3, GotoMoves DEF Places, InPool, Sleepy
    <3>2. HoldsFollow(s, new)
      BY <1>0, <2>1, <2>3, <3>1 DEF HoldsFollow, InSession, InTab, Sleepy
    <3>3. QED BY <1>0, <2>1, <3>1, <3>2, OutsideInv DEF Sleepy
  <2>4. QED BY <1>3, <2>2, <2>3 DEF TakeTab
<1>4. CASE EnsureBrowser(s)
  <2>1. op[s].at = "browser" /\ UNCHANGED <<now, session, gate, openUntil, tabs, browserReady, history>>
        /\ starting = None
        /\ \/ Goto(s, "rendering") /\ UNCHANGED starting
           \/ Goto(s, "starting") /\ starting' = s
    BY <1>4 DEF EnsureBrowser
  <2>2. PICK new : /\ Move(s, new)
                   /\ \/ new.at = "rendering" /\ UNCHANGED starting
                      \/ new.at = "starting" /\ starting' = s
    BY <2>1, GotoMoves DEF Places, InPool, Sleepy
  <2>3. HoldsFollow(s, new)
    BY <1>0, <2>1, <2>2 DEF HoldsFollow, InSession, InTab, Sleepy
  <2>4. QED BY <1>0, <2>1, <2>2, <2>3, OutsideInv DEF Sleepy
<1>5. CASE BrowserStarts(s)
  <2>1. op[s].at = "starting" /\ starting' = None
        /\ UNCHANGED <<now, session, gate, openUntil, history>>
    BY <1>5 DEF BrowserStarts
  <2>2. CASE browserReady' = TRUE /\ Goto(s, "rendering") /\ UNCHANGED tabs
    <3>1. PICK new : Move(s, new) /\ new.at = "rendering"
      BY <2>1, <2>2, GotoMoves DEF Places, InPool, Sleepy
    <3>2. HoldsFollow(s, new)
      BY <1>0, <2>1, <2>2, <3>1 DEF HoldsFollow, InSession, InTab, Sleepy
    <3>3. QED BY <1>0, <2>1, <2>2, <3>1, <3>2, OutsideInv DEF Sleepy
  <2>3. CASE Conclude(s, "network_error") /\ tabs' = tabs \ {s} /\ UNCHANGED browserReady
    <3>1. Leaves(s)
      BY <1>0, <2>1, <2>3, ConcludeLeaves
    <3>2. Released(s)
      BY <1>0, <2>1, <2>3 DEF Released, InSession, Sleepy
    <3>3. QED BY <1>0, <2>1, <2>3, <3>1, <3>2, LeavesInv
  <2>4. QED BY <1>5, <2>2, <2>3 DEF BrowserStarts
<1>6. QED BY <1>1, <1>2, <1>3, <1>4, <1>5

\* A search begins, with the session or with the header pool.
LEMMA BeginInv ==
  ASSUME IInv, NEW s \in Searches, Begin(s)
  PROVE  IInv'
<1>0. /\ openUntil \in [HeaderPool -> Nat] /\ browserReady \in BOOLEAN
      /\ op[s] \in OpType /\ Local(op[s]) /\ now \in Nat
      /\ op[s].at = "idle" /\ UNCHANGED <<now, session, gate, openUntil, browserVars, history>>
      /\ "parse_changed" \in Classes
      /\ op \in [Searches -> OpType]
  BY SearchFacts DEF IInv, TypeOK, Begin, Classes, Telling
<1>1. PICK b \in Budgets :
        LET o == [op[s] EXCEPT !.at = "gate", !.deadline = now + b]
        IN \E later \in Asks[s] :
             op' = [op EXCEPT ![s] = IF later THEN Attempted(o, "parse_changed") ELSE o]
  BY DEF Begin
<1> DEFINE o == [op[s] EXCEPT !.at = "gate", !.deadline = now + b]
           p == Moved(op[s], "gate", op[s].until, now + b)
<1>2. now + b \in Nat /\ op[s].until \in Nat
  BY <1>0, ConstantFacts DEF OpType
<1>3. p \in OpType /\ Local(p) /\ p.at = "gate"
  BY <1>0, <1>2, MovedFacts DEF Places, InPool, Sleepy
<1>4. o = p
  BY <1>0 DEF OpType, Moved
<1>5. o \in OpType /\ Local(o) /\ o.at = "gate"
  BY <1>3, <1>4
<1>6. op' = [op EXCEPT ![s] = Attempted(o, "parse_changed")] \/ op' = [op EXCEPT ![s] = o]
  BY <1>1
<1>7. Released(s)
  BY <1>0, HoldsNothing DEF InSession, InTab, Sleepy, browserVars
<1> HIDE DEF o, p
<1>8. CASE op' = [op EXCEPT ![s] = Attempted(o, "parse_changed")]
  <2>1. Leaves(s)
    BY <1>0, <1>5, <1>8, AttemptedFacts DEF Leaves, Move
  <2>2. QED BY <1>0, <1>7, <2>1, LeavesInv DEF browserVars
<1>9. CASE op' = [op EXCEPT ![s] = o]
  <2>1. Move(s, o)
    BY <1>5, <1>9 DEF Move
  <2>2. HoldsFollow(s, o)
    BY <1>5, <1>7 DEF HoldsFollow, Released, InSession, InTab, Sleepy
  <2>3. QED BY <1>0, <1>5, <2>1, <2>2, OutsideInv DEF browserVars, Sleepy
<1>10. QED BY <1>6, <1>8, <1>9

-----------------------------------------------------------------------------
(* The steps in the session.                                               *)

\* A search in the session holds the gate and nothing else, and the session
\* does not cool.
LEMMA InsideFacts ==
  ASSUME IInv, NEW s \in Searches, op[s].at \in Sleepy \cup {"bootstrapping"}
  PROVE  /\ gate = s /\ s \notin tabs /\ starting # s /\ InSession(op[s])
         /\ session.state \in {"cold", "warm"} /\ session.client = TRUE
         /\ session.blockedBy \notin Risks /\ history.quiet <= now
         /\ session.lastFinished = history.ended
         /\ op[s] \in OpType /\ Local(op[s]) /\ Paced(s) /\ now \in Nat
         /\ session \in SessionType /\ history \in [ended : Nat \cup {None}, quiet : Nat]
<1>1. /\ op[s] \in OpType /\ Local(op[s]) /\ Paced(s) /\ s # None
      /\ gate = s <=> InSession(op[s])
      /\ s \in tabs <=> InTab(op[s])
      /\ starting = s <=> op[s].at = "starting"
  BY SearchFacts
<1>2. InSession(op[s]) /\ ~InTab(op[s]) /\ op[s].at # "starting"
  BY <1>1 DEF InSession, InTab, Sleepy, Local, InPool
<1>3. gate = s
  BY <1>1, <1>2
<1>4. /\ session \in SessionType /\ history \in [ended : Nat \cup {None}, quiet : Nat]
      /\ session.state = "cooling" <=> session.blockedBy \in Risks
      /\ now \in Nat
  BY DEF IInv, TypeOK
<1>5. /\ session.lastFinished = history.ended /\ session.client
      /\ session.state # "cooling" /\ history.quiet <= now
  BY <1>1, <1>3 DEF SessionShape, IInv
<1>6. QED BY <1>1, <1>2, <1>3, <1>4, <1>5 DEF SessionType

\* What a move within the session, or out of it, keeps.
LEMMA InsideInv ==
  ASSUME IInv, NEW s \in Searches, NEW new, Move(s, new),
         op[s].at \in Sleepy \cup {"bootstrapping"},
         UNCHANGED <<now, openUntil, browserVars>>,
         \/ InSession(new) /\ gate' = s
         \/ new.at \in {"choosing", "done"} /\ gate' = None,
         session' \in SessionType, history' \in [ended : Nat \cup {None}, quiet : Nat],
         session'.state = "warm" => session'.client,
         session'.state = "cooling" <=> session'.blockedBy \in Risks,
         SessionShape', Paced(s)'
  PROVE  IInv'
<1>1. gate = s /\ s \notin tabs /\ starting # s
  BY InsideFacts
<1>2. ~InTab(new) /\ new.at # "starting"
  BY DEF InTab, InSession, Sleepy
<1>3. new.at \in {"choosing", "done"} => ~InSession(new)
  BY DEF InSession, Sleepy
<1>4. HoldsFollow(s, new)
  BY <1>1, <1>2, <1>3 DEF HoldsFollow, browserVars
<1>5. openUntil' \in [HeaderPool -> Nat] /\ browserReady' \in BOOLEAN
  BY DEF IInv, TypeOK, browserVars
<1>6. QED BY <1>1, <1>4, <1>5, StepInv

\* A search leaves the session.
LEMMA InsideLeaves ==
  ASSUME IInv, NEW s \in Searches, op[s].at \in Sleepy \cup {"bootstrapping"}, Leaves(s),
         UNCHANGED <<now, openUntil, browserVars>>, gate' = None,
         session' \in SessionType, history' \in [ended : Nat \cup {None}, quiet : Nat],
         session'.state = "warm" => session'.client,
         session'.state = "cooling" <=> session'.blockedBy \in Risks,
         SessionShape'
  PROVE  IInv'
<1>1. PICK new : Move(s, new) /\ new.at \in {"choosing", "done"}
  BY DEF Leaves
<1>2. op'[s] = new
  BY <1>1, MoveFacts
<1>3. Paced(s)'
  BY <1>1, <1>2 DEF Paced
<1>4. QED BY <1>1, <1>3, InsideInv

\* The gate is taken, or the session cools and the search goes on.
LEMMA EnterInv ==
  ASSUME IInv, NEW s \in Searches, EnterSession(s)
  PROVE  IInv'
<1> DEFINE cooling == session.state = "cooling" /\ now < session.blockedUntil
           rebuilt == IF session.state = "cooling"
                      THEN [session EXCEPT !.state = "cold", !.client = FALSE,
                                           !.blockedUntil = 0, !.blockedBy = None]
                      ELSE session
<1>1. /\ op[s].at = "gate" /\ gate = None
      /\ IF cooling THEN Conclude(s, session.blockedBy) /\ UNCHANGED <<gate, session>>
         ELSE /\ gate' = s
              /\ Goto(s, "pacing")
              /\ session' = [rebuilt EXCEPT !.client = TRUE]
      /\ UNCHANGED <<now, openUntil, browserVars, history>>
  BY DEF EnterSession
<1>2. /\ op[s] \in OpType /\ Local(op[s]) /\ s # None /\ s \notin tabs /\ starting # s
      /\ session \in SessionType
      /\ session.state = "warm" => session.client
      /\ session.state = "cooling" <=> session.blockedBy \in Risks
      /\ openUntil \in [HeaderPool -> Nat] /\ browserReady \in BOOLEAN
      /\ history \in [ended : Nat \cup {None}, quiet : Nat] /\ now \in Nat
      /\ session.lastFinished = history.ended
      /\ session.state = "cooling" => session.blockedUntil = history.quiet
      /\ session.state # "cooling" => history.quiet <= now
  BY <1>1, SearchFacts DEF IInv, TypeOK, SessionShape, InTab
<1>3. CASE cooling
  <2>1. session.blockedBy \in Classes
    BY <1>2, <1>3, ClassFacts
  <2>2. Leaves(s)
    BY <1>1, <1>3, <2>1, ConcludeLeaves
  <2>3. Released(s)
    BY <1>1, <1>3, HoldsNothing DEF InSession, InTab, Sleepy, browserVars
  <2>4. QED BY <1>1, <1>2, <1>3, <2>2, <2>3, LeavesInv DEF browserVars
<1>4. CASE ~cooling
  <2>1. gate' = s /\ Goto(s, "pacing") /\ session' = [rebuilt EXCEPT !.client = TRUE]
        /\ UNCHANGED <<now, openUntil, tabs, starting, browserReady, history>>
    BY <1>1, <1>4 DEF browserVars
  <2>2. PICK new : Move(s, new) /\ new.at = "pacing" /\ new.step = op[s].step
    BY <1>1, <2>1, GotoMoves DEF Places, InPool, Sleepy
  <2>3. InSession(new) /\ ~InTab(new)
    BY <1>1, <1>2, <2>2 DEF InSession, InTab, Sleepy, Local, InPool
  <2>4. HoldsFollow(s, new)
    BY <1>1, <1>2, <2>1, <2>2, <2>3 DEF HoldsFollow
  <2>5. /\ rebuilt \in SessionType /\ rebuilt.state # "cooling" /\ rebuilt.blockedBy \notin Risks
        /\ rebuilt.lastFinished = history.ended
    BY <1>2, NoneIsNothing DEF SessionType
  <2>6. history.quiet <= now
    BY <1>2, <1>4 DEF SessionType
  <2> HIDE DEF rebuilt
  <2>7. /\ session' \in SessionType /\ session'.state # "cooling" /\ session'.client = TRUE
        /\ session'.blockedBy \notin Risks /\ session'.lastFinished = history.ended
    BY <2>1, <2>5 DEF SessionType
  <2>8. SessionShape'
    BY <2>1, <2>6, <2>7 DEF SessionShape
  <2>9. Paced(s)'
    BY <2>2, MoveFacts DEF Paced
  <2>10. QED BY <1>1, <1>2, <2>1, <2>2, <2>4, <2>7, <2>8, <2>9, StepInv
<1>5. QED BY <1>3, <1>4

\* A request of the session goes out.
LEMMA SendsInv ==
  ASSUME IInv, NEW s \in Searches, op[s].at \in {"pacing", "sleeping"},
         op' = [op EXCEPT ![s] = Sends(op[s], Place)],
         UNCHANGED <<now, session, gate, openUntil, browserVars, history>>,
         history.ended # None => now >= history.ended + MinInterval
  PROVE  IInv'
<1>1. /\ gate = s /\ InSession(op[s]) /\ op[s] \in OpType /\ Local(op[s]) /\ now \in Nat
      /\ history.quiet <= now /\ op[s].deadline \in Nat
      /\ history \in [ended : Nat \cup {None}, quiet : Nat]
  BY InsideFacts DEF Sleepy, OpType
<1>2. now + RequestTimeout \in Nat /\ now + RequestTimeout - RequestTimeout = now
  BY <1>1, ConstantFacts
<1>3. Place \in {"asking", "bootstrapping"}
  BY DEF Place
<1> DEFINE new == Moved(op[s], Place, now + RequestTimeout, op[s].deadline)
<1>4. /\ new \in OpType /\ Local(new) /\ new.at = Place /\ new.until = now + RequestTimeout
      /\ new.step = op[s].step
  <2>1. /\ Place \in Places \ {"done"} /\ op[s].at # "done"
        /\ Place \in InPool <=> op[s].at \in InPool
    BY <1>3 DEF Places, InPool, Sleepy
  <2>2. QED BY <1>1, <1>2, <2>1, MovedFacts
<1>5. Sends(op[s], Place) = new
  BY <1>1 DEF Sends, Moved, OpType
<1> HIDE DEF new
<1>6. Move(s, new) /\ op'[s] = new
  BY <1>4, <1>5, MoveFacts DEF Move
<1>7. InSession(new)
  BY <1>1, <1>3, <1>4 DEF InSession, Sleepy
<1>8. Paced(s)'
  <2>1. op'[s].until - RequestTimeout = now /\ op'[s].at # "sleeping"
    <3>1. op'[s].until = now + RequestTimeout
      BY <1>4, <1>6
    <3>2. op'[s].at # "sleeping"
      BY <1>3, <1>4, <1>6
    <3>3. \A n \in Nat : n = now + RequestTimeout => n - RequestTimeout = now
      BY <1>1, ConstantFacts
    <3>4. QED BY <1>2, <3>1, <3>2, <3>3
  <2>2. history' = history
    OBVIOUS
  <2>3. /\ history.ended # None => op'[s].until - RequestTimeout >= history.ended + MinInterval
        /\ op'[s].until - RequestTimeout >= history.quiet
    BY <1>1, <2>1
  <2> DEFINE p == op'[s]
  <2>4. p.at # "sleeping" /\ Paced(s)' =
          (/\ p.at = "sleeping" /\ history.ended # None => p.until >= history.ended + MinInterval
           /\ p.at \in {"bootstrapping", "asking"} =>
                /\ history.ended # None => p.until - RequestTimeout >= history.ended + MinInterval
                /\ p.until - RequestTimeout >= history.quiet)
    BY <2>1, <2>2 DEF Paced
  <2> HIDE DEF p
  <2>5. QED BY <2>3, <2>4 DEF p
<1>9. SessionShape'
  BY DEF IInv, SessionShape
<1>10. QED BY <1>1, <1>6, <1>7, <1>8, <1>9, InsideInv DEF IInv, TypeOK, Sleepy

\* The pacer: the search goes on with the header pool, asks or sleeps.
LEMMA PaceInv ==
  ASSUME IInv, NEW s \in Searches, Pace(s)
  PROVE  IInv'
<1>1. /\ op[s].at = "pacing" /\ UNCHANGED <<now, session, openUntil, browserVars, history>>
      /\ gate = s /\ InSession(op[s]) /\ op[s] \in OpType /\ Local(op[s]) /\ now \in Nat
      /\ session.lastFinished = history.ended /\ op[s].deadline \in Nat
      /\ history \in [ended : Nat \cup {None}, quiet : Nat] /\ session \in SessionType
  BY InsideFacts DEF Pace, Sleepy, OpType
<1>2. PICK jitter \in 0 .. (IF session.lastFinished = None THEN 0 ELSE MaxJitter) :
        LET delay == IF session.lastFinished = None THEN 0
                     ELSE Monus(MinInterval + jitter, now - session.lastFinished)
        IN IF Monus(op[s].deadline, now) < delay + Reserve \/ (delay = 0 /\ Over(s))
           THEN gate' = None /\ Conclude(s, "timeout")
           ELSE /\ UNCHANGED gate
                /\ op' = [op EXCEPT ![s] = IF delay = 0 THEN Sends(@, Place)
                                           ELSE [@ EXCEPT !.at = "sleeping", !.until = now + delay]]
  BY DEF Pace
<1> DEFINE delay == IF history.ended = None THEN 0
                    ELSE Monus(MinInterval + jitter, now - history.ended)
<1>3. /\ jitter \in Nat
      /\ \/ gate' = None /\ Conclude(s, "timeout")
         \/ gate' = gate /\ delay = 0 /\ op' = [op EXCEPT ![s] = Sends(op[s], Place)]
         \/ /\ gate' = gate /\ delay # 0
            /\ op' = [op EXCEPT ![s] = [op[s] EXCEPT !.at = "sleeping", !.until = now + delay]]
  BY <1>1, <1>2, ConstantFacts
<1>4. delay \in Nat /\ (history.ended # None => now + delay >= history.ended + MinInterval)
  <2>1. CASE history.ended = None
    BY <2>1
  <2>2. CASE history.ended # None
    <3>1. history.ended \in Nat /\ MinInterval \in Nat /\ jitter \in Nat /\ now \in Nat
      BY <1>1, <1>3, <2>2, ConstantFacts
    <3>2. delay = Monus(MinInterval + jitter, now - history.ended)
      BY <2>2
    <3>3. /\ MinInterval + jitter > now - history.ended =>
               delay = (MinInterval + jitter) - (now - history.ended)
          /\ ~(MinInterval + jitter > now - history.ended) => delay = 0
      BY <3>2 DEF Monus
    <3> HIDE DEF delay
    <3>4. QED BY <3>1, <3>3
  <2>3. QED BY <2>1, <2>2
<1> HIDE DEF delay
<1>5. CASE gate' = None /\ Conclude(s, "timeout")
  <2>1. Leaves(s)
    BY <1>1, <1>5, ConcludeLeaves DEF Classes, Telling
  <2>2. SessionShape'
    BY <1>1, <1>5 DEF IInv, SessionShape
  <2>3. QED BY <1>1, <1>5, <2>1, <2>2, InsideLeaves DEF IInv, TypeOK, Sleepy
<1>6. CASE gate' = gate /\ delay = 0 /\ op' = [op EXCEPT ![s] = Sends(op[s], Place)]
  <2>1. history.ended # None => now >= history.ended + MinInterval
    BY <1>1, <1>4, <1>6
  <2>2. QED BY <1>1, <1>6, <2>1, SendsInv
<1>7. CASE /\ gate' = gate
           /\ op' = [op EXCEPT ![s] = [op[s] EXCEPT !.at = "sleeping", !.until = now + delay]]
  <2> DEFINE new == Moved(op[s], "sleeping", now + delay, op[s].deadline)
  <2>1. now + delay \in Nat
    BY <1>1, <1>4
  <2>2. /\ new \in OpType /\ Local(new) /\ new.at = "sleeping" /\ new.until = now + delay
        /\ new.step = op[s].step
    BY <1>1, <2>1, MovedFacts DEF Places, InPool, Sleepy
  <2>3. new = [op[s] EXCEPT !.at = "sleeping", !.until = now + delay]
    BY <1>1 DEF Moved, OpType
  <2>4. op' = [op EXCEPT ![s] = new]
    BY <1>7, <2>3
  <2> HIDE DEF new
  <2>5. Move(s, new)
    BY <2>2, <2>4 DEF Move
  <2>6. op'[s] = new
    BY <2>5, MoveFacts
  <2>7. InSession(new)
    BY <1>1, <2>2 DEF InSession, Sleepy
  <2>8. Paced(s)'
    BY <1>1, <1>4, <2>2, <2>6 DEF Paced
  <2>9. SessionShape'
    BY <1>1, <1>7 DEF IInv, SessionShape
  <2>10. QED BY <1>1, <1>7, <2>5, <2>7, <2>8, <2>9, InsideInv DEF IInv, TypeOK, Sleepy
<1>8. QED BY <1>3, <1>5, <1>6, <1>7

\* The sleep is over, or the time is.
LEMMA WakeInv ==
  ASSUME IInv, NEW s \in Searches, Awake(s) \/ SleepEnds(s)
  PROVE  IInv'
<1>1. /\ op[s].at = "sleeping" /\ UNCHANGED <<now, session, openUntil, browserVars, history>>
      /\ gate = s /\ Paced(s) /\ now \in Nat /\ op[s] \in OpType
      /\ history \in [ended : Nat \cup {None}, quiet : Nat]
  BY InsideFacts DEF Awake, SleepEnds, Sleepy
<1>2. CASE Awake(s)
  <2>1. gate' = gate /\ op' = [op EXCEPT ![s] = Sends(op[s], Place)] /\ now >= op[s].until
    BY <1>2 DEF Awake
  <2>2. history.ended # None => now >= history.ended + MinInterval
    BY <1>1, <2>1, ConstantFacts DEF Paced, OpType
  <2>3. QED BY <1>1, <2>1, <2>2, SendsInv
<1>3. CASE SleepEnds(s)
  <2>1. gate' = None /\ Conclude(s, "timeout")
    BY <1>3 DEF SleepEnds
  <2>2. Leaves(s)
    BY <1>1, <2>1, ConcludeLeaves DEF Classes, Telling
  <2>3. SessionShape'
    BY <1>1, <2>1 DEF IInv, SessionShape
  <2>4. QED BY <1>1, <2>1, <2>2, <2>3, InsideLeaves DEF IInv, TypeOK, Sleepy
<1>4. QED BY <1>2, <1>3

\* The session after a request, field by field.
LEMMA FinishedFacts ==
  ASSUME session \in SessionType, now \in Nat
  PROVE  /\ Finished(session) \in SessionType /\ Finished(session).lastFinished = now
         /\ Finished(session).state = session.state
         /\ Finished(session).client = session.client
         /\ Finished(session).blockedBy = session.blockedBy
         /\ \A class \in Risks :
              /\ Cooled(session, class) \in SessionType
              /\ Cooled(session, class).lastFinished = now
              /\ Cooled(session, class).state = "cooling"
              /\ Cooled(session, class).blockedBy = class
              /\ Cooled(session, class).blockedUntil = now + Cooldown(class)
<1>1. /\ Finished(session) \in SessionType /\ Finished(session).lastFinished = now
      /\ Finished(session).state = session.state
      /\ Finished(session).client = session.client
      /\ Finished(session).blockedBy = session.blockedBy
  BY DEF Finished, SessionType
<1>2. \A class : Cooldown(class) \in Nat /\ now + Cooldown(class) \in Nat
  BY ConstantFacts DEF Cooldown
<1>3. QED BY <1>1, <1>2 DEF Cooled, SessionType

\* The history of a reply, field by field.
LEMMA NotedFacts ==
  ASSUME now \in Nat, history.quiet \in Nat, NEW class
  PROVE  /\ Noted(class) \in [ended : Nat \cup {None}, quiet : Nat]
         /\ Noted(class).ended = now
         /\ class \in Risks => Noted(class).quiet = now + Cooldown(class)
         /\ class \notin Risks => Noted(class).quiet = history.quiet
<1>1. now + Cooldown(class) \in Nat
  BY ConstantFacts DEF Cooldown
<1>2. QED BY <1>1 DEF Noted

\* A page answers a request of the session.
LEMMA ReplyInv ==
  ASSUME IInv, NEW s \in Searches, SessionReply(s)
  PROVE  IInv'
<1>1. op[s].at \in {"bootstrapping", "asking"} /\ UNCHANGED <<now, openUntil, browserVars>>
  BY DEF SessionReply
<1>2. /\ gate = s /\ InSession(op[s]) /\ op[s] \in OpType /\ Local(op[s]) /\ now \in Nat
      /\ session.state \in {"cold", "warm"} /\ session.client = TRUE
      /\ session.blockedBy \notin Risks /\ history.quiet <= now
      /\ session \in SessionType /\ history.quiet \in Nat
  BY <1>1, InsideFacts DEF Sleepy
<1>3. PICK page \in Pages :
        LET class == Classify(page)
        IN /\ history' = Noted(class)
           /\ IF class \in Risks
              THEN gate' = None /\ Conclude(s, class) /\ session' = Cooled(session, class)
              ELSE IF op[s].at = "bootstrapping"
              THEN /\ session' = [Finished(session) EXCEPT !.state = "warm"]
                   /\ op' = [op EXCEPT ![s].at = "pacing", ![s].until = 0]
                   /\ UNCHANGED gate
              ELSE /\ gate' = None
                   /\ session' = Finished(session)
                   /\ IF class = "parse_changed" \/ ~Parses("session", page)
                      THEN Conclude(s, "parse_changed") ELSE Answer(s)
  BY DEF SessionReply
<1> DEFINE class == Classify(page)
<1>4. class \in Classes /\ "parse_changed" \in Classes
  BY ClassFacts DEF Classes, Telling
<1>5. /\ history' \in [ended : Nat \cup {None}, quiet : Nat] /\ history'.ended = now
      /\ class \in Risks => history'.quiet = now + Cooldown(class)
      /\ class \notin Risks => history'.quiet = history.quiet
  BY <1>2, <1>3, NotedFacts
<1>6. \/ class \in Risks /\ gate' = None /\ Conclude(s, class) /\ session' = Cooled(session, class)
      \/ /\ class \notin Risks /\ op[s].at = "bootstrapping" /\ gate' = gate
         /\ session' = [Finished(session) EXCEPT !.state = "warm"]
         /\ op' = [op EXCEPT ![s].at = "pacing", ![s].until = 0]
      \/ /\ class \notin Risks /\ gate' = None /\ session' = Finished(session)
         /\ Conclude(s, "parse_changed") \/ Answer(s)
  BY <1>3
<1> HIDE DEF class
<1>7. CASE class \in Risks /\ gate' = None /\ Conclude(s, class) /\ session' = Cooled(session, class)
  <2>1. Leaves(s)
    BY <1>1, <1>4, <1>7, ConcludeLeaves
  <2>2. /\ session' \in SessionType /\ session'.lastFinished = now
        /\ session'.state = "cooling" /\ session'.blockedBy = class
        /\ session'.blockedUntil = now + Cooldown(class)
    BY <1>2, <1>7, FinishedFacts
  <2>3. SessionShape'
    BY <1>1, <1>5, <1>7, <2>2 DEF SessionShape
  <2>4. QED BY <1>1, <1>5, <1>7, <2>1, <2>2, <2>3, InsideLeaves DEF Sleepy
<1>8. CASE /\ class \notin Risks /\ op[s].at = "bootstrapping" /\ gate' = gate
           /\ session' = [Finished(session) EXCEPT !.state = "warm"]
           /\ op' = [op EXCEPT ![s].at = "pacing", ![s].until = 0]
  <2> DEFINE new == Moved(op[s], "pacing", 0, op[s].deadline)
  <2>1. op[s].deadline \in Nat
    BY <1>2 DEF OpType
  <2>2. /\ new \in OpType /\ Local(new) /\ new.at = "pacing" /\ new.step = op[s].step
    BY <1>2, <1>8, <2>1, MovedFacts DEF Places, InPool, Sleepy
  <2>3. op' = [op EXCEPT ![s] = [op[s] EXCEPT !.at = "pacing", !.until = 0]]
    <3>1. op \in [Searches -> OpType]
      BY DEF IInv, TypeOK
    <3>2. QED BY <1>2, <1>8, <3>1 DEF OpType
  <2>4. [op[s] EXCEPT !.at = "pacing", !.until = 0] = new
    BY <1>2 DEF Moved, OpType
  <2> HIDE DEF new
  <2>5. Move(s, new)
    BY <2>2, <2>3, <2>4 DEF Move
  <2>6. op'[s] = new
    BY <2>5, MoveFacts
  <2>7. InSession(new)
    BY <1>2, <1>8, <2>2 DEF InSession, Sleepy
  <2>8. Paced(s)'
    BY <2>2, <2>6 DEF Paced
  <2>9. /\ session' \in SessionType /\ session'.lastFinished = now /\ session'.state = "warm"
        /\ session'.client = TRUE /\ session'.blockedBy \notin Risks
    <3>1. /\ Finished(session) \in SessionType /\ Finished(session).lastFinished = now
          /\ Finished(session).client = TRUE /\ Finished(session).blockedBy \notin Risks
      BY <1>2, FinishedFacts
    <3>2. QED BY <1>8, <3>1 DEF SessionType
  <2>10. SessionShape'
    BY <1>1, <1>2, <1>5, <1>8, <2>9 DEF SessionShape
  <2>11. QED BY <1>1, <1>2, <1>5, <1>8, <2>5, <2>7, <2>8, <2>9, <2>10, InsideInv DEF Sleepy
<1>9. CASE /\ class \notin Risks /\ gate' = None /\ session' = Finished(session)
           /\ Conclude(s, "parse_changed") \/ Answer(s)
  <2>1. Leaves(s)
    BY <1>1, <1>4, <1>9, ConcludeLeaves
  <2>2. /\ session' \in SessionType /\ session'.lastFinished = now
        /\ session'.state = session.state /\ session'.client = TRUE /\ session'.blockedBy \notin Risks
    BY <1>2, <1>9, FinishedFacts
  <2>3. SessionShape'
    BY <1>1, <1>2, <1>5, <1>9, <2>2 DEF SessionShape
  <2>4. QED BY <1>1, <1>2, <1>5, <1>9, <2>1, <2>2, <2>3, InsideLeaves DEF Sleepy
<1>10. QED BY <1>6, <1>7, <1>8, <1>9

\* A request of the session fails.
LEMMA ErrorInv ==
  ASSUME IInv, NEW s \in Searches, SessionError(s)
  PROVE  IInv'
<1>1. /\ op[s].at \in {"bootstrapping", "asking"} /\ UNCHANGED <<now, openUntil, browserVars>>
      /\ gate' = None /\ session' = Finished(session) /\ history' = Noted("network_error")
      /\ Conclude(s, "network_error") \/ Conclude(s, "timeout")
  BY DEF SessionError
<1>2. /\ gate = s /\ op[s] \in OpType /\ now \in Nat
      /\ session.state \in {"cold", "warm"} /\ session.client = TRUE
      /\ session.blockedBy \notin Risks /\ history.quiet <= now
      /\ session \in SessionType /\ history.quiet \in Nat
  BY <1>1, InsideFacts DEF Sleepy
<1>3. "network_error" \notin Risks /\ "network_error" \in Classes /\ "timeout" \in Classes
  BY DEF Risks, Classes, Telling
<1>4. /\ history' \in [ended : Nat \cup {None}, quiet : Nat] /\ history'.ended = now
      /\ history'.quiet = history.quiet
  BY <1>1, <1>2, <1>3, NotedFacts
<1>5. Leaves(s)
  BY <1>1, <1>3, ConcludeLeaves
<1>6. /\ session' \in SessionType /\ session'.lastFinished = now
      /\ session'.state = session.state /\ session'.client = TRUE /\ session'.blockedBy \notin Risks
  BY <1>1, <1>2, FinishedFacts
<1>7. SessionShape'
  BY <1>1, <1>2, <1>4, <1>6 DEF SessionShape
<1>8. QED BY <1>1, <1>2, <1>4, <1>5, <1>6, <1>7, InsideLeaves DEF Sleepy

-----------------------------------------------------------------------------
(* The theorems.                                                           *)

\* A search that is cancelled stays where it is.
LEMMA CancelInv ==
  ASSUME IInv, NEW s \in Searches, Cancel(s)
  PROVE  IInv'
<1>1. /\ op[s].at \in {"gate", "sleeping", "bootstrapping", "asking", "slot"}
      /\ op' = [op EXCEPT ![s].deadline = now]
      /\ UNCHANGED <<now, session, gate, openUntil, browserVars, history>>
  BY DEF Cancel
<1>2. /\ op[s] \in OpType /\ Local(op[s]) /\ Paced(s) /\ now \in Nat /\ op[s].until \in Nat
      /\ gate = s <=> InSession(op[s])
      /\ s \in tabs <=> InTab(op[s])
      /\ starting = s <=> op[s].at = "starting"
  BY SearchFacts DEF IInv, TypeOK, OpType
<1> DEFINE new == Moved(op[s], op[s].at, op[s].until, now)
<1>3. /\ new \in OpType /\ Local(new) /\ new.at = op[s].at /\ new.until = op[s].until
      /\ new.step = op[s].step
  <2>1. op[s].at \in Places \ {"done"}
    BY <1>1 DEF Places, Sleepy, InPool
  <2>2. QED BY <1>1, <1>2, <2>1, MovedFacts
<1>4. op' = [op EXCEPT ![s] = new]
  <2>1. op \in [Searches -> OpType]
    BY DEF IInv, TypeOK
  <2>2. QED BY <1>1, <1>2, <2>1 DEF Moved, OpType
<1> HIDE DEF new
<1>5. Move(s, new)
  BY <1>3, <1>4 DEF Move
<1>6. op'[s] = new
  BY <1>5, MoveFacts
<1>7. /\ InSession(new) <=> InSession(op[s])
      /\ ~InTab(new) /\ ~InTab(op[s]) /\ new.at # "starting"
  BY <1>1, <1>3 DEF InSession, InTab
<1>8. HoldsFollow(s, new)
  BY <1>1, <1>2, <1>3, <1>7 DEF HoldsFollow, browserVars
<1>9. Paced(s)'
  BY <1>1, <1>2, <1>3, <1>6 DEF Paced
<1>10. SessionShape'
  BY <1>1 DEF IInv, SessionShape
<1>11. QED BY <1>1, <1>5, <1>8, <1>9, <1>10, StepInv DEF IInv, TypeOK, browserVars

\* Time passes.
LEMMA TickInv ==
  ASSUME IInv, Tick
  PROVE  IInv'
<1>1. /\ now < MaxTime /\ now' = now + 1
      /\ UNCHANGED <<session, gate, openUntil, tabs, starting, browserReady, op, history>>
  BY DEF Tick, browserVars
<1>2. now \in 0 .. MaxTime /\ MaxTime \in Nat /\ history.quiet \in Nat
  BY ConstantFacts DEF IInv, TypeOK
<1>3. now' \in 0 .. MaxTime /\ (history.quiet <= now => history.quiet <= now')
  BY <1>1, <1>2
<1>4. TypeOK'
  BY <1>1, <1>3 DEF IInv, TypeOK
<1>5. SessionShape'
  BY <1>1, <1>3 DEF IInv, SessionShape
<1>6. NothingLeftBehind'
  BY <1>1 DEF IInv, NothingLeftBehind
<1>7. ASSUME NEW s \in Searches PROVE Local(op'[s]) /\ Paced(s)'
  BY <1>1 DEF IInv, Paced
<1>8. QED BY <1>4, <1>5, <1>6, <1>7 DEF IInv

\* Nothing happens.
LEMMA StutterInv ==
  ASSUME IInv, UNCHANGED vars
  PROVE  IInv'
<1>1. UNCHANGED <<now, session, gate, openUntil, tabs, starting, browserReady, op, history>>
  BY DEF vars, browserVars
<1>2. TypeOK' /\ SessionShape' /\ NothingLeftBehind'
  BY <1>1 DEF IInv, TypeOK, SessionShape, NothingLeftBehind
<1>3. ASSUME NEW s \in Searches PROVE Local(op'[s]) /\ Paced(s)'
  BY <1>1 DEF IInv, Paced
<1>4. QED BY <1>2, <1>3 DEF IInv

\* The initial states.
LEMMA InitIInv == Init => IInv
<1> SUFFICES ASSUME Init PROVE IInv
  OBVIOUS
<1>1. /\ now = 0 /\ session = Cold /\ gate = None /\ openUntil = [t \in HeaderPool |-> 0]
      /\ tabs = {} /\ starting = None /\ browserReady = FALSE
      /\ op = [s \in Searches |-> Idle]
      /\ history \in [ended : {None}, quiet : {0}]
  BY DEF Init
<1>2. Idle \in [at : {"idle"}, step : {1}, deadline : {0}, until : {0}, tried : {{}},
                outcome : {None}]
  BY DEF Idle
<1>3. 1 \in DOMAIN Steps /\ 0 \in 0 .. MaxTime
  BY ConstantFacts
<1>4. Idle \in OpType /\ Idle.at = "idle" /\ Idle.outcome = None /\ Idle.step = 1
      /\ Idle.tried = {}
  BY <1>2, <1>3 DEF OpType, Places
<1>5. Cold \in [state : {"cold"}, client : {FALSE}, lastFinished : {None}, blockedUntil : {0},
                blockedBy : {None}]
  BY DEF Cold
<1>6. \A s \in Searches : op[s] = Idle /\ s # None
  BY <1>1, ConstantFacts
<1>7. TypeOK
  <2>1. session \in SessionType /\ session.state = "cold" /\ session.blockedBy \notin Risks
    <3>1. Cold \in SessionType
      BY DEF SessionType, Cold
    <3>2. Cold.state = "cold" /\ Cold.blockedBy = None
      BY <1>5
    <3>3. QED BY <1>1, <3>1, <3>2, NoneIsNothing
  <2>2. op \in [Searches -> OpType]
    BY <1>1, <1>4
  <2>3. openUntil \in [HeaderPool -> Nat]
    BY <1>1
  <2>4. \A s \in Searches : op[s].at = "done" <=> op[s].outcome # None
    BY <1>4, <1>6
  <2>5. history \in [ended : Nat \cup {None}, quiet : Nat]
    BY <1>1
  <2>6. QED BY <1>1, <1>3, <2>1, <2>2, <2>3, <2>4, <2>5 DEF TypeOK
<1>8. \A s \in Searches : Local(op[s]) /\ Paced(s)
  BY <1>4, <1>6 DEF Local, Paced, InPool
<1>9. NothingLeftBehind
  <2>1. \A s \in Searches : ~InSession(op[s]) /\ ~InTab(op[s]) /\ op[s].at # "starting"
    BY <1>4, <1>6 DEF InSession, InTab, Sleepy
  <2>2. Cardinality({}) = 0 /\ MaxTabs \in Nat
    BY FS_EmptySet, ConstantFacts
  <2>3. QED BY <1>1, <1>6, <2>1, <2>2 DEF NothingLeftBehind
<1>10. SessionShape
  BY <1>1, <1>5 DEF SessionShape
<1>11. QED BY <1>7, <1>8, <1>9, <1>10 DEF IInv

\* Every step.
LEMMA NextIInv == IInv /\ [Next]_vars => IInv'
<1> SUFFICES ASSUME IInv, [Next]_vars PROVE IInv'
  OBVIOUS
<1>1. ASSUME NEW s \in Searches, SearchStep(s) PROVE IInv'
  BY <1>1, AttemptEndsInv, PoolInv, EnterInv, PaceInv, WakeInv, ReplyInv, ErrorInv DEF SearchStep
<1>2. QED BY <1>1, BeginInv, CancelInv, TickInv, StutterInv DEF Next

\* The invariant holds in every state.
THEOREM InductiveInvariant == Spec => []IInv
BY InitIInv, NextIInv, PTL DEF Spec

\* Every variable of the provider keeps its type.
THEOREM TypeCorrect == Spec => []TypeOK
<1>1. IInv => TypeOK
  BY DEF IInv
<1>2. QED BY <1>1, InductiveInvariant, PTL

\* The gate, the tabs and the mutex of the browser are held by the searches
\* that need them where they are, and tabs are never more than allowed.
THEOREM HoldersAreWhereTheyNeed == Spec => []NothingLeftBehind
<1>1. IInv => NothingLeftBehind
  BY DEF IInv
<1>2. QED BY <1>1, InductiveInvariant, PTL

\* Requests of the fixed session are one at a time, MinInterval apart, and sent
\* with a client.
THEOREM Paces == Spec => []SessionPaced
<1>1. ASSUME IInv PROVE SessionPaced
  <2>1. SUFFICES ASSUME NEW s \in Searches, op[s].at \in {"bootstrapping", "asking"}
                 PROVE  /\ \A r \in Searches \ {s} : ~InSession(op[r])
                        /\ session.client
                        /\ history.ended # None =>
                             op[s].until - RequestTimeout >= history.ended + MinInterval
    BY DEF SessionPaced
  <2>2. gate = s /\ session.client = TRUE /\ Paced(s)
    BY <1>1, <2>1, InsideFacts DEF Sleepy
  <2>3. \A r \in Searches : gate = r <=> InSession(op[r])
    BY <1>1 DEF IInv, NothingLeftBehind
  <2>4. QED BY <2>1, <2>2, <2>3 DEF Paced
<1>2. QED BY <1>1, InductiveInvariant, PTL

\* After a risk the fixed session sends nothing before the cooldown of that
\* risk is over.
THEOREM KeepsQuiet == Spec => []QuietAfterRisk
<1>1. ASSUME IInv PROVE QuietAfterRisk
  BY <1>1 DEF IInv, Paced, QuietAfterRisk
<1>2. QED BY <1>1, InductiveInvariant, PTL

\* A search ends with a captcha or a rate limit exactly when it met one, and
\* stops at the first risk it meets.
THEOREM ReportsRisks == Spec => []RiskIsReported
<1>1. ASSUME IInv PROVE RiskIsReported
  <2>1. SUFFICES ASSUME NEW s \in Searches, op[s].at = "done"
                 PROVE  /\ Cardinality(op[s].tried \cap Risks) <= 1
                        /\ op[s].outcome = "captcha_required" <=> "captcha" \in op[s].tried
                        /\ op[s].outcome = "rate_limited" <=> "rate_limited" \in op[s].tried
    BY DEF RiskIsReported
  <2>2. Local(op[s])
    BY <1>1 DEF IInv
  <2>3. PICK class \in Telling : op[s].tried \subseteq {class}
    BY <2>1, <2>2 DEF Local
  <2>4. op[s].tried \cap Risks = {} \/ op[s].tried \cap Risks = {class}
    BY <2>3
  <2>5. Cardinality({}) = 0 /\ Cardinality({class}) = 1
    BY FS_EmptySet, FS_Singleton
  <2>6. QED BY <2>1, <2>2, <2>4, <2>5 DEF Local
<1>2. QED BY <1>1, InductiveInvariant, PTL

-----------------------------------------------------------------------------
(* Termination, as far as it is a matter of counting: how many steps a     *)
(* search has left.                                                        *)

\* How far a search is from the end of its strategy; a session that is warm
\* has its bootstrap behind it.
Stage(s) ==
  CASE op[s].at = "idle" -> 9 [] op[s].at = "gate" -> 8
    [] op[s].at = "pacing" -> (IF session.state = "warm" THEN 4 ELSE 7)
    [] op[s].at = "sleeping" -> (IF session.state = "warm" THEN 3 ELSE 6)
    [] op[s].at = "bootstrapping" -> 5 [] op[s].at = "asking" -> 2
    [] op[s].at = "choosing" -> 6 [] op[s].at = "waiting" -> 5 [] op[s].at = "slot" -> 4
    [] op[s].at = "browser" -> 3 [] op[s].at = "starting" -> 2 [] OTHER -> 1

\* The strategies it may still try come first.
Energy(s) ==
  IF op[s].at = "done" THEN 0 ELSE 10 * (Len(Steps) - op[s].step) + Stage(s)

\* Every step of a search uses up some of what it has left, and nothing that
\* others do to the session they share gives it more: it tries a strategy once,
\* and builds the session at most once while it holds it (provider.go:56,
\* session_transport.go:154).
SearchesRunDown ==
  [][\A s \in Searches : /\ Energy(s)' <= Energy(s)
                         /\ Begin(s) \/ SearchStep(s) => Energy(s)' < Energy(s)]_vars

\* What the strategies and the stages weigh.
LEMMA StrategiesWeigh ==
  ASSUME NEW n \in Nat, NEW i \in 1 .. n, NEW g \in 1 .. 9
  PROVE  /\ 10 * (n - i) + g \in Nat /\ 10 * (n - i) + g > 0
         /\ \A h \in 1 .. 9 : h < g => 10 * (n - i) + h < 10 * (n - i) + g
         /\ \A h \in 1 .. 9, j \in Nat : j = i + 1 => 10 * (n - j) + h < 10 * (n - i) + g
OBVIOUS

\* Energy is a number, and a search that is not over has some.
LEMMA EnergyIsNatural ==
  ASSUME NEW s \in Searches, op[s] \in OpType
  PROVE  /\ Energy(s) \in Nat /\ Stage(s) \in 1 .. 9
         /\ op[s].at # "done" => Energy(s) > 0
<1>1. Stage(s) \in 1 .. 9
  BY DEF Stage
<1>2. op[s].step \in 1 .. Len(Steps) /\ Len(Steps) \in Nat
  BY ConstantFacts DEF OpType
<1>3. QED BY <1>1, <1>2, StrategiesWeigh DEF Energy

\* In the next state, too.
LEMMA EnergyStaysNatural ==
  ASSUME NEW s \in Searches, op'[s] \in OpType
  PROVE  Energy(s)' \in Nat /\ Stage(s)' \in 1 .. 9
<1>1. Stage(s)' \in 1 .. 9
  BY DEF Stage
<1>2. op'[s].step \in 1 .. Len(Steps) /\ Len(Steps) \in Nat
  BY ConstantFacts DEF OpType
<1>3. QED BY <1>1, <1>2, StrategiesWeigh DEF Energy

\* A search that comes nearer to the end of its strategy has less,
LEMMA NearerIsLess ==
  ASSUME IInv, NEW s \in Searches, op[s].at # "done", op'[s].at # "done",
         op'[s].step = op[s].step, Stage(s)' < Stage(s)
  PROVE  Energy(s)' < Energy(s)
<1>1. Stage(s) \in 1 .. 9 /\ Stage(s)' \in 1 .. 9
  BY DEF Stage
<1>2. op[s].step \in 1 .. Len(Steps) /\ Len(Steps) \in Nat
  BY SearchFacts, ConstantFacts DEF OpType
<1>3. QED BY <1>1, <1>2, StrategiesWeigh DEF Energy

\* What follows an attempt is the next strategy, or the end.
NextOrEnd(o, new) == new.at = "done" \/ (new.at = "choosing" /\ new.step = o.step + 1)

\* and so has one that goes on to the next strategy, or ends.
LEMMA LeavingIsLess ==
  ASSUME IInv, NEW s \in Searches, op[s].at # "done", NextOrEnd(op[s], op'[s])
  PROVE  Energy(s)' < Energy(s)
<1>1. Stage(s) \in 1 .. 9 /\ Stage(s)' \in 1 .. 9
  BY DEF Stage
<1>2. op[s].step \in 1 .. Len(Steps) /\ Len(Steps) \in Nat
  BY SearchFacts, ConstantFacts DEF OpType
<1>3. CASE op'[s].at = "done"
  BY <1>1, <1>2, <1>3, StrategiesWeigh DEF Energy
<1>4. CASE op'[s].at = "choosing" /\ op'[s].step = op[s].step + 1
  <2>1. op'[s].step \in Nat
    BY <1>2, <1>4
  <2>2. QED BY <1>1, <1>2, <1>4, <2>1, StrategiesWeigh DEF Energy
<1>5. QED BY <1>3, <1>4 DEF NextOrEnd

\* The ends of attempts.
LEMMA AttemptsLead ==
  ASSUME NEW o \in OpType
  PROVE  /\ \A tried : NextOrEnd(o, Failed(tried)) /\ NextOrEnd(o, NextStep(o, tried))
         /\ \A class : NextOrEnd(o, Attempted(o, class))
         /\ \A tried, outcome : NextOrEnd(o, Done(tried, outcome))
<1>1. \A tried, outcome : Done(tried, outcome).at = "done"
  BY DoneFacts
<1>2. \A tried : Failed(tried).at = "done"
  BY <1>1 DEF Failed
<1>3. \A tried : NextOrEnd(o, NextStep(o, tried))
  <2> SUFFICES ASSUME NEW tried PROVE NextOrEnd(o, NextStep(o, tried))
    OBVIOUS
  <2> DEFINE new == [o EXCEPT !.at = "choosing", !.step = @ + 1, !.until = 0, !.tried = tried]
  <2>1. new.at = "choosing" /\ new.step = o.step + 1
    BY DEF OpType
  <2> HIDE DEF new
  <2>2. NextStep(o, tried) = IF o.step = Len(Steps) THEN Failed(tried) ELSE new
    BY DEF NextStep, new
  <2>3. QED BY <1>2, <2>1, <2>2 DEF NextOrEnd
<1>4. QED BY <1>1, <1>2, <1>3 DEF NextOrEnd, Attempted

\* So an attempt that fails or succeeds costs energy,
LEMMA EndsCost ==
  ASSUME IInv, NEW s \in Searches, op[s].at # "done",
         \/ Answer(s)
         \/ \E class : Conclude(s, class)
         \/ \E tried : op' = [op EXCEPT ![s] = NextStep(@, tried)]
         \/ \E tried : op' = [op EXCEPT ![s] = Failed(tried)]
  PROVE  Energy(s)' < Energy(s)
<1>1. op \in [Searches -> OpType] /\ op[s] \in OpType
  BY DEF IInv, TypeOK
<1>2. NextOrEnd(op[s], op'[s])
  BY <1>1, AttemptsLead DEF Answer, Conclude
<1>3. QED BY <1>2, LeavingIsLess

\* and so does the way there.
LEMMA WayCosts ==
  ASSUME IInv, NEW s \in Searches, op[s].at # "done", op'[s].at # "done",
         op'[s].step = op[s].step,
         \/ op[s].at = "idle" /\ op'[s].at = "gate"
         \/ op[s].at = "choosing" /\ op'[s].at = "waiting"
         \/ op[s].at = "waiting" /\ op'[s].at \in {"slot", "fetching"}
         \/ op[s].at = "slot" /\ op'[s].at = "browser"
         \/ op[s].at = "browser" /\ op'[s].at \in {"starting", "rendering"}
         \/ op[s].at = "starting" /\ op'[s].at = "rendering"
         \/ op[s].at = "gate" /\ op'[s].at = "pacing"
         \/ op[s].at = "pacing" /\ op'[s].at = "sleeping" /\ session' = session
         \/ /\ op[s].at \in {"pacing", "sleeping"} /\ session' = session
            /\ op'[s].at = IF session.state = "warm" THEN "asking" ELSE "bootstrapping"
         \/ op[s].at = "bootstrapping" /\ op'[s].at = "pacing" /\ session'.state = "warm"
  PROVE  Energy(s)' < Energy(s)
<1>1. Stage(s)' < Stage(s)
  BY DEF Stage
<1>2. QED BY <1>1, NearerIsLess

\* Every step of a search costs energy.
LEMMA StepsCost ==
  ASSUME IInv, NEW s \in Searches, Begin(s) \/ SearchStep(s)
  PROVE  Energy(s)' < Energy(s)
<1>1. op \in [Searches -> OpType]
  BY DEF IInv, TypeOK
<1>2. ASSUME NEW place, Goto(s, place) PROVE op'[s].at = place /\ op'[s].step = op[s].step
  BY <1>1, <1>2 DEF Goto, OpType
<1>3. CASE Begin(s)
  <2>1. PICK later \in Asks[s], b \in Budgets :
          op' = [op EXCEPT ![s] = IF later THEN Attempted([op[s] EXCEPT !.at = "gate", !.deadline = now + b],
                                                          "parse_changed")
                                  ELSE [op[s] EXCEPT !.at = "gate", !.deadline = now + b]]
    BY <1>3 DEF Begin
  <2> DEFINE o == [op[s] EXCEPT !.at = "gate", !.deadline = now + b]
  <2>2. o \in OpType /\ o.at = "gate" /\ o.step = op[s].step /\ op[s].at = "idle"
    <3>1. b \in Nat /\ now \in Nat
      BY ConstantFacts DEF IInv, TypeOK
    <3>2. now + b \in Nat
      BY <3>1
    <3>3. op[s] \in OpType
      BY <1>1
    <3>4. op[s].at = "idle"
      BY <1>3 DEF Begin
    <3>5. QED BY <3>2, <3>3, <3>4 DEF OpType, Places
  <2> HIDE DEF o
  <2>3. op'[s] = IF later THEN Attempted(o, "parse_changed") ELSE o
    BY <1>1, <2>1 DEF o
  <2>4. CASE later
    <3>1. NextOrEnd(o, op'[s])
      BY <2>2, <2>3, <2>4, AttemptsLead
    <3>2. NextOrEnd(op[s], op'[s])
      BY <2>2, <3>1 DEF NextOrEnd
    <3>3. QED BY <2>2, <3>2, LeavingIsLess
  <2>5. CASE ~later
    BY <2>2, <2>3, <2>5, WayCosts
  <2>6. QED BY <2>4, <2>5
<1>4. CASE TryHeaderPool(s) \/ Waited(s) \/ WaitFails(s)
  <2>1. CASE TryHeaderPool(s)
    BY <1>2, <2>1, EndsCost, WayCosts DEF TryHeaderPool
  <2>2. CASE Waited(s)
    BY <1>2, <2>2, WayCosts DEF Waited
  <2>3. CASE WaitFails(s)
    BY <2>3, EndsCost DEF WaitFails
  <2>4. QED BY <1>4, <2>1, <2>2, <2>3
<1>5. CASE EnterSession(s) \/ GateTimesOut(s)
  BY <1>2, <1>5, EndsCost, WayCosts DEF EnterSession, GateTimesOut
<1>6. CASE Pace(s) \/ Awake(s) \/ SleepEnds(s)
  <2>1. ASSUME op' = [op EXCEPT ![s] = Sends(@, Place)]
        PROVE  op'[s].at = Place /\ op'[s].step = op[s].step
    BY <1>1, <2>1 DEF Sends, OpType
  <2>2. ASSUME NEW delay, op' = [op EXCEPT ![s] = [@ EXCEPT !.at = "sleeping", !.until = now + delay]]
        PROVE  op'[s].at = "sleeping" /\ op'[s].step = op[s].step
    BY <1>1, <2>2 DEF OpType
  <2>3. Place \in {"asking", "bootstrapping"}
    BY DEF Place
  <2>4. CASE Pace(s)
    <3>1. /\ op[s].at = "pacing" /\ session' = session
          /\ \/ Conclude(s, "timeout")
             \/ op' = [op EXCEPT ![s] = Sends(@, Place)]
             \/ \E delay : op' = [op EXCEPT ![s] = [@ EXCEPT !.at = "sleeping", !.until = now + delay]]
      BY <2>4 DEF Pace
    <3>2. QED BY <2>1, <2>2, <2>3, <3>1, EndsCost, WayCosts DEF Place
  <2>5. CASE Awake(s)
    BY <2>1, <2>3, <2>5, WayCosts DEF Awake, Place
  <2>6. CASE SleepEnds(s)
    BY <2>6, EndsCost DEF SleepEnds
  <2>7. QED BY <1>6, <2>4, <2>5, <2>6
<1>7. CASE SessionReply(s)
  <2>1. PICK class :
          IF class \in Risks THEN Conclude(s, class)
          ELSE IF op[s].at = "bootstrapping"
          THEN /\ session' = [Finished(session) EXCEPT !.state = "warm"]
               /\ op' = [op EXCEPT ![s].at = "pacing", ![s].until = 0]
          ELSE Conclude(s, "parse_changed") \/ Answer(s)
    BY <1>7 DEF SessionReply
  <2>2. op[s].at \in {"bootstrapping", "asking"}
    BY <1>7 DEF SessionReply
  <2>3. CASE op[s].at = "bootstrapping" /\ class \notin Risks
    <3>1. session'.state = "warm"
      <4>1. session \in SessionType
        BY DEF IInv, TypeOK
      <4>2. QED BY <2>1, <2>3, <4>1 DEF Finished, SessionType
    <3>2. op'[s].at = "pacing" /\ op'[s].step = op[s].step
      BY <1>1, <2>1, <2>3 DEF OpType
    <3>3. QED BY <2>2, <2>3, <3>1, <3>2, WayCosts
  <2>4. CASE ~ (op[s].at = "bootstrapping" /\ class \notin Risks)
    BY <2>1, <2>2, <2>4, EndsCost
  <2>5. QED BY <2>3, <2>4
<1>8. CASE SessionError(s)
  BY <1>8, EndsCost DEF SessionError
<1>9. CASE FetchReply(s) \/ FetchError(s) \/ Rendered(s) \/ RenderError(s)
  BY <1>9, EndsCost DEF FetchReply, FetchError, Rendered, RenderError, Judge
<1>10. CASE TakeTab(s) \/ SlotTimesOut(s)
  BY <1>2, <1>10, EndsCost, WayCosts DEF TakeTab, SlotTimesOut
<1>11. CASE EnsureBrowser(s) \/ BrowserStarts(s)
  BY <1>2, <1>11, EndsCost, WayCosts DEF EnsureBrowser, BrowserStarts
<1>12. QED
  BY <1>3, <1>4, <1>5, <1>6, <1>7, <1>8, <1>9, <1>10, <1>11 DEF SearchStep

\* The steps of others cost it nothing: the session changes in the hands of
\* whoever holds the gate only, and who waits at the gate does not look at it.
LEMMA OthersCostNothing ==
  ASSUME IInv, NEW t \in Searches, op'[t] = op[t], session' = session \/ gate # t
  PROVE  Energy(t)' = Energy(t)
<1>1. CASE session' = session
  BY <1>1 DEF Energy, Stage
<1>2. CASE gate # t
  <2>1. op[t].at \notin {"pacing", "sleeping"}
    BY <1>2, InsideFacts DEF Sleepy
  <2>2. Stage(t)' = Stage(t)
    BY <2>1 DEF Stage
  <2>3. QED BY <2>2 DEF Energy
<1>3. QED BY <1>1, <1>2

\* A step of one search leaves the others where they are.
LEMMA SearchesApart ==
  ASSUME IInv, NEW s \in Searches, SearchStep(s) \/ Begin(s), NEW t \in Searches, t # s
  PROVE  op'[t] = op[t] /\ (session' = session \/ gate # t)
<1>1. op \in [Searches -> OpType] /\ t # None
  BY ConstantFacts DEF IInv, TypeOK
<1>2. (\E new : op' = [op EXCEPT ![s] = new]) => op'[t] = op[t]
  BY <1>1
<1>3. ASSUME \/ Answer(s) \/ \E class : Conclude(s, class) \/ \E place : Goto(s, place)
      PROVE  op'[t] = op[t]
  BY <1>1, <1>3 DEF Answer, Conclude, Goto
<1>4. CASE Begin(s) \/ TryHeaderPool(s) \/ Waited(s) \/ WaitFails(s) \/ GateTimesOut(s)
  <2>1. CASE Begin(s)
    BY <1>1, <2>1 DEF Begin
  <2>2. CASE TryHeaderPool(s) \/ WaitFails(s)
    BY <1>1, <1>3, <2>2 DEF TryHeaderPool, WaitFails
  <2>3. CASE Waited(s) \/ GateTimesOut(s)
    BY <1>3, <2>3 DEF Waited, GateTimesOut
  <2>4. QED BY <1>4, <2>1, <2>2, <2>3
<1>5. CASE EnterSession(s)
  BY <1>1, <1>3, <1>5 DEF EnterSession
<1>6. CASE Pace(s) \/ Awake(s) \/ SleepEnds(s)
  BY <1>1, <1>3, <1>6 DEF Pace, Awake, SleepEnds
<1>7. CASE SessionReply(s) \/ SessionError(s)
  <2>1. gate = s
    BY <1>7, InsideFacts DEF SessionReply, SessionError, Sleepy
  <2>2. CASE SessionReply(s)
    BY <1>1, <1>3, <2>1, <2>2 DEF SessionReply
  <2>3. CASE SessionError(s)
    BY <1>3, <2>1, <2>3 DEF SessionError
  <2>4. QED BY <1>7, <2>2, <2>3
<1>8. CASE FetchReply(s) \/ FetchError(s) \/ Rendered(s) \/ RenderError(s)
  BY <1>3, <1>8 DEF FetchReply, FetchError, Rendered, RenderError, Judge
<1>9. CASE TakeTab(s) \/ SlotTimesOut(s) \/ EnsureBrowser(s) \/ BrowserStarts(s)
  BY <1>3, <1>9 DEF TakeTab, SlotTimesOut, EnsureBrowser, BrowserStarts
<1>10. QED BY <1>4, <1>5, <1>6, <1>7, <1>8, <1>9 DEF SearchStep

\* No search runs for ever, whatever pages and errors come, and whatever other
\* searches do to the session: it makes at most ten steps for each strategy.
THEOREM SearchesEnd == Spec => SearchesRunDown
<1> DEFINE Down == \A s \in Searches : /\ Energy(s)' <= Energy(s)
                                       /\ Begin(s) \/ SearchStep(s) => Energy(s)' < Energy(s)
<1>1. ASSUME IInv, IInv', Next, NEW s \in Searches
      PROVE  /\ Energy(s)' <= Energy(s)
             /\ Begin(s) \/ SearchStep(s) => Energy(s)' < Energy(s)
  <2>1. op \in [Searches -> OpType] /\ op'[s] \in OpType
    BY <1>1 DEF IInv, TypeOK
  <2>2. Energy(s) \in Nat /\ Energy(s)' \in Nat
    BY <2>1, EnergyIsNatural, EnergyStaysNatural
  <2>3. Begin(s) \/ SearchStep(s) => Energy(s)' < Energy(s)
    BY <1>1, StepsCost
  <2>4. CASE Begin(s) \/ SearchStep(s)
    BY <2>2, <2>3, <2>4
  <2>5. CASE \E t \in Searches \ {s} : Begin(t) \/ SearchStep(t)
    <3>1. Energy(s)' = Energy(s)
      BY <1>1, <2>5, SearchesApart, OthersCostNothing
    <3>2. QED BY <2>2, <2>3, <3>1
  <2>6. CASE Tick
    <3>1. Energy(s)' = Energy(s)
      BY <1>1, <2>6, OthersCostNothing DEF Tick
    <3>2. QED BY <2>2, <2>3, <3>1
  <2>7. CASE \E t \in Searches : Cancel(t)
    <3>1. session' = session /\ op'[s].at = op[s].at /\ op'[s].step = op[s].step
      BY <2>1, <2>7 DEF Cancel, OpType
    <3>2. Energy(s)' = Energy(s)
      BY <3>1 DEF Energy, Stage
    <3>3. QED BY <2>2, <2>3, <3>2
  <2>8. QED BY <1>1, <2>4, <2>5, <2>6, <2>7 DEF Next
<1>2. IInv /\ IInv' /\ [Next]_vars => [Down]_vars
  BY <1>1
<1>3. QED BY <1>2, InductiveInvariant, PTL DEF Spec, SearchesRunDown
=============================================================================
