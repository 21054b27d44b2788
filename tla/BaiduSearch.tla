---------------------------- MODULE BaiduSearch ----------------------------
(***************************************************************************)
(* websearch/internal/provider/baidu, with the browser client of           *)
(* transport/chromebrowser and the HTTP client of transport/httpsearch:    *)
(* the searches that share one profile of Baidu.  A search tries four      *)
(* strategies in order: the fixed session, which one gate serialises, and  *)
(* which is bootstrapped, paced and cooled down; then the desktop page,    *)
(* the mobile page and the browser, behind one breaker.                    *)
(*                                                                         *)
(* A page is told by the class of its status, the marks the detector looks *)
(* for and the layouts the parsers can read.  A context is over when its   *)
(* deadline is; cancelling it moves the deadline.                          *)
(***************************************************************************)
EXTENDS Naturals, Sequences, FiniteSets

CONSTANTS
  Searches, None,
  Steps,              \* the transports of the chain
  Asks,               \* [Searches -> SUBSET BOOLEAN]: may it ask for a later page?
  Pages,              \* what Baidu may answer
  MinInterval, MaxJitter, RequestTimeout, FallbackReserve,   \* SessionConfig
  CaptchaCooldown, RateLimitCooldown,
  CaptchaTrip, RateLimitTrip,  \* the cooldowns of the breaker
  MaxTabs,            \* MaxConcurrentTabs
  Budgets,            \* the time a search is given
  Impatient,          \* bound: searches that may be cancelled
  Latest, MaxTime     \* bounds: of the last start, and of the clock

Statuses == {"ok", "limited", "refused", "bad"}   \* 2xx, 429, 403 and 5xx, other 4xx
Marks == {"challenge", "root", "card", "none_found"}
Layouts == {"desktop", "mobile"}

ASSUME ConstantsOK ==
  /\ IsFiniteSet(Searches) /\ None \notin Searches
  /\ Steps \in Seq({"session", "desktop", "mobile", "chrome"}) /\ Len(Steps) > 1
  /\ \A i \in DOMAIN Steps : Steps[i] = "session" <=> i = 1
  /\ Asks \in [Searches -> SUBSET BOOLEAN]
  /\ Pages \subseteq [status : Statuses, marks : SUBSET Marks, layouts : SUBSET Layouts]
  /\ {MinInterval, RequestTimeout, CaptchaCooldown, RateLimitCooldown} \subseteq Nat \ {0}
  /\ {MaxJitter, FallbackReserve, CaptchaTrip, RateLimitTrip} \subseteq Nat
  /\ MaxTabs \in Nat \ {0} /\ Impatient \subseteq Searches
  /\ Budgets \subseteq Nat /\ Latest \in Nat /\ MaxTime \in Nat
  /\ \A b \in Budgets : Latest + b <= MaxTime

VARIABLES
  now,
  session,     \* baiduSession; its generation, which is only reported, is left out
  gate,        \* the search that holds the gate
  openUntil,   \* Breaker.openUntil, 0 for none
  tabs,        \* the searches that hold a place of the semaphore
  starting,    \* the search that holds browserInitMu while Chrome starts
  browserReady,
  op,          \* each search: where it is, its step, its attempts
  history      \* history: when the session last asked, how long it must not

browserVars == <<tabs, starting, browserReady>>
vars == <<now, session, gate, openUntil, browserVars, op, history>>

HeaderPool == {Steps[i] : i \in 2 .. Len(Steps)}

Risks == {"captcha", "rate_limited", "blocked"}
Telling == Risks \cup {"timeout", "parse_changed"}

\* until: the end of a sleep of the pacer, or of the request the session has out.
\* tried: of the classifications of the attempts, those a search may be
\* judged by, without their order; of a search that is over, the risks.
Idle == [at |-> "idle", step |-> 1, deadline |-> 0, until |-> 0,
         tried |-> {}, outcome |-> None]

Cold == [state |-> "cold", client |-> FALSE, lastFinished |-> None,
         blockedUntil |-> 0, blockedBy |-> None]

Over(s) == now >= op[s].deadline

Sleepy == {"pacing", "sleeping", "asking"}
\* The places of a search that holds the gate, and of one that holds a tab.
InSession(o) == o.step = 1 /\ o.at \in Sleepy \cup {"bootstrapping"}
InTab(o) == o.at \in {"browser", "starting", "rendering"}
\* The places of a search that tries the header pool.
InPool == {"choosing", "waiting", "fetching", "slot", "browser", "starting", "rendering"}

-----------------------------------------------------------------------------
(* The detector and the parsers.                                           *)

\* detector.Classify.
Classify(page) ==
  IF page.status = "limited" THEN "rate_limited"
  ELSE IF page.status = "refused" THEN "blocked"
  ELSE IF "challenge" \in page.marks THEN "captcha"
  ELSE IF page.status = "bad" THEN "blocked"
  ELSE IF {"root", "card"} \subseteq page.marks THEN "normal"
  ELSE IF {"root", "none_found"} \subseteq page.marks THEN "empty"
  ELSE "parse_changed"

\* The browser reports status 200 whatever the status was.
Seen(transport, page) ==
  IF transport = "chrome" THEN [page EXCEPT !.status = "ok"] ELSE page

\* parseForTransport: the browser may have been sent either page.
Parses(transport, page) ==
  CASE transport = "mobile" -> "mobile" \in page.layouts
    [] transport = "chrome" -> page.layouts # {}
    [] OTHER -> "desktop" \in page.layouts

-----------------------------------------------------------------------------
(* Provider.Search: what one attempt does to the search.                   *)

\* Mutant of BuildSearchError: timeouts are reported before risks.
TimeoutFirst(tried) ==
  IF "timeout" \in tried THEN "upstream_timeout"
  ELSE IF "captcha" \in tried THEN "captcha_required"
  ELSE IF "rate_limited" \in tried THEN "rate_limited"
  ELSE IF "parse_changed" \in tried THEN "upstream_changed"
  ELSE "provider_unavailable"

BuildSearchError(tried) ==
  IF "captcha" \in tried THEN "captcha_required"
  ELSE IF "rate_limited" \in tried THEN "rate_limited"
  ELSE IF "timeout" \in tried THEN "upstream_timeout"
  ELSE IF "parse_changed" \in tried THEN "upstream_changed"
  ELSE "provider_unavailable"

\* ConservativeStrategyFallback.
Allows(class) == class \in {"network_error", "timeout", "parse_changed"}

Done(tried, outcome) == [Idle EXCEPT !.at = "done", !.tried = tried, !.outcome = outcome]

Failed(tried) == Done(tried \cap Risks, BuildSearchError(tried))

\* The loop goes on with the next step, or ends in an error.
NextStep(o, tried) ==
  IF o.step = Len(Steps) THEN Failed(tried)
  ELSE [o EXCEPT !.at = "choosing", !.step = @ + 1, !.until = 0, !.tried = tried]

\* An attempt failed: the policy decides.
Attempted(o, class) ==
  LET tried == o.tried \cup ({class} \cap Telling)
  IN IF Allows(class) THEN NextStep(o, tried) ELSE Failed(tried)

Conclude(s, class) == op' = [op EXCEPT ![s] = Attempted(@, class)]
Answer(s) == op' = [op EXCEPT ![s] = Done({}, "results")]
Goto(s, place) == op' = [op EXCEPT ![s].at = place]

\* The first step is the fixed session, which leaves later pages to the others.
Begin(s) ==
  /\ op[s].at = "idle" /\ now <= Latest
  /\ \E later \in Asks[s], b \in Budgets :
       LET o == [op[s] EXCEPT !.at = "gate", !.deadline = now + b]
       IN op' = [op EXCEPT ![s] = IF later THEN Attempted(o, "parse_changed") ELSE o]
  /\ UNCHANGED <<now, session, gate, openUntil, browserVars, history>>

\* Breaker.Allow; an entry that has expired is as good as none.  A circuit
\* that is open counts as a failed attempt, whatever the policy says.
TryHeaderPool(s) ==
  /\ op[s].at = "choosing" /\ op[s].step > 1
  /\ IF now < openUntil[Steps[op[s].step]]
     THEN op' = [op EXCEPT ![s] = NextStep(@, @.tried)]
     ELSE Goto(s, "waiting")
  /\ UNCHANGED <<now, session, gate, openUntil, browserVars, history>>

\* waitForStrategy: the limiter and the jitter.
Waited(s) ==
  /\ op[s].at = "waiting"
  /\ Goto(s, IF Steps[op[s].step] = "chrome" THEN "slot" ELSE "fetching")
  /\ UNCHANGED <<now, session, gate, openUntil, browserVars, history>>

\* A wait that cannot end in time ends the search.
WaitFails(s) ==
  /\ op[s].at = "waiting"
  /\ op' = [op EXCEPT ![s] = Failed(@.tried \cup {"timeout"})]
  /\ UNCHANGED <<now, session, gate, openUntil, browserVars, history>>

-----------------------------------------------------------------------------
(* BaiduSessionTransport.Fetch.                                            *)

\* A request of the session goes out.
Sends(o, place) == [o EXCEPT !.at = place, !.until = now + RequestTimeout]

\* Which request the session is up to.
Place == IF session.state = "warm" THEN "asking" ELSE "bootstrapping"

\* Mutant of EnterSession: a session that cools keeps the gate.
EnterSessionKeeping(s) ==
  LET cooling == session.state = "cooling" /\ now < session.blockedUntil
      rebuilt == IF session.state = "cooling"
                 THEN [session EXCEPT !.state = "cold", !.client = FALSE,
                                      !.blockedUntil = 0, !.blockedBy = None]
                 ELSE session
  IN /\ op[s].at = "gate" /\ gate = None
     /\ gate' = s
     /\ IF cooling THEN Conclude(s, session.blockedBy) /\ UNCHANGED session
        ELSE /\ Goto(s, "pacing")
             /\ session' = [rebuilt EXCEPT !.client = TRUE]
     /\ UNCHANGED <<now, openUntil, browserVars, history>>

\* acquire, handleCooling, and a fresh client for a cold session.
EnterSession(s) ==
  LET cooling == session.state = "cooling" /\ now < session.blockedUntil
      rebuilt == IF session.state = "cooling"
                 THEN [session EXCEPT !.state = "cold", !.client = FALSE,
                                      !.blockedUntil = 0, !.blockedBy = None]
                 ELSE session
  IN /\ op[s].at = "gate" /\ gate = None
     /\ IF cooling THEN Conclude(s, session.blockedBy) /\ UNCHANGED <<gate, session>>
        ELSE /\ gate' = s
             /\ Goto(s, "pacing")
             /\ session' = [rebuilt EXCEPT !.client = TRUE]
     /\ UNCHANGED <<now, openUntil, browserVars, history>>

\* The context is over before the gate is free.
GateTimesOut(s) ==
  /\ op[s].at = "gate" /\ Over(s)
  /\ Conclude(s, "timeout")
  /\ UNCHANGED <<now, session, gate, openUntil, browserVars, history>>

\* What a wait must leave of the deadline.
Reserve ==
  FallbackReserve
  + IF session.state = "warm" THEN RequestTimeout ELSE 2 * RequestTimeout + MinInterval + MaxJitter

Monus(a, b) == IF a > b THEN a - b ELSE 0

\* FixedSessionPacer.Wait, up to its timer.
Pace(s) ==
  /\ op[s].at = "pacing"
  /\ \E jitter \in 0 .. (IF session.lastFinished = None THEN 0 ELSE MaxJitter) :
       LET delay == IF session.lastFinished = None THEN 0
                    ELSE Monus(MinInterval + jitter, now - session.lastFinished)
       IN IF Monus(op[s].deadline, now) < delay + Reserve \/ (delay = 0 /\ Over(s))
          THEN gate' = None /\ Conclude(s, "timeout")
          ELSE /\ UNCHANGED gate
               /\ op' = [op EXCEPT ![s] = IF delay = 0 THEN Sends(@, Place)
                                          ELSE [@ EXCEPT !.at = "sleeping", !.until = now + delay]]
  /\ UNCHANGED <<now, session, openUntil, browserVars, history>>

Awake(s) ==
  /\ op[s].at = "sleeping" /\ now >= op[s].until
  /\ op' = [op EXCEPT ![s] = Sends(@, Place)]
  /\ UNCHANGED <<now, session, gate, openUntil, browserVars, history>>

SleepEnds(s) ==
  /\ op[s].at = "sleeping" /\ Over(s)
  /\ gate' = None
  /\ Conclude(s, "timeout")
  /\ UNCHANGED <<now, session, openUntil, browserVars, history>>

Cooldown(class) == IF class = "captcha" THEN CaptchaCooldown ELSE RateLimitCooldown

\* Mutant of Finished: a bootstrap does not count.
FinishedSearch(ses) == IF ses.state = "warm" THEN [ses EXCEPT !.lastFinished = now] ELSE ses

\* The request is over: fetchURL notes when.
Finished(ses) == [ses EXCEPT !.lastFinished = now]

\* Mutant of Cooled: the cause is not kept.
CooledUnnamed(ses, class) ==
  [Finished(ses) EXCEPT !.state = "cooling", !.client = FALSE,
                        !.blockedUntil = now + Cooldown(class)]

\* Mutant of Cooled: a bootstrap page is not taken for a risk.
CooledWhenWarm(ses, class) ==
  IF ses.state = "cold" THEN Finished(ses)
  ELSE [Finished(ses) EXCEPT !.state = "cooling", !.client = FALSE,
                             !.blockedBy = class, !.blockedUntil = now + Cooldown(class)]

\* sessionFailure with a risk: the session is given up until the cooldown is over.
Cooled(ses, class) ==
  [Finished(ses) EXCEPT !.state = "cooling", !.client = FALSE,
                        !.blockedBy = class, !.blockedUntil = now + Cooldown(class)]

\* The history of a reply.
Noted(class) ==
  [ended |-> now, quiet |-> IF class \in Risks THEN now + Cooldown(class) ELSE history.quiet]

\* The reply to a request of the session; the gate is released on every path
\* that leaves Fetch.
SessionReply(s) ==
  /\ op[s].at \in {"bootstrapping", "asking"}
  /\ \E page \in Pages :
       LET class == Classify(page)
       IN /\ history' = Noted(class)
          /\ IF class \in Risks
             THEN gate' = None /\ Conclude(s, class) /\ session' = Cooled(session, class)
             ELSE IF op[s].at = "bootstrapping"
             THEN /\ session' = [Finished(session) EXCEPT !.state = "warm"]
                  /\ op' = [op EXCEPT ![s].at = "pacing", ![s].until = 0]
                  /\ UNCHANGED gate
             ELSE /\ gate' = None
                  /\ session' = Finished(session)
                  /\ IF class = "parse_changed" \/ ~Parses("session", page)
                     THEN Conclude(s, "parse_changed") ELSE Answer(s)
  /\ UNCHANGED <<now, openUntil, browserVars>>

\* The request fails, or it takes too long, or the context is over.  (Fetch has
\* three more ways out that this program cannot take: the search URL was parsed
\* when the transport was made, cookiejar.New(nil) returns no error, and every
\* status from 400 on that Classify sees is a risk.)
SessionError(s) ==
  /\ op[s].at \in {"bootstrapping", "asking"}
  /\ \/ Conclude(s, "network_error")
     \/ (now >= op[s].until \/ Over(s)) /\ Conclude(s, "timeout")
  /\ gate' = None
  /\ session' = Finished(session)
  /\ history' = Noted("network_error")
  /\ UNCHANGED <<now, openUntil, browserVars>>

-----------------------------------------------------------------------------
(* The header pool: httpsearch.Fetch and chromebrowser.Fetch.              *)

\* tripStrategy: a captcha or a rate limit trips every step of the header
\* pool; a later trip replaces an earlier one, and may shorten it.
Trip(class) ==
  LET cooldown == IF class = "captcha" THEN CaptchaTrip ELSE RateLimitTrip
  IN openUntil' = IF class \in {"captcha", "rate_limited"}
                  THEN [t \in HeaderPool |-> now + cooldown] ELSE openUntil

\* A page arrives: the attempt is classified, trips the breaker, is parsed.
Judge(s, page) ==
  LET t == Steps[op[s].step]
      class == Classify(Seen(t, page))
  IN /\ Trip(class)
     /\ IF class \notin {"normal", "empty"} THEN Conclude(s, class)
        ELSE IF ~Parses(t, page) THEN Conclude(s, "parse_changed")
        ELSE Answer(s)

FetchReply(s) ==
  /\ op[s].at = "fetching"
  /\ \E page \in Pages : Judge(s, page)
  /\ UNCHANGED <<now, session, gate, browserVars, history>>

\* The transports bound their requests: a timeout may come at any time.
FetchError(s) ==
  /\ op[s].at = "fetching"
  /\ \E class \in {"network_error", "timeout"} : Conclude(s, class)
  /\ UNCHANGED <<now, session, gate, openUntil, browserVars, history>>

\* A place of the semaphore; then the context is looked at.
TakeTab(s) ==
  /\ op[s].at = "slot" /\ Cardinality(tabs) < MaxTabs
  /\ IF Over(s) THEN Conclude(s, "timeout") /\ UNCHANGED tabs
     ELSE Goto(s, "browser") /\ tabs' = tabs \cup {s}
  /\ UNCHANGED <<now, session, gate, openUntil, starting, browserReady, history>>

SlotTimesOut(s) ==
  /\ op[s].at = "slot" /\ Over(s)
  /\ Conclude(s, "timeout")
  /\ UNCHANGED <<now, session, gate, openUntil, browserVars, history>>

\* ensureBrowser, under its mutex: whoever is first starts Chrome.
EnsureBrowser(s) ==
  /\ op[s].at = "browser" /\ starting = None
  /\ IF browserReady
     THEN Goto(s, "rendering") /\ UNCHANGED starting
     ELSE Goto(s, "starting") /\ starting' = s
  /\ UNCHANGED <<now, session, gate, openUntil, tabs, browserReady, history>>

\* Mutant of BrowserStarts: Chrome that fails to start leaves the mutex locked.
BrowserStartsLocked(s) ==
  /\ op[s].at = "starting"
  /\ \/ /\ browserReady' = TRUE /\ starting' = None
        /\ Goto(s, "rendering")
        /\ UNCHANGED tabs
     \/ /\ Conclude(s, "network_error")
        /\ tabs' = tabs \ {s}
        /\ UNCHANGED <<starting, browserReady>>
  /\ UNCHANGED <<now, session, gate, openUntil, history>>

\* Chrome has started, or it has not and the next search will try again; the
\* context of the search does not matter here.
BrowserStarts(s) ==
  /\ op[s].at = "starting"
  /\ starting' = None
  /\ \/ /\ browserReady' = TRUE
        /\ Goto(s, "rendering")
        /\ UNCHANGED tabs
     \/ /\ Conclude(s, "network_error")
        /\ tabs' = tabs \ {s}
        /\ UNCHANGED browserReady
  /\ UNCHANGED <<now, session, gate, openUntil, history>>

Rendered(s) ==
  /\ op[s].at = "rendering"
  /\ tabs' = tabs \ {s}
  /\ \E page \in Pages : Judge(s, page)
  /\ UNCHANGED <<now, session, gate, starting, browserReady, history>>

RenderError(s) ==
  /\ op[s].at = "rendering"
  /\ tabs' = tabs \ {s}
  /\ \E class \in {"network_error", "timeout"} : Conclude(s, class)
  /\ UNCHANGED <<now, session, gate, openUntil, starting, browserReady, history>>

-----------------------------------------------------------------------------

\* The context is cancelled, told where the search looks at it: the waits and
\* requests of the header pool may end at any time anyway.
Cancel(s) ==
  /\ s \in Impatient /\ ~Over(s)
  /\ op[s].at \in {"gate", "sleeping", "bootstrapping", "asking", "slot"}
  /\ op' = [op EXCEPT ![s].deadline = now]
  /\ UNCHANGED <<now, session, gate, openUntil, browserVars, history>>

\* Bound: what waits for nothing takes no time.
Tick ==
  /\ now < MaxTime
  /\ \A s \in Searches : op[s].at \notin {"choosing", "pacing"}
  /\ now' = now + 1
  /\ UNCHANGED <<session, gate, openUntil, browserVars, op, history>>

Init ==
  /\ now = 0
  /\ session = Cold
  /\ gate = None
  /\ openUntil = [t \in HeaderPool |-> 0]
  /\ tabs = {} /\ starting = None /\ browserReady = FALSE
  /\ op = [s \in Searches |-> Idle]
  /\ history = [ended |-> None, quiet |-> 0]

SearchStep(s) ==
  \/ TryHeaderPool(s) \/ Waited(s) \/ WaitFails(s)
  \/ EnterSession(s) \/ GateTimesOut(s) \/ Pace(s) \/ Awake(s) \/ SleepEnds(s)
  \/ SessionReply(s) \/ SessionError(s)
  \/ FetchReply(s) \/ FetchError(s)
  \/ TakeTab(s) \/ SlotTimesOut(s) \/ EnsureBrowser(s) \/ BrowserStarts(s)
  \/ Rendered(s) \/ RenderError(s)

Next == Tick \/ \E s \in Searches : Begin(s) \/ Cancel(s) \/ SearchStep(s)

Spec == Init /\ [][Next]_vars

\* Time passes, and some search that can take a step takes one: selects,
\* timers and mutexes are served, requests end with the context that bounds
\* them, and Chrome starts or fails to start.
FairSpec ==
  Spec /\ WF_vars(Tick) /\ WF_vars(\E s \in Searches : SearchStep(s))

-----------------------------------------------------------------------------

Places == Sleepy \cup InPool \cup {"idle", "gate", "bootstrapping", "done"}
Outcomes ==
  {"results", "captcha_required", "rate_limited", "upstream_timeout", "upstream_changed",
   "provider_unavailable"}

ASSUME NoneIsNothing == None \notin Nat /\ None \notin Outcomes /\ None \notin Risks

SessionType ==
  [state : {"cold", "warm", "cooling"}, client : BOOLEAN, lastFinished : Nat \cup {None},
   blockedUntil : Nat, blockedBy : Risks \cup {None}]
OpType ==
  [at : Places, step : DOMAIN Steps, deadline : Nat, until : Nat, tried : SUBSET Telling,
   outcome : Outcomes \cup {None}]

\* Every variable keeps its type; a session cools for a cause, a warm one has a
\* client, and a search that is done has an outcome.
TypeOK ==
  /\ now \in 0 .. MaxTime
  /\ session \in SessionType
  /\ session.state = "warm" => session.client
  /\ session.state = "cooling" <=> session.blockedBy \in Risks
  /\ gate \in Searches \cup {None} /\ starting \in Searches \cup {None}
  /\ tabs \subseteq Searches /\ browserReady \in BOOLEAN
  /\ openUntil \in [HeaderPool -> Nat]
  /\ op \in [Searches -> OpType]
  /\ \A s \in Searches : op[s].at = "done" <=> op[s].outcome # None
  /\ history \in [ended : Nat \cup {None}, quiet : Nat]

\* Two requests of the fixed session, whoever sent them and whatever became of
\* the session in between, are MinInterval apart; while one is out it is the
\* only one and the session has the client it is sent with (Fetch).
SessionPaced ==
  \A s \in Searches : op[s].at \in {"bootstrapping", "asking"} =>
    /\ \A r \in Searches \ {s} : ~InSession(op[r])
    /\ session.client
    /\ history.ended # None => op[s].until - RequestTimeout >= history.ended + MinInterval

\* After a page that shows a risk, to a bootstrap or to a search, the session
\* sends nothing until the cooldown of that page is over (handleCooling).
QuietAfterRisk ==
  \A s \in Searches : op[s].at \in {"bootstrapping", "asking"} =>
    op[s].until - RequestTimeout >= history.quiet

\* A search that met a captcha or a rate limit says so, whatever else failed
\* before it, and says it only then; it stopped at the first risk it met.  The
\* pool judges the profile by this code (buildSearchError).
RiskIsReported ==
  \A s \in Searches : op[s].at = "done" =>
    /\ Cardinality(op[s].tried \cap Risks) <= 1
    /\ op[s].outcome = "captcha_required" <=> "captcha" \in op[s].tried
    /\ op[s].outcome = "rate_limited" <=> "rate_limited" \in op[s].tried

\* The gate, the places for tabs and the mutex of the browser are held by the
\* searches that are where they need them, and by nobody else (Fetch,
\* fetchURL and ensureBrowser, on each of their returns).
NothingLeftBehind ==
  /\ \A s \in Searches : gate = s <=> InSession(op[s])
  /\ tabs = {s \in Searches : InTab(op[s])} /\ Cardinality(tabs) <= MaxTabs
  /\ \A s \in Searches : starting = s <=> op[s].at = "starting"

\* Every search that has begun ends, with results or an error (Search).
EverySearchEnds == <>[](\A s \in Searches : op[s].at \in {"idle", "done"})
=============================================================================
