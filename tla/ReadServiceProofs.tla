------------------------- MODULE ReadServiceProofs -------------------------
(***************************************************************************)
(* Theorems about ReadService for every set of callers, URLs, requests and *)
(* pages, every policy and all timeouts and limits.                        *)
(***************************************************************************)
EXTENDS ReadService, TLAPS

-----------------------------------------------------------------------------
(* The inductive invariant.                                                *)

Active(c) == op[c].at \notin {"none", "landed"}

\* An operation belongs to a caller that has joined it, asks for a URL that the
\* policy approved, and never ends as only a caller can.
OpShape(c) ==
  /\ op[c].at # "none" => pc[c] \in {"waiting", "done"} /\ joined[c] = c
  /\ Active(c) => op[c].url \in Approved
  /\ op[c].outcome # Failure("abandoned")
  /\ op[c].began <= now

\* Where a caller is, and where its answer came from.
CallerShape(c) ==
  /\ pc[c] # "idle" => req[c] \in Requests[c]
  /\ pc[c] = "joining" => req[c].url \in Approved
  /\ pc[c] \in {"idle", "joining"} => joined[c] = None
  /\ pc[c] = "waiting" => joined[c] # None
  /\ joined[c] # None =>
       /\ op[joined[c]].at # "none"
       /\ answer[c] # None => answer[c] = Failure("abandoned") \/ op[joined[c]].at = "landed"

\* A flight is the one operation under way for its URL.
FlightShape ==
  /\ \A c \in Callers : Active(c) => flight[req[c].url] = c
  /\ \A u \in URLs : flight[u] # None => Active(flight[u]) /\ req[flight[u]].url = u

IInv ==
  /\ TypeOK
  /\ \A c \in Callers : OpShape(c) /\ CallerShape(c)
  /\ FlightShape
  /\ OnlyArticlesAreKept

-----------------------------------------------------------------------------
(* Values.                                                                 *)

\* What OnlyArticlesAreKept says of one document.
Kept(d) ==
  /\ d.final \in Approved /\ d.page.shows \in {"article", "shell", "short"}
  /\ d.page.shows # "article" => d.via = "http" /\ d.page.kind = "text"
  /\ ~d.page.big
  /\ d.via = "http" => d.page.status = "ok" /\ d.page.kind # "other"

\* Failures differ from each other, from documents and from nothing.
LEMMA ResultFacts ==
  /\ \A a, b : Failure(a) = Failure(b) => a = b
  /\ \A a, x, y : Failure(a) # Served(x, y)
  /\ \A a \in Codes : Failure(a) \in Results
  /\ \A x \in Documents, y \in Transports : Served(x, y) \in Results
  /\ \A x, y : Served(x, y).document = x /\ "document" \in DOMAIN Served(x, y)
                 /\ "error" \notin DOMAIN Served(x, y)
  /\ \A a : "document" \notin DOMAIN Failure(a) /\ "error" \in DOMAIN Failure(a)
<1>1. \A a, b : Failure(a) = Failure(b) => a = b
  <2> TAKE a, b
  <2>1. Failure(a).error = a /\ Failure(b).error = b
    BY DEF Failure
  <2>2. QED BY <2>1
<1>2. \A x, y : Served(x, y).document = x /\ "document" \in DOMAIN Served(x, y)
                 /\ "error" \notin DOMAIN Served(x, y)
  BY DEF Served
<1>3. \A a : "document" \notin DOMAIN Failure(a) /\ "error" \in DOMAIN Failure(a)
  BY DEF Failure
<1>4. \A a, x, y : Failure(a) # Served(x, y)
  <2> TAKE a, x, y
  <2>1. QED BY <1>2, <1>3
<1>5. \A a \in Codes : Failure(a) \in Results
  BY DEF Results
<1>6. \A x \in Documents, y \in Transports : Served(x, y) \in Results
  BY DEF Served, Results
<1>7. QED BY <1>1, <1>2, <1>3, <1>4, <1>5, <1>6

\* An entry of the cache holds a document.
LEMMA EntryFacts ==
  ASSUME TypeOK, NEW u \in URLs, cache[u] # Absent
  PROVE  cache[u].stored \in 0 .. MaxTime /\ cache[u].document \in Documents
BY DEF TypeOK

\* An operation under way has a request, for a URL.
LEMMA OpFacts ==
  ASSUME IInv, NEW c \in Callers, op[c].at # "none"
  PROVE  /\ pc[c] \in {"waiting", "done"} /\ joined[c] = c
         /\ req[c] \in Requests[c] /\ req[c].url \in URLs
         /\ op[c] \in OpType /\ op \in [Callers -> OpType]
         /\ now \in 0 .. MaxTime /\ op[c].began \in 0 .. MaxTime /\ op[c].began <= now
<1>1. OpShape(c) /\ CallerShape(c) /\ TypeOK
  BY DEF IInv
<1>2. pc[c] \in {"waiting", "done"} /\ joined[c] = c /\ req[c] \in Requests[c]
  BY <1>1 DEF OpShape, CallerShape
<1>3. req[c].url \in URLs
  BY <1>2, ConstantsOK
<1>4. op[c] \in OpType /\ op \in [Callers -> OpType] /\ now \in 0 .. MaxTime
  BY <1>1 DEF TypeOK
<1>5. op[c].began \in 0 .. MaxTime /\ op[c].began <= now
  BY <1>1, <1>4 DEF OpType, OpShape
<1>6. QED BY <1>2, <1>3, <1>4, <1>5

-----------------------------------------------------------------------------
(* Steps of an operation.                                                  *)

\* An operation goes on: nobody else sees it.
Proceeds(c) ==
  /\ \E new \in OpType :
       /\ new.at \in Places \ {"none", "landed"} /\ new.outcome = None
       /\ new.url \in Approved /\ new.began = op[c].began
       /\ op' = [op EXCEPT ![c] = new]
  /\ UNCHANGED <<flight, cache>>

\* An operation lands with an outcome that is due; a document that was found
\* in time is in the cache.
Lands(c) ==
  \E outcome \in Results :
    /\ Land(c, outcome)
    /\ outcome # Failure("abandoned")
    /\ outcome = Failure("fetch_timeout") => now > op[c].began
    /\ \/ /\ UNCHANGED cache
          /\ ("document" \in DOMAIN outcome /\ now < op[c].began + OperationTimeout)
               => cache[req[c].url].document = outcome.document
       \/ \E d \in Documents :
            /\ Kept(d) /\ Store(req[c].url, d)
            /\ outcome = Served(d, d.via)

\* A failure is an outcome that is due.
LEMMA FailLands ==
  ASSUME IInv, NEW c \in Callers, Active(c), NEW code \in Codes, Fail(c, code),
         code # "abandoned", code = "fetch_timeout" => now > op[c].began
  PROVE  Lands(c)
<1>1. /\ Failure(code) \in Results /\ Failure(code) # Failure("abandoned")
      /\ Failure(code) = Failure("fetch_timeout") => code = "fetch_timeout"
      /\ "document" \notin DOMAIN Failure(code)
  BY ResultFacts
<1>2. Land(c, Failure(code)) /\ UNCHANGED cache
  BY DEF Fail
<1>3. QED BY <1>1, <1>2 DEF Lands

\* So is a document worth keeping.
LEMMA AcceptLands ==
  ASSUME IInv, NEW c \in Callers, Active(c), NEW d \in Documents, Kept(d), Accept(c, d)
  PROVE  Lands(c)
<1>1. d.via \in Transports
  BY DEF Documents, Transports
<1>2. /\ Served(d, d.via) \in Results /\ Served(d, d.via) # Failure("abandoned")
      /\ Served(d, d.via) # Failure("fetch_timeout")
  BY <1>1, ResultFacts
<1>3. Land(c, Served(d, d.via)) /\ IF Over(c) THEN UNCHANGED cache ELSE Store(req[c].url, d)
  BY DEF Accept
<1>4. Over(c) => ~ (now < op[c].began + OperationTimeout)
  <2>1. now \in Nat /\ op[c].began \in Nat /\ OperationTimeout \in Nat
    BY OpFacts, ConstantsOK DEF Active
  <2>2. QED BY <2>1 DEF Over
<1>5. QED BY <1>2, <1>3, <1>4 DEF Lands

\* The operation moves to another place with all it has.
LEMMA GotoProceeds ==
  ASSUME IInv, NEW c \in Callers, Active(c), NEW place \in Places \ {"none", "landed"},
         Goto(c, place), UNCHANGED <<flight, cache>>
  PROVE  Proceeds(c)
<1> DEFINE new == [op[c] EXCEPT !.at = place]
<1>1. op[c] \in OpType /\ op[c].outcome = None /\ op[c].url \in Approved
  BY OpFacts DEF IInv, OpShape, TypeOK, Active
<1>2. /\ new \in OpType /\ new.at = place /\ new.outcome = None /\ new.url \in Approved
      /\ new.began = op[c].began
  BY <1>1 DEF OpType
<1>3. op' = [op EXCEPT ![c] = new]
  BY DEF Goto
<1> HIDE DEF new
<1>4. QED BY <1>2, <1>3 DEF Proceeds

\* The browser takes over, or the operation fails.
LEMMA RenderOrEnds ==
  ASSUME IInv, NEW c \in Callers, Active(c), NEW code \in Codes, RenderOr(c, code),
         code \notin {"abandoned", "fetch_timeout"}
  PROVE  Proceeds(c) \/ Lands(c)
<1>1. CASE BrowserEnabled
  BY <1>1, GotoProceeds DEF RenderOr, Places
<1>2. CASE ~BrowserEnabled
  BY <1>2, FailLands DEF RenderOr
<1>3. QED BY <1>1, <1>2

\* The second look into the cache.
LEMMA LookAgainEnds ==
  ASSUME IInv, NEW c \in Callers, LookAgain(c)
  PROVE  Proceeds(c) \/ Lands(c)
<1>1. Active(c) /\ UNCHANGED cache
  BY DEF LookAgain, Active
<1>2. req[c].url \in URLs /\ TypeOK
  BY <1>1, OpFacts DEF Active, IInv
<1>3. CASE ~req[c].refresh /\ Get(~Over(c), req[c].url, FreshTTL)
  <2> DEFINE d == cache[req[c].url].document
  <2>1. d \in Documents
    BY <1>2, <1>3, EntryFacts DEF Get
  <2>2. /\ Served(d, "fresh_cache") \in Results /\ Served(d, "fresh_cache") # Failure("abandoned")
        /\ Served(d, "fresh_cache") # Failure("fetch_timeout")
        /\ Served(d, "fresh_cache").document = d
    BY <2>1, ResultFacts DEF Transports
  <2>3. Land(c, Served(d, "fresh_cache"))
    BY <1>3 DEF LookAgain
  <2>4. QED BY <1>1, <2>2, <2>3 DEF Lands
<1>4. CASE ~(~req[c].refresh /\ Get(~Over(c), req[c].url, FreshTTL))
  BY <1>1, <1>4, GotoProceeds DEF LookAgain, Places
<1>5. QED BY <1>3, <1>4

\* What is accepted from the HTTP reader is worth keeping, and whatever else it
\* brings is rendered or ends the operation.
LEMMA FetchedEnds ==
  ASSUME IInv, NEW c \in Callers, Active(c), NEW page \in Pages, JudgeFetched(c, page)
  PROVE  Proceeds(c) \/ Lands(c)
<1>1. /\ page \in [status : Statuses, kind : Kinds, big : BOOLEAN, shows : Shows]
      /\ page.shows = "signature" => page.kind = "html"
  BY ConstantsOK
<1>2. {"fetch_failed", "content_too_large", "unsupported_content_type", "captcha_required",
       "extraction_failed"} \subseteq Codes \ {"abandoned", "fetch_timeout"}
  BY DEF Codes
<1>3. CASE \E code \in {"fetch_failed", "captcha_required", "extraction_failed"} :
             RenderOr(c, code)
  BY <1>2, <1>3, RenderOrEnds
<1>4. CASE \E code \in {"fetch_failed", "content_too_large", "unsupported_content_type",
                        "captcha_required", "extraction_failed"} : Fail(c, code)
  BY <1>2, <1>4, FailLands
<1>5. ASSUME page.status = "ok", ~page.big, page.kind # "other", page.shows # "signature",
             page.shows # "nothing", Evaluate(page) = "accept",
             Accept(c, Document(page, op[c].url, "http"))
      PROVE  Lands(c)
  <2>1. op[c].url \in Approved /\ op[c].url \in URLs
    BY ConstantsOK DEF IInv, OpShape
  <2> DEFINE d == Document(page, op[c].url, "http")
  <2>2. d \in Documents /\ d.page = page /\ d.final = op[c].url /\ d.via = "http"
    BY <2>1 DEF Document, Documents
  <2>3. page.shows \in {"article", "shell", "short"}
    BY <1>1, <1>5 DEF Evaluate, Shows
  <2>4. page.shows # "article" => page.kind = "text"
    BY <1>1, <1>5, <2>3 DEF Evaluate, Kinds
  <2>5. Kept(d)
    BY <1>5, <2>1, <2>2, <2>3, <2>4 DEF Kept
  <2>6. Accept(c, d)
    BY <1>5
  <2> HIDE DEF d
  <2>7. QED BY <2>2, <2>5, <2>6, AcceptLands
<1>6. CASE page.status = "refused"
  BY <1>3, <1>6 DEF JudgeFetched
<1>7. CASE page.status = "failed"
  BY <1>4, <1>7 DEF JudgeFetched
<1>8. CASE page.status = "ok"
  <2>1. CASE page.big
    BY <1>4, <1>8, <2>1 DEF JudgeFetched
  <2>2. CASE ~page.big /\ page.kind = "other"
    BY <1>4, <1>8, <2>2 DEF JudgeFetched
  <2>3. CASE ~page.big /\ page.kind # "other"
    <3>1. CASE page.shows = "signature"
      BY <1>1, <1>3, <1>8, <2>3, <3>1 DEF JudgeFetched
    <3>2. CASE page.shows # "signature" /\ ~Extracts(c, page)
      BY <1>3, <1>8, <2>3, <3>2 DEF JudgeFetched
    <3>3. CASE page.shows # "signature" /\ Extracts(c, page) /\ Evaluate(page) = "render"
      BY <1>3, <1>8, <2>3, <3>3 DEF JudgeFetched
    <3>4. CASE page.shows # "signature" /\ Extracts(c, page) /\ Evaluate(page) = "reject"
      <4>1. Fail(c, Verdict(page))
        BY <1>8, <2>3, <3>4 DEF JudgeFetched
      <4>2. Verdict(page) \in {"captcha_required", "extraction_failed"}
        BY DEF Verdict
      <4>3. QED BY <1>4, <4>1, <4>2
    <3>5. CASE page.shows # "signature" /\ Extracts(c, page) /\ Evaluate(page) = "accept"
      <4>1. Accept(c, Document(page, op[c].url, "http"))
        BY <1>8, <2>3, <3>5 DEF JudgeFetched
      <4>2. QED BY <1>5, <1>8, <2>3, <3>5, <4>1 DEF Extracts
    <3>6. Evaluate(page) \in {"accept", "render", "reject"}
      BY DEF Evaluate
    <3>7. QED BY <3>1, <3>2, <3>3, <3>4, <3>5, <3>6
  <2>4. QED BY <2>1, <2>2, <2>3
<1>9. QED BY <1>1, <1>6, <1>7, <1>8 DEF Statuses

\* The same for what the browser shows.
LEMMA RenderedEnds ==
  ASSUME IInv, NEW c \in Callers, Active(c), NEW page \in Pages, NEW u \in URLs,
         NEW resolved \in BOOLEAN, JudgeRendered(c, page, u, resolved)
  PROVE  Lands(c)
<1> DEFINE seen == [page EXCEPT !.kind = "html"]
<1>1. page \in [status : Statuses, kind : Kinds, big : BOOLEAN, shows : Shows]
  BY ConstantsOK
<1>2. seen.kind = "html" /\ seen.shows = page.shows
  BY <1>1
<1>3. CASE \E code \in {"content_too_large", "unsafe_url", "fetch_failed", "captcha_required",
                        "extraction_failed"} : Fail(c, code)
  <2>1. {"fetch_failed", "content_too_large", "unsafe_url", "captcha_required",
         "extraction_failed"} \subseteq Codes \ {"abandoned", "fetch_timeout"}
    BY DEF Codes
  <2>2. QED BY <1>3, <2>1, FailLands
<1>4. CASE page.big
  BY <1>3, <1>4 DEF JudgeRendered
<1>5. CASE ~page.big /\ Objection(u, resolved) # None
  <2>1. Fail(c, Objection(u, resolved))
    BY <1>5 DEF JudgeRendered
  <2>2. Objection(u, resolved) \in {"unsafe_url", "fetch_failed"}
    BY <1>5 DEF Objection
  <2>3. QED BY <1>3, <2>1, <2>2
<1>6. CASE ~page.big /\ Objection(u, resolved) = None
  <2>1. CASE page.shows = "signature"
    BY <1>3, <1>6, <2>1 DEF JudgeRendered
  <2>2. CASE page.shows # "signature" /\ ~Extracts(c, page)
    BY <1>3, <1>6, <2>2 DEF JudgeRendered
  <2>3. CASE page.shows # "signature" /\ Extracts(c, page) /\ Evaluate(seen) # "accept"
    <3>1. Fail(c, Verdict(page))
      BY <1>6, <2>3 DEF JudgeRendered
    <3>2. Verdict(page) \in {"captcha_required", "extraction_failed"}
      BY DEF Verdict
    <3>3. QED BY <1>3, <3>1, <3>2
  <2>4. CASE page.shows # "signature" /\ Extracts(c, page) /\ Evaluate(seen) = "accept"
    <3> DEFINE d == Document(page, u, "chromedp")
    <3>1. Accept(c, d)
      BY <1>6, <2>4 DEF JudgeRendered
    <3>2. d \in Documents /\ d.page = page /\ d.final = u /\ d.via = "chromedp"
      BY DEF Document, Documents
    <3>3. u \in Approved
      <4>1. CASE u \notin Approved
        BY <1>6, <4>1, NoneIsNothing DEF Objection, Codes
      <4>2. QED BY <4>1
    <3>4. page.shows = "article"
      BY <1>1, <1>2, <2>4 DEF Evaluate, Extracts, Shows
    <3>5. Kept(d)
      BY <1>6, <3>2, <3>3, <3>4 DEF Kept
    <3> HIDE DEF d
    <3>6. QED BY <3>1, <3>2, <3>5, AcceptLands
  <2>5. QED BY <2>1, <2>2, <2>3, <2>4
<1>7. QED BY <1>4, <1>5, <1>6

\* A redirect is followed, refused, or one too many.
LEMMA RedirectEnds ==
  ASSUME IInv, NEW c \in Callers, Redirect(c)
  PROVE  Proceeds(c) \/ Lands(c)
<1>1. Active(c) /\ op[c].at = "fetching"
  BY DEF Redirect, Active
<1>2. PICK u \in URLs, resolved \in BOOLEAN :
        IF op[c].hops >= MaxRedirects THEN Fail(c, "fetch_failed")
        ELSE IF Objection(u, resolved) # None THEN Fail(c, Objection(u, resolved))
        ELSE /\ op' = [op EXCEPT ![c].url = u, ![c].hops = @ + 1]
             /\ UNCHANGED <<flight, cache>>
  BY DEF Redirect
<1>3. {"fetch_failed", "unsafe_url"} \subseteq Codes \ {"abandoned", "fetch_timeout"}
  BY DEF Codes
<1>4. CASE op[c].hops >= MaxRedirects
  BY <1>1, <1>2, <1>3, <1>4, FailLands
<1>5. CASE ~ (op[c].hops >= MaxRedirects) /\ Objection(u, resolved) # None
  <2>1. Objection(u, resolved) \in {"unsafe_url", "fetch_failed"}
    BY <1>5 DEF Objection
  <2>2. QED BY <1>1, <1>2, <1>3, <1>5, <2>1, FailLands
<1>6. CASE ~ (op[c].hops >= MaxRedirects) /\ Objection(u, resolved) = None
  <2> DEFINE new == [op[c] EXCEPT !.url = u, !.hops = @ + 1]
  <2>1. op[c] \in OpType /\ op[c].outcome = None
    BY <1>1, OpFacts DEF IInv, TypeOK
  <2>2. op[c].hops + 1 \in 0 .. MaxRedirects
    BY <1>6, <2>1, ConstantsOK DEF OpType
  <2>3. u \in Approved
    BY <1>6, NoneIsNothing DEF Objection, Codes
  <2>4. /\ new \in OpType /\ new.at = "fetching" /\ new.outcome = None /\ new.url \in Approved
        /\ new.began = op[c].began
    BY <1>1, <2>1, <2>2, <2>3 DEF OpType
  <2>5. op' = [op EXCEPT ![c] = new] /\ UNCHANGED <<flight, cache>>
    BY <1>2, <1>6
  <2> HIDE DEF new
  <2>6. QED BY <2>4, <2>5 DEF Proceeds, Places
<1>7. QED BY <1>4, <1>5, <1>6

\* The readers' own failures are due only after a timeout of theirs.
LEMMA ErrorEnds ==
  ASSUME IInv, NEW c \in Callers, FetchError(c) \/ RenderError(c)
  PROVE  Lands(c)
<1>1. Active(c)
  BY DEF FetchError, RenderError, Active
<1>2. {"fetch_failed", "fetch_timeout"} \subseteq Codes \ {"abandoned"}
  BY DEF Codes
<1>3. CASE Fail(c, "fetch_failed")
  BY <1>1, <1>2, <1>3, FailLands
<1>4. CASE ~Fail(c, "fetch_failed")
  <2>1. /\ now \in Nat /\ op[c].began \in Nat
        /\ OperationTimeout \in Nat \ {0}
    BY <1>1, OpFacts, ConstantsOK DEF Active
  <2>2. Fail(c, "fetch_timeout") /\ now > op[c].began
    BY <1>4, <2>1 DEF FetchError, RenderError, Over
  <2>3. QED BY <1>1, <1>2, <2>2, FailLands
<1>5. QED BY <1>3, <1>4

\* Every step of an operation is one of the two.
LEMMA OpStepEnds ==
  ASSUME IInv, NEW c \in Callers, OpStep(c)
  PROVE  Active(c) /\ (Proceeds(c) \/ Lands(c)) /\ UNCHANGED <<now, callerVars, alive>>
<1>1. CASE LookAgain(c)
  <2>1. Active(c) /\ UNCHANGED <<now, callerVars, alive>>
    BY <1>1 DEF LookAgain, Active
  <2>2. QED BY <1>1, <2>1, LookAgainEnds
<1>2. CASE FetchReply(c)
  <2>1. Active(c) /\ UNCHANGED <<now, callerVars, alive>>
    BY <1>2 DEF FetchReply, Active
  <2>2. QED BY <1>2, <2>1, FetchedEnds DEF FetchReply
<1>3. CASE Redirect(c)
  <2>1. Active(c) /\ UNCHANGED <<now, callerVars, alive>>
    BY <1>3 DEF Redirect, Active
  <2>2. QED BY <1>3, <2>1, RedirectEnds
<1>4. CASE Rendered(c)
  <2>1. Active(c) /\ UNCHANGED <<now, callerVars, alive>>
    BY <1>4 DEF Rendered, Active
  <2>2. QED BY <1>4, <2>1, RenderedEnds DEF Rendered
<1>5. CASE FetchError(c) \/ RenderError(c)
  <2>1. Active(c) /\ UNCHANGED <<now, callerVars, alive>>
    BY <1>5 DEF FetchError, RenderError, Active
  <2>2. QED BY <1>5, <2>1, ErrorEnds
<1>6. QED BY <1>1, <1>2, <1>3, <1>4, <1>5 DEF OpStep

\* A landed operation, and the end of its flight.
LEMMA LandFacts ==
  ASSUME IInv, NEW c \in Callers, Active(c), NEW outcome \in Results, Land(c, outcome),
         outcome # Failure("abandoned"), UNCHANGED <<now, callerVars>>
  PROVE  /\ op' \in [Callers -> OpType] /\ \A d \in Callers \ {c} : op'[d] = op[d]
         /\ op'[c].at = "landed" /\ op'[c].outcome = outcome
         /\ op'[c].began = op[c].began /\ op[c].began <= now
         /\ flight' = [flight EXCEPT ![req[c].url] = None]
         /\ req[c].url \in URLs /\ flight[req[c].url] = c
<1>1. /\ op[c] \in OpType /\ op \in [Callers -> OpType] /\ req[c].url \in URLs
      /\ op[c].began \in 0 .. MaxTime /\ op[c].began <= now /\ flight[req[c].url] = c
  BY OpFacts DEF Active, IInv, FlightShape
<1> DEFINE new == [Idle EXCEPT !.at = "landed", !.outcome = outcome, !.began = op[c].began]
<1>2. new \in [at : {"landed"}, url : {None}, hops : {0}, began : {op[c].began},
              outcome : {outcome}]
  <2>1. Idle \in [at : {"none"}, url : {None}, hops : {0}, began : {0}, outcome : {None}]
    BY DEF Idle
  <2>2. QED BY <2>1
<1>3. op' = [op EXCEPT ![c] = new] /\ flight' = [flight EXCEPT ![req[c].url] = None]
  BY DEF Land
<1> HIDE DEF new
<1>4. new \in OpType
  BY <1>1, <1>2, ConstantsOK DEF OpType, Places
<1>5. op' \in [Callers -> OpType] /\ op'[c] = new /\ \A d \in Callers \ {c} : op'[d] = op[d]
  BY <1>1, <1>3, <1>4
<1>6. QED BY <1>1, <1>2, <1>3, <1>5

\* An operation that goes on keeps what others see of it.
LEMMA ProceedFacts ==
  ASSUME IInv, NEW c \in Callers, Proceeds(c), Active(c)
  PROVE  /\ op' \in [Callers -> OpType] /\ \A d \in Callers \ {c} : op'[d] = op[d]
         /\ op'[c].at \notin {"none", "landed"} /\ op'[c].outcome = None
         /\ op'[c].url \in Approved
         /\ op'[c].began = op[c].began /\ op[c].began <= now
         /\ UNCHANGED <<flight, cache>>
<1>1. op \in [Callers -> OpType] /\ op[c].began <= now
  BY OpFacts DEF Active
<1>2. PICK new \in OpType :
        /\ new.at \in Places \ {"none", "landed"} /\ new.outcome = None
        /\ new.url \in Approved /\ new.began = op[c].began
        /\ op' = [op EXCEPT ![c] = new]
  BY DEF Proceeds
<1>3. op' \in [Callers -> OpType] /\ op'[c] = new /\ \A d \in Callers \ {c} : op'[d] = op[d]
  BY <1>1, <1>2
<1>4. QED BY <1>1, <1>2, <1>3 DEF Proceeds

\* Storing a document keeps the rest of the cache or drops an entry of it.
LEMMA StoreFacts ==
  ASSUME TypeOK, NEW u \in URLs, NEW d \in Documents, Store(u, d)
  PROVE  /\ cache' \in [URLs -> [stored : 0 .. MaxTime, document : Documents] \cup {Absent}]
         /\ cache'[u].document = d
         /\ \A v \in URLs \ {u} : cache'[v] \in {cache[v], Absent}
<1> DEFINE held == {v \in URLs : cache[v] # Absent}
           new == [stored |-> now, document |-> d]
<1>1. \/ cache' = [cache EXCEPT ![u] = new]
      \/ \E old \in URLs : cache' = [cache EXCEPT ![old] = Absent, ![u] = new]
  BY DEF Store, Oldest
<1>2. new \in [stored : 0 .. MaxTime, document : Documents] /\ new.document = d
  BY DEF TypeOK
<1>3. cache \in [URLs -> [stored : 0 .. MaxTime, document : Documents] \cup {Absent}]
  BY DEF TypeOK
<1> HIDE DEF new
<1>4. CASE cache' = [cache EXCEPT ![u] = new]
  BY <1>2, <1>3, <1>4
<1>5. CASE \E old \in URLs : cache' = [cache EXCEPT ![old] = Absent, ![u] = new]
  <2>1. PICK old \in URLs : cache' = [cache EXCEPT ![old] = Absent, ![u] = new]
    BY <1>5
  <2>2. QED BY <1>2, <1>3, <2>1
<1>6. QED BY <1>1, <1>4, <1>5

\* The cache keeps its type and its articles.
LEMMA CacheStays ==
  ASSUME IInv, NEW c \in Callers, Active(c), Proceeds(c) \/ Lands(c)
  PROVE  /\ cache' \in [URLs -> [stored : 0 .. MaxTime, document : Documents] \cup {Absent}]
         /\ OnlyArticlesAreKept'
<1>1. TypeOK /\ OnlyArticlesAreKept /\ req[c].url \in URLs
  BY OpFacts DEF IInv, Active
<1>2. CASE UNCHANGED cache
  BY <1>1, <1>2 DEF TypeOK, OnlyArticlesAreKept
<1>3. CASE \E d \in Documents : Kept(d) /\ Store(req[c].url, d)
  <2>1. PICK d \in Documents : Kept(d) /\ Store(req[c].url, d)
    BY <1>3
  <2>2. /\ cache' \in [URLs -> [stored : 0 .. MaxTime, document : Documents] \cup {Absent}]
        /\ cache'[req[c].url].document = d
        /\ \A v \in URLs \ {req[c].url} : cache'[v] \in {cache[v], Absent}
    BY <1>1, <2>1, StoreFacts
  <2>3. ASSUME NEW v \in URLs, cache'[v] # Absent PROVE Kept(cache'[v].document)
    <3>1. CASE v = req[c].url
      BY <2>1, <2>2, <3>1
    <3>2. CASE v # req[c].url
      BY <1>1, <2>2, <2>3, <3>2 DEF OnlyArticlesAreKept, Kept
    <3>3. QED BY <3>1, <3>2
  <2>4. QED BY <2>2, <2>3 DEF OnlyArticlesAreKept, Kept
<1>4. QED BY <1>2, <1>3 DEF Proceeds, Lands

\* What the others see of a step of an operation: it goes on, or it has landed
\* and its URL is free.
SeenStep(c) ==
  /\ op' \in [Callers -> OpType] /\ \A d \in Callers \ {c} : op'[d] = op[d]
  /\ op'[c].began = op[c].began /\ op[c].began <= now
  /\ op'[c].at # "none" /\ op'[c].outcome # Failure("abandoned")
  /\ op'[c].at = "landed" <=> op'[c].outcome # None
  /\ \/ op'[c].at # "landed" /\ op'[c].url \in Approved /\ UNCHANGED flight
     \/ /\ op'[c].at = "landed"
        /\ flight' = [flight EXCEPT ![req[c].url] = None]
        /\ flight[req[c].url] = c

LEMMA StepSeen ==
  ASSUME IInv, NEW c \in Callers, OpStep(c)
  PROVE  SeenStep(c) /\ req[c].url \in URLs
<1>1. Active(c) /\ (Proceeds(c) \/ Lands(c)) /\ UNCHANGED <<now, callerVars, alive>>
  BY OpStepEnds
<1>2. req[c].url \in URLs
  BY <1>1, OpFacts DEF Active
<1>3. CASE Proceeds(c)
  <2>1. None # Failure("abandoned")
    BY ResultFacts, NoneIsNothing DEF Codes
  <2>2. QED BY <1>1, <1>2, <1>3, <2>1, ProceedFacts DEF SeenStep
<1>4. CASE Lands(c)
  <2>1. PICK outcome \in Results : Land(c, outcome) /\ outcome # Failure("abandoned")
    BY <1>4 DEF Lands
  <2>2. outcome # None
    BY NoneIsNothing
  <2>3. QED BY <1>1, <1>2, <2>1, <2>2, LandFacts DEF SeenStep
<1>5. QED BY <1>1, <1>3, <1>4

\* An operation takes a step.
LEMMA OpStepInv ==
  ASSUME IInv, NEW c \in Callers, OpStep(c)
  PROVE  IInv'
<1>1. Active(c) /\ (Proceeds(c) \/ Lands(c)) /\ UNCHANGED <<now, callerVars, alive>>
  BY OpStepEnds
<1>2. SeenStep(c) /\ req[c].url \in URLs
  BY StepSeen
<1>3. TypeOK /\ pc[c] \in {"waiting", "done"} /\ joined[c] = c
  BY <1>1, OpFacts DEF IInv, Active
<1>4. /\ cache' \in [URLs -> [stored : 0 .. MaxTime, document : Documents] \cup {Absent}]
      /\ OnlyArticlesAreKept'
  BY <1>1, CacheStays
<1>5. flight' \in [URLs -> Callers \cup {None}]
  BY <1>2, <1>3 DEF SeenStep, TypeOK
<1>6. TypeOK'
  <2>1. \A d \in Callers : (pc'[d] = "done" <=> answer'[d] # None)
                             /\ (op'[d].at = "landed" <=> op'[d].outcome # None)
    BY <1>1, <1>2, <1>3 DEF TypeOK, SeenStep, callerVars
  <2>2. QED BY <1>1, <1>2, <1>3, <1>4, <1>5, <2>1 DEF TypeOK, SeenStep, callerVars
<1>7. ASSUME NEW d \in Callers PROVE OpShape(d)' /\ CallerShape(d)'
  <2>1. OpShape(d) /\ CallerShape(d)
    BY DEF IInv
  <2>2. OpShape(d)'
    <3>1. CASE d = c
      BY <1>1, <1>2, <1>3, <3>1 DEF OpShape, SeenStep, Active, callerVars
    <3>2. CASE d # c
      BY <1>1, <1>2, <2>1, <3>2 DEF OpShape, SeenStep, Active, callerVars
    <3>3. QED BY <3>1, <3>2
  <2>3. CallerShape(d)'
    <3>1. joined[d] # None => joined[d] \in Callers
      BY <1>3 DEF TypeOK
    <3>2. ASSUME joined[d] # None
          PROVE  /\ op'[joined[d]].at # "none"
                 /\ op[joined[d]].at = "landed" => op'[joined[d]].at = "landed"
      BY <1>1, <1>2, <2>1, <3>1, <3>2 DEF CallerShape, SeenStep, Active
    <3>3. QED BY <1>1, <2>1, <3>2 DEF CallerShape, callerVars
  <2>4. QED BY <2>2, <2>3
<1>8. FlightShape'
  <2>1. FlightShape /\ flight \in [URLs -> Callers \cup {None}] /\ req' = req
    BY <1>1, <1>3 DEF IInv, TypeOK, callerVars
  <2>2. \A d \in Callers \ {c} : Active(d)' <=> Active(d)
    BY <1>2 DEF Active, SeenStep
  <2>3. \A d \in Callers : Active(d) => req[d].url \in URLs
    BY OpFacts DEF Active
  <2>4. CASE op'[c].at # "landed" /\ UNCHANGED flight
    <3>1. Active(c)'
      BY <1>2, <2>4 DEF Active, SeenStep
    <3>2. \A d \in Callers : Active(d)' <=> Active(d)
      BY <1>1, <2>2, <3>1
    <3>3. ASSUME NEW d \in Callers, Active(d)' PROVE flight'[req'[d].url] = d
      BY <2>1, <2>4, <3>2, <3>3 DEF FlightShape
    <3>4. ASSUME NEW u \in URLs, flight'[u] # None
          PROVE  (Active(flight[u]) /\ req[flight[u]].url = u)'
      <4>1. flight[u] \in Callers /\ Active(flight[u]) /\ req[flight[u]].url = u /\ flight'[u] = flight[u]
        BY <2>1, <2>4, <3>4 DEF FlightShape
      <4>2. op'[flight[u]].at \notin {"none", "landed"}
        BY <3>2, <4>1 DEF Active
      <4>3. QED BY <2>1, <4>1, <4>2 DEF Active
    <3>5. QED BY <3>3, <3>4 DEF FlightShape
  <2>5. CASE op'[c].at = "landed" /\ flight' = [flight EXCEPT ![req[c].url] = None]
    <3>1. ~Active(c)' /\ flight[req[c].url] = c
      BY <1>1, <2>1, <2>5 DEF Active, FlightShape
    <3>2. ASSUME NEW d \in Callers, Active(d)' PROVE flight'[req'[d].url] = d
      <4>1. d # c /\ Active(d) /\ flight[req[d].url] = d /\ req[d].url \in URLs
        BY <2>1, <2>2, <2>3, <3>1, <3>2 DEF FlightShape
      <4>2. req[d].url # req[c].url
        BY <3>1, <4>1
      <4>3. QED BY <2>1, <2>5, <4>1, <4>2
    <3>3. ASSUME NEW u \in URLs, flight'[u] # None
          PROVE  (Active(flight[u]) /\ req[flight[u]].url = u)'
      <4>1. u # req[c].url /\ flight'[u] = flight[u]
        BY <1>2, <2>1, <2>5, <3>3
      <4>2. flight[u] \in Callers /\ Active(flight[u]) /\ req[flight[u]].url = u
        BY <2>1, <3>3, <4>1 DEF FlightShape
      <4>3. flight[u] # c
        BY <4>1, <4>2
      <4>4. op'[flight[u]].at \notin {"none", "landed"}
        BY <2>2, <4>2, <4>3 DEF Active
      <4>5. QED BY <2>1, <4>1, <4>2, <4>4 DEF Active
    <3>4. QED BY <3>2, <3>3 DEF FlightShape
  <2>6. QED BY <1>2, <2>4, <2>5 DEF SeenStep
<1>9. QED BY <1>4, <1>6, <1>7, <1>8 DEF IInv

-----------------------------------------------------------------------------
(* Steps of a caller.                                                      *)

\* What is served from the cache, and what a caller may return, are results.
LEMMA AnswerFacts ==
  ASSUME TypeOK, NEW u \in URLs, NEW live, NEW ttl, Get(live, u, ttl)
  PROVE  /\ Served(cache[u].document, "fresh_cache") \in Results
         /\ Served(cache[u].document, "stale_cache") \in Results
BY EntryFacts, ResultFacts DEF Get, Transports

\* A caller that moves alone, and the operations and flights stay.
LEMMA CallerMoves ==
  ASSUME IInv, NEW c \in Callers, NEW place \in {"joining", "done"},
         NEW r \in Requests[c], NEW result \in Results \cup {None},
         pc[c] \in {"idle", "waiting"},
         pc' = [pc EXCEPT ![c] = place], req' = [req EXCEPT ![c] = r],
         answer' = [answer EXCEPT ![c] = result],
         place = "done" <=> result # None,
         place = "joining" => r.url \in Approved /\ pc[c] = "idle",
         pc[c] = "waiting" =>
           /\ place = "done" /\ r = req[c]
           /\ result = Failure("abandoned") \/ op[joined[c]].at = "landed",
         UNCHANGED <<now, cache, joined, alive, flight, op>>
  PROVE  IInv'
<1>1. TypeOK /\ r \in [url : URLs, refresh : BOOLEAN]
  BY ConstantsOK DEF IInv
<1>2. /\ pc'[c] = place /\ req'[c] = r /\ answer'[c] = result
      /\ \A d \in Callers \ {c} : pc'[d] = pc[d] /\ req'[d] = req[d] /\ answer'[d] = answer[d]
  BY <1>1 DEF TypeOK
<1>3. TypeOK'
  <2>1. /\ pc' \in [Callers -> {"idle", "joining", "waiting", "done"}]
        /\ req' \in [Callers -> [url : URLs, refresh : BOOLEAN] \cup {None}]
        /\ answer' \in [Callers -> Results \cup {None}]
    BY <1>1 DEF TypeOK
  <2>2. \A d \in Callers : pc'[d] = "done" <=> answer'[d] # None
    BY <1>1, <1>2 DEF TypeOK
  <2>3. QED BY <1>1, <2>1, <2>2 DEF TypeOK
<1>4. op[c].at # "none" => pc[c] = "waiting"
  BY DEF IInv, OpShape
<1>5. ASSUME NEW d \in Callers PROVE OpShape(d)' /\ CallerShape(d)'
  <2>1. OpShape(d) /\ CallerShape(d)
    BY DEF IInv
  <2>2. OpShape(d)'
    <3>1. CASE d = c
      BY <1>2, <1>4, <2>1, <3>1 DEF OpShape, Active
    <3>2. CASE d # c
      BY <1>2, <2>1, <3>2 DEF OpShape, Active
    <3>3. QED BY <3>1, <3>2
  <2>3. CallerShape(d)'
    <3>1. CASE d = c
      BY <1>2, <2>1, <3>1 DEF CallerShape
    <3>2. CASE d # c
      BY <1>2, <2>1, <3>2 DEF CallerShape
    <3>3. QED BY <3>1, <3>2
  <2>4. QED BY <2>2, <2>3
<1>6. FlightShape'
  <2>1. FlightShape /\ flight \in [URLs -> Callers \cup {None}]
    BY <1>1 DEF IInv, TypeOK
  <2>2. \A d \in Callers : Active(d) => req'[d] = req[d]
    BY <1>2, <1>4 DEF Active
  <2>3. ASSUME NEW d \in Callers, Active(d)' PROVE flight'[req'[d].url] = d
    BY <2>1, <2>2, <2>3 DEF FlightShape, Active
  <2>4. ASSUME NEW u \in URLs, flight'[u] # None
        PROVE  (Active(flight[u]) /\ req[flight[u]].url = u)'
    BY <2>1, <2>2, <2>4 DEF FlightShape, Active
  <2>5. QED BY <2>3, <2>4 DEF FlightShape
<1>7. OnlyArticlesAreKept'
  BY DEF IInv, OnlyArticlesAreKept
<1>8. QED BY <1>3, <1>5, <1>6, <1>7 DEF IInv

\* A request is refused, answered from the cache, or joins.
LEMMA SubmitInv ==
  ASSUME IInv, NEW c \in Callers, Submit(c)
  PROVE  IInv'
<1>1. pc[c] = "idle" /\ answer[c] = None /\ TypeOK
  BY DEF Submit, IInv, TypeOK
<1>2. PICK r \in Requests[c], resolved \in BOOLEAN :
        /\ req' = [req EXCEPT ![c] = r]
        /\ IF Objection(r.url, resolved) # None
           THEN Return(c, Failure("unsafe_url"))
           ELSE IF ~r.refresh /\ Get(alive[c], r.url, FreshTTL)
           THEN Return(c, Served(cache[r.url].document, "fresh_cache"))
           ELSE pc' = [pc EXCEPT ![c] = "joining"] /\ UNCHANGED answer
  BY DEF Submit
<1>3. UNCHANGED <<now, cache, joined, alive, flight, op>> /\ r.url \in URLs
  BY <1>2, ConstantsOK DEF Submit
<1>4. ASSUME NEW result \in Results, Return(c, result) PROVE IInv'
  <2>1. result # None
    BY NoneIsNothing
  <2>2. QED BY <1>1, <1>2, <1>3, <1>4, <2>1, CallerMoves DEF Return
<1>5. CASE Objection(r.url, resolved) # None
  <2>1. Failure("unsafe_url") \in Results
    BY ResultFacts DEF Codes
  <2>2. QED BY <1>2, <1>4, <1>5, <2>1
<1>6. CASE Objection(r.url, resolved) = None /\ ~r.refresh /\ Get(alive[c], r.url, FreshTTL)
  BY <1>1, <1>2, <1>3, <1>4, <1>6, AnswerFacts
<1>7. CASE Objection(r.url, resolved) = None /\ ~(~r.refresh /\ Get(alive[c], r.url, FreshTTL))
  <2>1. r.url \in Approved
    BY <1>7, NoneIsNothing DEF Objection, Codes
  <2>2. pc' = [pc EXCEPT ![c] = "joining"] /\ answer' = [answer EXCEPT ![c] = None]
    BY <1>1, <1>2, <1>7 DEF TypeOK
  <2>3. QED BY <1>1, <1>2, <1>3, <2>1, <2>2, CallerMoves
<1>8. QED BY <1>5, <1>6, <1>7

\* A caller that waits has a request and joined an operation.
LEMMA WaiterFacts ==
  ASSUME IInv, NEW c \in Callers, pc[c] = "waiting"
  PROVE  /\ joined[c] \in Callers /\ answer[c] = None
         /\ req[c] \in Requests[c] /\ req[c].url \in URLs
         /\ req \in [Callers -> [url : URLs, refresh : BOOLEAN] \cup {None}]
         /\ op[joined[c]].at # "none" /\ op[joined[c]].outcome # Failure("abandoned")
         /\ op[joined[c]].at = "landed" => op[joined[c]].outcome \in Results
<1>1. TypeOK /\ CallerShape(c)
  BY DEF IInv
<1>2. /\ joined[c] \in Callers /\ answer[c] = None /\ req[c] \in Requests[c]
      /\ req \in [Callers -> [url : URLs, refresh : BOOLEAN] \cup {None}]
      /\ op[joined[c]].at # "none"
  BY <1>1 DEF TypeOK, CallerShape
<1>3. req[c].url \in URLs
  BY <1>2, ConstantsOK
<1>4. op[joined[c]].outcome # Failure("abandoned")
  BY <1>2 DEF IInv, OpShape
<1>5. op[joined[c]].at = "landed" => op[joined[c]].outcome \in Results
  BY <1>1, <1>2 DEF TypeOK, OpType
<1>6. QED BY <1>2, <1>3, <1>4, <1>5

\* What a caller makes of an outcome is that outcome, or an answer of its own.
LEMMA ReceiveFacts ==
  ASSUME IInv, NEW c \in Callers, Receive(c)
  PROVE  \E result \in Results :
           Return(c, result) /\ op[joined[c]].at = "landed" /\ pc[c] = "waiting"
<1>1. pc[c] = "waiting" /\ op[joined[c]].at = "landed" /\ TypeOK
  BY DEF Receive, IInv
<1>2. op[joined[c]].outcome \in Results /\ req[c].url \in URLs
  BY <1>1, WaiterFacts
<1>3. CASE "error" \in DOMAIN op[joined[c]].outcome /\ Get(alive[c], req[c].url, StaleTTL)
  BY <1>1, <1>2, <1>3, AnswerFacts DEF Receive
<1>4. CASE "error" \in DOMAIN op[joined[c]].outcome /\ ~Get(alive[c], req[c].url, StaleTTL)
  BY <1>1, <1>2, <1>4 DEF Receive
<1>5. CASE "error" \notin DOMAIN op[joined[c]].outcome
  <2>1. Failure("extraction_failed") \in Results
    BY ResultFacts DEF Codes
  <2>2. QED BY <1>1, <1>2, <1>5, <2>1 DEF Receive
<1>6. QED BY <1>3, <1>4, <1>5

\* A caller takes its answer, or leaves.
LEMMA LeaveInv ==
  ASSUME IInv, NEW c \in Callers, Receive(c) \/ Abandon(c)
  PROVE  IInv'
<1>1. PICK result \in Results :
        /\ Return(c, result) /\ pc[c] = "waiting"
        /\ result = Failure("abandoned") \/ op[joined[c]].at = "landed"
  <2>1. Failure("abandoned") \in Results
    BY ResultFacts DEF Codes
  <2>2. CASE Receive(c)
    BY <2>2, ReceiveFacts
  <2>3. CASE Abandon(c)
    BY <2>1, <2>3 DEF Abandon
  <2>4. QED BY <2>2, <2>3
<1>2. UNCHANGED <<now, cache, req, joined, alive, flight, op>>
  BY DEF Receive, Abandon
<1>3. /\ pc' = [pc EXCEPT ![c] = "done"] /\ answer' = [answer EXCEPT ![c] = result]
      /\ req' = [req EXCEPT ![c] = req[c]] /\ req[c] \in Requests[c] /\ result # None
  BY <1>1, <1>2, WaiterFacts, NoneIsNothing DEF Return
<1>4. QED BY <1>1, <1>2, <1>3, CallerMoves

\* What Join does to the flights and the operations.
LEMMA JoinFacts ==
  ASSUME IInv, NEW c \in Callers, Join(c)
  PROVE  /\ pc[c] = "joining" /\ joined[c] = None /\ answer[c] = None /\ op[c].at = "none"
         /\ req[c] \in Requests[c] /\ req[c].url \in URLs /\ req[c].url \in Approved
         /\ pc' = [pc EXCEPT ![c] = "waiting"]
         /\ UNCHANGED <<now, cache, req, answer, alive>>
         /\ flight[req[c].url] = None =>
              /\ joined' = [joined EXCEPT ![c] = c]
              /\ flight' = [flight EXCEPT ![req[c].url] = c]
              /\ op' = [op EXCEPT ![c].at = "looking", ![c].url = req[c].url, ![c].began = now]
         /\ flight[req[c].url] # None =>
              /\ joined' = [joined EXCEPT ![c] = flight[req[c].url]]
              /\ flight' = flight /\ op' = op
<1>1. pc[c] = "joining" /\ TypeOK /\ OpShape(c) /\ CallerShape(c)
  BY DEF Join, IInv
<1>2. joined[c] = None /\ answer[c] = None /\ op[c].at = "none"
  BY <1>1 DEF TypeOK, OpShape, CallerShape
<1>3. req[c] \in Requests[c] /\ req[c].url \in URLs /\ req[c].url \in Approved
  BY <1>1, ConstantsOK DEF CallerShape
<1>4. flight \in [URLs -> Callers \cup {None}]
  BY <1>1 DEF TypeOK
<1>5. flight[req[c].url] # None => flight' = flight
  BY <1>3, <1>4 DEF Join
<1>6. QED BY <1>1, <1>2, <1>3, <1>5 DEF Join

\* The first caller starts an operation; nobody else's changes.
LEMMA JoinMoves ==
  ASSUME IInv, NEW c \in Callers, Join(c)
  PROVE  /\ op' \in [Callers -> OpType] /\ \A d \in Callers \ {c} : op'[d] = op[d]
         /\ op'[c].outcome = None /\ op'[c].began <= now
         /\ flight[req[c].url] = None => op'[c].at = "looking" /\ op'[c].url = req[c].url
         /\ flight[req[c].url] # None => op'[c] = op[c]
<1>1. /\ TypeOK /\ op \in [Callers -> OpType] /\ op[c] \in OpType /\ op[c].at = "none"
      /\ op[c].outcome = None /\ req[c].url \in URLs /\ now \in 0 .. MaxTime /\ op[c].began <= now
  BY JoinFacts DEF IInv, TypeOK, OpShape
<1>2. CASE flight[req[c].url] = None
  <2> DEFINE new == [op[c] EXCEPT !.at = "looking", !.url = req[c].url, !.began = now]
  <2>1. op' = [op EXCEPT ![c] = new]
    <3>1. op' = [op EXCEPT ![c].at = "looking", ![c].url = req[c].url, ![c].began = now]
      BY <1>2, JoinFacts
    <3>2. QED BY <1>1, <3>1
  <2>2. /\ new \in OpType /\ new.at = "looking" /\ new.url = req[c].url /\ new.began = now
        /\ new.outcome = None
    BY <1>1 DEF OpType, Places
  <2> HIDE DEF new
  <2>3. op'[c] = new /\ op' \in [Callers -> OpType] /\ \A d \in Callers \ {c} : op'[d] = op[d]
    BY <1>1, <2>1, <2>2
  <2>4. now <= now
    BY <1>1, ConstantsOK
  <2>5. QED BY <1>2, <2>2, <2>3, <2>4
<1>3. CASE flight[req[c].url] # None
  BY <1>1, <1>3, JoinFacts
<1>4. QED BY <1>2, <1>3

\* A caller joins.
LEMMA JoinInv ==
  ASSUME IInv, NEW c \in Callers, Join(c)
  PROVE  IInv'
<1> DEFINE u == req[c].url
<1>1. /\ TypeOK /\ FlightShape /\ u \in URLs /\ c # None
      /\ flight \in [URLs -> Callers \cup {None}] /\ joined \in [Callers -> Callers \cup {None}]
  BY JoinFacts, ConstantsOK DEF IInv, TypeOK
<1>2. /\ UNCHANGED <<now, cache, req, answer, alive>> /\ pc[c] = "joining"
      /\ pc'[c] = "waiting" /\ \A d \in Callers \ {c} : pc'[d] = pc[d] /\ joined'[d] = joined[d]
      /\ pc' \in [Callers -> {"idle", "joining", "waiting", "done"}]
      /\ flight' \in [URLs -> Callers \cup {None}] /\ joined' \in [Callers -> Callers \cup {None}]
  <2>1. /\ pc' = [pc EXCEPT ![c] = "waiting"] /\ pc[c] = "joining"
        /\ UNCHANGED <<now, cache, req, answer, alive>>
    BY JoinFacts
  <2>2. \/ joined' = [joined EXCEPT ![c] = c] /\ flight' = [flight EXCEPT ![u] = c]
        \/ joined' = [joined EXCEPT ![c] = flight[u]] /\ flight' = flight
    BY JoinFacts
  <2>3. pc \in [Callers -> {"idle", "joining", "waiting", "done"}]
    BY <1>1 DEF TypeOK
  <2>4. QED BY <1>1, <2>1, <2>2, <2>3
<1>3. joined'[c] = IF flight[u] = None THEN c ELSE flight[u]
  <2>1. /\ flight[u] = None => joined' = [joined EXCEPT ![c] = c]
        /\ flight[u] # None => joined' = [joined EXCEPT ![c] = flight[u]]
    BY JoinFacts
  <2>2. QED BY <1>1, <2>1
<1>4. /\ op' \in [Callers -> OpType] /\ \A d \in Callers \ {c} : op'[d] = op[d]
      /\ op'[c].outcome = None /\ op'[c].began <= now
      /\ flight[u] = None => op'[c].at = "looking" /\ op'[c].url = u
      /\ flight[u] # None => op'[c] = op[c]
  BY JoinMoves
<1>5. op[c].at = "none" /\ answer[c] = None /\ req[c] \in Requests[c] /\ u \in Approved
  BY JoinFacts
<1>6. TypeOK'
  <2>1. \A d \in Callers : (pc'[d] = "done" <=> answer'[d] # None)
                             /\ (op'[d].at = "landed" <=> op'[d].outcome # None)
    BY <1>1, <1>2, <1>4, <1>5 DEF TypeOK
  <2>2. QED BY <1>1, <1>2, <1>4, <2>1 DEF TypeOK
<1>7. ASSUME NEW d \in Callers PROVE OpShape(d)' /\ CallerShape(d)'
  <2>1. OpShape(d) /\ CallerShape(d) /\ (joined[d] # None => joined[d] \in Callers)
    BY <1>1 DEF IInv
  <2>2. OpShape(d)'
    <3>1. None # Failure("abandoned")
      BY ResultFacts, NoneIsNothing DEF Codes
    <3>2. CASE d = c /\ flight[u] = None
      BY <1>2, <1>3, <1>4, <1>5, <3>1, <3>2 DEF OpShape, Active
    <3>3. CASE d = c /\ flight[u] # None
      BY <1>2, <1>4, <1>5, <2>1, <3>3 DEF OpShape, Active
    <3>4. CASE d # c
      BY <1>2, <1>4, <2>1, <3>4 DEF OpShape, Active
    <3>5. QED BY <3>2, <3>3, <3>4
  <2>3. CallerShape(d)'
    <3>1. CASE d = c
      <4>1. op'[joined'[c]].at # "none" /\ joined'[c] # None
        <5>1. CASE flight[u] = None
          BY <1>1, <1>3, <1>4, <5>1
        <5>2. CASE flight[u] # None
          <6>1. flight[u] \in Callers /\ Active(flight[u]) /\ flight[u] # c
            BY <1>1, <1>5, <5>2 DEF FlightShape, Active
          <6>2. QED BY <1>3, <1>4, <5>2, <6>1 DEF Active
        <5>3. QED BY <5>1, <5>2
      <4>2. QED BY <1>2, <1>5, <3>1, <4>1 DEF CallerShape
    <3>2. CASE d # c
      <4>1. joined[d] # None => joined[d] # c /\ op'[joined[d]] = op[joined[d]]
        BY <1>4, <1>5, <2>1 DEF CallerShape
      <4>2. QED BY <1>2, <2>1, <3>2, <4>1 DEF CallerShape
    <3>3. QED BY <3>1, <3>2
  <2>4. QED BY <2>2, <2>3
<1>8. FlightShape'
  <2>1. \A d \in Callers \ {c} : Active(d)' <=> Active(d)
    BY <1>4 DEF Active
  <2>2. ~Active(c)
    BY <1>5 DEF Active
  <2>3. CASE flight[u] = None
    <3>1. flight' = [flight EXCEPT ![u] = c] /\ Active(c)'
      BY <1>4, <2>3, JoinFacts DEF Active
    <3>2. ASSUME NEW d \in Callers, Active(d)' PROVE flight'[req'[d].url] = d
      <4>1. CASE d = c
        BY <1>1, <1>2, <3>1, <4>1
      <4>2. CASE d # c
        <5>1. Active(d) /\ flight[req[d].url] = d /\ req[d].url \in URLs
          BY <1>1, <2>1, <3>2, <4>2, OpFacts DEF FlightShape, Active
        <5>2. req[d].url # u
          BY <2>3, <5>1, ConstantsOK
        <5>3. QED BY <1>1, <1>2, <3>1, <5>1, <5>2
      <4>3. QED BY <4>1, <4>2
    <3>3. ASSUME NEW v \in URLs, flight'[v] # None
          PROVE  (Active(flight[v]) /\ req[flight[v]].url = v)'
      <4>1. CASE v = u
        <5>1. flight'[v] = c
          BY <1>1, <3>1, <4>1
        <5>2. QED BY <1>2, <1>4, <2>3, <4>1, <5>1 DEF Active
      <4>2. CASE v # u
        <5>1. flight'[v] = flight[v]
          BY <1>1, <3>1, <4>2
        <5>2. flight[v] \in Callers /\ Active(flight[v]) /\ req[flight[v]].url = v
          BY <1>1, <3>3, <5>1 DEF FlightShape
        <5>3. op'[flight[v]] = op[flight[v]]
          BY <1>4, <2>2, <5>2
        <5>4. QED BY <1>2, <5>1, <5>2, <5>3 DEF Active
      <4>3. QED BY <4>1, <4>2
    <3>4. QED BY <3>2, <3>3 DEF FlightShape
  <2>4. CASE flight[u] # None
    <3>1. flight' = flight /\ op' = op /\ req' = req
      BY <2>4, JoinFacts
    <3>2. QED BY <1>1, <3>1 DEF FlightShape, Active
  <2>5. QED BY <2>3, <2>4
<1>9. OnlyArticlesAreKept'
  BY <1>2 DEF IInv, OnlyArticlesAreKept
<1>10. QED BY <1>6, <1>7, <1>8, <1>9 DEF IInv

\* A step that changes only the clock, or ends a context.
LEMMA SurroundingsInv ==
  ASSUME IInv, now' \in now .. MaxTime, alive' \in [Callers -> BOOLEAN],
         UNCHANGED <<cache, callerVars, flight, op>>
  PROVE  IInv'
<1>1. TypeOK /\ now \in 0 .. MaxTime /\ MaxTime \in Nat /\ \A c \in Callers : op[c].began \in Nat
  BY ConstantsOK DEF IInv, TypeOK, OpType
<1>2. TypeOK'
  <2>1. now' \in 0 .. MaxTime
    BY <1>1
  <2>2. QED BY <1>1, <2>1 DEF TypeOK, callerVars
<1>3. ASSUME NEW c \in Callers PROVE OpShape(c)' /\ CallerShape(c)'
  <2>1. OpShape(c) /\ CallerShape(c)
    BY DEF IInv
  <2>2. op[c].began <= now'
    BY <1>1, <2>1 DEF OpShape
  <2>3. QED BY <2>1, <2>2 DEF OpShape, CallerShape, Active, callerVars
<1>4. FlightShape'
  BY DEF IInv, FlightShape, Active, callerVars
<1>5. OnlyArticlesAreKept'
  BY DEF IInv, OnlyArticlesAreKept
<1>6. QED BY <1>2, <1>3, <1>4, <1>5 DEF IInv

\* At the start nothing runs and nothing is kept.
LEMMA InitIInv == Init => IInv
<1> SUFFICES ASSUME Init PROVE IInv
  OBVIOUS
<1>1. /\ now = 0 /\ MaxTime \in Nat /\ MaxRedirects \in Nat
      /\ op = [c \in Callers |-> Idle] /\ \A u \in URLs : cache[u] = Absent /\ flight[u] = None
      /\ \A c \in Callers : /\ pc[c] = "idle" /\ req[c] = None /\ joined[c] = None
                           /\ answer[c] = None /\ alive[c] = TRUE
  BY ConstantsOK DEF Init
<1>2. Idle \in OpType /\ Idle.at = "none" /\ Idle.outcome = None /\ Idle.began = 0
  BY <1>1 DEF Idle, OpType, Places
<1>3. \A c \in Callers : op[c] = Idle
  BY <1>1
<1>4. TypeOK
  BY <1>1, <1>2, <1>3 DEF Init, TypeOK
<1>5. None # Failure("abandoned")
  BY ResultFacts, NoneIsNothing DEF Codes
<1>6. \A c \in Callers : OpShape(c) /\ CallerShape(c) /\ ~Active(c)
  BY <1>1, <1>2, <1>3, <1>5 DEF OpShape, CallerShape, Active
<1>7. QED BY <1>1, <1>4, <1>6 DEF IInv, FlightShape, OnlyArticlesAreKept

\* Every step keeps the invariant.
LEMMA NextIInv == IInv /\ [Next]_vars => IInv'
<1> SUFFICES ASSUME IInv, [Next]_vars PROVE IInv'
  OBVIOUS
<1>1. now \in 0 .. MaxTime /\ MaxTime \in Nat /\ alive \in [Callers -> BOOLEAN]
  BY ConstantsOK DEF IInv, TypeOK
<1>2. CASE Tick
  <2>1. now' \in now .. MaxTime /\ UNCHANGED <<cache, callerVars, alive, flight, op>>
    BY <1>1, <1>2 DEF Tick
  <2>2. QED BY <1>1, <2>1, SurroundingsInv
<1>3. ASSUME NEW c \in Callers, EndContext(c) PROVE IInv'
  <2>1. now' \in now .. MaxTime /\ UNCHANGED <<cache, callerVars, flight, op>>
    BY <1>1, <1>3 DEF EndContext
  <2>2. alive' \in [Callers -> BOOLEAN]
    BY <1>1, <1>3 DEF EndContext
  <2>3. QED BY <2>1, <2>2, SurroundingsInv
<1>4. ASSUME NEW c \in Callers, CallerStep(c) PROVE IInv'
  BY <1>3, <1>4, SubmitInv, JoinInv, LeaveInv DEF CallerStep
<1>5. ASSUME NEW c \in Callers, OpStep(c) PROVE IInv'
  BY <1>5, OpStepInv
<1>6. CASE UNCHANGED vars
  <2>1. now' \in now .. MaxTime /\ UNCHANGED <<cache, callerVars, alive, flight, op>>
    BY <1>1, <1>6 DEF vars
  <2>2. QED BY <1>1, <2>1, SurroundingsInv
<1>7. QED BY <1>2, <1>4, <1>5, <1>6 DEF Next

-----------------------------------------------------------------------------
(* The theorems.                                                           *)

\* IInv holds in every state.
THEOREM InductiveInvariant == Spec => []IInv
BY InitIInv, NextIInv, PTL DEF Spec

\* Every variable of the service keeps its type: an operation never follows
\* more redirects than it may, and whoever is done has a result.
THEOREM TypeCorrect == Spec => []TypeOK
<1>1. IInv => TypeOK
  BY DEF IInv
<1>2. QED BY <1>1, InductiveInvariant, PTL

\* Whatever pages, redirects and renderings lead to a document, what is cached
\* is an article from a place the policy of Read approved.
THEOREM ArticlesKept == Spec => []OnlyArticlesAreKept
<1>1. IInv => OnlyArticlesAreKept
  BY DEF IInv
<1>2. QED BY <1>1, InductiveInvariant, PTL

\* A shared read ends by its own timeouts only, and what it found in time is in
\* the cache, whoever of its callers has left (DoChan's WithoutCancel).
THEOREM LeavingHarmless == Spec => LeavingChangesNothing
<1> DEFINE Undisturbed == \A c \in Callers : op[c].at # "landed" /\ op'[c].at = "landed" =>
             LET outcome == op'[c].outcome
             IN /\ outcome = Failure("fetch_timeout") => now > op[c].began
                /\ ("document" \in DOMAIN outcome /\ now < op[c].began + OperationTimeout)
                     => cache'[req[c].url].document = outcome.document
<1>1. ASSUME IInv, [Next]_vars PROVE [Undisturbed]_vars
  <2> SUFFICES ASSUME NEW c \in Callers, op[c].at # "landed", op'[c].at = "landed"
               PROVE  /\ op'[c].outcome = Failure("fetch_timeout") => now > op[c].began
                      /\ ("document" \in DOMAIN op'[c].outcome /\ now < op[c].began + OperationTimeout)
                           => cache'[req[c].url].document = op'[c].outcome.document
    BY DEF Undisturbed
  <2>1. ~ UNCHANGED op
    OBVIOUS
  <2>2. ASSUME NEW d \in Callers, CallerStep(d) PROVE op'[c].at = op[c].at \/ op'[c].at = "looking"
    <3>1. CASE Join(d)
      BY <1>1, <3>1, JoinMoves
    <3>2. CASE ~Join(d)
      BY <2>2, <3>2 DEF CallerStep, Submit, Receive, Abandon, EndContext
    <3>3. QED BY <3>1, <3>2
  <2>3. Tick \/ UNCHANGED vars => UNCHANGED op
    BY DEF Tick, vars
  <2>4. PICK d \in Callers : OpStep(d)
    BY <1>1, <2>1, <2>2, <2>3 DEF Next
  <2>5. Active(d) /\ (Proceeds(d) \/ Lands(d)) /\ UNCHANGED <<now, callerVars, alive>>
    BY <1>1, <2>4, OpStepEnds
  <2>6. d = c
    BY <1>1, <2>4, StepSeen DEF SeenStep
  <2>7. Lands(c)
    BY <1>1, <2>5, <2>6, ProceedFacts
  <2>8. PICK outcome \in Results :
          /\ Land(c, outcome) /\ outcome # Failure("abandoned")
          /\ outcome = Failure("fetch_timeout") => now > op[c].began
          /\ \/ /\ UNCHANGED cache
                /\ ("document" \in DOMAIN outcome /\ now < op[c].began + OperationTimeout)
                     => cache[req[c].url].document = outcome.document
             \/ \E x \in Documents :
                  /\ Kept(x) /\ Store(req[c].url, x)
                  /\ outcome = Served(x, x.via)
    BY <2>7 DEF Lands
  <2>9. op'[c].outcome = outcome /\ req[c].url \in URLs
    BY <1>1, <2>5, <2>6, <2>8, LandFacts
  <2>10. CASE UNCHANGED cache /\ (("document" \in DOMAIN outcome /\ now < op[c].began + OperationTimeout)
                                    => cache[req[c].url].document = outcome.document)
    BY <2>8, <2>9, <2>10
  <2>11. CASE \E x \in Documents : Store(req[c].url, x) /\ outcome = Served(x, x.via)
    <3>1. PICK x \in Documents : Store(req[c].url, x) /\ outcome = Served(x, x.via)
      BY <2>11
    <3>2. cache'[req[c].url].document = x
      BY <1>1, <2>9, <3>1, StoreFacts DEF IInv
    <3>3. outcome.document = x
      BY <3>1, ResultFacts
    <3>4. QED BY <2>8, <2>9, <3>2, <3>3
  <2>12. QED BY <2>8, <2>10, <2>11
<1>2. QED BY <1>1, InductiveInvariant, PTL DEF Spec, LeavingChangesNothing

-----------------------------------------------------------------------------
(* The service implements Flight.                                          *)

\* What callers see of the operations, and what they took from them.
Outcome(c) == IF op[c].at = "landed" THEN op[c].outcome ELSE None
Heard(c) == IF answer[c] = None THEN None
            ELSE IF joined[c] = None \/ answer[c] # op[joined[c]].outcome THEN Left
            ELSE answer[c]

Seen == [c \in Callers |-> Outcome(c)]
Got == [c \in Callers |-> Heard(c)]

\* A step that changes neither flights nor what callers see is a stutter.
LEMMA StutterMaps ==
  ASSUME UNCHANGED <<flight, joined, Seen, Got>>
  PROVE  UNCHANGED Shared!vars
BY DEF Shared!vars, Seen, Got, Outcome, Heard

\* What a caller has heard does not change while operations go on.
LEMMA HeardStays ==
  ASSUME IInv, IInv', NEW d \in Callers, joined'[d] = joined[d] \/ answer[d] = None,
         answer'[d] = answer[d],
         \A e \in Callers : op[e].at = "landed" => op'[e] = op[e]
  PROVE  Heard(d)' = Heard(d)
<1>1. CASE answer[d] = None \/ joined[d] = None
  BY <1>1 DEF Heard
<1>2. CASE answer[d] # None /\ joined[d] # None
  <2>1. joined[d] \in Callers /\ joined'[d] = joined[d]
    BY <1>2 DEF IInv, TypeOK
  <2>2. answer[d] = Failure("abandoned") \/ op[joined[d]].at = "landed"
    BY <1>2 DEF IInv, CallerShape
  <2>3. CASE op[joined[d]].at = "landed"
    BY <2>1, <2>3 DEF Heard
  <2>4. CASE answer[d] = Failure("abandoned")
    <3>1. op[joined[d]].outcome # Failure("abandoned") /\ op'[joined[d]].outcome # Failure("abandoned")
      BY <2>1 DEF IInv, OpShape
    <3>2. QED BY <1>2, <2>1, <2>4, <3>1 DEF Heard
  <2>5. QED BY <2>2, <2>3, <2>4
<1>3. QED BY <1>1, <1>2

\* An operation does nothing that Flight sees until it lands.
LEMMA OpMaps ==
  ASSUME IInv, IInv', NEW c \in Callers, OpStep(c)
  PROVE  [Shared!Next]_Shared!vars
<1>1. SeenStep(c) /\ req[c].url \in URLs /\ Active(c) /\ UNCHANGED <<joined, answer>>
  BY StepSeen, OpStepEnds DEF callerVars
<1>2. \A e \in Callers : op[e].at = "landed" => op'[e] = op[e]
  BY <1>1 DEF SeenStep, Active
<1>3. \A d \in Callers : Heard(d)' = Heard(d)
  BY <1>1, <1>2, HeardStays
<1>4. Got' = Got
  BY <1>3 DEF Got
<1>5. \A d \in Callers \ {c} : Outcome(d)' = Outcome(d)
  BY <1>1 DEF SeenStep, Outcome
<1>6. CASE op'[c].at # "landed" /\ UNCHANGED flight
  <2>1. Outcome(c)' = Outcome(c)
    BY <1>1, <1>6 DEF Outcome, Active
  <2>2. Seen' = Seen
    BY <1>5, <2>1 DEF Seen
  <2>3. QED BY <1>1, <1>4, <1>6, <2>2, StutterMaps
<1>7. CASE /\ op'[c].at = "landed" /\ flight' = [flight EXCEPT ![req[c].url] = None]
           /\ flight[req[c].url] = c
  <2>1. Outcome(c)' = op'[c].outcome /\ op'[c].outcome \in Results /\ c # None
    <3>1. op'[c] \in OpType /\ op'[c].outcome # None
      BY <1>1, <1>7 DEF SeenStep
    <3>2. QED BY <1>7, <3>1, ConstantsOK DEF Outcome, OpType
  <2>2. Seen' = [Seen EXCEPT ![c] = Outcome(c)'] /\ Seen'[c] = Outcome(c)'
    BY <1>5 DEF Seen
  <2>3. PICK k \in URLs : k = req[c].url
    BY <1>1
  <2>4. Shared!Land(k)
    BY <1>1, <1>4, <1>7, <2>1, <2>2, <2>3 DEF Shared!Land, Seen, Got, Outcome, Heard
  <2>5. QED BY <2>4 DEF Shared!Next
<1>8. QED BY <1>1, <1>6, <1>7 DEF SeenStep

\* A caller joins, receives or leaves as Flight allows; an answer of its own,
\* from the cache or by its own context, is a way to leave.
LEMMA CallerMaps ==
  ASSUME IInv, IInv', NEW c \in Callers,
         Submit(c) \/ Join(c) \/ Receive(c) \/ Abandon(c)
  PROVE  [Shared!Next]_Shared!vars
<1>0. /\ answer \in [Callers -> Results \cup {None}] /\ joined \in [Callers -> Callers \cup {None}]
      /\ CallerShape(c)
  BY DEF IInv, TypeOK
<1>1. ASSUME NEW result \in Results, answer' = [answer EXCEPT ![c] = result],
             answer[c] = None, UNCHANGED <<flight, joined, op>>,
             joined[c] = None \/ result # op[joined[c]].outcome
      PROVE  Shared!Leave(c)
  <2>1. result # None
    BY <1>1, NoneIsNothing
  <2>2. \A d \in Callers \ {c} : Heard(d)' = Heard(d)
    BY <1>0, <1>1 DEF Heard
  <2>3. Heard(c) = None /\ Heard(c)' = Left
    BY <1>0, <1>1, <2>1 DEF Heard
  <2>4. Got' = [Got EXCEPT ![c] = Left] /\ Got[c] = None
    BY <2>2, <2>3 DEF Got
  <2>5. Seen' = Seen
    BY <1>1 DEF Seen, Outcome
  <2>6. QED BY <1>1, <2>4, <2>5 DEF Shared!Leave, Got, Heard, Seen, Outcome
<1>2. CASE Submit(c)
  <2>1. pc[c] = "idle" /\ UNCHANGED <<flight, joined, op>> /\ joined[c] = None /\ answer[c] = None
    BY <1>0, <1>2 DEF Submit, CallerShape, IInv, TypeOK
  <2>2. CASE UNCHANGED answer
    <3>1. Seen' = Seen /\ Got' = Got
      BY <2>1, <2>2 DEF Seen, Got, Outcome, Heard
    <3>2. QED BY <2>1, <3>1, StutterMaps
  <2>3. CASE \E result : Return(c, result)
    <3>1. PICK result : answer' = [answer EXCEPT ![c] = result] /\ pc' = [pc EXCEPT ![c] = "done"]
      BY <2>3 DEF Return
    <3>2. answer'[c] = result /\ pc'[c] = "done"
      BY <1>0, <3>1 DEF IInv, TypeOK
    <3>3. result \in Results
      BY <3>2 DEF IInv, TypeOK
    <3>4. Shared!Leave(c)
      BY <1>1, <2>1, <3>1, <3>3
    <3>5. QED BY <3>4 DEF Shared!Next
  <2>4. QED BY <1>2, <2>2, <2>3 DEF Submit
<1>3. CASE Join(c)
  <2>1. /\ joined[c] = None /\ answer[c] = None /\ answer' = answer
        /\ op[c].at = "none" /\ req[c].url \in URLs
    BY <1>3, JoinFacts
  <2>2. /\ \A d \in Callers \ {c} : op'[d] = op[d]
        /\ op'[c].at \in {"none", "looking"}
    BY <1>3, <2>1, JoinMoves
  <2>3. \A e \in Callers : op[e].at = "landed" => op'[e] = op[e]
    BY <2>1, <2>2
  <2>4. /\ flight[req[c].url] = None =>
             /\ flight' = [flight EXCEPT ![req[c].url] = c]
             /\ joined' = [joined EXCEPT ![c] = c]
        /\ flight[req[c].url] # None =>
             /\ flight' = flight
             /\ joined' = [joined EXCEPT ![c] = flight[req[c].url]]
    BY <1>3, JoinFacts
  <2>5. \A d \in Callers : joined'[d] = joined[d] \/ answer[d] = None
    BY <1>0, <2>1, <2>4
  <2>6. \A d \in Callers : Heard(d)' = Heard(d)
    BY <2>1, <2>3, <2>5, HeardStays
  <2>7. Got' = Got /\ Got[c] = None
    BY <2>1, <2>6 DEF Got, Heard
  <2>8. \A d \in Callers : Outcome(d)' = Outcome(d)
    BY <2>1, <2>2 DEF Outcome
  <2>9. Seen' = Seen
    BY <2>8 DEF Seen
  <2>10. Shared!Join(c, req[c].url)
    BY <2>1, <2>4, <2>7, <2>9 DEF Shared!Join, Got, Heard, Seen, Outcome
  <2>11. QED BY <2>1, <2>10 DEF Shared!Next
<1>4. CASE Receive(c)
  <2>1. PICK result \in Results :
          Return(c, result) /\ op[joined[c]].at = "landed" /\ pc[c] = "waiting"
    BY <1>4, ReceiveFacts
  <2>2. answer' = [answer EXCEPT ![c] = result] /\ UNCHANGED <<flight, joined, op>>
    BY <1>4, <2>1 DEF Receive, Return
  <2>3. /\ joined[c] \in Callers /\ joined[c] # None /\ answer[c] = None
        /\ op[joined[c]].outcome \in Results /\ op[joined[c]].outcome # None
    BY <2>1, WaiterFacts, NoneIsNothing, ConstantsOK
  <2>4. CASE result # op[joined[c]].outcome
    <3>1. Shared!Leave(c)
      BY <1>1, <2>2, <2>3, <2>4
    <3>2. QED BY <3>1 DEF Shared!Next
  <2>5. CASE result = op[joined[c]].outcome
    <3>1. \A d \in Callers \ {c} : Heard(d)' = Heard(d)
      BY <1>0, <2>2 DEF Heard
    <3>2. Heard(c) = None /\ Heard(c)' = op[joined[c]].outcome
      BY <1>0, <2>2, <2>3, <2>5 DEF Heard
    <3>3. Seen[joined[c]] = op[joined[c]].outcome
      BY <2>1, <2>3 DEF Seen, Outcome
    <3>4. Got' = [Got EXCEPT ![c] = Seen[joined[c]]] /\ Got[c] = None
      BY <3>1, <3>2, <3>3 DEF Got
    <3>5. Seen' = Seen
      BY <2>2 DEF Seen, Outcome
    <3>6. Shared!Receive(c)
      BY <2>2, <2>3, <3>3, <3>4, <3>5 DEF Shared!Receive, Got, Heard, Seen, Outcome
    <3>7. QED BY <3>6 DEF Shared!Next
  <2>6. QED BY <2>4, <2>5
<1>5. CASE Abandon(c)
  <2>1. /\ pc[c] = "waiting" /\ answer' = [answer EXCEPT ![c] = Failure("abandoned")]
        /\ UNCHANGED <<flight, joined, op>>
    BY <1>5 DEF Abandon, Return
  <2>2. answer[c] = None /\ op[joined[c]].outcome # Failure("abandoned")
    BY <2>1, WaiterFacts
  <2>3. Failure("abandoned") \in Results
    BY ResultFacts DEF Codes
  <2>4. Shared!Leave(c)
    BY <1>1, <2>1, <2>2, <2>3
  <2>5. QED BY <2>4 DEF Shared!Next
<1>6. QED BY <1>2, <1>3, <1>4, <1>5

\* The initial states are initial states of Flight.
LEMMA InitMaps == Init => Shared!Init
<1> SUFFICES ASSUME Init PROVE Shared!Init
  OBVIOUS
<1>1. \A c \in Callers : op[c].at = "none" /\ answer[c] = None
  BY DEF Init, Idle
<1>2. QED BY <1>1 DEF Init, Shared!Init

\* Every step is a step of Flight or a stutter.
LEMMA StepMaps == IInv /\ IInv' /\ [Next]_vars => [Shared!Next]_Shared!vars
<1> SUFFICES ASSUME IInv, IInv', [Next]_vars PROVE [Shared!Next]_Shared!vars
  OBVIOUS
<1>1. ASSUME NEW c \in Callers, Submit(c) \/ Join(c) \/ Receive(c) \/ Abandon(c)
      PROVE  [Shared!Next]_Shared!vars
  BY <1>1, CallerMaps
<1>2. ASSUME NEW c \in Callers, OpStep(c) PROVE [Shared!Next]_Shared!vars
  BY <1>2, OpMaps
<1>3. ASSUME UNCHANGED <<flight, joined, op, answer>> PROVE [Shared!Next]_Shared!vars
  BY <1>3, StutterMaps DEF Seen, Got, Outcome, Heard
<1>4. ASSUME NEW c \in Callers, EndContext(c) PROVE UNCHANGED <<flight, joined, op, answer>>
  BY <1>4 DEF EndContext, callerVars
<1>5. Tick \/ UNCHANGED vars => UNCHANGED <<flight, joined, op, answer>>
  BY DEF Tick, vars, callerVars
<1>6. QED BY <1>1, <1>2, <1>3, <1>4, <1>5 DEF Next, CallerStep

\* Every behaviour of the service is one of Flight: reads of one URL share the
\* operation under way, all who wait for it receive its one outcome or an
\* answer of their own, and whoever leaves does not disturb it.
THEOREM ReadImplementsFlight == Spec => ImplementsFlight
BY InitMaps, StepMaps, InductiveInvariant, PTL DEF Spec, ImplementsFlight, Shared!Spec

-----------------------------------------------------------------------------
(* Termination.                                                            *)

\* The steps an operation has left at most: a look into the cache, the hops it
\* may still follow, the page they end at, and one rendering.
Energy(c) ==
  CASE op[c].at = "looking" -> MaxRedirects + 3
    [] op[c].at = "fetching" -> (MaxRedirects - op[c].hops) + 2
    [] op[c].at = "rendering" -> 1
    [] OTHER -> 0

\* Every step of a read uses up some of what it has left, and no caller that
\* joins or leaves it, no other read and no clock gives it more: wherever the
\* pages redirect, and whatever they show, a read is rendered once at most and
\* never goes back (reader/http.go:131, app/read_service.go:116).
OperationsRunDown ==
  [][\A c \in Callers :
       Active(c) => /\ 0 <= Energy(c)' /\ Energy(c)' <= Energy(c)
                    /\ OpStep(c) => Energy(c)' < Energy(c)]_vars

\* What is left is never negative, and something is while it runs.
LEMMA EnergyFacts ==
  ASSUME IInv, NEW c \in Callers
  PROVE  Energy(c) \in 0 .. MaxRedirects + 3 /\ (Active(c) => Energy(c) > 0)
<1>1. op[c] \in OpType /\ MaxRedirects \in Nat
  BY ConstantsOK DEF IInv, TypeOK
<1>2. op[c].hops \in 0 .. MaxRedirects /\ op[c].at \in Places
  BY <1>1 DEF OpType
<1>3. QED BY <1>1, <1>2 DEF Energy, Active, Places

\* An operation that has not landed did not land.
LEMMA NotLanded ==
  ASSUME IInv, NEW c \in Callers, op'[c].at # "landed"
  PROVE  \A outcome : ~ Land(c, outcome)
<1> SUFFICES ASSUME NEW outcome, Land(c, outcome) PROVE op'[c].at = "landed"
  OBVIOUS
<1> DEFINE new == [Idle EXCEPT !.at = "landed", !.outcome = outcome, !.began = op[c].began]
<1>1. new.at = "landed"
  <2>1. Idle = [at |-> "none", url |-> None, hops |-> 0, began |-> 0, outcome |-> None]
    BY DEF Idle
  <2>2. QED BY <2>1
<1>2. op' = [op EXCEPT ![c] = new] /\ op \in [Callers -> OpType]
  BY DEF Land, IInv, TypeOK
<1> HIDE DEF new
<1>3. op'[c] = new
  BY <1>2
<1>4. QED BY <1>1, <1>3

\* Judging a page, or following a redirect, uses some up.
LEMMA FetchCosts ==
  ASSUME IInv, NEW c \in Callers, op[c].at = "fetching", op'[c].at # "landed",
         FetchReply(c) \/ Redirect(c)
  PROVE  Energy(c)' < Energy(c)
<1>1. /\ op \in [Callers -> OpType] /\ op[c].hops \in 0 .. MaxRedirects
      /\ MaxRedirects \in Nat
  BY ConstantsOK DEF IInv, TypeOK, OpType
<1>2. \A outcome : ~ Land(c, outcome)
  BY NotLanded
<1>3. CASE FetchReply(c)
  <2>1. \E page \in Pages : JudgeFetched(c, page)
    BY <1>3 DEF FetchReply
  <2>2. Goto(c, "rendering")
    BY <1>2, <2>1 DEF JudgeFetched, RenderOr, Fail, Accept
  <2>3. op'[c].at = "rendering"
    BY <1>1, <2>2 DEF Goto, OpType
  <2>4. QED BY <1>1, <2>3 DEF Energy
<1>4. CASE Redirect(c)
  <2>1. PICK u \in URLs : /\ op[c].hops < MaxRedirects
                          /\ op' = [op EXCEPT ![c].url = u, ![c].hops = @ + 1]
    BY <1>1, <1>2, <1>4 DEF Redirect, Fail
  <2>2. op'[c].at = "fetching" /\ op'[c].hops = op[c].hops + 1
    BY <1>1, <2>1 DEF OpType
  <2>3. QED BY <1>1, <2>1, <2>2 DEF Energy
<1>5. QED BY <1>3, <1>4

\* So does every other step.
LEMMA StepsCost ==
  ASSUME IInv, NEW c \in Callers, OpStep(c)
  PROVE  Energy(c)' < Energy(c)
<1>1. Active(c) /\ (Proceeds(c) \/ Lands(c)) /\ UNCHANGED <<now, callerVars, alive>>
  BY OpStepEnds
<1>2. Energy(c) \in 0 .. MaxRedirects + 3 /\ Energy(c) > 0 /\ MaxRedirects \in Nat
  BY <1>1, EnergyFacts, ConstantsOK
<1>3. CASE Lands(c)
  <2>1. op'[c].at = "landed"
    BY <1>1, <1>3, LandFacts DEF Lands
  <2>2. QED BY <1>2, <2>1 DEF Energy
<1>4. CASE Proceeds(c)
  <2>1. op'[c].at # "landed" /\ op \in [Callers -> OpType]
    BY <1>1, <1>4, ProceedFacts DEF IInv, TypeOK
  <2>2. \A outcome : ~ Land(c, outcome)
    BY <2>1, NotLanded
  <2>3. CASE LookAgain(c)
    <3>1. op[c].at = "looking" /\ Goto(c, "fetching")
      BY <2>2, <2>3 DEF LookAgain
    <3>2. op'[c].at = "fetching" /\ op'[c].hops = op[c].hops /\ op[c].hops \in 0 .. MaxRedirects
      BY <2>1, <3>1 DEF Goto, OpType
    <3>3. QED BY <1>2, <3>1, <3>2 DEF Energy
  <2>4. CASE FetchReply(c) \/ Redirect(c)
    BY <2>1, <2>4, FetchCosts DEF FetchReply, Redirect
  <2>5. ~FetchError(c) /\ ~RenderError(c)
    BY <2>2 DEF FetchError, RenderError, Fail
  <2>6. ~Rendered(c)
    BY <2>2 DEF Rendered, JudgeRendered, Fail, Accept
  <2>7. QED BY <2>3, <2>4, <2>5, <2>6 DEF OpStep
<1>5. QED BY <1>1, <1>3, <1>4

\* What others do changes nothing for an operation under way.
LEMMA OthersCostNothing ==
  ASSUME IInv, NEW c \in Callers, Active(c), [Next]_vars, ~OpStep(c)
  PROVE  Energy(c)' = Energy(c)
<1>1. ASSUME op'[c] = op[c] PROVE Energy(c)' = Energy(c)
  BY <1>1 DEF Energy
<1>2. Tick \/ UNCHANGED vars => op' = op
  BY DEF Tick, vars
<1>3. ASSUME NEW d \in Callers, Submit(d) \/ Receive(d) \/ Abandon(d) \/ EndContext(d)
      PROVE  op' = op
  BY <1>3 DEF Submit, Receive, Abandon, EndContext
<1>4. ASSUME NEW d \in Callers, Join(d) PROVE op'[c] = op[c]
  BY <1>4, JoinFacts, JoinMoves DEF Active
<1>5. ASSUME NEW d \in Callers, OpStep(d) PROVE op'[c] = op[c]
  BY <1>5, StepSeen DEF SeenStep
<1>6. QED BY <1>1, <1>2, <1>3, <1>4, <1>5 DEF Next, CallerStep

\* No read goes on for ever: it ends in at most MaxRedirects + 3 steps, through
\* any loop of redirects (reader/http.go:131).
THEOREM OperationsEnd == Spec => OperationsRunDown
<1> DEFINE Down == \A c \in Callers :
                     Active(c) => /\ 0 <= Energy(c)' /\ Energy(c)' <= Energy(c)
                                  /\ OpStep(c) => Energy(c)' < Energy(c)
<1>1. IInv => \A c \in Callers : Energy(c) \in 0 .. MaxRedirects + 3
  BY EnergyFacts
<1>2. IInv' => (\A c \in Callers : Energy(c) \in 0 .. MaxRedirects + 3)'
  BY <1>1, PTL
<1>3. ASSUME IInv, IInv', Next PROVE Down
  <2> SUFFICES ASSUME NEW c \in Callers, Active(c)
               PROVE  /\ 0 <= Energy(c)' /\ Energy(c)' <= Energy(c)
                      /\ OpStep(c) => Energy(c)' < Energy(c)
    OBVIOUS
  <2>1. Energy(c) \in Nat /\ Energy(c)' \in Nat
    BY <1>1, <1>2, <1>3, ConstantsOK
  <2>2. CASE OpStep(c)
    BY <1>3, <2>1, <2>2, StepsCost
  <2>3. CASE ~OpStep(c)
    BY <1>3, <2>1, <2>3, OthersCostNothing
  <2>4. QED BY <2>2, <2>3
<1>4. IInv /\ IInv' /\ [Next]_vars => [Down]_vars
  BY <1>3
<1>5. QED BY <1>4, InductiveInvariant, PTL DEF Spec, OperationsRunDown
=============================================================================
