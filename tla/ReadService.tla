---------------------------- MODULE ReadService ----------------------------
(***************************************************************************)
(* webfetch: a read of one URL is answered from the cache, or by a live    *)
(* read that concurrent reads of the URL share and that goes on whoever    *)
(* of them leaves (app/read_service.go).  The live read follows redirects  *)
(* hop by hop under the URL policy (reader/http.go), extracts the document *)
(* and judges its quality; a page that needs a browser, or that refused    *)
(* the plain request, is rendered once (reader/browser.go).  A document    *)
(* that was accepted is cached; when a live read fails, a stale one may do.*)
(*                                                                         *)
(* A page is told by the class of its status, its kind, and what it shows: *)
(* an article, a challenge (hidden in its markup, or in its text), a       *)
(* demand to log in, a shell or too little (which a browser may fill), or  *)
(* nothing that can be extracted.                                          *)
(***************************************************************************)
EXTENDS Naturals, FiniteSets

CONSTANTS
  Callers, URLs, None, Left,
  Requests,           \* the reads each caller may ask for
  Approved,           \* the URLs that the policy lets through
  Pages,              \* what a site may answer
  BrowserEnabled,
  MaxRedirects, OperationTimeout,
  MaxItems, FreshTTL, StaleTTL,   \* NewMemory
  MaxTime,            \* bound of the clock
  Impatient           \* bound: callers whose contexts may end early

Statuses == {"ok", "refused", "failed"}   \* 2xx; 403, 429 and 503; any other
Kinds == {"html", "text", "other"}
Shows == {"article", "signature", "challenge", "login", "shell", "short", "nothing"}

ASSUME ConstantsOK ==
  /\ IsFiniteSet(Callers) /\ None \notin Callers
  /\ Approved \subseteq URLs
  /\ Requests \in [Callers -> SUBSET [url : URLs, refresh : BOOLEAN]]
  /\ Pages \subseteq [status : Statuses, kind : Kinds, big : BOOLEAN, shows : Shows]
  /\ \A page \in Pages : page.shows = "signature" => page.kind = "html"   \* it is markup
  /\ BrowserEnabled \in BOOLEAN /\ MaxRedirects \in Nat
  /\ OperationTimeout \in Nat \ {0}
  /\ MaxItems \in Nat \ {0} /\ FreshTTL \in Nat /\ StaleTTL \in Nat /\ FreshTTL < StaleTTL
  /\ MaxTime \in Nat /\ Impatient \subseteq Callers

VARIABLES
  now,
  cache,            \* Memory.entries
  pc, req, alive,   \* of each caller: where it is, its request, its context
  joined, answer,   \* whose operation it waits for, and what it returns
  flight,           \* singleflight: the caller whose operation is under way
  op                \* the operation a caller started

callerVars == <<pc, req, joined, answer>>
vars == <<now, cache, callerVars, alive, flight, op>>

\* An operation: where it is, the URL it asks for, the redirects it followed,
\* when it began, and its outcome.
Idle == [at |-> "none", url |-> None, hops |-> 0, began |-> 0, outcome |-> None]

Absent == [stored |-> 0, document |-> None]

\* A document, by the page it was made of, where that was found and how.
Document(page, url, via) == [page |-> page, final |-> url, via |-> via]

\* httpapi.writeReadProblem.
Status(code) ==
  CASE code = "unsafe_url" -> 403
    [] code = "content_too_large" -> 413
    [] code = "unsupported_content_type" -> 415
    [] code \in {"extraction_failed", "captcha_required"} -> 422
    [] code \in {"fetch_timeout", "abandoned"} -> 504
    [] OTHER -> 502

Failure(code) == [error |-> code, status |-> Status(code)]
Served(document, transport) == [document |-> document, transport |-> transport]

\* Memory.get: the context is looked at first, then the entry and the clock.
Get(live, u, ttl) ==
  /\ live
  /\ cache[u] # Absent
  /\ now - cache[u].stored <= ttl

\* Policy.ValidateAndResolve: what it has against a URL; None, if nothing.
Objection(u, resolved) ==
  IF u \notin Approved THEN "unsafe_url"
  ELSE IF ~resolved THEN "fetch_failed"
  ELSE None

-----------------------------------------------------------------------------
(* Read, in the goroutine of the caller.                                   *)

Return(c, result) ==
  /\ pc' = [pc EXCEPT ![c] = "done"]
  /\ answer' = [answer EXCEPT ![c] = result]

\* The policy, and the first look into the cache.  A name that cannot be
\* resolved is refused like an unsafe one.
Submit(c) ==
  /\ pc[c] = "idle"
  /\ \E r \in Requests[c], resolved \in BOOLEAN :
       /\ req' = [req EXCEPT ![c] = r]
       /\ IF Objection(r.url, resolved) # None
          THEN Return(c, Failure("unsafe_url"))
          ELSE IF ~r.refresh /\ Get(alive[c], r.url, FreshTTL)
          THEN Return(c, Served(cache[r.url].document, "fresh_cache"))
          ELSE pc' = [pc EXCEPT ![c] = "joining"] /\ UNCHANGED answer
  /\ UNCHANGED <<now, cache, joined, alive, flight, op>>

\* Mutant of Join: every caller starts an operation.
JoinRestarting(c) ==
  LET u == req[c].url
  IN /\ pc[c] = "joining"
     /\ pc' = [pc EXCEPT ![c] = "waiting"]
     /\ joined' = [joined EXCEPT ![c] = c]
     /\ flight' = [flight EXCEPT ![u] = c]
     /\ op' = [op EXCEPT ![c].at = "looking", ![c].url = u, ![c].began = now]
     /\ UNCHANGED <<now, cache, req, answer, alive>>

\* DoChan: the first caller of a URL starts the operation.
Join(c) ==
  LET u == req[c].url
      first == flight[u] = None
      leader == IF first THEN c ELSE flight[u]
  IN /\ pc[c] = "joining"
     /\ pc' = [pc EXCEPT ![c] = "waiting"]
     /\ joined' = [joined EXCEPT ![c] = leader]
     /\ flight' = [flight EXCEPT ![u] = leader]
     /\ op' = IF first
              THEN [op EXCEPT ![c].at = "looking", ![c].url = u, ![c].began = now]
              ELSE op
     /\ UNCHANGED <<now, cache, req, answer, alive>>

\* What a caller makes of the outcome it waited for.  formatResponse fails
\* when its context has ended just then; a failed read may be answered stale.
Receive(c) ==
  LET outcome == op[joined[c]].outcome
      u == req[c].url
  IN /\ pc[c] = "waiting" /\ op[joined[c]].at = "landed"
     /\ Return(c,
          IF "error" \in DOMAIN outcome
          THEN IF Get(alive[c], u, StaleTTL)
               THEN Served(cache[u].document, "stale_cache") ELSE outcome
          ELSE IF alive[c] THEN outcome ELSE Failure("extraction_failed"))
     /\ UNCHANGED <<now, cache, req, joined, alive, flight, op>>

\* The context of the caller ends while it waits: a fetch_timeout, too, named
\* apart as it says nothing of the operation.
Abandon(c) ==
  /\ pc[c] = "waiting" /\ ~alive[c]
  /\ Return(c, Failure("abandoned"))
  /\ UNCHANGED <<now, cache, req, joined, alive, flight, op>>

-----------------------------------------------------------------------------
(* The operation, in a goroutine of its own.                               *)

\* Mutant of Over: the operation ends with the caller that started it.
OverWithCaller(c) == now >= op[c].began + OperationTimeout \/ ~alive[c]

\* Its context is not the caller's: only the operation timeout ends it.
Over(c) == now >= op[c].began + OperationTimeout

Goto(c, place) == op' = [op EXCEPT ![c].at = place]

\* The operation is over and its key is free again.
Land(c, outcome) ==
  /\ op' = [op EXCEPT ![c] = [Idle EXCEPT !.at = "landed", !.outcome = outcome,
                                          !.began = op[c].began]]
  /\ flight' = [flight EXCEPT ![req[c].url] = None]

Fail(c, code) == Land(c, Failure(code)) /\ UNCHANGED cache

\* It looks into the cache once more, for the caller that started it.
LookAgain(c) ==
  /\ op[c].at = "looking"
  /\ IF ~req[c].refresh /\ Get(~Over(c), req[c].url, FreshTTL)
     THEN Land(c, Served(cache[req[c].url].document, "fresh_cache"))
     ELSE Goto(c, "fetching") /\ UNCHANGED flight
  /\ UNCHANGED <<now, cache, callerVars, alive>>

\* Several entries may be the oldest; the order of the map decides.
Oldest(m) == {u \in m : \A v \in m : cache[u].stored <= cache[v].stored}

\* Memory.Set: a new entry may need the place of the oldest one.
Store(u, document) ==
  LET held == {v \in URLs : cache[v] # Absent}
      entry == [stored |-> now, document |-> document]
  IN IF cache[u] = Absent /\ Cardinality(held) >= MaxItems
     THEN \E old \in Oldest(held) : cache' = [cache EXCEPT ![old] = Absent, ![u] = entry]
     ELSE cache' = [cache EXCEPT ![u] = entry]

\* A document was accepted.  It is stored under the URL that was asked for,
\* unless the operation is over; then it is only returned.
Accept(c, document) ==
  /\ Land(c, Served(document, document.via))
  /\ IF Over(c) THEN UNCHANGED cache ELSE Store(req[c].url, document)

\* The content extractor of the detected kind: it needs its context, too.
Extracts(c, page) == page.shows # "nothing" /\ ~Over(c)

\* ArticleQualityEvaluator.Evaluate, of a document that could be extracted.
Evaluate(page) ==
  CASE page.shows \in {"challenge", "login"} -> "reject"
    [] page.shows \in {"shell", "short"} /\ page.kind = "html" -> "render"
    [] OTHER -> "accept"

\* Why the pages that are not accepted are not.
Verdict(page) ==
  IF page.shows \in {"signature", "challenge"} THEN "captcha_required" ELSE "extraction_failed"

\* The browser takes over, if there is one.
RenderOr(c, code) ==
  IF BrowserEnabled THEN Goto(c, "rendering") /\ UNCHANGED <<flight, cache>>
  ELSE Fail(c, code)

\* readResponse and what readLive makes of it.  A challenge in the markup and
\* a failed extraction go to the browser, a challenge in the text does not.
JudgeFetched(c, page) ==
  IF page.status = "refused" THEN RenderOr(c, "fetch_failed")
  ELSE IF page.status = "failed" THEN Fail(c, "fetch_failed")
  ELSE IF page.big THEN Fail(c, "content_too_large")
  ELSE IF page.kind = "other" THEN Fail(c, "unsupported_content_type")
  ELSE IF page.kind = "html" /\ page.shows = "signature" THEN RenderOr(c, "captcha_required")
  ELSE IF ~Extracts(c, page) THEN RenderOr(c, "extraction_failed")
  ELSE IF Evaluate(page) = "render" THEN RenderOr(c, "extraction_failed")
  ELSE IF Evaluate(page) = "reject" THEN Fail(c, Verdict(page))
  ELSE Accept(c, Document(page, op[c].url, "http"))

FetchReply(c) ==
  /\ op[c].at = "fetching"
  /\ \E page \in Pages : JudgeFetched(c, page)
  /\ UNCHANGED <<now, callerVars, alive>>

\* Mutant of Redirect: one redirect too many.
RedirectOneMore(c) ==
  /\ op[c].at = "fetching"
  /\ \E u \in Approved :
       IF op[c].hops > MaxRedirects THEN Fail(c, "fetch_failed")
       ELSE /\ op' = [op EXCEPT ![c].url = u, ![c].hops = @ + 1]
            /\ UNCHANGED <<flight, cache>>
  /\ UNCHANGED <<now, callerVars, alive>>

\* Mutant of Redirect: only the first URL is shown to the policy.
RedirectUnchecked(c) ==
  /\ op[c].at = "fetching"
  /\ \E u \in URLs :
       IF op[c].hops >= MaxRedirects THEN Fail(c, "fetch_failed")
       ELSE /\ op' = [op EXCEPT ![c].url = u, ![c].hops = @ + 1]
            /\ UNCHANGED <<flight, cache>>
  /\ UNCHANGED <<now, callerVars, alive>>

\* Each hop is shown to the policy, which must resolve it again.
Redirect(c) ==
  /\ op[c].at = "fetching"
  /\ \E u \in URLs, resolved \in BOOLEAN :
       IF op[c].hops >= MaxRedirects THEN Fail(c, "fetch_failed")
       ELSE IF Objection(u, resolved) # None THEN Fail(c, Objection(u, resolved))
       ELSE /\ op' = [op EXCEPT ![c].url = u, ![c].hops = @ + 1]
            /\ UNCHANGED <<flight, cache>>
  /\ UNCHANGED <<now, callerVars, alive>>

\* A time-out is one of the HTTP reader, which bounds all hops together, of the
\* TLS handshake or of the network; neither failure suits a browser.
FetchError(c) ==
  /\ op[c].at = "fetching"
  /\ \/ Fail(c, "fetch_failed")
     \/ (Over(c) \/ now > op[c].began) /\ Fail(c, "fetch_timeout")
  /\ UNCHANGED <<now, callerVars, alive>>

\* BrowserReader.Read and readRendered: the browser went where the page sent
\* it, reports status 200 and shows everything as HTML.
JudgeRendered(c, page, u, resolved) ==
  LET seen == [page EXCEPT !.kind = "html"]
  IN IF page.big THEN Fail(c, "content_too_large")
     ELSE IF Objection(u, resolved) # None THEN Fail(c, Objection(u, resolved))
     ELSE IF page.shows = "signature" THEN Fail(c, "captcha_required")
     ELSE IF ~Extracts(c, page) THEN Fail(c, "extraction_failed")
     ELSE IF Evaluate(seen) # "accept" THEN Fail(c, Verdict(page))
     ELSE Accept(c, Document(page, u, "chromedp"))

Rendered(c) ==
  /\ op[c].at = "rendering"
  /\ \E page \in Pages, u \in URLs, resolved \in BOOLEAN : JudgeRendered(c, page, u, resolved)
  /\ UNCHANGED <<now, callerVars, alive>>

\* No place for a tab, no browser, no page; the browser has a timeout, too.
RenderError(c) ==
  /\ op[c].at = "rendering"
  /\ \/ Fail(c, "fetch_failed")
     \/ now > op[c].began /\ Fail(c, "fetch_timeout")
  /\ UNCHANGED <<now, callerVars, alive>>

-----------------------------------------------------------------------------

\* A client goes away, or the timeout of its request is over.
EndContext(c) ==
  /\ c \in Impatient /\ alive[c] /\ pc[c] # "done"
  /\ alive' = [alive EXCEPT ![c] = FALSE]
  /\ UNCHANGED <<now, cache, callerVars, flight, op>>

Tick ==
  /\ now < MaxTime
  /\ now' = now + 1
  /\ UNCHANGED <<cache, callerVars, alive, flight, op>>

Init ==
  /\ now = 0
  /\ cache = [u \in URLs |-> Absent]
  /\ pc = [c \in Callers |-> "idle"]
  /\ req = [c \in Callers |-> None]
  /\ alive = [c \in Callers |-> TRUE]
  /\ joined = [c \in Callers |-> None]
  /\ answer = [c \in Callers |-> None]
  /\ flight = [u \in URLs |-> None]
  /\ op = [c \in Callers |-> Idle]

CallerStep(c) == Submit(c) \/ Join(c) \/ Receive(c) \/ Abandon(c) \/ EndContext(c)
OpStep(c) ==
  LookAgain(c) \/ FetchReply(c) \/ Redirect(c) \/ FetchError(c) \/ Rendered(c) \/ RenderError(c)

Next == Tick \/ \E c \in Callers : CallerStep(c) \/ OpStep(c)

Spec == Init /\ [][Next]_vars

-----------------------------------------------------------------------------

Documents ==
  [page : Pages, final : URLs, via : {"http", "chromedp"}]
Codes ==
  {"unsafe_url", "content_too_large", "unsupported_content_type", "extraction_failed",
   "captcha_required", "fetch_timeout", "fetch_failed", "abandoned"}
Transports == {"http", "chromedp", "fresh_cache", "stale_cache"}
Results ==
  {Failure(code) : code \in Codes} \cup [document : Documents, transport : Transports]

ASSUME NoneIsNothing == None \notin Documents /\ None \notin Codes /\ None \notin Results

Places == {"none", "looking", "fetching", "rendering", "landed"}
OpType ==
  [at : Places, url : URLs \cup {None}, hops : 0 .. MaxRedirects, began : 0 .. MaxTime,
   outcome : Results \cup {None}]

\* Every variable keeps its type: an operation stays within its redirects, and
\* a caller that is done, or an operation that has landed, has a result.
TypeOK ==
  /\ now \in 0 .. MaxTime
  /\ cache \in [URLs -> [stored : 0 .. MaxTime, document : Documents] \cup {Absent}]
  /\ pc \in [Callers -> {"idle", "joining", "waiting", "done"}]
  /\ req \in [Callers -> [url : URLs, refresh : BOOLEAN] \cup {None}]
  /\ alive \in [Callers -> BOOLEAN]
  /\ joined \in [Callers -> Callers \cup {None}]
  /\ answer \in [Callers -> Results \cup {None}]
  /\ flight \in [URLs -> Callers \cup {None}]
  /\ op \in [Callers -> OpType]
  /\ \A c \in Callers :
       (pc[c] = "done" <=> answer[c] # None) /\ (op[c].at = "landed" <=> op[c].outcome # None)

\* What the cache holds, and so what it hands out for a day, shows an article,
\* whole, from a place that the policy approved, however many redirects,
\* challenges and renderings led there (Read, HTTPReader.Read, readRendered).
OnlyArticlesAreKept ==
  \A u \in URLs : cache[u] # Absent =>
    LET d == cache[u].document
    IN /\ d.final \in Approved /\ d.page.shows \in {"article", "shell", "short"}
       /\ d.page.shows # "article" => d.via = "http" /\ d.page.kind = "text"
       /\ ~d.page.big
       /\ d.via = "http" => d.page.status = "ok" /\ d.page.kind # "other"

\* A read that several callers share does not end early because one of them
\* leaves: it times out only by its own timeouts, and what it found in time
\* is in the cache for the next (DoChan's WithoutCancel).
LeavingChangesNothing ==
  [][\A c \in Callers : op[c].at # "landed" /\ op'[c].at = "landed" =>
       LET outcome == op'[c].outcome
       IN /\ outcome = Failure("fetch_timeout") => now > op[c].began
          /\ ("document" \in DOMAIN outcome /\ now < op[c].began + OperationTimeout)
               => cache'[req[c].url].document = outcome.document]_vars

\* The service shares operations as Flight.tla describes.
Shared == INSTANCE Flight WITH
  FlightKeys <- URLs,
  Outcomes <- Results,
  outcome <- [c \in Callers |-> IF op[c].at = "landed" THEN op[c].outcome ELSE None],
  got <- [c \in Callers |->
            IF answer[c] = None THEN None
            ELSE IF joined[c] = None \/ answer[c] # op[joined[c]].outcome THEN Left
            ELSE answer[c]]
ImplementsFlight == Shared!Spec
=============================================================================
