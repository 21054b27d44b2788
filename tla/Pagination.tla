----------------------------- MODULE Pagination -----------------------------
(***************************************************************************)
(* websearch: POST /v1/websearch (api/httpapi/router.go) answers page by   *)
(* page without keeping a session.  What the next page needs is sealed in  *)
(* a cursor (cursor/codec.go): the question, the providers that may answer *)
(* it, the one that did, the page, and the token that provider wants back. *)
(* Meanwhile others ask, pages come from the cache, cursors expire and the *)
(* service restarts with other providers.                                  *)
(*                                                                         *)
(* A question is what Fingerprint hashes, normalized: the query, the limit,*)
(* the domain filters and the query options (the region is part of the     *)
(* query here).  The search behind the handler is reduced to its outcomes: *)
(* SearchService.tla models how it comes to them.                          *)
(***************************************************************************)
EXTENDS Naturals, SequencesExt, FiniteSetsExt

CONSTANTS
  Clients, None,
  Garbage,           \* as a cursor: one that does not decode; as a query: another one
  Payloads,          \* request bodies: well-formed or not, question, routing
  Configurations,    \* the lists of enabled providers that a start may find
  AllowRequestProviders,
  LegacyCursors,     \* cursors of version 1, still with clients
  RawPages,          \* what a result page may list: its titled entries with an
                     \* http link, as links (parsers pass over the other entries)
  Canonical,         \* Canonical[link]: its canonical URL and host, or None
  HostMatches,       \* HostMatches[filter]: the hosts a domain filter covers
  MaxPage,           \* 10 in the code
  CursorTTL,
  MaxItems,          \* NewMemory
  MaxTime,           \* bound of the clock
  MaxSearching       \* bound: searches under way at once

\* What may be asked, normalized, and what may be wrong with it.
Questions ==
  [query : {p.question.query : p \in Payloads}, limit : Nat \ {0},
   include : SUBSET DOMAIN HostMatches, exclude : SUBSET DOMAIN HostMatches,
   options : {p.question.options : p \in Payloads}]

Problems ==
  {"invalid_request", "provider_selection_forbidden", "unsupported_search_options",
   "invalid_cursor", "cursor_expired", "cursor_mismatch", "provider_unavailable",
   "upstream_failed", "pagination_source_unavailable"}

ASSUME NoneIsNothing == None \notin Problems

Tokened == {"duckduckgo"}   \* providers that set PaginationKnown

ASSUME ConstantsOK ==
  /\ None \notin Clients /\ MaxPage \in Nat \ {0} /\ MaxTime \in Nat
  /\ CursorTTL \in Nat \ {0} /\ MaxItems \in Nat \ {0} /\ MaxSearching \in Nat \ {0}
  /\ AllowRequestProviders \in BOOLEAN
  /\ \A e \in Configurations :
       e \in Seq(ToSet(e)) /\ e # <<>> /\ IsInjective(e) /\ None \notin ToSet(e)
  /\ \A p \in Payloads : p.question \in Questions /\ p.routing \in Seq(ToSet(p.routing))
  /\ \A k \in LegacyCursors :
       /\ k.version = 1 /\ k.provider # None /\ k.providers # <<>> /\ k.page \in Nat \ {0, 1}
       /\ k.session = [question |-> [query |-> k.fingerprint, limit |-> k.limit, include |-> {},
                                     exclude |-> {}, options |-> {}],
                       provider |-> k.provider, pages |-> k.page - 1]
  /\ RawPages \subseteq Seq(DOMAIN Canonical)

VARIABLES
  now, enabled,
  cache,     \* of the search service: a set of keys with responses
  held,      \* the cursor each client was handed last: who keeps several is
             \* several of these clients
  req,       \* the search under way for each client
  reply      \* what the service just told somebody, None after any other step

vars == <<now, enabled, cache, held, req, reply>>

-----------------------------------------------------------------------------
(* searchplan: what a provider can be asked, and what is kept of its page. *)

FileTypes == {"pdf", "zip"}

\* Normalize refuses a domain that is both asked for and excluded.
Conflicting(question) == question.include \cap question.exclude # {}

\* compiler.Supports; DuckDuckGo takes one file type, of those it documents.
Supports(name, options) ==
  CASE name = "brave" -> TRUE
    [] name = "duckduckgo" -> Cardinality(options \cap FileTypes) <= 1 /\ "zip" \notin options
    [] OTHER -> options = {}

\* The providers that can answer, in their order.
CompatibleProviders(question, providers) ==
  LET kept[n \in 0 .. Len(providers)] ==   \* of the first n
        IF n = 0 THEN <<>>
        ELSE IF Supports(providers[n], question.options) THEN Append(kept[n - 1], providers[n])
        ELSE kept[n - 1]
  IN kept[Len(providers)]

\* Compile: the text sent upstream, by what it is made of.
Compile(question) ==
  [query |-> question.query, options |-> question.options,
   sites |-> question.include, without |-> question.exclude]

\* The identity of a link: case, default ports, fragments and tracking
\* parameters do not count; None when it is no link at all.
CanonicalizeURL(link) == Canonical[link]

DomainAllowed(host, question) ==
  /\ \A filter \in question.exclude : host \notin HostMatches[filter]
  /\ question.include # {} => \E filter \in question.include : host \in HostMatches[filter]

\* The parsers stop reading at the limit, before anything is filtered.
ParsePage(question, raw) == SubSeq(raw, 1, Min({question.limit, Len(raw)}))

\* Of a link: it has an identity, is not filtered out and was not seen.
Lists(question, kept, link) ==
  LET parsed == CanonicalizeURL(link)
  IN /\ Len(kept) < question.limit
     /\ parsed # None /\ DomainAllowed(parsed.host, question)
     /\ \A i \in DOMAIN kept : CanonicalizeURL(kept[i]).url # parsed.url

\* What was parsed, link by link; a rank is a place in the result.
Finalize(question, raw) ==
  LET kept[n \in 0 .. Len(raw)] ==   \* of the first n links
        IF n = 0 THEN <<>>
        ELSE IF Lists(question, kept[n - 1], raw[n]) THEN Append(kept[n - 1], raw[n])
        ELSE kept[n - 1]
  IN kept[Len(raw)]

\* Mutant of Fingerprint: as in cursors of version 1, the query stands for all.
FingerprintOfQuery(question, providers) == <<question.query, providers>>

Fingerprint(question, providers) == <<question, providers>>

\* Mutant of CacheKey: pages are kept by number and question alone.
CacheKeyUnpinned(r) == <<r.page, Fingerprint(r.question, r.providers)>>

\* cacheKey: it names the pinned provider, but not the token.
CacheKey(r) == <<r.provider, r.page, Fingerprint(r.question, r.providers)>>

-----------------------------------------------------------------------------
(* The handler up to the search.                                           *)

Searching == {c \in Clients : req[c] # None}

\* The providers of a request: its own or all, those that can answer it; a
\* cursor brings its own along when the request names none.
Requested(payload) ==
  CompatibleProviders(payload.question, IF payload.routing = <<>> THEN enabled ELSE payload.routing)
Asked(payload, cursor) ==
  IF cursor # None /\ payload.routing = <<>> THEN cursor.providers ELSE Requested(payload)

\* More than 4096 characters: all but the provider's token is short, and nothing
\* bounds that when the cursor is made.
TooLong(cursor) == cursor.token # None /\ cursor.token.long

\* A cursor of version 1 knows the query only, and suits no advanced request.
Matches(payload, cursor) ==
  LET question == payload.question
  IN /\ IF cursor.version = 1
        THEN /\ cursor.fingerprint = question.query
             /\ question.include \cup question.exclude \cup question.options = {}
        ELSE cursor.fingerprint = Fingerprint(question, Asked(payload, cursor))
     /\ cursor.limit = question.limit
     /\ cursor.providers = Asked(payload, cursor)

\* The validations, in their order; None when the request may be searched.
Refusal(payload, cursor) ==
  IF ~payload.well THEN "invalid_request"
  ELSE IF cursor \notin {None, Garbage} /\ TooLong(cursor) THEN "invalid_request"
  ELSE IF ~(ToSet(payload.routing) \subseteq ToSet(enabled) /\ IsInjective(payload.routing))
       THEN "invalid_request"
  ELSE IF payload.routing # <<>> /\ ~AllowRequestProviders THEN "provider_selection_forbidden"
  ELSE IF Conflicting(payload.question) THEN "invalid_request"
  ELSE IF Requested(payload) = <<>> THEN "unsupported_search_options"
  ELSE IF cursor = None THEN None
  ELSE IF cursor = Garbage THEN "invalid_cursor"
  ELSE IF cursor.expires <= now THEN "cursor_expired"
  ELSE IF ~Matches(payload, cursor) THEN "cursor_mismatch"
  ELSE IF cursor.provider \notin ToSet(enabled) THEN "provider_unavailable"
  ELSE None

Problem(code, cause, payload, cursor) ==
  [problem |-> code, cause |-> cause, payload |-> payload, cursor |-> cursor]

\* A client may send any body with any cursor it has heard of.
Post(c) ==
  /\ req[c] = None /\ Cardinality(Searching) < MaxSearching
  /\ \E payload \in Payloads, cursor \in {None, Garbage} \cup {held[d] : d \in Clients} :
       LET code == Refusal(payload, cursor)
       IN IF code # None
          THEN reply' = Problem(code, None, payload, cursor) /\ UNCHANGED req
          ELSE /\ req' = [req EXCEPT ![c] =
                    [question |-> payload.question, providers |-> Asked(payload, cursor),
                     provider |-> IF cursor = None THEN None ELSE cursor.provider,
                     page |-> IF cursor = None THEN 1 ELSE cursor.page,
                     token |-> IF cursor = None THEN None ELSE cursor.token,
                     payload |-> payload, cursor |-> cursor]]
               /\ reply' = None
  /\ UNCHANGED <<now, enabled, cache, held>>

-----------------------------------------------------------------------------
(* The search, and the handler after it.                                   *)

Cursor(r, response) ==
  [version |-> 2, fingerprint |-> Fingerprint(r.question, r.providers),
   provider |-> response.provider, providers |-> r.providers,
   page |-> r.page + 1, token |-> response.token, limit |-> r.question.limit,
   expires |-> now + CursorTTL,
   session |-> IF r.cursor = None   \* no field of the code: what page 1 began
               THEN [question |-> r.question, provider |-> response.provider, pages |-> 1]
               ELSE [r.cursor.session EXCEPT !.pages = @ + 1]]

\* Mutant of HasMore: a full page always has a next one.
HasMoreWhenFull(r, response) ==
  /\ r.page < MaxPage
  /\ Len(response.links) = r.question.limit \/ response.token # None

\* A provider that knows its pagination is believed; else a full page has a
\* next one.
HasMore(r, response) ==
  /\ r.page < MaxPage
  /\ IF response.known THEN response.token # None
     ELSE Len(response.links) = r.question.limit

\* The client gets its page, and a cursor if there may be more.
Serve(c, response) ==
  LET r == req[c]
  IN /\ req' = [req EXCEPT ![c] = None]
     /\ held' = [held EXCEPT ![c] = IF HasMore(r, response) THEN Cursor(r, response) ELSE None]
     /\ reply' = [problem |-> None, payload |-> r.payload, cursor |-> r.cursor,
                  response |-> response]
     /\ UNCHANGED <<now, enabled>>

\* A fresh page of the cache, or a stale one after a failure.  How old an entry
\* is does not matter here: the service may always pass it by (ServeLive).
ServeCached(c) ==
  /\ req[c] # None /\ req[c].page <= MaxPage
  /\ \E kept \in cache : kept.key = CacheKey(req[c]) /\ Serve(c, kept.response)
  /\ UNCHANGED cache

\* The token in a result page: the site's own form for the next page, if there
\* is one.  The form names a query, and is as long as the site made it.
NextForms(name, r) ==
  IF name \notin Tokened THEN {None}
  ELSE {None} \cup [q : {Compile(r.question), Garbage}, s : {r.page + 1}, long : BOOLEAN]

\* What a request cannot ask of a provider, before anything is sent.
Unacceptable(name, r) ==
  \/ r.page > MaxPage \/ ~Supports(name, r.question.options)
  \/ name \in Tokened /\ r.page > 1 /\ (r.token = None \/ r.token.q # Compile(r.question))

\* The pinned provider answers; or one of the chain, with some results, when
\* those before it have failed.  Its page is kept in the cache.
ServeLive(c) ==
  LET r == req[c]
  IN /\ r # None
     /\ \E name \in IF r.provider = None THEN ToSet(r.providers) ELSE {r.provider},
           raw \in RawPages :
          \E token \in NextForms(name, r) :
          LET response ==
                [provider |-> name, links |-> Finalize(r.question, ParsePage(r.question, raw)),
                 raw |-> raw, of |-> r.question, page |-> r.page,
                 known |-> name \in Tokened, token |-> token]
          IN /\ ~Unacceptable(name, r)
             /\ r.provider = None => response.links # <<>>
             /\ Serve(c, response)
             /\ LET others == {kept \in cache : kept.key # CacheKey(r)}
                IN \E kept \in IF Cardinality(others) < MaxItems THEN {others}
                               ELSE {others \ {old} : old \in others} :
                     cache' = kept \cup {[key |-> CacheKey(r), response |-> response]}

\* Whatever the error is, a request with a cursor is told to come back.
SearchFails(c) ==
  LET r == req[c]
  IN /\ r # None
     /\ req' = [req EXCEPT ![c] = None]
     /\ reply' = Problem(IF r.cursor = None THEN "upstream_failed"
                         ELSE "pagination_source_unavailable",
                         IF r.provider # None /\ Unacceptable(r.provider, r)
                         THEN "invalid_request" ELSE "provider_unavailable",
                         r.payload, r.cursor)
     /\ UNCHANGED <<now, enabled, cache, held>>

\* The process dies and is started with other providers, and the same key.
Restart ==
  /\ enabled' \in Configurations
  /\ cache' = {}
  /\ req' = [c \in Clients |-> None]
  /\ reply' = None
  /\ UNCHANGED <<now, held>>

Tick ==
  /\ now < MaxTime
  /\ now' = now + 1 /\ reply' = None
  /\ UNCHANGED <<enabled, cache, held, req>>

Init ==
  /\ now = 0 /\ cache = {}
  /\ enabled \in Configurations
  /\ held \in [Clients -> {None} \cup LegacyCursors]
  /\ req = [c \in Clients |-> None]
  /\ reply = None

ClientStep(c) == Post(c) \/ ServeCached(c) \/ ServeLive(c) \/ SearchFails(c)
Next == Tick \/ Restart \/ \E c \in Clients : ClientStep(c)

Spec == Init /\ [][Next]_vars

-----------------------------------------------------------------------------

Served == reply # None /\ reply.problem = None

\* A later page comes from the provider that answered the first one, answers
\* the same question, and is the next page, whoever asked what in between,
\* from the cache or not, restarted or not (README.md:41 of websearch).
SessionIsOneSearch ==
  Served /\ reply.cursor # None =>
    LET first == reply.cursor.session
    IN /\ reply.response.provider = first.provider
       /\ reply.response.of = first.question
       /\ reply.response.page = first.pages + 1
       /\ reply.response.page <= MaxPage

\* Who repeats a request with the cursor it was handed, in time, is never told
\* that the two do not fit, nor that the request is invalid, as long as the
\* providers it needs are enabled; nor does the search reject what the cursor
\* says.  Two things the site decides are excepted, and nothing else: its form
\* may make the cursor longer than the API takes back, and may name another
\* query than it was asked.  (A cursor of version 1 brings no token along; a
\* request that names a provider twice is refused whatever its cursor says.)
CursorsAreRedeemable ==
  (/\ reply # None /\ ~Served
   /\ reply.cursor \notin {None, Garbage} /\ reply.cursor.version = 2 /\ reply.payload.well
   /\ reply.payload.question = reply.cursor.session.question
   /\ \/ reply.payload.routing = <<>>
      \/ /\ IsInjective(reply.payload.routing)
         /\ Requested(reply.payload) = reply.cursor.providers
   /\ {reply.cursor.provider} \cup ToSet(reply.payload.routing) \subseteq ToSet(enabled))
  => /\ \/ reply.problem \in {"cursor_expired", "provider_selection_forbidden",
                              "pagination_source_unavailable"}
        \/ reply.problem = "invalid_request" /\ TooLong(reply.cursor)
     /\ reply.cause = "invalid_request" =>
          /\ reply.cursor.token # None
          /\ reply.cursor.token.q # Compile(reply.cursor.session.question)

\* The links of a page, against what the result page lists up to the limit.
LinksHonourFilters(question, links, raw) ==
  LET wanted == {link \in {raw[i] : i \in 1 .. Min({question.limit, Len(raw)})} :
                   /\ Canonical[link] # None
                   /\ \A f \in question.exclude : Canonical[link].host \notin HostMatches[f]
                   /\ \/ question.include = {}
                      \/ \E f \in question.include : Canonical[link].host \in HostMatches[f]}
      Pages(set) == {Canonical[link].url : link \in set}
  IN /\ ToSet(links) \subseteq wanted
     /\ Len(links) <= question.limit
     /\ Len(links) = Cardinality(Pages(ToSet(links)))
     /\ Pages(ToSet(links)) = Pages(wanted)

\* A page keeps to the filters and the limit of the request it answers and
\* lists nothing twice, whether it was made for this request or kept for
\* another one; of the first entries of the result page, as many as the limit,
\* it leaves none out that it could have listed.  (What the result page lists
\* after those is never read, however few of them are left.)
PagesHonourFilters ==
  Served =>
    LinksHonourFilters(reply.payload.question, reply.response.links, reply.response.raw)
=============================================================================
