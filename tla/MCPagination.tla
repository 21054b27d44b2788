---------------------------- MODULE MCPagination ----------------------------
(* Values for Pagination's constants.                                      *)
EXTENDS Pagination

\* A plain question, and one that is filtered and that few providers can take;
\* one that contradicts itself; a body that is not even one.
Ask(exclude, options) ==
  [query |-> "q", limit |-> 3, include |-> {}, exclude |-> exclude, options |-> options]
Plain == Ask({}, {})
Advanced == Ask({"b.org"}, {"pdf"})

Body(question, routing) == [well |-> TRUE, question |-> question, routing |-> routing]
SomePayloads ==
  {Body(Plain, <<>>), Body(Plain, <<"duckduckgo", "baidu">>), Body(Advanced, <<>>),
   Body([Advanced EXCEPT !.include = {"b.org"}], <<"baidu">>),
   [Body(Plain, <<>>) EXCEPT !.well = FALSE]}

SomeConfigurations == {<<"baidu", "duckduckgo">>, <<"baidu">>}

OldCursors ==
  {[version |-> 1, fingerprint |-> "q", provider |-> "baidu",
    providers |-> <<"baidu", "duckduckgo">>, page |-> 2, token |-> None, limit |-> 3, expires |-> 1,
    session |-> [question |-> Plain, provider |-> "baidu", pages |-> 1]]}

\* The bad link has no host; two links lead to one page.  The last entries are
\* never read; to the advanced question the first page is empty.
Identities ==
  [bad |-> None, x |-> [url |-> "x", host |-> "www.b.org"],
   x_tracked |-> [url |-> "x", host |-> "www.b.org"],
   y |-> [url |-> "y", host |-> "a.org"], z |-> [url |-> "z", host |-> "a.org"]]
SomePages == {<<"x", "bad", "x_tracked", "y">>, <<"z", "x", "y", "bad">>}

Covers == [filter \in {"b.org"} |-> {"b.org", "www.b.org"}]

Alike == Permutations(Clients)
=============================================================================
