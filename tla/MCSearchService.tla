-------------------------- MODULE MCSearchService --------------------------
(* Values for SearchService's constants.                                   *)
EXTENDS SearchService, TLC

CONSTANTS c1, c2, c3, p1, p2, k1, k2

Chains == (k1 :> <<p1, p2>>) @@ (k2 :> <<p1>>)

Request(key, refresh, debug) == [key |-> key, refresh |-> refresh, debug |-> debug]

Mixed ==
  (c1 :> {Request(k1, FALSE, FALSE)}) @@
  (c2 :> {Request(k1, TRUE, FALSE)}) @@
  (c3 :> {Request(k2, FALSE, TRUE)})

OneEach == (p1 :> 1) @@ (p2 :> 1)
Settings ==
  {[slots |-> 1, queue |-> 1], [slots |-> 1, queue |-> 0], [slots |-> 2, queue |-> 0]}
=============================================================================
