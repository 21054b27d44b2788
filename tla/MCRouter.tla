------------------------------ MODULE MCRouter ------------------------------
(* Values for Router's constants.                                          *)
EXTENDS Router, TLC

CONSTANTS s1, s2, f1, f2, g1

TwoPools == (f1 :> 1) @@ (f2 :> 1) @@ (g1 :> 2)
OneEach == (f1 :> 1) @@ (g1 :> 2)
=============================================================================
