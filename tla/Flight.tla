------------------------------- MODULE Flight -------------------------------
(***************************************************************************)
(* What the search service and the read service build on                   *)
(* golang.org/x/sync/singleflight promise: callers that ask for the same   *)
(* key while an operation for it is under way share that operation and its *)
(* one outcome, and a caller that cannot wait leaves alone.                *)
(***************************************************************************)

CONSTANTS Callers, FlightKeys, None, Left, Outcomes

VARIABLES
  flight,    \* the caller that began the operation under way for a key
  joined,    \* the caller whose operation a caller has joined
  outcome,   \* what came of the operation a caller began
  got        \* what a caller received; Left when it did not wait for it

vars == <<flight, joined, outcome, got>>

Join(c, k) ==
  /\ joined[c] = None /\ got[c] = None
  /\ IF flight[k] = None
     THEN /\ flight' = [flight EXCEPT ![k] = c]
          /\ joined' = [joined EXCEPT ![c] = c]
     ELSE /\ joined' = [joined EXCEPT ![c] = flight[k]]
          /\ UNCHANGED flight
  /\ UNCHANGED <<outcome, got>>

\* The operation ends, and the key is free for the next one.
Land(k) ==
  /\ flight[k] # None
  /\ outcome'[flight[k]] \in Outcomes
  /\ outcome' = [outcome EXCEPT ![flight[k]] = outcome'[flight[k]]]
  /\ flight' = [flight EXCEPT ![k] = None]
  /\ UNCHANGED <<joined, got>>

Receive(c) ==
  /\ joined[c] # None /\ got[c] = None
  /\ outcome[joined[c]] # None
  /\ got' = [got EXCEPT ![c] = outcome[joined[c]]]
  /\ UNCHANGED <<flight, joined, outcome>>

Leave(c) ==
  /\ got[c] = None
  /\ got' = [got EXCEPT ![c] = Left]
  /\ UNCHANGED <<flight, joined, outcome>>

Init ==
  /\ flight = [k \in FlightKeys |-> None]
  /\ joined = [c \in Callers |-> None]
  /\ outcome = [c \in Callers |-> None]
  /\ got = [c \in Callers |-> None]

Next ==
  \/ \E c \in Callers : (\E k \in FlightKeys : Join(c, k)) \/ Receive(c) \/ Leave(c)
  \/ \E k \in FlightKeys : Land(k)

Spec == Init /\ [][Next]_vars
=============================================================================
