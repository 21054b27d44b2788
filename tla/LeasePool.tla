------------------------------ MODULE LeasePool ------------------------------
(***************************************************************************)
(* What a profile pool promises to the code that searches through it,      *)
(* whatever the trust, cooldown, notification and persistence machinery    *)
(* behind it does: a caller holds at most one lease at a time, a profile   *)
(* is never leased to more callers than its capacity, a profile's resource *)
(* is exchanged for a new one only when nobody holds a lease on it, and a  *)
(* pool that stopped accepting work grants nothing.                        *)
(*                                                                         *)
(* ProfilePool.tla implements this specification.                          *)
(***************************************************************************)
EXTENDS Naturals, FiniteSets

CONSTANTS
  Profiles,    \* the search identities of one provider
  Callers,     \* the goroutines that ask for leases
  Capacity,    \* [Profiles -> Nat \ {0}], Profile.Capacity()
  NoProfile    \* "no lease"

VARIABLES
  held,         \* the profile each caller holds a lease on
  incarnation,  \* which resource stands behind each profile's name
  accepting     \* whether the pool hands out leases at all

vars == <<held, incarnation, accepting>>

HoldersOf(p) == {c \in Callers : held[c] = p}

Init ==
  /\ held = [c \in Callers |-> NoProfile]
  /\ incarnation \in [Profiles -> Nat]
  /\ accepting = FALSE

\* One slot of p goes to c.
Grant(c, p) ==
  /\ accepting
  /\ held[c] = NoProfile
  /\ Cardinality(HoldersOf(p)) < Capacity[p]
  /\ held' = [held EXCEPT ![c] = p]
  /\ UNCHANGED <<incarnation, accepting>>

\* c gives its slot back; this must be possible in every phase.
Return(c) ==
  /\ held[c] # NoProfile
  /\ held' = [held EXCEPT ![c] = NoProfile]
  /\ UNCHANGED <<incarnation, accepting>>

\* The resource behind p is closed and exchanged: only when p is idle.
Exchange(p) ==
  /\ HoldersOf(p) = {}
  /\ incarnation' = [incarnation EXCEPT ![p] = @ + 1]
  /\ UNCHANGED <<held, accepting>>

\* The pool starts or stops accepting work.
Switch ==
  /\ accepting' = ~accepting
  /\ UNCHANGED <<held, incarnation>>

\* The process dies and comes back: nobody holds anything.
Restart ==
  /\ held' = [c \in Callers |-> NoProfile]
  /\ incarnation' \in [Profiles -> Nat]
  /\ accepting' = FALSE

Next ==
  \/ \E c \in Callers, p \in Profiles : Grant(c, p)
  \/ \E c \in Callers : Return(c)
  \/ \E p \in Profiles : Exchange(p)
  \/ Switch
  \/ Restart

Spec == Init /\ [][Next]_vars
=============================================================================
