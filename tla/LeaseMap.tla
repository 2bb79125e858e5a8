------------------------------ MODULE LeaseMap ------------------------------
(***************************************************************************)
(* What a TTL cache promises, without lazy expiry and without eviction: a  *)
(* value set under a key is leased for TTL ticks and is then gone at once. *)
(* A lookup takes a view of the lease; the lease may still run out under   *)
(* the view before the caller uses it.                                     *)
(***************************************************************************)
EXTENDS Integers

CONSTANTS Keys, Values, Callers, TTL

VARIABLES
  live,  \* live[k]: the lease on k, if one runs
  view   \* view[c]: the lease that c's lookup saw, while it runs

leaseVars == <<live, view>>

(* The leases of S one tick later. *)
Aged(S) == {[l EXCEPT !.age = @ + 1] : l \in {x \in S : x.age < TTL}}

Init ==
  /\ live = [k \in Keys |-> {}]
  /\ view = [c \in Callers |-> {}]

Grant(k, v) ==
  /\ live' = [live EXCEPT ![k] = {[value |-> v, age |-> 0]}]
  /\ UNCHANGED view

Look(c, k) ==
  /\ view' = [view EXCEPT ![c] = live[k]]
  /\ UNCHANGED live

Use(c) ==
  /\ view' = [view EXCEPT ![c] = {}]
  /\ UNCHANGED live

RevokeAll ==
  /\ live' = [k \in Keys |-> {}]
  /\ UNCHANGED view

Pass ==
  /\ live' = [k \in Keys |-> Aged(live[k])]
  /\ view' = [c \in Callers |-> Aged(view[c])]

Next ==
  \/ \E k \in Keys, v \in Values : Grant(k, v)
  \/ \E c \in Callers, k \in Keys : Look(c, k)
  \/ \E c \in Callers : Use(c)
  \/ RevokeAll
  \/ Pass

Spec == Init /\ [][Next]_leaseVars
=============================================================================
