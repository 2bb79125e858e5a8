------------------------------ MODULE TTLCache ------------------------------
(***************************************************************************)
(* The in-memory cache of internal/cache/cache.go: a map guarded by an     *)
(* RWMutex, whose entries expire a fixed time after they were set.         *)
(*                                                                         *)
(* Every operation holds the lock once, so each is one action, except Get: *)
(* it copies the entry under RLock and looks at the clock only after       *)
(* RUnlock, so other goroutines run between the two.                       *)
(*                                                                         *)
(* Time is counted in ticks, and relative to now: an entry carries the     *)
(* ticks left until expiresAt, -1 standing for every moment after it.      *)
(***************************************************************************)
EXTENDS Integers

CONSTANTS
  Keys,     \* the cache keys in use
  Values,   \* what may be stored under them
  Callers,  \* the goroutines that call Get
  TTL       \* c.ttl, in ticks

ASSUME TTLAssumption == TTL \in Nat

VARIABLES
  m,        \* c.m
  held      \* held[c]: the entry (at most one) that c's Get copied out of c.m

cacheVars == <<m, held>>

Entry == [value : Values, left : -1 .. TTL]

TypeOK ==
  /\ DOMAIN m \subseteq Keys
  /\ m \in [DOMAIN m -> Entry]
  /\ held \in [Callers -> SUBSET Entry]

-----------------------------------------------------------------------------
(* Wrong variants of operations below, which the checked properties must   *)
(* tell from the right ones. They are part of no specification.            *)

(* An entry is never taken to have expired. *)
NeverExpired(e) == FALSE

(* Counts the lease from the next tick. *)
SetLate(k, v) ==
  /\ m' = [x \in DOMAIN m \cup {k} |->
             IF x = k THEN [value |-> v, left |-> TTL + 1] ELSE m[x]]
  /\ UNCHANGED held

-----------------------------------------------------------------------------
(* time.Now().After(e.expiresAt) *)
Expired(e) == e.left < 0

(* The same entry, one tick later. *)
Older(e) == [e EXCEPT !.left = IF Expired(e) THEN @ ELSE @ - 1]

(* e, ok := c.m[key], as a set with the entry in it if there is one. *)
Found(k) == {m[x] : x \in DOMAIN m \cap {k}}

(* What Get returns for the entry it copied: nothing once it has expired.  *)
Fresh(S) == {e \in S : ~Expired(e)}

-----------------------------------------------------------------------------
(* New; its eviction goroutine is the action Evict. *)
Init ==
  /\ m = [k \in {} |-> {}]
  /\ held = [c \in Callers |-> {}]

Set(k, v) ==
  /\ m' = [x \in DOMAIN m \cup {k} |->
             IF x = k THEN [value |-> v, left |-> TTL] ELSE m[x]]
  /\ UNCHANGED held

(* The half of Get under RLock. *)
GetLookup(c, k) ==
  /\ held' = [held EXCEPT ![c] = Found(k)]
  /\ UNCHANGED m

(* The half of Get after RUnlock: it returns Fresh(held[c]). *)
GetReturn(c) ==
  /\ held' = [held EXCEPT ![c] = {}]
  /\ UNCHANGED m

Flush ==
  /\ m' = [k \in {} |-> {}]
  /\ UNCHANGED held

(* One round of the eviction goroutine. It reads the clock before it has   *)
(* the lock, at a moment that is not kept: what it removes had expired by  *)
(* then, and an entry that expired while it waited may stay.               *)
Evict ==
  /\ \E S \in SUBSET {k \in DOMAIN m : Expired(m[k])} :
       m' = [x \in DOMAIN m \ S |-> m[x]]
  /\ UNCHANGED held

(* The clock advances; the copies that Gets hold age with the originals. *)
Elapse ==
  /\ m' = [k \in DOMAIN m |-> Older(m[k])]
  /\ held' = [c \in Callers |-> {Older(e) : e \in held[c]}]

-----------------------------------------------------------------------------
Next ==
  \/ \E k \in Keys, v \in Values : Set(k, v)
  \/ \E c \in Callers, k \in Keys : held[c] = {} /\ GetLookup(c, k)
  \/ \E c \in Callers : GetReturn(c)
  \/ Flush
  \/ Evict
  \/ Elapse

Spec == Init /\ [][Next]_cacheVars

-----------------------------------------------------------------------------
(* What callers can observe of the cache: the leases that still run. *)
Lease(e) == [value |-> e.value, age |-> TTL - e.left]

Promise == INSTANCE LeaseMap
  WITH live <- [k \in Keys |-> {Lease(e) : e \in Fresh(Found(k))}],
       view <- [c \in Callers |-> {Lease(e) : e \in Fresh(held[c])}]

(* The lazily cleaned map keeps the promise of LeaseMap: a Get returns the *)
(* value last set, exactly until TTL has passed or the cache was flushed,  *)
(* whenever the eviction goroutine runs, even between the two halves of a  *)
(* Get (cache.go, Set to evict).                                           *)
KeepsLeases == Promise!Spec

=============================================================================
