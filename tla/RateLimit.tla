----------------------------- MODULE RateLimit -----------------------------
(***************************************************************************)
(* The rate limiter of internal/middleware/ratelimit.go in front of every  *)
(* /api/ route: a map from client address to a limiter and the time it was *)
(* last asked for, guarded by one mutex, and a goroutine that throws away  *)
(* the entries of clients that have been silent for ten minutes.           *)
(*                                                                         *)
(* A request looks its limiter up under the mutex (getLimiter) and asks it *)
(* afterwards (Allow), so other requests, and the cleanup, come between.   *)
(* The limiter is rate.Limiter of golang.org/x/time: it holds the tokens   *)
(* it had when it last admitted a request, and adds the refill since then  *)
(* only when it is asked.                                                  *)
(*                                                                         *)
(* As in TokenBucket a token is Minute units. Ages are exact up to Horizon *)
(* ticks, where nothing depends on them any more.                          *)
(***************************************************************************)
EXTENDS Integers

CONSTANTS
  IPs,           \* the client addresses
  Requests,      \* the requests that may be in progress at once
  None,          \* no address
  Minute,        \* the ticks in a minute
  PerMinute,     \* NewRateLimiter's argument, RATE_LIMIT_PER_MIN
  CleanupAfter,  \* ten minutes, in ticks
  Stall          \* no request spends more ticks between getLimiter and Allow

(* A wrong variant of Burst, in no specification: the requests per second. *)
BurstPerSecond == PerMinute \div 60

Burst == PerMinute \div 4   \* rl.burst
Cap   == Burst * Minute
Horizon == CleanupAfter + 1

(* A bucket fills up in the time that the cleanup leaves it after the last *)
(* Allow: with burst = perMinute / 4 it takes a quarter of a minute.       *)
ASSUME RateAssumption ==
  /\ Minute \in Nat \ {0} /\ PerMinute \in Nat
  /\ CleanupAfter \in Nat /\ Stall \in Nat
  /\ CleanupAfter >= Stall
  /\ (CleanupAfter - Stall) * PerMinute >= Cap
  /\ None \notin IPs

VARIABLES
  visitors,  \* rl.visitors
  at,        \* at[r]: whose limiter r has looked up and not asked yet
  admitted,  \* history: requests of each address admitted in the window
  age        \* history: the age of the window, which is closed after a minute

windowVars == <<admitted, age>>
vars == <<visitors, at, admitted, age>>

Visitor == [tokens : 0 .. Cap,      \* limiter.tokens at limiter.last
            last   : 0 .. Horizon,  \* ticks since limiter.last
            seen   : 0 .. Horizon]  \* ticks since lastSeen

TypeOK ==
  /\ DOMAIN visitors \subseteq IPs
  /\ visitors \in [DOMAIN visitors -> Visitor]
  /\ at \in [Requests -> IPs \cup {None}]
  /\ \A r \in Requests : at[r] \in DOMAIN visitors \cup {None}
  /\ admitted \in [IPs -> Nat]
  /\ age \in 0 .. Minute

-----------------------------------------------------------------------------
(* Limiter.advance *)
Advance(v) ==
  LET refilled == v.tokens + v.last * PerMinute
  IN  IF refilled > Cap THEN Cap ELSE refilled

(* What the limiter decides if it is asked now: Limiter.reserveN for one   *)
(* token that must be there at once.                                       *)
Admits(v) == 1 <= Burst /\ Advance(v) - Minute >= 0

(* The entry of ip, a new one with a full bucket if there is none. *)
Lookup(ip) ==
  IF ip \in DOMAIN visitors
    THEN visitors[ip]
    ELSE [tokens |-> Cap, last |-> Horizon, seen |-> 0]

Entered(ip, v) ==
  [x \in DOMAIN visitors \cup {ip} |-> IF x = ip THEN v ELSE visitors[x]]

Waiting(ip) == \E r \in Requests : at[r] = ip

-----------------------------------------------------------------------------
(* Wrong variants of operations below, which the checked properties must   *)
(* tell from the right ones. They are part of no specification.            *)

(* lastSeen is set only when the entry is made. *)
GetLimiterUnseen(r, ip) ==
  /\ at[r] = None
  /\ visitors' = Entered(ip, Lookup(ip))
  /\ at' = [at EXCEPT ![r] = ip]
  /\ UNCHANGED windowVars

(* The refill is not taken as paid out: last stays where it was. *)
AllowKeepsLast(r) ==
  /\ at[r] # None
  /\ LET v == visitors[at[r]] IN
       IF Admits(v)
         THEN /\ visitors' = Entered(at[r], [v EXCEPT !.tokens = Advance(v) - Minute])
              /\ admitted' = [admitted EXCEPT ![at[r]] = @ + 1]
         ELSE UNCHANGED <<visitors, admitted>>
  /\ at' = [at EXCEPT ![r] = None]
  /\ UNCHANGED age

(* Clients are forgotten as soon as they have been silent for a tick. *)
CleanupEarly ==
  /\ visitors' = [ip \in {x \in DOMAIN visitors :
                            visitors[x].seen = 0 \/ Waiting(x)} |-> visitors[ip]]
  /\ UNCHANGED <<at, windowVars>>

(* Clients are forgotten even while a request of theirs is under way. *)
CleanupAll ==
  /\ visitors' = [ip \in {} |-> {}]
  /\ UNCHANGED <<at, windowVars>>

-----------------------------------------------------------------------------
Init ==
  /\ visitors = [ip \in {} |-> {}]
  /\ at = [r \in Requests |-> None]
  /\ admitted = [ip \in IPs |-> 0]
  /\ age = 0

GetLimiter(r, ip) ==
  /\ at[r] = None
  /\ visitors' = Entered(ip, [Lookup(ip) EXCEPT !.seen = 0])
  /\ at' = [at EXCEPT ![r] = ip]
  /\ UNCHANGED windowVars

(* The limiter after it has admitted a request. *)
Debited(v) ==
  [tokens |-> Advance(v) - Minute, last |-> 0, seen |-> v.seen]

(* The request is passed on, or answered 429 with the limiter untouched. *)
Allow(r) ==
  /\ at[r] # None
  /\ LET v == visitors[at[r]] IN
       IF Admits(v)
         THEN /\ visitors' = Entered(at[r], Debited(v))
              /\ admitted' = [admitted EXCEPT ![at[r]] = @ + 1]
         ELSE UNCHANGED <<visitors, admitted>>
  /\ at' = [at EXCEPT ![r] = None]
  /\ UNCHANGED age

(* One round of the cleanup goroutine. *)
Cleanup ==
  /\ visitors' = [ip \in {x \in DOMAIN visitors : visitors[x].seen <= CleanupAfter}
                    |-> visitors[ip]]
  /\ UNCHANGED <<at, windowVars>>

Later(n) == IF n = Horizon THEN n ELSE n + 1

Aged(v) == [tokens |-> v.tokens, last |-> Later(v.last), seen |-> Later(v.seen)]

(* Time passes, though never Stall ticks while a request is on its way     *)
(* from getLimiter to Allow, two calls that nothing blocks in between.     *)
Tick ==
  /\ age < Minute
  /\ \A ip \in DOMAIN visitors : Waiting(ip) => visitors[ip].seen < Stall
  /\ visitors' = [ip \in DOMAIN visitors |-> Aged(visitors[ip])]
  /\ age' = age + 1
  /\ UNCHANGED <<at, admitted>>

(* A new window is opened, at any moment. *)
Observe ==
  /\ age' = 0
  /\ admitted' = [ip \in IPs |-> 0]
  /\ UNCHANGED <<visitors, at>>

Next ==
  \/ \E r \in Requests, ip \in IPs : GetLimiter(r, ip)
  \/ \E r \in Requests : Allow(r)
  \/ Cleanup
  \/ Tick
  \/ Observe

Spec == Init /\ [][Next]_vars

-----------------------------------------------------------------------------
(* An address that is not in the map counts as having a full bucket. *)
Bucket == INSTANCE TokenBucket
  WITH level <- [ip \in IPs |-> Advance(Lookup(ip))]

(* Limiters that are created on demand, refilled when asked and thrown     *)
(* away after ten minutes cannot be told from buckets that are always      *)
(* there and refilled all the time: no address gains a token by being      *)
(* forgotten, whichever way requests, cleanup and time interleave          *)
(* (ratelimit.go, getLimiter and cleanup; rate.go, reserveN and advance).  *)
ImplementsBuckets == Bucket!Spec

(* An entry that the cleanup would throw away is one that nobody misses:   *)
(* no request is about to ask its limiter, whose next answer would be lost *)
(* on the map, and the bucket has filled up, though lastSeen, which the    *)
(* cleanup goes by, is set in getLimiter and the limiter debits later, in  *)
(* Allow (ratelimit.go, getLimiter and cleanup).                           *)
ForgetsOnlyFull ==
  \A ip \in DOMAIN visitors :
    visitors[ip].seen > CleanupAfter =>
      ~Waiting(ip) /\ Advance(visitors[ip]) = Cap

(* In a window of age ticks, wherever it starts, an address has no more    *)
(* requests admitted than the burst and the refill of those ticks          *)
(* (ratelimit.go, Middleware).                                             *)
WindowBound ==
  \A ip \in IPs : admitted[ip] * Minute <= Cap + age * PerMinute

(* A client that has kept silent for the 60 seconds that a 429 asks for in *)
(* Retry-After is admitted next, however often it was refused before       *)
(* (ratelimit.go, Middleware).                                             *)
RetryAfterHonest ==
  \A ip \in DOMAIN visitors :
    visitors[ip].seen >= Minute /\ ~Waiting(ip) => Admits(visitors[ip])
=============================================================================
