-------------------------- MODULE RateLimitProofs --------------------------
(***************************************************************************)
(* The limiters of internal/middleware/ratelimit.go behave as buckets that *)
(* are always there, and the bound on admitted requests that follows, for  *)
(* any addresses, rate, cleanup time and number of requests.               *)
(***************************************************************************)
EXTENDS RateLimit, TLAPS

LEMMA CapNat == Burst \in Nat /\ Cap \in Nat
<1>1. Burst \in Nat
  BY RateAssumption DEF Burst
<1>. QED
  BY <1>1, RateAssumption DEF Cap

(* The refill of a longer time is no smaller. *)
LEMMA RefillMonotone ==
  ASSUME NEW a \in Nat, NEW b \in Nat, a <= b
  PROVE  /\ a * PerMinute \in Nat /\ b * PerMinute \in Nat
         /\ a * PerMinute <= b * PerMinute
<1>1. PICK c \in Nat : b = a + c
  <2>1. b - a \in Nat /\ b = a + (b - a)
    OBVIOUS
  <2>. QED
    BY <2>1
<1>2. a * PerMinute \in Nat /\ b * PerMinute \in Nat /\ c * PerMinute \in Nat
  BY <1>1, RateAssumption
<1>3. b * PerMinute = a * PerMinute + c * PerMinute
  BY <1>1, RateAssumption
<1>. QED
  BY <1>2, <1>3

LEMMA HorizonFills ==
  /\ Horizon \in Nat
  /\ \A n \in Nat : n > CleanupAfter - Stall => n * PerMinute >= Cap
<1>1. Horizon \in Nat
  BY RateAssumption DEF Horizon
<1>2. ASSUME NEW n \in Nat, n > CleanupAfter - Stall
      PROVE  n * PerMinute >= Cap
  <2>1. CleanupAfter - Stall \in Nat /\ CleanupAfter - Stall <= n
    BY <1>2, RateAssumption
  <2>2. (CleanupAfter - Stall) * PerMinute <= n * PerMinute
    BY <2>1, RefillMonotone
  <2>. QED
    BY <2>1, <2>2, CapNat, RateAssumption, RefillMonotone
<1>. QED
  BY <1>1, <1>2

(* What a limiter has when it is asked. *)
LEMMA AdvanceFacts ==
  ASSUME NEW v \in Visitor
  PROVE  /\ Advance(v) \in 0 .. Cap
         /\ v.last = 0 => Advance(v) = v.tokens
         /\ v.last > CleanupAfter - Stall => Advance(v) = Cap
<1>1. v.tokens \in 0 .. Cap /\ v.last \in Nat /\ v.last * PerMinute \in Nat
  BY HorizonFills, RefillMonotone DEF Visitor
<1>2. v.last = 0 => v.last * PerMinute = 0
  BY RateAssumption
<1>3. v.last > CleanupAfter - Stall => v.last * PerMinute >= Cap
  BY <1>1, HorizonFills
<1>. QED
  BY <1>1, <1>2, <1>3, CapNat DEF Advance

(* A tick later it has the refill of one tick more. *)
LEMMA AdvanceLater ==
  ASSUME NEW v \in Visitor, NEW w \in Visitor,
         w.tokens = v.tokens, w.last = Later(v.last)
  PROVE  Advance(w) = IF Advance(v) + PerMinute > Cap
                        THEN Cap ELSE Advance(v) + PerMinute
<1>1. /\ v.tokens \in 0 .. Cap /\ v.last \in Nat /\ Horizon \in Nat
      /\ v.last * PerMinute \in Nat /\ PerMinute \in Nat /\ Cap \in Nat
  BY HorizonFills, RefillMonotone, CapNat, RateAssumption DEF Visitor
<1>2. CASE v.last = Horizon
  <2>1. v.last > CleanupAfter - Stall /\ w.last > CleanupAfter - Stall
    BY <1>2, RateAssumption DEF Horizon, Later
  <2>2. Advance(v) = Cap /\ Advance(w) = Cap
    BY <2>1, AdvanceFacts
  <2>. QED
    BY <1>1, <2>2
<1>3. CASE v.last # Horizon
  <2>1. w.last * PerMinute = v.last * PerMinute + PerMinute
    BY <1>1, <1>3 DEF Later
  <2>. QED
    BY <1>1, <2>1 DEF Advance
<1>. QED
  BY <1>2, <1>3

-----------------------------------------------------------------------------
(* A request that has its limiter asks it within Stall ticks, so that the  *)
(* limiter was debited before its client was last seen, or at most Stall   *)
(* ticks after.                                                            *)
LagBound ==
  \A ip \in DOMAIN visitors :
    /\ Waiting(ip) => visitors[ip].seen <= Stall
    /\ visitors[ip].seen <= visitors[ip].last + Stall

LEMMA RateLimitInv == Spec => [](TypeOK /\ LagBound)
<1>. USE RateAssumption, CapNat, HorizonFills
<1>1. Init => TypeOK /\ LagBound
  BY DEF Init, TypeOK, LagBound
<1>2. ASSUME TypeOK, LagBound, [Next]_vars
      PROVE  TypeOK' /\ LagBound'
  <2>. USE <1>2 DEF TypeOK
  <2>1. ASSUME NEW r \in Requests, NEW ip \in IPs, GetLimiter(r, ip)
        PROVE  TypeOK' /\ LagBound'
    <3>. DEFINE v == [Lookup(ip) EXCEPT !.seen = 0]
    <3>1. Lookup(ip) \in Visitor
      BY DEF Lookup, Visitor
    <3>2. v \in Visitor /\ v.seen = 0 /\ v.last \in Nat
      BY <3>1 DEF Visitor
    <3>. HIDE DEF v
    <3>3. /\ visitors' = [x \in DOMAIN visitors \cup {ip} |->
                            IF x = ip THEN v ELSE visitors[x]]
          /\ at' = [at EXCEPT ![r] = ip]
          /\ UNCHANGED <<admitted, age>>
      BY <2>1 DEF GetLimiter, Entered, windowVars, v
    <3>4. TypeOK'
      BY <3>2, <3>3
    <3>5. \A x \in DOMAIN visitors' \ {ip} :
            x \in DOMAIN visitors /\ visitors'[x] = visitors[x]
            /\ (Waiting(x)' => Waiting(x))
      BY <3>3 DEF Waiting
    <3>6. visitors'[ip] = v
      BY <3>3
    <3>7. LagBound'
      BY <3>2, <3>5, <3>6 DEF LagBound
    <3>. QED
      BY <3>4, <3>7
  <2>2. ASSUME NEW r \in Requests, Allow(r)
        PROVE  TypeOK' /\ LagBound'
    <3>1. at[r] \in DOMAIN visitors /\ at[r] \in IPs /\ visitors[at[r]] \in Visitor
      BY <2>2 DEF Allow
    <3>2. at' = [at EXCEPT ![r] = None] /\ age' = age
      BY <2>2 DEF Allow
    <3>3. CASE Admits(visitors[at[r]])
      <4>. DEFINE v == Debited(visitors[at[r]])
      <4>1. /\ Advance(visitors[at[r]]) \in 0 .. Cap
            /\ Advance(visitors[at[r]]) - Minute >= 0
        BY <3>1, <3>3, AdvanceFacts DEF Admits
      <4>2. v \in Visitor /\ v.last = 0 /\ v.seen = visitors[at[r]].seen
        BY <3>1, <4>1 DEF Visitor, Debited
      <4>3. v.seen <= Stall
        BY <3>1, <4>2 DEF LagBound, Waiting
      <4>4. PICK ip : ip = at[r]
        OBVIOUS
      <4>5. /\ visitors' = [x \in DOMAIN visitors \cup {ip} |->
                              IF x = ip THEN v ELSE visitors[x]]
            /\ admitted' = [admitted EXCEPT ![ip] = @ + 1]
        BY <2>2, <3>3, <4>4 DEF Allow, Entered
      <4>. HIDE DEF v
      <4>6. visitors'[ip] = v /\ DOMAIN visitors' = DOMAIN visitors
        BY <3>1, <4>4, <4>5
      <4>7. \A x \in DOMAIN visitors \ {ip} : visitors'[x] = visitors[x]
        BY <4>5
      <4>8. \A x \in IPs : Waiting(x)' => Waiting(x)
        BY <3>2 DEF Waiting
      <4>9. TypeOK'
        <5>1. visitors' \in [DOMAIN visitors' -> Visitor]
          BY <4>2, <4>5
        <5>2. admitted' \in [IPs -> Nat]
          BY <3>1, <4>4, <4>5
        <5>. QED
          BY <3>2, <4>6, <5>1, <5>2
      <4>10. LagBound'
        BY <4>2, <4>3, <4>6, <4>7, <4>8 DEF LagBound, Visitor
      <4>. QED
        BY <4>9, <4>10
    <3>4. CASE ~Admits(visitors[at[r]])
      <4>1. UNCHANGED <<visitors, admitted>>
        BY <2>2, <3>4 DEF Allow
      <4>2. \A x \in IPs : Waiting(x)' => Waiting(x)
        BY <3>2 DEF Waiting
      <4>. QED
        BY <3>2, <4>1, <4>2 DEF LagBound
    <3>. QED
      BY <3>3, <3>4
  <2>3. CASE Cleanup
    <3>1. \A ip \in DOMAIN visitors : Waiting(ip) => visitors[ip].seen <= CleanupAfter
      BY DEF LagBound, Visitor
    <3>2. /\ visitors' = [ip \in {x \in DOMAIN visitors : visitors[x].seen <= CleanupAfter}
                            |-> visitors[ip]]
          /\ UNCHANGED <<at, admitted, age>>
      BY <2>3 DEF Cleanup, windowVars
    <3>3. \A r \in Requests : at[r] \in DOMAIN visitors' \cup {None}
      BY <3>1, <3>2 DEF Waiting
    <3>4. LagBound'
      BY <3>2 DEF LagBound, Waiting
    <3>. QED
      BY <3>2, <3>3, <3>4
  <2>4. CASE Tick
    <3>1. /\ DOMAIN visitors' = DOMAIN visitors
          /\ age' = age + 1 /\ age < Minute
          /\ UNCHANGED <<at, admitted>>
      BY <2>4 DEF Tick
    <3>2. \A ip \in DOMAIN visitors :
            /\ visitors'[ip] \in Visitor
            /\ visitors'[ip].last = Later(visitors[ip].last)
            /\ visitors'[ip].seen = Later(visitors[ip].seen)
            /\ Waiting(ip) => visitors[ip].seen < Stall
      BY <2>4 DEF Tick, Visitor, Aged, Later
    <3>3. TypeOK'
      <4>1. visitors' \in [DOMAIN visitors' -> Visitor]
        BY <2>4, <3>1, <3>2 DEF Tick
      <4>. QED
        BY <3>1, <4>1
    <3>4. LagBound'
      <4>. SUFFICES ASSUME NEW ip \in DOMAIN visitors
                    PROVE  /\ Waiting(ip) => visitors'[ip].seen <= Stall
                           /\ visitors'[ip].seen <= visitors'[ip].last + Stall
        BY <3>1 DEF LagBound, Waiting
      <4>1. /\ visitors[ip].seen \in 0 .. Horizon
            /\ visitors[ip].last \in 0 .. Horizon
            /\ visitors[ip].seen <= visitors[ip].last + Stall
        BY DEF LagBound, Visitor
      <4>2. /\ visitors'[ip].last = Later(visitors[ip].last)
            /\ visitors'[ip].seen = Later(visitors[ip].seen)
        BY <3>2
      <4>3. visitors'[ip].seen <= visitors'[ip].last + Stall
        <5>1. ASSUME NEW a \in 0 .. Horizon, NEW b \in 0 .. Horizon, a <= b + Stall
              PROVE  Later(a) <= Later(b) + Stall
          BY <5>1 DEF Later
        <5>. QED
          BY <4>1, <4>2, <5>1
      <4>4. ASSUME Waiting(ip)
            PROVE  visitors'[ip].seen <= Stall
        <5>1. visitors[ip].seen < Stall
          BY <3>2, <4>4
        <5>. QED
          BY <4>1, <4>2, <5>1 DEF Later
      <4>. QED
        BY <4>3, <4>4
    <3>. QED
      BY <3>3, <3>4
  <2>5. CASE Observe
    BY <2>5 DEF Observe, LagBound, Waiting
  <2>6. CASE UNCHANGED vars
    BY <2>6 DEF vars, LagBound, Waiting
  <2>. QED
    BY <2>1, <2>2, <2>3, <2>4, <2>5, <2>6 DEF Next
<1>. QED
  BY <1>1, <1>2, PTL DEF Spec

(* Entries stay in range, and in the map as long as a request needs them   *)
(* (ratelimit.go, visitor and cleanup).                                    *)
THEOREM RateLimitTypeOK == Spec => []TypeOK
BY RateLimitInv, PTL

(* What the cleanup throws away is full and in nobody's hands: its limiter *)
(* was debited at most Stall ticks after the last sight of its client, and *)
(* has had the rest of the ten minutes to fill up (ratelimit.go, cleanup). *)
THEOREM RateLimitForgetsOnlyFull == Spec => []ForgetsOnlyFull
<1>1. TypeOK /\ LagBound => ForgetsOnlyFull
  <2>. SUFFICES ASSUME TypeOK, LagBound, NEW ip \in DOMAIN visitors,
                       visitors[ip].seen > CleanupAfter
                PROVE  ~Waiting(ip) /\ Advance(visitors[ip]) = Cap
    BY DEF ForgetsOnlyFull
  <2>1. /\ visitors[ip] \in Visitor
        /\ Waiting(ip) => visitors[ip].seen <= Stall
        /\ visitors[ip].seen <= visitors[ip].last + Stall
    BY DEF TypeOK, LagBound
  <2>2. visitors[ip].seen \in Nat /\ visitors[ip].last \in Nat
    BY <2>1, HorizonFills DEF Visitor
  <2>3. ~Waiting(ip)
    BY <2>1, <2>2, RateAssumption
  <2>4. visitors[ip].last > CleanupAfter - Stall
    BY <2>1, <2>2, RateAssumption
  <2>. QED
    BY <2>1, <2>3, <2>4, AdvanceFacts
<1>. QED
  BY <1>1, RateLimitInv, PTL

-----------------------------------------------------------------------------
(* Refinement. *)

LEMMA SameCap == Bucket!Cap = Cap
BY DEF Bucket!Cap, Bucket!Burst, Cap, Burst

(* The content of ip's bucket. *)
Level(ip) == Advance(Lookup(ip))

LEMMA LookupTyped ==
  ASSUME TypeOK, NEW ip \in IPs
  PROVE  /\ Lookup(ip) \in Visitor
         /\ ip \notin DOMAIN visitors => Level(ip) = Cap
<1>1. Lookup(ip) \in Visitor
  BY CapNat, HorizonFills DEF TypeOK, Lookup, Visitor
<1>2. ip \notin DOMAIN visitors => Lookup(ip).last > CleanupAfter - Stall
  BY RateAssumption DEF Lookup, Horizon
<1>. QED
  BY <1>1, <1>2, AdvanceFacts DEF Level

(* Every step of the limiter is a step of the buckets, or changes none of  *)
(* them.                                                                   *)
LEMMA BucketStep ==
  ASSUME TypeOK, LagBound, TypeOK', [Next]_vars
  PROVE  [Bucket!Next]_(Bucket!bucketVars)
<1>. USE RateAssumption, CapNat, HorizonFills
<1>1. ASSUME NEW r \in Requests, NEW ip \in IPs, GetLimiter(r, ip)
      PROVE  UNCHANGED Bucket!bucketVars
  <2>1. Lookup(ip) \in Visitor
    BY LookupTyped
  <2>2. [Lookup(ip) EXCEPT !.seen = 0].tokens = Lookup(ip).tokens
        /\ [Lookup(ip) EXCEPT !.seen = 0].last = Lookup(ip).last
    BY <2>1 DEF Visitor
  <2>3. visitors' = [x \in DOMAIN visitors \cup {ip} |->
                       IF x = ip THEN [Lookup(ip) EXCEPT !.seen = 0] ELSE visitors[x]]
    BY <1>1 DEF GetLimiter, Entered
  <2>4. Level(ip)' = Level(ip)
    <3>1. Lookup(ip)' = [Lookup(ip) EXCEPT !.seen = 0]
      BY <2>3 DEF Lookup
    <3>2. Advance(Lookup(ip)') = Advance(Lookup(ip))
      BY <2>2, <3>1 DEF Advance
    <3>. QED
      BY <3>2 DEF Level, Advance
  <2>5. \A x \in IPs \ {ip} : Level(x)' = Level(x)
    BY <2>3 DEF Level, Lookup, Advance
  <2>. QED
    BY <1>1, <2>4, <2>5 DEF Bucket!bucketVars, Level, GetLimiter, windowVars
<1>2. ASSUME NEW r \in Requests, Allow(r)
      PROVE  [Bucket!Next]_(Bucket!bucketVars)
  <2>1. PICK ip \in IPs : ip = at[r] /\ ip \in DOMAIN visitors
    BY <1>2 DEF Allow, TypeOK
  <2>2. Lookup(ip) = visitors[ip] /\ visitors[ip] \in Visitor
    BY <2>1 DEF Lookup, TypeOK
  <2>3. CASE Admits(visitors[ip])
    <3>1. /\ visitors' = [x \in DOMAIN visitors \cup {ip} |->
                            IF x = ip THEN Debited(visitors[ip]) ELSE visitors[x]]
          /\ admitted' = [admitted EXCEPT ![ip] = @ + 1]
          /\ age' = age
      BY <1>2, <2>1, <2>3 DEF Allow, Entered
    <3>2. Level(ip) >= Minute /\ Level(ip) \in 0 .. Cap
      BY <2>2, <2>3, AdvanceFacts DEF Admits, Level
    <3>3. Level(ip)' = Level(ip) - Minute
      <4>1. Lookup(ip)' = Debited(visitors[ip])
        BY <2>1, <3>1 DEF Lookup
      <4>2. Debited(visitors[ip]) \in Visitor
        BY <2>2, <3>2 DEF Debited, Visitor, Level
      <4>3. Advance(Debited(visitors[ip])) = Level(ip) - Minute
        BY <2>2, <4>2, AdvanceFacts DEF Debited, Level
      <4>. QED
        BY <4>1, <4>3 DEF Level, Advance
    <3>4. \A x \in IPs \ {ip} : Level(x)' = Level(x)
      BY <3>1 DEF Level, Lookup, Advance
    <3>5. Bucket!Admit(ip)
      BY <3>1, <3>2, <3>3, <3>4 DEF Bucket!Admit, Level
    <3>. QED
      BY <3>5 DEF Bucket!Next
  <2>4. CASE ~Admits(visitors[ip])
    <3>1. UNCHANGED <<visitors, admitted, age>>
      BY <1>2, <2>1, <2>4 DEF Allow
    <3>. QED
      BY <3>1 DEF Bucket!bucketVars, Lookup, Advance
  <2>. QED
    BY <2>3, <2>4
<1>3. ASSUME Cleanup
      PROVE  UNCHANGED Bucket!bucketVars
  <2>1. /\ visitors' = [ip \in {x \in DOMAIN visitors : visitors[x].seen <= CleanupAfter}
                          |-> visitors[ip]]
        /\ UNCHANGED <<admitted, age>>
    BY <1>3 DEF Cleanup, windowVars
  <2>2. ASSUME NEW ip \in IPs
        PROVE  Level(ip)' = Level(ip)
    <3>1. CASE ip \in DOMAIN visitors /\ visitors[ip].seen > CleanupAfter
      <4>1. visitors[ip] \in Visitor /\ ip \notin DOMAIN visitors'
        BY <2>1, <3>1 DEF TypeOK, Visitor
      <4>2. visitors[ip].last > CleanupAfter - Stall
        BY <3>1, <4>1 DEF LagBound, Visitor
      <4>3. Level(ip) = Cap
        BY <3>1, <4>1, <4>2, AdvanceFacts DEF Level, Lookup
      <4>4. Level(ip)' = Cap
        <5>1. /\ Lookup(ip)' = [tokens |-> Cap, last |-> Horizon, seen |-> 0]
          BY <4>1 DEF Lookup
        <5>2. [tokens |-> Cap, last |-> Horizon, seen |-> 0] \in Visitor
          BY DEF Visitor
        <5>3. Advance([tokens |-> Cap, last |-> Horizon, seen |-> 0]) = Cap
          BY <5>2, AdvanceFacts DEF Horizon
        <5>. QED
          BY <5>1, <5>3 DEF Level, Advance
      <4>. QED
        BY <4>3, <4>4
    <3>2. CASE ip \in DOMAIN visitors /\ visitors[ip].seen <= CleanupAfter
      BY <2>1, <3>2 DEF Level, Lookup, Advance
    <3>3. CASE ip \notin DOMAIN visitors
      BY <2>1, <3>3 DEF Level, Lookup, Advance
    <3>4. ip \in DOMAIN visitors => visitors[ip].seen \in Nat
      BY DEF TypeOK, Visitor
    <3>. QED
      BY <3>1, <3>2, <3>3, <3>4
  <2>. QED
    BY <2>1, <2>2 DEF Bucket!bucketVars, Level
<1>4. ASSUME Tick
      PROVE  Bucket!Tick
  <2>1. /\ visitors' = [ip \in DOMAIN visitors |-> Aged(visitors[ip])]
        /\ age < Minute /\ age' = age + 1 /\ admitted' = admitted
    BY <1>4 DEF Tick
  <2>2. ASSUME NEW ip \in IPs
        PROVE  Level(ip)' = Bucket!Filled(Level(ip) + PerMinute)
    <3>1. CASE ip \in DOMAIN visitors
      <4>1. /\ Lookup(ip)' = Aged(visitors[ip]) /\ Lookup(ip) = visitors[ip]
            /\ visitors[ip] \in Visitor
        BY <2>1, <3>1 DEF Lookup, TypeOK
      <4>2. Aged(visitors[ip]) \in Visitor
        BY <4>1 DEF Visitor, Aged, Later
      <4>3. Advance(Aged(visitors[ip])) =
              IF Advance(visitors[ip]) + PerMinute > Cap
                THEN Cap ELSE Advance(visitors[ip]) + PerMinute
        BY <4>1, <4>2, AdvanceLater DEF Aged
      <4>. QED
        BY <4>1, <4>3, SameCap DEF Level, Bucket!Filled, Advance
    <3>2. CASE ip \notin DOMAIN visitors
      <4>1. Level(ip) = Cap
        BY <3>2, LookupTyped
      <4>2. Level(ip)' = Level(ip)
        BY <2>1, <3>2 DEF Level, Lookup, Advance
      <4>. QED
        BY <4>1, <4>2, SameCap DEF Bucket!Filled
    <3>. QED
      BY <3>1, <3>2
  <2>. QED
    BY <2>1, <2>2 DEF Bucket!Tick, Level
<1>5. ASSUME Observe
      PROVE  Bucket!Observe
  BY <1>5 DEF Observe, Bucket!Observe, Lookup, Advance
<1>6. ASSUME UNCHANGED vars
      PROVE  UNCHANGED Bucket!bucketVars
  BY <1>6 DEF vars, Bucket!bucketVars, Lookup, Advance
<1>. QED
  BY <1>1, <1>2, <1>3, <1>4, <1>5, <1>6 DEF Next, Bucket!Next

LEMMA BucketInit ==
  ASSUME Init
  PROVE  TypeOK /\ Bucket!Init
<1>1. TypeOK
  BY RateAssumption DEF Init, TypeOK
<1>2. \A ip \in IPs : Level(ip) = Cap
  BY <1>1, LookupTyped DEF Init
<1>. QED
  BY <1>1, <1>2, SameCap DEF Init, Bucket!Init, Level

(* The limiters implement the buckets of TokenBucket: creating an entry on *)
(* demand, refilling it only when asked and removing it after ten silent   *)
(* minutes cannot be observed (ratelimit.go, getLimiter, Middleware and    *)
(* cleanup).                                                               *)
THEOREM RateLimitImplementsBuckets == Spec => ImplementsBuckets
<1>1. Init => Bucket!Init
  BY BucketInit
<1>. QED
  BY <1>1, BucketStep, RateLimitInv, PTL
  DEF Spec, ImplementsBuckets, Bucket!Spec

-----------------------------------------------------------------------------
(* The bound. *)

LEMMA ConservedStep ==
  ASSUME TypeOK, TypeOK', Bucket!Conserved, [Bucket!Next]_(Bucket!bucketVars)
  PROVE  Bucket!Conserved'
<1>. USE RateAssumption, CapNat, SameCap
<1>0. \A ip \in IPs : Level(ip) \in 0 .. Cap /\ admitted[ip] \in Nat
  BY LookupTyped, AdvanceFacts DEF Level, TypeOK
<1>1. \A ip \in IPs : admitted[ip] * Minute + Level(ip) <= Cap + age * PerMinute
  BY DEF Bucket!Conserved, Level
<1>. SUFFICES ASSUME NEW ip \in IPs
              PROVE  admitted'[ip] * Minute + Level(ip)' <= Cap + age' * PerMinute
  BY DEF Bucket!Conserved, Level
<1>2. admitted[ip] * Minute \in Nat /\ age * PerMinute \in Nat /\ age \in Nat
  BY <1>0 DEF TypeOK
<1>3. ASSUME NEW x \in IPs, Bucket!Admit(x)
      PROVE  admitted'[ip] * Minute + Level(ip)' <= Cap + age' * PerMinute
  <2>1. CASE x = ip
    <3>1. admitted'[ip] = admitted[ip] + 1 /\ Level(ip)' = Level(ip) - Minute /\ age' = age
      BY <1>3, <2>1 DEF Bucket!Admit, Level, TypeOK
    <3>2. admitted'[ip] * Minute = admitted[ip] * Minute + Minute
      BY <1>0, <3>1
    <3>. QED
      BY <1>0, <1>1, <1>2, <3>1, <3>2
  <2>2. CASE x # ip
    <3>1. admitted'[ip] = admitted[ip] /\ Level(ip)' = Level(ip) /\ age' = age
      BY <1>3, <2>2 DEF Bucket!Admit, Level, TypeOK
    <3>. QED
      BY <1>1, <3>1
  <2>. QED
    BY <2>1, <2>2
<1>4. CASE Bucket!Tick
  <2>1. admitted' = admitted /\ age' = age + 1 /\ Level(ip)' <= Level(ip) + PerMinute
    BY <1>0, <1>4 DEF Bucket!Tick, Bucket!Filled, Level
  <2>2. age' * PerMinute = age * PerMinute + PerMinute
    BY <1>2, <2>1
  <2>3. Level(ip)' \in Int
    BY <1>0, <1>4 DEF Bucket!Tick, Bucket!Filled, Level
  <2>. QED
    BY <1>0, <1>1, <1>2, <2>1, <2>2, <2>3
<1>5. CASE Bucket!Observe
  <2>1. admitted'[ip] = 0 /\ age' = 0 /\ Level(ip)' = Level(ip)
    BY <1>5 DEF Bucket!Observe, Level
  <2>2. admitted'[ip] * Minute = 0 /\ age' * PerMinute = 0
    BY <2>1
  <2>. QED
    BY <1>0, <2>1, <2>2
<1>6. CASE UNCHANGED Bucket!bucketVars
  <2>1. admitted' = admitted /\ age' = age /\ Level(ip)' = Level(ip)
    BY <1>6 DEF Bucket!bucketVars, Level
  <2>. QED
    BY <1>1, <2>1
<1>. QED
  BY <1>3, <1>4, <1>5, <1>6 DEF Bucket!Next

(* In any window no address is admitted more than its burst and the refill *)
(* of the window: what was taken from the bucket and what is left in it    *)
(* came out of those (ratelimit.go, NewRateLimiter's rps and burst).       *)
THEOREM RateLimitWindowBound == Spec => []WindowBound
<1>. USE RateAssumption, CapNat, SameCap
<1>1. Init => Bucket!Conserved
  <2>. SUFFICES ASSUME Init, NEW ip \in IPs
                PROVE  admitted[ip] * Minute + Level(ip) <= Cap + age * PerMinute
    BY DEF Bucket!Conserved, Level
  <2>1. admitted[ip] = 0 /\ age = 0 /\ Level(ip) = Cap
    BY BucketInit DEF Init, Bucket!Init, Level
  <2>2. admitted[ip] * Minute = 0 /\ age * PerMinute = 0
    BY <2>1
  <2>. QED
    BY <2>1, <2>2
<1>2. ASSUME TypeOK, LagBound, TypeOK', Bucket!Conserved, [Next]_vars
      PROVE  Bucket!Conserved'
  BY <1>2, BucketStep, ConservedStep
<1>3. ASSUME TypeOK, Bucket!Conserved
      PROVE  WindowBound
  <2>. SUFFICES ASSUME NEW ip \in IPs
                PROVE  admitted[ip] * Minute <= Cap + age * PerMinute
    BY DEF WindowBound
  <2>1. Level(ip) \in 0 .. Cap
    BY <1>3, LookupTyped, AdvanceFacts DEF Level
  <2>2. admitted[ip] * Minute + Level(ip) <= Cap + age * PerMinute
    BY <1>3 DEF Bucket!Conserved, Level
  <2>3. admitted[ip] * Minute \in Nat /\ age * PerMinute \in Nat
    BY <1>3 DEF TypeOK
  <2>. QED
    BY <2>1, <2>2, <2>3
<1>. QED
  BY <1>1, <1>2, <1>3, RateLimitInv, PTL DEF Spec
-----------------------------------------------------------------------------
(* A client that has waited as long as a 429 asks it to is admitted, at    *)
(* any rate that leaves a burst, if a minute less Stall ticks refills a    *)
(* token (ratelimit.go, Middleware, Retry-After).                          *)
THEOREM RateLimitRetryAfterHonest ==
  ASSUME PerMinute >= 4, Stall <= Minute, (Minute - Stall) * PerMinute >= Minute
  PROVE  Spec => []RetryAfterHonest
<1>1. Burst \in Nat /\ Burst >= 1
  BY CapNat, RateAssumption DEF Burst
<1>2. Cap >= Minute
  <2>1. PICK b \in Nat : Burst = b + 1
    <3>1. Burst - 1 \in Nat /\ Burst = (Burst - 1) + 1
      BY <1>1
    <3>. QED
      BY <3>1
  <2>2. b * Minute \in Nat /\ Cap = b * Minute + Minute
    BY <2>1, RateAssumption DEF Cap
  <2>. QED
    BY <2>2, RateAssumption
<1>3. TypeOK /\ LagBound => RetryAfterHonest
  <2>. SUFFICES ASSUME TypeOK, LagBound, NEW ip \in DOMAIN visitors,
                       visitors[ip].seen >= Minute
                PROVE  Admits(visitors[ip])
    BY DEF RetryAfterHonest
  <2>. DEFINE v == visitors[ip]
  <2>1. v \in Visitor /\ v.seen <= v.last + Stall
    BY DEF TypeOK, LagBound
  <2>2. v.tokens \in Nat /\ v.last \in Nat /\ v.seen \in Nat /\ v.seen >= Minute
    BY <2>1, CapNat, HorizonFills DEF Visitor
  <2>. HIDE DEF v
  <2>3. Minute - Stall \in Nat /\ Minute - Stall <= v.last
    BY <2>1, <2>2, RateAssumption
  <2>4. /\ (Minute - Stall) * PerMinute <= v.last * PerMinute
        /\ (Minute - Stall) * PerMinute \in Nat /\ v.last * PerMinute \in Nat
    BY <2>2, <2>3, RefillMonotone
  <2>5. v.last * PerMinute >= Minute
    BY <2>4, RateAssumption
  <2>6. Advance(v) >= Minute
    BY <1>2, <2>2, <2>4, <2>5, CapNat, RateAssumption DEF Advance
  <2>7. Advance(v) \in Int
    BY <2>1, AdvanceFacts, CapNat
  <2>. QED
    BY <1>1, <2>6, <2>7, RateAssumption DEF Admits, v
<1>. QED
  BY RateLimitInv, <1>3, PTL

-----------------------------------------------------------------------------
(* With a quota below 4 per minute the burst is 0 and no request is ever   *)
(* admitted, however long its client waits (ratelimit.go,                  *)
(* NewRateLimiter's division; config.go lets such a quota through).        *)
THEOREM RateLimitBelowFour ==
  ASSUME PerMinute < 4
  PROVE  Spec => [](\A ip \in IPs : admitted[ip] = 0)
<1>. DEFINE NoneAdmitted == admitted = [ip \in IPs |-> 0]
<1>1. Burst = 0
  BY RateAssumption DEF Burst
<1>2. Init => NoneAdmitted
  BY DEF Init
<1>3. NoneAdmitted /\ [Next]_vars => NoneAdmitted'
  <2>1. \A v : ~Admits(v)
    BY <1>1 DEF Admits
  <2>2. \A r \in Requests : Allow(r) => UNCHANGED admitted
    BY <2>1 DEF Allow
  <2>3. \A r \in Requests, ip \in IPs : GetLimiter(r, ip) => UNCHANGED admitted
    BY DEF GetLimiter, windowVars
  <2>4. Cleanup \/ Tick \/ UNCHANGED vars => UNCHANGED admitted
    BY DEF Cleanup, Tick, vars, windowVars
  <2>5. Observe => NoneAdmitted'
    BY DEF Observe
  <2>. QED
    BY <2>2, <2>3, <2>4, <2>5 DEF Next
<1>4. NoneAdmitted => \A ip \in IPs : admitted[ip] = 0
  OBVIOUS
<1>. HIDE DEF NoneAdmitted
<1>. QED
  BY <1>2, <1>3, <1>4, PTL DEF Spec
=============================================================================
