--------------------------- MODULE TTLCacheProofs ---------------------------
(***************************************************************************)
(* The cache of internal/cache/cache.go keeps the promise of LeaseMap, for *)
(* any keys, values, callers and TTL.                                      *)
(***************************************************************************)
EXTENDS TTLCache, TLAPS

(* An entry that is in range stays in range as it ages. *)
LEMMA OlderEntry ==
  ASSUME NEW e \in Entry
  PROVE  /\ Older(e) \in Entry
         /\ Older(e).value = e.value
         /\ Expired(e) => Expired(Older(e))
         /\ ~Expired(e) => Older(e).left = e.left - 1
BY TTLAssumption DEF Entry, Older, Expired

(* The map only holds well-formed entries under known keys, and so do the  *)
(* copies that callers of Get hold (Cache and entry in cache.go).          *)
THEOREM CacheTypeOK == Spec => []TypeOK
<1>1. Init => TypeOK
  BY DEF Init, TypeOK
<1>2. ASSUME TypeOK, [Next]_cacheVars
      PROVE  TypeOK'
  <2>. USE <1>2 DEF TypeOK
  <2>1. ASSUME NEW k \in Keys, NEW v \in Values, Set(k, v)
        PROVE  TypeOK'
    BY <2>1, TTLAssumption DEF Set, Entry
  <2>2. ASSUME NEW c \in Callers, NEW k \in Keys, GetLookup(c, k)
        PROVE  TypeOK'
    BY <2>2 DEF GetLookup, Found
  <2>3. ASSUME NEW c \in Callers, GetReturn(c)
        PROVE  TypeOK'
    BY <2>3 DEF GetReturn
  <2>4. CASE Flush
    BY <2>4 DEF Flush
  <2>5. CASE Evict
    BY <2>5 DEF Evict
  <2>6. CASE Elapse
    BY <2>6, OlderEntry DEF Elapse
  <2>7. CASE UNCHANGED cacheVars
    BY <2>7 DEF cacheVars
  <2>. QED
    BY <2>1, <2>2, <2>3, <2>4, <2>5, <2>6, <2>7 DEF Next
<1>. QED
  BY <1>1, <1>2, PTL DEF Spec
-----------------------------------------------------------------------------
(* Refinement. *)

Leases(S) == {Lease(e) : e \in Fresh(S)}

(* When time passes, the leases a set of entries stands for are those of   *)
(* the older entries: an entry stops being fresh just as its lease ends.   *)
LEMMA AgedLeases ==
  ASSUME NEW S \in SUBSET Entry
  PROVE  Leases({Older(e) : e \in S}) = Promise!Aged(Leases(S))
<1>. USE TTLAssumption
<1>1. \A e \in S : ~Expired(Older(e)) <=> /\ ~Expired(e)
                                          /\ Lease(e).age < TTL
  BY OlderEntry DEF Lease, Entry, Expired, Older
<1>2. ASSUME NEW e \in S, ~Expired(e)
      PROVE  Lease(Older(e)) = [Lease(e) EXCEPT !.age = @ + 1]
  BY <1>2, OlderEntry DEF Lease, Entry, Expired
<1>3. ASSUME NEW l \in Leases({Older(e) : e \in S})
      PROVE  l \in Promise!Aged(Leases(S))
  <2>1. PICK e \in S : l = Lease(Older(e)) /\ ~Expired(Older(e))
    BY <1>3 DEF Leases, Fresh
  <2>2. ~Expired(e) /\ Lease(e).age < TTL
    BY <2>1, <1>1
  <2>3. Lease(e) \in Leases(S)
    BY <2>2 DEF Leases, Fresh
  <2>. QED
    BY <2>1, <2>2, <2>3, <1>2 DEF Promise!Aged
<1>4. ASSUME NEW l \in Promise!Aged(Leases(S))
      PROVE  l \in Leases({Older(e) : e \in S})
  <2>1. PICK e \in S : /\ ~Expired(e)
                       /\ Lease(e).age < TTL
                       /\ l = [Lease(e) EXCEPT !.age = @ + 1]
    BY <1>4 DEF Promise!Aged, Leases, Fresh
  <2>2. ~Expired(Older(e))
    BY <2>1, <1>1
  <2>. QED
    BY <2>1, <2>2, <1>2 DEF Leases, Fresh
<1>. QED
  BY <1>3, <1>4

(* The lazily cleaned cache implements LeaseMap: what a Get can return is  *)
(* exactly the lease that a map cleaned at once would grant, so neither    *)
(* when evict runs nor where a Get is interrupted can be observed          *)
(* (cache.go, Set to evict).                                               *)
THEOREM CacheKeepsLeases == Spec => KeepsLeases
<1>. DEFINE live == [k \in Keys |-> Leases(Found(k))]
            view == [c \in Callers |-> Leases(held[c])]
<1>1. Init => Promise!Init
  BY DEF Init, Promise!Init, Found, Fresh
<1>2. ASSUME TypeOK, [Next]_cacheVars
      PROVE  [Promise!Next]_(Promise!leaseVars)
  <2>. USE <1>2, TTLAssumption
  <2>1. ASSUME NEW k \in Keys, NEW v \in Values, Set(k, v)
        PROVE  Promise!Grant(k, v)
    <3>1. Leases(Found(k))' = {[value |-> v, age |-> 0]}
      <4>1. Found(k)' = {[value |-> v, left |-> TTL]}
        BY <2>1 DEF Set, Found
      <4>2. Leases({[value |-> v, left |-> TTL]}) = {[value |-> v, age |-> 0]}
        <5>. DEFINE new == [value |-> v, left |-> TTL]
        <5>1. ~Expired(new) /\ Lease(new) = [value |-> v, age |-> 0]
          BY DEF Expired, Lease
        <5>. HIDE DEF new
        <5>2. Leases({new}) = {Lease(new)}
          BY <5>1 DEF Leases, Fresh
        <5>. QED
          BY <5>1, <5>2 DEF new
      <4>. QED
        BY <4>1, <4>2 DEF Leases, Fresh
    <3>2. \A x \in Keys \ {k} : Found(x)' = Found(x)
      BY <2>1 DEF Set, Found
    <3>. QED
      BY <2>1, <3>1, <3>2 DEF Set, Promise!Grant, Leases
  <2>2. ASSUME NEW c \in Callers, NEW k \in Keys, GetLookup(c, k)
        PROVE  Promise!Look(c, k)
    BY <2>2 DEF GetLookup, Promise!Look, TypeOK, Found
  <2>3. ASSUME NEW c \in Callers, GetReturn(c)
        PROVE  Promise!Use(c)
    BY <2>3 DEF GetReturn, Promise!Use, TypeOK, Fresh, Found
  <2>4. ASSUME Flush
        PROVE  Promise!RevokeAll
    BY <2>4 DEF Flush, Promise!RevokeAll, Found, Fresh
  <2>5. CASE Evict
    <3>1. \A k \in Keys : Fresh(Found(k))' = Fresh(Found(k))
      BY <2>5 DEF Evict, Found, Fresh
    <3>. QED
      BY <2>5, <3>1 DEF Evict, Promise!leaseVars
  <2>6. ASSUME Elapse
        PROVE  Promise!Pass
    <3>1. \A k \in Keys : /\ Found(k) \in SUBSET Entry
                          /\ Found(k)' = {Older(e) : e \in Found(k)}
      BY <2>6 DEF Elapse, Found, TypeOK
    <3>2. \A k \in Keys : Leases(Found(k))' = Promise!Aged(Leases(Found(k)))
      BY <3>1, AgedLeases DEF Leases
    <3>3. \A c \in Callers : Leases(held[c])' = Promise!Aged(Leases(held[c]))
      BY <2>6, AgedLeases DEF Elapse, TypeOK, Leases
    <3>. QED
      BY <3>2, <3>3 DEF Promise!Pass, Leases, Found, Fresh
  <2>7. CASE UNCHANGED cacheVars
    BY <2>7 DEF cacheVars, Promise!leaseVars, Found
  <2>. QED
    BY <2>1, <2>2, <2>3, <2>4, <2>5, <2>6, <2>7 DEF Next, Promise!Next
<1>. QED
  BY <1>1, <1>2, CacheTypeOK, PTL DEF Spec, KeepsLeases, Promise!Spec
=============================================================================
