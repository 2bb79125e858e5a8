--------------------------- MODULE ContentProofs ---------------------------
(***************************************************************************)
(* The content API of internal/handlers/handlers.go leaves stale content   *)
(* in the cache only in the cases StaleOnlyIfExcused names, for any number *)
(* of requests, any sections and any TTL; and the admin panels that are    *)
(* clients of it put back no edit that was announced before they asked for *)
(* their page, but for the cases that UndoneOnlyIfExcused names.           *)
(***************************************************************************)
EXTENDS AdminPanel, TLAPS

-----------------------------------------------------------------------------
(* The operations of the cache keep its map and the copies well-formed.    *)

LEMMA CacheOperationsTyped ==
  ASSUME C!TypeOK, TTL \in Nat,
         \/ \E k \in Keys, v \in Seq(Result) : C!Set(k, v)
         \/ \E r \in Requests, k \in Keys : C!GetLookup(r, k)
         \/ \E r \in Requests : C!GetReturn(r)
         \/ C!Flush \/ C!Evict \/ C!Elapse \/ UNCHANGED <<cache, held>>
  PROVE  C!TypeOK'
<1>. USE DEF C!TypeOK
<1>1. ASSUME NEW k \in Keys, NEW v \in Seq(Result), C!Set(k, v)
      PROVE  C!TypeOK'
  <2>1. [value |-> v, left |-> TTL] \in C!Entry
    BY DEF C!Entry
  <2>. QED
    BY <1>1, <2>1 DEF C!Set
<1>2. ASSUME NEW r \in Requests, NEW k \in Keys, C!GetLookup(r, k)
      PROVE  C!TypeOK'
  BY <1>2 DEF C!GetLookup, C!Found
<1>3. ASSUME NEW r \in Requests, C!GetReturn(r)
      PROVE  C!TypeOK'
  BY <1>3 DEF C!GetReturn
<1>4. CASE C!Flush
  BY <1>4 DEF C!Flush
<1>5. CASE C!Evict
  BY <1>5 DEF C!Evict
<1>6. CASE C!Elapse
  <2>1. \A e \in C!Entry : C!Older(e) \in C!Entry
    BY DEF C!Entry, C!Older, C!Expired
  <2>. QED
    BY <1>6, <2>1 DEF C!Elapse
<1>7. CASE UNCHANGED <<cache, held>>
  BY <1>7
<1>. QED
  BY <1>1, <1>2, <1>3, <1>4, <1>5, <1>6, <1>7

(* Apart from Set, they change no value that stays in the map.             *)
LEMMA CacheValuesKept ==
  ASSUME C!TypeOK, C!Evict \/ C!Elapse \/ UNCHANGED cache,
         NEW k \in DOMAIN cache'
  PROVE  k \in DOMAIN cache /\ cache'[k].value = cache[k].value
<1>1. \A e \in C!Entry : C!Older(e).value = e.value
  BY DEF C!Entry, C!Older
<1>. QED
  BY <1>1 DEF C!TypeOK, C!Evict, C!Elapse

-----------------------------------------------------------------------------
(* What is known of a request at each of its steps. *)
LEMMA JobKinds ==
  ASSUME job \in [Requests -> Job], NEW r \in Requests
  PROVE  /\ At(r, "lookup") \/ At(r, "read") =>
              job[r] \in [pc : {"lookup", "read"}, on : Keys, body : {None}]
         /\ At(r, "write") \/ At(r, "flush") =>
              job[r] \in [pc : {"write", "flush"}, on : Sections,
                         body : Bodies \cup {Unreadable}]
<1>1. job[r] \in Job
  OBVIOUS
<1>2. Idle.pc = "idle"
  BY DEF Idle
<1>. QED
  BY <1>1, <1>2 DEF Job, At

-----------------------------------------------------------------------------
(* Every step keeps the types. *)
LEMMA ContentStepTyped ==
  ASSUME TypeOK, [Next]_vars
  PROVE  TypeOK'
<1>. USE EndpointAssumption, ValueAssumption DEF dbVars, TypeOK
<1>1. ASSUME NEW r \in Requests, NEW k \in Keys, StartGet(r, k)
      PROVE  TypeOK'
  <2>1. C!TypeOK'
    BY <1>1, CacheOperationsTyped DEF StartGet
  <2>2. job' \in [Requests -> Job]
    BY <1>1 DEF StartGet, Job
  <2>. QED
    BY <1>1, <2>1, <2>2 DEF StartGet, C!GetLookup, At, historyVars
<1>2. ASSUME NEW r \in Requests, AnswerFromCache(r)
      PROVE  TypeOK'
  <2>1. C!TypeOK'
    BY <1>2, CacheOperationsTyped DEF AnswerFromCache
  <2>2. job' \in [Requests -> Job]
    BY <1>2 DEF AnswerFromCache, Answer, Job
  <2>. QED
    BY <1>2, <2>1, <2>2
    DEF AnswerFromCache, Answer, C!GetReturn, At, Idle, historyVars
<1>3. ASSUME NEW r \in Requests, Miss(r)
      PROVE  TypeOK'
  <2>1. C!TypeOK'
    BY <1>3, CacheOperationsTyped DEF Miss
  <2>2. job'[r] \in [pc : {"read"}, on : Keys, body : {None}]
    BY <1>3, JobKinds DEF Miss, Goto, At
  <2>3. job' \in [Requests -> Job]
    BY <1>3, <2>2 DEF Miss, Goto, Job
  <2>. QED
    BY <1>3, <2>1, <2>2, <2>3
    DEF Miss, Goto, C!GetReturn, At, historyVars
<1>4. ASSUME NEW r \in Requests, QueryOk(r)
      PROVE  TypeOK'
  <2>1. job[r].on \in Keys /\ At(r, "read")
    BY <1>4, JobKinds DEF QueryOk, Reading
  <2>2. NextRead(r) \in Sections
    <3>1. Reads(job[r].on) \in Seq(Sections)
      BY <2>1
    <3>2. Len(got[r]) + 1 \in 1 .. Len(Reads(job[r].on))
      BY <1>4, <2>1, <3>1 DEF QueryOk, Reading
    <3>. QED
      BY <3>1, <3>2 DEF NextRead
  <2>3. db[NextRead(r)] \in Result
    BY <2>2 DEF Result
  <2>4. /\ got'[r] \in Seq(Result)
        /\ Len(got'[r]) <= Len(Reads(job[r].on))
        /\ DOMAIN got[r] \subseteq DOMAIN got'[r]
    BY <1>4, <2>1, <2>3 DEF QueryOk, Reading
  <2>5. C!TypeOK'
    BY <1>4, CacheOperationsTyped DEF QueryOk
  <2>. QED
    BY <1>4, <2>1, <2>4, <2>5 DEF QueryOk, At, historyVars
<1>5. ASSUME NEW r \in Requests, QueryFails(r)
      PROVE  TypeOK'
  <2>1. job[r].on \in Keys /\ At(r, "read")
    BY <1>5, JobKinds DEF QueryFails, Reading
  <2>2. C!TypeOK'
    BY <1>5, CacheOperationsTyped DEF QueryFails
  <2>3. CASE job[r].on = "languages"
    <3>1. job' \in [Requests -> Job]
      BY <1>5, <2>3 DEF QueryFails, Answer, Job
    <3>2. /\ job' = [job EXCEPT ![r] = Idle] /\ got' = [got EXCEPT ![r] = <<>>]
          /\ crossed' = [crossed EXCEPT ![r] = {}]
          /\ UNCHANGED <<db, overlapped, cache, held, tainted, unflushed>>
      BY <1>5, <2>3 DEF QueryFails, Answer
    <3>. QED
      BY <2>2, <3>1, <3>2 DEF At, Idle
  <2>4. CASE job[r].on # "languages"
    <3>1. /\ got'[r] = Append(got[r], Lost)
          /\ got[r] \in Seq(Result)
          /\ Lost \in Result
          /\ Len(got[r]) < Len(Reads(job[r].on))
      BY <1>5, <2>4 DEF QueryFails, Reading, Result
    <3>2. Len(Reads(job[r].on)) \in Nat
      BY <2>1
    <3>3. /\ got'[r] \in Seq(Result)
          /\ Len(got'[r]) <= Len(Reads(job[r].on))
          /\ DOMAIN got[r] \subseteq DOMAIN got'[r]
      BY <3>1, <3>2
    <3>. QED
      BY <1>5, <2>1, <2>2, <2>4, <3>3 DEF QueryFails, At
  <2>. QED
    BY <2>3, <2>4
<1>6. ASSUME NEW r \in Requests, Fill(r)
      PROVE  TypeOK'
  <2>1. job[r].on \in Keys /\ At(r, "read") /\ got[r] \in Seq(Result)
    BY <1>6, JobKinds DEF Fill
  <2>2. C!TypeOK'
    BY <1>6, <2>1, CacheOperationsTyped DEF Fill
  <2>3. job' \in [Requests -> Job]
    BY <1>6 DEF Fill, Answer, Job
  <2>4. \A k \in DOMAIN cache' : Len(cache'[k].value) = Len(Reads(k))
    BY <1>6, <2>1 DEF Fill, C!Set
  <2>5. \A k \in Keys : tainted'[k] \subseteq DOMAIN Reads(k)
    <3>1. DOMAIN got[r] = DOMAIN Reads(job[r].on)
      BY <1>6, <2>1 DEF Fill
    <3>2. tainted' = [tainted EXCEPT ![job[r].on] = crossed[r]]
      BY <1>6 DEF Fill
    <3>. QED
      BY <2>1, <3>1, <3>2
  <2>6. /\ job' = [job EXCEPT ![r] = Idle] /\ got' = [got EXCEPT ![r] = <<>>]
        /\ crossed' = [crossed EXCEPT ![r] = {}]
        /\ tainted' = [tainted EXCEPT ![job[r].on] = crossed[r]]
        /\ UNCHANGED <<db, overlapped, unflushed>>
    BY <1>6 DEF Fill, Answer
  <2>7. /\ crossed' \in [Requests -> SUBSET Nat]
        /\ tainted' \in [Keys -> SUBSET Nat]
    BY <2>6
  <2>8. \A q \in Requests : crossed'[q] \subseteq DOMAIN got'[q]
    BY <2>6
  <2>9. \A q \in Requests :
          IF At(q, "read")' THEN Len(got'[q]) <= Len(Reads(job'[q].on))
                            ELSE got'[q] = <<>>
    BY <2>6 DEF At, Idle
  <2>10. got' \in [Requests -> Seq(Result)]
    BY <2>6
  <2>. QED
    BY <2>2, <2>3, <2>4, <2>5, <2>6, <2>7, <2>8, <2>9, <2>10 DEF At
<1>7. ASSUME NEW r \in Requests, NEW s \in Sections,
             NEW b \in Bodies \cup {Unreadable}, StartPut(r, s, b)
      PROVE  TypeOK'
  <2>1. C!TypeOK'
    BY <1>7, CacheOperationsTyped DEF StartPut
  <2>2. job' \in [Requests -> Job]
    BY <1>7 DEF StartPut, Job
  <2>. QED
    BY <1>7, <2>1, <2>2 DEF StartPut, At, historyVars
<1>8. ASSUME NEW r \in Requests, At(r, "write")
      PROVE  /\ job[r] \in [pc : {"write"}, on : Sections,
                            body : Bodies \cup {Unreadable}]
             /\ Write(r) => /\ db' \in [Sections -> Stored]
                            /\ overlapped' \subseteq Requests
  <2>1. job[r] \in [pc : {"write"}, on : Sections,
                   body : Bodies \cup {Unreadable}]
    BY <1>8, JobKinds DEF At
  <2>2. Decode(job[r].body) \in Stored /\ Mixed \in Stored
    BY <2>1 DEF Decode, Stored
  <2>3. ASSUME Write(r)
        PROVE  /\ db' \in [Sections -> Stored]
               /\ overlapped' \subseteq Requests
    <3>1. PICK c \in Stored : db' = [db EXCEPT ![job[r].on] = c]
      BY <2>2, <2>3 DEF Write
    <3>2. overlapped' \subseteq Requests
      BY <2>3 DEF Write, Rivals
    <3>. QED
      BY <3>1, <3>2
  <2>. QED
    BY <2>1, <2>3
<1>9. ASSUME NEW r \in Requests, WriteOk(r)
      PROVE  TypeOK'
  <2>1. C!TypeOK'
    BY <1>9, CacheOperationsTyped DEF WriteOk
  <2>2. job'[r] \in [pc : {"flush"}, on : Sections,
                    body : Bodies \cup {Unreadable}]
    BY <1>8, <1>9 DEF WriteOk, Goto
  <2>3. job' \in [Requests -> Job]
    BY <1>9, <2>2 DEF WriteOk, Goto, Job
  <2>. QED
    BY <1>8, <1>9, <2>1, <2>2, <2>3 DEF WriteOk, Goto, At, historyVars
<1>10. ASSUME NEW r \in Requests, WriteFails(r)
       PROVE  TypeOK'
  <2>1. C!TypeOK'
    BY <1>10, CacheOperationsTyped DEF WriteFails
  <2>2. job' \in [Requests -> Job]
    BY <1>10 DEF WriteFails, Answer, Job
  <2>. QED
    BY <1>10, <2>1, <2>2 DEF WriteFails, Answer, At, Idle, historyVars
<1>11. ASSUME NEW r \in Requests, WriteUnreported(r)
       PROVE  TypeOK'
  <2>1. C!TypeOK'
    BY <1>11, CacheOperationsTyped DEF WriteUnreported
  <2>2. job' \in [Requests -> Job]
    BY <1>11 DEF WriteUnreported, Answer, Job
  <2>3. unflushed' \subseteq Sections
    BY <1>8, <1>11 DEF WriteUnreported
  <2>. QED
    BY <1>8, <1>11, <2>1, <2>2, <2>3 DEF WriteUnreported, Answer, At, Idle
<1>12. ASSUME NEW r \in Requests, FlushCache(r)
       PROVE  TypeOK'
  <2>1. C!TypeOK'
    BY <1>12, CacheOperationsTyped DEF FlushCache
  <2>2. job' \in [Requests -> Job]
    BY <1>12 DEF FlushCache, Answer, Job
  <2>3. got' = got
    BY <1>12 DEF FlushCache, Answer, At
  <2>. QED
    BY <1>12, <2>1, <2>2, <2>3 DEF FlushCache, Answer, At, Idle, C!Flush
<1>13. CASE Evict \/ Elapse
  <2>1. C!TypeOK'
    BY <1>13, CacheOperationsTyped DEF Evict, Elapse
  <2>2. \A k \in DOMAIN cache' : Len(cache'[k].value) = Len(Reads(k))
    BY <1>13, CacheValuesKept DEF Evict, Elapse
  <2>. QED
    BY <1>13, <2>1, <2>2 DEF Evict, Elapse, At, requestVars, historyVars
<1>14. CASE UNCHANGED vars
  <2>1. C!TypeOK'
    BY <1>14, CacheOperationsTyped DEF vars
  <2>. QED
    BY <1>14, <2>1 DEF vars, At
<1>. QED
  BY <1>1, <1>2, <1>3, <1>4, <1>5, <1>6, <1>7, <1>9, <1>10, <1>11, <1>12,
     <1>13, <1>14 DEF Next, Get, Put

LEMMA ContentInitTyped == Init => TypeOK
<1>. USE EndpointAssumption, ValueAssumption
<1>. SUFFICES ASSUME Init PROVE TypeOK
  OBVIOUS
<1>1. C!TypeOK
  BY DEF Init, C!Init, C!TypeOK
<1>2. job \in [Requests -> Job]
  BY DEF Init, Job
<1>3. got \in [Requests -> Seq(Result)]
  BY DEF Init
<1>. QED
  BY <1>1, <1>2, <1>3 DEF Init, TypeOK, C!Init, At, Idle

(* Every variable keeps its type; a request holds results only while it    *)
(* reads, and the cache holds complete answers only (handlers.go, the      *)
(* locals of the handlers; cache.go, Cache).                               *)
THEOREM ContentTypeOK == Spec => []TypeOK
BY ContentInitTyped, ContentStepTyped, PTL DEF Spec

-----------------------------------------------------------------------------
(* Staleness. StaleOnlyIfExcused alone is not inductive: a Fill stores     *)
(* what its request read earlier, so the same must be known of every       *)
(* request that still reads.                                               *)

(* The steps that do not end a Flush that is owed. *)
OwesOn ==
  /\ unflushed \subseteq unflushed'
  /\ \A r \in Requests : At(r, "flush") => job'[r] = job[r]

LEMMA FlushOwedKept ==
  ASSUME OwesOn, NEW s, FlushOwed(s)
  PROVE  FlushOwed(s)'
BY DEF OwesOn, FlushOwed, At

(* A step that changes neither the database nor the values in the cache. *)
LEMMA StaleKept ==
  ASSUME StaleOnlyIfExcused, OwesOn, db' = db, tainted' = tainted,
         \A k \in DOMAIN cache' : /\ k \in DOMAIN cache
                                 /\ cache'[k].value = cache[k].value
  PROVE  StaleOnlyIfExcused'
<1>. SUFFICES ASSUME NEW k \in DOMAIN cache', NEW i \in DOMAIN Reads(k)
              PROVE  \/ UpToDate(k, i, cache[k].value[i])'
                     \/ i \in tainted'[k]
                     \/ FlushOwed(Reads(k)[i])'
  BY DEF StaleOnlyIfExcused
<1>1. cache'[k].value = cache[k].value
  OBVIOUS
<1>2. \/ UpToDate(k, i, cache[k].value[i])
      \/ i \in tainted[k]
      \/ FlushOwed(Reads(k)[i])
  BY DEF StaleOnlyIfExcused
<1>. QED
  BY <1>1, <1>2, FlushOwedKept DEF UpToDate

(* A step after which every request that reads holds what it held. *)
Carries(r) ==
  \/ got'[r] = <<>>
  \/ /\ At(r, "read")
     /\ job'[r] = job[r] /\ got'[r] = got[r]
     /\ crossed[r] \subseteq crossed'[r]

LEMMA InFlightKept ==
  ASSUME InFlightExcused, OwesOn, db' = db,
         \A r \in Requests : At(r, "read")' => Carries(r)
  PROVE  InFlightExcused'
<1>. SUFFICES ASSUME NEW r \in Requests, At(r, "read")',
                     NEW i \in DOMAIN got'[r]
              PROVE  \/ UpToDate(job[r].on, i, got[r][i])'
                     \/ i \in crossed'[r]
                     \/ FlushOwed(Reads(job[r].on)[i])'
  BY DEF InFlightExcused
<1>1. /\ At(r, "read")
      /\ job'[r] = job[r] /\ got'[r] = got[r]
      /\ crossed[r] \subseteq crossed'[r]
  BY DEF Carries
<1>2. \/ UpToDate(job[r].on, i, got[r][i])
      \/ i \in crossed[r]
      \/ FlushOwed(Reads(job[r].on)[i])
  BY <1>1 DEF InFlightExcused
<1>3. FlushOwed(Reads(job[r].on)[i]) => FlushOwed(Reads(job[r].on)[i])'
  BY <1>1, FlushOwedKept
<1>. QED
  BY <1>1, <1>2, <1>3 DEF UpToDate

(* A write excuses the section it changes, and changes no other. *)
LEMMA WriteExcused ==
  ASSUME TypeOK, StaleOnlyIfExcused, InFlightExcused,
         NEW r \in Requests, Write(r),
         NEW s, s = job[r].on, FlushOwed(s)', OwesOn,
         UNCHANGED <<cache, tainted, crossed, got>>,
         \A q \in Requests : At(q, "read")' => At(q, "read") /\ job'[q] = job[q]
  PROVE  StaleOnlyIfExcused' /\ InFlightExcused'
<1>1. \A x : x # s => db'[x] = db[x]
  BY DEF Write
<1>2. ASSUME NEW k, NEW i, NEW seen, UpToDate(k, i, seen)
      PROVE  UpToDate(k, i, seen)' \/ FlushOwed(Reads(k)[i])'
  <2>1. CASE Reads(k)[i] = s
    BY <2>1
  <2>2. CASE Reads(k)[i] # s
    BY <1>1, <1>2, <2>2 DEF UpToDate
  <2>. QED
    BY <2>1, <2>2
<1>3. StaleOnlyIfExcused'
  BY <1>2, FlushOwedKept DEF StaleOnlyIfExcused
<1>4. InFlightExcused'
  BY <1>2, FlushOwedKept DEF InFlightExcused
<1>. QED
  BY <1>3, <1>4

(* The cache is stale only while a Flush is owed or through a fill that    *)
(* straddled one (handlers.go, adminPUT against the GET handlers).         *)
THEOREM ContentStaleOnlyIfExcused == Spec => [](StaleOnlyIfExcused /\ InFlightExcused)
<1>. USE EndpointAssumption, ValueAssumption DEF dbVars
<1>1. Init => StaleOnlyIfExcused /\ InFlightExcused
  BY DEF Init, C!Init, StaleOnlyIfExcused, InFlightExcused, At, Idle
<1>2. ASSUME TypeOK, StaleOnlyIfExcused, InFlightExcused, [Next]_vars
      PROVE  StaleOnlyIfExcused' /\ InFlightExcused'
  <2>. USE <1>2
  <2>1. ASSUME NEW r \in Requests, NEW k \in Keys, StartGet(r, k)
        PROVE  StaleOnlyIfExcused' /\ InFlightExcused'
    <3>1. OwesOn
      BY <2>1 DEF StartGet, OwesOn, historyVars, At, TypeOK
    <3>2. \A q \in Requests : At(q, "read")' => Carries(q)
      BY <2>1 DEF StartGet, Carries, historyVars, At, TypeOK
    <3>. QED
      BY <2>1, <3>1, <3>2, StaleKept, InFlightKept
      DEF StartGet, C!GetLookup, historyVars
  <2>2. ASSUME NEW r \in Requests, AnswerFromCache(r)
        PROVE  StaleOnlyIfExcused' /\ InFlightExcused'
    <3>1. OwesOn
      BY <2>2 DEF AnswerFromCache, Answer, OwesOn, historyVars, At, TypeOK
    <3>2. \A q \in Requests : At(q, "read")' => Carries(q)
      BY <2>2 DEF AnswerFromCache, Answer, Carries, historyVars, At, TypeOK
    <3>. QED
      BY <2>2, <3>1, <3>2, StaleKept, InFlightKept
      DEF AnswerFromCache, C!GetReturn, historyVars
  <2>3. ASSUME NEW r \in Requests, Miss(r)
        PROVE  StaleOnlyIfExcused' /\ InFlightExcused'
    <3>1. OwesOn
      BY <2>3 DEF Miss, Goto, OwesOn, historyVars, At, TypeOK
    <3>2. \A q \in Requests : At(q, "read")' => Carries(q)
      BY <2>3 DEF Miss, Goto, Carries, historyVars, At, TypeOK
    <3>. QED
      BY <2>3, <3>1, <3>2, StaleKept, InFlightKept
      DEF Miss, C!GetReturn, historyVars
  <2>4. ASSUME NEW r \in Requests, At(r, "read"), NEW x \in Result,
               got' = [got EXCEPT ![r] = Append(@, x)],
               x \in {db[NextRead(r)], Lost},
               UNCHANGED <<db, cache, job, historyVars>>
        PROVE  StaleOnlyIfExcused' /\ InFlightExcused'
    <3>1. OwesOn
      BY <2>4 DEF OwesOn, historyVars
    <3>2. StaleOnlyIfExcused'
      BY <2>4, <3>1, StaleKept DEF historyVars
    <3>3. ASSUME NEW q \in Requests, At(q, "read")', NEW i \in DOMAIN got'[q]
          PROVE  \/ UpToDate(job[q].on, i, got[q][i])'
                 \/ i \in crossed'[q]
                 \/ FlushOwed(Reads(job[q].on)[i])'
      <4>1. CASE q = r /\ i = Len(got[r]) + 1
        <5>1. got'[q][i] = x
          BY <2>4, <4>1 DEF TypeOK
        <5>. QED
          BY <2>4, <4>1, <5>1 DEF UpToDate, NextRead
      <4>2. CASE ~(q = r /\ i = Len(got[r]) + 1)
        <5>1. At(q, "read") /\ job'[q] = job[q] /\ crossed'[q] = crossed[q]
          BY <2>4, <3>3 DEF At, historyVars
        <5>2. i \in DOMAIN got[q] /\ got'[q][i] = got[q][i]
          BY <2>4, <3>3, <4>2 DEF TypeOK
        <5>3. \/ UpToDate(job[q].on, i, got[q][i])
              \/ i \in crossed[q]
              \/ FlushOwed(Reads(job[q].on)[i])
          BY <5>1, <5>2 DEF InFlightExcused
        <5>4. FlushOwed(Reads(job[q].on)[i]) => FlushOwed(Reads(job[q].on)[i])'
          BY <3>1, <5>1, FlushOwedKept
        <5>. QED
          BY <2>4, <5>1, <5>2, <5>3, <5>4 DEF UpToDate
      <4>. QED
        BY <4>1, <4>2
    <3>4. InFlightExcused'
      BY <3>3 DEF InFlightExcused
    <3>. QED
      BY <3>2, <3>4
  <2>5. ASSUME NEW r \in Requests, QueryOk(r)
        PROVE  StaleOnlyIfExcused' /\ InFlightExcused'
    <3>1. At(r, "read") /\ db[NextRead(r)] \in Result
      <4>1. At(r, "read") /\ job[r].on \in Keys
        BY <2>5, JobKinds DEF QueryOk, Reading, TypeOK
      <4>2. Reads(job[r].on) \in Seq(Sections)
        BY <4>1
      <4>3. Len(got[r]) + 1 \in 1 .. Len(Reads(job[r].on))
        BY <2>5, <4>1, <4>2 DEF QueryOk, Reading, TypeOK
      <4>4. NextRead(r) \in Sections
        BY <4>2, <4>3 DEF NextRead
      <4>. QED
        BY <4>1, <4>4 DEF TypeOK, Result
    <3>. QED
      BY <2>4, <2>5, <3>1 DEF QueryOk
  <2>6. ASSUME NEW r \in Requests, QueryFails(r)
        PROVE  StaleOnlyIfExcused' /\ InFlightExcused'
    <3>1. CASE job[r].on = "languages"
      <4>1. /\ job' = [job EXCEPT ![r] = Idle] /\ got' = [got EXCEPT ![r] = <<>>]
            /\ crossed' = [crossed EXCEPT ![r] = {}]
            /\ UNCHANGED <<db, cache, held, tainted, unflushed>>
            /\ At(r, "read")
        BY <2>6, <3>1 DEF QueryFails, Answer, Reading
      <4>2. OwesOn
        BY <4>1 DEF OwesOn, At, TypeOK
      <4>3. \A q \in Requests : At(q, "read")' => Carries(q)
        BY <4>1 DEF Carries, At, TypeOK
      <4>. QED
        BY <4>1, <4>2, <4>3, StaleKept, InFlightKept
    <3>2. CASE job[r].on # "languages"
      BY <2>4, <2>6, <3>2 DEF QueryFails, Reading, Result, historyVars
    <3>. QED
      BY <3>1, <3>2
  <2>7. ASSUME NEW r \in Requests, Fill(r)
        PROVE  StaleOnlyIfExcused' /\ InFlightExcused'
    <3>1. OwesOn
      BY <2>7 DEF Fill, Answer, OwesOn, At, TypeOK
    <3>2. \A q \in Requests : At(q, "read")' => Carries(q)
      BY <2>7 DEF Fill, Answer, Carries, At, TypeOK
    <3>3. InFlightExcused'
      BY <2>7, <3>1, <3>2, InFlightKept DEF Fill
    <3>4. ASSUME NEW k \in DOMAIN cache', NEW i \in DOMAIN Reads(k)
          PROVE  \/ UpToDate(k, i, cache[k].value[i])'
                 \/ i \in tainted'[k]
                 \/ FlushOwed(Reads(k)[i])'
      <4>1. job[r].on \in Keys /\ At(r, "read")
        BY <2>7, JobKinds DEF Fill, TypeOK
      <4>2. FlushOwed(Reads(k)[i]) => FlushOwed(Reads(k)[i])'
        BY <3>1, FlushOwedKept
      <4>3. CASE k = job[r].on
        <5>1. cache'[k].value = got[r] /\ tainted'[k] = crossed[r]
          BY <2>7, <4>1, <4>3 DEF Fill, C!Set, TypeOK
        <5>2. i \in DOMAIN got[r]
          BY <2>7, <4>1, <4>3 DEF Fill, TypeOK
        <5>3. \/ UpToDate(k, i, got[r][i])
              \/ i \in crossed[r]
              \/ FlushOwed(Reads(k)[i])
          BY <4>1, <4>3, <5>2 DEF InFlightExcused
        <5>. QED
          BY <2>7, <4>2, <5>1, <5>3 DEF UpToDate, Fill
      <4>4. CASE k # job[r].on
        <5>1. /\ k \in DOMAIN cache /\ cache'[k] = cache[k]
              /\ tainted'[k] = tainted[k]
          BY <2>7, <4>4 DEF Fill, C!Set, TypeOK
        <5>2. \/ UpToDate(k, i, cache[k].value[i])
              \/ i \in tainted[k]
              \/ FlushOwed(Reads(k)[i])
          BY <5>1 DEF StaleOnlyIfExcused
        <5>. QED
          BY <2>7, <4>2, <5>1, <5>2 DEF UpToDate, Fill
      <4>. QED
        BY <4>3, <4>4
    <3>. QED
      BY <3>3, <3>4 DEF StaleOnlyIfExcused
  <2>8. ASSUME NEW r \in Requests, NEW s \in Sections,
               NEW b \in Bodies \cup {Unreadable}, StartPut(r, s, b)
        PROVE  StaleOnlyIfExcused' /\ InFlightExcused'
    <3>1. OwesOn
      BY <2>8 DEF StartPut, OwesOn, historyVars, At, TypeOK
    <3>2. \A q \in Requests : At(q, "read")' => Carries(q)
      BY <2>8 DEF StartPut, Carries, historyVars, At, TypeOK
    <3>. QED
      BY <2>8, <3>1, <3>2, StaleKept, InFlightKept DEF StartPut, historyVars
  <2>9. ASSUME NEW r \in Requests, WriteOk(r)
        PROVE  StaleOnlyIfExcused' /\ InFlightExcused'
    <3>. PICK s : s = job[r].on
      OBVIOUS
    <3>1. job' = [job EXCEPT ![r].pc = "flush"] /\ At(r, "write")
      BY <2>9 DEF WriteOk, Goto
    <3>2. job'[r].pc = "flush" /\ job'[r].on = s
      BY <3>1, JobKinds DEF TypeOK
    <3>3. OwesOn
      BY <2>9, <3>1 DEF WriteOk, OwesOn, historyVars, At, TypeOK
    <3>4. FlushOwed(s)'
      BY <3>2 DEF FlushOwed, At
    <3>5. \A q \in Requests : At(q, "read")' => At(q, "read") /\ job'[q] = job[q]
      BY <3>1, <3>2 DEF At, TypeOK
    <3>. QED
      BY <2>9, <3>3, <3>4, <3>5, WriteExcused DEF WriteOk, historyVars
  <2>10. ASSUME NEW r \in Requests, WriteFails(r)
         PROVE  StaleOnlyIfExcused' /\ InFlightExcused'
    <3>1. OwesOn
      BY <2>10 DEF WriteFails, Answer, OwesOn, historyVars, At, TypeOK
    <3>2. \A q \in Requests : At(q, "read")' => Carries(q)
      BY <2>10 DEF WriteFails, Answer, Carries, historyVars, At, TypeOK
    <3>. QED
      BY <2>10, <3>1, <3>2, StaleKept, InFlightKept DEF WriteFails, historyVars
  <2>11. ASSUME NEW r \in Requests, WriteUnreported(r)
         PROVE  StaleOnlyIfExcused' /\ InFlightExcused'
    <3>1. /\ job' = [job EXCEPT ![r] = Idle] /\ At(r, "write")
          /\ unflushed' = unflushed \cup {job[r].on} /\ Write(r)
          /\ got' = [got EXCEPT ![r] = <<>>]
          /\ UNCHANGED <<cache, tainted, crossed>>
      BY <2>11 DEF WriteUnreported, Answer
    <3>2. got' = got
      BY <3>1 DEF TypeOK, At
    <3>3. OwesOn
      BY <3>1 DEF OwesOn, At, TypeOK
    <3>4. \A q \in Requests : At(q, "read")' => At(q, "read") /\ job'[q] = job[q]
      BY <3>1 DEF At, Idle, TypeOK
    <3>5. ASSUME NEW s, s = job[r].on
          PROVE  FlushOwed(s)'
      BY <3>1, <3>5 DEF FlushOwed
    <3>. QED
      BY <3>1, <3>2, <3>3, <3>4, <3>5, WriteExcused
  <2>12. ASSUME NEW r \in Requests, FlushCache(r)
         PROVE  StaleOnlyIfExcused' /\ InFlightExcused'
    <3>1. StaleOnlyIfExcused'
      BY <2>12 DEF FlushCache, C!Flush, StaleOnlyIfExcused
    <3>2. got' = got
      BY <2>12 DEF FlushCache, Answer, At, TypeOK
    <3>3. InFlightExcused'
      BY <2>12, <3>2 DEF FlushCache, InFlightExcused
    <3>. QED
      BY <3>1, <3>3
  <2>13. CASE Evict \/ Elapse
    <3>1. OwesOn
      BY <2>13 DEF Evict, Elapse, OwesOn, requestVars, historyVars
    <3>2. \A q \in Requests : At(q, "read")' => Carries(q)
      BY <2>13 DEF Evict, Elapse, Carries, requestVars, historyVars, At
    <3>. QED
      BY <2>13, <3>1, <3>2, StaleKept, InFlightKept, CacheValuesKept
      DEF Evict, Elapse, requestVars, historyVars, TypeOK
  <2>14. CASE UNCHANGED vars
    <3>1. OwesOn
      BY <2>14 DEF vars, OwesOn
    <3>2. \A q \in Requests : At(q, "read")' => Carries(q)
      BY <2>14 DEF vars, Carries, At
    <3>. QED
      BY <2>14, <3>1, <3>2, StaleKept, InFlightKept DEF vars
  <2>. QED
    BY <2>1, <2>2, <2>3, <2>5, <2>6, <2>7, <2>8, <2>9, <2>10, <2>11, <2>12,
       <2>13, <2>14 DEF Next, Get, Put
<1>. QED
  BY <1>1, <1>2, ContentTypeOK, PTL DEF Spec

-----------------------------------------------------------------------------
(* The handlers are callers of the cache: each does with it what TTLCache  *)
(* lets any caller do, so that what holds of TTLCache holds of the cache   *)
(* in Content.                                                             *)

(* Only a GET that looks a key up has a copy of an entry. *)
CopiesInLookup == \A r \in Requests : ~At(r, "lookup") => held[r] = {}

LEMMA CopiesInLookupStep ==
  ASSUME TypeOK, CopiesInLookup, [Next]_vars
  PROVE  CopiesInLookup'
<1>. USE DEF CopiesInLookup, TypeOK, C!TypeOK, At
<1>1. ASSUME NEW r \in Requests, NEW k \in Keys, StartGet(r, k)
      PROVE  CopiesInLookup'
  BY <1>1 DEF StartGet, C!GetLookup
<1>2. ASSUME NEW r \in Requests, AnswerFromCache(r) \/ Miss(r)
      PROVE  CopiesInLookup'
  BY <1>2 DEF AnswerFromCache, Miss, Goto, Answer, C!GetReturn
<1>3. ASSUME NEW r \in Requests,
             \/ QueryOk(r) \/ QueryFails(r) \/ Fill(r)
             \/ \E s \in Sections, b \in Bodies \cup {Unreadable} : StartPut(r, s, b)
             \/ WriteOk(r) \/ WriteFails(r) \/ WriteUnreported(r) \/ FlushCache(r)
      PROVE  CopiesInLookup'
  <2>1. held' = held /\ \A q \in Requests \ {r} : job'[q] = job[q]
    BY <1>3
    DEF QueryOk, QueryFails, Fill, StartPut, WriteOk, WriteFails, WriteUnreported,
        FlushCache, Goto, Answer, C!Set, C!Flush
  <2>2. ~At(r, "lookup")
    BY <1>3
    DEF QueryOk, QueryFails, Reading, Fill, StartPut, WriteOk, WriteFails,
        WriteUnreported, FlushCache
  <2>. QED
    BY <2>1, <2>2
<1>4. CASE Evict
  BY <1>4 DEF Evict, C!Evict, requestVars
<1>5. CASE Elapse
  BY <1>5 DEF Elapse, C!Elapse, requestVars
<1>6. CASE UNCHANGED vars
  BY <1>6 DEF vars
<1>. QED
  BY <1>1, <1>2, <1>3, <1>4, <1>5, <1>6 DEF Next, Get, Put

LEMMA StepsAreCacheSteps ==
  ASSUME TypeOK, CopiesInLookup, [Next]_vars
  PROVE  [C!Next]_(C!cacheVars)
<1>. USE DEF C!Next
<1>1. ASSUME NEW r \in Requests, NEW k \in Keys, StartGet(r, k)
      PROVE  C!Next
  BY <1>1 DEF StartGet, CopiesInLookup, At
<1>2. ASSUME NEW r \in Requests, AnswerFromCache(r) \/ Miss(r)
      PROVE  C!Next
  BY <1>2 DEF AnswerFromCache, Miss
<1>3. ASSUME NEW r \in Requests, Fill(r)
      PROVE  C!Next
  <2>1. job[r].on \in Keys /\ got[r] \in Seq(Result)
    BY <1>3, JobKinds DEF Fill, TypeOK
  <2>. QED
    BY <1>3, <2>1 DEF Fill
<1>4. ASSUME NEW r \in Requests, FlushCache(r)
      PROVE  C!Next
  BY <1>4 DEF FlushCache
<1>5. CASE Evict \/ Elapse
  BY <1>5 DEF Evict, Elapse
<1>6. ASSUME NEW r \in Requests,
             \/ QueryOk(r) \/ QueryFails(r)
             \/ \E s \in Sections, b \in Bodies \cup {Unreadable} : StartPut(r, s, b)
             \/ WriteOk(r) \/ WriteFails(r) \/ WriteUnreported(r)
      PROVE  UNCHANGED C!cacheVars
  BY <1>6
  DEF QueryOk, QueryFails, StartPut, WriteOk, WriteFails, WriteUnreported, C!cacheVars
<1>7. CASE UNCHANGED vars
  BY <1>7 DEF vars, C!cacheVars
<1>. QED
  BY <1>1, <1>2, <1>3, <1>4, <1>5, <1>6, <1>7 DEF Next, Get, Put

(* The handlers use the cache as TTLCache describes its callers: a request *)
(* has at most one Get under way, and stores complete answers under the    *)
(* key of its endpoint (handlers.go, the three GETs and adminPUT).         *)
THEOREM ContentUsesCache == Spec => C!Spec
<1>1. Init => C!Init /\ CopiesInLookup
  BY DEF Init, C!Init, CopiesInLookup
<1>. QED
  BY <1>1, ContentInitTyped, ContentStepTyped, CopiesInLookupStep,
     StepsAreCacheSteps, PTL DEF Spec, C!Spec

(* What is proved of TTLCache, of the cache that Content calls C. *)
Cache == INSTANCE TTLCacheProofs
           WITH Values <- Seq(Result), Callers <- Requests, m <- cache

LEMMA CacheIsC == C!Spec => Cache!Spec
<1>1. C!Init => Cache!Init
  BY DEF C!Init, Cache!Init
<1>2. [C!Next]_(C!cacheVars) => [Cache!Next]_(Cache!cacheVars)
  BY DEF C!Next, Cache!Next, C!Set, Cache!Set, C!GetLookup, Cache!GetLookup,
         C!GetReturn, Cache!GetReturn, C!Flush, Cache!Flush, C!Evict, Cache!Evict,
         C!Elapse, Cache!Elapse, C!Found, Cache!Found, C!Older, Cache!Older,
         C!Expired, Cache!Expired, C!cacheVars, Cache!cacheVars
<1>. QED
  BY <1>1, <1>2, PTL DEF C!Spec, Cache!Spec

LEMMA LeasesOfC == Cache!KeepsLeases => C!KeepsLeases
<1>. USE DEF C!Lease, Cache!Lease, C!Fresh, Cache!Fresh, C!Found, Cache!Found,
             C!Expired, Cache!Expired
<1>1. Cache!Promise!Init => C!Promise!Init
  BY DEF C!Promise!Init, Cache!Promise!Init
<1>2. [Cache!Promise!Next]_(Cache!Promise!leaseVars)
        => [C!Promise!Next]_(C!Promise!leaseVars)
  BY DEF C!Promise!Next, Cache!Promise!Next, C!Promise!Grant, Cache!Promise!Grant,
         C!Promise!Look, Cache!Promise!Look, C!Promise!Use, Cache!Promise!Use,
         C!Promise!RevokeAll, Cache!Promise!RevokeAll, C!Promise!Pass,
         Cache!Promise!Pass, C!Promise!Aged, Cache!Promise!Aged,
         C!Promise!leaseVars, Cache!Promise!leaseVars
<1>. QED
  BY <1>1, <1>2, PTL
  DEF C!KeepsLeases, Cache!KeepsLeases, C!Promise!Spec, Cache!Promise!Spec

(* So a GET is answered from the cache only with what a GET before it has  *)
(* stored there at most TTL ago with no Flush since, whatever the requests *)
(* do and whenever the eviction runs (handlers.go; cache.go).              *)
THEOREM ContentServesLeases == Spec => C!KeepsLeases
<1>1. C!Spec => C!KeepsLeases
  BY CacheIsC, LeasesOfC, Cache!CacheKeepsLeases, ValueAssumption
<1>. QED
  BY <1>1, ContentUsesCache, PTL

-----------------------------------------------------------------------------
(* Admin panels. What they have been given is as stale as the cache and    *)
(* the requests in flight may be; what they rely on is not.                *)

LEMMA PlaceFact ==
  /\ Page \in Keys /\ Edited \in Sections
  /\ Place \in DOMAIN Reads(Page) /\ Reads(Page)[Place] = Edited
<1>1. PICK i \in DOMAIN Reads(Page) : Reads(Page)[i] = Edited
  BY PanelAssumption DEF Range
<1>2. Place \in DOMAIN Reads(Page) /\ Reads(Page)[Place] = Edited
  BY <1>1 DEF Place
<1>3. Reads(Page) \in Seq(Sections)
  BY PanelAssumption, EndpointAssumption
<1>. QED
  BY <1>2, <1>3, PanelAssumption

-----------------------------------------------------------------------------
(* A result of the query of Edited that holds the edits given, or a lost one. *)
Tells(v, edits) == v = Lost \/ (v \in Bodies /\ edits \subseteq v)

CacheTells ==
  Page \in DOMAIN cache =>
    Tells(cache[Page].value[Place], IF Place \in tainted[Page] THEN {} ELSE announced)

FlightTells ==
  \A r \in Requests :
    At(r, "read") /\ job[r].on = Page /\ Place \in DOMAIN got[r] =>
      Tells(got[r][Place], IF Place \in crossed[r] THEN {} ELSE announced)

(* What all have in common: whatever was announced is in the database, and *)
(* in everything that was read of it since and that no Flush has crossed.  *)
Shared ==
  /\ overlapped = {}
  /\ db[Edited] \in Bodies /\ announced \subseteq db[Edited]
  /\ CacheTells
  /\ FlightTells

(* What panel p relies on is in what it has been given so far, in what it  *)
(* shows, and in what it puts back.                                        *)
Reliable(p) ==
  /\ relied[p] \subseteq announced
  /\ At(p, "lookup") \/ At(p, "read") => job[p].on = Page
  /\ At(p, "lookup") => \A e \in held[p] : Tells(e.value[Place], relied[p])
  /\ At(p, "read") /\ Place \in DOMAIN got[p] => Tells(got[p][Place], relied[p])
  /\ ~At(p, "lookup") /\ ~At(p, "read") => relied[p] \subseteq page[p]
  /\ At(p, "write") \/ At(p, "flush") => job[p].on = Edited
  /\ At(p, "write") => job[p].body \in Bodies /\ page[p] \subseteq job[p].body

AllReliable == \A p \in Panels : Reliable(p)

Inv == TypeOK /\ PanelTypeOK /\ Shared /\ AllReliable

LEMMA TellsLess ==
  ASSUME NEW v, NEW edits, NEW fewer, fewer \subseteq edits, Tells(v, edits)
  PROVE  Tells(v, fewer)
BY DEF Tells

-----------------------------------------------------------------------------
(* What a step leaves as it was. *)

LEMMA CacheTellsKept ==
  ASSUME CacheTells, tainted' = tainted, announced' \subseteq announced,
         \A k \in DOMAIN cache' : /\ k \in DOMAIN cache
                                 /\ cache'[k].value = cache[k].value
  PROVE  CacheTells'
BY TellsLess DEF CacheTells, Tells

LEMMA FlightTellsKept ==
  ASSUME FlightTells, announced' \subseteq announced,
         \A r \in Requests : At(r, "read")' => Carries(r)
  PROVE  FlightTells'
<1>. SUFFICES ASSUME NEW r \in Requests, At(r, "read")', job'[r].on = Page,
                     Place \in DOMAIN got'[r]
              PROVE  Tells(got'[r][Place],
                           IF Place \in crossed'[r] THEN {} ELSE announced')
  BY DEF FlightTells, Tells
<1>1. /\ At(r, "read") /\ job'[r] = job[r] /\ got'[r] = got[r]
      /\ crossed[r] \subseteq crossed'[r]
  BY DEF Carries
<1>2. Tells(got[r][Place], IF Place \in crossed[r] THEN {} ELSE announced)
  BY <1>1 DEF FlightTells
<1>. QED
  BY <1>1, <1>2 DEF Tells

(* A step that leaves panel q and what it was given alone. *)
Alone(q) ==
  /\ job'[q] = job[q] /\ got'[q] = got[q] /\ page'[q] = page[q]
  /\ \A e \in held'[q] : \E d \in held[q] : e.value = d.value

LEMMA AloneReliable ==
  ASSUME NEW q, Reliable(q), Alone(q),
         relied'[q] \subseteq relied[q], relied'[q] \subseteq announced'
  PROVE  Reliable(q)'
<1>1. At(q, "lookup") => \A e \in held'[q] : Tells(e.value[Place], relied'[q])
  BY TellsLess DEF Reliable, Alone
<1>2. At(q, "read") /\ Place \in DOMAIN got[q] => Tells(got[q][Place], relied'[q])
  BY TellsLess DEF Reliable
<1>. QED
  BY <1>1, <1>2 DEF Reliable, Alone, At, Tells

-----------------------------------------------------------------------------
(* GETs, of panels and of others, the eviction and time. *)

LEMMA ReadJob ==
  ASSUME TypeOK, NEW r \in Requests, At(r, "read")
  PROVE  /\ job[r].on \in Keys
         /\ got[r] \in Seq(Result) /\ Len(got[r]) <= Len(Reads(job[r].on))
         /\ crossed[r] \subseteq DOMAIN got[r]
BY JobKinds DEF TypeOK

(* A query that returns the section, or fails. *)
LEMMA QueryShared ==
  ASSUME TypeOK, Shared, NEW r \in Requests, At(r, "read"),
         NEW x \in Result, x \in {db[NextRead(r)], Lost},
         got' = [got EXCEPT ![r] = Append(@, x)],
         UNCHANGED <<job, db, overlapped, cache, crossed, tainted, announced>>
  PROVE  Shared'
<1>1. ASSUME NEW q \in Requests, At(q, "read")', job'[q].on = Page,
             Place \in DOMAIN got'[q]
      PROVE  Tells(got'[q][Place], IF Place \in crossed[q] THEN {} ELSE announced)
  <2>1. CASE q = r /\ Place = Len(got[r]) + 1
    <3>1. got'[q][Place] = x
      BY <2>1, ReadJob DEF TypeOK
    <3>2. x = Lost \/ x = db[Edited]
      BY <1>1, <2>1, PlaceFact DEF NextRead
    <3>3. Place \notin crossed[q]
      BY <2>1, ReadJob
    <3>. QED
      BY <3>1, <3>2, <3>3 DEF Tells, Shared
  <2>2. CASE ~(q = r /\ Place = Len(got[r]) + 1)
    <3>1. At(q, "read") /\ job[q].on = Page
      BY <1>1 DEF At
    <3>2. Place \in DOMAIN got[q] /\ got'[q][Place] = got[q][Place]
      BY <1>1, <2>2, ReadJob DEF TypeOK
    <3>. QED
      BY <3>1, <3>2 DEF Shared, FlightTells
  <2>. QED
    BY <2>1, <2>2
<1>2. FlightTells'
  BY <1>1 DEF FlightTells, Tells
<1>. QED
  BY <1>2 DEF Shared, CacheTells, Tells

LEMMA FillShared ==
  ASSUME TypeOK, Shared, NEW r \in Requests, Fill(r), announced' = announced
  PROVE  Shared'
<1>1. /\ job' = [job EXCEPT ![r] = Idle] /\ got' = [got EXCEPT ![r] = <<>>]
      /\ tainted' = [tainted EXCEPT ![job[r].on] = crossed[r]]
      /\ crossed' = [crossed EXCEPT ![r] = {}]
      /\ UNCHANGED <<db, overlapped>>
      /\ C!Set(job[r].on, got[r])
      /\ At(r, "read") /\ Len(got[r]) = Len(Reads(job[r].on))
  BY DEF Fill, Answer, dbVars
<1>2. FlightTells'
  <2>1. \A q \in Requests : At(q, "read")' => Carries(q)
    BY <1>1 DEF Carries, At, TypeOK
  <2>. QED
    BY <2>1, FlightTellsKept DEF Shared
<1>3. CacheTells'
  <2>1. CASE job[r].on = Page
    <3>1. cache'[Page].value = got[r] /\ tainted'[Page] = crossed[r]
      BY <1>1, <2>1, PlaceFact DEF C!Set, TypeOK
    <3>2. Place \in DOMAIN got[r]
      BY <1>1, <2>1, PlaceFact, ReadJob
    <3>3. Tells(got[r][Place], IF Place \in crossed[r] THEN {} ELSE announced)
      BY <1>1, <2>1, <3>2 DEF Shared, FlightTells
    <3>. QED
      BY <3>1, <3>3 DEF CacheTells, Tells
  <2>2. CASE job[r].on # Page
    <3>1. /\ Page \in DOMAIN cache' => Page \in DOMAIN cache /\ cache'[Page] = cache[Page]
          /\ tainted'[Page] = tainted[Page]
      BY <1>1, <2>2, PlaceFact DEF C!Set, TypeOK
    <3>. QED
      BY <3>1 DEF Shared, CacheTells, Tells
  <2>. QED
    BY <2>1, <2>2
<1>. QED
  BY <1>1, <1>2, <1>3 DEF Shared

LEMMA GetShared ==
  ASSUME TypeOK, Shared, announced' = announced,
         (\E r \in Requests : Get(r)) \/ Evict \/ Elapse
  PROVE  Shared'
<1>1. ASSUME NEW r \in Requests, NEW k \in Keys, StartGet(r, k)
      PROVE  Shared'
  <2>1. \A q \in Requests : At(q, "read")' => Carries(q)
    BY <1>1 DEF StartGet, Carries, historyVars, At, TypeOK
  <2>. QED
    BY <1>1, <2>1, CacheTellsKept, FlightTellsKept
    DEF StartGet, C!GetLookup, historyVars, dbVars, Shared
<1>2. ASSUME NEW r \in Requests, AnswerFromCache(r)
      PROVE  Shared'
  <2>1. \A q \in Requests : At(q, "read")' => Carries(q)
    BY <1>2 DEF AnswerFromCache, Answer, Carries, historyVars, At, TypeOK
  <2>. QED
    BY <1>2, <2>1, CacheTellsKept, FlightTellsKept
    DEF AnswerFromCache, C!GetReturn, historyVars, dbVars, Shared
<1>3. ASSUME NEW r \in Requests, Miss(r)
      PROVE  Shared'
  <2>1. \A q \in Requests : At(q, "read")' => Carries(q)
    BY <1>3 DEF Miss, Goto, Carries, historyVars, At, TypeOK
  <2>. QED
    BY <1>3, <2>1, CacheTellsKept, FlightTellsKept
    DEF Miss, C!GetReturn, historyVars, dbVars, Shared
<1>4. ASSUME NEW r \in Requests, QueryOk(r)
      PROVE  Shared'
  <2>1. At(r, "read") /\ Len(got[r]) < Len(Reads(job[r].on))
    BY <1>4 DEF QueryOk, Reading
  <2>2. Reads(job[r].on) \in Seq(Sections)
    BY <2>1, ReadJob, EndpointAssumption
  <2>3. NextRead(r) \in Sections
    <3>1. Len(got[r]) + 1 \in 1 .. Len(Reads(job[r].on))
      BY <2>1, <2>2, ReadJob
    <3>. QED
      BY <2>2, <3>1 DEF NextRead
  <2>4. db[NextRead(r)] \in Result
    BY <2>3 DEF TypeOK, Result
  <2>. QED
    BY <1>4, <2>1, <2>4, QueryShared DEF QueryOk, historyVars, dbVars
<1>5. ASSUME NEW r \in Requests, QueryFails(r)
      PROVE  Shared'
  <2>1. CASE job[r].on = "languages"
    <3>1. /\ job' = [job EXCEPT ![r] = Idle] /\ got' = [got EXCEPT ![r] = <<>>]
          /\ crossed' = [crossed EXCEPT ![r] = {}]
          /\ UNCHANGED <<db, overlapped, cache, tainted>>
      BY <1>5, <2>1 DEF QueryFails, Answer, dbVars
    <3>2. \A q \in Requests : At(q, "read")' => Carries(q)
      BY <3>1 DEF Carries, At, TypeOK
    <3>. QED
      BY <3>1, <3>2, CacheTellsKept, FlightTellsKept DEF Shared
  <2>2. CASE job[r].on # "languages"
    BY <1>5, <2>2, QueryShared DEF QueryFails, Reading, Result, dbVars
  <2>. QED
    BY <2>1, <2>2
<1>6. CASE Evict \/ Elapse
  <2>1. \A q \in Requests : At(q, "read")' => Carries(q)
    BY <1>6 DEF Evict, Elapse, Carries, requestVars, historyVars, At
  <2>. QED
    BY <1>6, <2>1, CacheTellsKept, FlightTellsKept, CacheValuesKept
    DEF Evict, Elapse, historyVars, dbVars, Shared, TypeOK
<1>. QED
  BY <1>1, <1>2, <1>3, <1>4, <1>5, <1>6, FillShared DEF Get

-----------------------------------------------------------------------------
(* PUTs, which only panels send. *)

LEMMA SaveCommitsShared ==
  ASSUME Inv, NEW p \in Panels, SaveCommits(p)
  PROVE  Shared' /\ db'[Edited] = job[p].body
<1>. USE DEF Inv
<1>1. /\ At(p, "write") /\ Write(p) /\ Notice
      /\ job' \in {[job EXCEPT ![p].pc = "flush"], [job EXCEPT ![p] = Idle]}
      /\ got' \in {got, [got EXCEPT ![p] = <<>>]}
      /\ UNCHANGED <<cache, crossed, tainted>>
  BY DEF SaveCommits, WriteOk, WriteUnreported, Goto, Answer, historyVars
<1>2. p \in Requests /\ job[p].on = Edited /\ job[p].body \in Bodies
  BY <1>1, PanelAssumption DEF AllReliable, Reliable
<1>3. db'[Edited] = job[p].body /\ overlapped' = {}
  <2>1. Decode(job[p].body) = job[p].body
    BY <1>2, ValueAssumption DEF Decode
  <2>2. db' = [db EXCEPT ![Edited] = job[p].body]
    BY <1>1, <1>2, <2>1 DEF Write, Shared
  <2>3. Rivals(p) = {}
    BY <1>2, PanelAssumption DEF Rivals
  <2>. QED
    BY <1>1, <2>2, <2>3, PlaceFact DEF Write, Shared, TypeOK
<1>4. announced' \subseteq announced /\ announced' \subseteq db'[Edited]
  BY <1>1 DEF Notice
<1>5. \A q \in Requests : At(q, "read")' => Carries(q)
  BY <1>1, <1>2 DEF Carries, At, Idle, TypeOK
<1>. QED
  BY <1>1, <1>2, <1>3, <1>4, <1>5, CacheTellsKept, FlightTellsKept DEF Shared

LEMMA SaveShared ==
  ASSUME Inv, NEW p \in Panels,
         SaveFails(p) \/ \E edits \in SUBSET Items : Save(p, edits)
  PROVE  Shared'
<1>. USE PanelAssumption DEF Inv
<1>1. ASSUME SaveFails(p)
      PROVE  Shared'
  <2>1. \A q \in Requests : At(q, "read")' => Carries(q)
    BY <1>1 DEF SaveFails, WriteFails, Answer, Carries, At, historyVars, TypeOK
  <2>. QED
    BY <1>1, <2>1, CacheTellsKept, FlightTellsKept
    DEF SaveFails, WriteFails, historyVars, noteVars, Shared
<1>2. ASSUME NEW edits \in SUBSET Items, Save(p, edits)
      PROVE  Shared'
  <2>1. \A q \in Requests : At(q, "read")' => Carries(q)
    BY <1>2 DEF Save, StartPut, Carries, At, historyVars, TypeOK
  <2>. QED
    BY <1>2, <2>1, CacheTellsKept, FlightTellsKept
    DEF Save, StartPut, historyVars, dbVars, noteVars, Shared
<1>. QED
  BY <1>1, <1>2

(* A Flush leaves nothing in the cache, and has crossed what is in flight. *)
LEMMA FlushShared ==
  ASSUME Inv, NEW p \in Panels, FlushCache(p), announced' \subseteq db[Edited]
  PROVE  Shared'
<1>. USE DEF Inv
<1>1. UNCHANGED <<db, overlapped, got>>
  BY DEF FlushCache, Answer, At, dbVars, TypeOK
<1>2. CacheTells'
  BY DEF FlushCache, C!Flush, CacheTells
<1>3. FlightTells'
  <2>. SUFFICES ASSUME NEW r \in Requests, At(r, "read")', job'[r].on = Page,
                       Place \in DOMAIN got'[r]
                PROVE  Tells(got'[r][Place],
                             IF Place \in crossed'[r] THEN {} ELSE announced')
    BY DEF FlightTells, Tells
  <2>1. Place \in crossed'[r]
    BY <1>1 DEF FlushCache
  <2>2. At(r, "read") /\ job'[r] = job[r]
    BY DEF FlushCache, Answer, At, Idle, TypeOK
  <2>3. Tells(got[r][Place], IF Place \in crossed[r] THEN {} ELSE announced)
    BY <1>1, <2>2 DEF Shared, FlightTells
  <2>. QED
    BY <1>1, <2>1, <2>3 DEF Tells
<1>. QED
  BY <1>1, <1>2, <1>3 DEF Shared

-----------------------------------------------------------------------------
LEMMA InitInv == PanelInit => Inv
<1>. SUFFICES ASSUME PanelInit PROVE Inv
  OBVIOUS
<1>. USE PanelAssumption DEF PanelInit
<1>1. Idle.pc = "idle"
  BY DEF Idle
<1>2. PanelTypeOK
  BY DEF PanelTypeOK
<1>3. db[Edited] \in Bodies
  <2>1. db[Edited] \in Stored \ {Mixed}
    BY PlaceFact DEF Init
  <2>. QED
    BY <2>1 DEF Stored
<1>4. Shared
  BY <1>1, <1>3 DEF Init, C!Init, Shared, CacheTells, FlightTells, At
<1>5. AllReliable
  BY <1>1 DEF Init, AllReliable, Reliable, At
<1>6. TypeOK
  BY ContentInitTyped
<1>. QED
  BY <1>2, <1>4, <1>5, <1>6 DEF Inv

(* To Content, a panel is a client like others. *)
LEMMA PanelStepsAreContent ==
  ASSUME PanelTypeOK, [PanelNext]_allVars
  PROVE  [Next]_vars
<1>. USE PanelAssumption
<1>1. ASSUME NEW p \in Panels, Panel(p)
      PROVE  [Next]_vars
  <2>1. ASSUME NEW edits \in SUBSET Items, Save(p, edits)
        PROVE  [Next]_vars
    <3>1. page[p] \cup pending[p] \cup edits \in Bodies
      BY DEF PanelTypeOK
    <3>. QED
      BY <2>1, <3>1, PlaceFact DEF Save, Next, Put
  <2>2. CASE Load(p)
    BY <2>2 DEF Load, Next, Get
  <2>3. CASE LoadHits(p) \/ LoadMisses(p) \/ LoadReads(p) \/ LoadFills(p) \/ LoadFails(p)
    BY <2>3 DEF LoadHits, LoadMisses, LoadReads, LoadFills, LoadFails, Next, Get
  <2>4. CASE SaveCommits(p) \/ SaveFails(p) \/ SaveAnnounced(p) \/ SaveUnheard(p)
    BY <2>4 DEF SaveCommits, SaveFails, SaveAnnounced, SaveUnheard, Next, Put
  <2>5. CASE Rerender(p) \/ Leave(p)
    BY <2>5 DEF Rerender, Leave
  <2>. QED
    BY <1>1, <2>1, <2>2, <2>3, <2>4, <2>5 DEF Panel
<1>2. CASE Others
  BY <1>2 DEF Others, Next
<1>3. CASE UNCHANGED allVars
  BY <1>3 DEF allVars
<1>. QED
  BY <1>1, <1>2, <1>3 DEF PanelNext

-----------------------------------------------------------------------------
(* The panels. A step of one leaves the others alone. *)

LEMMA OneReliable ==
  ASSUME AllReliable, NEW p \in Panels, Reliable(p)',
         \A q \in Panels \ {p} :
           /\ Alone(q)
           /\ relied'[q] \subseteq relied[q] /\ relied'[q] \subseteq announced'
  PROVE  AllReliable'
BY AloneReliable DEF AllReliable

LEMMA LoadReliable ==
  ASSUME Inv, NEW p \in Panels, Load(p)
  PROVE  AllReliable' /\ PanelTypeOK'
<1>. USE PanelAssumption DEF Inv
<1>1. /\ job' = [job EXCEPT ![p] = [pc |-> "lookup", on |-> Page, body |-> None]]
      /\ held' = [held EXCEPT ![p] = C!Found(Page)]
      /\ relied' = [relied EXCEPT ![p] = IF Place \in tainted[Page] THEN {} ELSE announced]
      /\ UNCHANGED <<got, phase, page, pending, announced>>
  BY DEF Load, StartGet, C!GetLookup, RelyOn, panelVars
<1>2. job'[p].pc = "lookup" /\ job'[p].on = Page
  BY <1>1 DEF TypeOK
<1>3. relied'[p] = IF Place \in tainted[Page] THEN {} ELSE announced
  BY <1>1 DEF PanelTypeOK
<1>4. \A e \in held'[p] : Tells(e.value[Place], relied'[p])
  <2>1. \A e \in held'[p] : Page \in DOMAIN cache /\ e = cache[Page]
    BY <1>1 DEF C!Found, C!TypeOK, TypeOK
  <2>. QED
    BY <1>3, <2>1 DEF Shared, CacheTells
<1>5. Reliable(p)'
  BY <1>1, <1>2, <1>3, <1>4 DEF Reliable, At, Tells
<1>6. \A q \in Panels \ {p} : Alone(q) /\ relied'[q] = relied[q]
  BY <1>1 DEF Alone, TypeOK, C!TypeOK, PanelTypeOK
<1>7. AllReliable'
  BY <1>1, <1>5, <1>6, OneReliable DEF AllReliable, Reliable
<1>. QED
  BY <1>1, <1>7 DEF PanelTypeOK

LEMMA LoadMissesReliable ==
  ASSUME Inv, NEW p \in Panels, LoadMisses(p)
  PROVE  AllReliable' /\ PanelTypeOK'
<1>. USE PanelAssumption DEF Inv
<1>1. /\ job' = [job EXCEPT ![p].pc = "read"]
      /\ held' = [held EXCEPT ![p] = {}]
      /\ relied' = [relied EXCEPT ![p] = announced]
      /\ UNCHANGED <<got, phase, page, pending, announced>>
      /\ At(p, "lookup")
  BY DEF LoadMisses, Miss, Goto, C!GetReturn, RelyOn, panelVars
<1>2. /\ job'[p].pc = "read" /\ job'[p].on = Page /\ relied'[p] = announced
      /\ got[p] = <<>>
  <2>1. job[p] \in [pc : {"lookup", "read"}, on : Keys, body : {None}]
    BY <1>1, JobKinds DEF TypeOK
  <2>. QED
    BY <1>1, <2>1 DEF AllReliable, Reliable, TypeOK, PanelTypeOK, At
<1>3. Reliable(p)'
  BY <1>1, <1>2 DEF Reliable, At
<1>4. \A q \in Panels \ {p} : Alone(q) /\ relied'[q] = relied[q]
  BY <1>1 DEF Alone, TypeOK, C!TypeOK, PanelTypeOK
<1>5. AllReliable'
  BY <1>1, <1>3, <1>4, OneReliable DEF AllReliable, Reliable
<1>. QED
  BY <1>1, <1>5 DEF PanelTypeOK

LEMMA LoadReadsReliable ==
  ASSUME Inv, NEW p \in Panels, LoadReads(p)
  PROVE  AllReliable' /\ PanelTypeOK'
<1>. USE PanelAssumption DEF Inv
<1>1. At(p, "read") /\ job[p].on = Page
  BY DEF LoadReads, QueryOk, QueryFails, Reading, AllReliable, Reliable
<1>2. \E x \in {db[NextRead(p)], Lost} : got' = [got EXCEPT ![p] = Append(@, x)]
  BY <1>1 DEF LoadReads, QueryOk, QueryFails
<1>3. PICK x \in {db[NextRead(p)], Lost} : got' = [got EXCEPT ![p] = Append(@, x)]
  BY <1>2
<1>4. UNCHANGED <<job, held, phase, page, pending, announced, relied>>
  BY <1>1 DEF LoadReads, QueryOk, QueryFails, panelVars, noteVars
<1>5. Place \in DOMAIN got'[p] => Tells(got'[p][Place], relied[p])
  <2>1. CASE Place = Len(got[p]) + 1
    <3>1. got'[p][Place] = x
      BY <1>1, <1>3, <2>1, ReadJob DEF TypeOK
    <3>2. x = Lost \/ x = db[Edited]
      BY <1>1, <2>1, PlaceFact DEF NextRead
    <3>. QED
      BY <3>1, <3>2 DEF Tells, Shared, AllReliable, Reliable
  <2>2. CASE Place # Len(got[p]) + 1
    <3>1. Place \in DOMAIN got'[p] =>
            Place \in DOMAIN got[p] /\ got'[p][Place] = got[p][Place]
      BY <1>1, <1>3, <2>2, ReadJob DEF TypeOK
    <3>. QED
      BY <1>1, <3>1 DEF AllReliable, Reliable
  <2>. QED
    BY <2>1, <2>2
<1>6. Reliable(p)'
  BY <1>1, <1>4, <1>5 DEF AllReliable, Reliable, At, Tells
<1>7. \A q \in Panels \ {p} : Alone(q) /\ relied'[q] = relied[q]
  BY <1>3, <1>4 DEF Alone, TypeOK
<1>8. AllReliable'
  BY <1>4, <1>6, <1>7, OneReliable DEF AllReliable, Reliable
<1>. QED
  BY <1>4, <1>8 DEF PanelTypeOK

(* A load ends: p is idle, and shows what came or what it showed before. *)
Ends(p) ==
  /\ job' = [job EXCEPT ![p] = Idle] /\ got' = [got EXCEPT ![p] = <<>>]
  /\ held' \in {held, [held EXCEPT ![p] = {}]}
  /\ announced' = announced

LEMMA EndsReliable ==
  ASSUME Inv, NEW p \in Panels, Ends(p),
         relied'[p] \subseteq page'[p], relied'[p] \subseteq announced,
         \A q \in Panels \ {p} : page'[q] = page[q] /\ relied'[q] = relied[q]
  PROVE  AllReliable'
<1>. USE PanelAssumption DEF Inv
<1>1. job'[p].pc = "idle"
  BY DEF Ends, Idle, TypeOK
<1>2. Reliable(p)'
  BY <1>1 DEF Reliable, At, Ends
<1>3. \A q \in Panels \ {p} : Alone(q)
  BY DEF Alone, Ends, TypeOK, C!TypeOK
<1>. QED
  BY <1>2, <1>3, OneReliable DEF AllReliable, Reliable, Ends

LEMMA ShowReliable ==
  ASSUME Inv, NEW p \in Panels, Ends(p), NEW v, Tells(v, relied[p]), Show(p, v)
  PROVE  AllReliable' /\ PanelTypeOK'
<1>. USE PanelAssumption DEF Inv
<1>1. /\ page' = [page EXCEPT ![p] = IF v = Lost THEN ZeroValue ELSE v]
      /\ relied' = [relied EXCEPT ![p] = IF v = Lost THEN {} ELSE relied[p]]
      /\ phase' = [phase EXCEPT ![p] = "open"]
      /\ pending' = [pending EXCEPT ![p] = {}]
      /\ announced' = announced
  BY DEF Show, RelyOn
<1>2. relied'[p] = {} \/ (v # Lost /\ relied'[p] = relied[p] /\ page'[p] = v)
  BY <1>1 DEF PanelTypeOK
<1>3. relied'[p] \subseteq page'[p] /\ relied'[p] \subseteq announced
  BY <1>2 DEF Tells, AllReliable, Reliable
<1>4. AllReliable'
  BY <1>1, <1>3, EndsReliable DEF PanelTypeOK
<1>5. page' \in [Panels -> SUBSET Items]
  BY <1>1 DEF Tells, PanelTypeOK
<1>. QED
  BY <1>1, <1>4, <1>5 DEF PanelTypeOK

LEMMA LoadEndsReliable ==
  ASSUME Inv, NEW p \in Panels, LoadHits(p) \/ LoadFills(p) \/ LoadFails(p)
  PROVE  AllReliable' /\ PanelTypeOK'
<1>. USE PanelAssumption DEF Inv
<1>1. ASSUME AnswerFromCache(p) \/ Fill(p), announced' = announced
      PROVE  Ends(p)
  BY <1>1 DEF AnswerFromCache, Fill, Answer, C!GetReturn, C!Set, Ends
<1>2. CASE LoadHits(p)
  <2>1. PICK e \in held[p] : Show(p, e.value[Place])
    BY <1>2 DEF LoadHits
  <2>2. Tells(e.value[Place], relied[p])
    BY <1>2 DEF LoadHits, AnswerFromCache, AllReliable, Reliable
  <2>. QED
    BY <1>1, <1>2, <2>1, <2>2, ShowReliable DEF LoadHits, Show
<1>3. CASE LoadFills(p)
  <2>1. At(p, "read") /\ job[p].on = Page /\ Len(got[p]) = Len(Reads(Page))
    BY <1>3 DEF LoadFills, Fill, AllReliable, Reliable
  <2>2. Place \in DOMAIN got[p]
    BY <2>1, PlaceFact, ReadJob
  <2>3. Tells(got[p][Place], relied[p])
    BY <2>1, <2>2 DEF AllReliable, Reliable
  <2>. QED
    BY <1>1, <1>3, <2>3, ShowReliable DEF LoadFills, Show
<1>4. CASE LoadFails(p)
  <2>1. /\ relied' = [relied EXCEPT ![p] = {}]
        /\ phase' = [phase EXCEPT ![p] = IF @ = "reload" THEN "open" ELSE @]
        /\ UNCHANGED <<page, pending, announced>>
    BY <1>4 DEF LoadFails, RelyOn
  <2>2. AllReliable'
    BY <1>1, <1>4, <2>1, EndsReliable DEF LoadFails, PanelTypeOK
  <2>3. phase' \in [Panels -> {"closed", "open", "reload"}]
    BY <2>1 DEF PanelTypeOK
  <2>. QED
    BY <2>1, <2>2, <2>3 DEF PanelTypeOK
<1>. QED
  BY <1>2, <1>3, <1>4

LEMMA SaveReliable ==
  ASSUME Inv, NEW p \in Panels, NEW edits \in SUBSET Items, Save(p, edits)
  PROVE  AllReliable' /\ PanelTypeOK'
<1>. USE PanelAssumption DEF Inv
<1>1. /\ job' = [job EXCEPT ![p] = [pc |-> "write", on |-> Edited,
                                    body |-> page[p] \cup pending[p] \cup edits]]
      /\ pending' = [pending EXCEPT ![p] = @ \cup edits]
      /\ UNCHANGED <<got, held, phase, page, announced, relied>>
      /\ At(p, "idle")
  BY DEF Save, StartPut, noteVars
<1>2. /\ job'[p].pc = "write" /\ job'[p].on = Edited
      /\ job'[p].body = page[p] \cup pending[p] \cup edits
      /\ job'[p].body \in Bodies
  BY <1>1 DEF TypeOK, PanelTypeOK
<1>3. Reliable(p)'
  BY <1>1, <1>2 DEF AllReliable, Reliable, At
<1>4. \A q \in Panels \ {p} : Alone(q) /\ relied'[q] = relied[q]
  BY <1>1 DEF Alone, TypeOK
<1>5. AllReliable'
  BY <1>1, <1>3, <1>4, OneReliable DEF AllReliable, Reliable
<1>. QED
  BY <1>1, <1>5 DEF PanelTypeOK

LEMMA SaveCommitsReliable ==
  ASSUME Inv, NEW p \in Panels, SaveCommits(p)
  PROVE  AllReliable' /\ PanelTypeOK'
<1>. USE PanelAssumption DEF Inv
<1>1. /\ job' \in {[job EXCEPT ![p].pc = "flush"], [job EXCEPT ![p] = Idle]}
      /\ got' \in {got, [got EXCEPT ![p] = <<>>]}
      /\ UNCHANGED <<held, phase, page, pending>>
      /\ announced' = announced \cap db'[Edited]
      /\ relied' = [q \in Panels |-> relied[q] \cap db'[Edited]]
      /\ At(p, "write")
  BY DEF SaveCommits, WriteOk, WriteUnreported, Goto, Answer, Notice, panelVars
<1>2. \A q \in Panels : relied'[q] \subseteq relied[q] /\ relied'[q] \subseteq announced'
  BY <1>1 DEF AllReliable, Reliable
<1>3. job'[p].pc \in {"flush", "idle"} /\ (job'[p].pc = "flush" => job'[p].on = Edited)
  <2>1. job[p] \in [pc : {"write", "flush"}, on : Sections, body : Bodies \cup {Unreadable}]
    BY <1>1, JobKinds DEF TypeOK
  <2>2. job[p].on = Edited
    BY <1>1 DEF AllReliable, Reliable
  <2>3. CASE job' = [job EXCEPT ![p].pc = "flush"]
    BY <2>1, <2>2, <2>3 DEF TypeOK
  <2>4. CASE job' = [job EXCEPT ![p] = Idle]
    BY <2>4 DEF TypeOK, Idle
  <2>. QED
    BY <1>1, <2>3, <2>4
<1>4. Reliable(p)'
  BY <1>1, <1>2, <1>3 DEF AllReliable, Reliable, At
<1>5. \A q \in Panels \ {p} : Alone(q)
  BY <1>1 DEF Alone, TypeOK
<1>6. AllReliable'
  BY <1>2, <1>4, <1>5, OneReliable
<1>. QED
  BY <1>1, <1>6 DEF PanelTypeOK

(* A step that ends p's PUT and only adds to what is announced. *)
LEMMA PutEndsReliable ==
  ASSUME Inv, NEW p \in Panels, At(p, "write") \/ At(p, "flush"),
         job' = [job EXCEPT ![p] = Idle], got' = [got EXCEPT ![p] = <<>>],
         UNCHANGED <<held, page, relied>>, announced \subseteq announced'
  PROVE  AllReliable'
<1>. USE PanelAssumption DEF Inv
<1>1. job'[p].pc = "idle"
  BY DEF Idle, TypeOK
<1>2. Reliable(p)'
  BY <1>1 DEF AllReliable, Reliable, At
<1>3. \A q \in Panels \ {p} : Alone(q)
  BY DEF Alone, TypeOK
<1>. QED
  BY <1>2, <1>3, OneReliable DEF AllReliable, Reliable

LEMMA PutEnds ==
  ASSUME Inv, NEW p \in Panels,
         SaveFails(p) \/ SaveAnnounced(p) \/ SaveUnheard(p)
  PROVE  Shared' /\ AllReliable' /\ PanelTypeOK'
<1>. USE PanelAssumption DEF Inv
<1>1. CASE SaveFails(p)
  <2>1. AllReliable'
    BY <1>1, PutEndsReliable DEF SaveFails, WriteFails, Answer, panelVars, noteVars
  <2>. QED
    BY <1>1, <2>1, SaveShared DEF SaveFails, panelVars, noteVars, PanelTypeOK
<1>2. ASSUME FlushCache(p), UNCHANGED <<page, pending, relied>>,
             announced \subseteq announced', announced' \subseteq db[Edited],
             phase' \in {phase, [phase EXCEPT ![p] = "reload"]}
      PROVE  Shared' /\ AllReliable' /\ PanelTypeOK'
  <2>1. Shared'
    BY <1>2, FlushShared
  <2>2. AllReliable'
    BY <1>2, PutEndsReliable DEF FlushCache, Answer, C!Flush
  <2>3. announced' \subseteq Items
    BY <1>2 DEF Shared
  <2>. QED
    BY <1>2, <2>1, <2>2, <2>3 DEF PanelTypeOK
<1>3. CASE SaveAnnounced(p)
  <2>1. announced \subseteq announced' /\ announced' \subseteq db[Edited]
    BY <1>3 DEF SaveAnnounced, Shared
  <2>. QED
    BY <1>2, <1>3, <2>1 DEF SaveAnnounced
<1>4. CASE SaveUnheard(p)
  BY <1>2, <1>4 DEF SaveUnheard, panelVars, noteVars, Shared
<1>. QED
  BY <1>1, <1>3, <1>4

LEMMA EditorReliable ==
  ASSUME Inv, NEW p \in Panels, Rerender(p) \/ Leave(p)
  PROVE  Shared' /\ AllReliable' /\ PanelTypeOK'
<1>. USE DEF Inv
<1>1. /\ UNCHANGED <<vars, announced>>
      /\ phase' \in {phase, [phase EXCEPT ![p] = "closed"]}
      /\ pending' = [pending EXCEPT ![p] = {}]
      /\ \/ page' = page /\ relied' = relied
         \/ page' = [page EXCEPT ![p] = {}] /\ relied' = [relied EXCEPT ![p] = {}]
      /\ At(p, "idle")
  BY DEF Rerender, Leave, RelyOn, noteVars
<1>2. PanelTypeOK'
  BY <1>1 DEF PanelTypeOK
<1>3. Shared'
  BY <1>1 DEF vars, Shared, CacheTells, FlightTells, At, Tells
<1>4. Reliable(p)'
  BY <1>1 DEF vars, AllReliable, Reliable, At, PanelTypeOK
<1>5. \A q \in Panels \ {p} :
        Alone(q) /\ relied'[q] = relied[q] /\ relied'[q] \subseteq announced'
  BY <1>1 DEF vars, Alone, AllReliable, Reliable, PanelTypeOK
<1>6. AllReliable'
  BY <1>4, <1>5, OneReliable
<1>. QED
  BY <1>2, <1>3, <1>6

LEMMA OthersReliable ==
  ASSUME Inv, Others
  PROVE  AllReliable' /\ PanelTypeOK'
<1>. USE PanelAssumption DEF Inv
<1>1. UNCHANGED <<phase, page, pending, announced, relied>>
  BY DEF Others, panelVars, noteVars
<1>2. ASSUME NEW q \in Panels
      PROVE  Alone(q)
  <2>1. CASE Evict
    BY <1>1, <2>1 DEF Evict, C!Evict, requestVars, Alone
  <2>2. CASE Elapse
    <3>1. \A e \in C!Entry : C!Older(e).value = e.value
      BY DEF C!Entry, C!Older
    <3>2. held'[q] = {C!Older(e) : e \in held[q]} /\ held[q] \subseteq C!Entry
      BY <2>2 DEF Elapse, C!Elapse, TypeOK, C!TypeOK
    <3>. QED
      BY <1>1, <2>2, <3>1, <3>2 DEF Elapse, requestVars, Alone
  <2>3. ASSUME NEW r \in Requests \ Panels, Get(r)
        PROVE  Alone(q)
    <3>1. UNCHANGED <<job[q], got[q], held[q]>>
      <4>1. CASE \E k \in Keys : StartGet(r, k)
        BY <2>3, <4>1 DEF StartGet, C!GetLookup, TypeOK, C!TypeOK
      <4>2. CASE AnswerFromCache(r) \/ Miss(r)
        BY <2>3, <4>2
        DEF AnswerFromCache, Miss, Goto, Answer, C!GetReturn, TypeOK, C!TypeOK
      <4>3. CASE QueryOk(r) \/ QueryFails(r) \/ Fill(r)
        BY <2>3, <4>3 DEF QueryOk, QueryFails, Fill, Answer, C!Set, TypeOK
      <4>. QED
        BY <2>3, <4>1, <4>2, <4>3 DEF Get
    <3>. QED
      BY <1>1, <3>1 DEF Alone
  <2>. QED
    BY <2>1, <2>2, <2>3 DEF Others
<1>3. AllReliable'
  BY <1>1, <1>2, AloneReliable DEF AllReliable, Reliable
<1>. QED
  BY <1>1, <1>3 DEF PanelTypeOK

-----------------------------------------------------------------------------
LEMMA StepInv ==
  ASSUME Inv, [PanelNext]_allVars
  PROVE  Inv'
<1>. USE PanelAssumption
<1>1. TypeOK'
  BY PanelStepsAreContent, ContentStepTyped DEF Inv
<1>2. ASSUME NEW p \in Panels, Panel(p)
      PROVE  Shared' /\ AllReliable' /\ PanelTypeOK'
  <2>1. CASE Load(p) \/ LoadHits(p) \/ LoadMisses(p) \/ LoadReads(p)
             \/ LoadFills(p) \/ LoadFails(p)
    <3>1. Get(p) /\ announced' = announced
      BY <2>1
      DEF Load, LoadHits, LoadMisses, LoadReads, LoadFills, LoadFails, Show,
          Get, noteVars
    <3>2. Shared'
      BY <3>1, GetShared DEF Inv
    <3>. QED
      BY <2>1, <3>2, LoadReliable, LoadMissesReliable, LoadReadsReliable,
         LoadEndsReliable
  <2>2. ASSUME NEW edits \in SUBSET Items, Save(p, edits)
        PROVE  Shared' /\ AllReliable' /\ PanelTypeOK'
    BY <2>2, SaveReliable, SaveShared
  <2>3. CASE SaveCommits(p)
    BY <2>3, SaveCommitsShared, SaveCommitsReliable
  <2>. QED
    BY <1>2, <2>1, <2>2, <2>3, PutEnds, EditorReliable DEF Panel
<1>3. CASE Others
  <2>1. announced' = announced
    BY <1>3 DEF Others, noteVars
  <2>2. Shared'
    BY <1>3, <2>1, GetShared DEF Others, Inv
  <2>. QED
    BY <1>1, <1>3, <2>2, OthersReliable DEF Inv
<1>4. CASE UNCHANGED allVars
  BY <1>1, <1>4
  DEF allVars, vars, panelVars, noteVars, Inv, PanelTypeOK, Shared, CacheTells,
      FlightTells, AllReliable, Reliable, At, Tells
<1>. QED
  BY <1>1, <1>2, <1>3, <1>4 DEF PanelNext, Inv

(* A panel never shows, and never puts back, anything but content of the   *)
(* section that it edits (admin.html, fetchAllData; handlers.go, readBody).*)
THEOREM PanelTyped == PanelSpec => []PanelTypeOK
BY InitInv, StepInv, PTL DEF PanelSpec, Inv

(* To the content API a panel is a client like others, and it never sends  *)
(* a body that cannot be read: so whatever holds of the API holds while    *)
(* panels work on it (admin.html, fetchAllData and the saves).             *)
THEOREM PanelsAreClients == PanelSpec => Spec
<1>1. PanelInit => Init
  BY DEF PanelInit
<1>. QED
  BY <1>1, PanelTyped, PanelStepsAreContent, PTL DEF PanelSpec, Spec

(* In particular the cache is stale only while a Flush is owed or through  *)
(* a fill that straddled one (handlers.go, adminPUT; admin.html).          *)
THEOREM PanelStaleOnlyIfExcused == PanelSpec => []StaleOnlyIfExcused
BY PanelsAreClients, ContentStaleOnlyIfExcused, PTL

(* And no save takes an edit out of the database that was announced before *)
(* its panel asked for the page, but for the cases the property excuses    *)
(* (admin.html, fetchAllData and the saves; handlers.go, adminPUT).        *)
THEOREM PanelUndoneOnlyIfExcused == PanelSpec => UndoneOnlyIfExcused
<1>1. ASSUME Inv, [PanelNext]_allVars, NEW p \in Panels,
             At(p, "write"), ~At(p, "write")'
      PROVE  relied[p] \subseteq db'[Edited]
  <2>. USE PanelAssumption DEF Inv
  <2>1. /\ relied[p] \subseteq page[p] /\ page[p] \subseteq job[p].body
        /\ relied[p] \subseteq announced /\ announced \subseteq db[Edited]
    BY <1>1 DEF AllReliable, Reliable, Shared, At
  <2>2. ASSUME NEW q \in Panels, SaveCommits(q)
        PROVE  relied[p] \subseteq db'[Edited]
    <3>1. CASE q = p
      <4>1. db'[Edited] = job[p].body
        BY <1>1, <2>2, <3>1, SaveCommitsShared
      <4>. QED
        BY <2>1, <4>1
    <3>2. CASE q # p
      <4>1. job'[p] = job[p]
        <5>1. job' \in {[job EXCEPT ![q].pc = "flush"], [job EXCEPT ![q] = Idle]}
          BY <2>2 DEF SaveCommits, WriteOk, WriteUnreported, Goto, Answer
        <5>. QED
          BY <1>1, <3>2, <5>1 DEF TypeOK
      <4>. QED
        BY <1>1, <4>1 DEF At
    <3>. QED
      BY <3>1, <3>2
  <2>3. CASE \A q \in Panels : ~SaveCommits(q)
    <3>1. db' = db
      <4>1. ASSUME NEW r \in Requests, Get(r)
            PROVE  db' = db
        BY <4>1
        DEF Get, StartGet, AnswerFromCache, Miss, QueryOk, QueryFails, Fill, dbVars
      <4>2. ASSUME NEW q \in Panels, Panel(q)
            PROVE  db' = db
        BY <2>3, <4>1, <4>2
        DEF Panel, Load, LoadHits, LoadMisses, LoadReads, LoadFills, LoadFails, Get,
            Save, StartPut, SaveFails, WriteFails, SaveAnnounced, SaveUnheard,
            FlushCache, Rerender, Leave, vars, dbVars
      <4>. QED
        BY <1>1, <4>1, <4>2
        DEF PanelNext, Others, Evict, Elapse, dbVars, allVars, vars
    <3>. QED
      BY <2>1, <3>1
  <2>. QED
    BY <2>2, <2>3
<1>2. Inv /\ [PanelNext]_allVars =>
        [\A p \in Panels :
           At(p, "write") /\ ~At(p, "write")' => relied[p] \subseteq db'[Edited]]_allVars
  BY <1>1
<1>. QED
  BY InitInv, StepInv, <1>2, PTL DEF PanelSpec, UndoneOnlyIfExcused
=============================================================================
