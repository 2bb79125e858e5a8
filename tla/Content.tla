------------------------------ MODULE Content ------------------------------
(***************************************************************************)
(* The content API of internal/handlers/handlers.go: the public GETs of    *)
(* /api/content, /api/languages and /api/sidepanel, which read through the *)
(* cache, and the admin PUTs, which replace one section of the database    *)
(* and then flush the cache. Each request runs in its own goroutine; every *)
(* use of the cache's lock and every statement the database executes is a  *)
(* step, and the steps of different requests interleave.                   *)
(*                                                                         *)
(* The database is modelled from how internal/repository uses it: a read   *)
(* returns a section as one statement sees it, an update takes effect at   *)
(* its commit or not at all. The statements of an update are in Replace.   *)
(***************************************************************************)
EXTENDS Sequences, Functions, Integers

CONSTANTS
  Requests,         \* the requests that may be in progress at once
  Keys,             \* the GET endpoints in use, which are the cache keys
  ContentSections,  \* the sections of /api/content, in the order it reads them
  Lists,            \* the sections that an update replaces row by row
  Bodies,           \* the readable bodies of a PUT
  ZeroValue,        \* the Go zero value of a section: empty strings, no rows
  Unreadable,       \* a body that json.Decode fails on, or cut off at 1 MB
  Mixed,            \* what two updates of a list at once may leave in it
  Lost,             \* what a caller has when a query fails and it goes on
  None,             \* no section, no body
  TTL               \* the cache's lifetime of an entry, in ticks

(* The sections an endpoint reads, one query each. *)
Reads(k) == IF k = "content" THEN ContentSections ELSE <<k>>

Sections == UNION {Range(Reads(k)) : k \in Keys}

ASSUME EndpointAssumption ==
  /\ Keys \subseteq {"content", "languages", "sidepanel"}
  /\ \A k \in Keys : Reads(k) \in Seq(Sections)

ASSUME ValueAssumption ==
  /\ TTL \in Nat
  /\ Unreadable \notin Bodies \cup {ZeroValue, Mixed}
  /\ Lost \notin Bodies \cup {ZeroValue, Mixed}

Stored == Bodies \cup {ZeroValue, Mixed}
Result == Stored \cup {Lost}

VARIABLES
  db,         \* db[s]: the committed content of section s
  overlapped, \* the requests about to replace a list, that another request
              \* has replaced since they came
  cache,      \* the map of the cache
  held,       \* held[r]: the cache entry that r's Get has copied
  job,        \* job[r]: where request r is, what it is for, and its body
  got,        \* got[r]: what r's queries have returned so far
  crossed,    \* history: the reads in got[r] that a Flush has come after
  tainted,    \* history: crossed[r] of the request r that filled the key
  unflushed   \* history: sections changed by a PUT that failed to report
              \* it, with no Flush since

dbVars == <<db, overlapped>>
requestVars == <<job, got>>
historyVars == <<crossed, tainted, unflushed>>
vars == <<db, overlapped, cache, held, job, got, crossed, tainted, unflushed>>

C == INSTANCE TTLCache
       WITH Values <- Seq(Result), Callers <- Requests, m <- cache

Idle == [pc |-> "idle", on |-> None, body |-> None]

Job ==
  {Idle}
    \cup [pc : {"lookup", "read"}, on : Keys, body : {None}]
    \cup [pc : {"write", "flush"}, on : Sections, body : Bodies \cup {Unreadable}]

At(r, pc) == job[r].pc = pc

(* Request r answers and is over. *)
Answer(r) ==
  /\ job' = [job EXCEPT ![r] = Idle]
  /\ got' = [got EXCEPT ![r] = <<>>]

Goto(r, pc) == job' = [job EXCEPT ![r].pc = pc]

-----------------------------------------------------------------------------
(* Wrong variants of operations below, which the checked properties must   *)
(* tell from the right ones. They are part of no specification.            *)

(* Every hit renews the entry. *)
AnswerAndRenew(r) ==
  /\ At(r, "lookup")
  /\ \E e \in C!Fresh(held[r]) :
       cache' = [k \in DOMAIN cache \cup {job[r].on} |->
                   IF k = job[r].on THEN [e EXCEPT !.left = TTL] ELSE cache[k]]
  /\ held' = [held EXCEPT ![r] = {}]
  /\ Answer(r)
  /\ UNCHANGED <<dbVars, historyVars>>

(* The body is stored as it came. *)
DecodeRaw(b) == b

(* The handler answers 200 without a flush. *)
WriteWithoutFlush(r) ==
  /\ At(r, "write")
  /\ db' = [db EXCEPT ![job[r].on] =
              IF job[r].body = Unreadable THEN ZeroValue ELSE job[r].body]
  /\ Answer(r)
  /\ UNCHANGED <<overlapped, cache, held, historyVars>>

(* The PUT is answered without a flush of what the GETs of others filled.  *)
FlushForgotten(r) ==
  /\ At(r, "flush")
  /\ Answer(r)
  /\ UNCHANGED <<dbVars, cache, held, historyVars>>

-----------------------------------------------------------------------------
Init ==
  /\ db \in [Sections -> Stored \ {Mixed}]
  /\ overlapped = {}
  /\ C!Init
  /\ job = [r \in Requests |-> Idle]
  /\ got = [r \in Requests |-> <<>>]
  /\ crossed = [r \in Requests |-> {}]
  /\ tainted = [k \in Keys |-> {}]
  /\ unflushed = {}

-----------------------------------------------------------------------------
(* GET: h.cache.Get, and on a miss the queries and h.cache.Set.            *)

StartGet(r, k) ==
  /\ At(r, "idle")
  /\ C!GetLookup(r, k)
  /\ job' = [job EXCEPT ![r] = [pc |-> "lookup", on |-> k, body |-> None]]
  /\ UNCHANGED <<dbVars, got, historyVars>>

AnswerFromCache(r) ==
  /\ At(r, "lookup")
  /\ C!Fresh(held[r]) # {}
  /\ C!GetReturn(r)
  /\ Answer(r)
  /\ UNCHANGED <<dbVars, historyVars>>

Miss(r) ==
  /\ At(r, "lookup")
  /\ C!Fresh(held[r]) = {}
  /\ C!GetReturn(r)
  /\ Goto(r, "read")
  /\ UNCHANGED <<dbVars, got, historyVars>>

(* The section that r's next query reads. *)
NextRead(r) == Reads(job[r].on)[Len(got[r]) + 1]

Reading(r) == At(r, "read") /\ Len(got[r]) < Len(Reads(job[r].on))

QueryOk(r) ==
  /\ Reading(r)
  /\ got' = [got EXCEPT ![r] = Append(@, db[NextRead(r)])]
  /\ UNCHANGED <<dbVars, cache, held, job, historyVars>>

(* A query fails, times out, or is cancelled because the client left. Only *)
(* Languages gives up: Content ignores the error and GetSidePanel turns it *)
(* into a default.                                                         *)
QueryFails(r) ==
  /\ Reading(r)
  /\ IF job[r].on = "languages"
       THEN /\ Answer(r)
            /\ crossed' = [crossed EXCEPT ![r] = {}]
       ELSE /\ got' = [got EXCEPT ![r] = Append(@, Lost)]
            /\ UNCHANGED <<job, crossed>>
  /\ UNCHANGED <<dbVars, cache, held, tainted, unflushed>>

Fill(r) ==
  /\ At(r, "read")
  /\ Len(got[r]) = Len(Reads(job[r].on))
  /\ C!Set(job[r].on, got[r])
  /\ Answer(r)
  /\ tainted' = [tainted EXCEPT ![job[r].on] = crossed[r]]
  /\ crossed' = [crossed EXCEPT ![r] = {}]
  /\ UNCHANGED <<dbVars, unflushed>>

-----------------------------------------------------------------------------
(* PUT: adminPUT around one of the AdminXxx handlers.                      *)

(* What readBody leaves in the handler's variable, its error being ignored. *)
Decode(b) == IF b = Unreadable THEN ZeroValue ELSE b

StartPut(r, s, b) ==
  /\ At(r, "idle")
  /\ job' = [job EXCEPT ![r] = [pc |-> "write", on |-> s, body |-> b]]
  /\ UNCHANGED <<dbVars, cache, held, got, historyVars>>

(* The requests whose update of the same list is under way. *)
Rivals(r) ==
  {q \in Requests \ {r} : /\ At(q, "write") /\ job[q].on = job[r].on
                          /\ job[q].on \in Lists}

(* The section becomes what the body says. The rows of another update that *)
(* committed meanwhile may stay beside it (see Replace).                   *)
Write(r) ==
  /\ \E c \in {Decode(job[r].body)} \cup IF r \in overlapped THEN {Mixed} ELSE {} :
       db' = [db EXCEPT ![job[r].on] = c]
  /\ overlapped' = (overlapped \ {r}) \cup Rivals(r)

(* The update commits and returns nil. *)
WriteOk(r) ==
  /\ At(r, "write")
  /\ Write(r)
  /\ Goto(r, "flush")
  /\ UNCHANGED <<cache, held, got, historyVars>>

(* The update fails, and adminPUT answers 500. *)
WriteFails(r) ==
  /\ At(r, "write")
  /\ Answer(r)
  /\ overlapped' = overlapped \ {r}
  /\ UNCHANGED <<db, cache, held, historyVars>>

(* The update takes effect, but its result never arrives (the context ends *)
(* or the connection breaks after the commit): adminPUT answers 500 too.   *)
WriteUnreported(r) ==
  /\ At(r, "write")
  /\ Write(r)
  /\ Answer(r)
  /\ unflushed' = unflushed \cup {job[r].on}
  /\ UNCHANGED <<cache, held, crossed, tainted>>

FlushCache(r) ==
  /\ At(r, "flush")
  /\ C!Flush
  /\ Answer(r)
  /\ crossed' = [q \in Requests |-> DOMAIN got[q]]
  /\ tainted' = [k \in Keys |-> {}]
  /\ unflushed' = {}
  /\ UNCHANGED dbVars

-----------------------------------------------------------------------------
(* The cache's eviction goroutine, and time. *)
Evict == C!Evict /\ UNCHANGED <<dbVars, requestVars, historyVars>>

Elapse == C!Elapse /\ UNCHANGED <<dbVars, requestVars, historyVars>>

Get(r) ==
  \/ \E k \in Keys : StartGet(r, k)
  \/ AnswerFromCache(r)
  \/ Miss(r)
  \/ QueryOk(r)
  \/ QueryFails(r)
  \/ Fill(r)

Put(r) ==
  \/ \E s \in Sections, b \in Bodies \cup {Unreadable} : StartPut(r, s, b)
  \/ WriteOk(r)
  \/ WriteFails(r)
  \/ WriteUnreported(r)
  \/ FlushCache(r)

Next ==
  \/ \E r \in Requests : Get(r) \/ Put(r)
  \/ Evict
  \/ Elapse

Spec == Init /\ [][Next]_vars

(* Time passes. Nothing is assumed of requests: one may hang at any step.  *)
FairSpec == Spec /\ WF_vars(Elapse)

-----------------------------------------------------------------------------
TypeOK ==
  /\ db \in [Sections -> Stored]
  /\ overlapped \subseteq Requests
  /\ C!TypeOK
  /\ job \in [Requests -> Job]
  /\ got \in [Requests -> Seq(Result)]
  /\ \A r \in Requests :
       IF At(r, "read") THEN Len(got[r]) <= Len(Reads(job[r].on)) ELSE got[r] = <<>>
  /\ crossed \in [Requests -> SUBSET Nat]
  /\ tainted \in [Keys -> SUBSET Nat]
  /\ unflushed \subseteq Sections
  /\ \A r \in Requests : crossed[r] \subseteq DOMAIN got[r]
  /\ \A k \in DOMAIN cache : Len(cache[k].value) = Len(Reads(k))
  /\ \A k \in Keys : tainted[k] \subseteq DOMAIN Reads(k)

(* Section s changed, and the Flush that must follow has not come yet, or  *)
(* never will because the PUT failed after its commit.                     *)
FlushOwed(s) ==
  \/ s \in unflushed
  \/ \E r \in Requests : At(r, "flush") /\ job[r].on = s

(* What the i-th of the reads of k returned is what the database holds,    *)
(* or the read failed.                                                     *)
UpToDate(k, i, seen) == seen \in {db[Reads(k)[i]], Lost}

(* A cached section differs from the database only while a Flush is owed,  *)
(* or if the request that filled the entry had read the section before a   *)
(* Flush and stored it after: the Flush of adminPUT leaves no other window *)
(* (handlers.go, Content's reads and Set against adminPUT's fn and Flush). *)
StaleOnlyIfExcused ==
  \A k \in DOMAIN cache : \A i \in DOMAIN Reads(k) :
    \/ UpToDate(k, i, cache[k].value[i])
    \/ i \in tainted[k]
    \/ FlushOwed(Reads(k)[i])

(* The same of what a request has read so far and will store later, which  *)
(* is why the cache keeps StaleOnlyIfExcused when a Fill comes late        *)
(* (handlers.go, the local variables of Content between its reads and Set).*)
InFlightExcused ==
  \A r \in Requests : At(r, "read") =>
    \A i \in DOMAIN got[r] :
      \/ UpToDate(job[r].on, i, got[r][i])
      \/ i \in crossed[r]
      \/ FlushOwed(Reads(job[r].on)[i])

(* What the cache would now serve is what the database holds. *)
Current ==
  \A k \in Keys : \A e \in C!Fresh(C!Found(k)) :
    e.value = [i \in DOMAIN Reads(k) |-> db[Reads(k)[i]]]

QueryFailure == \E r \in Requests : QueryFails(r)

(* Once the database stops changing and queries stop failing, the cache    *)
(* serves current content from some moment on: whatever a raced fill, an   *)
(* unreported commit or a failed query put there, the TTL takes away, and  *)
(* no request that is still in flight can keep it alive (handlers.go, the  *)
(* Sets of the three GETs; cache.go, expiresAt).                           *)
Convergence ==
  (<>[][UNCHANGED db]_vars /\ <>[][~QueryFailure]_vars) => <>[]Current
=============================================================================
