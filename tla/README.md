# A formal model of the NexLog server

NexLog is a Go server for a company web site: it serves the site's content from
PostgreSQL through a small in-memory cache, lets one administrator replace that
content section by section, limits the rate of API requests per client address,
and brings its own database up to date when it starts. This directory models the
parts of it in which several goroutines, processes or transactions meet, checks
them with TLC and proves their main properties with TLAPS.

All of the program's own logic is about 1,900 lines of Go under `src/cmd`,
`src/configs` and `src/internal`, and the two pages in `src/public`. The rest of
the repository is vendored. The repository has no tests of its own code, so what
is promised is taken from comments, from `src/README.md` and from what the admin
panel tells its user.

## 1. Inventory

| Component | Source | State it keeps | Operations | Module(s) |
|---|---|---|---|---|
| TTL cache | `internal/cache/cache.go` | a map under an RWMutex, an expiry per entry | Set, Get, Flush, evict (goroutine) | `TTLCache`, `LeaseMap` |
| Content API | `internal/handlers/handlers.go` | none of its own: local variables of requests | GET content, languages, sidepanel; ten PUTs around `adminPUT` | `Content` |
| Repository | `internal/repository/repository.go` | the tables of `migrations/0001_init.up.sql` | reads, single-row UPDATEs, six DELETE-and-INSERT transactions | `Replace`, `Superseding`, `Content` |
| Rate limiter | `internal/middleware/ratelimit.go` | a map address → limiter and last sight, under a mutex | getLimiter, Allow, cleanup (goroutine) | `RateLimit`, `TokenBucket` |
| Token bucket library | `vendor/golang.org/x/time/rate` | tokens and time of the last admission | advance, reserveN | part of `RateLimit` |
| Migration runner | `internal/migrate/migrate.go` | `schema_migrations` and the schema | Run: read versions, apply files one transaction each | `Migrate`, `Ledger` |
| Seeding | `internal/service/service.go`, `languages.go` | all tables; `languages` at every start | SeedIfEmpty, MigrateLanguages | `Seed`, `Planting` |
| Server lifecycle | `cmd/server/main.go` | the process and its requests in progress | boot, listen, SIGTERM, Shutdown | `Lifecycle`; two of the boot steps in `Migrate`, `Seed` |
| Admin authentication | `handlers.go`, `internal/middleware/auth.go` | the password hash; tokens at clients | Login, ChangePassword, check of a token | `AdminAuth` |
| Admin panel | `public/admin.html` | a copy of all content in the browser | load, edit, put back one section | `AdminPanel` |
| Configuration, database pool, deployment | `configs`, `internal/db`, `docker-compose.yml` | none between requests | Load, Open; restart, stop | boot steps and constants of `Lifecycle` and `RateLimit` |
| Image upload | `handlers.go` | files in the upload directory | Upload | not modelled |
| CORS, security headers, gzip, logger, public site | `internal/middleware`, `internal/logger`, `public/index.html` | none between requests | | not modelled |
| `cmd/server/middleware.go` | a second, fixed-window limiter, never installed | | dead code | not modelled |

How they interact. Every request passes the rate limiter first. A GET asks the
cache; on a miss it queries the database through service and repository, each
with a deadline of 8 seconds, and sets the cache. A PUT replaces one section and,
if the repository returned no error, flushes the whole cache. The eviction and
cleanup goroutines share the cache's and the limiter's locks with the requests.
Before it listens, every process runs the migrations and then the seeding against
the database it may share with other processes; an error there ends the process,
which is restarted (`docker-compose.yml:32`). An admin request passes the check of its
token before its handler. The admin panel is a client of the same GETs as the visitors
and of the PUTs: what it shows for editing may come out of the cache, and what it
shows, it puts back.

What is hard, and what makes each part correct:

- *Cache*: `Get` copies an entry under the lock and looks at the clock after it has
  let it go; eviction reads the clock before it has the lock. Correct: a value is
  served exactly from its Set until its TTL is over or a Flush comes.
- *Content API*: nothing connects a GET's queries with its Set, nor a PUT's commit
  with its Flush. Errors of queries are ignored in one handler, hidden in a second,
  handled in the third; errors of `readBody` are ignored in all PUTs. Correct: the
  cache differs from the database only in windows that can be named, and not for ever.
- *Repository*: five of the six replacing transactions ignore the errors of their
  statements; two of them on the same table overlap under READ COMMITTED; the
  INSERTs of languages come in the random order of a Go map and can deadlock.
  Correct: what is committed is made of whole bodies, a saved replacement has
  removed what it found, nobody waits for ever.
- *Rate limiter*: the lookup and the question to the limiter are two steps; the
  cleanup forgets clients. Correct: nobody can tell forgotten limiters from
  permanent ones; a window admits a bounded number of requests.
- *Migrations and seeding*: several processes run them at once, are killed in the
  middle, lose the answer of a commit. Correct: each file takes effect once and in
  order, the seed as a whole and once, an administrator's edits survive, every
  process comes up in the end.

- *Admin panel*: it puts whole sections back, knows no version of them, and takes what
  it edits from the cache; a failed query looks like an empty section. Correct: a save
  undoes no earlier one that was announced before its page was asked for, except in
  cases that can be named.
- *Authentication*: tokens are not tied to the stored hash, and between the reading of
  the hash and the token, and between the check and the effect, time passes. Correct:
  the time for which an old password is still worth something is bounded.
- *Lifecycle*: four deadlines (body, query, Shutdown, Docker) that do not know of each
  other; a server goroutine whose failure ends nothing. Correct: what the end of the
  process cuts off can be told beforehand; a process asked to end does; one that is
  wanted serves.

`PROJECT.json` lists every component and, under `hazards`, each of these dangers
at its line with the properties that cover it.

## 2. The modules

A module's header says what it models. Definitions keep the names of the functions
they model, and `map` in `PROJECT.json` gives the lines. Each module has a section
of *wrong variants*: operations with a plausible bug, in no specification, for which
the runs below find the properties violated.

**`TTLCache`** — `m` is the Go map; an entry carries the ticks left until
`expiresAt`, -1 for "past". `held[c]` is the entry that caller c's `Get` has copied:
`GetLookup` is the half under `RLock`, `GetReturn` the rest. `Elapse` is the clock.
**`LeaseMap`** is the promise: leases that end by themselves, no expired entries and
no eviction. `KeepsLeases` is the refinement.

**`Content`** — each request is a goroutine with a `job` (where it is, for which
endpoint or section, with which body) and what its queries returned so far (`got`).
The cache is an instance of `TTLCache`, so a GET is `StartGet`, then
`AnswerFromCache` or `Miss`, then a `QueryOk` or `QueryFails` per section, then
`Fill`. A PUT is `StartPut`, then `WriteOk` and `FlushCache`, or `WriteFails`, or
`WriteUnreported`: the commit took effect and its answer was lost. `Decode` is
`readBody` with its error ignored: what cannot be read is stored as the zero value.
`overlapped` and `Mixed` bring in what `Replace` shows of two updates of one list:
the later one to commit may leave a mixture. `crossed`, `tainted` and `unflushed`
are history, to say which staleness is excused.

**`Replace`** — the statements of the six replacing transactions, on one table,
which the initial state chooses: `hero_slides` returns at the first error
(`Checks`), `languages` has a primary key (`Keyed`), `stats` stands for the
four others, which have neither. `DeleteSees` is the snapshot of the DELETE statement,
`Delete` the moment it has its row locks, `NextRow` and `Insert` the loop. `Abort`
is a failed statement: for the slides the deferred Rollback and the answer, for the
others a transaction whose commit will be refused (`CommitRefused`).
**`Superseding`** is the promise: a saved replacement's rows are there, all that was
there when it began is gone, and others saved meanwhile survive as a whole or not
at all. `WaitsFor(w)` is whom w waits for, directly or through others: the least set
that has those that block w and, with each of its members, those that block it.

**`RateLimit`** — `visitors` is the map, an entry holds the limiter's tokens, the
ticks since the limiter was last debited and the ticks since `lastSeen`. `at[r]` is
the limiter that request r has from `getLimiter` and not asked yet. `Advance` and
`Admits` are the library's `advance` and `reserveN`. `Observe` opens the window
over which admissions are counted. **`TokenBucket`** is the promise: permanent
buckets, filled all the time.

**`Migrate`** — `Run` and every function it calls, a step per statement, by any
number of processes, with `Fails`, `CommitUnreported` and `Crash` possible in any
state where they can happen. `ran[i]` counts how often file i took effect.
**`Ledger`** is the promise, without a table of versions, transactions and failures: of
each version one file takes effect, in order and for good, and who serves finds
all of them done.

**`Seed`** — `SeedIfEmpty` and `MigrateLanguages`, by any number of processes. The
seed is one INSERT (or group of them) per table; a failed one sets `aborted`, and
PostgreSQL then refuses the commit. `UpdateLanguages` is an administrator at a
process that already serves. **`Planting`** is the promise: the database is planted once,
as a whole and before anybody serves; afterwards a default text comes only where there
is none.

**`AdminPanel`** — composed with `Content`, whose requests of the set `Panels` are those of
admin panels: each of its actions is an action of `Content` together with what the
page does. `Load` is `fetchAllData`; it ends in `Show`, by `LoadHits` or `LoadFills`, or
in `LoadFails`, where the state of the page stays as it was and an editor keeps what
was typed. `Save` puts back the page and what was typed (`pending`), `SaveAnnounced` is
the "✅ … saved" and asks for the next load, `Rerender` draws the editor from the state.
A section is the set of the tracked items in it. `announced` and `relied` are
history: which edits the user has been told of, and which of those were there when a
panel asked for its page.

**`AdminAuth`** — one stored `hash`, a `token` and a `job` per browser. A login is `ReadHash`
and, bcrypt later, `Issue` or `Reject`; an admin request is `Check` and later its
effect, `Change`, `ChangeFails` (answered 200 as well) or `Done`. `Hash` is bcrypt with
its error ignored. `retired` is history: for how long a password has not been the
stored one.

**`Lifecycle`** — `proc` is where `main` is; `stage` says of each request in progress
whether it waits for its body or is in a query, how many queries are left, and for how
long. `Tick` is time, which no deadline outlives; `Signal`, `Exit`, `Kill`, `Crash`, `Up`
are the ways a process ends and comes back. `deaf` is a process whose
`ListenAndServe` has returned. `due` is history: what a request could still take when
the signal came.

**`MCContent`**, **`MCReplace`**, **`MCMigrate`**, **`MCSeed`**, **`MCAdminPanel`**,
**`MCLifecycle`** give the constants that are sequences, functions or symmetry sets.
**`TTLCacheProofs`**, **`ContentProofs`**, **`RateLimitProofs`**, **`ReplaceProofs`**,
**`MigrateProofs`**, **`SeedProofs`**, **`AdminAuthProofs`**, **`LifecycleProofs`** hold the
theorems; those of `AdminPanel` stand in `ContentProofs`, with those of the API they are about.

### What PostgreSQL and the driver are taken to do

They are outside this repository's own code and are modelled as the code relies on
them: a transaction takes effect at its commit or not at all; after a failed
statement the others fail and the commit returns an error (the driver's
`ErrInFailedTransaction`, `vendor/github.com/lib/pq/conn.go`); an INSERT of a unique key
waits for an open transaction that has inserted or deleted it, and fails if a
committed row has it; at READ COMMITTED, the default that `BeginTx(ctx, nil)`
leaves, each statement has its own snapshot, and a DELETE waits for rows of its
snapshot that others have deleted; of transactions that wait in a cycle one is made
to fail.

### Abstractions

- A body is a model value, `ZeroValue` or `Unreadable`. A body whose JSON has the
  wrong type for a field decodes in part; that is one more body.
- What a failed read leaves in a caller's variable (nothing, or the rows before the
  error) is `Lost`.
- Tokens are exact: a token is `Minute` units. The library uses float64.
- `Allow` reads the clock and takes the limiter's lock in the same tick.
- `Evict` removes any of the expired entries: which of them had expired when the goroutine
  read the clock, before it had the lock, is not kept.
- No request spends more than `Stall` ticks between `getLimiter` and `Allow`, two
  calls with nothing between them that blocks; the cleanup leaves ten minutes, and
  the assumption `RateAssumption` states by how much that has to be longer.
- In `Replace` a DELETE obtains all its row locks in one step. In `Content` and `Seed`
  a replacement is one step; `Content` allows for the mixture.
- `Migrate` has the files of one release and a fixed order of equal versions (`sort.Slice`
  is not stable, so the order of two such files may change between starts).
- A panel does one thing at a time (its buttons do not prevent a second click), its
  bodies can be read, the section it edits is a row and no list, and edits only add
  items: an item that is gone was not meant to go. `Edited` is read by an endpoint other
  than `/api/languages`, whose handler alone answers a failed query with an error.
- `AdminAuth` counts time in ticks; no request takes more than `Stall`. The pauses of
  bcrypt and of a refused login are part of that time. Passwords shorter than 6 bytes
  are refused before anything happens and are left out.
- `Lifecycle` does without `WriteTimeout`, which ends a response and not its handler, and
  takes a query or a body to last as long as it likes up to its deadline. Uploads and
  logins are requests with a body and one query or none.
- `Seed` counts the seed rows of a table as one, and lets an administrator choose any
  texts that are not the defaults in place of edited ones.

## 3. The runs

| Run | Checks | Instance | Shows |
|---|---|---|---|
| `cache` | `TypeOK`, `KeepsLeases` | 2 keys, 2 values, 2 callers, TTL 2 | the lazily cleaned cache implements leases, with Gets split around the unlock |
| `content_reads` | `TypeOK`, `StaleOnlyIfExcused`, `InFlightExcused`, `Convergence` | 2 requests on `/api/content` with two sections, a list and a row, TTL 1 | the only windows in which the cached page is stale, and that it becomes current once writes and failures stop |
| `rate_limit` | `TypeOK`, `WindowBound`, `ForgetsOnlyFull`, `RetryAfterHonest`, `ImplementsBuckets` | 2 addresses, 2 requests, a minute of 6 ticks, 9 requests per minute, cleanup after 6 ticks, Stall 1 | the limiter implements one permanent bucket per address, keeps its bounds, and forgets only what is full |
| `migrate` | `TypeOK`, `ExactlyOnce`, `InOrder`, `KeepsLedger`, `AllGetReady` | 3 processes, 4 files, two of them with the same version | migration keeps the promise of `Ledger`, is exactly once, in order, and ends, under races, crashes and lost answers |
| `migrate_all` | `EveryFileRuns` (violated) | 1 process, the same files, no failures but those that `Run` brings about | finding 3 |
| `seed_race` | `TypeOK`, `SeededWhole`, `EditsKept`, `KeepsPlanting`, `AllGetReady` | 3 processes, 3 tables, 2 default languages and one more | seeding keeps the promise of `Planting`, an administrator's edits survive, every process comes up |
| `replace` | `TypeOK`, `OneGetsThrough`, `WaitsEnd`, `KeepsPromise`, `AllEnd` | 3 replacements of one table, two with both keys and one with one of them, table empty or filled | replacements keep the promise of `Superseding`, never all defeat each other, wait for none that is over, and all end |
| `replace_saved` | `SavedIsStored` (violated) | 2 replacements of the stats, of which there are some already | finding 1 |
| `panel` | `PanelTypeOK`, `UndoneOnlyIfExcused` | 2 panels and a visitor on the side panel, one item, TTL 0 | the only ways in which a save undoes one that was announced before its page was asked for |
| `panel_undone` | `SavedStays` (violated) | 1 panel and a visitor | finding 2 |
| `auth` | `TypeOK`, `OldTokensEnd`, `EffectsJustified` | 2 browsers, 2 passwords and one too long, tokens of 3 ticks, Stall 1 | how long after a change the old password still has effects |
| `lifecycle` | `TypeOK`, `CutOnlyIfSlow`, `SignalEnds`, `ServesOrDeaf` | 2 requests, 4 boot steps, units of 2 s: body 5, query 4, Shutdown 7, Docker 5, requests of 1 and 3 queries | which requests the end of a process cuts off; that it ends when asked, and comes up |

Why the bounds are enough:

- *Requests.* Staleness needs a reader and a writer; either may go on to a second
  request, so that a write can come after a flush that a reader has seen. Sections need
  to be two for a page that mixes old and new. The
  theorems cover what two requests cannot show: fills that overlap several writes, and
  the early return of the languages handler on a failed query, which no run's endpoint
  takes.
- *Panels.* The excuses need a panel that saves, one that shows an older page, and a
  visitor whose GET crosses the flush; one tracked item tells undone from kept.
- *Tokens.* With a lifetime of 3 and a stall of 1 a token can be new, in its life and over
  while a request or a second login that began earlier is under way.
- *Deadlines.* The values are those of the code and of Docker, in units of 2 s and rounded
  so that their order is kept: a body (10 s) is no shorter than Docker's patience (10 s),
  a query (8 s) is shorter, Shutdown (15 s) is longer, and three queries outlast both, as
  the eight of `/api/content` do.
- *TTL.* With TTL 0 (`panel`) an entry lives until the next tick, with 1 (`content_reads`)
  there is a tick in the middle of its life; `cache` takes 2, so that an entry can be young, old and due.
- *Rate.* The burst of 9 per minute is 2, with a remainder, so the integer division
  matters. A tick refills a token and a half: an empty bucket is neither empty nor full
  after one tick, halves of a token add up over two, and windows of 2, 4 and 6 ticks
  reach the bound of `WindowBound` exactly. `CleanupAfter - Stall` is longer than a bucket takes to
  fill, as ten minutes are. A longer cleanup adds states and no new order of events.
- *Processes and replacements.* Two race; the third finds what either outcome of the
  race left behind, and makes a cycle of three waits possible.
- The exact number of ticks beyond `Horizon`, where nothing depends on it, is not
  kept. No run has a state constraint.

Deadlock is checked everywhere but in the two runs of `Replace`, where all requests may
have been answered and nothing is left to do.

### Fairness

- `Content`: weak fairness of `Elapse` only, time passes. No request has to go on:
  `Convergence` holds even if one hangs for ever between its queries and its Set. Once
  the database has stopped changing, a fill that comes late is stale only for a TTL,
  and each request can be late only once.
- `Migrate`, `Seed`: weak fairness of each process's own steps, the start among them.
  The runtime schedules the main goroutine; `restart: unless-stopped` starts the process
  again. Liveness is stated under the premise that failures stop at some time.
- `Replace`: weak fairness of each replacement's own steps. The database executes a
  statement that no lock holds up; its deadlock detector is one of the steps. New
  requests need not come, and failures need not happen.
- `Lifecycle`: weak fairness of what the process and its clients do next (`Works`) and of
  `Tick`. The runtime schedules main and the handlers, Docker restarts, and deadlines
  end what does not end by itself. Requests, failures and signals need not come.
- `TTLCache`, `RateLimit`, `AdminPanel` and `AdminAuth` have safety properties only.

## 4. The proofs

All theorems are proved with TLAPS for every value of the constants that satisfies
the assumptions of the modules: any number of requests, keys, addresses,
transactions, panels, browsers and processes, any bodies, files, tables, rate, TTL,
deadlines and lifetime of tokens. The assumptions are named in the modules (`TTLAssumption`,
`EndpointAssumption`, `ValueAssumption`, `RateAssumption`, `BodyAssumption`,
`VersionsAssumption`, `InsertsAssumption`, `PanelAssumption`, `AuthAssumption`,
`LifecycleAssumption`) and the runs evaluate them. Where a theorem assumes more, the table
says so.

| Theorem | States | Argument |
|---|---|---|
| `CacheTypeOK`, `CacheKeepsLeases` | `TypeOK`; the refinement of `LeaseMap` | type invariant; an entry's `left` becomes the lease's `age`, expired entries map to nothing, so `Evict` is a stutter and `Elapse` is `Pass` |
| `ContentTypeOK` | `TypeOK` | a cached entry has as many results as its endpoint reads; what a request has read is no longer than that |
| `ContentStaleOnlyIfExcused` | `StaleOnlyIfExcused`, `InFlightExcused` | neither is inductive alone: a `Fill` makes the request's private results public, so what is in flight needs an excuse of the same kind, and `Flush` turns the excuse "a flush is owed" of what is in flight into "a flush has crossed it" |
| `ContentUsesCache`, `ContentServesLeases` | `Spec => C!Spec`, so `Spec => C!KeepsLeases` | a request's copy of an entry is there only while it is in its lookup, so each step of a handler is one of `TTLCache` or leaves it alone; the theorem of `TTLCacheProofs`, instantiated, does the rest |
| `PanelsAreClients`, `PanelStaleOnlyIfExcused` | `PanelSpec => Spec`, so `StaleOnlyIfExcused` with panels | every step of a panel is one of a client of `Content` |
| `RateLimitTypeOK`, `RateLimitForgetsOnlyFull` | `TypeOK`, `ForgetsOnlyFull` | a limiter is debited before its client was last seen or at most `Stall` ticks after (`LagBound`), so one whose client has been silent for longer than `CleanupAfter` is in no request's hands and has had time to fill up |
| `RateLimitImplementsBuckets` | the refinement of `TokenBucket` | from `LagBound`, an entry removed by the cleanup has had `CleanupAfter - Stall` ticks since its last debit, in which it filled up, so that its absence, which maps to a full bucket, is the same |
| `RateLimitWindowBound` | `WindowBound` | tokens taken plus tokens left never exceed what was there plus what came in (`Conserved`), proved of the mapped bucket |
| `RateLimitRetryAfterHonest` | `RetryAfterHonest`, for rates of 4 and more and if a minute less `Stall` refills a token | by `LagBound` the limiter has had at least a minute less `Stall` since its last debit |
| `RateLimitBelowFour` | nobody is ever admitted, for rates below 4 | the burst is 0 |
| `MigrateTypeOK`, `MigrateExactlyOnce`, `MigrateInOrder` | the three invariants of `Migrate` | a transaction that has inserted its version is the only one that has, and the version is not recorded (`Exclusive`); all that a process has passed is recorded (`Passed`), so that lower versions are when it commits |
| `MigrateKeepsLedger` | the refinement of `Ledger` | a commit whose version is not recorded is `Apply`: by `MigrateInOrder` lower versions have been reached; a process gets ready only after all files are recorded; all else is a stutter or a `Stop` |
| `MigrateEveryFileRuns` | `EveryFileRuns`, if no two files have the same number | what a process has passed is recorded (`Passed`), and of a recorded version a file has run, which can only be that one |
| `SeedTypeOK`, `SeedSeededWhole`, `SeedEditsKept` | `TypeOK`, `SeededWhole`, `EditsKept` | a transaction that is not aborted has inserted into every table it has come past (`Seeding`), so a commit fills all; at most one has inserted the row of site, and then the database is empty; before the seed there are no languages and nobody serves (`Unseeded`), so the seed overwrites no edit |
| `SeedKeepsPlanting` | the refinement of `Planting` | who commits has found no rows, no languages and nobody serving (`Seeding`, `Unseeded`), so its commit is `Plant`; an `Add` is `Complete` or, if the language has come in between, a stutter |
| `AuthTypeOK`, `AuthOldTokensEnd`, `AuthEffectsJustified` | the three invariants of `AdminAuth` | a matching login's password was the stored one when the hash was read (`LoginsRecent`); a request under way began in the token's life (`RequestsRecent`); the stored password has not retired (`StoredNow`) |
| `PanelTyped`, `PanelUndoneOnlyIfExcused` | `PanelTypeOK`, `UndoneOnlyIfExcused` | see below |
| `ReplaceTypeOK`, `ReplaceKeepsPromise`, `ReplaceWholeBodies` | `TypeOK`; the refinement of `Superseding`; the table is made of whole bodies | see below |
| `ReplaceOneGetsThrough`, `ReplaceWaitsEnd` | `OneGetsThrough`; `WaitsEnd`, for finitely many writers | see below |
| `LifecycleTypeOK`, `LifecycleCutOnlyIfSlow` | `TypeOK`, `CutOnlyIfSlow` | while the process drains, what a request has left and the time since the signal never add up to more than was due (`DrainKept`); what is left is never negative, since no stage outlives its deadline (`StagesKept`), so one that is cut off was due for as long as it was given |

*Replacements.* The inductive invariant `Inv` of `ReplaceProofs` says, besides the types:
open transactions have deleted disjoint sets of rows; every set of rows in sight —
the table, a snapshot, what a transaction has deleted — holds all of a writer's rows or
none; a writer has no rows before its commit; and of the rows that were there when
w began, those still there are in its snapshot, and from the DELETE on among the ones it
has deleted. A commit then removes all older rows, and what survives it is a union of
whole bodies, which are the witness for `Supersede`. A transaction that ends
without effect is a `Fail` of the promise at the moment its caller learns of it.

That they never all defeat each other needs two more invariants. `Untouched`: as long as
nothing else has gone wrong and nobody is saved, every DELETE has found the whole table,
so that a primary key can be taken only by a row that somebody has saved since.
`OneNotRefused`: somebody is neither refused nor failed. Its step: who is refused for a key
leaves that one who saved it; who is chosen to break a cycle leaves the one that blocked it,
which goes on (`BlockersWork`, from the types: what is over blocks nobody). That waits end
is no matter of history: in every state of the right types each of those that w waits for has
its rows and goes on or waits itself, and the sets `WaitsFor(q)` of those q, being finite, have
a smallest one; its q can go on, or is in it, or waits for one whose set were smaller.

*Panels.* The inductive invariant of the panels in `ContentProofs` follows an announced edit from the
database to the next body. `Shared`: it is in the database, in every cached result that
is not tainted, and in everything that was read and that no flush has crossed.
`Reliable(p)`: what p relies on is in what p has been given, in the page it shows, and in
the body it puts back. A PUT flushes before it is announced, so that what was read
before it counts as crossed; that is the step in which the proof needs the order of
`adminPUT`. The proof cites the step lemma of `ContentTypeOK`, since
every step of a panel is one of `Content`.

Only model-checked: liveness (`Convergence`, the two `AllGetReady`, `AllEnd`, `SignalEnds`,
`ServesOrDeaf`), because it needs fairness and ENABLED, which are outside the prover's reach.
Every invariant and every action property that a passing run checks is also proved, and so
is every refinement. No recursive definition is used in any module.

## 5. Findings

1. **Two overlapping saves of a list leave both lists** (`replace_saved`,
   `repository.go:274`). The DELETE that waited for the other transaction does not see the rows
   that one inserted; both requests are answered 200. `KeepsPromise` is what does hold.
2. **A panel undoes its own save** (`panel_undone`, `repository.go:225`). `GetSidePanel`
   turns a failed query into a disabled panel without channels and without an error; the
   reload after "✅ Side panel saved" shows it, and the next save stores it. The run
   `panel` names the two other ways: the reload finds an entry that a GET had read before
   the flush and stored after it, or it fails and the editor goes back to the state
   before the save. `UndoneOnlyIfExcused` is what does hold.
3. **A migration whose number is taken is skipped** (`migrate_all`, `migrate.go:37`). `Run` says
   that it "applies all pending *.up.sql migrations". Of two files with one number the
   second is refused by the primary key, which ends the first start; the next start finds
   the number recorded, skips the file and serves. `EveryFileRuns` holds if all numbers are
   different (`MigrateEveryFileRuns`).

Seen, and not runs of their own:

- A body that cannot be read empties the section: the error of `readBody` is ignored
  (`handlers.go:44` and its callers), so a PUT that was cut off stores the zero value (`Decode`),
  is answered 200, and the panel says "✅ Stats saved" (`admin.html:147`).
- Two panels that have both loaded lose the update of the one that saves first. What is
  announced after a page was asked for is not among what `UndoneOnlyIfExcused` protects.
- A minute admits up to a quarter more than `RATE_LIMIT_PER_MIN`, which
  `src/README.md:84` calls the requests per minute; `WindowBound` is what holds.
- With `RATE_LIMIT_PER_MIN` from 0 to 3 the burst is 0 and no API request is ever admitted;
  `RetryAfterHonest` fails there (`RateLimitBelowFour` proves that nobody is admitted).
- A deleted default language comes back at the next start (`service.go:112`), though the
  panel says "This cannot be undone." (`admin.html:553`). `MigrateLanguages` does not look at
  the result of its INSERT either.
- `ChangePassword` answers 200 when the update fails, and stores an empty hash, with
  which nobody can log in, for a password above 72 bytes (`handlers.go:159`).
- "You'll need to log in again after changing it." (`admin.html:475`) is not so: the
  token stays good. `OldTokensEnd` bounds for how long.
- Changing the tab before a save discards what was typed in the editor
  (`Rerender`).
- Docker's patience of 10 s is less than the 15 s that `main.go` gives `Shutdown`, so of a
  stop under load the code's own limit is never reached (`CutOnlyIfSlow` counts
  with the smaller).
- After a failed `ListenAndServe` the process stays up and serves nothing until someone
  stops it (`ServesOrDeaf` names it as the only such state).

## 6. Plan

Done: the cache; the content API on top of it; the rate limiter; migrations and
seeding; the replacing transactions; the admin panel on top of the content API;
authentication; the life of a process; the proofs of all their safety properties; the
promises `LeaseMap`, `TokenBucket`, `Superseding`, `Ledger` and `Planting` and the proofs that they are kept.

Next:

1. The list sections in `AdminPanel`, where two overlapping saves leave a mixture.
2. The pool: requests that hold a connection each, and the crowd of misses after a flush.

## 7. Not modelled

- *Image upload*: it writes one file under a random name and shares nothing with other
  requests. That a file which was cut off is answered with its URL is seen at the line
  (`handlers.go:200`).
- *A negative `RATE_LIMIT_PER_MIN`*: `getInt` lets it through; `RateAssumption` does not.
- *The clock reading of `Allow`*: the library reads the clock before it takes the limiter's
  lock, so readings can be used out of order. They are nanoseconds apart; in ticks large
  enough to model a minute each would be worth several tokens, which is not so.
- *Configuration and pool* beyond their boot steps: values read once, and `database/sql`.
- *CORS, security headers, gzip, logging, the public page*: nothing is kept between
  requests. `cmd/server/middleware.go` is not installed by `main.go`.
- *Vendored libraries*, but for the token bucket, are taken as the program uses them.
