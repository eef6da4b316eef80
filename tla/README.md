# Guest Management: a TLA+ model of the back end

Specifications, model-checking configurations and proofs for `guest-management-be`, a Go
service that manages event categories: HTTP handlers (chi) over a service, over a repository
with two decorators (soft delete and audit columns; a Redis cache), over PostgreSQL.

Paths are relative to the repository; `go-sdk` is a library that the repository uses and does
not contain.

## 1. The system

| Part | State it keeps | Operations | Where |
|---|---|---|---|
| Event-category service | none of its own; each request holds an entity between two calls | `Create`, `GetByID`, `Update`, `Delete`, `List` | `internal/features/events` |
| Audit decorator | none | stamps `created_at`, `updated_at`, `deleted_at`; hides soft-deleted rows | `internal/core/audit` |
| Cache decorator (go-sdk) | Redis: one entry per id, with a TTL | read-through `GetByID`; invalidates (`write_around`) or re-fetches (`write_through`) after a write | installed in `internal/core/repository/base.go` |
| Table `event_categories` | the rows; CHECK of the source/tenant rule; foreign key to `tenants` with ON DELETE CASCADE | INSERT, whole-row UPDATE by id, SELECT | `migrations/000004` |
| List queries | none; a client that pages keeps its place | parse `page`, `size`, `sort`, filters; compute limit and offset; count and select | `internal/core/query`, `listParamsToListOptions` |
| Cache policy, composition root | the configuration; which repository was wired | `Validate`, `ToOptions`, `NewRepository`, `Initialize` | `internal/core/repository/cache_config.go`, `internal/app`, `internal/config` |
| Process | open resources, the server goroutine, the channel `serverErr`, signals | start, serve, drain, force, close | `cmd/api/main.go` |
| Validation adapter | none | `required`, `oneof` on request bodies | `internal/core/validation` |
| Schema, migrations | tables and the version of the schema | up, down, force | `migrations`, `scripts/migration.mk` |
| Observability, Swagger, Docker | none | | `docker`, `api/swagger` |

**How they interact.** A request runs in a goroutine of its own: handler → service → cache
decorator → audit decorator → SQL. All of these are calls; what requests share is the table and
the Redis keyspace, and no lock, transaction or row version connects two calls of one request.
`Update` reads (through the cache), merges, stamps and writes the whole row. `Delete` goes
through the audit decorator, which reads the row from the table, stamps it and calls the inner
`Update`. Both leave room for other requests between their read and their write, and between
their write and the refresh of the cache. A `List` does not use the cache: it is two SQL
statements, a count and a page, each of which sees the table at its own moment, and a client that
wants the whole list sends one such request per page. `main` validates the configuration first
and hands it on to the composition root last, after three resources were opened.

**What is hard.** Overlapping read-modify-write sequences; cache fills and invalidations that
pass each other; an error or a crash between the commit and the invalidation; tombstones, which
only the audit decorator knows and which stand *below* the cache; a tenant that goes away while
its categories are being updated; pages by offset of a table that shifts between two of them, and
an offset that overflows; a configuration judged by one function and used by another; and, in the process, a server error that races a timer, a
signal that races a server error, and a drain that does not end. `PROJECT.json` lists each such
hazard at its line.

**What makes each part correct.**

- *Service, audit, cache, table together*: requests that follow one another cannot notice the
  cache; overlapping ones see committed versions only; soft-deleted categories are neither cached
  nor shown; whatever is stored or shown obeys the source/tenant rule; the audit columns agree;
  ids are never reused and rows never come back; a 404 is never a lie; staleness ends.
- *List*: an undisturbed answer agrees with the table; in a total order deletions alone repeat no
  row and insertions alone hide none; parser and query agree on the size.
- *Cache policy*: what was validated is what is wired; a configuration that validates starts.
- *Process*: nothing is closed under a request that still has time, nothing is left open, the
  process ends when told to.
- *Schema*: what a cascade removes, no restriction protects.

## 2. Modules

| Module | What it is |
|---|---|
| `EventCategories` | the data: categories, requests, validation, the source/tenant rule, merge, stamping |
| `CategoryService` | **the core**: requests, cache and table, one action per step; its properties |
| `CategoryStore` | the abstract specification: a table on which each request acts at one instant |
| `CategoryRefinement` | `CategoryService` implements `CategoryStore`: the refinement mapping |
| `CategoryHistory` | `CategoryService` with history variables: what was committed, what was live while a request ran |
| `CategoryDeletes` | `CategoryService` with history variables: what was acknowledged as deleted |
| `EventCategoriesProofs`, `CategoryServiceProofs` | theorems about `CategoryService`, checked by TLAPS; the first has the lemmas on the data, which `ListProofs` uses too |
| `CategoryHistoryProofs` | theorems about `CategoryHistory` and `CategoryDeletes`: what answers show of the past |
| `CategoryRefinementProofs` | the theorem that `CategoryService` implements `CategoryStore`, step by step |
| `ListQuery` | parser, list options, soft-delete filter and the meaning of the SQL, as functions |
| `CategoryList` | a client that reads the list page by page, over a table that others change |
| `ListWalk` | `CategoryList` with history variables: what one walk has shown, and what the writes did meanwhile; its properties |
| `ListOrderProofs` | what `ORDER BY`, `LIMIT` and `OFFSET` return, as `ListQuery` models them: an order and its windows |
| `ListProofs` | theorems about the parser and about `ListWalk` |
| `Lifecycle` | `main`, `startServer` and `gracefulShutdown` |
| `LifecycleProofs` | theorems about `Lifecycle` |
| `Startup` | `Lifecycle` composed with the configuration: validation, wiring, which repository is built |
| `StartupProofs` | theorems about `Startup`, and that it implements `Lifecycle` |
| `MCInputs`, `MC*` | constants for TLC, nothing else |

### CategoryService

The state:

| Variable | Code |
|---|---|
| `rows`, `tenants` | `event_categories` by id, and the tenants it may reference |
| `cache` | the Redis entry of each id |
| `clock` | what `time.Now` returns |
| `issued` | ids that `uuid.New` has returned |
| `pc[r]` | the call that request `r` makes next |
| `req[r]` | method, id and body of the request |
| `held[r]` | the `*EventCategory` in the service's hands; the response body after the answer |
| `fill[r]` | what the cache decorator is about to store under the key; `None` deletes the key |
| `status[r]` | the HTTP status of the answer |

A request advances by one step per call that leaves the process, because other requests run in
between:

```
GET     [CacheHit | CacheMiss]  Read...  [Fill]                                        200, 404
PUT     [CacheHit | CacheMiss]  Read...  [Fill]  StampUpdate  WriteBack  [Refetch] [Refresh]
DELETE                          Read...          StampDelete  WriteBack            [Refresh]
POST                                             StampCreate  Insert     [Refetch] [Refresh]
```

Steps in brackets exist with the cache decorator only, `Refetch` with `write_through` only.
What happens between two calls is part of the step: validating and checking the rule is part of
arriving (`Reject`, `Accept`, `AcceptCreate`), merging is part of stamping. Stamping has a step
of its own because its clock reading precedes the write.

The faults, chosen by the constant `Faults`:

| Fault | Meaning |
|---|---|
| `db_error` | the database fails a read or a write without effect, or the request's context ends there |
| `lost_reply` | the database commits the write and its answer does not arrive |
| `cache_error` | Redis fails: the decorator goes on without it or returns the error (both are allowed) |
| `crash` | the process dies with requests in flight; table and keyspace survive |
| `tenant_drop` | a tenant is deleted and its categories with it |

`Expire`, the TTL, can happen at any time and is not a fault.

Simplifications. Whatever the boundary refuses, a malformed UUID in the path, a body that does not decode, an
unknown source, is a request with source `"other"`, or a POST without a required field. Ids are fresh (`uuid.New`), so that 409 does not
occur. A `List` changes no state and has modules of its own. Logging is left out.

### What is assumed of go-sdk

The library is not in the repository; these assumptions are what its use here and the
documents (`docs/CONFIGURATION.md:113-116`, `docs/PATTERNS.md`) say, and they are the part of the
model that a reader should compare with the version in use:

- the cache decorator reads through (`GetByID`: Redis, then the inner repository, then a fill),
  does not cache `ErrNotFound`, and touches the key after the inner write returned without error;
- `write_around` deletes the key; `write_through` re-reads through the audit decorator and stores
  the result; `write_behind` falls back to `write_around`; `Delete` always deletes the key;
- the SQL repository's `Update` writes every column of the entity. `AuditableRepository.Delete`
  relies on it: it persists `deleted_at` through that `Update`; it returns `ErrNotFound` if no row
  has the id;
- the cache decorator passes `List` on; the SQL repository's `List` runs one COUNT and one SELECT with
  the same WHERE, in either order, and fails if one fails (`SkipCount` is never set here);
- a violated constraint is `ErrInvalidEntity` or another error (422 or 500 on create: both);
- time does not go back; it may stand still between two readings;
- `logger.Fatalf` exits the process, `logger.Panicf` panics.

### Lifecycle

`main` says what `main()` does next; `serve` is the goroutine of `startServer`; `serverErr` is the
number of errors in its channel; `conn` is the state of each connection, those of `http.ConnState`: accepted
and silent (`new`), with a handler running (`active`), kept for another request (`idle`), or `closed`.
`Shutdown` closes the idle ones; a connection accepted before it may still send its request during the drain, and
the drain waits for it. `server.Close`, after the timeout, closes all connections and stops no handler.
That net/http keeps these promises is assumed: the narrow races inside it (a connection that is accepted, or whose
next request arrives, at the very moment `Shutdown` looks) are left out.
`resource` and `deferred` are what is open and the stack of deferred closers. Every startup step
may panic, and the panic runs the closers deferred so far; `log.Fatalf` runs none. The `select` in
`startServer` may prefer its timer to an error that is already there. An interrupt is caught while
`signal.NotifyContext` is in force, that is while main serves or drains; before and after it kills
the process, as SIGTERM, which is not registered, and SIGKILL do at any time.

### ListQuery, CategoryList, ListWalk

`ListQuery` follows one query string through `ParseListParams` (`Parses` is "no error",
`ParseListParams` the value), `listParamsToListOptions` and the decorator's `appendSoftDeleteFilter`
to the `ListOptions` that reach SQL. Integers have their width: `MaxInt` is a constant and `Wrap` is
two's complement, so that `Offset` overflows as in Go. `Selected` is ORDER BY, LIMIT, OFFSET: rows that
the sorts do not separate come in the order of a plan that each SELECT chooses anew.

`CategoryList` has one client. `Begin` and `Continue` send a request (`Refused`: 400; `Accepted`), `Count`
and `Select` are its statements, in either order, `Answer` and `DbError` its end. The client goes on
after a full page, stops after a short one, and after a 500 asks for the same page again or gives up.
`Others` are the writes that other requests commit (`Insert`, `Put`, `SoftDelete`) and the cascade of a
tenant (`DropTenant`), at any moment. `versions` keeps the live entities that each row has ever been, because a PUT
or DELETE in flight may hold any of them and writes all of its columns: such a write may put back another one's
field, clear a `tenant_id`, or bring a soft-deleted row back, as findings 2 and 3 say. No id is drawn
twice. Which tenants exist is left out, so that the others may do a little more here than in `CategoryService`.

`ListWalk` adds history: the rows that matched when the walk began, those shown so far, whether one was
shown twice, and what the writes did since: `grew` (a matching row appeared), `shrunk` (one went), either
if a column of the sort changed. The properties need a sort by `id` among the sorts (`TotalOrder`),
because without it no promise is possible.

What the model shows beside them: a page number that overflows is refused with 500 when the offset wraps
below zero and shows *the first rows* when it wraps to a small number (page 2^58 + 1 of 64 rows at 64
bits), which `AnswerConsistent` therefore excludes by `InRange`; finding 6. A `tenant_id` that is no UUID is
answered with 500. `total` and the page may disagree by the writes between the two statements.

### Startup

`config` is the configuration as far as the startup looks at it, `repo` the repository that
`NewRepository` returned. The actions are those of `Lifecycle`, restricted by the configuration:
`Validated` needs `Validates`; `Panics` lets Initialize fail only where `ToOptions` does; `Wired`
sets `repo`. Files that are missing and resources that are down may still stop any step.
Redis is opened whether or not the cache is enabled.

## 3. What TLC checks

| Run | Module, bounds | Properties | Shows |
|---|---|---|---|
| `overlap` | `MCCategoryService` with fairness: 2 slots, 1 id, 1 tenant, `MaxClock` 1, `write_through`, all faults | `TypeOK`, `TombstonesStayHidden`, `RuleHoldsWhereVisible`, `AuditTrail`, `RowIdentity`, `StalenessEnds` | the safety of overlapping requests, and that the cache ends up agreeing with the table after the last write (360 000 states) |
| `seen` | `MCCategoryHistory`: 2 slots, `write_around`, all faults, writes that the table refuses | `OnlyCommittedIsSeen`, `NotFoundIsTrue` | what answers and the cache can show (580 000 states) |
| `sequential` | `MCCategoryRefinement`: 1 slot, every kind of request, `write_through`, `db_error`, `MaxClock` 2 | `ServesAtomicStore` | requests one after another cannot tell the service from an atomic table |
| `deletes` | `MCCategoryDeletes`: 2 slots, no cache, no PUT, all faults | `AcknowledgedDeleteHides` | deletion alone is final |
| `lifecycle` | `MCLifecycle`: 2 connections, every combination of good and bad settings | `TypeOK`, `ClosedOnlyWhenDrained`, `NothingLeaks`, `ServesAsConfigured`, `ShutdownCompletes`, `EnabledCacheStarts` | the whole life of the process, from its configuration (12 000 states) |
| `walk` | `MCListWalk`: 3 ids, 1 tenant, 2 names, 16 queries, a 16-bit int, `MaxClock` 0 | `TypeOK`, `NothingTwice`, `NothingMissed`, `AnswerConsistent` | reading the list by pages (420 000 states) |
| `stale_get` | as `deletes`, with the cache | `AcknowledgedDeleteHides` **violated** | finding 1 |
| `resurrection` | as `deletes`, with PUT, no cache | `AcknowledgedDeleteHides` **violated** | finding 2 |
| `lost_update` | 2 slots, no cache, no fault | `OnlyProvidedFieldsChange` **violated** | finding 3 |
| `rule_break` | 1 slot, no cache, no fault | `RuleBreakIsClientError` **violated** | finding 4 |
| `page_overflow` | as `walk`, 1 id | `PageIsNumbered` **violated** | finding 6 |
| `disabled_cache` | `MCLifecycle`, the cache disabled | `ValidConfigStarts` **violated** | finding 5 |

**Why the bounds are enough.** Requests about different ids share no state but the tenants, so one
id has all the races. Slots are reused: two slots let any two requests overlap and a third follow
either; the races below need two. `MaxClock = 1` gives two time stamps: enough for "before" and
"after", and equal stamps are included. The sequential run has 2, so that a create, an update
and a delete can all differ. A request that finds no stamp left waits, as the bound on the clock is
in `TimeNow`'s guard; slots go on with other requests. Inputs are chosen per run (`MCInputs`): `Moving` has
a category created as the app's, moved to a tenant, deleted, and the move back that breaks the
rule; `OneMove` lacks the move back, and its move to a tenant is refused where the tenant does not exist, at the
beginning or after its deletion; `OneKind` has one kind of category and a renaming. Symmetry on slots is used where
no liveness is checked. The runs divide the two strategies: `overlap` and `sequential` have `write_through`, which
has every step of `write_around` and the refetch; `seen` and `stale_get` the default. The theorems below are for both.

`walk`: three rows and pages of one or two give walks of up to four pages and every shift of a
page by one or two rows. A 16-bit `MaxInt` lets a page and a size that the parser accepts overflow in both
ways (pages 513 and 1025 of 64 rows); the theorem below is for every width. Time stands still, as the
queries of the run sort by id and name only. The PUTs go to one row, which is renamed and named back
by a PUT that provides nothing and holds the old copy; the other two come, are deleted and go. A walk follows another, never beside it: walks share nothing
but the table, which `Others` change anyway. No write is taken while the client has its whole list: such
a write is one before the next walk. Rows on a page are a set: what the properties ask is which rows a
page has. A client that stopped by `total` instead would see what `NothingMissed` says only if no
row were added between the count and the page.

**Fairness.** `FairSpec` of `CategoryService` assumes that a request in flight takes its next step
(goroutines are scheduled, calls end by an answer, an error or a timeout) and that Redis drops an
entry in time. The second is the TTL, which `CacheConfig.Validate` requires to be positive.
Nothing is assumed of clients, faults or tenants. `FairSpec` of `Lifecycle` assumes that both goroutines are scheduled
and main's timers fire; not that a handler ever ends, that a client comes or that a signal arrives, nor that a
deferred closer returns: `tr.Shutdown(context.Background())` (`main.go:71`) has no deadline and `db.Close` may wait
for a query. `ShutdownCompletes` therefore brings main to its closers (`Closing`), and to its end when none is left.
`Lifecycle` does not check for deadlock: the process ends.

**Mutants.** Every property of a passing run has a mutant, a definition with a plausible bug
(`\* Mutant:` in the modules) that stands before the definition it replaces: a soft-delete test
that sees nothing, a CHECK that is missing, an upsert instead of an update, an unbuffered channel,
and so on. TLC finds the property violated with the mutant in place.

### Findings

1. **A GET may answer 200 after an acknowledged DELETE, with the cache** (`stale_get`). A GET misses, reads
   the live row; a DELETE commits, deletes the key, answers 204; the GET fills the key with
   what it read. Until the TTL ends (5 minutes by default) every GET shows the deleted category.
   `category_service.go:91` and `docs/FEATURES.md:53` say soft-deleted rows are not returned.
2. **A PUT may bring a deleted category back, without the cache** (`resurrection`). The PUT read the live row before the
   DELETE and writes the whole row after it, `deleted_at` NULL included. No TTL heals this.
3. **Overlapping PUTs lose updates** (`lost_update`). `docs/FEATURES.md:28`: "On update (partial), only
   provided fields change"; the whole-row write also changes fields that another PUT
   set in between.
4. **PUT answers 500 when the merged record breaks the source/tenant rule** (`rule_break`).
   `docs/FEATURES.md:28` says the rule re-applies to the resulting record, as it does in `Create`
   with a 400; `Update` leaves it to the CHECK of the table and translates the error to 500.

5. **A disabled cache can stop the startup** (`disabled_cache`). `CacheConfig.Validate` accepts any
   strategy when the cache is disabled, "since TTL/Strategy are meaningless in that case"
   (`cache_config.go:34-35`); `ToOptions` resolves the strategy all the same, `Initialize` returns its error
   and main panics, with tracer, database and Redis open.
6. **A huge page number shows the first rows** (`page_overflow`). `(page - 1) * size` overflows; for page
   288230376151711745 of size 64 it is 0 in 64 bits. `list.go:65` calls `page` a "1-based page number". The model has
   the same at 16 bits, page 1025 of 64 rows.

## 4. What is proved

`CategoryServiceProofs` proves, for any sets of ids, tenants, names and slots, any inputs, any
strategy, cache or no cache, any faults and any bound on the clock:

| Theorem | Property |
|---|---|
| `TypeCorrect` | `Spec => []TypeOK` |
| `TombstonesHidden` | `Spec => []TombstonesStayHidden` |
| `RuleHolds` | `Spec => []RuleHoldsWhereVisible` |
| `AuditTrailHolds` | `Spec => []AuditTrail` |
| `RowIdentityHolds` | `Spec => RowIdentity` |

The assumptions are the named ones: `MaxClock` is a number; `None` is no name, id, tenant, stamp,
HTTP status or entity; inputs are well-typed and exactly a POST comes without an id.

The argument. `TypeOK` is not inductive: that a request which stamps or writes holds an entity
depends on the step it has reached. `Control` says for each step what the request is like
there (`StepOK`), and `TypeInv == TypeOK /\ Control` is inductive. The other properties speak of
values that travel: from a row to a copy, to the cache, to another copy, back to the row. One lemma,
`StepFlows`, goes through all actions once and says where each new value comes from (`RowFlow`,
`CacheFlow`, `FillFlow`, `HeldFlow`); every invariant then follows from the flows without looking at
actions again.

- `TombstonesStayHidden` is inductive with `TypeInv`: what is filled is live, and a fill, a hit
  and an update keep `deleted_at`.
- `RuleHoldsWhereVisible` needs `RuleInv`, which covers copies on their way and excepts the entity
  at the step "write", the only one that may break the rule; the CHECK stops it there.
- `AuditTrail` needs `TombstonesStayHidden`: an update restamps `updated_at` alone, so it
  would separate `deleted_at` from `updated_at` if it could hold a tombstone.
- `RowIdentity` needs `BirthInv`: until the POST that drew an id has committed, nobody else has a
  copy of a row with that id, and afterwards all copies, cached ones included, were born when the
  row was. This is why an update with a stale copy cannot move `created_at`. `IssueFlow` says how ids
  are drawn.

A second lemma, `StepAnswers`, does the same for the course of each request: it rests, arrives, goes
on or is answered, and an answer says from which step and over which row it was given.

`CategoryHistoryProofs` proves what answers show of the past, over the modules with history variables:

| Theorem | Property |
|---|---|
| `OnlyCommittedSeen` | `SpecHistory => []OnlyCommittedIsSeen` |
| `NotFoundIsTrueHolds` | `SpecHistory => []NotFoundIsTrue` |
| `DeletionIsFinal` | `DeletionAlone` implies `SpecDeletes => []AcknowledgedDeleteHides` |

The first two have no hypothesis: any strategy or no cache, any faults. `DeletionAlone` says that there is no
cache and that nobody sends a PUT. Both halves are needed, as findings 1 and 2 show; the run `deletes` has the same
bounds.

- `OnlyCommittedIsSeen` looks at requests that are done. `CommittedInv` says it of every copy, cached, on its
  way or held, except at the step "write": there alone an entity is in somebody's hands that was never committed.
  It needs that a held entity which leaves "write" without an answer is the row (`HeldFlow`).
- `NotFoundIsTrue` needs `LiveInv`: as long as a request counts its row as live, the row is live *now*;
  so an answer 404, given over a row that is missing or deleted, ends that.
- `AcknowledgedDeleteHides` needs three invariants. `Deleting`: whoever is about to write at a DELETE holds a
  tombstone. `~Unborn(id)`, from `BirthInv`: no POST is left that could insert the id again. `~Live(rows[id])` for
  every acknowledged id, which the first two keep true.

`CategoryRefinementProofs` proves the refinement that the run `sequential` checks:

| Theorem | Property |
|---|---|
| `ServiceImplementsStore` | `Sequential` implies `Spec => ServesAtomicStore` |

`Sequential` is one request at a time and no fault but database errors, for any inputs, either strategy or
no cache; findings 1 to 3 show that overlapping requests are not atomic, and a lost reply or a Redis error
lets a later request see the difference. The invariant `SeqInv` says what the one request knows: its copy
is the row (`UpToDate`), or at "write" what the store would make of that row at some time not before
the row's last (`Proposed`); and a cached entry is the row, but for the id whose write has been committed
and whose refresh is to come (`CacheBehind`). With it each action is matched: an arrival is `Call` or
`Refuse`, a commit `Create`, `Update` or `Delete`, its answer `Finish`, the answer of a reader `Find` or
`NotFound`, an error `Fail`, and every other step, the cache's included, a stutter.

`LifecycleProofs` proves, for any number of connections and without assumptions:

| Theorem | Property |
|---|---|
| `TypeCorrect` | `Spec => []TypeOK` |
| `ClosedOnlyWhenDrainedHolds` | `Spec => []ClosedOnlyWhenDrained` |
| `NothingLeaksHolds` | `Spec => []NothingLeaks` |

`ClosedOnlyWhenDrained` speaks of closed resources only and is not inductive. `CloseInv` adds what
holds from the end of the drain on, `Quiet`: no connection can come and none is left that may send a request, and no
request is in flight unless the drain was given up; and that a panic of the startup comes before any server exists. For
`NothingLeaks`, `LeakInv` adds that every open resource is somewhere on the stack of deferred
closers and that main ends by itself only when the stack is empty; one lemma, `FrontFacts`,
says what popping a closer leaves.

`StartupProofs` proves, for every configuration:

| Theorem | Property |
|---|---|
| `ImplementsLifecycle` | `SpecStartup => Spec` of `Lifecycle`: its theorems hold here too |
| `ServesAsConfiguredHolds` | `SpecStartup => []ServesAsConfigured` |
| `EnabledCacheStartsHolds` | `SpecStartup => EnabledCacheStarts` |

The invariant says of each step of `main` what has been validated and what is open by then: from
the tracer on the settings of the cache are valid, `init` has Redis open, and a bound server has its repository.

`ListProofs` proves, for finite sets of ids, any table, queries and writes, and any width of int that holds
100:

| Theorem | Property |
|---|---|
| `ParserAndServiceAgree` | what the parser lets through: page positive, size in 1..100, limit equal to the size reported, offset an int |
| `TypeCorrect` | `SpecWalk => []TypeOK` |
| `NothingTwiceHolds` | `SpecWalk => []NothingTwice` |
| `NothingMissedHolds` | `SpecWalk => []NothingMissed` |
| `AnswerConsistentHolds` | `SpecWalk => []AnswerConsistent` |

They rest on the lemmas of `ListOrderProofs`, which are about the SQL as `ListQuery` models it, not about the Go
code: `PageIsWindow` says that what one SELECT returns, over any table, any sorts and any order among ties, has
min(`limit`, matching - `offset`) rows, that at most `offset` others come strictly before a row of it and that at
least `offset` others do not come after it.

`Before`, the requested order refined by the plan, is a strict total order on the rows (`BeforeTotal`,
`BeforeIrreflexive`, `BeforeTransitive`; the first column on which two rows differ is found by
well-foundedness, `FirstDifference`). So the ranks of *n* matching rows are 0 to *n* - 1, each once: ranks are
injective and below *n*, and an injection between finite sets of one size is onto (`RanksFill`). A window of
such ranks has the size that `Window` computes.

`AnswerConsistent`, which speaks of pages whose end an int holds (`InRange`), follows from `QuietInv`: until a write comes, `total` is still the number of matching rows
and `items` still a selection from the table.

The argument for `NothingTwice`. The *place* of a row is how many matching rows precede it. When the
sorts leave no tie, the rank that a SELECT gives a row is its place, whatever the plan (`RankIsPlace`). A
write that adds nothing and moves nothing can only lower places (`PlaceShrinks`). `TwiceInv` says that rows
already shown and still matching lie below the offset of the page in progress (`SeenBefore`), and rows on the
page below its end (`PageAfterSeen`); so the page, which starts at the offset, has none of them, and
the next page starts where this one ends (`NextPage`). No assumption on the range of pages is needed:
one step of at most 100 rows can overflow the offset only to below zero (`WrapNext`), and such a page is refused.

The argument for `NothingMissed` is its dual. `MissInv` says, of a walk from page 1 that no write has taken a
row from: the rows of the beginning still match (`StartStays`), those not yet shown lie at or beyond the
offset of the page asked for (`RestAfterSeen`), and once the page is selected either all of them are on it
or it is full and the others lie beyond its end (`RestAfterPage`). That a row beyond the page makes
it full is where the ranks have to fill an initial segment (`AfterPage`, from `PageIsWindow`); so a short
page was the last. Insertions can only raise places (`GrowStep`), and a page that begins anywhere but where the
last one ended begins below zero and is never selected (`NextOffset`).

TLC checked each of these invariants on the run of its property before it was proved.

Model-checked only: `StalenessEnds` and `ShutdownCompletes`, which are liveness under fairness and out
of the prover's reach. Every other property of a passing run is stated by a theorem above. The runs that
expect a violation are counterexamples and have nothing to prove.

## 5. Not modelled, and the plan

Not modelled at all: middleware, tracing, logging, Swagger, Docker files (no state of the program's
own); the go-sdk beyond the assumptions above; `/health` and `/ready`, which change no state (`/ready`
pings Redis even when the cache is disabled).

Not modelled, with a reason each:

- *Reflection in the audit decorator* for entities of other shapes: `EventCategory` is the only entity, and
  for it the helpers do what `EventCategories` says (`Created`, `Updated`, `Deleted`). An entity with a field
  of the wrong type would not be stamped, silently; no model of the present program reaches that.
- *Other tables and migrations*: no code reads or writes them; a model would restate the DDL. The version and
  the dirty flag belong to golang-migrate, which the makefile only calls.
- *Validation adapter*: it delegates to go-sdk; the bodies it lets through are `WellFormed`.

Planned:

1. The safety half of `StalenessEnds` for all constants: without faults, an entry that differs from its row has
   a request that will still refresh or drop it, or was filled by a reader that overlapped the write.
2. `ServesAtomicStore` for several slots, as long as no two requests in flight are about one id: `UpToDate` and
   `CacheBehind` already speak of one request and one id, so that `Sequential` is more than they should need.

## 6. Running

```
tlc -workers 2 -config MCCategoryService.cfg MCCategoryService
tlapm CategoryServiceProofs.tla
tlapm CategoryHistoryProofs.tla
tlapm CategoryRefinementProofs.tla
tlapm LifecycleProofs.tla
tlapm StartupProofs.tla
tlapm ListOrderProofs.tla
tlapm ListProofs.tla
```

Each `.cfg` names its specification and properties; `PROJECT.json` lists which module goes with
which `.cfg`. The runs `walk` and `overlap` take a minute each, the others seconds; the proofs about three minutes together.
