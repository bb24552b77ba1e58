# A TLA+ model of the print colour calibration release service

The program (`src/`) is a Go backend over MySQL and Redis, with a React
workbench.  Press units, print runs, colour proofs and release decisions are
records with a status; operators move them along a status graph, reviewers
accept proofs and release runs, and every change is to leave a trace.  This
directory models the parts of it whose correctness depends on the order in which
concurrent requests, failures and restarts happen, checks them with TLC on
small instances and proves the main results with TLAPS for all of them.

Paths below are relative to `src/backend/internal` unless they start with `src/`.

## Inventory

| component | state it keeps | operations | talks to | what makes it correct |
|---|---|---|---|---|
| resource services (`service/{press_unit,print_run,color_proof,release_decision}.go`) | none of their own; a copy of the row per request | List, Get, Create, Update, Transition, Delete, StatusCounts | repository and audit log, as separate transactions | decisions taken on a copy still hold when it is written; roles gate accepting and releasing; resolved decisions stay as they are |
| repositories (`repository/*.go`) | rows (soft-deleted, versioned) and append-only revisions | Create(Versioned), Update(Versioned) with `WHERE id AND version`, Delete by id, Get (with Preload), List, CountByStatus | database | one winner per version; revisions are a chain that agrees with the row |
| status graphs (`constants/status.go`) | none | CanTransition | services | unknown statuses are never accepted |
| authentication and roles (`middleware/auth.go`) | principal in the request context | Authenticate, RequireRoles, RequireMinimumRole | handlers | nobody passes a route without the role it asks for |
| audit log and login (`service/security.go`, `repository/security.go`) | `audit_logs`, `users` | Audit, ListAudits, AuditSummary, EntityHistory, Login | services | every change is in the log, and the log says what happened |
| rate limiter (`middleware/ratelimit.go`) | Redis counters per minute, a local map of buckets as fallback | Middleware, increment, incrementLocal, cleanupLocal, Status | Redis | each counter serves a key at most `limit` times per minute, nobody is turned away early, stale buckets are dropped |
| request pipeline (`router/router.go`, `middleware/request.go`) | none | request id, recovery, limiter, authentication, route guard | all handlers | the order of the stages |
| handlers (`handler/*.go`) | none | bind, call the service, map errors to answers; Overview, Health, bindPage | services | an answer tells the truth about what was done |
| startup (`database/database.go`, `cmd/server/main.go`) | schema and demo rows | Open with retries, migrate, Seed, Shutdown | database, Redis | starting again changes nothing, and always leads to a serving process |
| frontend stores and workbench (`src/frontend/src/stores/factory.ts`, `components/EntityPage.tsx`) | items, total, loading, error; page, search, open dialog | load, createRecord, transition; paging, search, confirm | API | the move confirmed is the move made, the user learns the outcome, what is shown is what was asked for |
| frontend session (`src/frontend/src/hooks/useAuth.ts`, `api/client.ts`) | token and profile in localStorage, shared by all tabs; a copy per tab | initialize, switchRole, the 401 of every request, logout (which no component calls) | login | the role shown is the role of the token; the tab gets past its loader |
| configuration, DTOs, response helpers, deployment, presentation | environment; none | parse, validate, format | - | - |

What is hard here.  A write request is four database calls in separate
transactions: read the row, write it, append the audit row, read it again.
Requests for the same row interleave between any two of these; each call may
fail, and a COMMIT may succeed although its acknowledgement is lost; the process
may stop anywhere (`docker-compose.yml` restarts it).  The only protection
between the read and the write is a version number *quoted by the client*.
Readers have no transaction at all: a record and its revisions, a count and its
page, the five numbers of the audit summary come from different moments.  In the
browser nothing waits for anything: loads, moves, creations and logins overlap,
answers are applied in the order they arrive, and several tabs share one storage.
The complete list, with lines, is `hazards` in `PROJECT.json`.

## Modules

| module | models | status |
|---|---|---|
| `Lifecycle` | roles, status graphs, and per resource a *policy*: which guards its service has | built |
| `RecordService` | the write requests of one row, interleaved, with failures | built |
| `AtomicRecord` | what the row promises: a record changed atomically | built |
| `MCRecordService` | instances for TLC | built |
| `RecordReaders`, `MCRecordReaders`, `RecordReadersProofs` | the requests that read while `RecordService` writes: a record with its revisions, the audit summary | built |
| `Paging`, `MCPaging`, `PagingProofs` | a client that reads a listing page by page while its rows move | built |
| `Workbench`, `MCWorkbench`, `WorkbenchProofs` | a page of the frontend, its store, and calls that overlap | built |
| `PageGuards` | what the pages of the frontend offer a role: the frontend's own table of ranks and its own minima | built |
| `AuthSession`, `MCAuthSession`, `AuthSessionProofs` | the session of a tab, the storage it shares, the guards of the backend | built |
| `RecordServiceProofs` | theorems about `RecordService`: types, revisions, gates, locks, the refinement | built |
| `RecordTraceProofs` | theorems about the traces its requests leave: who wins, what a conflict says, what the audit log holds | built |
| `SeededTables` | what the start promises: each table filled once, in order, then left to its users | built |
| `Startup`, `MCStartup`, `StartupProofs` | processes that connect, migrate, seed, serve, stop and start again | built |
| `RateLimiter`, `MCRateLimiter`, `RateLimiterProofs` | the Redis counters, the local map of buckets, and calls that overlap | built |

The groups meet in these places.  What `Startup` calls a filled table is the
initial state `SeededRow` of `RecordService`, and a process stopped in `Startup`
is `Crash` there.  The limiter stands before the routes and shares no state with
them: a call it rejects never becomes a request of `RecordService`; `AuthSession` has its
429 among the answers that change no session.  `RecordReaders` extends
`RecordService` and adds readers to its steps.  `Workbench` uses of the records
what `RecordService` is shown to implement, an atomic record with a version
(`AtomicRecord`), and the same `TransitionVerdict`.

Roles have *two* tables in the program, and two sets of minima: those by which the
backend admits a request (`Lifecycle`: `roleRank`, `RouteAllows`, `canReview`; the
minimum of the audit routes in `AuthSession!Admits`) and those by which the frontend
offers it (`PageGuards`: `rankShown`, `pageMinimum`).  Nothing in the code ties one to
the other.  `AuthSession` and `Workbench` extend both modules, offer by the second and
judge by the first; that the two agree is a result, and a change to either one shows.

### Lifecycle

The four services are the same program with different guards, so a policy record
holds the differences: the status graph, the initial and seeded statuses,
`reviewOnly` (the statuses Transition enters or leaves for reviewers only),
`editLocked` (Update answers ErrLocked), `deletable` (Delete does not) and
`versioned` (each write appends a revision).  `TransitionVerdict`,
`UpdateVerdict` and `DeleteVerdict` are the early returns of the three methods in
the order the code has them; a verdict is either an answer or `"loaded"`, the
request goes on to write.

### RecordService

One row, and a set of requests for it.

| variable | in the code |
|---|---|
| `row` | the row: absent, live or soft-deleted; status, version, and its content, `evidence`, named by the request that wrote it (database.Seed: `Seeder`) |
| `revisions` | rows of `print_run_revisions` / `release_decision_revisions`; `actor` is the role of the user |
| `audits` | rows of `audit_logs` about this row |
| `pc[r]` | how far the goroutine serving `r` has come, and in the end its answer |
| `work[r]` | its local variables: the operation, role, quoted version, the status it read (`before`), the status and content it will write |

`Requests` is finite: it bounds the number of write requests of a behaviour, and
with it the versions.  One row is enough: requests for different rows share no
state but the audit table, whose rows name their record.

| action | in the code |
|---|---|
| `Refuse`, `LoadMissing` | the route guard; `Get` finds no live row |
| `CreateInvalid`, `CreateDuplicate`, `Create` | blank fields; the unique index on `code`, which also covers soft-deleted rows; the insertion (with its revision) |
| `BeginUpdate`, `BeginTransition`, `BeginDelete` | receive the request, `Get` the row, judge |
| `Save`, `SaveConflict` | `Update` / `UpdateVersioned`: conditional UPDATE plus revision, or ErrVersionConflict |
| `Remove`, `RemoveMissing` | `Store.Delete` by id |
| `Audit`, `AuditFails` | `security.Audit`; its error is dropped by Create and Update and returned by Transition and Delete |
| `Reload` | the final `Get` of Update and Transition |
| `Abort` | any call fails with nothing written |
| `Crash` | the process stops; open requests are lost, committed rows stay |
| `Idle` | all requests are answered; it makes "nothing left to do" differ from a deadlock |

`Create`, `Save` and `Remove` may commit and still answer `internal_error`: the
acknowledgement of the COMMIT was lost.

**Quoted versions.**  A client normally quotes a version it was shown
(`Lookahead = 0`).  The API accepts any positive number, so a client that counts
on a write still under way may quote the version that write will create
(`Lookahead = 1`).  This is the only bound on inputs, and it decides which
properties hold: the services judge the row they read but compare only the
quoted number, so a version committed between read and write goes unnoticed if
it is the number quoted.

Abstractions.  Business columns are one value, `evidence`, because no rule reads
them apart from "mandatory and not blank" (`valid`).  Receiving a request and
its first `Get` are one step: what happens between them is the same as sending
later, and versions only grow, so the quoted version may be chosen at the `Get`.
A failing statement inside a transaction rolls it back (`Abort`).  `Get` of a
versioned row runs a second query for the revisions; the services do not use it
for decisions, so it is in `RecordReaders`.  JSON binding errors are
answered before any of this and change nothing.

### AtomicRecord

`Appear`, `Edit`, `Move`, `Vanish` on one record, each judged by the record as it
is at that instant.  `Vanish` is possible in every status: that is what the code
provides (see `locked_deleted`).

### Startup

| variable | in the code |
|---|---|
| `schema` | the tables exist |
| `rows` | per table, each unique code: absent, live or soft-deleted; `"own"` is a row of a user |
| `pc[p]`, `table[p]`, `tries[p]` | how far process `p` is in `main`, the table `Seed` is at, the attempt `Open` is at |
| `db`, `cache` | MySQL and Redis answer |
| `outages` | failures and stops so far, at most `Outages` |

`Start` to `GiveUp` are the retry loop of `Open`, `FindSchema` and `CreateSchema`
the two halves of `AutoMigrate` (it looks for a table, then creates it without
`IF NOT EXISTS`), `Skip`, `CountZero`, `Insert`, `InsertUnseen` and `InsertConflicts` the
five seed functions, which are alike: count the rows that are not soft-deleted,
and if there are none, insert all demonstration rows in one transaction.
`CreateSchema` of a process that finds the tables made by a rival ends it, as does
every other error; `docker-compose.yml` starts it again.  `CreateOwn` and
`Delete` are the API at work meanwhile; `Purgeable` holds the tables of which
users delete even the last row.  In the program that can be any of the four tables of
records: `press_units` and `color_proofs` have no guard on the status in Delete, and a
print run or a decision can be brought back to `setup` or `draft`, where Delete takes
it, from every other status.  A process that is told
to stop, crashes, or exceeds `STARTUP_TIMEOUT` while seeding is `Stop`.

The eight tables of AutoMigrate are one `schema`: losing the race on any of them
has the same effect.  Revisions of seeded rows are inserted in the transaction
of the rows, so they are part of `"live"`.

### SeededTables

`Fill`, `Add` and `Remove` on the rows of all tables, without processes: the table
to be filled is untouched and those before it are full, and users come when all are.
The refinement is the identity on `rows`; every other variable of `Startup` is hidden.

### RateLimiter

| variable | in the code |
|---|---|
| `now` | the current minute (`time.Now().UTC().Truncate(time.Minute)`) |
| `redis[k][w]` | the value of the key `rate:<w>:<k>` and the minute of its last INCR |
| `local` | `Limiter.local`: the bucket of each key it holds |
| `pc[c]`, `call[c]` | where call `c` is: waiting, sent to Redis, failed there, admitted, rejected; its key, the minute it arrived in, and which counter counted it in which minute |

`Arrive` fixes the Redis key, `Exec` is the MULTI/EXEC of INCR and EXPIRE with its
answer, `ExecFails` an error with or without the increment made, `IncrementLocal`
the critical section of `incrementLocal` with `cleanupLocal` in it, `Expire` Redis
dropping a key two minutes after its last INCR, `Tick` the clock.  `Patience` says
for how many minutes a call to Redis can outlive the minute it was made in.
The client's dial, read and write timeouts are seconds, so one: the call may
cross a minute, not two.  With a larger value a counter that has expired could
be used again, and the limit would not hold.  The client retries a pipeline
only when it could not be written, that is, not executed, so one call is one INCR.
The headers of the answer are left out, and `Status` only reads.

### RecordReaders

| variable | in the code |
|---|---|
| `at[x]` | the statement reader `x` runs next, in the end its answer |
| `acked[x]` | history: the requests that had been answered with success when `x` began |
| `view[x]` | the row and the revisions `Get` has read |
| `summary[x]` | the fields of `AuditSummary` read so far |

| action | in the code |
|---|---|
| `GetRow`, `GetMissing`, `Preload` | `Get`: the row, and for a versioned resource the revisions in a statement of their own |
| `CountTotal` to `GroupTypes` | the five statements of `SummarizeAudits`, in their order |
| `ReadFails` | a statement returns an error; what was read is dropped |

`since` is fixed before the first statement, so a row appended meanwhile is in
the window of every later one, and the window needs no variable.  All audit rows
are about one record, so the groups by type have one number; the actor of an
audit row is the role of its request.

### Paging

| variable | in the code |
|---|---|
| `listing` | which of the two queries: `Store.List` (records) or `ListAudits` |
| `state`, `stamp` | per row: absent, live or soft-deleted; `updated_at` or `created_at` |
| `now` | the clock the stamps are taken from |
| `reader` | the client: the page it asks for, the statement that is next, the total last announced, how often it was shown each row |
| `since` | history: the rows that were there when it began, that moved, whether any went, whether one moved between a count and its fetch |

`bindPage` and `normalizePage` are the two functions; `Count` and `Find` are the two
statements of a page.  `Insert`, `Touch` and `Withdraw` are the writers; `Withdraw`
also stands for a row that no longer matches the filter.  A stamp is taken
in the process and committed later, so it may lie `Lag` before the clock.  MySQL
returns rows that the ORDER BY does not tell apart in any order, hence
`Orderings`: for audit rows of one instant every permutation is possible.  The
client stops at a short page, or like the "next" button at the total last
announced.

### Workbench

| variable | in the code |
|---|---|
| `config` | the `EntityConfig` of the page |
| `status`, `version`, `listing` | the records in the database, and the order `updated_at DESC` gives the live ones |
| `role`, `page`, `search`, `pending` | role of the session, `usePagination`, `submittedSearch`, the dialog of a move |
| `items`, `total`, `asked`, `loading`, `error` | the store; `asked` is what the shown list was requested with |
| `call[c]` | a call under way: first the request, then its answer, not yet applied |

| action | in the code |
|---|---|
| `NextPage`, `PreviousPage`, `Submit` | the buttons with the effect that loads when page or term changed |
| `Remount` | the page is left and entered, perhaps in another role; the store and its calls go on |
| `OpenDialog`, `Cancel`, `Confirm`, `CreateDemo` | the dialogs; nothing disables the button of a dialog while its call is under way |
| `ServeLoad`, `ServeMove`, `ServeCreate`, `Others` | the backend, for this client and for others |
| `Lose` | the call or its answer is lost; the write may have been made |
| `TakePage`, `TakeNoPage` | load: the list is replaced, or the error is shown |
| `TakeWritten` | after a write: `get().load(path)`, page 1 without a term, in the same call |
| `TakeRefusal` | the error is shown and thrown again, so the dialog stays open |

Codes are taken from the last six digits of the clock, so a creation may fail on
the unique index at any time.  The detail dialog (one GET, nothing kept) and the
dialog of a creation (which only confirms) are left out.

### AuthSession

| variable | in the code |
|---|---|
| `storage` | the key `domain-control-session` of localStorage: no session, or one with a role and a token that may have expired |
| `shown`, `loading`, `initialized` | `useAuthState` of this tab |
| `adopted` | history: initialize took over the session of another tab |
| `parted` | history: another tab has stored the session of another role, and this tab does not know |
| `effects` | how often React still has to run `initialize` for components that have just appeared |
| `call[c]` | dialogs that are open, and calls under way; an API call carries the token that was stored when it was made |

| action | in the code |
|---|---|
| `Reload` | the module is evaluated anew; calls of the old page are not applied |
| `InitializeAgain`, `InitializeCached`, `InitializeLogin` | the three ways through `initialize` |
| `switchRole` | a login as another user; while it lasts `App` shows the loader, and what was open is gone |
| `OpenPage` | a page the role shown may enter appears and asks for its rows at once |
| `OpenDialog`, `Confirm`, `Cancel` | what writes is offered by the role shown now, and asked for later |
| `Grant`, `Refuse`, `Judge`, `Lose` | `Login`; `Authenticate`, the guards of the routes and the gate of a reserved move (`Admits`); any other failure |
| `Expire` | the tokens issued so far pass their `exp` |
| `OtherTabs` | other tabs write and clear the shared storage as they like |
| `TakeSession`, `TakeFailure`, `TakeAnswer` | the continuations: `saveSession`, `finally`, and the 401 that clears the storage |

While a tab loads, `App` shows nothing but the loader; when it stops loading, the
pages appear and their effects run, which is what tries a failed login again
(without pause and without limit).  `Login` answers every error, those of the
database included, with 401, so `Refuse` needs no wrong password.

What is offered is decided by `MayAsk` of the role on display, what is granted by
`Admits` of the role in the token, each with tables of its own, at different moments:
a dialog may be confirmed, and a token judged, after logins, failures and late 401s.
`excused` marks the two cases in which the code really asks as somebody else than it
offered to: another tab has stored another role (`parted`), or a login has ended
under an open dialog.  The second needs two logins that overlap: the first to end
brings the page back, the second changes the role under whatever was opened since.
Both are reachable, with a 403 that writes nothing.

## Runs

Each run asks one question; `cfg` files give the constants.

| run | instance | question |
|---|---|---|
| `release_decisions` | ReleaseDecision, 3 requests of operators and admins | do guards, revisions and audit log agree, does one rival win, and is the row an atomic record |
| `record_views` | PrintRun, 2 requests of an admin, 1 reader, fair | are answers put together from several statements consistent, and is every request answered |
| `rate_limits` | 3 keys, 4 calls, limit 1, cleanup at 2 keys, 3 minutes | limits, rejections, size of the map |
| `startup` | 2 processes, 2 tables of 2 rows, 2 attempts, 2 outages, fair | are tables filled whole, does nobody serve too early, are all starts one start to the tables, does everybody serve again |
| `paging` | 3 rows, pages of 1 or 2, 2 instants, lag 1 | what may a client miss or see twice |
| `workbench` | ReleaseDecision, 2 records (one yet to be created), 2 overlapping calls, operator and admin, fair | is what is confirmed what is done, and does the user learn of it |
| `sessions` | 3 roles, 3 requests, 2 calls or dialogs, effects run twice, fair | do storage and display agree, is what is offered granted, does the loader end |
| `locked_deleted` | PrintRun, 2 requests | violation of `LockedNeverDeleted` |
| `unaudited_change` | ReleaseDecision, 2 requests | violation of `EveryChangeAudited` |
| `decision_overwritten` | ReleaseDecision, 3 requests, Lookahead 1 | violation of `ResolvedDecisionImmutable` |
| `purged_restart` | 1 process, 2 tables, 1 outage, the second table purgeable, fair | violation of `ServesAgain` |
| `wrong_page` | 2 records on pages of 1, one call at a time, nobody else | violation of `ListIsWhatWasAsked` |

Bounds.

- `release_decisions`: three requests let two rivals meet and a third act between
  their steps, which is the most a hazard of one row needs; versions reach 4, and
  the row is created or comes from the seed.  The requests are interchangeable,
  so the run uses symmetry.  Decisions have every guard there is; for the other
  resources, other roles and other Lookaheads there are the theorems.
- `record_views`: two writers act between any two statements of one answer; readers
  do not influence one another or the writers, so one is enough.  One role leaves
  one actor; the counts of actors and of rows are compared all the same.
- `startup`: two processes are enough for a race, two tables for "the next table",
  two outages for a stop in the middle of the repair of another.  `Purgeable` is
  empty, so that `ServesAgain` can hold; the safety properties are proved for any.
- `rate_limits`: three keys exceed the cleanup size, three minutes let a counter
  expire, and four calls of one key pass a limit of one in two counters at once.
- `paging`: `DefaultSize` 1 and `MaxSize` 2 stand for 20 and 100; the client asks for
  the pages -1 and 1 and the sizes 0, 2 and 3, which are below, within and above
  the bounds.  Three rows fill two pages of two or three of one; with two
  instants and a lag of one, rows tie, overtake each other, and commit late.
- `workbench`: `MaxVersion` bounds the moves of a record (two, and one more for each
  call that is under way); two calls overlap in every combination of kinds; with
  one record per page a creation makes a second page.  `wrong_page` adds a search
  term and drops the other users, to show that neither they nor overlap is needed.
- `sessions`: with two calls a login overlaps another login, and a late 401 a login.
  A viewer, an operator and an admin, with an unguarded request, one the pages keep
  from viewers (`create`) and one they keep from operators too (`audits`), have a role on
  each side of both minima; for all roles and requests there is the theorem.  `Mounts` 2 is the strict
  mode of `main.tsx`: each effect runs twice.

Properties.

- `TypeOK`: in particular no row, revision or plan has a status outside its graph.
- `RevisionChain`: revisions are numbered 1 to the version, once each, and the last agrees with the row.  Holds for any Lookahead.
- `ReadStillCurrent`: a request whose save will match has judged the row as it is now.  Everything else about gates rests on this; it needs Lookahead 0.
- `OneWinner`: of the requests quoting one version at most one is accepted.
- `ConflictMeansMoved`: `version_conflict` is only answered when the row has moved on or is gone, so refreshing and retrying helps.
- `AckedIsAudited`: a transition or deletion answered with success is in the audit log.
- `RefusedLeavesNoTrace`: who was refused has written nothing anywhere.
- `AuditMatchesHistory`: before and after of an audit row are the statuses of two consecutive revisions, whatever the order in which audit rows arrive.
- `ReviewGate`, `ResolvedDecisionImmutable`: the roles and the lock of the README of the program, as properties of steps.
- `AtomicRow`: refinement of `AtomicRecord`.
- `EveryRequestAnswered`: a request that got past its guards is answered.  It does not say with what: a lost connection and a `not_found` for a committed change are answers.
- `ShownWithItsRevision`: a record is never shown with a history older than itself, although `Get` reads the two in two statements.
- `AckedIsVisible`: a client that reads after a write was acknowledged sees that write or a later one.
- `SummaryOrdered`, `SummaryCountsAcked`: the five numbers of the summary only grow in the order they are read, and cover the transitions acknowledged before.
- `SeedWhole`, `ServingMeansSeeded`, `DeletedStaysDeleted`: a table is filled whole or not at all, before anybody serves, and what users delete stays deleted.
- `FilledOnce`: refinement of `SeededTables`; each table is filled once, in the order of Seed, and users' rows and deletions come after the last is full.
- `ServesAgain`: each process serves again and again, whatever fails.
- `AdmittedWithinLimit`: each counter admits at most `Limit` calls of a key per minute.  A key is thus served at most twice its limit when Redis fails within a minute.
- `RejectedOnlyOverLimit`: a rejected call is preceded by `Limit` other calls of its key in that minute.
- `StaleBucketsBounded`: when the map is larger than its cleanup size, all its buckets are of one minute.
- `NothingMissed`: who pages to the end has seen every row that was there and stayed as it was, unless rows were removed meanwhile; a client that goes by the total needs in addition that nothing moved between the count and the fetch.  For audit rows it holds only for those whose time stamp is unique: the order of the others is nobody's promise.
- `NothingRepeated`: without insertions and updates no row is seen twice (same restriction).
- `ConfirmedMoveIsMade`: a move the backend makes for the page starts at the status its dialog showed, however old the list was and however often the user confirmed.
- `RefusedMeansMoved`: a refused move means the record has moved on or is gone; the page's own status graph never offers what the services refuse.
- `SpinnerStops`: with no call under way the page is not loading.
- `ConfirmAnswered`: after a confirmation the dialog closes or an error is shown.
- `StoredIsShown`: once the stored session is the displayed one, only another tab can part them.
- `OfferedIsGranted`: what the frontend offers by its ranks and minima the backend admits by its own; 403 is answered only to requests sent after another tab stored another role, or confirmed in a dialog under which a login had ended.
- `WorkbenchAppears`: a tab that loads comes to show its workbench, however many logins fail; a tab that adopted another tab's session is excepted.

Operators said to be mutants in their comment are not part of the model: each is
a plausible mistake in the definition below it, and putting it in place of
that definition makes TLC report the property `PROJECT.json` names for it.

Fairness.  `FairSpec` assumes weak fairness of `Serve(r)` for each request: its
goroutine is scheduled and its database calls return, with a result or an error.
Nothing is assumed of clients (`Receive`), of failures or of crashes.
`FairSpec` of `Startup` assumes weak fairness of `Boot(p)` (a process that can go on
does, and one that is down is started again: `restart: unless-stopped`) and of
`Recover` (MySQL and Redis have the same restart policy).  Outages are finitely many.
`FairReaders` is `FairSpec` of `RecordService` with readers beside it.
`FairSpec` of `Workbench`: the backend answers (`Serve`) and the browser runs
callbacks (`Take`); nothing is assumed of the user or of other users.
`FairSpec` of `AuthSession` has the same and, strongly, that effects run
(`initialize`), that a login tried again and again is granted in the end (`Grant`),
and that the user does not for ever reload the page between the answer and its
application (`TakeSession`): a login may fail any number of times, not always.

### What disagrees with the program's own claims

1. `locked_deleted`.  Delete reads the status, accepts, and deletes by id.  A
   transition that commits in between leaves a running batch deleted.
2. `unaudited_change`.  The audit row is written after the commit; when that
   fails, or the process stops, a status change is in no audit row.  The
   revision still shows it for versioned resources.
3. `decision_overwritten`.  An update reads a draft at version n and quotes n+1;
   a reviewer's release commits n+1; the update then matches and writes its
   content (and the status `draft`) over the released decision.
4. `purged_restart`.  Seed counts without soft-deleted rows, the unique index counts
   with them.  Once all rows of any one of the four record tables are deleted, every
   start inserts its demonstration rows, meets the index, and exits.
5. `wrong_page`.  After a move or a creation the store loads page 1 without the
   search term, while the page goes on saying "page 2" and showing the term:
   what is listed is not what was asked for, until the user turns a page.

3 needs a client that quotes a version it has not been shown.  From the same
cause an operator's update of a print run can write back the status `released`
that it read before a reviewer put the run on hold.

Smaller things the models show, about which the program claims nothing:

- An older answer that arrives late replaces a newer list (`factory.ts` does not
  compare requests); like 5 it is excluded from no property but `ListIsWhatWasAsked`.
- `.then(() => setPending(null))` closes whatever dialog is open when a confirmed
  move ends, also one opened meanwhile for another record (`Close`).
- `load` swallows its error, so a move whose reload fails closes its dialog.
- A late 401 removes a session that was saved after its request was made: the role
  stays on display and the next requests carry no token (`TakeAnswer`).
- A dialog stays open when the later of two overlapping logins changes the role under
  it, and is then confirmed as the new role; the backend refuses (`excused`).
- `initialize` that finds the session of another tab does not reset `loading`: the
  loader stays until the page is reloaded (`adopted`).
- Pages of the audit log may repeat or drop rows of the same instant, because
  `ListAudits` orders by `created_at` alone.
- A login that fails is tried again at once and for ever, by the effects of the
  pages that appear when `loading` ends.

## Proofs

`RecordServiceProofs` assumes only what `RecordService` assumes of its constants
(a known resource, callers with known roles, `Lookahead \in Nat`, a `Seeder` that
is no request).  The set of requests may be infinite.

- `TypeCorrect`, `RevisionsAreAChain`: for any Lookahead.
- `SavesAreCurrent`, `OnlyReviewersRelease`, `ResolvedDecisionsKeepContent`,
  `Refinement`: under `Lookahead = 0`.
- `OneWinnerPerVersion`, `SuccessIsAudited`, `RefusalsLeaveNoTrace` (in
  `RecordTraceProofs`): for any Lookahead.
- `ConflictsAreReal`, `AuditTellsTheHistory` (there too): under `Lookahead = 0`.

The argument.  `TypeOK` is not inductive: a saved row has a status of its graph
because the request that saves it passed `TransitionVerdict` earlier.  `IInv`
therefore adds, for every request about to write, which verdict it passed
(`Judged`), and that such a request implies that the row exists.  The chain of
revisions is inductive together with `IInv`: a save matches the version of the
row, so its revision is numbered one beyond.  For `Lookahead = 0`, `IInv` says that
a quoted version is at most the version of the row, so that after a save nobody
else matches; hence `ReadStillCurrent` is inductive, `SaveIsLegal` turns it into
"a save edits an unlocked row or moves it as its verdict allows", and the gate,
the lock and the refinement follow by cases on who writes the row
(`WhoWrites`).

`RecordTraceProofs` builds on the same `IInv` and on `StepCases`, which says what each
step does to a request.  None of its properties is inductive alone.  `OneWinner`
needs `Winning`: an accepted request quoted a version the row has left, so the next
one to save, which quotes the version of the row, quoted another.
`AckedIsAudited` needs `Logged`: the audit row is there from the moment the request
goes on to read its reply, and audit rows are never taken back (`HistoryGrows`).
`RefusedLeavesNoTrace` needs `Untraced`, which also holds of requests still
undecided and speaks of what the *others* are about to write: a transition writes
back the content it has read, so a trace could come from a third party.
`AuditMatchesHistory` needs `Explicable`: between the commit and the audit row the
two revisions are there already, since the one the save found is numbered by
`RevisionChain` and `ReadStillCurrent` says that its status is the one read before.

`StartupProofs` needs no more than the assumptions of `Startup`; processes and tables
may be any number.  `SeedWhole` is inductive, but that a serving process has all
tables behind it needs `Passed` (what each program counter says of the tables
before it) and `OwnAfterSeed` (a user's row is only in a table that was filled:
otherwise it would make an unfilled table look filled).  `TablesAreFilledWhole`,
`NobodyServesTooEarly` and `DeletionIsFinal` follow.
`StartsAreOne` shows the refinement: who inserts has filled tables behind it (`Passed`) and
finds its own table untouched, because a user's row there would mean that it was
filled, and then the unique index stops the insertion (`InsertFills`); users act only
when somebody serves, hence when all is full (`ServedIsOpen`).

`RateLimiterProofs` assumes finitely many calls.  `LimitsHold` needs `Patience <= 1`;
its invariants say that the counter of Redis, as long as it may still be used,
and the bucket of the current minute, have counted every call they admitted.
`ServedAtMostTwice` adds that no call is served uncounted (`Charged`), so that both counters
together serve at most twice the limit.  `NobodyRejectedEarly` is the converse: a counter has counted no more than the calls
made (`CountsInv`).  `OldBucketsAreDropped` needs only that no bucket is of a later
minute.

`RecordReadersProofs` first shows that the readers leave the writers alone
(`WritersAreServed`), so that everything proved of `RecordService` holds beside them.
`ShownWithItsRevision` then rests on the chain: the revision of the version that was
read is there already, there is only one, and revisions are never taken back
(`ReadRowAgrees`).  `AckedIsVisible` needs `Effective`: whoever has written has moved
the version on and left a revision, or has deleted the row, from the commit on.
`SummaryCountsAcked` maps each acknowledged transition to its audit row, injectively,
and needs `Logged`.  All three hold for any Lookahead, and for any number of requests.

`AuthSessionProofs` compares the two tables first: for every role and every request,
what `MayAsk` offers `Admits` grants (`OfferedIsAdmitted`); with one minimum of
`pageMinimum` lowered, or one rank of either table changed the wrong way, that lemma
fails.  The rest is about time: an open dialog that is not excused was offered to
the role still on display (`StillOffered`), unless another tab intervened the stored
session is the displayed one (`TabInv`), and a request under way was entitled to its
token when it was made and stays so while the token expires (`Entitled`).
`StoredIsShown` follows by cases on who changes the storage.  `WorkbenchProofs` compares
the status graph, ranks and minima of the page with the routes and the services
(`OffersAreAllowed`, for all four resources at once, where a run takes one) and proves
`SpinnerStops`, which is inductive.

The argument for `ConfirmedMoveIsMade` and `RefusedMeansMoved` is what the page can
*know*.  Its items are old: the record may have moved any number of times since.
But a version has one status, so an item says of its version what the record
said at that version (`Known`), the move asked for was allowed from that status
(`Allowed`), and both outlast every step of the others (`WrittenOutlasts`).  A move the
backend makes found the version of the item, hence the status the dialog showed; a
move it refuses did not find it, since it was allowed (`VerdictKnows`).  `Knowledge`
collects this for the list, the dialog and every call under way.  Records may be any
finite set; the listing is a sequence whose entries are distinct, and `RemoveFirstShape`
and `ConsShape` say that it stays one.

`PagingProofs` argues with the *rank* of a row, the number of rows that come before it.
The order of ties is open, but the rank of a row that no tie concerns (`Settled`)
is the same in every order the database may choose (`SettledAtRank`), and a page
shows exactly the ranks of its window (`WindowShape`).  `NothingMissed` is carried by
`NothingMissedSoFar`: a row that stayed and was not shown yet has a rank behind the
pages read.  An insertion or an update only raises ranks of rows that stay, so the
invariant survives it; a removal lowers them, hence the exception; and a client that
goes by the total needs that no row moved between a count and its fetch.
`NothingRepeatedSoFar` is the mirror image: without insertions and updates ranks only
fall, so what was shown stays within the pages read.  `ReadingMissesNothing` assumes
that the client starts at a page of at most 1, which `bindPage` takes for the first;
a client that starts later skips rows by its own wish.  `AnswersAreBounded` is about
the two bounds on a page, in the handler and in the repository: the rows one answer
shows (`ShownNow`) are those of one window (`StepBounded`, by
`WindowBounded`), at most as many as the size announced, which is 1 to `MaxSize`.

`SummaryOrdered` (in `RecordReadersProofs`) needs that the rows of the log, counted per
action, add up to all of them (`SumOfCounts`).  `SumFunction` is a fold whose equation
is shown to have a solution, the counts themselves, and only one (`SumIsUnique`: a smallest
set on which two solutions differ would have a smaller one).  What remains is that
each number, once read, is at most what the log holds by now (`Ordered`), and that the log
only grows (`CountsGrow`).

Every safety property that a passing run checks is proved: invariants and action
properties alike.  Only model-checked:

- `ServesAgain`, `EveryRequestAnswered`, `ConfirmAnswered`, `WorkbenchAppears`: liveness
  under fairness, out of the prover's reach;
- that the five violations are reachable: TLC shows a behaviour.

The theorems rest on the named `ASSUME`s of the modules and on nothing else: known
resources, roles and codes, positive sizes and limits, bounds that are naturals, and
finite `Calls` of `RateLimiter` and `Records` of `Workbench`.  TLC evaluates each on the
runs.  What a theorem needs beyond them is a hypothesis of its own (`Lookahead = 0`,
`Patience <= 1`, a first page of at most 1), and the runs meet it.

## Plan

What is left, in order of importance.

1. Where a theorem needs `Lookahead = 0`, say what still holds without it: which of the
   gates survive a client that quotes a version not committed yet.
2. The composition of `Workbench` with `AtomicRecord`: its backend lets other users do
   all that the record allows and, to be general, a little more (edits of locked
   records), which is stated in words only.

## Not modelled

- The detail dialog and the dialog of a creation, metrics and badges: one GET and
  formatting, with nothing kept.
- `EntityHistory` and `Overview`: one bounded read, and four counts of unrelated
  tables, without a claim that relates them.
- `Health`, `Session`, `Runtime`: a ping, and constants of the request.
- Configuration, response helpers, request ids, recovery of panics: no state and
  no part in an interleaving.
- bcrypt, JWT signing, JSON binding: taken as correct; a malformed token is
  answered like a missing one.
- Deployment: only its restart policy, in `Startup`.
