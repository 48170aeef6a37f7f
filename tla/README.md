# Verification of highload-filehost-edgecache

TLA+ specifications of the file host in this repository, the TLC runs that check
them on small instances and the proofs that hold for every instance. Paths are
relative to the repository; `edge` stands for `edge-cache-service/src`,
`origin` for `origin-service/src`, `users` for `users-service/src/users_service`.

## 1. The system

A user registers and logs in at **users-service** and uploads files to
**origin-service**, which verifies the token by calling users-service and keeps
the file in MinIO. Anybody downloads a file through **edge-gateway**, which
always routes one file id to the same **edge-cache-service**; that one answers
from its disk, or from the origin while filling its disk.

    client -> edge-gateway -> edge-cache-service (x3) -> origin-service -> MinIO
                                                           |
    client -> users-service -> PostgreSQL   <--  /auth/verify

### Inventory

| Component | State it keeps | Operations | Interacts with |
|---|---|---|---|
| edge-cache: download use case and disk cache (`edge/application`, `edge/adapters/cache`, `edge/adapters/api/handlers.rs`) | five files per id under `CACHE__DIR`: `.json`, `.bin`, their `.tmp`, `.lock`; per request a cursor over them | lookup, acquire_lock, begin_write, write_chunk, commit, refresh_ttl, drop of writer and lock | other requests and other processes through the files; the origin; the client, which pulls the body |
| edge-cache: origin client (`edge/adapters/origin/client.rs`) | none | fetch, fetch_if_changed, parse_cache_ttl | origin-service |
| edge-gateway | the list of backends, fixed at the start | route by file id, request timeout | edge caches |
| origin-service (`origin/handlers`, `service`, `repository`) | three objects per file: content, sidecar `meta.json`, index | upload, list my files, download with If-None-Match | MinIO, users-service |
| origin-service: token verifier (`origin/handlers/auth_verifier.go`) | none | Verify | users-service |
| users-service (`users/services`, `repositories`) | one row per user; tokens live outside it | register, login (with rehash), verify | PostgreSQL |
| users-service: migrations (`users-service/alembic`, `scripts/entrypoint.sh`) | the schema and its revision | upgrade at each start of the container | PostgreSQL |
| stats (`stats/main.py`) | the lists, the index and the sums of one run | page through issues and pull requests, ask for timelines, add days up by periods, print and draw | GitHub's REST and GraphQL |
| loadtest, compose file | none | - | tools around the system |

### Hard behaviours, and what correctness means

* **edge cache.** Requests read `.json` and `.bin` without the lock while another
  replaces them one after the other; the lock is the only thing that separates
  two downloads writing the same temporary names, in one process or several; a
  download may end anywhere because the origin fails, the disk fails, the client
  leaves or the process dies; tokio's files write behind the caller's back.
  Correct means: bytes go with the metadata they are served with, an entry is
  whole whenever it is servable, one leader at a time, no origin request for
  what is cached, nothing left behind, nobody waits forever.
* **blocking pool of an edge.** A waiter of a flock holds a thread of the pool that
  the leader needs. Correct means: the leader always gets a thread.
* **origin store.** Three objects are written one by one and removed one by one on
  failure, with a context that may be cancelled and a process that may die,
  while others list and download. Correct means: a file that was acknowledged
  is listed and downloadable, a failed upload is neither.
* **the way of a file.** The gateway, the edges and the origin are correct together
  when a file is in one cache, whole, renewed instead of fetched again, and
  found as soon as its upload was answered; where it falls short of this, it
  must be for a cause in the storage or on the disk of the edge, and for no other.
  Tags without quotes, which the origin sends, all compare equal (`origin/handlers/url_handler.go:212-254`).
* **users.** Transactions of several requests read, decide and write the same row, on
  few connections, while the process and its migration may die. Correct means:
  one account per normalized login; a login never undoes a newer hash; every
  request is answered.
* **stats.** Pages are cut by offset from a repository that goes on changing, any
  request may fail, and intervals are cut at weeks and months. Correct means: every
  issue once, and no day lost or counted twice.

## 2. Plan

In order of importance; modules marked * exist.

1. `EdgeCache`* - the edge's disk cache for one file id, with all its faults;
   `MCEdgeCache`*, `MCCoalescing`*; `EdgeCacheProofs`*.
2. `CacheContract`* - what a cache of one file promises, with `EdgeCache` shown to
   implement it, by TLC and in `EdgeContractProofs`*.
3. `OriginStore`*, `MCOriginStore`*, `OriginStoreProofs`* - the three objects of a
   file: upload with clean-up, listing, download, cancelled contexts and restarts.
4. `Users`*, `MCUsers`*, `UsersProofs`* - register and login as transactions, tokens,
   migrations and restarts.
5. `Delivery`*, `MCDelivery`*, `DeliveryProofs`* - upload, gateway, edges and origin
   composed, on the contract of 2.
6. `EdgePool`*, `MCEdgePool`* - `EdgeCache` on a limited pool of blocking threads.
7. `Periods`*, `IssueStats`*, `MCIssueStats`*, `PeriodsProofs`*, `IssueStatsProofs`*,
   `ReportProofs`* - the calendar and a run of stats.

Modules once planned for the comparison of tags, for the directives of
Cache-Control and for the names of files are not written. Of the tags, what
matters to this system is in `Delivery`. The origin sends one number in both
directives. The names of two ids cannot meet: none of the suffixes `.json`,
`.bin`, `.json.tmp`, `.bin.tmp` and `.lock` ends in another.

## 3. `EdgeCache`: the module and the code

One file id; ids do not share files, so requests of different ids are independent
but for the blocking pool (`EdgePool`). Content is the version number the origin
published; a file is the version found in each chunk. A version is longer or
shorter than another (`Length`) so that remains of an old one would show.

| State | In the code |
|---|---|
| `meta`, `tmpMeta` | `<id>.json`, `<id>.json.tmp`: `CacheMeta`; `ver` stands for content type and etag, `len` for content_length, `exp` for expires_at |
| `data`, `tmp`, `inode` | `<id>.bin`, `<id>.bin.tmp` as names of inodes, because a rename or a deletion does not disturb whoever has the file open or mapped |
| `lock` | the flock on `<id>.lock`, held by `CacheLock` |
| `pc` | the await at which the request's task is |
| `seen`, `view` | `CachedFile` of the lookup: metadata and mapped bytes |
| `reply`, `fd`, `sent`, `flight` | the origin's body, and `CacheWriterImpl`: its file, what it has written and whether tokio still has a write under way |
| `pending` | the metadata `write_meta_atomic` is writing |
| `orphan` | a blocking operation whose task was dropped while awaiting it |
| `now`, `origin` | the wall clock and what the origin serves |

A step is one blocking operation or one exchange with the origin, with all the
task does until its next await: the drop of the writer and of the lock, in that
order, belong to the step that ends a request (`Finish`, `DropWriter`).

| Action | Code |
|---|---|
| `ReadMeta`, `OpenData` | `lookup`, on the fast path (`meta1`, `data1`) and again under the lock (`meta2`, `data2`), and the decision `execute` takes on the result |
| `AcquireLock` | `acquire_lock` |
| `Fetch`, `FetchIfChanged` | `fetch_and_cache` and `revalidate` up to the origin's answer |
| `BeginWrite`, `WriteChunk`, `LandWrite`, `EndStream` | `begin_write` and `stream_and_cache`; `LandWrite` is the background half of tokio's `write_all` |
| `RenameData`, `WriteMeta`, `RenameMeta` | `commit`; the last two are `write_meta_atomic` |
| `ReadForRefresh`, `WriteMeta`, `RenameMeta` | `refresh_ttl` |
| `ReadError`, `WriteError`, `LoseWrite`, `OriginError`, `Cancel`, `RunOrphan`, `Crash` | the environment; each run enables a subset by `Faults` |

`TTLs` is what `max-age` or the default TTL can give; zero is among them. The
client of the origin is external to the extent that `Fetch` is one step: the
headers and the first byte arrive, or it fails. A version without an entity tag
(`Tagged`) is refetched in full when it expires. The origin of this repository never
changes the content of an id, but nothing in the edge relies on it: it stores tags
and handles `200` to a conditional request, and so does the model.

Simplifications: no file is deleted by anybody else; the clock does not run
backwards; a process restarts at once; the wait for a flock by a task
that was dropped, which takes and releases the lock at once, is left out; the map of
a file keeps the bytes it had when it was opened, where the code would
also see a buffered write that lands later (this can only add missing bytes of the
same version).

### `CacheContract`: what the cache promises

`CacheContract` knows one entry (a version and a time it expires at), a clock and
the answer of each request: a request is answered from the entry while that is
valid (`Hit`), or it renews an entry that is not, with a version no older and
an expiry no earlier, in the same step (`Renew`), or it fails. Nothing of locks,
temporary files, processes or leaders is in it. `EdgeCache` implements it under
the mapping at its end: the entry is what `.json` says, so that the two
renames of a commit, and the two reads of a lookup, appear as one step;
an answer is what the request was given, and is `mixed`, which the contract does
not have, when headers and bytes are of different versions.

### `EdgePool`: the threads of a process

`EdgePool` adds to `EdgeCache` the pool of threads on which tokio runs blocking
operations (`Threads` per process; 512 by default, and `#[tokio::main]` in
`edge/main.rs:10` sets no other number). `waiting` are the requests whose flock
has a thread: `StartFlock` takes it and `Granted` gives it back with the lock. Any
other operation on files needs a free thread for one step (`OnThread`); exchanges
with the origin and the client do not (`OffThread`). `write_all` returns
before its background write, so the leader streams on until that write needs a thread.

## 4. `OriginStore`: the module and the code

An upload stands for the file id it draws, since ids are random and never reused. Its
objects are under keys of their own; two uploads interfere only in listings, and
with readers.

| State | In the code |
|---|---|
| `held` | what MinIO has under each key: a body, or a `FileMetadata` as JSON |
| `late` | a call whose caller got an error or died, and that MinIO may still carry out, at any time or never |
| `pc`, `dpc`, `lpc` | the storage call at which an upload, a download, a listing is, or the answer it got |
| `todo`, `items` | the sidecars `listMetadataByUserID` has still to read, and what it has found |
| `due`, `failures` | bookkeeping of the properties and of the bound: what was acknowledged before a listing began; how many storage calls failed |

| Action | Code |
|---|---|
| `Receive`, `Verify` | `postFiles` until `UploadFile`: the form, the token, the size. Verification is a free choice |
| `PutContent`, `PutSidecar`, `PutIndex` | `UploadFile` and `saveMetadata` |
| `RemoveOwnSidecar` | the clean-up inside `saveMetadata`, after a failed put of the index |
| `RemoveContent`, `RemoveSidecar`, `RemoveIndex` | the clean-up of `UploadFile`, whose results are ignored |
| `Request`, `LoadMetadata`, `Copy` | `getFileByID`: the index, the comparison of tags, then the body. minio's `GetObject` is lazy, so a missing object is noticed in `io.Copy`, after the 200 |
| `Ask`, `ListObjects`, `ReadSidecar` | `getMyFiles` and `listMetadataByUserID` |
| `Leave` | the client of an upload leaves: `r.Context()` is cancelled, and with it every call that would follow, clean-up included |
| `LandLate`, `Crash` | the environment |

`Faults` selects what may go wrong: `refused` (a call fails without effect), `lost` (it
fails for the caller and may still take effect), `cancel`, `crash`, `read` (reads
fail). A crash or a departed client always leaves the fate of the call in flight open.

Simplifications: a listing is one page of MinIO's, so its objects are listed in one
step; a conditional download sends the file's own tag, and whether it matches is a
free choice here and computed in `Delivery`; clients of downloads do not leave (this changes no object).

## 5. `Users`: the module and the code

The handlers are coroutines of one event loop. A step is what a handler does between two
awaits of the database; `verify` has no await and is one step. PostgreSQL is
modelled as the code relies on it: READ COMMITTED, an INSERT that waits for a
transaction that has inserted the same key (`Pending`), an UPDATE that waits for the
row and evaluates its WHERE again (`Locked`, `Matched`).

| State | In the code |
|---|---|
| `rows` | the committed rows of `users` |
| `schema` | what `alembic upgrade head` has created: the table, the unique index, the number of the revision |
| `service` | whether the process runs |
| `pc`, `seen`, `locking` | the await a request is at, the row its login has read, and whether its UPDATE has the row |
| `token`, `vpc`, `shown` | the JWT a login was answered with, and what `verify` said of it |
| `clock` | half seconds, because `iat` and `exp` are whole ones |
| `current`, `expect` | history: the password last set for a login, and the answer a login should get |

| Action | Code |
|---|---|
| `Receive`, `ReceiveSignIn` | the schemas: lengths, the password policy. They count the login before it is lowered, which may make it longer than the column |
| `Select`, `Insert`, `Commit` | `AuthService.register` and `UserRepository.create_user`; only an IntegrityError becomes 409 |
| `Lookup`, `Check`, `Rehash`, `CommitRehash` | `AuthService.login`: what was read, the comparison, the compare and swap of a deprecated hash, its commit |
| `Verify` | `AuthService.verify`: signature and times, not the table |
| `Start` | `entrypoint.sh`: the migration, then the service. The script has no `set -e`, so the service starts also when the migration failed, and then runs without a table |
| `DbError`, `ChangePassword`, `Crash`, `Tick` | the environment; a lost answer of a COMMIT is in `Commit` and `CommitRehash` |

Simplifications: a handler goes on when its client leaves, since Starlette does not cancel
it; the time a hash takes is not modelled, but it is computed on the event loop
and is part of the step that needs it; a new password is always hashed with argon2.
`origin-service` sees this service through `POST /auth/verify` only: `OriginStore.Verify`
allows every answer.

## 6. `Periods` and `IssueStats`: the modules and the code

`Periods` is the calendar of `stats/main.py`: times are half days since 2018-01-01, a
Monday; years, months and ISO weeks are computed as `datetime` defines them, and
`PeriodKey`, `PeriodFloor`, `NextPeriodStart` and `SplitInterval` are the functions of the
same names. The key of a period is a pair, ordered as its text is.

`IssueStats` is one run. The script takes one step per request, and between two of them the
repository on GitHub (`Open`, `Close`, `Reopen`, `Link`, `Tick`) goes on.

| Action | Code |
|---|---|
| `Begin` | `calculate_stats` reads `now` |
| `FetchIssues`, `FetchPulls` | a page of a listing, oldest first; the listing of issues has pull requests too, which are left out, and only an empty page ends it |
| `QueryTimeline` | a page of `graphql_issue_in_pr_at`; the last one concludes an issue, with the index as the fallback |
| `TimelineRefused`, `NoTimeline` | GraphQL fails with `auto`: no later issue asks it again |
| `Fail` | any other refused request: `main` prints it and exits with 1 |
| `Report`, `Draw` | `print_table`, the charts, the exit code |

A listing is a set of numbers, the places in `items`, since the number of an item is also its
place in the order of creation. `Rank` is the place of an item in a listing, `Page` takes
the items whose places are on the page, and `InOrder` is the order they come in.

`Rows` is the table: a pure function of what was fetched, evaluated by the properties
rather than kept in the state. The sums of `calculate_stats` (`SumOf`) are recursive functions
over the issues and their parts, as the loop adds them.

Something the modules showed that no run keeps: `open_issues_count` of a period is
raised for the issues created in it (`stats/main.py:441`), while every period an issue
stays open in has a part of the average, so a period may average over more issues than
it counts. `stats/README.md:34` describes the counts as the numbers of issues with a part
in the metric of the period.

## 7. `Delivery`: the composition

`Delivery` is the way of a file through all services. Each service is reduced to
what its own module shows that it does for the others: the origin finds a file
from the put of its index on (`PutIndex`) and acknowledges it later (`Acknowledge`), with
one content and one tag for ever; an edge has one leader and at most one entry per
file and renews it in one step. That step is what `EdgeCache` shows of clients that stay
and of lookups that do not fail (`ReliableReads` in section 9): with a failing lookup the
edge would fetch again what it has (`usecase.rs:35`), which `Delivery` leaves out. The
property `EdgesKeepContract` checks that these reduced edges satisfy `CacheContract`, the specification `EdgeCache` implements.

| State | In the code |
|---|---|
| `route` | the consistent hash of the gateway: any function from files to backends, fixed |
| `indexed`, `created` | the uploads of the origin: index put, 201 answered |
| `entry`, `leader` | each edge's `.json` and `.bin` in one, and its flock, per file |
| `disk` | the last write to each `.bin`, for which `commit` does not wait: in flight, landed or lost |
| `pc`, `via`, `got` | a download: where it is, at which edge, what content it has mapped or read |
| `stored`, `cut` | history: bodies cached, files whose body the origin has ended early |
| `due`, `misread`, `early` | history: downloads that came after the 201, that found the storage of the origin failing, that mapped a file before its last write |

Between the services there are the tag of a file (a checksum without
quotes, or a weak tag for a file from before checksums), `matchETag`, the
lifetime, the 404, 304 and 200 of the origin, and the ways a body ends.

* A 404 is that of a file whose index is not put yet (`NotFound`), or of any file while the
  storage cannot be read (`Misread`), because `GetFile` reports every failure as a
  missing file (`origin/repository/file_repository.go:43`). Other failures are an error (`Down`).
* A body that ends with the connection is an error for the edge (`Break`). A body under which
  the storage of the origin failed (`Cut`) ends like a complete one, because the origin sends no
  Content-Length and its handler returns normally after `io.Copy` fails.
* `commit` publishes a body whose last write may still be in flight
  (`edge/adapters/cache/writer.rs:61`). The client that brought it has all of it from the stream;
  who maps the file before `LandWrite`, or at any time after `LoseWrite` or a `Crash` of the edge
  in between, has it `short`. A leader that revalidates serves what it mapped under the lock,
  before it asked.

Clients that leave are not in this module: `EdgeCache` has them.

## 8. Runs

The runs of the edge have three requests, two in one process and one in another, which covers
a leader, a waiter that is next and a reader of the fast path, in every placement.

| Run | Bounds | Shows |
|---|---|---|
| `edge_safety` | 2 versions (the first tagged, 2 chunks; the second untagged, 1 chunk), TTL 0 or 1, clock to 2; origin errors, failed and lost writes, crashes; symmetry of the two requests of one process | `TypeOK`, `LeaderHoldsLock`, `EntryIntact`, `ServedMatchesHeaders`, and as action properties `CleansUp`, `AsksOnlyWhenStale`, `NeverBackwards`; `KeepsContract`, the refinement of `CacheContract` |
| `edge_disconnect` | 1 version of 1 chunk, TTL 1, clock to 1; clients leave, reads and writes fail; fairness | `LeaderHoldsLock`, `AllAnswered` |
| `edge_no_flush` | no fault | violation of `PublishedIsImmutable` |
| `edge_orphan` | clients leave | violation of `ServedMatchesHeaders` |
| `edge_coalescing` | origin errors, clock stopped | violation of `OneRequestToOrigin` |
| `origin_store` | 2 uploads of one user, 2 downloads of the first file (one conditional), 1 listing, at most 2 failing calls; refused calls, departed clients, crashes | `TypeOK`, `AcknowledgedIsStored`, `DownloadIsWhole`, `ListingIsComplete`, `RolledBack`, and as an action property `FoundOnceCreated` |
| `origin_lost_reply` | 1 upload, 1 download; lost calls | violation of `DownloadIsWhole` |
| `origin_meta_name` | 1 upload of a file called `meta.json`; no fault | violation of `AcknowledgedIsStored` |
| `edge_pool` | 1 process with 2 threads, 3 requests; no fault; fairness | violation of `ParallelRequestsAsk` |
| `users` | 2 registrations of one login with different passwords, in two spellings, 1 of a login that grows when lowered, 2 logins, 1 verification; a legacy user or an empty database; pool of 2; 1 changed password, clock to 2 half seconds, tokens of 1 second; all faults; fairness | `TypeOK`, `UniqueAccount`, `ConflictIsReal`, `PasswordKept`, `LoginDecided`, `RehashedOnLogin`, `ActiveMeansUser`, `TokenWindow`, `AllAnswered` |
| `issue_stats` | the turn of 2018, 3 moments; an empty repository and one of 2 issues and 2 pull requests, up to 5 items and 2 events; pages of 2; four sets of arguments; fairness | `TypeOK`, `EachOnce`, `NoneMissed`, `WaitsFromLinks`, `DaysAddUp`, `TotalsRun`, `ExitTells`, `RunEnds` |
| `delivery` | 1 upload and 1 old file, 2 downloads of each, 2 edges, lifetime 2, clock to 2; the origin down or without its storage, broken and cut bodies, late and lost last writes, edges that restart; symmetry of the edges and of the downloads of one file | `TypeOK`, `OneBody`, `ServedIsFile`, `FoundOnceAcknowledged`, and `EdgesKeepContract` |

Two versions are enough to see a mixture, two chunks to see a part of a file,
and a clock of two ticks lets an entry be filled, expire and be replaced or
refreshed by another request that then serves a third. Of the origin, two uploads give a
listing one file that is done and one that comes or goes meanwhile; two failures
let a clean-up fail as well, which `RolledBack` excepts and the other properties
do not. Deadlock checking is off: all requests may be over and the clock
at its bound.

Of the users, two registrations and two logins of one row are every race between two writers;
a pool of two can be filled by them, so that the others wait for a connection, and a
faster clock or a third login adds only more of the same. `issue_stats` has a first page without an
issue, a timeline of two pages, an issue over the turn of an ISO year that is not that of
the calendar, and two events, enough to move an item between two pages and back.
Three threads instead of two in `edge_pool` give no violation: what counts is as many waiters
as threads. `delivery` lets both a leader and a waiter of one file fail, expire and renew.
Each of the three causes `ServedIsFile` excepts, and the one `FoundOnceAcknowledged` excepts, is
reached within these bounds: without any one of them TLC finds the property violated.

**Fairness** (`FairSpec`): weak fairness of each request's own steps, `Serve(r)`.
The tokio runtime polls every runnable task and its pool runs every submitted operation
(which `EdgePool` withdraws), the kernel wakes a waiter of a free flock,
reqwest gives up after `ORIGIN__TIMEOUT`, and a client that does not leave keeps
reading the body. The last one is an assumption about clients: the code
has no timeout for a client that stalls, and such a client makes every other
request of the file wait. Arrivals, faults, leaving clients and the clock are not
fair. A lock does not need strong fairness here because requests are finitely many:
after the others are served it stays free.

`Users` has weak fairness of one action, *some* statement of some request: as long as a
statement can go on, the event loop and the database carry one out. This is
weaker than fairness of each request and is enough because requests are
finitely many. `IssueStats` has weak fairness of the script's next step, which assumes that
every request is answered or refused: `urlopen` is called without a timeout
(`stats/main.py:211`), and one that is never answered keeps the run for ever. `EdgePool` has weak
fairness of each request. Its counterexample is a state in which no request can take a step.

### What the violations say

* `edge_no_flush`: `commit` (`edge/adapters/cache/writer.rs:61`) renames `.bin.tmp`
  without flushing the tokio file, so the last chunk may land after the entry is
  published, or never, if that write fails: the next HIT then maps a file shorter than its
  content_length. The comment at `edge/adapters/cache/repo.rs:46` counts on the
  opposite.
* `edge_orphan`: a task dropped at the await of `tokio::fs::write`
  (`edge/adapters/cache/meta.rs:22`) releases the lock, but its write still runs and may fall
  between the next leader's own write and rename of `.json.tmp`. The entry then pairs
  old metadata with new bytes until it expires.
* `edge_coalescing`: `edge-cache-service/README.md:3` guarantees one origin request
  for parallel requests; this is so when the leader succeeds (`AsksOnlyWhenStale`
  holds) and not when it fails.
* `origin_lost_reply`: a put of the index that timed out for the origin and is carried out by
  MinIO during or after the clean-up (`origin/repository/storage.go:94`) leaves an
  index entry without content. A download of it is a 200 with an empty body, where
  `origin-service/README.md:61` says the body is the content, and which an edge caches.
* `origin_meta_name`: the sidecar's key (`origin/repository/storage.go:163`) is in the name
  space of the clients' file names. A file called `meta.json` is answered 201 and
  its content is gone, against `origin-service/README.md:17`.
* `edge_pool`: `acquire_lock` waits for the flock inside `spawn_blocking`
  (`edge/adapters/cache/repo.rs:92`). When the waiters of one uncached file have all the
  threads, the lookup of their leader has none. The leader keeps the lock, so no waiter
  gives its thread back, and the request `edge-cache-service/README.md:3` promises to the
  origin is never made; other files of the process are not served either.

Three more things TLC shows and no run keeps:

* `execute` treats an I/O error of the second lookup like a miss (`usecase.rs:35`) and refetches
  over an entry that may be fresh, so that fast-path readers can see its two renames apart. This
  is why `edge_safety` leaves `ioRead` out and why the theorems below assume it away.
* When `io.Copy` fails after the 200 (`origin/handlers/url_handler.go:188`), the handler returns
  normally and the response ends like a whole one. The edge serves the part, caches it, and every
  304 renews it, where `origin-service/README.md:61` says that the body is the content. No client
  can tell; of a file whose last write was lost it can, since the content_length the edge sends
  counts that write (`writer.rs:67`). `ServedIsFile` without its exception for `cut` is violated
  by the fault `cut` alone.
* A storage that fails under the index makes a file that was answered 201 a 404
  (`origin/repository/file_repository.go:43`), and the edge passes it on
  (`edge/adapters/origin/client.rs:40`). `origin-service/README.md:68` says that a 404 means there
  is no such file. `FoundOnceAcknowledged` is what remains: the answer is not remembered.
  Without its exception for `misread` it is violated by the fault `read` alone. In `OriginStore`
  the same failure is excluded by `ReadsSucceed`.

## 9. Proofs

### EdgeCache

`EdgeCacheProofs.tla`, for any number of requests, processes, versions, chunks and
lifetimes; the assumptions on the constants are those `EdgeCache` declares.

* `TypeCorrect`: `Spec => []TypeOK`, every fault enabled. Not inductive alone: a streaming
  request must have an answer (`Replied`).
* `SingleLeader`: `Spec => []LeaderHoldsLock`, every fault enabled.
* `CacheCoherent`, `ServedCoherent`, `AskedOnlyWhenStale`, `NeverGoesBack`: `EntryIntact`,
  `ServedMatchesHeaders`, `AsksOnlyWhenStale` and `NeverBackwards` under
  `ReliableReads` (no leaving client, no failing lookup: with either, TLC finds the
  first two violated), with failing writes, origin errors and crashes.

The four rest on one inductive invariant, `Inv`:

* `EntryInv`: the entry is *stale* - expired, and the origin has moved on or will not
  be asked conditionally, so that it can never become servable again as it is - or
  *intact*;
* `LeaderInv`: what the holder of the lock knows at each step: from the fetch on, the
  entry is absent or stale, hence replacing `.bin` first and `.json` second is
  harmless; while refreshing, it is expired and intact;
* `InodeInv`: the inode under `.bin` is never the one under `.bin.tmp`, an inode has
  one writer, and holds the chunks its writer counts, less the buffered one;
* `ReaderInv`: between its two reads, a fast-path reader has seen the current
  metadata or an expired one; it checks the expiry after mapping the bytes, which is
  what makes the reads without a lock safe;
* `TypeOK`, `Replied`, `LeaderHoldsLock`, `NoOrphans`.

`LeavesNoTemporaries` is `CleansUp` under `StayingClients` alone: lookups may fail. Its
invariant, `TidyInv`, says that nothing is left behind by a departed client, and that the
leader of a download has moved `.bin.tmp` away before it writes the metadata. An operation left
behind could make the file again after that, which is why clients stay.

Only model-checked: the liveness property `AllAnswered`.

### The contract of the cache

`EdgeContractProofs.tla`: `ContractKept`, `Spec => KeepsContract` under `ReliableReads`. The
invariant `Inv` above is strong enough: every step of `EdgeCache` is, under the
mapping, a `Hit`, a `Renew`, a `Fail` (of all requests of a process when it dies), a
tick or a stutter. A rename of `.json` is a `Renew` because `LeaderInv` says that the
entry it replaces is absent or stale, and a request that ends with the
bytes of a lookup is a `Hit` because of `ReaderInv`.

### OriginStore

`OriginStoreProofs.tla`, for any number of uploads, downloads, listings and failing
calls. The hypotheses name what the code relies on: `PlainNames` (no file called
`meta.json`), `NothingIsLost` (a failed call has no effect), `ReadsSucceed`.

| Theorem | Property | Hypotheses |
|---|---|---|
| `TypeCorrect` | `TypeOK` | none |
| `Acknowledged` | `AcknowledgedIsStored` | `PlainNames` |
| `Complete` | `ListingIsComplete` | `PlainNames` |
| `Found` | `FoundOnceCreated` | `PlainNames`, `ReadsSucceed` |
| `Whole` | `DownloadIsWhole` | all three |
| `Undone` | `RolledBack` | `PlainNames`, `NothingIsLost` |

`Progress` is the invariant of an upload that has not failed: it has what it put, and
no call of its own is late. It carries the first three with every fault enabled,
lost calls included, because an upload's late calls begin where it fails. For
`Whole`, `IndexLeads` says that an index entry which exists, or which a departed client's put
may still create, belongs to an upload that will remove nothing any more:
the index is put last, and a clean-up only starts when that put did not happen.
That last step is what a lost reply breaks. `Absent` says which objects an
upload cannot have at each of its steps while at most one call has failed.
`StepsOf` reduces the next-state relation to the steps one upload can see; every
invariant is proved from it.

### Users

`UsersProofs.tla`, for any number of registrations, logins, verifications, logins of the
table, connections and changes, with every fault enabled and no hypothesis
beyond the assumptions on the constants in `Users`.

| Theorem | Property |
|---|---|
| `TypeCorrect` | `TypeOK` |
| `OneAccount` | `UniqueAccount` |
| `ConflictsAreReal` | `ConflictIsReal` |
| `PasswordsAreKept` | `PasswordKept` |
| `LoginsAreDecided` | `LoginDecided` |
| `LoginRehashes` | `RehashedOnLogin` |
| `ActiveTokens` | `ActiveMeansUser` |
| `TokensExpire` | `TokenWindow` (an action property) |

`UsersInv` is their inductive invariant. `TableInv` is the unique index seen from both sides: no
two rows, and no row and a registration about to commit, have one login. The migration
is in it: there are no rows without the index. `PasswordInv` ties each row to the password
last set. `SignInInv` says what a login still knows of the row it has read: whoever
holds the row's lock has read its current hash, hence a rehash replaces a hash by one of the
same password; and a login whose compare and swap failed was overtaken by a hash that is
not deprecated. Only `AllAnswered` is left to TLC.

### Delivery

`DeliveryProofs.tla`, for any number of files, edges and downloads, any lifetime, any set of
old files and every fault of `Delivery`. There is no hypothesis on the faults: what a failing
storage, a cut and a late or lost last write do is in the model, and the properties name what they
excuse. What `Delivery` itself leaves out (clients that leave, lookups that fail) the theorems
leave out too.

| Theorem | Property |
|---|---|
| `TypeCorrect` | `TypeOK` |
| `CachedOnce` | `OneBody` |
| `ServedWhole` | `ServedIsFile` |
| `FoundAfterwards` | `FoundOnceAcknowledged` |
| `EdgesKeep` | `EdgesKeepContract` |

`DeliveryInv` is their inductive invariant:

* `PlaceInv`: a download is at the edge of its file, and one that asks or reads has the
  lock there. Hence two that read a body of one file are the same download.
* `CopyInv`: a copy carries the tag of its file, and is of a whole body unless the origin cut it.
* `DiskInv`: where there is no copy, no last write is in flight or lost. With `BodyInv`, a commit
  never follows a loss, so an excuse, once there, stays; this is what `ServedIsFile` needs
  of answers given long ago.
* `MappedInv`: whoever asks the origin about a copy has mapped it, whole or with an excuse.
* `BodyInv`: who reads a body has no copy. This is where the comparison of tags counts:
  `MatchETag` of a tag with itself holds for the quoted ones and, because two tags
  without a value match, for the checksums as well, so whoever has a copy gets a 304.
* `StoredInv`: without a copy nothing was stored. With `BodyInv`, a body is stored at most once.
* `DueInv`: what was acknowledged is indexed, so a 404 for it is a `Misread` of that very download.

`EdgesKeep` adds `StaleInv`: whoever asks the origin has nothing valid, and keeps having
nothing valid until it stores, because only the holder of the lock stores. Every step is then
a step of `CacheContract` for each edge and file: a `Hit`, a `Renew`, a `Fail` of all
downloads of an edge that dies, a tick, or a stutter.

### IssueStats

`IssueStatsProofs.tla`, for any repository, any pages of listings and timelines, any number of
events and all arguments, with no hypothesis beyond the assumptions in `IssueStats`.

| Theorem | Property |
|---|---|
| `TypeCorrect` | `TypeOK` |
| `CountedOnce` | `EachOnce` |
| `NoneLost` | `NoneMissed` |
| `WaitsAreLinked` | `WaitsFromLinks` |
| `ExitMeansDone` | `ExitTells` |

None of them is inductive. `StatsInv` is their invariant; `Grows(start, items)` is what makes
it one: an item keeps its number, its kind, its time and its keywords, and a timeline is only
added to, so that what is read later agrees with what was there at the start.

* `ListedInv`: what was fetched is on the pages before (`Done` places), and of the issues
  there at the start, those on the pages before were fetched.
* `IndexInv`: the index has times of pull requests that close the issue, and of those there at
  the start, the ones on the pages before have been met. An item's place among the
  pull requests does not change, because new ones come behind it.
* `TimelineInv`: `earliest` is the time of a linked pull request and no later than any on
  the part of the timeline read so far; the cursor is inside the timeline, so what is added
  comes behind it.
* `WaitsInv`: every time found is right, also when GraphQL is given up later in the run.
* `PhaseInv`: what each phase has left or not yet begun.

That an empty page means the end rests on `RankOnto`: the places of a finite set of numbers
have no gaps. It is proved from `LeastNat` (a set of naturals that is not empty has a
least element), which follows from the well-foundedness of `<` without an induction scheme, and
which also gives the least of a set of times (`EarliestFacts`).

### Periods and the rows of IssueStats

`PeriodsProofs.tla`, for times before 2030 (`Moment`, the range in which `Periods` has years)
and both kinds of period:

| Theorem | Says |
|---|---|
| `KeysInOrder` | a key is before another exactly when its time is earlier and the keys differ |
| `SplitExact` | of an interval, every half day is in the part of its own period; a part has as many half days as it says, and at least one; the parts are in the order of their keys |

A day has one year and one month (`YearOfDay`, `MonthOfDay`), because years and months follow
one another without gaps (`YearLength`, `MonthLength`, from tables of their starts); a week is
seven days from a Monday, and two weeks have one key only if they are one, because the weeks
of a year are counted from the same day (`SameWeek`). From these, `PeriodFacts`: the times of a
key are those from `PeriodFloor` to `NextPeriodStart`. `SplitInterval` is a recursive function.
That its recursion has a solution (`SplitDefined`) and what the solution says are two arguments
from the latest time that has none, or for which it is false, by `LeastNat`; `PartThenRest` is
the step.

`ReportProofs.tla`, for any repository, any arguments and any events:

| Theorem | Property |
|---|---|
| `DaysAreExact` | `DaysAddUp` |
| `TotalsAreRunning` | `TotalsRun` |

Their invariant is `StatsInv` with `PastInv`: no time of the repository, of what was fetched or
of `now` is after the last moment of the run, so every interval is in the range of
`SplitExact`. `MomentsAssumption` is what it needs: the clock does not go back, the
repository at the start is of before the run, and the run ends before 2030. Then

* `SumOfSizes`: numbers that are the sizes of sets apart from each other add up to the
  size of their union (`SumFacts`: the recursion of `SumOf` has a solution). It makes the
  days of an issue in a period those of its interval (`PartsAdd`), those of a row those
  of all issues (`PeriodAdds`), and a total the number of issues in the rows so far
  (`TotalFacts`).
* `NthFacts`: the rows have each key once and in order, since the numbers of keys before a
  key tell keys apart and there are as many as places.

## 10. What is only model-checked

Liveness: `AllAnswered` of both modules and `RunEnds`. Every invariant and every action property
of the passing runs is a theorem, a few of them under a hypothesis on the faults (section 9). The
properties of the runs that expect a violation are not: the code does not have them.

## 11. Not modelled

* Settings, logging, swagger pages, request routing and dependency injection of the services: no
  state after the start. What a setting decides is a constant (`TTLs`, `PoolSize`, `MaxAge`,
  `Threads`).
* `apigate`: the crate is not in the repository. Its hash is an arbitrary fixed function and its timeout a
  client that leaves.
* edge: `is_valid_file_id`; which directive of Cache-Control wins and lifetimes beyond 63
  bits (the models start from the lifetime that results).
* origin: the size limit and the form of an upload beyond their refusal; listings longer than a
  page of MinIO's; the stub verifier, a test double.
* users: the text of errors, offline migrations and downgrades (nothing in the
  repository runs them), the cost of hashing.
* stats: `--since`, rounding, the layout of the table and of the charts, rate limits
  beyond a refused request.
* load tests and the compose file: no state of the system.
