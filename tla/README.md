# Verification of itayo

itayo is a single-user server that speaks the Dawarich iOS app's HTTP API over
one SQLite file: the app uploads batches of location points, a map and some
statistics read them back, and two settings documents are synchronised. This
directory holds TLA+ models of it, the TLC runs that check them on small
instances, and proofs of the central properties for instances of any size.

## The system

| Component | Code | State | Operations |
|---|---|---|---|
| Ingest | `ingest/ingest.go` | none | GeoJSON feature to point, or dropped |
| Point upload | `httpapi/points.go` createPoints, `store/points.go` Upsert | `points` table, its AUTOINCREMENT counter | POST /points: one transaction, one `INSERT ... ON CONFLICT DO UPDATE` per point |
| Point listing | `httpapi/points.go` listPoints, `store/points.go` List, ListFingerprint | none of its own; clients keep pages and ETags | GET /points: fingerprint, COUNT, SELECT |
| Insights | `httpapi/insights.go`, `insights/insights.go`, `geo/haversine.go` | none | GET /insights, /insights/details, /stats: distances, streaks, heat map, months, comparison |
| Aggregating queries | `store/points.go` TrackedMonths, YearsWithPoints, CoordsBetween, PointCount | none | one statement each, for Insights and /points/tracked_months |
| Mobile settings | `httpapi/settings.go`, `store/settings.go`, `settings/settings.go` | `mobile_settings` row | GET and PATCH /settings/mobile |
| Web settings | same files | `settings` row | GET and PATCH /settings |
| Start-up | `cmd/itayo/main.go`, `store/store.go`, `store/migrate.go`, `store/identity.go` | schema, `schema_migrations`, journal mode, `identity` | open, migrate, ensureWAL, EnsureIdentity, listen |
| Shutdown | `cmd/itayo/main.go`, `store/store.go` | connections, pool, WAL | signal, grace of ten seconds, Close, exit |
| Surroundings | `auth`, `config`, `logx`, `version`, middleware in `httpapi/server.go` | none after the start | comparison of the key, headers, log lines |

The handlers run concurrently (one goroutine per request). They share nothing
but the database, which they reach through a `database/sql` pool of exactly one
connection (`store.go:32`). A statement or an open transaction holds that
connection; a handler that needs it waits. Everything that takes more than one
statement outside a transaction - listing, insights, both PATCHes, migrations,
EnsureIdentity - can be interleaved with other handlers or cut short by the end
of the process. The service manager starts a process again that has ended
(`contrib/systemd/itayo.service`).

What is hard here:

* the one transaction (Upsert) under concurrent handlers, failing statements,
  disconnecting clients, a closing pool and a dying process;
* what survives a stop and a power loss, with WAL and synchronous=NORMAL;
* conditional GETs, whose ETag is made from three aggregates with a resolution
  of one second, before the page it stands for is read;
* pages counted by OFFSET while points arrive;
* answers put together from several statements;
* load-merge-save of settings without a transaction;
* migrations whose statements commit one by one;
* arithmetic and time at boundaries: timestamps in two units and three types,
  NaN and infinities, truncation and rounding, days and years of local time.

`PROJECT.json` lists these hazards one by one with the line where each bites and
the properties that are about it.

## Modules

| Module | Models | Kind |
|---|---|---|
| `PointTable` | what the points table promises its readers: an atomic map with last-write-wins batches and non-decreasing stamps | abstract specification |
| `PointStore` | POST /points as it runs | detailed specification, implements `PointTable` |
| `Lifecycle` | the serving process around `PointStore`: signal, grace, Close, exit, kill, power loss | composed with `PointStore`, whose steps the handlers take |
| `PointListing` | GET /points on top of `PointTable` | detailed specification, composed with the abstract table |
| `PagedWalk` | the clients of GET /points | composed with `PointListing` |
| `Calendar` | Go's local time: zones, Date, AddDate | operators |
| `Insights` | `insights.go` | operators on `Calendar` |
| `Streaks` | one year of `Insights` while points arrive and time passes | specification over `Insights` |
| `InsightsRequests` | /insights, /insights/details, /stats, /points/tracked_months | composed with `PointTable` and `Insights` |
| `Ingest` | values on their way from the request to the row and back out | operators, and a specification of uploads and lists |
| `Boot` | start, migrations, identity, death and restart | detailed specification |
| `MobileSettings` | GET and PATCH /settings/mobile | detailed specification |
| `WebSettings` | GET and PATCH /settings | detailed specification |
| `StoreProofs`, `TableProofs`, `ListingProofs`, `IngestProofs`, `InsightsProofs`, `BootProofs`, `MobileProofs`, `WebProofs` | | theorems and proofs |
| `MC...` | constants of the instances TLC checks | |

`PointTable` is where the modules meet: `PointStore` implements it, and the readers
(`PointListing`, `InsightsRequests`) are composed with it instead of with `PointStore`, so
their state spaces do not multiply.

Some definitions are followed or preceded by a variant marked "mutant": a
version of the definition with a plausible bug. No specification uses them;
substituting one for its original must break the property it is paired with in
`PROJECT.json`, which shows that the property depends on the code being right.

### PointTable and PointStore

A *key* stands for (timestamp, latitude, longitude), the conflict target of the
upsert; an *attr* stands for all other columns of a point, which are only ever
written together. `PointStore` has for each request the place its handler has
reached (`pc`), the batch, and the rows its statements returned (`out`, whose
length is also the loop counter of Upsert). `db` is what SQLite has committed and
`view` what the connection sees; they differ only inside a transaction.

| Action | Code |
|---|---|
| `Receive` | a request with the points that survived ingest; an empty batch returns at `points.go:66` |
| `Begin` | BeginTx, waits until the connection is free |
| `InsertRow`, `UpdateRow` | one execution of the prepared statement, without and with conflict |
| `Commit`, `Respond` | tx.Commit, then the 200 with the ids (recorded in the history variable `told`) |
| `Fail` | an error or a cancelled context in any of these: deferred Rollback, 500 |
| `Crash` | the process dies and is started again |
| `Tick` | a second passes |

An update may use up an AUTOINCREMENT id (SQLite picks the id of the INSERT
before it finds the conflict); the model allows both outcomes up to `MaxBurn`.
A malformed body (400) changes nothing and is no action. Time never runs
backwards in the model: after the host's clock is set back, the properties about
stamps are void.

Run `point_store` (two handlers, two keys, four batches that overlap, repeat a key
or are empty; three values of the clock):

* `AnsweredStored`: a (key, id) answered with 200 stays stored under that id. The
  app deletes what it has uploaded, so this is the property the program exists for.
* `AnswerMatchesBatch`: the answer has one committed id per point, in order, also
  if others commit between the commit and the answer.
* `RowsSurvive`: no step deletes a row or changes its id or created_at.
* `WholeBatch`: the committed rows change only by a whole batch of a handler that
  goes on to answer 200.
* `StampsMonotone`: a row never becomes visible with a stamp older than one
  already visible. Stamps are taken per statement and become visible at the
  commit, so this depends on transactions not overlapping; the list ETag depends on it.
* `TablePromise`: with `rows` read off `db`, every behaviour is one of `PointTable`.
* `IInv`: the inductive invariant of the proofs, with the types and that no id
  names two points; checked before it was proved.
* `EveryRequestEnds`: under weak fairness of each step of a handler and strong
  fairness of `Begin`. A goroutine that can run does run; a waiting handler gets
  the connection if it becomes free again and again, because `database/sql` hands
  a returned connection to a waiter it picks at random. Weak fairness of `Begin`
  would not do: the connection is not free all the time, as another request can
  take it whenever it is given back. Failing and crashing carry no fairness.

Two handlers are enough for one to commit between any two steps of another; two
keys are enough for a batch that writes a key twice with another in between.
With more, nothing new can interleave, and the proofs cover the rest.

### Lifecycle

The module extends `PointStore` by the process: `phase` is what run is doing, `cause`
why it returns, `fresh` the accepted connections whose request has not been read
yet. `wal` is the sequence of states of the database that a power loss may bring
back: its head is what is synced, its last element what is committed. SQLite
with synchronous=NORMAL syncs at checkpoints only, which a commit may do
(wal_autocheckpoint) and closing the last connection does.

| Action | Code |
|---|---|
| `Signal` | NotifyContext is done: Shutdown with a context of ten seconds |
| `Accept`, `Drop`, `Arrive` | connections of the listener; after the signal only connections already accepted bring a request |
| `ShutdownDone`, `ShutdownExpires` | Shutdown returns nil, or DeadlineExceeded |
| `ListenFails` | ListenAndServe returns an error: run returns without Shutdown |
| `Close` | the deferred Close: BeginTx fails from now on, a connection in use is closed when it comes back |
| `CommitLogged`, `FailOrGiveUp` | handlers that are left commit or roll back under the closed pool |
| `Exit`, `Kill` | the process ends, by itself or at any time; `safe` keeps what was answered when it ends by itself with the connection free |
| `PowerLoss` | the database goes back to an element of `wal`; `told` forgets what that makes void |

Run `lifecycle` (the instance of `point_store`, one second of grace, at most one
unsynced commit besides the synced state, one power loss):

* `GracefulCutsNothing`: when Shutdown succeeds no handler is left that was reading,
  waiting or writing, also if it came in on an open connection after the signal.
* `StoppedIsDurable`: what was answered before the process ended by itself is there
  after every power loss later on, unless a handler still had the connection then.
  It is more than a graceful stop: when Shutdown runs out of time or the listener fails,
  Close finds the connection in use and the checkpoint is left to the handler that
  gives it back last. Otherwise a power loss may take a batch that was answered,
  which is what synchronous=NORMAL buys its speed with.
* `StopEnds`: a process that was signalled ends. The fairness is that time passes
  (`TickInTime`) and that the goroutine of run goes on (`ShutdownDone`, `ShutdownExpires`,
  `Close`, `Exit`); handlers, clients and failures have none, so a handler that
  hangs for ever is included.
* `LifeInv`: the inductive invariant of the proofs.

A stop is for the database a crash of `PointStore`, by the way `Exit` and `Kill` are
written; no property is spent on that. One second of grace is enough for a request to end
before, at and after it.

### PointListing and PagedWalk

`PointListing` extends `PointTable`: uploads are its atomic `Upsert`, which `PointStore`
implements. Readers change nothing, so one client stands for all. A URL is a
record of the parsed parameters; an unusable number has become its default, a
box is the set of keys inside it or `BadBox` (400). `Normalized` is
normalizeListFilter, with `DefaultPerPage` for 100 and `MaxPerPage` for 10000,
`Matching` is listWhere, `ETag` the tuple that pointsETag hashes (hash collisions are
left out). Any order of points with equal timestamps is allowed. A page is the
sequence of its keys and attrs; slim pages show some of the columns an attr
stands for. `ReadFingerprint` (or `NotModified`), `CountRows` and `ReadPage` are the three
statements, with uploads between any two; `ReadFails` is an error in any of them.

`PagedWalk` adds the clients, which are outside the repository and modelled from
what listPoints offers them. One asks for one URL again and again, with or
without the ETag of the page it keeps (`Revisit`). The others walk from page 1 until
a page is short, or until X-Total-Pages (`StartWalk`, `Fetch`, `Serve`, `TurnPage`).

Run `point_listing` (four points, two of them with one timestamp, ahead of the clock
at first, that arrive in four batches and are rewritten; seven URLs: both orders and
none, windows that move or not, a box, page 0 and per_page 0, a second page, a
per_page above the maximum, a bad box; 2.1 million states):

* `NotModifiedSameRows`: a 304 leaves the client with a page that has the points
  the query selects now. The ETag is older than the page it was sent with and
  says nothing of the window; the property holds because points are never
  deleted, the window of a URL never shrinks, and the count is hashed.
* `NotModifiedStaleOneSecond`: if a column on that page is outdated, the point was
  rewritten in the second of the newest stamp in the window. Within that second a
  304 does hide a rewrite: stamps have no finer resolution.
* `PageAsFullAsTotal`: a page is never shorter than the total sent with it promises.
  It may be longer, as COUNT and SELECT are two statements.
* `MissesOnlyTies`: a walk to the first short page misses no point that was there
  when it began, whatever arrives in front of or between its pages; only points
  with equal timestamps, which may change places between statements, can be missed.
* `QuietWalkExact`: while nothing arrives the pages of either kind of walk are the
  selection from its beginning, in order, disjoint and without a gap (without ties),
  whatever per_page is sent. A walk to the first short page gets all of it, and so
  does one by X-Total-Pages for a per_page within the limits. Outside them X-Total-Pages,
  which divides by the per_page sent, or is 0, may be too small and end the walk early.

Four points are the least with a tie and a page on either side of it. The run ends
in states where the walk is over and the clock and table have nothing left to
do, so deadlock is not checked.

### Calendar, Insights and Streaks

`Calendar` is Go's time package as insights.go uses it: a location is a sequence of
periods with their offsets, `Date` makes a time from local fields with one
correction of the offset, as time.Date does, and so gives a skipped local time
one before or after the gap. Days are numbers, a formatted date is its day.
The length of a day in seconds and of the months in days are constants.

`Insights` has one operator per function of insights.go: `DistancesByDay` with its filter
of gaps and speeds, `TotalsFromDaily`, `HeatmapFromDaily` with `LongestRun`, `CurrentRun`
and `Percentile`, `PatternsFromCoords`, `Comparison`, `ComputeStats`, `YearBounds`.
Rounding is that of math.Round on fractions. Where the code ranges over a map and the
order shows (ties for the biggest month), the operator is the set of outcomes. The
haversine formula is the constant `Distance`.

`Streaks` is one year of it: the state is the meters per day; a point of any day may
arrive, or time may pass, to moments before, in and after the year.

Run `streaks` (days of four hours and a year of 14 of them; five days on which points
arrive, at both sides of a month's and the year's end, with zero, some or twice as
many meters; zones at, east and west of UTC, two of them with a summer time that
skips and repeats an hour; every set of active days occurs):

* `LongestIsLongest`: the longest streak and its dates against a definition on
  sets of days, across days of 23 and 25 hours.
* `CurrentIsCurrent`: the streak that ends today or yesterday, or on the last day of
  a year that is over; none for a year to come.
* `FiguresAgree`: percentiles ordered and in bounds, the biggest month exceeds all
  others also after rounding, the rounded months of /stats stay within half a
  kilometer per day of the rounded year, and each of them of what the calendar and the
  totals count for the month (`MonthsOfCalendar`). The last holds where no midnight is
  skipped: ComputeStats parses each date again in the zone (`BookedMonth`), and the skipped
  midnight of the first of a month becomes a time of the month before, for which
  /stats then counts the day, while the totals, which parse in UTC, do not.

`QuietMidnights` says of a zone that it neither skips nor repeats a midnight: its changes
are days apart, and up to each of them it is the same day by the offset before and
after. The zones of this run do so, which TLC checks (`QuietAssumption`), and in all
such zones the streaks and the months are proved right.

Run `streaks_midnight` shows where the code fails: in a zone whose clocks skip a
midnight (Africa/Cairo or America/Santiago, say), the local midnight of that day is
another time, AddDate of the day before does not meet it, and the longest streak
breaks there or is dated wrongly. Its zone is not one of `QuietMidnights`.

### InsightsRequests

A handler with its statements: `ReadYears`, then for the insights `PickScope` and one or
two reads of a year's coordinates, for the statistics one read per year in a loop and
the count. Uploads commit between any two, the clock moves on, any statement may
fail. `before` is the history of what was stored when the request came.

Run `insights_requests` (five points around a New Year, two with one timestamp, some
too far apart or too fast to count, in a zone east and one west of UTC; overview,
details, statistics and tracked months with and without a year and a unit):

* `ReadsWholeYears`: what is read for a year are points of that year of local time,
  and all that were stored when the request came. The bounds come from one
  conversion (local midnight to instant), the years from the opposite one. In a zone
  that changes its clocks on 31 December or 1 January the two may disagree, so
  `RequestsAssumption` leaves such zones out (`QuietNewYears`).
* `StatsAddUp`: the points /stats counts are no fewer than those of the years it lists,
  and as many when nothing arrives; no point is in two years.
* `TotalsCountAll`: the year filter in TotalsFromDaily and HeatmapFromDaily, which parse
  dates as UTC, loses none of the distance.
* `ComparisonTruthful`: the change to the previous year has the sign of the difference
  of what is shown for the two years, and is present exactly if the year before has points.

The zones differ in which side of the boundary each point falls on; more years
would repeat the same boundary.

### Ingest

A finite float is a number of hundredths or the like (`Sub` to the unit), a JSON
value has a type, and a string carries what strconv and time make of it. `ToInt` is
Go's conversion to int64, which out of range gives what the machine gives:
the model has the outcomes of amd64 and arm64. `Nearest` rounds to a float of `Bits`
binary digits, so that the product of a battery level and 100 is rounded as in
the code before it is truncated (`PercentOf`); a level that is NaN or infinite is converted
like any float out of range, so `BatteryPercent` is a set. An infinity also stands for the
finite levels whose product is beyond int64. `GeoJSONPoint` is the set of points a location
may become; `Upsert` and `ListPoints` are atomic here, and `ListPoints` has only the box: the
window of time and the paging are in `PointListing`.

Run `ingest` (ten milliseconds a second; the globe from -9 to 9 and -18 to 18 degrees;
floats of eight bits, integers up to 500; two fixes sent in every form of time, among
locations without coordinates, on the null island, off the globe, with NaN, or without a
usable time; batteries from none to a full one, infinite and NaN; instants before
1970, and numbers no instant has; boxes with NaN, infinities, bounds in the wrong order):

* `TypeOK`: what is stored is within the bounds of its column, whatever is sent - but
  an altitude, an accuracy or a speed may be an infinity.
* `OneRowPerFix`: a fix is one row, whether its time came in seconds, milliseconds,
  as text of either, or in RFC 3339; bad ones among them are dropped without
  harm to the others. A number that is no instant is not dropped: it is stored with
  a timestamp of 0 or at an end of int64.
* `BatteryNear`: the level is stored as sent or one percent less (0.29 becomes 28), and NaN or
  a negative level as none; an infinite one may be stored as the greatest integer. A key
  at 0 or an end of int64 is left out, as a number that is no instant may have
  replaced the fix there.
* `ReplyUsable`: no box with a NaN passes for an empty one, and a body is missing after
  the status 200 only because of a stored infinity, which JSON cannot express.

The numbers are small so that every boundary lies within reach: just below, at and
above the threshold of milliseconds, the end of the integers, the poles.

### Boot

The state is the database file - its objects, recorded versions, journal mode and identity
row - and the place the starting process has reached. `Die` is the end of the process
alone, by a failing statement, a signal or a crash: what was committed stays, a memory
database is gone. `PowerLoss` is that of the machine. What it may leave is in `log`: the
database as it was last synced and after each commit since. A commit is synced at once, as
is a change of the journal mode, but for a connection with synchronous=NORMAL (`Lazy`):
one opened by a plain path, and any other from ensureWAL on. Then `Checkpoint` stands for
the commits of the handlers, which are not modelled here, reaching wal_autocheckpoint, and
a process that ends may have come to close the database. `Start` may find another
configuration. The identity's owner is the pair of USER_EMAIL and USER_THEME.
EnsureIdentity is one action: one process uses the file, and death between its two
statements changes nothing.

Run `boot` (plain, URI and memory paths; no database or one of the MVP at first; two
configurations; three deaths or losses of power; two values of the clock):

* `ServingComplete`: a listening server has all tables and indexes, both versions on
  record, WAL mode if the database is a file, and the configured identity - unless
  a start ended inside migration 1 of a new database (`torn`), in which case objects
  may be missing.
* `CreatedAtStable`: the identity is never lost or dated anew, with one exception: a power
  loss that takes its seeding, when nothing was synced since. The next start then seeds
  it again, with another created_at. Once a sync has kept it, no loss takes it, whatever
  it takes of what was committed later.
* `ComesToServe`: when deaths end, the process comes to serve and keeps serving. Weak
  fairness of the start stands for a process that runs and the service manager's
  `Restart=on-failure`. Statements that fail for ever are bounded away by `MaxDeaths`.
* `IInv`: the inductive invariant of the proofs. It includes `Version2Complete`: version 2
  on record means all of migration 2 was applied, if need be over several starts.

Two ends are needed to cut both migrations short, a third to die while serving.
The run ends in states where nothing happens any more (serving, clock and deaths
at their bounds), so deadlock is not checked.

Run `boot_versions` (`VersionsComplete`): a first start that ends between CREATE TABLE
points and CREATE UNIQUE INDEX leaves a database that the next start takes for an
MVP database. It records version 1 without creating the rest; the upsert then
has no unique index to conflict on and every upload fails, at every later start too.

### MobileSettings

Each handler goes through `Load` (and merge), `TakeStamp`, `Save` and `Answer` (which reads
the row again); `Fail` and `Crash` may come between. Values are told apart by JSON type;
a string carries what strconv makes of it. The history variable `overlapped[r]` is
true when another handler has saved since r loaded.

Run `mobile_settings` (two devices, four patches that between them have values out of
bounds, of a wrong type, unparsable and of an unknown key; no row or one with an
unreadable payload at first):

* `IInv`: the inductive invariant of the proofs. It includes that only the sync's keys are
  stored, each within its bounds, and that stamps waiting to be saved are in order.
* `AtomicUnlessOverlapped`: without overlap a PATCH is an atomic merge - its own keys
  set, all others as they were - and updated_at does not move back.
* `AnswerShowsPatch`: without overlap a PATCH that is answered 200 has its values stored,
  and the answer shows them. The exception is the empty answer with status 200 that
  mobileResponse gives when its read fails: it is what the code does, so the property
  allows it, and says that even then nothing of the PATCH is lost.

Run `mobile_merge` (`MergesIntoStored`): overlapping PATCHes to different keys lose one.

### WebSettings

`LoadAndApply` (read the row, overlay it on the defaults, apply the patch) and `Save` are
the two database steps of PATCH; `GetSettings` is one. `Fail` may end a PATCH at either, and
`Restart` brings the process back, perhaps with another TIME_ZONE. A document has
scalars, which are replaced as a whole (arrays and the other objects behave like
them), and `maps`, which is merged by key. `Spelling` stands for lower case and trimming.
The row may at first be absent, unreadable, or a document stored when there were
fewer defaults (`Older`), whose maps may lack a unit or have an unknown one, or which may
have no maps at all. `UnitRead` is the unit insightsScope and ComputeOverview end up with
when the request names none. `overlapped` is the history variable of MobileSettings.

Run `web_settings` (two clients, three patches, six initial rows, two time zones):

* `IInv`: the inductive invariant of the proofs. It includes that every document saved or
  answered has all defaults and no key off the permit list.
* `UnitChosen`: after a PATCH that nobody overlapped insights compute with the unit it
  names, in whatever spelling, or with the one of before when it names none that is
  known. A stored document without a unit, whose maps hide the default, counts as km.
* `FrozenByPatch`: the first PATCH stores every default, the time zone too; from then
  on a restart with another TIME_ZONE changes nothing of the document GET /settings
  answers. (Insights are computed in the configured zone, not in that one.)
* `PatchIsolated`: without overlap a PATCH sets the permitted keys it has and keeps every
  other one, also the keys inside maps it does not name. That no other key comes to
  be is in `IInv`.

The handler has the race of run `mobile_merge`; it is not shown a second time.

## Proofs

`tlapm` checks the eight proof modules to the last leaf. They hold for every value of the
constants that satisfies the module's named assumption; TLC evaluates the assumption
in the runs. All theorems have the same shape: an inductive invariant `IInv` (Init
implies it, one lemma per action preserves it), from which invariants follow directly
and action properties by looking at the steps that could break them.

**StoreProofs** (`StoreAssumption`, `LifecycleAssumption`). What the run `point_store`
checks is not inductive: that an answer's ids are stored says nothing of the transaction
that is about to produce them. `IInv` adds `OneTransaction` (only the holder of the
connection has a working table), `Progress` (the ids returned so far are those of the
points upserted so far), `WaitingEmpty`, `Extends` (the working table has every committed
row under its id, and differs in rows the batch names) and `StampsOrdered`. INSERT and DO
UPDATE share `WriteRowIInv`. The action properties follow from two facts: only COMMIT
changes the committed table (`OnlyCommits`), and what it commits is the batch applied to
what was committed before (`CommitApplies`). `Implements` is the refinement: COMMIT maps
to the `Upsert` of `PointTable` (`CommitIsUpsert`), every other step but the clock to a
stutter.

For the process around it, `LifeInv` is the `IInv` of PointStore with `LifeTypeOK`,
`LogOK` (what a power loss can take is a suffix of what was committed) and `Stopped`
(after a graceful stop nothing is in flight, and once the pool is closed and the
connection free everything is synced, whatever made run return). Every step but a power
loss is a step of PointStore or a stutter (`StoreStep`), so its lemmas are cited, not
repeated. `StoppedIsDurable` follows from the log: what is kept in `safe` was stored when
the log was the database alone, and every state it has had since has it too.

**BootProofs** (`BootAssumption`). `Version2Complete` and `ServingComplete` depend on
where earlier, interrupted starts got to. `Reached` says what is done at each point of a
start; `FirstInOrder` that the objects of migration 1 come in order, and that a database
with only some of them is being completed, or is one of those `torn` remembers. `LogOK`
says of every database a power loss may leave that it is `Sound`, which is what the other
parts need of it, and that along the log an identity is never lost or dated anew
(`KeepsIdentity`). `LogSteps` shows that syncs and commits keep the log so. `CreatedOnce`
takes the exception apart: if the oldest database of the log has an identity, all of them
have it.

**TableProofs** (`TableAssumption`) has what the proofs about readers share: every key of a
batch ends up with one of its points (`LastOfKey`), so that an upload never removes
one (`TableGrows`), and the arithmetic of quotients (`Quotient`, `QuotientAtLeast`).

**ListingProofs** (`ListingAssumption`; the set of points is finite).
`ListInv` follows one kept page: its points M were selected at some time (`Kept`) and its
ETag counts at least those of a subset of them (`Counted`). Points are never deleted or
moved out of a window, so all of M is selected still. When a conditional request gets
304 the count agrees with that of now, and a subset of a finite set with as many
members is the set (`FS_Subset`): the page has exactly the points selected now.
`ClientsSeeSameRows` carries this over to the clients of `PagedWalk`.

On top of `ListInv`, `PageInv` is about the length and the age of a page. `Promised`:
what COUNT returned is the number of some points that are in the window when the page
is read; `PageOfPoints` turns the number of points into the length of a slice, which
gives `PageAsFullAsTotal`. `Fresh`: some stored point carries a stamp as new as the newest
one in the ETag (`Passed`), so every later write does too; a kept point is therefore as
it was or rewritten with such a stamp. At a 304 the newest stamp in the window is the
one in the ETag, and an outdated point has exactly that one
(`NotModifiedStaleOneSecond`). That the newest stamp exists (`MaxOfStamps`) needs stamps to
be bounded by the clock.

`WalkInv` is about a whole walk, without induction over its pages: it counts. The place of
a point is the number of points that precede it in the order (`Ahead`), and an untied
point is at exactly that place of any sorted sequence (`Places`). Uploads only raise that
number (`MoreStays`). `NotSkipped` says that a point that was there when the walk began
has been fetched, is tied, or has as many points before it as the pages so far have
skipped; a short page ends behind all of them, which is `MissesOnlyTies`. `Exact` says
that, while nothing has come, the n-th point fetched is the one with n - 1 points ahead of
it and that as many have been fetched as OFFSET says. Pages are thus the beginning of the
one order. `PagesEnough` (rounding up in X-Total-Pages) and `PagesSent` (with the per_page
that was sent) show that a walk by the number of pages never goes on past the end of the
points, and ends there if pages have the length that was sent. For `QuietWalkExact`,
`AheadGrows` turns places into an order, and `LengthIsSize` the number of points fetched
into all.

**IngestProofs** (`IngestAssumption`). `IngestAssumption` says what a fix is: its instant
is sent as seconds, as milliseconds above `MsAbove`, or as a date, in any JSON type that
is read as such (`Reports`), numbers of seconds before 1970 having no fraction, because
truncation and floor differ there; and that a location which reports no fix has no
coordinates on the globe or no instant. `IInv` is `Typed` (every stored row is in bounds)
with `OneRowPerFix`, `BatteryNear` and `ReplyUsable`. `TimestampBounds` collects what
`ToInt` may give on any machine; `FixesBecomeKeys` shows that each form of a fix has one
key, `OthersAreTimeless` that what is stored without a fix is at 0 or at an end of int64.
So elsewhere the locations stored under a key are the fixes sent for it, the last of both
is the same (`CreateIInv`), and `BatteryNear` is a matter of arithmetic. The provers know
nothing of powers; `PowerStep` gets what is needed of 2^n from the number of subsets of
1..n. The float nearest to a / b exists and is off by half of its last digit at most
(`ExponentExists`, `NearestIs`), and a level below 2^(`Bits` - 1) hundredths (`LevelFits`)
leaves more than 100 units to one, so two roundings cannot reach the next percent
(`SecondRounding`, `BatteryIs`); levels that are no such number are what `ToInt` makes of
them. The bound is sharp: with eight bits, 128 hundredths or more may be off by two.

**InsightsProofs** (`CalendarAssumption`, `InsightsAssumption`, `RequestsAssumption`,
`StreaksAssumption`). That
`ReadsWholeYears` is kept is simple once one read is right (`CoordsOfYear`); the work is in
`BoundsAreTheYear`. Within a day of New Year the zone has one offset (`OneOffset`, because
no change falls on those two days), so the correction in time.Date changes nothing and
the year begins at New Year minus that offset; a second further away is on the right
side because offsets are less than a day (`AfterNewYear`). The year's length and the
days' are arbitrary, the arithmetic is that of `Quotient`.

The answers are sums, which the code makes by ranging over maps: `SumStep` shows that a sum
over a finite set is that of a set with one element less, whichever was taken first
(`BySubsets` is the induction, on sets of subsets, as an operator cannot be passed), and
`SumGroups` that adding by groups adds up to the whole. With it, days add up
to the year (`DaysAddUp`), and the days left out of the totals and the heat map are those
of zero meters, since all that was read is of the year (`ActiveDaysAddUp`); the points
listed by year are the points stored (`ListedAddUp`, with `CoordsSize`: a key is a
timestamp and a place, so no coordinate is read for two points). `AnswersInv` adds to
`YearsInv` what has been read at each place of a handler (`Stages`), in the loop of
/stats the `Listing`: the years read are the first of the list, none is empty, and none
that had points is missing. `ChangeHasSign` is about rounding away from zero: a change
that is shown has the sign of what is shown of the years.

The streaks (`StreaksType` is the invariant) are arithmetic on days. In a zone of
`QuietMidnights` one correction by time.Date gives the first second of a day
(`DayBegins`), so AddDate steps from midnight to midnight (`Midnights`), and the sorted
midnights are the days in order (`AscendingFacts`, `DaysOfDates`). What the loop of
streaks counts is a recursive function; instead of an induction `RunStarts` takes the
first place at which the count would not be that of a row of consecutive days.
`LongestRunIs` and `CurrentRunIs` turn the two loops into statements about sets of days,
which is what `LongestIsLongest` and `CurrentIsCurrent` say of them. `FiguresAgree` needs
of the zone only that a date is booked in some month (`BookedIsMonth`), and for
`MonthsOfCalendar` that this is the month of the calendar (`MonthsAreOfCalendar`, by
`Midnights`): percentiles are elements of a sorted sequence at growing places
(`SortedMetersAre`, `RanksAscend`), the biggest month is the greatest of the sums
(`BiggestIs`, `MonthIs`), and a sum of roundings is off by half a unit per summand
(`SumOfRounded`, `HalfAUnitEach`).

**MobileProofs** (`SettingsAssumption`). `IInv` is `TypeOK`, `StampsInOrder` (no stamp is
ahead of the clock; one about to be saved without overlap is not older than the one
stored) and `InStep` (until somebody else saves, what a PATCH read is what is stored).
`CastPermitted` is the lemma about sanitizing: what is kept of a value is a value its key
may have.

**WebProofs** (`WebAssumption`). Lemmas on `Load`, `MergeMaps` and `Apply` - what they
return is a complete document, and `ApplyByKey` says what a patch does to it - and an
invariant that ties the document about to be saved to the row (`InStep`, `SavedAlone`).
`MergedUnit` is the case distinction behind `UnitChosen`; of the documents stored before
it needs nothing. That every default is in a saved document is what makes `FrozenByPatch`
true: the overlay then covers all of `Default`, the time zone in it included.

## Only model-checked

* Liveness: `EveryRequestEnds`, `StopEnds`, `ComesToServe` (fairness is beyond the prover).
* The streaks and the single months in zones that skip or repeat a midnight:
  `QuietMidnights` leaves them out, `streaks_midnight` shows what happens in one.

All other properties of the runs are theorems as well, with the lemmas they rest on. For the
liveness properties the instances are small: that two clients, two or three keys and
batches of two are enough rests on the code treating all clients and keys alike.

## Plan

1. A `PointTable` with the remaining nullable columns, to compose `Ingest` with `PointStore`:
   a fix that was answered stays one row through failures, retries and restarts.
2. Leap days in `Calendar`, and years that begin at a midnight that is skipped.
3. users/me and plan over `WebSettings`, whose document they pick their keys from.

## Not modelled

* Years are a few days long in `Calendar`, with the months and zone changes that matter;
  leap days are not there, nor a year that begins at a midnight that is skipped or
  comes twice.
* Distances are given by a table. `Haversine` is floating-point arithmetic without state.
* `atoiDefault` is abstracted to its outcome, and `(page-1)*perPage` is not bounded to 64
  bits: a page number near 2^63 is answered from an offset the product wraps to.
* Of a point's nullable columns one of each kind is carried; the other string columns are
  written and read in the same way.
* users/me (`UserView` picks keys of the settings), plan and health: answers without state.
* Authentication and the middleware: one comparison per request, constant headers.
* Configuration, logging, version: read once at the start.
* ETags are compared as the values they are computed from: a collision of hashes does
  not happen.
* The clock does not go back. Stamps come from the wall clock, and the order of stamps is
  assumed to be that of time.
* One process has the file. SQLite would admit two, with five seconds of waiting for
  each other's locks; the systemd unit of the repository starts one.
