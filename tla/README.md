# Verification of concontexto

concontexto downloads statistical series (INE, Eurostat, spreadsheets), keeps
every payload byte for byte, validates it against what is already published and
publishes it as append-only *vintages* in PostgreSQL.  `serve` runs a scheduler
beside the HTTP server; the `ingest`, `migrate` and other commands are processes
of their own that share its database and disk.

These modules model the parts of it in which an order of steps nobody tried may
break a promise: transactions on the observation table, calls of the pipeline
that overlap and stop half-way, reconciliations and migrations that run twice at
once, the scheduler and what it remembers; and the calculations on which a
publication depends: clients, decoders, the arithmetic of periods and the six
rules.  The source paths below are relative to `src/app/`; `PROJECT.json` ("map")
names the lines behind every definition.

    tlc -workers 2 -config MCStoreVintages.cfg MCObservationStore
    tlapm ObservationStoreProofs.tla

## 1. Inventory

| Component | State | Operations | What is hard | What makes it correct |
|---|---|---|---|---|
| **Observation store** `internal/adapters/postgres/observation.go`, `provenance.go`, `migrations/0001`, `0002` | table `observation`: rows (series, period, version) with `is_current`, `superseded_at`, `rollback_reason`, `run_id`; primary key and partial unique index `one_current_row` | `WriteRevision`, `RollbackRun`, `VintageAsOf`, `ResolveProvenance` | READ COMMITTED transactions of two processes and of operators overlap; a row is read without a lock and updated later; rollback locks rows in the other order | one published row per key; gapless chain; append-only; the published row is the latest that was not rolled back; calls are atomic; they end |
| **Publish gate and run life cycle** `internal/ingestion/validation/gate.go`, `postgres/gate.go`, `postgres/runlifecycle.go` | `ingestion_run` rows and their outcome | create a run, record its outcome, publish the candidates one by one | a verdict computed from data read earlier; a publish loop without a transaction around it | an outcome can be believed; a revision is not published behind the rule's back; no run stays pending under a live call |
| **Ingestion pipeline** `internal/ingestion/ingest.go`, `postgres/download_attempt.go`, `cmd/concontexto/ingest_cmd.go` | local variables of a call; `download_attempt` rows | `IngestSeries`: fetch, archive, log, list, create run, decode, validate, publish | every statement commits on its own and the process may die at any; scheduler and command overlap on one series | provenance of every vintage resolves to bytes on disk; records appear in an order a crash can only truncate; one "new-file" per payload |
| **Scheduler and freshness** `internal/scheduler/scheduler.go`, `cmd/concontexto/schedule.go`, `ingestion/freshness`, `postgres/freshness.go` | maps `lastSuccess`, `seeded`, `next`; consecutive failures; the ticker; what `download_attempt` says | tick, job per due source, seed after a restart, back-off, incident | memory and database drift apart; jobs outlast ticks; restarts | no outage goes unreported, no incident contradicts a success, no source starves |
| **Raw archive and hash listing** `adapters/filestore`, `postgres/rawfile.go`, `postgres/hashlisting.go` | content-addressed files, `raw_file` rows, two copies of the listing | put, record, publish the listing | two publishers truncate the same archive copy and read it back | no row without its whole file; the public copy lists every call that has ended, unless publishers met; a publisher left alone publishes the whole listing |
| **Validation rules, periods** `ingestion/validation/rule*.go`, `indicators/period.go` | none | six rules over a payload and the published vintage; the gate; the period before and after | loops from period to period; which of two values of a period is looked up; a vintage that changes under the rules from run to run | what gets past them is exactly what they let through on purpose; they return |
| **Dimensions and source mappings** `postgres/dimensions.go`, `source_mapping.go` | `source`, `dataset`, `series`; validity intervals in `series_source_mapping`, unique index `one_active_mapping` | upsert the dimensions, read and replace the active mapping, at the start of every ingest | the mapping is read outside the transaction that replaces it; every upsert commits by itself | one open mapping; each ends when the next begins; a call that ends well has mapped its configuration |
| **Editorial reconciliation** `ingestion/reconcile.go`, `postgres/editorial.go` | `series_break` and `event` rows, softly retired | read, diff, insert, update and retire in one transaction; find the breaks of a series | two reconciliations at once, from two configurations; a retired row that comes back | the live rows are the dated entries; a repetition changes nothing; the breaks reach their series |
| **Schema migrations** `postgres/runner.go`, `internal/migrate`, `cmd/.../migrate_cmd.go` | applied versions and the schema itself | Up, Down, Status | a cut between a migration and its record; two commands, no lock | recorded = applied; Down undoes the latest |
| **Source clients** `adapters/ine`, `eurostat`, `xlsx` clients, `ingestion/sourceerr` | attempt counter | fetch with retries, classify failures | what may be asked again; the last attempt | bounded retries; a failure is logged as what it was |
| **Decoders** `adapters/*/envelope.go`, `decode.go`, `period.go` | none | from a response to observations, or to a class of failure | position in a cube; columns that move; periods of another shape; refusals with status 200 | no figure at another period than the source's |
| **Configuration** `adapters/config` | none after start-up | load, validate | commands load it and do not validate it again | what validate-config accepts can be reconciled |
| **Alerting, log; HTTP server, probe, health check; guards, backup script, web front end** | none that changes | notifications, static files, read-only checks | - | - |

Interactions.  A scheduler job reconciles the dimensions and calls the pipeline
once per configured series; the pipeline calls client, archive, `raw_file`, `download_attempt`, listing, run life
cycle, decoder, rules and gate in that order; the gate calls `WriteRevision` once
per candidate.  `ingest --reconcile` writes the breaks that the rules read by way
of the dimension rows.  Two processes that ingest share nothing but the database and the
archive directory, and there is no advisory lock.  Freshness reads
`download_attempt`; so does the scheduler, once per source and process.

The hazards of these components, each at its line and with the properties that
cover it, are the "hazards" of `PROJECT.json`; the few that no property covers
carry the reason.

## 2. Modules

| Module | What it is |
|---|---|
| `VintageStore` | abstract specification of the table: a chain of vintages per key, of which a prefix stands; `Revise` and `RollBack` are atomic |
| `ObservationStore` | the table and its transactions, statement by statement; implements `VintageStore` |
| `ObservationStoreProofs` | inductive invariant and theorems |
| `ObservationStoreChains` | on top of it: the refinement of `VintageStore`, unique violations, deadlocks, the end of calls |
| `RawArchive`, `RawArchiveProofs` | putting a file, its row and the two copies of the listing, one file operation at a time; theorems |
| `ValidationRules` | rules 2, 4 and 6 as sets of offending periods; what the gate passes |
| `IngestPipeline` | `IngestSeries`, one action per statement, over an `INSTANCE` of `VintageStore` |
| `IngestPipelineProofs` | inductive invariant of the pipeline and theorems |
| `Scheduler`, `SchedulerProofs` | the loop of `runScheduler` with ticker, jobs, restarts and the ingest command; theorems |
| `Periods`, `SixRules` | period arithmetic, all six rules and the gate as operators on lists of observations |
| `SourceClient` | one fetch: the retry loop the three adapters share |
| `Decoders` | INE, Eurostat and workbook decoders on parsed responses |
| `SeriesIngest` | the ingests of one series one after another, with real data; instantiates the four modules above |
| `SeriesIngestProofs` | types, the rules' arithmetic, what gets past the rules, what the source said, and the bridge to `ValidationRules`; theorems |
| `ConfigRules` | what `validate-config` accepts |
| `EditorialReconcile`, `DimensionReconcile` | the two reconciliations, statement by statement |
| `Reconciliation`, `ReconciliationProofs` | both, over one database, by calls that overlap; theorems |
| `Migrations`, `MigrationsProofs` | Up, Down and Status, statement by statement; theorems |
| `MC*` | instances for TLC |

The pipeline is modelled twice, since its two difficulties do not meet.
`IngestPipeline` has the interleavings and the crashes: calls overlap and stop at
any statement, payloads are model values, periods are consecutive numbers, and
`ValidationRules` keeps of rules 2, 4 and 6 what overlapping calls can upset.
`SeriesIngest` has the data: requests that fail, bytes that a decoder refuses,
values, breaks, gaps and months against quarters; its calls follow one another.
`Scheduler` abstracts a call of the pipeline to "the download of a series was
logged, or not, and the series failed, or not"; `IngestPipeline` abstracts a
transaction of the store to the step `VintageStore` says it is; `ObservationStore`
justifies the latter by refinement.  `RawArchive` takes the pipeline's three steps
`PutFile`, `RecordRawFile` and `PublishListing` apart into file operations, and
`Reconciliation` the call to `ReconcileDimensions` with which every ingest begins.

### ObservationStore

A session is an ingestion run (it walks its candidates, `left`, and stops at the
first error) or an operator.  `table` holds committed rows; `dirty[s]` the images
the open transaction of `s` has written; `pc[s]` its next statement.

| Code | Actions |
|---|---|
| `WriteRevision`: SELECT current row, compare | `WriteUnchanged`, `ReadCurrent` |
| UPDATE prior row `is_current=false` | `Demote` |
| INSERT version `current.Version+1` | `Insert`, `UniqueViolation` |
| `RollbackRun`: SELECT rows of the run | `SelectTargets` |
| per row: UPDATE it, UPDATE version - 1 | `NoPrior`, `RbDemote`, `RbPromote`, `UniqueViolation` |
| COMMIT; lost connection; deadlock | `Commit`, `CommitUnacknowledged`, `Lose`, `DeadlockVictim` |

Of PostgreSQL (not in the repository; "external" in the map) the module keeps what
the code relies on.  A SELECT reads committed rows without waiting.  An UPDATE
waits for whoever wrote the row (`RowHolders`) and applies to the latest image.
An INSERT, or an UPDATE that makes a row current, waits for transactions whose
outcome decides a conflict in a unique index (`IndexHolders`) and is refused when
there is one.  `Waits` gives the edges of the waits-for graph, `InCycle` the
minimal cycles from which the detector takes a victim.  The isolation level is
PostgreSQL's default; the code never sets another.

### IngestPipeline

`pc[c]` is the next statement of call `c`; `Stop(c)` ends a call at any of them,
for a statement that returns an error and for a process that dies alike: neither
undoes what has been committed.  A payload is a member of `Payloads`; `Decode`
gives what it holds, and payloads outside its domain do not decode.
`RecordRawFile` is `INSERT ... ON CONFLICT DO NOTHING`, whose rows-affected count
decides `isNew`.  `ReadPrior` reads the published vintage once; `Publish` applies
the rules to what was read, whatever has been published since; `Block` stands for
rules 1, 3 and 5, which may block any payload.  `WriteCandidate` is one `WriteRevision`; `CandidateRefused` one that
the table refuses, for a definitive row without a value or because a rollback
has frozen the period.  `RollBack` is the operator.

### Scheduler

Time is counted in `scheduleCheckInterval`.  The ticker's channel has room for
one tick, so `ticker` is a single slot and a tick that finds it full is dropped.
`tick` is the loop's `now`; the job has its own (`started`), which is what it
writes to `download_attempt`.  `todo` holds the due sources in no particular
order, as Go ranges over the map of Runners.  `Seed` is the
recovery of the last success, including the query that fails.  `ManualIngest` is
the ingest command of another process: it logs a download with the time it
started at.  `Die` loses all but `attempts` and the incidents already raised.
`complete` and `blind` are history variables that no guard reads.

### RawArchive

`Stat`, `WriteTemp` and `Rename` are `Store.Put`; `Record` the `raw_file` row;
`CreateArchive`, `QueryRows`, `WriteLine`, `CloseArchive`, `ReadBack`, `EndOfFile`
and `ReplacePublic` are `PublishRawFileHashListing`.  A listing is a sequence of
bytes: the line of a hash has `LineLength` of them, since source, time and URL
differ in length, and `<<h, j>>` is the j-th byte of the line of `h`.  `archive` is
the one inode every publisher has open, each at its own byte `offset`: `os.Create`
truncates it under the others, and a write past its end leaves a `Hole` per byte.
`Fprintf` writes a line at a time, unbuffered; the operating system may take it in
several writes, and `ReadFile` reads until there is no more (`EndOfFile`), in one
read or in several.  What two publishers leave in the file may thus join the end of
one line to another (`MCRawArchiveGarbled.cfg`).  `listed`, `disturbed`,
`overtaken` and `publisher` are history variables that no guard reads.

### SeriesIngest and the modules it instantiates

| Code | Definitions |
|---|---|
| `fetchWithRetry` (ine, eurostat, xlsx) | `SourceClient`: `Fetch`, `Retry`, `Resume`, `GiveUp`, `Receive` |
| `IngestSeries` up to the run row | `Begin`, `Fetching`, `FetchFailed`, `Archive` |
| decode, failure class, outcome | `DecodeINE`, `DecodeEurostat`, `DecodeXLSX`; `Decoding`, `Decode`, `DecodeFailed` |
| `Rule1Schema` ... `Rule6NonEmpty`, `Gate` | the operators of the same names in `SixRules` |
| publish loop, `WriteRevision` | `Writable`, `Written`, `Publish`, `Block` |
| a new binary | `Redeploy` |

A body is a record of what its parser finds in it (elements, cube, rows of cells);
JSON, spreadsheet and number syntax are abstract.  Each body also carries `says`,
what the source means by it, which the model's steps never read and
`PublishedIsTheSourcesWord` compares with.  The checks of a decoder are listed in
the order of its early returns (`FirstFailure`).  The loops of the rules that go
from period to period are walks (`WalkFrom`); one that has not met its end after
`MaxWalk` steps does not return, and then neither `Block` nor `Publish` is
enabled, which is what a hang is.  `Ahead` gives the n-th period of a walk in
closed form; that it is n times `Following` is the lemma `AheadFollowing`.  A
payload may list a period twice: the last of its values is published (`Written`),
while rule 3 looks at the first.  The query for the published vintage has no complete order when two
frequencies are mixed, so `Listings` has every one that makes a difference.

### Reconciliation

| Code | Actions |
|---|---|
| `ReconcileDimensions`: upserts | `UpsertSource`, `SourcesDone`, `UpsertDataset`, `DatasetRefused`, `UpsertSeries` |
| `reconcileActiveMapping`: read, insert | `ReadMapping`, `InsertFirst`, `FirstRefused` |
| `ReplaceActiveMapping`: UPDATE, INSERT, COMMIT | `Close`, `CloseWaited`, `Insert`, `InsertRefused`, `CommitMapping` |
| `ReconcileEditorial`: read a table, diff | `ReadTable` |
| inserts and updates, retirements, COMMIT | `WriteEntry`, `EntryRefused`, `AllWritten`, `Retire`, `TableDone`, `Commit` |
| lost connection, dead process, deadlock victim | `DimStop`, `EdStop` |
| `ResolveActiveBreaksForSeries` | `ResolveActiveBreaks` |

`Reconciliation` instantiates both with its own variables; `Begin` starts a call
of either kind with the configuration of its binary.  An UPDATE that has waited
looks again at the row it waited for and at no other (`CloseWaited`), which is
how READ COMMITTED lets a reconciliation close nothing and then be refused by
`one_active_mapping`.  `overlapped` is a history variable that no guard reads.
`ConfigRules` is what `validate-config` demands; the configurations of the
instance include one that it refuses, since the commands load the configuration
without validating it.

### Migrations

`RunFile` is the migration file in one implicit transaction, `Record` the
statement that follows it, `Stop` an end between any two.  `FileWorks` is what a
file of this repository needs of the schema: the first creates all the tables and
the later ones alter them.  `cuts` and `mixed` are history variables.

## 3. Runs

| Run | Instance | Shows |
|---|---|---|
| `store_vintages` | 1 key, 2 contents, 4 runs, 2 operators | `OnePublishedRow`, `ChainWellFormed`, `PublishedIsLatestStanding`, `AppendOnly`, `RejectedKeysFreeze`, `ViolationsExplained`, `RunsDeadlockOnlyAfterRollback`, and the refinement of `VintageStore` |
| `store_rollbacks` | 2 keys, 2 contents, 3 runs, 1 operator: three runs of one key, or two of both | `RollbackAllOrNothing` and the inductive invariant where a rollback has several rows; `CallsEnd` under fairness, deadlocks included |
| `pipeline` | 2 overlapping calls, 5 payloads, 3 periods | `Traceable`, `ArchivedThenLoggedThenRun`, `NewFileOnce`, `OutcomeTellsPublication`, `DeepRevisionsOnlyWhenOvertaken`, the inductive invariant, and `RunsAreDecided` under fairness |
| `series_ingest` | 5 configurations of a series, 16 INE, 5 Eurostat and 6 workbook bodies, 2 runs, 2 deployments, 2 attempts | `AttemptsTellTheFetch`, `PublishedIsTheSourcesWord`, `HolesExplained`, `JumpsExplained`, `RevisionsAreRecent`, and `CallsEnd` under fairness |
| `reconcile` | 3 calls, 3 configurations, 3 starting points | `MappingsChain`, `MapsItsConfig`, `RepeatsTakeAnOverlap`, `ProjectsItsConfig`, `BreaksReachTheirSeries`, `FailuresExplained` |
| `migrations` | 4 calls, 3 files | `DriftTakesACut`, `UpBringsEverything` |
| `scheduler` | a source with two series, one with none; 5 units of time | `NoMissedIncident`, `NoFalseIncident`, `DueSourcesRun`, the inductive invariant |
| `archive` | 3 calls, 2 payloads with lines of 3 bytes and of 1 | `RowsHaveWholeFiles`, `EndedCallsAreListed`, `LonePublisherListsAll` |
| `store_revision_after_rollback`, `pipeline_withdrawal`, `ingest_jump`, `migrations_down` | the same instances or smaller | a disagreement each, see "Findings" |

Type invariants: the inductive invariants of the store, the pipeline and the
scheduler contain theirs, and `TypeOK` of the reconciliations, which has their
foreign keys, is a property of the run.  Those of the archive (`ArchiveTypes`), of
the migrations (in `MigrationInvariant`) and of a series (`SeriesTypes`) are
theorems, so no run spends time on them.  All the others are proved too.

Every property of a passing run has a mutant: a plausible mistake in one
definition (the operators commented "Mutant" beside the definition they stand
for) with which TLC finds the property violated.

**Bounds.**  *Store.* Keys interact only through the rows one rollback lists, so
one key with many sessions and two keys with a rollback over both cover the two
ways sessions can meet.  Four runs give chains of four vintages, racing first
publications, a writer that read before and one that read after a rollback, and
waits-for cycles of three.  Two contents are enough to tell equal from different.
A payload lists any of the periods; `MCFairSpec` takes two kinds of them, because
liveness is costly: both keys in two runs, for rollbacks of several rows, and one
key in three runs, the fewest that reach a waits-for cycle (a run that has demoted
the row a rollback is to restore waits for the rollback, and the rollback for it).
Without the deadlock detector, or with one that resolves nothing, `CallsEnd` fails
there, which is the mutant of this property.
*Pipeline.* Three periods with `MaxBackward = 2` put one period on either side of
the revision rule's window; the payloads are a first vintage, its revision, a
continuation that is a revision too deep for one of them and none for the other,
one with a period without value, and bytes that do not decode.  Two calls and
rollbacks between their statements; the safety properties also hold for three
calls (3.1 million states), too long for a run that is repeated.
*Scheduler.* `MaxTime = 5` with interval and window of 2 and back-off of 1 has
room for a success, the window's end, two retries and a restart among them.  The
interval equals the window as it does in production (24 h each); the back-off is
shorter than both.  What the clock bounds for TLC is unbounded in the theorems
only in size (`MaxTime` is any positive number).

*Series.* Two runs and two deployments are enough for a first publication, a
revision, an added period, an unchanged payload and a change of configuration or
of frequency between them; the bodies include for each decoder what it refuses,
and for each rule what it blocks and the nearest thing it lets pass.
`MaxWalk = 12` is more than the distance between any two periods of the instance.
Two attempts have a first, a last and a back-off; what a fetch was answered is
forgotten at the end of its call.

*Reconciliation.* Two calls are an overlap; the third is what comes after it, or
the other kind of reconciliation beside it.  The second configuration moves the
series to another dataset and identifier, edits an event, drops a break and dates
another; the third repeats a break and names a source without a file.  The
database starts empty or as either of the valid ones left it.

*Migrations.* The repository has two files; three let one be neither the first
nor the last.  Four calls have two that overlap between two others.

*Archive.* Two payloads make a listing of two lines, and lengths of three bytes and
of one let a truncation, a write or a read fall between them and inside one, and
one line end in the middle of the place of another; three calls give two of one
payload beside a third, and a publisher that comes after two have torn the copy or
died over it.

`CHECK_DEADLOCK FALSE` in every run: runs, calls and deployments are finite and the
clock ends, so every instance stops when nobody is left to act.

**Fairness.**  *Store*: strong fairness of each session's next statement, since a
session waiting for a row is queued and is handed the lock, although another may
take the row first; weak fairness of the deadlock detector, which runs after
`deadlock_timeout`.  No fairness of beginning calls, losing connections or
operators.  *Pipeline*: weak fairness of `Step(c)`: a process that lives executes
its next statement; `Stop` is never forced.  *Series*: weak fairness of
`CallStep`: a request ends with its timeout and a back-off with the clock.
*Scheduler*: weak fairness of
`Loop`: HTTP requests have timeouts and a bounded number of retries, so a job
ends.  The clock, restarts and the operator are not fair.

## 4. Proofs

*ObservationStoreProofs*, for all keys, contents, runs and operators:
`TypeCorrect`, `OnePublishedRowHolds`, `ChainWellFormedHolds`,
`PublishedIsLatestStandingHolds`, `AppendOnlyHolds`, `RollbackAllOrNothingHolds`.
The properties are not inductive: they speak of committed rows, and what a commit
installs was decided several statements before it, by a session that read a
row without locking it.  `InductiveInvariant` is `TypeInv /\ PubInv`.  `TypeInv`
adds to the types which rows an open transaction may have written at each
statement (`RunShape`, `OperatorShape`) and that versions have no gap.  `PubInv`
says that no two transactions hold an image of one row (`RowLocks`), and relates
each image to the *committed* row it replaces: what a run has demoted is the
committed row with `is_current` taken away, and when it is about to commit its
target is still the published row and the version after it still free
(`RunPub`); a rollback's images pair each rejected row with the one before it,
one of which is published (`OperatorPub`).  These facts survive the steps of
other sessions because the rows are locked and because of the two unique
indexes, and they are what a commit needs to leave `TablePublished`: one current
row, nothing but rolled-back rows after it, successive vintages that differ.
Each action has a lemma of its own.
Assumptions: `SessionsAssumption` (runs and operators are different sessions) and
`NullsAssumption`.

*IngestPipelineProofs*, for all calls, payloads, decodings and periods:
`TypeCorrect`, `TraceableHolds`, `ArchivedThenLoggedThenRunHolds`,
`NewFileOnceHolds`, `OutcomeTellsPublicationHolds`, `DeepRevisionsHold`,
`PipelineImplementsVintageStore`, `PendingRunsAreExplained`, `CallsAreFinite`,
`LoopGoesOnHolds`.  Most of them speak of what is in the database at some moment;
`InductiveInvariant` says how a call that is between two statements got there:
which records it has written
at each statement (`CallRecords`), how they lean on each other for good
(`CallTrail`, `Archive`), what of its payload is in the chain already
(`CallPublication`), that every vintage is in the payload of a run which was not
blocked and cannot be any more (`FromPayload`), and that whoever publishes was
let through by the rules (`VerdictInv`).  A step of one call leaves the records
of the others alone (`OthersStandBy`), so each action is examined for its own
call only.  `DeepRevisionsHold` argues by contradiction: if the published vintage
is still the one the rules saw, apart from the call's own periods, its latest
period is no later than the latest the rules knew, and rule 4 would have
reported the revision.  Assumptions: `PeriodsAssumption` (natural numbers, of
which any set at hand has a greatest), `DecodeAssumption`,
`MaxBackwardAssumption`, `NoPayloadAssumption`, `NoValueAssumption`.
`PipelineImplementsVintageStore` closes the square with the store: what
`ObservationStore` implements transaction by transaction is what the pipeline,
whatever else it records, uses (a candidate is `Revise`, the operator `RollBack`,
and no other statement touches a vintage).  The last three are the safety halves
of `RunsAreDecided`.  A call has at most nine statements and one for each period
of its payload, and each of them brings it nearer to its end (`CallsAreFinite`);
its publish loop always has a candidate to write, to refuse or to skip
(`LoopGoesOnHolds`); and a run left pending is that of a call which stopped or was
refused (`PendingRunsAreExplained`).  What is left for TLC is that a statement
which can be executed is.

*SchedulerProofs*, for all sources and series and all durations: `TypeCorrect`,
`NoMissedIncidentHolds`, `NoFalseIncidentHolds`, `SchedulePlannedHolds`,
`TicksServeEverySource`.  Whether an incident is right is a comparison of the
scheduler's memory with the database, so `InductiveInvariant` says how the two
relate at every moment: what it remembers is never later than the database
(`MemoryBehindDatabase`); a job that has not failed has logged a download no
earlier than its tick (`JobInOrder`), which is what makes remembering the *tick*
after a success safe although `download_attempt` holds the job's own time; and
ticks and incidents are ordered (`TimesInOrder`), so that an incident is visible
as a change.  With monotonicity of `Resolve` (`FailedEarlier`) both promises
follow.  Assumptions: `DurationsAssumption`, `SourcesAssumption`.
`SchedulePlannedHolds` says which times the map `next` can hold: none, the last
success and an interval, or a tick and as many back-off units as the source has
failed in a row.  `TicksServeEverySource` is the safety half of `DueSourcesRun`: a
source found due stays so until its job ends, however the jobs before it end, and
each of them leaves fewer to do.

*ObservationStoreChains* continues with `ChainInv`, which is `InductiveInvariant`
and two facts that it needs in addition: the versions of a key are 1, ..., n
(`Chains`), and the rows one rollback has listed are of one run
(`TargetsOfOneRun`).  `ImplementsVintageStoreHolds`: only a commit changes what is
committed, a run's is `Revise`, an operator's is `RollBack` or, where it had no row
to reject, a stutter.  `ViolationsExplainedHolds`: a statement that a unique index
refuses has met a row which is not its own transaction's, so that its target is
no longer the published row or not the latest one.
`RunsDeadlockOnlyAfterRollbackHolds`: whoever is waited for in a cycle of runs is
at its INSERT and holds its target; if no row of the key were rolled back, each
wait would go to a higher version of that key, and a cycle has no highest.
The safety half of the store's `CallsEnd` is two theorems.  `SomebodyGoesOnHolds`,
for finitely many sessions: only calls under way have locked rows, so if each of
them waits it waits for another of them, and among the sets that wait within
themselves there is a smallest one, on which the deadlock detector finds its
victim.  `CallsShrinkHolds`: the statements a call has left, of a rollback two for
every row it has still to demote, are a number which every statement of the call
lowers and no step of another call raises; the row a rollback promotes is never one
it has listed, because it lists one row of a key, and the list is finite because
the table is (`RowsStayFinite`).  That a statement which keeps becoming possible is
executed is the fairness, and what TLC checks.
`RejectedKeysFreezeHolds` is the general form of finding 1: after its first
rejected row no row is ever added to a key, by whichever overlap of runs and
operators, and what is published of it only goes further back.  A rejected row is
later than the published one, while a run that commits found the published row
last and its successor still free (`RunCommit`), also a run that read the key
before the rollback: so no run that commits is one of that key.

*MigrationsProofs*, for all files and calls: `DriftTakesACutHolds`,
`UpBringsEverythingHolds`.  `MigrationInv` says, as long as no Up has met a Down,
what a call at a file may rely on although others are under way (`UpKnows`: what
it did not have to do is still recorded, and the file it has run is still in the
schema; `DownKnows`: its target is still the greatest) and that schema and records
differ at the targets of calls cut off only (`DriftCut`).  Assumption:
`LastAssumption`.

*RawArchiveProofs*, for all calls and hashes: `ArchiveTypes`,
`RowsHaveWholeFilesHolds`, `EndedCallsAreListedHolds`,
`LonePublisherListsAllHolds`, for lines of any lengths.  `ArchiveInv` says that no
path is ever seen half written (`FilesAreAtomic`), what a call has behind it at each
statement (`PutIsDone`), and of a publisher nobody has disturbed that it is alone at
the archive copy (`LoneRewriter`), which holds what it has listed up to the bytes it
has still to write, and begins with those it has read back (`LoneProgress`).  Such a
publisher has queried the rows after all the others had left the archive copy, so
that it lists the calls that have ended, unless one publishes after it has read
back (`LoneListsEnded`); and the public copy is what its last publisher had listed
(`PublicIsPublishers`).  A listing is ordered by the rank of its bytes, from which
its length, its members and their order follow (`ListingIsSeq`, `ListingIsSorted`);
that a write at the end of a file appends is `WrittenAtEnd`.  Assumptions:
`HashesAssumption` (hashes have an order), `LineLengthAssumption` (a line has at
least its newline).

*ReconciliationProofs*, for all configurations and calls, in two halves.
`MappingInv` carries `MappingsChainHolds`, `RepeatsTakeAnOverlapHolds` and
`MapsItsConfigHolds`: in the transaction the row a call has closed is the newest of
its series, or it was closed by another and the insert is going to be refused
(`ClosesTheNewest`); no two calls have written one series' mappings (`OneWriter`);
and a call that overlaps none, or only calls of its own configuration, still finds
what it read (`LoneReplaces`, `MappedSoFar`).  `EditorialInv` carries
`ProjectsItsConfigHolds`: what a call has read fits its configuration, is in its
uncommitted rows, or is still to be done, whatever equal calls do in between
(`LoneFits`).  Both give `TypesHold`, `FailuresExplainedHolds` (what a call that
failed has met) and `BreaksReachTheirSeriesHolds`.  Assumption:
`ConfigsAssumption` (configurations are what the loader may build, and what the
database starts from is a valid one).

*SeriesIngestProofs*, for all configurations and all bodies: `SeriesTypes`,
`SeriesAttemptsTell`, `SeriesJumpsExplained`, `SeriesHolesExplained`,
`SeriesRevisionsAreRecent`, `SeriesPublishesInRange`, `SeriesPublishesTheWord`,
`SeriesRulesReturn`, `SeriesCallsShrink`, `SeriesPassesThePipelinesRules`.

First the arithmetic: the decoders return only observations of periods whose
ordinal their year has, and on such periods `Preceding` undoes `Following` and
`Ahead` is a walk.  `SeriesShape` then says what a call knows at each statement
(`FetchShape`, `LogShape`, `CallShape`) and of what run each published value is
(`TableShape`).  `JumpsHold` and `HolesHold` are the two properties for a vintage of
one frequency: whatever pair of neighbours or missing period a run adds was before
the eyes of rule 3 or rule 2 with the very values that are published, but for the
excuses the properties list; and no later run changes what an excuse refers to.
`SeriesRevisionsAreRecent` follows a revised value back to the observation that
rule 4 has measured, in whichever order the query returned the vintage, and
`SeriesPublishesInRange` every value to the range of its own configuration.

`SeriesPublishesTheWord` is `SourcesKeepTheirForm => (Spec =>
[]PublishedIsTheSourcesWord)`.  `says`, what a source means by a body, is no part
of the code, so something must be assumed about it; `SourcesKeepTheirForm` is what
the decoders take for granted, one conjunct each: the INE writes a value into the
same element as its year and code; the single cell that a cube has for a time label
is that label's; where the total of a workbook row is the sum of its components,
it is the total.  The theorem says that the decoders' own checks (pinned dimensions,
header, sum of the components) with the gate's loop suffice for the rest.
`MCSeriesIngest` has TLC evaluate the formula for the bodies of the instance
(`FormAssumption`), the wrong columns and ill-formed cubes among them.

`SeriesRulesReturn` bounds the walk of rule 4: with one frequency in sight it meets
the latest period, so that the rules return for every payload and vintage.  Its
hypothesis is that `MaxWalk` is at least the number of months in all years a label
can name, so that the model's bound on walks cuts none of them short.
`SeriesCallsShrink` is the other safety half of `CallsEnd`: each step of a call,
retries and back-offs included, brings it nearer to its end.

`SeriesPassesThePipelinesRules` joins the two models of the pipeline.  Periods of
one frequency are numbered (`Number`, of which `NumbersOrder` and `AheadNumber` show
that it keeps the order and counts steps), and whatever `SixRules` lets the gate
publish satisfies `Passes` of `ValidationRules`, the guard of `Publish` in
`IngestPipeline`, over the numbered vintage, payload, gaps and window: what is
shown about overlapping calls there leaves out no publication that the code makes.
Its hypothesis on `MaxWalk` is the one above.

Assumptions: `MaxAttemptsAssumption`, `BoundsAssumption`, `BodiesAssumption` (what a
parser returns is finite), `WindowAssumption` (the window is a number).

Only model-checked: the liveness properties themselves (`CallsEnd` of the store and
of a series, `RunsAreDecided`, `DueSourcesRun`).  They need fairness and ENABLED,
which are out of the prover's reach; their safety halves are the theorems named
above.  Every other property of a passing run is a theorem.

## 5. Findings

Where the code does not do what its documents say, and a run shows it:

1. **A revision after a rollback is refused for ever** (`store_revision_after_rollback`).
   The next version is computed from the published row, but the rejected row
   keeps its number; the primary key refuses every later revision of that key.
2. **A withdrawn period stops the publication half-way** (`pipeline_withdrawal`):
   candidates are always written as definitive, which the table refuses without a
   value; earlier candidates are published and the run stays pending.
3. **Down may undo another migration than the latest** (`migrations_down`).  After
   an Up that was cut off between a file and its record, the greatest record is
   the one before; if that is the first, Down drops all ten tables.
4. **A jump without a break is published** (`ingest_jump`): rule 3 takes the
   previous value from the published vintage even where the payload revises it.

Further disagreements, each with a configuration of its own beside the runs:

5. `VintageAsOf` serves rejected rows: it takes the greatest version and does not
   look at rollbacks (`tlc -config MCStoreVintageAsOf.cfg MCObservationStore`).
6. The first retry after a failed daily job raises an incident, since the interval
   is as long as the window, against the comment on the default back-off
   (`tlc -config MCSchedulerRetries.cfg MCScheduler`).
7. Scheduler and pages disagree on a source that fails in part: the one remembers
   complete jobs, the others count any logged download
   (`tlc -config MCSchedulerAmber.cfg MCScheduler`).
8. Two publishers tear the public listing: they share the archive copy, which each
   truncates in place and copies to the public one
   (`tlc -config MCRawArchiveTorn.cfg MCRawArchive`).  It may even hold a line that
   is no row's, the end of one glued to another
   (`tlc -config MCRawArchiveGarbled.cfg MCRawArchive`), until a publisher that is
   alone repairs it (`LonePublisherListsAll`); `EndedCallsAreListed` says by which
   publishers only.

What the properties had to allow for, and a reader should know:

- Rule 4 counts its way from a revised period to the latest one and never gets
  there when two frequencies meet, in a payload or after a change of
  configuration; the comments (`rule4_revision.go:55`, `period.go:106`) rule that
  out, the code does not.  The call, and the scheduler behind it, hang; `CallsEnd`
  of `SeriesIngest` states the exception, and `SeriesRulesReturn` proves that the
  rules return in every other case.
- Of a period that a payload lists twice, rule 3 examines the first value and the
  last is published: a jump may hide behind the first (`JumpsExplained`, third
  excuse).
- A publication cut off at a period without a value leaves a hole that no later
  run looks at (`HolesExplained`).
- Two overlapping ingests of one configuration may both replace a mapping, which
  leaves one of no length between two equal identifiers (`RepeatsTakeAnOverlap`).
- Overlapping reconciliations of different configurations may leave rows of both
  (`ProjectsItsConfig` and `MapsItsConfig` exclude the overlap).
- Two files may declare a series of one slug: nothing rejects it, and the later
  file overwrites what the earlier one reconciled (`SlugsAreUnique`; `MapsItsConfig`
  and `BreaksReachTheirSeries` exclude it).
- Two series of one dataset that name different sources overwrite each other's
  dataset row, in file order (`OneSourcePerDataset`).
- A series without a source or a dataset passes `validate-config`, against the
  comment at `dimensions.go:48`, and is skipped.  An unconfirmed entry that has a
  date is projected all the same (`reconcile.go:59`).
- A refusal or an empty answer with status 200 is logged as a new file before it
  is decoded, so that the freshness of the source stays green.
- The sheet, header row and anchors that rule 1 compares for a workbook are copied
  from the configuration; a moved column shows in the header fingerprint and in the
  sum of the components only.  No adapter fills `ObservedSchema.Fields`.

## 6. Not modelled, and the plan

Left out for good: the delivery of alerts and the log lines (best effort, no
state); loading of YAML, licences, the pinning of Eurostat dimensions and the
workbook part of `validate-config` (pure functions of an immutable file set); the
construction of URLs and the lengths of back-offs; the syntax of JSON,
spreadsheets and numbers, and with it two texts that the code takes for numbers (a
cell `NaN` of a workbook, which `ParseFloat` accepts, and a `null` in Eurostat's map
of values, which decodes to 0); the HTTP server, probe and health check (read-only); the
build guards, the backup script and the web front end.

Two simplifications remain.  `SeriesIngest` does not overlap its calls and
`IngestPipeline` does not look into its payloads, so what overlapping calls with
different data do to rule 3 is not examined.  `Reconciliation` leaves the
deadlocks of editorial transactions to `EdStop`, which may end any of them.

What could be added:

1. The converse of `SeriesPassesThePipelinesRules`: that what rules 2 and 4 report
   of a payload is, period by period, what `ValidationRules` reports of its
   numbers.
2. Calls of `SeriesIngest` that overlap, to see what else rule 3 lets pass.
