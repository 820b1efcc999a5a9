# A verification of session-handler

`session-handler` consumes LOGIN, UPDATE and LOGOUT events from Kafka, keeps the
history of user sessions in an in-memory SQLite database and answers paged
queries over HTTP. This directory holds TLA+ models of it, the configurations
with which TLC checks them on small instances, and theorems that TLAPS proves
for every value of the constants.

To check a run: `tlc -config WorkersOneKey.cfg MCEventWorkers`. To check a module
of proofs: `tlapm RuntimeProofs.tla`, and so on for each module whose name ends
in `Proofs`.

## 1. The system

### Components, their state and their operations

| Component | Source | State | Operations |
|---|---|---|---|
| Session domain | `internal/session/transition.go`, `model.go`, `errors.go` | none: pure functions of a snapshot and a command | `DecideLogin`, `DecideUpdate`, `DecideLogout` |
| Intervals | `internal/session/interval.go` | none | `Contains`, `Overlaps` |
| SQLite repository | `internal/repository/sqlite` | tables `sessions`, `session_states`, `session_state_tags`; `closed` | `LoadCurrent`, `ApplyMutation`, `Query`, `Close` |
| Query preparation | `internal/query` | none; the cursor travels through the client | `Prepare`, `EncodeCursor`, `DecodeCursor`, `Resolve` |
| Session service | `internal/service` | none | `NewEvent`, `ApplyEvent`, `Query` |
| Event processor | `internal/eventstream` | per call: attempt number, timer | `Handle` |
| Kafka source | `internal/eventstream/kafka` | the polled batch; in the client: positions, group membership, whether rebalances are blocked | `Consume`, `processBatch`, `Close` |
| Runtime | `cmd/server` | context, readiness, shutdown deadline, the two goroutines it waits for | start, wait, shut down |
| HTTP endpoint | `internal/httpapi` | per request: how far it has got | `serveQuery` |
| Configuration | `internal/config` | none | `Load`, `Validate` |

### How they interact

The runtime starts `Source.Consume` with `Processor.Handle` as its handler. Per
batch the source runs one goroutine per partition, which calls `Handle` for one
record after the other; `Handle` calls `SessionService.ApplyEvent` until it
succeeds, is rejected for good, or has used up its attempts. `ApplyEvent` calls
`LoadCurrent`, a decision function and `ApplyMutation`. After all workers have
returned the source commits the offsets of the batch. HTTP requests run
concurrently with all of this in goroutines of their own and read the same
database in read transactions.

### What is hard

* **No lock.** Load, decision and transaction of an event are separate steps,
  and the load itself is two queries. That no other worker comes in between for
  the same key rests on the producers, the broker and the source (the comment
  on `eventstream.Source`, `source.go:36-41`).
* **Time.** Events carry their own timestamps. Equal timestamps are accepted,
  older ones are stale, and "older" is measured against a maximum taken over
  several columns.
* **At-least-once delivery.** Failures and rebalances bring records again; only
  the last event id of a key is remembered, and a restart forgets everything.
* **Partial failure.** One worker of a batch fails, a commit's answer is lost, a
  statement in the middle of a transaction fails.
* **Rebalancing.** Partitions move between processes; the client blocks that
  from poll to `AllowRebalance`, unless the broker loses patience.
* **Stopping.** A signal, the end of the source and the failure of the HTTP
  server may come together. Requests in flight and the source share one deadline,
  after which the repository is closed while they are still running; its lock is
  all that then keeps them apart.
* **Paging.** Pages are separate transactions; sessions start, change and end
  between them.

What makes each component correct, and where that is stated:

| Component | Correct when | Properties |
|---|---|---|
| Domain and store | sessions of a key do not overlap; states tile their session; history is only appended to; it always loads; what is decided is accepted | `LifecyclesDisjoint`, `StatesTileSession`, `HistoryIsImmutable`, `HistoryLoads`, `MutationsMeetConstraints` |
| Service and processor | a decision is applied to the state it was made on; replays change nothing; an event takes effect at once or not at all; events settle; no event stops a worker (`OnlyFaultsStopWorkers`, which far times refute), or at least none but those with such times | `SnapshotIsCurrent`, `EventsTakeEffectAtomically`, `ReplayIsNoop...`, `EventsSettle`, `OnlyFarTimesStopWorkers` |
| All of ingestion | it is one timeline per key | `ImplementsLifecycle` |
| Kafka source | nothing is acknowledged unhandled; order is kept; one handler per partition; batches end; records are handled | `CommittedWereHandled`, `HandledInOrder`, `OneHandlerPerPartition`, `BatchesEnd`, `EveryRecordIsHandled`, `ImplementsDelivery` |
| Source, store and restarts | the tables mean what the log says; records handed over again change nothing | `TablesMeanTheLog`, `ReplayFromTheStartIsSafe`, `RepeatsChangeNothing` |
| Queries | no session twice, none skipped, one instant; SQL agrees with the domain; histories are in order | `PagesAscend`, `NothingIsSkipped`, `PagesAreASnapshot`, `ActivityAgrees`, `HistoriesReadInOrder` |
| Query preparation | a cursor continues its own query and no other; spelling and repetition mean nothing | `CursorsBindTheirQuery`, `SpellingsDoNotMatter` |
| Runtime and endpoint | what is opened is closed, and under no operation; answers, readiness and exit status are true; a shutdown ends | `CloseWaitsForOperations`, `ClosedOnlyWhenIdle`, `NothingLeaks`, `AnswersAreHonest`, `ExitStatusIsTruthful`, `ShutdownEnds`, `SignalStopsSource` |
| Configuration | what it lets through suffices for those that use it | `ConfigurationSuffices` |

## 2. The modules

```text
SessionDomain      decisions                (pure)
  SessionStore     tables, queries, transaction (pure); StoreOK
    SessionService events, ApplyEvent as one step (pure)
      EventWorkers   partition workers, step by step    -> SessionLifecycle (abstract)
      EventPipeline  log, commits, restarts             (property: the meaning of a log)
      SessionQuery   paged queries next to ingestion
QueryPreparation     registry, normalisation, cursors (pure; used by SessionQuery)
Configuration        environment, validation (pure)
  Runtime            one process: start-up, requests, workers, shutdown
KafkaSource        processes, batches, group            -> EventDelivery (abstract)
SessionStoreProofs   lemmas about the tables and the transaction
  SessionServiceProofs lemmas about a load, a decision and what it does to the rows
    EventWorkersProofs   theorems of EventWorkers: types, currency, acceptance, history
      SessionLifecycleProofs ... replays, the refinement of SessionLifecycle
    EventPipelineProofs  theorems of EventPipeline: the tables and the log
    SessionQueryProofs   theorems of SessionQuery and QueryPreparation
KafkaSourceProofs    theorems of KafkaSource, the refinement of EventDelivery
RuntimeProofs        theorems of Runtime and Configuration
MCEventWorkers, MCKafkaSource, MCEventPipeline,
MCSessionQuery, MCRuntime                                  instances for TLC
```

**SessionDomain** has one operator per function of `transition.go`. A decision
is a record whose `kind` is a mutation's or a domain error's. Keys, event ids and
tags are model values: what `NewEvent` canonicalises is canonical here. A tag
slice is a set, because `NormalizeTags` sorts it and drops repetitions; the value
`Blank` stands for a tag that is empty after trimming, which makes it fail.

**SessionStore** has the two tables as sets of rows (tags are a field of a state
row), `LoadHistory` and `LoadActiveStates` for the two queries of `LoadCurrent`,
and one operator per statement of the transaction. `db` is the transaction: the
tables it sees and its first error. `"constraint"` is a violated constraint of
`schema.sql`, which the driver reports and which is no domain error. A
transaction that fails leaves the tables as they were. Session ids are integers
that stand for random UUIDs: any unused one may be drawn, so their order, which
`ORDER BY login_at_ns, id` looks at, is arbitrary. `ToNanos` wraps around at
`MinNanos..MaxNanos`, which stands for the range of an int64.

**EventWorkers** is the ingestion path, one worker per partition:

| Action | Code |
|---|---|
| `Receive` | the worker loop of `processBatch` calls `Handle` with the next record |
| `LoadSessionHistory`, `LoadStates` | the two queries of `LoadCurrent`; the second one only with an active session |
| `DecideAndApply` | the decision and the transaction of `ApplyMutation` |
| `DecideCancelled` | the context is cancelled after the load: the decision does not look at it, so a domain error still settles the event; `ApplyMutation` does, so nothing is applied |
| `StorageFault` | a query or the transaction fails for a reason outside the domain, `ErrClosed` included |
| `Backoff` | the retry timer fires; the next attempt loads again |
| `Abort` | the context is found cancelled before an attempt, by a query or in the back-off: `Handle` fails |
| `Cancel` | shutdown |
| `Stopped` | every worker has failed: nothing is left to do |

`Return` is what `Handle` makes of the outcome: settled after success or a
domain error (dead letter), back-off or failure otherwise. `Owners` says on which
partitions the events of a key may arrive; `ExclusiveOwners` is the contract.
`lastAccepted`, a history variable, holds the whole event that a key accepted last. That decision and transaction are one step
loses nothing: the decision is a pure function of the snapshot, which only the
worker itself writes. That three steps under no lock amount to one is a property,
`EventsTakeEffectAtomically`.

**SessionLifecycle** is what ingestion promises: a timeline per key, with
`Start`, `Replace` and `End`, each not before the last. `EventWorkers` maps its
tables to it (`OpenPeriods`, `PastPeriods`, `EndedSessions`, `KeyTimes`); loads,
retries, rejected and repeated events are stuttering steps.

**KafkaSource** is `Consume` in each of several processes. A batch is, per
partition, the offsets from `first` up to `last` and the `next` one to handle.
The broker, the group and the client are external and modelled from how the
source uses them: assignment, committed offsets, positions, and whether
rebalances are blocked. `Evict` drops a member that is dead or has blocked a
rebalance for too long; a commit is accepted only from a member.
`CommitAnswerLost` is a commit that took effect and still fails. A worker that
fails sends its error into the channel `errorsFound`, from which nobody receives
before all workers are done: it stays blocked unless there is `Room`, and
`BatchDone` waits for `WorkersDone`, as `workers.Wait` does. `Close` may come
while a batch is being processed (the HTTP server stopped, which cancels
nothing), and `Exit` while workers are running (the shutdown timeout, or a kill).

**EventDelivery** is the contract in the comment on `eventstream.Source`: records
finish in order without gaps, and are acknowledged only then. `KafkaSource` maps
to it the number of handled offsets and the committed offset of each partition.

**EventPipeline** puts log, service and store together, with `ApplyEvent` as one
step. That is justified by `SnapshotIsCurrent` (the loads and the transaction act
on the same rows) and by `HandledInOrder` and `CommittedWereHandled`. `Restart`
empties the tables and goes on from the committed offsets. The property side has
an independent definition of what a sequence of events means (`After`,
`Meaning`), with no tables, to compare the tables with.

**QueryPreparation** is everything between a request and the database. The
`Registry` gives the kind of value of each field and operator, the normalisers
return a value or `Invalid`, `Prepare` bounds the page, fingerprints the filters
and opens the cursor. A raw value is JSON: a text, a list, an object, `null` or
something else. A text is an integer, and the constant `Canonical` says what it
stands for as a string, an IP address, a UUID or a timestamp. A fingerprint is the
bag of filters it is a hash of, and a cursor the record its text encodes: hash
and encoding are taken to be injective. What the code sorts is a set put in order
by `InOrder`, which is defined without the community modules' `SetToSortSeq`
because TLAPS knows nothing about the `SortSeq` underneath it.

**SessionQuery** is a client that reads page by page (`FirstPage`, `NextPage`)
while `Apply` applies events and `Tick` moves the server's clock. Each page may
be asked for with another limit and with filters in other words; what is refused
changes nothing and is no step. The predicates are those of `sqlite/query.go`,
for every entry of its registry, with the normalised values; `LoadSession` is
what `loadSessions` returns. Keys are records of tenant, username and IP. The source
writes the order of a scan three times, and so does the module: `SortsBefore` is
`CompareSortKeys`, with which its tests say what the order is and the properties
do too; `RowsBefore` is the ORDER BY of the statement; `KeysetPredicate` is the
condition that continues after a key.

**Runtime** is one process. `main` is where `main` and `runWithSourceFactory` are:

| Action | Code |
|---|---|
| `LoadConfiguration` ... `Serve` | the steps of the start-up, each with its failure |
| `StopOnSignal`, `StopOnSource`, `StopOnServer` | the cases of the `select`; any that is ready may be taken |
| `ShutdownServer`, `Drain` | `server.Shutdown`: listeners closed, requests waited for |
| `CloseSource`, `WaitForSource` | `shutdownSource` |
| `LockRepository`, `CloseRepository` | `Repository.Close`: no operation gets the lock any more, and Close gets it when none holds it |
| `DeadlinePasses` | the shutdown context times out |
| `Accept`, `Decode`, `Query`, `AnswerQuery` | a request in `serveQuery` |
| `Poll` ... `Commit` | `Consume`, with batches of one record per partition |
| `Work` | a worker in `Handle`: load, apply, retry, abort |

An operation on the repository is two steps, taking the shared lock and
returning, because Close is about what happens in between. What the operations do
to the tables is left to the other modules.

**Configuration** is `FromLookup` with its defaults and validation, next to what
the Kafka source and the processor check of the options they are given.

## 3. The runs

| Run | Shows | Bounds |
|---|---|---|
| `WorkersOneKey` | the history of a key: tiling, disjointness, immutability, replays, decisions accepted, no stopping, the refinement | 1 worker, 3 instants, 3 state rows, 2 event ids, tags and blank tags |
| `WorkersTwoKeys` | snapshots stay current, an event takes effect at one instant, and every event settles or its worker fails, with faults, retries and a shutdown | 2 workers and keys, 2 attempts, 2 rows, 1 instant |
| `WorkersMisrouted` | what is left when two workers share a key and a timestamp wraps | 2 workers, 1 key, 3 rows, instants 0, 1 and 3 where 0..2 are representable |
| `WorkersTiedLogins` | **violated**: replay with tied logins | 1 instant, 4 event ids, 4 rows; new events have new ids |
| `WorkersFarTimes` | **violated**: a timestamp that wraps | instants 1 and 3 where 0..2 are representable |
| `KafkaFailures` | delivery through failures of all kinds, batches across partitions | 2 processes, 2 partitions, 2 records each, 2 in a poll, 2 starts, 1 move |
| `KafkaProgress` | batches end, every record is handled | the same, with failures but no kills, evictions or shutdowns |
| `PipelineReplay` | the meaning of the log, replay from the start, records handed over again | 2 keys on 1 partition, 3 events, 2 restarts |
| `PipelineRedelivery` | **violated**: redelivery after a restart | 2 events, 1 restart |
| `QueryPaging` | paging next to ingestion, filters, spellings, cursors and histories | 2 keys, 2 sessions, 3 states, 8 queries of which 5 are valid, a page of 1 (of at most 2) |
| `QueryEmptyStates` | **violated**: states that last no time | 1 key, 2 instants |
| `RuntimeShutdown` | a process from its environment to its exit | 2 partitions, 1 request, every failure, environments that differ from the defaults in one or two variables |

### Why the bounds are enough

Every rule of the domain compares an event with the latest instant and with one
active session, so three instants give an earlier, an equal and a later event,
and three state rows a session that was updated after one that had ended. Two
workers are enough for a race between two steps. Two attempts have a first, a
retry and a last one. Of a batch it matters whether a record is the first, the
last or one in between for its worker, and whether another partition fails; two
records in each of two partitions, polled one or two at a time, give these cases.
Two starts are a restart; one move takes a partition away while its batch is in
hand, and the departure of a process takes the others. Two keys on one partition
interleave in the log. A page of one session makes every session but the last the
end of a page. The two keys differ in tenant and username the opposite way
round, so that comparing columns one by one and comparing keys differ. Two workers
and one request meet in the runtime's lock and deadline in every order; requests
share nothing but that lock, so a second one adds no new case. Of a validation it
matters whether a value is just inside or just outside its range. The theorems of section 5 do not depend on any of this.

Bounds are named in the modules: `Requests`, `MaxRows`, `MaxOffset`, `MaxStarts`, `MaxMoves`,
`MaxLog`, `MaxRestarts`, `MaxClock`. They are guards of what brings in new work
(an event, a record, a start) and never of the code's own reaction to it.

`WorkersTiedLogins` constrains the steps TLC takes (`IDsAreFresh`): what is
received is the event accepted last or has an id that no accepted event has had,
as producers give them. Its counterexample is then one with a real replay, and not
with an id that two events share; four rows are what it needs.

Symmetry is used for event ids, which are only compared for equality, and for
keys together with their partitions where neither is told apart, and in
`KafkaFailures` for processes and partitions. The runs with liveness properties
use none. Deadlock is checked for `EventWorkers` and `Runtime`, where the
only ways to stop are `Stopped` and `Terminated`; it is not for the other
modules, whose processes end or whose bounded logs run out.
`SpellingsDoNotMatter` looks at the tables between two scans, which loses
nothing, because `EndScan` leaves the tables as they are.

### Fairness

`EventWorkers`: weak fairness of each worker's own steps: goroutines are
scheduled, calls return and timers fire. No event, fault or shutdown is ever
obliged to happen. `KafkaSource`: the same for the steps of `Consume` and its
workers, for the group assigning partitions to its members, and for closing a
source that has stopped (`CloseStopped`: the runtime waits for its result). A
process that failed is not obliged to start again, so `EveryRecordIsHandled`
says: unless every process has stopped, each record is handled. A poll is obliged to return
only if it has records, the context is cancelled or the client closed: a process
without records waits and never has to fail.

`Runtime`: weak fairness of the main goroutine, of `ListenAndServe`, of `Consume`
once it has something to do, of each worker, and of a query from its lock to its
answer; that is, database calls return and the retry timer fires. No client has to
connect, or to send the rest of its request; no record, failure or signal has to
come. That the shutdown deadline passes is assumed only in `ShutdownEnds`, whose
statement says so: a client that never sends its body keeps `Drain` waiting until
then. `Repository.Close` has no deadline and rests on the calls returning.

## 4. What was found

1. **Sessions that log in at one instant hide the last event id**
   (`mutation.go:61`). `LoadCurrent` takes it from the last row in the order of
   login time and random id. After LOGIN, LOGOUT and LOGIN at one instant the
   older session comes last if its id is the larger one, and with it the id of the
   LOGOUT. An UPDATE of the newer session that is delivered again is then accepted
   a second time and adds a state. (A LOGIN or a LOGOUT that is delivered again is
   not recognised either, but rejected, and changes nothing.) The conformance suite
   (`suite.go:205-206`) says a replay is a successful no-op. With distinct login
   times it is (`ReplayIsNoopUnlessLoginsTie`).
2. **Far timestamps stop the consumer** (`repository.go:124`). `UnixNano` wraps
   outside the years 1678 to 2262, the domain does not notice, the schema's CHECK
   fails, the failure counts as transient, and the record is retried until the
   source stops, and again after each restart. `mutation.go:125-126` says that
   persistence trusts the domain's invariants. `NewEvent` lets such times through,
   so `OnlyFaultsStopWorkers` is false; what holds is that no other event is
   refused or stops a worker (`OnlyFarTimesStopWorkers`, `MutationsMeetConstraints`).
3. **Redelivery after a restart is not safe in general** (`repository.go:42`,
   against `plan.readme:22`). Offsets survive, the database does not. Duplicates
   are recognised, but an UPDATE or LOGOUT whose LOGIN was committed earlier is
   dead-lettered. Where everything is delivered again from the first record on,
   no record that has been handled again is judged differently
   (`ReplayFromTheStartIsSafe`).
4. **Storage and domain disagree on states that last no time** (`query.go:100`
   against `interval.go:18-20`). An update at the instant its predecessor began
   leaves a state `[t,t)` that `activity.overlaps` finds and `Interval.Overlaps`
   does not. On all other states they agree (`ActivityAgrees`).

## 5. What is proved

The theorems hold for every set of keys, members, partitions, events, times,
session ids, requests and environments, every number of attempts and every bound,
with or without faults. Each is stated of the specification TLC checks.

| Theorem | Statement | Assumes |
|---|---|---|
| **EventWorkersProofs** | | |
| `TypeCorrect` | `Spec => []TypeOK` | |
| `TypesAndStorage` | `Spec => []TypeInv` | |
| `HistoryAlwaysLoads` | `Spec => []HistoryLoads` | |
| `Currency` | `Spec => []CurrencyInv` | one owner |
| `SnapshotsStayCurrent` | `Spec => []SnapshotIsCurrent` | one owner |
| `DecisionsAreAccepted` | `Spec => []MutationsMeetConstraints` | one owner |
| `OtherEventsNeverStopWorkers` | `Spec => []OnlyFarTimesStopWorkers` | one owner |
| `EventsAreAtomic` | `Spec => EventsTakeEffectAtomically` | one owner |
| `Safety` | `Spec => []SafetyInv` | one owner, times |
| `SessionsNeverOverlap` | `Spec => []LifecyclesDisjoint` | one owner, times |
| `PastIsKept` | `Spec => HistoryIsImmutable` | |
| `SessionsAreTiled` | `Spec => []StatesTileSession` | |
| **SessionLifecycleProofs** | | |
| `ReplaysChangeNothing` | `Spec => ReplayIsNoopUnlessLoginsTie` | one owner, times |
| `HistoryIsATimeline` | `Spec => ImplementsLifecycle` | one owner, times |
| **EventPipelineProofs** | | |
| `PipelineInvariant` | `Spec => []Inv` | |
| `TypeCorrect` | `Spec => []TypeOK` | |
| `TablesAreWhatTheLogMeans` | `Spec => []TablesMeanTheLog` | |
| `RepeatsAreHarmless` | `Spec => []RepeatsChangeNothing` | |
| `ReplayIsSafe` | `Spec => []ReplayFromTheStartIsSafe` | |
| **SessionQueryProofs** | | |
| `ScanSafety` | `Spec => []IInv` | |
| `PagesFollowTheOrder` | `Spec => []PagesAscend` | |
| `NoSessionIsSkipped` | `Spec => []NothingIsSkipped` | |
| `PagesAreOfOneInstant` | `Spec => []PagesAreASnapshot` | filters |
| `CursorsStayWithTheirQuery` | `Spec => []CursorsBindTheirQuery` | |
| `EverySpellingFinds` | `Spec => []SpellingsDoNotMatter` | |
| `HistoriesAreRead` | `Spec => []HistoriesReadInOrder` | |
| `ConditionsAreIntervals` | `Spec => []ActivityAgrees` | |
| **KafkaSourceProofs** | | |
| `SourceTypeCorrect` | `Spec => []TypeOK` | |
| `SourceSafety` | `Spec => []SourceInv` | |
| `NothingIsLost` | `Spec => []CommittedWereHandled` | |
| `OrderIsKept` | `Spec => []HandledInOrder` | |
| `OneOwnerHandles` | `Spec => []OneHandlerPerPartition` | |
| `SourceDelivers` | `Spec => ImplementsDelivery` | |
| **RuntimeProofs** | | |
| `RuntimeTypeCorrect` | `Spec => []TypeOK` | |
| `RuntimeSafety` | `Spec => []RuntimeInv` | |
| `NoOperationOnClosed` | `Spec => []CloseWaitsForOperations` | |
| `GracefulClose` | `Spec => []ClosedOnlyWhenIdle` | |
| `EverythingIsClosed` | `Spec => []NothingLeaks` | |
| `ExitIsTruthful` | `Spec => []ExitStatusIsTruthful` | |
| `HonestAnswers` | `Spec => []AnswersAreHonest` | |
| `ConfigurationIsEnough` | `Spec => []ConfigurationSuffices` | |

*One owner* is `ExclusiveOwners`, the serialisation the repository's contract
demands of its caller and the partitioning supplies. *Times* is
`RepresentableTimes`, which nothing in the code enforces and finding 2 violates:
the theorems that rest on it say nothing of keys that have seen such a time. The
statements `MutationsMeetConstraints` and `OnlyFarTimesStopWorkers` leave out an
event whose own time wraps, and no other; `WorkersOneKey` checks them on
representable times, the theorems also among wrapped ones. *Filters* is
`RepresentableFilters`: the instants a query asks about fit an int64 of
nanoseconds. `toNanos` wraps those that do not, and a filter on the year 3000
would be evaluated at some other time (`query.go:78`). Apart from these the proofs
use the named assumptions on the constants, which TLC evaluates in every run:

* bounds are natural numbers, `NULL`, `Absent`, `Invalid` and `NoMember` are none
  of the values they stand for the absence of, an environment has the variables
  `Load` reads;
* in `EventPipeline` a key has one partition by its constant `Owner`;
  `PipelineAssumption` and `QueryAssumption` include *times*;
* `Canonical` gives every text a canonical value or `Invalid`; the parts of a key
  are ordered like integers; a stored tag is its own canonical form, because
  `NormalizeTags` keeps the text (`PreparationAssumption`, `QueryAssumption`);
* the server's clock is between 1678 and 2262, and the zero `time.Time`, of the
  year 1, is not (`QueryAssumption`).

### The argument

*Storage.* `StoreOK` is preserved by every mutation (`ApplyPreservesStore`),
whatever snapshot it was decided on: the constraints of the schema and the row
counts are enough. It says more than the schema: an open session has an open
state, which comes after all its other states, and the maxima the queries and row
ids are defined by exist. (The last part is needed because the tables are sets
whose finiteness is not otherwise stated.) `TypeInv` adds the types and the
control state of the workers. It implies that the history of a key loads, even if
two workers share it.

*Effects.* A transaction that succeeds has one of three effects on the rows:
`Starts` adds a session with one open state, `Replaces` closes the open state of
an open session and adds one that begins where it ends, `Ends` closes the open
state and the session at one instant (`ApplyEffects`). From the effects alone, for
any snapshot and any number of owners, follow `HistoryIsImmutable` and
`StatesTileSession`: what is closed was open, and a chain of states is extended at
its open end (`ClosingTiles`). That needs `StoreOK`, which says that the open
state is the last one.

*Currency.* `SnapshotIsCurrent` is not inductive alone. A step of another worker
must not change what a load of this key returns, which needs that the two work on
different keys (`WorkersOK` and `ExclusiveOwners`) and that a mutation leaves the
rows of other keys alone (`ApplyFrame`). What this worker loads is current by
definition. `CurrencyInv` needs no assumption on times: a wrapped one is in the
tables like any other.

*Acceptance.* The current snapshot's `lastEventAt` is an upper bound of every time
stored for the key (`FreshFacts`), wrapped or not, so an event that is not stale
and whose own time does not wrap closes the one open row at an instant not before
its start: no constraint refuses it (`DecisionFits`, `ApplySucceeds`). Hence
`MutationsMeetConstraints` and `OnlyFarTimesStopWorkers`.

*Atomicity.* With a current snapshot the decision and the transaction of a worker
are those of `ApplyEvent` on the tables of that instant, the only other steps that
settle an event are rejections of a snapshot that is current too, and a transaction
that fails writes nothing (`FailureWritesNothing`, `StepIsAtomic`).

*Sessions apart.* `LifecyclesDisjoint` follows from the stale-event rule by the
same upper bound, if no time wraps: a login that passes the check with its own time
may be stored at a wrapped one, in the middle of an earlier session.

*Replays.* `ReplayInv` adds to `SafetyInv` that spans run forward (`SpansOK`) and
that the session that logged in last holds the id accepted last
(`AcceptedIsLast`). An accepted event is not before any time of its key, so the
session it is on has the latest login (`AcceptsOnLast`); if no two logins tie, it
is the one `LoadCurrent` takes the id from, and the replay is recognised.

*The lifecycle.* `LifecycleInv` adds that the times of a key have a latest
(`TimesOK`). Each effect then maps to `Start`, `Replace` or `End` on the timeline
of one key, the timelines of the others are unchanged (`TimelineFrame`), and every
other step stutters. That each is not before the last is the stale-event rule
again, through `AcceptedIsLatest`.

*The pipeline.* `Inv` says of every key that the rows of its sessions
represent (`Represents`) what its records since the last restart mean, counted one
record at a time, unless two of its sessions log in at one instant: the same ended
sessions with the same periods, the same open one, and the latest time and the id
accepted last, so that the snapshot a load returns agrees with the meaning
(`SnapshotAgrees`). An event is then accepted exactly when it counts
(`CountsIsWritten`), what it writes represents the meaning one record further
(`AcceptedRepresents`), and the other keys keep theirs (`OthersRepresent`). Sessions
never come to tie unless an accepted login falls on the latest login of its key
(`TiesAre`), and a tie lasts until the restart. That the meaning of a log can be
computed record by record (`MeaningSteps`) is an induction on its length; no
induction theorem can be cited here, so it is done on the set of lengths for which
the function exists, with `CountUp`, which needs only that a set of numbers
without bound below an interval has a least element.

*Records that come again.* A stretch of records handled again changes nothing
because, one record after the other, none of them counts: when the times of a key
increase, a record accepted before is either the last one accepted, whose id is
remembered, or earlier than the clock of the key, and a record rejected before is
rejected for the same reason (`RunsSettle`, `KeyIsSettled`).
`ReplayFromTheStartIsSafe` follows from an invariant that knows the answer to every
record of a run that started with the log (`AnswersKnown`): the meaning of the
records before it decides, and is the same in every such run.

*Sorted sets.* A finite set can be put in any strict total order
(`SortedExists`), by the same induction on a set of sizes, and the sequence holds
each element once (`SortedIsOnto`). So `InOrder` has the properties its `CHOOSE`
asks for, wherever the code sorts: ids of a page, states of a session, texts of a
list. `SortsBefore` is such an order
(`SortKeysAreOrdered`), total on the rows because the id is its last column. The
ORDER BY and the keyset condition name the same columns (`OneOrder`) and so are the
same order, the latter as long as the login time in the cursor is representable
(`KeysetIs`).

*A scan.* A page holds the first rows, in order, of those that match and come
after the cursor's key, and comes with a cursor exactly if there are more
(`PageIs`). `IInv` relates cursor and tables (`CursorContinues`): the cursor names
the query, the time of the first page and the last key returned, and every session
that has matched ever since has been returned or still matches and comes after that
key. An event preserves this because the key of a session never changes
(`DeliveryKeepsRows`, from the effects above), a page because it returns
everything up to its own last key (`PagesJoin`). `PagesAscend` and
`NothingIsSkipped` are read off it.

*One instant.* An event dated after the first page changes no match of a query
about the past (`LaterEventsChangeNoMatch`): the state it closes ends later than
any instant asked about, and the one it adds begins later. So while no event is
late, what matches is what matched at the beginning (`SnapshotOK`).

*Filters.* A fingerprint is made of everything of a resolved filter but its
scope, which the field decides, so two requests with equal fingerprints have the
same set of resolved filters (`SameFingerprint`), and that set decides what matches
(`SameMatches`): hence `CursorsBindTheirQuery`. That a request reversed has the same fingerprint
(`ReversedFingerprint`) is a bijection between two sets of positions.

*The source.* `SourceInv` relates where each member stands to what has been
handled: before the next record of a batch, and before the position of a member
that polls, everything has been handled (`BatchesAdvance`, `PositionsOK`). This is
preserved because records in hand belong to the member (`BatchesAreOwned`), which
holds because a member in a batch blocks rebalances (`BlockingOK`). A member that
has been evicted keeps its batch and may go on handling it, which is why ownership
is claimed for members of the group only; its commit is refused. A position is not
before the committed offset, so a commit never goes back. With `SourceInv`, each
handled record maps to `Finish`, each commit to `Acknowledge`, and the rest
stutters. A batch ends without an error in the channel only if no worker failed,
because it waits until every failed worker has sent its error.

*The process.* `RuntimeInv` says for every stage of `main` what is open, closed
and running (`StageOK`, `ConsumerOK`), what the shutdown has waited for unless its
deadline passed (`ShutdownOK`), and what each recorded error, and the absence of
errors, tells (`ErrorsOK`). The theorems are read off it at `exited`.
`ConfigurationSuffices` comes from `ValidationSuffices`: the checks of `Validate`
imply those of the source and the processor.

### Only model-checked

* Liveness: `EventsSettle`, `BatchesEnd`, `EveryRecordIsHandled`, `ShutdownEnds`,
  `SignalStopsSource`. The prover has neither fairness nor `ENABLED`.
* The four violated properties, which are false.

Every invariant and every safety property of a step that a passing run checks is
also a theorem, under the assumptions of the table.

## 6. What is not modelled

* The layout of the JSON of requests, responses and events. A record that does
  not decode is dead-lettered without touching anything (`Poll` in `Runtime`).
* Text itself: what `net.ParseIP`, the UUID and time parsers make of a text is the
  constant `Canonical`; `NormalizeEventID` and `NewSessionKey` appear as the
  canonical values they return.
* SQLite: its locking appears as a call that fails (`StorageFault`, `Failures`),
  its limit on the parameters of a statement not at all.
* Lengths of time: a timeout passes or does not.
* The test support (`internal/sessiontest`, `repositorytest`), which is no part of
  the program.

Known limits of what is promised. Records handed over again change nothing only
while the events of a key come in the order they happened
(`RepeatsChangeNothing`): at equal timestamps an earlier one is applied anew, and
so is an event that was dead-lettered because it came before its time. A session
whose event arrives late, dated before a scan began, may be missing from the later
pages of that scan (`lateEvent` in `SessionQuery` tells these scans apart). When
the shutdown deadline has passed, a query may be answered with an internal error
(`AnswersAreHonest`) and a worker may find the repository closed.

## 7. Plan

Done, in this order: the domain and the store; the workers and their refinement
of the lifecycle; their proofs; the Kafka source and its refinement of the
delivery contract; the pipeline with restarts; queries and their preparation; the
runtime, the endpoint and the configuration; the proofs of the source, the
process, the history of a key, the two refinements and the pipeline; the proofs of
queries, cursors and histories.

Next: theorems of `QueryPreparation` for any request, not only those of
`Queries`; a model of the query endpoint's answer as a refinement of one read of
the tables.
