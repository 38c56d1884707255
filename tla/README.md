# A TLA+ model of the cqrs framework

This directory specifies and verifies the framework in this repository: event sourcing with
snapshots and optimistic locking, the transactional outbox, delivery over NATS JetStream, and
idempotent, ordered projections. The modules are translated from the Go and SQL sources; `PROJECT.json` has, for
each definition, the lines it stands for.

## 1. The system

| component | state | operations | talks to |
|---|---|---|---|
| Command handlers (`sample/command`) | none; one invocation owns an aggregate and a transaction | `CreateProductHandler.Handle`, `UpdateProductHandler.Handle` | transactor, repository |
| Aggregate and repository (`eventsrc/aggregate*.go`, `sample/domain`) | id, version, product, uncommitted events | `TrackChange`, `ApplyFromHistory`, `MarshalJSON`/`UnmarshalJSON`, `Repository.Load`/`Save` | event store |
| Event store (`infra/postgres/event_store.go`, `schema.sql`) | tables `event_store`, `snapshots` | `Save` (events, outbox, snapshot), `Load` (snapshot, then events) | outbox store, the transaction in the context |
| Transactor and pool (`infra/postgres/db.go`) | the connection pool, the transaction in a context | `NewDB`, `WithTransaction`, `Close` | everything that reads or writes a table |
| Outbox store (`infra/postgres/outbox.go`) | table `outbox` with the flag `published` | `SaveEvents`, `ProcessOutboxBatch` | relay's publish function |
| Relay (`outbox/relay.go`) | ticker, `quit`, wait group | `Start`, `processBatch`, `Stop` | outbox store, broker |
| Broker (`infra/nats/broker.go`) | JetStream streams and durable consumers (external) | `Publish`, `Subscribe`, `ensureTopicExist` | relay, projections |
| Projection (`cqrs/projection.go`) | none of its own | `Handle`: idempotency check, ordering check with retries, transaction | idempotency store, versioned store, handler |
| Idempotency store (`infra/postgres/idempotency.go`) | table `processed_events` | `IsProcessed`, `MarkAsProcessed` | the transaction in the context |
| Sample read side (`sample/query`) | table `product_views` | `ProductProjectionHandler.Handle`, `SaveProductView`, `UpdateProductView`, `GetVersion` | projection |
| Query handler (`sample/query/query`) | none | `GetProductByIDHandler.Query` | view repository |
| Wiring (`sample/main.go`) | the context of the process | starts three relays, one subscriber and a client; on a signal closes broker and pool | all of the above |
| Registry, test utilities | set up once | | |

An event's life: a handler inserts it in `event_store` and `outbox` in one transaction; a relay
fetches and locks the row, publishes it and marks it; a subscriber's worker fetches the message
and calls `Projection.Handle`, which updates the view and records the event.

What is hard here, and what has to hold:

* **Write side.** `Load` reads through the pool, not through the handler's transaction, in two
  queries, while other handlers commit; only the unique index `uq_aggregate_version` makes
  the writers agree. Streams must have no gap and no fork, nothing may be computed from a
  stale state, the outbox must agree with the store when any call fails, and a snapshot must be
  the replay of the stream it stands for.
* **Outbox.** Several relays compete for rows; a batch is published before it is marked, so each
  failure in between is a duplicate; shutdown may come in the middle of a batch. Nothing may be lost, and
  duplicates must come only from rollbacks.
* **Read side.** Messages come late, twice, out of order, and to two workers at once; the version
  and the idempotency record are read before the transaction and used in it. The view must
  apply each event once and in order, and must catch up.
* **The process as a whole.** All parts share one pool, and some ask it for a second connection
  while they hold one and others wait for their keys: nobody may block for good, and shutdown has
  to end. From command to query an event passes through four tables and a stream: it must be
  in one of them at any time, and what a query returns must be a state the stream went through.

`hazards` in `PROJECT.json` lists these line by line with the properties that catch them.

## 2. The modules

| module | what it is | composes |
|---|---|---|
| `EventStore` | command handlers, aggregate, repository, event store, outbox `SaveEvents`, transactor | |
| `EventStoreProofs` | its inductive invariant and the theorems | `EventStore` |
| `EventLogProofs` | `EventStore` implements `EventLog` | `EventStoreProofs` |
| `Relay` | outbox store's batch, relay, broker's `Publish` | |
| `RelayProofs` | its inductive invariant, the theorems, the refinement of `Delivery` | `Relay` |
| `ReadModel` | abstract: what a projection promises | |
| `Projection` | broker's `Subscribe`, `Projection.Handle`, idempotency store; a handler that uses the transaction | implements `ReadModel` |
| `ProjectionProofs` | its inductive invariant, the theorems, the refinement of `ReadModel` | `Projection` |
| `ProductReadSide` | the same `Handle` with the sample's own handler and view repository | `Projection` |
| `ProductReadSideProofs` | the theorems about the sample's read side | `ProductReadSide`, `ProjectionProofs` |
| `EventLog` | abstract: the append-only log that the event store promises | implemented by `EventStore` |
| `Delivery` | abstract: the at-least-once channel that outbox and relays promise | implemented by `Relay` |
| `ConnPool` | the connection pool and its users: handlers, relays, subscribers, queries, shutdown | |
| `ConnPoolProofs` | why the pool cannot block | `ConnPool` |
| `CQRS` | abstract: what the application promises its clients | extends `EventLog` |
| `Pipeline` | the application as `sample/main.go` wires it, with the query handler | `EventLog`, `Relay`, `ProductReadSide`; implements `CQRS` |
| `PipelineProofs` | end to end, from the theorems about the parts; the refinement of `CQRS` | `Pipeline`, instances of `RelayProofs` and `ProductReadSideProofs` |
| `MC*` | instances for TLC, with symmetry sets where they are sound | |

### EventStore

A step is one call to the database and the local computation around it. `pc[h]` names the next
call of handler `h`: `loadSnapshot`, `loadEvents`, `track` (changes, then the INSERT of
`saveEventsInTx`), `outbox`, `snapshot`, `commit`. Writes collect in `tx[h]` and reach
`eventStore`, `outbox` and `snapshots` at `Commit`; reads see the tables, as the code's reads go through the pool.

* *Waiting.* An INSERT waits while another open transaction holds the same key
  (`WaitsForKey`); then it succeeds or fails with 23505 (`ErrConcurrency`).
* *Failure.* `Rollback` can happen at every call. `SaveSnapshotFails` is the error
  that `Save` logs and swallows: PostgreSQL has aborted the transaction, the commit is a
  rollback, and `WithTransaction` reports it. `CommitReplyLost` commits and returns an error.
* *Data.* A product is a model value (what `Validate` accepts); a rejected one is a `Rollback`. Event
  ids are fresh uuids and left out. `LoadFromHistory` is given in closed form: each event
  overwrites name and price, and `ProductCreated` also the id. `MarshalJSON` drops the id and
  version, `UnmarshalJSON` starts from zero: this is what the code does, and the finding about `Load` rests on it.
  `Repository.Load` ignores the error of `LoadFromHistory`; `Apply` has none for the two registered event types.
* *Generality.* A command tracks up to `MaxChanges` changes, which the repository allows; the sample's
  handlers track one.

### Relay

`batch[r]` holds the rows a relay has fetched and locked, `next[r]` how many it has dealt with.
`FetchAndLock` takes the oldest `BatchSize` unpublished rows no other relay holds, ties in any order;
`Publish` and `Skip` deal with one row; `MarkAsPublished` updates and commits. `Stop` closes the channel `quit`; the code panics
when it is called twice, which is left out, as nothing in the repository does. `BatchFails`,
`PublishReplyLost`, `Stop`, `CancelContext` and `Return` are failure and shutdown. A process that
dies and is started again is `BatchFails`. `undone` is a history variable: how often
each event was sent by a batch that was then rolled back.

Abstractions: the SELECT with its locks is one step; one topic, since topics share nothing;
the timestamps of one aggregate do not decrease but can tie, and are not ordered by commit
across aggregates. `SaveEvents` stands for a commit of `EventStore` with one or two rows.

### Projection

`msgs[w]` are the fetched messages in order, `pc[w]` the call `Handle` makes next, `cur[w]` the
version it has read. `Fetch` may return any unacknowledged message, also one another worker is
busy with (the ack wait is shorter than the retries of `Handle`), and each event is in the stream once per
element of `Copies`, which is what the relay's rollbacks leave. The retry loop is
`Retry(w) \/ GiveUp(w)`: another attempt, or the end of the allowed time, at any point. A view is
its version. The row of the view is locked from the handler's write to the end of the transaction.

`backoff` and JetStream are external and modelled by what the code expects of them; in
particular `backoff.Permanent(nil)` on an old event counts as success, as the code's comment
at that line says.

### ProductReadSide

`HandleProductEvent` replaces `HandleEvent`: the repository writes through the pool and not through the
transaction in its context, so the statement commits at once; `SaveProductView` inserts or overwrites, `UpdateProductView` updates a row if there is one,
and neither compares versions. `ErrorOnlyLogged` is the error the handler logs and does
not return; the history variable `lost` has the events it hit. `Orphans` are products whose first event is an update, which
`UpdateProductHandler` accepts.

### ConnPool

A user is a goroutine; `todo[u]` are the calls it has still to make, of four kinds: `begin` and
`query` take a connection, `insert` can wait for a key, `end` commits. `CreateCalls` to
`QueryCalls` give the calls of each operation in the code's order, with one sequence for each
way through `Projection.Handle`. `tx` and `running` are the users whose transaction or query holds a
connection, `locked` those that have inserted a key. Relays and subscribers run under the
context of `main`, which a signal cancels; commands and queries under `context.Background()`. `Close`
refuses new connections, and returns when all are back (`CloseReturns`); a user that waits for
a connection learns of it when it is its turn, as the pool's semaphore has it.

`PoolAssumption` says that fewer users nest (hold one connection and ask for another) than the pool has
connections. It is needed: with as many, each can hold one and wait, and nobody has a timeout. The
sample is within it (one client and one subscriber, and pgx takes at least four connections); a
server that handles each request in a goroutine of its own is not, unless it bounds them.

### Pipeline

The write side is `EventLog` rather than `EventStore`: `RefinesEventLog` shows that the one implements the
other and `OutboxIsTransactional` that the outbox gets the same events, so a command is one step,
`Commit`, which appends the same versions to the log and to the outbox. Relays and subscriber are
instances of their modules with their own state. They meet in the stream: the message
with copy number `c` of an event can be fetched once the stream has `c` copies of it (`Delivered`). The relays are not stopped, since
`main` never calls `Stop`; a crash with restart is a failing batch and a crash of the worker.
`price[a]` is the column of the row and `IntColumn` what the column keeps of a price: `product_views.price` is `INT`, the
event's price a `float64`. A price that does not fit makes the write fail (`ViewWriteFails`). `seen[a]` is what the last query returned.

The refinement to `CQRS` maps the log to itself with rounded prices, and the row to its version and
price. Relay state, messages, idempotency records and failures are hidden.

## 3. The runs

| run | shows | bounds | states |
|---|---|---|---|
| `event_store` | `EventStore` implements `EventLog`; streams without gap or fork, no lost update, outbox = store, snapshots and loads are replays, acknowledged is durable | 2 handlers on 1 aggregate, 2 products, 4 versions, snapshot every 2, 2 changes per command | 196,027 |
| `event_store_live` | every command returns, waiting for event keys and for snapshot keys | 2 handlers, 2 aggregates, 2 versions, snapshot every 2 | 76,337 |
| `relay` | `Relay` implements `Delivery`; marked is delivered, duplicates only from rollbacks | 2 relays, 2 aggregates (one without topic), batch 2, 2 failures | 1.8 million |
| `relay_live` | one relay keeps timestamp order per aggregate; every event with a topic is delivered; `Stop` returns | 1 relay, 2 aggregates (one without topic), batch 2, 4 rows with ties, 2 failures | 134,694 |
| `projection` | `Projection` implements `ReadModel`; view and records agree; acknowledged is processed; the view catches up and every message is acknowledged | 2 workers, 2 versions twice each, 2 failures | 23,434 |
| `read_side` | the sample's projection with one worker: processed is visible, no regression, and a lost write or an orphan harms only its own product | 1 worker, 3 aggregates (one an orphan), 2 versions, 1 failure, 1 logged error | 26,677 |
| `conn_pool` | connections and keys never block all their holders; every operation ends; shutdown completes | 3 connections; 1 create, 1 update, 1 relay, 1 subscriber, 1 query | 11,832 |
| `pipeline` | `Pipeline` implements `CQRS`; no event is lost between the tables; committed events become visible | 2 relays, batches of 1, 1 subscriber, 1 product with 2 versions, 2 prices (one too large for the column), 1 failure on each side | 65,930 |

Why the bounds are enough to be interesting: two actors give every race the code has (each
conflict is pairwise, over one key, one row or one message), four versions are two snapshot periods, so an
aggregate restored from a snapshot is snapshotted again; batches of two over more
than two rows give full and partial batches; two failures allow a failure during the recovery from the
first. In `projection` each event is in the stream twice and is delivered again until it is acknowledged; fetching several messages at
once is part of `read_side`. In `conn_pool` the two users that nest and two others compete for one connection more than those
that nest, which is the least that works, beside a query. In `pipeline` batches of one make the two relays hold different events
of one product, so that they overtake each other; one rollback gives each event up to two copies. All safety properties of these runs are also proved, without bounds on the number of actors (section 5).

Deadlock is checked except in the relay's runs, where all relays may have been stopped, and in `conn_pool`,
where the process ends.

Each property of a passing run has a mutant in `PROJECT.json`: a plausible bug in the modelled code that TLC
shows to violate the property under the same configuration. Definitions marked `\* mutant`
are used for nothing else.

### Where the code and its documentation disagree

Four runs check a statement of a comment or document, and TLC refutes it:

| run | the statement | what happens |
|---|---|---|
| `event_store_load` | loading brings the aggregate "to its most recent state" | the version that `Store.Load` returns is dropped; with a snapshot and no later event it is 0, and every further command ends in `ErrConcurrency` |
| `read_side_twice` | an event is not "processed more than once" | a slow worker writes the view again, outside the transaction that is then rolled back |
| `event_store_snapshots` | a snapshot of the aggregate is saved "periodically" | an aggregate restored from a snapshot has lost its id, so its next snapshot is filed under `uuid.Nil`, where no load finds it. It takes the race of `Load`'s two queries to get there: otherwise the first finding stops the stream at its first snapshot |
| `read_side_silent` | the read model is eventually consistent | a logged error leaves the view behind for good |

The models contain more, which the properties that hold are worded around:

* an aggregate restored from a snapshot, or never created, is snapshotted under `uuid.Nil` (`event_store_snapshots`), so
  `SnapshotsReplayTheStream` speaks of the snapshots filed under an aggregate only;
* an event without aggregate type is skipped and marked published, so `PublishedIsDelivered` speaks
  of events with a topic;
* a unique violation in `MarkAsProcessed` is ignored ("a legitimate scenario, not an error",
  `idempotency.go:46`), but it has aborted the transaction, so the commit fails, `Handle` returns an
  error and the message is delivered again (`CommitAborted`). Nothing is applied twice for it, and `CatchesUp` shows that the
  message is acknowledged in the end;
* the view does not have the event's price but what an `INT` column keeps of it (199 of the client's 199.99), where
  `sample/README.md:47` says "denormalized data from the event"; `ImplementsCQRS` therefore compares with rounded prices;
* the sample's view is written before, and without, the record of the event, so `read_side` has no
  equivalence between the two as `projection` has (`ViewIsWhatIsProcessed`);
* an update of a product without a view row changes nothing and is recorded (`Orphans`), so
  `ProcessedIsVisible` and `HealthyViewsCatchUp` leave these products out.

The safety properties hold in spite of these: the unique index turns a wrongly loaded
version into an error, never into a fork.

## 4. Fairness

* `EventStore`: weak fairness on each handler's own steps (a goroutine runs, a call returns),
  strong fairness on the two INSERTs that wait, since PostgreSQL wakes a waiter when the holder ends. No
  fairness on new commands or on failures.
* `Relay`: weak fairness on each relay's work (the ticker ticks) and, once the context is
  cancelled, on the failure of the open batch (its next call returns the context's error); strong
  fairness on `Return`, since `select` picks among ready cases at random.
* `Projection`, `ProductReadSide`: weak fairness on a worker's own steps, strong fairness on the
  two steps that wait for a lock, and on the delivery of each unacknowledged message:
  JetStream delivers it again after the ack wait, without limit on attempts. In `ProductReadSide` the end of the retry time is strongly fair as well:
  there an event can be recorded but not visible, so each retry aborts again, and only `MaxElapsedTime`
  ends them.

* `ConnPool`: strong fairness on each user's next call, since the pool's semaphore serves its waiters in the
  order they came and PostgreSQL wakes those that wait for a key; weak fairness on `Close` and
  `CloseReturns` (the deferred call of `main`). None on starting an operation, nor on the signal.
* `Pipeline`: the fairness of `Relay` and `ProductReadSide`, with the delivery of a message strongly fair once it
  is in the stream. None on clients.

Failures are bounded in the live runs, so they say: once failures stop, the system recovers.

## 5. What is proved

Every invariant, action property and refinement that a passing run checks is also a theorem, for any sets of
actors, aggregates and values and any bounds. The assumptions are those the modules state: sentinels are not
real values, numbers are numbers, limits are not zero, and for the pool and the application what is said
there.

| theorem | of | statement | beyond the module's assumptions |
|---|---|---|---|
| `TypeCorrect` | `EventStore` | `Spec => []TypeOK` | |
| `StreamsStayContiguous` | `EventStore` | `Spec => []StreamsAreContiguous` | |
| `NoLostUpdate` | `EventStore` | `Spec => []SavedOnLatestState` | |
| `OutboxIsTransactional` | `EventStore` | `Spec => []OutboxMirrorsStore` | |
| `SnapshotsAreReplays` | `EventStore` | `Spec => []SnapshotsReplayTheStream` | |
| `AckedStaysDurable` | `EventStore` | `Spec => []AckedIsDurable` | |
| `LoadIsConsistent` | `EventStore` | `Spec => LoadRestoresProduct` | |
| `RefinesEventLog` | `EventStore` | `Spec => ImplementsEventLog` | |
| `TypeCorrect` | `Relay` | `Spec => []TypeOK` | |
| `DeliveredAtLeastOnce` | `Relay` | `Spec => []PublishedIsDelivered` | |
| `DuplicatesComeFromRollbacks` | `Relay` | `Spec => []DuplicatesNeedARollback` | |
| `RefinesDelivery` | `Relay` | `Spec => ImplementsDelivery` | |
| `OneRelayKeepsOrder` | `Relay` | `Spec => []DeliveredInTsOrder` | one relay |
| `TypeCorrect` | `Projection` | `Spec => []TypeOK` | |
| `ExactlyOnce` | `Projection` | `Spec => []ViewIsWhatIsProcessed` | |
| `NoEventIsLost` | `Projection` | `Spec => []AckedIsProcessed` | |
| `RefinesReadModel` | `Projection` | `Spec => ImplementsReadModel` | |
| `ReadSideTypeCorrect` | `ProductReadSide` | `ReadSideSpec => []ReadSideTypeOK` | |
| `NoSampleEventIsLost` | `ProductReadSide` | `ReadSideSpec => []AckedIsProcessed` | |
| `RecordedIsVisible` | `ProductReadSide` | `ReadSideSpec => []ProcessedIsVisible` | one worker |
| `ViewIsMonotonic` | `ProductReadSide` | `ReadSideSpec => ViewNeverRegresses` | one worker |
| `TypeCorrect` | `ConnPool` | `Spec => []TypeOK` | |
| `PoolNeverBlocks` | `ConnPool` | `Spec => []PoolKeepsMoving` | |
| `PipelineTypeCorrect` | `Pipeline` | `Spec => []PipelineTypeOK` | |
| `NoEventIsLostOnTheWay` | `Pipeline` | `Spec => []NothingIsLost` | |
| `RefinesCQRS` | `Pipeline` | `Spec => ImplementsCQRS` | |

The hypotheses of the last column are needed. Two relays take what the other has locked and overtake each
other, so only one keeps the order. Two workers of the sample's subscriber can both have read a version
before either writes, and the slower one puts an old row back (`read_side_twice` shows the write). `main`
starts one subscriber, so `PipelineAssumption` has one worker; it starts three relays, so `Pipeline` does
not rely on order.

### Write side

None of its invariants is inductive alone. `SavedOnLatestState` needs that what a handler loaded was a
prefix of the stream, which needs snapshots to be replays, which needs the snapshot to be taken by a handler
that works on the latest state. `IInv` therefore joins the tables' invariants with those of each handler
(`HandlersInv`): the shape of its command, its uncommitted events (consecutive versions after the loaded
one) and its transaction; the snapshot it read and the aggregate it loaded lie on the stream
(`SnapOfStream`, `BaseOfStream`); and no committed event or other open transaction has a key it has inserted
(`KeysAreFree`).

The argument, in the order of the lemmas: replaying a contiguous suffix on a replayed snapshot gives the
replay of the whole (`LoadFromHistoryFacts`, `LoadedFacts`); a step of one handler that leaves the tables
alone keeps the others' invariants (`OthersKept`); a handler whose keys are free sits on the latest state
(`FreeKeyIsLatest`), because its first new version is one more than a version on a contiguous stream; hence
at most one handler per aggregate has events in an open transaction (`OneWriterPerAggregate`), and its
commit extends the stream by its next versions without disturbing what others rely on (`CommitKeepsTables`,
`CommitKeepsOthers`). `Inductive` puts the actions together.

The refinement adds `ChangesShape`: a command stays within the bounds, and only the first event of a stream
is a `ProductCreated`. With it a commit is one `Append` (`CommitAppends`) and every other step leaves the
log alone.

### Relay

`IInv` adds to the properties that the rows of a batch are distinct and unmarked (`BatchShape`), that no row
is in two batches (`BatchesAreDisjoint`: `FOR UPDATE SKIP LOCKED`), that the broker has what a batch is past
(`SentIsDelivered`), and `CopiesAreAccounted`: an event that is neither marked nor sent by an open batch has
at most `undone[e]` copies. The last is what makes duplicates countable: sending adds one copy, and only to
an event that so far has at most as many as rollbacks explain; a rollback moves it to `undone`. Without
disjoint batches a second relay could send in between.

Order needs `BatchIsOldest` besides: what is older than a row of the batch, in its aggregate, is marked or
comes before it in the batch. With one relay nothing is locked by others, so `ORDER BY ... LIMIT` leaves out
younger rows only.

### Projection and the sample's read side

`ViewIsWhatIsProcessed` relates two tables that one commit changes, on the strength of values read before.
`IInv` says of each worker what its open transaction has written (`TxShape`), that the version it read is
one the view has reached, though it may have moved on, and that its event is the next one after that or an
old one (`ReadIsPast`), that an inserted record is new until the commit (`MarkIsNew`, `MarksAreExclusive`:
the primary key), and that only a recorded event gets to the acknowledgement (`AckIsEarned`). So if the view
has moved on, the event is already recorded and the transaction cannot commit; a commit finds the version it
read, and is one step of `ReadModel`.

The sample's view is not in the transaction, so the argument is another one: with one worker the version
that was read is still that of the view (`ReadIsCurrent`), and the record follows the write
(`WrittenBeforeRecorded`). `NoSampleEventIsLost` needs neither and holds for any number of workers.

### Connection pool

`UserShape` says what a user can have left to do inside and outside a transaction, that a user that does not
nest has no query between `begin` and `end`, and that the holder of a key has only `end` left.
`PoolNeverBlocks` is then a count: if every connection belongs to a transaction that waits for another
connection, all of their owners nest, but `PoolAssumption` has fewer of these than connections; and whoever
waits for a key waits for someone who can end.

### The application

`PartsImplemented` shows that each behaviour of `Pipeline` is one of `Relay` and one of `ProductReadSide`,
so what is proved about them holds of it (`PartsInductive`). `NoEventIsLostOnTheWay` follows from the two
alone: a marked event is in the stream, and its first copy is not acknowledged unless the event is recorded.
The refinement needs an invariant of the composition, `PipelineInv`: store and outbox have the same events,
one per version (`LogShape`); the subscriber holds and acknowledges only what the stream delivers
(`OnlyDelivered`); and a row has the price of the event whose version it has (`RowsShowEvents`). A view
write is then a `Project` step: the message is of an event of the log, it follows the shown version because
the read is current, and its price is that of the one row with its key.

### Left to TLC alone

* Liveness, which needs `ENABLED` and fairness: `CommandsReturn`, `EventuallyDelivered`, `StopReturns`,
  `CatchesUp`, `HealthyViewsCatchUp`, `OperationsEnd`, `ShutdownCompletes`, `EventuallyVisible`.
* The four statements of the documentation that are refuted.

## 6. Not modelled

* The event registry is filled by `init` functions before `main` runs, and is only read afterwards, under a
  lock; an unknown type is an error of `Load` (a `Rollback`). `testutil` serves tests.
* Start-up: a missing environment variable or a failed connection ends the process before anything
  else has started. The broker's connection, its reconnects and `Close` are failures of the calls that use it.
* The script of the client in `main` (create, wait, query, update, wait, query): `Pipeline` has clients
  that do any of this at any time. Under that script alone an update follows a query that saw the created
  product, so its events could not overtake each other.
* Formats (JSON, uuid text, subjects), logging and durations.

## 7. Plan

Done: the write side with its proofs and its abstract log; the relay and the channel it implements; the projection
and the read model it implements; the sample's read side; the connection pool; the application as
a whole.
All safety properties of the runs are proved.

Next:

1. Lemmas that carry liveness arguments without `ENABLED`: what a step toward a goal leaves true and what
   measure it lowers (a relay's batch, a worker's retries), as action properties that TLC checks first.
2. The write side inside `Pipeline`: a composition of `EventStore` and `Relay` over one outbox, so that the
   same transaction feeds both, instead of the joint step `Commit`.
