---------------------------- MODULE EventStore ----------------------------
(***************************************************************************)
(* The write side: command handlers load an event-sourced aggregate, track *)
(* changes on it and save it, inside one PostgreSQL transaction            *)
(* (sample/command, sample/domain/aggregate, eventsrc, infra/postgres).    *)
(*                                                                         *)
(* A handler runs concurrently with the others.  Its reads go through the  *)
(* connection pool, so they see what is committed at the time of each      *)
(* query; its writes go to its transaction and become visible at commit.   *)
(* One step is one call to the database, with the local computation that   *)
(* precedes or follows it.                                                 *)
(***************************************************************************)
EXTENDS Integers, Sequences

CONSTANTS
    Handlers,           \* command handler invocations that can be in flight
    Aggregates,         \* aggregate ids
    Products,           \* product states that Product.Validate accepts
    NoProduct,          \* the zero value of domain.Product
    NilID,              \* uuid.Nil, the id of an aggregate root before SetID
    SnapshotFrequency,  \* NewEventStore's snapshotFrequency; <= 0 disables
    MaxChanges,         \* bound: TrackChange calls per command
    MaxVersion          \* bound: length of an event stream

ASSUME SentinelsAssumption == NoProduct \notin Products /\ NilID \notin Aggregates
ASSUME BoundsAssumption ==
    SnapshotFrequency \in Int /\ MaxChanges \in Nat /\ MaxVersion \in Nat

VARIABLES
    eventStore,  \* committed rows of table event_store
    outbox,      \* committed rows of table outbox (the relay's part is module Relay)
    snapshots,   \* committed rows of table snapshots
    acked,       \* rows whose handler has returned nil to its caller
    pc,          \* pc[h]: the database call handler h makes next
    cmd,         \* cmd[h]: the command h handles
    snap,        \* snap[h]: the snapshot row h has read
    base,        \* base[h]: the aggregate as h got it, before any change
    root,        \* root[h]: the aggregate with h's changes applied
    events,      \* events[h]: AggregateRoot.events, the uncommitted events
    tx           \* tx[h]: what h's open transaction has written so far

tables == <<eventStore, outbox, snapshots>>
locals == <<cmd, snap, base, root, events>>
vars == <<tables, acked, pc, locals, tx>>

---------------------------------------------------------------------------
(* Rows, events and aggregates.  An event's id is a fresh uuid and is left *)
(* out: rows are told apart by aggregate and version.                      *)

Event == [agg : Aggregates, ver : Nat, kind : {"Created", "Updated"}, data : Products]

Command == [kind : {"Create", "Update"}, agg : Aggregates]
NoCommand == [kind |-> "none", agg |-> NilID]

Root == [id : Aggregates \cup {NilID}, version : Nat, product : Products \cup {NoProduct}]
EmptyRoot == [id |-> NilID, version |-> 0, product |-> NoProduct]

\* MarshalJSON keeps the exported fields only: AggregateRoot's id and version are not
\* in the payload, and UnmarshalJSON starts from a new AggregateRoot.
MarshalWholeRoot(r) == r  \* mutant
MarshalJSON(r) == r.product
UnmarshalJSON(payload) == [id |-> NilID, version |-> 0, product |-> payload]

Snapshot == [id : Aggregates \cup {NilID}, ver : Nat, payload : Products \cup {NoProduct}]
NoSnapshot == [id |-> NilID, ver |-> 0, payload |-> NoProduct]

Tx == [events : SUBSET Event, outbox : SUBSET Event, snapshots : SUBSET Snapshot,
       aborted : BOOLEAN]
NoTx == [events |-> {}, outbox |-> {}, snapshots |-> {}, aborted |-> FALSE]

Stream(a) == {e \in eventStore : e.agg = a}
Uncommitted(h) == {events[h][i] : i \in 1..Len(events[h])}

Apply(r, e) ==
    [id |-> IF e.kind = "Created" THEN e.agg ELSE r.id, version |-> e.ver, product |-> e.data]

\* Applying every event of history in version order: each event overwrites the name and
\* the price, ProductCreated also sets the id.
LoadFromHistory(r, history) ==
    IF history = {} THEN r
    ELSE LET last == CHOOSE e \in history : \A f \in history : f.ver <= e.ver
             created == {e \in history : e.kind = "Created"}
         IN  [id |-> IF created = {} THEN r.id ELSE (CHOOSE e \in created : TRUE).agg,
              version |-> last.ver,
              product |-> last.data]

TypeOK ==
    /\ eventStore \subseteq Event /\ outbox \subseteq Event /\ acked \subseteq Event
    /\ snapshots \subseteq Snapshot
    /\ pc \in [Handlers -> {"idle", "loadSnapshot", "loadEvents", "track", "outbox",
                            "snapshot", "commit"}]
    /\ cmd \in [Handlers -> Command \cup {NoCommand}]
    /\ snap \in [Handlers -> Snapshot]
    /\ base \in [Handlers -> Root] /\ root \in [Handlers -> Root]
    /\ events \in [Handlers -> Seq(Event)]
    /\ tx \in [Handlers -> Tx]

Init ==
    /\ eventStore = {} /\ outbox = {} /\ snapshots = {} /\ acked = {}
    /\ pc = [h \in Handlers |-> "idle"]
    /\ cmd = [h \in Handlers |-> NoCommand]
    /\ snap = [h \in Handlers |-> NoSnapshot]
    /\ base = [h \in Handlers |-> EmptyRoot]
    /\ root = [h \in Handlers |-> EmptyRoot]
    /\ events = [h \in Handlers |-> <<>>]
    /\ tx = [h \in Handlers |-> NoTx]

---------------------------------------------------------------------------
(* The handler returns: its aggregate and its transaction are gone.        *)
ReturnWithoutRollback(h) ==  \* mutant
    /\ pc' = [pc EXCEPT ![h] = "idle"]
    /\ cmd' = [cmd EXCEPT ![h] = NoCommand]
    /\ snap' = [snap EXCEPT ![h] = NoSnapshot]
    /\ base' = [base EXCEPT ![h] = EmptyRoot]
    /\ root' = [root EXCEPT ![h] = EmptyRoot]
    /\ events' = [events EXCEPT ![h] = <<>>]
    /\ UNCHANGED tx

Return(h) ==
    /\ pc' = [pc EXCEPT ![h] = "idle"]
    /\ cmd' = [cmd EXCEPT ![h] = NoCommand]
    /\ snap' = [snap EXCEPT ![h] = NoSnapshot]
    /\ base' = [base EXCEPT ![h] = EmptyRoot]
    /\ root' = [root EXCEPT ![h] = EmptyRoot]
    /\ events' = [events EXCEPT ![h] = <<>>]
    /\ tx' = [tx EXCEPT ![h] = NoTx]

(* WithTransaction begins; CreateProduct starts from an empty aggregate,   *)
(* UpdateProduct loads it.                                                 *)
CreateProduct(h, a) ==
    /\ pc[h] = "idle"
    /\ cmd' = [cmd EXCEPT ![h] = [kind |-> "Create", agg |-> a]]
    /\ pc' = [pc EXCEPT ![h] = "track"]
    /\ UNCHANGED <<tables, acked, snap, base, root, events, tx>>

UpdateProduct(h, a) ==
    /\ pc[h] = "idle"
    /\ cmd' = [cmd EXCEPT ![h] = [kind |-> "Update", agg |-> a]]
    /\ pc' = [pc EXCEPT ![h] = "loadSnapshot"]
    /\ UNCHANGED <<tables, acked, snap, base, root, events, tx>>

(* loadSnapshot: the row of the greatest version, or none.                 *)
LoadSnapshot(h) ==
    LET found == {s \in snapshots : s.id = cmd[h].agg}
    IN  /\ pc[h] = "loadSnapshot"
        /\ \/ found = {} /\ snap' = [snap EXCEPT ![h] = NoSnapshot]
           \/ \E s \in found : /\ \A t \in found : t.ver <= s.ver
                               /\ snap' = [snap EXCEPT ![h] = s]
        /\ pc' = [pc EXCEPT ![h] = "loadEvents"]
        /\ UNCHANGED <<tables, acked, cmd, base, root, events, tx>>

(* loadEvents, a second query: the events after the snapshot as they are   *)
(* now.  Repository.Load then restores the snapshot and replays them; it   *)
(* does not use the version that Store.Load returns.                       *)
HistoryOffByOne(h) == {e \in Stream(cmd[h].agg) : e.ver > snap[h].ver + 1}  \* mutant
History(h) == {e \in Stream(cmd[h].agg) : e.ver > snap[h].ver}

LoadEvents(h) ==
    LET loaded == LoadFromHistory(UnmarshalJSON(snap[h].payload), History(h))
    IN  /\ pc[h] = "loadEvents"
        /\ base' = [base EXCEPT ![h] = loaded]
        /\ root' = [root EXCEPT ![h] = loaded]
        /\ pc' = [pc EXCEPT ![h] = "track"]
        /\ UNCHANGED <<tables, acked, cmd, snap, events, tx>>

(* TrackChange: apply, validate, append.  A change that Validate rejects   *)
(* makes the handler return the error: see Rollback.                       *)
NextVersionTwice(h) == root[h].version + 2  \* mutant
NextVersion(h) == root[h].version + 1

TrackChange(h, p) ==
    LET e == [agg |-> cmd[h].agg, ver |-> NextVersion(h), data |-> p,
              kind |-> IF cmd[h].kind = "Create" /\ events[h] = <<>>
                       THEN "Created" ELSE "Updated"]
    IN  /\ pc[h] = "track"
        /\ Len(events[h]) < MaxChanges /\ root[h].version < MaxVersion
        /\ root' = [root EXCEPT ![h] = Apply(root[h], e)]
        /\ events' = [events EXCEPT ![h] = Append(events[h], e)]
        /\ UNCHANGED <<tables, acked, pc, cmd, snap, base, tx>>

(* Repository.Save with no uncommitted event: an empty transaction commits. *)
SaveNothing(h) ==
    /\ pc[h] = "track" /\ events[h] = <<>>
    /\ Return(h)
    /\ UNCHANGED <<tables, acked>>

---------------------------------------------------------------------------
(* saveEventsInTx: one batch of INSERTs under uq_aggregate_version.  An    *)
(* INSERT whose key another open transaction has inserted waits for that   *)
(* transaction to end.                                                     *)
SameKey(e, f) == e.agg = f.agg /\ e.ver = f.ver

NoUniqueIndex(h) == FALSE  \* mutant
UniqueViolation(h) == \E e \in Uncommitted(h), f \in eventStore : SameKey(e, f)

WaitsForKey(h) ==
    \E g \in Handlers \ {h} : \E e \in Uncommitted(h), f \in tx[g].events : SameKey(e, f)

SaveEventsInTx(h) ==
    /\ pc[h] = "track" /\ events[h] # <<>>
    /\ ~WaitsForKey(h) /\ ~UniqueViolation(h)
    /\ tx' = [tx EXCEPT ![h].events = Uncommitted(h)]
    /\ pc' = [pc EXCEPT ![h] = "outbox"]
    /\ UNCHANGED <<tables, acked, locals>>

(* 23505 becomes ErrConcurrency, and the transaction is rolled back.       *)
ErrConcurrency(h) ==
    /\ pc[h] = "track" /\ events[h] # <<>>
    /\ UniqueViolation(h)
    /\ Return(h)
    /\ UNCHANGED <<tables, acked>>

(* OutboxStore.SaveEvents, in the same transaction.                        *)
ShouldSnapshot(h) == SnapshotFrequency > 0 /\ root[h].version % SnapshotFrequency = 0

SaveEventsOutsideTx(h) ==  \* mutant
    /\ pc[h] = "outbox"
    /\ outbox' = outbox \cup Uncommitted(h)
    /\ pc' = [pc EXCEPT ![h] = IF ShouldSnapshot(h) THEN "snapshot" ELSE "commit"]
    /\ UNCHANGED <<eventStore, snapshots, acked, locals, tx>>

SaveEvents(h) ==
    /\ pc[h] = "outbox"
    /\ tx' = [tx EXCEPT ![h].outbox = Uncommitted(h)]
    /\ pc' = [pc EXCEPT ![h] = IF ShouldSnapshot(h) THEN "snapshot" ELSE "commit"]
    /\ UNCHANGED <<tables, acked, locals>>

(* saveSnapshotInTx: ON CONFLICT (aggregate_id, aggregate_version) DO      *)
(* NOTHING, which also waits for an open transaction with the same key.    *)
SnapshotOfBase(h) ==  \* mutant
    [id |-> root[h].id, ver |-> root[h].version, payload |-> MarshalJSON(base[h])]
SnapshotRow(h) ==
    [id |-> root[h].id, ver |-> root[h].version, payload |-> MarshalJSON(root[h])]

SameSnapshotKey(s, t) == s.id = t.id /\ s.ver = t.ver

SaveSnapshotInTx(h) ==
    /\ pc[h] = "snapshot"
    /\ \A g \in Handlers \ {h} : \A s \in tx[g].snapshots : ~SameSnapshotKey(s, SnapshotRow(h))
    /\ tx' = [tx EXCEPT ![h].snapshots =
                 IF \E s \in snapshots : SameSnapshotKey(s, SnapshotRow(h))
                 THEN {} ELSE {SnapshotRow(h)}]
    /\ pc' = [pc EXCEPT ![h] = "commit"]
    /\ UNCHANGED <<tables, acked, locals>>

(* The INSERT fails: Store.Save logs the error and returns nil, but        *)
(* PostgreSQL has aborted the transaction.                                 *)
SaveSnapshotFails(h) ==
    /\ pc[h] = "snapshot"
    /\ tx' = [tx EXCEPT ![h].aborted = TRUE]
    /\ pc' = [pc EXCEPT ![h] = "commit"]
    /\ UNCHANGED <<tables, acked, locals>>

---------------------------------------------------------------------------
(* tx.Commit.  Committing an aborted transaction rolls it back and is      *)
(* reported as ErrTxCommitRollback, which WithTransaction returns.         *)
Persist(h) ==
    /\ eventStore' = eventStore \cup tx[h].events
    /\ outbox' = outbox \cup tx[h].outbox
    /\ snapshots' = snapshots \cup tx[h].snapshots

CommitErrorIgnored(h) == Uncommitted(h)  \* mutant
ReportedSaved(h) == IF tx[h].aborted THEN {} ELSE Uncommitted(h)

Commit(h) ==
    /\ pc[h] = "commit"
    /\ IF tx[h].aborted THEN UNCHANGED tables ELSE Persist(h)
    /\ acked' = acked \cup ReportedSaved(h)
    /\ Return(h)

(* The server commits and the reply is lost: the caller gets an error.     *)
CommitReplyLost(h) ==
    /\ pc[h] = "commit" /\ ~tx[h].aborted
    /\ Persist(h)
    /\ UNCHANGED acked
    /\ Return(h)

(* Any other error return: a query fails, the context is cancelled,        *)
(* Validate rejects a change, or the process dies.  The deferred Rollback, *)
(* or the server, drops the transaction.                                   *)
Rollback(h) ==
    /\ pc[h] # "idle"
    /\ Return(h)
    /\ UNCHANGED <<tables, acked>>

---------------------------------------------------------------------------
Begin(h) == \E a \in Aggregates : CreateProduct(h, a) \/ UpdateProduct(h, a)

\* The steps a handler takes by itself: none waits for anything but another transaction.
Proceed(h) ==
    \/ LoadSnapshot(h) \/ LoadEvents(h)
    \/ \E p \in Products : TrackChange(h, p)
    \/ SaveNothing(h) \/ SaveEventsInTx(h) \/ ErrConcurrency(h) \/ SaveEvents(h)
    \/ SaveSnapshotInTx(h) \/ SaveSnapshotFails(h)
    \/ Commit(h) \/ CommitReplyLost(h)

Next == \E h \in Handlers : Begin(h) \/ Proceed(h) \/ Rollback(h)

Spec == Init /\ [][Next]_vars

\* A goroutine in a handler keeps running, and every database call returns.  The two INSERTs
\* that can wait for another transaction are strongly fair: PostgreSQL wakes the waiters when
\* the transaction that holds the key ends.
Fairness ==
    \A h \in Handlers : /\ WF_vars(Proceed(h))
                        /\ SF_vars(SaveEventsInTx(h))
                        /\ SF_vars(SaveSnapshotInTx(h))

FairSpec == Spec /\ Fairness

---------------------------------------------------------------------------
(* Properties.                                                             *)

\* The product that the first n events of aggregate a leave is p.
ReplaysTo(a, n, p) ==
    IF n = 0 THEN p = NoProduct ELSE \E e \in Stream(a) : e.ver = n /\ e.data = p

\* The aggregate that h loaded is the newest committed state of its stream.
OnLatestState(h) ==
    /\ \A e \in Stream(cmd[h].agg) : e.ver <= base[h].version
    /\ ReplaysTo(cmd[h].agg, base[h].version, base[h].product)

\* uq_aggregate_version plus optimistic versioning: whatever the handlers interleave, two
\* committed events never share a version, and a stream has every version up to its last.
StreamsAreContiguous ==
    /\ \A e, f \in eventStore : SameKey(e, f) => e = f
    /\ \A e \in eventStore : \A v \in 1..e.ver : \E f \in eventStore : f.agg = e.agg /\ f.ver = v

\* No lost update: although Load reads outside the transaction, a handler whose events are in
\* its transaction computed them from the newest committed state of the aggregate, and that
\* state stays the newest until the handler ends.
SavedOnLatestState ==
    \A h \in Handlers : pc[h] \in {"outbox", "snapshot", "commit"} => OnLatestState(h)

\* Transactional outbox: an event is in the outbox exactly when it is in the event store,
\* whichever call of Save or Commit fails.
OutboxMirrorsStore == outbox = eventStore

\* A snapshot filed under an aggregate is the replay of its stream up to the snapshot's version.
SnapshotsReplayTheStream ==
    \A s \in snapshots : s.id \in Aggregates => s.ver > 0 /\ ReplaysTo(s.id, s.ver, s.payload)

\* A caller that was told nil has its events committed, also when Save swallowed a snapshot
\* error that had aborted the transaction.
AckedIsDurable == acked \subseteq eventStore

\* Load composes a snapshot and the events after it, read by two queries with commits in
\* between, into the product of the whole stream.
LoadRestoresProduct ==
    [][\A h \in Handlers : LoadEvents(h) =>
          \A e \in Stream(cmd[h].agg) :
             (\A f \in Stream(cmd[h].agg) : f.ver <= e.ver) => base'[h].product = e.data]_vars

\* The event store implements the abstract log: whatever interleaves, fails or gets lost, a step
\* appends all the events of one command to the end of one stream, or changes nothing.
EventLogSpec == INSTANCE EventLog WITH log <- eventStore
ImplementsEventLog == EventLogSpec!Spec

\* Every command returns: handlers that wait for each other's uncommitted keys never block
\* each other for good.
CommandsReturn == \A h \in Handlers : pc[h] # "idle" ~> pc[h] = "idle"

\* What aggregate_repository.go says of Load: the remaining events bring the aggregate to its
\* most recent state, its version included.
LoadReachesMostRecentState ==
    [][\A h \in Handlers : LoadEvents(h) =>
          \A e \in Stream(cmd[h].agg) : e.ver <= base'[h].version]_vars

\* What README.md says of snapshotting: the state of an aggregate is saved periodically, so that a
\* long history need not be replayed.  Where each command makes one change, a created aggregate has
\* a snapshot at every multiple of the frequency that its stream has passed.
SnapshotsAreTakenPeriodically ==
    \A e \in eventStore :
        e.ver % SnapshotFrequency = 0 /\ (\E f \in Stream(e.agg) : f.kind = "Created") =>
            \E s \in snapshots : s.id = e.agg /\ s.ver = e.ver
===========================================================================
