------------------------ MODULE EventStoreProofs --------------------------
(***************************************************************************)
(* The safety properties of EventStore, proved for every set of handlers,  *)
(* aggregates and products and every bound.                                *)
(***************************************************************************)
EXTENDS EventStore, TLAPS

InTx == {"outbox", "snapshot", "commit"}

\* What handler h holds at each program point.
CommandShape(h) ==
    /\ pc[h] # "idle" => cmd[h] \in Command
    /\ pc[h] \in {"idle", "loadSnapshot", "loadEvents"} =>
          events[h] = <<>> /\ base[h] = EmptyRoot /\ root[h] = EmptyRoot

\* The uncommitted events continue the loaded version one by one.
EventsShape(h) ==
    /\ root[h].version = base[h].version + Len(events[h])
    /\ \A i \in 1..Len(events[h]) :
          /\ events[h][i].agg = cmd[h].agg
          /\ events[h][i].ver = base[h].version + i
    /\ events[h] # <<>> => root[h].product = events[h][Len(events[h])].data
    /\ root[h].id \in {NilID, cmd[h].agg}

\* What the open transaction has written at each program point.
TxShape(h) ==
    /\ pc[h] \notin InTx => tx[h] = NoTx
    /\ pc[h] \in InTx => tx[h].events = Uncommitted(h) /\ events[h] # <<>>
    /\ pc[h] \in {"snapshot", "commit"} => tx[h].outbox = Uncommitted(h)
    /\ \A s \in tx[h].snapshots :
          /\ pc[h] = "commit"
          /\ s.id \in {NilID, cmd[h].agg}
          /\ s.ver = root[h].version /\ s.payload = root[h].product

\* The snapshot h has read replays a prefix of the stream, or there was none.
SnapOfStream(h) ==
    pc[h] = "loadEvents" =>
        \/ snap[h] = NoSnapshot
        \/ snap[h].ver > 0 /\ ReplaysTo(cmd[h].agg, snap[h].ver, snap[h].payload)

\* The loaded aggregate is a prefix of the stream.  Restored from a snapshot with no event
\* after it, it has version 0 and a product: the stream is then not empty.
BaseOfStream(h) ==
    pc[h] \in InTx \cup {"track"} =>
        \/ ReplaysTo(cmd[h].agg, base[h].version, base[h].product)
        \/ base[h].version = 0 /\ Stream(cmd[h].agg) # {}

\* The index entries of an open transaction clash with no other entry.
KeysAreFree(h) == pc[h] \in InTx => ~UniqueViolation(h) /\ ~WaitsForKey(h)

HandlersInv ==
    \A h \in Handlers : /\ CommandShape(h) /\ EventsShape(h) /\ TxShape(h)
                        /\ SnapOfStream(h) /\ BaseOfStream(h) /\ KeysAreFree(h)

VersionsArePositive == \A e \in eventStore : e.ver > 0

\* A stream that is not empty has a last event.
StreamsHaveALast ==
    \A e \in eventStore : \E l \in Stream(e.agg) : \A f \in Stream(e.agg) : f.ver <= l.ver

TablesInv ==
    /\ VersionsArePositive /\ StreamsHaveALast /\ StreamsAreContiguous
    /\ OutboxMirrorsStore /\ SnapshotsReplayTheStream /\ AckedIsDurable

IInv == TypeOK /\ HandlersInv /\ TablesInv /\ SavedOnLatestState

---------------------------------------------------------------------------
(* What loading computes.                                                  *)

\* Replaying a history that has a last event gives a well-typed aggregate: the version and
\* the product of that last event, and an id that is the stream's or the restored one.
LEMMA LoadFromHistoryFacts ==
    ASSUME NEW r \in Root, NEW a \in Aggregates,
           NEW H \in SUBSET {e \in Event : e.agg = a},
           H # {} => \E l \in H : \A f \in H : f.ver <= l.ver
    PROVE  /\ LoadFromHistory(r, H) \in Root
           /\ H = {} => LoadFromHistory(r, H) = r
           /\ H # {} => \E l \in H : /\ \A f \in H : f.ver <= l.ver
                                     /\ LoadFromHistory(r, H).version = l.ver
                                     /\ LoadFromHistory(r, H).product = l.data
           /\ LoadFromHistory(r, H).id \in {r.id, a}
<1>1. CASE H = {}
  BY <1>1 DEF LoadFromHistory
<1>2. CASE H # {}
  <2> DEFINE last == CHOOSE e \in H : \A f \in H : f.ver <= e.ver
             created == {e \in H : e.kind = "Created"}
             theId == IF created = {} THEN r.id ELSE (CHOOSE e \in created : TRUE).agg
  <2>1. last \in H /\ \A f \in H : f.ver <= last.ver
    BY <1>2
  <2>2. theId \in {r.id, a}
    <3>1. CASE created = {}
      BY <3>1
    <3>2. CASE created # {}
      BY <3>2, (CHOOSE e \in created : TRUE) \in created
    <3> QED BY <3>1, <3>2
  <2>3. LoadFromHistory(r, H) = [id |-> theId, version |-> last.ver, product |-> last.data]
    BY <1>2 DEF LoadFromHistory
  <2>4. last \in Event
    BY <2>1
  <2> HIDE DEF last, theId
  <2> QED BY <1>2, <2>1, <2>2, <2>3, <2>4 DEF Event, Root
<1> QED BY <1>1, <1>2

---------------------------------------------------------------------------
(* Type correctness.                                                       *)

LEMMA ConstantsTyped ==
    /\ NoCommand \notin Command
    /\ EmptyRoot \in Root /\ NoSnapshot \in Snapshot /\ NoTx \in Tx
    /\ EmptyRoot.version = 0 /\ EmptyRoot.id = NilID /\ EmptyRoot.product = NoProduct
    /\ NoSnapshot.ver = 0 /\ NoSnapshot.payload = NoProduct
    /\ NoTx.events = {} /\ NoTx.outbox = {} /\ NoTx.snapshots = {} /\ NoTx.aborted = FALSE
BY SentinelsAssumption
   DEF NoCommand, Command, EmptyRoot, Root, NoSnapshot, Snapshot, NoTx, Tx

\* The uncommitted events of a handler, as a set.
LEMMA UncommittedTyped ==
    ASSUME TypeOK, NEW h \in Handlers
    PROVE  Uncommitted(h) \in SUBSET Event
BY DEF TypeOK, Uncommitted

\* What a handler leaves behind when it returns is well typed.
LEMMA ReturnTyped ==
    ASSUME TypeOK, NEW h \in Handlers, Return(h)
    PROVE  /\ pc' \in [Handlers -> {"idle", "loadSnapshot", "loadEvents", "track", "outbox",
                                    "snapshot", "commit"}]
           /\ cmd' \in [Handlers -> Command \cup {NoCommand}]
           /\ snap' \in [Handlers -> Snapshot]
           /\ base' \in [Handlers -> Root] /\ root' \in [Handlers -> Root]
           /\ events' \in [Handlers -> Seq(Event)]
           /\ tx' \in [Handlers -> Tx]
<1>1. <<>> \in Seq(Event)
  OBVIOUS
<1>2. events' \in [Handlers -> Seq(Event)]
  BY <1>1 DEF TypeOK, Return
<1>3. tx' \in [Handlers -> Tx] /\ snap' \in [Handlers -> Snapshot]
  BY ConstantsTyped DEF TypeOK, Return
<1>4. base' \in [Handlers -> Root] /\ root' \in [Handlers -> Root]
  BY ConstantsTyped DEF TypeOK, Return
<1> QED BY <1>2, <1>3, <1>4 DEF TypeOK, Return

\* Writing one field of an open transaction keeps it well typed.
LEMMA TxTyped ==
    ASSUME NEW t \in Tx, NEW E \in SUBSET Event, NEW S \in SUBSET Snapshot
    PROVE  /\ [t EXCEPT !.events = E] \in Tx /\ [t EXCEPT !.outbox = E] \in Tx
           /\ [t EXCEPT !.snapshots = S] \in Tx /\ [t EXCEPT !.aborted = TRUE] \in Tx
BY DEF Tx

\* The aggregate that LoadEvents builds.
LEMMA LoadedFacts ==
    ASSUME IInv, NEW h \in Handlers, pc[h] = "loadEvents",
           NEW loaded, loaded = LoadFromHistory(UnmarshalJSON(snap[h].payload), History(h))
    PROVE  /\ loaded \in Root
           /\ loaded.id \in {NilID, cmd[h].agg}
           /\ History(h) = {} => loaded.version = 0 /\ loaded.product = snap[h].payload
           /\ History(h) # {} =>
                 \E l \in History(h) : /\ \A f \in Stream(cmd[h].agg) : f.ver <= l.ver
                                       /\ loaded.version = l.ver
                                       /\ loaded.product = l.data
<1>1. /\ cmd[h] \in Command /\ cmd[h].agg \in Aggregates
      /\ snap[h] \in Snapshot /\ snap[h].ver \in Nat
      /\ snap[h].payload \in Products \cup {NoProduct}
  BY DEF IInv, TypeOK, HandlersInv, CommandShape, Command, Snapshot
<1> DEFINE r == UnmarshalJSON(snap[h].payload)
<1>2. r \in Root /\ r.id = NilID /\ r.version = 0 /\ r.product = snap[h].payload
  BY <1>1 DEF UnmarshalJSON, Root
<1>3. /\ History(h) \in SUBSET {e \in Event : e.agg = cmd[h].agg}
      /\ History(h) \subseteq Stream(cmd[h].agg)
  BY DEF History, Stream, IInv, TypeOK
<1>4. ASSUME History(h) # {}
      PROVE  \E l \in History(h) : \A f \in Stream(cmd[h].agg) : f.ver <= l.ver
  <2>1. PICK e \in History(h) : TRUE
    BY <1>4
  <2>2. e \in eventStore /\ e.agg = cmd[h].agg /\ e.ver > snap[h].ver
    BY <2>1 DEF History, Stream
  <2>3. PICK l \in Stream(cmd[h].agg) : \A f \in Stream(cmd[h].agg) : f.ver <= l.ver
    BY <2>2 DEF IInv, TablesInv, StreamsHaveALast
  <2>4. e \in Stream(cmd[h].agg) /\ e.ver \in Nat /\ l.ver \in Nat /\ l \in eventStore
    BY <2>2, <2>3 DEF Stream, IInv, TypeOK, Event
  <2>5. l.ver > snap[h].ver
    BY <1>1, <2>2, <2>3, <2>4
  <2> QED BY <2>3, <2>5 DEF History
<1>5. /\ LoadFromHistory(r, History(h)) \in Root
      /\ History(h) = {} => LoadFromHistory(r, History(h)) = r
      /\ History(h) # {} => \E l \in History(h) : /\ \A f \in History(h) : f.ver <= l.ver
                                 /\ LoadFromHistory(r, History(h)).version = l.ver
                                 /\ LoadFromHistory(r, History(h)).product = l.data
      /\ LoadFromHistory(r, History(h)).id \in {r.id, cmd[h].agg}
  <2>1. History(h) # {} => \E l \in History(h) : \A f \in History(h) : f.ver <= l.ver
    BY <1>3, <1>4
  <2> HIDE DEF r
  <2> QED BY <1>1, <1>2, <1>3, <2>1, LoadFromHistoryFacts
<1>6. \A e \in Stream(cmd[h].agg) : e.ver \in Nat
  BY DEF Stream, IInv, TypeOK, Event
<1>7. ASSUME History(h) # {}, NEW l \in History(h), \A f \in History(h) : f.ver <= l.ver
      PROVE  \A f \in Stream(cmd[h].agg) : f.ver <= l.ver
  <2>1. PICK m \in History(h) : \A f \in Stream(cmd[h].agg) : f.ver <= m.ver
    BY <1>4, <1>7
  <2> QED BY <2>1, <1>3, <1>6, <1>7
<1> HIDE DEF r
<1> QED BY <1>2, <1>5, <1>7 DEF r

LEMMA TypeStep ==
    ASSUME IInv, [Next]_vars
    PROVE  TypeOK'
<1> USE ConstantsTyped
<1>0. TypeOK
  BY DEF IInv
<1>1. CASE UNCHANGED vars
  BY <1>0, <1>1 DEF TypeOK, vars, tables, locals
<1>2. ASSUME NEW h \in Handlers, Begin(h) \/ Proceed(h) \/ Rollback(h)
      PROVE  TypeOK'
  <2>0. Uncommitted(h) \in SUBSET Event
    BY <1>0, UncommittedTyped
  <2>1. ASSUME NEW a \in Aggregates, CreateProduct(h, a) PROVE TypeOK'
    BY <1>0, <2>1 DEF TypeOK, CreateProduct, tables, Command
  <2>2. ASSUME NEW a \in Aggregates, UpdateProduct(h, a) PROVE TypeOK'
    BY <1>0, <2>2 DEF TypeOK, UpdateProduct, tables, Command
  <2>3. CASE LoadSnapshot(h)
    BY <1>0, <2>3 DEF TypeOK, LoadSnapshot, tables
  <2>4. CASE LoadEvents(h)
    <3> DEFINE loaded == LoadFromHistory(UnmarshalJSON(snap[h].payload), History(h))
    <3>1. loaded \in Root
      BY <2>4, LoadedFacts DEF LoadEvents
    <3>2. base' = [base EXCEPT ![h] = loaded] /\ root' = [root EXCEPT ![h] = loaded]
      BY <2>4 DEF LoadEvents
    <3> HIDE DEF loaded
    <3> QED BY <1>0, <2>4, <3>1, <3>2 DEF TypeOK, LoadEvents, tables
  <2>5. ASSUME NEW p \in Products, TrackChange(h, p) PROVE TypeOK'
    <3> DEFINE e == [agg |-> cmd[h].agg, ver |-> NextVersion(h), data |-> p,
                     kind |-> IF cmd[h].kind = "Create" /\ events[h] = <<>>
                              THEN "Created" ELSE "Updated"]
    <3>1. cmd[h].agg \in Aggregates /\ root[h] \in Root /\ root[h].version \in Nat
      BY <1>0, <2>5 DEF IInv, HandlersInv, CommandShape, TrackChange, TypeOK, Command, Root
    <3>2. e \in Event
      BY <3>1 DEF Event, NextVersion
    <3>3. Apply(root[h], e) \in Root
      BY <3>1, <3>2 DEF Apply, Root, Event
    <3>4. /\ root' = [root EXCEPT ![h] = Apply(root[h], e)]
          /\ events' = [events EXCEPT ![h] = Append(events[h], e)]
      BY <2>5 DEF TrackChange
    <3> HIDE DEF e
    <3>5. Append(events[h], e) \in Seq(Event)
      BY <1>0, <3>2 DEF TypeOK
    <3> QED BY <1>0, <2>5, <3>3, <3>4, <3>5 DEF TypeOK, TrackChange, tables
  <2>6. CASE SaveNothing(h) \/ ErrConcurrency(h) \/ Rollback(h)
    <3>1. Return(h) /\ UNCHANGED <<tables, acked>>
      BY <2>6 DEF SaveNothing, ErrConcurrency, Rollback
    <3> QED BY <1>0, <3>1, ReturnTyped DEF TypeOK, tables
  <2>7. CASE SaveEventsInTx(h)
    <3>1. [tx[h] EXCEPT !.events = Uncommitted(h)] \in Tx
      BY <1>0, <2>0, TxTyped DEF TypeOK
    <3>2. tx' = [tx EXCEPT ![h] = [tx[h] EXCEPT !.events = Uncommitted(h)]]
      BY <2>7 DEF SaveEventsInTx
    <3> QED BY <1>0, <2>7, <3>1, <3>2 DEF TypeOK, SaveEventsInTx, tables, locals
  <2>8. CASE SaveEvents(h)
    <3>1. [tx[h] EXCEPT !.outbox = Uncommitted(h)] \in Tx
      BY <1>0, <2>0, TxTyped DEF TypeOK
    <3>2. tx' = [tx EXCEPT ![h] = [tx[h] EXCEPT !.outbox = Uncommitted(h)]]
      BY <2>8 DEF SaveEvents
    <3> QED BY <1>0, <2>8, <3>1, <3>2 DEF TypeOK, SaveEvents, tables, locals
  <2>9. CASE SaveSnapshotInTx(h)
    <3> DEFINE S == IF \E s \in snapshots : SameSnapshotKey(s, SnapshotRow(h))
                    THEN {} ELSE {SnapshotRow(h)}
    <3>1. SnapshotRow(h) \in Snapshot
      BY <1>0 DEF TypeOK, Root, SnapshotRow, Snapshot, MarshalJSON
    <3>2. S \in SUBSET Snapshot
      BY <3>1
    <3>3. tx' = [tx EXCEPT ![h] = [tx[h] EXCEPT !.snapshots = S]]
      BY <2>9 DEF SaveSnapshotInTx
    <3> HIDE DEF S
    <3>4. [tx[h] EXCEPT !.snapshots = S] \in Tx
      BY <1>0, <3>2, TxTyped DEF TypeOK
    <3> QED BY <1>0, <2>9, <3>3, <3>4 DEF TypeOK, SaveSnapshotInTx, tables, locals
  <2>10. CASE SaveSnapshotFails(h)
    <3>1. [tx[h] EXCEPT !.aborted = TRUE] \in Tx
      BY <1>0, TxTyped DEF TypeOK
    <3>2. tx' = [tx EXCEPT ![h] = [tx[h] EXCEPT !.aborted = TRUE]]
      BY <2>10 DEF SaveSnapshotFails
    <3> QED BY <1>0, <2>10, <3>1, <3>2 DEF TypeOK, SaveSnapshotFails, tables, locals
  <2>11. CASE Commit(h) \/ CommitReplyLost(h)
    <3>1. ReportedSaved(h) \in SUBSET Event
      BY <2>0 DEF ReportedSaved
    <3>2. eventStore' \subseteq Event /\ outbox' \subseteq Event /\ snapshots' \subseteq Snapshot
      BY <1>0, <2>11 DEF TypeOK, Commit, CommitReplyLost, Persist, Tx, tables
    <3>3. acked' \subseteq Event
      BY <1>0, <2>11, <3>1 DEF TypeOK, Commit, CommitReplyLost
    <3>4. Return(h)
      BY <2>11 DEF Commit, CommitReplyLost
    <3> QED BY <1>0, <3>2, <3>3, <3>4, ReturnTyped DEF TypeOK
  <2> QED BY <1>2, <2>1, <2>2, <2>3, <2>4, <2>5, <2>6, <2>7, <2>8, <2>9, <2>10, <2>11
          DEF Begin, Proceed
<1> QED BY <1>1, <1>2 DEF Next

---------------------------------------------------------------------------
(* Steps that leave the tables alone.                                      *)

\* A step of handler h touches no other handler's state.
LEMMA OthersUntouched ==
    ASSUME TypeOK, NEW h \in Handlers, Begin(h) \/ Proceed(h) \/ Rollback(h),
           NEW g \in Handlers \ {h}
    PROVE  /\ pc'[g] = pc[g] /\ cmd'[g] = cmd[g] /\ snap'[g] = snap[g] /\ base'[g] = base[g]
           /\ root'[g] = root[g] /\ events'[g] = events[g] /\ tx'[g] = tx[g]
<1>1. CASE Begin(h)
  BY <1>1 DEF TypeOK, Begin, CreateProduct, UpdateProduct
<1>2. CASE LoadSnapshot(h) \/ LoadEvents(h) \/ \E p \in Products : TrackChange(h, p)
  BY <1>2 DEF TypeOK, LoadSnapshot, LoadEvents, TrackChange
<1>3. CASE SaveEventsInTx(h) \/ SaveEvents(h) \/ SaveSnapshotInTx(h) \/ SaveSnapshotFails(h)
  BY <1>3 DEF TypeOK, SaveEventsInTx, SaveEvents, SaveSnapshotInTx, SaveSnapshotFails, locals
<1>4. CASE SaveNothing(h) \/ ErrConcurrency(h) \/ Commit(h) \/ CommitReplyLost(h) \/ Rollback(h)
  <2>1. Return(h)
    BY <1>4 DEF SaveNothing, ErrConcurrency, Commit, CommitReplyLost, Rollback
  <2> QED BY <2>1 DEF TypeOK, Return
<1> QED BY <1>1, <1>2, <1>3, <1>4 DEF Proceed

\* With the tables unchanged, the facts about another handler stay.
LEMMA OthersKept ==
    ASSUME IInv, NEW h \in Handlers, Begin(h) \/ Proceed(h) \/ Rollback(h),
           NEW g \in Handlers \ {h}, UNCHANGED tables
    PROVE  /\ CommandShape(g)' /\ EventsShape(g)' /\ TxShape(g)'
           /\ SnapOfStream(g)' /\ BaseOfStream(g)'
           /\ pc'[g] \in InTx => OnLatestState(g)'
           /\ UniqueViolation(g)' = UniqueViolation(g)
<1>1. /\ pc'[g] = pc[g] /\ cmd'[g] = cmd[g] /\ snap'[g] = snap[g] /\ base'[g] = base[g]
      /\ root'[g] = root[g] /\ events'[g] = events[g] /\ tx'[g] = tx[g]
  BY OthersUntouched DEF IInv
<1>2. eventStore' = eventStore
  BY DEF tables
<1>3. /\ CommandShape(g) /\ EventsShape(g) /\ TxShape(g) /\ SnapOfStream(g)
      /\ BaseOfStream(g)
      /\ pc[g] \in InTx => OnLatestState(g)
  BY DEF IInv, HandlersInv, SavedOnLatestState, InTx
<1>4. Uncommitted(g)' = Uncommitted(g) /\ UniqueViolation(g)' = UniqueViolation(g)
  BY <1>1, <1>2 DEF Uncommitted, UniqueViolation
<1>5. CommandShape(g)' /\ EventsShape(g)'
  BY <1>1, <1>3 DEF CommandShape, EventsShape
<1>6. TxShape(g)'
  BY <1>1, <1>3, <1>4 DEF TxShape
<1>7. SnapOfStream(g)' /\ BaseOfStream(g)'
  BY <1>1, <1>2, <1>3 DEF SnapOfStream, BaseOfStream, ReplaysTo, Stream
<1>8. pc'[g] \in InTx => OnLatestState(g)'
  BY <1>1, <1>2, <1>3 DEF OnLatestState, ReplaysTo, Stream
<1> QED BY <1>4, <1>5, <1>6, <1>7, <1>8

LEMMA TablesKept ==
    ASSUME TablesInv, UNCHANGED <<tables, acked>>
    PROVE  TablesInv'
BY DEF TablesInv, tables, VersionsArePositive, StreamsHaveALast, StreamsAreContiguous, SameKey,
       OutboxMirrorsStore, SnapshotsReplayTheStream, ReplaysTo, Stream, AckedIsDurable

\* Keys stay free as long as nothing is added to a transaction or to the store.
LEMMA KeysKept ==
    ASSUME IInv, NEW h \in Handlers, Begin(h) \/ Proceed(h) \/ Rollback(h),
           UNCHANGED tables, tx'[h].events \subseteq tx[h].events,
           pc'[h] \in InTx => pc[h] \in InTx /\ events'[h] = events[h]
    PROVE  \A g \in Handlers : KeysAreFree(g)'
<1> SUFFICES ASSUME NEW g \in Handlers, pc'[g] \in InTx
             PROVE  ~UniqueViolation(g)' /\ ~WaitsForKey(g)'
  BY DEF KeysAreFree
<1>1. \A k \in Handlers \ {h} : pc'[k] = pc[k] /\ events'[k] = events[k] /\ tx'[k] = tx[k]
  BY OthersUntouched DEF IInv
<1>2. pc[g] \in InTx /\ events'[g] = events[g]
  BY <1>1
<1>3. \A k \in Handlers : tx'[k].events \subseteq tx[k].events
  BY <1>1
<1>4. KeysAreFree(g)
  BY DEF IInv, HandlersInv
<1>5. Uncommitted(g)' = Uncommitted(g)
  BY <1>2 DEF Uncommitted
<1>6. ~UniqueViolation(g)'
  BY <1>2, <1>4, <1>5 DEF KeysAreFree, UniqueViolation, tables
<1>7. ~WaitsForKey(g)'
  BY <1>2, <1>3, <1>4, <1>5 DEF KeysAreFree, WaitsForKey
<1> QED BY <1>6, <1>7

\* Assembling the invariant after a step of h that leaves the tables alone.
LEMMA LocalStep ==
    ASSUME IInv, NEW h \in Handlers, Begin(h) \/ Proceed(h) \/ Rollback(h),
           UNCHANGED <<tables, acked>>,
           CommandShape(h)', EventsShape(h)', TxShape(h)', SnapOfStream(h)', BaseOfStream(h)',
           pc'[h] \in InTx => OnLatestState(h)',
           \A g \in Handlers : KeysAreFree(g)'
    PROVE  IInv'
<1>1. TypeOK'
  BY TypeStep DEF Next
<1>2. TablesInv'
  BY TablesKept DEF IInv
<1>3. \A g \in Handlers \ {h} : /\ CommandShape(g)' /\ EventsShape(g)' /\ TxShape(g)'
                                /\ SnapOfStream(g)' /\ BaseOfStream(g)'
                                /\ pc'[g] \in InTx => OnLatestState(g)'
  BY OthersKept
<1>4. HandlersInv'
  BY <1>3 DEF HandlersInv
<1>5. SavedOnLatestState'
  BY <1>3 DEF SavedOnLatestState, InTx
<1> QED BY <1>1, <1>2, <1>4, <1>5 DEF IInv

\* A handler that returns leaves nothing behind.
LEMMA ReturnFacts ==
    ASSUME TypeOK, NEW h \in Handlers, Return(h)
    PROVE  /\ CommandShape(h)' /\ EventsShape(h)' /\ TxShape(h)' /\ SnapOfStream(h)'
           /\ BaseOfStream(h)' /\ pc'[h] \notin InTx /\ tx'[h].events = {}
<1>1. /\ pc'[h] = "idle" /\ base'[h] = EmptyRoot /\ root'[h] = EmptyRoot
      /\ events'[h] = <<>> /\ tx'[h] = NoTx
  BY DEF TypeOK, Return
<1> QED BY <1>1, ConstantsTyped
        DEF CommandShape, EventsShape, TxShape, SnapOfStream, BaseOfStream, InTx

LEMMA BeginStep ==
    ASSUME IInv, NEW h \in Handlers, Begin(h)
    PROVE  IInv'
<1>1. PICK a \in Aggregates : CreateProduct(h, a) \/ UpdateProduct(h, a)
  BY DEF Begin
<1>2. /\ pc[h] = "idle" /\ pc'[h] \in {"track", "loadSnapshot"}
      /\ cmd'[h] \in Command
      /\ UNCHANGED <<tables, acked, snap, base, root, events, tx>>
  BY <1>1 DEF IInv, TypeOK, CreateProduct, UpdateProduct, Command
<1>3. /\ events[h] = <<>> /\ base[h] = EmptyRoot /\ root[h] = EmptyRoot /\ tx[h] = NoTx
  BY <1>2 DEF IInv, HandlersInv, CommandShape, TxShape, InTx
<1>4. CommandShape(h)' /\ EventsShape(h)' /\ TxShape(h)' /\ SnapOfStream(h)'
  BY <1>2, <1>3, ConstantsTyped DEF CommandShape, EventsShape, TxShape, SnapOfStream, InTx
<1>5. BaseOfStream(h)'
  BY <1>2, <1>3, ConstantsTyped DEF BaseOfStream, ReplaysTo
<1>6. pc'[h] \notin InTx
  BY <1>2 DEF InTx
<1>7. \A g \in Handlers : KeysAreFree(g)'
  BY <1>2, <1>6, KeysKept
<1> QED BY <1>2, <1>4, <1>5, <1>6, <1>7, LocalStep

LEMMA LoadSnapshotStep ==
    ASSUME IInv, NEW h \in Handlers, LoadSnapshot(h)
    PROVE  IInv'
<1>1. /\ pc[h] = "loadSnapshot" /\ pc'[h] = "loadEvents" /\ Proceed(h)
      /\ UNCHANGED <<tables, acked, cmd, base, root, events, tx>>
  BY DEF IInv, TypeOK, LoadSnapshot, Proceed
<1>2. cmd[h].agg \in Aggregates
  BY <1>1 DEF IInv, HandlersInv, CommandShape, Command
<1>3. \/ snap'[h] = NoSnapshot
      \/ snap'[h] \in snapshots /\ snap'[h].id = cmd[h].agg
  <2>1. snap \in [Handlers -> Snapshot]
    BY DEF IInv, TypeOK
  <2>2. \/ snap' = [snap EXCEPT ![h] = NoSnapshot]
        \/ \E s \in snapshots : s.id = cmd[h].agg /\ snap' = [snap EXCEPT ![h] = s]
    BY DEF LoadSnapshot
  <2> QED BY <2>1, <2>2
<1>4. SnapOfStream(h)'
  BY <1>1, <1>2, <1>3
     DEF IInv, TablesInv, SnapshotsReplayTheStream, SnapOfStream, ReplaysTo, Stream, tables
<1>5. CommandShape(h)' /\ EventsShape(h)' /\ TxShape(h)'
  BY <1>1 DEF IInv, HandlersInv, CommandShape, EventsShape, TxShape, InTx
<1>6. BaseOfStream(h)' /\ pc'[h] \notin InTx
  BY <1>1 DEF BaseOfStream, InTx
<1>7. \A g \in Handlers : KeysAreFree(g)'
  BY <1>1, <1>6, KeysKept
<1> QED BY <1>1, <1>4, <1>5, <1>6, <1>7, LocalStep

LEMMA LoadEventsStep ==
    ASSUME IInv, NEW h \in Handlers, LoadEvents(h)
    PROVE  IInv'
<1> DEFINE loaded == LoadFromHistory(UnmarshalJSON(snap[h].payload), History(h))
<1>1. /\ pc[h] = "loadEvents" /\ pc'[h] = "track" /\ Proceed(h)
      /\ UNCHANGED <<tables, acked, cmd, snap, events, tx>>
      /\ base'[h] = loaded /\ root'[h] = loaded
  BY DEF IInv, TypeOK, LoadEvents, Proceed
<1>2. /\ loaded \in Root
      /\ loaded.id \in {NilID, cmd[h].agg}
      /\ History(h) = {} => loaded.version = 0 /\ loaded.product = snap[h].payload
      /\ History(h) # {} =>
            \E l \in History(h) : /\ \A f \in Stream(cmd[h].agg) : f.ver <= l.ver
                                  /\ loaded.version = l.ver
                                  /\ loaded.product = l.data
  BY <1>1, LoadedFacts
<1> HIDE DEF loaded
<1>3. /\ cmd[h] \in Command /\ events[h] = <<>> /\ tx[h] = NoTx
      /\ \/ snap[h] = NoSnapshot
         \/ snap[h].ver > 0 /\ ReplaysTo(cmd[h].agg, snap[h].ver, snap[h].payload)
  BY <1>1 DEF IInv, HandlersInv, CommandShape, TxShape, SnapOfStream, InTx
<1>4. CommandShape(h)' /\ TxShape(h)' /\ SnapOfStream(h)' /\ pc'[h] \notin InTx
  BY <1>1, <1>3, ConstantsTyped DEF CommandShape, TxShape, SnapOfStream, InTx
<1>5. EventsShape(h)'
  BY <1>1, <1>2, <1>3 DEF EventsShape, Root
<1>6. BaseOfStream(h)'
  <2>1. \/ ReplaysTo(cmd[h].agg, loaded.version, loaded.product)
        \/ loaded.version = 0 /\ Stream(cmd[h].agg) # {}
    <3>1. CASE History(h) = {}
      <4>1. CASE snap[h] = NoSnapshot
        BY <1>2, <3>1, <4>1, ConstantsTyped DEF ReplaysTo
      <4>2. CASE snap[h].ver > 0 /\ ReplaysTo(cmd[h].agg, snap[h].ver, snap[h].payload)
        BY <1>2, <3>1, <4>2 DEF ReplaysTo
      <4> QED BY <1>3, <4>1, <4>2
    <3>2. CASE History(h) # {}
      <4>1. PICK l \in History(h) : loaded.version = l.ver /\ loaded.product = l.data
        BY <1>2, <3>2
      <4>2. l \in Stream(cmd[h].agg) /\ l.ver > snap[h].ver
        BY DEF History
      <4>3. l.ver \in Nat /\ snap[h].ver \in Nat
        BY <4>2 DEF IInv, TypeOK, Stream, Event, Snapshot
      <4> QED BY <4>1, <4>2, <4>3 DEF ReplaysTo
    <3> QED BY <3>1, <3>2
  <2> QED BY <1>1, <2>1 DEF BaseOfStream, ReplaysTo, Stream, tables
<1>7. \A g \in Handlers : KeysAreFree(g)'
  BY <1>1, <1>4, KeysKept
<1> QED BY <1>1, <1>4, <1>5, <1>6, <1>7, LocalStep

LEMMA TrackChangeStep ==
    ASSUME IInv, NEW h \in Handlers, NEW p \in Products, TrackChange(h, p)
    PROVE  IInv'
<1> DEFINE e == [agg |-> cmd[h].agg, ver |-> NextVersion(h), data |-> p,
                 kind |-> IF cmd[h].kind = "Create" /\ events[h] = <<>>
                          THEN "Created" ELSE "Updated"]
<1>1. /\ pc[h] = "track" /\ pc'[h] = "track" /\ Proceed(h)
      /\ UNCHANGED <<tables, acked, pc, cmd, snap, base, tx>>
      /\ root'[h] = Apply(root[h], e) /\ events'[h] = Append(events[h], e)
  BY DEF IInv, TypeOK, TrackChange, Proceed
<1>2. /\ e.agg = cmd[h].agg /\ e.ver = root[h].version + 1 /\ e.data = p
      /\ e.kind \in {"Created", "Updated"}
  BY DEF NextVersion
<1> HIDE DEF e
<1>3. /\ root'[h].version = root[h].version + 1 /\ root'[h].product = p
      /\ root'[h].id \in {root[h].id, cmd[h].agg}
  BY <1>1, <1>2 DEF Apply
<1>4. /\ events[h] \in Seq(Event) /\ base[h].version \in Nat /\ EventsShape(h)
      /\ CommandShape(h) /\ TxShape(h) /\ BaseOfStream(h)
  BY DEF IInv, TypeOK, HandlersInv, Root
<1>5. EventsShape(h)'
  <2>1. /\ Len(events'[h]) = Len(events[h]) + 1 /\ events'[h] # <<>>
        /\ \A i \in 1..Len(events[h]) : events'[h][i] = events[h][i]
        /\ events'[h][Len(events[h]) + 1] = e
    BY <1>1, <1>4
  <2>2. root'[h].version = base'[h].version + Len(events'[h])
    BY <1>1, <1>3, <1>4, <2>1 DEF EventsShape
  <2>3. \A i \in 1..Len(events'[h]) : /\ events'[h][i].agg = cmd'[h].agg
                                      /\ events'[h][i].ver = base'[h].version + i
    <3> SUFFICES ASSUME NEW i \in 1..(Len(events[h]) + 1)
                 PROVE  /\ events'[h][i].agg = cmd[h].agg
                        /\ events'[h][i].ver = base[h].version + i
      BY <1>1, <2>1
    <3>1. CASE i \in 1..Len(events[h])
      BY <1>4, <2>1, <3>1 DEF EventsShape
    <3>2. CASE i = Len(events[h]) + 1
      <4>1. Len(events[h]) \in Nat /\ root[h].version = base[h].version + Len(events[h])
        BY <1>4 DEF EventsShape
      <4>2. events'[h][i] = e
        BY <2>1, <3>2
      <4>3. e.ver = base[h].version + i
        BY <1>2, <1>4, <3>2, <4>1
      <4> QED BY <1>2, <4>2, <4>3
    <3> QED BY <1>4, <3>1, <3>2
  <2> QED BY <1>1, <1>2, <1>3, <1>4, <2>1, <2>2, <2>3 DEF EventsShape
<1>6. CommandShape(h)' /\ TxShape(h)' /\ SnapOfStream(h)' /\ pc'[h] \notin InTx
  BY <1>1, <1>4, ConstantsTyped DEF CommandShape, TxShape, SnapOfStream, InTx
<1>7. BaseOfStream(h)'
  BY <1>1, <1>4 DEF BaseOfStream, ReplaysTo, Stream, tables
<1>8. \A g \in Handlers : KeysAreFree(g)'
  BY <1>1, <1>6, KeysKept
<1> QED BY <1>1, <1>5, <1>6, <1>7, <1>8, LocalStep

\* SaveNothing, ErrConcurrency, Rollback: the transaction is dropped.
LEMMA AbandonStep ==
    ASSUME IInv, NEW h \in Handlers, SaveNothing(h) \/ ErrConcurrency(h) \/ Rollback(h)
    PROVE  IInv'
<1>1. Return(h) /\ UNCHANGED <<tables, acked>> /\ (Proceed(h) \/ Rollback(h))
  BY DEF SaveNothing, ErrConcurrency, Rollback, Proceed
<1>2. /\ CommandShape(h)' /\ EventsShape(h)' /\ TxShape(h)' /\ SnapOfStream(h)'
      /\ BaseOfStream(h)' /\ pc'[h] \notin InTx /\ tx'[h].events = {}
  BY <1>1, ReturnFacts DEF IInv
<1>3. \A g \in Handlers : KeysAreFree(g)'
  BY <1>1, <1>2, KeysKept
<1> QED BY <1>1, <1>2, <1>3, LocalStep

---------------------------------------------------------------------------
(* Steps of an open transaction.                                           *)

\* Optimistic concurrency: an insert that violates no key continues the newest state.
LEMMA FreeKeyIsLatest ==
    ASSUME IInv, NEW h \in Handlers, pc[h] = "track", events[h] # <<>>, ~UniqueViolation(h)
    PROVE  OnLatestState(h)
<1> DEFINE a == cmd[h].agg
           n == base[h].version
<1>1. /\ n \in Nat /\ events[h] \in Seq(Event) /\ EventsShape(h) /\ BaseOfStream(h)
      /\ \A e \in eventStore : e.ver \in Nat /\ e.ver > 0
      /\ StreamsAreContiguous
  BY DEF IInv, TypeOK, HandlersInv, TablesInv, VersionsArePositive, Root, Event
<1>2. Len(events[h]) \in Nat /\ Len(events[h]) >= 1
  BY <1>1
<1>3. events[h][1] \in Uncommitted(h) /\ events[h][1].agg = a /\ events[h][1].ver = n + 1
  BY <1>1, <1>2 DEF EventsShape, Uncommitted
<1>4. ~\E f \in eventStore : f.agg = a /\ f.ver = n + 1
  BY <1>3 DEF UniqueViolation, SameKey
<1>5. ASSUME NEW e \in Stream(a) PROVE e.ver <= n
  <2>1. e \in eventStore /\ e.agg = a
    BY DEF Stream
  <2>2. \A v \in 1..e.ver : \E f \in eventStore : f.agg = a /\ f.ver = v
    BY <1>1, <2>1 DEF StreamsAreContiguous
  <2>3. n + 1 \notin 1..e.ver
    BY <1>4, <2>2
  <2> QED BY <1>1, <2>1, <2>3
<1>6. ReplaysTo(a, n, base[h].product)
  <2>1. CASE n = 0 /\ Stream(a) # {}
    <3>1. PICK e \in Stream(a) : TRUE
      BY <2>1
    <3>2. e \in eventStore /\ e.ver <= n
      BY <1>5 DEF Stream
    <3> QED BY <1>1, <2>1, <3>2
  <2> QED BY <1>1, <2>1 DEF BaseOfStream, InTx
<1> QED BY <1>5, <1>6 DEF OnLatestState

LEMMA SaveEventsInTxStep ==
    ASSUME IInv, NEW h \in Handlers, SaveEventsInTx(h)
    PROVE  IInv'
<1>1. /\ pc[h] = "track" /\ pc'[h] = "outbox" /\ Proceed(h) /\ events[h] # <<>>
      /\ ~WaitsForKey(h) /\ ~UniqueViolation(h)
      /\ UNCHANGED <<tables, acked, locals>>
      /\ tx'[h] = [tx[h] EXCEPT !.events = Uncommitted(h)]
  BY DEF IInv, TypeOK, SaveEventsInTx, Proceed
<1>2. /\ tx[h] = NoTx /\ CommandShape(h) /\ EventsShape(h) /\ BaseOfStream(h)
  BY <1>1 DEF IInv, HandlersInv, TxShape, InTx
<1>3. tx'[h].events = Uncommitted(h) /\ tx'[h].snapshots = {}
  BY <1>1, <1>2 DEF NoTx
<1>4. \A g \in Handlers : Uncommitted(g)' = Uncommitted(g)
  BY <1>1 DEF Uncommitted, locals
<1>5. CommandShape(h)' /\ EventsShape(h)' /\ SnapOfStream(h)'
  BY <1>1, <1>2 DEF CommandShape, EventsShape, SnapOfStream, locals
<1>6. TxShape(h)'
  BY <1>1, <1>3, <1>4 DEF TxShape, InTx, locals
<1>7. BaseOfStream(h)'
  BY <1>1, <1>2 DEF BaseOfStream, ReplaysTo, Stream, tables, locals, InTx
<1>8. OnLatestState(h)'
  BY <1>1, FreeKeyIsLatest DEF OnLatestState, ReplaysTo, Stream, tables, locals
<1>9. ASSUME NEW g \in Handlers, pc'[g] \in InTx
      PROVE  ~UniqueViolation(g)' /\ ~WaitsForKey(g)'
  <2>1. \A k \in Handlers \ {h} : pc'[k] = pc[k] /\ tx'[k] = tx[k]
    BY <1>1, OthersUntouched DEF IInv
  <2>2. CASE g = h
    BY <1>1, <1>4, <2>1, <2>2 DEF UniqueViolation, WaitsForKey, tables
  <2>3. CASE g # h
    <3>1. pc[g] \in InTx /\ KeysAreFree(g) /\ tx[g].events = Uncommitted(g)
      BY <1>9, <2>1, <2>3 DEF IInv, HandlersInv, TxShape
    <3>2. ~UniqueViolation(g)'
      BY <1>1, <1>4, <3>1 DEF KeysAreFree, UniqueViolation, tables
    <3>3. ASSUME NEW e \in Uncommitted(g), NEW f \in Uncommitted(h) PROVE ~SameKey(e, f)
      BY <1>1, <2>3, <3>1 DEF WaitsForKey, SameKey
    <3>4. ~WaitsForKey(g)'
      BY <1>3, <1>4, <2>1, <3>1, <3>3 DEF KeysAreFree, WaitsForKey
    <3> QED BY <3>2, <3>4
  <2> QED BY <2>2, <2>3
<1> QED BY <1>1, <1>5, <1>6, <1>7, <1>8, <1>9, LocalStep DEF KeysAreFree

\* SaveEvents, SaveSnapshotInTx and SaveSnapshotFails write to the transaction only.
LEMMA WriteStep ==
    ASSUME IInv, NEW h \in Handlers,
           SaveEvents(h) \/ SaveSnapshotInTx(h) \/ SaveSnapshotFails(h)
    PROVE  IInv'
<1>1. /\ Proceed(h) /\ UNCHANGED <<tables, acked, locals>>
      /\ pc[h] \in {"outbox", "snapshot"} /\ pc'[h] \in {"snapshot", "commit"}
      /\ pc[h] = "snapshot" => pc'[h] = "commit"
  BY DEF IInv, TypeOK, SaveEvents, SaveSnapshotInTx, SaveSnapshotFails, Proceed
<1>2. /\ tx[h] \in Tx /\ CommandShape(h) /\ EventsShape(h) /\ TxShape(h) /\ BaseOfStream(h)
      /\ OnLatestState(h)
  BY <1>1 DEF IInv, HandlersInv, SavedOnLatestState, TypeOK
<1>3. Uncommitted(h)' = Uncommitted(h)
  BY <1>1 DEF Uncommitted, locals
<1>4. CommandShape(h)' /\ EventsShape(h)' /\ SnapOfStream(h)'
  BY <1>1, <1>2 DEF CommandShape, EventsShape, SnapOfStream, locals
<1>5. /\ tx'[h].events = tx[h].events
      /\ SaveEvents(h) => tx'[h].outbox = Uncommitted(h)
      /\ ~SaveEvents(h) => tx'[h].outbox = tx[h].outbox
      /\ \A s \in tx'[h].snapshots : s \in tx[h].snapshots \/ (s = SnapshotRow(h) /\ pc'[h] = "commit")
  <2>1. CASE SaveEvents(h)
    <3>1. tx'[h] = [tx[h] EXCEPT !.outbox = Uncommitted(h)]
      BY <2>1 DEF IInv, TypeOK, SaveEvents
    <3> QED BY <1>2, <2>1, <3>1 DEF Tx
  <2>2. CASE SaveSnapshotInTx(h)
    <3> DEFINE S == IF \E s \in snapshots : SameSnapshotKey(s, SnapshotRow(h))
                    THEN {} ELSE {SnapshotRow(h)}
    <3>1. /\ tx'[h] = [tx[h] EXCEPT !.snapshots = S] /\ pc'[h] = "commit" /\ ~SaveEvents(h)
      BY <2>2 DEF IInv, TypeOK, SaveSnapshotInTx, SaveEvents
    <3>2. \A s \in S : s = SnapshotRow(h)
      OBVIOUS
    <3> HIDE DEF S
    <3> QED BY <1>2, <3>1, <3>2 DEF Tx
  <2>3. CASE SaveSnapshotFails(h)
    <3>1. tx'[h] = [tx[h] EXCEPT !.aborted = TRUE] /\ ~SaveEvents(h)
      BY <2>3 DEF IInv, TypeOK, SaveSnapshotFails, SaveEvents
    <3> QED BY <1>2, <3>1 DEF Tx
  <2> QED BY <2>1, <2>2, <2>3
<1>6. TxShape(h)'
  <2>1. pc[h] = "outbox" => SaveEvents(h)
    BY DEF SaveEvents, SaveSnapshotInTx, SaveSnapshotFails
  <2>2. tx'[h].outbox = Uncommitted(h)
    BY <1>1, <1>2, <1>5, <2>1 DEF TxShape
  <2>3. /\ SnapshotRow(h).ver = root[h].version /\ SnapshotRow(h).payload = root[h].product
        /\ SnapshotRow(h).id \in {NilID, cmd[h].agg}
    BY <1>2 DEF SnapshotRow, MarshalJSON, EventsShape
  <2>4. \A s \in tx'[h].snapshots : /\ pc'[h] = "commit"
                                    /\ s.id \in {NilID, cmd[h].agg}
                                    /\ s.ver = root[h].version /\ s.payload = root[h].product
    BY <1>1, <1>2, <1>5, <2>3 DEF TxShape
  <2> QED BY <1>1, <1>2, <1>3, <1>5, <2>2, <2>4 DEF TxShape, InTx, locals
<1>7. BaseOfStream(h)'
  BY <1>1, <1>2 DEF BaseOfStream, ReplaysTo, Stream, tables, locals, InTx
<1>8. OnLatestState(h)'
  BY <1>1, <1>2 DEF OnLatestState, ReplaysTo, Stream, tables, locals
<1>9. \A g \in Handlers : KeysAreFree(g)'
  BY <1>1, <1>5, KeysKept DEF InTx, locals
<1> QED BY <1>1, <1>4, <1>6, <1>7, <1>8, <1>9, LocalStep

---------------------------------------------------------------------------
(* A transaction commits.                                                  *)

\* What the commit of h adds: its uncommitted events, which continue the newest state.
LEMMA CommitFacts ==
    ASSUME IInv, NEW h \in Handlers, pc[h] = "commit", Persist(h)
    PROVE  /\ eventStore' = eventStore \cup Uncommitted(h)
           /\ outbox' = outbox \cup Uncommitted(h)
           /\ base[h].version \in Nat /\ Len(events[h]) \in Nat \ {0}
           /\ cmd[h].agg \in Aggregates
           /\ OnLatestState(h) /\ EventsShape(h) /\ TxShape(h) /\ KeysAreFree(h)
           /\ \A e \in Uncommitted(h) :
                 /\ e.agg = cmd[h].agg
                 /\ \E i \in 1..Len(events[h]) : e = events[h][i] /\ e.ver = base[h].version + i
           /\ \A i \in 1..Len(events[h]) : events[h][i] \in Uncommitted(h)
<1>1. /\ events[h] \in Seq(Event) /\ base[h].version \in Nat /\ cmd[h] \in Command
      /\ EventsShape(h) /\ TxShape(h) /\ KeysAreFree(h) /\ OnLatestState(h)
  BY DEF IInv, TypeOK, HandlersInv, CommandShape, SavedOnLatestState, Root
<1>2. events[h] # <<>> /\ tx[h].events = Uncommitted(h) /\ tx[h].outbox = Uncommitted(h)
  BY <1>1 DEF TxShape, InTx
<1>3. Len(events[h]) \in Nat \ {0}
  BY <1>1, <1>2
<1>4. \A e \in Uncommitted(h) :
         /\ e.agg = cmd[h].agg
         /\ \E i \in 1..Len(events[h]) : e = events[h][i] /\ e.ver = base[h].version + i
  BY <1>1 DEF Uncommitted, EventsShape
<1>5. \A i \in 1..Len(events[h]) : events[h][i] \in Uncommitted(h)
  BY DEF Uncommitted
<1> QED BY <1>1, <1>2, <1>3, <1>4, <1>5 DEF Persist, Command

\* Two transactions in flight never hold events of the same aggregate: both would continue
\* its newest state, with the same key.
LEMMA OneWriterPerAggregate ==
    ASSUME IInv, NEW h \in Handlers, NEW g \in Handlers \ {h},
           pc[h] \in InTx, pc[g] \in InTx
    PROVE  cmd[g].agg # cmd[h].agg
<1> SUFFICES ASSUME cmd[g].agg = cmd[h].agg PROVE FALSE
  OBVIOUS
<1>1. \A k \in {g, h} : /\ events[k] \in Seq(Event) /\ base[k].version \in Nat
                        /\ EventsShape(k) /\ TxShape(k) /\ KeysAreFree(k) /\ OnLatestState(k)
                        /\ events[k] # <<>> /\ tx[k].events = Uncommitted(k)
  BY DEF IInv, TypeOK, HandlersInv, SavedOnLatestState, TxShape, Root, InTx
<1>2. \A e \in eventStore : e.ver \in Nat /\ e.ver > 0
  BY DEF IInv, TypeOK, TablesInv, VersionsArePositive, Event
<1>3. ASSUME NEW k \in {g, h}, NEW m \in {g, h} PROVE base[k].version <= base[m].version
  <2>1. CASE base[k].version = 0
    BY <1>1, <2>1
  <2>2. CASE base[k].version # 0
    <3>1. PICK e \in Stream(cmd[k].agg) : e.ver = base[k].version
      BY <1>1, <2>2 DEF OnLatestState, ReplaysTo
    <3> QED BY <1>1, <3>1 DEF OnLatestState
  <2> QED BY <2>1, <2>2
<1>4. base[g].version = base[h].version
  BY <1>1, <1>3
<1>5. \A k \in {g, h} : /\ events[k][1] \in Uncommitted(k)
                        /\ events[k][1].agg = cmd[k].agg
                        /\ events[k][1].ver = base[k].version + 1
  BY <1>1 DEF Uncommitted, EventsShape
<1>6. SameKey(events[h][1], events[g][1])
  BY <1>4, <1>5 DEF SameKey
<1>7. WaitsForKey(h)
  BY <1>1, <1>5, <1>6 DEF WaitsForKey
<1> QED BY <1>1, <1>7 DEF KeysAreFree

LEMMA CommitKeepsTables ==
    ASSUME IInv, NEW h \in Handlers, pc[h] = "commit", Persist(h),
           acked' \subseteq acked \cup Uncommitted(h)
    PROVE  TablesInv'
<1> DEFINE a == cmd[h].agg
           n == base[h].version
           len == Len(events[h])
<1>1. /\ eventStore' = eventStore \cup Uncommitted(h)
      /\ outbox' = outbox \cup Uncommitted(h)
      /\ n \in Nat /\ len \in Nat \ {0} /\ a \in Aggregates
      /\ OnLatestState(h) /\ EventsShape(h) /\ TxShape(h) /\ KeysAreFree(h)
      /\ \A e \in Uncommitted(h) :
            e.agg = a /\ \E i \in 1..len : e = events[h][i] /\ e.ver = n + i
      /\ \A i \in 1..len : events[h][i] \in Uncommitted(h)
  BY CommitFacts
<1>2. \A e \in eventStore : e.ver \in Nat /\ e.ver > 0
  BY DEF IInv, TypeOK, TablesInv, VersionsArePositive, Event
<1>3. \A i \in 1..len : events[h][i].ver = n + i /\ events[h][i].agg = a
  BY <1>1 DEF EventsShape
<1>4. \A e \in Stream(a) : e.ver <= n
  BY <1>1 DEF OnLatestState
<1>5. ~UniqueViolation(h)
  BY <1>1 DEF KeysAreFree, InTx
<1>6. TablesInv
  BY DEF IInv
<1>7. n # 0 => \E e \in eventStore : e.agg = a /\ e.ver = n
  BY <1>1 DEF OnLatestState, ReplaysTo, Stream
<1> HIDE DEF a, n, len
<1>8. VersionsArePositive'
  BY <1>1, <1>2 DEF VersionsArePositive
<1>9. StreamsHaveALast'
  <2> SUFFICES ASSUME NEW e \in eventStore'
               PROVE  \E l \in eventStore' : /\ l.agg = e.agg
                          /\ \A f \in eventStore' : f.agg = e.agg => f.ver <= l.ver
    BY DEF StreamsHaveALast, Stream
  <2>1. CASE e.agg = a
    <3>1. len \in 1..len
      BY <1>1
    <3>2. events[h][len] \in eventStore' /\ events[h][len].agg = a /\ events[h][len].ver = n + len
      BY <1>1, <1>3, <3>1
    <3>3. ASSUME NEW f \in eventStore', f.agg = a PROVE f.ver <= n + len
      <4>1. CASE f \in eventStore
        BY <1>1, <1>2, <1>4, <3>3, <4>1 DEF Stream
      <4>2. CASE f \in Uncommitted(h)
        BY <1>1, <4>2
      <4> QED BY <1>1, <4>1, <4>2
    <3> QED BY <2>1, <3>2, <3>3
  <2>2. CASE e.agg # a
    <3>1. e \in eventStore /\ \A f \in eventStore' : f.agg = e.agg => f \in eventStore
      BY <1>1, <2>2
    <3>2. PICK l \in Stream(e.agg) : \A f \in Stream(e.agg) : f.ver <= l.ver
      BY <1>6, <3>1 DEF TablesInv, StreamsHaveALast
    <3> QED BY <1>1, <3>1, <3>2 DEF Stream
  <2> QED BY <2>1, <2>2
<1>10. StreamsAreContiguous'
  <2>1. ASSUME NEW e \in eventStore', NEW f \in eventStore', SameKey(e, f) PROVE e = f
    <3>1. CASE e \in eventStore /\ f \in eventStore
      BY <1>6, <2>1, <3>1 DEF TablesInv, StreamsAreContiguous
    <3>2. CASE e \in Uncommitted(h) /\ f \in eventStore
      BY <1>5, <2>1, <3>2 DEF UniqueViolation
    <3>3. CASE f \in Uncommitted(h) /\ e \in eventStore
      BY <1>5, <2>1, <3>3 DEF UniqueViolation, SameKey
    <3>4. CASE e \in Uncommitted(h) /\ f \in Uncommitted(h)
      <4>1. PICK i \in 1..len : e = events[h][i] /\ e.ver = n + i
        BY <1>1, <3>4
      <4>2. PICK j \in 1..len : f = events[h][j] /\ f.ver = n + j
        BY <1>1, <3>4
      <4>3. i = j
        BY <1>1, <2>1, <4>1, <4>2 DEF SameKey
      <4> QED BY <4>1, <4>2, <4>3
    <3> QED BY <1>1, <3>1, <3>2, <3>3, <3>4
  <2>2. ASSUME NEW e \in eventStore', NEW v \in 1..e.ver
        PROVE  \E f \in eventStore' : f.agg = e.agg /\ f.ver = v
    <3>1. CASE e \in eventStore
      BY <1>1, <1>6, <3>1 DEF TablesInv, StreamsAreContiguous
    <3>2. CASE e \in Uncommitted(h)
      <4>1. PICK i \in 1..len : e = events[h][i] /\ e.ver = n + i
        BY <1>1, <3>2
      <4>2. e.agg = a /\ v \in Nat \ {0} /\ v <= n + i
        BY <1>1, <3>2, <4>1
      <4>3. CASE v <= n
        <5>1. PICK f \in eventStore : f.agg = a /\ f.ver = n
          BY <1>1, <1>7, <4>2, <4>3
        <5>2. v \in 1..f.ver
          BY <1>1, <4>2, <4>3, <5>1
        <5>3. \E k \in eventStore : k.agg = f.agg /\ k.ver = v
          BY <1>6, <5>2 DEF TablesInv, StreamsAreContiguous
        <5> QED BY <1>1, <4>2, <5>1, <5>3
      <4>4. CASE v > n
        <5>1. v - n \in 1..len /\ n + (v - n) = v
          BY <1>1, <4>1, <4>2, <4>4
        <5>2. events[h][v - n] \in eventStore' /\ events[h][v - n].ver = v /\ events[h][v - n].agg = a
          BY <1>1, <1>3, <5>1
        <5> QED BY <4>2, <5>2
      <4> QED BY <1>1, <4>2, <4>3, <4>4
    <3> QED BY <1>1, <3>1, <3>2
  <2> QED BY <2>1, <2>2 DEF StreamsAreContiguous, SameKey
<1>11. OutboxMirrorsStore' /\ AckedIsDurable'
  BY <1>1, <1>6 DEF TablesInv, OutboxMirrorsStore, AckedIsDurable
<1>12. SnapshotsReplayTheStream'
  <2> SUFFICES ASSUME NEW s \in snapshots', s.id \in Aggregates
               PROVE  s.ver > 0 /\ \E e \in eventStore' : /\ e.agg = s.id /\ e.ver = s.ver
                                                           /\ e.data = s.payload
    BY DEF SnapshotsReplayTheStream, ReplaysTo, Stream
  <2>1. CASE s \in snapshots
    <3>1. s.ver > 0 /\ s.ver # 0 /\ ReplaysTo(s.id, s.ver, s.payload)
      BY <1>6, <2>1 DEF TablesInv, SnapshotsReplayTheStream, IInv, TypeOK, Snapshot
    <3> QED BY <1>1, <3>1 DEF ReplaysTo, Stream
  <2>2. CASE s \in tx[h].snapshots
    <3>1. s.id = a /\ s.ver = root[h].version /\ s.payload = root[h].product
      BY <1>1, <2>2, SentinelsAssumption DEF TxShape, a
    <3>2. root[h].version = n + len /\ root[h].product = events[h][len].data
      BY <1>1 DEF EventsShape, TxShape, InTx, n, len
    <3>3. len \in 1..len
      BY <1>1
    <3>4. events[h][len] \in eventStore' /\ events[h][len].agg = a /\ events[h][len].ver = n + len
      BY <1>1, <1>3, <3>3
    <3> QED BY <1>1, <3>1, <3>2, <3>4
  <2> QED BY <2>1, <2>2 DEF Persist
<1> QED BY <1>8, <1>9, <1>10, <1>11, <1>12 DEF TablesInv

\* The commit of h leaves the facts about another handler g intact.
LEMMA CommitKeepsOthers ==
    ASSUME IInv, NEW h \in Handlers, pc[h] = "commit", Persist(h), Return(h), Proceed(h),
           NEW g \in Handlers \ {h}
    PROVE  /\ CommandShape(g)' /\ EventsShape(g)' /\ TxShape(g)'
           /\ SnapOfStream(g)' /\ BaseOfStream(g)' /\ KeysAreFree(g)'
           /\ pc'[g] \in InTx => OnLatestState(g)'
<1>1. \A k \in Handlers \ {h} :
         /\ pc'[k] = pc[k] /\ cmd'[k] = cmd[k] /\ snap'[k] = snap[k] /\ base'[k] = base[k]
         /\ root'[k] = root[k] /\ events'[k] = events[k] /\ tx'[k] = tx[k]
  BY OthersUntouched DEF IInv
<1>2. /\ eventStore' = eventStore \cup Uncommitted(h)
      /\ \A e \in Uncommitted(h) : e.agg = cmd[h].agg
  BY CommitFacts
<1>3. /\ CommandShape(g) /\ EventsShape(g) /\ TxShape(g) /\ SnapOfStream(g)
      /\ BaseOfStream(g) /\ KeysAreFree(g)
      /\ pc[g] \in InTx => OnLatestState(g)
  BY DEF IInv, HandlersInv, SavedOnLatestState, InTx
<1>4. Uncommitted(g)' = Uncommitted(g)
  BY <1>1 DEF Uncommitted
<1>5. CommandShape(g)' /\ EventsShape(g)' /\ TxShape(g)'
  BY <1>1, <1>3, <1>4 DEF CommandShape, EventsShape, TxShape
<1>7. SnapOfStream(g)' /\ BaseOfStream(g)'
  BY <1>1, <1>2, <1>3 DEF SnapOfStream, BaseOfStream, ReplaysTo, Stream
<1>8. tx[h].events = Uncommitted(h)
  BY DEF IInv, HandlersInv, TxShape, InTx
<1>9. KeysAreFree(g)'
  <2> SUFFICES ASSUME pc[g] \in InTx PROVE ~UniqueViolation(g)' /\ ~WaitsForKey(g)'
    BY <1>1 DEF KeysAreFree
  <2>1. ~UniqueViolation(g)'
    BY <1>2, <1>3, <1>4, <1>8 DEF KeysAreFree, UniqueViolation, WaitsForKey
  <2>2. tx'[h].events = {}
    BY ReturnFacts DEF IInv
  <2>3. ~WaitsForKey(g)'
    BY <1>1, <1>3, <1>4, <2>2 DEF KeysAreFree, WaitsForKey
  <2> QED BY <2>1, <2>3
<1>10. ASSUME pc'[g] \in InTx PROVE OnLatestState(g)'
  <2>1. pc[g] \in InTx /\ cmd[g].agg # cmd[h].agg
    BY <1>1, <1>10, OneWriterPerAggregate DEF InTx
  <2>2. Stream(cmd[g].agg)' = Stream(cmd[g].agg)
    BY <1>1, <1>2, <2>1 DEF Stream
  <2> QED BY <1>1, <1>2, <1>3, <2>1, <2>2 DEF OnLatestState, ReplaysTo, Stream
<1> QED BY <1>5, <1>7, <1>9, <1>10

LEMMA CommitStep ==
    ASSUME IInv, NEW h \in Handlers, Commit(h) \/ CommitReplyLost(h)
    PROVE  IInv'
<1>1. Return(h) /\ Proceed(h) /\ pc[h] = "commit"
  BY DEF Commit, CommitReplyLost, Proceed
<1>2. /\ CommandShape(h)' /\ EventsShape(h)' /\ TxShape(h)' /\ SnapOfStream(h)'
      /\ BaseOfStream(h)' /\ pc'[h] \notin InTx /\ tx'[h].events = {}
  BY <1>1, ReturnFacts DEF IInv
<1>3. CASE Commit(h) /\ tx[h].aborted
  <2>1. UNCHANGED <<tables, acked>>
    BY <1>3 DEF Commit, ReportedSaved
  <2>2. \A g \in Handlers : KeysAreFree(g)'
    BY <1>1, <1>2, <2>1, KeysKept
  <2> QED BY <1>1, <1>2, <2>1, <2>2, LocalStep
<1>4. CASE ~(Commit(h) /\ tx[h].aborted)
  <2>1. Persist(h) /\ acked' \subseteq acked \cup Uncommitted(h)
    BY <1>4 DEF Commit, CommitReplyLost, ReportedSaved
  <2>2. TypeOK'
    BY <1>1, TypeStep DEF Next
  <2>3. TablesInv'
    BY <1>1, <2>1, CommitKeepsTables
  <2>4. \A g \in Handlers \ {h} :
           /\ CommandShape(g)' /\ EventsShape(g)' /\ TxShape(g)'
           /\ SnapOfStream(g)' /\ BaseOfStream(g)' /\ KeysAreFree(g)'
           /\ pc'[g] \in InTx => OnLatestState(g)'
    BY <1>1, <2>1, CommitKeepsOthers
  <2>5. KeysAreFree(h)'
    BY <1>2 DEF KeysAreFree
  <2>6. HandlersInv' /\ SavedOnLatestState'
    BY <1>2, <2>4, <2>5 DEF HandlersInv, SavedOnLatestState, InTx
  <2> QED BY <2>2, <2>3, <2>6 DEF IInv
<1> QED BY <1>3, <1>4

---------------------------------------------------------------------------
(* The theorems.                                                           *)

LEMMA InitIInv == Init => IInv
<1> SUFFICES ASSUME Init PROVE IInv
  OBVIOUS
<1>1. <<>> \in Seq(Event) /\ Len(<<>>) = 0
  OBVIOUS
<1>2. TypeOK
  BY <1>1, ConstantsTyped DEF Init, TypeOK
<1>3. \A h \in Handlers : /\ pc[h] = "idle" /\ base[h] = EmptyRoot /\ root[h] = EmptyRoot
                          /\ events[h] = <<>> /\ tx[h] = NoTx
  BY DEF Init
<1>4. HandlersInv
  <2> SUFFICES ASSUME NEW h \in Handlers
               PROVE  /\ CommandShape(h) /\ EventsShape(h) /\ TxShape(h)
                      /\ SnapOfStream(h) /\ BaseOfStream(h) /\ KeysAreFree(h)
    BY DEF HandlersInv
  <2>1. EventsShape(h)
    BY <1>1, <1>3, ConstantsTyped DEF EventsShape
  <2>2. CommandShape(h) /\ TxShape(h)
    BY <1>3, ConstantsTyped DEF CommandShape, TxShape, InTx
  <2>3. SnapOfStream(h) /\ BaseOfStream(h) /\ KeysAreFree(h)
    BY <1>3 DEF SnapOfStream, BaseOfStream, KeysAreFree, InTx
  <2> QED BY <2>1, <2>2, <2>3
<1>5. TablesInv
  BY DEF Init, TablesInv, VersionsArePositive, StreamsHaveALast, StreamsAreContiguous,
         OutboxMirrorsStore, SnapshotsReplayTheStream, AckedIsDurable
<1>6. SavedOnLatestState
  BY <1>3 DEF SavedOnLatestState
<1> QED BY <1>2, <1>4, <1>5, <1>6 DEF IInv

LEMMA NextIInv == IInv /\ [Next]_vars => IInv'
<1> SUFFICES ASSUME IInv, [Next]_vars PROVE IInv'
  OBVIOUS
<1>1. CASE UNCHANGED vars
  <2>1. TypeOK'
    BY TypeStep
  <2>2. TablesInv'
    BY <1>1, TablesKept DEF IInv, vars
  <2>3. HandlersInv'
    BY <1>1 DEF IInv, HandlersInv, CommandShape, EventsShape, TxShape, SnapOfStream,
                BaseOfStream, KeysAreFree, UniqueViolation, WaitsForKey, Uncommitted,
                ReplaysTo, Stream, vars, tables, locals
  <2>4. SavedOnLatestState'
    BY <1>1 DEF IInv, SavedOnLatestState, OnLatestState, ReplaysTo, Stream, vars, tables, locals
  <2> QED BY <2>1, <2>2, <2>3, <2>4 DEF IInv
<1>2. ASSUME NEW h \in Handlers, Begin(h) \/ Proceed(h) \/ Rollback(h)
      PROVE  IInv'
  BY <1>2, BeginStep, LoadSnapshotStep, LoadEventsStep, TrackChangeStep, AbandonStep,
     SaveEventsInTxStep, WriteStep, CommitStep
     DEF Proceed
<1> QED BY <1>1, <1>2 DEF Next

\* IInv is an invariant of the write side.
THEOREM Inductive == Spec => []IInv
BY InitIInv, NextIInv, PTL DEF Spec

\* Every variable of the write side keeps its type, the aggregate that Load builds from a
\* snapshot and a history included.
THEOREM TypeCorrect == Spec => []TypeOK
<1>1. IInv => TypeOK
  BY DEF IInv
<1> QED BY <1>1, Inductive, PTL

\* The optimistic concurrency control of saveEventsInTx (uq_aggregate_version) keeps every
\* stream gap-free and without two events of one version, for any number of handlers.
THEOREM StreamsStayContiguous == Spec => []StreamsAreContiguous
<1>1. IInv => StreamsAreContiguous
  BY DEF IInv, TablesInv
<1> QED BY <1>1, Inductive, PTL

\* No lost update: what a transaction inserts was computed from the newest committed state,
\* although Repository.Load reads outside the transaction.
THEOREM NoLostUpdate == Spec => []SavedOnLatestState
<1>1. IInv => SavedOnLatestState
  BY DEF IInv
<1> QED BY <1>1, Inductive, PTL

\* EventStore.Save and OutboxStore.SaveEvents are atomic together: no failure of Save, of a
\* snapshot or of Commit lets outbox and event_store differ.
THEOREM OutboxIsTransactional == Spec => []OutboxMirrorsStore
<1>1. IInv => OutboxMirrorsStore
  BY DEF IInv, TablesInv
<1> QED BY <1>1, Inductive, PTL

\* A snapshot that loadSnapshot can find for an aggregate is the replay of a prefix of its
\* stream.
THEOREM SnapshotsAreReplays == Spec => []SnapshotsReplayTheStream
<1>1. IInv => SnapshotsReplayTheStream
  BY DEF IInv, TablesInv
<1> QED BY <1>1, Inductive, PTL

\* A handler that returned nil has its events in event_store for good.
THEOREM AckedStaysDurable == Spec => []AckedIsDurable
<1>1. IInv => AckedIsDurable
  BY DEF IInv, TablesInv
<1> QED BY <1>1, Inductive, PTL

\* Load's two queries, with commits of other handlers in between, give the product of the
\* whole stream.
THEOREM LoadIsConsistent == Spec => LoadRestoresProduct
<1>1. ASSUME IInv, NEW h \in Handlers, LoadEvents(h), NEW e \in Stream(cmd[h].agg),
             \A f \in Stream(cmd[h].agg) : f.ver <= e.ver
      PROVE  base'[h].product = e.data
  <2> DEFINE loaded == LoadFromHistory(UnmarshalJSON(snap[h].payload), History(h))
  <2>1. pc[h] = "loadEvents" /\ base'[h] = loaded
    BY <1>1 DEF IInv, TypeOK, LoadEvents
  <2>2. /\ History(h) = {} => loaded.product = snap[h].payload
        /\ History(h) # {} =>
              \E l \in History(h) : /\ \A f \in Stream(cmd[h].agg) : f.ver <= l.ver
                                    /\ loaded.product = l.data
    BY <1>1, <2>1, LoadedFacts
  <2> HIDE DEF loaded
  <2>3. /\ \A f, k \in Stream(cmd[h].agg) : f.ver = k.ver => f = k
        /\ \A f \in Stream(cmd[h].agg) : f.ver \in Nat /\ f.ver > 0
        /\ snap[h].ver \in Nat
    BY <1>1 DEF IInv, TypeOK, TablesInv, StreamsAreContiguous, SameKey, VersionsArePositive,
                Stream, Event, Snapshot
  <2>4. CASE History(h) # {}
    <3>1. PICK l \in History(h) : /\ \A f \in Stream(cmd[h].agg) : f.ver <= l.ver
                                  /\ loaded.product = l.data
      BY <2>2, <2>4
    <3>2. l \in Stream(cmd[h].agg)
      BY DEF History
    <3>3. l = e
      BY <1>1, <2>3, <3>1, <3>2
    <3> QED BY <2>1, <3>1, <3>3
  <2>5. CASE History(h) = {}
    <3>1. \A f \in Stream(cmd[h].agg) : f.ver <= snap[h].ver
      BY <2>3, <2>5 DEF History
    <3>2. snap[h].ver > 0
      BY <1>1, <2>3, <3>1
    <3>3. PICK f \in Stream(cmd[h].agg) : f.ver = snap[h].ver /\ f.data = snap[h].payload
      BY <1>1, <2>1, <2>3, <3>2, ConstantsTyped
         DEF IInv, HandlersInv, SnapOfStream, ReplaysTo
    <3>4. f = e
      BY <1>1, <2>3, <3>1, <3>3
    <3> QED BY <2>1, <2>2, <2>5, <3>3, <3>4
  <2> QED BY <2>4, <2>5
<1>2. IInv => \A h \in Handlers : LoadEvents(h) =>
                 \A e \in Stream(cmd[h].agg) :
                    (\A f \in Stream(cmd[h].agg) : f.ver <= e.ver) => base'[h].product = e.data
  BY <1>1
<1> QED BY <1>2, Inductive, PTL DEF LoadRestoresProduct
===========================================================================
