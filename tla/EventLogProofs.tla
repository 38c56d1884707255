-------------------------- MODULE EventLogProofs --------------------------
(***************************************************************************)
(* The event store implements the append-only log of module EventLog: the  *)
(* commit of a handler appends the events of one command to the end of one *)
(* stream, and no other step touches the table.                            *)
(***************************************************************************)
EXTENDS EventStoreProofs

\* What the log asks of an append beyond IInv: the bounds, and that only the first event of a
\* stream is a ProductCreated.  A Create command starts from an empty aggregate.
ChangesShape(h) ==
    /\ Len(events[h]) <= MaxChanges
    /\ events[h] # <<>> => root[h].version <= MaxVersion
    /\ pc[h] \in {"loadSnapshot", "loadEvents"} => cmd[h].kind = "Update"
    /\ cmd[h].kind = "Create" => base[h].version = 0
    /\ \A i \in 1..Len(events[h]) :
          events[h][i].kind = "Created" => base[h].version + i = 1

LogIInv == IInv /\ \A h \in Handlers : ChangesShape(h)

---------------------------------------------------------------------------
(* The strengthening is inductive.                                         *)

\* A handler that is idle has changed nothing.
LEMMA NothingChanged ==
    ASSUME NEW h, events[h] = <<>>, base[h] = EmptyRoot,
           pc[h] \in {"loadSnapshot", "loadEvents"} => cmd[h].kind = "Update"
    PROVE  ChangesShape(h)
<1>1. Len(<<>>) = 0 /\ 0 <= MaxChanges /\ 1..0 = {}
  BY BoundsAssumption
<1> QED BY <1>1, ConstantsTyped DEF ChangesShape

LEMMA TrackKeepsChanges ==
    ASSUME LogIInv, NEW h \in Handlers, NEW p \in Products, TrackChange(h, p)
    PROVE  ChangesShape(h)'
<1> DEFINE e == [agg |-> cmd[h].agg, ver |-> NextVersion(h), data |-> p,
                 kind |-> IF cmd[h].kind = "Create" /\ events[h] = <<>>
                          THEN "Created" ELSE "Updated"]
<1>1. /\ pc[h] = "track" /\ UNCHANGED <<pc, cmd, base>>
      /\ Len(events[h]) < MaxChanges /\ root[h].version < MaxVersion
      /\ root'[h] = Apply(root[h], e) /\ events'[h] = Append(events[h], e)
  BY DEF LogIInv, IInv, TypeOK, TrackChange
<1>2. /\ e.ver = root[h].version + 1
      /\ e.kind = "Created" => cmd[h].kind = "Create" /\ events[h] = <<>>
  BY DEF NextVersion
<1> HIDE DEF e
<1>3. /\ events[h] \in Seq(Event) /\ Len(events[h]) \in Nat
      /\ root[h].version \in Nat /\ base[h].version \in Nat /\ ChangesShape(h)
  BY DEF LogIInv, IInv, TypeOK, Root
<1>4. root'[h].version = root[h].version + 1
  BY <1>1, <1>2 DEF Apply
<1>5. /\ Len(events'[h]) = Len(events[h]) + 1
      /\ \A i \in 1..Len(events[h]) : events'[h][i] = events[h][i]
      /\ events'[h][Len(events[h]) + 1] = e
  BY <1>1, <1>3
<1>6. Len(events'[h]) <= MaxChanges /\ root'[h].version <= MaxVersion
  BY <1>1, <1>3, <1>4, <1>5, BoundsAssumption
<1>7. ASSUME NEW i \in 1..Len(events'[h]), events'[h][i].kind = "Created"
      PROVE  base[h].version + i = 1
  <2>1. CASE i \in 1..Len(events[h])
    BY <1>3, <1>5, <1>7, <2>1 DEF ChangesShape
  <2>2. CASE i = Len(events[h]) + 1
    <3>1. cmd[h].kind = "Create" /\ events[h] = <<>>
      BY <1>2, <1>5, <1>7, <2>2
    <3>2. i = 1 /\ base[h].version = 0
      BY <1>3, <2>2, <3>1 DEF ChangesShape
    <3> QED BY <3>2
  <2> QED BY <1>3, <1>5, <2>1, <2>2
<1> QED BY <1>1, <1>3, <1>6, <1>7 DEF ChangesShape

LEMMA OwnChangesKept ==
    ASSUME LogIInv, NEW h \in Handlers, Begin(h) \/ Proceed(h) \/ Rollback(h)
    PROVE  ChangesShape(h)'
<1>0. IInv /\ TypeOK /\ ChangesShape(h) /\ CommandShape(h)
  BY DEF LogIInv, IInv, HandlersInv
<1>1. CASE Begin(h)
  <2>1. /\ pc[h] = "idle" /\ UNCHANGED <<base, events>>
        /\ pc'[h] \in {"loadSnapshot", "loadEvents"} => cmd'[h].kind = "Update"
    BY <1>0, <1>1 DEF TypeOK, Begin, CreateProduct, UpdateProduct
  <2>2. events'[h] = <<>> /\ base'[h] = EmptyRoot
    BY <1>0, <2>1 DEF CommandShape
  <2>3. EmptyRoot' = EmptyRoot
    BY DEF EmptyRoot
  <2> QED BY <2>1, <2>2, <2>3, ConstantsTyped, BoundsAssumption, Len(<<>>) = 0 DEF ChangesShape
<1>2. CASE LoadSnapshot(h)
  <2>1. /\ pc[h] = "loadSnapshot" /\ pc'[h] = "loadEvents" /\ UNCHANGED <<cmd, base, root, events>>
    BY <1>0, <1>2 DEF TypeOK, LoadSnapshot
  <2> QED BY <1>0, <2>1 DEF ChangesShape
<1>3. CASE LoadEvents(h)
  <2>1. /\ pc[h] = "loadEvents" /\ pc'[h] = "track" /\ UNCHANGED <<cmd, events>>
        /\ cmd[h].kind = "Update" /\ events[h] = <<>>
    BY <1>0, <1>3 DEF TypeOK, LoadEvents, ChangesShape, CommandShape
  <2> QED BY <2>1, BoundsAssumption, Len(<<>>) = 0 DEF ChangesShape
<1>4. CASE \E p \in Products : TrackChange(h, p)
  BY <1>4, TrackKeepsChanges
<1>5. CASE SaveEventsInTx(h) \/ SaveEvents(h) \/ SaveSnapshotInTx(h) \/ SaveSnapshotFails(h)
  <2>1. UNCHANGED locals /\ pc'[h] \in {"outbox", "snapshot", "commit"}
    BY <1>0, <1>5 DEF TypeOK, SaveEventsInTx, SaveEvents, SaveSnapshotInTx, SaveSnapshotFails
  <2> QED BY <1>0, <2>1 DEF ChangesShape, locals
<1>6. CASE SaveNothing(h) \/ ErrConcurrency(h) \/ Commit(h) \/ CommitReplyLost(h) \/ Rollback(h)
  <2>1. Return(h)
    BY <1>6 DEF SaveNothing, ErrConcurrency, Commit, CommitReplyLost, Rollback
  <2>2. pc'[h] = "idle" /\ events'[h] = <<>> /\ base'[h].version = 0
    BY <1>0, <2>1, ConstantsTyped DEF TypeOK, Return
  <2> QED BY <2>2, BoundsAssumption, Len(<<>>) = 0 DEF ChangesShape
<1> QED BY <1>1, <1>2, <1>3, <1>4, <1>5, <1>6 DEF Proceed

LEMMA LogNext == LogIInv /\ [Next]_vars => LogIInv'
<1> SUFFICES ASSUME LogIInv, [Next]_vars PROVE LogIInv'
  OBVIOUS
<1>1. IInv'
  BY NextIInv DEF LogIInv
<1>2. CASE UNCHANGED vars
  BY <1>1, <1>2 DEF LogIInv, ChangesShape, vars, locals
<1>3. ASSUME NEW h \in Handlers, Begin(h) \/ Proceed(h) \/ Rollback(h), NEW g \in Handlers
      PROVE  ChangesShape(g)'
  <2>1. CASE g = h
    BY <1>3, <2>1, OwnChangesKept
  <2>2. CASE g # h
    <3>1. /\ pc'[g] = pc[g] /\ cmd'[g] = cmd[g] /\ base'[g] = base[g]
          /\ root'[g] = root[g] /\ events'[g] = events[g]
      BY <1>3, <2>2, OthersUntouched DEF LogIInv, IInv
    <3> QED BY <3>1 DEF LogIInv, ChangesShape
  <2> QED BY <2>1, <2>2
<1> QED BY <1>1, <1>2, <1>3 DEF Next, LogIInv

---------------------------------------------------------------------------
(* The refinement.                                                         *)

\* A commit appends the events of the handler, in order, after the last version of the stream.
LEMMA CommitAppends ==
    ASSUME LogIInv, NEW h \in Handlers, pc[h] = "commit", Persist(h)
    PROVE  EventLogSpec!Next
<1> DEFINE a == cmd[h].agg
           v == base[h].version
           n == Len(events[h])
           s == [i \in 1..n |-> [kind |-> events[h][i].kind, data |-> events[h][i].data]]
<1>1. /\ IInv /\ ChangesShape(h) /\ events[h] \in Seq(Event)
  BY DEF LogIInv, IInv, TypeOK
<1>2. /\ eventStore' = eventStore \cup Uncommitted(h)
      /\ v \in Nat /\ n \in Nat \ {0} /\ a \in Aggregates /\ OnLatestState(h) /\ EventsShape(h)
  BY <1>1, CommitFacts
<1>3. events[h] # <<>> /\ v + n <= MaxVersion /\ n <= MaxChanges
  BY <1>1, <1>2 DEF ChangesShape, EventsShape
<1>4. v \in 0..MaxVersion /\ n \in 1..MaxChanges
  BY <1>2, <1>3, BoundsAssumption
<1>5. \A i \in 1..n : events[h][i] \in Event
  BY <1>1
<1>6. s \in [1..n -> EventLogSpec!Entry]
  BY <1>5 DEF Event, EventLogSpec!Entry
<1>7. EventLogSpec!LastVersion(a, v)
  <2>1. \A f \in eventStore : f.agg = a => f.ver <= v
    BY <1>2 DEF OnLatestState, Stream
  <2>2. v = 0 \/ \E f \in eventStore : f.agg = a /\ f.ver = v
    BY <1>2 DEF OnLatestState, ReplaysTo, Stream
  <2> QED BY <2>1, <2>2 DEF EventLogSpec!LastVersion
<1>8. \A i \in 1..n : s[i].kind = "Created" => v + i = 1
  BY <1>1 DEF ChangesShape
<1>9. Uncommitted(h) =
         {[agg |-> a, ver |-> v + i, kind |-> s[i].kind, data |-> s[i].data] : i \in 1..n}
  <2>1. ASSUME NEW i \in 1..n
        PROVE  events[h][i] = [agg |-> a, ver |-> v + i, kind |-> s[i].kind, data |-> s[i].data]
    <3>1. events[h][i].agg = a /\ events[h][i].ver = v + i
      BY <1>2 DEF EventsShape
    <3>2. events[h][i] \in Event
      BY <1>5
    <3> QED BY <3>1, <3>2 DEF Event
  <2> HIDE DEF s
  <2> QED BY <2>1 DEF Uncommitted
<1> HIDE DEF a, v, n, s
<1>10. EventLogSpec!Append(a, v, n, s)
  BY <1>2, <1>3, <1>7, <1>8, <1>9 DEF EventLogSpec!Append
<1> QED BY <1>2, <1>4, <1>6, <1>10 DEF EventLogSpec!Next

LEMMA LogStep ==
    ASSUME LogIInv, [Next]_vars
    PROVE  [EventLogSpec!Next]_eventStore
<1>1. CASE UNCHANGED vars
  BY <1>1 DEF vars, tables
<1>2. ASSUME NEW h \in Handlers, Begin(h) \/ Proceed(h) \/ Rollback(h)
      PROVE  [EventLogSpec!Next]_eventStore
  <2>1. CASE Commit(h) \/ CommitReplyLost(h)
    <3>1. pc[h] = "commit" /\ (UNCHANGED tables \/ Persist(h))
      BY <2>1 DEF Commit, CommitReplyLost
    <3> QED BY <3>1, CommitAppends DEF tables
  <2>2. CASE ~(Commit(h) \/ CommitReplyLost(h))
    <3>1. UNCHANGED tables
      <4>1. CASE Begin(h) \/ Rollback(h)
        BY <4>1 DEF Begin, CreateProduct, UpdateProduct, Rollback
      <4>2. CASE Proceed(h)
        BY <2>2, <4>2 DEF Proceed, LoadSnapshot, LoadEvents, TrackChange, SaveNothing,
           SaveEventsInTx, ErrConcurrency, SaveEvents, SaveSnapshotInTx, SaveSnapshotFails
      <4> QED BY <1>2, <4>1, <4>2
    <3> QED BY <3>1 DEF tables
  <2> QED BY <2>1, <2>2
<1> QED BY <1>1, <1>2 DEF Next

\* The event store implements the abstract log, for any number of handlers and whatever fails:
\* the events of a command become visible all at once, numbered from the last version of their
\* stream, and no committed event is ever changed or removed.
THEOREM RefinesEventLog == Spec => ImplementsEventLog
<1>1. Init => LogIInv
  <2> SUFFICES ASSUME Init PROVE LogIInv
    OBVIOUS
  <2>1. \A h \in Handlers : pc[h] = "idle" /\ events[h] = <<>> /\ base[h] = EmptyRoot
    BY DEF Init
  <2> QED BY <2>1, InitIInv, NothingChanged DEF LogIInv
<1>2. Init => EventLogSpec!Init
  BY DEF Init, EventLogSpec!Init
<1>3. LogIInv /\ [Next]_vars => [EventLogSpec!Next]_eventStore
  BY LogStep
<1> QED BY <1>1, <1>2, <1>3, LogNext, PTL DEF Spec, ImplementsEventLog, EventLogSpec!Spec
===========================================================================
