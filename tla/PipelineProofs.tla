-------------------------- MODULE PipelineProofs --------------------------
(***************************************************************************)
(* Proofs about module Pipeline, from the theorems about its parts: no     *)
(* event is lost between the outbox and the view, and the application      *)
(* implements CQRS.                                                        *)
(***************************************************************************)
EXTENDS Pipeline, FiniteSetTheorems, SequenceTheorems, TLAPS

\* The parts, with what is proved about them.
RP == INSTANCE RelayProofs WITH Untyped <- {}, MaxFailures <- MaxRelayFailures,
                                failures <- relayFailures
SP == INSTANCE ProductReadSideProofs WITH Copies <- 1..MaxCopies, MaxFailures <- MaxReadFailures,
                                          MaxSilent <- MaxVersion * Cardinality(Aggregates),
                                          failures <- readFailures

---------------------------------------------------------------------------
(* Every behaviour of the application is one of its relays and one of its  *)
(* subscriber.                                                             *)

\* The assumptions of the parts hold.
LEMMA PartsAssumed ==
    RP!RelayAssumption /\ SP!ProjectionAssumption /\ SP!ReadSideAssumption
<1>1. Cardinality(Aggregates) \in Nat
  BY PipelineBounds, FS_CardinalityType
<1>2. MaxVersion * Cardinality(Aggregates) \in Nat
  BY <1>1, PipelineBounds
<1> QED BY <1>2, PipelineAssumption, PipelineBounds
        DEF RP!RelayAssumption, SP!ProjectionAssumption, SP!ReadSideAssumption

\* The parts count as this module does.
LEMMA SameCardinality ==
    ASSUME NEW T
    PROVE  /\ R!Cardinality(T) = Cardinality(T) /\ RP!Cardinality(T) = Cardinality(T)
           /\ S!Cardinality(T) = Cardinality(T) /\ SP!Cardinality(T) = Cardinality(T)
BY DEF Cardinality, R!Cardinality, RP!Cardinality, S!Cardinality, SP!Cardinality

LEMMA RelayActions ==
    ASSUME NEW r \in Relays
    PROVE  /\ R!Work(r) => RP!Work(r)
           /\ R!BatchFails(r) => RP!BatchFails(r)
           /\ R!PublishReplyLost(r) => RP!PublishReplyLost(r)
<1>1. R!Work(r) => RP!Work(r)
  BY DEF R!Work, RP!Work, R!FetchAndLock, RP!FetchAndLock, R!Available, RP!Available,
         R!Elements, RP!Elements, R!ByTs, RP!ByTs, R!Publish, RP!Publish, R!Sending, RP!Sending,
         R!HasTopic, RP!HasTopic, R!Skip, RP!Skip, R!Skipping, RP!Skipping,
         R!MarkAsPublished, RP!MarkAsPublished
<1>2. R!BatchFails(r) => RP!BatchFails(r)
  BY DEF R!BatchFails, RP!BatchFails, R!Roll, RP!Roll, R!Sent, RP!Sent, R!Sending, RP!Sending,
         R!HasTopic, RP!HasTopic, R!Counted, RP!Counted, R!Row, RP!Row
<1>3. R!PublishReplyLost(r) => RP!PublishReplyLost(r)
  BY DEF R!PublishReplyLost, RP!PublishReplyLost, R!Roll, RP!Roll, R!Sent, RP!Sent, R!Sending,
         RP!Sending, R!HasTopic, RP!HasTopic, R!Counted, RP!Counted, R!Row, RP!Row
<1> QED BY <1>1, <1>2, <1>3

LEMMA RelayRefinement == [Next]_vars => [RP!Next]_(RP!vars)
<1> SUFFICES ASSUME [Next]_vars PROVE [RP!Next]_(RP!vars)
  OBVIOUS
<1>1. ASSUME NEW a \in Aggregates, Commit(a) PROVE RP!Next
  <2>1. RP!SaveEvents(a)
    BY <1>1, SameCardinality DEF Commit, R!SaveEvents, RP!SaveEvents
  <2> QED BY <2>1 DEF RP!Next
<1>2. ASSUME NEW r \in Relays, RelayWorks(r) \/ RelayFails(r) PROVE RP!Next
  BY <1>2, RelayActions DEF RelayWorks, RelayFails, RP!Next
<1>3. ASSUME UNCHANGED relayVars PROVE UNCHANGED RP!vars
  BY <1>3 DEF relayVars, RP!vars
<1>4. ASSUME NEW w \in Workers,
             \/ (\E m \in S!Message : Fetch(w, m)) \/ SubscriberWorks(w) \/ SubscriberFails(w)
             \/ ProjectView(w) \/ ViewWriteFails(w)
      PROVE  UNCHANGED relayVars
  BY <1>4 DEF Fetch, SubscriberWorks, SubscriberFails, ProjectView, ViewWriteFails
<1>5. ASSUME NEW a \in Aggregates, GetProductByID(a) PROVE UNCHANGED relayVars
  BY <1>5 DEF GetProductByID
<1>6. CASE UNCHANGED vars
  BY <1>6 DEF vars, relayVars, RP!vars
<1> QED BY <1>1, <1>2, <1>3, <1>4, <1>5, <1>6 DEF Next

LEMMA ReadSideActions ==
    ASSUME NEW w \in Workers
    PROVE  /\ S!Proceed(w) => SP!Proceed(w)
           /\ S!Fails(w) => SP!Fails(w)
           /\ \A m : S!Fetch(w, m) => SP!Fetch(w, m)
           /\ S!HandleProductEvent(w) => SP!HandleProductEvent(w)
           /\ S!ErrorOnlyLogged(w) => SP!ErrorOnlyLogged(w)
<1>1. S!Proceed(w) => SP!Proceed(w)
  BY DEF S!Proceed, SP!Proceed, S!Ack, SP!Ack, S!IsProcessed, SP!IsProcessed, S!GetVersion,
         SP!GetVersion, S!MarkAsProcessed, SP!MarkAsProcessed, S!Commit, SP!Commit,
         S!CommitAborted, SP!CommitAborted, S!Finish, SP!Finish, S!Retry, SP!Retry, S!GiveUp,
         SP!GiveUp, S!Persist, SP!Persist, S!AbortsTx, SP!AbortsTx, S!Outdated, SP!Outdated,
         S!InOrder, SP!InOrder, S!Old, SP!Old, S!Evt, SP!Evt, S!Msg, SP!Msg, S!EventOf,
         SP!EventOf, S!NoTx, SP!NoTx
<1>2. S!Fails(w) => SP!Fails(w)
  BY DEF S!Fails, SP!Fails, S!AckLost, SP!AckLost, S!CommitReplyLost, SP!CommitReplyLost,
         S!CallFails, SP!CallFails, S!Crash, SP!Crash, S!Finish, SP!Finish, S!Retry, SP!Retry,
         S!GiveUp, SP!GiveUp, S!Persist, SP!Persist, S!Old, SP!Old, S!Evt, SP!Evt, S!Msg, SP!Msg,
         S!EventOf, SP!EventOf, S!NoTx, SP!NoTx
<1>3. ASSUME NEW m, S!Fetch(w, m) PROVE SP!Fetch(w, m)
  BY <1>3 DEF S!Fetch, SP!Fetch, S!Message, SP!Message
<1>4. S!HandleProductEvent(w) => SP!HandleProductEvent(w)
  BY DEF S!HandleProductEvent, SP!HandleProductEvent, S!WriteProductView, SP!WriteProductView,
         S!Created, SP!Created, S!Evt, SP!Evt, S!Msg, SP!Msg, S!EventOf, SP!EventOf
<1>5. S!ErrorOnlyLogged(w) => SP!ErrorOnlyLogged(w)
  BY SameCardinality DEF S!ErrorOnlyLogged, SP!ErrorOnlyLogged, S!Evt, SP!Evt, S!Msg, SP!Msg, S!EventOf, SP!EventOf
<1> QED BY <1>1, <1>2, <1>3, <1>4, <1>5

LEMMA ReadSideRefinement == [Next]_vars => [SP!ReadSideNext]_(SP!readVars)
<1> SUFFICES ASSUME [Next]_vars PROVE [SP!ReadSideNext]_(SP!readVars)
  OBVIOUS
<1>1. ASSUME NEW w \in Workers, NEW m \in S!Message, Fetch(w, m) PROVE SP!ReadSideNext
  <2>1. SP!Fetch(w, m) /\ UNCHANGED lost /\ m \in SP!Message
    BY <1>1, ReadSideActions DEF Fetch, S!Message, SP!Message
  <2> QED BY <2>1 DEF SP!ReadSideNext
<1>2. ASSUME NEW w \in Workers, SubscriberWorks(w) \/ SubscriberFails(w) PROVE SP!ReadSideNext
  BY <1>2, ReadSideActions DEF SubscriberWorks, SubscriberFails, SP!ReadSideNext
<1>3. ASSUME NEW w \in Workers, ProjectView(w) \/ ViewWriteFails(w) PROVE SP!ReadSideNext
  BY <1>3, ReadSideActions DEF ProjectView, ViewWriteFails, SP!ReadSideNext
<1>4. ASSUME UNCHANGED subscriberVars PROVE UNCHANGED SP!readVars
  BY <1>4 DEF subscriberVars, SP!readVars, SP!vars
<1>5. ASSUME NEW a \in Aggregates, Commit(a) \/ GetProductByID(a) PROVE UNCHANGED subscriberVars
  BY <1>5 DEF Commit, GetProductByID
<1>6. ASSUME NEW r \in Relays, RelayWorks(r) \/ RelayFails(r) PROVE UNCHANGED subscriberVars
  BY <1>6 DEF RelayWorks, RelayFails
<1>7. CASE UNCHANGED vars
  BY <1>4, <1>7 DEF vars
<1> QED BY <1>1, <1>2, <1>3, <1>4, <1>5, <1>6, <1>7 DEF Next

\* The application implements its relays and its subscriber, so that what is proved about them
\* holds of it.
LEMMA PartsImplemented == Spec => RP!Spec /\ SP!ReadSideSpec
<1>1. Init => RP!Init /\ SP!ReadSideInit
  BY DEF Init, R!Init, RP!Init, R!Row, RP!Row, S!ReadSideInit, SP!ReadSideInit, S!Init, SP!Init,
         S!NoTx, SP!NoTx
<1> QED BY <1>1, RelayRefinement, ReadSideRefinement, PTL DEF Spec, RP!Spec, SP!ReadSideSpec

\* What the parts contribute.
PartsInv == RP!IInv /\ SP!ReadSideIInv /\ SP!AckIInv

LEMMA PartsInductive == Spec => []PartsInv
<1> USE PartsAssumed
<1>1. Spec => []RP!IInv
  BY PartsImplemented, RP!Inductive, PTL
<1>2. PICK w \in Workers : Workers = {w}
  BY PipelineAssumption
<1>3. SP!ReadSideSpec => []SP!ReadSideIInv
  BY <1>2, SP!ReadSideInductive
<1> QED BY <1>1, <1>3, PartsImplemented, SP!AckInductive, PTL DEF PartsInv

---------------------------------------------------------------------------
(* No event is lost.                                                       *)

\* The stream has a first copy of an event it contains.
LEMMA FirstCopy ==
    ASSUME PartsInv, NEW i \in 1..Len(stream), NEW m, S!EventOf(m) = Key(stream[i]), m.copy = 1
    PROVE  Delivered(m)
<1> DEFINE I == {j \in 1..Len(stream) : Key(stream[j]) = S!EventOf(m)}
<1>1. Len(stream) \in Nat
  BY DEF PartsInv, RP!IInv, RP!TypeOK
<1>2. IsFiniteSet(I) /\ i \in I
  <2>1. IsFiniteSet(1..Len(stream))
    BY <1>1, FS_Interval
  <2>2. IsFiniteSet(I)
    BY <2>1, FS_Subset
  <2> QED BY <2>2
<1> HIDE DEF I
<1>3. Cardinality(I) \in Nat /\ Cardinality(I) # 0
  BY <1>2, FS_CardinalityType, FS_EmptySet
<1> QED BY <1>3 DEF Delivered, I

LEMMA NothingIsLostInv == PartsInv => NothingIsLost
<1> SUFFICES ASSUME PartsInv, NEW e \in published, Key(e) \notin processed
             PROVE  \E c \in 1..MaxCopies :
                       LET m == [agg |-> e.agg, ver |-> e.ver, copy |-> c]
                       IN  Delivered(m) /\ m \notin acked
  BY DEF NothingIsLost
<1> DEFINE m == [agg |-> e.agg, ver |-> e.ver, copy |-> 1]
<1>1. 1 \in 1..MaxCopies
  BY PipelineBounds DEF MaxCopies
<1>2. PICK i \in 1..Len(stream) : stream[i] = e
  BY DEF PartsInv, RP!IInv, RP!PublishedIsDelivered, RP!HasTopic, RP!Elements
<1>3. S!EventOf(m) = Key(e) /\ SP!EventOf(m) = Key(e) /\ m.copy = 1
  BY DEF S!EventOf, SP!EventOf, Key
<1>4. m \notin acked
  BY <1>3 DEF PartsInv, SP!AckIInv, SP!AckedIsProcessed
<1> HIDE DEF m
<1>5. Delivered(m)
  BY <1>2, <1>3, FirstCopy
<1> QED BY <1>1, <1>4, <1>5 DEF m

\* End to end no event is lost: the relays mark a row only after the broker has its event, and the
\* subscriber acknowledges a message only after its event is recorded; so an event that is marked
\* and not recorded has a copy that is still to be delivered.
THEOREM NoEventIsLostOnTheWay == Spec => []NothingIsLost
BY PartsInductive, NothingIsLostInv, PTL

---------------------------------------------------------------------------
(* The inductive invariant of the composition.                             *)

LogRow == [agg : Aggregates, ver : 1..MaxVersion, kind : {"Created", "Updated"}, data : Prices]

\* event_store has one row per version, and the outbox has the same events.
LogShape ==
    /\ log \subseteq LogRow
    /\ \A e, f \in log : Key(e) = Key(f) => e = f
    /\ {Key(e) : e \in log} = {Key(e) : e \in outbox}

\* The subscriber has only what the stream delivers.
OnlyDelivered ==
    /\ \A m \in acked : Delivered(m)
    /\ \A w \in Workers : \A i \in 1..Len(msgs[w]) : Delivered(msgs[w][i])

\* A row of product_views has the price of the event whose version it has.
RowsShowEvents ==
    /\ price \in [Aggregates -> Nat]
    /\ \A a \in Aggregates :
          IF view[a] = 0 THEN price[a] = 0
          ELSE \E e \in log : e.agg = a /\ e.ver = view[a] /\ price[a] = IntColumn(e.data)

PipelineInv == LogShape /\ OnlyDelivered /\ RowsShowEvents

---------------------------------------------------------------------------
(* The log.                                                                *)

\* What a command appends has new keys.
LEMMA CommitAppends ==
    ASSUME LogShape, NEW a \in Aggregates, Commit(a)
    PROVE  LogShape' /\ log \subseteq log'
<1>1. PICK v \in 0..MaxVersion, n \in 1..MaxChanges : \E s \in [1..n -> Log!Entry] :
           Log!Append(a, v, n, s)
  BY DEF Commit
<1>2. PICK s \in [1..n -> Log!Entry] : Log!Append(a, v, n, s)
  BY <1>1
<1> DEFINE row(i) == [agg |-> a, ver |-> v + i, kind |-> s[i].kind, data |-> s[i].data]
<1>3. /\ log' = log \cup {row(i) : i \in 1..n}
      /\ \A e \in log : e.agg = a => e.ver <= v
      /\ v + n <= MaxVersion
  BY <1>2 DEF Log!Append, Log!LastVersion
<1>4. v \in Nat /\ n \in Nat /\ MaxVersion \in Nat
  BY <1>1, PipelineBounds
<1>5. \A i \in 1..n : row(i) \in LogRow
  BY <1>2, <1>3, <1>4 DEF LogRow, Log!Entry
<1>6. \A i \in 1..n : Key(row(i)) = [agg |-> a, ver |-> v + i]
  BY DEF Key
<1>7. \A e \in log : Key(e).agg = e.agg /\ Key(e).ver = e.ver /\ e.ver \in Nat
  BY <1>4 DEF Key, LogShape, LogRow
<1> HIDE DEF row
<1>8. \A e \in log, i \in 1..n : Key(e) # Key(row(i))
  BY <1>3, <1>4, <1>6, <1>7
<1>9. \A i, j \in 1..n : Key(row(i)) = Key(row(j)) => i = j
  BY <1>4, <1>6
<1>10. \A e, f \in log' : Key(e) = Key(f) => e = f
  BY <1>3, <1>8, <1>9 DEF LogShape
<1>11. {Key(e) : e \in log'} = {Key(e) : e \in outbox'}
  BY DEF Commit
<1>12. log' \subseteq LogRow
  BY <1>3, <1>5 DEF LogShape
<1> QED BY <1>3, <1>10, <1>11, <1>12 DEF LogShape, Key

\* Nobody else writes the store or the outbox.
LEMMA LogStep ==
    ASSUME LogShape, [Next]_vars
    PROVE  LogShape' /\ log \subseteq log'
<1>1. CASE \E a \in Aggregates : Commit(a)
  BY <1>1, CommitAppends
<1>2. CASE ~\E a \in Aggregates : Commit(a)
  <2>1. UNCHANGED <<log, outbox>>
    <3>1. CASE \E r \in Relays : RelayWorks(r) \/ RelayFails(r)
      BY <3>1 DEF RelayWorks, RelayFails, R!Work, R!FetchAndLock, R!Publish, R!Skip,
                  R!MarkAsPublished, R!BatchFails, R!PublishReplyLost, R!Roll
    <3>2. CASE ~\E r \in Relays : RelayWorks(r) \/ RelayFails(r)
      BY <1>2, <3>2 DEF Next, GetProductByID, Fetch, SubscriberWorks, SubscriberFails, ProjectView,
                        ViewWriteFails, relayVars, vars
    <3> QED BY <3>1, <3>2
  <2> QED BY <2>1 DEF LogShape, Key
<1> QED BY <1>1, <1>2

---------------------------------------------------------------------------
(* The messages.                                                           *)

\* Relay r sends a message, and may learn of it or not.
Sends(r) == R!Publish(r) \/ R!PublishReplyLost(r)

\* The stream only grows at its end.
LEMMA StreamStep ==
    ASSUME PartsInv, [Next]_vars
    PROVE  /\ Len(stream) \in Nat /\ Len(stream') \in Nat /\ Len(stream) <= Len(stream')
           /\ \A i \in 1..Len(stream) : stream'[i] = stream[i]
<1>1. stream \in Seq(outbox)
  BY DEF PartsInv, RP!IInv, RP!TypeOK
<1>2. CASE \E r \in Relays : Sends(r)
  <2>1. PICK r \in Relays : Sends(r)
    BY <1>2
  <2>2. batch[r][next[r] + 1] \in outbox /\ stream' = Append(stream, batch[r][next[r] + 1])
    <3>1. RP!Sending(r) /\ stream' = Append(stream, batch[r][next[r] + 1])
      BY <2>1 DEF Sends, R!Publish, R!PublishReplyLost, R!Sending, R!HasTopic, RP!Sending, RP!HasTopic
    <3>2. batch[r][next[r] + 1] \in outbox
      BY <3>1, PartsAssumed, RP!SendingFacts DEF PartsInv
    <3> QED BY <3>1, <3>2
  <2>3. /\ Len(stream') = Len(stream) + 1
        /\ \A i \in 1..Len(stream) : stream'[i] = stream[i]
    BY <1>1, <2>2, AppendProperties
  <2> QED BY <1>1, <2>3
<1>3. CASE ~\E r \in Relays : Sends(r)
  <2>1. stream' = stream
    <3>1. CASE \E r \in Relays : RelayWorks(r) \/ RelayFails(r)
      BY <1>3, <3>1 DEF Sends, RelayWorks, RelayFails, R!Work, R!FetchAndLock, R!Skip,
                        R!MarkAsPublished, R!BatchFails
    <3>2. CASE \E a \in Aggregates : Commit(a)
      BY <3>2 DEF Commit, R!SaveEvents
    <3>3. CASE ~(\E r \in Relays : RelayWorks(r) \/ RelayFails(r)) /\ ~\E a \in Aggregates : Commit(a)
      BY <3>3 DEF Next, GetProductByID, Fetch, SubscriberWorks, SubscriberFails, ProjectView,
                  ViewWriteFails, relayVars, vars
    <3> QED BY <3>1, <3>2, <3>3
  <2> QED BY <1>1, <2>1
<1> QED BY <1>2, <1>3

\* A stream s has the message m.
DeliveredIn(m, s) == Cardinality({i \in 1..Len(s) : Key(s[i]) = S!EventOf(m)}) >= m.copy

\* What is delivered stays delivered, and is an event of the log.
LEMMA DeliveredStays ==
    ASSUME PartsInv, [Next]_vars, NEW m, m.copy \in Nat, DeliveredIn(m, stream)
    PROVE  DeliveredIn(m, stream')
<1> DEFINE I == {i \in 1..Len(stream) : Key(stream[i]) = S!EventOf(m)}
           J == {i \in 1..Len(stream') : Key(stream'[i]) = S!EventOf(m)}
<1>1. /\ Len(stream) \in Nat /\ Len(stream') \in Nat /\ Len(stream) <= Len(stream')
      /\ \A i \in 1..Len(stream) : stream'[i] = stream[i]
  BY StreamStep
<1>2. IsFiniteSet(J)
  <2>1. IsFiniteSet(1..Len(stream'))
    BY <1>1, FS_Interval
  <2> QED BY <2>1, FS_Subset
<1>3. I \subseteq J
  BY <1>1
<1>4. Cardinality(I) >= m.copy
  BY DEF DeliveredIn
<1>5. DeliveredIn(m, stream') <=> Cardinality(J) >= m.copy
  BY DEF DeliveredIn
<1> HIDE DEF I, J
<1>6. Cardinality(I) \in Nat /\ Cardinality(J) \in Nat /\ Cardinality(I) <= Cardinality(J)
  BY <1>2, <1>3, FS_Subset, FS_CardinalityType
<1> QED BY <1>4, <1>5, <1>6

LEMMA DeliveredIsLogged ==
    ASSUME PartsInv, LogShape, NEW m \in S!Message, Delivered(m)
    PROVE  \E e \in log : Key(e) = S!EventOf(m)
<1> DEFINE I == {i \in 1..Len(stream) : Key(stream[i]) = S!EventOf(m)}
<1>1. Cardinality(I) >= m.copy /\ m.copy \in Nat \ {0}
  BY PipelineBounds DEF Delivered, S!Message, MaxCopies
<1>2. I # {}
  BY <1>1, FS_EmptySet
<1>3. PICK i \in 1..Len(stream) : Key(stream[i]) = S!EventOf(m)
  BY <1>2
<1>4. stream[i] \in outbox
  BY DEF PartsInv, RP!IInv, RP!TypeOK
<1> QED BY <1>3, <1>4 DEF LogShape

\* The types of the subscriber's messages.
LEMMA MessageTypes ==
    ASSUME PartsInv
    PROVE  /\ SP!TypeOK /\ S!Message = SP!Message /\ acked \subseteq S!Message
           /\ \A w \in Workers : /\ msgs[w] \in Seq(S!Message)
                                 /\ \A i \in 1..Len(msgs[w]) : msgs[w][i] \in S!Message
           /\ \A m \in S!Message : m.copy \in Nat
<1>1. SP!TypeOK /\ S!Message = SP!Message
  BY DEF PartsInv, SP!AckIInv, SP!ReadSideTypeOK, S!Message, SP!Message
<1>2. \A m \in S!Message : m.copy \in Nat
  BY PipelineBounds DEF S!Message, MaxCopies
<1> QED BY <1>1, <1>2 DEF SP!TypeOK

\* The subscriber fetches, drops and acknowledges delivered messages only.
LEMMA OnlyDeliveredStep ==
    ASSUME PartsInv, PartsInv', OnlyDelivered, [Next]_vars
    PROVE  OnlyDelivered'
<1>0. PICK w \in Workers : Workers = {w}
  BY PipelineAssumption
<1>1. \A m \in S!Message : DeliveredIn(m, stream) => DeliveredIn(m, stream')
  BY MessageTypes, DeliveredStays
<1>2. \A i \in 1..Len(msgs[w]) : DeliveredIn(msgs[w][i], stream')
  BY <1>0, <1>1, MessageTypes DEF OnlyDelivered, Delivered, DeliveredIn
<1>3. \A m \in acked : DeliveredIn(m, stream')
  BY <1>1, MessageTypes DEF OnlyDelivered, Delivered, DeliveredIn
<1> DEFINE Goal == /\ \A m \in acked' : DeliveredIn(m, stream')
                   /\ \A i \in 1..Len(msgs'[w]) : DeliveredIn(msgs'[w][i], stream')
<1> SUFFICES Goal
  BY <1>0 DEF OnlyDelivered, Delivered, DeliveredIn, Key, S!EventOf
<1>4. ASSUME NEW m \in S!Message, Fetch(w, m) PROVE Goal
  <2>1. /\ UNCHANGED <<acked, stream>>
        /\ \A i \in 1..Len(msgs'[w]) : DeliveredIn(msgs'[w][i], stream)
    BY <1>4 DEF Fetch, S!Fetch, relayVars, Delivered, DeliveredIn
  <2> QED BY <1>3, <2>1
<1>5. CASE SubscriberWorks(w) \/ SubscriberFails(w)
  <2>1. SP!Proceed(w) \/ SP!Fails(w)
    BY <1>5, ReadSideActions DEF SubscriberWorks, SubscriberFails
  <2>2. SP!ReadSideStep(w) /\ SP!AckIsEarned(w)
    BY <1>5, <2>1 DEF SP!ReadSideStep, SubscriberWorks, SubscriberFails, PartsInv, SP!AckIInv
  <2>3. msgs'[w] \in {msgs[w], Tail(msgs[w]), <<>>}
    BY <2>1, MessageTypes, PartsAssumed, SP!MessagesShrink
  <2>4. \A i \in 1..Len(msgs'[w]) : DeliveredIn(msgs'[w][i], stream')
    <3>1. msgs[w] \in Seq(S!Message)
      BY MessageTypes
    <3>2. CASE msgs'[w] = msgs[w]
      BY <1>2, <3>2
    <3>3. CASE msgs'[w] = <<>>
      BY <3>3, Len(<<>>) = 0
    <3>4. CASE msgs[w] # <<>> /\ msgs'[w] = Tail(msgs[w])
      <4>1. /\ Len(msgs'[w]) = Len(msgs[w]) - 1 /\ Len(msgs[w]) \in Nat
            /\ \A i \in 1..Len(msgs'[w]) : msgs'[w][i] = msgs[w][i + 1]
        BY <3>1, <3>4, HeadTailProperties
      <4> QED BY <1>2, <4>1
    <3>5. CASE msgs[w] = <<>> /\ msgs'[w] = Tail(msgs[w])
      BY <3>1, <3>5, EmptySeq
    <3> QED BY <2>3, <3>2, <3>3, <3>4, <3>5
  <2>5. \A m \in acked' : DeliveredIn(m, stream')
    <3>1. acked' = acked \/ (pc[w] = "ack" /\ acked' = acked \cup {SP!Msg(w)})
      BY <2>2, MessageTypes, PartsAssumed, SP!AckFacts
    <3>2. pc[w] = "ack" => DeliveredIn(SP!Msg(w), stream')
      <4>1. pc[w] = "ack" => msgs[w] # <<>>
        BY MessageTypes DEF SP!TypeOK
      <4>2. msgs[w] \in Seq(S!Message)
        BY MessageTypes
      <4>3. pc[w] = "ack" => SP!Msg(w) = msgs[w][1] /\ 1 \in 1..Len(msgs[w])
        BY <4>1, <4>2, HeadTailProperties DEF SP!Msg
      <4> QED BY <1>2, <4>3
    <3> QED BY <1>3, <3>1, <3>2
  <2> QED BY <2>4, <2>5
<1>6. CASE UNCHANGED <<acked, msgs>>
  BY <1>2, <1>3, <1>6
<1>7. ASSUME ~UNCHANGED <<acked, msgs>>, ~(SubscriberWorks(w) \/ SubscriberFails(w))
      PROVE  \E m \in S!Message : Fetch(w, m)
  BY <1>0, <1>7 DEF Next, Commit, GetProductByID, RelayWorks, RelayFails, ProjectView,
                    ViewWriteFails, S!HandleProductEvent, S!ErrorOnlyLogged, subscriberVars, vars
<1> QED BY <1>4, <1>5, <1>6, <1>7

---------------------------------------------------------------------------
(* The view.                                                               *)

\* What the repository writes: the version and the price of the event of the log that follows the
\* one the row shows.  Nothing is written where there is no row to update.
LEMMA ProjectFacts ==
    ASSUME PartsInv, LogShape, OnlyDelivered, NEW w \in Workers, ProjectView(w)
    PROVE  /\ UNCHANGED <<log, seen>>
           /\ \/ UNCHANGED <<view, price>>
              \/ \E f \in log : /\ f.agg \in Aggregates /\ f.ver = view[f.agg] + 1
                                /\ view' = [view EXCEPT ![f.agg] = f.ver]
                                /\ price' = [price EXCEPT ![f.agg] = IntColumn(f.data)]
<1> DEFINE e == S!Evt(w)
<1>1. /\ pc[w] = "handler" /\ UNCHANGED <<log, seen>>
      /\ view' = IF S!Created(e) \/ view[e.agg] > 0 THEN [view EXCEPT ![e.agg] = e.ver] ELSE view
      /\ price' = IF S!Created(e) \/ view[e.agg] > 0
                  THEN [price EXCEPT ![e.agg] = IntColumn(PriceOf(e))] ELSE price
  BY DEF ProjectView, S!HandleProductEvent, S!WriteProductView
<1>2. msgs[w] \in Seq(S!Message) /\ msgs[w] # <<>>
  BY <1>1, MessageTypes DEF SP!TypeOK
<1>3. S!Msg(w) = msgs[w][1] /\ 1 \in 1..Len(msgs[w])
  BY <1>2, HeadTailProperties DEF S!Msg
<1>4. S!Msg(w) \in S!Message /\ Delivered(S!Msg(w))
  BY <1>3, MessageTypes DEF OnlyDelivered
<1>5. PICK f \in log : Key(f) = e
  BY <1>4, DeliveredIsLogged DEF S!Evt
<1>6. f \in LogRow
  BY DEF LogShape
<1>7. f.agg = e.agg /\ f.ver = e.ver /\ f.agg \in Aggregates /\ f.ver \in Nat
  BY <1>5, <1>6, PipelineBounds DEF Key, LogRow
<1>8. PriceOf(e) = f.data
  <2>1. Key(e) = e
    BY <1>5 DEF Key
  <2>2. \A g \in log : Key(g) = Key(e) <=> g = f
    BY <1>5, <2>1 DEF LogShape
  <2> QED BY <2>2 DEF PriceOf
<1>9. e.ver = view[e.agg] + 1
  <2>1. SP!Evt(w) = e
    BY DEF S!Evt, S!EventOf, S!Msg, SP!Evt, SP!EventOf, SP!Msg
  <2>2. SP!ReadIsCurrent(w)
    BY DEF PartsInv, SP!ReadSideIInv
  <2> QED BY <1>1, <2>1, <2>2 DEF SP!ReadIsCurrent
<1> HIDE DEF e
<1>10. CASE S!Created(e) \/ view[e.agg] > 0
  BY <1>1, <1>7, <1>8, <1>9, <1>10
<1>11. CASE ~(S!Created(e) \/ view[e.agg] > 0)
  BY <1>1, <1>11
<1> QED BY <1>1, <1>10, <1>11

\* Nobody else writes the view.
LEMMA ViewWriters ==
    ASSUME PartsInv, [Next]_vars
    PROVE  UNCHANGED <<view, price>> \/ \E w \in Workers : ProjectView(w)
<1>0. PICK w \in Workers : Workers = {w}
  BY PipelineAssumption
<1>1. CASE SubscriberWorks(w) \/ SubscriberFails(w)
  <2>1. (SP!Proceed(w) \/ SP!Fails(w)) /\ UNCHANGED <<lost, price>>
    BY <1>1, ReadSideActions DEF SubscriberWorks, SubscriberFails
  <2>2. view' = view
    BY <1>0, <2>1, PartsAssumed, SP!FrameworkStep DEF PartsInv
  <2> QED BY <2>1, <2>2
<1>2. ASSUME NEW m \in S!Message, Fetch(w, m) PROVE UNCHANGED <<view, price>>
  BY <1>2 DEF Fetch, S!Fetch
<1>3. CASE ViewWriteFails(w)
  BY <1>3 DEF ViewWriteFails, S!ErrorOnlyLogged
<1>4. CASE \/ \E a \in Aggregates : Commit(a) \/ GetProductByID(a)
           \/ \E r \in Relays : RelayWorks(r) \/ RelayFails(r)
           \/ UNCHANGED vars
  BY <1>4 DEF Commit, GetProductByID, RelayWorks, RelayFails, vars, subscriberVars
<1> QED BY <1>0, <1>1, <1>2, <1>3, <1>4 DEF Next

\* A price that is stored is a number.
LEMMA ColumnTyped ==
    ASSUME NEW p \in Prices
    PROVE  IntColumn(p) \in Nat
<1>1. p \in Nat
  BY PipelineAssumption
<1>2. p \div 100 \in Nat
  BY <1>1
<1> QED BY <1>2 DEF IntColumn

LEMMA RowsStep ==
    ASSUME PartsInv, PipelineInv, [Next]_vars
    PROVE  RowsShowEvents'
<1>0. LogShape /\ OnlyDelivered /\ RowsShowEvents
  BY DEF PipelineInv
<1>1. log \subseteq log'
  BY <1>0, LogStep
<1>2. CASE UNCHANGED <<view, price>>
  BY <1>0, <1>1, <1>2 DEF RowsShowEvents, IntColumn
<1>3. ASSUME NEW w \in Workers, ProjectView(w), ~UNCHANGED <<view, price>>
      PROVE  RowsShowEvents'
  <2>1. PICK f \in log : /\ f.agg \in Aggregates /\ f.ver = view[f.agg] + 1
                         /\ view' = [view EXCEPT ![f.agg] = f.ver]
                         /\ price' = [price EXCEPT ![f.agg] = IntColumn(f.data)]
    BY <1>0, <1>3, ProjectFacts
  <2>2. view \in [Aggregates -> Nat]
    BY MessageTypes, PipelineBounds DEF SP!TypeOK
  <2>3. IntColumn(f.data) \in Nat
    BY <1>0, ColumnTyped DEF LogShape, LogRow
  <2>4. price' \in [Aggregates -> Nat]
    BY <1>0, <2>1, <2>3 DEF RowsShowEvents
  <2>5. ASSUME NEW a \in Aggregates
        PROVE  IF view'[a] = 0 THEN price'[a] = 0
               ELSE \E e \in log' : e.agg = a /\ e.ver = view'[a] /\ price'[a] = IntColumn(e.data)
    <3>1. CASE a = f.agg
      <4>1. view'[a] = f.ver /\ f.ver # 0 /\ price'[a] = IntColumn(f.data)
        BY <1>0, <2>1, <2>2, <3>1 DEF RowsShowEvents
      <4> QED BY <1>1, <3>1, <4>1
    <3>2. CASE a # f.agg
      <4>1. view'[a] = view[a] /\ price'[a] = price[a]
        BY <1>0, <2>1, <2>2, <3>2 DEF RowsShowEvents
      <4> QED BY <1>0, <1>1, <4>1 DEF RowsShowEvents
    <3> QED BY <3>1, <3>2
  <2> QED BY <2>4, <2>5 DEF RowsShowEvents, IntColumn
<1> QED BY <1>2, <1>3, ViewWriters

---------------------------------------------------------------------------
(* The theorems.                                                           *)

LEMMA PipelineInitInv == Init => PipelineInv
<1> SUFFICES ASSUME Init PROVE PipelineInv
  OBVIOUS
<1>1. /\ log = {} /\ outbox = {} /\ acked = {} /\ view = [a \in Aggregates |-> 0]
      /\ price = [a \in Aggregates |-> 0] /\ \A w \in Workers : msgs[w] = <<>>
  BY DEF Init, Log!Init, R!Init, S!ReadSideInit, S!Init
<1>2. LogShape
  BY <1>1 DEF LogShape
<1>3. OnlyDelivered
  BY <1>1, Len(<<>>) = 0 DEF OnlyDelivered
<1>4. RowsShowEvents
  BY <1>1 DEF RowsShowEvents
<1> QED BY <1>2, <1>3, <1>4 DEF PipelineInv

\* The invariant of the composition.
THEOREM PipelineInductive == Spec => [](PartsInv /\ PipelineInv)
<1>1. PartsInv /\ PartsInv' /\ PipelineInv /\ [Next]_vars => PipelineInv'
  BY LogStep, OnlyDeliveredStep, RowsStep DEF PipelineInv
<1> QED BY <1>1, PipelineInitInv, PartsInductive, PTL DEF Spec

LEMMA PipelineTyped == PartsInv /\ PipelineInv => PipelineTypeOK
<1> SUFFICES ASSUME PartsInv, PipelineInv PROVE PipelineTypeOK
  OBVIOUS
<1>1. R!TypeOK
  BY DEF PartsInv, RP!IInv, R!TypeOK, RP!TypeOK, R!Row, RP!Row
<1>2. S!ReadSideTypeOK
  BY DEF PartsInv, SP!AckIInv, S!ReadSideTypeOK, SP!ReadSideTypeOK, S!TypeOK, SP!TypeOK,
         S!Message, SP!Message, S!Event, SP!Event
<1>3. \A m \in acked : Delivered(m)
  BY DEF PipelineInv, OnlyDelivered
<1>4. \A a \in Aggregates : price[a] \in {IntColumn(p) : p \in Prices} \cup {0}
  BY DEF PipelineInv, RowsShowEvents, LogShape, LogRow
<1> QED BY <1>1, <1>2, <1>3, <1>4 DEF PipelineTypeOK

\* The parts keep their types in the composition, the subscriber acknowledges only what the stream
\* has delivered, and a stored price is one the INT column makes of a command's.
THEOREM PipelineTypeCorrect == Spec => []PipelineTypeOK
BY PipelineInductive, PipelineTyped, PTL

---------------------------------------------------------------------------
(* The refinement of CQRS.                                                 *)

\* An event of the log as CQRS sees it.
Rounded(e) == [agg |-> e.agg, ver |-> e.ver, kind |-> e.kind, data |-> IntColumn(e.data)]

LEMMA RoundedFacts ==
    ASSUME NEW L \in SUBSET LogRow
    PROVE  {[e EXCEPT !.data = IntColumn(e.data)] : e \in L} = {Rounded(e) : e \in L}
<1>1. \A e \in LogRow : [e EXCEPT !.data = IntColumn(e.data)] = Rounded(e)
  BY DEF LogRow, Rounded
<1> QED BY <1>1

\* A command appends the rounded events to the rounded log.
LEMMA CommitIsCommand ==
    ASSUME LogShape, NEW a \in Aggregates, Commit(a)
    PROVE  CQRSSpec!Next
<1>1. PICK v \in 0..MaxVersion, n \in 1..MaxChanges : \E s \in [1..n -> Log!Entry] :
           Log!Append(a, v, n, s)
  BY DEF Commit
<1>2. PICK s \in [1..n -> Log!Entry] : Log!Append(a, v, n, s)
  BY <1>1
<1> DEFINE row(i) == [agg |-> a, ver |-> v + i, kind |-> s[i].kind, data |-> s[i].data]
           t == [i \in 1..n |-> [kind |-> s[i].kind, data |-> IntColumn(s[i].data)]]
           new(i) == [agg |-> a, ver |-> v + i, kind |-> t[i].kind, data |-> t[i].data]
           L == {[e EXCEPT !.data = IntColumn(e.data)] : e \in log}
           M == {[e EXCEPT !.data = IntColumn(e.data)] : e \in log'}
<1>3. /\ log' = log \cup {row(i) : i \in 1..n}
      /\ \A e \in log : e.agg = a => e.ver <= v
      /\ v = 0 \/ \E e \in log : e.agg = a /\ e.ver = v
      /\ v + n <= MaxVersion
      /\ \A i \in 1..n : s[i].kind = "Created" => v + i = 1
  BY <1>2 DEF Log!Append, Log!LastVersion
<1>4. log \subseteq LogRow /\ log' \subseteq LogRow
  BY CommitAppends DEF LogShape
<1>5. L = {Rounded(e) : e \in log} /\ M = {Rounded(e) : e \in log'}
  BY <1>4, RoundedFacts
<1>6. t \in [1..n -> CQRSSpec!Entry]
  BY <1>2 DEF Log!Entry, CQRSSpec!Entry
<1>7. \A i \in 1..n : Rounded(row(i)) = new(i) /\ t[i].kind = s[i].kind
  BY DEF Rounded
<1>8. \A e \in log : Rounded(e).agg = e.agg /\ Rounded(e).ver = e.ver
  BY DEF Rounded
<1> HIDE DEF row, t, new, L, M
<1>9. M = L \cup {new(i) : i \in 1..n}
  BY <1>3, <1>5, <1>7
<1>10. /\ \A e \in L : e.agg = a => e.ver <= v
       /\ v = 0 \/ \E e \in L : e.agg = a /\ e.ver = v
  BY <1>3, <1>5, <1>8
<1>11. CQRSSpec!LastVersion(a, v)
  BY <1>10 DEF CQRSSpec!LastVersion, L
<1>12. CQRSSpec!Append(a, v, n, t)
  BY <1>3, <1>7, <1>9, <1>11 DEF CQRSSpec!Append, new, L, M, IntColumn
<1> QED BY <1>6, <1>12 DEF CQRSSpec!Next

\* A view write shows the event of the stream that follows the one shown before.
LEMMA ProjectViewIsProject ==
    ASSUME PartsInv, PipelineInv, NEW w \in Workers, ProjectView(w), ~UNCHANGED <<view, price>>
    PROVE  \E a \in Aggregates : CQRSSpec!Project(a)
<1>1. LogShape /\ OnlyDelivered /\ price \in [Aggregates -> Nat]
  BY DEF PipelineInv, RowsShowEvents
<1>2. PICK f \in log : /\ f.agg \in Aggregates /\ f.ver = view[f.agg] + 1
                       /\ view' = [view EXCEPT ![f.agg] = f.ver]
                       /\ price' = [price EXCEPT ![f.agg] = IntColumn(f.data)]
  BY <1>1, ProjectFacts
<1>3. UNCHANGED <<log, seen>>
  BY <1>1, ProjectFacts
<1>4. view \in [Aggregates -> Nat]
  BY MessageTypes, PipelineBounds DEF SP!TypeOK
<1> DEFINE V == [a \in Aggregates |-> Row(a)]
           W == [a \in Aggregates |-> IF view'[a] = 0 THEN NoView
                                      ELSE [ver |-> view'[a], price |-> price'[a]]]
           L == {[e EXCEPT !.data = IntColumn(e.data)] : e \in log}
<1>5. Rounded(f) \in L
  BY <1>1, RoundedFacts DEF LogShape
<1>6. Rounded(f).agg = f.agg /\ Rounded(f).ver = f.ver /\ Rounded(f).data = IntColumn(f.data)
  BY DEF Rounded
<1>7. CQRSSpec!Shown(f.agg) = view[f.agg]
  <2>1. CASE view[f.agg] = 0
    BY <1>2, <2>1 DEF CQRSSpec!Shown, Row
  <2>2. CASE view[f.agg] # 0
    <3>1. V[f.agg] = [ver |-> view[f.agg], price |-> price[f.agg]]
      BY <1>2, <2>2 DEF Row
    <3>2. V[f.agg] \in [ver : Nat, price : Nat]
      BY <1>1, <1>2, <1>4, <3>1
    <3>3. V[f.agg] # NoView
      BY <3>2, PipelineAssumption
    <3> QED BY <3>1, <3>3 DEF CQRSSpec!Shown
  <2> QED BY <2>1, <2>2
<1>8. W = [V EXCEPT ![f.agg] = [ver |-> f.ver, price |-> IntColumn(f.data)]]
  <2>1. ASSUME NEW a \in Aggregates, a # f.agg PROVE W[a] = V[a]
    BY <1>1, <1>2, <1>4, <2>1 DEF Row
  <2>2. W[f.agg] = [ver |-> f.ver, price |-> IntColumn(f.data)]
    <3>1. view'[f.agg] = f.ver /\ f.ver # 0 /\ price'[f.agg] = IntColumn(f.data)
      BY <1>1, <1>2, <1>4
    <3> QED BY <1>2, <3>1
  <2>3. V = [a \in Aggregates |-> V[a]] /\ W = [a \in Aggregates |-> W[a]]
    OBVIOUS
  <2> HIDE DEF V, W
  <2> QED BY <2>1, <2>2, <2>3
<1>9. W = [V EXCEPT ![f.agg] = [ver |-> Rounded(f).ver, price |-> Rounded(f).data]]
  BY <1>6, <1>8
<1> HIDE DEF V, W, L
<1>10. /\ Rounded(f) \in L /\ Rounded(f).agg = f.agg
       /\ Rounded(f).ver = CQRSSpec!Shown(f.agg) + 1
  BY <1>2, <1>5, <1>6, <1>7
<1>11. CQRSSpec!Project(f.agg)
  BY <1>3, <1>9, <1>10 DEF CQRSSpec!Project, V, W, L, Row, IntColumn
<1> QED BY <1>2, <1>11

LEMMA CQRSStep ==
    ASSUME PartsInv, PipelineInv, [Next]_vars
    PROVE  [CQRSSpec!CQRSNext]_(CQRSSpec!cqrsVars)
<1>0. LogShape
  BY DEF PipelineInv
<1>1. ASSUME UNCHANGED <<log, view, price, seen>> PROVE UNCHANGED CQRSSpec!cqrsVars
  BY <1>1 DEF CQRSSpec!cqrsVars, Row, IntColumn
<1>2. ASSUME NEW a \in Aggregates, Commit(a) PROVE CQRSSpec!CQRSNext
  <2>1. UNCHANGED <<view, price, seen>>
    BY <1>2 DEF Commit, subscriberVars
  <2>2. CQRSSpec!Next
    BY <1>0, <1>2, CommitIsCommand
  <2> QED BY <2>1, <2>2 DEF CQRSSpec!CQRSNext, CQRSSpec!Command, Row
<1>3. ASSUME NEW a \in Aggregates, GetProductByID(a) PROVE CQRSSpec!CQRSNext
  <2>1. UNCHANGED <<log, view, price>> /\ seen' = [seen EXCEPT ![a] = Row(a)]
    BY <1>3 DEF GetProductByID, subscriberVars
  <2>2. CQRSSpec!Query(a)
    BY <2>1 DEF CQRSSpec!Query, Row, IntColumn
  <2> QED BY <2>2 DEF CQRSSpec!CQRSNext
<1>4. ASSUME NEW w \in Workers, ProjectView(w), ~UNCHANGED <<view, price>>
      PROVE  CQRSSpec!CQRSNext
  BY <1>4, ProjectViewIsProject DEF CQRSSpec!CQRSNext
<1>5. ASSUME ~\E a \in Aggregates : Commit(a) \/ GetProductByID(a)
      PROVE  UNCHANGED <<log, seen>>
  BY <1>5 DEF Next, RelayWorks, RelayFails, Fetch, SubscriberWorks, SubscriberFails, ProjectView,
              ViewWriteFails, vars
<1> QED BY <1>1, <1>2, <1>3, <1>4, <1>5, ViewWriters

\* The application implements CQRS, for any number of relays, products and prices and whatever the
\* relays and the broker repeat, reorder or fail to do: a view goes through the versions of its
\* stream one by one and has the data of each, so a query never goes back in time.
THEOREM RefinesCQRS == Spec => ImplementsCQRS
<1>1. Init => CQRSSpec!CQRSInit
  <2> SUFFICES ASSUME Init PROVE CQRSSpec!CQRSInit
    OBVIOUS
  <2>1. /\ log = {} /\ view = [a \in Aggregates |-> 0] /\ seen = [a \in Aggregates |-> NoView]
    BY DEF Init, Log!Init, S!ReadSideInit, S!Init
  <2>2. [a \in Aggregates |-> Row(a)] = [a \in Aggregates |-> NoView]
    BY <2>1 DEF Row
  <2> QED BY <2>1, <2>2 DEF CQRSSpec!CQRSInit, CQRSSpec!Init
<1>2. PartsInv /\ PipelineInv /\ [Next]_vars => [CQRSSpec!CQRSNext]_(CQRSSpec!cqrsVars)
  BY CQRSStep
<1> QED BY <1>1, <1>2, PipelineInductive, PTL DEF Spec, ImplementsCQRS, CQRSSpec!CQRSSpec
===========================================================================
