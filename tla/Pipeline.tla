----------------------------- MODULE Pipeline -----------------------------
(***************************************************************************)
(* The sample application as sample/main.go wires it: commands commit      *)
(* events, relays publish them, one subscriber projects them into          *)
(* product_views, and clients query the view.                              *)
(*                                                                         *)
(* The write side is module EventLog, which EventStore implements; the     *)
(* relays are module Relay, and the subscriber is module ProductReadSide,  *)
(* which fetches what the relays have put in the stream.  Clients send     *)
(* commands and queries at any time, so that the relays can overtake each  *)
(* other with the events of one product.                                   *)
(***************************************************************************)
EXTENDS Integers, Sequences, FiniteSets

CONSTANTS
    Relays, Workers,   \* main starts three relays and one subscriber
    Aggregates,        \* product ids
    Prices,            \* the prices of commands, in hundredths
    MaxPrice,          \* the largest value of the INT column price
    NoView,            \* ErrorProductNotFound
    BatchSize,         \* NewRelay's batchSize
    FetchSize,         \* bound: messages fetched at once
    MaxVersion,        \* bound: events per product
    MaxChanges,        \* bound: events per command
    MaxTs,             \* bound: distinct timestamps
    MaxRelayFailures,  \* bound: batches that fail
    MaxReadFailures,   \* bound: failing calls, lost acks and crashes of the subscriber
    MaxSilent,         \* bound: view writes that fail although the price fits the column
    Orphans            \* products whose first event is an update

ASSUME PipelineAssumption ==
    /\ Prices \subseteq Nat \ {0} /\ MaxPrice \in Nat /\ Orphans \subseteq Aggregates
    /\ \E w \in Workers : Workers = {w}
    /\ NoView \notin [ver : Nat, price : Nat]
ASSUME PipelineBounds ==
    /\ BatchSize \in Nat \ {0} /\ FetchSize \in Nat \ {0} /\ IsFiniteSet(Aggregates)
    /\ MaxVersion \in Nat /\ MaxChanges \in Nat /\ MaxTs \in Nat
    /\ MaxRelayFailures \in Nat /\ MaxReadFailures \in Nat

VARIABLES
    log,                                                      \* event_store
    outbox, published, hasStream, stream, batch, next,        \* of Relay
    running, quit, cancelled, relayFailures, undone,
    acked, processed, view, msgs, pc, cur, tx, readFailures,  \* of ProductReadSide
    lost,
    price,                                                    \* price[a]: column price of the row of a
    seen                                                      \* seen[a]: what the last query of a returned

relayVars == <<outbox, published, hasStream, stream, batch, next, running, quit, cancelled,
               relayFailures, undone>>
subscriberVars == <<acked, processed, view, msgs, pc, cur, tx, readFailures, lost>>
vars == <<log, relayVars, subscriberVars, price, seen>>

\* A rolled back batch leaves one more copy of its events in the stream.
MaxCopies == MaxRelayFailures + 1

Log == INSTANCE EventLog WITH Products <- Prices
R == INSTANCE Relay WITH Untyped <- {}, MaxFailures <- MaxRelayFailures,
                         failures <- relayFailures
S == INSTANCE ProductReadSide WITH Copies <- 1..MaxCopies, MaxFailures <- MaxReadFailures,
                                   MaxSilent <- MaxVersion * Cardinality(Aggregates),
                                   failures <- readFailures

---------------------------------------------------------------------------
(* A parameter of type float64 for an INT column: the fraction is cut off, *)
(* and a value outside the column's range is an error.                     *)
IntColumn(p) == (p \div 100) * 100
Storable(p) == p \div 100 <= MaxPrice

Key(e) == [agg |-> e.agg, ver |-> e.ver]
PriceOf(e) == (CHOOSE f \in log : Key(f) = Key(e)).data

\* What GetProductViewByID finds.
Row(a) == IF view[a] = 0 THEN NoView ELSE [ver |-> view[a], price |-> price[a]]

\* The stream has the message m: the m.copy-th copy of its event.
Delivered(m) ==
    Cardinality({i \in 1..Len(stream) : Key(stream[i]) = S!EventOf(m)}) >= m.copy

PipelineTypeOK ==
    /\ R!TypeOK /\ S!ReadSideTypeOK
    /\ \A m \in acked : Delivered(m)
    /\ \A a \in Aggregates : price[a] \in {IntColumn(p) : p \in Prices} \cup {0}

Init ==
    /\ Log!Init /\ R!Init /\ S!ReadSideInit
    /\ price = [a \in Aggregates |-> 0]
    /\ seen = [a \in Aggregates |-> NoView]

---------------------------------------------------------------------------
(* A command commits its events to the store and to the outbox.            *)
Commit(a) ==
    /\ R!SaveEvents(a)
    /\ \E v \in 0..MaxVersion, n \in 1..MaxChanges : \E s \in [1..n -> Log!Entry] :
           /\ \A i \in 1..n : s[i].kind = "Created" <=> v + i = 1 /\ a \notin Orphans
           /\ Log!Append(a, v, n, s)
    /\ {Key(e) : e \in log'} = {Key(e) : e \in outbox'}
    /\ UNCHANGED <<subscriberVars, price, seen>>

(* The relays of main are never stopped; BatchFails is also a crash of the *)
(* process and its restart.                                                *)
RelayWorks(r) == R!Work(r) /\ UNCHANGED <<log, subscriberVars, price, seen>>

RelayFails(r) ==
    /\ R!BatchFails(r) \/ R!PublishReplyLost(r)
    /\ UNCHANGED <<log, subscriberVars, price, seen>>

(* The subscriber fetches messages of the stream.                          *)
Fetch(w, m) ==
    /\ S!Fetch(w, m)
    /\ \A i \in 1..Len(msgs'[w]) : Delivered(msgs'[w][i])
    /\ UNCHANGED <<log, relayVars, lost, price, seen>>

SubscriberWorks(w) == S!Proceed(w) /\ UNCHANGED <<log, relayVars, lost, price, seen>>
SubscriberFails(w) == S!Fails(w) /\ UNCHANGED <<log, relayVars, lost, price, seen>>

\* MaxElapsedTime ends the retries of a transaction that aborts each time.
RetriesEnd(w) ==
    S!CommitAborted(w) /\ S!GiveUp(w) /\ UNCHANGED <<log, relayVars, lost, price, seen>>

(* The view is written: its version by module ProductReadSide, its price   *)
(* here; or the error of the statement is logged, always when the price    *)
(* does not fit.                                                           *)
ProjectView(w) ==
    LET e == S!Evt(w)
    IN  /\ S!HandleProductEvent(w) /\ Storable(PriceOf(e))
        /\ price' = IF S!Created(e) \/ view[e.agg] > 0
                    THEN [price EXCEPT ![e.agg] = IntColumn(PriceOf(e))] ELSE price
        /\ UNCHANGED <<log, relayVars, seen>>

ViewWriteFails(w) ==
    /\ S!ErrorOnlyLogged(w)
    /\ ~Storable(PriceOf(S!Evt(w))) \/ Cardinality(lost) < MaxSilent
    /\ UNCHANGED <<log, relayVars, price, seen>>

(* GetProductByIDHandler.Query.                                            *)
GetProductByID(a) ==
    /\ seen' = [seen EXCEPT ![a] = Row(a)]
    /\ UNCHANGED <<log, relayVars, subscriberVars, price>>

---------------------------------------------------------------------------
Next ==
    \/ \E a \in Aggregates : Commit(a) \/ GetProductByID(a)
    \/ \E r \in Relays : RelayWorks(r) \/ RelayFails(r)
    \/ \E w \in Workers : \/ (\E m \in S!Message : Fetch(w, m))
                          \/ SubscriberWorks(w) \/ SubscriberFails(w)
                          \/ ProjectView(w) \/ ViewWriteFails(w)

Spec == Init /\ [][Next]_vars

\* The fairness of the components: the relays tick, calls return, retries end, and the consumer
\* delivers every message of the stream until it is acknowledged.  Clients need not do anything.
Fairness ==
    /\ \A r \in Relays : WF_vars(RelayWorks(r))
    /\ \A w \in Workers : /\ WF_vars(SubscriberWorks(w))
                          /\ WF_vars(ProjectView(w) \/ ViewWriteFails(w))
                          /\ SF_vars(RetriesEnd(w))
    /\ \A m \in S!Message : SF_vars(\E w \in Workers : Fetch(w, m))

FairSpec == Spec /\ Fairness

---------------------------------------------------------------------------
(* Properties.                                                             *)

\* End to end no event is lost: an event whose row is marked published is recorded as processed, or
\* the stream has a copy of it that is not acknowledged.  It takes the relay's order of publishing
\* and marking and the subscriber's order of recording and acknowledging together.
NothingIsLost ==
    \A e \in published :
        \/ Key(e) \in processed
        \/ \E c \in 1..MaxCopies : LET m == [agg |-> e.agg, ver |-> e.ver, copy |-> c]
                                   IN  Delivered(m) /\ m \notin acked

\* The application implements CQRS, with prices as the column rounds them: whatever order, number
\* and failures the relays and the consumer produce, the view goes through the versions of its
\* stream one by one and has the data of each, so queries never go back in time or see a mix.
CQRSSpec == INSTANCE CQRS WITH Products <- {IntColumn(p) : p \in Prices},
                               log <- {[e EXCEPT !.data = IntColumn(e.data)] : e \in log},
                               view <- [a \in Aggregates |-> Row(a)]
ImplementsCQRS == CQRSSpec!CQRSSpec

\* Every committed event becomes visible, unless a write of its product's view has failed or the
\* product was never created.
EventuallyVisible ==
    \A a \in Aggregates, v \in 1..MaxVersion :
        (\E e \in log : e.agg = a /\ e.ver = v) ~> (view[a] >= v \/ a \in S!Damaged)
===========================================================================
