------------------------------ MODULE Relay -------------------------------
(***************************************************************************)
(* The transactional outbox: relay workers poll the outbox table, publish  *)
(* what they find to the broker and mark it published, one transaction per *)
(* batch (outbox/relay.go, infra/postgres/outbox.go, Publish of            *)
(* infra/nats/broker.go).                                                  *)
(*                                                                         *)
(* One topic is modelled: topics do not interact.  The rows a relay has    *)
(* fetched are locked until its transaction ends, and the other relays     *)
(* skip them.  Publishing is outside the transaction: a rollback does not  *)
(* take back a message.                                                    *)
(***************************************************************************)
EXTENDS Integers, Sequences, FiniteSets

CONSTANTS
    Relays,       \* Relay instances (sample/main.go starts three)
    Aggregates,   \* aggregate ids
    Untyped,      \* the aggregates whose AggregateType is "": their events have no topic
    BatchSize,    \* NewRelay's batchSize
    MaxVersion,   \* bound: rows per aggregate
    MaxTs,        \* bound: distinct timestamps
    MaxFailures   \* bound: batches that fail

ASSUME RelayAssumption ==
    /\ Untyped \subseteq Aggregates
    /\ BatchSize \in Nat \ {0} /\ MaxVersion \in Nat /\ MaxTs \in Nat /\ MaxFailures \in Nat

VARIABLES
    outbox,     \* committed rows of table outbox
    published,  \* the rows with published = TRUE
    hasStream,  \* whether the JetStream stream of the topic exists
    stream,     \* the messages of that stream
    batch,      \* batch[r]: the rows r has fetched and locked, <<>> while it waits for a tick
    next,       \* next[r]: how many rows of its batch r has dealt with
    running,    \* running[r]: the goroutine of r has not returned
    quit,       \* quit[r]: the channel Relay.quit is closed
    cancelled,  \* the context is cancelled
    failures,   \* how many batches have failed
    undone      \* history: undone[e]: how often e was sent by a batch that was then rolled back

vars == <<outbox, published, hasStream, stream, batch, next, running, quit, cancelled,
          failures, undone>>

---------------------------------------------------------------------------
Row == [agg : Aggregates, ver : 1..MaxVersion, ts : 1..MaxTs]

Elements(s) == {s[i] : i \in 1..Len(s)}
HasTopic(e) == e.agg \notin Untyped

\* The row r deals with next has a topic, or has none.
Sending(r) == next[r] < Len(batch[r]) /\ HasTopic(batch[r][next[r] + 1])
Skipping(r) == next[r] < Len(batch[r]) /\ ~HasTopic(batch[r][next[r] + 1])

\* What r has sent so far of its batch.
Sent(r) == {batch[r][i] : i \in {j \in 1..next[r] : HasTopic(batch[r][j])}}

\* The history when one more batch, which has sent these rows, is rolled back.
Counted(sent) == [e \in Row |-> IF e \in sent THEN undone[e] + 1 ELSE undone[e]]

TypeOK ==
    /\ outbox \subseteq Row /\ published \subseteq outbox
    /\ hasStream \in BOOLEAN
    /\ stream \in Seq(outbox)
    /\ batch \in [Relays -> Seq(outbox)]
    /\ next \in [Relays -> 0..BatchSize]
    /\ running \in [Relays -> BOOLEAN] /\ quit \in [Relays -> BOOLEAN]
    /\ cancelled \in BOOLEAN
    /\ failures \in Nat
    /\ undone \in [Row -> Nat]

Init ==
    /\ outbox = {} /\ published = {} /\ hasStream = FALSE /\ stream = <<>>
    /\ batch = [r \in Relays |-> <<>>]
    /\ next = [r \in Relays |-> 0]
    /\ running = [r \in Relays |-> TRUE]
    /\ quit = [r \in Relays |-> FALSE]
    /\ cancelled = FALSE
    /\ failures = 0
    /\ undone = [e \in Row |-> 0]

---------------------------------------------------------------------------
(* A command commits the rows SaveEvents inserted (module EventStore): the *)
(* next versions of one aggregate.  Timestamps are taken before the commit *)
(* and are not unique; those of one aggregate never decrease.              *)
SaveEvents(a) ==
    \E n \in 1..2, ts \in [1..2 -> 1..MaxTs] :
        LET rows == {e \in outbox : e.agg = a}
            last == Cardinality(rows)
        IN  /\ last + n <= MaxVersion
            /\ ts[1] <= ts[2] /\ \A e \in rows : e.ts <= ts[1]
            /\ outbox' = outbox \cup {[agg |-> a, ver |-> last + i, ts |-> ts[i]] : i \in 1..n}
            /\ UNCHANGED <<published, hasStream, stream, batch, next, running, quit, cancelled,
                           failures, undone>>

(* fetchAndLockUnpublishedInTx: ORDER BY ts LIMIT batchSize FOR UPDATE     *)
(* SKIP LOCKED.  Rows with equal ts come in any order.  A tick that finds  *)
(* no row changes nothing.                                                 *)
AvailableIgnoringLocks(r) == outbox \ published  \* mutant
AvailableWhateverItsFlag(r) == outbox \ UNION {Elements(batch[q]) : q \in Relays}  \* mutant
Available(r) == (outbox \ published) \ UNION {Elements(batch[q]) : q \in Relays}

ByAnyOrder(b, rows) ==  \* mutant
    /\ \A i, j \in 1..Len(b) : i # j => b[i] # b[j]
    /\ Len(b) = BatchSize \/ Elements(b) = rows
ByTs(b, rows) ==
    /\ \A i, j \in 1..Len(b) : i # j => b[i] # b[j]
    /\ \A i, j \in 1..Len(b) : i < j => b[i].ts <= b[j].ts
    /\ \A e \in rows \ Elements(b), i \in 1..Len(b) : b[i].ts <= e.ts
    /\ Len(b) = BatchSize \/ Elements(b) = rows

FetchWithoutLimit(r) ==  \* mutant
    /\ running[r] /\ ~cancelled /\ batch[r] = <<>>
    /\ \E n \in 1..Cardinality(Available(r)) : \E b \in [1..n -> Available(r)] :
           /\ ByTs(b, Available(r))
           /\ batch' = [batch EXCEPT ![r] = b]
    /\ next' = [next EXCEPT ![r] = 0]
    /\ UNCHANGED <<outbox, published, hasStream, stream, running, quit, cancelled, failures,
                   undone>>
FetchAndLock(r) ==
    /\ running[r] /\ ~cancelled /\ batch[r] = <<>>
    /\ \E n \in 1..BatchSize : \E b \in [1..n -> Available(r)] :
           /\ ByTs(b, Available(r))
           /\ batch' = [batch EXCEPT ![r] = b]
    /\ next' = [next EXCEPT ![r] = 0]
    /\ UNCHANGED <<outbox, published, hasStream, stream, running, quit, cancelled, failures,
                   undone>>

(* Broker.Publish: the stream is created if need be, and the message is    *)
(* stored.  js.Publish does not look at the context.                       *)
Publish(r) ==
    /\ Sending(r)
    /\ hasStream' = TRUE
    /\ stream' = Append(stream, batch[r][next[r] + 1])
    /\ next' = [next EXCEPT ![r] = next[r] + 1]
    /\ UNCHANGED <<outbox, published, batch, running, quit, cancelled, failures, undone>>

(* An event without a topic is skipped, and stays in the batch.            *)
SkipReturnsError(r) ==  \* mutant
    /\ Skipping(r)
    /\ batch' = [batch EXCEPT ![r] = <<>>]
    /\ next' = [next EXCEPT ![r] = 0]
    /\ undone' = Counted(Sent(r))
    /\ UNCHANGED <<outbox, published, hasStream, stream, running, quit, cancelled, failures>>
Skip(r) ==
    /\ Skipping(r)
    /\ next' = [next EXCEPT ![r] = next[r] + 1]
    /\ UNCHANGED <<outbox, published, hasStream, stream, batch, running, quit, cancelled,
                   failures, undone>>

(* markAsPublishedInTx and Commit.  The rows are locked, so all of them    *)
(* are updated.  A commit whose reply is lost looks the same: the relay    *)
(* only logs the error.                                                    *)
MarkFirst(r) ==  \* mutant
    /\ batch[r] # <<>> /\ ~cancelled
    /\ published' = published \cup Elements(batch[r])
    /\ batch' = [batch EXCEPT ![r] = <<>>]
    /\ next' = [next EXCEPT ![r] = 0]
    /\ UNCHANGED <<outbox, hasStream, stream, running, quit, cancelled, failures, undone>>
MarkAsPublished(r) ==
    /\ batch[r] # <<>> /\ next[r] = Len(batch[r]) /\ ~cancelled
    /\ published' = published \cup Elements(batch[r])
    /\ batch' = [batch EXCEPT ![r] = <<>>]
    /\ next' = [next EXCEPT ![r] = 0]
    /\ UNCHANGED <<outbox, hasStream, stream, running, quit, cancelled, failures, undone>>

(* The batch fails: the database or the broker returns an error, or the    *)
(* process dies and is restarted.  The transaction is rolled back and the  *)
(* rows become available again.  A Publish that reports an error may have  *)
(* created the stream and may have stored the message.                     *)
Roll(r, sent) ==
    /\ failures' = failures + 1
    /\ batch' = [batch EXCEPT ![r] = <<>>]
    /\ next' = [next EXCEPT ![r] = 0]
    /\ undone' = Counted(sent)
    /\ UNCHANGED <<outbox, published, running, quit, cancelled>>

BatchFails(r) ==
    /\ batch[r] # <<>> /\ (failures < MaxFailures \/ cancelled)
    /\ hasStream' \in {hasStream, hasStream \/ Sending(r)}
    /\ UNCHANGED stream
    /\ Roll(r, Sent(r))

PublishReplyLost(r) ==
    /\ Sending(r) /\ failures < MaxFailures
    /\ hasStream' = TRUE
    /\ stream' = Append(stream, batch[r][next[r] + 1])
    /\ Roll(r, Sent(r) \cup {batch[r][next[r] + 1]})

(* Shutdown.  Stop closes quit and waits for the goroutine; quit and the   *)
(* context are only looked at between two batches.                         *)
Stop(r) ==
    /\ ~quit[r]
    /\ quit' = [quit EXCEPT ![r] = TRUE]
    /\ UNCHANGED <<outbox, published, hasStream, stream, batch, next, running, cancelled,
                   failures, undone>>

CancelContext ==
    /\ ~cancelled /\ cancelled' = TRUE
    /\ UNCHANGED <<outbox, published, hasStream, stream, batch, next, running, quit, failures,
                   undone>>

ReturnOnContextOnly(r) ==  \* mutant
    /\ running[r] /\ batch[r] = <<>> /\ cancelled
    /\ running' = [running EXCEPT ![r] = FALSE]
    /\ UNCHANGED <<outbox, published, hasStream, stream, batch, next, quit, cancelled,
                   failures, undone>>
Return(r) ==
    /\ running[r] /\ batch[r] = <<>> /\ (quit[r] \/ cancelled)
    /\ running' = [running EXCEPT ![r] = FALSE]
    /\ UNCHANGED <<outbox, published, hasStream, stream, batch, next, quit, cancelled,
                   failures, undone>>

---------------------------------------------------------------------------
Work(r) == FetchAndLock(r) \/ Publish(r) \/ Skip(r) \/ MarkAsPublished(r)

Next ==
    \/ \E a \in Aggregates : SaveEvents(a)
    \/ \E r \in Relays : Work(r) \/ BatchFails(r) \/ PublishReplyLost(r) \/ Stop(r) \/ Return(r)
    \/ CancelContext

Spec == Init /\ [][Next]_vars

\* The ticker keeps ticking and every call returns; after a cancellation the transaction's
\* next call fails.  The select statement picks among the ready cases at random, so a closed
\* quit is seen in the end although ticks compete with it.
Fairness ==
    \A r \in Relays : /\ WF_vars(Work(r))
                      /\ WF_vars(cancelled /\ BatchFails(r))
                      /\ SF_vars(Return(r))

FairSpec == Spec /\ Fairness

---------------------------------------------------------------------------
(* Properties.                                                             *)

Copies(e) == Cardinality({i \in 1..Len(stream) : stream[i] = e})

\* At-least-once: a row is marked published only after the broker has stored its event,
\* whatever fails in between.
PublishedIsDelivered == \A e \in published : HasTopic(e) => e \in Elements(stream)

\* Concurrent relays do not process the same event: a second copy of an event is in the stream
\* only if a batch that had sent it was rolled back.
DuplicatesNeedARollback == \A e \in outbox : Copies(e) <= undone[e] + 1

\* The outbox implements the at-least-once channel: relays only send events that are saved and not
\* yet marked, and only mark what the broker has stored.
DeliverySpec == INSTANCE Delivery WITH Events <- Row, saved <- {e \in outbox : HasTopic(e)},
                                       retired <- {e \in published : HasTopic(e)}
ImplementsDelivery == DeliverySpec!Spec

\* One relay alone sends the events of an aggregate in timestamp order: no event precedes the
\* first copy of an older one, also after rollbacks.
DeliveredInTsOrder ==
    \A e, f \in outbox : e.agg = f.agg /\ HasTopic(e) /\ e.ts < f.ts =>
        \A j \in 1..Len(stream) : stream[j] = f => \E i \in 1..j : stream[i] = e

\* Every committed event with a topic reaches the broker, unless the relays are told to stop.
EventuallyDelivered ==
    \A e \in Row : e \in outbox /\ HasTopic(e)
                     ~> e \in Elements(stream) \/ cancelled \/ \A r \in Relays : quit[r]

\* Stop returns: the goroutine it waits for ends, also in the middle of a batch.
StopReturns == \A r \in Relays : quit[r] ~> ~running[r]
===========================================================================
