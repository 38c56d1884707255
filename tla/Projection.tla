---------------------------- MODULE Projection ----------------------------
(***************************************************************************)
(* The read side of the framework: subscribers fetch messages, and         *)
(* Projection.Handle applies each event to the view once and in version    *)
(* order (cqrs/projection.go, infra/postgres/idempotency.go, Subscribe of  *)
(* infra/nats/broker.go).                                                  *)
(*                                                                         *)
(* A message that is not acknowledged can be delivered again at any time,  *)
(* also while another worker handles it: the ack wait of the consumer is   *)
(* shorter than the time Handle may spend on retries.  The handler of this *)
(* module writes the view through the transaction in its context; module   *)
(* ProductReadSide has the handler of the sample application instead.      *)
(***************************************************************************)
EXTENDS Integers, Sequences

CONSTANTS
    Workers,      \* goroutines of Subscribe, in one process or in several
    Aggregates,   \* aggregate ids
    MaxVersion,   \* bound: events per aggregate
    Copies,       \* the copies of each event in the stream (rollbacks of the relay)
    FetchSize,    \* bound: messages fetched at once (10 in the code)
    MaxFailures   \* bound: failing calls, lost acks and crashes

ASSUME ProjectionAssumption ==
    MaxVersion \in Nat /\ FetchSize \in Nat \ {0} /\ MaxFailures \in Nat

VARIABLES
    acked,      \* messages the consumer has seen an ack for
    processed,  \* committed rows of table processed_events, for this subscriber
    view,       \* view[a]: the committed version of the view of a, 0 if there is none
    msgs,       \* msgs[w]: the fetched messages w has still to finish, the current one first
    pc,         \* pc[w]: the call w makes next
    cur,        \* cur[w]: currentVersion, as w has read it
    tx,         \* tx[w]: what the open transaction of w has written
    failures    \* how many failures have happened

vars == <<acked, processed, view, msgs, pc, cur, tx, failures>>

---------------------------------------------------------------------------
Event == [agg : Aggregates, ver : 1..MaxVersion]
Message == [agg : Aggregates, ver : 1..MaxVersion, copy : Copies]
EventOf(m) == [agg |-> m.agg, ver |-> m.ver]

Msg(w) == Head(msgs[w])
Evt(w) == EventOf(Msg(w))
Old(w) == Evt(w).ver <= cur[w]

\* view is the version written to the row of the view, 0 if it is not written.
NoTx == [view |-> 0, mark |-> FALSE, aborted |-> FALSE]

TypeOK ==
    /\ acked \subseteq Message /\ processed \subseteq Event
    /\ view \in [Aggregates -> 0..MaxVersion]
    /\ msgs \in [Workers -> Seq(Message)]
    /\ pc \in [Workers -> {"fetch", "isProcessed", "getVersion", "handler", "mark", "commit", "ack"}]
    /\ \A w \in Workers : pc[w] # "fetch" => msgs[w] # <<>>
    /\ cur \in [Workers -> 0..MaxVersion]
    /\ tx \in [Workers -> [view : 0..MaxVersion, mark : BOOLEAN, aborted : BOOLEAN]]
    /\ failures \in 0..MaxFailures

Init ==
    /\ acked = {} /\ processed = {}
    /\ view = [a \in Aggregates |-> 0]
    /\ msgs = [w \in Workers |-> <<>>]
    /\ pc = [w \in Workers |-> "fetch"]
    /\ cur = [w \in Workers |-> 0]
    /\ tx = [w \in Workers |-> NoTx]
    /\ failures = 0

---------------------------------------------------------------------------
(* sub.Fetch: some messages that are not acknowledged, in any order.       *)
Fetch(w, m) ==
    /\ pc[w] = "fetch" /\ m \notin acked
    /\ \E n \in 1..FetchSize : \E b \in [1..n -> Message \ acked] :
           /\ \A i, j \in 1..n : i # j => b[i] # b[j]
           /\ \E i \in 1..n : b[i] = m
           /\ msgs' = [msgs EXCEPT ![w] = b]
    /\ pc' = [pc EXCEPT ![w] = "isProcessed"]
    /\ UNCHANGED <<acked, processed, view, cur, tx, failures>>

\* With nothing to deliver, Fetch times out and is called again.
FetchTimesOut(w) == pc[w] = "fetch" /\ acked = Message /\ UNCHANGED vars

\* Going on with the next message of the batch, and dropping the transaction if one is open.
FinishWithoutEnd(w) ==  \* mutant
    /\ msgs' = [msgs EXCEPT ![w] = Tail(msgs[w])]
    /\ pc' = [pc EXCEPT ![w] = "isProcessed"]
    /\ cur' = [cur EXCEPT ![w] = 0]
    /\ tx' = [tx EXCEPT ![w] = NoTx]
Finish(w) ==
    /\ msgs' = [msgs EXCEPT ![w] = Tail(msgs[w])]
    /\ pc' = [pc EXCEPT ![w] = IF Tail(msgs[w]) = <<>> THEN "fetch" ELSE "isProcessed"]
    /\ cur' = [cur EXCEPT ![w] = 0]
    /\ tx' = [tx EXCEPT ![w] = NoTx]

\* Handle returned nil, or an error.  A negative ack makes the consumer deliver the message
\* again, which it may do anyway.
Ack(w) ==
    /\ pc[w] = "ack"
    /\ acked' = acked \cup {Msg(w)}
    /\ Finish(w)
    /\ UNCHANGED <<processed, view, failures>>

AckLost(w) ==
    /\ pc[w] = "ack" /\ failures < MaxFailures
    /\ failures' = failures + 1
    /\ Finish(w)
    /\ UNCHANGED <<acked, processed, view>>

(* 1. The idempotency check.                                               *)
NoIdempotencyCheck(w) ==  \* mutant
    /\ pc[w] = "isProcessed"
    /\ pc' = [pc EXCEPT ![w] = "getVersion"]
    /\ UNCHANGED <<acked, processed, view, msgs, cur, tx, failures>>
IsProcessed(w) ==
    /\ pc[w] = "isProcessed"
    /\ pc' = [pc EXCEPT ![w] = IF Evt(w) \in processed THEN "ack" ELSE "getVersion"]
    /\ UNCHANGED <<acked, processed, view, msgs, cur, tx, failures>>

(* 2. The ordering check, by version: an old event is only marked, the     *)
(* next one is handled, any other is rejected with ErrOutOfOrderEvent.     *)
Outdated(w, v) == Evt(w).ver <= v
NoOrderingCheck(w, v) == TRUE  \* mutant
InOrder(w, v) == Evt(w).ver = v + 1

DropOutOfOrder(w) ==  \* mutant
    LET v == view[Evt(w).agg]
    IN  /\ pc[w] = "getVersion"
        /\ pc' = [pc EXCEPT ![w] = IF InOrder(w, v) THEN "handler"
                                   ELSE IF Outdated(w, v) THEN "mark" ELSE "ack"]
        /\ cur' = [cur EXCEPT ![w] = v]
        /\ UNCHANGED <<acked, processed, view, msgs, tx, failures>>
GetVersion(w) ==
    LET v == view[Evt(w).agg]
    IN  /\ pc[w] = "getVersion"
        /\ \/ /\ Outdated(w, v) \/ InOrder(w, v)
              /\ pc' = [pc EXCEPT ![w] = IF InOrder(w, v) THEN "handler" ELSE "mark"]
              /\ cur' = [cur EXCEPT ![w] = v]
              /\ UNCHANGED <<msgs, tx>>
           \/ ~Outdated(w, v) /\ ~InOrder(w, v) /\ Finish(w)
        /\ UNCHANGED <<acked, processed, view, failures>>

(* 3. The transaction.  The handler writes the row of the view, which it   *)
(* locks until the transaction ends.                                       *)
HandleEvent(w) ==
    /\ pc[w] = "handler"
    /\ \A u \in Workers \ {w} : tx[u].view # 0 => Evt(u).agg # Evt(w).agg
    /\ tx' = [tx EXCEPT ![w].view = Evt(w).ver]
    /\ pc' = [pc EXCEPT ![w] = "mark"]
    /\ UNCHANGED <<acked, processed, view, msgs, cur, failures>>

(* MarkAsProcessed: the INSERT waits for an open transaction that has the  *)
(* same key.  A unique violation is ignored, but PostgreSQL has aborted    *)
(* the transaction.                                                        *)
DuplicateDoesNothing(w) == FALSE  \* mutant
AbortsTx(w) == Evt(w) \in processed

MarkAsProcessed(w) ==
    /\ pc[w] = "mark"
    /\ \A u \in Workers \ {w} : tx[u].mark => Evt(u) # Evt(w)
    /\ tx' = [tx EXCEPT ![w].mark = ~AbortsTx(w), ![w].aborted = AbortsTx(w)]
    /\ pc' = [pc EXCEPT ![w] = "commit"]
    /\ UNCHANGED <<acked, processed, view, msgs, cur, failures>>

MarkOnly(w) ==  \* mutant
    /\ processed' = processed \cup {Evt(w)}
    /\ UNCHANGED view
Persist(w) ==
    /\ processed' = processed \cup {Evt(w)}
    /\ view' = IF tx[w].view = 0 THEN view ELSE [view EXCEPT ![Evt(w).agg] = tx[w].view]

(* An attempt has failed.  Marking an old event is not tried again         *)
(* (backoff.Permanent); otherwise the operation starts anew, or the retry  *)
(* time is over.                                                           *)
GiveUp(w) == Finish(w)
Retry(w) ==
    /\ ~Old(w) /\ pc' = [pc EXCEPT ![w] = "getVersion"]
    /\ cur' = [cur EXCEPT ![w] = 0]
    /\ tx' = [tx EXCEPT ![w] = NoTx]
    /\ UNCHANGED msgs

Commit(w) ==
    /\ pc[w] = "commit" /\ ~tx[w].aborted
    /\ Persist(w)
    /\ pc' = [pc EXCEPT ![w] = "ack"]
    /\ tx' = [tx EXCEPT ![w] = NoTx]
    /\ UNCHANGED <<acked, msgs, cur, failures>>

CommitAborted(w) ==
    /\ pc[w] = "commit" /\ tx[w].aborted
    /\ Retry(w) \/ GiveUp(w)
    /\ UNCHANGED <<acked, processed, view, failures>>

CommitReplyLost(w) ==
    /\ pc[w] = "commit" /\ ~tx[w].aborted /\ failures < MaxFailures
    /\ Persist(w)
    /\ failures' = failures + 1
    /\ Retry(w) \/ GiveUp(w)
    /\ UNCHANGED acked

(* A call to the database or the handler returns an error.                 *)
CallFails(w) ==
    /\ pc[w] \in {"isProcessed", "getVersion", "handler", "mark", "commit"}
    /\ failures < MaxFailures
    /\ failures' = failures + 1
    /\ GiveUp(w) \/ (pc[w] # "isProcessed" /\ Retry(w))
    /\ UNCHANGED <<acked, processed, view>>

(* The process dies, or its context is cancelled, and a new one subscribes *)
(* to the durable consumer.                                                *)
Crash(w) ==
    /\ pc[w] # "fetch" /\ failures < MaxFailures
    /\ failures' = failures + 1
    /\ msgs' = [msgs EXCEPT ![w] = <<>>]
    /\ pc' = [pc EXCEPT ![w] = "fetch"]
    /\ cur' = [cur EXCEPT ![w] = 0]
    /\ tx' = [tx EXCEPT ![w] = NoTx]
    /\ UNCHANGED <<acked, processed, view>>

---------------------------------------------------------------------------
\* What Subscribe and Handle do by themselves, whatever the handler is.
Proceed(w) ==
    \/ Ack(w) \/ IsProcessed(w) \/ GetVersion(w) \/ MarkAsProcessed(w) \/ Commit(w)
    \/ CommitAborted(w)

Fails(w) == AckLost(w) \/ CommitReplyLost(w) \/ CallFails(w) \/ Crash(w)

Next ==
    \E w \in Workers :
        \/ (\E m \in Message : Fetch(w, m)) \/ FetchTimesOut(w)
        \/ Proceed(w) \/ HandleEvent(w) \/ Fails(w)

Spec == Init /\ [][Next]_vars

\* Every call returns, PostgreSQL serves the waiters of a lock, and the consumer delivers every
\* message that is not acknowledged again and again.
Fairness ==
    /\ \A w \in Workers : /\ WF_vars(Proceed(w))
                          /\ SF_vars(HandleEvent(w)) /\ SF_vars(MarkAsProcessed(w))
    /\ \A m \in Message : SF_vars(\E w \in Workers : Fetch(w, m))

FairSpec == Spec /\ Fairness

---------------------------------------------------------------------------
(* Properties.                                                             *)

\* Exactly once: the view has applied an event exactly when the event is recorded as processed,
\* whichever workers race on it and whatever fails.
ViewIsWhatIsProcessed == \A e \in Event : e \in processed <=> e.ver <= view[e.agg]

\* Handle implements the abstract read model: one version at a time, together with its record.
ReadModelSpec == INSTANCE ReadModel WITH processed <- processed, view <- view
ImplementsReadModel == ReadModelSpec!Spec

\* No message is acknowledged before its event is recorded: none is lost.
AckedIsProcessed == \A m \in acked : EventOf(m) \in processed

\* The read model catches up, and every message is acknowledged in the end, duplicates and
\* events that came too early included.
CatchesUp ==
    <>[](acked = Message /\ \A a \in Aggregates : view[a] = MaxVersion)
===========================================================================
