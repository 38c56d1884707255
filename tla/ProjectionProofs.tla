------------------------- MODULE ProjectionProofs -------------------------
(***************************************************************************)
(* Proofs about module Projection: what the workers that call              *)
(* Projection.Handle do to the view and to processed_events.               *)
(***************************************************************************)
EXTENDS Projection, SequenceTheorems, TLAPS

\* One step of worker w.
Step(w) ==
    \/ (\E m \in Message : Fetch(w, m)) \/ FetchTimesOut(w)
    \/ Proceed(w) \/ HandleEvent(w) \/ Fails(w)

---------------------------------------------------------------------------
(* Type correctness.                                                       *)

\* The message a busy worker is at, and the messages after it.
LEMMA CurrentMessage ==
    ASSUME TypeOK, NEW w \in Workers, pc[w] # "fetch"
    PROVE  /\ Msg(w) \in Message /\ Evt(w) \in Event
           /\ Evt(w).agg = Msg(w).agg /\ Evt(w).ver = Msg(w).ver
           /\ Evt(w).agg \in Aggregates /\ Evt(w).ver \in 1..MaxVersion
           /\ Tail(msgs[w]) \in Seq(Message)
<1>1. msgs[w] \in Seq(Message) /\ msgs[w] # <<>>
  BY DEF TypeOK
<1>2. Head(msgs[w]) \in Message /\ Tail(msgs[w]) \in Seq(Message)
  BY <1>1, HeadTailProperties
<1> QED BY <1>2 DEF Msg, Evt, EventOf, Message, Event

\* Going on with the next message keeps the worker's state well typed.
LEMMA FinishTyped ==
    ASSUME TypeOK, NEW w \in Workers, pc[w] # "fetch", Finish(w)
    PROVE  /\ msgs' \in [Workers -> Seq(Message)]
           /\ pc' \in [Workers -> {"fetch", "isProcessed", "getVersion", "handler", "mark",
                                   "commit", "ack"}]
           /\ \A u \in Workers : pc'[u] # "fetch" => msgs'[u] # <<>>
           /\ cur' \in [Workers -> 0..MaxVersion]
           /\ tx' \in [Workers -> [view : 0..MaxVersion, mark : BOOLEAN, aborted : BOOLEAN]]
<1>1. Tail(msgs[w]) \in Seq(Message)
  BY CurrentMessage
<1>2. msgs' \in [Workers -> Seq(Message)] /\ cur' \in [Workers -> 0..MaxVersion]
  BY <1>1, ProjectionAssumption DEF TypeOK, Finish
<1>3. NoTx \in [view : 0..MaxVersion, mark : BOOLEAN, aborted : BOOLEAN]
  BY ProjectionAssumption DEF NoTx
<1>4. tx' \in [Workers -> [view : 0..MaxVersion, mark : BOOLEAN, aborted : BOOLEAN]]
  BY <1>3 DEF TypeOK, Finish
<1>5. \A u \in Workers : pc'[u] # "fetch" => msgs'[u] # <<>>
  BY DEF TypeOK, Finish
<1> QED BY <1>2, <1>4, <1>5 DEF TypeOK, Finish

\* So does a further attempt.
LEMMA RetryTyped ==
    ASSUME TypeOK, NEW w \in Workers, pc[w] # "fetch", Retry(w)
    PROVE  /\ msgs' \in [Workers -> Seq(Message)]
           /\ pc' \in [Workers -> {"fetch", "isProcessed", "getVersion", "handler", "mark",
                                   "commit", "ack"}]
           /\ \A u \in Workers : pc'[u] # "fetch" => msgs'[u] # <<>>
           /\ cur' \in [Workers -> 0..MaxVersion]
           /\ tx' \in [Workers -> [view : 0..MaxVersion, mark : BOOLEAN, aborted : BOOLEAN]]
<1>1. NoTx \in [view : 0..MaxVersion, mark : BOOLEAN, aborted : BOOLEAN]
  BY ProjectionAssumption DEF NoTx
<1>2. tx' \in [Workers -> [view : 0..MaxVersion, mark : BOOLEAN, aborted : BOOLEAN]]
  BY <1>1 DEF TypeOK, Retry
<1> QED BY <1>2, ProjectionAssumption DEF TypeOK, Retry

\* What a commit writes is well typed.
LEMMA PersistTyped ==
    ASSUME TypeOK, NEW w \in Workers, pc[w] # "fetch", Persist(w)
    PROVE  processed' \subseteq Event /\ view' \in [Aggregates -> 0..MaxVersion]
BY CurrentMessage DEF TypeOK, Persist

\* TypeOK is inductive for every step of Subscribe and Handle but the handler's own.
LEMMA HandleTyped ==
    ASSUME TypeOK, NEW w \in Workers,
           (\E m \in Message : Fetch(w, m)) \/ FetchTimesOut(w) \/ Proceed(w) \/ Fails(w)
    PROVE  TypeOK'
<1> USE ProjectionAssumption
<1>1. ASSUME NEW m \in Message, Fetch(w, m) PROVE TypeOK'
  <2>1. PICK n \in 1..FetchSize : \E b \in [1..n -> Message \ acked] :
                                     msgs' = [msgs EXCEPT ![w] = b]
    BY <1>1 DEF Fetch
  <2>2. PICK b \in [1..n -> Message \ acked] : msgs' = [msgs EXCEPT ![w] = b]
    BY <2>1
  <2>3. b \in Seq(Message) /\ Len(b) = n /\ b # <<>>
    BY <2>2, n \in Nat \ {0}
  <2>4. msgs' \in [Workers -> Seq(Message)]
    BY <2>2, <2>3 DEF TypeOK
  <2>5. pc' = [pc EXCEPT ![w] = "isProcessed"] /\ UNCHANGED <<acked, processed, view, cur, tx, failures>>
    BY <1>1 DEF Fetch
  <2> QED BY <2>2, <2>3, <2>4, <2>5 DEF TypeOK
<1>2. CASE FetchTimesOut(w)
  BY <1>2 DEF FetchTimesOut, TypeOK, vars
<1>3. CASE Ack(w)
  <2>1. pc[w] # "fetch" /\ Msg(w) \in Message
    BY <1>3, CurrentMessage DEF Ack
  <2> QED BY <1>3, <2>1, FinishTyped DEF Ack, TypeOK
<1>4. CASE IsProcessed(w)
  BY <1>4 DEF IsProcessed, TypeOK
<1>5. CASE GetVersion(w)
  <2>1. pc[w] # "fetch" /\ Evt(w).agg \in Aggregates
    BY <1>5, CurrentMessage DEF GetVersion
  <2>2. CASE Finish(w)
    BY <1>5, <2>1, <2>2, FinishTyped DEF GetVersion, TypeOK
  <2>3. CASE ~Finish(w)
    BY <1>5, <2>1, <2>3 DEF GetVersion, TypeOK
  <2> QED BY <2>2, <2>3
<1>6. CASE MarkAsProcessed(w)
  <2>1. AbortsTx(w) \in BOOLEAN
    BY DEF AbortsTx
  <2>2. tx' = [tx EXCEPT ![w] = [tx[w] EXCEPT !.mark = ~AbortsTx(w), !.aborted = AbortsTx(w)]]
    BY <1>6 DEF MarkAsProcessed
  <2>3. [tx[w] EXCEPT !.mark = ~AbortsTx(w), !.aborted = AbortsTx(w)]
          \in [view : 0..MaxVersion, mark : BOOLEAN, aborted : BOOLEAN]
    BY <2>1 DEF TypeOK
  <2>4. tx' \in [Workers -> [view : 0..MaxVersion, mark : BOOLEAN, aborted : BOOLEAN]]
    BY <2>2, <2>3 DEF TypeOK
  <2> QED BY <1>6, <2>4 DEF MarkAsProcessed, TypeOK
<1>7. CASE Commit(w)
  <2>1. pc[w] # "fetch" /\ Persist(w)
    BY <1>7 DEF Commit
  <2>2. NoTx \in [view : 0..MaxVersion, mark : BOOLEAN, aborted : BOOLEAN]
    BY DEF NoTx
  <2>3. tx' \in [Workers -> [view : 0..MaxVersion, mark : BOOLEAN, aborted : BOOLEAN]]
    BY <1>7, <2>2 DEF Commit, TypeOK
  <2> QED BY <1>7, <2>1, <2>3, PersistTyped DEF Commit, TypeOK
<1>8. CASE CommitAborted(w)
  <2>1. pc[w] # "fetch" /\ (Retry(w) \/ Finish(w))
    BY <1>8 DEF CommitAborted, GiveUp
  <2> QED BY <1>8, <2>1, FinishTyped, RetryTyped DEF CommitAborted, TypeOK
<1>9. CASE AckLost(w)
  <2>1. pc[w] # "fetch"
    BY <1>9 DEF AckLost
  <2> QED BY <1>9, <2>1, FinishTyped DEF AckLost, TypeOK
<1>10. CASE CommitReplyLost(w)
  <2>1. pc[w] # "fetch" /\ Persist(w) /\ (Retry(w) \/ Finish(w))
    BY <1>10 DEF CommitReplyLost, GiveUp
  <2> QED BY <1>10, <2>1, FinishTyped, RetryTyped, PersistTyped DEF CommitReplyLost, TypeOK
<1>11. CASE CallFails(w)
  <2>1. pc[w] # "fetch" /\ (Retry(w) \/ Finish(w))
    BY <1>11 DEF CallFails, GiveUp
  <2> QED BY <1>11, <2>1, FinishTyped, RetryTyped DEF CallFails, TypeOK
<1>12. CASE Crash(w)
  <2>1. NoTx \in [view : 0..MaxVersion, mark : BOOLEAN, aborted : BOOLEAN]
    BY DEF NoTx
  <2>2. tx' \in [Workers -> [view : 0..MaxVersion, mark : BOOLEAN, aborted : BOOLEAN]]
    BY <1>12, <2>1 DEF Crash, TypeOK
  <2>3. msgs' \in [Workers -> Seq(Message)]
    BY <1>12 DEF Crash, TypeOK
  <2> QED BY <1>12, <2>2, <2>3 DEF Crash, TypeOK
<1> QED BY <1>1, <1>2, <1>3, <1>4, <1>5, <1>6, <1>7, <1>8, <1>9, <1>10, <1>11, <1>12
        DEF Proceed, Fails

LEMMA TypeStep == TypeOK /\ [Next]_vars => TypeOK'
<1> SUFFICES ASSUME TypeOK, [Next]_vars PROVE TypeOK'
  OBVIOUS
<1>1. CASE UNCHANGED vars
  BY <1>1 DEF TypeOK, vars
<1>2. ASSUME NEW w \in Workers, HandleEvent(w) PROVE TypeOK'
  <2>1. pc[w] # "fetch" /\ Evt(w).ver \in 0..MaxVersion
    BY <1>2, CurrentMessage, ProjectionAssumption DEF HandleEvent
  <2>2. tx' = [tx EXCEPT ![w] = [tx[w] EXCEPT !.view = Evt(w).ver]]
    BY <1>2 DEF HandleEvent
  <2>3. tx' \in [Workers -> [view : 0..MaxVersion, mark : BOOLEAN, aborted : BOOLEAN]]
    BY <2>1, <2>2 DEF TypeOK
  <2> QED BY <1>2, <2>3 DEF HandleEvent, TypeOK
<1> QED BY <1>1, <1>2, HandleTyped DEF Next

LEMMA InitTyped == Init => TypeOK
<1> SUFFICES ASSUME Init PROVE TypeOK
  OBVIOUS
<1>1. NoTx \in [view : 0..MaxVersion, mark : BOOLEAN, aborted : BOOLEAN]
  BY ProjectionAssumption DEF NoTx
<1>2. <<>> \in Seq(Message)
  OBVIOUS
<1> QED BY <1>1, <1>2, ProjectionAssumption DEF Init, TypeOK

\* Every variable of the read side keeps its type; in particular a worker that is past Fetch has
\* a message.
THEOREM TypeCorrect == Spec => []TypeOK
BY InitTyped, TypeStep, PTL DEF Spec

---------------------------------------------------------------------------
(* The inductive invariant.                                                *)

\* What the open transaction of a worker has written at each program point.
TxShape(w) ==
    /\ pc[w] \notin {"mark", "commit"} => tx[w] = NoTx
    /\ pc[w] = "mark" => ~tx[w].mark /\ ~tx[w].aborted
    /\ pc[w] = "commit" => tx[w].mark = ~tx[w].aborted

\* The version a worker has read is one the view has reached, although the view may have moved on
\* since; its event is the next one after it, or an old one that is only to be marked.
ReadIsPast(w) ==
    pc[w] \in {"handler", "mark", "commit"} =>
        /\ cur[w] <= view[Evt(w).agg]
        /\ pc[w] = "handler" => Evt(w).ver = cur[w] + 1
        /\ pc[w] # "handler" => \/ tx[w].view = 0 /\ Evt(w).ver <= cur[w]
                                \/ tx[w].view = Evt(w).ver /\ Evt(w).ver = cur[w] + 1

\* A record that is inserted and not yet committed is new, and stays new until the commit.
MarkIsNew(w) == tx[w].mark => Evt(w) \notin processed

\* Handle returns nil only for an event that is recorded.
AckIsEarned(w) == pc[w] = "ack" => Evt(w) \in processed

\* The primary key of processed_events: two open transactions never hold the same one.
MarksAreExclusive ==
    \A u, w \in Workers : u # w /\ tx[u].mark /\ tx[w].mark => Evt(u) # Evt(w)

WorkersInv ==
    \A w \in Workers : TxShape(w) /\ ReadIsPast(w) /\ MarkIsNew(w) /\ AckIsEarned(w)

IInv == TypeOK /\ WorkersInv /\ MarksAreExclusive /\ ViewIsWhatIsProcessed /\ AckedIsProcessed

---------------------------------------------------------------------------
(* Steps that leave the view and the records alone.                        *)

\* A step of worker w touches no other worker's state.
LEMMA OthersUntouched ==
    ASSUME TypeOK, NEW w \in Workers, Step(w), NEW u \in Workers \ {w}
    PROVE  /\ msgs'[u] = msgs[u] /\ pc'[u] = pc[u] /\ cur'[u] = cur[u] /\ tx'[u] = tx[u]
           /\ Msg(u)' = Msg(u) /\ Evt(u)' = Evt(u)
<1>1. msgs'[u] = msgs[u] /\ pc'[u] = pc[u] /\ cur'[u] = cur[u] /\ tx'[u] = tx[u]
  <2>1. CASE (\E m \in Message : Fetch(w, m)) \/ FetchTimesOut(w)
    BY <2>1 DEF TypeOK, Fetch, FetchTimesOut, vars
  <2>2. CASE Proceed(w)
    BY <2>2 DEF TypeOK, Proceed, Ack, IsProcessed, GetVersion, MarkAsProcessed, Commit,
                CommitAborted, Retry, GiveUp, Finish
  <2>3. CASE HandleEvent(w)
    BY <2>3 DEF TypeOK, HandleEvent
  <2>4. CASE Fails(w)
    BY <2>4 DEF TypeOK, Fails, AckLost, CommitReplyLost, CallFails, Crash, Retry, GiveUp, Finish
  <2> QED BY <2>1, <2>2, <2>3, <2>4 DEF Step
<1> QED BY <1>1 DEF Msg, Evt

\* Between two fetches a worker only gets rid of messages.
LEMMA MessagesShrink ==
    ASSUME TypeOK, NEW w \in Workers, Proceed(w) \/ Fails(w)
    PROVE  msgs'[w] \in {msgs[w], Tail(msgs[w]), <<>>}
<1>1. CASE Proceed(w)
  BY <1>1 DEF TypeOK, Proceed, Ack, IsProcessed, GetVersion, MarkAsProcessed, Commit,
              CommitAborted, Retry, GiveUp, Finish
<1>2. CASE Fails(w)
  BY <1>2 DEF TypeOK, Fails, AckLost, CommitReplyLost, CallFails, Crash, Retry, GiveUp, Finish
<1> QED BY <1>1, <1>2

\* A worker whose transaction holds no mark after the step, and that touches neither table,
\* keeps the invariant if it keeps its own part of it.
LEMMA LocalStep ==
    ASSUME IInv, NEW w \in Workers, Step(w), UNCHANGED <<processed, view>>,
           TxShape(w)', ReadIsPast(w)', MarkIsNew(w)', AckIsEarned(w)',
           tx'[w].mark => \A u \in Workers \ {w} : tx[u].mark => Evt(u) # Evt(w)',
           AckedIsProcessed'
    PROVE  IInv'
<1>1. TypeOK'
  BY TypeStep DEF IInv, Step, Next
<1>2. \A u \in Workers \ {w} :
         /\ msgs'[u] = msgs[u] /\ pc'[u] = pc[u] /\ cur'[u] = cur[u] /\ tx'[u] = tx[u]
         /\ Evt(u)' = Evt(u)
  BY OthersUntouched DEF IInv
<1>3. \A u \in Workers \ {w} : TxShape(u)' /\ ReadIsPast(u)' /\ MarkIsNew(u)' /\ AckIsEarned(u)'
  BY <1>2 DEF IInv, WorkersInv, TxShape, ReadIsPast, MarkIsNew, AckIsEarned
<1>4. WorkersInv'
  BY <1>3 DEF WorkersInv
<1>5. MarksAreExclusive'
  BY <1>2 DEF IInv, MarksAreExclusive
<1>6. ViewIsWhatIsProcessed'
  BY DEF IInv, ViewIsWhatIsProcessed
<1> QED BY <1>1, <1>4, <1>5, <1>6 DEF IInv

\* A worker that holds nothing and is not about to write or acknowledge satisfies its part.
LEMMA CleanWorker ==
    ASSUME NEW w \in Workers, tx'[w] = NoTx, pc'[w] \in {"fetch", "isProcessed", "getVersion"}
    PROVE  /\ TxShape(w)' /\ ReadIsPast(w)' /\ MarkIsNew(w)' /\ AckIsEarned(w)'
           /\ ~tx'[w].mark
<1>1. ~NoTx.mark
  BY DEF NoTx
<1>2. ~tx'[w].mark
  BY <1>1
<1> QED BY <1>2 DEF TxShape, ReadIsPast, MarkIsNew, AckIsEarned

\* Finishing a message and trying again leave the worker like that.
LEMMA FinishIsClean ==
    ASSUME TypeOK, NEW w \in Workers, Finish(w) \/ Retry(w)
    PROVE  tx'[w] = NoTx /\ pc'[w] \in {"fetch", "isProcessed", "getVersion"}
BY DEF TypeOK, Finish, Retry

\* Fetching, giving up, retrying and crashing.
LEMMA AbandonStep ==
    ASSUME IInv, NEW w \in Workers,
           \/ (\E m \in Message : Fetch(w, m)) \/ CommitAborted(w) \/ AckLost(w)
           \/ CallFails(w) \/ Crash(w) \/ (GetVersion(w) /\ Finish(w))
    PROVE  IInv'
<1>1. Step(w) /\ UNCHANGED <<processed, view, acked>>
  BY DEF Step, Proceed, Fails, Fetch, CommitAborted, AckLost, CallFails, Crash, GetVersion
<1>2. tx'[w] = NoTx /\ pc'[w] \in {"fetch", "isProcessed", "getVersion"}
  <2>1. ASSUME NEW m \in Message, Fetch(w, m)
        PROVE  tx'[w] = NoTx /\ pc'[w] \in {"fetch", "isProcessed", "getVersion"}
    BY <2>1 DEF Fetch, IInv, TypeOK, WorkersInv, TxShape
  <2>2. CASE Crash(w)
    BY <2>2 DEF Crash, IInv, TypeOK
  <2>3. CASE CommitAborted(w) \/ AckLost(w) \/ CallFails(w) \/ (GetVersion(w) /\ Finish(w))
    BY <2>3, FinishIsClean DEF IInv, CommitAborted, AckLost, CallFails, GiveUp
  <2> QED BY <2>1, <2>2, <2>3
<1>3. AckedIsProcessed'
  BY <1>1 DEF IInv, AckedIsProcessed
<1> QED BY <1>1, <1>2, <1>3, CleanWorker, LocalStep

---------------------------------------------------------------------------
(* The calls of Handle, in their order.                                    *)

LEMMA IsProcessedStep ==
    ASSUME IInv, NEW w \in Workers, IsProcessed(w)
    PROVE  IInv'
<1>1. Step(w) /\ UNCHANGED <<processed, view, acked>>
  BY DEF Step, Proceed, IsProcessed
<1>2. Evt(w)' = Evt(w) /\ tx'[w] = NoTx
  BY DEF IsProcessed, IInv, WorkersInv, TxShape, Evt, Msg
<1>3. ~NoTx.mark
  BY DEF NoTx
<1>4. TxShape(w)' /\ ReadIsPast(w)' /\ MarkIsNew(w)' /\ AckIsEarned(w)' /\ ~tx'[w].mark
  BY <1>1, <1>2, <1>3
     DEF IInv, TypeOK, IsProcessed, TxShape, ReadIsPast, MarkIsNew, AckIsEarned
<1>5. AckedIsProcessed'
  BY <1>1 DEF IInv, AckedIsProcessed
<1> QED BY <1>1, <1>4, <1>5, LocalStep

LEMMA GetVersionStep ==
    ASSUME IInv, NEW w \in Workers, GetVersion(w)
    PROVE  IInv'
<1>1. CASE Finish(w)
  BY <1>1, AbandonStep
<1>2. CASE ~Finish(w)
  <2> DEFINE v == view[Evt(w).agg]
  <2>1. Step(w) /\ UNCHANGED <<processed, view, acked>>
    BY DEF Step, Proceed, GetVersion
  <2>2. /\ pc[w] = "getVersion" /\ UNCHANGED <<msgs, tx>>
        /\ pc' = [pc EXCEPT ![w] = IF InOrder(w, v) THEN "handler" ELSE "mark"]
        /\ cur' = [cur EXCEPT ![w] = v]
        /\ Outdated(w, v) \/ InOrder(w, v)
    BY <1>2 DEF GetVersion
  <2>3. Evt(w)' = Evt(w) /\ tx'[w] = NoTx
    BY <2>2 DEF IInv, WorkersInv, TxShape, Evt, Msg
  <2>4. ~NoTx.mark /\ ~NoTx.aborted /\ NoTx.view = 0
    BY DEF NoTx
  <2>5. v \in 0..MaxVersion /\ Evt(w).ver \in 1..MaxVersion
    BY <2>2, CurrentMessage DEF IInv, TypeOK
  <2>6. cur'[w] = v /\ v = view'[Evt(w)'.agg]
    BY <2>1, <2>2, <2>3 DEF IInv, TypeOK
  <2> HIDE DEF v
  <2>7. pc'[w] = IF InOrder(w, v) THEN "handler" ELSE "mark"
    BY <2>2 DEF IInv, TypeOK
  <2>8. ReadIsPast(w)'
    BY <2>2, <2>3, <2>4, <2>5, <2>6, <2>7, ProjectionAssumption
       DEF ReadIsPast, InOrder, Outdated
  <2>9. TxShape(w)' /\ MarkIsNew(w)' /\ AckIsEarned(w)' /\ ~tx'[w].mark
    BY <2>3, <2>4, <2>7 DEF TxShape, MarkIsNew, AckIsEarned
  <2>10. AckedIsProcessed'
    BY <2>1 DEF IInv, AckedIsProcessed
  <2> QED BY <2>1, <2>8, <2>9, <2>10, LocalStep
<1> QED BY <1>1, <1>2

LEMMA HandleEventStep ==
    ASSUME IInv, NEW w \in Workers, HandleEvent(w)
    PROVE  IInv'
<1>1. Step(w) /\ UNCHANGED <<processed, view, acked>>
  BY DEF Step, HandleEvent
<1>2. Evt(w)' = Evt(w) /\ cur'[w] = cur[w] /\ pc[w] = "handler" /\ pc'[w] = "mark"
  BY DEF HandleEvent, IInv, TypeOK, Evt, Msg
<1>3. tx[w] = NoTx /\ tx'[w] = [tx[w] EXCEPT !.view = Evt(w).ver]
  BY <1>2 DEF HandleEvent, IInv, TypeOK, WorkersInv, TxShape
<1>4. tx'[w].view = Evt(w).ver /\ ~tx'[w].mark /\ ~tx'[w].aborted
  BY <1>3 DEF NoTx
<1>5. ReadIsPast(w)'
  BY <1>1, <1>2, <1>4 DEF IInv, WorkersInv, ReadIsPast
<1>6. TxShape(w)' /\ MarkIsNew(w)' /\ AckIsEarned(w)'
  BY <1>2, <1>4 DEF TxShape, MarkIsNew, AckIsEarned
<1>7. AckedIsProcessed'
  BY <1>1 DEF IInv, AckedIsProcessed
<1> QED BY <1>1, <1>4, <1>5, <1>6, <1>7, LocalStep

LEMMA MarkAsProcessedStep ==
    ASSUME IInv, NEW w \in Workers, MarkAsProcessed(w)
    PROVE  IInv'
<1>1. Step(w) /\ UNCHANGED <<processed, view, acked>>
  BY DEF Step, Proceed, MarkAsProcessed
<1>2. /\ Evt(w)' = Evt(w) /\ cur'[w] = cur[w] /\ pc[w] = "mark" /\ pc'[w] = "commit"
      /\ \A u \in Workers \ {w} : tx[u].mark => Evt(u) # Evt(w)
  BY DEF MarkAsProcessed, IInv, TypeOK, Evt, Msg
<1>3. AbortsTx(w) = (Evt(w) \in processed)
  BY DEF AbortsTx
<1>4. tx'[w] = [tx[w] EXCEPT !.mark = ~AbortsTx(w), !.aborted = AbortsTx(w)]
  BY DEF MarkAsProcessed, IInv, TypeOK
<1>5. tx[w] \in [view : 0..MaxVersion, mark : BOOLEAN, aborted : BOOLEAN]
  BY DEF IInv, TypeOK
<1>6. /\ tx'[w].view = tx[w].view
      /\ tx'[w].mark = ~AbortsTx(w) /\ tx'[w].aborted = AbortsTx(w)
  BY <1>4, <1>5
<1>7. ReadIsPast(w)'
  BY <1>1, <1>2, <1>6 DEF IInv, WorkersInv, ReadIsPast
<1>8. tx'[w].mark = ~tx'[w].aborted
  BY <1>6, <1>3
<1>9. TxShape(w)' /\ MarkIsNew(w)' /\ AckIsEarned(w)'
  <2>1. TxShape(w)'
    BY <1>2, <1>8 DEF TxShape
  <2>2. MarkIsNew(w)'
    BY <1>1, <1>2, <1>3, <1>6 DEF MarkIsNew
  <2>3. AckIsEarned(w)'
    BY <1>2 DEF AckIsEarned
  <2> QED BY <2>1, <2>2, <2>3
<1>10. AckedIsProcessed'
  BY <1>1 DEF IInv, AckedIsProcessed
<1> QED BY <1>1, <1>2, <1>7, <1>9, <1>10, LocalStep

LEMMA AckStep ==
    ASSUME IInv, NEW w \in Workers, Ack(w)
    PROVE  IInv'
<1>1. Step(w) /\ UNCHANGED <<processed, view>> /\ acked' = acked \cup {Msg(w)} /\ Finish(w)
  BY DEF Step, Proceed, Ack
<1>2. EventOf(Msg(w)) \in processed
  BY DEF Ack, IInv, WorkersInv, AckIsEarned, Evt
<1>3. AckedIsProcessed'
  BY <1>1, <1>2 DEF IInv, AckedIsProcessed
<1>4. tx'[w] = NoTx /\ pc'[w] \in {"fetch", "isProcessed", "getVersion"}
  BY <1>1, FinishIsClean DEF IInv
<1> QED BY <1>1, <1>3, <1>4, CleanWorker, LocalStep

---------------------------------------------------------------------------
(* The commit.                                                             *)

\* A transaction that is not aborted writes the next version of its aggregate and its record.
LEMMA CommitFacts ==
    ASSUME IInv, NEW w \in Workers, pc[w] = "commit", ~tx[w].aborted, Persist(w)
    PROVE  /\ Evt(w) \in Event /\ Evt(w) \notin processed
           /\ Evt(w).ver = view[Evt(w).agg] + 1
           /\ view' = [view EXCEPT ![Evt(w).agg] = Evt(w).ver]
           /\ processed' = processed \cup {Evt(w)}
<1>1. /\ Evt(w) \in Event /\ Evt(w).agg \in Aggregates /\ Evt(w).ver \in 1..MaxVersion
  BY CurrentMessage DEF IInv
<1>2. tx[w].mark
  BY DEF IInv, WorkersInv, TxShape
<1>3. Evt(w) \notin processed
  BY <1>2 DEF IInv, WorkersInv, MarkIsNew
<1>4. /\ view[Evt(w).agg] \in Nat /\ cur[w] \in Nat /\ Evt(w).ver \in Nat \ {0}
  BY <1>1, ProjectionAssumption DEF IInv, TypeOK
<1>5. Evt(w).ver > view[Evt(w).agg]
  BY <1>1, <1>3, <1>4 DEF IInv, ViewIsWhatIsProcessed
<1>6. /\ cur[w] <= view[Evt(w).agg]
      /\ \/ tx[w].view = 0 /\ Evt(w).ver <= cur[w]
         \/ tx[w].view = Evt(w).ver /\ Evt(w).ver = cur[w] + 1
  BY DEF IInv, WorkersInv, ReadIsPast
<1>7. Evt(w).ver = view[Evt(w).agg] + 1 /\ tx[w].view = Evt(w).ver
  BY <1>4, <1>5, <1>6
<1> QED BY <1>1, <1>3, <1>4, <1>7 DEF Persist

\* Two events with the same aggregate and version are the same.
LEMMA EventsEqual ==
    ASSUME NEW e \in Event, NEW f \in Event, e.agg = f.agg, e.ver = f.ver
    PROVE  e = f
BY DEF Event

LEMMA CommitStep ==
    ASSUME IInv, NEW w \in Workers, Commit(w) \/ CommitReplyLost(w)
    PROVE  IInv'
<1>1. /\ Step(w) /\ UNCHANGED acked
      /\ pc[w] = "commit" /\ ~tx[w].aborted /\ Persist(w)
  BY DEF Step, Proceed, Fails, Commit, CommitReplyLost
<1>2. TypeOK'
  BY <1>1, TypeStep DEF IInv, Step, Next
<1>3. /\ Evt(w) \in Event /\ Evt(w) \notin processed
      /\ Evt(w).ver = view[Evt(w).agg] + 1
      /\ view' = [view EXCEPT ![Evt(w).agg] = Evt(w).ver]
      /\ processed' = processed \cup {Evt(w)}
  BY <1>1, CommitFacts
<1>4. /\ view \in [Aggregates -> 0..MaxVersion] /\ Evt(w).agg \in Aggregates
      /\ \A a \in Aggregates : view[a] \in Nat
      /\ \A a \in Aggregates : view[a] <= view'[a] /\ view'[a] \in Nat
  BY <1>2, <1>3, ProjectionAssumption DEF IInv, TypeOK, Event
<1>5. ViewIsWhatIsProcessed'
  <2> SUFFICES ASSUME NEW e \in Event PROVE e \in processed' <=> e.ver <= view'[e.agg]
    BY DEF ViewIsWhatIsProcessed
  <2>1. e.agg \in Aggregates /\ e.ver \in Nat /\ (e \in processed <=> e.ver <= view[e.agg])
    BY ProjectionAssumption DEF Event, IInv, ViewIsWhatIsProcessed
  <2>2. CASE e.agg # Evt(w).agg
    BY <1>3, <1>4, <2>1, <2>2
  <2>3. CASE e.agg = Evt(w).agg
    <3>1. e.ver <= view'[e.agg] <=> e.ver <= view[e.agg] \/ e.ver = Evt(w).ver
      BY <1>3, <1>4, <2>1, <2>3
    <3>2. e = Evt(w) <=> e.ver = Evt(w).ver
      BY <1>3, <2>3, EventsEqual
    <3> QED BY <1>3, <2>1, <3>1, <3>2
  <2> QED BY <2>2, <2>3
<1>6. \A u \in Workers \ {w} :
         /\ msgs'[u] = msgs[u] /\ pc'[u] = pc[u] /\ cur'[u] = cur[u] /\ tx'[u] = tx[u]
         /\ Evt(u)' = Evt(u)
  BY <1>1, OthersUntouched DEF IInv
<1>7. ASSUME NEW u \in Workers \ {w}
      PROVE  TxShape(u)' /\ ReadIsPast(u)' /\ MarkIsNew(u)' /\ AckIsEarned(u)'
  <2>1. TxShape(u) /\ ReadIsPast(u) /\ MarkIsNew(u) /\ AckIsEarned(u)
    BY DEF IInv, WorkersInv
  <2>2. TxShape(u)' /\ AckIsEarned(u)'
    BY <1>3, <1>6, <2>1 DEF TxShape, AckIsEarned
  <2>3. ReadIsPast(u)'
    <3> SUFFICES ASSUME pc[u] \in {"handler", "mark", "commit"}
                 PROVE  cur[u] <= view'[Evt(u).agg]
      BY <1>6, <2>1 DEF ReadIsPast
    <3>1. Evt(u).agg \in Aggregates /\ cur[u] \in Nat
      BY CurrentMessage, ProjectionAssumption DEF IInv, TypeOK
    <3> QED BY <1>4, <2>1, <3>1 DEF ReadIsPast
  <2>4. tx[w].mark
    BY <1>1 DEF IInv, WorkersInv, TxShape
  <2>5. MarkIsNew(u)'
    BY <1>3, <1>6, <2>1, <2>4 DEF IInv, MarksAreExclusive, MarkIsNew
  <2> QED BY <2>2, <2>3, <2>5
<1>8. tx'[w] = NoTx /\ pc'[w] \in {"fetch", "isProcessed", "getVersion", "ack"}
      /\ (pc'[w] = "ack" => Evt(w)' = Evt(w))
  <2>1. CASE Commit(w)
    BY <2>1 DEF Commit, IInv, TypeOK, Evt, Msg
  <2>2. CASE CommitReplyLost(w)
    BY <2>2, FinishIsClean DEF CommitReplyLost, GiveUp, IInv
  <2> QED BY <2>1, <2>2
<1>9. ~NoTx.mark
  BY DEF NoTx
<1>10. TxShape(w)' /\ ReadIsPast(w)' /\ MarkIsNew(w)' /\ AckIsEarned(w)'
  BY <1>3, <1>8, <1>9 DEF TxShape, ReadIsPast, MarkIsNew, AckIsEarned
<1>11. WorkersInv'
  BY <1>7, <1>10 DEF WorkersInv
<1>12. MarksAreExclusive'
  BY <1>6, <1>8, <1>9 DEF IInv, MarksAreExclusive
<1>13. AckedIsProcessed'
  BY <1>1, <1>3 DEF IInv, AckedIsProcessed
<1> QED BY <1>2, <1>5, <1>11, <1>12, <1>13 DEF IInv

---------------------------------------------------------------------------
(* The theorems.                                                           *)

LEMMA InitIInv == Init => IInv
<1> SUFFICES ASSUME Init PROVE IInv
  OBVIOUS
<1>1. TypeOK
  BY InitTyped
<1>2. ~NoTx.mark
  BY DEF NoTx
<1>3. \A w \in Workers : pc[w] = "fetch" /\ tx[w] = NoTx
  BY DEF Init
<1>4. WorkersInv /\ MarksAreExclusive
  BY <1>2, <1>3 DEF WorkersInv, MarksAreExclusive, TxShape, ReadIsPast, MarkIsNew, AckIsEarned
<1>5. ViewIsWhatIsProcessed /\ AckedIsProcessed
  BY ProjectionAssumption DEF Init, ViewIsWhatIsProcessed, AckedIsProcessed, Event
<1> QED BY <1>1, <1>4, <1>5 DEF IInv

LEMMA NextIInv == IInv /\ [Next]_vars => IInv'
<1> SUFFICES ASSUME IInv, [Next]_vars PROVE IInv'
  OBVIOUS
<1>1. CASE UNCHANGED vars
  <2>1. TypeOK'
    BY TypeStep DEF IInv
  <2> QED BY <1>1, <2>1 DEF IInv, WorkersInv, TxShape, ReadIsPast, MarkIsNew, AckIsEarned,
                            MarksAreExclusive, ViewIsWhatIsProcessed, AckedIsProcessed, Evt,
                            Msg, vars
<1>2. ASSUME NEW w \in Workers, FetchTimesOut(w) PROVE IInv'
  BY <1>1, <1>2 DEF FetchTimesOut
<1>3. ASSUME NEW w \in Workers,
             (\E m \in Message : Fetch(w, m)) \/ Proceed(w) \/ HandleEvent(w) \/ Fails(w)
      PROVE  IInv'
  BY <1>3, AbandonStep, IsProcessedStep, GetVersionStep, HandleEventStep, MarkAsProcessedStep,
     AckStep, CommitStep
     DEF Proceed, Fails
<1> QED BY <1>1, <1>2, <1>3 DEF Next

\* IInv is an invariant of the read side.
THEOREM Inductive == Spec => []IInv
BY InitIInv, NextIInv, PTL DEF Spec

\* Exactly once: for any number of workers, copies of a message and failures, the view has applied
\* an event exactly when processed_events has it.
THEOREM ExactlyOnce == Spec => []ViewIsWhatIsProcessed
<1>1. IInv => ViewIsWhatIsProcessed
  BY DEF IInv
<1> QED BY <1>1, Inductive, PTL

\* Subscribe acknowledges no message whose event Handle has not recorded.
THEOREM NoEventIsLost == Spec => []AckedIsProcessed
<1>1. IInv => AckedIsProcessed
  BY DEF IInv
<1> QED BY <1>1, Inductive, PTL

\* Handle implements the abstract read model: the only steps that change the view or the records
\* are commits, and a commit applies the next version of one aggregate together with its record.
THEOREM RefinesReadModel == Spec => ImplementsReadModel
<1>1. Init => ReadModelSpec!Init
  BY DEF Init, ReadModelSpec!Init
<1>2. IInv /\ [Next]_vars => [ReadModelSpec!Next]_<<processed, view>>
  <2> SUFFICES ASSUME IInv, [Next]_vars, ~UNCHANGED <<processed, view>>
               PROVE  ReadModelSpec!Next
    OBVIOUS
  <2>1. PICK w \in Workers : Commit(w) \/ CommitReplyLost(w)
    BY DEF Next, vars, Fetch, FetchTimesOut, Proceed, Ack, IsProcessed, GetVersion,
           MarkAsProcessed, CommitAborted, HandleEvent, Fails, AckLost, CallFails, Crash
  <2>2. pc[w] = "commit" /\ ~tx[w].aborted /\ Persist(w)
    BY <2>1 DEF Commit, CommitReplyLost
  <2>3. /\ Evt(w) \in Event /\ Evt(w).ver = view[Evt(w).agg] + 1
        /\ view' = [view EXCEPT ![Evt(w).agg] = Evt(w).ver]
        /\ processed' = processed \cup {Evt(w)}
    BY <2>2, CommitFacts
  <2>4. Evt(w).agg \in Aggregates /\ Evt(w).ver <= MaxVersion /\ view[Evt(w).agg] \in Nat
    BY <2>3, ProjectionAssumption DEF Event, IInv, TypeOK
  <2>5. Evt(w) = [agg |-> Evt(w).agg, ver |-> view[Evt(w).agg] + 1]
    BY <2>3 DEF Event
  <2>6. ReadModelSpec!Apply(Evt(w).agg)
    BY <2>3, <2>4, <2>5, ProjectionAssumption DEF ReadModelSpec!Apply
  <2> QED BY <2>4, <2>6 DEF ReadModelSpec!Next
<1> QED BY <1>1, <1>2, Inductive, PTL DEF Spec, ImplementsReadModel, ReadModelSpec!Spec
===========================================================================
