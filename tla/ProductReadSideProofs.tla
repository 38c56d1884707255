----------------------- MODULE ProductReadSideProofs ----------------------
(***************************************************************************)
(* Proofs about module ProductReadSide: the sample's projection, whose     *)
(* view is written outside the transaction that records the event, is safe *)
(* with the one subscriber that sample/main.go starts.                     *)
(***************************************************************************)
EXTENDS ProductReadSide, ProjectionProofs

\* One step of worker w.
ReadSideStep(w) ==
    \/ ((\E m \in Message : Fetch(w, m)) \/ FetchTimesOut(w) \/ Proceed(w) \/ Fails(w))
          /\ UNCHANGED lost
    \/ HandleProductEvent(w) \/ ErrorOnlyLogged(w)

---------------------------------------------------------------------------
(* Type correctness, for any number of workers.                            *)

LEMMA ReadSideTypeStep ==
    ASSUME ReadSideTypeOK, [ReadSideNext]_readVars
    PROVE  ReadSideTypeOK'
<1> USE ReadSideAssumption
<1>0. TypeOK /\ lost \subseteq Event
  BY DEF ReadSideTypeOK
<1>1. CASE UNCHANGED readVars
  BY <1>0, <1>1 DEF ReadSideTypeOK, TypeOK, readVars, vars
<1>2. ASSUME NEW w \in Workers, ReadSideStep(w) PROVE ReadSideTypeOK'
  <2>1. CASE ((\E m \in Message : Fetch(w, m)) \/ FetchTimesOut(w) \/ Proceed(w) \/ Fails(w))
                /\ UNCHANGED lost
    BY <1>0, <2>1, HandleTyped DEF ReadSideTypeOK
  <2>2. CASE HandleProductEvent(w)
    <3>1. Evt(w).agg \in Aggregates /\ Evt(w).ver \in 0..MaxVersion
      BY <1>0, <2>2, CurrentMessage, ProjectionAssumption DEF HandleProductEvent
    <3>2. view' \in [Aggregates -> 0..MaxVersion]
      BY <1>0, <2>2, <3>1 DEF HandleProductEvent, WriteProductView, TypeOK
    <3> QED BY <1>0, <2>2, <3>2 DEF HandleProductEvent, ReadSideTypeOK, TypeOK
  <2>3. CASE ErrorOnlyLogged(w)
    <3>1. Evt(w) \in Event
      BY <1>0, <2>3, CurrentMessage DEF ErrorOnlyLogged
    <3> QED BY <1>0, <2>3, <3>1 DEF ErrorOnlyLogged, ReadSideTypeOK, TypeOK
  <2> QED BY <1>2, <2>1, <2>2, <2>3 DEF ReadSideStep
<1> QED BY <1>1, <1>2 DEF ReadSideNext, ReadSideStep

LEMMA ReadSideInitTyped == ReadSideInit => ReadSideTypeOK
BY InitTyped DEF ReadSideInit, ReadSideTypeOK

\* Every variable of the sample's read side keeps its type, for any number of workers.
THEOREM ReadSideTypeCorrect == ReadSideSpec => []ReadSideTypeOK
<1>1. ReadSideTypeOK /\ [ReadSideNext]_readVars => ReadSideTypeOK'
  BY ReadSideTypeStep
<1> QED BY <1>1, ReadSideInitTyped, PTL DEF ReadSideSpec

---------------------------------------------------------------------------
(* The inductive invariant, for one worker.                                *)

\* The event needs no further write: the view shows it, or its write is known to be lost, or
\* there is no row it could update.
Settled(e) == e.ver <= view[e.agg] \/ e \in lost \/ e.agg \in Orphans

\* The transaction of Handle never contains the view.
ViewIsOutsideTx(w) == tx[w].view = 0

\* The version that Handle has read is still that of the view when the handler writes.
ReadIsCurrent(w) ==
    pc[w] = "handler" => cur[w] = view[Evt(w).agg] /\ Evt(w).ver = cur[w] + 1

\* The record follows the write.
WrittenBeforeRecorded(w) == pc[w] \in {"mark", "commit"} => Settled(Evt(w))

ReadSideIInv ==
    /\ ReadSideTypeOK
    /\ \A w \in Workers : ViewIsOutsideTx(w) /\ ReadIsCurrent(w) /\ WrittenBeforeRecorded(w)
    /\ ProcessedIsVisible

\* What the repository's statement does when the read version is current: it shows the next
\* version, unless the product has no row and this event does not create one.
LEMMA WriteFacts ==
    ASSUME ReadSideIInv, NEW w \in Workers, HandleProductEvent(w)
    PROVE  /\ Evt(w).agg \in Aggregates
           /\ \/ view' = [view EXCEPT ![Evt(w).agg] = view[Evt(w).agg] + 1]
                    /\ Evt(w).ver = view[Evt(w).agg] + 1
              \/ view' = view /\ Evt(w).agg \in Orphans
<1>1. pc[w] = "handler" /\ WriteProductView(Evt(w))
  BY DEF HandleProductEvent
<1>2. /\ Evt(w).agg \in Aggregates /\ Evt(w).ver \in Nat
  BY <1>1, CurrentMessage, ProjectionAssumption DEF ReadSideIInv, ReadSideTypeOK
<1>3. Evt(w).ver = view[Evt(w).agg] + 1 /\ view[Evt(w).agg] \in Nat
  BY <1>1, <1>2, ProjectionAssumption
     DEF ReadSideIInv, ReadIsCurrent, ReadSideTypeOK, TypeOK
<1>4. CASE Created(Evt(w)) \/ view[Evt(w).agg] > 0
  BY <1>1, <1>2, <1>3, <1>4 DEF WriteProductView
<1>5. CASE ~(Created(Evt(w)) \/ view[Evt(w).agg] > 0)
  BY <1>1, <1>2, <1>3, <1>5 DEF WriteProductView, Created
<1> QED BY <1>4, <1>5

\* What the view shows, and what is lost, stays so.
LEMMA SettledStays ==
    ASSUME ReadSideIInv, NEW e \in Event, Settled(e), lost \subseteq lost',
           \/ view' = view
           \/ \E w \in Workers : HandleProductEvent(w)
    PROVE  Settled(e)'
<1>1. e.agg \in Aggregates /\ e.ver \in Nat /\ view \in [Aggregates -> Nat]
  BY ProjectionAssumption DEF Event, ReadSideIInv, ReadSideTypeOK, TypeOK
<1>2. view'[e.agg] \in Nat /\ view[e.agg] <= view'[e.agg]
  <2>1. CASE view' = view
    BY <1>1, <2>1
  <2>2. CASE \E w \in Workers : HandleProductEvent(w)
    BY <1>1, <2>2, WriteFacts
  <2> QED BY <2>1, <2>2
<1> QED BY <1>1, <1>2 DEF Settled

\* Steps of Subscribe and Handle other than the handler: the view stays, only settled events are
\* recorded.
LEMMA FrameworkStep ==
    ASSUME ReadSideIInv, NEW w \in Workers, Workers = {w}, UNCHANGED lost,
           (\E m \in Message : Fetch(w, m)) \/ FetchTimesOut(w) \/ Proceed(w) \/ Fails(w)
    PROVE  ReadSideIInv' /\ view' = view
<1> DEFINE P == tx'[w].view = 0 /\ view' = view /\ processed' \subseteq processed \cup {Evt(w)}
           Q == /\ pc'[w] \in {"handler", "mark", "commit"} => Evt(w)' = Evt(w)
                /\ pc'[w] = "handler" => cur'[w] = view[Evt(w).agg] /\ Evt(w).ver = cur'[w] + 1
                /\ pc'[w] \in {"mark", "commit"} => Settled(Evt(w))
                /\ processed' # processed => pc[w] = "commit"
<1>1. /\ TypeOK /\ tx[w].view = 0 /\ ReadIsCurrent(w) /\ WrittenBeforeRecorded(w)
      /\ ReadSideTypeOK
  BY DEF ReadSideIInv, ReadSideTypeOK, ViewIsOutsideTx
<1>2. NoTx.view = 0
  BY DEF NoTx
<1>3. P /\ Q
  <2>1. ASSUME NEW m \in Message, Fetch(w, m) PROVE P /\ Q
    BY <1>1, <2>1 DEF Fetch, TypeOK
  <2>2. CASE FetchTimesOut(w)
    BY <1>1, <2>2 DEF FetchTimesOut, vars, TypeOK
  <2>3. CASE Ack(w) \/ AckLost(w)
    BY <1>1, <1>2, <2>3 DEF Ack, AckLost, Finish, TypeOK
  <2>4. CASE IsProcessed(w)
    BY <1>1, <2>4 DEF IsProcessed, TypeOK
  <2>5. CASE GetVersion(w)
    <3>1. CASE Finish(w)
      BY <1>1, <1>2, <2>5, <3>1 DEF GetVersion, Finish, TypeOK
    <3>2. CASE ~Finish(w)
      <4>1. /\ pc'[w] = IF InOrder(w, view[Evt(w).agg]) THEN "handler" ELSE "mark"
            /\ cur'[w] = view[Evt(w).agg] /\ UNCHANGED <<msgs, tx, view, processed>>
            /\ Outdated(w, view[Evt(w).agg]) \/ InOrder(w, view[Evt(w).agg])
        BY <1>1, <2>5, <3>2 DEF GetVersion, TypeOK
      <4>2. Evt(w)' = Evt(w)
        BY <4>1 DEF Evt, Msg
      <4> QED BY <1>1, <4>1, <4>2 DEF InOrder, Outdated, Settled
    <3> QED BY <3>1, <3>2
  <2>6. CASE MarkAsProcessed(w)
    <3>1. /\ tx'[w] = [tx[w] EXCEPT !.mark = ~AbortsTx(w), !.aborted = AbortsTx(w)]
          /\ tx[w] \in [view : 0..MaxVersion, mark : BOOLEAN, aborted : BOOLEAN]
          /\ pc[w] = "mark" /\ pc'[w] = "commit" /\ UNCHANGED <<msgs, view, processed>>
      BY <1>1, <2>6 DEF MarkAsProcessed, TypeOK
    <3>2. tx'[w].view = 0 /\ Evt(w)' = Evt(w)
      BY <1>1, <3>1 DEF Evt, Msg
    <3> QED BY <1>1, <3>1, <3>2 DEF WrittenBeforeRecorded
  <2>7. CASE Commit(w)
    BY <1>1, <1>2, <2>7 DEF Commit, Persist, TypeOK
  <2>8. CASE CommitReplyLost(w)
    BY <1>1, <1>2, <2>8, FinishIsClean DEF CommitReplyLost, Persist, GiveUp
  <2>9. CASE CommitAborted(w) \/ CallFails(w)
    BY <1>1, <1>2, <2>9, FinishIsClean DEF CommitAborted, CallFails, GiveUp
  <2>10. CASE Crash(w)
    BY <1>1, <1>2, <2>10 DEF Crash, TypeOK
  <2> QED BY <2>1, <2>2, <2>3, <2>4, <2>5, <2>6, <2>7, <2>8, <2>9, <2>10 DEF Proceed, Fails
<1>4. \A e : Settled(e)' <=> Settled(e)
  BY <1>3 DEF Settled
<1>5. ViewIsOutsideTx(w)' /\ ReadIsCurrent(w)' /\ WrittenBeforeRecorded(w)'
  BY <1>3, <1>4 DEF ViewIsOutsideTx, ReadIsCurrent, WrittenBeforeRecorded
<1>6. ProcessedIsVisible'
  <2> SUFFICES ASSUME NEW e \in processed' PROVE Settled(e)
    BY <1>4 DEF ProcessedIsVisible, Settled
  <2>1. CASE e \in processed
    BY <2>1 DEF ReadSideIInv, ProcessedIsVisible, Settled
  <2>2. CASE e \notin processed
    BY <1>1, <1>3, <2>2 DEF WrittenBeforeRecorded
  <2> QED BY <2>1, <2>2
<1>7. ReadSideTypeOK'
  BY ReadSideTypeStep DEF ReadSideIInv, ReadSideNext
<1> HIDE DEF P, Q
<1> QED BY <1>3, <1>5, <1>6, <1>7 DEF ReadSideIInv, P

\* The handler: after it, the event is settled, whether the statement succeeded or not.
LEMMA HandlerStep ==
    ASSUME ReadSideIInv, NEW w \in Workers, Workers = {w},
           HandleProductEvent(w) \/ ErrorOnlyLogged(w)
    PROVE  ReadSideIInv'
<1>1. /\ TypeOK /\ processed \subseteq Event /\ pc[w] = "handler"
      /\ pc'[w] = "mark" /\ UNCHANGED <<msgs, tx, processed>> /\ lost \subseteq lost'
  BY DEF ReadSideIInv, ReadSideTypeOK, TypeOK, HandleProductEvent, ErrorOnlyLogged
<1>2. Evt(w)' = Evt(w) /\ Evt(w) \in Event
  BY <1>1, CurrentMessage DEF Evt, Msg
<1>3. Settled(Evt(w))'
  <2>1. CASE ErrorOnlyLogged(w)
    BY <1>2, <2>1 DEF ErrorOnlyLogged, Settled
  <2>2. CASE HandleProductEvent(w)
    <3>1. view \in [Aggregates -> Nat]
      BY <1>1, ProjectionAssumption DEF TypeOK
    <3> QED BY <1>2, <2>2, <3>1, WriteFacts DEF Settled
  <2> QED BY <2>1, <2>2
<1>4. ViewIsOutsideTx(w)' /\ ReadIsCurrent(w)' /\ WrittenBeforeRecorded(w)'
  BY <1>1, <1>2, <1>3 DEF ReadSideIInv, ViewIsOutsideTx, ReadIsCurrent, WrittenBeforeRecorded
<1>5. ProcessedIsVisible'
  <2> SUFFICES ASSUME NEW e \in processed PROVE Settled(e)'
    BY <1>1 DEF ProcessedIsVisible, Settled
  <2>1. Settled(e) /\ e \in Event
    BY <1>1 DEF ReadSideIInv, ProcessedIsVisible, Settled
  <2>2. view' = view \/ HandleProductEvent(w)
    BY DEF ErrorOnlyLogged
  <2> QED BY <1>1, <2>1, <2>2, SettledStays
<1>6. ReadSideTypeOK'
  BY ReadSideTypeStep DEF ReadSideIInv, ReadSideNext
<1> QED BY <1>4, <1>5, <1>6 DEF ReadSideIInv

---------------------------------------------------------------------------
(* The theorems, for one worker.                                           *)

LEMMA ReadSideInitIInv == ReadSideInit => ReadSideIInv
<1> SUFFICES ASSUME ReadSideInit PROVE ReadSideIInv
  OBVIOUS
<1>1. NoTx.view = 0
  BY DEF NoTx
<1>2. \A w \in Workers : pc[w] = "fetch" /\ tx[w] = NoTx
  BY DEF ReadSideInit, Init
<1>3. \A w \in Workers : ViewIsOutsideTx(w) /\ ReadIsCurrent(w) /\ WrittenBeforeRecorded(w)
  BY <1>1, <1>2 DEF ViewIsOutsideTx, ReadIsCurrent, WrittenBeforeRecorded
<1>4. ProcessedIsVisible
  BY DEF ReadSideInit, Init, ProcessedIsVisible
<1> QED BY <1>3, <1>4, ReadSideInitTyped DEF ReadSideIInv

LEMMA ReadSideNextIInv ==
    ASSUME NEW w, Workers = {w}
    PROVE  ReadSideIInv /\ [ReadSideNext]_readVars => ReadSideIInv'
<1> SUFFICES ASSUME ReadSideIInv, [ReadSideNext]_readVars PROVE ReadSideIInv'
  OBVIOUS
<1>1. CASE UNCHANGED readVars
  <2>1. ReadSideTypeOK'
    BY ReadSideTypeStep DEF ReadSideIInv
  <2> QED BY <1>1, <2>1 DEF ReadSideIInv, ViewIsOutsideTx, ReadIsCurrent, WrittenBeforeRecorded,
                            Settled, ProcessedIsVisible, Evt, Msg, readVars, vars
<1>2. CASE ReadSideNext
  BY <1>2, FrameworkStep, HandlerStep DEF ReadSideNext
<1> QED BY <1>1, <1>2

\* With one worker the invariant holds.
THEOREM ReadSideInductive ==
    ASSUME NEW w, Workers = {w}
    PROVE  ReadSideSpec => []ReadSideIInv
<1>1. ReadSideIInv /\ [ReadSideNext]_readVars => ReadSideIInv'
  BY ReadSideNextIInv
<1> QED BY <1>1, ReadSideInitIInv, PTL DEF ReadSideSpec

\* With one worker no event is recorded before the view shows it, unless its write was lost or
\* its product has no row, whatever crashes, redeliveries and failing calls come in between.
THEOREM RecordedIsVisible ==
    ASSUME NEW w, Workers = {w}
    PROVE  ReadSideSpec => []ProcessedIsVisible
<1>1. ReadSideIInv => ProcessedIsVisible
  BY DEF ReadSideIInv
<1> QED BY <1>1, ReadSideInductive, PTL

\* With one worker the repository, which compares no versions, never puts an old one back.
THEOREM ViewIsMonotonic ==
    ASSUME NEW w, Workers = {w}
    PROVE  ReadSideSpec => ViewNeverRegresses
<1>1. ReadSideIInv /\ [ReadSideNext]_readVars
        => [\A a \in Aggregates : view'[a] >= view[a]]_readVars
  <2> SUFFICES ASSUME ReadSideIInv, ReadSideNext, NEW a \in Aggregates
               PROVE  view'[a] >= view[a]
    OBVIOUS
  <2>1. view \in [Aggregates -> Nat]
    BY ProjectionAssumption DEF ReadSideIInv, ReadSideTypeOK, TypeOK
  <2>2. CASE view' = view
    BY <2>1, <2>2
  <2>3. CASE HandleProductEvent(w)
    BY <2>1, <2>3, WriteFacts
  <2> QED BY <2>2, <2>3, FrameworkStep DEF ReadSideNext, ErrorOnlyLogged
<1> QED BY <1>1, ReadSideInductive, PTL DEF ReadSideSpec, ViewNeverRegresses

---------------------------------------------------------------------------
(* No message is lost, for any number of workers: it takes the order of    *)
(* recording and acknowledging only, which the sample's handler leaves to  *)
(* Handle.                                                                 *)

AckIInv == ReadSideTypeOK /\ AckedIsProcessed /\ \A w \in Workers : AckIsEarned(w)

\* A step of worker w leaves the other workers alone.
LEMMA ReadSideOthers ==
    ASSUME TypeOK, NEW w \in Workers, ReadSideStep(w), NEW u \in Workers \ {w}
    PROVE  pc'[u] = pc[u] /\ Evt(u)' = Evt(u)
<1>1. CASE HandleProductEvent(w) \/ ErrorOnlyLogged(w)
  BY <1>1 DEF HandleProductEvent, ErrorOnlyLogged, TypeOK, Evt, Msg
<1>2. CASE Step(w)
  BY <1>2, OthersUntouched
<1> QED BY <1>1, <1>2 DEF ReadSideStep, Step

\* Records are kept, and a worker only gets to acknowledge a recorded event.
LEMMA AckFacts ==
    ASSUME TypeOK, NEW w \in Workers, AckIsEarned(w), ReadSideStep(w)
    PROVE  /\ processed \subseteq processed' /\ AckIsEarned(w)'
           /\ acked' = acked \/ (pc[w] = "ack" /\ acked' = acked \cup {Msg(w)})
<1>1. CASE Finish(w) \/ Retry(w)
  <2>1. AckIsEarned(w)'
    BY <1>1, FinishIsClean DEF AckIsEarned
  <2>2. processed \subseteq processed'
    BY DEF ReadSideStep, Proceed, Fails, Fetch, FetchTimesOut, vars, Ack, IsProcessed, GetVersion,
           MarkAsProcessed, Commit, CommitAborted, AckLost, CommitReplyLost, CallFails, Crash,
           Persist, HandleProductEvent, ErrorOnlyLogged
  <2>3. acked' = acked \/ (pc[w] = "ack" /\ acked' = acked \cup {Msg(w)})
    BY DEF ReadSideStep, Proceed, Fails, Fetch, FetchTimesOut, vars, Ack, IsProcessed, GetVersion,
           MarkAsProcessed, Commit, CommitAborted, AckLost, CommitReplyLost, CallFails, Crash,
           HandleProductEvent, ErrorOnlyLogged
  <2> QED BY <2>1, <2>2, <2>3
<1>2. CASE FetchTimesOut(w)
  BY <1>2 DEF FetchTimesOut, vars, AckIsEarned, Evt, Msg
<1>3. CASE (\E m \in Message : Fetch(w, m)) \/ Crash(w) \/ HandleProductEvent(w)
              \/ ErrorOnlyLogged(w) \/ MarkAsProcessed(w)
  <2>1. pc'[w] # "ack" /\ UNCHANGED <<acked, processed>>
    BY <1>3 DEF TypeOK, Fetch, Crash, HandleProductEvent, ErrorOnlyLogged, MarkAsProcessed
  <2> QED BY <2>1 DEF AckIsEarned
<1>4. CASE IsProcessed(w) \/ (GetVersion(w) /\ ~Finish(w))
  <2>1. /\ UNCHANGED <<acked, processed, msgs>>
        /\ pc'[w] = "ack" => Evt(w) \in processed
    BY <1>4 DEF TypeOK, IsProcessed, GetVersion
  <2>2. Evt(w)' = Evt(w)
    BY <2>1 DEF Evt, Msg
  <2> QED BY <2>1, <2>2 DEF AckIsEarned
<1>5. CASE Commit(w)
  <2>1. Evt(w)' = Evt(w) /\ processed' = processed \cup {Evt(w)} /\ UNCHANGED acked
    BY <1>5 DEF Commit, Persist, Evt, Msg
  <2> QED BY <2>1 DEF AckIsEarned
<1> QED BY <1>1, <1>2, <1>3, <1>4, <1>5
        DEF ReadSideStep, Proceed, Fails, Ack, CommitAborted, AckLost, CommitReplyLost, CallFails,
            GiveUp

LEMMA AckStepKeeps == AckIInv /\ [ReadSideNext]_readVars => AckIInv'
<1> SUFFICES ASSUME AckIInv, [ReadSideNext]_readVars PROVE AckIInv'
  OBVIOUS
<1>1. ReadSideTypeOK' /\ TypeOK
  BY ReadSideTypeStep DEF AckIInv, ReadSideTypeOK
<1>2. CASE UNCHANGED readVars
  BY <1>1, <1>2 DEF AckIInv, AckedIsProcessed, AckIsEarned, Evt, Msg, readVars, vars
<1>3. ASSUME NEW w \in Workers, ReadSideStep(w) PROVE AckIInv'
  <2>1. /\ processed \subseteq processed' /\ AckIsEarned(w)'
        /\ acked' = acked \/ (pc[w] = "ack" /\ acked' = acked \cup {Msg(w)})
    BY <1>1, <1>3, AckFacts DEF AckIInv
  <2>2. AckedIsProcessed'
    BY <2>1 DEF AckIInv, AckedIsProcessed, AckIsEarned, Evt
  <2>3. \A u \in Workers \ {w} : AckIsEarned(u)'
    BY <1>1, <1>3, <2>1, ReadSideOthers DEF AckIInv, AckIsEarned
  <2> QED BY <1>1, <2>1, <2>2, <2>3 DEF AckIInv
<1> QED BY <1>2, <1>3 DEF ReadSideNext, ReadSideStep

LEMMA AckInductive == ReadSideSpec => []AckIInv
<1>1. ReadSideInit => AckIInv
  <2> SUFFICES ASSUME ReadSideInit PROVE AckIInv
    OBVIOUS
  <2>1. acked = {} /\ \A w \in Workers : pc[w] = "fetch"
    BY DEF ReadSideInit, Init
  <2> QED BY <2>1, ReadSideInitTyped DEF AckIInv, AckedIsProcessed, AckIsEarned
<1> QED BY <1>1, AckStepKeeps, PTL DEF ReadSideSpec

\* The sample's projection acknowledges no message whose event it has not recorded, for any number
\* of workers, although its view is written outside the transaction of the record.
THEOREM NoSampleEventIsLost == ReadSideSpec => []AckedIsProcessed
<1>1. AckIInv => AckedIsProcessed
  BY DEF AckIInv
<1> QED BY <1>1, AckInductive, PTL
===========================================================================
