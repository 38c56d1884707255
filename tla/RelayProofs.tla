---------------------------- MODULE RelayProofs ---------------------------
(***************************************************************************)
(* Proofs about module Relay: delivery from the outbox to the broker is at *)
(* least once, duplicates come from rollbacks only, and a single relay     *)
(* keeps the order of timestamps.                                          *)
(***************************************************************************)
EXTENDS Relay, FiniteSetTheorems, SequenceTheorems, TLAPS

\* One step of relay r.
Step(r) == Work(r) \/ BatchFails(r) \/ PublishReplyLost(r) \/ Stop(r) \/ Return(r)

---------------------------------------------------------------------------
(* The inductive invariant.                                                *)

\* The rows of a batch are distinct, committed and unmarked, at most BatchSize of them.
BatchShape(r) ==
    /\ Len(batch[r]) <= BatchSize /\ next[r] <= Len(batch[r])
    /\ \A i, j \in 1..Len(batch[r]) : i # j => batch[r][i] # batch[r][j]
    /\ \A i \in 1..Len(batch[r]) : batch[r][i] \notin published

\* FOR UPDATE SKIP LOCKED: no row is in two batches.
BatchesAreDisjoint ==
    \A q, r \in Relays : q # r =>
        \A i \in 1..Len(batch[q]), j \in 1..Len(batch[r]) : batch[q][i] # batch[r][j]

\* What a relay is past, the broker has.
SentIsDelivered(r) ==
    \A i \in 1..next[r] : HasTopic(batch[r][i]) => batch[r][i] \in Elements(stream)

\* An event that is neither marked nor sent by a batch in progress has no more copies in the
\* stream than rolled back batches have sent.
CopiesAreAccounted ==
    \A e \in outbox :
        e \notin published /\ (\A r \in Relays : e \notin Sent(r)) => Copies(e) <= undone[e]

IInv ==
    /\ TypeOK /\ IsFiniteSet(outbox)
    /\ \A r \in Relays : BatchShape(r) /\ SentIsDelivered(r)
    /\ BatchesAreDisjoint
    /\ PublishedIsDelivered /\ CopiesAreAccounted /\ DuplicatesNeedARollback

---------------------------------------------------------------------------
(* The operators of the model.                                             *)

\* The number of copies of an event in a sequence, and what appending does to it.
CopiesOf(e, s) == Cardinality({i \in 1..Len(s) : s[i] = e})

LEMMA CopiesOfFacts ==
    ASSUME NEW S, NEW s \in Seq(S), NEW e
    PROVE  /\ CopiesOf(e, s) \in Nat
           /\ e \notin Elements(s) => CopiesOf(e, s) = 0
           /\ \A f \in S : CopiesOf(e, Append(s, f)) =
                              IF e = f THEN CopiesOf(e, s) + 1 ELSE CopiesOf(e, s)
<1> DEFINE I == {i \in 1..Len(s) : s[i] = e}
<1>1. Len(s) \in Nat
  OBVIOUS
<1>2. IsFiniteSet(1..Len(s))
  BY <1>1, FS_Interval
<1>3. IsFiniteSet(I) /\ Cardinality(I) \in Nat
  BY <1>2, FS_Subset, FS_CardinalityType
<1>4. e \notin Elements(s) => Cardinality(I) = 0
  <2>1. e \notin Elements(s) => I = {}
    BY DEF Elements
  <2> QED BY <2>1, FS_EmptySet
<1>5. ASSUME NEW f \in S
      PROVE  CopiesOf(e, Append(s, f)) = IF e = f THEN Cardinality(I) + 1 ELSE Cardinality(I)
  <2> DEFINE J == {i \in 1..Len(Append(s, f)) : Append(s, f)[i] = e}
  <2>1. /\ Len(Append(s, f)) = Len(s) + 1
        /\ \A i \in 1..Len(s) : Append(s, f)[i] = s[i]
        /\ Append(s, f)[Len(s) + 1] = f
    BY AppendProperties
  <2>2. CASE e = f
    <3>1. J = I \cup {Len(s) + 1}
      BY <1>1, <2>1, <2>2
    <3>2. Len(s) + 1 \notin I
      BY <1>1
    <3> HIDE DEF I, J
    <3>3. Cardinality(J) = Cardinality(I) + 1
      BY <1>3, <3>1, <3>2, FS_AddElement
    <3> QED BY <2>2, <3>3 DEF J, CopiesOf
  <2>3. CASE e # f
    <3>1. J = I
      BY <1>1, <2>1, <2>3
    <3> QED BY <2>3, <3>1 DEF CopiesOf
  <2> QED BY <2>2, <2>3
<1> HIDE DEF I
<1> QED BY <1>3, <1>4, <1>5 DEF CopiesOf, I

\* Appending adds one element.
LEMMA ElementsOfAppend ==
    ASSUME NEW S, NEW s \in Seq(S), NEW f \in S
    PROVE  Elements(Append(s, f)) = Elements(s) \cup {f}
<1>1. /\ Len(Append(s, f)) = Len(s) + 1 /\ Len(s) \in Nat
      /\ \A i \in 1..Len(s) : Append(s, f)[i] = s[i]
      /\ Append(s, f)[Len(s) + 1] = f
  BY AppendProperties
<1> QED BY <1>1 DEF Elements

\* The row a relay is about to send.
LEMMA SendingFacts ==
    ASSUME IInv, NEW r \in Relays, Sending(r) \/ Skipping(r),
           NEW e, e = batch[r][next[r] + 1]
    PROVE  /\ next[r] + 1 \in 1..Len(batch[r]) /\ next[r] + 1 <= BatchSize
           /\ e \in outbox \ published
           /\ \A q \in Relays : e \notin Sent(q)
<1>1. /\ batch[r] \in Seq(outbox) /\ next[r] \in Nat /\ Len(batch[r]) \in Nat
      /\ Len(batch[r]) <= BatchSize /\ next[r] < Len(batch[r])
      /\ \A q \in Relays : next[q] \in Nat /\ next[q] <= Len(batch[q]) /\ Len(batch[q]) \in Nat
  BY RelayAssumption DEF IInv, TypeOK, BatchShape, Sending, Skipping
<1>2. next[r] + 1 \in 1..Len(batch[r]) /\ next[r] + 1 <= BatchSize
  BY <1>1, RelayAssumption
<1>3. e \in outbox \ published
  BY <1>1, <1>2 DEF IInv, BatchShape
<1>4. ASSUME NEW q \in Relays, e \in Sent(q) PROVE FALSE
  <2>1. PICK i \in 1..next[q] : batch[q][i] = e
    BY <1>4 DEF Sent
  <2>2. i \in 1..Len(batch[q])
    BY <1>1, <2>1
  <2>3. CASE q = r
    BY <1>1, <1>2, <2>1, <2>2, <2>3 DEF IInv, BatchShape
  <2>4. CASE q # r
    BY <1>2, <2>1, <2>2, <2>4 DEF IInv, BatchesAreDisjoint
  <2> QED BY <2>3, <2>4
<1> QED BY <1>2, <1>3, <1>4

---------------------------------------------------------------------------
(* Type correctness.                                                       *)

\* The rows a command adds are well typed and finitely many, and none is older than a row its
\* aggregate already has.
LEMMA SavedRows ==
    ASSUME TypeOK, IsFiniteSet(outbox), NEW a \in Aggregates, SaveEvents(a)
    PROVE  /\ outbox \subseteq outbox' /\ outbox' \subseteq Row /\ IsFiniteSet(outbox')
           /\ \A e \in outbox' \ outbox, f \in outbox : e.agg = f.agg => f.ts <= e.ts
<1> DEFINE rows == {e \in outbox : e.agg = a}
           last == Cardinality(rows)
<1>1. IsFiniteSet(rows) /\ last \in Nat
  BY FS_Subset, FS_CardinalityType
<1> HIDE DEF last
<1>2. PICK n \in 1..2, ts \in [1..2 -> 1..MaxTs] :
         /\ last + n <= MaxVersion
         /\ ts[1] <= ts[2] /\ \A e \in rows : e.ts <= ts[1]
         /\ outbox' = outbox \cup {[agg |-> a, ver |-> last + i, ts |-> ts[i]] : i \in 1..n}
  BY DEF SaveEvents, last
<1> DEFINE row(i) == [agg |-> a, ver |-> last + i, ts |-> ts[i]]
<1>3. /\ ts[1] \in 1..MaxTs /\ ts[2] \in 1..MaxTs
      /\ n \in {1, 2}
  BY <1>2
<1>4. row(1) \in Row /\ (n = 2 => row(2) \in Row)
  BY <1>1, <1>2, <1>3, RelayAssumption DEF Row
<1>5. outbox' = outbox \cup {row(1)} \/ (n = 2 /\ outbox' = (outbox \cup {row(1)}) \cup {row(2)})
  <2>1. CASE n = 1
    BY <1>2, <2>1, 1..1 = {1}
  <2>2. CASE n = 2
    <3>1. 1..2 = {1, 2}
      OBVIOUS
    <3>2. {row(i) : i \in 1..n} = {row(1)} \cup {row(2)}
      BY <2>2, <3>1
    <3> QED BY <1>2, <2>2, <3>2
  <2> QED BY <1>3, <2>1, <2>2
<1>6. \A e \in outbox, i \in {1, 2} : e.agg = row(i).agg => e.ts <= row(i).ts
  <2>1. \A e \in outbox : e.ts \in 1..MaxTs
    BY DEF TypeOK, Row
  <2> QED BY <1>2, <1>3, <2>1, RelayAssumption
<1> HIDE DEF row, rows
<1>7. IsFiniteSet(outbox')
  <2>1. IsFiniteSet(outbox \cup {row(1)})
    BY FS_AddElement
  <2>2. IsFiniteSet((outbox \cup {row(1)}) \cup {row(2)})
    BY <2>1, FS_AddElement
  <2> QED BY <1>5, <2>1, <2>2
<1>8. \A e \in outbox' \ outbox : e = row(1) \/ e = row(2)
  BY <1>5
<1> QED BY <1>4, <1>5, <1>6, <1>7, <1>8 DEF TypeOK

\* What r sends is one of the rows it has fetched.
LEMMA SentTyped ==
    ASSUME IInv, NEW r \in Relays
    PROVE  Sent(r) \subseteq outbox
<1>1. batch[r] \in Seq(outbox) /\ next[r] \in Nat /\ next[r] <= Len(batch[r]) /\ Len(batch[r]) \in Nat
  BY RelayAssumption DEF IInv, TypeOK, BatchShape
<1> QED BY <1>1 DEF Sent

\* The batch that FetchAndLock makes.
LEMMA FetchFacts ==
    ASSUME TypeOK, NEW r \in Relays, FetchAndLock(r)
    PROVE  \E b \in Seq(outbox) :
              /\ Len(b) \in 1..BatchSize /\ ByTs(b, Available(r))
              /\ \A i \in 1..Len(b) : b[i] \in Available(r)
              /\ batch' = [batch EXCEPT ![r] = b]
<1>1. PICK n \in 1..BatchSize : \E b \in [1..n -> Available(r)] :
           /\ ByTs(b, Available(r))
           /\ batch' = [batch EXCEPT ![r] = b]
  BY DEF FetchAndLock
<1>2. PICK b \in [1..n -> Available(r)] :
           ByTs(b, Available(r)) /\ batch' = [batch EXCEPT ![r] = b]
  BY <1>1
<1>3. n \in Nat /\ Available(r) \subseteq outbox
  BY RelayAssumption DEF Available
<1>4. b \in Seq(outbox) /\ Len(b) = n
  BY <1>2, <1>3
<1> QED BY <1>1, <1>2, <1>4

LEMMA TypeStep ==
    ASSUME IInv, [Next]_vars
    PROVE  TypeOK' /\ IsFiniteSet(outbox')
<1> USE RelayAssumption
<1>0. TypeOK /\ IsFiniteSet(outbox)
  BY DEF IInv
<1>1. CASE UNCHANGED vars
  BY <1>0, <1>1 DEF TypeOK, vars
<1>2. ASSUME NEW a \in Aggregates, SaveEvents(a) PROVE TypeOK' /\ IsFiniteSet(outbox')
  <2>1. outbox \subseteq outbox' /\ outbox' \subseteq Row /\ IsFiniteSet(outbox')
    BY <1>0, <1>2, SavedRows
  <2>2. stream' \in Seq(outbox') /\ batch' \in [Relays -> Seq(outbox')]
    <3>1. stream' = stream /\ batch' = batch
      BY <1>2 DEF SaveEvents
    <3>2. stream \in Seq(outbox')
      BY <1>0, <2>1, SeqMonotonic DEF TypeOK
    <3>3. \A r \in Relays : batch[r] \in Seq(outbox')
      BY <1>0, <2>1, SeqMonotonic DEF TypeOK
    <3> QED BY <1>0, <3>1, <3>2, <3>3 DEF TypeOK
  <2> QED BY <1>0, <1>2, <2>1, <2>2 DEF TypeOK, SaveEvents
<1>3. CASE CancelContext
  BY <1>0, <1>3 DEF TypeOK, CancelContext
<1>4. ASSUME NEW r \in Relays, Step(r) PROVE TypeOK' /\ IsFiniteSet(outbox')
  <2>0. <<>> \in Seq(outbox) /\ outbox' = outbox
    BY <1>4 DEF Step, Work, FetchAndLock, Publish, Skip, MarkAsPublished, BatchFails,
                PublishReplyLost, Roll, Stop, Return
  <2>1. CASE FetchAndLock(r)
    <3>1. batch' \in [Relays -> Seq(outbox)]
      BY <1>0, <2>1, FetchFacts DEF TypeOK
    <3> QED BY <1>0, <2>1, <3>1 DEF TypeOK, FetchAndLock
  <2>2. CASE Publish(r)
    <3>1. /\ next[r] + 1 <= BatchSize /\ batch[r][next[r] + 1] \in outbox
      BY <2>2, SendingFacts DEF Publish
    <3>2. stream' \in Seq(outbox)
      BY <1>0, <2>2, <3>1 DEF TypeOK, Publish
    <3> QED BY <1>0, <2>2, <3>1, <3>2 DEF TypeOK, Publish
  <2>3. CASE Skip(r)
    <3>1. next[r] + 1 <= BatchSize
      BY <2>3, SendingFacts DEF Skip
    <3> QED BY <1>0, <2>3, <3>1 DEF TypeOK, Skip
  <2>4. CASE MarkAsPublished(r)
    <3>1. Elements(batch[r]) \subseteq outbox
      BY <1>0 DEF TypeOK, Elements
    <3>2. batch' \in [Relays -> Seq(outbox)]
      BY <1>0, <2>0, <2>4 DEF TypeOK, MarkAsPublished
    <3> QED BY <1>0, <2>4, <3>1, <3>2 DEF TypeOK, MarkAsPublished
  <2>5. ASSUME NEW sent, Roll(r, sent), hasStream' \in BOOLEAN, stream' \in Seq(outbox)
        PROVE  TypeOK' /\ IsFiniteSet(outbox')
    <3>1. undone' \in [Row -> Nat]
      BY <1>0, <2>5 DEF TypeOK, Roll, Counted
    <3>2. batch' \in [Relays -> Seq(outbox)]
      BY <1>0, <2>0, <2>5 DEF TypeOK, Roll
    <3> QED BY <1>0, <2>5, <3>1, <3>2 DEF TypeOK, Roll
  <2>6. CASE BatchFails(r)
    <3>1. hasStream' \in BOOLEAN
      <4>1. hasStream \in BOOLEAN /\ (hasStream \/ Sending(r)) \in BOOLEAN
        BY <1>0 DEF TypeOK
      <4> QED BY <2>6, <4>1 DEF BatchFails
    <3> QED BY <1>0, <2>5, <2>6, <3>1 DEF BatchFails, TypeOK
  <2>7. CASE PublishReplyLost(r)
    <3>1. batch[r][next[r] + 1] \in outbox
      BY <2>7, SendingFacts DEF PublishReplyLost
    <3>2. stream' \in Seq(outbox)
      BY <1>0, <2>7, <3>1 DEF TypeOK, PublishReplyLost
    <3> QED BY <2>5, <2>7, <3>2 DEF PublishReplyLost
  <2>8. CASE Stop(r) \/ Return(r)
    BY <1>0, <2>8 DEF TypeOK, Stop, Return
  <2> QED BY <1>4, <2>1, <2>2, <2>3, <2>4, <2>6, <2>7, <2>8 DEF Step, Work
<1> QED BY <1>1, <1>2, <1>3, <1>4 DEF Next, Step

---------------------------------------------------------------------------
(* What a step of one relay does to the batches.                           *)

\* A step of relay r touches no other relay's batch.
LEMMA OthersUntouched ==
    ASSUME TypeOK, NEW r \in Relays, Step(r), NEW q \in Relays \ {r}
    PROVE  batch'[q] = batch[q] /\ next'[q] = next[q] /\ Sent(q)' = Sent(q)
<1>1. batch'[q] = batch[q] /\ next'[q] = next[q]
  <2>1. CASE Work(r)
    BY <2>1 DEF TypeOK, Work, FetchAndLock, Publish, Skip, MarkAsPublished
  <2>2. CASE BatchFails(r) \/ PublishReplyLost(r) \/ Stop(r) \/ Return(r)
    BY <2>2 DEF TypeOK, BatchFails, PublishReplyLost, Roll, Stop, Return
  <2> QED BY <2>1, <2>2 DEF Step
<1> QED BY <1>1 DEF Sent, HasTopic

\* The batches stay disjoint when a relay takes free rows, or none, or keeps its own.
LEMMA DisjointStays ==
    ASSUME IInv, NEW r \in Relays, Step(r),
           \A q \in Relays \ {r} :
              \A i \in 1..Len(batch'[r]), j \in 1..Len(batch[q]) : batch'[r][i] # batch[q][j]
    PROVE  BatchesAreDisjoint'
<1>1. \A q \in Relays \ {r} : batch'[q] = batch[q]
  BY OthersUntouched DEF IInv
<1> QED BY <1>1 DEF IInv, BatchesAreDisjoint

\* The end of a batch, by commit or rollback.
LEMMA BatchEnds ==
    ASSUME IInv, NEW r \in Relays, Step(r),
           batch' = [batch EXCEPT ![r] = <<>>], next' = [next EXCEPT ![r] = 0]
    PROVE  BatchShape(r)' /\ SentIsDelivered(r)' /\ Sent(r)' = {} /\ BatchesAreDisjoint'
<1>1. batch'[r] = <<>> /\ next'[r] = 0 /\ Len(<<>>) = 0
  BY DEF IInv, TypeOK
<1>2. BatchShape(r)' /\ SentIsDelivered(r)' /\ Sent(r)' = {}
  BY <1>1, RelayAssumption DEF BatchShape, SentIsDelivered, Sent
<1>3. BatchesAreDisjoint'
  BY <1>1, DisjointStays
<1> QED BY <1>2, <1>3

\* A step that keeps the batch of r and deals with one more row.
LEMMA BatchGoesOn ==
    ASSUME IInv, NEW r \in Relays, Step(r), Sending(r) \/ Skipping(r),
           UNCHANGED <<batch, published>>, next' = [next EXCEPT ![r] = next[r] + 1],
           NEW e, e = batch[r][next[r] + 1]
    PROVE  /\ BatchShape(r)' /\ BatchesAreDisjoint'
           /\ next'[r] = next[r] + 1
           /\ Sent(r)' = IF HasTopic(e) THEN Sent(r) \cup {e} ELSE Sent(r)
<1>1. next'[r] = next[r] + 1 /\ next[r] \in Nat /\ Len(batch[r]) \in Nat
  BY RelayAssumption DEF IInv, TypeOK
<1>2. next[r] + 1 \in 1..Len(batch[r])
  BY SendingFacts
<1>3. BatchShape(r)' /\ BatchesAreDisjoint'
  BY <1>1, <1>2 DEF IInv, BatchShape, BatchesAreDisjoint
<1>4. Sent(r)' = IF HasTopic(e) THEN Sent(r) \cup {e} ELSE Sent(r)
  <2>1. 1..(next[r] + 1) = 1..next[r] \cup {next[r] + 1}
    BY <1>1
  <2> QED BY <1>1, <2>1 DEF Sent, HasTopic
<1> QED BY <1>1, <1>3, <1>4

\* Keeping the parts of the invariant that are about other relays.
LEMMA OthersKept ==
    ASSUME IInv, NEW r \in Relays, Step(r), NEW q \in Relays \ {r},
           Elements(stream) \subseteq Elements(stream'),
           published' \subseteq published \cup Elements(batch[r])
    PROVE  BatchShape(q)' /\ SentIsDelivered(q)'
<1>1. batch'[q] = batch[q] /\ next'[q] = next[q]
  BY OthersUntouched DEF IInv
<1>2. BatchShape(q)'
  <2>1. \A i \in 1..Len(batch[q]) : batch[q][i] \notin Elements(batch[r])
    BY DEF IInv, BatchesAreDisjoint, Elements
  <2> QED BY <1>1, <2>1 DEF IInv, BatchShape
<1>3. SentIsDelivered(q)'
  BY <1>1 DEF IInv, SentIsDelivered, HasTopic
<1> QED BY <1>2, <1>3

\* From the parts to the whole.  The accounting compares each event with its state before.
LEMMA StepKeeps ==
    ASSUME IInv, NEW r \in Relays, Step(r),
           Elements(stream) \subseteq Elements(stream'),
           published' \subseteq published \cup Elements(batch[r]),
           BatchShape(r)', SentIsDelivered(r)', BatchesAreDisjoint', PublishedIsDelivered',
           CopiesAreAccounted', DuplicatesNeedARollback'
    PROVE  IInv'
<1>1. TypeOK' /\ IsFiniteSet(outbox')
  BY TypeStep DEF Next, Step
<1>2. \A q \in Relays \ {r} : BatchShape(q)' /\ SentIsDelivered(q)'
  BY OthersKept
<1> QED BY <1>1, <1>2 DEF IInv

---------------------------------------------------------------------------
(* The steps.                                                              *)

LEMMA SaveEventsStep ==
    ASSUME IInv, NEW a \in Aggregates, SaveEvents(a)
    PROVE  IInv'
<1>1. TypeOK' /\ IsFiniteSet(outbox')
  BY TypeStep DEF Next
<1>2. /\ UNCHANGED <<published, stream, batch, next, undone>>
      /\ outbox \subseteq outbox' /\ outbox' \subseteq Row
  BY SavedRows DEF SaveEvents, IInv
<1>3. /\ \A r \in Relays : BatchShape(r)' /\ SentIsDelivered(r)' /\ Sent(r)' = Sent(r)
      /\ BatchesAreDisjoint' /\ PublishedIsDelivered'
      /\ \A e : Copies(e)' = Copies(e)
  BY <1>2 DEF IInv, BatchShape, SentIsDelivered, Sent, BatchesAreDisjoint, PublishedIsDelivered,
              HasTopic, Elements, Copies
<1>4. ASSUME NEW e \in outbox' \ outbox PROVE Copies(e) = 0 /\ undone[e] \in Nat
  <2>1. stream \in Seq(outbox) /\ e \notin Elements(stream) /\ e \in Row
    BY <1>2, <1>4 DEF IInv, TypeOK, Elements
  <2> QED BY <2>1, CopiesOfFacts DEF Copies, CopiesOf, IInv, TypeOK
<1>5. CopiesAreAccounted' /\ DuplicatesNeedARollback'
  BY <1>2, <1>3, <1>4 DEF IInv, CopiesAreAccounted, DuplicatesNeedARollback
<1> QED BY <1>1, <1>3, <1>5 DEF IInv

LEMMA FetchStep ==
    ASSUME IInv, NEW r \in Relays, FetchAndLock(r)
    PROVE  IInv'
<1>1. /\ Step(r) /\ batch[r] = <<>> /\ UNCHANGED <<outbox, published, stream, undone>>
      /\ next'[r] = 0
  BY DEF Step, Work, FetchAndLock, IInv, TypeOK
<1>2. PICK b \in Seq(outbox) :
              /\ Len(b) \in 1..BatchSize /\ ByTs(b, Available(r))
              /\ \A i \in 1..Len(b) : b[i] \in Available(r)
              /\ batch' = [batch EXCEPT ![r] = b]
  BY FetchFacts DEF IInv
<1>3. batch'[r] = b
  BY <1>2 DEF IInv, TypeOK
<1>4. BatchShape(r)' /\ SentIsDelivered(r)'
  BY <1>1, <1>2, <1>3, RelayAssumption DEF BatchShape, SentIsDelivered, ByTs, Available
<1>5. BatchesAreDisjoint'
  <2>1. \A q \in Relays \ {r} : \A i \in 1..Len(b), j \in 1..Len(batch[q]) : b[i] # batch[q][j]
    BY <1>2 DEF Available, Elements
  <2> QED BY <1>1, <1>3, <2>1, DisjointStays
<1>6. Sent(r) = {} /\ Sent(r)' = {}
  <2>1. next[r] = 0
    BY <1>1, RelayAssumption DEF IInv, BatchShape, TypeOK
  <2> QED BY <1>1, <2>1 DEF Sent
<1>7. \A q \in Relays : Sent(q)' = Sent(q)
  BY <1>1, <1>6, OthersUntouched DEF IInv
<1>8. \A e : Copies(e)' = Copies(e)
  BY <1>1 DEF Copies
<1>9. PublishedIsDelivered' /\ CopiesAreAccounted' /\ DuplicatesNeedARollback'
  BY <1>1, <1>7, <1>8
     DEF IInv, PublishedIsDelivered, CopiesAreAccounted, DuplicatesNeedARollback, HasTopic, Elements
<1> QED BY <1>1, <1>4, <1>5, <1>9, StepKeeps

LEMMA SkipStep ==
    ASSUME IInv, NEW r \in Relays, Skip(r)
    PROVE  IInv'
<1> DEFINE e == batch[r][next[r] + 1]
<1>1. /\ Step(r) /\ Skipping(r) /\ UNCHANGED <<outbox, published, stream, batch, undone>>
      /\ next' = [next EXCEPT ![r] = next[r] + 1] /\ ~HasTopic(e)
  BY DEF Step, Work, Skip, Skipping
<1>2. BatchShape(r)' /\ BatchesAreDisjoint' /\ next'[r] = next[r] + 1 /\ Sent(r)' = Sent(r)
  BY <1>1, BatchGoesOn
<1>3. SentIsDelivered(r)'
  <2>1. next[r] \in Nat
    BY RelayAssumption DEF IInv, TypeOK
  <2> QED BY <1>1, <1>2, <2>1 DEF IInv, SentIsDelivered, HasTopic
<1>4. \A q \in Relays : Sent(q)' = Sent(q)
  BY <1>1, <1>2, OthersUntouched DEF IInv
<1>5. \A f : Copies(f)' = Copies(f)
  BY <1>1 DEF Copies
<1>6. PublishedIsDelivered' /\ CopiesAreAccounted' /\ DuplicatesNeedARollback'
  BY <1>1, <1>4, <1>5
     DEF IInv, PublishedIsDelivered, CopiesAreAccounted, DuplicatesNeedARollback, HasTopic, Elements
<1> QED BY <1>1, <1>2, <1>3, <1>6, StepKeeps

\* Sending a row: the stream has one more copy of it and of no other.
LEMMA StreamGrows ==
    ASSUME IInv, NEW e \in outbox, stream' = Append(stream, e)
    PROVE  /\ Elements(stream') = Elements(stream) \cup {e}
           /\ \A f : /\ Copies(f) \in Nat
                     /\ Copies(f)' = IF f = e THEN Copies(f) + 1 ELSE Copies(f)
<1>1. stream \in Seq(outbox)
  BY DEF IInv, TypeOK
<1>2. Elements(stream') = Elements(stream) \cup {e}
  BY <1>1, ElementsOfAppend
<1>3. ASSUME NEW f
      PROVE  Copies(f) \in Nat /\ Copies(f)' = IF f = e THEN Copies(f) + 1 ELSE Copies(f)
  <2>1. Copies(f) = CopiesOf(f, stream) /\ Copies(f)' = CopiesOf(f, stream')
    BY DEF Copies, CopiesOf
  <2> QED BY <1>1, <2>1, CopiesOfFacts
<1> QED BY <1>2, <1>3

LEMMA PublishStep ==
    ASSUME IInv, NEW r \in Relays, Publish(r)
    PROVE  IInv'
<1> DEFINE e == batch[r][next[r] + 1]
<1>1. /\ Step(r) /\ Sending(r) /\ UNCHANGED <<outbox, published, batch, undone>>
      /\ next' = [next EXCEPT ![r] = next[r] + 1] /\ HasTopic(e) /\ stream' = Append(stream, e)
  BY DEF Step, Work, Publish, Sending
<1>2. e \in outbox \ published /\ \A q \in Relays : e \notin Sent(q)
  BY <1>1, SendingFacts
<1>3. /\ Elements(stream') = Elements(stream) \cup {e}
      /\ \A f : Copies(f) \in Nat /\ Copies(f)' = IF f = e THEN Copies(f) + 1 ELSE Copies(f)
  BY <1>1, <1>2, StreamGrows
<1>4. /\ BatchShape(r)' /\ BatchesAreDisjoint' /\ next'[r] = next[r] + 1
      /\ Sent(r)' = Sent(r) \cup {e}
  BY <1>1, BatchGoesOn
<1>5. SentIsDelivered(r)'
  <2>1. next[r] \in Nat
    BY RelayAssumption DEF IInv, TypeOK
  <2> QED BY <1>1, <1>3, <1>4, <2>1 DEF IInv, SentIsDelivered, HasTopic
<1>6. \A q \in Relays \ {r} : Sent(q)' = Sent(q)
  BY <1>1, OthersUntouched DEF IInv
<1>7. \A f \in outbox : undone[f] \in Nat
  BY DEF IInv, TypeOK
<1> HIDE DEF e
<1>8. CopiesAreAccounted'
  BY <1>1, <1>3, <1>4, <1>6 DEF IInv, CopiesAreAccounted
<1>9. DuplicatesNeedARollback'
  BY <1>1, <1>2, <1>3, <1>7 DEF IInv, CopiesAreAccounted, DuplicatesNeedARollback
<1>10. PublishedIsDelivered'
  BY <1>1, <1>3 DEF IInv, PublishedIsDelivered, HasTopic
<1> QED BY <1>1, <1>3, <1>4, <1>5, <1>8, <1>9, <1>10, StepKeeps

LEMMA MarkStep ==
    ASSUME IInv, NEW r \in Relays, MarkAsPublished(r)
    PROVE  IInv'
<1>1. /\ Step(r) /\ next[r] = Len(batch[r]) /\ UNCHANGED <<outbox, stream, undone>>
      /\ published' = published \cup Elements(batch[r])
      /\ batch' = [batch EXCEPT ![r] = <<>>] /\ next' = [next EXCEPT ![r] = 0]
  BY DEF Step, Work, MarkAsPublished
<1>2. BatchShape(r)' /\ SentIsDelivered(r)' /\ BatchesAreDisjoint'
  BY <1>1, BatchEnds
<1>3. \A q \in Relays \ {r} : Sent(q)' = Sent(q)
  BY <1>1, OthersUntouched DEF IInv
<1>4. Sent(r) \subseteq Elements(batch[r])
  BY <1>1 DEF Sent, Elements
<1>5. PublishedIsDelivered'
  BY <1>1 DEF IInv, SentIsDelivered, PublishedIsDelivered, HasTopic, Elements
<1>6. \A e : Copies(e)' = Copies(e)
  BY <1>1 DEF Copies
<1>7. CopiesAreAccounted' /\ DuplicatesNeedARollback'
  BY <1>1, <1>3, <1>4, <1>6 DEF IInv, CopiesAreAccounted, DuplicatesNeedARollback
<1> QED BY <1>1, <1>2, <1>5, <1>7, StepKeeps

LEMMA RollStep ==
    ASSUME IInv, NEW r \in Relays, BatchFails(r) \/ PublishReplyLost(r)
    PROVE  IInv'
<1> DEFINE e == batch[r][next[r] + 1]
<1>1. PICK sent :
         /\ Roll(r, sent)
         /\ \/ sent = Sent(r) /\ stream' = stream
            \/ sent = Sent(r) \cup {e} /\ stream' = Append(stream, e) /\ Sending(r)
  BY DEF BatchFails, PublishReplyLost
<1>2. /\ Step(r) /\ UNCHANGED <<outbox, published>> /\ undone' = Counted(sent)
      /\ batch' = [batch EXCEPT ![r] = <<>>] /\ next' = [next EXCEPT ![r] = 0]
  BY <1>1 DEF Step, Roll
<1>3. /\ BatchShape(r)' /\ SentIsDelivered(r)' /\ BatchesAreDisjoint' /\ Sent(r)' = {}
  BY <1>2, BatchEnds
<1>4. \A q \in Relays \ {r} : Sent(q)' = Sent(q)
  BY <1>2, OthersUntouched DEF IInv
<1>5. /\ \A f \in outbox : /\ Copies(f) \in Nat /\ Copies(f)' \in Nat
                           /\ Copies(f)' <= Copies(f) + 1
                           /\ f \notin sent => Copies(f)' = Copies(f)
                           /\ f \in Sent(r) /\ f # e => Copies(f)' = Copies(f)
      /\ Elements(stream) \subseteq Elements(stream')
  <2>1. CASE stream' = stream
    <3>1. stream \in Seq(outbox)
      BY DEF IInv, TypeOK
    <3>2. ASSUME NEW f PROVE Copies(f) \in Nat /\ Copies(f)' = Copies(f)
      <4>1. Copies(f) = CopiesOf(f, stream) /\ Copies(f)' = CopiesOf(f, stream')
        BY DEF Copies, CopiesOf
      <4>2. CopiesOf(f, stream) \in Nat
        BY <3>1, CopiesOfFacts
      <4> QED BY <2>1, <4>1, <4>2
    <3>3. Elements(stream') = Elements(stream)
      BY <2>1
    <3> HIDE DEF e
    <3> QED BY <3>2, <3>3
  <2>2. CASE stream' # stream
    <3>1. sent = Sent(r) \cup {e} /\ stream' = Append(stream, e) /\ e \in outbox
      BY <1>1, <2>2, SendingFacts
    <3> HIDE DEF e
    <3> QED BY <3>1, StreamGrows
  <2> QED BY <2>1, <2>2
<1>6. \A f \in outbox : undone[f] \in Nat /\ undone'[f] = IF f \in sent THEN undone[f] + 1 ELSE undone[f]
  BY <1>2 DEF IInv, TypeOK, Counted
<1>7. ASSUME NEW f \in outbox PROVE f \in sent => Copies(f)' <= undone[f] + 1
  <2>1. CASE stream' = stream /\ sent = Sent(r)
    BY <2>1 DEF IInv, DuplicatesNeedARollback, Copies
  <2>2. CASE sent = Sent(r) \cup {e} /\ stream' = Append(stream, e) /\ Sending(r)
    <3>1. e \in outbox \ published /\ \A q \in Relays : e \notin Sent(q)
      BY <2>2, SendingFacts
    <3>2. CASE f = e
      BY <1>5, <1>6, <3>1, <3>2 DEF IInv, CopiesAreAccounted
    <3>3. CASE f # e
      BY <1>5, <2>2, <3>3 DEF IInv, DuplicatesNeedARollback
    <3> QED BY <3>2, <3>3
  <2> QED BY <1>1, <2>1, <2>2
<1> HIDE DEF e
<1>8. CopiesAreAccounted'
  <2> SUFFICES ASSUME NEW f \in outbox, f \notin published,
                      \A q \in Relays : f \notin Sent(q)'
               PROVE  Copies(f)' <= undone'[f]
    BY <1>2 DEF CopiesAreAccounted
  <2>1. CASE f \in sent
    BY <1>6, <1>7, <2>1
  <2>2. CASE f \notin sent
    <3>1. \A q \in Relays : f \notin Sent(q)
      BY <1>1, <1>4, <2>2
    <3> QED BY <1>5, <1>6, <2>2, <3>1 DEF IInv, CopiesAreAccounted
  <2> QED BY <2>1, <2>2
<1>9. DuplicatesNeedARollback'
  <2> SUFFICES ASSUME NEW f \in outbox PROVE Copies(f)' <= undone'[f] + 1
    BY <1>2 DEF DuplicatesNeedARollback
  <2>1. Copies(f) <= undone[f] + 1
    BY DEF IInv, DuplicatesNeedARollback
  <2> QED BY <1>5, <1>6, <1>7, <2>1
<1>10. PublishedIsDelivered'
  BY <1>2, <1>5 DEF IInv, PublishedIsDelivered, HasTopic
<1> QED BY <1>2, <1>3, <1>5, <1>8, <1>9, <1>10, StepKeeps

\* Stop, Return and the cancellation touch neither rows nor batches.
LEMMA QuietStep ==
    ASSUME IInv, [Next]_vars, UNCHANGED <<outbox, published, stream, batch, next, undone>>
    PROVE  IInv'
<1>1. TypeOK' /\ IsFiniteSet(outbox')
  BY TypeStep
<1> QED BY <1>1 DEF IInv, BatchShape, SentIsDelivered, BatchesAreDisjoint, PublishedIsDelivered,
                    CopiesAreAccounted, DuplicatesNeedARollback, Sent, Copies, HasTopic, Elements

---------------------------------------------------------------------------
(* The theorems.                                                           *)

LEMMA InitIInv == Init => IInv
<1> SUFFICES ASSUME Init PROVE IInv
  OBVIOUS
<1>1. <<>> \in Seq(outbox) /\ Len(<<>>) = 0
  OBVIOUS
<1>2. TypeOK /\ IsFiniteSet(outbox)
  <2>1. outbox = {} /\ IsFiniteSet(outbox)
    BY FS_EmptySet DEF Init
  <2>2. stream \in Seq(outbox) /\ batch \in [Relays -> Seq(outbox)]
    BY <1>1 DEF Init
  <2>3. next \in [Relays -> 0..BatchSize] /\ undone \in [Row -> Nat]
    BY RelayAssumption DEF Init
  <2> QED BY <2>1, <2>2, <2>3 DEF Init, TypeOK
<1>3. \A r \in Relays : BatchShape(r) /\ SentIsDelivered(r)
  BY <1>1, RelayAssumption DEF Init, BatchShape, SentIsDelivered
<1>4. BatchesAreDisjoint
  BY <1>1 DEF Init, BatchesAreDisjoint
<1>5. PublishedIsDelivered /\ CopiesAreAccounted /\ DuplicatesNeedARollback
  BY DEF Init, PublishedIsDelivered, CopiesAreAccounted, DuplicatesNeedARollback
<1> QED BY <1>2, <1>3, <1>4, <1>5 DEF IInv

LEMMA NextIInv == IInv /\ [Next]_vars => IInv'
<1> SUFFICES ASSUME IInv, [Next]_vars PROVE IInv'
  OBVIOUS
<1>1. CASE UNCHANGED vars \/ CancelContext \/ \E r \in Relays : Stop(r) \/ Return(r)
  BY <1>1, QuietStep DEF vars, CancelContext, Stop, Return
<1> QED BY <1>1, SaveEventsStep, FetchStep, PublishStep, SkipStep, MarkStep, RollStep
        DEF Next, Work

\* IInv is an invariant of the outbox and its relays.
THEOREM Inductive == Spec => []IInv
BY InitIInv, NextIInv, PTL DEF Spec

\* Every variable of the relays keeps its type: no batch grows beyond BatchSize, and only
\* committed rows are fetched and sent.
THEOREM TypeCorrect == Spec => []TypeOK
<1>1. IInv => TypeOK
  BY DEF IInv
<1> QED BY <1>1, Inductive, PTL

\* At-least-once delivery: ProcessOutboxBatch marks no event with a topic that the broker has
\* not stored, for any number of relays, rows and failures.
THEOREM DeliveredAtLeastOnce == Spec => []PublishedIsDelivered
<1>1. IInv => PublishedIsDelivered
  BY DEF IInv
<1> QED BY <1>1, Inductive, PTL

\* SKIP LOCKED keeps the relays apart: each further copy of an event is due to a rollback of a
\* batch that had sent it.
THEOREM DuplicatesComeFromRollbacks == Spec => []DuplicatesNeedARollback
<1>1. IInv => DuplicatesNeedARollback
  BY DEF IInv
<1> QED BY <1>1, Inductive, PTL

---------------------------------------------------------------------------
(* The outbox and its relays implement the abstract channel.               *)

\* A step that keeps the rows, the marks and the stream is invisible to the channel.
LEMMA DeliveryStep ==
    ASSUME IInv, IInv', [Next]_vars
    PROVE  [DeliverySpec!Next]_<<{e \in outbox : HasTopic(e)}, stream,
                                 {e \in published : HasTopic(e)}>>
<1> DEFINE saved == {e \in outbox : HasTopic(e)}
           retired == {e \in published : HasTopic(e)}
<1> SUFFICES [DeliverySpec!Next]_<<saved, stream, retired>>
  OBVIOUS
<1>0. /\ outbox' = outbox => saved' = saved
      /\ published' = published => retired' = retired
  BY DEF HasTopic
<1>1. ASSUME NEW a \in Aggregates, SaveEvents(a) PROVE DeliverySpec!Save
  <2>1. outbox \subseteq outbox' /\ outbox' \subseteq Row /\ UNCHANGED <<published, stream>>
    BY <1>1, SavedRows DEF IInv, SaveEvents
  <2>2. saved \subseteq saved' /\ saved' \subseteq Row
    BY <2>1 DEF HasTopic
  <2> QED BY <1>0, <2>1, <2>2 DEF DeliverySpec!Save
<1>2. ASSUME NEW r \in Relays, Publish(r) \/ PublishReplyLost(r)
      PROVE  \E e \in Row : DeliverySpec!Send(e)
  <2> DEFINE e == batch[r][next[r] + 1]
  <2>1. /\ Sending(r) /\ HasTopic(e) /\ UNCHANGED <<outbox, published>>
        /\ stream' = Append(stream, e)
    BY <1>2 DEF Publish, PublishReplyLost, Roll, Sending
  <2>2. e \in outbox \ published
    BY <2>1, SendingFacts
  <2>3. e \in Row /\ e \in saved \ retired
    BY <2>1, <2>2 DEF IInv, TypeOK
  <2> HIDE DEF e
  <2>4. DeliverySpec!Send(e)
    BY <1>0, <2>1, <2>3 DEF DeliverySpec!Send
  <2> QED BY <2>3, <2>4
<1>3. ASSUME NEW r \in Relays, MarkAsPublished(r) PROVE DeliverySpec!Retire
  <2>1. UNCHANGED <<outbox, stream>> /\ published \subseteq published'
    BY <1>3 DEF MarkAsPublished
  <2>2. published' \subseteq outbox
    BY <2>1 DEF IInv, TypeOK
  <2>3. retired \subseteq retired' /\ retired' \subseteq saved
    BY <2>1, <2>2 DEF HasTopic
  <2>4. \A e \in retired' : \E i \in 1..Len(stream) : stream[i] = e
    BY <2>1 DEF IInv, PublishedIsDelivered, Elements, HasTopic
  <2> QED BY <1>0, <2>1, <2>3, <2>4 DEF DeliverySpec!Retire
<1>4. ASSUME NEW r \in Relays,
             FetchAndLock(r) \/ Skip(r) \/ BatchFails(r) \/ Stop(r) \/ Return(r)
      PROVE  UNCHANGED <<outbox, published, stream>>
  BY <1>4 DEF FetchAndLock, Skip, BatchFails, Roll, Stop, Return
<1>5. CASE CancelContext \/ UNCHANGED vars
  BY <1>0, <1>5 DEF CancelContext, vars
<1> HIDE DEF saved, retired
<1> QED BY <1>0, <1>1, <1>2, <1>3, <1>4, <1>5 DEF Next, Work, DeliverySpec!Next, saved, retired

\* The relays send only events that are saved and not yet marked, and mark only what the broker
\* has stored: every behaviour of ProcessOutboxBatch is one of the at-least-once channel.
THEOREM RefinesDelivery == Spec => ImplementsDelivery
<1>1. Init => DeliverySpec!Init
  BY DEF Init, DeliverySpec!Init
<1> QED BY <1>1, Inductive, DeliveryStep, PTL DEF Spec, ImplementsDelivery, DeliverySpec!Spec

---------------------------------------------------------------------------
(* The order of one relay.                                                 *)

\* What is older than a row of the batch, and of the same aggregate, is marked or comes before it
\* in the batch: ORDER BY ts LIMIT batchSize leaves out only younger rows.
BatchIsOldest(r) ==
    \A i \in 1..Len(batch[r]), e \in outbox :
        e.agg = batch[r][i].agg /\ e.ts < batch[r][i].ts =>
            e \in published \/ \E j \in 1..(i - 1) : batch[r][j] = e

OrderIInv(r) == IInv /\ BatchIsOldest(r) /\ DeliveredInTsOrder

\* Timestamps and positions are numbers.
LEMMA OrderTypes ==
    ASSUME IInv, NEW r \in Relays
    PROVE  /\ \A e \in outbox : e.ts \in Nat
           /\ batch[r] \in Seq(outbox) /\ Len(batch[r]) \in Nat
           /\ \A i \in 1..Len(batch[r]) : batch[r][i] \in outbox
           /\ stream \in Seq(outbox) /\ Len(stream) \in Nat
           /\ \A i \in 1..Len(stream) : stream[i] \in outbox
<1>1. \A e \in outbox : e.ts \in Nat
  BY RelayAssumption DEF IInv, TypeOK, Row
<1> QED BY <1>1 DEF IInv, TypeOK

\* A batch of the oldest free rows, when no other relay has locked an older one.
LEMMA FetchIsOldest ==
    ASSUME IInv, NEW r, Relays = {r}, FetchAndLock(r)
    PROVE  BatchIsOldest(r)'
<1>1. PICK b \in Seq(outbox) :
              /\ ByTs(b, Available(r)) /\ Len(b) \in 1..BatchSize
              /\ \A i \in 1..Len(b) : b[i] \in Available(r)
              /\ batch' = [batch EXCEPT ![r] = b]
  BY FetchFacts DEF IInv
<1>2. batch'[r] = b /\ batch[r] = <<>> /\ UNCHANGED <<outbox, published>>
  BY <1>1 DEF IInv, TypeOK, FetchAndLock
<1>3. Available(r) = outbox \ published
  BY <1>2 DEF Available, Elements
<1>4. Len(b) \in Nat /\ \A e \in outbox : e.ts \in Nat
  BY OrderTypes
<1>5. \A i \in 1..Len(b) : b[i] \in outbox
  BY <1>1
<1>6. ASSUME NEW i \in 1..Len(b), NEW e \in outbox, e.ts < b[i].ts, e \notin published
      PROVE  \E j \in 1..(i - 1) : b[j] = e
  <2>1. e \in Elements(b)
    BY <1>1, <1>3, <1>4, <1>5, <1>6 DEF ByTs
  <2>2. PICK j \in 1..Len(b) : b[j] = e
    BY <2>1 DEF Elements
  <2>3. ~(i < j) /\ i # j
    BY <1>1, <1>4, <1>5, <1>6, <2>2 DEF ByTs
  <2> QED BY <1>4, <2>2, <2>3
<1> QED BY <1>2, <1>6 DEF BatchIsOldest

\* What a relay sends comes after everything older of its aggregate.
LEMMA SentInOrder ==
    ASSUME NEW r \in Relays, OrderIInv(r), Sending(r), outbox' = outbox,
           stream' = Append(stream, batch[r][next[r] + 1])
    PROVE  DeliveredInTsOrder'
<1> DEFINE g == batch[r][next[r] + 1]
<1>0. IInv /\ BatchIsOldest(r) /\ DeliveredInTsOrder
  BY DEF OrderIInv
<1>1. /\ next[r] + 1 \in 1..Len(batch[r]) /\ next[r] \in Nat /\ g \in outbox
  BY <1>0, SendingFacts, RelayAssumption DEF IInv, TypeOK
<1>2. stream \in Seq(outbox) /\ Len(stream) \in Nat
  BY <1>0, OrderTypes
<1>3. /\ Len(stream') = Len(stream) + 1
      /\ \A i \in 1..Len(stream) : stream'[i] = stream[i]
      /\ stream'[Len(stream) + 1] = g
  BY <1>1, <1>2, AppendProperties
<1>4. ASSUME NEW e \in outbox, e.agg = g.agg, HasTopic(e), e.ts < g.ts
      PROVE  e \in Elements(stream)
  <2>1. e \in published \/ \E j \in 1..next[r] : batch[r][j] = e
    BY <1>0, <1>1, <1>4 DEF BatchIsOldest
  <2> QED BY <1>0, <1>4, <2>1 DEF IInv, PublishedIsDelivered, SentIsDelivered
<1> HIDE DEF g
<1>5. ASSUME NEW e \in outbox, NEW f \in outbox, e.agg = f.agg, HasTopic(e), e.ts < f.ts,
             NEW j \in 1..Len(stream'), stream'[j] = f
      PROVE  \E i \in 1..j : stream'[i] = e
  <2>1. CASE j \in 1..Len(stream)
    <3>1. PICK i \in 1..j : stream[i] = e
      BY <1>0, <1>3, <1>5, <2>1 DEF DeliveredInTsOrder
    <3> QED BY <1>2, <1>3, <2>1, <3>1
  <2>2. CASE j = Len(stream) + 1
    <3>1. e \in Elements(stream)
      BY <1>3, <1>4, <1>5, <2>2
    <3>2. PICK i \in 1..Len(stream) : stream[i] = e
      BY <3>1 DEF Elements
    <3> QED BY <1>2, <1>3, <2>2, <3>2
  <2> QED BY <1>2, <1>3, <2>1, <2>2
<1> QED BY <1>5 DEF DeliveredInTsOrder, HasTopic

LEMMA OrderStep ==
    ASSUME NEW r, Relays = {r}, OrderIInv(r), [Next]_vars
    PROVE  OrderIInv(r)'
<1>0. IInv /\ BatchIsOldest(r) /\ DeliveredInTsOrder /\ IInv' /\ r \in Relays
  BY NextIInv DEF OrderIInv
<1>1. ASSUME NEW a \in Aggregates, SaveEvents(a)
      PROVE  BatchIsOldest(r)' /\ DeliveredInTsOrder'
  <2>1. /\ \A e \in outbox' \ outbox, f \in outbox : e.agg = f.agg => f.ts <= e.ts
        /\ UNCHANGED <<published, stream, batch>>
    BY <1>0, <1>1, SavedRows DEF IInv, SaveEvents
  <2>2. /\ \A e \in outbox' : e.ts \in Nat
        /\ \A i \in 1..Len(batch[r]) : batch[r][i] \in outbox /\ batch[r][i] \in outbox'
        /\ \A i \in 1..Len(stream) : stream[i] \in outbox /\ stream[i] \in outbox'
    <3>1. outbox \subseteq outbox'
      BY <1>0, <1>1, SavedRows DEF IInv
    <3>2. \A e \in outbox' : e.ts \in Nat
      BY <1>0, RelayAssumption DEF IInv, TypeOK, Row
    <3> QED BY <1>0, <3>1, <3>2, OrderTypes
  <2>3. BatchIsOldest(r)'
    BY <1>0, <2>1, <2>2 DEF BatchIsOldest
  <2>4. DeliveredInTsOrder'
    BY <1>0, <2>1, <2>2 DEF DeliveredInTsOrder, HasTopic
  <2> QED BY <2>3, <2>4
<1>2. CASE FetchAndLock(r)
  <2>1. BatchIsOldest(r)'
    BY <1>0, <1>2, FetchIsOldest
  <2>2. UNCHANGED <<outbox, stream>>
    BY <1>2 DEF FetchAndLock
  <2> QED BY <1>0, <2>1, <2>2 DEF OrderIInv, DeliveredInTsOrder, HasTopic
<1>3. CASE Publish(r)
  <2>1. DeliveredInTsOrder'
    BY <1>0, <1>3, SentInOrder DEF Publish
  <2>2. BatchIsOldest(r)'
    BY <1>0, <1>3 DEF Publish, BatchIsOldest
  <2> QED BY <1>0, <2>1, <2>2 DEF OrderIInv
<1>4. ASSUME batch' = [batch EXCEPT ![r] = <<>>] PROVE BatchIsOldest(r)'
  <2>1. batch'[r] = <<>> /\ Len(<<>>) = 0
    BY <1>0, <1>4 DEF IInv, TypeOK
  <2> QED BY <2>1 DEF BatchIsOldest
<1>5. CASE PublishReplyLost(r)
  <2>1. DeliveredInTsOrder'
    BY <1>0, <1>5, SentInOrder DEF PublishReplyLost, Roll
  <2>2. BatchIsOldest(r)'
    BY <1>4, <1>5 DEF PublishReplyLost, Roll
  <2> QED BY <1>0, <2>1, <2>2 DEF OrderIInv
<1>6. CASE MarkAsPublished(r) \/ BatchFails(r)
  <2>1. BatchIsOldest(r)'
    BY <1>4, <1>6 DEF MarkAsPublished, BatchFails, Roll
  <2>2. UNCHANGED <<outbox, stream>>
    BY <1>6 DEF MarkAsPublished, BatchFails, Roll
  <2> QED BY <1>0, <2>1, <2>2 DEF OrderIInv, DeliveredInTsOrder, HasTopic
<1>7. CASE UNCHANGED vars \/ CancelContext \/ Skip(r) \/ Stop(r) \/ Return(r)
  <2>1. UNCHANGED <<outbox, published, stream, batch>>
    BY <1>7 DEF vars, CancelContext, Skip, Stop, Return
  <2> QED BY <1>0, <2>1 DEF OrderIInv, BatchIsOldest, DeliveredInTsOrder, HasTopic
<1> QED BY <1>0, <1>1, <1>2, <1>3, <1>5, <1>6, <1>7 DEF Next, Work, OrderIInv

\* One relay alone sends the events of an aggregate in the order of their timestamps, whatever is
\* rolled back and sent again.  (Several relays do not: each takes what the others have locked.)
THEOREM OneRelayKeepsOrder ==
    ASSUME NEW r, Relays = {r}
    PROVE  Spec => []DeliveredInTsOrder
<1>1. Init => OrderIInv(r)
  <2> SUFFICES ASSUME Init PROVE OrderIInv(r)
    OBVIOUS
  <2>1. IInv
    BY InitIInv
  <2>2. batch[r] = <<>> /\ Len(<<>>) = 0 /\ outbox = {}
    BY DEF Init
  <2> QED BY <2>1, <2>2 DEF OrderIInv, BatchIsOldest, DeliveredInTsOrder
<1>2. OrderIInv(r) /\ [Next]_vars => OrderIInv(r)'
  BY OrderStep
<1>3. OrderIInv(r) => DeliveredInTsOrder
  BY DEF OrderIInv
<1> QED BY <1>1, <1>2, <1>3, PTL DEF Spec
===========================================================================
