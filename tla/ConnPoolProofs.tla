-------------------------- MODULE ConnPoolProofs --------------------------
(***************************************************************************)
(* Proofs about module ConnPool: the pool never hands out more connections *)
(* than it has, and the users that hold them never all wait for each       *)
(* other, for every number of users and every pool larger than the number  *)
(* of users that nest.                                                     *)
(***************************************************************************)
EXTENDS ConnPool, FiniteSetTheorems, SequenceTheorems, TLAPS

Call == {"begin", "query", "insert", "end"}

\* What a user has still to do inside its transaction, and what outside.
InTx ==
    {<<"end">>, <<"insert", "end">>, <<"query", "insert", "end">>,
     <<"query", "query", "insert", "end">>}

BeforeTx ==
    {<<>>, <<"query">>, <<"query", "query">>, <<"begin", "end">>, <<"begin", "insert", "end">>,
     <<"begin", "query", "insert", "end">>, <<"begin", "query", "query", "insert", "end">>,
     <<"query", "begin", "insert", "end">>, <<"query", "begin", "query", "insert", "end">>,
     <<"query", "query", "begin", "insert", "end">>,
     <<"query", "query", "begin", "query", "insert", "end">>}

\* What a user that does not nest has to do: no query between its begin and its end.
Flat ==
    {<<>>, <<"query">>, <<"begin", "end">>, <<"begin", "insert", "end">>, <<"insert", "end">>,
     <<"end">>}

---------------------------------------------------------------------------
(* The inductive invariant.                                                *)

\* A transaction is open from begin to end; the keys are inserted by its last statement, so that
\* whoever holds one waits for nothing any more.
UserShape(u) ==
    /\ u \in tx => todo[u] \in InTx
    /\ u \notin tx => todo[u] \in BeforeTx
    /\ u \notin Nesting => todo[u] \in Flat
    /\ u \in locked => u \in tx /\ todo[u] = <<"end">>

IInv == TypeOK /\ \A u \in Users : UserShape(u)

---------------------------------------------------------------------------
(* The programs of the users.                                              *)

\* What follows a call inside a transaction.
LEMMA InTxFacts ==
    ASSUME NEW s \in InTx
    PROVE  /\ s \in Seq(Call) /\ s # <<>> /\ Head(s) # "begin"
           /\ Head(s) \in {"query", "insert"} => Tail(s) \in InTx
           /\ Head(s) = "insert" => Tail(s) = <<"end">>
           /\ Head(s) = "query" => s \notin Flat
<1>1. CASE s = <<"end">>
  BY <1>1, Tail(<<"end">>) = <<>> DEF InTx, Flat, Call
<1>2. CASE s = <<"insert", "end">>
  BY <1>2, Tail(<<"insert", "end">>) = <<"end">> DEF InTx, Flat, Call
<1>3. CASE s = <<"query", "insert", "end">>
  BY <1>3, Tail(<<"query", "insert", "end">>) = <<"insert", "end">> DEF InTx, Flat, Call
<1>4. CASE s = <<"query", "query", "insert", "end">>
  BY <1>4, Tail(<<"query", "query", "insert", "end">>) = <<"query", "insert", "end">> DEF InTx, Flat, Call
<1> QED BY <1>1, <1>2, <1>3, <1>4 DEF InTx

\* What follows a call outside a transaction.
LEMMA BeforeTxFacts ==
    ASSUME NEW s \in BeforeTx
    PROVE  /\ s \in Seq(Call)
           /\ s # <<>> => Head(s) \in {"begin", "query"}
           /\ s # <<>> /\ Head(s) = "begin" => Tail(s) \in InTx
           /\ s # <<>> /\ Head(s) = "query" => Tail(s) \in BeforeTx
<1>1. CASE s = <<>>
  BY <1>1 DEF InTx, BeforeTx, Call
<1>2. CASE s = <<"query">>
  BY <1>2, Tail(<<"query">>) = <<>> DEF InTx, BeforeTx, Call
<1>3. CASE s = <<"query", "query">>
  BY <1>3, Tail(<<"query", "query">>) = <<"query">> DEF InTx, BeforeTx, Call
<1>4. CASE s = <<"begin", "end">>
  BY <1>4, Tail(<<"begin", "end">>) = <<"end">> DEF InTx, BeforeTx, Call
<1>5. CASE s = <<"begin", "insert", "end">>
  BY <1>5, Tail(<<"begin", "insert", "end">>) = <<"insert", "end">> DEF InTx, BeforeTx, Call
<1>6. CASE s = <<"begin", "query", "insert", "end">>
  BY <1>6, Tail(<<"begin", "query", "insert", "end">>) = <<"query", "insert", "end">> DEF InTx, BeforeTx, Call
<1>7. CASE s = <<"begin", "query", "query", "insert", "end">>
  BY <1>7, Tail(<<"begin", "query", "query", "insert", "end">>) = <<"query", "query", "insert", "end">> DEF InTx, BeforeTx, Call
<1>8. CASE s = <<"query", "begin", "insert", "end">>
  BY <1>8, Tail(<<"query", "begin", "insert", "end">>) = <<"begin", "insert", "end">> DEF InTx, BeforeTx, Call
<1>9. CASE s = <<"query", "begin", "query", "insert", "end">>
  BY <1>9, Tail(<<"query", "begin", "query", "insert", "end">>) = <<"begin", "query", "insert", "end">> DEF InTx, BeforeTx, Call
<1>10. CASE s = <<"query", "query", "begin", "insert", "end">>
  BY <1>10, Tail(<<"query", "query", "begin", "insert", "end">>) = <<"query", "begin", "insert", "end">> DEF InTx, BeforeTx, Call
<1>11. CASE s = <<"query", "query", "begin", "query", "insert", "end">>
  BY <1>11, Tail(<<"query", "query", "begin", "query", "insert", "end">>) = <<"query", "begin", "query", "insert", "end">> DEF InTx, BeforeTx, Call
<1> QED BY <1>1, <1>2, <1>3, <1>4, <1>5, <1>6, <1>7, <1>8, <1>9, <1>10, <1>11 DEF BeforeTx

\* What follows a call of a user that does not nest.
LEMMA FlatFacts ==
    ASSUME NEW s \in Flat
    PROVE  s # <<>> => Tail(s) \in Flat
<1>1. CASE s = <<>>
  BY <1>1 DEF Flat
<1>2. CASE s = <<"query">>
  BY <1>2, Tail(<<"query">>) = <<>> DEF Flat
<1>3. CASE s = <<"begin", "end">>
  BY <1>3, Tail(<<"begin", "end">>) = <<"end">> DEF Flat
<1>4. CASE s = <<"begin", "insert", "end">>
  BY <1>4, Tail(<<"begin", "insert", "end">>) = <<"insert", "end">> DEF Flat
<1>5. CASE s = <<"insert", "end">>
  BY <1>5, Tail(<<"insert", "end">>) = <<"end">> DEF Flat
<1>6. CASE s = <<"end">>
  BY <1>6, Tail(<<"end">>) = <<>> DEF Flat
<1> QED BY <1>1, <1>2, <1>3, <1>4, <1>5, <1>6 DEF Flat

\* Every operation starts outside a transaction, and those that query inside one nest.
LEMMA CallsFacts ==
    ASSUME NEW u \in Users, NEW c \in Calls(u)
    PROVE  c \in BeforeTx /\ (u \notin Nesting => c \in Flat)
<1>1. CASE u \in Nesting
  <2>1. u \notin Creates /\ u \notin Relays /\ u \notin Queries
    BY <1>1, PoolAssumption
  <2>2. c \in UpdateCalls \cup ProjectionCalls
    BY <1>1, <2>1 DEF Calls, Nesting
  <2> QED BY <1>1, <2>2 DEF UpdateCalls, ProjectionCalls, BeforeTx
<1>2. CASE u \notin Nesting
  <2>1. c \in CreateCalls \cup RelayCalls \cup QueryCalls
    BY <1>2 DEF Calls, Nesting, Users
  <2> QED BY <2>1 DEF CreateCalls, RelayCalls, QueryCalls, BeforeTx, Flat
<1> QED BY <1>1, <1>2

---------------------------------------------------------------------------
(* Counting connections.                                                   *)

\* Connections are counted by finite sets of users.
LEMMA HeldTyped ==
    ASSUME NEW S \in SUBSET Users
    PROVE  IsFiniteSet(S) /\ Cardinality(S) \in Nat
BY PoolAssumption, FS_Subset, FS_CardinalityType

\* Taking a connection counts one more, giving one back counts no more than before.
LEMMA HeldChanges ==
    ASSUME NEW S \in SUBSET Users, NEW u \in Users
    PROVE  /\ u \notin S => Cardinality(S \cup {u}) = Cardinality(S) + 1
           /\ Cardinality(S \ {u}) <= Cardinality(S)
<1>1. IsFiniteSet(S) /\ Cardinality(S) \in Nat
  BY HeldTyped
<1>2. u \notin S => Cardinality(S \cup {u}) = Cardinality(S) + 1
  BY <1>1, FS_AddElement
<1>3. Cardinality(S \ {u}) <= Cardinality(S)
  BY <1>1, FS_Subset, S \ {u} \subseteq S
<1> QED BY <1>2, <1>3

---------------------------------------------------------------------------
(* The steps.                                                              *)

\* From the parts to the whole: a step of u changes the program of u alone.
LEMMA StepKeeps ==
    ASSUME IInv, NEW u \in Users, NEW s \in Seq(Call),
           todo' = [todo EXCEPT ![u] = s],
           tx' \subseteq tx \cup {u}, tx \subseteq tx' \cup {u},
           locked' \subseteq locked \cup {u}, locked \subseteq locked' \cup {u},
           running' \subseteq running \cup {u},
           UserShape(u)', u \in running' => s # <<>> /\ Head(s) = "query",
           Held' <= MaxConns, UNCHANGED <<cancelled, closing, closed>>
    PROVE  IInv'
<1>1. /\ todo'[u] = s /\ \A v \in Users \ {u} : todo'[v] = todo[v]
      /\ todo' \in [Users -> Seq(Call)]
  BY DEF IInv, TypeOK, Call
<1>2. ASSUME NEW v \in Users \ {u} PROVE UserShape(v)'
  BY <1>1 DEF IInv, UserShape
<1>3. \A v \in running' : NextCall(v, "query")'
  BY <1>1 DEF IInv, TypeOK, NextCall
<1>4. \A v \in Users : UserShape(v)'
  BY <1>2
<1>5. locked' \subseteq tx'
  BY <1>4 DEF IInv, TypeOK, UserShape
<1> QED BY <1>1, <1>3, <1>4, <1>5 DEF IInv, TypeOK, Call

LEMMA ReturnStep ==
    ASSUME IInv, NEW u \in Users, Return(u)
    PROVE  IInv'
<1>1. /\ todo' = [todo EXCEPT ![u] = <<>>] /\ <<>> \in Seq(Call)
      /\ tx' = tx \ {u} /\ running' = running \ {u} /\ locked' = locked \ {u}
      /\ UNCHANGED <<cancelled, closing, closed>>
  BY DEF Return
<1>2. UserShape(u)'
  <2>1. todo'[u] = <<>>
    BY <1>1 DEF IInv, TypeOK
  <2> QED BY <1>1, <2>1 DEF UserShape, BeforeTx, Flat
<1>3. Held' <= MaxConns
  <2>1. /\ Cardinality(tx') <= Cardinality(tx) /\ Cardinality(running') <= Cardinality(running)
    BY <1>1, HeldChanges DEF IInv, TypeOK
  <2>2. /\ Cardinality(tx) \in Nat /\ Cardinality(running) \in Nat
        /\ Cardinality(tx') \in Nat /\ Cardinality(running') \in Nat
    BY <1>1, HeldTyped DEF IInv, TypeOK
  <2> QED BY <2>1, <2>2, PoolAssumption DEF IInv, TypeOK, Held
<1> QED BY <1>1, <1>2, <1>3, StepKeeps

\* A user makes a call of its program and goes on to the next.
LEMMA TailTyped ==
    ASSUME IInv, NEW u \in Users, todo[u] # <<>>
    PROVE  /\ Tail(todo[u]) \in Seq(Call)
           /\ u \in tx /\ Head(todo[u]) \in {"query", "insert"} => Tail(todo[u]) \in InTx
           /\ u \in tx /\ Head(todo[u]) = "insert" => Tail(todo[u]) = <<"end">>
           /\ u \in tx => Head(todo[u]) # "begin"
           /\ u \notin tx => Head(todo[u]) \in {"begin", "query"}
           /\ u \notin tx /\ Head(todo[u]) = "begin" => Tail(todo[u]) \in InTx
           /\ u \notin tx /\ Head(todo[u]) = "query" => Tail(todo[u]) \in BeforeTx
           /\ u \notin Nesting => Tail(todo[u]) \in Flat
           /\ u \in locked => Head(todo[u]) = "end"
<1>1. todo[u] \in Seq(Call) /\ UserShape(u)
  BY DEF IInv, TypeOK, Call
<1>2. Tail(todo[u]) \in Seq(Call)
  BY <1>1
<1>3. u \in tx => todo[u] \in InTx
  BY <1>1 DEF UserShape
<1>4. u \notin tx => todo[u] \in BeforeTx
  BY <1>1 DEF UserShape
<1>5. u \notin Nesting => Tail(todo[u]) \in Flat
  BY <1>1, FlatFacts DEF UserShape
<1>6. u \in locked => Head(todo[u]) = "end"
  BY <1>1 DEF UserShape
<1> QED BY <1>2, <1>3, <1>4, <1>5, <1>6, InTxFacts, BeforeTxFacts

LEMMA StartStep ==
    ASSUME IInv, NEW u \in Users, Start(u)
    PROVE  IInv'
<1>1. PICK c \in Calls(u) : todo' = [todo EXCEPT ![u] = c]
  BY DEF Start
<1>2. /\ todo[u] = <<>> /\ UNCHANGED <<tx, running, locked, cancelled, closing, closed>>
  BY DEF Start
<1>3. c \in BeforeTx /\ (u \notin Nesting => c \in Flat) /\ c \in Seq(Call)
  BY CallsFacts, BeforeTxFacts
<1>4. UserShape(u)
  BY DEF IInv
<1>5. u \notin tx
  BY <1>2, <1>4, InTxFacts DEF UserShape
<1>6. u \notin running /\ u \notin locked
  BY <1>2, <1>5 DEF IInv, TypeOK, NextCall
<1>7. UserShape(u)'
  <2>1. todo'[u] = c
    BY <1>1 DEF IInv, TypeOK
  <2> QED BY <1>2, <1>3, <1>5, <1>6, <2>1 DEF UserShape
<1>8. Held' <= MaxConns
  BY <1>2 DEF IInv, TypeOK, Held
<1> QED BY <1>1, <1>2, <1>3, <1>6, <1>7, <1>8, StepKeeps

LEMMA BeginStep ==
    ASSUME IInv, NEW u \in Users, Begin(u)
    PROVE  IInv'
<1>1. /\ todo[u] # <<>> /\ Head(todo[u]) = "begin" /\ Held < MaxConns
      /\ tx' = tx \cup {u} /\ todo' = [todo EXCEPT ![u] = Tail(todo[u])]
      /\ UNCHANGED <<running, locked, cancelled, closing, closed>>
  BY DEF Begin, NextCall, CanAcquire
<1>2. /\ u \notin tx /\ Tail(todo[u]) \in InTx /\ Tail(todo[u]) \in Seq(Call)
      /\ u \notin Nesting => Tail(todo[u]) \in Flat
      /\ u \notin locked
  BY <1>1, TailTyped
<1>3. u \notin running
  BY <1>1 DEF IInv, TypeOK, NextCall
<1>4. UserShape(u)'
  <2>1. todo'[u] = Tail(todo[u])
    BY <1>1 DEF IInv, TypeOK
  <2> QED BY <1>1, <1>2, <2>1 DEF UserShape
<1>5. Held' <= MaxConns
  <2>1. Cardinality(tx') = Cardinality(tx) + 1
    BY <1>1, <1>2, HeldChanges DEF IInv, TypeOK
  <2>2. Cardinality(tx) \in Nat /\ Cardinality(running) \in Nat
    BY HeldTyped DEF IInv, TypeOK
  <2> QED BY <1>1, <2>1, <2>2, PoolAssumption DEF Held
<1> QED BY <1>1, <1>2, <1>3, <1>4, <1>5, StepKeeps

LEMMA QueryStep ==
    ASSUME IInv, NEW u \in Users, Query(u)
    PROVE  IInv'
<1>1. /\ NextCall(u, "query") /\ u \notin running /\ Held < MaxConns
      /\ running' = running \cup {u} /\ UNCHANGED <<todo, tx, locked, cancelled, closing, closed>>
  BY DEF Query, CanAcquire
<1>2. Held' <= MaxConns
  <2>1. Cardinality(running') = Cardinality(running) + 1
    BY <1>1, HeldChanges DEF IInv, TypeOK
  <2>2. Cardinality(tx) \in Nat /\ Cardinality(running) \in Nat
    BY HeldTyped DEF IInv, TypeOK
  <2> QED BY <1>1, <2>1, <2>2, PoolAssumption DEF Held
<1>3. \A v \in running' : NextCall(v, "query")'
  BY <1>1 DEF IInv, TypeOK, NextCall
<1>4. \A v \in Users : UserShape(v)'
  BY <1>1 DEF IInv, UserShape
<1> QED BY <1>1, <1>2, <1>3, <1>4 DEF IInv, TypeOK

LEMMA QueryDoneStep ==
    ASSUME IInv, NEW u \in Users, QueryDone(u)
    PROVE  IInv'
<1>1. /\ u \in running /\ running' = running \ {u}
      /\ todo' = [todo EXCEPT ![u] = Tail(todo[u])]
      /\ UNCHANGED <<tx, locked, cancelled, closing, closed>>
  BY DEF QueryDone
<1>2. todo[u] # <<>> /\ Head(todo[u]) = "query"
  BY <1>1 DEF IInv, TypeOK, NextCall
<1>3. /\ u \in tx => Tail(todo[u]) \in InTx
      /\ u \notin tx => Tail(todo[u]) \in BeforeTx
      /\ u \notin Nesting => Tail(todo[u]) \in Flat
      /\ Tail(todo[u]) \in Seq(Call) /\ u \notin locked
  BY <1>2, TailTyped
<1>4. UserShape(u)'
  <2>1. todo'[u] = Tail(todo[u])
    BY <1>1 DEF IInv, TypeOK
  <2> QED BY <1>1, <1>3, <2>1 DEF UserShape
<1>5. Held' <= MaxConns
  <2>1. Cardinality(running') <= Cardinality(running)
    BY <1>1, HeldChanges DEF IInv, TypeOK
  <2>2. Cardinality(tx) \in Nat /\ Cardinality(running) \in Nat /\ Cardinality(running') \in Nat
    BY <1>1, HeldTyped DEF IInv, TypeOK
  <2> QED BY <1>1, <2>1, <2>2, PoolAssumption DEF IInv, TypeOK, Held
<1> QED BY <1>1, <1>3, <1>4, <1>5, StepKeeps

LEMMA InsertStep ==
    ASSUME IInv, NEW u \in Users, Insert(u)
    PROVE  IInv'
<1>1. /\ todo[u] # <<>> /\ Head(todo[u]) = "insert"
      /\ locked' = locked \cup {u} /\ todo' = [todo EXCEPT ![u] = Tail(todo[u])]
      /\ UNCHANGED <<tx, running, cancelled, closing, closed>>
  BY DEF Insert, NextCall
<1>2. /\ u \in tx /\ Tail(todo[u]) = <<"end">> /\ Tail(todo[u]) \in InTx
      /\ u \notin Nesting => Tail(todo[u]) \in Flat
      /\ Tail(todo[u]) \in Seq(Call)
  BY <1>1, TailTyped
<1>3. u \notin running
  BY <1>1 DEF IInv, TypeOK, NextCall
<1>4. UserShape(u)'
  <2>1. todo'[u] = Tail(todo[u])
    BY <1>1 DEF IInv, TypeOK
  <2> QED BY <1>1, <1>2, <2>1 DEF UserShape
<1>5. Held' <= MaxConns
  BY <1>1 DEF IInv, TypeOK, Held
<1> QED BY <1>1, <1>2, <1>3, <1>4, <1>5, StepKeeps

\* Shutdown touches no user.
LEMMA ShutdownStep ==
    ASSUME IInv, UNCHANGED <<todo, tx, running, locked>>,
           cancelled' \in BOOLEAN, closing' \in BOOLEAN, closed' \in BOOLEAN
    PROVE  IInv'
<1>1. \A v \in Users : UserShape(v)'
  BY DEF IInv, UserShape
<1>2. Held' = Held /\ \A v : NextCall(v, "query")' = NextCall(v, "query")
  BY DEF Held, NextCall
<1> QED BY <1>1, <1>2 DEF IInv, TypeOK

---------------------------------------------------------------------------
(* The theorems.                                                           *)

LEMMA InitIInv == Init => IInv
<1> SUFFICES ASSUME Init PROVE IInv
  OBVIOUS
<1>1. Held = 0
  BY FS_EmptySet DEF Init, Held
<1>2. <<>> \in Seq({"begin", "query", "insert", "end"})
  OBVIOUS
<1>3. \A u \in Users : UserShape(u)
  BY DEF Init, UserShape, BeforeTx, Flat
<1>4. Held <= MaxConns
  BY <1>1, PoolAssumption
<1>5. todo \in [Users -> Seq({"begin", "query", "insert", "end"})]
  BY <1>2 DEF Init
<1> QED BY <1>3, <1>4, <1>5 DEF Init, IInv, TypeOK

LEMMA NextIInv == IInv /\ [Next]_vars => IInv'
<1> SUFFICES ASSUME IInv, [Next]_vars PROVE IInv'
  OBVIOUS
<1>1. CASE UNCHANGED vars \/ Signal \/ Close \/ CloseReturns
  <2>1. /\ UNCHANGED <<todo, tx, running, locked>>
        /\ cancelled' \in BOOLEAN /\ closing' \in BOOLEAN /\ closed' \in BOOLEAN
    BY <1>1 DEF vars, Signal, Close, CloseReturns, IInv, TypeOK
  <2> QED BY <2>1, ShutdownStep
<1>2. ASSUME NEW u \in Users, Start(u) \/ Proceed(u) \/ CallFails(u) PROVE IInv'
  BY <1>2, StartStep, BeginStep, QueryStep, QueryDoneStep, InsertStep, ReturnStep
     DEF Proceed, AcquireFails, End, CallFails
<1> QED BY <1>1, <1>2 DEF Next

\* IInv is an invariant of the users of the pool.
THEOREM Inductive == Spec => []IInv
BY InitIInv, NextIInv, PTL DEF Spec

\* Every variable keeps its type, and the pool never has more connections out than MaxConns.
THEOREM TypeCorrect == Spec => []TypeOK
<1>1. IInv => TypeOK
  BY DEF IInv
<1> QED BY <1>1, Inductive, PTL

\* A user with a query in progress waits for nothing, and neither does one that holds its keys.
LEMMA HoldersMove ==
    ASSUME IInv, NEW u \in running \cup locked
    PROVE  ~WaitsForConn(u) /\ ~WaitsForKey(u)
<1>1. CASE u \in running
  <2>1. NextCall(u, "query")
    BY <1>1 DEF IInv, TypeOK
  <2> QED BY <1>1, <2>1 DEF WaitsForConn, WaitsForKey, NextCall
<1>2. CASE u \in locked
  <2>1. todo[u] = <<"end">> /\ Head(<<"end">>) = "end"
    BY <1>2 DEF IInv, TypeOK, UserShape
  <2> QED BY <2>1 DEF WaitsForConn, WaitsForKey, NextCall
<1> QED BY <1>1, <1>2

\* A user that waits for a connection inside its transaction is one of those that nest.
LEMMA WaitersNest ==
    ASSUME IInv, NEW u \in tx, WaitsForConn(u)
    PROVE  u \in Nesting
<1>1. u \in Users /\ todo[u] \in InTx /\ (u \notin Nesting => todo[u] \in Flat)
  BY DEF IInv, TypeOK, UserShape
<1>2. Head(todo[u]) = "query"
  BY <1>1, InTxFacts DEF WaitsForConn, NextCall
<1> QED BY <1>1, <1>2, InTxFacts

\* Transactions that ask the pool for a second connection cannot exhaust it: with more connections
\* than users that nest, some holder of a connection can always go on.
THEOREM PoolNeverBlocks == Spec => []PoolKeepsMoving
<1>1. ASSUME IInv, Held = MaxConns,
             \A u \in tx \cup running : WaitsForConn(u) \/ WaitsForKey(u)
      PROVE  FALSE
  <2>1. running = {} /\ locked = {}
    <3>1. running \subseteq tx \cup running /\ locked \subseteq tx \cup running
      BY <1>1 DEF IInv, TypeOK
    <3> QED BY <1>1, <3>1, HoldersMove
  <2>2. tx \subseteq Nesting
    <3>1. \A u \in tx : WaitsForConn(u)
      BY <1>1, <2>1 DEF WaitsForKey
    <3> QED BY <1>1, <3>1, WaitersNest
  <2>3. IsFiniteSet(Nesting) /\ Cardinality(Nesting) \in Nat
    BY HeldTyped DEF Nesting, Users
  <2>4. Cardinality(tx) <= Cardinality(Nesting) /\ Cardinality(tx) \in Nat
    BY <2>2, <2>3, FS_Subset, FS_CardinalityType
  <2>5. Cardinality(tx) = MaxConns
    BY <1>1, <2>1, <2>4, FS_EmptySet DEF Held
  <2> QED BY <2>3, <2>4, <2>5, PoolAssumption
<1>2. IInv => PoolKeepsMoving
  BY <1>1 DEF PoolKeepsMoving
<1> QED BY <1>2, Inductive, PTL
===========================================================================
