----------------------------- MODULE ConnPool -----------------------------
(***************************************************************************)
(* The connection pool that every part of a process shares                 *)
(* (infra/postgres/db.go, sample/main.go).  A transaction holds one        *)
(* connection from Begin to its end, and a query through the pool holds    *)
(* one of its own while it runs.  UpdateProduct loads the aggregate, and   *)
(* the sample's projection writes its view, through the pool while their   *)
(* transaction is open: these users hold one connection and ask for        *)
(* another.                                                                *)
(*                                                                         *)
(* A user is a goroutine, and its calls are the ones that need a           *)
(* connection or can wait.  Statements that insert can wait for a key of   *)
(* an open transaction; the worst case is modelled, where all commands are *)
(* about one aggregate and all projections about one event.                *)
(***************************************************************************)
EXTENDS Integers, Sequences, FiniteSets

CONSTANTS
    MaxConns,    \* the limit of the pool
    Creates,     \* goroutines that call CreateProductHandler.Handle
    Updates,     \* goroutines that call UpdateProductHandler.Handle
    Relays,      \* relay goroutines
    Projectors,  \* subscriber goroutines, which call Projection.Handle
    Queries      \* goroutines that call GetProductByIDHandler.Query

Users == Creates \cup Updates \cup Relays \cup Projectors \cup Queries

\* The users that ask for a second connection.
Nesting == Updates \cup Projectors

\* The pool is larger than the number of users that nest: sample/main.go has two of them and pgx
\* never less than four connections.
ASSUME PoolAssumption ==
    /\ IsFiniteSet(Users) /\ MaxConns \in Nat /\ Cardinality(Nesting) < MaxConns
    /\ Nesting \cap (Creates \cup Relays \cup Queries) = {}

VARIABLES
    todo,       \* todo[u]: the calls u has still to make, <<>> between two operations
    tx,         \* the users whose open transaction holds a connection
    running,    \* the users whose query through the pool holds a connection
    locked,     \* the users whose open transaction has inserted its keys
    cancelled,  \* the context of main is cancelled
    closing,    \* DB.Close has been called
    closed      \* DB.Close has returned, and the process with it

vars == <<todo, tx, running, locked, cancelled, closing, closed>>

---------------------------------------------------------------------------
(* What each operation calls.  A retry of Projection.Handle holds nothing  *)
(* between two attempts, so it is one more operation.                      *)
CreateLoadsFirst == {<<"begin", "query", "insert", "end">>}  \* mutant
CreateCalls == {<<"begin", "insert", "end">>}

\* Load is two queries.
UpdateReadsBack == {<<"begin", "query", "insert", "query", "end">>}  \* mutant
UpdateCalls == {<<"begin", "query", "query", "insert", "end">>}

\* Fetching skips locked rows and marking finds them locked by its own transaction: no waiting.
RelayCalls == {<<"begin", "end">>}

\* IsProcessed; GetVersion; then nothing, the record alone, or the handler and the record.
ProjectionCalls ==
    {<<"query">>, <<"query", "query">>, <<"query", "query", "begin", "insert", "end">>,
     <<"query", "query", "begin", "query", "insert", "end">>}

QueryCalls == {<<"query">>}

Calls(u) ==
    CASE u \in Creates -> CreateCalls
      [] u \in Updates -> UpdateCalls
      [] u \in Relays -> RelayCalls
      [] u \in Projectors -> ProjectionCalls
      [] u \in Queries -> QueryCalls

\* Relays and subscribers run under the context of main, commands and queries under their own.
ContextDone(u) == cancelled /\ u \in Relays \cup Projectors

Held == Cardinality(tx) + Cardinality(running)

NextCall(u, c) == todo[u] # <<>> /\ Head(todo[u]) = c

\* u is blocked in, or about to make, a call that takes a connection.
WaitsForConn(u) == u \notin running /\ (NextCall(u, "begin") \/ NextCall(u, "query"))

\* The users that insert the same key as u.
Rivals(u) == (IF u \in Projectors THEN Projectors ELSE Creates \cup Updates) \ {u}
WaitsForKey(u) == NextCall(u, "insert") /\ Rivals(u) \cap locked # {}

TypeOK ==
    /\ todo \in [Users -> Seq({"begin", "query", "insert", "end"})]
    /\ tx \subseteq Users /\ running \subseteq Users /\ locked \subseteq tx
    /\ \A u \in running : NextCall(u, "query")
    /\ Held <= MaxConns
    /\ cancelled \in BOOLEAN /\ closing \in BOOLEAN /\ closed \in BOOLEAN

Init ==
    /\ todo = [u \in Users |-> <<>>]
    /\ tx = {} /\ running = {} /\ locked = {}
    /\ cancelled = FALSE /\ closing = FALSE /\ closed = FALSE

---------------------------------------------------------------------------
Start(u) ==
    /\ todo[u] = <<>> /\ ~ContextDone(u)
    /\ \E c \in Calls(u) : todo' = [todo EXCEPT ![u] = c]
    /\ UNCHANGED <<tx, running, locked, cancelled, closing, closed>>

CanAcquire(u) == Held < MaxConns /\ ~closing /\ ~ContextDone(u)

(* Pool.Begin.                                                             *)
Begin(u) ==
    /\ NextCall(u, "begin") /\ CanAcquire(u)
    /\ tx' = tx \cup {u}
    /\ todo' = [todo EXCEPT ![u] = Tail(todo[u])]
    /\ UNCHANGED <<running, locked, cancelled, closing, closed>>

(* Pool.Query, QueryRow and Exec: the connection goes back when the result *)
(* has been read.                                                          *)
Query(u) ==
    /\ NextCall(u, "query") /\ u \notin running /\ CanAcquire(u)
    /\ running' = running \cup {u}
    /\ UNCHANGED <<todo, tx, locked, cancelled, closing, closed>>

RowsNotClosed(u) ==  \* mutant
    /\ u \in running
    /\ todo' = [todo EXCEPT ![u] = Tail(todo[u])]
    /\ UNCHANGED <<tx, running, locked, cancelled, closing, closed>>
QueryDone(u) ==
    /\ u \in running
    /\ running' = running \ {u}
    /\ todo' = [todo EXCEPT ![u] = Tail(todo[u])]
    /\ UNCHANGED <<tx, locked, cancelled, closing, closed>>

(* A statement of the transaction that inserts keys.                       *)
Insert(u) ==
    /\ NextCall(u, "insert") /\ ~WaitsForKey(u)
    /\ locked' = locked \cup {u}
    /\ todo' = [todo EXCEPT ![u] = Tail(todo[u])]
    /\ UNCHANGED <<tx, running, cancelled, closing, closed>>

(* The operation ends: Commit or the deferred Rollback gives back the      *)
(* connection of the transaction, and a result that is closed its own.     *)
ReturnWithoutRollback(u) ==  \* mutant
    /\ todo' = [todo EXCEPT ![u] = <<>>]
    /\ running' = running \ {u} /\ locked' = locked \ {u}
    /\ UNCHANGED <<tx, cancelled, closing, closed>>
Return(u) ==
    /\ todo' = [todo EXCEPT ![u] = <<>>]
    /\ tx' = tx \ {u} /\ running' = running \ {u} /\ locked' = locked \ {u}
    /\ UNCHANGED <<cancelled, closing, closed>>

End(u) == NextCall(u, "end") /\ Return(u)

\* A call on a connection that u holds returns an error, because of its context or otherwise.
CallFails(u) == u \in tx \cup running /\ ~WaitsForConn(u) /\ Return(u)

(* A call that takes a connection returns an error: the context is done,   *)
(* or it is the caller's turn and the pool is closing or cannot connect.   *)
AcquireFails(u) == WaitsForConn(u) /\ (ContextDone(u) \/ Held < MaxConns) /\ Return(u)

---------------------------------------------------------------------------
(* Shutdown: a signal cancels the context, main returns, and its deferred  *)
(* DB.Close refuses new connections and waits for the ones that are out.   *)
Signal ==
    /\ ~cancelled /\ cancelled' = TRUE
    /\ UNCHANGED <<todo, tx, running, locked, closing, closed>>

Close ==
    /\ cancelled /\ ~closing /\ closing' = TRUE
    /\ UNCHANGED <<todo, tx, running, locked, cancelled, closed>>

CloseReturns ==
    /\ closing /\ ~closed /\ tx = {} /\ running = {}
    /\ closed' = TRUE
    /\ UNCHANGED <<todo, tx, running, locked, cancelled, closing>>

---------------------------------------------------------------------------
\* What u does by itself: it makes one call after the other.
Proceed(u) ==
    Begin(u) \/ Query(u) \/ AcquireFails(u) \/ QueryDone(u) \/ Insert(u) \/ End(u)

Next ==
    \/ ~closed /\ \E u \in Users : Start(u) \/ Proceed(u) \/ CallFails(u)
    \/ Signal \/ Close \/ CloseReturns

Spec == Init /\ [][Next]_vars

\* Every call returns.  Strongly fair, since the pool serves its waiters in the order they came and
\* PostgreSQL wakes those that wait for a key.  Nothing has to start, and no call has to fail
\* while there is a connection for it.
Fairness ==
    /\ \A u \in Users : SF_vars(~closed /\ Proceed(u))
    /\ WF_vars(Close) /\ WF_vars(CloseReturns)

FairSpec == Spec /\ Fairness

---------------------------------------------------------------------------
(* Properties.                                                             *)

\* The users never block each other: when every connection is out, one of the users that hold
\* them waits neither for a connection nor for a key, although transactions ask for a second
\* connection and hold keys others wait for.
PoolKeepsMoving ==
    Held = MaxConns => \E u \in tx \cup running : ~WaitsForConn(u) /\ ~WaitsForKey(u)

\* Every operation ends, whatever competes with it for connections and keys.
OperationsEnd == \A u \in Users : todo[u] # <<>> ~> todo[u] = <<>> \/ closed

\* Shutdown completes: DB.Close, which waits for all connections, returns although commands and
\* queries are not told of the signal and may have just begun.
ShutdownCompletes == cancelled ~> closed
===========================================================================
