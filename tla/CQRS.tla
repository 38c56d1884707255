------------------------------- MODULE CQRS -------------------------------
(***************************************************************************)
(* What the application promises its clients: commands append to the log,  *)
(* the view of a product follows its stream one event at a time, and a     *)
(* query returns the view as it is.  The view may lag behind the log.      *)
(***************************************************************************)
EXTENDS EventLog

CONSTANT NoView  \* what a query of a product without a view returns

VARIABLES
    view,  \* view[a]: the event the view of a shows, or NoView
    seen   \* seen[a]: what the last query of a returned

cqrsVars == <<log, view, seen>>

Shown(a) == IF view[a] = NoView THEN 0 ELSE view[a].ver

CQRSInit ==
    /\ Init
    /\ view = [a \in Aggregates |-> NoView]
    /\ seen = [a \in Aggregates |-> NoView]

Command == Next /\ UNCHANGED <<view, seen>>

Project(a) ==
    /\ \E e \in log : /\ e.agg = a /\ e.ver = Shown(a) + 1
                      /\ view' = [view EXCEPT ![a] = [ver |-> e.ver, price |-> e.data]]
    /\ UNCHANGED <<log, seen>>

Query(a) ==
    /\ seen' = [seen EXCEPT ![a] = view[a]]
    /\ UNCHANGED <<log, view>>

CQRSNext == Command \/ \E a \in Aggregates : Project(a) \/ Query(a)

CQRSSpec == CQRSInit /\ [][CQRSNext]_cqrsVars
===========================================================================
