------------------------- MODULE ProductReadSide --------------------------
(***************************************************************************)
(* The projection of the sample application: Projection.Handle with        *)
(* ProductProjectionHandler.  The view repository writes through the       *)
(* connection pool, so its statement commits at once, outside the          *)
(* transaction of Handle, and the handler logs an error of the repository  *)
(* without returning it (sample/query/projection, sample/query/repository).*)
(***************************************************************************)
EXTENDS Projection, FiniteSets

CONSTANTS
    Orphans,   \* aggregates whose first event is a ProductUpdated (an update of an unknown id)
    MaxSilent  \* bound: events whose repository error the handler only logs

ASSUME ReadSideAssumption == Orphans \subseteq Aggregates /\ MaxSilent \in Nat

VARIABLE lost  \* history: events whose write failed with an error that was only logged

readVars == <<vars, lost>>

Created(e) == e.ver = 1 /\ e.agg \notin Orphans

ReadSideTypeOK == TypeOK /\ lost \subseteq Event

ReadSideInit == Init /\ lost = {}

---------------------------------------------------------------------------
(* SaveProductView inserts the row or overwrites it, UpdateProductView     *)
(* updates the row if there is one; neither looks at the version it finds. *)
UpdateWithoutInsert(e) ==  \* mutant
    view' = IF view[e.agg] > 0 THEN [view EXCEPT ![e.agg] = e.ver] ELSE view
WriteProductView(e) ==
    view' = IF Created(e) \/ view[e.agg] > 0 THEN [view EXCEPT ![e.agg] = e.ver] ELSE view

HandleProductEvent(w) ==
    /\ pc[w] = "handler"
    /\ WriteProductView(Evt(w))
    /\ pc' = [pc EXCEPT ![w] = "mark"]
    /\ UNCHANGED <<acked, processed, msgs, cur, tx, failures, lost>>

(* The statement fails: the handler logs the error and returns nil.        *)
ErrorOnlyLogged(w) ==
    /\ pc[w] = "handler" /\ Cardinality(lost) < MaxSilent
    /\ lost' = lost \cup {Evt(w)}
    /\ pc' = [pc EXCEPT ![w] = "mark"]
    /\ UNCHANGED <<acked, processed, view, msgs, cur, tx, failures>>

---------------------------------------------------------------------------
ReadSideNext ==
    \E w \in Workers :
        \/ ((\E m \in Message : Fetch(w, m)) \/ FetchTimesOut(w) \/ Proceed(w) \/ Fails(w))
              /\ UNCHANGED lost
        \/ HandleProductEvent(w) \/ ErrorOnlyLogged(w)

ReadSideSpec == ReadSideInit /\ [][ReadSideNext]_readVars

\* As for Projection: calls return, lock waiters are served, messages are redelivered.  A retry
\* can fail again and again here (a processed event whose write was lost is not old), so the end
\* of the retry time, MaxElapsedTime, is fair too.
ReadSideFairSpec ==
    /\ ReadSideSpec
    /\ \A w \in Workers : /\ WF_readVars(Proceed(w) /\ UNCHANGED lost)
                          /\ WF_readVars(HandleProductEvent(w) \/ ErrorOnlyLogged(w))
                          /\ SF_readVars(MarkAsProcessed(w) /\ UNCHANGED lost)
                          /\ SF_readVars(CommitAborted(w) /\ GiveUp(w) /\ UNCHANGED lost)
    /\ \A m \in Message : SF_readVars(\E w \in Workers : Fetch(w, m) /\ UNCHANGED lost)

---------------------------------------------------------------------------
(* Properties.                                                             *)

\* The products whose view can no longer be completed.
Damaged == Orphans \cup {e.agg : e \in lost}

\* With one worker, an event recorded as processed is in the view, unless the write of that very
\* event failed: the write precedes the record, a redelivery after a crash between the two only
\* adds the record, and nothing is recorded after an event that was lost.
ProcessedIsVisible ==
    \A e \in processed : e.ver <= view[e.agg] \/ e \in lost \/ e.agg \in Orphans

\* With one worker the version of a view never decreases, although the repository overwrites
\* whatever version it finds.
ViewNeverRegresses == [][\A a \in Aggregates : view'[a] >= view[a]]_readVars

\* Events of a damaged product are rejected and delivered again for ever; the views of the other
\* products catch up all the same.
HealthyViewsCatchUp == <>[](\A a \in Aggregates \ Damaged : view[a] = MaxVersion)

\* What README.md says of idempotent consumers: an event that is recorded as processed is not
\* processed again.
AppliedAtMostOnce ==
    [][\A w \in Workers : HandleProductEvent(w) => Evt(w) \notin processed]_readVars

\* What sample/main.go says of the read model: it is eventually consistent.
EventuallyConsistent == <>[](\A a \in Aggregates : view[a] = MaxVersion)
===========================================================================
