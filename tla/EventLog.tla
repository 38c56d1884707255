----------------------------- MODULE EventLog -----------------------------
(***************************************************************************)
(* What the event store promises its readers: one append-only stream of    *)
(* events per aggregate.  A command appends all of its events at once,     *)
(* numbered from the last version on, and nothing is ever changed.         *)
(***************************************************************************)
EXTENDS Integers

CONSTANTS Aggregates, Products, MaxChanges, MaxVersion

VARIABLE log

Entry == [kind : {"Created", "Updated"}, data : Products]

\* The last version of the stream of a is v.
LastVersion(a, v) ==
    /\ \A e \in log : e.agg = a => e.ver <= v
    /\ v = 0 \/ \E e \in log : e.agg = a /\ e.ver = v

Init == log = {}

\* Only the first event of a stream can be a ProductCreated: its command did not load anything.
Append(a, v, n, s) ==
    /\ LastVersion(a, v) /\ v + n <= MaxVersion
    /\ \A i \in 1..n : s[i].kind = "Created" => v + i = 1
    /\ log' = log \cup {[agg |-> a, ver |-> v + i, kind |-> s[i].kind, data |-> s[i].data] :
                           i \in 1..n}

Next ==
    \E a \in Aggregates, v \in 0..MaxVersion, n \in 1..MaxChanges :
        \E s \in [1..n -> Entry] : Append(a, v, n, s)

Spec == Init /\ [][Next]_log
===========================================================================
