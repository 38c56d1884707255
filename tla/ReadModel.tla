---------------------------- MODULE ReadModel -----------------------------
(***************************************************************************)
(* What cqrs.Projection promises of a read model: each event of an         *)
(* aggregate is applied once, in version order, and is recorded as         *)
(* processed in the same instant.                                          *)
(***************************************************************************)
EXTENDS Integers

CONSTANTS Aggregates, MaxVersion

VARIABLES processed, view

Init == processed = {} /\ view = [a \in Aggregates |-> 0]

Apply(a) ==
    /\ view[a] < MaxVersion
    /\ view' = [view EXCEPT ![a] = view[a] + 1]
    /\ processed' = processed \cup {[agg |-> a, ver |-> view[a] + 1]}

Next == \E a \in Aggregates : Apply(a)

Spec == Init /\ [][Next]_<<processed, view>>
===========================================================================
