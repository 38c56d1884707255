----------------------------- MODULE Delivery -----------------------------
(***************************************************************************)
(* What the outbox and its relays promise: a channel that delivers each    *)
(* saved event at least once, any number of times, until it is retired;    *)
(* only a delivered event is retired, and a retired one is not sent again. *)
(***************************************************************************)
EXTENDS Integers, Sequences

CONSTANT Events

VARIABLES saved, stream, retired

Init == saved = {} /\ stream = <<>> /\ retired = {}

Save ==
    /\ saved \subseteq saved' /\ saved' \subseteq Events
    /\ UNCHANGED <<stream, retired>>

Send(e) ==
    /\ e \in saved \ retired
    /\ stream' = Append(stream, e)
    /\ UNCHANGED <<saved, retired>>

Retire ==
    /\ retired \subseteq retired' /\ retired' \subseteq saved
    /\ \A e \in retired' : \E i \in 1..Len(stream) : stream[i] = e
    /\ UNCHANGED <<saved, stream>>

Next == Save \/ Retire \/ \E e \in Events : Send(e)

Spec == Init /\ [][Next]_<<saved, stream, retired>>
===========================================================================
