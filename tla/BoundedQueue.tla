---------------------------- MODULE BoundedQueue ----------------------------
(***************************************************************************)
(* What SHARED_ARRAY of multi-lookup.c promises its callers: a first-in    *)
(* first-out queue that never holds more than Capacity items, and that may *)
(* be thrown away as a whole when the program ends.                        *)
(***************************************************************************)
EXTENDS Naturals, Sequences

CONSTANTS Items,      \* what may be stored (the hostnames)
          Capacity    \* the number of slots

VARIABLE queue

Init == queue = << >>

Put == /\ Len(queue) < Capacity
       /\ \E x \in Items : queue' = Append(queue, x)

Take == /\ queue # << >>
        /\ queue' = Tail(queue)

Discard == queue' = << >>

Next == Put \/ Take \/ Discard

Spec == Init /\ [][Next]_queue
=============================================================================
