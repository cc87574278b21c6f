---------------------------- MODULE BoundedQueue ----------------------------
(***************************************************************************)
(* What a single-producer single-consumer FIFO<T> promises its two users   *)
(* (firmware/common/fifo.hpp): values come out once each, in the order     *)
(* they went in, at most Capacity of them are in flight, and the producer  *)
(* may drop everything that has not been taken (reset_in).                 *)
(***************************************************************************)
EXTENDS Naturals, Sequences

CONSTANTS Values, Capacity

VARIABLES
    queue,      \* the values in flight, oldest first
    taken       \* the value the last out() returned

vars == <<queue, taken>>

Init == queue = << >>

Put == /\ Len(queue) < Capacity
       /\ \E v \in Values : queue' = Append(queue, v)
       /\ UNCHANGED taken

Take == /\ queue # << >>
        /\ taken' = Head(queue)
        /\ queue' = Tail(queue)

Clear == /\ queue' = << >>
         /\ UNCHANGED taken

Next == Put \/ Take \/ Clear

Spec == Init /\ [][Next]_vars
=============================================================================
