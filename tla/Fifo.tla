-------------------------------- MODULE Fifo --------------------------------
(***************************************************************************)
(* FIFO<T> of firmware/common/fifo.hpp, element interface: the lock-free   *)
(* ring through which the two cores pass stream buffers and spectra.  One  *)
(* core calls in(val), the other out(val); the free-running counters _in   *)
(* and _out are size_t and wrap, and an index is the counter masked by     *)
(* size - 1.  The copy of an element (a spectrum has 272 bytes) takes time *)
(* during which the slot holds no complete value.                          *)
(*                                                                         *)
(* The code's size is 2^k and its counters wrap at 2^32; here Size is any  *)
(* positive number and the counters wrap at any larger multiple of it.     *)
(***************************************************************************)
EXTENDS Integers, Sequences

CONSTANTS
    Values,     \* what callers put in
    Torn,       \* content of a slot that holds no complete value
    Size,       \* 1 << k
    Wraps       \* counters wrap after Wraps turns of the ring

ASSUME FifoAssumption ==
    /\ Size \in Nat \ {0}
    /\ Wraps \in Nat \ {0, 1}
    /\ Torn \notin Values

CounterMod == Size * Wraps
Counter == 0 .. CounterMod - 1

VARIABLES
    data,       \* _data
    inCnt,      \* _in, written by the producer only
    outCnt,     \* _out, written by the consumer only
    producer,   \* where the producer is inside in(val)
    consumer,   \* where the consumer is inside out(val)
    arg,        \* val of the in() call
    val         \* val of the out() call

vars == <<data, inCnt, outCnt, producer, consumer, arg, val>>

Slot(c) == c % Size
Bump(c) == (c + 1) % CounterMod

len == (inCnt - outCnt) % CounterMod
unused == (Size - len) % CounterMod
is_empty == inCnt = outCnt

(* Mutant of is_full: one element late, the producer enters a slot that is *)
(* still the reader's.                                                     *)
is_full_late == len > Size

is_full == unused = 0

Init ==
    /\ data = [s \in 0 .. Size - 1 |-> Torn]
    /\ inCnt = 0 /\ outCnt = 0
    /\ producer = "idle" /\ consumer = "idle"
    /\ arg = Torn /\ val = Torn

-----------------------------------------------------------------------------
(* in(val): a full ring makes it return false with nothing changed;        *)
(* otherwise the element is copied, and published after the barrier.       *)
InBegin(v) ==
    /\ producer = "idle"
    /\ ~is_full
    /\ producer' = "writing"
    /\ arg' = v
    /\ data' = [data EXCEPT ![Slot(inCnt)] = Torn]
    /\ UNCHANGED <<inCnt, outCnt, consumer, val>>

InEnd ==
    /\ producer = "writing"
    /\ producer' = "written"
    /\ data' = [data EXCEPT ![Slot(inCnt)] = arg]
    /\ UNCHANGED <<inCnt, outCnt, consumer, arg, val>>

InPublish ==
    /\ producer = "written"
    /\ producer' = "idle"
    /\ inCnt' = Bump(inCnt)
    /\ UNCHANGED <<data, outCnt, consumer, arg, val>>

(* Mutant of OutBegin: the slot is given back before it has been copied.   *)
OutBegin_releases ==
    /\ consumer = "idle"
    /\ ~is_empty
    /\ consumer' = "reading"
    /\ outCnt' = Bump(outCnt)
    /\ UNCHANGED <<data, inCnt, producer, arg, val>>

(* out(val): an empty ring makes it return false with nothing changed;     *)
(* otherwise the element is copied, then its slot given back.              *)
OutBegin ==
    /\ consumer = "idle"
    /\ ~is_empty
    /\ consumer' = "reading"
    /\ UNCHANGED <<data, inCnt, outCnt, producer, arg, val>>

OutEnd ==
    /\ consumer = "reading"
    /\ consumer' = "read"
    /\ val' = data[Slot(outCnt)]
    /\ UNCHANGED <<data, inCnt, outCnt, producer, arg>>

OutRelease ==
    /\ consumer = "read"
    /\ consumer' = "idle"
    /\ outCnt' = Bump(outCnt)
    /\ UNCHANGED <<data, inCnt, producer, arg, val>>

(* reset_in() by the producer.  Its one caller, SpectrumCollector::stop(), *)
(* runs on the M4 while the M0 thread that owns out() spins in             *)
(* send_message(), so the consumer is never inside out().                  *)
reset_in ==
    /\ producer = "idle"
    /\ consumer = "idle"
    /\ inCnt' = outCnt
    /\ UNCHANGED <<data, outCnt, producer, consumer, arg, val>>

Next ==
    \/ \E v \in Values : InBegin(v)
    \/ InEnd \/ InPublish
    \/ OutBegin \/ OutEnd \/ OutRelease
    \/ reset_in

Spec == Init /\ [][Next]_vars

-----------------------------------------------------------------------------
(* Type invariant of the FIFO's memory and of the progress of the calls.   *)
TypeOK ==
    /\ data \in [0 .. Size - 1 -> Values \cup {Torn}]
    /\ inCnt \in Counter /\ outCnt \in Counter
    /\ producer \in {"idle", "writing", "written"}
    /\ consumer \in {"idle", "reading", "read"}
    /\ arg \in Values \cup {Torn}
    /\ val \in Values \cup {Torn}

(* While the consumer copies an element out, the slot it reads holds a     *)
(* complete value at every instant: the producer is never inside it, with  *)
(* the counters wrapped or not, whatever the two cores' relative speed.    *)
NoTornRead == consumer = "reading" => data[Slot(outCnt)] # Torn

(* The counters never pass one another: len() is at most the size, there   *)
(* is room for the element being written and an element under a reader.    *)
Occupancy ==
    /\ len <= Size
    /\ producer # "idle" => len < Size
    /\ consumer # "idle" => len > 0

(* Every published element, from _out up to _in, is complete.              *)
Published == \A i \in 0 .. len - 1 : data[Slot(outCnt + i)] \in Values

(* What the refinement needs about a call in progress: the argument is a   *)
(* value, it is in its slot once written, and a value read is a value.     *)
InFlight ==
    /\ producer # "idle" => arg \in Values
    /\ producer = "written" => data[Slot(inCnt)] = arg
    /\ consumer = "read" => val = data[Slot(outCnt)]

IInv == TypeOK /\ Occupancy /\ Published /\ InFlight

(* The elements in flight: an element whose copy out is complete has left. *)
Popped == IF consumer = "read" THEN 1 ELSE 0
Contents == [i \in 1 .. len - Popped |-> data[Slot(outCnt + Popped + i - 1)]]

Queue == INSTANCE BoundedQueue WITH Values <- Values, Capacity <- Size,
                                    queue <- Contents, taken <- val

(* The ring with its wrapping counters is a bounded FIFO queue: nothing is *)
(* lost, duplicated, reordered or made up between in() and out().          *)
ImplementsQueue == Queue!Spec
=============================================================================
