---------------------------- MODULE MessageQueue ----------------------------
(***************************************************************************)
(* shared_memory.application_queue: how the baseband (M4) reports to the   *)
(* application core (M0).                                                  *)
(*                                                                         *)
(* M4 (common/message_queue.hpp): several threads push() records into a    *)
(* byte ring under mutex_write; a push that fits rings the M0 afterwards,  *)
(* one that does not is dropped by its caller.                             *)
(* M0 (application/event_m0.cpp): M4Core_IRQHandler flags the event loop   *)
(* if the queue is not empty, and then clears the interrupt line; the      *)
(* event loop peeks at a record, runs its handler and only then skips it.  *)
(* Any handler may shut the image down and start another one (BHTView and  *)
(* MicTXView do on TXProgress), which resets the queue under the loop.     *)
(* An image that receives has an RSSI thread, which reports for as long as *)
(* it runs; one that transmits has none, and the baseband thread of either *)
(* may fall silent: FSKProcessor does after TXProgress(done).              *)
(*                                                                         *)
(* The ring is kept as the sequence of its published records, which is     *)
(* what Fifo.tla shows of its counters, with the bytes they take.          *)
(***************************************************************************)
EXTENDS Integers, Sequences, SequencesExt, FiniteSets

CONSTANTS
    Writers,        \* M4 threads that push: baseband, event loop, RSSI
    Periodic,       \* those that never fall silent: the RSSI thread
    RecordBytes,    \* size of each writer's message, in the ring
    ShutdownBytes,  \* the same for the ShutdownMessage of _default_exit()
    QueueBytes,     \* 1 << application_queue_k
    Numbers,        \* a writer numbers its messages modulo Numbers
    WindowPushes,   \* pushes the M4 completes while the M0 is in its handler
    None

Exit == "_default_exit"
Sources == Writers \cup {Exit}
Record == [from : Sources, n : 0 .. Numbers - 1]

(* The threads of an image: one to receive, and one to transmit.           *)
Images == {Writers, Writers \ Periodic}

ASSUME QueueAssumption ==
    /\ Periodic \subseteq Writers
    /\ RecordBytes \in [Writers -> Nat \ {0}]
    /\ QueueBytes \in Nat /\ ShutdownBytes \in Nat
    /\ Numbers \in Nat \ {0}
    /\ WindowPushes \in Nat
    /\ Exit \notin Writers
    /\ None \notin Record \cup Writers

VARIABLES
    fifo,       \* the published records, oldest first
    slot,       \* the record last copied behind _in
    mutex,      \* holder of mutex_write
    wpc,        \* where each writer is inside push(), "ended" without a thread
    seq,        \* each writer's next number
    m4,         \* the M4: "running", "stopping" (told to) or "halted"
    line,       \* M4TXEVENT, the interrupt line to the M0
    enabled,    \* the interrupt is enabled in the M0
    isr,        \* where the M0 is inside M4Core_IRQHandler
    window,     \* pushes published since the handler checked the queue
    evt,        \* EVT_MASK_APPLICATION pending on the event loop
    m0,         \* what the event-loop thread is doing
    cur,        \* the record whose handler runs
    switched,   \* that handler has called shutdown()
    expected    \* history: the number of each writer's next record to handle

m4vars == <<slot, mutex, wpc, seq>>
isrvars == <<isr, window>>
m0vars == <<evt, m0, cur, switched>>
vars == <<fifo, m4vars, m4, line, enabled, isrvars, m0vars, expected>>

Bytes(r) == IF r.from = Exit THEN ShutdownBytes ELSE RecordBytes[r.from]
(* The bytes in the ring, each named by its record and its place in it.    *)
Taken == UNION {{i} \X (1 .. Bytes(fifo[i])) : i \in DOMAIN fifo}
unused == QueueBytes - Cardinality(Taken)
Bump(n) == (n + 1) % Numbers

Init ==
    /\ fifo = << >> /\ slot = None /\ mutex = None
    /\ wpc = [w \in Writers |-> "ended"]
    /\ seq = [w \in Writers |-> 0]
    /\ m4 = "halted" /\ line = FALSE /\ enabled = FALSE
    /\ isr = "none" /\ window = 0
    /\ evt = FALSE /\ m0 = "wait" /\ cur = None /\ switched = FALSE
    /\ expected = [w \in Writers |-> 0]

-----------------------------------------------------------------------------
(* M4: MessageQueue::push().                                               *)

(* Mutant of Lock: mutex_write is not taken.                               *)
Lock_ignored(w) ==
    /\ wpc[w] = "idle"
    /\ mutex' = w
    /\ wpc' = [wpc EXCEPT ![w] = "locked"]
    /\ UNCHANGED <<fifo, slot, seq, m4, line, enabled, isrvars, m0vars, expected>>

Lock(w) ==
    /\ wpc[w] = "idle"
    /\ mutex = None
    /\ mutex' = w
    /\ wpc' = [wpc EXCEPT ![w] = "locked"]
    /\ UNCHANGED <<fifo, slot, seq, m4, line, enabled, isrvars, m0vars, expected>>

(* in_r() finds no room: the mutex is released and false returned.         *)
Full(w) ==
    /\ wpc[w] = "locked"
    /\ RecordBytes[w] > unused
    /\ mutex' = None
    /\ wpc' = [wpc EXCEPT ![w] = "idle"]
    /\ UNCHANGED <<fifo, slot, seq, m4, line, enabled, isrvars, m0vars, expected>>

(* Mutant of Copy: in_r() does not ask for room.                           *)
Copy_unchecked(w) ==
    /\ wpc[w] = "locked"
    /\ slot' = [from |-> w, n |-> seq[w]]
    /\ wpc' = [wpc EXCEPT ![w] = "copied"]
    /\ UNCHANGED <<fifo, mutex, seq, m4, line, enabled, isrvars, m0vars, expected>>

(* in_r() copies length and message behind _in, ...                        *)
Copy(w) ==
    /\ wpc[w] = "locked"
    /\ RecordBytes[w] <= unused
    /\ slot' = [from |-> w, n |-> seq[w]]
    /\ wpc' = [wpc EXCEPT ![w] = "copied"]
    /\ UNCHANGED <<fifo, mutex, seq, m4, line, enabled, isrvars, m0vars, expected>>

(* ... advances _in, and the mutex is released.  WindowPushes bounds how   *)
(* often this happens between the two statements of the M0's handler.      *)
Publish(w) ==
    /\ wpc[w] = "copied"
    /\ isr = "checked" => window < WindowPushes
    /\ window' = IF isr = "checked" THEN window + 1 ELSE window
    /\ fifo' = Append(fifo, slot)
    /\ mutex' = None
    /\ seq' = [seq EXCEPT ![w] = Bump(@)]
    /\ wpc' = [wpc EXCEPT ![w] = "signal"]
    /\ UNCHANGED <<slot, m4, line, enabled, isr, m0vars, expected>>

(* Mutant of signal: only the first record of a queue rings.               *)
signal_first(w) ==
    /\ wpc[w] = "signal"
    /\ line' = (line \/ Len(fifo) = 1)
    /\ wpc' = [wpc EXCEPT ![w] = "idle"]
    /\ UNCHANGED <<fifo, slot, mutex, seq, m4, enabled, isrvars, m0vars, expected>>

signal(w) ==
    /\ wpc[w] = "signal"
    /\ line' = TRUE
    /\ wpc' = [wpc EXCEPT ![w] = "idle"]
    /\ UNCHANGED <<fifo, slot, mutex, seq, m4, enabled, isrvars, m0vars, expected>>

(* M4: a thread is joined by its destructor: told to terminate, it ends    *)
(* between two pushes.  Until then it goes on pushing.                     *)
Join(w) ==
    /\ m4 = "stopping"
    /\ wpc[w] = "idle"
    /\ wpc' = [wpc EXCEPT ![w] = "ended"]
    /\ UNCHANGED <<fifo, slot, mutex, seq, m4, line, enabled, isrvars, m0vars, expected>>

(* All threads have ended: _default_exit() pushes a ShutdownMessage and    *)
(* releases the M0, which waits in shutdown() (BasebandMailbox.tla).       *)
Halt ==
    /\ m4 = "stopping"
    /\ \A w \in Writers : wpc[w] = "ended"
    /\ IF ShutdownBytes <= unused
       THEN fifo' = Append(fifo, [from |-> Exit, n |-> 0]) /\ line' = TRUE
       ELSE UNCHANGED <<fifo, line>>
    /\ m4' = "halted"
    /\ UNCHANGED <<m4vars, enabled, isrvars, m0vars, expected>>

-----------------------------------------------------------------------------
(* M0: M4Core_IRQHandler preempts the thread.                              *)
IsrCheck ==
    /\ line /\ enabled /\ isr = "none"
    /\ evt' = (evt \/ fifo # << >>)
    /\ isr' = "checked"
    /\ UNCHANGED <<fifo, m4vars, m4, line, enabled, window, m0, cur, switched, expected>>

(* A ring since the check is cleared with the one that caused it.          *)
IsrClear ==
    /\ isr = "checked"
    /\ line' = FALSE
    /\ isr' = "none"
    /\ window' = 0
    /\ UNCHANGED <<fifo, m4vars, m4, enabled, m0vars, expected>>

(* M0: the event loop.                                                     *)
Wait ==
    /\ m0 = "wait" /\ isr = "none"
    /\ evt
    /\ evt' = FALSE
    /\ m0' = "drain"
    /\ UNCHANGED <<fifo, m4vars, m4, line, enabled, isrvars, cur, switched, expected>>

HandleRecord(r) ==
    /\ cur' = r
    /\ m0' = "handle"
    /\ expected' = IF r.from = Exit THEN expected
                   ELSE [expected EXCEPT ![r.from] = Bump(r.n)]

(* Mutant of Peek: the record is popped by the peek already.               *)
Peek_pops ==
    /\ m0 = "drain" /\ isr = "none"
    /\ \/ /\ fifo = << >>
          /\ m0' = "wait"
          /\ UNCHANGED <<fifo, cur, expected>>
       \/ /\ fifo # << >>
          /\ HandleRecord(Head(fifo))
          /\ fifo' = Tail(fifo)
    /\ UNCHANGED <<m4vars, m4, line, enabled, isrvars, evt, switched>>

(* handle(): a record is copied out and its handler called, or the queue   *)
(* is empty and the loop waits.                                            *)
Peek ==
    /\ m0 = "drain" /\ isr = "none"
    /\ \/ /\ fifo = << >>
          /\ m0' = "wait"
          /\ UNCHANGED <<cur, expected>>
       \/ /\ fifo # << >>
          /\ HandleRecord(Head(fifo))
    /\ UNCHANGED <<fifo, m4vars, m4, line, enabled, isrvars, evt, switched>>

(* The handler has returned: skip() drops the record now at the head, by   *)
(* the length it finds there.  After a switch of images that is not the    *)
(* record handled but the new image's first, if it has pushed one by now.  *)
Skip ==
    /\ m0 = "handle" /\ isr = "none"
    /\ fifo' = IF fifo = << >> THEN << >> ELSE Tail(fifo)
    /\ expected' = IF switched /\ fifo # << >>
                   THEN [expected EXCEPT ![Head(fifo).from] = Bump(@)]
                   ELSE expected
    /\ m0' = "drain"
    /\ cur' = None
    /\ switched' = FALSE
    /\ UNCHANGED <<m4vars, m4, line, enabled, isrvars, evt>>

(* baseband::shutdown(), called from a handler of this queue or from any   *)
(* other part of the event loop; ...                                       *)
shutdown ==
    /\ m0 \in {"wait", "handle"} /\ isr = "none"
    /\ m4 = "running"
    /\ enabled' = FALSE
    /\ m4' = "stopping"
    /\ m0' = "shutdown"
    /\ switched' = (cur # None)
    /\ UNCHANGED <<fifo, m4vars, line, isrvars, evt, cur, expected>>

Back == m0' = IF cur = None THEN "wait" ELSE "handle"

(* Mutant of reset: the M4's answer is not waited for.                     *)
reset_early ==
    /\ m0 = "shutdown" /\ isr = "none"
    /\ fifo' = << >>
    /\ Back
    /\ UNCHANGED <<m4vars, m4, line, enabled, isrvars, evt, cur, switched, expected>>

(* ... once the M4 has stopped, application_queue.reset().                 *)
reset ==
    /\ m0 = "shutdown" /\ isr = "none"
    /\ m4 = "halted"
    /\ fifo' = << >>
    /\ Back
    /\ UNCHANGED <<m4vars, m4, line, enabled, isrvars, evt, cur, switched, expected>>

(* run_image(): the line is cleared, the M4 starts, and the constructor of *)
(* the image's processor starts its threads; ...                           *)
run_image ==
    /\ m0 \in {"wait", "handle"} /\ isr = "none"
    /\ m4 = "halted"
    /\ line' = FALSE
    /\ m4' = "running"
    /\ \E threads \in Images :
           wpc' = [w \in Writers |-> IF w \in threads THEN "idle" ELSE "ended"]
    /\ seq' = [w \in Writers |-> 0]
    /\ expected' = [w \in Writers |-> 0]
    /\ m0' = "start"
    /\ UNCHANGED <<fifo, slot, mutex, enabled, isrvars, evt, cur, switched>>

(* Mutant of enable: the line is cleared only now, with the M4 running.    *)
enable_clears ==
    /\ m0 = "start" /\ isr = "none"
    /\ enabled' = TRUE
    /\ line' = FALSE
    /\ Back
    /\ UNCHANGED <<fifo, m4vars, m4, isrvars, evt, cur, switched, expected>>

(* ... and its interrupt is enabled.                                       *)
enable ==
    /\ m0 = "start" /\ isr = "none"
    /\ enabled' = TRUE
    /\ Back
    /\ UNCHANGED <<fifo, m4vars, m4, line, isrvars, evt, cur, switched, expected>>

-----------------------------------------------------------------------------
Push(w) == Full(w) \/ Copy(w) \/ Publish(w) \/ signal(w)

Next ==
    \/ \E w \in Writers : Lock(w) \/ Push(w) \/ Join(w)
    \/ Halt
    \/ IsrCheck \/ IsrClear
    \/ Wait \/ Peek \/ Skip
    \/ shutdown \/ reset \/ run_image \/ enable

(* A push under way is completed, but only the RSSI thread is sure to      *)
(* begin another one: it reports every tenth of a second, as long as it    *)
(* runs.  A thread told to terminate ends between two of its pushes;       *)
(* interrupts are taken, handlers end and the loop goes on.                *)
Fairness ==
    /\ \A w \in Writers : WF_vars(Push(w))
    /\ \A w \in Periodic : WF_vars(Lock(w))
    /\ \A w \in Writers : SF_vars(Join(w))
    /\ WF_vars(Halt)
    /\ WF_vars(IsrCheck) /\ WF_vars(IsrClear)
    /\ WF_vars(Wait \/ Peek \/ Skip \/ reset \/ enable)

Spec == Init /\ [][Next]_vars
FairSpec == Spec /\ Fairness

-----------------------------------------------------------------------------
(* Type invariant of the queue, its writers and the event loop; the bytes  *)
(* in the ring never exceed it.                                            *)
TypeOK ==
    /\ fifo \in Seq(Record)
    /\ unused \in 0 .. QueueBytes
    /\ slot \in Record \cup {None}
    /\ mutex \in Writers \cup {None}
    /\ wpc \in [Writers -> {"idle", "locked", "copied", "signal", "ended"}]
    /\ seq \in [Writers -> 0 .. Numbers - 1]
    /\ m4 \in {"running", "stopping", "halted"}
    /\ line \in BOOLEAN /\ enabled \in BOOLEAN
    /\ isr \in {"none", "checked"} /\ window \in 0 .. WindowPushes
    /\ evt \in BOOLEAN
    /\ m0 \in {"wait", "drain", "handle", "shutdown", "start"}
    /\ cur \in Record \cup {None}
    /\ switched \in BOOLEAN
    /\ expected \in [Writers -> 0 .. Numbers - 1]

(* Each writer's messages reach their handlers in the order they were      *)
(* pushed, none twice and none left out, except the ones LossOnlyBySwitch  *)
(* accounts for; nothing the previous image pushed is handled at all.      *)
HandledInOrder ==
    [][m0 = "drain" /\ m0' = "handle" =>
          /\ cur'.from \in Writers
          /\ cur'.n = expected[cur'.from]]_vars

(* A record leaves the queue because its handler has returned or by the    *)
(* reset of shutdown(), unless that very handler has called shutdown() and *)
(* started an image that has pushed since: skip() then drops that image's  *)
(* first record unread.                                                    *)
LossOnlyBySwitch ==
    [][fifo # << >> /\ Len(fifo') < Len(fifo) =>
          \/ m0 = "shutdown"
          \/ fifo' = Tail(fifo) /\ m0 = "handle" /\ (cur = Head(fifo) \/ switched)]_vars

(* While no image runs the queue is empty: the ShutdownMessage and what    *)
(* the old image had left are gone before the next image can push.         *)
OldImageGone == m4 = "halted" /\ m0 # "shutdown" => fifo = << >>

(* Records lie in the queue while the event loop waits for an event, and   *)
(* nothing under way will flag one.                                        *)
Stranded ==
    /\ fifo # << >>
    /\ m0 = "wait" /\ ~evt
    /\ ~line /\ isr = "none"
    /\ \A w \in Writers : wpc[w] # "signal"

(* Records are stranded only by M4Core_IRQHandler, when it clears the line *)
(* after it has found the queue empty; and they are just those that were   *)
(* published in between, with rings it has wiped.  No full queue, skipped  *)
(* record, reset of the queue or start of an image strands one.            *)
StrandedByWipe ==
    [][~Stranded /\ Stranded' => isr = "checked" /\ Len(fifo) = window]_vars

(* While an image with an RSSI thread runs, a published record does not    *)
(* stay in the queue for ever: a wiped ring delays it only until the next  *)
(* report, because the M4 cannot fill the queue within the handler.  An    *)
(* image that transmits has nothing to report again: a record stranded     *)
(* there, TXProgress(done) among them, may stay until the shutdown().      *)
EventuallyTaken ==
    \A w \in Writers, n \in 0 .. Numbers - 1 :
        LET r == [from |-> w, n |-> n]
        IN  Contains(fifo, r) /\ (\E p \in Periodic : wpc[p] # "ended") ~> ~Contains(fifo, r)
=============================================================================
