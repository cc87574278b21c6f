---------------------------- MODULE CaptureStream ----------------------------
(***************************************************************************)
(* Recording: how sample buffers travel from the baseband (M4) to the SD   *)
(* card (M0), and how a recording is started and stopped.                  *)
(*                                                                         *)
(* M4: StreamInput (baseband/stream_input.cpp) owns the buffers and two    *)
(* FIFOs of pointers to them; write() fills a buffer taken from the empty  *)
(* FIFO, puts it into the full one and rings the M0.                       *)
(* M0: CaptureThread (capture_thread.cpp) takes full buffers through       *)
(* BufferExchange (common/buffer_exchange.cpp), which puts the thread to   *)
(* sleep until M4Core_IRQHandler finds the FIFO not empty, writes them to  *)
(* the file and gives them back.  The event loop creates and destroys the  *)
(* thread from RecordView (ui_record_view.cpp), on the user's input or on  *)
(* the thread's own Done message.                                          *)
(*                                                                         *)
(* A FIFO operation is one step (Fifo.tla refines BoundedQueue.tla), and   *)
(* so is a message to the M4 that nothing overwrites (BasebandMailbox.tla).*)
(***************************************************************************)
EXTENDS Naturals, Sequences, SequencesExt, FiniteSets

CONSTANTS
    Buffers,        \* the buffer_count buffers of a StreamInput
    FifoSize,       \* buffer_count_max
    WindowFills,    \* buffers the M4 fills before the M0 gets out of a window
    None

ASSUME CaptureAssumption ==
    /\ FifoSize \in Nat
    /\ IsFiniteSet(Buffers) /\ Cardinality(Buffers) <= FifoSize
    /\ WindowFills \in Nat
    /\ None \notin Buffers

VARIABLES
    empty,      \* fifo_buffers_empty
    full,       \* fifo_buffers_full
    active,     \* active_buffer
    stream,     \* the M4's StreamInput: "none", "current", or "orphan" if the
                \* CaptureConfig it writes its counters to is gone
    m4,         \* "execute", or "ring" between full.in() and assert_event()
    line,       \* M4TXEVENT
    isr,        \* where the M0 is inside M4Core_IRQHandler
    window,     \* buffers filled while the M0 is in a window
    exchange,   \* BufferExchange::obj is set
    worker,     \* where the capture thread is
    hand,       \* the buffer it holds
    terminate,  \* chThdTerminate() has been called on it
    session,    \* RecordView::is_active()
    ui,         \* where the event loop is
    next,       \* where it goes on after a call
    done,       \* CaptureThreadDone messages pending in the local queue, each
                \* "own" or "stale": its session has been destroyed since
    freed,      \* history: a session was destroyed in this round of the loop
    quick,      \* history: the session was started in the round of a destruction
    lost        \* history: the capture_stop() message was overwritten

buffervars == <<empty, full, active, hand>>
m4vars == <<stream, m4>>
isrvars == <<line, isr, window>>
uivars == <<session, ui, next, freed, quick>>
vars == <<buffervars, m4vars, isrvars, exchange, worker, terminate, uivars, done, lost>>

Init ==
    /\ empty = << >> /\ full = << >> /\ active = None /\ hand = None
    /\ stream = "none" /\ m4 = "execute"
    /\ line = FALSE /\ isr = "none" /\ window = 0
    /\ exchange = FALSE /\ worker = "none" /\ terminate = FALSE
    /\ session = FALSE /\ ui = "wait" /\ next = "wait"
    /\ done = << >> /\ freed = FALSE /\ quick = FALSE /\ lost = FALSE

-----------------------------------------------------------------------------
(* M4, in the baseband thread: StreamInput::write(), called by execute()   *)
(* for every block of samples.  With no empty buffer samples are dropped.  *)
Take ==
    /\ stream # "none" /\ m4 = "execute"
    /\ active = None /\ empty # << >>
    /\ active' = Head(empty)
    /\ empty' = Tail(empty)
    /\ UNCHANGED <<full, hand, m4vars, isrvars, exchange, worker, terminate, uivars, done, lost>>

(* The M0 is between out() and its sleep, or between handler and clear().  *)
InWindow == worker = "nothing" \/ isr = "checked"

(* Mutant of Fill: active_buffer is not reset to null.                     *)
Fill_kept ==
    /\ active # None /\ m4 = "execute"
    /\ Len(full) < FifoSize
    /\ InWindow => window < WindowFills
    /\ window' = IF InWindow THEN window + 1 ELSE window
    /\ full' = Append(full, active)
    /\ m4' = "ring"
    /\ UNCHANGED <<empty, active, hand, stream, line, isr, exchange, worker, terminate, uivars, done, lost>>

Fill ==
    /\ active # None /\ m4 = "execute"
    /\ Len(full) < FifoSize
    /\ InWindow => window < WindowFills
    /\ window' = IF InWindow THEN window + 1 ELSE window
    /\ full' = Append(full, active)
    /\ active' = None
    /\ m4' = "ring"
    /\ UNCHANGED <<empty, hand, stream, line, isr, exchange, worker, terminate, uivars, done, lost>>

(* Mutant of Ring: the event is not asserted.                              *)
Ring_silent ==
    /\ m4 = "ring"
    /\ m4' = "execute"
    /\ UNCHANGED <<buffervars, stream, isrvars, exchange, worker, terminate, uivars, done, lost>>

Ring ==
    /\ m4 = "ring"
    /\ line' = TRUE
    /\ m4' = "execute"
    /\ UNCHANGED <<buffervars, stream, isr, window, exchange, worker, terminate, uivars, done, lost>>

(* Any other ring of the M4: statistics in the application queue.          *)
Report ==
    /\ ~line
    /\ line' = TRUE
    /\ UNCHANGED <<buffervars, m4vars, isr, window, exchange, worker, terminate, uivars, done, lost>>

-----------------------------------------------------------------------------
(* M0: M4Core_IRQHandler; BufferExchange::handle_isr(), ...                *)
IsrWake ==
    /\ line /\ isr = "none"
    /\ isr' = "checked"
    /\ worker' = IF exchange /\ full # << >> /\ worker = "sleep" THEN "out" ELSE worker
    /\ UNCHANGED <<buffervars, m4vars, line, window, exchange, terminate, uivars, done, lost>>

(* ... then m4txevent::clear().                                            *)
IsrClear ==
    /\ isr = "checked"
    /\ isr' = "none"
    /\ line' = FALSE
    /\ window' = IF worker = "nothing" THEN window ELSE 0
    /\ UNCHANGED <<buffervars, m4vars, exchange, worker, terminate, uivars, done, lost>>

-----------------------------------------------------------------------------
(* M0: the capture thread, of higher priority than the event loop.         *)
WorkerAt(from, to) ==
    /\ worker = from /\ isr = "none"
    /\ worker' = to

(* BasebandCapture's constructor: capture_start() makes the M4 create a    *)
(* StreamInput in place of the one it may still have.  The event loop is   *)
(* in start(), so no message of its own is under way.                      *)
Construct ==
    /\ WorkerAt("construct", "exchange")
    /\ m4 = "execute"
    /\ stream' = "current"
    /\ empty' = SetToSeq(Buffers)
    /\ full' = << >> /\ active' = None /\ hand' = None
    /\ lost' = FALSE
    /\ UNCHANGED <<m4, isrvars, exchange, terminate, uivars, done>>

Exchange ==
    /\ WorkerAt("exchange", "loop")
    /\ exchange' = TRUE
    /\ UNCHANGED <<buffervars, m4vars, isrvars, terminate, uivars, done, lost>>

(* Mutant of Loop: what is buffered is written out before stopping.        *)
Loop_drains ==
    /\ WorkerAt("loop", IF terminate /\ full = << >> THEN "leave" ELSE "out")
    /\ UNCHANGED <<buffervars, m4vars, isrvars, exchange, terminate, uivars, done, lost>>

(* chThdShouldTerminate() is asked only between two buffers.               *)
Loop ==
    /\ WorkerAt("loop", IF terminate THEN "leave" ELSE "out")
    /\ UNCHANGED <<buffervars, m4vars, isrvars, exchange, terminate, uivars, done, lost>>

(* Mutant of Out: what out() returned is not looked at.                    *)
Out_unchecked ==
    /\ WorkerAt("out", "writing")
    /\ hand' = IF full = << >> THEN None ELSE Head(full)
    /\ full' = IF full = << >> THEN << >> ELSE Tail(full)
    /\ UNCHANGED <<empty, active, m4vars, isrvars, exchange, terminate, uivars, done, lost>>

(* BufferExchange::get() takes a buffer, or finds none and ...             *)
Out ==
    /\ \/ /\ full # << >>
          /\ WorkerAt("out", "writing")
          /\ hand' = Head(full)
          /\ full' = Tail(full)
       \/ /\ full = << >>
          /\ WorkerAt("out", "nothing")
          /\ UNCHANGED <<hand, full>>
    /\ UNCHANGED <<empty, active, m4vars, isrvars, exchange, terminate, uivars, done, lost>>

(* ... sleeps, whatever has been put into the FIFO in between.             *)
Sleep ==
    /\ WorkerAt("nothing", "sleep")
    /\ window' = 0
    /\ UNCHANGED <<buffervars, m4vars, line, isr, exchange, terminate, uivars, done, lost>>

(* writer->write() succeeds, or fails and the buffer is not given back.    *)
Write ==
    /\ WorkerAt("writing", "put") \/ WorkerAt("writing", "leave")
    /\ UNCHANGED <<buffervars, m4vars, isrvars, exchange, terminate, uivars, done, lost>>

(* put() ignores a full FIFO.                                              *)
Put ==
    /\ WorkerAt("put", "loop")
    /\ empty' = IF Len(empty) < FifoSize THEN Append(empty, hand) ELSE empty
    /\ hand' = None
    /\ UNCHANGED <<full, active, m4vars, isrvars, exchange, terminate, uivars, done, lost>>

(* Mutant of Leave: ~BufferExchange leaves obj set.                        *)
Leave_kept ==
    /\ WorkerAt("leave", "stop")
    /\ UNCHANGED <<buffervars, m4vars, isrvars, exchange, terminate, uivars, done, lost>>

(* run() returns: ~BufferExchange, and then ...                            *)
Leave ==
    /\ WorkerAt("leave", "stop")
    /\ exchange' = FALSE
    /\ UNCHANGED <<buffervars, m4vars, isrvars, terminate, uivars, done, lost>>

(* ... ~BasebandCapture: capture_stop() makes the M4 destroy its stream.   *)
(* If the thread stops by itself while the event loop is in send_message() *)
(* the M4's answer to that one can empty the mailbox of this one.          *)
Stop ==
    /\ WorkerAt("stop", "post")
    /\ m4 = "execute"
    /\ \/ /\ stream' = "none"
          /\ empty' = << >> /\ full' = << >> /\ active' = None
          /\ lost' = lost
       \/ /\ ui = "send"
          /\ lost' = TRUE
          /\ UNCHANGED <<stream, empty, full, active>>
    /\ UNCHANGED <<hand, m4, isrvars, exchange, terminate, uivars, done>>

(* The callback posts CaptureThreadDone and the thread exits.              *)
Post ==
    /\ WorkerAt("post", "ended")
    /\ done' = Append(done, "own")
    /\ UNCHANGED <<buffervars, m4vars, isrvars, exchange, terminate, uivars, lost>>

-----------------------------------------------------------------------------
(* M0: the event loop, while the capture thread does not want the CPU.     *)
UiAt(from, to) ==
    /\ worker \in {"none", "sleep", "writing", "ended"} /\ isr = "none"
    /\ ui = from
    /\ ui' = to

(* Mutant of Round: the local queue has no event of its own.               *)
Round_unflagged ==
    /\ \E first \in {"local", "switches"} : UiAt("wait", first)
    /\ freed' = FALSE
    /\ UNCHANGED <<buffervars, m4vars, isrvars, exchange, worker, terminate, session, next, quick, done, lost>>

(* A round of dispatch(): the local queue, then the switches, then touch.  *)
Round ==
    /\ UiAt("wait", "local")
    /\ freed' = FALSE
    /\ UNCHANGED <<buffervars, m4vars, isrvars, exchange, worker, terminate, session, next, quick, done, lost>>

Following == [local |-> "switches", switches |-> "touch", touch |-> "wait"]

(* RecordView::stop(): ~CaptureThread asks the thread to end and waits.    *)
stop(from, to) ==
    /\ session
    /\ UiAt(from, "join")
    /\ next' = to
    /\ terminate' = TRUE
    /\ UNCHANGED <<buffervars, m4vars, isrvars, exchange, worker, session, freed, quick, lost>>

(* handle_capture_thread_done() stops whatever session there is.           *)
HandleDone ==
    /\ done # << >>
    /\ done' = Tail(done)
    /\ \/ stop("local", "local")
       \/ /\ ~session
          /\ UiAt("local", "local")
          /\ UNCHANGED <<buffervars, m4vars, isrvars, exchange, worker, terminate, session,
                         next, freed, quick, lost>>

(* Nothing (more) to do at this place of the round.                        *)
Advance(at) ==
    /\ at = "local" => done = << >>
    /\ UiAt(at, Following[at])
    /\ UNCHANGED <<buffervars, m4vars, isrvars, exchange, worker, terminate, session, next,
                   freed, quick, done, lost>>

(* toggle(), on_hide(), set_sampling_rate(): the user's input stops ...    *)
UserStops(at) == stop(at, Following[at]) /\ UNCHANGED done

(* ... or starts a recording; the new thread runs at once.                 *)
start(at) ==
    /\ ~session
    /\ UiAt(at, Following[at])
    /\ session' = TRUE
    /\ worker' = "construct"
    /\ terminate' = FALSE
    /\ quick' = freed
    /\ UNCHANGED <<buffervars, m4vars, isrvars, exchange, next, freed, done, lost>>

(* Any other baseband call of the event loop is under way.                 *)
Send(at) ==
    /\ UiAt(at, "send")
    /\ next' = Following[at]
    /\ UNCHANGED <<buffervars, m4vars, isrvars, exchange, worker, terminate, session, freed,
                   quick, done, lost>>

SendEnd ==
    /\ UiAt("send", next)
    /\ UNCHANGED <<buffervars, m4vars, isrvars, exchange, worker, terminate, session, next,
                   freed, quick, done, lost>>

(* Mutant of Join: chThdWait() is left out.                                *)
Join_unwaited ==
    /\ UiAt("join", next)
    /\ session' = FALSE
    /\ worker' = "none"
    /\ stream' = IF stream = "current" THEN "orphan" ELSE stream
    /\ done' = [i \in DOMAIN done |-> "stale"]
    /\ freed' = TRUE
    /\ UNCHANGED <<buffervars, m4, isrvars, exchange, terminate, next, quick, lost>>

(* chThdWait() returns, the CaptureThread and its CaptureConfig are freed. *)
Join ==
    /\ worker = "ended"
    /\ UiAt("join", next)
    /\ session' = FALSE
    /\ worker' = "none"
    /\ stream' = IF stream = "current" THEN "orphan" ELSE stream
    /\ done' = [i \in DOMAIN done |-> "stale"]
    /\ freed' = TRUE
    /\ UNCHANGED <<buffervars, m4, isrvars, exchange, terminate, next, quick, lost>>

(* The application shuts its image down, after stop(), and starts another. *)
NewImage(at) ==
    /\ ~session /\ m4 = "execute"
    /\ UiAt(at, Following[at])
    /\ stream' = "none"
    /\ empty' = << >> /\ full' = << >> /\ active' = None
    /\ line' = FALSE
    /\ lost' = FALSE
    /\ UNCHANGED <<hand, m4, isr, window, exchange, worker, terminate, session, next, freed,
                   quick, done>>

-----------------------------------------------------------------------------
M4Step == Take \/ Fill \/ Ring \/ Report
Worker == \/ Construct \/ Exchange \/ Loop \/ Out \/ Sleep \/ Write \/ Put
          \/ Leave \/ Stop \/ Post
EventLoop ==
    \/ Round \/ HandleDone \/ SendEnd \/ Join
    \/ Advance("local")
    \/ \E at \in {"switches", "touch"} :
          Advance(at) \/ UserStops(at) \/ start(at) \/ Send(at) \/ NewImage(at)

Next == M4Step \/ IsrWake \/ IsrClear \/ Worker \/ EventLoop

(* Samples keep coming while an image runs and interrupts are taken; they  *)
(* are short and the M4's rings periodic, so that a thread that is ready   *)
(* gets the CPU between two of them.                                       *)
Fairness ==
    /\ WF_vars(Take) /\ WF_vars(Fill) /\ WF_vars(Ring)
    /\ WF_vars(IsrWake) /\ WF_vars(IsrClear)
    /\ SF_vars(Worker)
    /\ SF_vars(Join)

Spec == Init /\ [][Next]_vars
FairSpec == Spec /\ Fairness

-----------------------------------------------------------------------------
(* Type invariant of the buffers' places, the threads and the interrupt;   *)
(* the capture thread writes a buffer only when it has one.                *)
TypeOK ==
    /\ empty \in Seq(Buffers) /\ Len(empty) <= FifoSize
    /\ full \in Seq(Buffers) /\ Len(full) <= FifoSize
    /\ active \in Buffers \cup {None} /\ hand \in Buffers \cup {None}
    /\ worker \in {"writing", "put"} => hand # None
    /\ stream \in {"none", "current", "orphan"} /\ m4 \in {"execute", "ring"}
    /\ line \in BOOLEAN /\ isr \in {"none", "checked"} /\ window \in 0 .. WindowFills
    /\ exchange \in BOOLEAN /\ terminate \in BOOLEAN /\ session \in BOOLEAN
    /\ worker \in {"none", "construct", "exchange", "loop", "out", "nothing", "sleep",
                   "writing", "put", "leave", "stop", "post", "ended"}
    /\ ui \in {"wait", "local", "switches", "touch", "join", "send"}
    /\ next \in {"wait", "local", "switches", "touch"}
    /\ done \in Seq({"own", "stale"}) /\ Len(done) <= 2
    /\ freed \in BOOLEAN /\ quick \in BOOLEAN /\ lost \in BOOLEAN

(* While a recording runs, every buffer is in exactly one place: a FIFO,   *)
(* once, the M4's hands or the capture thread's.  No buffer leaks, and     *)
(* none is filled by the one core while the other writes it out.           *)
Conservation ==
    stream = "current" =>
        \A b \in Buffers :
            Cardinality({i \in DOMAIN empty : empty[i] = b})
              + Cardinality({i \in DOMAIN full : full[i] = b})
              + Cardinality({p \in {"active", "hand"} :
                                (p = "active" /\ active = b) \/ (p = "hand" /\ hand = b)}) = 1

(* The interrupt handler looks into FIFOs that live in the M4's            *)
(* StreamInput: it never does once that stream may have been destroyed.    *)
ExchangeOnLiveStream == exchange => stream = "current"

(* The M4 counts bytes in the CaptureConfig inside the CaptureThread.  It  *)
(* outlives the stream, unless the thread ended by itself during another   *)
(* baseband call and its capture_stop() was overwritten in the mailbox.    *)
ConfigOutlivesStream == stream = "orphan" => lost

(* A Done message ends a session other than its own only if that session   *)
(* was started in the very round of the event loop that destroyed its own: *)
(* after that round the queue has been handled before any input.           *)
DoneEndsItsSession ==
    [][ui = "local" /\ ui' = "join" /\ Head(done) = "stale" => quick]_vars

(* The capture thread does not sleep on a buffer that waits for it: a      *)
(* wakeup lost between out() and the sleep is made up by the next buffer.  *)
SleeperIsWoken == worker = "sleep" /\ full # << >> ~> worker # "sleep"

(* stop() returns: the capture thread notices the request although it      *)
(* sleeps, because the M4 still fills and rings while the UI waits.        *)
StopReturns == ui = "join" ~> ui # "join"
=============================================================================
