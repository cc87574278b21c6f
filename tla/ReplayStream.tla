---------------------------- MODULE ReplayStream ----------------------------
(***************************************************************************)
(* Replaying a file: the way of sample buffers from the SD card (M0) to    *)
(* the baseband (M4), and how a replay starts, loops, ends and is stopped. *)
(*                                                                         *)
(* M0: ReplayThread::run() (replay_thread.cpp) makes the M4 allocate the   *)
(* buffers, polls ready_signal, fills all buffers, tells the M4 to begin,  *)
(* and then refills what the M4 has emptied.  The event loop               *)
(* (apps/replay_app.cpp) sets ready_signal when it handles the M4's        *)
(* RequestSignal message; it starts and destroys the thread on the user's  *)
(* input and on the thread's Done message.                                 *)
(* M4: StreamOutput::read() (baseband/stream_output.cpp) plays full        *)
(* buffers once the processor is configured (baseband/proc_replay.cpp).    *)
(*                                                                         *)
(* A buffer holds two blocks, so that a read can be short; a block is its  *)
(* number in the file, 0 for memory that was never written.  FIFO          *)
(* operations and messages to the M4 are single steps: the event loop      *)
(* sends the M4 nothing while a replay thread is in a call of its own.     *)
(***************************************************************************)
EXTENDS Naturals, Sequences, SequencesExt, FiniteSets

CONSTANTS
    Buffers,        \* the buffer_count buffers of a StreamOutput
    FifoSize,       \* buffer_count_max
    FileSizes,      \* lengths of the files that are replayed, in blocks
    WindowPlays,    \* buffers the M4 empties before the M0 gets out of a window
    None

ASSUME ReplayAssumption ==
    /\ FifoSize \in Nat
    /\ IsFiniteSet(Buffers) /\ Cardinality(Buffers) <= FifoSize
    /\ FileSizes \subseteq Nat \ {0} /\ WindowPlays \in Nat
    /\ None \notin Buffers

VARIABLES
    empty, full,    \* fifo_buffers_empty, fifo_buffers_full
    active,         \* StreamOutput::active_buffer
    hand,           \* the buffer the replay thread holds
    data,           \* what the buffers hold
    file,           \* length of the file of this session
    pos,            \* blocks of it that have been read
    played,         \* blocks the M4 has transmitted in this session
    configured,     \* ReplayProcessor::configured
    m4,             \* "execute", or "ring" between in() and assert_event()
    line,           \* M4TXEVENT
    isr,            \* where the M0 is inside M4Core_IRQHandler
    window,         \* buffers emptied while the M0 is in a window
    signal,         \* the RequestSignal message: "none", "queued", or "flagged"
                    \* when the event loop knows of it
    ready,          \* ReplayAppView::ready_signal
    exchange,       \* BufferExchange::obj is set
    worker,         \* where the replay thread is
    terminate,      \* chThdTerminate() has been called on it
    code,           \* what run() returns
    session,        \* ReplayAppView::is_active()
    radio,          \* the radio transmits
    ui,             \* where the event loop is
    call,           \* of the stop() under way: where it returns to, its do_loop
    done,           \* ReplayThreadDone messages pending in the local queue
    dropped,        \* history: the RequestSignal met a full application queue
    young,          \* history: the session is of this round of the event loop
    freed,          \* history: a session was destroyed in this round or the last
    failed          \* history: the last start() could not open the file

mem == <<empty, full, active, hand, data, file, pos, played>>
m4vars == <<configured, m4>>
isrvars == <<line, isr, window, signal>>
thread == <<exchange, worker, terminate, code>>
history == <<dropped, young, freed, failed>>
view == <<ready, session, radio, ui, call, done, history>>
vars == <<mem, m4vars, isrvars, thread, view>>

Unwritten == [i \in 1 .. 2 |-> 0]

Init ==
    /\ empty = << >> /\ full = << >> /\ active = None /\ hand = None
    /\ data = [b \in Buffers |-> Unwritten] /\ file \in FileSizes /\ pos = 0 /\ played = 0
    /\ configured = FALSE /\ m4 = "execute"
    /\ line = FALSE /\ isr = "none" /\ window = 0 /\ signal = "none"
    /\ exchange = FALSE /\ worker = "none" /\ terminate = FALSE /\ code = "TERMINATED"
    /\ ready = FALSE /\ session = FALSE /\ radio = FALSE
    /\ ui = "wait" /\ call = [to |-> "wait", do_loop |-> FALSE] /\ done = << >>
    /\ dropped = FALSE /\ young = FALSE /\ freed = 0 /\ failed = FALSE

-----------------------------------------------------------------------------
(* Mutant of Take: the buffer is given back when it is taken.               *)
Take_early ==
    /\ configured /\ m4 = "execute"
    /\ active = None /\ full # << >>
    /\ active' = Head(full)
    /\ full' = Tail(full)
    /\ empty' = Append(empty, Head(full))
    /\ UNCHANGED <<hand, data, file, pos, played, m4vars, isrvars, thread, view>>

(* M4, in the baseband thread: StreamOutput::read(), called by execute()   *)
(* for every block of samples.  With no full buffer there is a hole in the *)
(* transmission.                                                           *)
Take ==
    /\ configured /\ m4 = "execute"
    /\ active = None /\ full # << >>
    /\ active' = Head(full)
    /\ full' = Tail(full)
    /\ UNCHANGED <<empty, hand, data, file, pos, played, m4vars, isrvars, thread, view>>

(* The M0 is between out() and its sleep, or between handler and clear().  *)
InWindow == worker = "nothing" \/ isr = "checked"

(* The active buffer has been transmitted and goes back to the M0.         *)
Play ==
    /\ configured /\ m4 = "execute"
    /\ active # None /\ Len(empty) < FifoSize
    /\ InWindow => window < WindowPlays
    /\ window' = IF InWindow THEN window + 1 ELSE window
    /\ empty' = Append(empty, active)
    /\ active' = None
    /\ played' = played + 2
    /\ m4' = "ring"
    /\ UNCHANGED <<full, hand, data, file, pos, configured, line, isr, signal, thread, view>>

(* Mutant of Ring: the event is not asserted.                              *)
Ring_silent ==
    /\ m4 = "ring"
    /\ m4' = "execute"
    /\ UNCHANGED <<mem, configured, isrvars, thread, view>>

Ring ==
    /\ m4 = "ring"
    /\ m4' = "execute"
    /\ line' = TRUE
    /\ UNCHANGED <<mem, configured, isr, window, signal, thread, view>>

(* TXProgress: any other ring of the M4, only while it plays.              *)
Report ==
    /\ configured /\ m4 = "execute" /\ ~line
    /\ line' = TRUE
    /\ UNCHANGED <<mem, m4vars, isr, window, signal, thread, view>>

-----------------------------------------------------------------------------
(* M0: M4Core_IRQHandler wakes the replay thread if there is an empty      *)
(* buffer, flags the application queue, ...                                *)
IsrWake ==
    /\ line /\ isr = "none"
    /\ isr' = "checked"
    /\ worker' = IF exchange /\ empty # << >> /\ worker = "sleep" THEN "out" ELSE worker
    /\ signal' = IF signal = "queued" THEN "flagged" ELSE signal
    /\ UNCHANGED <<mem, m4vars, line, window, exchange, terminate, code, view>>

(* ... and clears the line, whatever has rung in between.                  *)
IsrClear ==
    /\ isr = "checked"
    /\ isr' = "none"
    /\ line' = FALSE
    /\ window' = IF worker = "nothing" THEN window ELSE 0
    /\ UNCHANGED <<mem, m4vars, signal, thread, view>>

-----------------------------------------------------------------------------
(* M0: the replay thread, of higher priority than the event loop; a ring   *)
(* of the M4 interrupts it at once.                                        *)
WorkerAt(from, to) ==
    /\ worker = from /\ isr = "none" /\ ~line
    /\ worker' = to

(* BasebandReplay's constructor: replay_start() makes the M4 stop playing, *)
(* create a StreamOutput and push a RequestSignal, unless the application  *)
(* queue is full, before the call returns.                                 *)
Construct ==
    /\ WorkerAt("construct", "exchange")
    /\ m4 = "execute"
    /\ configured' = FALSE
    /\ empty' = SetToSeq(Buffers) /\ full' = << >> /\ active' = None /\ hand' = None
    /\ data' = [b \in Buffers |-> Unwritten]
    /\ \/ dropped' = FALSE /\ signal' = "queued" /\ line' = TRUE
       \/ dropped' = TRUE /\ UNCHANGED <<signal, line>>
    /\ UNCHANGED <<file, pos, played, m4, isr, window, exchange, terminate, code,
                   ready, session, radio, ui, call, done, young, freed, failed>>

Exchange ==
    /\ WorkerAt("exchange", "poll")
    /\ exchange' = TRUE
    /\ UNCHANGED <<mem, m4vars, isrvars, terminate, code, view>>

(* The thread sleeps and looks at ready_signal again; at nothing else.     *)
Poll ==
    /\ WorkerAt("poll", IF ready THEN "prefill" ELSE "poll")
    /\ UNCHANGED <<mem, m4vars, isrvars, exchange, terminate, code, view>>

(* Prefill: another empty buffer, or none left and set_fifo_data().        *)
Prefill ==
    /\ \/ /\ empty # << >>
          /\ WorkerAt("prefill", "filling")
          /\ hand' = Head(empty) /\ empty' = Tail(empty)
          /\ UNCHANGED configured
       \/ /\ empty = << >>
          /\ WorkerAt("prefill", "loop")
          /\ configured' = TRUE
          /\ UNCHANGED <<hand, empty>>
    /\ UNCHANGED <<full, active, data, file, pos, played, m4, isrvars,
                   exchange, terminate, code, view>>

(* What read() leaves in the buffer in hand: at the end of the file fewer  *)
(* blocks than asked for, and the rest of the buffer as it was.            *)
Blocks == IF file - pos < 2 THEN file - pos ELSE 2
Filled == [i \in 1 .. 2 |-> IF i <= Blocks THEN pos + i ELSE data[hand][i]]

(* The buffer in hand goes to the M4; put() ignores a full FIFO.           *)
ReadAndPut ==
    /\ data' = [data EXCEPT ![hand] = Filled]
    /\ pos' = pos + Blocks
    /\ full' = IF Len(full) < FifoSize THEN Append(full, hand) ELSE full
    /\ hand' = None
    /\ UNCHANGED <<empty, active, file, played, code>>

Return(from, result) ==
    /\ WorkerAt(from, "leave")
    /\ code' = result
    /\ UNCHANGED mem

(* The prefill reads whole buffers: only errors are looked at.             *)
Fill ==
    /\ \/ WorkerAt("filling", "prefill") /\ ReadAndPut
       \/ Return("filling", "READ_ERROR")
    /\ UNCHANGED <<m4vars, isrvars, exchange, terminate, view>>

Loop ==
    /\ \/ ~terminate /\ WorkerAt("loop", "out") /\ UNCHANGED <<mem, code>>
       \/ terminate /\ Return("loop", "TERMINATED")
    /\ UNCHANGED <<m4vars, isrvars, exchange, terminate, view>>

(* Mutant of Out: what out() returned is not looked at.                    *)
Out_unchecked ==
    /\ WorkerAt("out", "reading")
    /\ hand' = IF empty = << >> THEN None ELSE Head(empty)
    /\ empty' = IF empty = << >> THEN << >> ELSE Tail(empty)
    /\ UNCHANGED <<full, active, data, file, pos, played, m4vars, isrvars,
                   exchange, terminate, code, view>>

(* BufferExchange::get() takes a buffer, or finds none and ...             *)
Out ==
    /\ \/ /\ empty # << >>
          /\ WorkerAt("out", "reading")
          /\ hand' = Head(empty) /\ empty' = Tail(empty)
       \/ /\ empty = << >>
          /\ WorkerAt("out", "nothing")
          /\ UNCHANGED <<hand, empty>>
    /\ UNCHANGED <<full, active, data, file, pos, played, m4vars, isrvars,
                   exchange, terminate, code, view>>

(* ... sleeps, whatever has been put into the FIFO in between.             *)
Sleep ==
    /\ WorkerAt("nothing", "sleep")
    /\ window' = 0
    /\ UNCHANGED <<mem, m4vars, line, isr, signal, exchange, terminate, code, view>>

(* Mutant of Read: a short read is taken for the end of the file.          *)
Read_short ==
    /\ \/ Blocks = 2 /\ WorkerAt("reading", "loop") /\ ReadAndPut
       \/ Blocks < 2 /\ Return("reading", "END_OF_FILE")
       \/ Return("reading", "READ_ERROR")
    /\ UNCHANGED <<m4vars, isrvars, exchange, terminate, view>>

(* At the end of the file, or on an error, the buffer is not given back.   *)
Read ==
    /\ \/ Blocks > 0 /\ WorkerAt("reading", "loop") /\ ReadAndPut
       \/ Blocks = 0 /\ Return("reading", "END_OF_FILE")
       \/ Return("reading", "READ_ERROR")
    /\ UNCHANGED <<m4vars, isrvars, exchange, terminate, view>>

(* run() returns: ~BufferExchange, and then ...                            *)
Leave ==
    /\ WorkerAt("leave", "stop")
    /\ exchange' = FALSE
    /\ UNCHANGED <<mem, m4vars, isrvars, terminate, code, view>>

(* ... ~BasebandReplay: replay_stop() makes the M4 destroy its stream.     *)
Stop ==
    /\ WorkerAt("stop", "post")
    /\ m4 = "execute"
    /\ configured' = FALSE
    /\ empty' = << >> /\ full' = << >> /\ active' = None
    /\ UNCHANGED <<hand, data, file, pos, played, m4, isrvars, exchange, terminate, code, view>>

(* The callback posts ReplayThreadDone and the thread exits.               *)
Post ==
    /\ WorkerAt("post", "ended")
    /\ done' = Append(done, [code |-> code, stale |-> FALSE])
    /\ UNCHANGED <<mem, m4vars, isrvars, exchange, terminate, code,
                   ready, session, radio, ui, call, history>>

-----------------------------------------------------------------------------
(* M0: the event loop, while the replay thread does not want the CPU.      *)
UiAt(from, to) ==
    /\ worker \in {"none", "poll", "sleep", "filling", "reading", "ended"}
    /\ isr = "none" /\ ~line
    /\ ui = from
    /\ ui' = to

Following == [application |-> "local", local |-> "switches", switches |-> "touch",
              touch |-> "wait"]

(* Mutant of Round: a queue is not handled in every round.                 *)
Round_unflagged ==
    /\ \E first \in {"application", "local", "switches"} : UiAt("wait", first)
    /\ young' = FALSE
    /\ freed' = IF freed = 0 THEN 0 ELSE freed - 1
    /\ UNCHANGED <<mem, m4vars, isrvars, thread, ready, session, radio, call, done,
                   dropped, failed>>

(* A round of dispatch(): both queues, then the switches, then touch.      *)
Round ==
    /\ UiAt("wait", "application")
    /\ young' = FALSE
    /\ freed' = IF freed = 0 THEN 0 ELSE freed - 1
    /\ UNCHANGED <<mem, m4vars, isrvars, thread, ready, session, radio, call, done,
                   dropped, failed>>

(* set_ready()                                                             *)
HandleSignal ==
    /\ UiAt("application", "application")
    /\ signal = "flagged"
    /\ signal' = "none"
    /\ ready' = TRUE
    /\ UNCHANGED <<mem, m4vars, line, isr, window, thread, session, radio, call, done, history>>

(* Nothing (more) to do at this place of the round.                        *)
Advance(at) ==
    /\ UiAt(at, Following[at])
    /\ at = "application" => signal # "flagged"
    /\ at = "local" => done = << >>
    /\ UNCHANGED <<mem, m4vars, isrvars, thread, ready, session, radio, call, done, history>>

(* The end of stop(): nothing is replayed any more, ...                    *)
Stopped ==
    /\ session' = FALSE /\ radio' = FALSE /\ failed' = FALSE
    /\ ready' = FALSE
    /\ worker' = "none"
    /\ UNCHANGED <<file, pos, played, terminate, code, young>>

(* ... or start() has made a thread, which runs at once, or has not been   *)
(* able to open the file; it enables the radio in both cases.  A loop      *)
(* returns to stop(), which resets ready_signal after that.                *)
Started ==
    /\ radio' = TRUE
    /\ ready' = FALSE
    /\ \/ /\ session' = TRUE /\ failed' = FALSE
          /\ worker' = "construct"
          /\ file' \in FileSizes /\ pos' = 0 /\ played' = 0
          /\ terminate' = FALSE /\ code' = "TERMINATED"
          /\ young' = TRUE
       \/ /\ session' = FALSE /\ failed' = TRUE
          /\ worker' = "none"
          /\ UNCHANGED <<file, pos, played, terminate, code, young>>

(* stop(do_loop) of a session: ~ReplayThread asks the thread to end and    *)
(* waits for it; ...                                                       *)
stop(from, to, do_loop) ==
    /\ session
    /\ UiAt(from, "join")
    /\ call' = [to |-> to, do_loop |-> do_loop]
    /\ terminate' = TRUE
    /\ UNCHANGED <<mem, m4vars, isrvars, exchange, worker, code, ready, session, radio, history>>

(* ... chThdWait() returns, and the checkbox decides whether to loop.      *)
Join ==
    /\ worker = "ended"
    /\ UiAt("join", call.to)
    /\ done' = [i \in DOMAIN done |-> [done[i] EXCEPT !.stale = TRUE]]
    /\ freed' = 2
    /\ Stopped \/ (call.do_loop /\ Started)
    /\ UNCHANGED <<empty, full, active, hand, data, m4vars, isrvars, exchange, call, dropped>>

(* handle_replay_thread_done() stops or restarts whatever session there is *)
HandleDone ==
    LET loops == Head(done).code = "END_OF_FILE" IN
    /\ done # << >>
    /\ done' = Tail(done)
    /\ IF Head(done).code = "TERMINATED"
       THEN /\ UiAt("local", "local")
            /\ UNCHANGED <<mem, m4vars, isrvars, thread, ready, session, radio, call, history>>
       ELSE \/ stop("local", "local", loops)
            \/ /\ ~session
               /\ UiAt("local", "local")
               /\ Stopped \/ (loops /\ Started)
               /\ UNCHANGED <<empty, full, active, hand, data, m4vars, isrvars, exchange,
                              call, dropped, freed>>

(* toggle(), on_hide(): the user's input stops ...                         *)
UserStops(at) ==
    /\ UNCHANGED done
    /\ \/ stop(at, Following[at], FALSE)
       \/ /\ ~session
          /\ UiAt(at, Following[at])
          /\ Stopped
          /\ UNCHANGED <<empty, full, active, hand, data, m4vars, isrvars, exchange,
                         call, dropped, freed>>

(* ... or starts a replay.                                                 *)
UserStarts(at) ==
    /\ ~session
    /\ UiAt(at, Following[at])
    /\ Started
    /\ UNCHANGED <<empty, full, active, hand, data, m4vars, isrvars, exchange, call,
                   done, dropped, freed>>

-----------------------------------------------------------------------------
M4Step == Take \/ Play \/ Ring \/ Report
Worker == \/ Construct \/ Exchange \/ Poll \/ Prefill \/ Fill \/ Loop \/ Out \/ Sleep
          \/ Read \/ Leave \/ Stop \/ Post
EventLoop ==
    \/ Round \/ HandleSignal \/ HandleDone \/ Join
    \/ \E at \in DOMAIN Following : Advance(at)
    \/ \E at \in {"switches", "touch"} : UserStops(at) \/ UserStarts(at)

Next == M4Step \/ IsrWake \/ IsrClear \/ Worker \/ EventLoop

(* The M4 keeps playing what it has; interrupts are taken and short, and   *)
(* the card answers: a thread that is ready again and again gets on.       *)
Fairness ==
    /\ WF_vars(Take) /\ WF_vars(Play) /\ WF_vars(Ring)
    /\ WF_vars(IsrWake) /\ WF_vars(IsrClear)
    /\ SF_vars(Worker) /\ SF_vars(Join)

Spec == Init /\ [][Next]_vars
FairSpec == Spec /\ Fairness

-----------------------------------------------------------------------------
(* Type invariant; the thread reads into a buffer only when it has one.    *)
TypeOK ==
    /\ empty \in Seq(Buffers) /\ full \in Seq(Buffers)
    /\ Len(empty) <= FifoSize /\ Len(full) <= FifoSize
    /\ active \in Buffers \cup {None} /\ hand \in Buffers \cup {None}
    /\ worker \in {"filling", "reading"} => hand # None
    /\ data \in [Buffers -> [1 .. 2 -> Nat]] /\ file \in FileSizes
    /\ pos \in 0 .. file /\ played \in Nat
    /\ configured \in BOOLEAN /\ m4 \in {"execute", "ring"}
    /\ line \in BOOLEAN /\ isr \in {"none", "checked"} /\ window \in 0 .. WindowPlays
    /\ signal \in {"none", "queued", "flagged"} /\ ready \in BOOLEAN
    /\ exchange \in BOOLEAN /\ terminate \in BOOLEAN
    /\ worker \in {"none", "construct", "exchange", "poll", "prefill", "filling", "loop",
                   "out", "nothing", "sleep", "reading", "leave", "stop", "post", "ended"}
    /\ code \in {"TERMINATED", "READ_ERROR", "END_OF_FILE"}
    /\ session \in BOOLEAN /\ radio \in BOOLEAN
    /\ ui \in {"wait", "join"} \cup DOMAIN Following
    /\ call \in [to : {"wait"} \cup DOMAIN Following, do_loop : BOOLEAN]
    /\ Len(done) <= 2 /\ freed \in 0 .. 2
    /\ dropped \in BOOLEAN /\ young \in BOOLEAN /\ failed \in BOOLEAN

(* What the M4 transmits is the file, from its first block on, without a   *)
(* gap, and nobody writes into the buffer meanwhile.  Only past the end of *)
(* the file is it what the buffer held before: read results are not looked *)
(* at while prefilling, and set_size(capacity) follows a short read.       *)
PlaysFile ==
    active # None =>
        \A i \in 1 .. 2 : data[active][i] = played + i \/ played + i > file

(* When run() returns END_OF_FILE the whole file has been handed over, but *)
(* as many buffers as there are besides the one in hand may not have been  *)
(* transmitted: they are thrown away with the stream.                      *)
EndOfFile ==
    code = "END_OF_FILE" /\ worker = "leave" =>
        pos = file /\ played + 2 * (Cardinality(Buffers) - 1) >= file

(* The event loop never waits for a thread that waits for the event loop   *)
(* to handle the Ready message: unless the message found the queue full,   *)
(* or the session was started in this very round, as a loop does at the    *)
(* end of the file, and the user stops it at once.                         *)
ReadyBeforeStop ==
    ui = "join" /\ worker = "poll" /\ ~ready => dropped \/ young

(* The radio transmits only while there is a replay thread: unless start() *)
(* could not open the file, when it is enabled behind the error message.   *)
(* (This states that exception rather than ruling it out: it is proved,    *)
(* as part of the inductive invariant, and no run checks it.)              *)
RadioOnlyInSession == radio => session \/ failed

(* The Done message of a session that has been destroyed is handled in the *)
(* round after that at the latest.  Until then it can restart a replay the *)
(* user has just stopped, or stop one he has just started.                 *)
DoneIsRecent ==
    [][done # << >> /\ done' = Tail(done) /\ Head(done).stale => freed > 0]_vars

(* Once the thread has been let go by the Ready message, stop() returns:   *)
(* the M4 plays on and wakes it up to look at the terminate flag.          *)
StopReturns == ui = "join" /\ ready ~> ui # "join"
=============================================================================
