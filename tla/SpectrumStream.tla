--------------------------- MODULE SpectrumStream ---------------------------
(***************************************************************************)
(* The spectrum stream: from the M4's sample buffer to the waterfall.      *)
(*                                                                         *)
(* M4: the baseband thread copies samples into channel_spectrum and flags  *)
(* the event loop, which it preempts; the event loop computes the spectrum *)
(* in place and puts it into a FIFO, and handles the start and stop        *)
(* messages (baseband/spectrum_collector.cpp, event_m4.cpp).               *)
(* M0: the waterfall learns the address of that FIFO from a message in the *)
(* application queue and drains it at every frame sync                     *)
(* (ui/ui_spectrum.hpp), while inputs stop and start the stream, replace   *)
(* the view, or replace the image under it (apps/analog_audio_app.cpp).    *)
(*                                                                         *)
(* FIFO operations, pushes and a message to the M4 up to its interrupt are *)
(* single steps (Fifo, MessageQueue, BasebandMailbox).                     *)
(***************************************************************************)
EXTENDS Naturals, Sequences

CONSTANTS
    FifoSize,       \* of ChannelSpectrumFIFO
    QueueSize,      \* messages the application queue holds
    Images,         \* number of images run, a bound for the model
    None

ASSUME SpectrumAssumption ==
    /\ FifoSize \in Nat \ {0} /\ QueueSize \in Nat \ {0} /\ Images \in Nat
    /\ None \notin Nat

VARIABLES
    image,      \* the number of the image that runs
    streaming,  \* SpectrumCollector::streaming
    request,    \* channel_spectrum_request_update
    buf,        \* channel_spectrum: whether it was filled before the last
                \* start(), and a bit that tells two fillings apart
    fifo,       \* the spectra in the FIFO, each "new" or "old", as buf
    events,     \* events pending for the M4's event loop
    round,      \* those of the round it is in
    m4,         \* where it is
    message,    \* shared_memory.baseband_message
    queue,      \* the application queue: the image of a
                \* ChannelSpectrumConfig, or None for statistics
    line, isr,  \* M4TXEVENT, where the M0 is inside M4Core_IRQHandler
    flagged,    \* EVT_MASK_APPLICATION
    seen,       \* it was set at the beginning of this round of the M0's loop
    ptr,        \* WaterfallWidget::channel_fifo, as the image it belongs to
    ui,         \* where the M0's event loop is
    todo,       \* calls it has to make before it goes on
    next        \* where it goes on

collector == <<streaming, request, buf, fifo>>
m4vars == <<events, round, m4>>
appqueue == <<queue, line, isr, flagged>>
uivars == <<seen, ptr, ui, todo, next>>
vars == <<image, collector, m4vars, message, appqueue, uivars>>

Init ==
    /\ image = 0
    /\ streaming = FALSE /\ request = FALSE /\ buf = [age |-> "old", bit |-> 0]
    /\ fifo = << >>
    /\ events = {} /\ round = {} /\ m4 = "wait" /\ message = "none"
    /\ queue = << >> /\ line = FALSE /\ isr = "none" /\ flagged = FALSE
    /\ seen = FALSE /\ ptr = None /\ ui = "wait" /\ todo = << >> /\ next = "wait"

-----------------------------------------------------------------------------
(* M4, the baseband thread: post_message(), at any point of the event loop *)
post_message ==
    /\ streaming /\ ~request
    /\ buf' = [age |-> "new", bit |-> 1 - buf.bit]
    /\ request' = TRUE
    /\ events' = events \cup {"spectrum"}
    /\ UNCHANGED <<image, streaming, fifo, round, m4, message, appqueue, uivars>>

(* M4, the event loop: wait() takes all pending events.                    *)
Wait ==
    /\ m4 = "wait" /\ events # {}
    /\ round' = events /\ events' = {}
    /\ m4' = "baseband"
    /\ UNCHANGED <<image, collector, message, appqueue, uivars>>

push(record) ==
    /\ queue' = IF Len(queue) < QueueSize THEN Append(queue, record) ELSE queue
    /\ line' = (line \/ Len(queue) < QueueSize)
    /\ UNCHANGED <<isr, flagged>>

(* What has been filled before the stream is started again is old.         *)
start ==
    /\ streaming' = TRUE
    /\ buf' = IF streaming THEN buf ELSE [buf EXCEPT !.age = "old"]
    /\ fifo' = IF streaming THEN fifo ELSE [i \in DOMAIN fifo |-> "old"]
    /\ push(image)
    /\ UNCHANGED request

(* Mutant of stop: the FIFO is left as it is.                              *)
stop_full ==
    /\ streaming' = FALSE
    /\ UNCHANGED <<request, buf, fifo, appqueue>>

(* reset_in(): the consumer is inside send_message().                      *)
stop ==
    /\ streaming' = FALSE
    /\ fifo' = << >>
    /\ UNCHANGED <<request, buf, appqueue>>

(* dispatch(): the mailbox first, if its event is set; ...                 *)
HandleBaseband ==
    /\ m4 = "baseband"
    /\ IF "baseband" \in round /\ message # "none"
       THEN /\ message' = "none"
            /\ IF message = "start" THEN start ELSE stop
       ELSE UNCHANGED <<message, collector, appqueue>>
    /\ m4' = "spectrum"
    /\ UNCHANGED <<image, events, round, uivars>>

(* Mutant of HandleSpectrum: a round handles one event only.               *)
HandleSpectrum_else ==
    /\ m4 = "spectrum"
    /\ m4' = CASE "spectrum" \notin round \/ "baseband" \in round -> "wait"
               [] streaming /\ request    -> "fft"
               [] OTHER                   -> "clear"
    /\ UNCHANGED <<image, collector, events, round, message, appqueue, uivars>>

(* ... then update(), if its event is set: the transform in place ...      *)
HandleSpectrum ==
    /\ m4 = "spectrum"
    /\ m4' = CASE "spectrum" \notin round -> "wait"
               [] streaming /\ request    -> "fft"
               [] OTHER                   -> "clear"
    /\ UNCHANGED <<image, collector, events, round, message, appqueue, uivars>>

(* Mutant of Fft: the buffer is released before the work on it.            *)
Fft_released ==
    /\ m4 = "fft"
    /\ IF request
       THEN request' = FALSE /\ UNCHANGED <<m4, fifo>>
       ELSE /\ m4' = "clear" /\ UNCHANGED request
            /\ fifo' = IF Len(fifo) < FifoSize THEN Append(fifo, buf.age) ELSE fifo
    /\ UNCHANGED <<image, streaming, buf, events, round, message, appqueue, uivars>>

(* ... and fifo.in(), which drops the spectrum if there is no room.        *)
Fft ==
    /\ m4 = "fft"
    /\ fifo' = IF Len(fifo) < FifoSize THEN Append(fifo, buf.age) ELSE fifo
    /\ m4' = "clear"
    /\ UNCHANGED <<image, streaming, request, buf, events, round, message, appqueue, uivars>>

(* The buffer is free again, whatever update() has done.                   *)
Clear ==
    /\ m4 = "clear"
    /\ request' = FALSE
    /\ m4' = "wait"
    /\ UNCHANGED <<image, streaming, buf, fifo, events, round, message, appqueue, uivars>>

(* Statistics of the M4's threads.  They leave room in the queue for the   *)
(* ChannelSpectrumConfig: the M0 empties it between two inputs.            *)
Report ==
    /\ Len(queue) + 1 < QueueSize
    /\ push(None)
    /\ UNCHANGED <<image, collector, m4vars, message, uivars>>

-----------------------------------------------------------------------------
(* M0: M4Core_IRQHandler, at once when the line is set.                    *)
IsrCheck ==
    /\ line /\ isr = "none"
    /\ isr' = "checked"
    /\ flagged' = (flagged \/ queue # << >>)
    /\ UNCHANGED <<image, collector, m4vars, message, queue, line, uivars>>

IsrClear ==
    /\ isr = "checked"
    /\ isr' = "none" /\ line' = FALSE
    /\ UNCHANGED <<image, collector, m4vars, message, queue, flagged, uivars>>

UiAt(from, to) ==
    /\ ui = from /\ isr = "none" /\ ~line
    /\ ui' = to

(* M0: a round of dispatch(), with the events pending now.                 *)
Round ==
    /\ UiAt("wait", "application")
    /\ seen' = flagged /\ flagged' = FALSE
    /\ UNCHANGED <<image, collector, m4vars, message, queue, line, isr, ptr, todo, next>>

(* Mutant of HandleQueue: one message of the queue is handled in a round.  *)
HandleQueue_one ==
    /\ UiAt("application", "switches")
    /\ seen /\ queue # << >>
    /\ ptr' = IF Head(queue) = None THEN ptr ELSE Head(queue)
    /\ queue' = Tail(queue)
    /\ UNCHANGED <<image, collector, m4vars, message, line, isr, flagged, seen, todo, next>>

(* handle_application_queue(): a message, the waterfall takes the pointer. *)
HandleQueue ==
    /\ UiAt("application", "application")
    /\ seen /\ queue # << >>
    /\ ptr' = IF Head(queue) = None THEN ptr ELSE Head(queue)
    /\ queue' = Tail(queue)
    /\ UNCHANGED <<image, collector, m4vars, message, line, isr, flagged, seen, todo, next>>

QueueDone ==
    /\ UiAt("application", "switches")
    /\ ~seen \/ queue = << >>
    /\ UNCHANGED <<image, collector, m4vars, message, appqueue, seen, ptr, todo, next>>

Following == [switches |-> "frame", frame |-> "input", input |-> "wait"]

(* Keys and, after the frame sync, encoder and touch: nothing; a view is   *)
(* hidden or shown; it is replaced by one with an image and a waterfall of *)
(* its own; or, by the encoder alone, the modulation is changed, which     *)
(* replaces the image and keeps the waterfall.                             *)
Input(at) ==
    /\ UiAt(at, "call")
    /\ next' = Following[at]
    /\ todo' \in {<< >>, <<"stop">>, <<"start">>, <<"stop", "view", "start">>,
                   <<"stop", "image", "start">>}
    /\ Len(todo') = 3 => image < Images
    /\ at = "switches" => todo' # <<"stop", "image", "start">>
    /\ UNCHANGED <<image, collector, m4vars, message, appqueue, seen, ptr>>

(* Nothing is left to call.                                                *)
Return ==
    /\ todo = << >>
    /\ UiAt("call", next)
    /\ UNCHANGED <<image, collector, m4vars, message, appqueue, seen, ptr, todo, next>>

(* spectrum_streaming_start(), spectrum_streaming_stop(): send_message().  *)
Send ==
    /\ todo # << >> /\ Head(todo) \in {"start", "stop"}
    /\ UiAt("call", "spin")
    /\ message' = Head(todo)
    /\ events' = events \cup {"baseband"}
    /\ UNCHANGED <<image, collector, round, m4, appqueue, seen, ptr, todo, next>>

SendReturn ==
    /\ message = "none"
    /\ UiAt("spin", "call")
    /\ todo' = Tail(todo)
    /\ UNCHANGED <<image, collector, m4vars, message, appqueue, seen, ptr, next>>

(* shutdown() and run_image(): the M4 starts afresh, the queue is reset.   *)
NewImage ==
    /\ todo # << >> /\ Head(todo) \in {"view", "image"}
    /\ UiAt("call", "call")
    /\ m4 = "wait"
    /\ todo' = Tail(todo)
    /\ ptr' = IF Head(todo) = "view" THEN None ELSE ptr
    /\ image' = image + 1
    /\ streaming' = FALSE /\ request' = FALSE /\ fifo' = << >> /\ UNCHANGED buf
    /\ events' = {} /\ round' = {} /\ queue' = << >>
    /\ UNCHANGED <<m4, message, line, isr, flagged, seen, next>>

(* The frame sync handler drains the FIFO the pointer points to, spectrum  *)
(* by spectrum; there may be no frame sync in this round.                  *)
FrameSync ==
    /\ UiAt("frame", "frame")
    /\ ptr = image /\ fifo # << >>
    /\ fifo' = Tail(fifo)
    /\ UNCHANGED <<image, streaming, request, buf, m4vars, message, appqueue, seen, ptr, todo, next>>

FrameDone ==
    /\ UiAt("frame", Following["frame"])
    /\ UNCHANGED <<image, collector, m4vars, message, appqueue, seen, ptr, todo, next>>

-----------------------------------------------------------------------------
M4Step == \/ post_message \/ Wait \/ HandleBaseband \/ HandleSpectrum \/ Fft \/ Clear \/ Report
M0Step == \/ IsrCheck \/ IsrClear \/ Round \/ HandleQueue \/ QueueDone
          \/ Input("switches") \/ Input("input") \/ Return \/ Send \/ SendReturn
          \/ NewImage \/ FrameSync \/ FrameDone
Next == M4Step \/ M0Step
Spec == Init /\ [][Next]_vars

-----------------------------------------------------------------------------
(* Type invariant: the M4's buffer and events, the queue and the M0's      *)
(* event loop.                                                             *)
TypeOK ==
    /\ image \in Nat /\ streaming \in BOOLEAN /\ request \in BOOLEAN
    /\ buf \in [age : {"new", "old"}, bit : {0, 1}]
    /\ fifo \in Seq({"new", "old"}) /\ Len(fifo) <= FifoSize
    /\ events \subseteq {"baseband", "spectrum"} /\ round \subseteq {"baseband", "spectrum"}
    /\ m4 \in {"wait", "baseband", "spectrum", "fft", "clear"}
    /\ message \in {"none", "start", "stop"}
    /\ queue \in Seq(Nat \cup {None}) /\ Len(queue) <= QueueSize
    /\ line \in BOOLEAN /\ isr \in {"none", "checked"} /\ flagged \in BOOLEAN
    /\ seen \in BOOLEAN /\ ptr \in Nat \cup {None}
    /\ ui \in {"wait", "application", "switches", "frame", "input", "call", "spin"}
    /\ todo \in Seq({"start", "stop", "view", "image"})
    /\ next \in {"wait", "frame"}

(* A buffer that waits for the event loop is on its way to it: the event   *)
(* is pending, in this round, or the work on it is under way.              *)
RequestInv ==
    request => \/ "spectrum" \in events
               \/ "spectrum" \in round /\ m4 \in {"baseband", "spectrum"}
               \/ m4 \in {"fft", "clear"}

(* While the event loop works on the buffer it is marked as in use.  The   *)
(* FIFO is empty while the stream is stopped, and until the buffer of      *)
(* before the stop has gone into it.                                       *)
BufferInv ==
    /\ m4 = "fft" => streaming /\ request
    /\ ~streaming => fifo = << >>
    /\ request /\ buf.age = "old" => fifo = << >>  \/ m4 = "clear"

(* Whatever is in the application queue, the M0 knows of it or will.       *)
NoticeInv ==
    /\ isr = "checked" => flagged /\ line
    /\ line => queue # << >>
    /\ queue # << >> => line \/ flagged \/ (seen /\ ui = "application")

(* The M0's calls are made one by one; a message to the M4 is in the       *)
(* mailbox only inside send_message(); images are changed after the frame  *)
(* sync.                                                                   *)
CallInv ==
    /\ todo \in {<< >>, <<"stop">>, <<"start">>, <<"stop", "view", "start">>, <<"view", "start">>,
                <<"stop", "image", "start">>, <<"image", "start">>}
    /\ todo # << >> => ui \in {"call", "spin"}
    /\ todo \in {<<"stop", "image", "start">>, <<"image", "start">>} => next = "wait"
    /\ ui = "spin" => todo # << >> /\ message \in {"none", Head(todo)}
    /\ message # "none" => ui = "spin"

(* The queue holds nothing of an earlier image.                            *)
QueueInv == \A i \in DOMAIN queue : queue[i] \in {None, image}

(* A pointer of an earlier image is replaced before the next frame sync:   *)
(* the message with the new one is about to be sent, or in the queue.      *)
ConfigInv ==
    LET queued == \E i \in DOMAIN queue : queue[i] = image
    IN  ptr \notin {None, image} =>
          \/ /\ ui \in {"call", "spin"} /\ next = "wait"
             /\ \/ queued
                \/ /\ todo = <<"start">> /\ Len(queue) < QueueSize
                   /\ ui = "spin" => message = "start"
          \/ queued /\ ui = "wait"
          \/ queued /\ ui = "application" /\ seen

IInv == TypeOK /\ RequestInv /\ BufferInv /\ NoticeInv /\ CallInv /\ QueueInv /\ ConfigInv

(* The buffer is not refilled while its spectrum is computed, although the *)
(* thread that fills it preempts the one that computes.                    *)
OneOwner == [][m4 = "fft" => buf' = buf]_vars

(* A spectrum from before the last start of the stream, of samples that    *)
(* were waiting for the event loop when it handled stop and start, is only *)
(* ever the oldest in the FIFO: two are never there at once, and none is   *)
(* behind a new one.                                                       *)
OldOnlyFirst == \A i \in DOMAIN fifo : i > 1 => fifo[i] = "new"

(* The frame sync handler never follows a pointer into the memory of an    *)
(* image that has been replaced, although the pointer is never cleared:    *)
(* the modulation changes after the frame sync of a round, and the new     *)
(* pointer is handled before that of the next.                             *)
PointerLive == ui = "frame" => ptr \in {None, image}
=============================================================================
