# Verification of the PortaPack Havoc firmware

TLA+ models of the parts of `src/firmware` where the two cores of the LPC4320,
and the threads on each of them, depend on one another. TLC checks them on small
instances, and for eight of the nine specifications TLAPS proves the most important of their
properties for every instance.

## The system

The **M0** runs the application: ChibiOS with strict priorities (no time slices),
an event-loop thread that owns the user interface, capture and replay threads of
higher priority, and interrupt handlers. The **M4** runs one *baseband image* at a
time: a processor object with a high-priority baseband thread fed by DMA, an RSSI
thread, and an event loop of the lowest priority. The M0 copies an image into the M4's code
RAM and resets it. The cores share memory (`portapack_shared_memory.hpp`) and ring
each other through one interrupt line per direction.

| Component | State | Operations | Interacts through | Hard behaviour | What makes it correct |
|---|---|---|---|---|---|
| `FIFO<T>` (`common/fifo.hpp`) | ring, `_in`, `_out` | `in`, `out`, `reset_in`; byte records `in_r`, `peek_r`, `skip` | memory read by both cores | no locks, copies take time, counters wrap | it is a bounded FIFO queue; no torn reads |
| Baseband mailbox (`baseband_api.cpp`, `event_m4.cpp`, `baseband.cpp`, `core_control.cpp`) | one message pointer, image running flag | `send_message`, `run_image`, `shutdown`; M4 handler, event loop, `_default_exit` | pointer and bell M0 to M4 | pre-emptive second sender, wiped rings, messages on the sender's stack, image replaced under the M4 | a message is handled exactly once before its sender goes on; the M4 sleeps when reloaded |
| Application queue (`message_queue.hpp`, `event_m0.cpp`) | byte ring, mutex | `push`, `handle`, `reset` | ring and bell M4 to M0 | several writers, full ring, wiped rings, handlers that replace the image | in order, no losses, nothing of an old image, never stuck |
| Capture path (`stream_input.cpp`, `buffer_exchange.cpp`, `capture_thread.cpp`, `ui_record_view.cpp`) | buffers, two pointer FIFOs, the sleeping thread | `write`, `get`, `put`; start, stop | FIFOs, bell, mailbox, local queue | lost wakeups, stop while asleep, write errors, life times across cores, stale Done messages | buffers conserved, threads woken, stop returns, nothing used after it is freed |
| Replay path (`stream_output.cpp`, `replay_thread.cpp`, `apps/replay_app.cpp`) | as above, and `ready_signal` | as above | as above | polling for a message the stopping thread cannot handle, end of file, short reads, loops | plays the file without gaps; no mutual wait; radio off without a session |
| Spectrum stream (`spectrum_collector.cpp`, `ui_spectrum.hpp`) | sample buffer, request flag, FIFO, consumer's pointer | `feed`, `update`, start, stop | FIFO, mailbox, queue | pre-emption during the FFT, reset while consumed, pointer outlives image | buffer has one owner; no old spectra; pointer valid |
| DMA and M4 threads (`baseband_dma.cpp`, `thread_wait.cpp`, `baseband_thread.cpp`, `rssi_thread.cpp`) | linked list position, waiting thread | `wait_for_buffer`, completion, error | interrupts | completions nobody waits for, errors, a thread older and younger than what it uses | nothing processed while written; thread ends before its processor |
| M0 event loop (`event_m0.cpp`) | event mask, display and key state, captured widget | `dispatch`, handlers | all of the above | order in a round, stale state | one key event per press; display sleeps in time; live widgets |
| Navigation, widgets, focus (`ui_navigation.cpp`, `ui_widget.cpp`, `ui_focus.cpp`) | view stack, tree, focus | push, pop, focus moves | event loop, handler map | callbacks that destroy their caller | no dangling focus, one handler per message |
| Input (`irq_controls.cpp`, `debounce.cpp`, `encoder.cpp`, `touch.cpp`) | filters | per-tick steps | flags the event loop | bounces, missed edges | one event per press, no false steps |
| Radio and receiver model | direction, settings | configure, enable | hardware | order | consistent settings |
| Packet builder (`packet_builder.hpp`, `proc_ais.*`, `ais_packet.cpp`) | bit history, packet | `execute` | application queue | framing found in the bits themselves, errors in it | every heard frame delivered, recovers from a missed one |
| Demodulators, encoders, decoders | filters | `execute` | sample buffers | arithmetic | not for a model checker |

Left out altogether: ChibiOS, the HackRF library and USB code (vendored), host tools,
bitmaps, graphics, hardware designs and SD-card content. Of ChibiOS the models use
what the code relies on: strict priorities, events that stay pending, a mutex, and
handlers that pre-empt threads.

## Modules

`Fifo` is the element interface of `FIFO<T>`. A call is three steps (enter, copied,
published or released), because the other core runs during each of them. A slot being
written holds `Torn`. The code's `size_t` counters wrap at 2^32 and its size is a power
of two; here the size is any positive number and the counters wrap at any larger
multiple of it. `BoundedQueue` says what users rely on, and `Fifo` implements it: an
element is put when `_in` is advanced and taken when its copy out is complete.
The other modules use a FIFO operation as one step on the strength of this.

`BasebandMailbox` is the protocol from M0 to M4. `SendSet`, `SendAssert`,
`SendReturn` are the three statements of `send_message()`; `IrqFlag` and `IrqClear` the
two of `MAPP_IRQHandler`; `Boot` to `Halt` the M4's main thread from
`EventDispatcher::run()` to `halt()`. `Runnable` is the M0's scheduler: a worker (capture
or replay thread, priority `NORMALPRIO + 10`) that is ready keeps the event loop from
running. `times` is a history variable.

`MessageQueue` is the application queue from M4 to M0: `push()` of several writers as
`Lock`, `Full` or `Copy`, `Publish`, `signal`; `Join` ends a thread between two pushes;
`M4Core_IRQHandler` as `IsrCheck` and `IsrClear`; `handle()` as `Peek` (copy out and call
the handler) and `Skip` (drop the record now at the head). `shutdown` and `run_image` may
be called from a handler of the queue itself. The byte ring is a sequence of records;
`Taken` is the set of the bytes they take, one pair for each, and `unused` what is left.
`run_image` starts one of `Images`: all writers, or all but the `Periodic` RSSI thread, as
the members of the image's processor have it.

`CaptureStream` is a recording, from the M4's `write()` to the SD card, with the
event loop that starts and stops it. Its steps stand for: `Take`, `Fill`, `Ring`
`StreamInput::write()`; `IsrWake` the interrupt's look into the FIFO; `Out` and `Sleep`
`BufferExchange::get()`; `Construct` to `Post` the capture thread's life; `Round`,
`HandleDone`, `Advance` a round of `dispatch()` (local queue, switches, touch); `start`,
`stop`, `Join` the `RecordView`. It composes the other protocols by their results: a
message to the M4 is one step, except that `capture_stop()` may be lost when it meets a
message of the event loop (`mailbox_overwrite`).

`ReplayStream` is the opposite direction, with what recordings do not have: the
`RequestSignal` that comes back through the application queue (`Construct`, `IsrWake`,
`HandleSignal`), the polling for it (`Poll`), the prefill (`Prefill`, `Fill`), the end
of the file and short reads (`Read`, `Filled`), loops (`Join` and `HandleDone` with
`Started`), errors of `start()`. A buffer holds two blocks of the file, so a read can
be short; `data` tells what each buffer holds, which is what `PlaysFile` compares with
the file. Rounds of `dispatch()` are as in `CaptureStream`, with the application
queue before the local one.

`SpectrumStream` is the hand-over of one sample buffer from a thread to the event loop it
pre-empts (`post_message`, `HandleSpectrum`, `Fft`, `Clear`), the messages that start and
stop the stream (`HandleBaseband`, `start` with its `ChannelSpectrumConfig`), and the
waterfall of the M0: `HandleQueue` stores the FIFO's address, `FrameSync` drains it,
`Input` queues the calls by which a view stops, replaces and restarts the stream or
changes the image under a waterfall that lives on (`todo`). A stale pointer is told by
the number of the image it belongs to.

`BasebandDma` is the M4's circular DMA: `Complete` and `Fail` are the hardware, `IsrWake`
and `IsrClear` the interrupt handler, `Enable` to `Leave` the baseband thread, `Create` to
`Join` the main thread that constructs and destroys the processor. `late` counts what the
DMA has done since the thread was told where it is.

`Controls` is the way from a bouncing switch to a key event and to the display's sleep:
`Tick` is the 1 kHz interrupt with `Debounce::feed()` for every key, `Wait` to
`HandleInput` the round of `dispatch()`, `Ignore`, `Wake`, `Deliver` the three ways through
`handle_switches()`. `press`, `bounced`, `disturbed` and `idle` are history variables.

`PacketBuilder` is the AIS receiver below the demodulator, against a transmitter of the
protocol: `consume_symbol` is the NRZI decoder and `execute` the builder with the patterns
of `proc_ais.hpp`; `data_and_fcs_length` is what the application takes for the data.
The transmitter is not code of the repository: `Begin`, `SendLead`, `SendData`,
`SendStuffed` and `SendFlag` send a frame bit by bit, `Silence` is a symbol of noise between
frames, and `Send` lets any symbol be mistaken. Its names begin with `Packet` where other
modules have `Init`, `Next` and `Spec`, so that one proof module can extend both ends of the
baseband core.

Each `...Proofs` module holds the proofs about the module it is named after;
`BasebandProofs` those about `BasebandDma` and `PacketBuilder`.
`MCMessageQueue` gives `MessageQueue` its record sizes, `MCControls` the symmetry of
`Controls`; the other modules take their constants from the cfg. Operators marked as
mutants are plausible mistakes, one for each property, which violate that property when
they take the place of the code's version.

## Runs

| Run | Shows |
|---|---|
| `fifo` | No torn read, the inductive invariant and the refinement, with four slots and counters that wrap after two turns, so that every alignment of the wrap occurs. |
| `mailbox_one_sender` | With the event loop as the only sender: `HandledOnReturn` (exactly once, before `send_message()` returns, although rings are wiped) and `ShutdownStopsM4`. |
| `mailbox_two_senders` | With one worker besides: messages can be lost, but none is handled twice (`IInv`), none is worked on after its sender has gone on, and everybody gets out of the spin loop: a ring wiped between flag and clear never is the one that mattered. |
| `mailbox_overwrite` (violation) | The comment in `send_message()` assumes one sending thread; a capture or replay thread's message is stored over a pending one. |
| `image_reload` (violation) | The comment in `m4_init()` assumes the M4 asleep; it is released from `_default_exit()` before it halts. The window is a few instructions long, against a `memcpy` that starts after the M0 has returned from two functions. |
| `message_queue` | Two writers whose records differ in size, a ring that holds two or three records, images with and without the periodic one: order, losses, image switches, wiped rings (`StrandedByWipe`) and liveness while an RSSI thread runs. |
| `capture_stream` | Three buffers (the capture application's number), FIFOs exactly as large as the buffer count, recordings ended by the user, by write errors, during other calls; unlimited sessions. |
| `replay_stream` | Files of one block (all in one short prefill read) and of nine (several refills, the last one short) with three buffers; loops, user stops, read errors, files that cannot be opened, a Ready message that meets a full queue. |
| `spectrum_stream` | Three images, a stream stopped and restarted at any point of the computation, views that replace the waterfall and ones that do not, statistics in the same queue. |
| `baseband_dma` | Four transfers as in every processor, completions at any time, also inside the handler, errors, images one after another. |
| `controls` | Two keys and the encoder, every bounce, interrupts between any two steps of the event loop, handlers that put the display to sleep or change the timer while a key is held, timers below and at the counter's range. |
| `packet_builder` | All sequences of frames with up to six bits of data, an idle symbol between two of them and two mistaken symbols anywhere. |

What the properties say where they hold only with an exception, and what the models show
beyond them:

- `LossOnlyBySwitch`: when a handler of the application queue replaces the image,
  `skip()` afterwards removes the *new* image's first record if it has been pushed by
  then. `ui_bht_tx.cpp` and `ui_mictx.cpp` do this on TXProgress.
- `StrandedByWipe` and `EventuallyTaken`: a record published between the two statements of
  `M4Core_IRQHandler` stays in the queue, unnoticed, until the next push. Images that receive
  have an RSSI thread, which pushes again. Images that transmit have none, and their baseband
  threads fall silent: `FSKProcessor` and `TonesProcessor` after TXProgress(done),
  `MicTXProcessor` after its beep. If that last message is the one stranded, the view does
  not learn that the transmission is over before the user leaves it.
  `EventuallyTaken` therefore speaks of images with an RSSI thread only; without that
  condition TLC finds this behaviour.
- `DoneEndsItsSession`: if a switch stops a recording and a touch in the same round of
  the event loop starts another, the first one's Done message stops the second.
  In every other case the local queue has been handled before the next input.
- `ConfigOutlivesStream`: the stream may keep a pointer to the freed `CaptureConfig` if
  a write error ended the thread while the event loop was inside `send_message()` and
  the stop message was lost.
- `ReadyBeforeStop`: a replay that loops at the end of its file is restarted by the Done
  message; if a switch stops it in that same round, the event loop waits for a thread that
  polls for a message only the event loop can handle: both wait for ever. The same happens
  when the `RequestSignal` meets a full application queue and the user stops the replay.
- `DoneIsRecent`: a Done message that has outlived its replay (the user stopped it as it
  ended) is handled at the latest in the next round. Until then it restarts a
  replay the user has just stopped, if the loop box is checked, or stops a new one.
- `RadioOnlyInSession` (proved, no run): when the file cannot be opened, the error message
  hides the view, which stops the radio; `start()` then goes on and enables it, in transmit
  direction, until the next stop. The theorem says that this is the only way; it does not
  rule it out.
- `EndOfFile`: up to `buffer_count - 1` buffers have not been transmitted when the stream is
  destroyed. `PlaysFile`: after a short read the rest of the buffer is played as it was.
- `OldOnlyFirst`: samples that were waiting when stop and start were handled give a
  spectrum of the old tuning after the restart. The property says where it is, at the head
  of the FIFO, not how many there are over time.
- `NotWhileWritten` holds if the thread is done before `N - 1` more transfers are complete:
  with four transfers the thread has three of them, not four, because the one it is given is
  already one behind. `JoinReturns` excepts a DMA error, which hangs the M4's main thread,
  and `shutdown()` on the M0 with it.
- `OnLiveProcessor` speaks of the processor's memory. Its members are another matter: the
  thread is the first of them, runs before the others are constructed and until after
  they are destroyed, and pre-empts the thread that does both.
- `SleepsOnTime`: `bl_tick_counter` has 8 bits, the timers of 300 and 600 seconds never
  match and the display stays on.
- `KeyReleased`: a filter sees an edge only if the line was steady before it (`00001111`).
  After a release that bounced, the key counts as held until a clean release, and the event
  loop ignores all keys in between. A key that woke the display can become a key event
  nevertheless, when another line's edge is flagged while it is held (`disturbed`).
- The branch of `handle_encoder()` that swallows an event while the display sleeps cannot be
  reached: `dispatch()` calls it only when the display is on.
- `NextIsDelivered`: the flag that ends a packet is not looked at as part of a preamble. A
  frame whose last flag was damaged runs on into the start of the next one, which is lost;
  and a missed frame whose end looks like a preamble costs one more.

### Bounds

- `Size = 4`, `Wraps = 2`: all differences of counters and all wrap positions.
- `Workers = {worker}`: an application has one capture or replay thread at a time. The
  proofs are for any number.
- `times` counts to two, enough to tell "twice" from "once".
- `QueueBytes = 7` with records of 3, 2 and 1: the ring can be full for one writer and
  not for another, and the ShutdownMessage can fit or not. `Numbers = 4` exceeds the
  number of records in flight, so a skipped or repeated record shows.
- `WindowPushes = 1`: how many records the M4 completes while the M0 is between the two
  statements of its interrupt handler, a few instructions apart. The bound matters. If
  the M4 could fill the *whole* queue within that window, every ring would be wiped,
  later pushes would fail without ringing, and the event loop would never wake:
  with `WindowPushes = 2` (two large records fill this instance's ring)
  `EventuallyTaken` is violated. The code is safe by the window's length, not by its
  logic.
- `WindowFills = 2` of three buffers: likewise for the capture thread between its
  `out()` and its sleep. With 3, all buffers filled within a window,
  `SleeperIsWoken` and `StopReturns` fail.
- `WindowPlays = 2` of three buffers in `ReplayStream`: the same window, with the same
  consequence. `FileSizes = {1, 9}` blocks with two blocks in a buffer: one file shorter
  than a buffer, and one that needs the prefill, a refill and half of another.
- In `ReplayStream` and `SpectrumStream` a pending interrupt is taken before the M0's
  threads go on; in the other modules at any time. That is the hardware, and it matters
  for `ReadyBeforeStop`.
- `Images = 2`, so the numbers 0 to 2: a pointer can be two images old. `QueueSize = 3`
  messages, `FifoSize = 2` spectra: both can be full. Statistics are assumed not to fill
  the queue when a `ChannelSpectrumConfig` is pushed: dropped, the waterfall would
  keep the pointer of the image before. The proofs are for any of the three constants.
- `N = 4` is `transfers_per_buffer`; `late` stops at `N`.
- `Nibble = 4` instead of 16: a history of four readings, two for an edge. All histories
  occur; a longer one only takes longer. `BlModulus = 3` and timers 0, 2, 3: never,
  reachable, out of the counter's range. The proofs are for any of them. The states of
  the switches are read as one snapshot, where the code reads them one after another.
- `Ones = 3`, `Training = 4`, `Capacity = 18`, `MaxData = 6`: a stuffed bit can be anywhere in
  the data, also a second one right behind a first run of ones, and a packet that runs on
  into noise or the next frame is truncated.
  With two ones instead of three the training itself would be within one bit of the preamble,
  unlike in the code. `Errors = 2`: a wrong symbol is two wrong bits after the NRZI decoder, so
  one error in a preamble can lose a frame and one in a flag the frame after.
  `Noise = 1` symbol between frames shifts every alignment. The proofs are for any of these
  numbers, with three ones or more and an even length of training.

### Fairness

- The M4 and M0 take a pending interrupt, and their threads go on when nothing of higher
  priority runs: weak fairness, since each such step stays enabled until taken.
- `CaptureStream` asks strong fairness of the capture thread and of `Join`: interrupts
  take the CPU from them again and again, but the handlers are short and the M4's rings
  periodic.
- `MessageQueue` asks strong fairness of `Join`: a thread told to terminate ends after the
  push it is in.
- Each writer of the queue completes a push it has begun. Only the RSSI thread (`Periodic`)
  is sure to begin another one: it reports every tenth of a second from its construction
  until it is told to terminate. Every image that receives has one
  (`RSSIThread rssi_thread` beside its `BasebandThread`), no image that transmits has.
  Nothing is assumed of the baseband thread or the M4's event loop, and the capture path
  relies on no report at all: `Report` is not fair.
- `Take`, `Fill` are fair: samples keep coming while an image runs. After a DMA error
  they do not, and then `StopReturns` has no ground (see the hazards).
- `ReplayStream` asks the same as `CaptureStream`: the M4 plays what it has, and the card
  answers. `StopReturns` is stated from the moment the thread has been let go by the Ready
  message; before that see `ReadyBeforeStop`.
- `BasebandDma`: the hardware completes transfers while it is enabled, its interrupts are
  taken; strong fairness of the thread and of the main thread, which both are interrupted
  again and again but not kept from running.
- Users do nothing fairly: no fairness on inputs, configuration calls or image switches.

## Proofs

`FifoProofs`, from `FifoAssumption` (a positive size, at least two turns per wrap, `Torn`
not a value): `TypeOK`, the invariant `IInv`, `NoTornRead`, and
`Spec => ImplementsQueue`, for every size and wrap. `IInv` is needed because `NoTornRead`
does not say why the producer is elsewhere: it adds the occupancy (`len` at most the
size, less while a write is under way, positive while a read is), that all published
slots are complete, and what is known of the calls in progress. The core is `LenOf`: how
`len` and the slots follow two counters modulo `Size * Wraps`; from it, `WriteBehind`
shows that the write touches no published slot. In the refinement `InPublish` puts,
`OutEnd` takes, `reset_in` clears, and every other step stutters.

`BasebandMailboxProofs`, for any set of workers, from `Main` not being a worker and
`Null` not a message: `TypeOK`, `IInv`, `AtMostOnce`, `SenderWaits`, `ShutdownStopsM4`;
and, with no workers, `HandledOnReturn`. `IInv` says that the message in the mailbox and
the one being handled belong to threads inside `send_message()` (`MailboxInv`) and ties
the image's phase to where the M4 is (`PhaseInv`). A sender leaves only when the mailbox
is empty, and only `HandleEnd` and `Release` empty it; `HandledOnReturn` adds
`OneSenderInv`, an emptied mailbox means a handled message.

`MessageQueueProofs`, for any writers, sizes and numbers: `OldImageGone` and
`LossOnlyBySwitch`. `HaltInv`: the M4 stops only under a `shutdown()` that waits, and has
no threads afterwards, so nothing is pushed between the reset and the next image.
`HandlerInv`: the record whose handler runs is the head of the queue until that handler
itself calls `shutdown()`; pushes only add behind it. `TypeOK` contains that the ring
never holds more bytes than it has: `PushInv` says that the writer inside `push()` has the
mutex and still has the room it found when it copies and publishes. `Taken` is the set of
(record, byte) pairs rather than a sum over the sequence, so that cardinalities say what a
record takes and gives back (`TakenByOne`, `TakenByRest`). `HandledInOrder` needs `OrderInv`:
while an image runs, each writer's records behind those already counted are numbered one
after another, the first is the `expected` one and the one after the last is `seq`.
`Numbered` says so by neighbours, which a push at the end and a `skip()` at the front
both preserve without a count. `StrandedByWipe` needs `BellInv`: an interrupt handler that
has looked at the queue has flagged the event loop, or `window` counts every record there
is; the interrupt is disabled from `shutdown()` until `run_image()` has started the next
image, so that nothing rung in between is wiped. It bounds the harm of a wiped ring for
every number of records that fit into the handler; that there is a next push is what
`EventuallyTaken` adds, and its fairness.

`CaptureStreamProofs`, for any buffers: `ExchangeOnLiveStream` and `ConfigOutlivesStream`
from `LifeInv`, which nests the exchange in the stream and the stream in the thread's
objects; `DoneEndsItsSession` from `DoneInv`: a stale message past the local queue of a
round means that the session was destroyed in this round; and `Conservation` from
`PlaceInv`: the FIFOs hold distinct buffers, the four places are disjoint, and the thread
has a buffer where its code says so. `RoomFor` is its core: a FIFO of distinct buffers that
lacks one has room for it, so `put()` never drops a buffer. `CountPlaces` turns the
disjoint places into the count that `Conservation` states. `TypeOK` adds `StoreOK`, the same
room after the `CaptureConfig` has been freed, and `PostInv`: the Done messages that are
there and the one that a living thread has yet to post are those of two sessions at most,
and of one between the local queue's turn and the touch.

`ReplayStreamProofs`, for any buffers, FIFOs with room for them and files:
`ReadyBeforeStop` from `SignalInv` (a thread that waits for the signal has it on its way, and
a round does not pass the application queue before it is handled), `DoneIsRecent` from the
age of stale messages, `RadioOnlyInSession`; `PlaysFile` and `EndOfFile` from `FlowInv`: the
buffers on their way to the antenna hold what follows on what has been played, in order and
up to where the file has been read. It rests on `PlaceInv` (as in recordings, `put()` finds
room by `RoomFor`, and nobody overwrites a buffer that is on its way) and on `ReturnInv`
(`run()` returns at the end of the file with a buffer in hand, so at most the others are
unplayed). `TypeOK` needs `PostInv`: a session that is not over has posted no Done message,
and one started past the local queue's turn gets no further than the signal before the next.

`SpectrumStreamProofs`, for any queue, FIFO and number of images: `IInv`, `OldOnlyFirst`,
`PointerLive`, `OneOwner`. `PointerLive` is the long one: `ConfigInv` says that after an
image switch the message with the new pointer is about to be sent or in the queue until
it is handled, which needs that the M0 knows of a queue that is not empty (`NoticeInv`),
which calls may be under way (`CallInv`), and that the queue holds nothing older
(`QueueInv`).

`BasebandProofs`, for any `N` from two on: `IInv`, `NotWhileWritten`, `OnLiveProcessor`.
`LateInv` is the arithmetic on the circle: the DMA is as far ahead of the thread's transfer
as transfers have been completed since the thread was told, and one more.
For the packet builder, from `PacketAssumption` and without a bound on the noise, the errors
or the number of frames: `HeardIsDelivered` and `NextIsDelivered`. `PacketInv` says, for every
bit of a frame without error, what the receiver has: the last bits are those of the lead
(`LeadInv`), then as many ones as were sent in a row behind a zero (`DataInv`), then the
beginning of the flag (`FlagInv`), while the packet is the data, and the flag behind them; at
the end the builder waits again (`IdleInv`). Two facts about the patterns carry it.
`NoPattern`: behind a 1, or a 0 with another one close before, there is neither a stuffed bit
nor a flag, so `execute()` drops exactly the stuffed bits. `NoEarlyMatch`: the bits of a flag
and any proper part of a lead behind it differ from the preamble in two places or more, so a
builder that waits when one frame ends does not start too early in the next; four cases, by
how much of the lead has been sent. `PacketAssumption` asks for three ones and an even
training (the code has five and eight) because these lemmas need them, and for data that
fit into a `Packet` with the flag, which is the protocol's limit.

`ControlsProofs`, for any keys, counter, timers and `Nibble` that is a power of two (stated
as: twice each smaller divisor divides it too): `IInv`, `SleepsOnTime`, `KeyReleased`.
`PressInv` ties what has become of a press to the filter's state and to `in_key_event`;
`TimerInv` the counter to the idle ticks. `Shift` is the lemma about histories: one that
equals an edge's pattern ends in the level of that edge.
`KeyReleased` needs `ReleaseInv`: the history of a held key that has not bounced since its
press ends in ones followed by fewer zeros than half its width, so the release will still
be seen as an edge. `FallsBy` states it without exponents, and `Falling` shows that a tick
with a low line keeps it or completes the edge.

Every invariant and every action property of the passing runs is stated by a theorem, and
so is the refinement. Only model-checked: liveness, since fairness is out of the prover's
reach (`SendReturns`, `EventuallyTaken`, `SleeperIsWoken`, `StopReturns`, `JoinReturns`); and
the two violations. No module uses a RECURSIVE operator.

## Not modelled

- Message contents, signal processing, formatting, file names, painting.
- The byte layout of records in `FIFO<uint8_t>`; `in(buf)`, `out(buf)`, `reset_out`,
  `out_r`, `push_and_wait`, which have no caller.
- The counters of `CaptureConfig`; what a torn read of them makes wrong is a percentage.
- The RSSI thread and DMA, which repeat `BasebandDma`'s structure; sampling rates, SGPIO.
- The encoder's transition table and the touch panel's filter and calibration.
- The view stack, widgets and focus: what a handler destroys, and whether the focused or
  captured widget survives it, is in some sixty views' own code. A model of the stack alone
  would hold by construction.
- The pairing of `run_image()` with `shutdown()` in every application, for the same reason.
- The radio and receiver models: sequences of register writes, by the event loop alone.
- The panic screen: once the M4 has panicked, `dispatch()` returns early in every round and
  handles no event any more (`halt`).
- CRC, message fields and the patterns of the receivers other than AIS.

## Plan

Done, in this order: `Fifo`, `BasebandMailbox`, `MessageQueue`, `CaptureStream`,
`ReplayStream`, `SpectrumStream`, `BasebandDma`, `Controls`, `PacketBuilder`, each with its
proofs.

What would come next: the counters of `CaptureConfig`, read while the other core updates
them; the RSSI path as a second instance of `BasebandDma`; an abstract specification of a
stream of buffers that `CaptureStream` and `ReplayStream` both implement.
