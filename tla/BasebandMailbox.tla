--------------------------- MODULE BasebandMailbox ---------------------------
(***************************************************************************)
(* The mailbox through which the application core (M0) commands the        *)
(* baseband core (M4): one pointer in shared memory, baseband_message.     *)
(*                                                                         *)
(* M0 (baseband_api.cpp): send_message() stores the pointer, rings the M4  *)
(* and spins until the pointer is null again.  The event-loop thread sends *)
(* most messages; a capture or replay thread of higher priority sends its  *)
(* own (start, prefilled, stop) and preempts it at any instant.            *)
(* M4 (event_m4.cpp): the interrupt flags an event and then clears the     *)
(* line; the event loop reads the pointer, handles the message and nulls   *)
(* it.  A Shutdown is not nulled there: the M4's main() returns and        *)
(* _default_exit() (baseband.cpp) nulls it as its last act.                *)
(* run_image() copies a new image into the M4's code RAM and resets it.    *)
(***************************************************************************)
EXTENDS Naturals

CONSTANTS
    Main,       \* the M0 event-loop thread
    Workers,    \* capture / replay threads, at NORMALPRIO + 10
    Null        \* the null pointer

ASSUME MailboxAssumption == Main \notin Workers

Threads == {Main} \cup Workers
Message == [from : Threads, kind : {"Data", "Shutdown"}]

ASSUME NullAssumption == Null \notin Message

VARIABLES
    baseband_message,   \* shared memory: the mailbox
    phase,              \* baseband_image_running, and the shutdown() call in progress
    pc,                 \* where each M0 thread is inside send_message()
    life,               \* how far each worker's run() is
    apptx,              \* M0APPTXEVENT, the interrupt line to the M4
    m4,                 \* what the M4's main thread is doing
    m4irq,              \* where the M4 is inside MAPP_IRQHandler
    enabled,            \* the interrupt is enabled in the M4
    evt,                \* EVT_MASK_BASEBAND pending on the M4's event loop
    handling,           \* the message on_message() is working on
    times               \* history: how often each thread's latest message was handled

vars == <<baseband_message, phase, pc, life, apptx, m4, m4irq, enabled, evt, handling, times>>

m0vars == <<phase, pc, life>>
m4vars == <<m4, m4irq, enabled, evt, handling>>

Init ==
    /\ baseband_message = Null
    /\ phase = "off"
    /\ pc = [t \in Threads |-> "idle"]
    /\ life = [w \in Workers |-> "none"]
    /\ apptx = FALSE
    /\ m4 = "halted" /\ m4irq = "none" /\ enabled = FALSE /\ evt = FALSE
    /\ handling = Null
    /\ times = [t \in Threads |-> 1]

-----------------------------------------------------------------------------
(* M0.  Strict priorities: the event-loop thread runs only while every     *)
(* worker sleeps, which a worker does between its messages.                *)
Runnable(t) ==
    t = Main => \A w \in Workers : pc[w] = "idle" /\ life[w] \notin {"start", "stop"}

SendSet(t, kind) ==
    /\ pc[t] = "idle"
    /\ Runnable(t)
    /\ baseband_message' = [from |-> t, kind |-> kind]
    /\ pc' = [pc EXCEPT ![t] = "set"]
    /\ times' = [times EXCEPT ![t] = 0]
    /\ UNCHANGED <<apptx, m4vars>>

SendAssert(t) ==
    /\ pc[t] = "set"
    /\ Runnable(t)
    /\ apptx' = TRUE
    /\ pc' = [pc EXCEPT ![t] = "spin"]
    /\ UNCHANGED <<baseband_message, phase, life, m4vars, times>>

(* Mutant of SendReturn: the spin loop is dropped.                         *)
SendReturn_unwaited(t) ==
    /\ pc[t] = "spin"
    /\ Runnable(t)
    /\ pc' = [pc EXCEPT ![t] = "idle"]
    /\ phase' = IF t = Main /\ phase = "stopping" THEN "off" ELSE phase
    /\ UNCHANGED <<baseband_message, life, apptx, m4vars, times>>

(* The spin loop reads null.  A shutdown() then also marks the image as    *)
(* not running.                                                            *)
SendReturn(t) ==
    /\ pc[t] = "spin"
    /\ Runnable(t)
    /\ baseband_message = Null
    /\ pc' = [pc EXCEPT ![t] = "idle"]
    /\ phase' = IF t = Main /\ phase = "stopping" THEN "off" ELSE phase
    /\ UNCHANGED <<baseband_message, life, apptx, m4vars, times>>

(* Any of the configuration calls an application makes while it runs.      *)
Configure ==
    /\ phase = "running"
    /\ SendSet(Main, "Data")
    /\ UNCHANGED <<phase, life>>

(* A CaptureThread or ReplayThread is created, ...                         *)
StartWorker(w) ==
    /\ pc[Main] = "idle" /\ Runnable(Main)
    /\ phase = "running"
    /\ life[w] = "none"
    /\ life' = [life EXCEPT ![w] = "start"]
    /\ UNCHANGED <<baseband_message, phase, pc, apptx, m4vars, times>>

(* ... sends its start message, possibly the prefilled message, and its    *)
(* stop message ...                                                        *)
WorkerSends(w, next) ==
    /\ <<life[w], next>> \in {<<"start", "active">>, <<"active", "fed">>,
                              <<"active", "stop">>, <<"fed", "stop">>}
    /\ SendSet(w, "Data")
    /\ life' = [life EXCEPT ![w] = next]
    /\ UNCHANGED phase

(* ... and ends, posting its Done message: MessageQueue::signal() rings    *)
(* the M4 although the local queue is the M0's own.                        *)
WorkerExit(w) ==
    /\ life[w] = "stop" /\ pc[w] = "idle"
    /\ life' = [life EXCEPT ![w] = "none"]
    /\ apptx' = TRUE
    /\ UNCHANGED <<baseband_message, phase, pc, m4vars, times>>

(* The event-loop thread posts to the local queue itself: same ring.       *)
LocalPush ==
    /\ pc[Main] = "idle" /\ Runnable(Main)
    /\ apptx' = TRUE
    /\ UNCHANGED <<baseband_message, m0vars, m4vars, times>>

(* shutdown(), by an application that has joined its worker.               *)
shutdown ==
    /\ phase = "running"
    /\ \A w \in Workers : life[w] = "none"
    /\ SendSet(Main, "Shutdown")
    /\ phase' = "stopping"
    /\ UNCHANGED life

(* m4_init() overwrites the code RAM and resets the M4.                    *)
m4_init ==
    /\ m4' = "boot" /\ m4irq' = "none" /\ enabled' = FALSE /\ evt' = FALSE
    /\ handling' = Null

(* run_image() panics while an image is marked as running.                 *)
run_image ==
    /\ phase = "off"
    /\ pc[Main] = "idle"
    /\ phase' = "running"
    /\ m4_init
    /\ UNCHANGED <<baseband_message, pc, life, apptx, times>>

-----------------------------------------------------------------------------
(* M4.                                                                     *)

(* EventDispatcher::run() begins: the loop's thread is known and the       *)
(* interrupt enabled.                                                      *)
Boot ==
    /\ m4 = "boot"
    /\ m4' = "wait"
    /\ enabled' = TRUE
    /\ UNCHANGED <<baseband_message, m0vars, apptx, m4irq, evt, handling, times>>

(* MAPP_IRQHandler preempts the thread: it flags the event, ...            *)
IrqFlag ==
    /\ apptx /\ enabled /\ m4irq = "none"
    /\ evt' = TRUE
    /\ m4irq' = "flagged"
    /\ UNCHANGED <<baseband_message, m0vars, apptx, m4, enabled, handling, times>>

(* ... then clears the line, and with it any ring since the flag.          *)
IrqClear ==
    /\ m4irq = "flagged"
    /\ apptx' = FALSE
    /\ m4irq' = "none"
    /\ UNCHANGED <<baseband_message, m0vars, m4, enabled, evt, handling, times>>

(* chEvtWaitAny() returns and takes the pending events.                    *)
Wait ==
    /\ m4 = "wait" /\ m4irq = "none"
    /\ evt
    /\ evt' = FALSE
    /\ m4' = "dispatch"
    /\ UNCHANGED <<baseband_message, m0vars, apptx, m4irq, enabled, handling, times>>

Handled(m) == times' = [times EXCEPT ![m.from] = IF @ = 2 THEN 2 ELSE @ + 1]

(* Mutant of HandleQueue: the pointer is nulled before the message is      *)
(* handled.                                                                *)
HandleQueue_early ==
    /\ m4 = "dispatch" /\ m4irq = "none"
    /\ \/ /\ baseband_message = Null
          /\ m4' = "wait"
          /\ UNCHANGED <<baseband_message, handling, times>>
       \/ /\ baseband_message # Null
          /\ baseband_message.kind = "Shutdown"
          /\ m4' = "stop"
          /\ Handled(baseband_message)
          /\ UNCHANGED <<baseband_message, handling>>
       \/ /\ baseband_message # Null
          /\ baseband_message.kind = "Data"
          /\ m4' = "handling"
          /\ handling' = baseband_message
          /\ baseband_message' = Null
          /\ UNCHANGED times
    /\ UNCHANGED <<m0vars, apptx, m4irq, enabled, evt>>

(* Mutant of HandleQueue: a Shutdown is nulled like every other message.   *)
HandleQueue_nulled ==
    /\ m4 = "dispatch" /\ m4irq = "none"
    /\ \/ /\ baseband_message = Null
          /\ m4' = "wait"
          /\ UNCHANGED <<baseband_message, handling, times>>
       \/ /\ baseband_message # Null
          /\ baseband_message.kind = "Shutdown"
          /\ m4' = "stop"
          /\ Handled(baseband_message)
          /\ baseband_message' = Null
          /\ UNCHANGED handling
       \/ /\ baseband_message # Null
          /\ baseband_message.kind = "Data"
          /\ m4' = "handling"
          /\ handling' = baseband_message
          /\ UNCHANGED <<baseband_message, times>>
    /\ UNCHANGED <<m0vars, apptx, m4irq, enabled, evt>>

(* handle_baseband_queue(): the pointer is read once.                      *)
HandleQueue ==
    /\ m4 = "dispatch" /\ m4irq = "none"
    /\ \/ /\ baseband_message = Null
          /\ m4' = "wait"
          /\ UNCHANGED <<handling, times>>
       \/ /\ baseband_message # Null
          /\ baseband_message.kind = "Shutdown"
          /\ m4' = "stop"
          /\ Handled(baseband_message)
          /\ UNCHANGED handling
       \/ /\ baseband_message # Null
          /\ baseband_message.kind = "Data"
          /\ m4' = "handling"
          /\ handling' = baseband_message
          /\ UNCHANGED times
    /\ UNCHANGED <<baseband_message, m0vars, apptx, m4irq, enabled, evt>>

(* Mutant of HandleEnd: the pointer is left set.                           *)
HandleEnd_unnulled ==
    /\ m4 = "handling" /\ m4irq = "none"
    /\ Handled(handling)
    /\ handling' = Null
    /\ m4' = "wait"
    /\ UNCHANGED <<baseband_message, m0vars, apptx, m4irq, enabled, evt>>

(* on_message_default() returns; the pointer is nulled whatever it holds.  *)
HandleEnd ==
    /\ m4 = "handling" /\ m4irq = "none"
    /\ Handled(handling)
    /\ baseband_message' = Null
    /\ handling' = Null
    /\ m4' = "wait"
    /\ UNCHANGED <<m0vars, apptx, m4irq, enabled, evt>>

(* The event loop ends: the interrupt is disabled, main() destroys the     *)
(* processor and returns into _default_exit().                             *)
Stop ==
    /\ m4 = "stop" /\ m4irq = "none"
    /\ m4' = "exit"
    /\ enabled' = FALSE
    /\ UNCHANGED <<baseband_message, m0vars, apptx, m4irq, evt, handling, times>>

(* Mutant of Release: the pointer is left set.                             *)
Release_unnulled ==
    /\ m4 = "exit"
    /\ m4' = "halting"
    /\ UNCHANGED <<baseband_message, m0vars, apptx, m4irq, enabled, evt, handling, times>>

(* _default_exit() lets shutdown() return, ...                             *)
Release ==
    /\ m4 = "exit"
    /\ baseband_message' = Null
    /\ m4' = "halting"
    /\ UNCHANGED <<m0vars, apptx, m4irq, enabled, evt, handling, times>>

(* ... then disables interrupts and sleeps for good.                       *)
Halt ==
    /\ m4 = "halting"
    /\ m4' = "halted"
    /\ UNCHANGED <<baseband_message, m0vars, apptx, m4irq, enabled, evt, handling, times>>

-----------------------------------------------------------------------------
M0Step ==
    \/ \E t \in Threads : SendAssert(t) \/ SendReturn(t)
    \/ Configure \/ LocalPush \/ shutdown \/ run_image
    \/ \E w \in Workers :
          \/ StartWorker(w)
          \/ \E next \in {"active", "fed", "stop"} : WorkerSends(w, next)
          \/ WorkerExit(w)

M4Step == Boot \/ IrqFlag \/ IrqClear \/ Wait \/ HandleQueue \/ HandleEnd
          \/ Stop \/ Release \/ Halt

Next == M0Step \/ M4Step

(* The M4 takes its interrupt, runs its thread and finishes each handler;  *)
(* an M0 thread inside send_message(), or a worker that is ready, runs     *)
(* whenever nothing of higher priority does.  Nobody has to send.          *)
Fairness ==
    /\ WF_vars(IrqFlag) /\ WF_vars(IrqClear)
    /\ WF_vars(Boot \/ Wait \/ HandleQueue \/ HandleEnd \/ Stop \/ Release)
    /\ \A t \in Threads : WF_vars(SendAssert(t)) /\ WF_vars(SendReturn(t))
    /\ \A w \in Workers : WF_vars(WorkerSends(w, "active")) /\ WF_vars(WorkerExit(w))

Spec == Init /\ [][Next]_vars
FairSpec == Spec /\ Fairness

-----------------------------------------------------------------------------
(* Type invariant of the mailbox, the M0 threads and the M4.               *)
TypeOK ==
    /\ baseband_message \in Message \cup {Null}
    /\ phase \in {"off", "running", "stopping"}
    /\ pc \in [Threads -> {"idle", "set", "spin"}]
    /\ life \in [Workers -> {"none", "start", "active", "fed", "stop"}]
    /\ apptx \in BOOLEAN
    /\ m4 \in {"halted", "boot", "wait", "dispatch", "handling", "stop", "exit", "halting"}
    /\ m4irq \in {"none", "flagged"}
    /\ enabled \in BOOLEAN
    /\ evt \in BOOLEAN
    /\ handling \in Message \cup {Null}
    /\ m4 = "handling" => handling \in Message
    /\ times \in [Threads -> 0 .. 2]

(* When send_message() has returned, the M4 has handled the message        *)
(* exactly once: a spurious event does not repeat it and no ring is lost.  *)
(* It holds as long as one thread sends; see README for two.               *)
HandledOnReturn == \A t \in Threads : pc[t] = "idle" => times[t] = 1

(* No message is handled twice, even when several threads send.            *)
AtMostOnce == \A t \in Threads : times[t] <= 1

(* A message lives on its sender's stack: while the M4 works on it, its    *)
(* sender is still inside send_message() and the mailbox is not empty,     *)
(* even when a second sender has overwritten it.                           *)
SenderWaits ==
    m4 = "handling" => /\ handling # Null
                       /\ pc[handling.from] # "idle"
                       /\ baseband_message # Null

(* Once shutdown() has returned the M4 has left the event loop for good:   *)
(* it will not touch the queue that shutdown() resets next.                *)
ShutdownStopsM4 == phase = "off" => m4 \in {"halting", "halted"} /\ ~enabled

(* The inductive invariant.  A message in the mailbox, and the one being   *)
(* handled, belong to threads still inside send_message(), which cannot    *)
(* leave while the mailbox is not empty.                                   *)
MailboxInv ==
    /\ baseband_message # Null =>
          /\ pc[baseband_message.from] # "idle"
          /\ times[baseband_message.from] = IF m4 \in {"stop", "exit"} THEN 1 ELSE 0
    /\ m4 = "handling" =>
          /\ baseband_message # Null
          /\ handling.from \in Threads
          /\ pc[handling.from] # "idle"
          /\ times[handling.from] = 0

(* The phases of an image: shutdown() is the only sender of its time, and  *)
(* it returns only after the M4 has left its event loop.                   *)
PhaseInv ==
    /\ phase = "running" => m4 \in {"boot", "wait", "dispatch", "handling"}
    /\ phase = "off" => m4 \in {"halting", "halted"} /\ pc[Main] = "idle"
    /\ phase = "stopping" =>
          /\ pc[Main] # "idle"
          /\ IF baseband_message = Null
             THEN m4 \in {"halting", "halted"}
             ELSE m4 \in {"boot", "wait", "dispatch", "stop", "exit"}
    /\ baseband_message # Null => 
          (baseband_message.kind = "Shutdown" <=> phase = "stopping")
    /\ enabled => m4 \in {"wait", "dispatch", "handling", "stop"}

WorkerInv ==
    \A w \in Workers :
        /\ life[w] \in {"none", "start"} => pc[w] = "idle"
        /\ phase # "running" => life[w] = "none"

IInv == TypeOK /\ MailboxInv /\ PhaseInv /\ WorkerInv /\ AtMostOnce

(* With a single sender, also: an idle sender's message has been handled,  *)
(* and an emptied mailbox means it has.                                    *)
OneSenderInv ==
    Workers = {} => (pc[Main] = "idle" \/ baseband_message = Null => times[Main] = 1)

(* A thread that spins in send_message() gets out: the ring that the       *)
(* interrupt handler may wipe between flagging and clearing is never the   *)
(* one that mattered, and an overwritten mailbox is still emptied.         *)
SendReturns == \A t \in Threads : pc[t] = "spin" ~> pc[t] = "idle"

(* "M4 core is assumed to be sleeping with interrupts off, so we can mess  *)
(* with its address space and RAM without concern" (core_control.cpp).     *)
ReloadsSleepingM4 == [][m4' = "boot" /\ m4 # "boot" => m4 = "halted"]_vars

(* "If message is only sent by this function via one thread, no need to    *)
(* check if another message is present" (baseband_api.cpp): a message is   *)
(* stored only into an empty mailbox.                                      *)
NeverOverwrites ==
    [][baseband_message' \notin {baseband_message, Null} => baseband_message = Null]_vars
=============================================================================
