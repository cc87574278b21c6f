----------------------------- MODULE BasebandDma -----------------------------
(***************************************************************************)
(* The M4's baseband thread and the DMA that feeds it.                     *)
(*                                                                         *)
(* The DMA fills (or, transmitting, empties) the quarters of one buffer in *)
(* a circle without ever waiting (baseband/baseband_dma.cpp).  Its         *)
(* interrupt (common/gpdma.cpp) wakes the thread, if it waits              *)
(* (common/thread_wait.cpp), and tells it where the DMA is; the thread     *)
(* processes the quarter completed last (baseband/baseband_thread.cpp).    *)
(* The M4's main thread, of the lowest priority, creates the processor,    *)
(* the baseband thread as its first member, and destroys it at the end of  *)
(* the image (baseband/event_m4.cpp, proc_*.cpp).                          *)
(*                                                                         *)
(* The RSSI thread has the same structure (rssi_dma.cpp, rssi_thread.cpp). *)
(***************************************************************************)
EXTENDS Naturals

CONSTANT N          \* transfers_per_buffer

ASSUME DmaAssumption == N \in Nat /\ N >= 2

VARIABLES
    dma,        \* the channel is enabled
    cur,        \* the transfer it is in
    irq,        \* interrupts pending: terminal count, error
    failed,     \* the channel has stopped with an error in this image
    isr,        \* the interrupts DMA_IRQHandler is handling
    thread,     \* where the baseband thread is; "wait" if thread_to_wake is set
    result,     \* the index sleep() returns, N for -1
    buffer,     \* the transfer that is processed
    terminate,  \* chThdTerminate() has been called on the thread
    proc,       \* the life of the processor object
    late        \* history: transfers completed since the thread was told, up to N

dmavars == <<dma, cur, irq, failed>>
threadvars == <<thread, result, buffer>>
vars == <<dmavars, isr, threadvars, terminate, proc, late>>

Init ==
    /\ dma = FALSE /\ cur = 0 /\ irq = {} /\ failed = FALSE /\ isr = {}
    /\ thread = "none" /\ result = N /\ buffer = 0 /\ terminate = FALSE
    /\ proc = "none" /\ late = 0

-----------------------------------------------------------------------------
(* lli_loop is circular: (i + 1) % N, and one back with the mask.          *)
Succ(i) == IF i = N - 1 THEN 0 ELSE i + 1
Pred(i) == IF i = 0 THEN N - 1 ELSE i - 1

(* Mutant of Complete: the last item of the list does not point to the     *)
(* first.                                                                  *)
Complete_open ==
    /\ dma
    /\ cur' = IF cur = N - 1 THEN cur ELSE cur + 1
    /\ dma' = (cur # N - 1)
    /\ irq' = irq \cup {"tc"}
    /\ late' = IF late < N THEN late + 1 ELSE late
    /\ UNCHANGED <<failed, isr, threadvars, terminate, proc>>

(* The hardware: a transfer is complete, the next one begins.              *)
Complete ==
    /\ dma
    /\ cur' = Succ(cur)
    /\ irq' = irq \cup {"tc"}
    /\ late' = IF late < N THEN late + 1 ELSE late
    /\ UNCHANGED <<dma, failed, isr, threadvars, terminate, proc>>

(* The hardware: an error, the channel is disabled.                        *)
Fail ==
    /\ dma
    /\ dma' = FALSE /\ failed' = TRUE
    /\ irq' = irq \cup {"err"}
    /\ UNCHANGED <<cur, isr, threadvars, terminate, proc, late>>

(* wake_from_interrupt(): only a thread that waits is told.                *)
wake(value) ==
    /\ thread' = IF thread = "wait" THEN "woken" ELSE thread
    /\ result' = IF thread = "wait" THEN value ELSE result
    /\ late' = IF thread = "wait" THEN 0 ELSE late

(* Mutant of IsrWake: the transfer after the one in progress is not meant. *)
IsrWake_current ==
    /\ irq # {} /\ isr = {}
    /\ isr' = irq
    /\ wake(IF "tc" \in irq THEN cur ELSE N)
    /\ UNCHANGED <<dmavars, buffer, terminate, proc>>

(* DMA_IRQHandler: transfer_complete() passes next_lli(), the transfer     *)
(* after the one in progress; then dma_error() passes -1, to a thread that *)
(* still waits; ...                                                        *)
IsrWake ==
    /\ irq # {} /\ isr = {}
    /\ isr' = irq
    /\ wake(IF "tc" \in irq THEN Succ(cur) ELSE N)
    /\ UNCHANGED <<dmavars, buffer, terminate, proc>>

(* ... the interrupts are cleared, with a completion that came meanwhile.  *)
IsrClear ==
    /\ isr # {}
    /\ isr' = {}
    /\ irq' = irq \ isr
    /\ UNCHANGED <<dma, cur, failed, threadvars, terminate, proc, late>>

-----------------------------------------------------------------------------
(* The baseband thread, of the highest priority of all threads.            *)
ThreadAt(from, to) ==
    /\ thread = from /\ isr = {} /\ irq = {}
    /\ thread' = to

(* run(): dma::configure(), dma::enable()                                  *)
Enable ==
    /\ ThreadAt("init", "loop")
    /\ dma' = TRUE /\ cur' = 0
    /\ UNCHANGED <<irq, failed, isr, result, buffer, terminate, proc, late>>

(* The terminate flag is looked at between two transfers; sleep() sets     *)
(* thread_to_wake and suspends the thread with interrupts locked.          *)
Loop ==
    /\ ThreadAt("loop", IF terminate THEN "leave" ELSE "wait")
    /\ UNCHANGED <<dmavars, isr, result, buffer, terminate, proc, late>>

(* Mutant of Get: the transfer in progress is taken.                       *)
Get_early ==
    /\ result < N
    /\ ThreadAt("woken", "execute")
    /\ buffer' = Pred(result)
    /\ UNCHANGED <<dmavars, isr, result, terminate, proc, late>>

(* wait_for_buffer(): two before the index told; no buffer after an error. *)
Get ==
    /\ \/ /\ result < N
          /\ ThreadAt("woken", "execute")
          /\ buffer' = Pred(Pred(result))
       \/ /\ result = N
          /\ ThreadAt("woken", "loop")
          /\ UNCHANGED buffer
    /\ UNCHANGED <<dmavars, isr, result, terminate, proc, late>>

(* baseband_processor->execute(buffer) returns.                            *)
Execute ==
    /\ ThreadAt("execute", "loop")
    /\ UNCHANGED <<dmavars, isr, result, buffer, terminate, proc, late>>

(* dma::disable(), and the thread ends.                                    *)
Leave ==
    /\ ThreadAt("leave", "ended")
    /\ dma' = FALSE
    /\ UNCHANGED <<cur, irq, failed, isr, result, buffer, terminate, proc, late>>

-----------------------------------------------------------------------------
(* The M4's main thread, when nothing else wants the CPU.                  *)
MainAt(from, to) ==
    /\ thread \in {"none", "wait", "ended"} /\ isr = {} /\ irq = {}
    /\ proc = from
    /\ proc' = to

(* A new image: the processor's first member is the BasebandThread.        *)
Create ==
    /\ MainAt("none", "constructing") \/ MainAt("freed", "constructing")
    /\ thread' = "init"
    /\ terminate' = FALSE /\ failed' = FALSE
    /\ late' = 0
    /\ UNCHANGED <<dma, cur, irq, isr, result, buffer>>

(* The other members are constructed; or, when the event loop has ended,   *)
(* destroyed, before ~BasebandThread() ...                                 *)
Members ==
    /\ \/ MainAt("constructing", "running")
       \/ MainAt("running", "destroying")
    /\ UNCHANGED <<dmavars, isr, threadvars, terminate, late>>

Terminate ==
    /\ MainAt("destroying", "join")
    /\ terminate' = TRUE
    /\ UNCHANGED <<dmavars, isr, threadvars, late>>

(* Mutant of Join: chThdWait() is left out.                                *)
Join_unwaited ==
    /\ MainAt("join", "freed")
    /\ UNCHANGED <<dmavars, isr, threadvars, terminate, late>>

(* ... has waited for the thread; then the processor's memory is freed.    *)
Join ==
    /\ thread = "ended"
    /\ MainAt("join", "freed")
    /\ UNCHANGED <<dmavars, isr, threadvars, terminate, late>>

-----------------------------------------------------------------------------
Isr == IsrWake \/ IsrClear
Thread == Enable \/ Loop \/ Get \/ Execute \/ Leave
Main == Create \/ Members \/ Terminate \/ Join
Next == Complete \/ Fail \/ Isr \/ Thread \/ Main

(* Transfers go on while the channel is enabled; interrupts are short, and *)
(* leave time for the threads.                                             *)
Fairness ==
    /\ WF_vars(Complete) /\ WF_vars(Isr)
    /\ SF_vars(Thread) /\ SF_vars(Join)

Spec == Init /\ [][Next]_vars
FairSpec == Spec /\ Fairness

-----------------------------------------------------------------------------
(* Type invariant; an index told to the thread is one of the list.         *)
TypeOK ==
    /\ dma \in BOOLEAN /\ cur \in 0 .. N - 1 /\ irq \subseteq {"tc", "err"} /\ failed \in BOOLEAN
    /\ isr \subseteq {"tc", "err"}
    /\ thread \in {"none", "init", "loop", "wait", "woken", "execute", "leave", "ended"}
    /\ result \in 0 .. N /\ buffer \in 0 .. N - 1
    /\ terminate \in BOOLEAN
    /\ proc \in {"none", "constructing", "running", "destroying", "join", "freed"}
    /\ late \in 0 .. N

(* How far, in transfers, the DMA is ahead of transfer i.                  *)
Ahead(i) == IF cur >= i THEN cur - i ELSE cur + N - i

(* Until N - 1 transfers have been completed since the thread was told,    *)
(* the DMA is exactly one more than those ahead of the thread's.           *)
LateInv ==
    /\ thread = "woken" /\ result < N /\ late <= N - 2 =>
          Ahead(Pred(Pred(result))) = late + 1
    /\ thread = "execute" /\ late <= N - 2 => Ahead(buffer) = late + 1

(* The thread exists exactly while the processor does, and the channel is  *)
(* enabled only while the thread runs.                                     *)
LifeInv ==
    /\ thread = "none" <=> proc = "none"
    /\ thread \in {"leave", "ended"} => terminate
    /\ proc = "freed" => thread = "ended"
    /\ thread \in {"none", "init", "ended"} => ~dma
    /\ terminate <=> proc \in {"join", "freed"}

IInv == TypeOK /\ LateInv /\ LifeInv

(* The thread never works on the transfer the DMA is in, as long as it is  *)
(* done with one before the DMA has completed N - 1 more; being told late, *)
(* and completions nobody waited for, do not change that.                  *)
NotWhileWritten == thread = "execute" /\ late <= N - 2 => buffer # cur

(* execute() is never called on a processor that has been freed.  (It is   *)
(* called before all its members are constructed, and after some of them   *)
(* are destroyed: the thread is the first member of every processor.)      *)
OnLiveProcessor == thread \in {"woken", "execute"} => proc \notin {"none", "freed"}

(* The processor is destroyed, and shutdown() of the M0 returns, unless    *)
(* the DMA has failed: then nobody wakes the thread any more.              *)
JoinReturns == proc = "join" ~> proc = "freed" \/ failed
=============================================================================
