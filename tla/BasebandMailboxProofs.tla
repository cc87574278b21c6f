----------------------- MODULE BasebandMailboxProofs -----------------------
(***************************************************************************)
(* Safety of the mailbox for any set of sending threads, and what one      *)
(* sender gets from it.                                                    *)
(***************************************************************************)
EXTENDS BasebandMailbox, TLAPS

(* The mailbox protocol starts in its inductive invariant.                 *)
LEMMA InitInv == Init => IInv /\ OneSenderInv
<1> SUFFICES ASSUME Init PROVE IInv /\ OneSenderInv OBVIOUS
<1> USE DEF Init
<1>1. TypeOK
  <2>1. baseband_message \in Message \cup {Null} /\ handling \in Message \cup {Null} OBVIOUS
  <2>2. pc \in [Threads -> {"idle", "set", "spin"}] /\ times \in [Threads -> 0 .. 2] OBVIOUS
  <2>3. life \in [Workers -> {"none", "start", "active", "fed", "stop"}] OBVIOUS
  <2>4. apptx \in BOOLEAN /\ enabled \in BOOLEAN /\ evt \in BOOLEAN OBVIOUS
  <2> QED BY <2>1, <2>2, <2>3, <2>4 DEF TypeOK
<1>2. MailboxInv BY DEF MailboxInv
<1>3. Main \in Threads /\ Workers \subseteq Threads BY DEF Threads
<1>4. PhaseInv BY <1>3 DEF PhaseInv
<1>5. WorkerInv BY <1>3 DEF WorkerInv
<1>6. AtMostOnce BY DEF AtMostOnce
<1>7. OneSenderInv BY <1>3 DEF OneSenderInv
<1> QED BY <1>1, <1>2, <1>4, <1>5, <1>6, <1>7 DEF IInv

(* Every step keeps the types; HandleEnd needs that what is handled is a   *)
(* message.                                                                *)
LEMMA TypeStep == ASSUME TypeOK, [Next]_vars PROVE TypeOK'
<1> USE DEF TypeOK, Threads, Message
<1>1. ASSUME NEW t \in Threads, SendAssert(t) PROVE TypeOK'
  BY <1>1 DEF SendAssert, m4vars
<1>2. ASSUME NEW t \in Threads, SendReturn(t) PROVE TypeOK'
  BY <1>2 DEF SendReturn, m4vars
<1>3. CASE Configure BY <1>3 DEF Configure, SendSet, m4vars
<1>4. CASE LocalPush BY <1>4 DEF LocalPush, m0vars, m4vars
<1>5. CASE shutdown BY <1>5 DEF shutdown, SendSet, m4vars
<1>6. CASE run_image BY <1>6 DEF run_image, m4_init
<1>7. ASSUME NEW w \in Workers, StartWorker(w) PROVE TypeOK'
  BY <1>7 DEF StartWorker, m4vars
<1>8. ASSUME NEW w \in Workers, NEW next \in {"active", "fed", "stop"}, WorkerSends(w, next)
      PROVE TypeOK'
  BY <1>8 DEF WorkerSends, SendSet, m4vars
<1>9. ASSUME NEW w \in Workers, WorkerExit(w) PROVE TypeOK'
  BY <1>9 DEF WorkerExit, m4vars
<1>10. CASE Boot BY <1>10 DEF Boot, m0vars
<1>11. CASE IrqFlag BY <1>11 DEF IrqFlag, m0vars
<1>12. CASE IrqClear
  <2>1. apptx' \in BOOLEAN /\ m4irq' = "none" BY <1>12 DEF IrqClear
  <2> QED BY <1>12, <2>1 DEF IrqClear, m0vars
<1>13. CASE Wait BY <1>13 DEF Wait, m0vars
<1>14. CASE HandleQueue BY <1>14 DEF HandleQueue, Handled, m0vars
<1>15. CASE HandleEnd BY <1>15 DEF HandleEnd, Handled, m0vars
<1>16. CASE Stop BY <1>16 DEF Stop, m0vars
<1>17. CASE Release BY <1>17 DEF Release, m0vars
<1>18. CASE Halt BY <1>18 DEF Halt, m0vars
<1>19. CASE UNCHANGED vars BY <1>19 DEF vars
<1> QED BY <1>1, <1>2, <1>3, <1>4, <1>5, <1>6, <1>7, <1>8, <1>9, <1>10, <1>11, <1>12,
           <1>13, <1>14, <1>15, <1>16, <1>17, <1>18, <1>19 DEF Next, M0Step, M4Step

(* Every step keeps the inductive invariant, for any set of workers: the   *)
(* mailbox is emptied only by HandleEnd and by Release, and a sender       *)
(* leaves only when it is empty.                                           *)
LEMMA InvStep == IInv /\ [Next]_vars => IInv'
<1> SUFFICES ASSUME IInv, [Next]_vars PROVE IInv' OBVIOUS
<1>0. TypeOK /\ TypeOK' BY TypeStep DEF IInv
<1> USE MailboxAssumption, NullAssumption DEF Threads, Message
<1>1. ASSUME NEW t \in Threads, SendAssert(t) PROVE IInv'
  BY <1>0, <1>1 DEF SendAssert, m4vars, IInv, TypeOK, MailboxInv, PhaseInv, WorkerInv, AtMostOnce
<1>2. ASSUME NEW t \in Threads, SendReturn(t) PROVE IInv'
  BY <1>0, <1>2 DEF SendReturn, m4vars, IInv, TypeOK, MailboxInv, PhaseInv, WorkerInv, AtMostOnce
<1>3. CASE Configure
  BY <1>0, <1>3 DEF Configure, SendSet, m4vars, IInv, TypeOK, MailboxInv, PhaseInv, WorkerInv, AtMostOnce
<1>4. CASE LocalPush
  BY <1>0, <1>4 DEF LocalPush, m0vars, m4vars, IInv, MailboxInv, PhaseInv, WorkerInv, AtMostOnce
<1>5. CASE shutdown
  BY <1>0, <1>5 DEF shutdown, SendSet, m4vars, IInv, TypeOK, MailboxInv, PhaseInv, WorkerInv, AtMostOnce
<1>6. CASE run_image
  BY <1>0, <1>6 DEF run_image, m4_init, IInv, TypeOK, MailboxInv, PhaseInv, WorkerInv, AtMostOnce
<1>7. ASSUME NEW w \in Workers, StartWorker(w) PROVE IInv'
  BY <1>0, <1>7 DEF StartWorker, m4vars, IInv, TypeOK, MailboxInv, PhaseInv, WorkerInv, AtMostOnce
<1>8. ASSUME NEW w \in Workers, NEW next \in {"active", "fed", "stop"}, WorkerSends(w, next)
      PROVE IInv'
  BY <1>0, <1>8 DEF WorkerSends, SendSet, m4vars, IInv, TypeOK, MailboxInv, PhaseInv, WorkerInv, AtMostOnce
<1>9. ASSUME NEW w \in Workers, WorkerExit(w) PROVE IInv'
  BY <1>0, <1>9 DEF WorkerExit, m4vars, IInv, TypeOK, MailboxInv, PhaseInv, WorkerInv, AtMostOnce
<1>10. CASE Boot
  BY <1>0, <1>10 DEF Boot, m0vars, IInv, MailboxInv, PhaseInv, WorkerInv, AtMostOnce
<1>11. CASE IrqFlag
  BY <1>0, <1>11 DEF IrqFlag, m0vars, IInv, MailboxInv, PhaseInv, WorkerInv, AtMostOnce
<1>12. CASE IrqClear
  BY <1>0, <1>12 DEF IrqClear, m0vars, IInv, MailboxInv, PhaseInv, WorkerInv, AtMostOnce
<1>13. CASE Wait
  BY <1>0, <1>13 DEF Wait, m0vars, IInv, MailboxInv, PhaseInv, WorkerInv, AtMostOnce
<1>14. CASE HandleQueue
  BY <1>0, <1>14 DEF HandleQueue, Handled, m0vars, IInv, TypeOK, MailboxInv, PhaseInv, WorkerInv, AtMostOnce
<1>15. CASE HandleEnd
  BY <1>0, <1>15 DEF HandleEnd, Handled, m0vars, IInv, TypeOK, MailboxInv, PhaseInv, WorkerInv, AtMostOnce
<1>16. CASE Stop
  BY <1>0, <1>16 DEF Stop, m0vars, IInv, MailboxInv, PhaseInv, WorkerInv, AtMostOnce
<1>17. CASE Release
  BY <1>0, <1>17 DEF Release, m0vars, IInv, MailboxInv, PhaseInv, WorkerInv, AtMostOnce
<1>18. CASE Halt
  BY <1>0, <1>18 DEF Halt, m0vars, IInv, MailboxInv, PhaseInv, WorkerInv, AtMostOnce
<1>19. CASE UNCHANGED vars
  BY <1>0, <1>19 DEF vars, IInv, MailboxInv, PhaseInv, WorkerInv, AtMostOnce
<1> QED BY <1>1, <1>2, <1>3, <1>4, <1>5, <1>6, <1>7, <1>8, <1>9, <1>10, <1>11, <1>12,
           <1>13, <1>14, <1>15, <1>16, <1>17, <1>18, <1>19 DEF Next, M0Step, M4Step

(* The type invariant of the mailbox protocol.                             *)
THEOREM TypeCorrect == Spec => []TypeOK
<1>1. IInv => TypeOK BY DEF IInv
<1> QED BY InitInv, InvStep, <1>1, PTL DEF Spec

(* The inductive invariant of the mailbox protocol.                        *)
THEOREM Invariance == Spec => []IInv
  BY InitInv, InvStep, PTL DEF Spec

(* No message is handled twice, for any number of senders.                 *)
THEOREM HandledAtMostOnce == Spec => []AtMostOnce
<1>1. IInv => AtMostOnce BY DEF IInv
<1> QED BY <1>1, Invariance, PTL

(* The message being handled belongs to a thread that is still inside      *)
(* send_message(), for any number of senders.                              *)
THEOREM MessageOutlivesHandler == Spec => []SenderWaits
<1>1. IInv => SenderWaits
  BY NullAssumption DEF IInv, TypeOK, MailboxInv, SenderWaits
<1> QED BY <1>1, Invariance, PTL

(* When shutdown() has returned the M4 has left its event loop.            *)
THEOREM ShutdownStops == Spec => []ShutdownStopsM4
<1>1. IInv => ShutdownStopsM4
  BY DEF IInv, TypeOK, PhaseInv, ShutdownStopsM4
<1> QED BY <1>1, Invariance, PTL

(* One sender's step keeps OneSenderInv: only HandleEnd and Release empty  *)
(* the mailbox, and both follow the handling of the sender's message.      *)
LEMMA OneSenderStep == IInv /\ IInv' /\ OneSenderInv /\ [Next]_vars => OneSenderInv'
<1> SUFFICES ASSUME IInv, IInv', OneSenderInv, [Next]_vars, Workers = {}
             PROVE (pc[Main] = "idle" \/ baseband_message = Null => times[Main] = 1)'
  BY DEF OneSenderInv
<1> USE MailboxAssumption, NullAssumption DEF Threads, Message
<1>0. TypeOK /\ (pc[Main] = "idle" \/ baseband_message = Null => times[Main] = 1)
  BY DEF IInv, OneSenderInv
<1> DEFINE Goal == pc[Main] = "idle" \/ baseband_message = Null => times[Main] = 1
<1>1. ASSUME NEW t \in Threads, SendAssert(t) PROVE Goal'
  BY <1>0, <1>1 DEF SendAssert, m4vars, IInv, TypeOK, MailboxInv, PhaseInv
<1>2. ASSUME NEW t \in Threads, SendReturn(t) PROVE Goal'
  BY <1>0, <1>2 DEF SendReturn, m4vars, IInv, TypeOK, MailboxInv, PhaseInv
<1>3. CASE Configure
  BY <1>0, <1>3 DEF Configure, SendSet, m4vars, IInv, TypeOK, MailboxInv, PhaseInv
<1>4. CASE LocalPush
  BY <1>0, <1>4 DEF LocalPush, m0vars, m4vars, IInv, TypeOK, MailboxInv, PhaseInv
<1>5. CASE shutdown
  BY <1>0, <1>5 DEF shutdown, SendSet, m4vars, IInv, TypeOK, MailboxInv, PhaseInv
<1>6. CASE run_image
  BY <1>0, <1>6 DEF run_image, m4_init, IInv, TypeOK, MailboxInv, PhaseInv
<1>7. CASE Boot
  BY <1>0, <1>7 DEF Boot, m0vars, IInv, TypeOK, MailboxInv, PhaseInv
<1>8. CASE IrqFlag
  BY <1>0, <1>8 DEF IrqFlag, m0vars, IInv, TypeOK, MailboxInv, PhaseInv
<1>9. CASE IrqClear
  BY <1>0, <1>9 DEF IrqClear, m0vars, IInv, TypeOK, MailboxInv, PhaseInv
<1>10. CASE Wait
  BY <1>0, <1>10 DEF Wait, m0vars, IInv, TypeOK, MailboxInv, PhaseInv
<1>11. CASE HandleQueue
  BY <1>0, <1>11 DEF HandleQueue, Handled, m0vars, IInv, TypeOK, MailboxInv, PhaseInv
<1>12. CASE HandleEnd
  BY <1>0, <1>12 DEF HandleEnd, Handled, m0vars, IInv, TypeOK, MailboxInv, PhaseInv
<1>13. CASE Stop
  BY <1>0, <1>13 DEF Stop, m0vars, IInv, TypeOK, MailboxInv, PhaseInv
<1>14. CASE Release
  BY <1>0, <1>14 DEF Release, m0vars, IInv, TypeOK, MailboxInv, PhaseInv
<1>15. CASE Halt
  BY <1>0, <1>15 DEF Halt, m0vars, IInv, TypeOK, MailboxInv, PhaseInv
<1>16. CASE UNCHANGED vars
  BY <1>0, <1>16 DEF vars, IInv, TypeOK, MailboxInv, PhaseInv
<1> QED BY <1>1, <1>2, <1>3, <1>4, <1>5, <1>6, <1>7, <1>8, <1>9, <1>10, <1>11, <1>12, <1>13, <1>14, <1>15, <1>16
        DEF Next, M0Step, M4Step

(* With one sender, send_message() returns with the message handled        *)
(* exactly once.                                                           *)
THEOREM HandledExactlyOnce == ASSUME Workers = {} PROVE Spec => []HandledOnReturn
<1>1. IInv /\ OneSenderInv => HandledOnReturn
  BY DEF OneSenderInv, HandledOnReturn, Threads
<1>2. IInv /\ OneSenderInv /\ [Next]_vars => IInv' /\ OneSenderInv'
  BY InvStep, OneSenderStep
<1> QED BY InitInv, <1>1, <1>2, PTL DEF Spec
=============================================================================
