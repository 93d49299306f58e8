---------------------------- MODULE ReactorProofs ----------------------------
(***************************************************************************)
(* Proofs about Reactor, for any number of RX threads and handlers, any    *)
(* queue bound and any stream of frames and stop requests.                 *)
(***************************************************************************)
EXTENDS Reactor, SequenceTheorems, TLAPS

(***************************************************************************)
(* The inductive invariant                                                 *)
(***************************************************************************)

(* Between finding the queue empty and reading the eventfd, a CRITICAL     *)
(* frame that was queued since has been or is about to be signalled: the   *)
(* read cannot have swallowed its signal.                                  *)
FrameSignalled ==
  rpc \in {"background", "wait", "read"} /\ CriticalQueued
    => wakeup_fd_ > 0 \/ \E p \in RxThreads : rx[p] = "signal"

(* Between testing running_ and reading the eventfd, the same holds for a  *)
(* stop request.                                                           *)
StopSignalled ==
  rpc \in {"drain", "background", "wait", "read"} /\ ~running_
    => wakeup_fd_ > 0 \/ spc = "write"

(* The one-shot poll is outstanding or has completed whenever the loop is  *)
(* not between consuming a completion and re-arming, unless arming failed. *)
PollAlive ==
  sqFull \/ /\ rpc \in {"check", "drain", "background", "wait"} => armed \/ cqe
            /\ rpc \in {"read", "seen"} => cqe

IInv == TypeOK /\ FrameSignalled /\ StopSignalled /\ PollAlive

(***************************************************************************)
(* Sequences of frames                                                     *)
(***************************************************************************)
HasCritical(q) == \E i \in 1 .. Len(q) : q[i].handler \in Critical

(* Appending a frame that is not CRITICAL adds no CRITICAL frame. *)
LEMMA AppendOther ==
  ASSUME NEW q \in Seq(Frame), NEW f \in Frame, f.handler \notin Critical
  PROVE  HasCritical(Append(q, f)) => HasCritical(q)
  BY DEF HasCritical

(* A newly constructed reactor satisfies the invariant. *)
LEMMA InitInv == Init => IInv
  <1> SUFFICES ASSUME Init PROVE IInv
    OBVIOUS
  <1>1. TypeOK
    <2>1. 0 \in 0 .. EventfdMax /\ 0 <= QueueBound
      BY BoundAssumption, EventfdAssumption
    <2>2. critical_queue_ \in Seq(Frame) /\ Len(critical_queue_) = 0
      BY DEF Init
    <2>. QED
      BY <2>1, <2>2 DEF Init, TypeOK
  <1>2. FrameSignalled /\ StopSignalled /\ PollAlive
    BY DEF Init, FrameSignalled, StopSignalled, PollAlive
  <1>. QED
    BY <1>1, <1>2 DEF IInv

(* Every step preserves the types. *)
LEMMA NextType == TypeOK /\ [Next]_vars => TypeOK'
  <1> SUFFICES ASSUME TypeOK, [Next]_vars PROVE TypeOK'
    OBVIOUS
  <1> USE DEF TypeOK
  <1>1. ASSUME NEW p \in RxThreads, PushNormal(p) PROVE TypeOK'
    <2>1. /\ critical_queue_' \in Seq(Frame)
          /\ Len(critical_queue_') <= QueueBound
      BY <1>1, AppendProperties, BoundAssumption DEF PushNormal
    <2>. QED
      BY <1>1, <2>1 DEF PushNormal, Receive, pollVars, loopVars
  <1>2. ASSUME NEW p \in RxThreads, PushCritical(p) PROVE TypeOK'
    <2>1. /\ critical_queue_' \in Seq(Frame)
          /\ Len(critical_queue_') <= QueueBound
      BY <1>2, AppendProperties, BoundAssumption DEF PushCritical
    <2>. QED
      BY <1>2, <2>1 DEF PushCritical, Receive, pollVars, loopVars
  <1>3. ASSUME NEW p \in RxThreads, PushFails(p) PROVE TypeOK'
    BY <1>3 DEF PushFails, Receive, pollVars, queueVars, loopVars
  <1>4. ASSUME NEW p \in RxThreads, Put(p) PROVE TypeOK'
    BY <1>4 DEF Put, Receive, pollVars, loopVars
  <1>5. ASSUME NEW p \in RxThreads, Signal(p) PROVE TypeOK'
    BY <1>5, EventfdAssumption DEF Signal, WriteEventfd, queueVars, loopVars
  <1>6. ASSUME PollComplete PROVE TypeOK'
    BY <1>6 DEF PollComplete, queueVars, loopVars
  <1>7. ASSUME RunStart PROVE TypeOK'
    BY <1>7 DEF RunStart, Goto, queueVars, pollVars, InLoop
  <1>8. ASSUME SubscribeEnd PROVE TypeOK'
    BY <1>8
    DEF SubscribeEnd, Proceed, Goto, queueVars, pollVars, InLoop
  <1>9. ASSUME arm_poll_eventfd PROVE TypeOK'
    BY <1>9 DEF arm_poll_eventfd, Goto, queueVars, InLoop
  <1>10. ASSUME LoopEnter PROVE TypeOK'
    BY <1>10 DEF LoopEnter, Proceed, Goto, queueVars, pollVars, InLoop
  <1>11. ASSUME LoopExit PROVE TypeOK'
    BY <1>11 DEF LoopExit, Proceed, Goto, queueVars, pollVars, InLoop
  <1>12. ASSUME Dispatch PROVE TypeOK'
    <2>1. /\ critical_queue_' \in Seq(Frame)
          /\ Len(critical_queue_') <= QueueBound
      BY <1>12, HeadTailProperties, BoundAssumption DEF Dispatch
    <2>. QED
      BY <1>12, <2>1 DEF Dispatch, Goto, pollVars
  <1>13. ASSUME DispatchEnd PROVE TypeOK'
    BY <1>13
    DEF DispatchEnd, Goto, queueVars, pollVars, InLoop,
        Handlers
  <1>14. ASSUME DrainEnd PROVE TypeOK'
    BY <1>14 DEF DrainEnd, Proceed, Goto, queueVars, pollVars, InLoop
  <1>15. ASSUME WaitReturns PROVE TypeOK'
    BY <1>15
    DEF WaitReturns, Proceed, Goto, queueVars, pollVars, InLoop
  <1>16. ASSUME Timeout PROVE TypeOK'
    BY <1>16 DEF Timeout, Proceed, Goto, queueVars, pollVars, InLoop
  <1>17. ASSUME ReadEventfd PROVE TypeOK'
    BY <1>17, EventfdAssumption DEF ReadEventfd, Goto, queueVars, InLoop
  <1>18. ASSUME CqeSeen PROVE TypeOK'
    BY <1>18 DEF CqeSeen, Goto, queueVars, InLoop
  <1>19. ASSUME StopStore PROVE TypeOK'
    BY <1>19 DEF StopStore, queueVars, pollVars, loopVars
  <1>20. ASSUME StopWrite PROVE TypeOK'
    BY <1>20, EventfdAssumption DEF StopWrite, WriteEventfd, queueVars, loopVars
  <1>21. ASSUME NEW h \in Handlers, Subscribe(h) PROVE TypeOK'
    BY <1>21 DEF Subscribe, Goto, queueVars, pollVars, InLoop
  <1>22. ASSUME NEW h \in Background, DrainSlot(h) PROVE TypeOK'
    BY <1>22 DEF DrainSlot, Goto, pollVars, InLoop
  <1>23. CASE UNCHANGED vars
    BY <1>23 DEF vars, queueVars, pollVars, loopVars
  <1>. QED
    BY <1>1, <1>2, <1>3, <1>4, <1>5, <1>6, <1>7, <1>8, <1>9, <1>10,
       <1>11, <1>12, <1>13, <1>14, <1>15, <1>16, <1>17, <1>18, <1>19, <1>20,
       <1>21, <1>22, <1>23
    DEF Next, zenoh_data_callback, Loop, RunSetup, handle_events

(* Every step preserves the invariant. *)
LEMMA NextInv == IInv /\ [Next]_vars => IInv'
  <1> SUFFICES ASSUME IInv, [Next]_vars
               PROVE  FrameSignalled' /\ StopSignalled' /\ PollAlive'
    BY NextType DEF IInv
  <1> DEFINE Wakeup == FrameSignalled /\ StopSignalled /\ PollAlive
  <1> USE DEF IInv
  <1>1. ASSUME NEW p \in RxThreads, PushNormal(p) PROVE Wakeup'
    <2>1. PICK f \in Frame : /\ f.handler \in Normal
                             /\ critical_queue_' = Append(critical_queue_, f)
      BY <1>1 DEF PushNormal
    <2>2. CriticalQueued' => CriticalQueued
      BY <2>1, AppendOther, HandlersDisjoint
      DEF CriticalQueued, HasCritical, TypeOK
    <2>. QED
      BY <1>1, <2>2
      DEF PushNormal, Receive, pollVars, loopVars,
          FrameSignalled, StopSignalled, PollAlive
  <1>2. ASSUME NEW p \in RxThreads, PushCritical(p) PROVE Wakeup'
    <2>1. rx'[p] = "signal"
      BY <1>2 DEF PushCritical, TypeOK
    <2>. QED
      BY <1>2, <2>1
      DEF PushCritical, Receive, pollVars, loopVars,
          FrameSignalled, StopSignalled, PollAlive
  <1>3. ASSUME NEW p \in RxThreads, PushFails(p) PROVE Wakeup'
    BY <1>3
    DEF PushFails, Receive, pollVars, queueVars, loopVars,
        FrameSignalled, CriticalQueued, StopSignalled, PollAlive
  <1>4. ASSUME NEW p \in RxThreads, Put(p) PROVE Wakeup'
    BY <1>4
    DEF Put, Receive, pollVars, loopVars, FrameSignalled,
        CriticalQueued, StopSignalled, PollAlive
  <1>5. ASSUME NEW p \in RxThreads, Signal(p) PROVE Wakeup'
    BY <1>5, EventfdAssumption
    DEF Signal, WriteEventfd, queueVars, loopVars, TypeOK,
        FrameSignalled, CriticalQueued, StopSignalled, PollAlive
  <1>6. ASSUME PollComplete PROVE Wakeup'
    BY <1>6
    DEF PollComplete, queueVars, loopVars, FrameSignalled,
        CriticalQueued, StopSignalled, PollAlive
  <1>7. ASSUME RunStart PROVE Wakeup'
    BY <1>7
    DEF RunStart, Goto, queueVars, pollVars, FrameSignalled,
        CriticalQueued, StopSignalled, PollAlive
  <1>8. ASSUME SubscribeEnd PROVE Wakeup'
    BY <1>8
    DEF SubscribeEnd, Proceed, Goto, queueVars, pollVars,
        FrameSignalled, CriticalQueued, StopSignalled, PollAlive
  <1>9. ASSUME arm_poll_eventfd PROVE Wakeup'
    BY <1>9
    DEF arm_poll_eventfd, Goto, queueVars, FrameSignalled,
        CriticalQueued, StopSignalled, PollAlive
  <1>10. ASSUME LoopEnter PROVE Wakeup'
    BY <1>10
    DEF LoopEnter, Proceed, Goto, queueVars, pollVars, FrameSignalled,
        CriticalQueued, StopSignalled, PollAlive
  <1>11. ASSUME LoopExit PROVE Wakeup'
    BY <1>11
    DEF LoopExit, Proceed, Goto, queueVars, pollVars, FrameSignalled,
        CriticalQueued, StopSignalled, PollAlive
  <1>12. ASSUME Dispatch PROVE Wakeup'
    BY <1>12
    DEF Dispatch, Goto, pollVars, FrameSignalled,
        CriticalQueued, StopSignalled, PollAlive
  <1>13. ASSUME DispatchEnd PROVE Wakeup'
    BY <1>13
    DEF DispatchEnd, Goto, queueVars, pollVars,
        FrameSignalled, CriticalQueued, StopSignalled, PollAlive
  <1>14. ASSUME DrainEnd PROVE Wakeup'
    BY <1>14
    DEF DrainEnd, Proceed, Goto, queueVars, pollVars, FrameSignalled,
        CriticalQueued, StopSignalled, PollAlive
  <1>15. ASSUME WaitReturns PROVE Wakeup'
    BY <1>15
    DEF WaitReturns, Proceed, Goto, queueVars, pollVars,
        FrameSignalled, CriticalQueued, StopSignalled, PollAlive
  <1>16. ASSUME Timeout PROVE Wakeup'
    BY <1>16
    DEF Timeout, Proceed, Goto, queueVars, pollVars, FrameSignalled,
        CriticalQueued, StopSignalled, PollAlive
  <1>17. ASSUME ReadEventfd PROVE Wakeup'
    BY <1>17
    DEF ReadEventfd, Goto, queueVars, FrameSignalled,
        CriticalQueued, StopSignalled, PollAlive
  <1>18. ASSUME CqeSeen PROVE Wakeup'
    BY <1>18
    DEF CqeSeen, Goto, queueVars, FrameSignalled,
        CriticalQueued, StopSignalled, PollAlive
  <1>19. ASSUME StopStore PROVE Wakeup'
    BY <1>19
    DEF StopStore, queueVars, pollVars, loopVars, FrameSignalled,
        CriticalQueued, StopSignalled, PollAlive
  <1>20. ASSUME StopWrite PROVE Wakeup'
    BY <1>20, EventfdAssumption
    DEF StopWrite, WriteEventfd, queueVars, loopVars, TypeOK, FrameSignalled,
        CriticalQueued, StopSignalled, PollAlive
  <1>21. ASSUME NEW h \in Handlers, Subscribe(h) PROVE Wakeup'
    BY <1>21
    DEF Subscribe, Goto, queueVars, pollVars, FrameSignalled,
        CriticalQueued, StopSignalled, PollAlive
  <1>22. ASSUME NEW h \in Background, DrainSlot(h) PROVE Wakeup'
    BY <1>22
    DEF DrainSlot, Goto, pollVars, FrameSignalled,
        CriticalQueued, StopSignalled, PollAlive
  <1>23. CASE UNCHANGED vars
    BY <1>23
    DEF vars, queueVars, pollVars, loopVars,
        FrameSignalled, CriticalQueued, StopSignalled, PollAlive
  <1>. QED
    BY <1>1, <1>2, <1>3, <1>4, <1>5, <1>6, <1>7, <1>8, <1>9, <1>10,
       <1>11, <1>12, <1>13, <1>14, <1>15, <1>16, <1>17, <1>18, <1>19, <1>20,
       <1>21, <1>22, <1>23
    DEF Next, zenoh_data_callback, Loop, RunSetup, handle_events

(***************************************************************************)
(* The theorems                                                            *)
(***************************************************************************)
(* The invariant holds in every reachable state. *)
LEMMA InvHolds == Spec => []IInv
  BY InitInv, NextInv, PTL DEF Spec

(* Every variable has its type, and the queue never exceeds its bound. *)
THEOREM TypeCorrect == Spec => []TypeOK
  BY InvHolds, PTL DEF IInv

(* No wakeup is lost, as long as the poll could be armed: while the        *)
(* reactor thread sleeps, neither a CRITICAL frame nor a stop request is   *)
(* left to the 50 ms timer.                                                *)
THEOREM WakeupNotLost == Spec => []NoLostWakeup
  <1>1. IInv => NoLostWakeup
    BY DEF IInv, TypeOK, NoLostWakeup, WriteComing, FrameSignalled,
           StopSignalled, PollAlive
  <1>. QED
    BY <1>1, InvHolds, PTL

=============================================================================
