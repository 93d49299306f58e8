------------------------------- MODULE Reactor -------------------------------
(***************************************************************************)
(* DataFlowReactor of include/reactor.hpp and src/reactor.cpp: how frames  *)
(* that Zenoh's RX threads receive reach the handlers on the reactor       *)
(* thread, how that thread sleeps in io_uring and is woken through an      *)
(* eventfd, and how stop() ends its loop.                                  *)
(*                                                                         *)
(* The MPSC queue and the latest-only slots appear as BoundedFifo and      *)
(* LatestRegister describe them: one step per push, pop, put and take.     *)
(* Counters and latencies are in ReactorStats.                             *)
(***************************************************************************)
EXTENDS Integers, Sequences

CONSTANTS RxThreads,    \* Zenoh's RX threads, which run the callbacks
          Critical, Normal, Background,   \* the registered handlers, by priority
          QueueBound,   \* frames the MPSC queue holds: its capacity minus one
          EventfdMax,   \* the largest value of an eventfd (2^64 - 2 in Linux)
          None          \* no frame

Handlers == Critical \cup Normal \cup Background

ASSUME HandlersDisjoint == /\ Critical \cap Normal = {}
                           /\ Critical \cap Background = {}
                           /\ Normal \cap Background = {}
ASSUME BoundAssumption == QueueBound \in Nat
ASSUME EventfdAssumption == EventfdMax \in Nat \ {0}

(* Frames are told apart by their handler only, but any one frame may be   *)
(* followed on its way, and another when it has been served or lost.       *)
Frame == [handler : Handlers, followed : BOOLEAN]
ASSUME NoneAssumption == None \notin Frame

VARIABLES
  running_,        \* the atomic of that name
  critical_queue_, \* frames in the MPSC queue, oldest first
  slot,            \* newest frame of each BACKGROUND handler not yet taken
  wakeup_fd_,      \* the eventfd's counter
  armed,           \* a POLL_ADD on wakeup_fd_ is outstanding in the kernel
  cqe,             \* its completion is in the completion queue
  rpc,             \* step of the reactor thread in run() and handle_events()
  todo,            \* handlers that run() or drain() has yet to go through
  subscribed,      \* handlers whose subscriber Zenoh knows
  rx,              \* per RX thread: step of the callback
  spc,             \* step of the thread inside stop()
  sqFull           \* history: io_uring_get_sqe() has returned NULL

queueVars == <<critical_queue_, slot>>
pollVars == <<wakeup_fd_, armed, cqe>>
loopVars == <<rpc, todo, subscribed, sqFull>>
vars == <<running_, queueVars, pollVars, loopVars, rx, spc>>

Init == /\ running_ = FALSE
        /\ critical_queue_ = <<>>
        /\ slot = [h \in Background |-> None]
        /\ wakeup_fd_ = 0
        /\ armed = FALSE
        /\ cqe = FALSE
        /\ rpc = "new"
        /\ todo = {}
        /\ subscribed = {}
        /\ rx = [p \in RxThreads |-> "idle"]
        /\ spc = "idle"
        /\ sqFull = FALSE
-----------------------------------------------------------------------------
(***************************************************************************)
(* zenoh_data_callback, executed by RX thread p.  Before its push or put a *)
(* callback touches nothing that is modelled here (the session map is in   *)
(* Sessions), so a frame's arrival and its push or put are one step.  A    *)
(* sample that is empty or fails FlatBuffers verification changes nothing  *)
(* and is not modelled.                                                    *)
(***************************************************************************)
Followed(f) == f # None /\ f.followed
FollowedQueued == \E i \in 1 .. Len(critical_queue_) : critical_queue_[i].followed
FollowedUnderWay == FollowedQueued \/ \E h \in Background : Followed(slot[h])

(* Subscribers outlive run(): frames keep coming after it has returned. *)
Receive(p, f) == /\ rx[p] = "idle"
                 /\ f.handler \in subscribed
                 /\ f.followed => ~FollowedUnderWay
                 /\ UNCHANGED <<running_, pollVars, loopVars, spc>>

(* push() succeeds.  Only a CRITICAL frame goes on to wake the reactor. *)
PushNormal(p) == \E f \in Frame :
                   /\ Receive(p, f)
                   /\ f.handler \in Normal
                   /\ Len(critical_queue_) < QueueBound
                   /\ critical_queue_' = Append(critical_queue_, f)
                   /\ UNCHANGED <<rx, slot>>

PushCritical_Unbounded(p) == \E f \in Frame :
                               /\ Receive(p, f)
                               /\ f.handler \in Critical
                               /\ critical_queue_' = Append(critical_queue_, f)
                               /\ rx' = [rx EXCEPT ![p] = "signal"]
                               /\ UNCHANGED slot

PushCritical(p) == \E f \in Frame :
                     /\ Receive(p, f)
                     /\ f.handler \in Critical
                     /\ Len(critical_queue_) < QueueBound
                     /\ critical_queue_' = Append(critical_queue_, f)
                     /\ rx' = [rx EXCEPT ![p] = "signal"]
                     /\ UNCHANGED slot

(* push() finds the queue full: the frame is lost and nobody is woken. *)
PushFails(p) == \E f \in Frame :
                  /\ Receive(p, f)
                  /\ f.handler \notin Background
                  /\ Len(critical_queue_) = QueueBound
                  /\ UNCHANGED <<rx, queueVars>>

Put(p) == \E f \in Frame :
            /\ Receive(p, f)
            /\ f.handler \in Background
            /\ slot' = [slot EXCEPT ![f.handler] = f]
            /\ UNCHANGED <<rx, critical_queue_>>

(* write() to a non-blocking eventfd that is at its maximum changes        *)
(* nothing.                                                                *)
WriteEventfd == /\ wakeup_fd_' = IF wakeup_fd_ < EventfdMax THEN wakeup_fd_ + 1
                                                            ELSE wakeup_fd_
                /\ UNCHANGED <<armed, cqe>>

(* The write to the eventfd that follows a successful CRITICAL push. *)
Signal(p) == /\ rx[p] = "signal"
             /\ rx' = [rx EXCEPT ![p] = "idle"]
             /\ WriteEventfd
             /\ UNCHANGED <<running_, queueVars, loopVars, spc>>

zenoh_data_callback(p) == \/ PushNormal(p) \/ PushCritical(p) \/ PushFails(p)
                          \/ Put(p) \/ Signal(p)
-----------------------------------------------------------------------------
(***************************************************************************)
(* The kernel completes the one-shot poll when the eventfd is readable.    *)
(***************************************************************************)
PollComplete == /\ armed
                /\ wakeup_fd_ > 0
                /\ armed' = FALSE
                /\ cqe' = TRUE
                /\ UNCHANGED <<running_, queueVars, wakeup_fd_, loopVars, rx, spc>>
-----------------------------------------------------------------------------
(***************************************************************************)
(* The reactor thread: run(), up to its loop.                              *)
(***************************************************************************)
Goto(here, there) == rpc = here /\ rpc' = there /\ UNCHANGED <<rx, spc>>

RunStart == /\ Goto("new", "subscribe")
            /\ running_' = TRUE
            /\ todo' = Handlers
            /\ UNCHANGED <<queueVars, pollVars, subscribed, sqFull>>

(* Declaring a subscriber may fail, which is logged and passed over. *)
Subscribe(h) == /\ Goto("subscribe", "subscribe")
                /\ h \in todo
                /\ todo' = todo \ {h}
                /\ subscribed' \in {subscribed, subscribed \cup {h}}
                /\ UNCHANGED <<running_, queueVars, pollVars, sqFull>>

(* A step that only tests something and goes on. *)
Proceed(here, there, condition) ==
  Goto(here, there) /\ condition
    /\ UNCHANGED <<running_, queueVars, pollVars, todo, subscribed, sqFull>>

SubscribeEnd == Proceed("subscribe", "arm", todo = {})

arm_poll_eventfd_Omitted == Proceed("arm", "check", TRUE)

(* From "arm", before the loop and after every completion.  Without a free *)
(* submission entry nothing is armed.                                      *)
arm_poll_eventfd == /\ Goto("arm", "check")
                    /\ \/ armed' = TRUE /\ UNCHANGED sqFull
                       \/ sqFull' = TRUE /\ UNCHANGED armed
                    /\ UNCHANGED <<running_, queueVars, wakeup_fd_, cqe,
                                   todo, subscribed>>

LoopEnter == Proceed("check", "drain", running_)

LoopExit == Proceed("check", "done", ~running_)
-----------------------------------------------------------------------------
(***************************************************************************)
(* The reactor thread: handle_events().                                    *)
(***************************************************************************)
Dispatch_Once == /\ Goto("drain", "background")
                 /\ critical_queue_ # <<>>
                 /\ critical_queue_' = Tail(critical_queue_)
                 /\ todo' = Background
                 /\ UNCHANGED <<running_, slot, pollVars, subscribed, sqFull>>

(* pop() and the handler's callback. *)
Dispatch == /\ Goto("drain", "drain")
            /\ critical_queue_ # <<>>
            /\ critical_queue_' = Tail(critical_queue_)
            /\ UNCHANGED <<running_, slot, pollVars, todo, subscribed, sqFull>>

DispatchEnd == /\ Goto("drain", "background")
               /\ critical_queue_ = <<>>
               /\ todo' = Background
               /\ UNCHANGED <<running_, queueVars, pollVars, subscribed, sqFull>>

(* drain() visits the slots one at a time, in no particular order. *)
DrainSlot(h) == /\ Goto("background", "background")
                /\ h \in todo
                /\ todo' = todo \ {h}
                /\ slot' = [slot EXCEPT ![h] = None]
                /\ UNCHANGED <<running_, critical_queue_, pollVars, subscribed, sqFull>>

DrainEnd_Early == Proceed("background", "wait", TRUE)

DrainEnd == Proceed("background", "wait", todo = {})

(* io_uring_wait_cqe_timeout() returns 0. *)
WaitReturns == Proceed("wait", "read", cqe)

Timeout_Never == FALSE /\ UNCHANGED vars

(* It returns -ETIME after 50 ms, or -EINTR: nothing is read or armed. *)
Timeout == Proceed("wait", "check", ~cqe)

(* Reading the eventfd resets it to zero. *)
ReadEventfd == /\ Goto("read", "seen")
               /\ wakeup_fd_' = 0
               /\ UNCHANGED <<running_, queueVars, armed, cqe, todo, subscribed, sqFull>>

CqeSeen == /\ Goto("seen", "arm")
           /\ cqe' = FALSE
           /\ UNCHANGED <<running_, queueVars, wakeup_fd_, armed, todo, subscribed, sqFull>>

handle_events == \/ Dispatch \/ DispatchEnd
                 \/ \E h \in Background : DrainSlot(h)
                 \/ DrainEnd \/ WaitReturns \/ ReadEventfd \/ CqeSeen
-----------------------------------------------------------------------------
(***************************************************************************)
(* stop(), called by another thread or from a signal handler: the flag     *)
(* first, then the write that wakes the reactor.                           *)
(***************************************************************************)
StopStore == /\ spc = "idle"
             /\ spc' = "write"
             /\ running_' = FALSE
             /\ UNCHANGED <<queueVars, pollVars, loopVars, rx>>

StopWrite_Missing == /\ spc = "write"
                     /\ spc' = "idle"
                     /\ UNCHANGED <<running_, queueVars, pollVars, loopVars, rx>>

StopWrite == /\ spc = "write"
             /\ spc' = "idle"
             /\ WriteEventfd
             /\ UNCHANGED <<running_, queueVars, loopVars, rx>>
-----------------------------------------------------------------------------
RunSetup == \/ \E h \in Handlers : Subscribe(h)
            \/ SubscribeEnd

Loop == RunSetup \/ arm_poll_eventfd \/ LoopEnter \/ LoopExit \/ handle_events

Next == \/ \E p \in RxThreads : zenoh_data_callback(p)
        \/ PollComplete
        \/ RunStart \/ Loop \/ Timeout
        \/ StopStore \/ StopWrite

Spec == Init /\ [][Next]_vars

(***************************************************************************)
(* Threads that are inside a call keep running and the kernel completes    *)
(* polls.  Frames need not arrive, run() and stop() need not be called,    *)
(* and the wait need not time out: what EventSpec guarantees is owed to    *)
(* the eventfd alone.  The properties that need the 50 ms timer assume its *)
(* fairness themselves.                                                    *)
(***************************************************************************)
EventSpec == /\ Spec
             /\ WF_vars(Loop)
             /\ WF_vars(PollComplete)
             /\ \A p \in RxThreads : WF_vars(Signal(p))
             /\ WF_vars(StopWrite)

TimerSpec == EventSpec /\ WF_vars(Timeout)
-----------------------------------------------------------------------------
(***************************************************************************)
(* Properties                                                              *)
(***************************************************************************)
InLoop == {"check", "drain", "background", "wait", "read", "seen"}

TypeOK == /\ running_ \in BOOLEAN
          /\ critical_queue_ \in Seq(Frame)
          /\ Len(critical_queue_) <= QueueBound
          /\ slot \in [Background -> Frame \cup {None}]
          /\ wakeup_fd_ \in 0 .. EventfdMax
          /\ armed \in BOOLEAN
          /\ cqe \in BOOLEAN
          /\ rpc \in {"new", "subscribe", "arm", "done"} \cup InLoop
          /\ todo \subseteq Handlers
          /\ subscribed \subseteq Handlers
          /\ sqFull \in BOOLEAN
          /\ rx \in [RxThreads -> {"idle", "signal"}]
          /\ spc \in {"idle", "write"}

CriticalQueued == \E i \in 1 .. Len(critical_queue_) :
                    critical_queue_[i].handler \in Critical

(* Somebody is about to write to the eventfd. *)
WriteComing == spc = "write" \/ \E p \in RxThreads : rx[p] = "signal"

(***************************************************************************)
(* No lost wakeup.  As long as the poll could always be armed: while the   *)
(* reactor thread sleeps in io_uring, neither a CRITICAL frame nor a stop  *)
(* request is left to the 50 ms timer: a completion is there, or the poll  *)
(* is armed on an eventfd that is or is about to be written.               *)
(***************************************************************************)
NoLostWakeup ==
  ~sqFull /\ rpc = "wait" /\ (CriticalQueued \/ ~running_)
    => cqe \/ (armed /\ (wakeup_fd_ > 0 \/ WriteComing))

(***************************************************************************)
(* The eventfd path alone serves every CRITICAL frame that was queued      *)
(* while the loop runs, behind whatever other frames, for whatever order   *)
(* of push, write, poll, read and re-arm, and although traffic may never   *)
(* pause.                                                                  *)
(***************************************************************************)
FollowedCritical == \E i \in 1 .. Len(critical_queue_) :
                      critical_queue_[i].followed /\ critical_queue_[i].handler \in Critical

CriticalServed ==
  (FollowedCritical /\ running_) ~> (~FollowedQueued \/ ~running_ \/ sqFull)

(***************************************************************************)
(* stop() ends a run() that has set running_, by the eventfd alone and     *)
(* wherever the loop is.  One thing can keep it from ending: the loop that *)
(* empties the queue does not test running_, so a stream of frames as fast *)
(* as their dispatch holds it there.                                       *)
(***************************************************************************)
StopRequested == rpc # "new" /\ ~running_
Flooded == <>[](rpc = "drain")

StopEndsRun == Flooded \/ (StopRequested ~> (rpc = "done" \/ sqFull))

(***************************************************************************)
(* With the timer, every queued frame is served, NORMAL ones that wake     *)
(* nobody too, also if the poll could not be armed; so are the BACKGROUND  *)
(* frames, and stop() ends the run, unless a flood holds the reactor in    *)
(* the loop that empties the queue.                                        *)
(***************************************************************************)
EveryFrameServed ==
  WF_vars(Timeout) => ((FollowedQueued /\ running_) ~> (~FollowedQueued \/ ~running_))

BackgroundServed ==
  WF_vars(Timeout) =>
    \/ Flooded
    \/ /\ StopRequested ~> (rpc = "done")
       /\ \A h \in Background :
            (Followed(slot[h]) /\ running_) ~> (~Followed(slot[h]) \/ ~running_)

(***************************************************************************)
(* What the repository says and the code does not do.                      *)
(***************************************************************************)
(* "SQ full ... retry at the next handle_events" (src/reactor.cpp:188): a  *)
(* poll that could not be armed is armed later.                            *)
ArmIsRetried == (rpc \in InLoop /\ ~armed /\ ~cqe) ~> (armed \/ rpc = "done")
=============================================================================
