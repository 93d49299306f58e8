-------------------------- MODULE RustReactorProofs --------------------------
(***************************************************************************)
(* Proofs about RustReactor, for any list of handlers, any queue size and  *)
(* any number of frames.                                                   *)
(***************************************************************************)
EXTENDS RustReactor, SequenceTheorems, FiniteSetTheorems, TLAPS

(***************************************************************************)
(* The inductive invariant                                                 *)
(***************************************************************************)

(* TypeOK without the upper bounds of the counters, which follow from      *)
(* FramesAccounted.                                                        *)
ShapeInv == /\ queue \in Seq(Frame)
            /\ Len(queue) <= QueueBound
            /\ dropped \in Nat
            /\ slot \in [Slots -> Frame \cup {None}]
            /\ held \in [Slots -> Handlers \cup {None}]
            /\ drop_count \in Nat
            /\ permit \in BOOLEAN
            /\ mpc \in {"declare", "failed", "drain", "background", "wait"}
            /\ next \in 1 .. Len(Registered) + 1
            /\ todo \subseteq Slots
            /\ wpc \in [Handlers -> WorkerSteps]
            /\ sample \in [Handlers -> Frame \cup {None}]
            /\ pool \subseteq Tasks /\ IsFiniteSet(pool)
            /\ called \in Seq(Tasks)
            /\ received \in 0 .. MaxFrames

(* A worker that has a frame in hand. *)
Active(i) == wpc[i] \in {"push", "lock", "assign"}

(* The steps of a worker are those of its priority, and a worker that is   *)
(* not yet declared does not run.                                          *)
StepInv ==
  /\ mpc = "declare" => \A i \in Handlers : i >= next => wpc[i] = "none"
  /\ \A i \in Handlers :
       /\ wpc[i] \in {"lock", "assign"} => Priority(i) = "Background"
       /\ wpc[i] = "push" => Priority(i) # "Background"

(* A CRITICAL frame that was pushed after the queue was found empty is     *)
(* announced, from the draining of the slots on.                           *)
WakeInv ==
  mpc \in {"background", "wait"} =>
    \A k \in 1 .. Len(queue) : Priority(queue[k].handler) = "Critical" =>
      permit \/ \E i \in Handlers : wpc[i] = "notify"

(* Frame f is with the pool or was handed to a callback. *)
Handed(f) == \/ \E t \in pool : t.frame = f
             \/ \E k \in 1 .. Len(called) : called[k].frame = f

(* Each frame is where its priority sends it. *)
PlaceInv ==
  /\ \A i \in Handlers : Active(i) =>
       /\ sample[i] \in Frame
       /\ sample[i].handler = i
       /\ sample[i].seq <= received
  /\ \A k \in 1 .. Len(queue) :
       /\ Priority(queue[k].handler) # "Background"
       /\ queue[k].seq <= received
  /\ \A s \in Slots : slot[s] # None =>
       /\ Priority(slot[s].handler) = "Background"
       /\ Path(slot[s].handler) = s
       /\ slot[s].seq <= received
  /\ \A t \in pool : Priority(t.frame.handler) # "Critical"
  /\ \A f \in Frame : Handed(f) => f.seq <= received

(* The frames of one handler move on in the order of their reception: what *)
(* was handed over is older than what waits, and that is older than what   *)
(* the worker has in hand.  So no frame is in two places.                  *)
OrderInv ==
  /\ \A j, k \in 1 .. Len(queue) :
       j < k /\ queue[j].handler = queue[k].handler => queue[j].seq < queue[k].seq
  /\ \A i \in Handlers : Active(i) =>
       /\ \A k \in 1 .. Len(queue) :
            queue[k].handler = i => queue[k].seq < sample[i].seq
       /\ \A s \in Slots :
            slot[s] # None /\ slot[s].handler = i => slot[s].seq < sample[i].seq
  /\ \A f \in Frame : Handed(f) =>
       /\ \A k \in 1 .. Len(queue) :
            queue[k].handler = f.handler => f.seq < queue[k].seq
       /\ \A s \in Slots :
            slot[s] # None /\ slot[s].handler = f.handler => f.seq < slot[s].seq
       /\ Active(f.handler) => f.seq < sample[f.handler].seq

IInv == /\ ShapeInv
        /\ StepInv
        /\ WakeInv
        /\ PlaceInv
        /\ OrderInv
        /\ FramesAccounted
        /\ CriticalInOrder

(***************************************************************************)
(* Handlers, slots and the index                                           *)
(***************************************************************************)

(* What is registered. *)
LEMMA HandlerFacts ==
  /\ Len(Registered) \in Nat
  /\ Handlers = 1 .. Len(Registered)
  /\ \A i \in Handlers :
       /\ Priority(i) \in {"Critical", "Normal", "Background"}
       /\ Priority(i) = "Background" => Path(i) \in Slots
  <1> DEFINE Entry == [path : {Path(i) : i \in Handlers},
                       priority : {"Critical", "Normal", "Background"}]
  <1>1. Registered \in Seq(Entry)
    BY RegisteredAssumption
  <1>2. Len(Registered) \in Nat /\ Handlers = 1 .. Len(Registered)
    BY <1>1, LenProperties DEF Handlers
  <1>3. \A i \in Handlers : Registered[i] \in Entry
    BY <1>1, <1>2, ElementOfSeq
  <1>. QED
    BY <1>2, <1>3 DEF Priority, Slots

(* A set of numbers up to a bound has a greatest element. *)
LEMMA Greatest ==
  ASSUME NEW n \in Nat, NEW T \in SUBSET (0 .. n), T # {}
  PROVE  \E x \in T : \A y \in T : x >= y
  <1> DEFINE R == OpToRel(<, Nat)
             U == {n - y : y \in T}
  <1>1. IsWellFoundedOn(R, Nat)
    BY NatLessThanWellFounded
  <1>2. U \subseteq Nat /\ U # {}
    <2>1. \A y \in T : y \in Nat /\ n - y \in Nat
      OBVIOUS
    <2>2. U \subseteq Nat
      BY <2>1
    <2>3. PICK y \in T : TRUE
      OBVIOUS
    <2>4. n - y \in U
      BY <2>3
    <2>. QED
      BY <2>2, <2>4
  <1>3. PICK u \in U : \A v \in U : ~(<<v, u>> \in R)
    <2> HIDE DEF R, U
    <2>. QED
      BY <1>1, <1>2, WFMin
  <1>4. \A v \in U : ~(v < u)
    BY <1>2, <1>3 DEF OpToRel
  <1>5. PICK x \in T : u = n - x
    OBVIOUS
  <1>. QED
    BY <1>4, <1>5

(* handler_index has an entry for every slot: the later of two equal paths *)
(* replaces the earlier one.                                               *)
LEMMA IndexFacts ==
  ASSUME NEW s \in Slots
  PROVE  handler_index(s) \in Handlers
  <1> DEFINE T == {i \in Handlers : Path(i) = s}
  <1>1. T \in SUBSET (0 .. Len(Registered)) /\ T # {}
    BY HandlerFacts DEF Slots
  <1>2. \E x \in T : \A y \in T : x >= y
    <2> HIDE DEF T
    <2>. QED
      BY <1>1, HandlerFacts, Greatest
  <1>3. Max(T) \in T
    BY <1>2 DEF Max
  <1>. QED
    BY <1>3 DEF handler_index

(* There are finitely many handlers and slots. *)
LEMMA Finite == IsFiniteSet(Handlers) /\ IsFiniteSet(Slots)
  <1>1. IsFiniteSet(Handlers)
    BY HandlerFacts, FS_Interval
  <1> DEFINE B == {j \in Handlers : Priority(j) = "Background"}
             f == [i \in B |-> Path(i)]
  <1>2. IsFiniteSet(B)
    BY <1>1, FS_Subset
  <1>3. f \in Surjection(B, Slots)
    BY DEF Surjection, Slots
  <1>4. IsFiniteSet(Slots)
    <2> HIDE DEF B, f
    <2>. QED
      BY <1>2, <1>3, FS_Surjection
  <1>. QED
    BY <1>1, <1>4

(***************************************************************************)
(* What the steps do                                                       *)
(***************************************************************************)

(* The steps of run() that only move it on, and at most consume a permit   *)
(* or collect the slots to drain.                                          *)
Moves == DeclareFails \/ DeclareEnd \/ DispatchEnd \/ DrainEnd \/ Notified \/ Elapsed

(* They leave frames, handlers and workers alone. *)
LEMMA MovesFrame ==
  Moves => UNCHANGED <<queueVars, cacheVars, next, workerVars, callVars>>
  BY DEF Moves, DeclareFails, DeclareEnd, DispatchEnd, DrainEnd, Notified, Elapsed

(* The steps by what they touch. *)
LEMMA Steps ==
  ASSUME [Next]_vars
  PROVE  \/ \E i \in Handlers : Receive(i) \/ Push(i) \/ NotifyOne(i)
                                \/ PutLock(i) \/ PutAssign(i)
         \/ Declare \/ Moves \/ Dispatch
         \/ \E s \in Slots : DrainSlot(s)
         \/ spawn_blocking
         \/ UNCHANGED vars
  BY DEF Next, Worker, run, Moves

(* The frame at the head of the queue, and what is left behind it. *)
LEMMA HeadFacts ==
  ASSUME ShapeInv, queue # <<>>
  PROVE  /\ Len(queue) \in Nat /\ 1 \in 1 .. Len(queue)
         /\ queue[1] \in Frame /\ First \in Tasks
         /\ First.by = queue[1].handler /\ First.frame = queue[1]
         /\ Tail(queue) \in Seq(Frame) /\ Len(Tail(queue)) = Len(queue) - 1
         /\ \A k \in 1 .. Len(Tail(queue)) :
              k + 1 \in 1 .. Len(queue) /\ Tail(queue)[k] = queue[k + 1]
  <1>1. queue \in Seq(Frame) /\ Len(queue) \in Nat /\ Len(queue) # 0
    BY EmptySeq DEF ShapeInv
  <1>2. 1 \in 1 .. Len(queue)
    BY <1>1
  <1>3. queue[1] \in Frame
    BY <1>1, <1>2, ElementOfSeq
  <1>4. /\ Tail(queue) \in Seq(Frame) /\ Len(Tail(queue)) = Len(queue) - 1
        /\ \A k \in 1 .. Len(Tail(queue)) : Tail(queue)[k] = queue[k + 1]
    BY <1>1, HeadTailProperties
  <1>. QED
    BY <1>1, <1>2, <1>3, <1>4 DEF First, Task, Tasks, Frame

(* A frame that is appended to the queue. *)
LEMMA QueueGrows ==
  ASSUME ShapeInv, NEW f \in Frame, queue' = Append(queue, f)
  PROVE  /\ queue' \in Seq(Frame)
         /\ Len(queue) \in Nat /\ Len(queue') = Len(queue) + 1
         /\ \A k \in 1 .. Len(queue) : queue'[k] = queue[k]
         /\ queue'[Len(queue) + 1] = f
  BY AppendProperties DEF ShapeInv

(* A task that is appended to the calls. *)
LEMMA CalledGrows ==
  ASSUME ShapeInv, NEW t \in Tasks, called' = Append(called, t)
  PROVE  /\ called' \in Seq(Tasks)
         /\ Len(called) \in Nat /\ Len(called') = Len(called) + 1
         /\ \A k \in 1 .. Len(called) : called'[k] = called[k]
         /\ called'[Len(called) + 1] = t
  BY AppendProperties DEF ShapeInv

(* The queue and the calls hold frames and tasks. *)
LEMMA Elements ==
  ASSUME ShapeInv
  PROVE  /\ Len(queue) \in Nat /\ \A k \in 1 .. Len(queue) : queue[k] \in Frame
         /\ Len(called) \in Nat /\ \A k \in 1 .. Len(called) : called[k] \in Tasks
         /\ \A t \in pool : t \in Tasks
  BY ElementOfSeq, LenProperties DEF ShapeInv

(***************************************************************************)
(* Every step preserves the shape, the steps of the workers and the wakeup *)
(***************************************************************************)
LEMMA NextShape == ShapeInv /\ StepInv /\ PlaceInv /\ [Next]_vars => ShapeInv'
  <1> SUFFICES ASSUME ShapeInv, StepInv, PlaceInv, [Next]_vars PROVE ShapeInv'
    OBVIOUS
  <1> USE DEF queueVars, cacheVars, mainVars, workerVars, callVars
  <1>1. ASSUME NEW i \in Handlers, Receive(i) PROVE ShapeInv'
    <2>1. received' \in 0 .. MaxFrames /\ received' \in 1 .. MaxFrames
      BY <1>1, BoundAssumption DEF Receive, ShapeInv
    <2>2. sample' \in [Handlers -> Frame \cup {None}]
      BY <1>1, <2>1 DEF Receive, ShapeInv, Frame
    <2>3. wpc' \in [Handlers -> WorkerSteps]
      BY <1>1 DEF Receive, WorkerGoto, ShapeInv, WorkerSteps
    <2>. QED
      BY <1>1, <2>1, <2>2, <2>3 DEF Receive, ShapeInv
  <1>2. ASSUME NEW i \in Handlers, Push(i) PROVE ShapeInv'
    <2>1. wpc' \in [Handlers -> WorkerSteps]
      BY <1>2 DEF Push, AfterPush, WorkerGoto, ShapeInv, WorkerSteps
    <2>2. /\ queue' \in Seq(Frame) /\ Len(queue') <= QueueBound
          /\ dropped' \in Nat
      <3>1. sample[i] \in Frame
        BY <1>2 DEF Push, WorkerGoto, PlaceInv, Active
      <3>2. CASE Len(queue) < QueueBound /\ queue' = Append(queue, sample[i])
                 /\ UNCHANGED dropped
        BY <3>1, <3>2, QueueGrows, BoundAssumption DEF ShapeInv
      <3>3. CASE dropped' = dropped + 1 /\ UNCHANGED queue
        BY <3>3 DEF ShapeInv
      <3>. QED
        BY <1>2, <3>2, <3>3 DEF Push
    <2>. QED
      BY <1>2, <2>1, <2>2 DEF Push, ShapeInv
  <1>3. ASSUME NEW i \in Handlers, NotifyOne(i) PROVE ShapeInv'
    <2>1. wpc' \in [Handlers -> WorkerSteps]
      BY <1>3 DEF NotifyOne, WorkerGoto, ShapeInv, WorkerSteps
    <2>. QED
      BY <1>3, <2>1 DEF NotifyOne, ShapeInv
  <1>4. ASSUME NEW i \in Handlers, PutLock(i) \/ PutAssign(i) PROVE ShapeInv'
    <2>1. wpc' \in [Handlers -> WorkerSteps]
      BY <1>4 DEF PutLock, PutAssign, WorkerGoto, ShapeInv, WorkerSteps
    <2>2. sample[i] \in Frame
      BY <1>4 DEF PutLock, PutAssign, WorkerGoto, PlaceInv, Active
    <2>3. slot' \in [Slots -> Frame \cup {None}]
      BY <1>4, <2>2 DEF PutLock, PutAssign, ShapeInv
    <2>4. held' \in [Slots -> Handlers \cup {None}]
      BY <1>4 DEF PutLock, PutAssign, ShapeInv
    <2>5. drop_count' \in Nat
      BY <1>4 DEF PutLock, PutAssign, ShapeInv
    <2>6. UNCHANGED <<queueVars, permit, mainVars, sample, received, callVars>>
      BY <1>4 DEF PutLock, PutAssign
    <2>. QED
      BY <2>1, <2>3, <2>4, <2>5, <2>6 DEF ShapeInv
  <1>5. ASSUME Declare PROVE ShapeInv'
    <2>1. wpc' \in [Handlers -> WorkerSteps]
      BY <1>5 DEF Declare, ShapeInv, WorkerSteps
    <2>2. next' \in 1 .. Len(Registered) + 1
      BY <1>5, HandlerFacts DEF Declare, ShapeInv
    <2>. QED
      BY <1>5, <2>1, <2>2 DEF Declare, MainGoto, ShapeInv
  <1>6. ASSUME Moves PROVE ShapeInv'
    <2>1. UNCHANGED <<queueVars, cacheVars, next, workerVars, callVars>>
      BY <1>6, MovesFrame
    <2>2. mpc' \in {"declare", "failed", "drain", "background", "wait"}
      BY <1>6
      DEF Moves, DeclareFails, DeclareEnd, DispatchEnd, DrainEnd, Notified, Elapsed,
          MainGoto
    <2>3. todo' \subseteq Slots
      BY <1>6
      DEF Moves, DeclareFails, DeclareEnd, DispatchEnd, DrainEnd, Notified, Elapsed,
          ShapeInv
    <2>4. permit' \in BOOLEAN
      BY <1>6
      DEF Moves, DeclareFails, DeclareEnd, DispatchEnd, DrainEnd, Notified, Elapsed,
          ShapeInv
    <2>. QED
      BY <2>1, <2>2, <2>3, <2>4 DEF ShapeInv
  <1>7. ASSUME Dispatch PROVE ShapeInv'
    <2>1. queue' \in Seq(Frame) /\ Len(queue') <= QueueBound
      BY <1>7, HeadFacts, BoundAssumption DEF Dispatch, ShapeInv
    <2>2. called' \in Seq(Tasks)
      BY <1>7, HeadFacts, CalledGrows DEF Dispatch, ShapeInv
    <2>3. pool' \subseteq Tasks /\ IsFiniteSet(pool')
      <3>1. pool' \in {pool, pool \cup {First}} /\ First \in Tasks
        BY <1>7, HeadFacts DEF Dispatch
      <3>. QED
        <4>1. IsFiniteSet(pool) /\ pool \subseteq Tasks
          BY DEF ShapeInv
        <4>2. IsFiniteSet(pool \cup {First})
          BY <4>1, FS_AddElement
        <4>. QED
          BY <3>1, <4>1, <4>2
    <2>. QED
      BY <1>7, <2>1, <2>2, <2>3 DEF Dispatch, MainGoto, ShapeInv
  <1>8. ASSUME NEW s \in Slots, DrainSlot(s) PROVE ShapeInv'
    <2>1. slot' \in [Slots -> Frame \cup {None}] /\ todo' \subseteq Slots
      BY <1>8 DEF DrainSlot, ShapeInv
    <2>2. pool' \subseteq Tasks /\ IsFiniteSet(pool')
      <3>1. CASE UNCHANGED pool
        BY <3>1 DEF ShapeInv
      <3>2. CASE slot[s] # None /\ pool' = pool \cup {Task(handler_index(s), slot[s])}
        <4>1. Task(handler_index(s), slot[s]) \in Tasks
          BY <3>2, IndexFacts DEF ShapeInv, Task, Tasks
        <4>. QED
          BY <3>2, <4>1, FS_AddElement DEF ShapeInv
      <3>. QED
        BY <1>8, <3>1, <3>2 DEF DrainSlot
    <2>. QED
      BY <1>8, <2>1, <2>2 DEF DrainSlot, MainGoto, ShapeInv
  <1>9. ASSUME spawn_blocking PROVE ShapeInv'
    <2>1. PICK task \in pool : /\ called' = Append(called, task)
                               /\ pool' = pool \ {task}
      BY <1>9 DEF spawn_blocking
    <2>2. called' \in Seq(Tasks)
      BY <2>1, CalledGrows, Elements
    <2>3. pool' \subseteq Tasks /\ IsFiniteSet(pool')
      BY <2>1, FS_RemoveElement DEF ShapeInv
    <2>. QED
      BY <1>9, <2>2, <2>3 DEF spawn_blocking, ShapeInv
  <1>10. CASE UNCHANGED vars
    BY <1>10 DEF vars, ShapeInv
  <1>. QED
    BY <1>1, <1>2, <1>3, <1>4, <1>5, <1>6, <1>7, <1>8, <1>9, <1>10, Steps

(* A worker only takes the steps of its priority. *)
LEMMA NextStep == ShapeInv /\ StepInv /\ [Next]_vars => StepInv'
  <1> SUFFICES ASSUME ShapeInv, StepInv, [Next]_vars PROVE StepInv'
    OBVIOUS
  <1> USE DEF queueVars, cacheVars, mainVars, workerVars, callVars
  <1>i. /\ wpc \in [Handlers -> WorkerSteps]
        /\ next \in 1 .. Len(Registered) + 1
        /\ Handlers = 1 .. Len(Registered) /\ Len(Registered) \in Nat
    BY HandlerFacts DEF ShapeInv
  <1>1. ASSUME NEW i \in Handlers, Receive(i) PROVE StepInv'
    BY <1>i, <1>1 DEF Receive, WorkerGoto, StepInv
  <1>2. ASSUME NEW i \in Handlers, Push(i) \/ NotifyOne(i) PROVE StepInv'
    BY <1>i, <1>2 DEF Push, NotifyOne, AfterPush, WorkerGoto, StepInv
  <1>3. ASSUME NEW i \in Handlers, PutLock(i) \/ PutAssign(i) PROVE StepInv'
    BY <1>i, <1>3 DEF PutLock, PutAssign, WorkerGoto, StepInv
  <1>4. ASSUME Declare PROVE StepInv'
    BY <1>i, <1>4 DEF Declare, MainGoto, StepInv
  <1>5. ASSUME Moves PROVE StepInv'
    <2>1. UNCHANGED <<wpc, next>> /\ mpc' # "declare"
      BY <1>5
      DEF Moves, DeclareFails, DeclareEnd, DispatchEnd, DrainEnd, Notified, Elapsed,
          MainGoto
    <2>. QED
      BY <2>1 DEF StepInv
  <1>6. ASSUME Dispatch \/ (\E s \in Slots : DrainSlot(s)) \/ spawn_blocking
        PROVE  StepInv'
    <2>1. UNCHANGED <<wpc, next, mpc>>
      BY <1>6 DEF Dispatch, DrainSlot, spawn_blocking, MainGoto
    <2>. QED
      BY <2>1 DEF StepInv
  <1>7. CASE UNCHANGED vars
    BY <1>7 DEF vars, StepInv
  <1>. QED
    BY <1>1, <1>2, <1>3, <1>4, <1>5, <1>6, <1>7, Steps

(* A push that the loop has missed is announced before it waits. *)
LEMMA NextWake == ShapeInv /\ PlaceInv /\ WakeInv /\ [Next]_vars => WakeInv'
  <1> SUFFICES ASSUME ShapeInv, PlaceInv, WakeInv, [Next]_vars PROVE WakeInv'
    OBVIOUS
  <1> USE DEF queueVars, cacheVars, mainVars, workerVars, callVars
  <1>i. wpc \in [Handlers -> WorkerSteps] /\ Len(queue) \in Nat
    BY Elements DEF ShapeInv
  <1>1. ASSUME NEW i \in Handlers, Receive(i) \/ PutLock(i) \/ PutAssign(i)
        PROVE  WakeInv'
    <2>1. UNCHANGED <<queue, permit, mpc>>
      BY <1>1 DEF Receive, PutLock, PutAssign
    <2>2. \A j \in Handlers : wpc[j] = "notify" => wpc'[j] = "notify"
      BY <1>i, <1>1 DEF Receive, PutLock, PutAssign, WorkerGoto
    <2>. QED
      BY <2>1, <2>2 DEF WakeInv
  <1>2. ASSUME NEW i \in Handlers, Push(i) PROVE WakeInv'
    <2>1. UNCHANGED <<permit, mpc>> /\ wpc'[i] = AfterPush(i)
      BY <1>i, <1>2 DEF Push, WorkerGoto
    <2>2. \A j \in Handlers : wpc[j] = "notify" => wpc'[j] = "notify"
      BY <1>i, <1>2 DEF Push, WorkerGoto
    <2>3. sample[i] \in Frame /\ sample[i].handler = i
      BY <1>2 DEF Push, WorkerGoto, PlaceInv, Active
    <2>4. CASE Priority(i) = "Critical"
      BY <2>1, <2>4 DEF WakeInv, AfterPush
    <2>5. CASE UNCHANGED queue
      BY <2>1, <2>2, <2>5 DEF WakeInv
    <2>6. CASE Priority(i) # "Critical" /\ queue' = Append(queue, sample[i])
      <3>1. /\ Len(queue') = Len(queue) + 1
            /\ \A k \in 1 .. Len(queue) : queue'[k] = queue[k]
            /\ queue'[Len(queue) + 1] = sample[i]
        BY <2>3, <2>6, QueueGrows
      <3>. QED
        BY <1>i, <2>1, <2>2, <2>3, <2>6, <3>1 DEF WakeInv
    <2>. QED
      BY <1>2, <2>4, <2>5, <2>6 DEF Push
  <1>3. ASSUME NEW i \in Handlers, NotifyOne(i) PROVE WakeInv'
    BY <1>3 DEF NotifyOne, WakeInv
  <1>4. ASSUME Declare \/ Dispatch PROVE WakeInv'
    BY <1>4 DEF Declare, Dispatch, MainGoto, WakeInv
  <1>5. ASSUME Moves PROVE WakeInv'
    <2>1. CASE DispatchEnd
      <3>1. Len(queue') = 0
        BY <2>1, EmptySeq DEF DispatchEnd
      <3>. QED
        BY <3>1 DEF WakeInv
    <2>2. CASE DrainEnd
      BY <2>2 DEF DrainEnd, MainGoto, WakeInv
    <2>3. CASE DeclareFails \/ DeclareEnd \/ Notified \/ Elapsed
      BY <2>3 DEF DeclareFails, DeclareEnd, Notified, Elapsed, MainGoto, WakeInv
    <2>. QED
      BY <1>5, <2>1, <2>2, <2>3 DEF Moves
  <1>6. ASSUME (\E s \in Slots : DrainSlot(s)) \/ spawn_blocking PROVE WakeInv'
    <2>1. UNCHANGED <<queue, permit, mpc, wpc>>
      BY <1>6 DEF DrainSlot, spawn_blocking, MainGoto
    <2>. QED
      BY <2>1 DEF WakeInv
  <1>7. CASE UNCHANGED vars
    BY <1>7 DEF vars, WakeInv
  <1>. QED
    BY <1>1, <1>2, <1>3, <1>4, <1>5, <1>6, <1>7, Steps

(***************************************************************************)
(* Every frame stays in its place and in its order                         *)
(***************************************************************************)

(* A frame is handed over only from the head of the queue or from a slot. *)
LEMMA HandedFrame ==
  ASSUME UNCHANGED callVars, NEW f
  PROVE  Handed(f)' <=> Handed(f)
  BY DEF callVars, Handed

(* Dispatching hands over the head of the queue. *)
LEMMA HandedByDispatch ==
  ASSUME ShapeInv, Dispatch, NEW f, Handed(f)'
  PROVE  Handed(f) \/ f = queue[1]
  <1>1. First \in Tasks /\ First.frame = queue[1]
    BY HeadFacts DEF Dispatch
  <1>2. CASE called' = Append(called, First) /\ UNCHANGED pool
    <2>1. /\ Len(called) \in Nat /\ Len(called') = Len(called) + 1
          /\ \A k \in 1 .. Len(called) : called'[k] = called[k]
          /\ called'[Len(called) + 1] = First
      BY <1>1, <1>2, CalledGrows
    <2>. QED
      BY <1>1, <1>2, <2>1 DEF Handed
  <1>3. CASE pool' = pool \cup {First} /\ UNCHANGED called
    BY <1>1, <1>3 DEF Handed
  <1>. QED
    BY <1>2, <1>3 DEF Dispatch

(* Draining hands over the frame of the slot. *)
LEMMA HandedByDrain ==
  ASSUME ShapeInv, NEW s \in Slots, DrainSlot(s), NEW f, Handed(f)'
  PROVE  Handed(f) \/ (slot[s] # None /\ slot'[s] = None /\ f = slot[s])
  <1>1. CASE UNCHANGED pool
    BY <1>1 DEF DrainSlot, Handed
  <1>2. CASE /\ slot[s] # None
             /\ slot' = [slot EXCEPT ![s] = None]
             /\ pool' = pool \cup {Task(handler_index(s), slot[s])}
    <2>1. slot'[s] = None
      BY <1>2 DEF ShapeInv
    <2>2. \A t \in pool' : t \in pool \/ t.frame = slot[s]
      BY <1>2 DEF Task
    <2>. QED
      BY <1>2, <2>1, <2>2 DEF DrainSlot, Handed
  <1>. QED
    BY <1>1, <1>2 DEF DrainSlot

(* A callback that the pool runs had been handed over before. *)
LEMMA HandedByPool ==
  ASSUME ShapeInv, spawn_blocking, NEW f, Handed(f)'
  PROVE  Handed(f)
  <1>1. PICK task \in pool : called' = Append(called, task) /\ pool' = pool \ {task}
    BY DEF spawn_blocking
  <1>2. /\ Len(called) \in Nat /\ Len(called') = Len(called) + 1
        /\ \A k \in 1 .. Len(called) : called'[k] = called[k]
        /\ called'[Len(called) + 1] = task
    BY <1>1, CalledGrows, Elements
  <1>. QED
    BY <1>1, <1>2 DEF Handed

(* Every step sends a frame where its priority says. *)
LEMMA NextPlace == ShapeInv /\ StepInv /\ PlaceInv /\ [Next]_vars => PlaceInv'
  <1> SUFFICES ASSUME ShapeInv, StepInv, PlaceInv, [Next]_vars PROVE PlaceInv'
    OBVIOUS
  <1> USE DEF queueVars, cacheVars, mainVars, workerVars
  <1>i. /\ wpc \in [Handlers -> WorkerSteps]
        /\ sample \in [Handlers -> Frame \cup {None}]
        /\ slot \in [Slots -> Frame \cup {None}]
        /\ received \in Nat /\ MaxFrames \in Nat
        /\ Len(queue) \in Nat
    BY Elements, BoundAssumption DEF ShapeInv
  <1>1. ASSUME NEW i \in Handlers, Receive(i) PROVE PlaceInv'
    <2>1. /\ UNCHANGED <<queue, slot, callVars>>
          /\ received' = received + 1 /\ received + 1 \in 1 .. MaxFrames
          /\ \A j \in Handlers \ {i} : wpc'[j] = wpc[j] /\ sample'[j] = sample[j]
          /\ sample'[i] = [handler |-> i, seq |-> received + 1]
      BY <1>i, <1>1 DEF Receive, WorkerGoto
    <2>2. UNCHANGED pool /\ \A f : Handed(f)' <=> Handed(f)
      BY <2>1, HandedFrame DEF callVars
    <2>3. \A j \in Handlers : Active(j)' =>
            sample'[j] \in Frame /\ sample'[j].handler = j /\ sample'[j].seq <= received'
      BY <1>i, <2>1 DEF PlaceInv, Active, Frame
    <2>4. \A k \in 1 .. Len(queue') : /\ Priority(queue'[k].handler) # "Background"
                                      /\ queue'[k].seq <= received'
      BY <1>i, <2>1, Elements DEF PlaceInv, Frame
    <2>5. \A s \in Slots : slot'[s] # None =>
            /\ Priority(slot'[s].handler) = "Background"
            /\ Path(slot'[s].handler) = s
            /\ slot'[s].seq <= received'
      BY <1>i, <2>1 DEF PlaceInv, Frame
    <2>6. \A f \in Frame : Handed(f)' => f.seq <= received'
      BY <1>i, <2>1, <2>2 DEF PlaceInv, Frame
    <2>. QED
      BY <2>2, <2>3, <2>4, <2>5, <2>6 DEF PlaceInv
  <1>2. ASSUME NEW i \in Handlers, Push(i) PROVE PlaceInv'
    <2>1. /\ UNCHANGED <<slot, callVars, sample, received>>
          /\ \A j \in Handlers : Active(j)' => Active(j)
          /\ Active(i) /\ Priority(i) # "Background"
      BY <1>i, <1>2 DEF Push, WorkerGoto, AfterPush, Active, StepInv
    <2>2. UNCHANGED pool /\ \A f : Handed(f)' <=> Handed(f)
      BY <2>1, HandedFrame DEF callVars
    <2>3. \A k \in 1 .. Len(queue') : /\ Priority(queue'[k].handler) # "Background"
                                      /\ queue'[k].seq <= received
      <3>1. sample[i] \in Frame /\ sample[i].handler = i /\ sample[i].seq <= received
        BY <2>1 DEF PlaceInv
      <3>2. CASE UNCHANGED queue
        BY <3>2 DEF PlaceInv
      <3>3. CASE queue' = Append(queue, sample[i])
        <4>1. /\ Len(queue') = Len(queue) + 1
              /\ \A k \in 1 .. Len(queue) : queue'[k] = queue[k]
              /\ queue'[Len(queue) + 1] = sample[i]
          BY <3>1, <3>3, QueueGrows
        <4>. QED
          BY <1>i, <2>1, <3>1, <4>1 DEF PlaceInv
      <3>. QED
        BY <1>2, <3>2, <3>3 DEF Push
    <2>. QED
      BY <2>1, <2>2, <2>3 DEF PlaceInv
  <1>3. ASSUME NEW i \in Handlers, PutAssign(i) PROVE PlaceInv'
    <2>1. /\ UNCHANGED <<queue, callVars, sample, received>>
          /\ \A j \in Handlers : Active(j)' => Active(j)
          /\ Active(i) /\ Priority(i) = "Background"
          /\ slot' = [slot EXCEPT ![Path(i)] = sample[i]]
      BY <1>i, <1>3 DEF PutAssign, WorkerGoto, Active, StepInv
    <2>2. UNCHANGED pool /\ \A f : Handed(f)' <=> Handed(f)
      BY <2>1, HandedFrame DEF callVars
    <2>3. \A s \in Slots : slot'[s] # None =>
            /\ Priority(slot'[s].handler) = "Background"
            /\ Path(slot'[s].handler) = s
            /\ slot'[s].seq <= received
      BY <1>i, <2>1 DEF PlaceInv
    <2>. QED
      BY <2>1, <2>2, <2>3 DEF PlaceInv
  <1>4. ASSUME UNCHANGED <<queue, slot, callVars, sample, received>>,
               \A j \in Handlers : Active(j)' => Active(j)
        PROVE  PlaceInv'
    <2>1. UNCHANGED pool /\ \A f : Handed(f)' <=> Handed(f)
      BY <1>4, HandedFrame DEF callVars
    <2>. QED
      BY <1>4, <2>1 DEF PlaceInv
  <1>5. ASSUME NEW i \in Handlers, NotifyOne(i) \/ PutLock(i) PROVE PlaceInv'
    BY <1>i, <1>4, <1>5 DEF NotifyOne, PutLock, WorkerGoto, Active
  <1>6. ASSUME Declare PROVE PlaceInv'
    BY <1>i, <1>4, <1>6 DEF Declare, Active
  <1>7. ASSUME Moves PROVE PlaceInv'
    BY <1>4, <1>7, MovesFrame DEF Active
  <1>8. ASSUME Dispatch PROVE PlaceInv'
    <2>1. /\ UNCHANGED <<slot, sample, received, wpc>>
          /\ queue' = Tail(queue) /\ queue # <<>>
          /\ pool' \in {pool, pool \cup {First}}
          /\ pool' # pool => Priority(First.by) # "Critical"
      BY <1>8 DEF Dispatch
    <2>2. /\ queue[1] \in Frame /\ 1 \in 1 .. Len(queue)
          /\ First.by = queue[1].handler /\ First.frame = queue[1]
          /\ \A k \in 1 .. Len(queue') :
               k + 1 \in 1 .. Len(queue) /\ queue'[k] = queue[k + 1]
      BY <2>1, HeadFacts
    <2>3. \A f : Handed(f)' => Handed(f) \/ f = queue[1]
      BY <1>8, HandedByDispatch
    <2>4. \A t \in pool' : Priority(t.frame.handler) # "Critical"
      BY <2>1, <2>2 DEF PlaceInv
    <2>. QED
      BY <2>1, <2>2, <2>3, <2>4 DEF PlaceInv, Active
  <1>9. ASSUME NEW s \in Slots, DrainSlot(s) PROVE PlaceInv'
    <2>1. /\ UNCHANGED <<queue, sample, received, wpc>>
          /\ \A r \in Slots : slot'[r] # None => slot'[r] = slot[r]
          /\ \A t \in pool' : t \in pool \/ (slot[s] # None /\ t.frame = slot[s])
      BY <1>i, <1>9 DEF DrainSlot, Task
    <2>2. \A f : Handed(f)' => Handed(f) \/ (slot[s] # None /\ f = slot[s])
      BY <1>9, HandedByDrain
    <2>3. \A t \in pool' : Priority(t.frame.handler) # "Critical"
      BY <2>1 DEF PlaceInv
    <2>. QED
      BY <2>1, <2>2, <2>3 DEF PlaceInv, Active
  <1>10. ASSUME spawn_blocking PROVE PlaceInv'
    <2>1. UNCHANGED <<queue, slot, sample, received, wpc>> /\ pool' \subseteq pool
      BY <1>10 DEF spawn_blocking
    <2>2. \A f : Handed(f)' => Handed(f)
      BY <1>10, HandedByPool
    <2>. QED
      BY <2>1, <2>2 DEF PlaceInv, Active
  <1>11. CASE UNCHANGED vars
    BY <1>4, <1>11 DEF vars, Active
  <1>. QED
    BY <1>1, <1>2, <1>3, <1>5, <1>6, <1>7, <1>8, <1>9, <1>10, <1>11, Steps

(* No frame overtakes an older one of its handler before it is handed over. *)
LEMMA NextOrder ==
  ShapeInv /\ StepInv /\ PlaceInv /\ OrderInv /\ [Next]_vars => OrderInv'
  <1> SUFFICES ASSUME ShapeInv, StepInv, PlaceInv, OrderInv, [Next]_vars
               PROVE  OrderInv'
    OBVIOUS
  <1> USE DEF queueVars, cacheVars, mainVars, workerVars
  <1>i. /\ wpc \in [Handlers -> WorkerSteps]
        /\ sample \in [Handlers -> Frame \cup {None}]
        /\ slot \in [Slots -> Frame \cup {None}]
        /\ received \in Nat
        /\ Len(queue) \in Nat
        /\ \A k \in 1 .. Len(queue) : queue[k] \in Frame
        /\ \A f \in Frame : f.handler \in Handlers /\ f.seq \in Nat
    BY Elements, BoundAssumption DEF ShapeInv, Frame
  <1>1. ASSUME NEW i \in Handlers, Receive(i) PROVE OrderInv'
    <2>1. /\ UNCHANGED <<queue, slot, callVars>>
          /\ \A j \in Handlers \ {i} : wpc'[j] = wpc[j] /\ sample'[j] = sample[j]
          /\ sample'[i] = [handler |-> i, seq |-> received + 1]
      BY <1>i, <1>1 DEF Receive, WorkerGoto
    <2>2. \A f : Handed(f)' <=> Handed(f)
      BY <2>1, HandedFrame
    <2>3. /\ \A k \in 1 .. Len(queue) : queue[k].seq < received + 1
          /\ \A s \in Slots : slot[s] # None => slot[s].seq < received + 1
          /\ \A f \in Frame : Handed(f) => f.seq < received + 1
      BY <1>i DEF PlaceInv
    <2>. QED
      BY <1>i, <2>1, <2>2, <2>3 DEF OrderInv, Active
  <1>2. ASSUME NEW i \in Handlers, Push(i) PROVE OrderInv'
    <2>1. /\ UNCHANGED <<slot, callVars, sample>>
          /\ \A j \in Handlers : Active(j)' => Active(j) /\ j # i
          /\ Active(i)
      BY <1>i, <1>2 DEF Push, WorkerGoto, AfterPush, Active
    <2>2. \A f : Handed(f)' <=> Handed(f)
      BY <2>1, HandedFrame
    <2>3. sample[i] \in Frame /\ sample[i].handler = i
      BY <2>1 DEF PlaceInv
    <2>4. CASE UNCHANGED queue
      BY <1>i, <2>1, <2>2, <2>4 DEF OrderInv
    <2>5. CASE queue' = Append(queue, sample[i])
      <3>1. /\ Len(queue') = Len(queue) + 1
            /\ \A k \in 1 .. Len(queue) : queue'[k] = queue[k]
            /\ queue'[Len(queue) + 1] = sample[i]
        BY <2>3, <2>5, QueueGrows
      <3>2. \A j, k \in 1 .. Len(queue') :
              j < k /\ queue'[j].handler = queue'[k].handler
                => queue'[j].seq < queue'[k].seq
        BY <1>i, <2>1, <2>3, <3>1 DEF OrderInv
      <3>3. \A j \in Handlers : Active(j)' =>
              \A k \in 1 .. Len(queue') :
                queue'[k].handler = j => queue'[k].seq < sample[j].seq
        BY <1>i, <2>1, <2>3, <3>1 DEF OrderInv
      <3>4. \A f \in Frame : Handed(f) => \A k \in 1 .. Len(queue') :
              queue'[k].handler = f.handler => f.seq < queue'[k].seq
        BY <1>i, <2>1, <2>3, <3>1 DEF OrderInv
      <3>. QED
        BY <1>i, <2>1, <2>2, <3>2, <3>3, <3>4 DEF OrderInv
    <2>. QED
      BY <1>2, <2>4, <2>5 DEF Push
  <1>3. ASSUME NEW i \in Handlers, PutAssign(i) PROVE OrderInv'
    <2>1. /\ UNCHANGED <<queue, callVars, sample>>
          /\ \A j \in Handlers : Active(j)' => Active(j) /\ j # i
          /\ Active(i)
          /\ slot' = [slot EXCEPT ![Path(i)] = sample[i]]
      BY <1>i, <1>3 DEF PutAssign, WorkerGoto, Active
    <2>2. \A f : Handed(f)' <=> Handed(f)
      BY <2>1, HandedFrame
    <2>3. sample[i] \in Frame /\ sample[i].handler = i
      BY <2>1 DEF PlaceInv
    <2>4. \A s \in Slots : slot'[s] = slot[s] \/ slot'[s] = sample[i]
      BY <1>i, <2>1
    <2>5. \A j \in Handlers : Active(j)' => \A s \in Slots :
            slot'[s] # None /\ slot'[s].handler = j => slot'[s].seq < sample[j].seq
      BY <2>1, <2>3, <2>4 DEF OrderInv
    <2>6. \A f \in Frame : Handed(f) => \A s \in Slots :
            slot'[s] # None /\ slot'[s].handler = f.handler => f.seq < slot'[s].seq
      BY <2>1, <2>3, <2>4 DEF OrderInv
    <2>. QED
      BY <1>i, <2>1, <2>2, <2>5, <2>6 DEF OrderInv
  <1>4. ASSUME UNCHANGED <<queue, slot, callVars, sample>>,
               \A j \in Handlers : Active(j)' => Active(j)
        PROVE  OrderInv'
    <2>1. \A f : Handed(f)' <=> Handed(f)
      BY <1>4, HandedFrame
    <2>. QED
      BY <1>i, <1>4, <2>1 DEF OrderInv
  <1>5. ASSUME NEW i \in Handlers, NotifyOne(i) \/ PutLock(i) PROVE OrderInv'
    BY <1>i, <1>4, <1>5 DEF NotifyOne, PutLock, WorkerGoto, Active
  <1>6. ASSUME Declare PROVE OrderInv'
    BY <1>i, <1>4, <1>6 DEF Declare, Active
  <1>7. ASSUME Moves PROVE OrderInv'
    BY <1>4, <1>7, MovesFrame DEF Active
  <1>8. ASSUME Dispatch PROVE OrderInv'
    <2>1. /\ UNCHANGED <<slot, sample, wpc>>
          /\ queue' = Tail(queue) /\ queue # <<>>
      BY <1>8 DEF Dispatch
    <2>2. /\ queue[1] \in Frame /\ 1 \in 1 .. Len(queue)
          /\ \A k \in 1 .. Len(queue') :
               k + 1 \in 1 .. Len(queue) /\ queue'[k] = queue[k + 1]
      BY <2>1, HeadFacts
    <2>3. \A f : Handed(f)' => Handed(f) \/ f = queue[1]
      BY <1>8, HandedByDispatch
    <2>4. \A k \in 1 .. Len(queue') :
            queue'[k].handler = queue[1].handler => queue[1].seq < queue'[k].seq
      <3> SUFFICES ASSUME NEW k \in 1 .. Len(queue'),
                          queue'[k].handler = queue[1].handler
                   PROVE  queue[1].seq < queue'[k].seq
        OBVIOUS
      <3>1. k + 1 \in 1 .. Len(queue) /\ queue'[k] = queue[k + 1] /\ 1 < k + 1
        BY <2>2
      <3>. QED
        BY <2>2, <3>1 DEF OrderInv
    <2>5. /\ \A s \in Slots : slot[s] # None => slot[s].handler # queue[1].handler
          /\ Active(queue[1].handler) => queue[1].seq < sample[queue[1].handler].seq
      BY <1>i, <2>2 DEF OrderInv, PlaceInv
    <2>6. \A j, k \in 1 .. Len(queue') :
            j < k /\ queue'[j].handler = queue'[k].handler
              => queue'[j].seq < queue'[k].seq
      <3> SUFFICES ASSUME NEW j \in 1 .. Len(queue'), NEW k \in 1 .. Len(queue'),
                          j < k, queue'[j].handler = queue'[k].handler
                   PROVE  queue'[j].seq < queue'[k].seq
        OBVIOUS
      <3>1. /\ j + 1 \in 1 .. Len(queue) /\ queue'[j] = queue[j + 1]
            /\ k + 1 \in 1 .. Len(queue) /\ queue'[k] = queue[k + 1]
            /\ j + 1 < k + 1
        BY <2>2
      <3>. QED
        BY <3>1 DEF OrderInv
    <2>. QED
      BY <1>i, <2>1, <2>2, <2>3, <2>4, <2>5, <2>6 DEF OrderInv, Active
  <1>9. ASSUME NEW s \in Slots, DrainSlot(s) PROVE OrderInv'
    <2>1. /\ UNCHANGED <<queue, sample, wpc>>
          /\ \A r \in Slots : slot'[r] # None => slot'[r] = slot[r]
      BY <1>i, <1>9 DEF DrainSlot
    <2>2. \A f : Handed(f)' =>
            Handed(f) \/ (slot[s] # None /\ slot'[s] = None /\ f = slot[s])
      BY <1>9, HandedByDrain
    <2>3. ASSUME slot[s] # None, slot'[s] = None
          PROVE  /\ \A k \in 1 .. Len(queue) : queue[k].handler # slot[s].handler
                 /\ \A r \in Slots :
                      slot'[r] # None => slot'[r].handler # slot[s].handler
                 /\ Active(slot[s].handler) =>
                      slot[s].seq < sample[slot[s].handler].seq
      BY <1>i, <2>1, <2>3 DEF OrderInv, PlaceInv
    <2>. QED
      BY <1>i, <2>1, <2>2, <2>3 DEF OrderInv, Active
  <1>10. ASSUME spawn_blocking PROVE OrderInv'
    <2>1. UNCHANGED <<queue, slot, sample, wpc>>
      BY <1>10 DEF spawn_blocking
    <2>2. \A f : Handed(f)' => Handed(f)
      BY <1>10, HandedByPool
    <2>. QED
      BY <1>i, <2>1, <2>2 DEF OrderInv, Active
  <1>11. CASE UNCHANGED vars
    BY <1>4, <1>11 DEF vars, Active
  <1>. QED
    BY <1>1, <1>2, <1>3, <1>5, <1>6, <1>7, <1>8, <1>9, <1>10, <1>11, Steps

(***************************************************************************)
(* CRITICAL callbacks are called in order                                  *)
(***************************************************************************)

(* What holds of the calls so far and of the next one holds of them all. *)
LEMMA CriticalExtends ==
  ASSUME ShapeInv, CriticalInOrder, NEW t \in Tasks, called' = Append(called, t),
         Priority(t.frame.handler) = "Critical" =>
           /\ t.by = t.frame.handler
           /\ \A j \in 1 .. Len(called) : called[j].frame.handler = t.frame.handler
                => called[j].frame.seq < t.frame.seq
  PROVE  CriticalInOrder'
  <1>1. /\ Len(called) \in Nat /\ Len(called') = Len(called) + 1
        /\ \A k \in 1 .. Len(called) : called'[k] = called[k]
        /\ called'[Len(called) + 1] = t
    BY CalledGrows
  <1> SUFFICES ASSUME NEW k \in 1 .. Len(called'),
                      Priority(called'[k].frame.handler) = "Critical"
               PROVE  /\ called'[k].by = called'[k].frame.handler
                      /\ \A j \in 1 .. k - 1 :
                           called'[j].frame.handler = called'[k].frame.handler
                             => called'[j].frame.seq < called'[k].frame.seq
    BY DEF CriticalInOrder
  <1>2. CASE k \in 1 .. Len(called)
    <2>1. called'[k] = called[k] /\ \A j \in 1 .. k - 1 : called'[j] = called[j]
      BY <1>1, <1>2
    <2>. QED
      BY <1>2, <2>1 DEF CriticalInOrder
  <1>3. CASE k = Len(called) + 1
    <2>1. called'[k] = t /\ \A j \in 1 .. k - 1 :
            j \in 1 .. Len(called) /\ called'[j] = called[j]
      BY <1>1, <1>3
    <2>. QED
      BY <2>1
  <1>. QED
    BY <1>1, <1>2, <1>3

(* Calling the head of the queue keeps CRITICAL frames in order. *)
LEMMA NextCritical ==
  ShapeInv /\ PlaceInv /\ OrderInv /\ CriticalInOrder /\ [Next]_vars
    => CriticalInOrder'
  <1> SUFFICES ASSUME ShapeInv, PlaceInv, OrderInv, CriticalInOrder, [Next]_vars
               PROVE  CriticalInOrder'
    OBVIOUS
  <1>1. CASE UNCHANGED called
    BY <1>1 DEF CriticalInOrder
  <1>2. CASE Dispatch /\ called' = Append(called, First)
    <2>1. /\ First \in Tasks /\ First.frame = queue[1] /\ 1 \in 1 .. Len(queue)
          /\ First.by = First.frame.handler
      BY <1>2, HeadFacts DEF Dispatch
    <2>2. \A j \in 1 .. Len(called) : called[j].frame.handler = First.frame.handler
            => called[j].frame.seq < First.frame.seq
      <3> SUFFICES ASSUME NEW j \in 1 .. Len(called),
                          called[j].frame.handler = First.frame.handler
                   PROVE  called[j].frame.seq < First.frame.seq
        OBVIOUS
      <3>1. called[j].frame \in Frame /\ Handed(called[j].frame)
        BY Elements DEF Tasks, Handed
      <3>. QED
        BY <2>1, <3>1 DEF OrderInv
    <2>. QED
      BY <1>2, <2>1, <2>2, CriticalExtends
  <1>3. CASE spawn_blocking
    <2>1. PICK task \in pool : called' = Append(called, task)
      BY <1>3 DEF spawn_blocking
    <2>2. task \in Tasks /\ Priority(task.frame.handler) # "Critical"
      BY Elements DEF PlaceInv
    <2>. QED
      BY <2>1, <2>2, CriticalExtends
  <1>4. ASSUME \/ \E i \in Handlers : \/ Receive(i) \/ Push(i) \/ NotifyOne(i)
                                      \/ PutLock(i) \/ PutAssign(i)
               \/ Declare \/ Moves \/ (\E s \in Slots : DrainSlot(s))
               \/ UNCHANGED vars
        PROVE  UNCHANGED called
    BY <1>4, MovesFrame
    DEF Receive, Push, NotifyOne, PutLock, PutAssign, Declare, DrainSlot, vars,
        callVars
  <1>5. Dispatch => UNCHANGED called \/ called' = Append(called, First)
    BY DEF Dispatch
  <1>. QED
    BY <1>1, <1>2, <1>3, <1>4, <1>5, Steps

(***************************************************************************)
(* Every frame is accounted for                                            *)
(***************************************************************************)
InHand == {i \in Handlers : Active(i)}
Occupied == {s \in Slots : slot[s] # None}

(* Frames in hand, queued, refused, in slots, overwritten, with the pool   *)
(* and handed to a callback.                                               *)
Total(h, q, d, o, c, p, k) == h + q + d + o + c + p + k

(* The terms of the account are natural numbers, and each grows or shrinks *)
(* by one element at a time.                                               *)
LEMMA AccountTerms ==
  ASSUME ShapeInv
  PROVE  /\ FramesAccounted <=>
              received = Total(Cardinality(InHand), Len(queue), dropped,
                           Cardinality(Occupied), drop_count, Cardinality(pool),
                           Len(called))
         /\ IsFiniteSet(InHand) /\ Cardinality(InHand) \in Nat
         /\ IsFiniteSet(Occupied) /\ Cardinality(Occupied) \in Nat
         /\ IsFiniteSet(pool) /\ Cardinality(pool) \in Nat
         /\ Len(queue) \in Nat /\ Len(called) \in Nat
         /\ dropped \in Nat /\ drop_count \in Nat /\ received \in Nat
  <1>1. InHand \in SUBSET Handlers /\ Occupied \in SUBSET Slots
    BY DEF InHand, Occupied
  <1>2. IsFiniteSet(InHand) /\ IsFiniteSet(Occupied) /\ IsFiniteSet(pool)
    BY <1>1, Finite, FS_Subset DEF ShapeInv
  <1>3. /\ Cardinality(InHand) \in Nat /\ Cardinality(Occupied) \in Nat
        /\ Cardinality(pool) \in Nat
    BY <1>2, FS_CardinalityType
  <1>4. FramesAccounted <=>
          received = Total(Cardinality(InHand), Len(queue), dropped,
                           Cardinality(Occupied), drop_count, Cardinality(pool),
                           Len(called))
    BY DEF FramesAccounted, InHand, Occupied, Active, Total
  <1>. QED
    BY <1>2, <1>3, <1>4, Elements DEF ShapeInv

(* Every step moves a frame from one place to one other. *)
LEMMA NextAccount ==
  ShapeInv /\ StepInv /\ PlaceInv /\ OrderInv /\ FramesAccounted /\ [Next]_vars
    => FramesAccounted'
  <1> SUFFICES ASSUME ShapeInv, StepInv, PlaceInv, OrderInv, FramesAccounted,
                      [Next]_vars
               PROVE  FramesAccounted'
    OBVIOUS
  <1> USE DEF queueVars, cacheVars, mainVars, workerVars, callVars
  <1> DEFINE After == Total(Cardinality(InHand'), Len(queue'), dropped',
                            Cardinality(Occupied'), drop_count', Cardinality(pool'),
                            Len(called'))
  <1>i. /\ wpc \in [Handlers -> WorkerSteps]
        /\ slot \in [Slots -> Frame \cup {None}]
    BY DEF ShapeInv
  <1> DEFINE h == Cardinality(InHand)
             q == Len(queue)
             o == Cardinality(Occupied)
             p == Cardinality(pool)
             n == Len(called)
  <1>a. /\ received = Total(h, q, dropped, o, drop_count, p, n)
        /\ h \in Nat /\ q \in Nat /\ o \in Nat /\ p \in Nat /\ n \in Nat
        /\ dropped \in Nat /\ drop_count \in Nat /\ received \in Nat
    BY AccountTerms
  <1>f. IsFiniteSet(InHand) /\ IsFiniteSet(Occupied) /\ IsFiniteSet(pool)
    BY AccountTerms
  <1>b. FramesAccounted' <=> received' = After
    BY DEF FramesAccounted, InHand, Occupied, Active, Total
  <1> HIDE DEF h, q, o, p, n
  <1>1. ASSUME NEW i \in Handlers, Receive(i) PROVE FramesAccounted'
    <2>1. InHand' = InHand \cup {i} /\ i \notin InHand
      BY <1>i, <1>1 DEF Receive, WorkerGoto, InHand, Active
    <2>2. Cardinality(InHand') = Cardinality(InHand) + 1
      BY <1>f, <2>1, FS_AddElement
    <2>3. received' = received + 1 /\ UNCHANGED <<queueVars, cacheVars, callVars>>
      BY <1>1 DEF Receive
    <2>4. Occupied' = Occupied
      BY <2>3 DEF Occupied
    <2>5. /\ received' = received + 1
          /\ Cardinality(InHand') = Cardinality(InHand) + 1
          /\ Len(queue') = Len(queue) /\ dropped' = dropped
          /\ Cardinality(Occupied') = Cardinality(Occupied)
          /\ drop_count' = drop_count
          /\ Cardinality(pool') = Cardinality(pool)
          /\ Len(called') = Len(called)
      BY <2>2, <2>3, <2>4
    <2>6. Total(h + 1, q, dropped, o, drop_count, p, n) = received + 1
      BY <1>a DEF Total
    <2>. QED
      BY <1>b, <2>5, <2>6 DEF h, q, o, p, n
  <1>2. ASSUME NEW i \in Handlers, Push(i) PROVE FramesAccounted'
    <2>1. InHand' = InHand \ {i} /\ i \in InHand
      BY <1>i, <1>2 DEF Push, WorkerGoto, AfterPush, InHand, Active
    <2>2. Cardinality(InHand') = Cardinality(InHand) - 1
      BY <1>f, <2>1, FS_RemoveElement
    <2>3. UNCHANGED <<cacheVars, received, callVars>>
      BY <1>2 DEF Push
    <2>4. Occupied' = Occupied
      BY <2>3 DEF Occupied
    <2>5. \/ Len(queue') = Len(queue) + 1 /\ dropped' = dropped
          \/ Len(queue') = Len(queue) /\ dropped' = dropped + 1
      <3>1. sample[i] \in Frame
        BY <1>2 DEF Push, WorkerGoto, PlaceInv, Active
      <3>2. CASE queue' = Append(queue, sample[i]) /\ UNCHANGED dropped
        BY <3>1, <3>2, QueueGrows
      <3>3. CASE dropped' = dropped + 1 /\ UNCHANGED queue
        BY <3>3
      <3>. QED
        BY <1>2, <3>2, <3>3 DEF Push
    <2>6. /\ received' = received /\ Cardinality(InHand') = Cardinality(InHand) - 1
          /\ Cardinality(Occupied') = Cardinality(Occupied)
          /\ drop_count' = drop_count /\ Cardinality(pool') = Cardinality(pool)
          /\ Len(called') = Len(called)
      BY <2>2, <2>3, <2>4
    <2>7. /\ Total(h - 1, q + 1, dropped, o, drop_count, p, n) = received
          /\ Total(h - 1, q, dropped + 1, o, drop_count, p, n) = received
      BY <1>a DEF Total
    <2>. QED
      BY <1>b, <2>5, <2>6, <2>7 DEF h, q, o, p, n
  <1>3. ASSUME NEW i \in Handlers, PutAssign(i) PROVE FramesAccounted'
    <2>1. InHand' = InHand \ {i} /\ i \in InHand
      BY <1>i, <1>3 DEF PutAssign, WorkerGoto, InHand, Active
    <2>2. Cardinality(InHand') = Cardinality(InHand) - 1
      BY <1>f, <2>1, FS_RemoveElement
    <2>3. /\ UNCHANGED <<queueVars, received, callVars>>
          /\ slot' = [slot EXCEPT ![Path(i)] = sample[i]]
          /\ drop_count' = IF slot[Path(i)] # None THEN drop_count + 1 ELSE drop_count
      BY <1>3 DEF PutAssign
    <2>4. Path(i) \in Slots /\ sample[i] # None
      BY <1>3, HandlerFacts, NoneAssumption
      DEF PutAssign, WorkerGoto, StepInv, PlaceInv, Active
    <2>5. CASE slot[Path(i)] = None
      <3>1. Occupied' = Occupied \cup {Path(i)} /\ Path(i) \notin Occupied
        BY <1>i, <2>3, <2>4, <2>5 DEF Occupied
      <3>2. Cardinality(Occupied') = Cardinality(Occupied) + 1
        BY <1>f, <3>1, FS_AddElement
      <3>3. Total(h - 1, q, dropped, o + 1, drop_count, p, n) = received
        BY <1>a DEF Total
      <3>. QED
        BY <1>b, <2>2, <2>3, <2>5, <3>2, <3>3 DEF h, q, o, p, n
    <2>6. CASE slot[Path(i)] # None
      <3>1. Occupied' = Occupied
        BY <1>i, <2>3, <2>4, <2>6 DEF Occupied
      <3>2. /\ received' = received
            /\ Cardinality(InHand') = Cardinality(InHand) - 1
            /\ Len(queue') = Len(queue) /\ dropped' = dropped
            /\ Cardinality(Occupied') = Cardinality(Occupied)
            /\ drop_count' = drop_count + 1
            /\ Cardinality(pool') = Cardinality(pool)
            /\ Len(called') = Len(called)
        BY <2>2, <2>3, <2>6, <3>1
      <3>3. Total(h - 1, q, dropped, o, drop_count + 1, p, n) = received
        BY <1>a DEF Total
      <3>. QED
        BY <1>b, <3>2, <3>3 DEF h, q, o, p, n
    <2>. QED
      BY <2>5, <2>6
  <1>4. ASSUME UNCHANGED <<queueVars, cacheVars, received, callVars>>,
               InHand' = InHand
        PROVE  FramesAccounted'
    <2>1. Occupied' = Occupied
      BY <1>4 DEF Occupied
    <2>. QED
      BY <1>a, <1>b, <1>4, <2>1 DEF h, q, o, p, n
  <1>5. ASSUME NEW i \in Handlers, NotifyOne(i) PROVE FramesAccounted'
    <2>1. InHand' = InHand
      BY <1>i, <1>5 DEF NotifyOne, WorkerGoto, InHand, Active
    <2>. QED
      BY <1>4, <1>5, <2>1 DEF NotifyOne
  <1>6. ASSUME NEW i \in Handlers, PutLock(i) PROVE FramesAccounted'
    <2>1. InHand' = InHand
      BY <1>i, <1>6 DEF PutLock, WorkerGoto, InHand, Active
    <2>2. UNCHANGED <<queueVars, slot, drop_count, received, callVars>>
      BY <1>6 DEF PutLock
    <2>3. Occupied' = Occupied
      BY <2>2 DEF Occupied
    <2>. QED
      BY <1>a, <1>b, <2>1, <2>2, <2>3 DEF h, q, o, p, n
  <1>7. ASSUME Declare PROVE FramesAccounted'
    <2>1. next \in Handlers /\ wpc[next] = "none"
      BY <1>7, HandlerFacts DEF Declare, MainGoto, StepInv, ShapeInv
    <2>2. InHand' = InHand
      BY <1>i, <1>7, <2>1 DEF Declare, InHand, Active
    <2>. QED
      BY <1>4, <1>7, <2>2 DEF Declare
  <1>8. ASSUME Moves PROVE FramesAccounted'
    <2>1. UNCHANGED <<queueVars, cacheVars, workerVars, callVars>>
      BY <1>8, MovesFrame
    <2>2. InHand' = InHand
      BY <2>1 DEF InHand, Active
    <2>. QED
      BY <1>4, <2>1, <2>2
  <1>9. ASSUME Dispatch PROVE FramesAccounted'
    <2>1. /\ UNCHANGED <<dropped, cacheVars, workerVars>>
          /\ queue' = Tail(queue) /\ queue # <<>>
      BY <1>9 DEF Dispatch
    <2>2. /\ First \in Tasks /\ First.frame = queue[1] /\ queue[1] \in Frame
          /\ 1 \in 1 .. Len(queue) /\ Len(queue') = Len(queue) - 1
      BY <2>1, HeadFacts
    <2>3. InHand' = InHand /\ Occupied' = Occupied
      BY <2>1 DEF InHand, Occupied, Active
    <2>4. CASE called' = Append(called, First) /\ UNCHANGED pool
      <3>1. Len(called') = Len(called) + 1
        BY <2>2, <2>4, CalledGrows
      <3>2. /\ received' = received
            /\ Cardinality(InHand') = Cardinality(InHand)
            /\ Len(queue') = Len(queue) - 1 /\ dropped' = dropped
            /\ Cardinality(Occupied') = Cardinality(Occupied)
            /\ drop_count' = drop_count
            /\ Cardinality(pool') = Cardinality(pool)
            /\ Len(called') = Len(called) + 1
        BY <2>1, <2>2, <2>3, <2>4, <3>1
      <3>3. Total(h, q - 1, dropped, o, drop_count, p, n + 1) = received
        BY <1>a DEF Total
      <3>. QED
        BY <1>b, <3>2, <3>3 DEF h, q, o, p, n
    <2>5. CASE pool' = pool \cup {First} /\ UNCHANGED called
      <3>1. First \notin pool
        <4>1. ~Handed(queue[1])
          BY <2>2 DEF OrderInv, Frame
        <4>. QED
          BY <2>2, <4>1 DEF Handed
      <3>2. Cardinality(pool') = Cardinality(pool) + 1
        BY <1>f, <2>5, <3>1, FS_AddElement
      <3>3. /\ received' = received
            /\ Cardinality(InHand') = Cardinality(InHand)
            /\ Len(queue') = Len(queue) - 1 /\ dropped' = dropped
            /\ Cardinality(Occupied') = Cardinality(Occupied)
            /\ drop_count' = drop_count
            /\ Cardinality(pool') = Cardinality(pool) + 1
            /\ Len(called') = Len(called)
        BY <2>1, <2>2, <2>3, <2>5, <3>2
      <3>4. Total(h, q - 1, dropped, o, drop_count, p + 1, n) = received
        BY <1>a DEF Total
      <3>. QED
        BY <1>b, <3>3, <3>4 DEF h, q, o, p, n
    <2>. QED
      BY <1>9, <2>4, <2>5 DEF Dispatch
  <1>10. ASSUME NEW s \in Slots, DrainSlot(s) PROVE FramesAccounted'
    <2> DEFINE t == Task(handler_index(s), slot[s])
    <2>1. UNCHANGED <<queueVars, drop_count, workerVars, called>>
      BY <1>10 DEF DrainSlot
    <2>2. InHand' = InHand
      BY <2>1 DEF InHand, Active
    <2>3. CASE UNCHANGED <<slot, pool>>
      <3>1. Occupied' = Occupied
        BY <2>3 DEF Occupied
      <3>. QED
        BY <1>a, <1>b, <2>1, <2>2, <2>3, <3>1 DEF h, q, o, p, n
    <2>4. CASE /\ slot[s] # None
               /\ slot' = [slot EXCEPT ![s] = None]
               /\ pool' = pool \cup {t}
      <3>1. Occupied' = Occupied \ {s} /\ s \in Occupied
        BY <1>i, <2>4 DEF Occupied
      <3>2. Cardinality(Occupied') = Cardinality(Occupied) - 1
        BY <1>f, <3>1, FS_RemoveElement
      <3>3. t \notin pool
        <4>1. slot[s] \in Frame /\ t.frame = slot[s]
          BY <1>i, <2>4 DEF Task
        <4>2. ~Handed(slot[s])
          BY <2>4, <4>1 DEF OrderInv, Frame
        <4>. QED
          BY <4>1, <4>2 DEF Handed
      <3>4. Cardinality(pool') = Cardinality(pool) + 1
        <4> HIDE DEF t
        <4>. QED
          BY <1>f, <2>4, <3>3, FS_AddElement
      <3>5. /\ received' = received
            /\ Cardinality(InHand') = Cardinality(InHand)
            /\ Len(queue') = Len(queue) /\ dropped' = dropped
            /\ Cardinality(Occupied') = Cardinality(Occupied) - 1
            /\ drop_count' = drop_count
            /\ Cardinality(pool') = Cardinality(pool) + 1
            /\ Len(called') = Len(called)
        BY <2>1, <2>2, <3>2, <3>4
      <3>6. Total(h, q, dropped, o - 1, drop_count, p + 1, n) = received
        BY <1>a DEF Total
      <3>. QED
        BY <1>b, <3>5, <3>6 DEF h, q, o, p, n
    <2>. QED
      BY <1>10, <2>3, <2>4 DEF DrainSlot
  <1>11. ASSUME spawn_blocking PROVE FramesAccounted'
    <2>1. PICK task \in pool : called' = Append(called, task) /\ pool' = pool \ {task}
      BY <1>11 DEF spawn_blocking
    <2>2. Len(called') = Len(called) + 1
      BY <2>1, CalledGrows, Elements
    <2>3. Cardinality(pool') = Cardinality(pool) - 1
      BY <1>f, <2>1, FS_RemoveElement
    <2>4. UNCHANGED <<queueVars, cacheVars, workerVars>>
      BY <1>11 DEF spawn_blocking
    <2>5. InHand' = InHand /\ Occupied' = Occupied
      BY <2>4 DEF InHand, Occupied, Active
    <2>6. /\ received' = received
          /\ Cardinality(InHand') = Cardinality(InHand)
          /\ Len(queue') = Len(queue) /\ dropped' = dropped
          /\ Cardinality(Occupied') = Cardinality(Occupied)
          /\ drop_count' = drop_count
          /\ Cardinality(pool') = Cardinality(pool) - 1
          /\ Len(called') = Len(called) + 1
      BY <2>2, <2>3, <2>4, <2>5
    <2>7. Total(h, q, dropped, o, drop_count, p - 1, n + 1) = received
      BY <1>a DEF Total
    <2>. QED
      BY <1>b, <2>6, <2>7 DEF h, q, o, p, n
  <1>12. CASE UNCHANGED vars
    <2>1. InHand' = InHand
      BY <1>12 DEF vars, InHand, Active
    <2>. QED
      BY <1>4, <1>12, <2>1 DEF vars
  <1>. QED
    BY <1>1, <1>2, <1>3, <1>5, <1>6, <1>7, <1>8, <1>9, <1>10, <1>11, <1>12, Steps

(***************************************************************************)
(* The invariant holds                                                     *)
(***************************************************************************)

(* A reactor that has not run satisfies the invariant. *)
LEMMA InitInv == Init => IInv
  <1> SUFFICES ASSUME Init PROVE IInv
    OBVIOUS
  <1> USE DEF Init
  <1>1. ShapeInv
    <2>1. queue \in Seq(Frame) /\ called \in Seq(Tasks) /\ Len(queue) = 0
      BY EmptySeq
    <2>2. IsFiniteSet(pool)
      BY FS_EmptySet
    <2>3. next \in 1 .. Len(Registered) + 1
      BY HandlerFacts
    <2>4. slot \in [Slots -> Frame \cup {None}] /\ held \in [Slots -> Handlers \cup {None}]
      OBVIOUS
    <2>5. /\ wpc \in [Handlers -> WorkerSteps]
          /\ sample \in [Handlers -> Frame \cup {None}]
      BY DEF WorkerSteps
    <2>6. Len(queue) <= QueueBound /\ received \in 0 .. MaxFrames
      BY <2>1, BoundAssumption
    <2>. QED
      BY <2>1, <2>2, <2>3, <2>4, <2>5, <2>6 DEF ShapeInv
  <1>2. StepInv
    BY DEF StepInv
  <1>3. Len(queue) = 0 /\ Len(called) = 0
    BY EmptySeq
  <1>4. WakeInv /\ CriticalInOrder
    BY <1>3 DEF WakeInv, CriticalInOrder
  <1>5. PlaceInv /\ OrderInv
    BY <1>3 DEF PlaceInv, OrderInv, Handed, Active
  <1>6. FramesAccounted
    <2>1. InHand = {} /\ Occupied = {} /\ pool = {}
      BY DEF InHand, Occupied, Active
    <2>. QED
      BY <1>1, <1>3, <2>1, AccountTerms, FS_EmptySet DEF Total
  <1>. QED
    BY <1>1, <1>2, <1>4, <1>5, <1>6 DEF IInv

(* Every step preserves the invariant. *)
LEMMA NextInv == IInv /\ [Next]_vars => IInv'
  BY NextShape, NextStep, NextWake, NextPlace, NextOrder, NextAccount, NextCritical
  DEF IInv

(* The invariant holds in every reachable state. *)
LEMMA InvHolds == Spec => []IInv
  BY InitInv, NextInv, PTL DEF Spec

(***************************************************************************)
(* The theorems                                                            *)
(***************************************************************************)

(* Every variable keeps its type and the queue its bound.  The counters    *)
(* are bounded because what they count was received.                       *)
THEOREM TypeCorrect == Spec => []TypeOK
  <1>1. ASSUME IInv PROVE TypeOK
    <2>1. ShapeInv /\ FramesAccounted
      BY <1>1 DEF IInv
    <2>2. dropped \in 0 .. MaxFrames /\ drop_count \in 0 .. MaxFrames
      <3>1. dropped <= received /\ drop_count <= received
        BY <2>1, AccountTerms DEF Total
      <3>. QED
        BY <2>1, <3>1, BoundAssumption DEF ShapeInv
    <2>. QED
      BY <2>1, <2>2 DEF ShapeInv, TypeOK
  <1>. QED
    BY <1>1, InvHolds, PTL

(* A CRITICAL frame that arrives after the loop found the queue empty, on  *)
(* its way to select! or in it, is not left to the timer.                  *)
THEOREM WakeupNotLost == Spec => []NoLostWakeup
  <1>1. IInv => NoLostWakeup
    BY DEF IInv, WakeInv, NoLostWakeup, CriticalQueued
  <1>. QED
    BY <1>1, InvHolds, PTL

(* No frame is lost silently, none is handed over twice: what the workers  *)
(* received is in hand, queued, in a slot, with the pool, handed to a      *)
(* callback, or counted as dropped.                                        *)
THEOREM Accounted == Spec => []FramesAccounted
  BY InvHolds, PTL DEF IInv

(* CRITICAL frames reach their own callback in the order of reception,     *)
(* even if a BACKGROUND handler is registered for the same path.           *)
THEOREM InOrder == Spec => []CriticalInOrder
  BY InvHolds, PTL DEF IInv
=============================================================================
