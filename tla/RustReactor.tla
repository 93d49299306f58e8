----------------------------- MODULE RustReactor -----------------------------
(***************************************************************************)
(* DataFlowReactor of the Rust port, flowkernel-rs/crates/flowkernel-core/ *)
(* src/reactor.rs, with the cache of flowkernel-cache: one Tokio task per  *)
(* subscriber, a main loop that is woken through a Notify, and a pool of   *)
(* threads for the callbacks that are not CRITICAL.                        *)
(*                                                                         *)
(* A push and a pop of the queue are one step each, as BoundedFifo has it. *)
(* The write lock of a slot is held over two steps of put(), so that       *)
(* drain() can meet it.  The processed and dropped counters are left out:  *)
(* run() borrows the reactor exclusively, so nobody can read them while    *)
(* the loop runs.                                                          *)
(***************************************************************************)
EXTENDS Integers, Sequences, FiniteSets, FiniteSetsExt

CONSTANTS Registered,  \* the handlers in order: records with path and priority
          QueueBound,  \* items the queue holds: its capacity minus one
          MaxFrames,   \* bound: frames received in a behaviour
          None         \* no frame, no task

Handlers == DOMAIN Registered
Path(i) == Registered[i].path
Priority(i) == Registered[i].priority

ASSUME RegisteredAssumption ==
  Registered \in Seq([path : {Path(i) : i \in Handlers},
                      priority : {"Critical", "Normal", "Background"}])
ASSUME BoundAssumption == QueueBound \in Nat /\ MaxFrames \in Nat

Frame == [handler : Handlers, seq : 1 .. MaxFrames]
ASSUME NoneAssumption == None \notin Frame /\ None \notin Handlers

(* register_handler() allocates a slot per path that has a BACKGROUND handler. *)
Slots == {Path(i) : i \in {j \in Handlers : Priority(j) = "Background"}}

(* handler_index, built by collect(): of two equal paths the later one wins. *)
handler_index(path) == Max({i \in Handlers : Path(i) = path})

VARIABLES
  queue,          \* critical_queue, oldest frame first
  dropped,        \* frames that it refused
  slot, held,     \* per slot: its frame, and the task that holds its lock
  drop_count,     \* frames overwritten in slots
  permit,         \* Notify: notify_one() was called and not yet consumed
  mpc, next, todo,\* run(): step, next handler to declare, slots to drain
  wpc, sample,    \* per worker task: step and frame
  pool,           \* callbacks handed to spawn_blocking and not yet called
  called,         \* history: the callbacks called, in order
  received        \* frames received so far

queueVars == <<queue, dropped>>
cacheVars == <<slot, held, drop_count>>
mainVars == <<mpc, next, todo>>
workerVars == <<wpc, sample, received>>
callVars == <<pool, called>>
vars == <<queueVars, cacheVars, permit, mainVars, workerVars, callVars>>

Init == /\ queue = <<>>
        /\ dropped = 0
        /\ slot = [s \in Slots |-> None]
        /\ held = [s \in Slots |-> None]
        /\ drop_count = 0
        /\ permit = FALSE
        /\ mpc = "declare"
        /\ next = 1
        /\ todo = {}
        /\ wpc = [i \in Handlers |-> "none"]
        /\ sample = [i \in Handlers |-> None]
        /\ pool = {}
        /\ called = <<>>
        /\ received = 0
-----------------------------------------------------------------------------
(***************************************************************************)
(* The worker task of handler i: one frame at a time.                      *)
(***************************************************************************)
WorkerGoto(i, here, there) == wpc[i] = here /\ wpc' = [wpc EXCEPT ![i] = there]

(* recv_async() yields a sample. *)
Receive(i) == /\ received < MaxFrames
              /\ WorkerGoto(i, "recv", IF Priority(i) = "Background"
                                         THEN "lock" ELSE "push")
              /\ received' = received + 1
              /\ sample' = [sample EXCEPT ![i] =
                              [handler |-> i, seq |-> received + 1]]
              /\ UNCHANGED <<queueVars, cacheVars, permit, mainVars, callVars>>

(* Whether or not the push succeeds, a CRITICAL worker goes on to notify. *)
AfterPush(i) == IF Priority(i) = "Critical" THEN "notify" ELSE "recv"

Push_Unbounded(i) == /\ WorkerGoto(i, "push", AfterPush(i))
                     /\ queue' = Append(queue, sample[i])
                     /\ UNCHANGED <<dropped, cacheVars, permit, mainVars,
                                    sample, received, callVars>>

Push(i) == /\ WorkerGoto(i, "push", AfterPush(i))
           /\ \/ /\ Len(queue) < QueueBound
                 /\ queue' = Append(queue, sample[i])
                 /\ UNCHANGED dropped
              \/ /\ Len(queue) >= QueueBound
                 /\ dropped' = dropped + 1
                 /\ UNCHANGED queue
           /\ UNCHANGED <<cacheVars, permit, mainVars, sample, received,
                          callVars>>

NotifyOne(i) == /\ WorkerGoto(i, "notify", "recv")
                /\ permit' = TRUE
                /\ UNCHANGED <<queueVars, cacheVars, mainVars, sample,
                               received, callVars>>

(* put(): the write lock is waited for; an untaken frame is overwritten. *)
PutLock(i) == /\ WorkerGoto(i, "lock", "assign")
              /\ held[Path(i)] = None
              /\ held' = [held EXCEPT ![Path(i)] = i]
              /\ UNCHANGED <<queueVars, slot, drop_count, permit, mainVars,
                             sample, received, callVars>>

PutAssign_KeepsLock(i) ==
  /\ WorkerGoto(i, "assign", "recv")
  /\ drop_count' = IF slot[Path(i)] # None THEN drop_count + 1 ELSE drop_count
  /\ slot' = [slot EXCEPT ![Path(i)] = sample[i]]
  /\ UNCHANGED <<queueVars, held, permit, mainVars, sample, received, callVars>>

PutAssign_Uncounted(i) ==
  /\ WorkerGoto(i, "assign", "recv")
  /\ slot' = [slot EXCEPT ![Path(i)] = sample[i]]
  /\ held' = [held EXCEPT ![Path(i)] = None]
  /\ UNCHANGED <<queueVars, drop_count, permit, mainVars, sample, received,
                 callVars>>

PutAssign(i) ==
  /\ WorkerGoto(i, "assign", "recv")
  /\ drop_count' = IF slot[Path(i)] # None THEN drop_count + 1 ELSE drop_count
  /\ slot' = [slot EXCEPT ![Path(i)] = sample[i]]
  /\ held' = [held EXCEPT ![Path(i)] = None]
  /\ UNCHANGED <<queueVars, permit, mainVars, sample, received, callVars>>

Worker(i) == Push(i) \/ NotifyOne(i) \/ PutLock(i) \/ PutAssign(i)
-----------------------------------------------------------------------------
(***************************************************************************)
(* run(): declare a subscriber and spawn its worker, handler by handler.   *)
(***************************************************************************)
MainGoto(here, there) == mpc = here /\ mpc' = there

Declare == /\ MainGoto("declare", "declare")
           /\ next <= Len(Registered)
           /\ next' = next + 1
           /\ wpc' = [wpc EXCEPT ![next] = "recv"]
           /\ UNCHANGED <<queueVars, cacheVars, permit, todo, sample,
                          received, callVars>>

(* A malformed key or a failed declaration: run() returns an error.  The   *)
(* workers that were spawned before are detached and carry on.             *)
DeclareFails == /\ MainGoto("declare", "failed")
                /\ next <= Len(Registered)
                /\ UNCHANGED <<queueVars, cacheVars, permit, next, todo,
                               workerVars, callVars>>

DeclareEnd == /\ MainGoto("declare", "drain")
              /\ next > Len(Registered)
              /\ UNCHANGED <<queueVars, cacheVars, permit, next, todo,
                             workerVars, callVars>>
-----------------------------------------------------------------------------
(***************************************************************************)
(* run(): the loop.  A CRITICAL callback is called on the spot, a NORMAL   *)
(* one handed to the pool.                                                 *)
(***************************************************************************)
Task(i, f) == [by |-> i, frame |-> f]
First == Task(queue[1].handler, queue[1])

Dispatch_SpawnsAll == /\ MainGoto("drain", "drain")
                      /\ queue # <<>>
                      /\ queue' = Tail(queue)
                      /\ pool' = pool \cup {First}
                      /\ UNCHANGED <<dropped, cacheVars, permit, next, todo,
                                     workerVars, called>>

Dispatch == /\ MainGoto("drain", "drain")
            /\ queue # <<>>
            /\ queue' = Tail(queue)
            /\ \/ /\ Priority(First.by) = "Critical"
                  /\ called' = Append(called, First)
                  /\ UNCHANGED pool
               \/ /\ Priority(First.by) # "Critical"
                  /\ pool' = pool \cup {First}
                  /\ UNCHANGED called
            /\ UNCHANGED <<dropped, cacheVars, permit, next, todo, workerVars>>

DispatchEnd_Early == /\ MainGoto("drain", "background")
                     /\ todo' = Slots
                     /\ UNCHANGED <<queueVars, cacheVars, permit, next,
                                    workerVars, callVars>>

DispatchEnd == /\ MainGoto("drain", "background")
               /\ queue = <<>>
               /\ todo' = Slots
               /\ UNCHANGED <<queueVars, cacheVars, permit, next, workerVars,
                              callVars>>

(* drain() passes over a slot whose lock it cannot get at once. *)
DrainSlot(s) ==
  /\ MainGoto("background", "background")
  /\ s \in todo
  /\ todo' = todo \ {s}
  /\ \/ /\ held[s] = None /\ slot[s] # None
        /\ slot' = [slot EXCEPT ![s] = None]
        /\ pool' = pool \cup {Task(handler_index(s), slot[s])}
     \/ /\ held[s] # None \/ slot[s] = None
        /\ UNCHANGED <<slot, pool>>
  /\ UNCHANGED <<queueVars, held, drop_count, permit, next, workerVars, called>>

DrainEnd == /\ MainGoto("background", "wait")
            /\ todo = {}
            /\ UNCHANGED <<queueVars, cacheVars, permit, next, todo, workerVars,
                           callVars>>

(* select!: notified() consumes the permit ... *)
Notified == /\ MainGoto("wait", "drain")
            /\ permit
            /\ permit' = FALSE
            /\ UNCHANGED <<queueVars, cacheVars, next, todo, workerVars,
                           callVars>>

(* ... or the sleep of 1 ms is over, and a permit stays for the next wait. *)
Elapsed == /\ MainGoto("wait", "drain")
           /\ UNCHANGED <<queueVars, cacheVars, permit, next, todo, workerVars,
                          callVars>>

run == \/ Declare \/ DeclareFails \/ DeclareEnd \/ Dispatch \/ DispatchEnd
       \/ \E s \in Slots : DrainSlot(s)
       \/ DrainEnd \/ Notified

(* A thread of Tokio's blocking pool calls a callback, in no order. *)
spawn_blocking == /\ \E task \in pool : /\ called' = Append(called, task)
                                        /\ pool' = pool \ {task}
                  /\ UNCHANGED <<queueVars, cacheVars, permit, mainVars,
                                 workerVars>>

Next == \/ \E i \in Handlers : Receive(i) \/ Worker(i)
        \/ run \/ Elapsed \/ spawn_blocking

Spec == Init /\ [][Next]_vars

(***************************************************************************)
(* Tasks that are runnable are run, the sleep of 1 ms ends, and callbacks  *)
(* return.  Frames need not arrive.                                        *)
(***************************************************************************)
FairSpec == /\ Spec
            /\ WF_vars(run)
            /\ WF_vars(Elapsed)
            /\ WF_vars(spawn_blocking)
            /\ \A i \in Handlers : WF_vars(Worker(i))
-----------------------------------------------------------------------------
(***************************************************************************)
(* Properties                                                              *)
(***************************************************************************)
WorkerSteps == {"none", "recv", "push", "notify", "lock", "assign"}
Tasks == [by : Handlers, frame : Frame]

TypeOK == /\ queue \in Seq(Frame)
          /\ Len(queue) <= QueueBound
          /\ dropped \in 0 .. MaxFrames
          /\ slot \in [Slots -> Frame \cup {None}]
          /\ held \in [Slots -> Handlers \cup {None}]
          /\ drop_count \in 0 .. MaxFrames
          /\ permit \in BOOLEAN
          /\ mpc \in {"declare", "failed", "drain", "background", "wait"}
          /\ next \in 1 .. Len(Registered) + 1
          /\ todo \subseteq Slots
          /\ wpc \in [Handlers -> WorkerSteps]
          /\ sample \in [Handlers -> Frame \cup {None}]
          /\ pool \subseteq Tasks
          /\ called \in Seq(Tasks)
          /\ received \in 0 .. MaxFrames

Queued(n) == \E k \in 1 .. Len(queue) : queue[k].seq = n
CriticalQueued(n) == \E k \in 1 .. Len(queue) :
                       queue[k].seq = n /\ Priority(queue[k].handler) = "Critical"
Called(n) == \E k \in 1 .. Len(called) : called[k].frame.seq = n
InSlot(s, n) == slot[s] # None /\ slot[s].seq = n

(***************************************************************************)
(* While the loop waits in select!, a CRITICAL frame in the queue is not   *)
(* left to the timer: the Notify holds a permit, or the worker that pushed *)
(* the frame is about to call notify_one().                                *)
(***************************************************************************)
NoLostWakeup ==
  mpc = "wait" /\ (\E n \in 1 .. MaxFrames : CriticalQueued(n))
    => permit \/ \E i \in Handlers : wpc[i] = "notify"

(***************************************************************************)
(* Every frame a worker has taken up is in one place: with the worker, in  *)
(* the queue, in a slot, with the pool, handed to a callback, refused by   *)
(* the queue or overwritten in its slot, the last two being counted.  A    *)
(* slot that drain() passes over keeps its frame.                          *)
(***************************************************************************)
FramesAccounted ==
  received = Cardinality({i \in Handlers : wpc[i] \in {"push", "lock", "assign"}})
             + Len(queue) + dropped
             + Cardinality({s \in Slots : slot[s] # None}) + drop_count
             + Cardinality(pool) + Len(called)

(***************************************************************************)
(* CRITICAL frames of a handler reach its own callback, and in the order   *)
(* in which they were received, though other callbacks run beside it.      *)
(***************************************************************************)
CriticalInOrder ==
  \A k \in 1 .. Len(called) :
    Priority(called[k].frame.handler) = "Critical" =>
      /\ called[k].by = called[k].frame.handler
      /\ \A j \in 1 .. k - 1 :
           called[j].frame.handler = called[k].frame.handler
             => called[j].frame.seq < called[k].frame.seq

(***************************************************************************)
(* With the timer every queued frame reaches its callback, and every frame *)
(* in a slot does or is overwritten by a newer one, though drain() passes  *)
(* over slots that are being written.                                      *)
(***************************************************************************)
EveryFrameServed ==
  \A n \in 1 .. MaxFrames :
    /\ Queued(n) ~> (Called(n) \/ mpc = "failed")
    /\ \A s \in Slots :
         InSlot(s, n) ~> \/ Called(n) \/ mpc = "failed"
                         \/ \E k \in n + 1 .. MaxFrames : InSlot(s, k)
=============================================================================
