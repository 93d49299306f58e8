------------------------------ MODULE MpscQueue ------------------------------
(***************************************************************************)
(* MPSCQueue<T, Capacity> of include/robot_dataflow/mpsc_queue.hpp: a ring *)
(* of raw storage, a spin lock among the producers, and two indices that   *)
(* the producers and the single consumer publish to each other.            *)
(*                                                                         *)
(* One action per access to shared memory: every load or store of an       *)
(* atomic, every construction, move and destruction of an element.         *)
(* Interleavings are sequentially consistent; the acquire/release pairs of *)
(* the code order the element accesses, and NoSlotRace states that no two  *)
(* threads are ever about to touch the same element, so no execution can   *)
(* tell the difference through the elements.                               *)
(***************************************************************************)
EXTENDS Integers, Sequences

CONSTANTS Producers,   \* the threads that call push(), Zenoh's RX threads
          Capacity,    \* the template parameter
          MaxPush,     \* bound: calls of push() in a behaviour
          Raw,         \* storage in which no element lives
          MovedFrom,   \* an element that pop() has moved out of
          None         \* no item

Items == 1 .. MaxPush      \* the n-th call of push() carries item n
Index == 0 .. Capacity - 1

ASSUME CapacityAssumption == /\ Capacity \in Nat \ {0}
                             /\ \E k \in 0 .. Capacity : Capacity = 2 ^ k
ASSUME BoundAssumption == MaxPush \in Nat
ASSUME ValueAssumption == /\ Raw \notin Items /\ MovedFrom \notin Items
                          /\ None \notin Items /\ Raw # MovedFrom

VARIABLES
  push_lock_,   \* atomic_flag: TRUE while set
  buffer_,      \* the storage: an item, MovedFrom or Raw per index
  head_, tail_, \* the atomics of the same name
  dropped_,     \* pushes refused because the ring was full
  destroyed,    \* ~MPSCQueue() has run
  pc, item, t,  \* per producer: next step of push(), its argument, its local t
  cpc, out,     \* consumer: next step of pop(), and the element it has moved out
  delivered,    \* the item the last successful pop() returned
  calls         \* calls of push() so far

vars == <<push_lock_, buffer_, head_, tail_, dropped_, destroyed,
          pc, item, t, cpc, out, delivered, calls>>

queueVars == <<push_lock_, buffer_, head_, tail_, dropped_, destroyed>>
consumerVars == <<cpc, out, delivered>>

Init == /\ push_lock_ = FALSE
        /\ buffer_ = [i \in Index |-> Raw]
        /\ head_ = 0
        /\ tail_ = 0
        /\ dropped_ = 0
        /\ destroyed = FALSE
        /\ pc = [p \in Producers |-> "idle"]
        /\ item = [p \in Producers |-> None]
        /\ t = [p \in Producers |-> 0]
        /\ cpc = "idle"
        /\ out = None
        /\ delivered = None
        /\ calls = 0
-----------------------------------------------------------------------------
(***************************************************************************)
(* Index arithmetic.  Masking with Capacity - 1 is the remainder modulo    *)
(* Capacity because Capacity is a power of two.                            *)
(***************************************************************************)
Mask_Missing(i) == i

Mask(i) == i % Capacity

RingFull_OffByOne(tl) == Mask(tl + 2) = head_

(* The test of push(): the slot after the tail is the head. *)
RingFull(tl) == Mask(tl + 1) = head_

(* The test of pop(). *)
RingEmpty == head_ = tail_
-----------------------------------------------------------------------------
(***************************************************************************)
(* push(), executed by producer p.                                         *)
(***************************************************************************)
Goto(p, here, there) == pc[p] = here /\ pc' = [pc EXCEPT ![p] = there]

Call(p) == /\ ~destroyed
           /\ calls < MaxPush
           /\ Goto(p, "idle", "lock")
           /\ calls' = calls + 1
           /\ item' = [item EXCEPT ![p] = calls + 1]
           /\ UNCHANGED <<queueVars, t, consumerVars>>

AcquireLock_Ignored(p) == /\ Goto(p, "lock", "load")
                          /\ push_lock_' = TRUE
                          /\ UNCHANGED <<buffer_, head_, tail_, dropped_,
                               destroyed, item, t, consumerVars, calls>>

(* test_and_set() finds the flag clear.  A failed attempt changes nothing *)
(* and is retried, so waiting is just this action not being enabled.      *)
AcquireLock(p) == /\ Goto(p, "lock", "load")
                  /\ push_lock_ = FALSE
                  /\ push_lock_' = TRUE
                  /\ UNCHANGED <<buffer_, head_, tail_, dropped_, destroyed,
                                 item, t, consumerVars, calls>>

LoadTail(p) == /\ Goto(p, "load", "check")
               /\ t' = [t EXCEPT ![p] = tail_]
               /\ UNCHANGED <<queueVars, item, consumerVars, calls>>

CheckFull_Waits(p) == /\ Goto(p, "check", "construct")
                      /\ ~RingFull(t[p])
                      /\ UNCHANGED <<queueVars, item, t, consumerVars, calls>>

(* A full ring is left as it is and the item is lost: push() never waits *)
(* for the consumer.                                                     *)
CheckFull(p) == /\ \/ RingFull(t[p]) /\ Goto(p, "check", "drop")
                   \/ ~RingFull(t[p]) /\ Goto(p, "check", "construct")
                /\ UNCHANGED <<queueVars, item, t, consumerVars, calls>>

CountDrop(p) == /\ Goto(p, "drop", "unlock")
                /\ dropped_' = dropped_ + 1
                /\ UNCHANGED <<push_lock_, buffer_, head_, tail_, destroyed,
                               item, t, consumerVars, calls>>

Construct(p) == /\ Goto(p, "construct", "publish")
                /\ buffer_' = [buffer_ EXCEPT ![t[p]] = item[p]]
                /\ UNCHANGED <<push_lock_, head_, tail_, dropped_, destroyed,
                               item, t, consumerVars, calls>>

StoreTail(p) == /\ Goto(p, "publish", "unlock")
                /\ tail_' = Mask(t[p] + 1)
                /\ UNCHANGED <<push_lock_, buffer_, head_, dropped_, destroyed,
                               item, t, consumerVars, calls>>

ReleaseLock(p) == /\ Goto(p, "unlock", "idle")
                  /\ push_lock_' = FALSE
                  /\ UNCHANGED <<buffer_, head_, tail_, dropped_, destroyed,
                                 item, t, consumerVars, calls>>

Push(p) == \/ AcquireLock(p) \/ LoadTail(p) \/ CheckFull(p) \/ CountDrop(p)
           \/ Construct(p) \/ StoreTail(p) \/ ReleaseLock(p)
-----------------------------------------------------------------------------
(***************************************************************************)
(* pop(), executed by the consumer.  Its local h is head_ itself: only the *)
(* consumer stores head_.  A pop() that finds the ring empty returns false *)
(* and changes nothing.                                                    *)
(***************************************************************************)
CGoto(here, there) == cpc = here /\ cpc' = there

LoadIndices == /\ ~destroyed
               /\ ~RingEmpty
               /\ CGoto("idle", "move")
               /\ UNCHANGED <<queueVars, out, delivered, pc, item, t, calls>>

MoveOut == /\ CGoto("move", "destroy")
           /\ out' = buffer_[head_]
           /\ buffer_' = [buffer_ EXCEPT ![head_] = MovedFrom]
           /\ UNCHANGED <<push_lock_, head_, tail_, dropped_, destroyed,
                          delivered, pc, item, t, calls>>

DestroyElement_Missing == /\ CGoto("destroy", "publish")
                          /\ UNCHANGED <<queueVars, out, delivered,
                                         pc, item, t, calls>>

DestroyElement == /\ CGoto("destroy", "publish")
                  /\ buffer_' = [buffer_ EXCEPT ![head_] = Raw]
                  /\ UNCHANGED <<push_lock_, head_, tail_, dropped_, destroyed,
                                 out, delivered, pc, item, t, calls>>

StoreHead == /\ CGoto("publish", "idle")
             /\ head_' = Mask(head_ + 1)
             /\ delivered' = out
             /\ UNCHANGED <<push_lock_, buffer_, tail_, dropped_, destroyed,
                            out, pc, item, t, calls>>

Pop == LoadIndices \/ MoveOut \/ DestroyElement \/ StoreHead
-----------------------------------------------------------------------------
(***************************************************************************)
(* Number of slots from index a forward to index b, and the indices that   *)
(* the ring regards as holding elements.                                   *)
(***************************************************************************)
Distance(a, b) == IF b >= a THEN b - a ELSE b - a + Capacity
InRing(i) == Distance(head_, i) < Distance(head_, tail_)

(***************************************************************************)
(* ~MPSCQueue(): the owner destroys the queue once no thread is inside it. *)
(* The loop from head_ to tail_ destroys each element; head_ and tail_     *)
(* themselves are not stored.                                              *)
(***************************************************************************)
Destruct == /\ ~destroyed
            /\ \A p \in Producers : pc[p] = "idle"
            /\ cpc = "idle"
            /\ destroyed' = TRUE
            /\ buffer_' = [i \in Index |-> IF InRing(i) THEN Raw ELSE buffer_[i]]
            /\ UNCHANGED <<push_lock_, head_, tail_, dropped_, pc, item, t,
                           consumerVars, calls>>

Next == \/ \E p \in Producers : Call(p) \/ Push(p)
        \/ Pop
        \/ Destruct

(***************************************************************************)
(* A thread inside push() keeps running; nothing obliges the consumer to   *)
(* pop, a producer to call, or the owner to destroy the queue.             *)
(***************************************************************************)
Spec == Init /\ [][Next]_vars
FairSpec == Spec /\ \A p \in Producers : WF_vars(Push(p))
-----------------------------------------------------------------------------
(***************************************************************************)
(* Properties                                                              *)
(***************************************************************************)
Holding == {"load", "check", "drop", "construct", "publish", "unlock"}

TypeOK == /\ push_lock_ \in BOOLEAN
          /\ buffer_ \in [Index -> Items \cup {Raw, MovedFrom}]
          /\ head_ \in Index
          /\ tail_ \in Index
          /\ dropped_ \in Nat
          /\ destroyed \in BOOLEAN
          /\ pc \in [Producers -> {"idle", "lock"} \cup Holding]
          /\ item \in [Producers -> Items \cup {None}]
          /\ t \in [Producers -> Index]
          /\ cpc \in {"idle", "move", "destroy", "publish"}
          /\ out \in Items \cup {None}
          /\ delivered \in Items \cup {None}
          /\ calls \in 0 .. MaxPush

(***************************************************************************)
(* No data race on an element: a producer about to construct in a slot is  *)
(* never there together with another producer, nor with the consumer that  *)
(* is moving out of or destroying the element of that slot.                *)
(***************************************************************************)
NoSlotRace ==
  \A p \in Producers : pc[p] = "construct" =>
    /\ \A q \in Producers \ {p} : pc[q] = "construct" => t[q] # t[p]
    /\ cpc \in {"move", "destroy"} => head_ # t[p]

(***************************************************************************)
(* Element lifetimes: placement new only ever runs on storage in which no  *)
(* element lives, an element is moved out of and destroyed only while it   *)
(* lives, and nothing is left alive by the destructor.                     *)
(***************************************************************************)
Lifetimes ==
  /\ \A p \in Producers : pc[p] = "construct" => buffer_[t[p]] = Raw
  /\ cpc = "move" => buffer_[head_] \in Items
  /\ cpc = "destroy" => buffer_[head_] = MovedFrom
  /\ destroyed => \A i \in Index : buffer_[i] = Raw

(***************************************************************************)
(* push() returns although the consumer may never pop again: a thread that *)
(* has the spin lock gives it back and returns, a full ring costing the    *)
(* frame and never the Zenoh callback thread.  (Which of several waiting   *)
(* threads test_and_set lets in is up to the hardware: nothing is said of  *)
(* a thread that has not got the lock.)                                    *)
(***************************************************************************)
LockHolderReturns ==
  \A p \in Producers : (pc[p] \in Holding) ~> (pc[p] = "idle")

(***************************************************************************)
(* Linearizability.  A push takes effect when it stores tail_, or, if it   *)
(* finds the ring full, when it loads head_; a pop takes effect when it    *)
(* stores head_.  While pop() is between moving the element out and        *)
(* storing head_, that element is in its local variable.                   *)
(***************************************************************************)
At(k) == IF head_ + k - 1 < Capacity THEN head_ + k - 1
                                     ELSE head_ + k - 1 - Capacity

Contents == [k \in 1 .. Distance(head_, tail_) |->
               IF k = 1 /\ cpc \in {"destroy", "publish"} THEN out
                                                          ELSE buffer_[At(k)]]

AbstractQueue == IF destroyed THEN <<>> ELSE Contents

Undecided == {"lock", "load", "check", "construct", "publish"}

AbstractPending ==
  [p \in Producers |-> IF pc[p] \in Undecided THEN item[p] ELSE None]

AbstractDropped ==
  dropped_ + IF \E p \in Producers : pc[p] = "drop" THEN 1 ELSE 0

Fifo == INSTANCE BoundedFifo WITH
          Values <- Items,
          Bound <- Capacity - 1,
          queue <- AbstractQueue,
          pending <- AbstractPending,
          dropped <- AbstractDropped,
          open <- ~destroyed

(* MPSCQueue implements the bounded first-in first-out queue: no item is   *)
(* lost, duplicated, reordered or invented, one is refused only at an      *)
(* instant at which Capacity - 1 items are held, and dropped_ counts those.*)
ImplementsFifo == Fifo!Spec
=============================================================================
