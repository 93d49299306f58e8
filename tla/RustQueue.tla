------------------------------ MODULE RustQueue ------------------------------
(***************************************************************************)
(* MPSCQueue of the Rust port, flowkernel-rs/crates/flowkernel-queue/src/  *)
(* mpsc.rs: the ring of MpscQueue with a mutex in place of the spin lock,  *)
(* elements that are written and read bitwise, and len() and is_full(),    *)
(* which any thread may call while others push and pop.                    *)
(*                                                                         *)
(* Reading an element leaves its bits behind, but the element is then the  *)
(* reader's: Uninit is storage whose element nobody may read again.        *)
(***************************************************************************)
EXTENDS Integers, Sequences

CONSTANTS Producers,     \* the tasks that call push()
          CAPACITY,
          MaxPush,       \* bound: calls of push() in a behaviour
          Uninit, None

Items == 1 .. MaxPush
Index == 0 .. CAPACITY - 1

ASSUME CapacityAssumption == /\ CAPACITY \in Nat \ {0}
                             /\ \E k \in 0 .. CAPACITY : CAPACITY = 2 ^ k
ASSUME BoundAssumption == MaxPush \in Nat
ASSUME ValueAssumption == /\ Uninit \notin Items /\ None \notin Items
                          /\ None \notin Producers

VARIABLES
  push_lock,           \* the producer that has the mutex, or None
  buffer, head, tail,
  dropped,
  pc, item,            \* per producer: step of push(), its argument
  cpc, out,            \* consumer: step of pop(), the element it has read
  delivered,           \* the item the last pop() returned
  calls,               \* calls of push() so far
  opc, otail,          \* observer: step of its call, the tail it has loaded
  len, full,           \* what len() and is_full() returned
  first, popped        \* history: length at the call's first load, pops up to its second

pushVars == <<pc, item, calls>>
popVars == <<cpc, out, delivered>>
lenVars == <<opc, otail, len, full, first, popped>>
vars == <<push_lock, buffer, head, tail, dropped, pushVars, popVars, lenVars>>

Init == /\ push_lock = None
        /\ buffer = [i \in Index |-> Uninit]
        /\ head = 0
        /\ tail = 0
        /\ dropped = 0
        /\ pc = [p \in Producers |-> "idle"]
        /\ item = [p \in Producers |-> None]
        /\ cpc = "idle"
        /\ out = None
        /\ delivered = None
        /\ calls = 0
        /\ opc = "idle"
        /\ otail = 0
        /\ len = 0
        /\ full = (CAPACITY = 1)
        /\ first = 0
        /\ popped = 0
-----------------------------------------------------------------------------
(* Masking with CAPACITY - 1; a negative difference wraps first. *)
Mask(i) == i % CAPACITY

(* One more push would let tail t run into head h. *)
Meets(t, h) == Mask(t + 1) = h

Full_OffByOne == Meets(tail + 1, head)

(* The test of push(), whose copy of tail is current. *)
Full == Meets(tail, head)

(* The number of items in the queue now. *)
Length == Mask(tail - head)
-----------------------------------------------------------------------------
(***************************************************************************)
(* push(), by producer p.  tail is loaded under the mutex, which alone     *)
(* guards its stores, so tail itself stands for the local copy.            *)
(***************************************************************************)
Goto(p, here, there) == pc[p] = here /\ pc' = [pc EXCEPT ![p] = there]

Call(p) == /\ calls < MaxPush
           /\ Goto(p, "idle", "lock")
           /\ calls' = calls + 1
           /\ item' = [item EXCEPT ![p] = calls + 1]
           /\ UNCHANGED <<push_lock, buffer, head, tail, dropped, popVars,
                          lenVars>>

Lock_Ignored(p) == /\ Goto(p, "lock", "check")
                   /\ push_lock' = p
                   /\ UNCHANGED <<buffer, head, tail, dropped, item, calls,
                                  popVars, lenVars>>

Lock(p) == /\ Goto(p, "lock", "check")
           /\ push_lock = None
           /\ push_lock' = p
           /\ UNCHANGED <<buffer, head, tail, dropped, item, calls, popVars,
                          lenVars>>

(* The load of head decides; the guard is released on return. *)
CheckFull(p) == /\ \/ Full /\ Goto(p, "check", "drop")
                   \/ ~Full /\ Goto(p, "check", "write")
                /\ UNCHANGED <<push_lock, buffer, head, tail, dropped, item,
                               calls, popVars, lenVars>>

CountDrop(p) == /\ Goto(p, "drop", "unlock")
                /\ dropped' = dropped + 1
                /\ UNCHANGED <<push_lock, buffer, head, tail, item, calls,
                               popVars, lenVars>>

Write(p) == /\ Goto(p, "write", "publish")
            /\ buffer' = [buffer EXCEPT ![tail] = item[p]]
            /\ UNCHANGED <<push_lock, head, tail, dropped, item, calls,
                           popVars, lenVars>>

StoreTail(p) == /\ Goto(p, "publish", "unlock")
                /\ tail' = Mask(tail + 1)
                /\ UNCHANGED <<push_lock, buffer, head, dropped, item, calls,
                               popVars, lenVars>>

Unlock(p) == /\ Goto(p, "unlock", "idle")
             /\ push_lock' = None
             /\ UNCHANGED <<buffer, head, tail, dropped, item, calls, popVars,
                            lenVars>>

push(p) == \/ Lock(p) \/ CheckFull(p) \/ CountDrop(p) \/ Write(p)
           \/ StoreTail(p) \/ Unlock(p)
-----------------------------------------------------------------------------
(***************************************************************************)
(* pop(), by the consumer, which alone stores head.                        *)
(***************************************************************************)
CGoto(here, there) == cpc = here /\ cpc' = there

LoadIndices == /\ CGoto("idle", "read")
               /\ head # tail
               /\ UNCHANGED <<push_lock, buffer, head, tail, dropped, pushVars,
                              out, delivered, lenVars>>

Read == /\ CGoto("read", "publish")
        /\ out' = buffer[head]
        /\ buffer' = [buffer EXCEPT ![head] = Uninit]
        /\ UNCHANGED <<push_lock, head, tail, dropped, pushVars, delivered,
                       lenVars>>

StoreHead == /\ CGoto("publish", "idle")
             /\ head' = Mask(head + 1)
             /\ delivered' = out
             /\ popped' = IF opc = "head" THEN popped + 1 ELSE popped
             /\ UNCHANGED <<push_lock, buffer, tail, dropped, pushVars, out,
                            opc, otail, len, full, first>>

pop == LoadIndices \/ Read \/ StoreHead
-----------------------------------------------------------------------------
(***************************************************************************)
(* len() and is_full(), by any thread and at any time: both load tail, and *)
(* then head.  is_empty() compares the result of len() with zero.          *)
(***************************************************************************)
LenTail == /\ opc = "idle" /\ opc' = "head"
           /\ otail' = tail
           /\ first' = Length /\ popped' = 0
           /\ UNCHANGED <<push_lock, buffer, head, tail, dropped, pushVars,
                          popVars, len, full>>

LenHead_Unmasked == /\ opc = "head" /\ opc' = "idle"
                    /\ len' = otail - head
                    /\ full' = Meets(otail, head)
                    /\ UNCHANGED <<push_lock, buffer, head, tail, dropped,
                                   pushVars, popVars, otail, first, popped>>

LenHead == /\ opc = "head" /\ opc' = "idle"
           /\ len' = Mask(otail - head)
           /\ full' = Meets(otail, head)
           /\ UNCHANGED <<push_lock, buffer, head, tail, dropped, pushVars,
                          popVars, otail, first, popped>>

Next == \/ \E p \in Producers : Call(p) \/ push(p)
        \/ pop
        \/ LenTail \/ LenHead

Spec == Init /\ [][Next]_vars
-----------------------------------------------------------------------------
(***************************************************************************)
(* Properties                                                              *)
(***************************************************************************)
(***************************************************************************)
(* The unsafe blocks keep the promise that makes them sound: write() never *)
(* buries an element that was not read, assume_init_read() only reads an   *)
(* element that is there, and reads it once; no two threads are about to   *)
(* access the same element.                                                *)
(***************************************************************************)
UnsafeIsSound ==
  /\ \A p \in Producers : pc[p] = "write" =>
       /\ buffer[tail] = Uninit
       /\ \A q \in Producers \ {p} : pc[q] # "write"
       /\ cpc = "read" => head # tail
  /\ cpc = "read" => buffer[head] \in Items

(***************************************************************************)
(* What len() and is_full() tell a thread that calls them while others     *)
(* push and pop (mpsc.rs:116-134).  len() counts the items that were in    *)
(* the queue from its first load to its second, and is_full() answers for  *)
(* the first load, if nothing was popped.  So is_empty() is only true when *)
(* every item the caller could have seen is gone.  But when items pushed   *)
(* during the call were popped during it too, the difference wraps: len()  *)
(* counts CAPACITY too many, and one such pop makes the queue look full.   *)
(***************************************************************************)
LenExplained ==
  opc = "idle" =>
    /\ popped <= first =>
         /\ len = first - popped
         /\ full <=> first = CAPACITY - 1 /\ popped = 0
    /\ popped \in first + 1 .. first + CAPACITY - 1 =>
         /\ len = first - popped + CAPACITY
         /\ full <=> popped = first + 1

(***************************************************************************)
(* The queue as its users see it: a push takes effect with its store of    *)
(* tail, a refused one with its load of head, a pop with its store of head.*)
(***************************************************************************)
Contents == [k \in 1 .. Length |->
               IF k = 1 /\ cpc = "publish" THEN out ELSE buffer[Mask(head + k - 1)]]

Undecided == {"lock", "check", "write", "publish"}

Pending == [p \in Producers |-> IF pc[p] \in Undecided THEN item[p] ELSE None]

Refused == dropped + IF \E p \in Producers : pc[p] = "drop" THEN 1 ELSE 0

Fifo == INSTANCE BoundedFifo WITH
          Values <- Items,
          Bound <- CAPACITY - 1,
          queue <- Contents,
          pending <- Pending,
          dropped <- Refused,
          open <- TRUE

(* The Rust queue keeps the promise of the C++ one: the bounded FIFO queue. *)
ImplementsFifo == Fifo!Spec
=============================================================================
