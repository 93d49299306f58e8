----------------------------- MODULE BoundedFifo -----------------------------
(***************************************************************************)
(* What MPSCQueue promises its callers, with no ring, no lock and no       *)
(* intermediate step: a first-in first-out queue of at most Bound items.   *)
(*                                                                         *)
(* A push call is pending from its invocation until the single instant at  *)
(* which it takes effect: its item joins the tail, or, the queue being     *)
(* full at that very instant, the item is counted as dropped.  A pop hands *)
(* the oldest item to the consumer.  Destroying the queue discards what it *)
(* still holds.                                                            *)
(***************************************************************************)
EXTENDS Integers, Sequences

CONSTANTS Producers,   \* threads that call push()
          Values,      \* items that can be pushed
          Bound,       \* number of items the queue can hold
          None         \* "no item"; not a member of Values

VARIABLES queue,       \* the items held, oldest first
          pending,     \* item of each producer's push that has not taken effect
          delivered,   \* item handed out by the last pop()
          dropped,     \* pushes that found the queue full
          open         \* FALSE once the queue is destroyed

vars == <<queue, pending, delivered, dropped, open>>

Init == /\ queue = <<>>
        /\ pending = [p \in Producers |-> None]
        /\ delivered = None
        /\ dropped = 0
        /\ open = TRUE

Invoke(p) == /\ open
             /\ pending[p] = None
             /\ \E v \in Values : pending' = [pending EXCEPT ![p] = v]
             /\ UNCHANGED <<queue, delivered, dropped, open>>

Enqueue(p) == /\ pending[p] # None
              /\ Len(queue) < Bound
              /\ queue' = Append(queue, pending[p])
              /\ pending' = [pending EXCEPT ![p] = None]
              /\ UNCHANGED <<delivered, dropped, open>>

Reject(p) == /\ pending[p] # None
             /\ Len(queue) = Bound
             /\ dropped' = dropped + 1
             /\ pending' = [pending EXCEPT ![p] = None]
             /\ UNCHANGED <<queue, delivered, open>>

Dequeue == /\ queue # <<>>
           /\ delivered' = Head(queue)
           /\ queue' = Tail(queue)
           /\ UNCHANGED <<pending, dropped, open>>

Close == /\ open
         /\ \A p \in Producers : pending[p] = None
         /\ open' = FALSE
         /\ queue' = <<>>
         /\ UNCHANGED <<pending, delivered, dropped>>

Next == \/ \E p \in Producers : Invoke(p) \/ Enqueue(p) \/ Reject(p)
        \/ Dequeue
        \/ Close

Spec == Init /\ [][Next]_vars
=============================================================================
