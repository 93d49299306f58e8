--------------------------- MODULE MpscQueueProofs ---------------------------
(***************************************************************************)
(* Proofs about MpscQueue, for any number of producers, any capacity and   *)
(* any number of pushes.                                                   *)
(***************************************************************************)
EXTENDS MpscQueue, SequenceTheorems, TLAPS

(***************************************************************************)
(* Index arithmetic                                                        *)
(***************************************************************************)

(* The index after i, without the remainder. *)
Succ(i) == IF i = Capacity - 1 THEN 0 ELSE i + 1

(* Masking i + 1 steps to the next index and from the last to the first. *)
LEMMA MaskSucc == \A i \in Index : Mask(i + 1) = Succ(i) /\ Succ(i) \in Index
  BY CapacityAssumption DEF Index, Mask, Succ

(* Indices of the ring from head h up to, not including, tail e. *)
Within(h, e, i) == Distance(h, i) < Distance(h, e)

(* The tail is outside the ring, and the head inside unless it is empty. *)
LEMMA RingEnds ==
  \A h, e \in Index : /\ ~Within(h, e, e)
                      /\ h # e => Within(h, e, h)
  BY CapacityAssumption DEF Index, Within, Distance

(* Storing the tail adds one index to the ring, provided it is not full. *)
LEMMA RingGrows ==
  \A h, e, i \in Index : Succ(e) # h =>
     (Within(h, Succ(e), i) <=> Within(h, e, i) \/ i = e)
  BY CapacityAssumption DEF Index, Within, Distance, Succ

(* Storing the head removes one index, provided the ring is not empty. *)
LEMMA RingShrinks ==
  \A h, e, i \in Index : h # e =>
     (Within(Succ(h), e, i) <=> Within(h, e, i) /\ i # h)
  BY CapacityAssumption DEF Index, Within, Distance, Succ

(* Different indices have different successors. *)
LEMMA SuccInjective == \A i, j \in Index : Succ(i) = Succ(j) => i = j
  BY CapacityAssumption DEF Index, Succ

(***************************************************************************)
(* The inductive invariant                                                 *)
(***************************************************************************)

(* The spin lock: a producer past test_and_set holds it, alone. *)
LockInv == /\ \A p \in Producers : pc[p] \in Holding => push_lock_
           /\ \A p, q \in Producers : pc[p] \in Holding /\ pc[q] \in Holding
                                        => p = q

(* The lock holder's copy of tail_ is current, since only it stores tail_;  *)
(* past the full test there is room, since the consumer only makes more.    *)
ProducerInv ==
  \A p \in Producers :
    /\ pc[p] # "idle" => item[p] \in Items
    /\ pc[p] \in {"check", "drop", "construct", "publish"} => t[p] = tail_
    /\ pc[p] \in {"construct", "publish"} => Succ(tail_) # head_

(* The ring the consumer found non-empty stays so: producers only add. *)
ConsumerInv == /\ cpc # "idle" => head_ # tail_
               /\ cpc \in {"destroy", "publish"} => out \in Items

(* What the storage at index i holds, as long as the queue exists: an item  *)
(* inside the ring, but for what pop() has left of the oldest one; nothing  *)
(* outside it, but for what push() has constructed and not yet published.   *)
StorageInv ==
  \A i \in Index :
    /\ Within(head_, tail_, i) =>
         /\ i = head_ /\ cpc = "destroy" => buffer_[i] = MovedFrom
         /\ i = head_ /\ cpc = "publish" => buffer_[i] = Raw
         /\ ~(i = head_ /\ cpc \in {"destroy", "publish"}) => buffer_[i] \in Items
    /\ ~Within(head_, tail_, i) =>
         /\ \A p \in Producers : i = tail_ /\ pc[p] = "publish" =>
               buffer_[i] = item[p]
         /\ ~(i = tail_ /\ \E p \in Producers : pc[p] = "publish") =>
               buffer_[i] = Raw

(* After ~MPSCQueue() nothing lives in the storage and nobody is inside. *)
DestroyedInv == /\ \A i \in Index : buffer_[i] = Raw
                /\ \A p \in Producers : pc[p] = "idle"
                /\ cpc = "idle"

IInv == /\ TypeOK
        /\ LockInv
        /\ ProducerInv
        /\ ConsumerInv
        /\ ~destroyed => StorageInv
        /\ destroyed => DestroyedInv

(* A newly constructed queue satisfies the invariant. *)
LEMMA InitInv == Init => IInv
  <1> SUFFICES ASSUME Init PROVE IInv
    OBVIOUS
  <1>1. TypeOK
    <2>1. head_ \in Index /\ 0 \in Index
      BY CapacityAssumption DEF Init, Index
    <2>2. calls \in 0 .. MaxPush
      BY BoundAssumption DEF Init
    <2>. QED
      BY <2>1, <2>2 DEF Init, TypeOK
  <1>2. LockInv /\ ProducerInv /\ ConsumerInv
    BY DEF Init, LockInv, ProducerInv, ConsumerInv, Holding
  <1>3. StorageInv
    BY CapacityAssumption DEF Init, StorageInv, Within, Distance, Index
  <1>. QED
    BY <1>1, <1>2, <1>3 DEF Init, IInv

(* Every step preserves the invariant: one case per action. *)
LEMMA NextInv == IInv /\ [Next]_vars => IInv'
  <1> SUFFICES ASSUME IInv, [Next]_vars PROVE IInv'
    OBVIOUS
  <1> USE DEF IInv, Goto, CGoto, queueVars, consumerVars
  <1>1. ASSUME NEW p \in Producers, Call(p) PROVE IInv'
    <2>0. calls + 1 \in Items /\ calls + 1 \in 0 .. MaxPush
      BY <1>1, BoundAssumption DEF Call, TypeOK, Items
    <2>1. TypeOK'
      BY <1>1, <2>0 DEF Call, TypeOK, Holding
    <2>2. LockInv'
      BY <1>1 DEF Call, LockInv, TypeOK, Holding
    <2>3. ProducerInv'
      BY <1>1, <2>0 DEF Call, ProducerInv, TypeOK
    <2>4. ConsumerInv'
      BY <1>1 DEF Call, ConsumerInv
    <2>5. ~destroyed' => StorageInv'
      BY <1>1 DEF Call, StorageInv, TypeOK
    <2>6. destroyed' => DestroyedInv'
      BY <1>1 DEF Call, DestroyedInv, TypeOK
    <2>. QED
      BY <2>1, <2>2, <2>3, <2>4, <2>5, <2>6
  <1>2. ASSUME NEW p \in Producers, AcquireLock(p) PROVE IInv'
    <2>1. TypeOK'
      BY <1>2 DEF AcquireLock, TypeOK, Holding
    <2>2. LockInv'
      BY <1>2 DEF AcquireLock, LockInv, TypeOK, Holding
    <2>3. ProducerInv'
      BY <1>2 DEF AcquireLock, ProducerInv, LockInv, TypeOK, Holding
    <2>4. ConsumerInv'
      BY <1>2 DEF AcquireLock, ConsumerInv
    <2>5. ~destroyed' => StorageInv'
      BY <1>2 DEF AcquireLock, StorageInv, TypeOK
    <2>6. destroyed' => DestroyedInv'
      BY <1>2 DEF AcquireLock, DestroyedInv, TypeOK
    <2>. QED
      BY <2>1, <2>2, <2>3, <2>4, <2>5, <2>6
  <1>3. ASSUME NEW p \in Producers, LoadTail(p) PROVE IInv'
    <2>1. TypeOK'
      BY <1>3 DEF LoadTail, TypeOK, Holding
    <2>2. LockInv'
      BY <1>3 DEF LoadTail, LockInv, TypeOK, Holding
    <2>3. ProducerInv'
      BY <1>3 DEF LoadTail, ProducerInv, TypeOK
    <2>4. ConsumerInv'
      BY <1>3 DEF LoadTail, ConsumerInv
    <2>5. ~destroyed' => StorageInv'
      BY <1>3 DEF LoadTail, StorageInv, TypeOK
    <2>6. destroyed' => DestroyedInv'
      BY <1>3 DEF LoadTail, DestroyedInv, TypeOK
    <2>. QED
      BY <2>1, <2>2, <2>3, <2>4, <2>5, <2>6
  <1>4. ASSUME NEW p \in Producers, CheckFull(p) PROVE IInv'
    <2>1. TypeOK'
      BY <1>4 DEF CheckFull, TypeOK, Holding
    <2>2. LockInv'
      BY <1>4 DEF CheckFull, LockInv, TypeOK, Holding
    <2>3. ProducerInv'
      BY <1>4, MaskSucc DEF CheckFull, RingFull, ProducerInv, TypeOK
    <2>4. ConsumerInv'
      BY <1>4 DEF CheckFull, ConsumerInv
    <2>5. ~destroyed' => StorageInv'
      BY <1>4 DEF CheckFull, StorageInv, TypeOK
    <2>6. destroyed' => DestroyedInv'
      BY <1>4 DEF CheckFull, DestroyedInv, TypeOK
    <2>. QED
      BY <2>1, <2>2, <2>3, <2>4, <2>5, <2>6
  <1>5. ASSUME NEW p \in Producers, CountDrop(p) PROVE IInv'
    <2>1. TypeOK'
      BY <1>5 DEF CountDrop, TypeOK, Holding
    <2>2. LockInv'
      BY <1>5 DEF CountDrop, LockInv, TypeOK, Holding
    <2>3. ProducerInv'
      BY <1>5 DEF CountDrop, ProducerInv, TypeOK
    <2>4. ConsumerInv'
      BY <1>5 DEF CountDrop, ConsumerInv
    <2>5. ~destroyed' => StorageInv'
      BY <1>5 DEF CountDrop, StorageInv, TypeOK
    <2>6. destroyed' => DestroyedInv'
      BY <1>5 DEF CountDrop, DestroyedInv, TypeOK
    <2>. QED
      BY <2>1, <2>2, <2>3, <2>4, <2>5, <2>6
  <1>6. ASSUME NEW p \in Producers, Construct(p) PROVE IInv'
    <2>0. item[p] \in Items /\ t[p] = tail_ /\ tail_ \in Index
      BY <1>6 DEF Construct, ProducerInv, TypeOK
    <2>1. TypeOK'
      BY <1>6, <2>0 DEF Construct, TypeOK, Holding
    <2>2. LockInv'
      BY <1>6 DEF Construct, LockInv, TypeOK, Holding
    <2>3. ProducerInv'
      BY <1>6 DEF Construct, ProducerInv, TypeOK
    <2>4. ConsumerInv'
      BY <1>6 DEF Construct, ConsumerInv
    <2>5. ~destroyed' => StorageInv'
      <3>1. \A q \in Producers : pc'[q] = "publish" => q = p
        BY <1>6 DEF Construct, LockInv, TypeOK, Holding
      <3>2. ~Within(head_, tail_, tail_)
        BY RingEnds DEF TypeOK
      <3>3. \A i \in Index : Within(head_, tail_, i)' <=> Within(head_, tail_, i)
        BY <1>6 DEF Construct, Within, Distance
      <3>4. /\ pc'[p] = "publish" /\ buffer_'[tail_] = item'[p]
            /\ \A i \in Index : i # tail_ => buffer_'[i] = buffer_[i]
        BY <1>6, <2>0 DEF Construct, TypeOK
      <3>. QED
        BY <1>6, <2>0, <3>1, <3>2, <3>3, <3>4
        DEF Construct, StorageInv, ProducerInv, TypeOK
    <2>6. destroyed' => DestroyedInv'
      BY <1>6 DEF Construct, DestroyedInv, TypeOK
    <2>. QED
      BY <2>1, <2>2, <2>3, <2>4, <2>5, <2>6
  <1>7. ASSUME NEW p \in Producers, StoreTail(p) PROVE IInv'
    <2>1. TypeOK'
      BY <1>7, MaskSucc DEF StoreTail, TypeOK, Holding
    <2>2. LockInv'
      BY <1>7 DEF StoreTail, LockInv, TypeOK, Holding
    <2>3. ProducerInv'
      BY <1>7, MaskSucc DEF StoreTail, ProducerInv, LockInv, TypeOK, Holding
    <2>4. ConsumerInv'
      BY <1>7, MaskSucc DEF StoreTail, ConsumerInv, ProducerInv, TypeOK
    <2>5. ~destroyed' => StorageInv'
      <3>1. t[p] = tail_ /\ tail_' = Succ(tail_) /\ Succ(tail_) # head_
        BY <1>7, MaskSucc DEF StoreTail, ProducerInv, TypeOK
      <3>2. \A q \in Producers : pc'[q] # "publish"
        BY <1>7 DEF StoreTail, LockInv, TypeOK, Holding
      <3>3. \A i \in Index : Within(head_, tail_, i)'
                             <=> Within(head_, tail_, i) \/ i = tail_
        BY <1>7, <3>1, RingGrows DEF StoreTail, TypeOK, Within, Distance
      <3>4. \A i \in Index : i = tail_ => ~Within(head_, tail_, i)
        BY RingEnds DEF TypeOK
      <3>5. ~destroyed' => buffer_[tail_] \in Items
        BY <1>7, <3>4 DEF StoreTail, StorageInv, ProducerInv, TypeOK
      <3>6. cpc # "idle" => head_ # tail_
        BY DEF ConsumerInv
      <3>. QED
        BY <1>7, <3>1, <3>2, <3>3, <3>4, <3>5, <3>6
        DEF StoreTail, StorageInv, TypeOK
    <2>6. destroyed' => DestroyedInv'
      BY <1>7 DEF StoreTail, DestroyedInv, TypeOK
    <2>. QED
      BY <2>1, <2>2, <2>3, <2>4, <2>5, <2>6
  <1>8. ASSUME NEW p \in Producers, ReleaseLock(p) PROVE IInv'
    <2>1. TypeOK'
      BY <1>8 DEF ReleaseLock, TypeOK, Holding
    <2>2. LockInv'
      BY <1>8 DEF ReleaseLock, LockInv, TypeOK, Holding
    <2>3. ProducerInv'
      BY <1>8 DEF ReleaseLock, ProducerInv, TypeOK
    <2>4. ConsumerInv'
      BY <1>8 DEF ReleaseLock, ConsumerInv
    <2>5. ~destroyed' => StorageInv'
      BY <1>8 DEF ReleaseLock, StorageInv, TypeOK
    <2>6. destroyed' => DestroyedInv'
      BY <1>8 DEF ReleaseLock, DestroyedInv, TypeOK
    <2>. QED
      BY <2>1, <2>2, <2>3, <2>4, <2>5, <2>6
  <1>9. CASE LoadIndices
    <2>1. TypeOK'
      BY <1>9 DEF LoadIndices, TypeOK, Holding
    <2>2. LockInv'
      BY <1>9 DEF LoadIndices, LockInv, TypeOK, Holding
    <2>3. ProducerInv'
      BY <1>9 DEF LoadIndices, ProducerInv, TypeOK
    <2>4. ConsumerInv'
      BY <1>9 DEF LoadIndices, RingEmpty, ConsumerInv
    <2>5. ~destroyed' => StorageInv'
      BY <1>9 DEF LoadIndices, StorageInv, TypeOK
    <2>6. destroyed' => DestroyedInv'
      BY <1>9 DEF LoadIndices, DestroyedInv, TypeOK
    <2>. QED
      BY <2>1, <2>2, <2>3, <2>4, <2>5, <2>6
  <1>10. CASE MoveOut
    <2>0. head_ # tail_ /\ Within(head_, tail_, head_) /\ buffer_[head_] \in Items
      BY <1>10, RingEnds
      DEF MoveOut, ConsumerInv, StorageInv, DestroyedInv, TypeOK
    <2>1. TypeOK'
      BY <1>10, <2>0 DEF MoveOut, TypeOK
    <2>2. LockInv'
      BY <1>10 DEF MoveOut, LockInv, TypeOK, Holding
    <2>3. ProducerInv'
      BY <1>10 DEF MoveOut, ProducerInv, TypeOK
    <2>4. ConsumerInv'
      BY <1>10, <2>0 DEF MoveOut, ConsumerInv
    <2>5. ~destroyed' => StorageInv'
      BY <1>10, <2>0 DEF MoveOut, StorageInv, TypeOK, Within, Distance
    <2>6. destroyed' => DestroyedInv'
      BY <1>10 DEF MoveOut, DestroyedInv, TypeOK
    <2>. QED
      BY <2>1, <2>2, <2>3, <2>4, <2>5, <2>6
  <1>11. CASE DestroyElement
    <2>1. TypeOK'
      BY <1>11 DEF DestroyElement, TypeOK, Holding
    <2>2. LockInv'
      BY <1>11 DEF DestroyElement, LockInv, TypeOK, Holding
    <2>3. ProducerInv'
      BY <1>11 DEF DestroyElement, ProducerInv, TypeOK
    <2>4. ConsumerInv'
      BY <1>11 DEF DestroyElement, ConsumerInv
    <2>5. ~destroyed' => StorageInv'
      BY <1>11 DEF DestroyElement, ConsumerInv, StorageInv, TypeOK
    <2>6. destroyed' => DestroyedInv'
      BY <1>11 DEF DestroyElement, DestroyedInv, TypeOK
    <2>. QED
      BY <2>1, <2>2, <2>3, <2>4, <2>5, <2>6
  <1>12. CASE StoreHead
    <2>1. TypeOK'
      BY <1>12, MaskSucc DEF StoreHead, TypeOK, Holding
    <2>2. LockInv'
      BY <1>12 DEF StoreHead, LockInv, TypeOK, Holding
    <2>3. ProducerInv'
      BY <1>12, MaskSucc, SuccInjective
      DEF StoreHead, ProducerInv, ConsumerInv, TypeOK
    <2>4. ConsumerInv'
      BY <1>12, MaskSucc DEF StoreHead, ConsumerInv
    <2>5. ~destroyed' => StorageInv'
      <3>1. head_ # tail_ /\ head_' = Succ(head_)
        BY <1>12, MaskSucc DEF StoreHead, ConsumerInv, TypeOK
      <3>2. \A i \in Index : Within(head_, tail_, i)'
                             <=> Within(head_, tail_, i) /\ i # head_
        BY <1>12, <3>1, RingShrinks DEF StoreHead, TypeOK, Within, Distance
      <3>3. Within(head_, tail_, head_)
        BY <3>1, RingEnds DEF TypeOK
      <3>. QED
        BY <1>12, <3>1, <3>2, <3>3 DEF StoreHead, StorageInv, TypeOK
    <2>6. destroyed' => DestroyedInv'
      BY <1>12 DEF StoreHead, DestroyedInv, TypeOK
    <2>. QED
      BY <2>1, <2>2, <2>3, <2>4, <2>5, <2>6
  <1>13. CASE Destruct
    <2>1. TypeOK'
      BY <1>13 DEF Destruct, TypeOK, Holding
    <2>2. LockInv'
      BY <1>13 DEF Destruct, LockInv, TypeOK, Holding
    <2>3. ProducerInv'
      BY <1>13 DEF Destruct, ProducerInv, TypeOK
    <2>4. ConsumerInv'
      BY <1>13 DEF Destruct, ConsumerInv
    <2>5. ~destroyed' => StorageInv'
      BY <1>13 DEF Destruct, StorageInv, TypeOK
    <2>6. destroyed' => DestroyedInv'
      BY <1>13 DEF Destruct, DestroyedInv, StorageInv, TypeOK, InRing, Within
    <2>. QED
      BY <2>1, <2>2, <2>3, <2>4, <2>5, <2>6
  <1>14. CASE UNCHANGED vars
    BY <1>14
    DEF vars, TypeOK, LockInv, ProducerInv, ConsumerInv, StorageInv,
        DestroyedInv, Holding, Within, Distance
  <1>. QED
    BY <1>1, <1>2, <1>3, <1>4, <1>5, <1>6, <1>7, <1>8, <1>9, <1>10, <1>11,
       <1>12, <1>13, <1>14
    DEF Next, Push, Pop

(***************************************************************************)
(* Safety                                                                  *)
(***************************************************************************)

(* The invariant holds in every reachable state. *)
LEMMA InvHolds == Spec => []IInv
  BY InitInv, NextInv, PTL DEF Spec

(* Every variable has its type: in particular push() and pop() only form   *)
(* indices of the buffer, and pop() only ever returns items.               *)
THEOREM TypeCorrect == Spec => []TypeOK
  BY InvHolds, PTL DEF IInv

(* No two threads are ever about to touch the same element.                *)
THEOREM NoRace == Spec => []NoSlotRace
  <1>1. IInv => NoSlotRace
    BY DEF IInv, NoSlotRace, LockInv, ProducerInv, ConsumerInv, Holding
  <1>. QED
    BY <1>1, InvHolds, PTL

(* Elements are constructed in empty storage, and moved out of and         *)
(* destroyed exactly while they live.                                      *)
THEOREM LifetimesRespected == Spec => []Lifetimes
  <1>1. ASSUME IInv PROVE Lifetimes
    <2> USE <1>1 DEF IInv
    <2>1. ASSUME NEW p \in Producers, pc[p] = "construct"
          PROVE  buffer_[t[p]] = Raw
      <3>1. ~destroyed /\ t[p] = tail_ /\ tail_ \in Index
        BY <2>1 DEF DestroyedInv, ProducerInv, TypeOK
      <3>2. \A q \in Producers : pc[q] # "publish"
        BY <2>1 DEF LockInv, Holding
      <3>3. \A i \in Index : i = tail_ => ~Within(head_, tail_, i)
        BY RingEnds DEF TypeOK
      <3>. QED
        BY <3>1, <3>2, <3>3 DEF StorageInv
    <2>2. ASSUME cpc \in {"move", "destroy"}
          PROVE  /\ cpc = "move" => buffer_[head_] \in Items
                 /\ cpc = "destroy" => buffer_[head_] = MovedFrom
      <3>1. ~destroyed /\ head_ \in Index /\ Within(head_, tail_, head_)
        BY <2>2, RingEnds DEF DestroyedInv, ConsumerInv, TypeOK
      <3>. QED
        BY <2>2, <3>1 DEF StorageInv
    <2>3. destroyed => \A i \in Index : buffer_[i] = Raw
      BY DEF DestroyedInv
    <2>. QED
      BY <2>1, <2>2, <2>3 DEF Lifetimes
  <1>. QED
    BY <1>1, InvHolds, PTL

(***************************************************************************)
(* Refinement: every step of the ring is a step of the abstract queue of   *)
(* BoundedFifo or leaves it unchanged.                                     *)
(***************************************************************************)

(* The k-th index of a ring whose head is h; At(k) is Nth(head_, k). *)
Nth(h, k) == IF h + k - 1 < Capacity THEN h + k - 1 ELSE h + k - 1 - Capacity

(* Its first Distance(h, e) indices are those within the ring, each once. *)
LEMMA NthWithin ==
  \A h, e \in Index :
    /\ Distance(h, e) \in 0 .. Capacity - 1
    /\ Distance(h, e) = 0 <=> h = e
    /\ \A k \in 1 .. Distance(h, e) : /\ Nth(h, k) \in Index
                                      /\ Within(h, e, Nth(h, k))
                                      /\ Nth(h, k) = h <=> k = 1
  BY CapacityAssumption DEF Index, Distance, Within, Nth

(* The ring with one more index at its end. *)
LEMMA NthGrows ==
  \A h, e \in Index : Succ(e) # h =>
    /\ Distance(h, Succ(e)) = Distance(h, e) + 1
    /\ Nth(h, Distance(h, e) + 1) = e
  BY CapacityAssumption DEF Index, Distance, Succ, Nth

(* The ring without its first index. *)
LEMMA NthShrinks ==
  \A h, e \in Index : h # e =>
    /\ Distance(Succ(h), e) = Distance(h, e) - 1
    /\ \A k \in 1 .. Distance(h, e) - 1 : Nth(Succ(h), k) = Nth(h, k + 1)
  BY CapacityAssumption DEF Index, Distance, Succ, Nth

(* A full ring holds Capacity - 1 elements. *)
LEMMA FullDistance ==
  \A h, e \in Index : Succ(e) = h <=> Distance(h, e) = Capacity - 1
  BY CapacityAssumption DEF Index, Distance, Succ

(***************************************************************************)
(* The contents                                                            *)
(***************************************************************************)

(* pop() has moved the oldest element out and not yet stored head_. *)
Moved == cpc \in {"destroy", "publish"}

Element(k) == IF k = 1 /\ Moved THEN out ELSE buffer_[Nth(head_, k)]

(* The contents are a sequence of items, one per index of the ring. *)
ContentsInv ==
  ~destroyed => /\ Contents \in Seq(Items)
                /\ Len(Contents) = Distance(head_, tail_)
                /\ \A k \in 1 .. Distance(head_, tail_) : Contents[k] = Element(k)

(* What the invariant says of the contents. *)
LEMMA ContentsSeq == IInv => ContentsInv
  <1> SUFFICES ASSUME IInv, ~destroyed PROVE ContentsInv
    BY DEF ContentsInv
  <1> DEFINE n == Distance(head_, tail_)
  <1>1. n \in Nat
    <2>1. n \in 0 .. Capacity - 1
      BY NthWithin DEF IInv, TypeOK
    <2>. QED
      BY <2>1, CapacityAssumption
  <1>2. Contents = [k \in 1 .. n |-> Element(k)]
    BY DEF Contents, Element, Moved, At, Nth
  <1>3. \A k \in 1 .. n : Element(k) \in Items
    BY NthWithin DEF IInv, TypeOK, Element, Moved, StorageInv, ConsumerInv
  <1> HIDE DEF n
  <1>4. Contents \in [1 .. n -> Items]
    BY <1>2, <1>3
  <1>5. Contents \in Seq(Items) /\ Len(Contents) = n
    BY <1>1, <1>4
  <1>. QED
    BY <1>2, <1>5 DEF n, ContentsInv

(* It also holds in the next state. *)
LEMMA ContentsSeqNext == IInv' => ContentsInv'
  BY ContentsSeq, PTL

(* Two states with the same elements have the same contents. *)
LEMMA SameContents ==
  ASSUME IInv, IInv', destroyed' = destroyed,
         head_' = head_, tail_' = tail_,
         \A k \in 1 .. Distance(head_, tail_) : Element(k)' = Element(k)
  PROVE  AbstractQueue' = AbstractQueue
  <1>1. CASE destroyed
    BY <1>1 DEF AbstractQueue
  <1>2. CASE ~destroyed
    <2>1. Distance(head_, tail_)' = Distance(head_, tail_)
      BY DEF Distance
    <2>2. /\ Contents \in Seq(Items)
          /\ Len(Contents) = Distance(head_, tail_)
          /\ \A k \in 1 .. Distance(head_, tail_) : Contents[k] = Element(k)
      BY <1>2, ContentsSeq DEF ContentsInv
    <2>3. /\ Contents' \in Seq(Items)
          /\ Len(Contents') = Distance(head_, tail_)
          /\ \A k \in 1 .. Distance(head_, tail_) : Contents'[k] = Element(k)'
      BY <1>2, <2>1, ContentsSeqNext DEF ContentsInv
    <2>4. Contents' = Contents
      BY <2>2, <2>3, SeqEqual
    <2>. QED
      BY <1>2, <2>4 DEF AbstractQueue
  <1>. QED
    BY <1>1, <1>2

(***************************************************************************)
(* Init and the steps                                                      *)
(***************************************************************************)

(* A new ring is the empty queue. *)
LEMMA InitRefines == Init => Fifo!Init
  <1> SUFFICES ASSUME Init PROVE Fifo!Init
    OBVIOUS
  <1>1. Contents \in Seq(Items) /\ Len(Contents) = 0
    <2>1. ContentsInv
      BY InitInv, ContentsSeq
    <2>. QED
      BY <2>1 DEF ContentsInv, Init, Distance
  <1>2. AbstractQueue = <<>>
    BY <1>1, EmptySeq DEF AbstractQueue, Init
  <1>3. AbstractPending = [p \in Producers |-> None]
    BY DEF AbstractPending, Init, Undecided
  <1>4. AbstractDropped = 0
    BY DEF AbstractDropped, Init
  <1>. QED
    BY <1>2, <1>3, <1>4 DEF Fifo!Init, Init

(* A step that neither decides a push nor pops leaves the queue unchanged. *)
LEMMA StepStutters ==
  ASSUME IInv, IInv', destroyed' = destroyed, delivered' = delivered,
         head_' = head_, tail_' = tail_,
         \A k \in 1 .. Distance(head_, tail_) : Element(k)' = Element(k),
         AbstractPending' = AbstractPending, AbstractDropped' = AbstractDropped
  PROVE  UNCHANGED Fifo!vars
  BY SameContents DEF Fifo!vars

(* Every step of the ring is a step of the queue, or no step of it. *)
LEMMA StepRefines == IInv /\ IInv' /\ [Next]_vars => [Fifo!Next]_(Fifo!vars)
  <1> SUFFICES ASSUME IInv, IInv', [Next]_vars PROVE [Fifo!Next]_(Fifo!vars)
    OBVIOUS
  <1> DEFINE n == Distance(head_, tail_)
  <1>t. TypeOK
    BY DEF IInv
  <1>1. ASSUME NEW p \in Producers, Call(p) PROVE Fifo!Invoke(p)
    <2>1. calls + 1 \in Items
      BY <1>1, <1>t, BoundAssumption DEF Call, TypeOK, Items
    <2>2. \A k \in 1 .. n : Element(k)' = Element(k)
      BY <1>1 DEF Call, queueVars, consumerVars, Element, Moved
    <2>3. AbstractQueue' = AbstractQueue
      BY <1>1, <2>2, SameContents DEF Call, queueVars
    <2>4. AbstractPending[p] = None
      BY <1>1 DEF Call, Goto, AbstractPending, Undecided
    <2>5. AbstractPending' = [AbstractPending EXCEPT ![p] = calls + 1]
      BY <1>1, <1>t DEF Call, Goto, AbstractPending, Undecided, TypeOK
    <2>6. AbstractDropped' = AbstractDropped
      BY <1>1, <1>t DEF Call, Goto, queueVars, AbstractDropped, TypeOK
    <2>. QED
      BY <1>1, <2>1, <2>3, <2>4, <2>5, <2>6
      DEF Call, queueVars, consumerVars, Fifo!Invoke
  <1>2. ASSUME NEW p \in Producers, AcquireLock(p) PROVE UNCHANGED Fifo!vars
    <2>1. \A k \in 1 .. n : Element(k)' = Element(k)
      BY <1>2 DEF AcquireLock, queueVars, consumerVars, Element, Moved
    <2>2. AbstractPending' = AbstractPending
      BY <1>2, <1>t DEF AcquireLock, Goto, AbstractPending, Undecided, TypeOK
    <2>3. AbstractDropped' = AbstractDropped
      BY <1>2, <1>t DEF AcquireLock, Goto, queueVars, AbstractDropped, TypeOK
    <2>. QED
      BY <1>2, <2>1, <2>2, <2>3, StepStutters
      DEF AcquireLock, queueVars, consumerVars
  <1>3. ASSUME NEW p \in Producers, LoadTail(p) PROVE UNCHANGED Fifo!vars
    <2>1. \A k \in 1 .. n : Element(k)' = Element(k)
      BY <1>3 DEF LoadTail, queueVars, consumerVars, Element, Moved
    <2>2. AbstractPending' = AbstractPending
      BY <1>3, <1>t DEF LoadTail, Goto, AbstractPending, Undecided, TypeOK
    <2>3. AbstractDropped' = AbstractDropped
      BY <1>3, <1>t DEF LoadTail, Goto, queueVars, AbstractDropped, TypeOK
    <2>. QED
      BY <1>3, <2>1, <2>2, <2>3, StepStutters
      DEF LoadTail, queueVars, consumerVars
  <1>4. ASSUME NEW p \in Producers, CountDrop(p) PROVE UNCHANGED Fifo!vars
    <2>1. \A k \in 1 .. n : Element(k)' = Element(k)
      BY <1>4 DEF CountDrop, queueVars, consumerVars, Element, Moved
    <2>2. AbstractPending' = AbstractPending
      BY <1>4, <1>t DEF CountDrop, Goto, AbstractPending, Undecided, TypeOK
    <2>3. AbstractDropped' = AbstractDropped
      <3>1. \A q \in Producers : pc[q] = "drop" => q = p
        BY <1>4 DEF CountDrop, Goto, IInv, LockInv, Holding
      <3>. QED
        BY <1>4, <3>1, <1>t DEF CountDrop, Goto, AbstractDropped, TypeOK
    <2>. QED
      BY <1>4, <2>1, <2>2, <2>3, StepStutters
      DEF CountDrop, queueVars, consumerVars
  <1>5. ASSUME NEW p \in Producers, Construct(p) PROVE UNCHANGED Fifo!vars
    <2>1. \A k \in 1 .. n : Element(k)' = Element(k)
      <3>1. t[p] = tail_ /\ ~Within(head_, tail_, tail_)
        BY <1>5, <1>t, RingEnds DEF Construct, Goto, IInv, ProducerInv, TypeOK
      <3>2. \A k \in 1 .. n : /\ Nth(head_, k) \in Index
                               /\ Nth(head_, k) # tail_
        BY <3>1, <1>t, NthWithin DEF TypeOK
      <3>. QED
        BY <1>5, <1>t, <3>1, <3>2
        DEF Construct, consumerVars, Element, Moved, Nth, TypeOK
    <2>2. AbstractPending' = AbstractPending
      BY <1>5, <1>t DEF Construct, Goto, AbstractPending, Undecided, TypeOK
    <2>3. AbstractDropped' = AbstractDropped
      BY <1>5, <1>t DEF Construct, Goto, queueVars, AbstractDropped, TypeOK
    <2>. QED
      BY <1>5, <2>1, <2>2, <2>3, StepStutters
      DEF Construct, queueVars, consumerVars
  <1>6. ASSUME NEW p \in Producers, ReleaseLock(p) PROVE UNCHANGED Fifo!vars
    <2>1. \A k \in 1 .. n : Element(k)' = Element(k)
      BY <1>6 DEF ReleaseLock, queueVars, consumerVars, Element, Moved
    <2>2. AbstractPending' = AbstractPending
      BY <1>6, <1>t DEF ReleaseLock, Goto, AbstractPending, Undecided, TypeOK
    <2>3. AbstractDropped' = AbstractDropped
      BY <1>6, <1>t DEF ReleaseLock, Goto, queueVars, AbstractDropped, TypeOK
    <2>. QED
      BY <1>6, <2>1, <2>2, <2>3, StepStutters
      DEF ReleaseLock, queueVars, consumerVars
  <1>7. ASSUME LoadIndices PROVE UNCHANGED Fifo!vars
    <2>1. \A k \in 1 .. n : Element(k)' = Element(k)
      BY <1>7, <1>t, NthWithin
      DEF LoadIndices, CGoto, queueVars, Element, Moved, TypeOK
    <2>2. AbstractPending' = AbstractPending /\ AbstractDropped' = AbstractDropped
      BY <1>7 DEF LoadIndices, queueVars, AbstractPending, AbstractDropped
    <2>. QED
      BY <1>7, <2>1, <2>2, StepStutters DEF LoadIndices, queueVars
  <1>8. ASSUME MoveOut PROVE UNCHANGED Fifo!vars
    <2>1. \A k \in 1 .. n : Element(k)' = Element(k)
      BY <1>8, <1>t, NthWithin
      DEF MoveOut, CGoto, queueVars, Element, Moved, TypeOK
    <2>2. AbstractPending' = AbstractPending /\ AbstractDropped' = AbstractDropped
      BY <1>8 DEF MoveOut, queueVars, AbstractPending, AbstractDropped
    <2>. QED
      BY <1>8, <2>1, <2>2, StepStutters DEF MoveOut, queueVars
  <1>9. ASSUME DestroyElement PROVE UNCHANGED Fifo!vars
    <2>1. \A k \in 1 .. n : Element(k)' = Element(k)
      BY <1>9, <1>t, NthWithin
      DEF DestroyElement, CGoto, queueVars, Element, Moved, TypeOK
    <2>2. AbstractPending' = AbstractPending /\ AbstractDropped' = AbstractDropped
      BY <1>9 DEF DestroyElement, queueVars, AbstractPending, AbstractDropped
    <2>. QED
      BY <1>9, <2>1, <2>2, StepStutters DEF DestroyElement, queueVars
  <1>10. ASSUME NEW p \in Producers, CheckFull(p)
         PROVE  Fifo!Reject(p) \/ UNCHANGED Fifo!vars
    <2>1. \A k \in 1 .. n : Element(k)' = Element(k)
      BY <1>10 DEF CheckFull, queueVars, consumerVars, Element, Moved
    <2>2. CASE pc'[p] = "construct"
      <3>1. AbstractPending' = AbstractPending
        BY <1>10, <2>2, <1>t
        DEF CheckFull, Goto, AbstractPending, Undecided, TypeOK
      <3>2. AbstractDropped' = AbstractDropped
        BY <1>10, <2>2, <1>t
        DEF CheckFull, Goto, queueVars, AbstractDropped, TypeOK
      <3>. QED
        BY <1>10, <2>1, <3>1, <3>2, StepStutters
        DEF CheckFull, queueVars, consumerVars
    <2>3. CASE pc'[p] = "drop"
      <3>1. pc[p] = "check" /\ RingFull(t[p]) /\ pc' = [pc EXCEPT ![p] = "drop"]
        BY <1>10, <2>3, <1>t DEF CheckFull, Goto, TypeOK
      <3>2. ~destroyed /\ item[p] \in Items /\ t[p] = tail_
        BY <3>1 DEF IInv, DestroyedInv, ProducerInv
      <3>3. Len(AbstractQueue) = Capacity - 1
        <4>1. n = Capacity - 1
          BY <3>1, <3>2, <1>t, MaskSucc, FullDistance DEF RingFull, TypeOK
        <4>. QED
          BY <3>2, <4>1, ContentsSeq DEF ContentsInv, AbstractQueue
      <3>4. AbstractQueue' = AbstractQueue
        BY <1>10, <2>1, SameContents DEF CheckFull, queueVars
      <3>5. AbstractPending[p] = item[p] /\ item[p] # None
        BY <3>1, <3>2, ValueAssumption DEF AbstractPending, Undecided
      <3>6. AbstractPending' = [AbstractPending EXCEPT ![p] = None]
        BY <1>10, <3>1, <1>t DEF CheckFull, AbstractPending, Undecided, TypeOK
      <3>7. \A q \in Producers : pc[q] # "drop"
        BY <3>1 DEF IInv, LockInv, Holding
      <3>8. AbstractDropped' = AbstractDropped + 1
        BY <1>10, <3>1, <3>7, <1>t
        DEF CheckFull, queueVars, AbstractDropped, TypeOK
      <3>. QED
        BY <1>10, <3>3, <3>4, <3>5, <3>6, <3>8
        DEF CheckFull, queueVars, consumerVars, Fifo!Reject
    <2>. QED
      BY <1>10, <1>t, <2>2, <2>3 DEF CheckFull, Goto, TypeOK
  <1>11. ASSUME NEW p \in Producers, StoreTail(p) PROVE Fifo!Enqueue(p)
    <2>1. /\ ~destroyed /\ ~destroyed' /\ item[p] \in Items /\ t[p] = tail_
          /\ head_ \in Index /\ tail_ \in Index
          /\ Succ(tail_) # head_ /\ tail_' = Succ(tail_) /\ head_' = head_
      BY <1>11, MaskSucc
      DEF StoreTail, Goto, IInv, TypeOK, DestroyedInv, ProducerInv
    <2>2. /\ Contents \in Seq(Items) /\ Len(Contents) = n
          /\ \A k \in 1 .. n : Contents[k] = Element(k)
      BY <2>1, ContentsSeq DEF ContentsInv
    <2>3. /\ n \in Nat /\ n < Capacity - 1
          /\ Distance(head_, tail_)' = n + 1 /\ Nth(head_, n + 1) = tail_
      BY <2>1, NthWithin, NthGrows, FullDistance, CapacityAssumption
      DEF Distance
    <2>4. /\ Contents' \in Seq(Items) /\ Len(Contents') = n + 1
          /\ \A k \in 1 .. n + 1 : Contents'[k] = Element(k)'
      BY <2>1, <2>3, ContentsSeqNext DEF ContentsInv
    <2>5. \A k \in 1 .. n + 1 : Element(k)' = Element(k)
      BY <1>11 DEF StoreTail, consumerVars, Element, Moved, Nth
    <2>6. Element(n + 1) = item[p]
      <3>1. ~(n + 1 = 1 /\ Moved)
        BY <2>1, <2>3, NthWithin DEF IInv, ConsumerInv, Moved
      <3>2. ~Within(head_, tail_, tail_)
        BY <2>1, RingEnds
      <3>3. buffer_[tail_] = item[p]
        BY <1>11, <2>1, <3>2 DEF StoreTail, Goto, IInv, StorageInv
      <3>. QED
        BY <3>1, <3>3, <2>3 DEF Element
    <2>7. Contents' = Append(Contents, item[p])
      <3> DEFINE app == Append(Contents, item[p])
      <3>1. /\ app \in Seq(Items) /\ Len(app) = n + 1
            /\ \A k \in 1 .. n : app[k] = Contents[k]
            /\ app[n + 1] = item[p]
        BY <2>1, <2>2, AppendProperties
      <3> HIDE DEF app
      <3>2. \A k \in 1 .. n + 1 : Contents'[k] = app[k]
        BY <2>2, <2>3, <2>4, <2>5, <2>6, <3>1
      <3>3. Contents' = app
        BY <2>4, <3>1, <3>2, SeqEqual
      <3>. QED
        BY <3>3 DEF app
    <2>8. AbstractPending[p] = item[p] /\ item[p] # None
      BY <1>11, <2>1, ValueAssumption
      DEF StoreTail, Goto, AbstractPending, Undecided
    <2>9. AbstractPending' = [AbstractPending EXCEPT ![p] = None]
      BY <1>11, <1>t DEF StoreTail, Goto, AbstractPending, Undecided, TypeOK
    <2>10. AbstractDropped' = AbstractDropped
      BY <1>11, <1>t DEF StoreTail, Goto, AbstractDropped, TypeOK
    <2>. QED
      BY <1>11, <2>1, <2>2, <2>3, <2>7, <2>8, <2>9, <2>10
      DEF StoreTail, consumerVars, AbstractQueue, Fifo!Enqueue
  <1>12. ASSUME StoreHead PROVE Fifo!Dequeue
    <2>1. /\ ~destroyed /\ ~destroyed' /\ Moved
          /\ head_ \in Index /\ tail_ \in Index /\ head_ # tail_
          /\ head_' = Succ(head_) /\ tail_' = tail_ /\ ~Moved'
      BY <1>12, MaskSucc
      DEF StoreHead, CGoto, IInv, TypeOK, DestroyedInv, ConsumerInv, Moved
    <2>2. /\ Contents \in Seq(Items) /\ Len(Contents) = n
          /\ \A k \in 1 .. n : Contents[k] = Element(k)
      BY <2>1, ContentsSeq DEF ContentsInv
    <2>3. n \in Nat /\ n > 0 /\ Distance(head_, tail_)' = n - 1
      BY <2>1, NthWithin, NthShrinks, CapacityAssumption DEF Distance
    <2>4. /\ Contents' \in Seq(Items) /\ Len(Contents') = n - 1
          /\ \A k \in 1 .. n - 1 : Contents'[k] = Element(k)'
      BY <2>1, <2>3, ContentsSeqNext DEF ContentsInv
    <2>5. \A k \in 1 .. n - 1 : Element(k)' = Element(k + 1)
      <3>1. \A k \in 1 .. n - 1 : Element(k)' = buffer_[Nth(Succ(head_), k)]
        BY <1>12, <2>1 DEF StoreHead, Element, Nth
      <3>2. \A k \in 1 .. n - 1 : Nth(Succ(head_), k) = Nth(head_, k + 1)
        BY <2>1, NthShrinks
      <3>3. \A k \in 1 .. n - 1 : k + 1 # 1
        BY <2>3
      <3>. QED
        BY <3>1, <3>2, <3>3 DEF Element
    <2>6. Contents # <<>> /\ Head(Contents) = out
      BY <2>1, <2>2, <2>3 DEF Element
    <2>7. Contents' = Tail(Contents)
      <3> DEFINE tl == Tail(Contents)
      <3>1. /\ tl \in Seq(Items) /\ Len(tl) = n - 1
            /\ \A k \in 1 .. n - 1 : tl[k] = Contents[k + 1]
        BY <2>2, <2>6, HeadTailProperties
      <3> HIDE DEF tl
      <3>2. \A k \in 1 .. n - 1 : k + 1 \in 1 .. n
        BY <2>3
      <3>3. \A k \in 1 .. n - 1 : Contents'[k] = tl[k]
        BY <2>2, <2>4, <2>5, <3>1, <3>2
      <3>4. Contents' = tl
        BY <2>4, <3>1, <3>3, SeqEqual
      <3>. QED
        BY <3>4 DEF tl
    <2>8. AbstractPending' = AbstractPending /\ AbstractDropped' = AbstractDropped
      BY <1>12 DEF StoreHead, AbstractPending, AbstractDropped
    <2>. QED
      BY <1>12, <2>1, <2>6, <2>7, <2>8
      DEF StoreHead, AbstractQueue, Fifo!Dequeue
  <1>13. ASSUME Destruct PROVE Fifo!Close
    <2>1. \A p \in Producers : AbstractPending[p] = None
      BY <1>13 DEF Destruct, AbstractPending, Undecided
    <2>2. AbstractPending' = AbstractPending /\ AbstractDropped' = AbstractDropped
      BY <1>13 DEF Destruct, AbstractPending, AbstractDropped
    <2>. QED
      BY <1>13, <2>1, <2>2
      DEF Destruct, consumerVars, AbstractQueue, Fifo!Close
  <1>14. CASE UNCHANGED vars
    BY <1>14 DEF vars, Fifo!vars, AbstractQueue, Contents, Distance, At,
                 AbstractPending, AbstractDropped
  <1>. QED
    BY <1>1, <1>2, <1>3, <1>4, <1>5, <1>6, <1>7, <1>8, <1>9, <1>10, <1>11, <1>12,
       <1>13, <1>14 DEF Next, Push, Pop, Fifo!Next

(* MPSCQueue implements the bounded first-in first-out queue: no item is   *)
(* lost, duplicated, reordered or invented, and one is refused only at an  *)
(* instant at which Capacity - 1 items are held.                           *)
THEOREM Refinement == Spec => ImplementsFifo
  BY InitRefines, StepRefines, InvHolds, PTL
  DEF Spec, ImplementsFifo, Fifo!Spec

=============================================================================
