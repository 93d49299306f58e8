--------------------------- MODULE RustQueueProofs ---------------------------
(***************************************************************************)
(* Proofs about RustQueue, for any number of producers, any capacity and   *)
(* any number of pushes.                                                   *)
(***************************************************************************)
EXTENDS RustQueue, SequenceTheorems, TLAPS

(***************************************************************************)
(* Index arithmetic                                                        *)
(***************************************************************************)

(* The index after i, the indices from a forward to b, and the k-th index  *)
(* of a ring whose head is h, all without the remainder.                   *)
Succ(i) == IF i = CAPACITY - 1 THEN 0 ELSE i + 1
Distance(a, b) == IF b >= a THEN b - a ELSE b - a + CAPACITY
Nth(h, k) == IF h + k - 1 < CAPACITY THEN h + k - 1 ELSE h + k - 1 - CAPACITY

(* Indices of the ring from head h up to, not including, tail e. *)
Within(h, e, i) == Distance(h, i) < Distance(h, e)

(* Masking i + 1 steps to the next index and from the last to the first. *)
LEMMA MaskSucc == \A i \in Index : Mask(i + 1) = Succ(i) /\ Succ(i) \in Index
  BY CapacityAssumption DEF Index, Mask, Succ

(* Masking a difference that may be negative gives the distance. *)
LEMMA MaskDistance == \A h, e \in Index : Mask(e - h) = Distance(h, e)
  BY CapacityAssumption DEF Index, Mask, Distance

(* Masking the head plus an offset gives an index of the ring. *)
LEMMA MaskNth ==
  \A h \in Index, k \in 1 .. CAPACITY - 1 : Mask(h + k - 1) = Nth(h, k)
  BY CapacityAssumption DEF Index, Mask, Nth

(* The tail is outside the ring, and the head inside unless it is empty. *)
LEMMA RingEnds ==
  \A h, e \in Index : /\ ~Within(h, e, e)
                      /\ h # e => Within(h, e, h)
  BY CapacityAssumption DEF Index, Within, Distance

(* Storing the tail adds one index to the ring, provided it is not full. *)
LEMMA RingGrows ==
  \A h, e, i \in Index : Succ(e) # h =>
     (Within(h, Succ(e), i) <=> Within(h, e, i) \/ i = e)
  BY CapacityAssumption DEF Index, Within, Distance, Succ

(* Storing the head removes one index, provided the ring is not empty. *)
LEMMA RingShrinks ==
  \A h, e, i \in Index : h # e =>
     (Within(Succ(h), e, i) <=> Within(h, e, i) /\ i # h)
  BY CapacityAssumption DEF Index, Within, Distance, Succ

(* Different indices have different successors. *)
LEMMA SuccInjective == \A i, j \in Index : Succ(i) = Succ(j) => i = j
  BY CapacityAssumption DEF Index, Succ

(***************************************************************************)
(* The inductive invariant                                                 *)
(***************************************************************************)
Holding == {"check", "drop", "write", "publish", "unlock"}

ShapeInv == /\ push_lock \in Producers \cup {None}
            /\ buffer \in [Index -> Items \cup {Uninit}]
            /\ head \in Index
            /\ tail \in Index
            /\ dropped \in Nat
            /\ pc \in [Producers -> {"idle", "lock"} \cup Holding]
            /\ item \in [Producers -> Items \cup {None}]
            /\ cpc \in {"idle", "read", "publish"}
            /\ out \in Items \cup {None}
            /\ delivered \in Items \cup {None}
            /\ calls \in 0 .. MaxPush
            /\ opc \in {"idle", "head"}
            /\ otail \in Index

(* A producer past lock() has the mutex, hence has it alone. *)
LockInv == \A p \in Producers : pc[p] \in Holding => push_lock = p

(* The room a producer found is still there: only it stores tail, and the  *)
(* consumer only makes more room.                                          *)
ProducerInv ==
  \A p \in Producers :
    /\ pc[p] # "idle" => item[p] \in Items
    /\ pc[p] \in {"write", "publish"} => Succ(tail) # head

(* The ring the consumer found non-empty stays so: producers only add. *)
ConsumerInv == /\ cpc # "idle" => head # tail
               /\ cpc = "publish" => out \in Items

(* What index i holds: an item inside the ring, unless pop() has read it;  *)
(* nothing outside it, but for what push() has written and not published.  *)
StorageInv ==
  \A i \in Index :
    /\ Within(head, tail, i) =>
         IF i = head /\ cpc = "publish" THEN buffer[i] = Uninit
                                        ELSE buffer[i] \in Items
    /\ ~Within(head, tail, i) =>
         /\ \A p \in Producers : i = tail /\ pc[p] = "publish" =>
               buffer[i] = item[p]
         /\ ~(i = tail /\ \E p \in Producers : pc[p] = "publish") =>
               buffer[i] = Uninit

(* Between the two loads of len() each pop brings head one closer to the   *)
(* tail that was loaded, and past it by one ring's length.                 *)
LenInv == /\ first \in 0 .. CAPACITY - 1 /\ popped \in Nat
          /\ opc = "head" =>
               /\ popped <= first => Distance(head, otail) = first - popped
               /\ popped \in first + 1 .. first + CAPACITY - 1 =>
                    Distance(head, otail) = first - popped + CAPACITY
          /\ LenExplained

IInv == /\ ShapeInv
        /\ LockInv
        /\ ProducerInv
        /\ ConsumerInv
        /\ StorageInv
        /\ LenInv

(* A new queue satisfies the invariant. *)
LEMMA InitInv == Init => IInv
  <1> SUFFICES ASSUME Init PROVE IInv
    OBVIOUS
  <1>1. ShapeInv
    <2>1. 0 \in Index
      BY CapacityAssumption DEF Index
    <2>2. calls \in 0 .. MaxPush
      BY BoundAssumption DEF Init
    <2>. QED
      BY <2>1, <2>2 DEF Init, ShapeInv
  <1>2. LockInv /\ ProducerInv /\ ConsumerInv
    BY DEF Init, LockInv, ProducerInv, ConsumerInv, Holding
  <1>3. StorageInv
    BY CapacityAssumption DEF Init, StorageInv, Within, Distance, Index
  <1>4. LenInv
    <2>1. /\ first = 0 /\ popped = 0 /\ len = 0 /\ opc = "idle"
          /\ full <=> CAPACITY = 1
      BY DEF Init
    <2>2. CAPACITY \in Nat \ {0}
      BY CapacityAssumption
    <2>. QED
      BY <2>1, <2>2 DEF LenInv, LenExplained
  <1>. QED
    BY <1>1, <1>2, <1>3, <1>4 DEF IInv

(* Every step preserves the invariant: one case per action. *)
LEMMA NextInv == IInv /\ [Next]_vars => IInv'
  <1> SUFFICES ASSUME IInv, [Next]_vars PROVE IInv'
    OBVIOUS
  <1> USE DEF IInv, Goto, CGoto, pushVars, popVars, lenVars
  <1>1. ASSUME NEW p \in Producers, Call(p) PROVE IInv'
    <2>0. calls + 1 \in Items /\ calls + 1 \in 0 .. MaxPush
      BY <1>1, BoundAssumption DEF Call, ShapeInv, Items
    <2>1. ShapeInv'
      BY <1>1, <2>0 DEF Call, ShapeInv, Holding
    <2>2. LockInv'
      BY <1>1 DEF Call, LockInv, ShapeInv, Holding
    <2>3. ProducerInv'
      BY <1>1, <2>0 DEF Call, ProducerInv, ShapeInv
    <2>4. ConsumerInv'
      BY <1>1 DEF Call, ConsumerInv
    <2>5. StorageInv'
      BY <1>1 DEF Call, StorageInv, ShapeInv
    <2>6. LenInv'
      BY <1>1 DEF Call, LenInv, LenExplained
    <2>. QED
      BY <2>1, <2>2, <2>3, <2>4, <2>5, <2>6
  <1>2. ASSUME NEW p \in Producers, Lock(p) PROVE IInv'
    <2>1. ShapeInv'
      BY <1>2 DEF Lock, ShapeInv, Holding
    <2>2. LockInv'
      BY <1>2, ValueAssumption DEF Lock, LockInv, ShapeInv, Holding
    <2>3. ProducerInv'
      BY <1>2 DEF Lock, ProducerInv, ShapeInv, LockInv, Holding
    <2>4. ConsumerInv'
      BY <1>2 DEF Lock, ConsumerInv
    <2>5. StorageInv'
      BY <1>2 DEF Lock, StorageInv, ShapeInv
    <2>6. LenInv'
      BY <1>2 DEF Lock, LenInv, LenExplained
    <2>. QED
      BY <2>1, <2>2, <2>3, <2>4, <2>5, <2>6
  <1>3. ASSUME NEW p \in Producers, CheckFull(p) PROVE IInv'
    <2>1. ShapeInv'
      BY <1>3 DEF CheckFull, ShapeInv, Holding
    <2>2. LockInv'
      BY <1>3 DEF CheckFull, LockInv, ShapeInv, Holding
    <2>3. ProducerInv'
      BY <1>3, MaskSucc DEF CheckFull, ProducerInv, ShapeInv, Full, Meets
    <2>4. ConsumerInv'
      BY <1>3 DEF CheckFull, ConsumerInv
    <2>5. StorageInv'
      BY <1>3 DEF CheckFull, StorageInv, ShapeInv
    <2>6. LenInv'
      BY <1>3 DEF CheckFull, LenInv, LenExplained
    <2>. QED
      BY <2>1, <2>2, <2>3, <2>4, <2>5, <2>6
  <1>4. ASSUME NEW p \in Producers, CountDrop(p) PROVE IInv'
    <2>1. ShapeInv'
      BY <1>4 DEF CountDrop, ShapeInv, Holding
    <2>2. LockInv'
      BY <1>4 DEF CountDrop, LockInv, ShapeInv, Holding
    <2>3. ProducerInv'
      BY <1>4 DEF CountDrop, ProducerInv, ShapeInv
    <2>4. ConsumerInv'
      BY <1>4 DEF CountDrop, ConsumerInv
    <2>5. StorageInv'
      BY <1>4 DEF CountDrop, StorageInv, ShapeInv
    <2>6. LenInv'
      BY <1>4 DEF CountDrop, LenInv, LenExplained
    <2>. QED
      BY <2>1, <2>2, <2>3, <2>4, <2>5, <2>6
  <1>5. ASSUME NEW p \in Producers, Write(p) PROVE IInv'
    <2>0. item[p] \in Items /\ tail \in Index /\ pc[p] = "write"
      BY <1>5 DEF Write, ProducerInv, ShapeInv
    <2>1. ShapeInv'
      BY <1>5, <2>0 DEF Write, ShapeInv, Holding
    <2>2. LockInv'
      BY <1>5 DEF Write, LockInv, ShapeInv, Holding
    <2>3. ProducerInv'
      BY <1>5 DEF Write, ProducerInv, ShapeInv
    <2>4. ConsumerInv'
      BY <1>5 DEF Write, ConsumerInv
    <2>5. StorageInv'
      <3>1. \A q \in Producers : pc'[q] = "publish" => q = p
        BY <1>5, <2>0 DEF Write, LockInv, ShapeInv, Holding
      <3>2. ~Within(head, tail, tail)
        BY RingEnds DEF ShapeInv
      <3>3. \A i \in Index : Within(head, tail, i)' <=> Within(head, tail, i)
        BY <1>5 DEF Write, Within, Distance
      <3>4. /\ pc'[p] = "publish" /\ buffer'[tail] = item'[p]
            /\ \A i \in Index : i # tail => buffer'[i] = buffer[i]
        BY <1>5, <2>0 DEF Write, ShapeInv
      <3>5. \A q \in Producers : pc[q] # "publish"
        BY <2>0 DEF LockInv, Holding
      <3>6. \A i \in Index : Within(head, tail, i) => i # tail
        BY <3>2
      <3>. QED
        BY <1>5, <2>0, <3>1, <3>3, <3>4, <3>5, <3>6 DEF Write, StorageInv
    <2>6. LenInv'
      BY <1>5 DEF Write, LenInv, LenExplained
    <2>. QED
      BY <2>1, <2>2, <2>3, <2>4, <2>5, <2>6
  <1>6. ASSUME NEW p \in Producers, StoreTail(p) PROVE IInv'
    <2>0. /\ tail \in Index /\ head \in Index /\ pc[p] = "publish"
          /\ tail' = Succ(tail) /\ head' = head /\ Succ(tail) # head
      BY <1>6, MaskSucc DEF StoreTail, ProducerInv, ShapeInv
    <2>1. ShapeInv'
      BY <1>6, MaskSucc DEF StoreTail, ShapeInv, Holding
    <2>2. LockInv'
      BY <1>6 DEF StoreTail, LockInv, ShapeInv, Holding
    <2>3. ProducerInv'
      BY <1>6, <2>0 DEF StoreTail, ProducerInv, ShapeInv, LockInv, Holding
    <2>4. ConsumerInv'
      BY <1>6, <2>0 DEF StoreTail, ConsumerInv
    <2>5. StorageInv'
      <3>1. \A q \in Producers : pc'[q] # "publish"
        BY <1>6, <2>0 DEF StoreTail, LockInv, ShapeInv, Holding
      <3>2. \A i \in Index : Within(head, tail, i)'
                             <=> Within(head, tail, i) \/ i = tail
        BY <2>0, RingGrows DEF Within, Distance
      <3>3. \A i \in Index : i = tail => ~Within(head, tail, i)
        BY <2>0, RingEnds
      <3>4. buffer[tail] \in Items
        BY <2>0, <3>3 DEF StorageInv, ProducerInv
      <3>5. cpc # "idle" => head # tail
        BY DEF ConsumerInv
      <3>6. \A q \in Producers : pc[q] = "publish" => q = p
        BY <2>0 DEF LockInv, Holding
      <3>7. buffer' = buffer /\ cpc' = cpc /\ head' = head
        BY <1>6 DEF StoreTail
      <3>8. ASSUME NEW i \in Index, Within(head, tail, i)'
            PROVE  IF i = head /\ cpc = "publish" THEN buffer[i] = Uninit
                                                  ELSE buffer[i] \in Items
        BY <3>2, <3>4, <3>5, <3>8 DEF StorageInv
      <3>9. ASSUME NEW i \in Index, ~Within(head, tail, i)' PROVE buffer[i] = Uninit
        BY <3>2, <3>9 DEF StorageInv
      <3>. QED
        BY <3>1, <3>7, <3>8, <3>9 DEF StorageInv
    <2>6. LenInv'
      BY <1>6 DEF StoreTail, LenInv, LenExplained, Distance
    <2>. QED
      BY <2>1, <2>2, <2>3, <2>4, <2>5, <2>6
  <1>7. ASSUME NEW p \in Producers, Unlock(p) PROVE IInv'
    <2>1. ShapeInv'
      BY <1>7 DEF Unlock, ShapeInv, Holding
    <2>2. LockInv'
      BY <1>7, ValueAssumption DEF Unlock, LockInv, ShapeInv, Holding
    <2>3. ProducerInv'
      BY <1>7 DEF Unlock, ProducerInv, ShapeInv
    <2>4. ConsumerInv'
      BY <1>7 DEF Unlock, ConsumerInv
    <2>5. StorageInv'
      BY <1>7 DEF Unlock, StorageInv, ShapeInv
    <2>6. LenInv'
      BY <1>7 DEF Unlock, LenInv, LenExplained
    <2>. QED
      BY <2>1, <2>2, <2>3, <2>4, <2>5, <2>6
  <1>8. CASE LoadIndices
    <2>1. ShapeInv'
      BY <1>8 DEF LoadIndices, ShapeInv, Holding
    <2>2. LockInv'
      BY <1>8 DEF LoadIndices, LockInv, ShapeInv, Holding
    <2>3. ProducerInv'
      BY <1>8 DEF LoadIndices, ProducerInv, ShapeInv
    <2>4. ConsumerInv'
      BY <1>8 DEF LoadIndices, ConsumerInv
    <2>5. StorageInv'
      BY <1>8 DEF LoadIndices, StorageInv, ShapeInv
    <2>6. LenInv'
      BY <1>8 DEF LoadIndices, LenInv, LenExplained, ShapeInv
    <2>. QED
      BY <2>1, <2>2, <2>3, <2>4, <2>5, <2>6
  <1>9. CASE Read
    <2>0. /\ head \in Index /\ head # tail /\ Within(head, tail, head)
          /\ buffer[head] \in Items
      BY <1>9, RingEnds DEF Read, ConsumerInv, StorageInv, ShapeInv
    <2>1. ShapeInv'
      BY <1>9, <2>0 DEF Read, ShapeInv, Holding
    <2>2. LockInv'
      BY <1>9 DEF Read, LockInv, ShapeInv, Holding
    <2>3. ProducerInv'
      BY <1>9 DEF Read, ProducerInv, ShapeInv
    <2>4. ConsumerInv'
      BY <1>9, <2>0 DEF Read, ConsumerInv
    <2>5. StorageInv'
      BY <1>9, <2>0 DEF Read, StorageInv, ShapeInv, Within, Distance
    <2>6. LenInv'
      BY <1>9 DEF Read, LenInv, LenExplained
    <2>. QED
      BY <2>1, <2>2, <2>3, <2>4, <2>5, <2>6
  <1>10. CASE StoreHead
    <2>0. /\ head \in Index /\ tail \in Index /\ head # tail
          /\ head' = Succ(head) /\ tail' = tail
      BY <1>10, MaskSucc DEF StoreHead, ConsumerInv, ShapeInv
    <2>1. ShapeInv'
      BY <1>10, MaskSucc DEF StoreHead, ShapeInv, Holding
    <2>2. LockInv'
      BY <1>10 DEF StoreHead, LockInv, ShapeInv, Holding
    <2>3. ProducerInv'
      BY <1>10, <2>0, SuccInjective DEF StoreHead, ProducerInv, ShapeInv
    <2>4. ConsumerInv'
      BY <1>10 DEF StoreHead, ConsumerInv
    <2>5. StorageInv'
      <3>1. \A i \in Index : Within(head, tail, i)'
                             <=> Within(head, tail, i) /\ i # head
        BY <2>0, RingShrinks DEF Within, Distance
      <3>2. Within(head, tail, head)
        BY <2>0, RingEnds
      <3>. QED
        BY <1>10, <2>0, <3>1, <3>2 DEF StoreHead, StorageInv
    <2>6. LenInv'
      <3>1. otail \in Index /\ CAPACITY \in Nat
        BY CapacityAssumption DEF ShapeInv
      <3>2. /\ otail' = otail /\ first' = first /\ opc' = opc
            /\ opc = "head" => popped' = popped + 1
            /\ opc # "head" => popped' = popped
            /\ len' = len /\ full' = full
        BY <1>10 DEF StoreHead
      <3>3. CASE opc = "head"
        BY <2>0, <3>1, <3>2, <3>3 DEF LenInv, LenExplained, Distance, Succ, Index
      <3>4. CASE opc # "head"
        BY <3>2, <3>4 DEF LenInv, LenExplained
      <3>. QED
        BY <3>3, <3>4
    <2>. QED
      BY <2>1, <2>2, <2>3, <2>4, <2>5, <2>6
  <1>11. CASE LenTail
    <2>1. ShapeInv'
      BY <1>11 DEF LenTail, ShapeInv, Holding
    <2>2. LockInv'
      BY <1>11 DEF LenTail, LockInv, ShapeInv, Holding
    <2>3. ProducerInv'
      BY <1>11 DEF LenTail, ProducerInv, ShapeInv
    <2>4. ConsumerInv'
      BY <1>11 DEF LenTail, ConsumerInv
    <2>5. StorageInv'
      BY <1>11 DEF LenTail, StorageInv, ShapeInv
    <2>6. LenInv'
      <3>1. Length = Distance(head, tail) /\ Distance(head, tail) \in 0 .. CAPACITY - 1
        BY MaskDistance, CapacityAssumption DEF Length, ShapeInv, Distance, Index
      <3>2. /\ first' = Length /\ popped' = 0 /\ opc' = "head"
            /\ otail' = tail /\ head' = head
        BY <1>11 DEF LenTail
      <3>. QED
        BY <3>1, <3>2, CapacityAssumption DEF LenInv, LenExplained, Distance
    <2>. QED
      BY <2>1, <2>2, <2>3, <2>4, <2>5, <2>6
  <1>12. CASE LenHead
    <2>1. ShapeInv'
      BY <1>12 DEF LenHead, ShapeInv, Holding
    <2>2. LockInv'
      BY <1>12 DEF LenHead, LockInv, ShapeInv, Holding
    <2>3. ProducerInv'
      BY <1>12 DEF LenHead, ProducerInv, ShapeInv
    <2>4. ConsumerInv'
      BY <1>12 DEF LenHead, ConsumerInv
    <2>5. StorageInv'
      BY <1>12 DEF LenHead, StorageInv, ShapeInv
    <2>6. LenInv'
      <3>1. /\ Mask(otail - head) = Distance(head, otail)
            /\ Meets(otail, head) <=> Distance(head, otail) = CAPACITY - 1
        BY MaskDistance, MaskSucc, CapacityAssumption
        DEF ShapeInv, Meets, Succ, Distance, Index
      <3>2. /\ opc = "head" /\ opc' = "idle" /\ first' = first /\ popped' = popped
            /\ len' = Mask(otail - head) /\ (full' <=> Meets(otail, head))
        BY <1>12 DEF LenHead
      <3>3. CASE popped <= first
        BY <3>1, <3>2, <3>3, CapacityAssumption DEF LenInv, LenExplained
      <3>4. CASE popped > first
        BY <3>1, <3>2, <3>4, CapacityAssumption DEF LenInv, LenExplained
      <3>. QED
        BY <3>3, <3>4 DEF LenInv
    <2>. QED
      BY <2>1, <2>2, <2>3, <2>4, <2>5, <2>6
  <1>13. CASE UNCHANGED vars
    BY <1>13 DEF vars, ShapeInv, LockInv, ProducerInv, ConsumerInv, StorageInv,
                 LenInv, LenExplained, Holding, Within, Distance, Mask
  <1>. QED
    BY <1>1, <1>2, <1>3, <1>4, <1>5, <1>6, <1>7, <1>8, <1>9, <1>10, <1>11,
       <1>12, <1>13
    DEF Next, push, pop

(***************************************************************************)
(* Safety                                                                  *)
(***************************************************************************)

(* The invariant holds in every reachable state. *)
LEMMA InvHolds == Spec => []IInv
  BY InitInv, NextInv, PTL DEF Spec

(* The unsafe blocks of push() and pop() are sound: write() never buries   *)
(* an element, assume_init_read() reads one that is there, and no two      *)
(* threads are about to access the same element.                           *)
THEOREM Sound == Spec => []UnsafeIsSound
  <1>1. ASSUME IInv PROVE UnsafeIsSound
    <2> USE <1>1 DEF IInv
    <2>1. head \in Index /\ tail \in Index /\ ~Within(head, tail, tail)
      BY RingEnds DEF ShapeInv
    <2>2. ASSUME NEW p \in Producers, pc[p] = "write"
          PROVE  /\ buffer[tail] = Uninit
                 /\ \A q \in Producers \ {p} : pc[q] # "write"
                 /\ cpc = "read" => head # tail
      <3>1. \A q \in Producers : pc[q] \in {"write", "publish"} => q = p
        BY <2>2 DEF LockInv, Holding
      <3>2. \A q \in Producers : pc[q] # "publish"
        BY <2>2, <3>1
      <3>3. buffer[tail] = Uninit
        BY <2>1, <3>2 DEF StorageInv
      <3>. QED
        BY <3>1, <3>3 DEF ConsumerInv
    <2>3. cpc = "read" => buffer[head] \in Items
      <3>1. head # tail => Within(head, tail, head)
        BY <2>1, RingEnds
      <3>. QED
        BY <2>1, <3>1 DEF ConsumerInv, StorageInv
    <2>. QED
      BY <2>2, <2>3 DEF UnsafeIsSound
  <1>. QED
    BY <1>1, InvHolds, PTL

(* What len() and is_full() return, whoever calls them and whatever is     *)
(* pushed and popped meanwhile: the items that stayed throughout the call, *)
(* or, once a newer item was popped too, a count that has wrapped around.  *)
THEOREM LenAnswers == Spec => []LenExplained
  <1>1. IInv => LenExplained
    BY DEF IInv, LenInv
  <1>. QED
    BY <1>1, InvHolds, PTL

(***************************************************************************)
(* Refinement: every step of the ring is a step of the abstract queue of   *)
(* BoundedFifo or leaves it unchanged.                                     *)
(***************************************************************************)

(* The first Distance(h, e) indices are those within the ring, each once. *)
LEMMA NthWithin ==
  \A h, e \in Index :
    /\ Distance(h, e) \in 0 .. CAPACITY - 1
    /\ Distance(h, e) = 0 <=> h = e
    /\ \A k \in 1 .. Distance(h, e) : /\ k \in 1 .. CAPACITY - 1
                                      /\ Nth(h, k) \in Index
                                      /\ Within(h, e, Nth(h, k))
                                      /\ Nth(h, k) = h <=> k = 1
  BY CapacityAssumption DEF Index, Distance, Within, Nth

(* The ring with one more index at its end. *)
LEMMA NthGrows ==
  \A h, e \in Index : Succ(e) # h =>
    /\ Distance(h, Succ(e)) = Distance(h, e) + 1
    /\ Nth(h, Distance(h, e) + 1) = e
  BY CapacityAssumption DEF Index, Distance, Succ, Nth

(* The ring without its first index. *)
LEMMA NthShrinks ==
  \A h, e \in Index : h # e =>
    /\ Distance(Succ(h), e) = Distance(h, e) - 1
    /\ \A k \in 1 .. Distance(h, e) - 1 : Nth(Succ(h), k) = Nth(h, k + 1)
  BY CapacityAssumption DEF Index, Distance, Succ, Nth

(* A full ring holds CAPACITY - 1 elements. *)
LEMMA FullDistance ==
  \A h, e \in Index : Succ(e) = h <=> Distance(h, e) = CAPACITY - 1
  BY CapacityAssumption DEF Index, Distance, Succ

(* The k-th element, wherever a pop() that is under way has it. *)
Element(k) == IF k = 1 /\ cpc = "publish" THEN out ELSE buffer[Nth(head, k)]

(* The contents are a sequence of items, one per index of the ring. *)
ContentsInv == /\ Contents \in Seq(Items)
               /\ Len(Contents) = Distance(head, tail)
               /\ \A k \in 1 .. Distance(head, tail) : Contents[k] = Element(k)

(* What the invariant says of the contents. *)
LEMMA ContentsSeq == IInv => ContentsInv
  <1> SUFFICES ASSUME IInv PROVE ContentsInv
    OBVIOUS
  <1> DEFINE n == Distance(head, tail)
  <1>1. head \in Index /\ tail \in Index
    BY DEF IInv, ShapeInv
  <1>2. n \in Nat
    <2>1. n \in 0 .. CAPACITY - 1
      BY <1>1, NthWithin
    <2>. QED
      BY <2>1, CapacityAssumption
  <1>3. Length = n
    BY <1>1, MaskDistance DEF Length
  <1>4. \A k \in 1 .. n : Mask(head + k - 1) = Nth(head, k)
    BY <1>1, NthWithin, MaskNth
  <1>5. Contents = [k \in 1 .. n |-> Element(k)]
    BY <1>3, <1>4 DEF Contents, Element
  <1>6. \A k \in 1 .. n : Element(k) \in Items
    BY <1>1, NthWithin DEF IInv, Element, StorageInv, ConsumerInv
  <1> HIDE DEF n
  <1>7. Contents \in [1 .. n -> Items]
    BY <1>5, <1>6
  <1>8. Contents \in Seq(Items) /\ Len(Contents) = n
    BY <1>2, <1>7
  <1>. QED
    BY <1>5, <1>8 DEF n, ContentsInv

(* It also holds in the next state. *)
LEMMA ContentsSeqNext == IInv' => ContentsInv'
  BY ContentsSeq, PTL

(* Two states with the same elements have the same contents. *)
LEMMA SameContents ==
  ASSUME IInv, IInv', head' = head, tail' = tail,
         \A k \in 1 .. Distance(head, tail) : Element(k)' = Element(k)
  PROVE  Contents' = Contents
  <1>1. Distance(head, tail)' = Distance(head, tail)
    BY DEF Distance
  <1>2. /\ Contents \in Seq(Items)
        /\ Len(Contents) = Distance(head, tail)
        /\ \A k \in 1 .. Distance(head, tail) : Contents[k] = Element(k)
    BY ContentsSeq DEF ContentsInv
  <1>3. /\ Contents' \in Seq(Items)
        /\ Len(Contents') = Distance(head, tail)
        /\ \A k \in 1 .. Distance(head, tail) : Contents'[k] = Element(k)'
    BY <1>1, ContentsSeqNext DEF ContentsInv
  <1>. QED
    BY <1>2, <1>3, SeqEqual

(* A new ring is the empty queue. *)
LEMMA InitRefines == Init => Fifo!Init
  <1> SUFFICES ASSUME Init PROVE Fifo!Init
    OBVIOUS
  <1>1. Contents \in Seq(Items) /\ Len(Contents) = 0
    <2>1. ContentsInv
      BY InitInv, ContentsSeq
    <2>. QED
      BY <2>1 DEF ContentsInv, Init, Distance
  <1>2. Contents = <<>>
    BY <1>1, EmptySeq
  <1>3. Pending = [p \in Producers |-> None]
    BY DEF Pending, Init, Undecided
  <1>4. Refused = 0
    BY DEF Refused, Init
  <1>. QED
    BY <1>2, <1>3, <1>4 DEF Fifo!Init, Init

(* A step that neither decides a push nor pops leaves the queue unchanged. *)
LEMMA StepStutters ==
  ASSUME IInv, IInv', delivered' = delivered, head' = head, tail' = tail,
         \A k \in 1 .. Distance(head, tail) : Element(k)' = Element(k),
         Pending' = Pending, Refused' = Refused
  PROVE  UNCHANGED Fifo!vars
  BY SameContents DEF Fifo!vars

(* Every step of the ring is a step of the queue, or no step of it. *)
LEMMA StepRefines == IInv /\ IInv' /\ [Next]_vars => [Fifo!Next]_(Fifo!vars)
  <1> SUFFICES ASSUME IInv, IInv', [Next]_vars PROVE [Fifo!Next]_(Fifo!vars)
    OBVIOUS
  <1> USE DEF Goto, CGoto, pushVars, popVars, lenVars
  <1> DEFINE n == Distance(head, tail)
  <1>t. ShapeInv
    BY DEF IInv
  <1>1. ASSUME NEW p \in Producers, Call(p) PROVE Fifo!Invoke(p)
    <2>1. calls + 1 \in Items
      BY <1>1, <1>t, BoundAssumption DEF Call, ShapeInv, Items
    <2>2. \A k \in 1 .. n : Element(k)' = Element(k)
      BY <1>1 DEF Call, Element
    <2>3. Contents' = Contents
      BY <1>1, <2>2, SameContents DEF Call
    <2>4. Pending[p] = None
      BY <1>1 DEF Call, Pending, Undecided
    <2>5. Pending' = [Pending EXCEPT ![p] = calls + 1]
      BY <1>1, <1>t DEF Call, Pending, Undecided, ShapeInv
    <2>6. Refused' = Refused
      BY <1>1, <1>t DEF Call, Refused, ShapeInv
    <2>. QED
      BY <1>1, <2>1, <2>3, <2>4, <2>5, <2>6 DEF Call, Fifo!Invoke
  <1>2. ASSUME NEW p \in Producers, Lock(p) PROVE UNCHANGED Fifo!vars
    <2>1. \A k \in 1 .. n : Element(k)' = Element(k)
      BY <1>2 DEF Lock, Element
    <2>2. Pending' = Pending
      BY <1>2, <1>t DEF Lock, Pending, Undecided, ShapeInv
    <2>3. Refused' = Refused
      BY <1>2, <1>t DEF Lock, Refused, ShapeInv
    <2>. QED
      BY <1>2, <2>1, <2>2, <2>3, StepStutters DEF Lock
  <1>3. ASSUME NEW p \in Producers, CheckFull(p)
        PROVE  Fifo!Reject(p) \/ UNCHANGED Fifo!vars
    <2>1. \A k \in 1 .. n : Element(k)' = Element(k)
      BY <1>3 DEF CheckFull, Element
    <2>2. CASE pc'[p] = "write"
      <3>1. Pending' = Pending
        BY <1>3, <2>2, <1>t DEF CheckFull, Pending, Undecided, ShapeInv
      <3>2. Refused' = Refused
        BY <1>3, <2>2, <1>t DEF CheckFull, Refused, ShapeInv
      <3>. QED
        BY <1>3, <2>1, <3>1, <3>2, StepStutters DEF CheckFull
    <2>3. CASE pc'[p] = "drop"
      <3>1. pc[p] = "check" /\ Full /\ pc' = [pc EXCEPT ![p] = "drop"]
        BY <1>3, <2>3, <1>t DEF CheckFull, ShapeInv
      <3>2. item[p] \in Items
        BY <3>1 DEF IInv, ProducerInv
      <3>3. Len(Contents) = CAPACITY - 1
        <4>1. n = CAPACITY - 1
          BY <3>1, <1>t, MaskSucc, FullDistance DEF Full, Meets, ShapeInv
        <4>. QED
          BY <4>1, ContentsSeq DEF ContentsInv
      <3>4. Contents' = Contents
        BY <1>3, <2>1, SameContents DEF CheckFull
      <3>5. Pending[p] = item[p] /\ item[p] # None
        BY <3>1, <3>2, ValueAssumption DEF Pending, Undecided
      <3>6. Pending' = [Pending EXCEPT ![p] = None]
        BY <1>3, <3>1, <1>t DEF CheckFull, Pending, Undecided, ShapeInv
      <3>7. \A q \in Producers : pc[q] # "drop"
        BY <3>1 DEF IInv, LockInv, Holding
      <3>8. Refused' = Refused + 1
        BY <1>3, <3>1, <3>7, <1>t DEF CheckFull, Refused, ShapeInv
      <3>. QED
        BY <1>3, <3>3, <3>4, <3>5, <3>6, <3>8 DEF CheckFull, Fifo!Reject
    <2>. QED
      BY <1>3, <1>t, <2>2, <2>3 DEF CheckFull, ShapeInv
  <1>4. ASSUME NEW p \in Producers, CountDrop(p) PROVE UNCHANGED Fifo!vars
    <2>1. \A k \in 1 .. n : Element(k)' = Element(k)
      BY <1>4 DEF CountDrop, Element
    <2>2. Pending' = Pending
      BY <1>4, <1>t DEF CountDrop, Pending, Undecided, ShapeInv
    <2>3. Refused' = Refused
      <3>1. \A q \in Producers : pc[q] = "drop" => q = p
        BY <1>4 DEF CountDrop, IInv, LockInv, Holding
      <3>. QED
        BY <1>4, <3>1, <1>t DEF CountDrop, Refused, ShapeInv
    <2>. QED
      BY <1>4, <2>1, <2>2, <2>3, StepStutters DEF CountDrop
  <1>5. ASSUME NEW p \in Producers, Write(p) PROVE UNCHANGED Fifo!vars
    <2>1. \A k \in 1 .. n : Element(k)' = Element(k)
      <3>1. ~Within(head, tail, tail)
        BY <1>t, RingEnds DEF ShapeInv
      <3>2. \A k \in 1 .. n : Nth(head, k) \in Index /\ Nth(head, k) # tail
        BY <3>1, <1>t, NthWithin DEF ShapeInv
      <3>. QED
        BY <1>5, <1>t, <3>2 DEF Write, Element, Nth, ShapeInv
    <2>2. Pending' = Pending
      BY <1>5, <1>t DEF Write, Pending, Undecided, ShapeInv
    <2>3. Refused' = Refused
      BY <1>5, <1>t DEF Write, Refused, ShapeInv
    <2>. QED
      BY <1>5, <2>1, <2>2, <2>3, StepStutters DEF Write
  <1>6. ASSUME NEW p \in Producers, StoreTail(p) PROVE Fifo!Enqueue(p)
    <2>1. /\ item[p] \in Items /\ head \in Index /\ tail \in Index
          /\ Succ(tail) # head /\ tail' = Succ(tail) /\ head' = head
      BY <1>6, MaskSucc DEF StoreTail, IInv, ShapeInv, ProducerInv
    <2>2. /\ Contents \in Seq(Items) /\ Len(Contents) = n
          /\ \A k \in 1 .. n : Contents[k] = Element(k)
      BY ContentsSeq DEF ContentsInv
    <2>3. /\ n \in Nat /\ n < CAPACITY - 1
          /\ Distance(head, tail)' = n + 1 /\ Nth(head, n + 1) = tail
      BY <2>1, NthWithin, NthGrows, FullDistance, CapacityAssumption
      DEF Distance
    <2>4. /\ Contents' \in Seq(Items) /\ Len(Contents') = n + 1
          /\ \A k \in 1 .. n + 1 : Contents'[k] = Element(k)'
      BY <2>3, ContentsSeqNext DEF ContentsInv
    <2>5. \A k \in 1 .. n + 1 : Element(k)' = Element(k)
      BY <1>6 DEF StoreTail, Element, Nth
    <2>6. Element(n + 1) = item[p]
      <3>1. ~(n + 1 = 1 /\ cpc = "publish")
        BY <2>1, <2>3, NthWithin DEF IInv, ConsumerInv
      <3>2. ~Within(head, tail, tail)
        BY <2>1, RingEnds
      <3>3. buffer[tail] = item[p]
        BY <1>6, <2>1, <3>2 DEF StoreTail, IInv, StorageInv
      <3>. QED
        BY <3>1, <3>3, <2>3 DEF Element
    <2>7. Contents' = Append(Contents, item[p])
      <3> DEFINE app == Append(Contents, item[p])
      <3>1. /\ app \in Seq(Items) /\ Len(app) = n + 1
            /\ \A k \in 1 .. n : app[k] = Contents[k]
            /\ app[n + 1] = item[p]
        BY <2>1, <2>2, AppendProperties
      <3> HIDE DEF app
      <3>2. \A k \in 1 .. n + 1 : Contents'[k] = app[k]
        BY <2>2, <2>3, <2>4, <2>5, <2>6, <3>1
      <3>3. Contents' = app
        BY <2>4, <3>1, <3>2, SeqEqual
      <3>. QED
        BY <3>3 DEF app
    <2>8. Pending[p] = item[p] /\ item[p] # None
      BY <1>6, <2>1, ValueAssumption DEF StoreTail, Pending, Undecided
    <2>9. Pending' = [Pending EXCEPT ![p] = None]
      BY <1>6, <1>t DEF StoreTail, Pending, Undecided, ShapeInv
    <2>10. Refused' = Refused
      BY <1>6, <1>t DEF StoreTail, Refused, ShapeInv
    <2>. QED
      BY <1>6, <2>2, <2>3, <2>7, <2>8, <2>9, <2>10
      DEF StoreTail, Fifo!Enqueue
  <1>7. ASSUME NEW p \in Producers, Unlock(p) PROVE UNCHANGED Fifo!vars
    <2>1. \A k \in 1 .. n : Element(k)' = Element(k)
      BY <1>7 DEF Unlock, Element
    <2>2. Pending' = Pending
      BY <1>7, <1>t DEF Unlock, Pending, Undecided, ShapeInv
    <2>3. Refused' = Refused
      BY <1>7, <1>t DEF Unlock, Refused, ShapeInv
    <2>. QED
      BY <1>7, <2>1, <2>2, <2>3, StepStutters DEF Unlock
  <1>8. ASSUME LoadIndices PROVE UNCHANGED Fifo!vars
    <2>1. \A k \in 1 .. n : Element(k)' = Element(k)
      BY <1>8 DEF LoadIndices, Element
    <2>2. Pending' = Pending /\ Refused' = Refused
      BY <1>8 DEF LoadIndices, Pending, Refused
    <2>. QED
      BY <1>8, <2>1, <2>2, StepStutters DEF LoadIndices
  <1>9. ASSUME Read PROVE UNCHANGED Fifo!vars
    <2>1. \A k \in 1 .. n : Element(k)' = Element(k)
      BY <1>9, <1>t, NthWithin DEF Read, Element, ShapeInv
    <2>2. Pending' = Pending /\ Refused' = Refused
      BY <1>9 DEF Read, Pending, Refused
    <2>. QED
      BY <1>9, <2>1, <2>2, StepStutters DEF Read
  <1>10. ASSUME StoreHead PROVE Fifo!Dequeue
    <2>1. /\ cpc = "publish" /\ cpc' = "idle"
          /\ head \in Index /\ tail \in Index /\ head # tail
          /\ head' = Succ(head) /\ tail' = tail
      BY <1>10, MaskSucc DEF StoreHead, IInv, ShapeInv, ConsumerInv
    <2>2. /\ Contents \in Seq(Items) /\ Len(Contents) = n
          /\ \A k \in 1 .. n : Contents[k] = Element(k)
      BY ContentsSeq DEF ContentsInv
    <2>3. n \in Nat /\ n > 0 /\ Distance(head, tail)' = n - 1
      BY <2>1, NthWithin, NthShrinks, CapacityAssumption DEF Distance
    <2>4. /\ Contents' \in Seq(Items) /\ Len(Contents') = n - 1
          /\ \A k \in 1 .. n - 1 : Contents'[k] = Element(k)'
      BY <2>3, ContentsSeqNext DEF ContentsInv
    <2>5. \A k \in 1 .. n - 1 : Element(k)' = Element(k + 1)
      <3>1. \A k \in 1 .. n - 1 : Element(k)' = buffer[Nth(Succ(head), k)]
        BY <1>10, <2>1 DEF StoreHead, Element, Nth
      <3>2. \A k \in 1 .. n - 1 : Nth(Succ(head), k) = Nth(head, k + 1)
        BY <2>1, NthShrinks
      <3>3. \A k \in 1 .. n - 1 : k + 1 # 1
        BY <2>3
      <3>. QED
        BY <3>1, <3>2, <3>3 DEF Element
    <2>6. Contents # <<>> /\ Head(Contents) = out
      BY <2>1, <2>2, <2>3 DEF Element
    <2>7. Contents' = Tail(Contents)
      <3> DEFINE tl == Tail(Contents)
      <3>1. /\ tl \in Seq(Items) /\ Len(tl) = n - 1
            /\ \A k \in 1 .. n - 1 : tl[k] = Contents[k + 1]
        BY <2>2, <2>6, HeadTailProperties
      <3> HIDE DEF tl
      <3>2. \A k \in 1 .. n - 1 : k + 1 \in 1 .. n
        BY <2>3
      <3>3. \A k \in 1 .. n - 1 : Contents'[k] = tl[k]
        BY <2>2, <2>4, <2>5, <3>1, <3>2
      <3>4. Contents' = tl
        BY <2>4, <3>1, <3>3, SeqEqual
      <3>. QED
        BY <3>4 DEF tl
    <2>8. Pending' = Pending /\ Refused' = Refused
      BY <1>10 DEF StoreHead, Pending, Refused
    <2>. QED
      BY <1>10, <2>6, <2>7, <2>8 DEF StoreHead, Fifo!Dequeue
  <1>11. ASSUME LenTail \/ LenHead PROVE UNCHANGED Fifo!vars
    <2>1. /\ buffer' = buffer /\ head' = head /\ tail' = tail
          /\ cpc' = cpc /\ out' = out /\ delivered' = delivered
          /\ pc' = pc /\ item' = item /\ dropped' = dropped
      BY <1>11 DEF LenTail, LenHead
    <2>2. \A k \in 1 .. n : Element(k)' = Element(k)
      BY <2>1 DEF Element
    <2>3. Pending' = Pending /\ Refused' = Refused
      BY <2>1 DEF Pending, Refused
    <2>. QED
      BY <2>1, <2>2, <2>3, StepStutters
  <1>12. CASE UNCHANGED vars
    BY <1>12 DEF vars, Fifo!vars, Contents, Length, Mask, Pending, Refused
  <1>. QED
    BY <1>1, <1>2, <1>3, <1>4, <1>5, <1>6, <1>7, <1>8, <1>9, <1>10, <1>11,
       <1>12 DEF Next, push, pop, Fifo!Next

(* The Rust queue implements the bounded first-in first-out queue: no item *)
(* is lost, duplicated, reordered or invented, and one is refused only at  *)
(* an instant at which CAPACITY - 1 items are held.                        *)
THEOREM Refinement == Spec => ImplementsFifo
  BY InitRefines, StepRefines, InvHolds, PTL
  DEF Spec, ImplementsFifo, Fifo!Spec

=============================================================================
