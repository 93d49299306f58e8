-------------------------- MODULE LatestCacheProofs --------------------------
(***************************************************************************)
(* Proofs about LatestCache, for any set of BACKGROUND topics, any number  *)
(* of RX threads, and any number of frames and slots.                      *)
(***************************************************************************)
EXTENDS LatestCache, FiniteSetTheorems, TLAPS

(***************************************************************************)
(* The inductive invariant                                                 *)
(***************************************************************************)

(* Inside the callback a producer has a sample, and a pointer from the     *)
(* lookup until it returns; the pointer is the one the map holds.          *)
ProducerInv ==
  \A p \in Producers :
    /\ pc[p] # "idle" => topic[p] \in Topics /\ frame[p] \in Frames
    /\ slot[p] # nullptr <=> pc[p] \in {"lock"} \cup Writing
    /\ slot[p] # nullptr => slots_[topic[p]] = slot[p]

(* Every topic has a slot object of its own among those allocated, and an  *)
(* object nobody has been given yet is as its constructor left it.         *)
MapInv ==
  /\ \A h \in Topics : slots_[h] <= allocated
  /\ \A g, h \in Topics : slots_[g] # nullptr /\ slots_[g] = slots_[h] => g = h
  /\ \A s \in Slots : s > allocated => ~has_data[s] /\ drop_count[s] = 0

(* While map_mtx_ is held shared, the slots left to visit stay in the map. *)
ConsumerInv ==
  /\ MapShared => \A h \in todo : slots_[h] # nullptr
  /\ cpc \in Taking => cur \in Topics /\ slots_[cur] # nullptr

(* A thread inside put() or take() holds the spin lock of its slot. *)
LockInv ==
  /\ \A p \in Producers : pc[p] \in Writing => lock_[slot[p]]
  /\ cpc \in Taking => lock_[slots_[cur]]

(* The frame of a slot and its time stamp agree, except between the two    *)
(* assignments of a put() that holds the lock.                             *)
DataInv ==
  /\ \A s \in Slots : has_data[s] => payload[s] \in Frames
  /\ \A s \in Slots :
       has_data[s] /\ (\A p \in Producers : pc[p] = "stamp" => slot[p] # s)
         => payload[s] = put_time[s]
  /\ \A p \in Producers : pc[p] = "stamp" => payload[slot[p]] = frame[p]
  /\ cpc = "move" => /\ ~has_data[slots_[cur]]
                     /\ payload[slots_[cur]] \in Frames
                     /\ payload[slots_[cur]] = put_time[slots_[cur]]

IInv == /\ TypeOK
        /\ ProducerInv
        /\ MapInv
        /\ ConsumerInv
        /\ LockInv
        /\ SlotExclusive
        /\ DataInv
        /\ NoTornFrame

(* An empty cache satisfies the invariant. *)
LEMMA InitInv == Init => IInv
  <1> SUFFICES ASSUME Init PROVE IInv
    OBVIOUS
  <1> USE DEF Init, nullptr, Writing, Taking
  <1>1. TypeOK
    BY BoundAssumption DEF TypeOK, Slots, Frames
  <1>2. ProducerInv /\ ConsumerInv /\ LockInv /\ SlotExclusive /\ NoTornFrame
    BY DEF ProducerInv, ConsumerInv, LockInv, SlotExclusive, NoTornFrame,
           MapShared
  <1>3. MapInv /\ DataInv
    BY BoundAssumption DEF MapInv, DataInv, Slots
  <1>. QED
    BY <1>1, <1>2, <1>3 DEF IInv

(* Every step preserves the types. *)
LEMMA NextType == IInv /\ [Next]_vars => TypeOK'
  <1> SUFFICES ASSUME IInv, [Next]_vars PROVE TypeOK'
    BY DEF IInv
  <1> USE BoundAssumption
  DEF IInv, Slots, Frames, nullptr, Writing, Taking, TypeOK, ProducerInv,
      ConsumerInv, DataInv, mapVars, slotVars, producerVars, consumerVars
  <1>1. ASSUME NEW h \in Topics, pre_allocate(h) PROVE TypeOK'
    <2>1. allocated < MaxSlots => allocated + 1 \in Slots
      OBVIOUS
    <2>2. slots_' \in [Topics -> Slots \cup {nullptr}]
      BY <1>1, <2>1 DEF pre_allocate, Emplace
    <2>3. allocated' \in 0 .. MaxSlots
      BY <1>1 DEF pre_allocate, Emplace
    <2>. QED
      BY <1>1, <2>2, <2>3 DEF pre_allocate
  <1>2. ASSUME NEW p \in Producers, Receive(p) PROVE TypeOK'
    BY <1>2 DEF Receive, Goto
  <1>3. ASSUME NEW p \in Producers, get_slot_fast(p) PROVE TypeOK'
    <2>1. topic[p] \in Topics
      BY <1>3 DEF get_slot_fast, Goto
    <2>2. slots_[topic[p]] \in Slots \cup {nullptr}
      BY <2>1
    <2>3. slot' \in [Producers -> Slots \cup {nullptr}]
      BY <1>3, <2>2 DEF get_slot_fast, Forget
    <2>4. /\ pc' \in [Producers -> {"idle", "lookup", "lock"} \cup Writing]
          /\ topic' \in [Producers -> Topics \cup {None}]
          /\ frame' \in [Producers -> Frames \cup {None}]
      BY <1>3 DEF get_slot_fast, Goto, Forget
    <2>. QED
      BY <1>3, <2>3, <2>4 DEF get_slot_fast
  <1>4. ASSUME NEW p \in Producers, PutLock(p) PROVE TypeOK'
    BY <1>4 DEF PutLock, Goto
  <1>5. ASSUME NEW p \in Producers, PutCount(p) PROVE TypeOK'
    <2>1. slot[p] \in Slots
      BY <1>5 DEF PutCount, Goto
    <2>2. drop_count' \in [Slots -> Nat]
      BY <1>5, <2>1 DEF PutCount
    <2>3. pc' \in [Producers -> {"idle", "lookup", "lock"} \cup Writing]
      BY <1>5 DEF PutCount, Goto
    <2>. QED
      BY <1>5, <2>2, <2>3 DEF PutCount
  <1>6. ASSUME NEW p \in Producers, PutAssign(p) PROVE TypeOK'
    BY <1>6 DEF PutAssign, Goto
  <1>7. ASSUME NEW p \in Producers, PutStamp(p) PROVE TypeOK'
    BY <1>7 DEF PutStamp, Goto
  <1>8. ASSUME NEW p \in Producers, PutUnlock(p) PROVE TypeOK'
    BY <1>8 DEF PutUnlock, Goto, Forget
  <1>9. ASSUME DrainBegin PROVE TypeOK'
    BY <1>9 DEF DrainBegin, CGoto, Allocated
  <1>10. ASSUME NEW h \in Topics, TakeLock(h) PROVE TypeOK'
    BY <1>10 DEF TakeLock, CGoto
  <1>11. ASSUME TakeNothing PROVE TypeOK'
    BY <1>11 DEF TakeNothing, CGoto
  <1>12. ASSUME TakeFlag PROVE TypeOK'
    BY <1>12 DEF TakeFlag, CGoto
  <1>13. ASSUME TakeMove PROVE TypeOK'
    BY <1>13 DEF TakeMove, CGoto
  <1>14. ASSUME TakeUnlock PROVE TypeOK'
    BY <1>14 DEF TakeUnlock, CGoto
  <1>15. ASSUME DrainEnd PROVE TypeOK'
    BY <1>15 DEF DrainEnd, CGoto
  <1>16. ASSUME TotalBegin PROVE TypeOK'
    BY <1>16 DEF TotalBegin, CGoto, Allocated
  <1>17. ASSUME NEW h \in Topics, TotalAdd(h) PROVE TypeOK'
    <2>1. slots_[h] \in Slots
      BY <1>17 DEF TotalAdd, CGoto, MapShared
    <2>2. total' \in Nat
      BY <1>17, <2>1 DEF TotalAdd
    <2>. QED
      BY <1>17, <2>2 DEF TotalAdd, CGoto
  <1>18. ASSUME TotalEnd PROVE TypeOK'
    BY <1>18 DEF TotalEnd, CGoto
  <1>19. CASE UNCHANGED vars
    BY <1>19 DEF vars
  <1>. QED
    BY <1>1, <1>2, <1>3, <1>4, <1>5, <1>6, <1>7, <1>8, <1>9, <1>10, <1>11,
       <1>12, <1>13, <1>14, <1>15, <1>16, <1>17, <1>18, <1>19
    DEF Next, put, drain, get_total_dropped

(* No step changes the slot a producer points to, or the map under it. *)
LEMMA NextProducer == IInv /\ [Next]_vars => ProducerInv'
  <1> SUFFICES ASSUME IInv, [Next]_vars PROVE ProducerInv'
    BY DEF IInv
  <1> USE BoundAssumption
  DEF IInv, Slots, Frames, nullptr, Writing, Taking, TypeOK, ProducerInv,
      MapInv, mapVars, slotVars, producerVars, consumerVars
  <1>1. ASSUME NEW h \in Topics, pre_allocate(h) PROVE ProducerInv'
    BY <1>1 DEF pre_allocate, Emplace
  <1>2. ASSUME NEW p \in Producers, Receive(p) PROVE ProducerInv'
    BY <1>2 DEF Receive, Goto
  <1>3. ASSUME NEW p \in Producers, get_slot_fast(p) PROVE ProducerInv'
    <2>1. \A q \in Producers \ {p} : /\ pc'[q] = pc[q] /\ slot'[q] = slot[q]
                                     /\ topic'[q] = topic[q]
                                     /\ frame'[q] = frame[q]
      BY <1>3 DEF get_slot_fast, Goto, Forget
    <2>2. CASE slots_[topic[p]] = nullptr
      <3>1. pc'[p] = "idle" /\ slot'[p] = nullptr
        BY <1>3, <2>2 DEF get_slot_fast, Goto, Forget
      <3>. QED
        BY <1>3, <2>1, <3>1 DEF get_slot_fast
    <2>3. CASE slots_[topic[p]] # nullptr
      <3>1. /\ pc[p] = "lookup" /\ pc'[p] = "lock" /\ topic' = topic
            /\ frame' = frame /\ slot'[p] = slots_[topic[p]]
        BY <1>3, <2>3 DEF get_slot_fast, Goto
      <3>. QED
        BY <1>3, <2>1, <2>3, <3>1 DEF get_slot_fast
    <2>. QED
      BY <2>2, <2>3
  <1>4. ASSUME NEW p \in Producers, PutLock(p) PROVE ProducerInv'
    BY <1>4 DEF PutLock, Goto
  <1>5. ASSUME NEW p \in Producers, PutCount(p) PROVE ProducerInv'
    BY <1>5 DEF PutCount, Goto
  <1>6. ASSUME NEW p \in Producers, PutAssign(p) PROVE ProducerInv'
    BY <1>6 DEF PutAssign, Goto
  <1>7. ASSUME NEW p \in Producers, PutStamp(p) PROVE ProducerInv'
    BY <1>7 DEF PutStamp, Goto
  <1>8. ASSUME NEW p \in Producers, PutUnlock(p) PROVE ProducerInv'
    BY <1>8 DEF PutUnlock, Goto, Forget
  <1>9. ASSUME drain PROVE ProducerInv'
    BY <1>9
    DEF drain, DrainBegin, TakeLock, TakeNothing, TakeFlag, TakeMove,
        TakeUnlock, DrainEnd, CGoto, Allocated
  <1>10. ASSUME get_total_dropped PROVE ProducerInv'
    BY <1>10
    DEF get_total_dropped, TotalBegin, TotalAdd, TotalEnd, CGoto, Allocated
  <1>11. CASE UNCHANGED vars
    BY <1>11 DEF vars
  <1>. QED
    BY <1>1, <1>2, <1>3, <1>4, <1>5, <1>6, <1>7, <1>8, <1>9, <1>10, <1>11
    DEF Next, put, drain, get_total_dropped

(* Slots of different topics stay different objects. *)
LEMMA NextMap == IInv /\ [Next]_vars => MapInv'
  <1> SUFFICES ASSUME IInv, [Next]_vars PROVE MapInv'
    BY DEF IInv
  <1> USE BoundAssumption
  DEF IInv, Slots, Frames, nullptr, Writing, Taking, TypeOK, ProducerInv,
      MapInv, ConsumerInv, mapVars, slotVars, producerVars, consumerVars
  <1>1. ASSUME NEW h \in Topics, pre_allocate(h) PROVE MapInv'
    <2>1. CASE slots_[h] # nullptr
      BY <1>1, <2>1 DEF pre_allocate
    <2>2. CASE slots_[h] = nullptr
      <3>1. /\ allocated' = allocated + 1
            /\ slots_' = [slots_ EXCEPT ![h] = allocated + 1]
            /\ has_data' = has_data /\ drop_count' = drop_count
        BY <1>1, <2>2 DEF pre_allocate, Emplace
      <3>2. \A g \in Topics : slots_[g] \in Int /\ slots_[g] <= allocated
        OBVIOUS
      <3>3. \A g \in Topics :
              slots_'[g] = IF g = h THEN allocated + 1 ELSE slots_[g]
        BY <3>1
      <3>. QED
        BY <3>1, <3>2, <3>3
    <2>. QED
      BY <2>1, <2>2
  <1>2. ASSUME NEW p \in Producers, Receive(p) PROVE MapInv'
    BY <1>2 DEF Receive, Goto
  <1>3. ASSUME NEW p \in Producers, get_slot_fast(p) PROVE MapInv'
    BY <1>3 DEF get_slot_fast, Goto, Forget
  <1>4. ASSUME NEW p \in Producers, PutLock(p) PROVE MapInv'
    BY <1>4 DEF PutLock, Goto
  <1>5. ASSUME NEW p \in Producers, PutCount(p) PROVE MapInv'
    BY <1>5 DEF PutCount, Goto
  <1>6. ASSUME NEW p \in Producers, PutAssign(p) PROVE MapInv'
    BY <1>6 DEF PutAssign, Goto
  <1>7. ASSUME NEW p \in Producers, PutStamp(p) PROVE MapInv'
    <2>1. topic[p] \in Topics /\ slot[p] = slots_[topic[p]]
      BY <1>7 DEF PutStamp, Goto
    <2>2. \A s \in Slots : s > allocated => s # slot[p]
      BY <2>1
    <2>3. \A s \in Slots : s # slot[p] => has_data'[s] = has_data[s]
      BY <1>7 DEF PutStamp
    <2>4. UNCHANGED <<slots_, allocated, drop_count>>
      BY <1>7 DEF PutStamp
    <2>. QED
      BY <2>2, <2>3, <2>4
  <1>8. ASSUME NEW p \in Producers, PutUnlock(p) PROVE MapInv'
    BY <1>8 DEF PutUnlock, Goto, Forget
  <1>9. ASSUME drain PROVE MapInv'
    <2>1. UNCHANGED <<slots_, allocated, drop_count>>
      BY <1>9
      DEF drain, DrainBegin, TakeLock, TakeNothing, TakeFlag, TakeMove,
          TakeUnlock, DrainEnd
    <2>2. \A s \in Slots : has_data'[s] => has_data[s]
      BY <1>9
      DEF drain, DrainBegin, TakeLock, TakeNothing, TakeFlag, TakeMove,
          TakeUnlock, DrainEnd
    <2>. QED
      BY <2>1, <2>2
  <1>10. ASSUME get_total_dropped PROVE MapInv'
    <2>1. UNCHANGED <<slots_, allocated, has_data, drop_count>>
      BY <1>10 DEF get_total_dropped, TotalBegin, TotalAdd, TotalEnd
    <2>. QED
      BY <2>1
  <1>11. CASE UNCHANGED vars
    BY <1>11 DEF vars
  <1>. QED
    BY <1>1, <1>2, <1>3, <1>4, <1>5, <1>6, <1>7, <1>8, <1>9, <1>10, <1>11
    DEF Next, put, drain, get_total_dropped

(* While the map is held shared, nothing leaves it. *)
LEMMA NextConsumer == IInv /\ [Next]_vars => ConsumerInv'
  <1> SUFFICES ASSUME IInv, [Next]_vars PROVE ConsumerInv'
    BY DEF IInv
  <1> USE
  DEF IInv, Slots, Frames, nullptr, Writing, Taking, TypeOK, ConsumerInv,
      MapShared, mapVars, slotVars, producerVars, consumerVars
  <1>1. ASSUME NEW h \in Topics, pre_allocate(h) PROVE ConsumerInv'
    BY <1>1 DEF pre_allocate, Emplace
  <1>2. ASSUME NEW p \in Producers, Receive(p) \/ get_slot_fast(p) \/ put(p)
        PROVE  ConsumerInv'
    BY <1>2
    DEF put, Receive, get_slot_fast, PutLock, PutCount, PutAssign, PutStamp,
        PutUnlock, Goto, Forget
  <1>3. ASSUME drain PROVE ConsumerInv'
    BY <1>3
    DEF drain, DrainBegin, TakeLock, TakeNothing, TakeFlag, TakeMove,
        TakeUnlock, DrainEnd, CGoto, Allocated
  <1>4. ASSUME get_total_dropped PROVE ConsumerInv'
    BY <1>4
    DEF get_total_dropped, TotalBegin, TotalAdd, TotalEnd, CGoto, Allocated
  <1>5. CASE UNCHANGED vars
    BY <1>5 DEF vars
  <1>. QED
    BY <1>1, <1>2, <1>3, <1>4, <1>5
    DEF Next, put, drain, get_total_dropped

(* No thread releases a lock that another one holds. *)
LEMMA NextLock == IInv /\ [Next]_vars => LockInv'
  <1> SUFFICES ASSUME IInv, [Next]_vars PROVE LockInv'
    BY DEF IInv
  <1> USE
  DEF IInv, Slots, Frames, nullptr, Writing, Taking, TypeOK, ProducerInv,
      ConsumerInv, LockInv,  SlotExclusive, MapShared, mapVars, slotVars,
      producerVars, consumerVars
  <1>1. ASSUME NEW h \in Topics, pre_allocate(h) PROVE LockInv'
    BY <1>1 DEF pre_allocate, Emplace
  <1>2. ASSUME NEW p \in Producers, Receive(p) PROVE LockInv'
    BY <1>2 DEF Receive, Goto
  <1>3. ASSUME NEW p \in Producers, get_slot_fast(p) PROVE LockInv'
    BY <1>3 DEF get_slot_fast, Goto, Forget
  <1>4. ASSUME NEW p \in Producers, PutLock(p) PROVE LockInv'
    BY <1>4 DEF PutLock, Goto
  <1>5. ASSUME NEW p \in Producers, PutCount(p) PROVE LockInv'
    BY <1>5 DEF PutCount, Goto
  <1>6. ASSUME NEW p \in Producers, PutAssign(p) PROVE LockInv'
    BY <1>6 DEF PutAssign, Goto
  <1>7. ASSUME NEW p \in Producers, PutStamp(p) PROVE LockInv'
    BY <1>7 DEF PutStamp, Goto
  <1>8. ASSUME NEW p \in Producers, PutUnlock(p) PROVE LockInv'
    BY <1>8 DEF PutUnlock, Goto, Forget
  <1>9. ASSUME DrainBegin PROVE LockInv'
    BY <1>9 DEF DrainBegin, CGoto, Allocated
  <1>10. ASSUME NEW h \in Topics, TakeLock(h) PROVE LockInv'
    BY <1>10 DEF TakeLock, CGoto
  <1>11. ASSUME TakeNothing PROVE LockInv'
    BY <1>11 DEF TakeNothing, CGoto
  <1>12. ASSUME TakeFlag PROVE LockInv'
    BY <1>12 DEF TakeFlag, CGoto
  <1>13. ASSUME TakeMove PROVE LockInv'
    BY <1>13 DEF TakeMove, CGoto
  <1>14. ASSUME TakeUnlock PROVE LockInv'
    BY <1>14 DEF TakeUnlock, CGoto
  <1>15. ASSUME DrainEnd PROVE LockInv'
    BY <1>15 DEF DrainEnd, CGoto
  <1>16. ASSUME get_total_dropped PROVE LockInv'
    BY <1>16
    DEF get_total_dropped, TotalBegin, TotalAdd, TotalEnd, CGoto, Allocated
  <1>17. CASE UNCHANGED vars
    BY <1>17 DEF vars
  <1>. QED
    BY <1>1, <1>2, <1>3, <1>4, <1>5, <1>6, <1>7, <1>8, <1>9, <1>10, <1>11,
       <1>12, <1>13, <1>14, <1>15, <1>16, <1>17
    DEF Next, put, drain, get_total_dropped

(* A lock is taken by one thread at a time. *)
LEMMA NextExclusive == IInv /\ [Next]_vars => SlotExclusive'
  <1> SUFFICES ASSUME IInv, [Next]_vars PROVE SlotExclusive'
    BY DEF IInv
  <1> USE
  DEF IInv, Slots, Frames, nullptr, Writing, Taking, TypeOK, ProducerInv,
      ConsumerInv, LockInv,  SlotExclusive, MapShared, mapVars, slotVars,
      producerVars, consumerVars
  <1>1. ASSUME NEW h \in Topics, pre_allocate(h) PROVE SlotExclusive'
    BY <1>1 DEF pre_allocate, Emplace
  <1>2. ASSUME NEW p \in Producers, Receive(p) PROVE SlotExclusive'
    BY <1>2 DEF Receive, Goto
  <1>3. ASSUME NEW p \in Producers, get_slot_fast(p) PROVE SlotExclusive'
    <2>1. pc'[p] \notin Writing
      BY <1>3 DEF get_slot_fast, Goto
    <2>2. \A q \in Producers : q # p => pc'[q] = pc[q] /\ slot'[q] = slot[q]
      BY <1>3 DEF get_slot_fast, Goto, Forget
    <2>3. cpc' = cpc /\ cur' = cur /\ slots_' = slots_
      BY <1>3 DEF get_slot_fast
    <2>. QED
      BY <2>1, <2>2, <2>3
  <1>4. ASSUME NEW p \in Producers, PutLock(p) PROVE SlotExclusive'
    BY <1>4 DEF PutLock, Goto
  <1>5. ASSUME NEW p \in Producers, PutCount(p) PROVE SlotExclusive'
    BY <1>5 DEF PutCount, Goto
  <1>6. ASSUME NEW p \in Producers, PutAssign(p) PROVE SlotExclusive'
    BY <1>6 DEF PutAssign, Goto
  <1>7. ASSUME NEW p \in Producers, PutStamp(p) PROVE SlotExclusive'
    BY <1>7 DEF PutStamp, Goto
  <1>8. ASSUME NEW p \in Producers, PutUnlock(p) PROVE SlotExclusive'
    BY <1>8 DEF PutUnlock, Goto, Forget
  <1>9. ASSUME DrainBegin PROVE SlotExclusive'
    BY <1>9 DEF DrainBegin, CGoto, Allocated
  <1>10. ASSUME NEW h \in Topics, TakeLock(h) PROVE SlotExclusive'
    BY <1>10 DEF TakeLock, CGoto
  <1>11. ASSUME TakeNothing PROVE SlotExclusive'
    BY <1>11 DEF TakeNothing, CGoto
  <1>12. ASSUME TakeFlag PROVE SlotExclusive'
    BY <1>12 DEF TakeFlag, CGoto
  <1>13. ASSUME TakeMove PROVE SlotExclusive'
    BY <1>13 DEF TakeMove, CGoto
  <1>14. ASSUME TakeUnlock PROVE SlotExclusive'
    BY <1>14 DEF TakeUnlock, CGoto
  <1>15. ASSUME DrainEnd PROVE SlotExclusive'
    BY <1>15 DEF DrainEnd, CGoto
  <1>16. ASSUME get_total_dropped PROVE SlotExclusive'
    BY <1>16
    DEF get_total_dropped, TotalBegin, TotalAdd, TotalEnd, CGoto, Allocated
  <1>17. CASE UNCHANGED vars
    BY <1>17 DEF vars
  <1>. QED
    BY <1>1, <1>2, <1>3, <1>4, <1>5, <1>6, <1>7, <1>8, <1>9, <1>10, <1>11,
       <1>12, <1>13, <1>14, <1>15, <1>16, <1>17
    DEF Next, put, drain, get_total_dropped

(* A payload changes together with its time stamp, or under the lock. *)
LEMMA NextData == IInv /\ [Next]_vars => DataInv'
  <1> SUFFICES ASSUME IInv, [Next]_vars PROVE DataInv'
    BY DEF IInv
  <1> USE
  DEF IInv, Slots, Frames, nullptr, Writing, Taking, TypeOK, ProducerInv,
      MapInv, ConsumerInv,  LockInv, SlotExclusive, DataInv, MapShared,
      mapVars, slotVars, producerVars, consumerVars
  <1>1. ASSUME NEW h \in Topics, pre_allocate(h) PROVE DataInv'
    BY <1>1 DEF pre_allocate, Emplace
  <1>2. ASSUME NEW p \in Producers, Receive(p) PROVE DataInv'
    BY <1>2 DEF Receive, Goto
  <1>3. ASSUME NEW p \in Producers, get_slot_fast(p) PROVE DataInv'
    <2>1. pc[p] # "stamp" /\ pc'[p] # "stamp"
      BY <1>3 DEF get_slot_fast, Goto
    <2>2. \A q \in Producers :
            q # p => pc'[q] = pc[q] /\ slot'[q] = slot[q] /\ frame'[q] = frame[q]
      BY <1>3 DEF get_slot_fast, Goto, Forget
    <2>3. \A s : (\A q \in Producers : pc'[q] = "stamp" => slot'[q] # s)
                   <=> (\A q \in Producers : pc[q] = "stamp" => slot[q] # s)
      BY <2>1, <2>2
    <2>4. UNCHANGED <<slotVars, cpc, cur, slots_>>
      BY <1>3 DEF get_slot_fast
    <2>5. \A q \in Producers : pc'[q] = "stamp" => payload'[slot'[q]] = frame'[q]
      BY <2>1, <2>2, <2>4
    <2>6. \A s \in Slots :
            has_data'[s]
            /\ (\A q \in Producers : pc'[q] = "stamp" => slot'[q] # s)
              => payload'[s] = put_time'[s]
      BY <2>3, <2>4
    <2>. QED
      BY <2>4, <2>5, <2>6
  <1>4. ASSUME NEW p \in Producers, PutLock(p) PROVE DataInv'
    BY <1>4 DEF PutLock, Goto
  <1>5. ASSUME NEW p \in Producers, PutCount(p) PROVE DataInv'
    BY <1>5 DEF PutCount, Goto
  <1>6. ASSUME NEW p \in Producers, PutAssign(p) PROVE DataInv'
    BY <1>6 DEF PutAssign, Goto
  <1>7. ASSUME NEW p \in Producers, PutStamp(p) PROVE DataInv'
    <2>1. slot[p] \in Slots /\ frame[p] \in Frames /\ payload[slot[p]] = frame[p]
      BY <1>7 DEF PutStamp, Goto
    <2>2. /\ put_time' = [put_time EXCEPT ![slot[p]] = frame[p]]
          /\ has_data' = [has_data EXCEPT ![slot[p]] = TRUE]
          /\ UNCHANGED <<payload, frame, slot, slots_, cpc, cur>>
      BY <1>7 DEF PutStamp
    <2>3. \A q \in Producers : pc'[q] = "stamp" <=> pc[q] = "stamp" /\ q # p
      BY <1>7 DEF PutStamp, Goto
    <2>4. \A s \in Slots : s # slot[p] =>
            /\ has_data'[s] = has_data[s] /\ put_time'[s] = put_time[s]
            /\ (\A q \in Producers : pc'[q] = "stamp" => slot'[q] # s)
                 => (\A q \in Producers : pc[q] = "stamp" => slot[q] # s)
      BY <2>2, <2>3
    <2>5. has_data'[slot[p]] /\ put_time'[slot[p]] = payload'[slot[p]]
      BY <2>1, <2>2
    <2>6. cpc \in Taking => slots_[cur] # slot[p]
      BY <1>7 DEF PutStamp, Goto
    <2>7. /\ \A s \in Slots : has_data'[s] => payload'[s] \in Frames
          /\ \A s \in Slots :
               has_data'[s]
               /\ (\A q \in Producers : pc'[q] = "stamp" => slot'[q] # s)
                 => payload'[s] = put_time'[s]
      BY <2>1, <2>2, <2>4, <2>5
    <2>8. \A q \in Producers : pc'[q] = "stamp" => payload'[slot'[q]] = frame'[q]
      BY <2>2, <2>3
    <2>9. cpc' = "move" => /\ ~has_data'[slots_'[cur']]
                           /\ payload'[slots_'[cur']] \in Frames
                           /\ payload'[slots_'[cur']] = put_time'[slots_'[cur']]
      BY <2>2, <2>6
    <2>. QED
      BY <2>7, <2>8, <2>9
  <1>8. ASSUME NEW p \in Producers, PutUnlock(p) PROVE DataInv'
    BY <1>8 DEF PutUnlock, Goto, Forget
  <1>9. ASSUME DrainBegin PROVE DataInv'
    BY <1>9 DEF DrainBegin, CGoto, Allocated
  <1>10. ASSUME NEW h \in Topics, TakeLock(h) PROVE DataInv'
    BY <1>10 DEF TakeLock, CGoto
  <1>11. ASSUME TakeNothing PROVE DataInv'
    BY <1>11 DEF TakeNothing, CGoto
  <1>12. ASSUME TakeFlag PROVE DataInv'
    BY <1>12 DEF TakeFlag, CGoto
  <1>13. ASSUME TakeMove PROVE DataInv'
    BY <1>13 DEF TakeMove, CGoto
  <1>14. ASSUME TakeUnlock PROVE DataInv'
    BY <1>14 DEF TakeUnlock, CGoto
  <1>15. ASSUME DrainEnd PROVE DataInv'
    BY <1>15 DEF DrainEnd, CGoto
  <1>16. ASSUME get_total_dropped PROVE DataInv'
    <2>1. UNCHANGED <<payload, put_time, has_data, pc, slot, frame, slots_, cur>>
      BY <1>16 DEF get_total_dropped, TotalBegin, TotalAdd, TotalEnd
    <2>2. cpc' # "move"
      BY <1>16 DEF get_total_dropped, TotalBegin, TotalAdd, TotalEnd, CGoto
    <2>. QED
      BY <2>1, <2>2
  <1>17. CASE UNCHANGED vars
    BY <1>17 DEF vars
  <1>. QED
    BY <1>1, <1>2, <1>3, <1>4, <1>5, <1>6, <1>7, <1>8, <1>9, <1>10, <1>11,
       <1>12, <1>13, <1>14, <1>15, <1>16, <1>17
    DEF Next, put, drain, get_total_dropped

(* The reactor takes payload and time stamp of the same frame. *)
LEMMA NextTorn == IInv /\ [Next]_vars => NoTornFrame'
  <1> SUFFICES ASSUME IInv, [Next]_vars PROVE NoTornFrame'
    BY DEF IInv
  <1> USE
  DEF IInv, Writing, Taking, DataInv, NoTornFrame, mapVars, slotVars,
      producerVars, consumerVars
  <1>1. ASSUME NEW h \in Topics, pre_allocate(h) PROVE NoTornFrame'
    BY <1>1 DEF pre_allocate, Emplace
  <1>2. ASSUME NEW p \in Producers, Receive(p) \/ get_slot_fast(p) \/ put(p)
        PROVE  NoTornFrame'
    BY <1>2
    DEF put, Receive, get_slot_fast, PutLock, PutCount, PutAssign, PutStamp,
        PutUnlock, Goto, Forget
  <1>3. ASSUME drain PROVE NoTornFrame'
    BY <1>3
    DEF drain, DrainBegin, TakeLock, TakeNothing, TakeFlag, TakeMove,
        TakeUnlock, DrainEnd, CGoto, Allocated
  <1>4. ASSUME get_total_dropped PROVE NoTornFrame'
    BY <1>4
    DEF get_total_dropped, TotalBegin, TotalAdd, TotalEnd, CGoto, Allocated
  <1>5. CASE UNCHANGED vars
    BY <1>5 DEF vars
  <1>. QED
    BY <1>1, <1>2, <1>3, <1>4, <1>5
    DEF Next, put, drain, get_total_dropped

(* Every step preserves the invariant. *)
LEMMA NextInv == IInv /\ [Next]_vars => IInv'
  BY NextType, NextProducer, NextMap, NextConsumer, NextLock, NextExclusive,
     NextData, NextTorn DEF IInv

(* The invariant holds in every reachable state. *)
LEMMA InvHolds == Spec => []IInv
  BY InitInv, NextInv, PTL DEF Spec

(***************************************************************************)
(* Type correctness: every pointer followed by put(), take() and the sums  *)
(* of get_total_dropped() is the address of a slot object.                 *)
(***************************************************************************)
THEOREM TypeCorrect == Spec => []TypeOK
  <1>1. IInv => TypeOK
    BY DEF IInv
  <1>. QED
    BY <1>1, InvHolds, PTL

(***************************************************************************)
(* A pointer get_slot_fast() returned stays the slot of its topic, however *)
(* many topics are allocated before put() writes through it.               *)
(***************************************************************************)
THEOREM PointersStable == Spec => []SlotPointersStable
  <1>1. IInv => SlotPointersStable
    BY DEF IInv, ProducerInv, SlotPointersStable
  <1>. QED
    BY <1>1, InvHolds, PTL

(***************************************************************************)
(* put() and take() never touch the fields of one slot at the same time.   *)
(***************************************************************************)
THEOREM Exclusive == Spec => []SlotExclusive
  <1>1. IInv => SlotExclusive
    BY DEF IInv
  <1>. QED
    BY <1>1, InvHolds, PTL

(***************************************************************************)
(* What take() returns is the payload and the time stamp of one put().     *)
(***************************************************************************)
THEOREM NoTorn == Spec => []NoTornFrame
  <1>1. IInv => NoTornFrame
    BY DEF IInv
  <1>. QED
    BY <1>1, InvHolds, PTL

(***************************************************************************)
(* The refinement                                                          *)
(***************************************************************************)

(* A thread inside put() has its slot to itself. *)
LEMMA OwnSlot ==
  ASSUME IInv, NEW p \in Producers, pc[p] \in Writing
  PROVE  /\ topic[p] \in Topics /\ frame[p] \in Frames
         /\ slot[p] \in Slots /\ slot[p] = slots_[topic[p]]
         /\ \A q \in Producers : pc[q] \in Writing /\ slot[q] = slot[p] => q = p
         /\ cpc \in Taking => slots_[cur] # slot[p]
         /\ \A h \in Topics : slots_[h] = slot[p] => h = topic[p]
  BY DEF IInv, TypeOK, ProducerInv, MapInv, SlotExclusive, Writing, Slots, nullptr

(* So has the reactor thread inside take(). *)
LEMMA OwnCur ==
  ASSUME IInv, cpc \in Taking
  PROVE  /\ cur \in Topics /\ slots_[cur] \in Slots
         /\ \A q \in Producers : pc[q] \in Writing => slot[q] # slots_[cur]
         /\ \A h \in Topics : slots_[h] = slots_[cur] => h = cur
  BY DEF IInv, TypeOK, ConsumerInv, MapInv, SlotExclusive, Slots, nullptr

(* A step that moves no put() to or from its two middle steps, and leaves  *)
(* the map and the slots' data alone, is invisible to the cells.           *)
LEMMA SameCells ==
  ASSUME UNCHANGED <<slots_, payload, has_data, drop_count>>,
         \A q \in Producers, step \in {"assign", "stamp"} :
           /\ (pc[q] = step)' <=> pc[q] = step
           /\ pc[q] = step => slot'[q] = slot[q],
         \A h \in Topics : (cpc = "move" /\ cur = h)' <=> cpc = "move" /\ cur = h
  PROVE  /\ [h \in Topics |-> Cell(h)]' = [h \in Topics |-> Cell(h)]
         /\ [h \in Topics |-> Overwritten(h)]' = [h \in Topics |-> Overwritten(h)]
  <1>1. \A h \in Topics : /\ At(h, "assign")' <=> At(h, "assign")
                          /\ At(h, "stamp")' <=> At(h, "stamp")
    BY DEF At
  <1>2. \A h \in Topics : Cell(h)' = Cell(h) /\ Overwritten(h)' = Overwritten(h)
    BY <1>1 DEF Cell, Holds, Overwritten
  <1>. QED
    BY <1>2

(* An empty cache is an empty register. *)
LEMMA InitRefines == Init => Register!Init
  <1> SUFFICES ASSUME Init PROVE Register!Init
    OBVIOUS
  <1>1. \A h \in Topics : Cell(h) = None /\ Overwritten(h) = 0
    BY DEF Init, Cell, Holds, Overwritten
  <1>2. \A p \in Producers : Pending(p) = None
    BY DEF Init, Pending
  <1>. QED
    BY <1>1, <1>2 DEF Init, Register!Init

(* Every step of the cache is a step of the register, or changes nothing   *)
(* that can be seen of it: a lookup that finds a slot invokes the write,   *)
(* the assignment of the payload performs it, the move is the take.        *)
LEMMA StepRefines == IInv /\ [Next]_vars => [Register!Next]_Register!vars
  <1> SUFFICES ASSUME IInv, [Next]_vars PROVE [Register!Next]_Register!vars
    OBVIOUS
  <1>t. TypeOK
    BY DEF IInv
  <1> USE DEF mapVars, slotVars, producerVars, consumerVars
  <1>1. ASSUME NEW h \in Topics, pre_allocate(h) PROVE UNCHANGED Register!vars
    <2> USE DEF Slots, nullptr
    <2>1. UNCHANGED <<payload, has_data, drop_count, pc, slot, topic, frame, cpc,
                      cur, taken>>
      BY <1>1 DEF pre_allocate
    <2>2. \A g \in Topics \ {h} : slots_'[g] = slots_[g]
      BY <1>1, <1>t DEF pre_allocate, Emplace, TypeOK
    <2>3. \A g \in Topics \ {h} :
            Cell(g)' = Cell(g) /\ Overwritten(g)' = Overwritten(g)
      BY <2>1, <2>2 DEF Cell, Holds, At, Overwritten
    <2>4. Cell(h)' = Cell(h) /\ Overwritten(h)' = Overwritten(h)
      <3>1. CASE slots_[h] # nullptr
        BY <1>1, <2>1, <3>1
        DEF pre_allocate, Cell, Holds, At, Overwritten
      <3>2. CASE slots_[h] = nullptr
        <4>1. slots_'[h] = allocated + 1 /\ allocated < MaxSlots
          BY <1>1, <1>t, <3>2 DEF pre_allocate, Emplace, TypeOK
        <4>2. allocated + 1 \in Slots /\ allocated + 1 > allocated
          BY <1>t, <4>1, BoundAssumption DEF TypeOK
        <4>3. ~has_data'[slots_'[h]] /\ drop_count'[slots_'[h]] = 0
          BY <2>1, <4>1, <4>2 DEF IInv, MapInv
        <4>4. \A p \in Producers : pc[p] \in {"assign", "stamp"}
                                     => slot[p] <= allocated
          BY DEF IInv, ProducerInv, MapInv, Writing
        <4>5. ~At(h, "stamp")' /\ ~At(h, "assign")'
          BY <1>t, <2>1, <4>1, <4>4 DEF At, TypeOK
        <4>6. cpc' # "move"
          BY <1>1 DEF pre_allocate, MapShared
        <4>7. slots_'[h] # nullptr
          BY <4>1, <4>2
        <4>8. ~Holds(h) /\ ~Holds(h)'
          BY <3>2, <4>3, <4>5, <4>6 DEF Holds
        <4>9. Overwritten(h) = 0
          BY <3>2 DEF Overwritten
        <4>10. Overwritten(h)' = drop_count'[slots_'[h]] - 0
          BY <4>3, <4>7 DEF Overwritten
        <4>. QED
          BY <4>3, <4>8, <4>9, <4>10 DEF Cell
      <3>. QED
        BY <3>1, <3>2
    <2>5. \A q \in Producers : Pending(q)' = Pending(q)
      BY <2>1 DEF Pending
    <2>. QED
      BY <2>1, <2>3, <2>4, <2>5 DEF Register!vars
  <1>2. ASSUME NEW p \in Producers, Receive(p) PROVE UNCHANGED Register!vars
    <2>1. /\ UNCHANGED <<slots_, payload, has_data, drop_count, taken>>
          /\ \A q \in Producers, step \in {"assign", "stamp"} :
               /\ (pc[q] = step)' <=> pc[q] = step
               /\ pc[q] = step => slot'[q] = slot[q]
      BY <1>2, <1>t DEF Receive, TypeOK, Goto
    <2>2. \A q \in Producers : Pending(q)' = Pending(q)
      BY <1>2, <1>t DEF Receive, TypeOK, Pending, Goto
    <2>3. \A h \in Topics : (cpc = "move" /\ cur = h)' <=> cpc = "move" /\ cur = h
      BY <1>2 DEF Receive, Goto
    <2>. QED
      BY <2>1, <2>2, <2>3, SameCells DEF Register!vars
  <1>3. ASSUME NEW p \in Producers, get_slot_fast(p)
        PROVE  Register!Invoke(p) \/ UNCHANGED Register!vars
    <2>1. /\ UNCHANGED <<slots_, payload, has_data, drop_count, taken, cpc, cur>>
          /\ \A q \in Producers, step \in {"assign", "stamp"} :
               /\ (pc[q] = step)' <=> pc[q] = step
               /\ pc[q] = step => slot'[q] = slot[q]
      BY <1>3, <1>t DEF get_slot_fast, Goto, Forget, TypeOK
    <2>2. /\ [g \in Topics |-> Cell(g)]' = [g \in Topics |-> Cell(g)]
          /\ [g \in Topics |-> Overwritten(g)]' = [g \in Topics |-> Overwritten(g)]
      BY <2>1, SameCells
    <2>3. Pending(p) = None /\ topic[p] \in Topics /\ frame[p] \in Frames
      BY <1>3 DEF get_slot_fast, Goto, Pending, IInv, ProducerInv
    <2>4. \A q \in Producers \ {p} : Pending(q)' = Pending(q)
      BY <1>3, <1>t DEF get_slot_fast, Goto, Forget, Pending, TypeOK
    <2>5. Pending(p)' = None \/ Pending(p)' = <<topic[p], frame[p]>>
      BY <1>3, <1>t DEF get_slot_fast, Goto, Forget, Pending, TypeOK
    <2>6. CASE Pending(p)' = None
      BY <2>1, <2>2, <2>3, <2>4, <2>6 DEF Register!vars
    <2>7. CASE Pending(p)' = <<topic[p], frame[p]>>
      <3>1. [q \in Producers |-> Pending(q)]'
              = [[q \in Producers |-> Pending(q)]
                   EXCEPT ![p] = <<topic[p], frame[p]>>]
        BY <2>4, <2>7
      <3>. QED
        BY <2>1, <2>2, <2>3, <3>1 DEF Register!Invoke
    <2>. QED
      BY <2>5, <2>6, <2>7
  <1>4. ASSUME NEW p \in Producers, PutLock(p) PROVE UNCHANGED Register!vars
    <2>1. /\ UNCHANGED <<slots_, payload, has_data, drop_count, taken>>
          /\ \A q \in Producers, step \in {"assign", "stamp"} :
               /\ (pc[q] = step)' <=> pc[q] = step
               /\ pc[q] = step => slot'[q] = slot[q]
      BY <1>4, <1>t DEF PutLock, TypeOK, Goto
    <2>2. \A q \in Producers : Pending(q)' = Pending(q)
      BY <1>4, <1>t DEF PutLock, TypeOK, Pending, Goto
    <2>3. \A h \in Topics : (cpc = "move" /\ cur = h)' <=> cpc = "move" /\ cur = h
      BY <1>4 DEF PutLock, Goto
    <2>. QED
      BY <2>1, <2>2, <2>3, SameCells DEF Register!vars
  <1>5. ASSUME NEW p \in Producers, PutCount(p) PROVE UNCHANGED Register!vars
    <2>1. /\ slot[p] = slots_[topic[p]] /\ slot[p] \in Slots /\ topic[p] \in Topics
          /\ \A q \in Producers : pc[q] \in Writing /\ slot[q] = slot[p] => q = p
          /\ \A h \in Topics : slots_[h] = slot[p] => h = topic[p]
      BY <1>5, OwnSlot DEF PutCount, Goto, Writing
    <2>2. UNCHANGED <<slots_, payload, has_data, slot, topic, frame, cpc, cur, taken>>
      BY <1>5 DEF PutCount
    <2>3. /\ pc[p] = "count" /\ pc'[p] = "assign"
          /\ \A q \in Producers \ {p} : pc'[q] = pc[q]
      BY <1>5, <1>t DEF PutCount, Goto, TypeOK
    <2>4. /\ drop_count'[slot[p]]
               = drop_count[slot[p]] + IF has_data[slot[p]] THEN 1 ELSE 0
          /\ \A s \in Slots \ {slot[p]} : drop_count'[s] = drop_count[s]
          /\ drop_count[slot[p]] \in Nat
      BY <1>5, <1>t, <2>1 DEF PutCount, TypeOK
    <2>5. \A h \in Topics : At(h, "stamp")' <=> At(h, "stamp")
      BY <2>2, <2>3 DEF At
    <2>6. \A h \in Topics \ {topic[p]} : At(h, "assign")' <=> At(h, "assign")
      BY <2>1, <2>2, <2>3 DEF At
    <2>7. ~At(topic[p], "assign") /\ At(topic[p], "assign")'
      BY <2>1, <2>2, <2>3 DEF At, Writing
    <2>8. \A h \in Topics : Cell(h)' = Cell(h)
      BY <2>2, <2>5 DEF Cell, Holds
    <2>9. \A h \in Topics \ {topic[p]} : Overwritten(h)' = Overwritten(h)
      <3>1. \A h \in Topics \ {topic[p]} : slots_[h] # nullptr
              => drop_count'[slots_[h]] = drop_count[slots_[h]]
        BY <1>t, <2>1, <2>4 DEF TypeOK
      <3>. QED
        BY <2>2, <2>6, <3>1 DEF Overwritten
    <2>10. Overwritten(topic[p])' = Overwritten(topic[p])
      BY <2>1, <2>2, <2>4, <2>7 DEF Overwritten, Slots, nullptr
    <2>11. \A q \in Producers : Pending(q)' = Pending(q)
      BY <2>2, <2>3 DEF Pending
    <2>. QED
      BY <2>2, <2>8, <2>9, <2>10, <2>11 DEF Register!vars
  <1>6. ASSUME NEW p \in Producers, PutAssign(p)
        PROVE  Register!Next
    <2>k. PICK k \in Topics : k = topic[p]
      BY <1>6, OwnSlot DEF PutAssign, Goto, Writing
    <2>1. /\ slot[p] = slots_[k] /\ slot[p] \in Slots
          /\ frame[p] \in Frames
          /\ \A q \in Producers : pc[q] \in Writing /\ slot[q] = slot[p] => q = p
          /\ cpc \in Taking => slots_[cur] # slot[p]
          /\ \A h \in Topics : slots_[h] = slot[p] => h = k
      BY <1>6, <2>k, OwnSlot DEF PutAssign, Goto, Writing
    <2>2. UNCHANGED <<slots_, has_data, drop_count, slot, topic, frame, cpc, cur,
                      taken>>
      BY <1>6 DEF PutAssign
    <2>3. /\ pc[p] = "assign" /\ pc'[p] = "stamp"
          /\ \A q \in Producers \ {p} : pc'[q] = pc[q]
      BY <1>6, <1>t DEF PutAssign, Goto, TypeOK
    <2>4. /\ payload'[slot[p]] = frame[p]
          /\ \A s \in Slots \ {slot[p]} : payload'[s] = payload[s]
      BY <1>6, <1>t, <2>1 DEF PutAssign, TypeOK
    <2>5. \A h \in Topics \ {k} : /\ At(h, "stamp")' <=> At(h, "stamp")
                                  /\ At(h, "assign")' <=> At(h, "assign")
      BY <2>1, <2>2, <2>3 DEF At
    <2>6. /\ At(k, "assign") /\ ~At(k, "assign")'
          /\ ~At(k, "stamp") /\ At(k, "stamp")'
      BY <2>1, <2>2, <2>3 DEF At, Writing
    <2>7. \A h \in Topics \ {k} :
            Cell(h)' = Cell(h) /\ Overwritten(h)' = Overwritten(h)
      <3>1. \A h \in Topics \ {k} : slots_[h] # nullptr
              => payload'[slots_[h]] = payload[slots_[h]]
        BY <1>t, <2>1, <2>4 DEF TypeOK
      <3>. QED
        BY <2>2, <2>5, <3>1 DEF Cell, Holds, Overwritten
    <2>8. slots_[k] # nullptr
      BY <2>1 DEF Slots, nullptr
    <2>9. Cell(k)' = frame[p]
      BY <2>1, <2>2, <2>4, <2>6, <2>8 DEF Cell, Holds
    <2>10. Holds(k) <=> has_data[slot[p]]
      BY <2>1, <2>6, <2>8 DEF Holds, Taking
    <2>11. Cell(k) = None <=> ~has_data[slot[p]]
      BY <2>1, <2>10, NoneAssumption DEF Cell, IInv, DataInv, Frames
    <2>12. Overwritten(k)'
             = Overwritten(k) + IF Cell(k) = None THEN 0 ELSE 1
      BY <1>t, <2>1, <2>2, <2>6, <2>8, <2>11 DEF Overwritten, TypeOK
    <2>13. Pending(p) = <<topic[p], frame[p]>> /\ Pending(p)' = None
      BY <2>2, <2>3 DEF Pending
    <2>14. Pending(p) # None
      BY <2>1, <2>k, <2>13, NoneIsNoSample DEF Frames
    <2>15. \A q \in Producers \ {p} : Pending(q)' = Pending(q)
      BY <2>2, <2>3 DEF Pending
    <2>16. /\ [h \in Topics |-> Cell(h)]'
                = [[h \in Topics |-> Cell(h)] EXCEPT ![k] = frame[p]]
           /\ [h \in Topics |-> Overwritten(h)]'
                = [[h \in Topics |-> Overwritten(h)] EXCEPT
                     ![k] = @ + IF Cell(k) = None THEN 0 ELSE 1]
           /\ [q \in Producers |-> Pending(q)]'
                = [[q \in Producers |-> Pending(q)] EXCEPT ![p] = None]
      BY <2>7, <2>9, <2>12, <2>13, <2>15
    <2>17. /\ Pending(p)[1] = k /\ Pending(p)[2] = frame[p]
      BY <2>k, <2>13
    <2>18. Register!Write(p, k)
      BY <2>2, <2>14, <2>16, <2>17 DEF Register!Write
    <2>. QED
      BY <2>18 DEF Register!Next
  <1>7. ASSUME NEW p \in Producers, PutStamp(p) PROVE UNCHANGED Register!vars
    <2>1. /\ slot[p] = slots_[topic[p]] /\ slot[p] \in Slots /\ topic[p] \in Topics
          /\ \A q \in Producers : pc[q] \in Writing /\ slot[q] = slot[p] => q = p
          /\ \A h \in Topics : slots_[h] = slot[p] => h = topic[p]
      BY <1>7, OwnSlot DEF PutStamp, Goto, Writing
    <2>2. UNCHANGED <<slots_, payload, drop_count, slot, topic, frame, cpc, cur,
                      taken>>
      BY <1>7 DEF PutStamp
    <2>3. /\ pc[p] = "stamp" /\ pc'[p] = "unlock"
          /\ \A q \in Producers \ {p} : pc'[q] = pc[q]
      BY <1>7, <1>t DEF PutStamp, Goto, TypeOK
    <2>4. /\ has_data'[slot[p]]
          /\ \A s \in Slots \ {slot[p]} : has_data'[s] = has_data[s]
      BY <1>7, <1>t, <2>1 DEF PutStamp, TypeOK
    <2>5. \A h \in Topics \ {topic[p]} : At(h, "stamp")' <=> At(h, "stamp")
      BY <2>1, <2>2, <2>3 DEF At
    <2>6. \A h \in Topics : At(h, "assign")' <=> At(h, "assign")
      BY <2>2, <2>3 DEF At
    <2>7. ~At(topic[p], "assign") /\ At(topic[p], "stamp")
      BY <2>1, <2>2, <2>3 DEF At, Writing
    <2>8. \A h \in Topics \ {topic[p]} :
            Cell(h)' = Cell(h) /\ Overwritten(h)' = Overwritten(h)
      <3>1. \A h \in Topics \ {topic[p]} : slots_[h] # nullptr
              => has_data'[slots_[h]] = has_data[slots_[h]]
        BY <1>t, <2>1, <2>4 DEF TypeOK
      <3>. QED
        BY <2>2, <2>5, <2>6, <3>1 DEF Cell, Holds, Overwritten
    <2>9. Holds(topic[p]) /\ Holds(topic[p])'
      BY <2>1, <2>2, <2>4, <2>7 DEF Holds, Slots, nullptr
    <2>10. Cell(topic[p])' = Cell(topic[p])
      BY <2>2, <2>9 DEF Cell
    <2>11. Overwritten(topic[p])' = Overwritten(topic[p])
      BY <2>2, <2>6, <2>7, <2>1 DEF Overwritten
    <2>12. \A q \in Producers : Pending(q)' = Pending(q)
      BY <2>2, <2>3 DEF Pending
    <2>. QED
      BY <2>2, <2>8, <2>10, <2>11, <2>12 DEF Register!vars
  <1>8. ASSUME NEW p \in Producers, PutUnlock(p) PROVE UNCHANGED Register!vars
    <2>1. /\ UNCHANGED <<slots_, payload, has_data, drop_count, taken>>
          /\ \A q \in Producers, step \in {"assign", "stamp"} :
               /\ (pc[q] = step)' <=> pc[q] = step
               /\ pc[q] = step => slot'[q] = slot[q]
      BY <1>8, <1>t DEF PutUnlock, TypeOK, Goto, Forget
    <2>2. \A q \in Producers : Pending(q)' = Pending(q)
      BY <1>8, <1>t DEF PutUnlock, TypeOK, Pending, Goto, Forget
    <2>3. \A h \in Topics : (cpc = "move" /\ cur = h)' <=> cpc = "move" /\ cur = h
      BY <1>8 DEF PutUnlock, Goto, Forget
    <2>. QED
      BY <2>1, <2>2, <2>3, SameCells DEF Register!vars
  <1>9. ASSUME DrainBegin \/ DrainEnd \/ get_total_dropped
        PROVE  UNCHANGED Register!vars
    <2>1. UNCHANGED <<slots_, payload, has_data, drop_count, taken, pc, slot>>
      BY <1>9 DEF DrainBegin, DrainEnd, get_total_dropped,
                 TotalBegin, TotalAdd, TotalEnd
    <2>2. UNCHANGED <<topic, frame>>
      BY <1>9 DEF DrainBegin, DrainEnd, get_total_dropped,
                 TotalBegin, TotalAdd, TotalEnd
    <2>3. \A h \in Topics : (cpc = "move" /\ cur = h)' <=> cpc = "move" /\ cur = h
      BY <1>9 DEF DrainBegin, DrainEnd, get_total_dropped,
                 TotalBegin, TotalAdd, TotalEnd, CGoto
    <2>4. \A q \in Producers : Pending(q)' = Pending(q)
      BY <2>1, <2>2 DEF Pending
    <2>. QED
      BY <2>1, <2>3, <2>4, SameCells DEF Register!vars
  <1>10. ASSUME (\E h \in Topics : TakeLock(h)) \/ TakeNothing \/ TakeUnlock
        PROVE  UNCHANGED Register!vars
    <2>1. UNCHANGED <<slots_, payload, has_data, drop_count, taken, pc, slot>>
      BY <1>10 DEF TakeLock, TakeNothing, TakeUnlock
    <2>2. UNCHANGED <<topic, frame>>
      BY <1>10 DEF TakeLock, TakeNothing, TakeUnlock
    <2>3. \A h \in Topics : (cpc = "move" /\ cur = h)' <=> cpc = "move" /\ cur = h
      BY <1>10 DEF TakeLock, TakeNothing, TakeUnlock, CGoto
    <2>4. \A q \in Producers : Pending(q)' = Pending(q)
      BY <2>1, <2>2 DEF Pending
    <2>. QED
      BY <2>1, <2>3, <2>4, SameCells DEF Register!vars
  <1>11. ASSUME TakeFlag PROVE UNCHANGED Register!vars
    <2>k. PICK k \in Topics : k = cur
      BY <1>11, OwnCur DEF TakeFlag, CGoto, Taking
    <2>1. /\ slots_[k] \in Slots
          /\ \A q \in Producers : pc[q] \in Writing => slot[q] # slots_[k]
          /\ \A h \in Topics : slots_[h] = slots_[k] => h = k
      BY <1>11, <2>k, OwnCur DEF TakeFlag, CGoto, Taking
    <2>2. /\ UNCHANGED <<slots_, payload, drop_count, slot, topic, frame, pc, cur,
                         taken>>
          /\ cpc = "flag" /\ cpc' = "move" /\ has_data[slots_[k]]
      BY <1>11, <2>k DEF TakeFlag, CGoto
    <2>3. \A s \in Slots \ {slots_[k]} : has_data'[s] = has_data[s]
      BY <1>11, <1>t, <2>1, <2>k DEF TakeFlag, TypeOK
    <2>4. \A h \in Topics : /\ At(h, "stamp")' <=> At(h, "stamp")
                            /\ At(h, "assign")' <=> At(h, "assign")
      BY <2>2 DEF At
    <2>5. ~At(k, "assign")
      BY <2>1 DEF At, Writing
    <2>6. \A h \in Topics \ {k} :
            Cell(h)' = Cell(h) /\ Overwritten(h)' = Overwritten(h)
      <3>1. \A h \in Topics \ {k} : slots_[h] # nullptr
              => has_data'[slots_[h]] = has_data[slots_[h]]
        BY <1>t, <2>1, <2>3 DEF TypeOK
      <3>. QED
        BY <2>2, <2>4, <2>k, <3>1 DEF Cell, Holds, Overwritten
    <2>7. Holds(k) /\ Holds(k)'
      BY <2>1, <2>2, <2>k DEF Holds, Slots, nullptr
    <2>8. Cell(k)' = Cell(k) /\ Overwritten(k)' = Overwritten(k)
      BY <2>2, <2>4, <2>5, <2>7 DEF Cell, Overwritten
    <2>9. \A q \in Producers : Pending(q)' = Pending(q)
      BY <2>2 DEF Pending
    <2>. QED
      BY <2>1, <2>2, <2>6, <2>8, <2>9 DEF Register!vars
  <1>12. ASSUME TakeMove PROVE Register!Next
    <2>k. PICK k \in Topics : k = cur
      BY <1>12, OwnCur DEF TakeMove, CGoto, Taking
    <2>1. /\ slots_[k] \in Slots
          /\ \A q \in Producers : pc[q] \in Writing => slot[q] # slots_[k]
          /\ \A h \in Topics : slots_[h] = slots_[k] => h = k
      BY <1>12, <2>k, OwnCur DEF TakeMove, CGoto, Taking
    <2>2. /\ UNCHANGED <<slots_, has_data, drop_count, slot, topic, frame, pc, cur>>
          /\ cpc = "move" /\ cpc' = "unlock"
          /\ taken' = <<k, payload[slots_[k]]>>
      BY <1>12, <2>k DEF TakeMove, CGoto
    <2>3. \A s \in Slots \ {slots_[k]} : payload'[s] = payload[s]
      BY <1>12, <1>t, <2>1, <2>k DEF TakeMove, TypeOK
    <2>4. \A h \in Topics : /\ At(h, "stamp")' <=> At(h, "stamp")
                            /\ At(h, "assign")' <=> At(h, "assign")
      BY <2>2 DEF At
    <2>5. ~At(k, "stamp")
      BY <2>1 DEF At, Writing
    <2>6. \A h \in Topics \ {k} : Cell(h)' = Cell(h)
      <3>1. \A h \in Topics \ {k} : slots_[h] # nullptr
              => payload'[slots_[h]] = payload[slots_[h]]
        BY <1>t, <2>1, <2>3 DEF TypeOK
      <3>. QED
        BY <2>2, <2>4, <2>k, <3>1 DEF Cell, Holds
    <2>7. \A h \in Topics : Overwritten(h)' = Overwritten(h)
      BY <2>2, <2>4 DEF Overwritten
    <2>8. Holds(k) /\ Cell(k) = payload[slots_[k]]
      BY <2>1, <2>2, <2>k DEF Holds, Cell, Slots, nullptr
    <2>9. /\ payload[slots_[k]] \in Frames /\ payload[slots_[k]] # None
          /\ ~has_data[slots_[k]]
      BY <2>2, <2>k, NoneAssumption DEF IInv, DataInv, Frames
    <2>10. Cell(k)' = None
      BY <2>2, <2>4, <2>5, <2>9, <2>k DEF Cell, Holds
    <2>11. \A q \in Producers : Pending(q)' = Pending(q)
      BY <2>2 DEF Pending
    <2>12. /\ [h \in Topics |-> Cell(h)]'
                = [[h \in Topics |-> Cell(h)] EXCEPT ![k] = None]
           /\ [h \in Topics |-> Overwritten(h)]' = [h \in Topics |-> Overwritten(h)]
           /\ [q \in Producers |-> Pending(q)]' = [q \in Producers |-> Pending(q)]
      BY <2>6, <2>7, <2>10, <2>11
    <2>13. Register!Take(k)
      BY <2>2, <2>8, <2>9, <2>12 DEF Register!Take
    <2>. QED
      BY <2>13 DEF Register!Next
  <1>13. CASE UNCHANGED vars
    BY <1>13 DEF vars, Register!vars, Cell, Holds, At, Overwritten, Pending
  <1>. QED
    BY <1>1, <1>2, <1>3, <1>4, <1>5, <1>6, <1>7, <1>8, <1>9, <1>10, <1>11,
       <1>12, <1>13
    DEF Next, put, drain, Register!Next

(***************************************************************************)
(* The cache implements the latest-value register: each take returns the   *)
(* frame put last, once, and the drop counters count exactly the frames    *)
(* that a newer one displaced before they were taken.                      *)
(***************************************************************************)
THEOREM Refinement == Spec => ImplementsRegister
  BY InitRefines, StepRefines, InvHolds, PTL
  DEF Spec, ImplementsRegister, Register!Spec
(***************************************************************************)
(* The totals                                                              *)
(***************************************************************************)

(***************************************************************************)
(* A sum of counters is the number of the units counted: one unit for each *)
(* value below the counter of a topic of S.  This gives every sum without  *)
(* an order of summation, and of any set of topics: only finitely many     *)
(* have been counted for.                                                  *)
(***************************************************************************)
Units(c, S) == {u \in S \X Nat : u[2] < c[u[1]]}
Sum(c, S) == Cardinality(Units(c, S))

(* The sum over part of the topics is part of a finite sum. *)
LEMMA SumPart ==
  ASSUME NEW c \in [Topics -> Nat], IsFiniteSet(Units(c, Topics)),
         NEW S \in SUBSET Topics
  PROVE  IsFiniteSet(Units(c, S)) /\ Sum(c, S) \in Nat
  <1>1. Units(c, S) \in SUBSET Units(c, Topics)
    BY DEF Units
  <1>2. IsFiniteSet(Units(c, S))
    BY <1>1, FS_Subset
  <1>. QED
    BY <1>2, FS_CardinalityType DEF Sum

(* The sum over no topic. *)
LEMMA SumEmpty == \A c : Sum(c, {}) = 0
  <1>1. \A c : Units(c, {}) = {}
    BY DEF Units
  <1>. QED
    BY <1>1, FS_EmptySet DEF Sum

(* A single topic contributes its counter. *)
LEMMA SumOne ==
  ASSUME NEW c \in [Topics -> Nat], NEW h \in Topics
  PROVE  IsFiniteSet(Units(c, {h})) /\ Sum(c, {h}) = c[h]
  <1> DEFINE n == c[h]
             f == [k \in 0 .. n - 1 |-> <<h, k>>]
  <1>1. n \in Nat
    OBVIOUS
  <1>2. f \in Bijection(0 .. n - 1, Units(c, {h}))
    <2>1. \A k \in 0 .. n - 1 : f[k] \in Units(c, {h})
      BY <1>1 DEF Units
    <2>2. f \in [0 .. n - 1 -> Units(c, {h})]
      BY <2>1
    <2>3. \A j, k \in 0 .. n - 1 : f[j] = f[k] => j = k
      OBVIOUS
    <2>4. \A u \in Units(c, {h}) : \E k \in 0 .. n - 1 : f[k] = u
      <3> SUFFICES ASSUME NEW u \in Units(c, {h})
                   PROVE  \E k \in 0 .. n - 1 : f[k] = u
        OBVIOUS
      <3>1. u = <<h, u[2]>> /\ u[2] \in Nat /\ u[2] < n
        BY DEF Units
      <3>2. u[2] \in 0 .. n - 1
        BY <1>1, <3>1
      <3>. QED
        BY <3>1, <3>2
    <2> HIDE DEF f
    <2>. QED
      BY <2>2, <2>3, <2>4 DEF Bijection, Injection, Surjection, IsInjective
  <1>3. ExistsBijection(0 .. n - 1, Units(c, {h}))
    BY <1>2 DEF ExistsBijection
  <1> HIDE DEF n
  <1>4. IsFiniteSet(0 .. n - 1) /\ Cardinality(0 .. n - 1) = n
    <2>1. 0 \in Int /\ n - 1 \in Int /\ (IF 0 > n - 1 THEN 0 ELSE n - 1 - 0 + 1) = n
      BY <1>1
    <2>. QED
      BY <2>1, FS_Interval
  <1>5. IsFiniteSet(Units(c, {h})) /\ Cardinality(Units(c, {h})) = n
    BY <1>3, <1>4, FS_Bijection
  <1>. QED
    BY <1>5 DEF n, Sum

(* Taking a topic out of the sum takes its counter out. *)
LEMMA SumSplit ==
  ASSUME NEW c \in [Topics -> Nat], IsFiniteSet(Units(c, Topics)),
         NEW S \in SUBSET Topics, NEW h \in S
  PROVE  Sum(c, S) = c[h] + Sum(c, S \ {h})
  <1> DEFINE A == Units(c, {h})
             B == Units(c, S \ {h})
  <1>1. Units(c, S) = A \cup B /\ A \cap B = {}
    BY DEF Units
  <1>2. IsFiniteSet(A) /\ Cardinality(A) = c[h]
    BY SumOne DEF Sum
  <1>3. IsFiniteSet(B) /\ Cardinality(B) \in Nat
    BY SumPart DEF Sum
  <1> HIDE DEF A, B
  <1>4. Cardinality(A \cup B) = Cardinality(A) + Cardinality(B) - Cardinality(A \cap B)
    BY <1>2, <1>3, FS_Union
  <1>5. Cardinality(A \cap B) = 0
    BY <1>1, FS_EmptySet
  <1>. QED
    BY <1>1, <1>2, <1>3, <1>4, <1>5 DEF Sum, B

(* Counting one more at topic g is one more in every sum that has g. *)
LEMMA SumCount ==
  ASSUME NEW c \in [Topics -> Nat], IsFiniteSet(Units(c, Topics)),
         NEW g \in Topics, NEW S \in SUBSET Topics
  PROVE  LET d == [c EXCEPT ![g] = @ + 1]
         IN  /\ IsFiniteSet(Units(d, S))
             /\ g \in S => Sum(d, S) = Sum(c, S) + 1
             /\ g \notin S => Sum(d, S) = Sum(c, S)
  <1> DEFINE d == [c EXCEPT ![g] = @ + 1]
             U == Units(c, S)
             u == <<g, c[g]>>
  <1>1. IsFiniteSet(U) /\ Cardinality(U) \in Nat
    BY SumPart DEF Sum
  <1>2. u \notin U
    BY DEF Units
  <1>3. g \in S => Units(d, S) = U \cup {u}
    <2> SUFFICES ASSUME g \in S PROVE Units(d, S) = U \cup {u}
      OBVIOUS
    <2>1. ASSUME NEW v \in Units(d, S) PROVE v \in U \cup {u}
      <3>1. v = <<v[1], v[2]>> /\ v[1] \in S /\ v[2] \in Nat /\ v[2] < d[v[1]]
        BY DEF Units
      <3>2. CASE v[1] = g
        <4>1. v[2] < c[g] \/ v[2] = c[g]
          BY <3>1, <3>2
        <4>. QED
          BY <3>1, <3>2, <4>1 DEF Units
      <3>3. CASE v[1] # g
        <4>1. v[2] < c[v[1]]
          BY <3>1, <3>3
        <4>. QED
          BY <3>1, <4>1 DEF Units
      <3>. QED
        BY <3>2, <3>3
    <2>2. ASSUME NEW v \in U PROVE v \in Units(d, S)
      <3>1. v = <<v[1], v[2]>> /\ v[1] \in S /\ v[2] \in Nat /\ v[2] < c[v[1]]
        BY DEF Units
      <3>2. v[2] < d[v[1]]
        BY <3>1
      <3>. QED
        BY <3>1, <3>2 DEF Units
    <2>3. u \in Units(d, S)
      BY DEF Units
    <2>. QED
      BY <2>1, <2>2, <2>3
  <1>4. g \notin S => Units(d, S) = U
    BY DEF Units
  <1> HIDE DEF d, U, u
  <1>5. CASE g \in S
    <2>1. IsFiniteSet(U \cup {u}) /\ Cardinality(U \cup {u}) = Cardinality(U) + 1
      BY <1>1, <1>2, FS_AddElement
    <2>. QED
      BY <1>3, <1>5, <2>1 DEF Sum, U, d
  <1>6. CASE g \notin S
    BY <1>1, <1>4, <1>6 DEF Sum, U, d
  <1>. QED
    BY <1>5, <1>6

(* The drop counter of each topic, 0 while it has no slot. *)
Drops == [h \in Topics |-> IF slots_[h] = nullptr THEN 0 ELSE drop_count[slots_[h]]]

(***************************************************************************)
(* Between two calls of get_total_dropped() the last total is at most what *)
(* the counters add up to now.  During a call, what has been added and     *)
(* what is still to be added make up at least the last total and at most   *)
(* the present sum: a counter raised before its slot is visited counts on  *)
(* both sides, one raised afterwards on the right only.                    *)
(***************************************************************************)
TotalInv ==
  /\ IsFiniteSet(Units(Drops, Topics))
  /\ cpc # "sum" => total = 0 /\ lastTotal <= Sum(Drops, Topics)
  /\ cpc = "sum" => /\ lastTotal <= total + Sum(Drops, todo)
                    /\ total + Sum(Drops, todo) <= Sum(Drops, Topics)

(* Nothing has been counted in an empty cache. *)
LEMMA InitTotal == Init => TotalInv
  <1> SUFFICES ASSUME Init PROVE TotalInv
    OBVIOUS
  <1>1. Units(Drops, Topics) = {}
    <2>1. \A h \in Topics : Drops[h] = 0
      BY DEF Init, Drops
    <2>2. \A k \in Nat : ~(k < 0)
      OBVIOUS
    <2>. QED
      BY <2>1, <2>2 DEF Units
  <1>2. IsFiniteSet(Units(Drops, Topics)) /\ Sum(Drops, Topics) = 0
    BY <1>1, FS_EmptySet DEF Sum
  <1>. QED
    BY <1>2 DEF Init, TotalInv

(* The counters are natural numbers. *)
LEMMA DropsType == IInv => Drops \in [Topics -> Nat]
  BY DEF IInv, TypeOK, Drops, nullptr

(* A step that leaves counters and sums alone preserves the totals. *)
LEMMA SameTotals ==
  ASSUME TotalInv, Drops' = Drops, total' = total, lastTotal' = lastTotal,
         \/ cpc' = cpc /\ todo' = todo
         \/ cpc # "sum" /\ cpc' # "sum"
  PROVE  TotalInv'
  BY DEF TotalInv, Sum, Units

(* Every step preserves the totals. *)
LEMMA NextTotal == IInv /\ TotalInv /\ [Next]_vars => TotalInv'
  <1> SUFFICES ASSUME IInv, TotalInv, [Next]_vars PROVE TotalInv'
    OBVIOUS
  <1> USE DEF mapVars, slotVars, producerVars, consumerVars
  <1>t. TypeOK
    BY DEF IInv
  <1>d. Drops \in [Topics -> Nat] /\ IsFiniteSet(Units(Drops, Topics))
    BY DropsType DEF TotalInv
  <1>n. /\ todo \in SUBSET Topics /\ total \in Nat /\ lastTotal \in Nat
        /\ Sum(Drops, Topics) \in Nat /\ Sum(Drops, todo) \in Nat
    BY <1>t, <1>d, SumPart DEF TypeOK
  <1>1. ASSUME NEW h \in Topics, pre_allocate(h) PROVE TotalInv'
    <2>1. slots_' = slots_ \/ (slots_[h] = nullptr /\ Emplace(h))
      BY <1>1 DEF pre_allocate
    <2>2. ASSUME slots_[h] = nullptr, Emplace(h) PROVE Drops' = Drops
      <3>1. allocated + 1 \in Slots /\ drop_count[allocated + 1] = 0
        BY <2>2, <1>t, BoundAssumption DEF Emplace, TypeOK, IInv, MapInv, Slots
      <3>2. slots_' = [slots_ EXCEPT ![h] = allocated + 1]
        BY <2>2 DEF Emplace
      <3>3. \A g \in Topics : Drops'[g] = Drops[g]
        BY <1>1, <1>t, <2>2, <3>1, <3>2
        DEF Drops, pre_allocate, TypeOK, Slots, nullptr
      <3>. QED
        BY <3>3 DEF Drops
    <2>3. ASSUME slots_' = slots_ PROVE Drops' = Drops
      BY <1>1, <2>3 DEF Drops, pre_allocate
    <2>4. Drops' = Drops
      BY <2>1, <2>2, <2>3
    <2>. QED
      BY <1>1, <2>4, SameTotals DEF pre_allocate
  <1>2. ASSUME NEW p \in Producers, PutCount(p) PROVE TotalInv'
    <2>1. /\ pc[p] = "count" /\ slot[p] \in Slots /\ topic[p] \in Topics
          /\ slot[p] = slots_[topic[p]] /\ slot[p] # nullptr
          /\ \A h \in Topics : slots_[h] = slot[p] => h = topic[p]
      <3>1. pc[p] \in Writing
        BY <1>2 DEF PutCount, Goto, Writing
      <3>. QED
        BY <1>2, <3>1, OwnSlot DEF PutCount, Goto, Slots, nullptr
    <2>2. UNCHANGED <<slots_, cpc, todo, total, lastTotal>>
      BY <1>2 DEF PutCount
    <2>3. CASE ~has_data[slot[p]]
      <3>1. drop_count' = drop_count
        BY <1>2, <2>1, <2>3, <1>t DEF PutCount, TypeOK
      <3>2. Drops' = Drops
        BY <2>2, <3>1 DEF Drops
      <3>. QED
        BY <2>2, <3>2, SameTotals
    <2>4. CASE has_data[slot[p]]
      <3>1. drop_count' = [drop_count EXCEPT ![slot[p]] = @ + 1]
        BY <1>2, <2>4 DEF PutCount
      <3>2. Drops' = [Drops EXCEPT ![topic[p]] = @ + 1]
        BY <2>1, <2>2, <3>1, <1>t DEF Drops, TypeOK
      <3> DEFINE d == [Drops EXCEPT ![topic[p]] = @ + 1]
      <3>3. /\ IsFiniteSet(Units(d, Topics))
            /\ Sum(d, Topics) = Sum(Drops, Topics) + 1
        BY <1>d, <2>1, SumCount
      <3>4. CASE topic[p] \in todo
        <4>1. Sum(d, todo) = Sum(Drops, todo) + 1
          BY <1>d, <1>n, <2>1, <3>4, SumCount
        <4>. QED
          BY <1>n, <2>2, <3>2, <3>3, <4>1 DEF TotalInv, Sum, Units
      <3>5. CASE topic[p] \notin todo
        <4>1. Sum(d, todo) = Sum(Drops, todo)
          BY <1>d, <1>n, <2>1, <3>5, SumCount
        <4>. QED
          BY <1>n, <2>2, <3>2, <3>3, <4>1 DEF TotalInv, Sum, Units
      <3>. QED
        BY <3>4, <3>5
    <2>. QED
      BY <2>3, <2>4
  <1>3. ASSUME TotalBegin PROVE TotalInv'
    <2>1. /\ cpc # "sum" /\ cpc' = "sum" /\ todo' = Allocated
          /\ UNCHANGED <<slots_, drop_count, total, lastTotal>>
      BY <1>3 DEF TotalBegin, CGoto
    <2>2. Drops' = Drops
      BY <2>1 DEF Drops
    <2>3. Units(Drops, Allocated) = Units(Drops, Topics)
      BY <1>d DEF Units, Allocated, Drops
    <2>. QED
      BY <1>n, <2>1, <2>2, <2>3 DEF TotalInv, Sum
  <1>4. ASSUME NEW h \in Topics, TotalAdd(h) PROVE TotalInv'
    <2>1. /\ cpc = "sum" /\ cpc' = "sum" /\ h \in todo /\ todo' = todo \ {h}
          /\ total' = total + drop_count[slots_[h]]
          /\ UNCHANGED <<slots_, drop_count, lastTotal>>
      BY <1>4 DEF TotalAdd, CGoto
    <2>2. Drops' = Drops
      BY <2>1 DEF Drops
    <2>3. drop_count[slots_[h]] = Drops[h]
      BY <2>1 DEF IInv, ConsumerInv, MapShared, Drops
    <2>4. Sum(Drops, todo) = Drops[h] + Sum(Drops, todo \ {h})
      BY <1>d, <1>n, <2>1, SumSplit
    <2>5. Sum(Drops, todo \ {h}) \in Nat /\ Drops[h] \in Nat
      BY <1>d, <1>n, <2>1, SumPart
    <2>6. /\ Sum(Drops, todo)' = Sum(Drops, todo \ {h})
          /\ Sum(Drops, Topics)' = Sum(Drops, Topics)
          /\ IsFiniteSet(Units(Drops, Topics))'
      BY <1>d, <2>1, <2>2 DEF Sum, Units
    <2>. QED
      BY <1>n, <2>1, <2>3, <2>4, <2>5, <2>6 DEF TotalInv
  <1>5. ASSUME TotalEnd PROVE TotalInv'
    <2>1. /\ cpc = "sum" /\ cpc' = "idle" /\ todo = {}
          /\ lastTotal' = total /\ total' = 0
          /\ UNCHANGED <<slots_, drop_count>>
      BY <1>5 DEF TotalEnd, CGoto
    <2>2. Drops' = Drops
      BY <2>1 DEF Drops
    <2>3. Sum(Drops, todo) = 0
      BY <2>1, SumEmpty
    <2>4. total <= Sum(Drops, Topics)
      BY <1>n, <2>1, <2>3 DEF TotalInv
    <2>. QED
      BY <1>d, <2>1, <2>2, <2>4 DEF TotalInv, Sum, Units
  <1>6. ASSUME NEW p \in Producers,
               Receive(p) \/ get_slot_fast(p) \/ PutLock(p) \/ PutAssign(p)
                 \/ PutStamp(p) \/ PutUnlock(p)
        PROVE  TotalInv'
    <2>1. UNCHANGED <<slots_, drop_count, cpc, todo, total, lastTotal>>
      BY <1>6 DEF Receive, get_slot_fast, PutLock, PutAssign, PutStamp, PutUnlock
    <2>2. Drops' = Drops
      BY <2>1 DEF Drops
    <2>. QED
      BY <2>1, <2>2, SameTotals
  <1>7. ASSUME drain PROVE TotalInv'
    <2>1. /\ UNCHANGED <<slots_, drop_count, total, lastTotal>>
          /\ cpc # "sum" /\ cpc' # "sum"
      BY <1>7 DEF drain, DrainBegin, TakeLock, TakeNothing, TakeFlag, TakeMove,
                  TakeUnlock, DrainEnd, CGoto
    <2>2. Drops' = Drops
      BY <2>1 DEF Drops
    <2>. QED
      BY <2>1, <2>2, SameTotals
  <1>8. ASSUME UNCHANGED vars PROVE TotalInv'
    <2>1. UNCHANGED <<slots_, drop_count, cpc, todo, total, lastTotal>>
      BY <1>8 DEF vars
    <2>2. Drops' = Drops
      BY <2>1 DEF Drops
    <2>. QED
      BY <2>1, <2>2, SameTotals
  <1>. QED
    BY <1>1, <1>2, <1>3, <1>4, <1>5, <1>6, <1>7, <1>8
    DEF Next, put, get_total_dropped

(***************************************************************************)
(* get_total_dropped() never returns less than it returned before, though  *)
(* put() raises the counters while they are added up: the difference that  *)
(* handle_events() forms in unsigned arithmetic never wraps around.        *)
(***************************************************************************)
THEOREM TotalsGrow == Spec => TotalNeverShrinks
  <1>1. TypeOK /\ TotalInv /\ [Next]_vars
          => [cpc = "sum" /\ cpc' = "idle" => lastTotal' >= lastTotal]_vars
    <2> SUFFICES ASSUME TypeOK, TotalInv, Next, cpc = "sum", cpc' = "idle"
                 PROVE  lastTotal' >= lastTotal
      OBVIOUS
    <2>1. TotalEnd
      BY DEF Next, pre_allocate, Receive, get_slot_fast, put, PutLock, PutCount,
             PutAssign, PutStamp, PutUnlock, drain, DrainBegin, TakeLock,
             TakeNothing, TakeFlag, TakeMove, TakeUnlock, DrainEnd,
             get_total_dropped, TotalBegin, TotalAdd, CGoto, consumerVars
    <2>2. Sum(Drops, todo) = 0
      BY <2>1, SumEmpty DEF TotalEnd
    <2>. QED
      BY <2>1, <2>2 DEF TotalEnd, TotalInv, TypeOK
  <1>2. IInv => TypeOK
    BY DEF IInv
  <1>3. Spec => []TotalInv
    BY InvHolds, InitTotal, NextTotal, PTL DEF Spec
  <1>. QED
    BY <1>1, <1>2, <1>3, InvHolds, PTL DEF Spec, TotalNeverShrinks

=============================================================================
