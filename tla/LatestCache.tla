----------------------------- MODULE LatestCache -----------------------------
(***************************************************************************)
(* LatestSampleSlot and LatestSampleCache of                               *)
(* include/robot_dataflow/latest_cache.hpp.                                *)
(*                                                                         *)
(* Zenoh's RX threads look a slot up under a shared lock of map_mtx_, let  *)
(* go of the lock and then write through the pointer under the slot's own  *)
(* spin lock.  The reactor thread walks all slots with map_mtx_ shared,    *)
(* taking the newest frame of each, and afterwards sums the drop counters, *)
(* which it reads without the slots' spin locks.                           *)
(*                                                                         *)
(* A section guarded by map_mtx_ alone is one action when it is short      *)
(* (get_slot_fast, pre_allocate); drain() and get_total_dropped() hold it  *)
(* shared over many steps.  The fields of a slot are written by separate   *)
(* actions, since only the spin lock makes them change together.           *)
(***************************************************************************)
EXTENDS Integers

CONSTANTS Topics,      \* hashes of the BACKGROUND topics
          Producers,   \* Zenoh's RX threads
          MaxPut,      \* bound: frames received in a behaviour
          MaxSlots,    \* bound: slot objects ever allocated
          None         \* no frame

ASSUME BoundAssumption == MaxPut \in Nat /\ MaxSlots \in Nat
ASSUME NoneAssumption == None \notin 1 .. MaxPut
ASSUME NoneIsNoSample == \A h \in Topics, f \in 1 .. MaxPut : None # <<h, f>>

Frames == 1 .. MaxPut
Slots == 1 .. MaxSlots     \* addresses of slot objects
nullptr == 0

VARIABLES
  slots_,      \* the map: address of each topic's slot, nullptr if absent
  allocated,   \* slot objects allocated so far: addresses 1 .. allocated
  lock_, payload, put_time, has_data, drop_count,   \* the slots' fields
  pc, topic, frame, slot,    \* per producer: step, sample and its pointer
  cpc, todo, cur, got, stamp,\* reactor: step, slots left, slot being taken,
                             \* the payload and time it has taken
  taken,       \* topic and frame handed to the consumer last
  total, lastTotal,          \* sum in progress, and the last sum returned
  puts         \* frames received so far

mapVars == <<slots_, allocated>>
slotVars == <<lock_, payload, put_time, has_data, drop_count>>
producerVars == <<pc, topic, frame, slot, puts>>
consumerVars == <<cpc, todo, cur, got, stamp, taken, total, lastTotal>>
vars == <<mapVars, slotVars, producerVars, consumerVars>>

Init == /\ slots_ = [h \in Topics |-> nullptr]
        /\ allocated = 0
        /\ lock_ = [s \in Slots |-> FALSE]
        /\ payload = [s \in Slots |-> None]
        /\ put_time = [s \in Slots |-> None]
        /\ has_data = [s \in Slots |-> FALSE]
        /\ drop_count = [s \in Slots |-> 0]
        /\ pc = [p \in Producers |-> "idle"]
        /\ topic = [p \in Producers |-> None]
        /\ frame = [p \in Producers |-> None]
        /\ slot = [p \in Producers |-> nullptr]
        /\ cpc = "idle"
        /\ todo = {}
        /\ cur = None
        /\ got = None
        /\ stamp = None
        /\ taken = None
        /\ total = 0
        /\ lastTotal = 0
        /\ puts = 0

(* The reactor thread holds map_mtx_ shared, which keeps writers out. *)
MapShared == cpc \notin {"idle", "between"}
-----------------------------------------------------------------------------
(***************************************************************************)
(* pre_allocate(h): try_emplace leaves a slot that is already there alone. *)
(***************************************************************************)
Emplace(h) == /\ allocated < MaxSlots
              /\ allocated' = allocated + 1
              /\ slots_' = [slots_ EXCEPT ![h] = allocated + 1]

pre_allocate_Replaces(h) == /\ ~MapShared
                            /\ Emplace(h)
                            /\ UNCHANGED <<slotVars, producerVars, consumerVars>>

pre_allocate(h) == /\ ~MapShared
                   /\ IF slots_[h] = nullptr THEN Emplace(h)
                                             ELSE UNCHANGED mapVars
                   /\ UNCHANGED <<slotVars, producerVars, consumerVars>>
-----------------------------------------------------------------------------
(***************************************************************************)
(* The BACKGROUND branch of zenoh_data_callback, run by producer p.        *)
(***************************************************************************)
Goto(p, here, there) == pc[p] = here /\ pc' = [pc EXCEPT ![p] = there]

(* The callback returns, and its local variables are gone. *)
Forget(p) == /\ topic' = [topic EXCEPT ![p] = None]
             /\ frame' = [frame EXCEPT ![p] = None]
             /\ slot' = [slot EXCEPT ![p] = nullptr]

Receive(p) == /\ puts < MaxPut
              /\ Goto(p, "idle", "lookup")
              /\ puts' = puts + 1
              /\ frame' = [frame EXCEPT ![p] = puts + 1]
              /\ \E h \in Topics : topic' = [topic EXCEPT ![p] = h]
              /\ UNCHANGED <<slot, mapVars, slotVars, consumerVars>>

(* A topic without a slot: the frame is dropped, and not counted. *)
get_slot_fast(p) ==
  /\ \/ /\ Goto(p, "lookup", "lock")
        /\ slots_[topic[p]] # nullptr
        /\ slot' = [slot EXCEPT ![p] = slots_[topic[p]]]
        /\ UNCHANGED <<topic, frame>>
     \/ /\ Goto(p, "lookup", "idle")
        /\ slots_[topic[p]] = nullptr
        /\ Forget(p)
  /\ UNCHANGED <<puts, mapVars, slotVars, consumerVars>>

PutLock_Ignored(p) == /\ Goto(p, "lock", "count")
                      /\ lock_' = [lock_ EXCEPT ![slot[p]] = TRUE]
                      /\ UNCHANGED <<payload, put_time, has_data, drop_count,
                           topic, frame, slot, puts, mapVars, consumerVars>>

PutLock(p) == /\ Goto(p, "lock", "count")
              /\ ~lock_[slot[p]]
              /\ lock_' = [lock_ EXCEPT ![slot[p]] = TRUE]
              /\ UNCHANGED <<payload, put_time, has_data, drop_count,
                             topic, frame, slot, puts, mapVars, consumerVars>>

PutCount(p) == /\ Goto(p, "count", "assign")
               /\ drop_count' = [drop_count EXCEPT
                                   ![slot[p]] = @ + IF has_data[slot[p]] THEN 1
                                                                         ELSE 0]
               /\ UNCHANGED <<lock_, payload, put_time, has_data,
                              topic, frame, slot, puts, mapVars, consumerVars>>

PutAssign(p) == /\ Goto(p, "assign", "stamp")
                /\ payload' = [payload EXCEPT ![slot[p]] = frame[p]]
                /\ UNCHANGED <<lock_, put_time, has_data, drop_count,
                               topic, frame, slot, puts, mapVars, consumerVars>>

PutStamp(p) == /\ Goto(p, "stamp", "unlock")
               /\ put_time' = [put_time EXCEPT ![slot[p]] = frame[p]]
               /\ has_data' = [has_data EXCEPT ![slot[p]] = TRUE]
               /\ UNCHANGED <<lock_, payload, drop_count,
                              topic, frame, slot, puts, mapVars, consumerVars>>

PutUnlock(p) == /\ Goto(p, "unlock", "idle")
                /\ lock_' = [lock_ EXCEPT ![slot[p]] = FALSE]
                /\ Forget(p)
                /\ UNCHANGED <<payload, put_time, has_data, drop_count,
                               puts, mapVars, consumerVars>>

put(p) == \/ PutLock(p) \/ PutCount(p) \/ PutAssign(p)
          \/ PutStamp(p) \/ PutUnlock(p)
-----------------------------------------------------------------------------
(***************************************************************************)
(* The reactor thread: drain(), then get_total_dropped().  cur is the      *)
(* topic whose slot is being visited; unordered_map fixes no order.        *)
(***************************************************************************)
CGoto(here, there) == cpc = here /\ cpc' = there

Allocated == {h \in Topics : slots_[h] # nullptr}

DrainBegin_Nothing == /\ CGoto("idle", "visit")
                      /\ todo' = {}
                      /\ UNCHANGED <<cur, got, stamp, taken, total, lastTotal,
                                     mapVars, slotVars, producerVars>>

DrainBegin == /\ CGoto("idle", "visit")
              /\ todo' = Allocated
              /\ UNCHANGED <<cur, got, stamp, taken, total, lastTotal,
                             mapVars, slotVars, producerVars>>

TakeLock_Ignored(h) == /\ CGoto("visit", "flag")
                       /\ h \in todo
                       /\ lock_' = [lock_ EXCEPT ![slots_[h]] = TRUE]
                       /\ cur' = h
                       /\ todo' = todo \ {h}
                       /\ UNCHANGED <<payload, put_time, has_data, drop_count,
                                      got, stamp, taken, total, lastTotal,
                                      mapVars, producerVars>>

TakeLock(h) == /\ CGoto("visit", "flag")
               /\ h \in todo
               /\ ~lock_[slots_[h]]
               /\ lock_' = [lock_ EXCEPT ![slots_[h]] = TRUE]
               /\ cur' = h
               /\ todo' = todo \ {h}
               /\ UNCHANGED <<payload, put_time, has_data, drop_count, got,
                     stamp, taken, total, lastTotal, mapVars, producerVars>>

TakeFlag_KeepsFlag == /\ CGoto("flag", "move")
                      /\ has_data[slots_[cur]]
                      /\ UNCHANGED <<todo, cur, got, stamp, taken, total,
                                     lastTotal, mapVars, slotVars, producerVars>>

TakeNothing_Ignored == /\ CGoto("flag", "move")
                       /\ ~has_data[slots_[cur]]
                       /\ UNCHANGED <<todo, cur, got, stamp, taken, total,
                                      lastTotal, mapVars, slotVars, producerVars>>

(* A slot without a frame is unlocked and passed over. *)
TakeNothing == /\ CGoto("flag", "visit")
               /\ ~has_data[slots_[cur]]
               /\ lock_' = [lock_ EXCEPT ![slots_[cur]] = FALSE]
               /\ cur' = None
               /\ UNCHANGED <<payload, put_time, has_data, drop_count, todo, got,
                          stamp, taken, total, lastTotal, mapVars, producerVars>>

TakeFlag == /\ CGoto("flag", "move")
            /\ has_data[slots_[cur]]
            /\ has_data' = [has_data EXCEPT ![slots_[cur]] = FALSE]
            /\ UNCHANGED <<lock_, payload, put_time, drop_count, todo, cur, got,
                           stamp, taken, total, lastTotal, mapVars, producerVars>>

TakeMove == /\ CGoto("move", "unlock")
            /\ got' = payload[slots_[cur]]
            /\ stamp' = put_time[slots_[cur]]
            /\ payload' = [payload EXCEPT ![slots_[cur]] = None]
            /\ taken' = <<cur, payload[slots_[cur]]>>
            /\ UNCHANGED <<lock_, put_time, has_data, drop_count, todo, cur,
                           total, lastTotal, mapVars, producerVars>>

(* The consumer's callback runs, map_mtx_ still held, and returns. *)
TakeUnlock == /\ CGoto("unlock", "visit")
              /\ lock_' = [lock_ EXCEPT ![slots_[cur]] = FALSE]
              /\ cur' = None
              /\ got' = None
              /\ stamp' = None
              /\ UNCHANGED <<payload, put_time, has_data, drop_count, todo,
                             taken, total, lastTotal, mapVars, producerVars>>

DrainEnd == /\ CGoto("visit", "between")
            /\ todo = {}
            /\ UNCHANGED <<todo, cur, got, stamp, taken, total, lastTotal,
                           mapVars, slotVars, producerVars>>

drain == \/ DrainBegin \/ \E h \in Topics : TakeLock(h)
         \/ TakeNothing \/ TakeFlag \/ TakeMove \/ TakeUnlock \/ DrainEnd

TotalBegin == /\ CGoto("between", "sum")
              /\ todo' = Allocated
              /\ UNCHANGED <<cur, got, stamp, taken, total, lastTotal,
                             mapVars, slotVars, producerVars>>

TotalAdd_Consumes(h) == /\ CGoto("sum", "sum")
                        /\ h \in todo
                        /\ total' = total + drop_count[slots_[h]]
                        /\ drop_count' = [drop_count EXCEPT ![slots_[h]] = 0]
                        /\ todo' = todo \ {h}
                        /\ UNCHANGED <<lock_, payload, put_time, has_data, cur,
                             got, stamp, taken, lastTotal, mapVars, producerVars>>

TotalAdd(h) == /\ CGoto("sum", "sum")
               /\ h \in todo
               /\ total' = total + drop_count[slots_[h]]
               /\ todo' = todo \ {h}
               /\ UNCHANGED <<cur, got, stamp, taken, lastTotal,
                              mapVars, slotVars, producerVars>>

TotalEnd == /\ CGoto("sum", "idle")
            /\ todo = {}
            /\ lastTotal' = total
            /\ total' = 0
            /\ UNCHANGED <<todo, cur, got, stamp, taken,
                           mapVars, slotVars, producerVars>>

get_total_dropped == TotalBegin \/ (\E h \in Topics : TotalAdd(h)) \/ TotalEnd

Next == \/ \E h \in Topics : pre_allocate(h)
        \/ \E p \in Producers : Receive(p) \/ get_slot_fast(p) \/ put(p)
        \/ drain
        \/ get_total_dropped

Spec == Init /\ [][Next]_vars

(* Threads inside put(), drain() and get_total_dropped() keep running. *)
FairSpec == /\ Spec
            /\ \A p \in Producers : WF_vars(get_slot_fast(p) \/ put(p))
            /\ WF_vars(drain \/ get_total_dropped)
-----------------------------------------------------------------------------
(***************************************************************************)
(* Properties                                                              *)
(***************************************************************************)
Writing == {"count", "assign", "stamp", "unlock"}
Taking == {"flag", "move", "unlock"}

TypeOK == /\ slots_ \in [Topics -> Slots \cup {nullptr}]
          /\ allocated \in 0 .. MaxSlots
          /\ lock_ \in [Slots -> BOOLEAN]
          /\ payload \in [Slots -> Frames \cup {None}]
          /\ put_time \in [Slots -> Frames \cup {None}]
          /\ has_data \in [Slots -> BOOLEAN]
          /\ drop_count \in [Slots -> Nat]
          /\ pc \in [Producers -> {"idle", "lookup", "lock"} \cup Writing]
          /\ topic \in [Producers -> Topics \cup {None}]
          /\ frame \in [Producers -> Frames \cup {None}]
          /\ slot \in [Producers -> Slots \cup {nullptr}]
          /\ cpc \in {"idle", "visit", "between", "sum"} \cup Taking
          /\ todo \subseteq Topics
          /\ cur \in Topics \cup {None}
          /\ got \in Frames \cup {None}
          /\ stamp \in Frames \cup {None}
          /\ taken \in (Topics \X Frames) \cup {None}
          /\ total \in Nat
          /\ lastTotal \in Nat
          /\ puts \in 0 .. MaxPut

(***************************************************************************)
(* A pointer that get_slot_fast() returned is used after map_mtx_ has been *)
(* released.  It still is the slot of that topic: pre_allocate() never     *)
(* replaces a slot, so no frame is put into one that drain() cannot see.   *)
(***************************************************************************)
SlotPointersStable ==
  \A p \in Producers : slot[p] # nullptr => slots_[topic[p]] = slot[p]

(***************************************************************************)
(* The fields of a slot are never touched by two threads at once, which is *)
(* what the spin lock of put() and take() is for.                          *)
(***************************************************************************)
SlotExclusive ==
  /\ \A p, q \in Producers : p # q /\ pc[p] \in Writing /\ pc[q] \in Writing
                               => slot[p] # slot[q]
  /\ \A p \in Producers : pc[p] \in Writing /\ cpc \in Taking
                               => slot[p] # slots_[cur]

(***************************************************************************)
(* What take() hands over comes from a single put(): the payload and the   *)
(* time stamp that the latency is computed from belong together.           *)
(***************************************************************************)
NoTornFrame == got = stamp

(***************************************************************************)
(* The drop counters are summed slot by slot while put() increments them.  *)
(* Still no sum is below one the same thread got before: the difference of *)
(* the successive sums of handle_events(), which is unsigned, never wraps  *)
(* around on their account.  (reset_stats() sums on another thread and     *)
(* moves the baseline: ReactorStats.)                                      *)
(***************************************************************************)
TotalNeverShrinks == [][cpc = "sum" /\ cpc' = "idle" => lastTotal' >= lastTotal]_vars

(***************************************************************************)
(* Linearizability.  A put takes effect when it assigns the payload, a     *)
(* take when it moves the payload out; both hold the slot's lock then.     *)
(***************************************************************************)
At(h, step) == \E p \in Producers : pc[p] = step /\ slot[p] = slots_[h]

Holds(h) == /\ slots_[h] # nullptr
            /\ \/ has_data[slots_[h]]
               \/ At(h, "stamp")
               \/ cpc = "move" /\ cur = h

Cell(h) == IF Holds(h) THEN payload[slots_[h]] ELSE None

(* put() counts the frame it displaces one step before it displaces it. *)
Overwritten(h) ==
  IF slots_[h] = nullptr THEN 0
  ELSE drop_count[slots_[h]]
         - IF At(h, "assign") /\ has_data[slots_[h]] THEN 1 ELSE 0

Pending(p) == IF pc[p] \in {"lock", "count", "assign"} THEN <<topic[p], frame[p]>>
                                                       ELSE None

Register == INSTANCE LatestRegister WITH
  cell <- [h \in Topics |-> Cell(h)],
  overwritten <- [h \in Topics |-> Overwritten(h)],
  pending <- [p \in Producers |-> Pending(p)]

(* The cache implements the latest-value register: what is taken is the    *)
(* frame put last, once, and drop_count counts exactly the frames that a   *)
(* newer one displaced before they were taken.                             *)
ImplementsRegister == Register!Spec

(***************************************************************************)
(* When traffic pauses, the newest frame of every topic reaches the        *)
(* consumer: a frame that waits in a slot is taken or overwritten.         *)
(***************************************************************************)
NewestIsTaken ==
  \A s \in Slots, f \in Frames :
    (has_data[s] /\ payload[s] = f) ~> ~(has_data[s] /\ payload[s] = f)
=============================================================================
