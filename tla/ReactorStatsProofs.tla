-------------------------- MODULE ReactorStatsProofs --------------------------
(***************************************************************************)
(* Proofs about ReactorStats, for counters of any width, any queue bound   *)
(* and any number of frames and resets.                                    *)
(***************************************************************************)
EXTENDS ReactorStats, TLAPS

(***************************************************************************)
(* Arithmetic of the counters                                              *)
(***************************************************************************)

(* Reducing an integer gives a value of a counter; reducing one that fits  *)
(* a counter changes nothing.                                              *)
LEMMA Reduce ==
  ASSUME NEW x \in Int
  PROVE  x % Wrap \in Counter /\ (x \in Counter => x % Wrap = x)
  BY CounterAssumption DEF Counter

(* A proportional share is no more than the whole, even if the product was *)
(* reduced before the division.                                            *)
LEMMA ShareBound ==
  ASSUME NEW n \in Nat, NEW c \in Nat, NEW t \in Nat, t > 0, c <= t,
         NEW x \in Nat, x <= n * c
  PROVE  x \div t \in 0 .. n
  <1>1. n * c <= n * t
    BY SMT
  <1>2. n * t \in Nat /\ n * c \in Nat
    BY SMT
  <1>3. x <= n * t
    BY <1>1, <1>2
  <1>4. x \div t \in Nat /\ t * (x \div t) <= x
    BY SMT
  <1>5. ASSUME NEW q \in Nat, t * q <= n * t PROVE q <= n
    BY <1>5, SMT
  <1>. QED
    BY <1>2, <1>3, <1>4, <1>5

(***************************************************************************)
(* The inductive invariant                                                 *)
(***************************************************************************)

(* No counter can wrap around. *)
NoWrap == MaxFrames < Wrap

(* Every frame received is in at most one place: queued, among the         *)
(* dispatched of this or of the previous cycle, or dropped.                *)
FramesBound ==
  queued["critical"] + queued["normal"] + count["critical"] + count["normal"]
    + count_last_["critical"] + count_last_["normal"] + queue_dropped + bg_dropped
      <= received

QueueDrops == dropped["critical"] + dropped["normal"]

(* From the load of a new total to its last attribution, handle_events()   *)
(* owes the difference to the channels.                                    *)
QueueLedger ==
  rpc \in {"idle", "bg_load", "bg_store", "counts", "counts_normal"} =>
    /\ last_queue_dropped_ <= queue_dropped
    /\ pc = "diff" => last_queue_dropped_ <= current /\ current <= queue_dropped
    /\ pc = "store" => /\ current <= queue_dropped
                       /\ QueueDrops + base.queue = last_queue_dropped_
                       /\ new = current - last_queue_dropped_
    /\ pc \in {"total", "total_normal", "critical", "normal"} =>
         QueueDrops + new + base.queue = last_queue_dropped_
    /\ pc \notin {"total", "total_normal", "critical", "normal"} =>
         QueueDrops + base.queue = last_queue_dropped_

(* The same for the BACKGROUND channel. *)
BgLedger ==
  rpc \in {"idle", "counts", "counts_normal"} =>
    /\ last_bg_dropped_ <= bg_dropped
    /\ pc = "bg_diff" => last_bg_dropped_ <= current /\ current <= bg_dropped
    /\ pc = "bg_store" => /\ current <= bg_dropped
                          /\ dropped["background"] + base.bg = last_bg_dropped_
                          /\ new = current - last_bg_dropped_
    /\ pc = "bg_add" =>
         dropped["background"] + new + base.bg = last_bg_dropped_
    /\ pc # "bg_add" =>
         dropped["background"] + base.bg = last_bg_dropped_

(* The sum by which the drops are divided is that of the counts. *)
TotalLoaded ==
  /\ pc = "total_normal" => current = count_last_["critical"]
  /\ pc = "critical" => current = count_last_["critical"] + count_last_["normal"]

(* How far a reset has come. *)
BaselineSteps == {"load", "store", "bg_load", "bg_store", "counts", "counts_normal"}

ResetProgress ==
  /\ rpc \in BaselineSteps \cup {"normal", "normal_dropped", "background",
                               "background_dropped"} => dropped["critical"] = 0
  /\ rpc \in BaselineSteps \cup {"background", "background_dropped"}
       => dropped["normal"] = 0
  /\ rpc \in BaselineSteps => dropped["background"] = 0
  /\ rpc = "store" => load = base.queue /\ base.queue <= queue_dropped
  /\ rpc = "bg_store" => load = base.bg /\ base.bg <= bg_dropped

IInv == /\ TypeOK
        /\ NoWrap
        /\ ResetApart
        /\ FramesBound
        /\ TotalLoaded
        /\ QueueLedger
        /\ BgLedger
        /\ ResetProgress

(* Adding to a counter keeps the counters in their range. *)
LEMMA AddCounter ==
  ASSUME NEW f \in [Channels -> Counter], NEW c \in Channels, NEW n \in Int
  PROVE  Add(f, c, n) \in [Channels -> Counter]
  <1>1. f[c] + n \in Int
    BY CounterAssumption DEF Counter
  <1>2. (f[c] + n) % Wrap \in Counter
    BY <1>1, Reduce
  <1>. QED
    BY <1>2 DEF Add

(* The names of the channels. *)
LEMMA ChannelNames ==
  "critical" \in Channels /\ "normal" \in Channels /\ "background" \in Channels
  BY DEF Channels

(* Counters are integers, zero is one of them. *)
LEMMA CounterInt == Counter \subseteq Int /\ 0 \in Counter
  BY CounterAssumption DEF Counter

(* The share of the CRITICAL channel is an integer, and a part of what is  *)
(* to be shared if the sum is that of the counts.                          *)
LEMMA CriticalShareBound ==
  ASSUME TypeOK, NEW n \in Counter
  PROVE  /\ CriticalShare(n) \in Int
         /\ current = count_last_["critical"] + count_last_["normal"]
              => CriticalShare(n) \in 0 .. n
  <1> DEFINE c == count_last_["critical"]
             x == (n * c) % Wrap
  <1>1. /\ n \in Nat /\ c \in Nat /\ n * c \in Nat /\ current \in Nat
        /\ count_last_["normal"] \in Nat
    BY CounterAssumption DEF TypeOK, QueueChannels, Counter
  <1>2. x \in Nat /\ x <= n * c
    BY <1>1, CounterAssumption
  <1> HIDE DEF c, x
  <1>3. CriticalShare(n) = IF current = 0 THEN n ELSE x \div current
    BY DEF CriticalShare, c, x
  <1>4. CriticalShare(n) \in Int
    BY <1>1, <1>2, <1>3
  <1>5. ASSUME c <= current PROVE CriticalShare(n) \in 0 .. n
    <2>1. CASE current = 0
      BY <1>1, <1>3, <2>1
    <2>2. CASE current > 0
      BY <1>1, <1>2, <1>3, <1>5, <2>2, ShareBound
    <2>. QED
      BY <1>1, <2>1, <2>2
  <1>6. current = c + count_last_["normal"] => c <= current
    BY <1>1
  <1>. QED
    BY <1>4, <1>5, <1>6 DEF c

(* A new reactor has the types. *)
LEMMA InitType == Init => TypeOK /\ FramesBound
  <1> SUFFICES ASSUME Init PROVE TypeOK /\ FramesBound
    OBVIOUS
  <1> USE DEF Init, NoCount, QueueChannels
  <1>1. /\ 0 \in 0 .. MaxFrames /\ 0 \in 0 .. MaxResets /\ 0 \in 0 .. QueueBound
        /\ 0 \in Counter /\ 0 \in Nat
    BY CounterAssumption DEF Counter
  <1>2. base \in [queue : 0 .. MaxFrames, bg : 0 .. MaxFrames]
    BY <1>1
  <1>3. TypeOK
    BY <1>1, <1>2 DEF TypeOK
  <1>4. FramesBound
    BY DEF FramesBound
  <1>. QED
    BY <1>3, <1>4


(* Every step preserves the types, whatever overlaps. *)
LEMMA NextType == TypeOK /\ FramesBound /\ [Next]_vars => TypeOK'
  <1> SUFFICES ASSUME TypeOK /\ FramesBound, [Next]_vars PROVE TypeOK'
    OBVIOUS
  <1> USE DEF sourceVars, counterVars, baselineVars, loopVars, resetVars
  <1>t. TypeOK /\ FramesBound
    OBVIOUS
  <1>n. /\ current \in Int
        /\ last_queue_dropped_ \in Int /\ last_bg_dropped_ \in Int
    <2>1. /\ current \in Counter
          /\ last_queue_dropped_ \in Counter /\ last_bg_dropped_ \in Counter
      BY <1>t DEF TypeOK
    <2>. QED
      BY <2>1, CounterInt
  <1>1. ASSUME NEW c \in QueueChannels, Push(c) PROVE TypeOK'
    <2>1. /\ queued \in [QueueChannels -> Nat] /\ queue_dropped <= received
          /\ received + 1 \in 0 .. MaxFrames
      BY <1>1, <1>t, CounterAssumption
      DEF Push, TypeOK, FramesBound, QueueChannels
    <2>2. queue_dropped' \in 0 .. MaxFrames
      BY <1>1, <1>t, <2>1, CounterAssumption DEF Push, TypeOK
    <2>3. queued' \in [QueueChannels -> 0 .. QueueBound]
      <3>1. CASE queued["critical"] + queued["normal"] < QueueBound
        <4>1. queued[c] + 1 \in 0 .. QueueBound
          BY <1>t, <3>1, CounterAssumption DEF TypeOK, QueueChannels
        <4>. QED
          BY <1>1, <1>t, <3>1, <4>1 DEF Push, TypeOK
      <3>2. CASE ~(queued["critical"] + queued["normal"] < QueueBound)
        BY <1>1, <1>t, <3>2 DEF Push, TypeOK
      <3>. QED
        BY <3>1, <3>2
    <2>. QED
      BY <1>1, <1>t, <2>1, <2>2, <2>3 DEF Push, TypeOK
  <1>2. ASSUME Put PROVE TypeOK'
    <2>1. bg_dropped + 1 \in 0 .. MaxFrames /\ received + 1 \in 0 .. MaxFrames
      BY <1>2, <1>t, CounterAssumption DEF Put, TypeOK, FramesBound, QueueChannels
    <2>2. bg_dropped' \in 0 .. MaxFrames
      BY <1>2, <1>t, <2>1 DEF Put, TypeOK
    <2>. QED
      BY <1>2, <1>t, <2>1, <2>2 DEF Put, TypeOK
  <1>3. ASSUME LoadDropped PROVE TypeOK'
    <2>1. queue_dropped \in Int
      BY <1>t, CounterAssumption DEF TypeOK
    <2>2. queue_dropped % Wrap \in Counter
      BY <2>1, Reduce
    <2>. QED
      BY <1>3, <1>t, <2>2 DEF LoadDropped, Goto, TypeOK
  <1>4. ASSUME NewDropped PROVE TypeOK'
    <2>1. current - last_queue_dropped_ \in Int
      BY <1>n
    <2>2. new' \in Counter
      BY <1>4, <2>1, Reduce DEF NewDropped
    <2>. QED
      BY <1>4, <1>t, <2>2 DEF NewDropped, Goto, TypeOK
  <1>5. ASSUME StoreDropped PROVE TypeOK'
    BY <1>5, <1>t, CounterInt DEF StoreDropped, Goto, TypeOK
  <1>6. ASSUME AttributeCritical PROVE TypeOK'
    <2>1. CriticalShare(new) \in Int
      BY <1>t, CriticalShareBound DEF TypeOK
    <2>2. new - CriticalShare(new) \in Int
      BY <1>t, <2>1, CounterInt DEF TypeOK
    <2>3. dropped' \in [Channels -> Counter] /\ new' \in Counter
      BY <1>6, <1>t, <2>1, <2>2, AddCounter, Reduce
      DEF AttributeCritical, TypeOK, Channels
    <2>. QED
      BY <1>6, <1>t, <2>3, CounterInt DEF AttributeCritical, Goto, TypeOK
  <1>7. ASSUME AttributeNormal PROVE TypeOK'
    <2>1. dropped' \in [Channels -> Counter]
      BY <1>7, <1>t, AddCounter, CounterInt DEF AttributeNormal, TypeOK, Channels
    <2>. QED
      BY <1>7, <1>t, <2>1, CounterInt DEF AttributeNormal, Goto, TypeOK
  <1>8. ASSUME NEW c \in QueueChannels, Dispatch(c) PROVE TypeOK'
    <2>1. queued[c] - 1 \in 0 .. QueueBound /\ count[c] + 1 \in Nat
      BY <1>8, <1>t, CounterAssumption DEF Dispatch, TypeOK
    <2>. QED
      BY <1>8, <1>t, <2>1 DEF Dispatch, Goto, TypeOK
  <1>9. ASSUME DispatchEnd PROVE TypeOK'
    <2>1. ASSUME NEW c \in QueueChannels, processed' = Add(processed, c, count[c])
          PROVE  processed' \in [Channels -> Counter]
      <3>1. count[c] \in Int /\ c \in Channels
        BY <1>t DEF TypeOK, QueueChannels, Channels
      <3>. QED
        BY <1>t, <2>1, <3>1, AddCounter DEF TypeOK
    <2>2. processed' \in [Channels -> Counter]
      BY <1>9, <2>1 DEF DispatchEnd, AddProcessed, QueueChannels
    <2>. QED
      BY <1>9, <1>t, <2>2 DEF DispatchEnd, AddProcessed, Goto, TypeOK
  <1>10. ASSUME RememberCounts PROVE TypeOK'
    <2>1. ASSUME NEW c \in QueueChannels,
                 count_last_' = [count_last_ EXCEPT ![c] = count[c]],
                 count' = [count EXCEPT ![c] = 0]
          PROVE  /\ count_last_' \in [QueueChannels -> Nat]
                 /\ count' \in [QueueChannels -> Nat]
      BY <1>t, <2>1 DEF TypeOK
    <2>2. /\ count_last_' \in [QueueChannels -> Nat]
          /\ count' \in [QueueChannels -> Nat]
      BY <1>10, <2>1 DEF RememberCounts, Remember, QueueChannels
    <2>. QED
      BY <1>10, <1>t, <2>2 DEF RememberCounts, Remember, Goto, TypeOK
  <1>11. ASSUME DrainBackground PROVE TypeOK'
    <2> DEFINE n == IF has_data THEN 1 ELSE 0
    <2>1. n \in Int /\ "background" \in Channels
      BY DEF Channels
    <2>2. processed' = Add(processed, "background", n)
      BY <1>11 DEF DrainBackground
    <2> HIDE DEF n
    <2>3. processed' \in [Channels -> Counter]
      BY <1>t, <2>1, <2>2, AddCounter DEF TypeOK
    <2>. QED
      BY <1>11, <1>t, <2>3 DEF DrainBackground, Goto, TypeOK
  <1>12. ASSUME LoadBgDropped PROVE TypeOK'
    <2>1. bg_dropped \in Int
      BY <1>t, CounterAssumption DEF TypeOK
    <2>2. bg_dropped % Wrap \in Counter
      BY <2>1, Reduce
    <2>. QED
      BY <1>12, <1>t, <2>2 DEF LoadBgDropped, Goto, TypeOK
  <1>13. ASSUME NewBgDropped PROVE TypeOK'
    <2>1. current - last_bg_dropped_ \in Int
      BY <1>n
    <2>2. new' \in Counter
      BY <1>13, <2>1, Reduce DEF NewBgDropped
    <2>. QED
      BY <1>13, <1>t, <2>2 DEF NewBgDropped, Goto, TypeOK
  <1>14. ASSUME StoreBgDropped PROVE TypeOK'
    BY <1>14, <1>t, CounterInt DEF StoreBgDropped, Goto, TypeOK
  <1>15. ASSUME AddBgDropped PROVE TypeOK'
    <2>1. dropped' \in [Channels -> Counter]
      BY <1>15, <1>t, AddCounter, CounterInt DEF AddBgDropped, TypeOK, Channels
    <2>. QED
      BY <1>15, <1>t, <2>1, CounterInt DEF AddBgDropped, Goto, TypeOK
  <1>16. ASSUME WaitEnds PROVE TypeOK'
    BY <1>16, <1>t DEF WaitEnds, Goto, TypeOK
  <1>17. ASSUME ResetBegin PROVE TypeOK'
    <2>1. resets' \in 0 .. MaxResets
      BY <1>17, <1>t, CounterAssumption DEF ResetBegin, TypeOK
    <2>. QED
      BY <1>17, <1>t, <2>1 DEF ResetBegin, RGoto, TypeOK, Channels
  <1>18. ASSUME NEW c \in Channels, ResetChannel(c) PROVE TypeOK'
    <2>1. After[c] \in {"load"} \cup Channels
      BY DEF After, Channels
    <2>2. /\ processed' \in [Channels -> Counter]
          /\ dropped' \in [Channels -> Counter]
      BY <1>18, <1>t, CounterInt
      DEF ResetChannel, ResetProcessed, ResetDropped, TypeOK
    <2>3. rpc' \in {Second[d] : d \in Channels} \cup {After[c]}
      BY <1>18 DEF ResetChannel, ResetProcessed, ResetDropped, RGoto
    <2>. QED
      BY <1>18, <1>t, <2>1, <2>2, <2>3
      DEF ResetChannel, ResetProcessed, ResetDropped, TypeOK
  <1>19. ASSUME ResetLoad PROVE TypeOK'
    <2>1. queue_dropped \in Int
      BY <1>t, CounterAssumption DEF TypeOK
    <2>2. queue_dropped % Wrap \in Counter
      BY <2>1, Reduce
    <2>. QED
      BY <1>19, <1>t, <2>2 DEF ResetLoad, RGoto, TypeOK
  <1>20. ASSUME ResetStore PROVE TypeOK'
    BY <1>20, <1>t, CounterInt DEF ResetStore, RGoto, TypeOK
  <1>21. ASSUME ResetBgLoad PROVE TypeOK'
    <2>1. bg_dropped \in Int
      BY <1>t, CounterAssumption DEF TypeOK
    <2>2. bg_dropped % Wrap \in Counter
      BY <2>1, Reduce
    <2>. QED
      BY <1>21, <1>t, <2>2 DEF ResetBgLoad, RGoto, TypeOK
  <1>22. ASSUME ResetBgStore PROVE TypeOK'
    BY <1>22, <1>t, CounterInt DEF ResetBgStore, RGoto, TypeOK
  <1>23. ASSUME ResetCounts PROVE TypeOK'
    <2>1. count_last_' \in [QueueChannels -> Nat]
      BY <1>23, <1>t DEF ResetCounts, ResetCount, TypeOK
    <2>. QED
      BY <1>23, <1>t, <2>1 DEF ResetCounts, ResetCount, RGoto, TypeOK
  <1>24. CASE UNCHANGED vars
    BY <1>24, <1>t DEF vars, TypeOK
  <1>25. ASSUME LoadTotal PROVE TypeOK'
    <2>1. count_last_["critical"] \in Int /\ current + count_last_["normal"] \in Int
      BY <1>t, CounterInt DEF TypeOK, QueueChannels
    <2>2. current' \in Counter
      BY <1>25, <2>1, Reduce DEF LoadTotal
    <2>. QED
      BY <1>25, <1>t, <2>2 DEF LoadTotal, Goto, TypeOK
  <1>. QED
    BY <1>1, <1>2, <1>3, <1>4, <1>5, <1>6, <1>7, <1>8, <1>9, <1>10, <1>11,
       <1>12, <1>13, <1>14, <1>15, <1>16, <1>17, <1>18, <1>19, <1>20, <1>21,
       <1>22, <1>23, <1>24, <1>25
    DEF Next, handle_events, reset_stats

(* No step makes a frame out of nothing. *)
LEMMA NextFrames == TypeOK /\ FramesBound /\ [Next]_vars => FramesBound'
  <1> SUFFICES ASSUME TypeOK, FramesBound, [Next]_vars PROVE FramesBound'
    OBVIOUS
  <1> USE DEF sourceVars, counterVars, baselineVars, loopVars, resetVars
  <1>t. /\ queued["critical"] \in Nat /\ queued["normal"] \in Nat
        /\ count["critical"] \in Nat /\ count["normal"] \in Nat
        /\ count_last_["critical"] \in Nat /\ count_last_["normal"] \in Nat
        /\ queue_dropped \in Nat /\ bg_dropped \in Nat /\ received \in Nat
        /\ queued \in [QueueChannels -> Nat] /\ count \in [QueueChannels -> Nat]
        /\ count_last_ \in [QueueChannels -> Nat]
    BY CounterAssumption DEF TypeOK, QueueChannels
  <1>1. ASSUME NEW c \in QueueChannels, Push(c) PROVE FramesBound'
    BY <1>1, <1>t DEF Push, FramesBound, QueueChannels
  <1>2. ASSUME Put PROVE FramesBound'
    BY <1>2, <1>t DEF Put, FramesBound
  <1>3. ASSUME NEW c \in QueueChannels, Dispatch(c) PROVE FramesBound'
    BY <1>3, <1>t DEF Dispatch, FramesBound, QueueChannels
  <1>4. ASSUME RememberCounts PROVE FramesBound'
    BY <1>4, <1>t DEF RememberCounts, Remember, FramesBound, QueueChannels
  <1>5. ASSUME ResetCounts PROVE FramesBound'
    BY <1>5, <1>t DEF ResetCounts, ResetCount, FramesBound, QueueChannels
  <1>6. CASE UNCHANGED <<queued, count, queue_dropped, bg_dropped, received,
                         count_last_>>
    BY <1>6 DEF FramesBound
  <1>7. CASE handle_events
    BY <1>3, <1>4, <1>6, <1>7
    DEF handle_events, LoadDropped, NewDropped, StoreDropped, LoadTotal,
        AttributeCritical, AttributeNormal, DispatchEnd, AddProcessed,
        DrainBackground, LoadBgDropped, NewBgDropped, StoreBgDropped, AddBgDropped, WaitEnds
  <1>8. CASE reset_stats
    BY <1>5, <1>6, <1>8
    DEF reset_stats, ResetBegin, ResetChannel, ResetProcessed, ResetDropped,
        ResetLoad, ResetStore, ResetBgLoad, ResetBgStore
  <1>9. CASE UNCHANGED vars
    BY <1>6, <1>9 DEF vars
  <1>. QED
    BY <1>1, <1>2, <1>7, <1>8, <1>9 DEF Next

(* A new reactor satisfies the invariant. *)
LEMMA InitInv == Init /\ NoWrap => IInv
  <1> SUFFICES ASSUME Init, NoWrap PROVE IInv
    OBVIOUS
  <1>1. ResetApart /\ TotalLoaded /\ QueueLedger /\ BgLedger /\ ResetProgress
    BY DEF Init, Channels, ResetApart, Synchronising, TotalLoaded, QueueLedger,
           QueueDrops, BgLedger, ResetProgress, BaselineSteps
  <1>. QED
    BY <1>1, InitType DEF IInv

(* The numbers of the ledgers. *)
LEMMA LedgerTypes ==
  ASSUME IInv
  PROVE  /\ last_queue_dropped_ \in Nat /\ queue_dropped \in Nat
         /\ last_bg_dropped_ \in Nat /\ bg_dropped \in Nat
         /\ current \in Nat /\ new \in Nat /\ load \in Nat
         /\ dropped["critical"] \in Nat /\ dropped["normal"] \in Nat
         /\ dropped["background"] \in Nat
         /\ base.queue \in Nat /\ base.bg \in Nat
         /\ queue_dropped < Wrap /\ bg_dropped < Wrap
         /\ count_last_["critical"] \in Nat /\ count_last_["normal"] \in Nat
         /\ count_last_["critical"] + count_last_["normal"] < Wrap
         /\ Wrap \in Nat /\ dropped \in [Channels -> Counter]
         /\ \A n \in Nat : n < Wrap => n % Wrap = n
  <1>1. TypeOK /\ FramesBound /\ NoWrap
    BY DEF IInv
  <1>2. Counter \subseteq Nat /\ Wrap \in Nat /\ MaxFrames \in Nat
    BY CounterAssumption DEF Counter
  <1>3. /\ dropped["critical"] \in Nat /\ dropped["normal"] \in Nat
        /\ dropped["background"] \in Nat /\ dropped \in [Channels -> Counter]
    BY <1>1, <1>2 DEF TypeOK, Channels
  <1>4. /\ queue_dropped \in Nat /\ queue_dropped < Wrap
        /\ bg_dropped \in Nat /\ bg_dropped < Wrap
        /\ base.queue \in Nat /\ base.bg \in Nat
    BY <1>1, <1>2 DEF TypeOK, NoWrap
  <1>5. /\ count_last_["critical"] \in Nat /\ count_last_["normal"] \in Nat
        /\ count_last_["critical"] + count_last_["normal"] < Wrap
    BY <1>1, <1>2, CounterAssumption DEF TypeOK, NoWrap, FramesBound, QueueChannels
  <1>6. \A n \in Nat : n < Wrap => n % Wrap = n
    BY CounterAssumption
  <1>. QED
    BY <1>1, <1>2, <1>3, <1>4, <1>5, <1>6 DEF TypeOK

(* Every step preserves the account of the queue's drops. *)
LEMMA NextQueueLedger == IInv /\ [Next]_vars => QueueLedger'
  <1> SUFFICES ASSUME IInv, [Next]_vars PROVE QueueLedger'
    OBVIOUS
  <1> USE LedgerTypes
      DEF sourceVars, counterVars, baselineVars, loopVars, resetVars
  <1>i. QueueLedger /\ TotalLoaded /\ ResetApart /\ ResetProgress
    BY DEF IInv
  <1>1. ASSUME NEW c \in QueueChannels, Push(c) PROVE QueueLedger'
    <2>1. UNCHANGED <<rpc, pc, last_queue_dropped_, current, new, dropped, base>>
      BY <1>1 DEF Push
    <2>2. queue_dropped' \in Nat /\ queue_dropped <= queue_dropped'
      BY <1>1 DEF Push
    <2>. QED
      BY <1>i, <2>1, <2>2 DEF QueueLedger, QueueDrops
  <1>2. ASSUME LoadDropped PROVE QueueLedger'
    BY <1>2, <1>i DEF LoadDropped, Goto, QueueLedger, QueueDrops
  <1>3. ASSUME NewDropped PROVE QueueLedger'
    <2>1. rpc = "idle" /\ last_queue_dropped_ <= current /\ current < Wrap
      BY <1>3, <1>i DEF NewDropped, Goto, QueueLedger, ResetApart, Synchronising
    <2>2. new' = current - last_queue_dropped_
      BY <1>3, <2>1 DEF NewDropped
    <2>. QED
      BY <1>3, <1>i, <2>2 DEF NewDropped, Goto, QueueLedger, QueueDrops
  <1>4. ASSUME StoreDropped PROVE QueueLedger'
    BY <1>4, <1>i DEF StoreDropped, Goto, QueueLedger, QueueDrops
  <1>5. ASSUME AttributeCritical PROVE QueueLedger'
    <2> DEFINE share == CriticalShare(new)
    <2>1. rpc = "idle" /\ pc = "critical" /\ pc' = "normal"
      BY <1>5, <1>i DEF AttributeCritical, Goto, ResetApart, Synchronising
    <2>2. /\ QueueDrops + new + base.queue = last_queue_dropped_
          /\ last_queue_dropped_ <= queue_dropped
      BY <1>i, <2>1 DEF QueueLedger
    <2>3. share \in 0 .. new
      BY <1>i, <2>1, CriticalShareBound DEF IInv, TypeOK, TotalLoaded
    <2>4. /\ dropped' = Add(dropped, "critical", share)
          /\ new' = (new - share) % Wrap
          /\ UNCHANGED <<rpc, last_queue_dropped_, queue_dropped, base>>
      BY <1>5 DEF AttributeCritical
    <2> HIDE DEF share
    <2>5. dropped["critical"] + share < Wrap /\ new - share < Wrap
      BY <2>2, <2>3 DEF QueueDrops
    <2>6. new' = new - share
      BY <2>3, <2>4, <2>5
    <2>7. /\ dropped'["critical"] = (dropped["critical"] + share) % Wrap
          /\ dropped'["normal"] = dropped["normal"]
      BY <2>4, ChannelNames DEF Add
    <2>8. dropped'["critical"] = dropped["critical"] + share
      BY <2>3, <2>5, <2>7
    <2>9. (QueueDrops + new + base.queue)' = last_queue_dropped_
      BY <2>2, <2>3, <2>4, <2>6, <2>7, <2>8 DEF QueueDrops
    <2>. QED
      BY <2>1, <2>2, <2>4, <2>9 DEF QueueLedger
  <1>6. ASSUME AttributeNormal PROVE QueueLedger'
    <2>1. rpc = "idle" /\ pc = "normal" /\ pc' = "drain"
      BY <1>6, <1>i DEF AttributeNormal, Goto, ResetApart, Synchronising
    <2>2. /\ QueueDrops + new + base.queue = last_queue_dropped_
          /\ last_queue_dropped_ <= queue_dropped
      BY <1>i, <2>1 DEF QueueLedger
    <2>3. /\ dropped' = Add(dropped, "normal", new)
          /\ UNCHANGED <<rpc, last_queue_dropped_, queue_dropped, base>>
      BY <1>6 DEF AttributeNormal
    <2>4. dropped["normal"] + new < Wrap
      BY <2>2 DEF QueueDrops
    <2>5. /\ dropped'["normal"] = (dropped["normal"] + new) % Wrap
          /\ dropped'["critical"] = dropped["critical"]
      BY <2>3, ChannelNames DEF Add
    <2>6. dropped'["normal"] = dropped["normal"] + new
      BY <2>4, <2>5
    <2>7. (QueueDrops + base.queue)' = last_queue_dropped_
      BY <2>2, <2>3, <2>5, <2>6 DEF QueueDrops
    <2>. QED
      BY <2>1, <2>2, <2>3, <2>7 DEF QueueLedger
  <1>7. ASSUME AddBgDropped PROVE QueueLedger'
    <2>1. /\ dropped'["critical"] = dropped["critical"]
          /\ dropped'["normal"] = dropped["normal"]
      BY <1>7, ChannelNames DEF AddBgDropped, Add
    <2>. QED
      BY <1>7, <1>i, <2>1 DEF AddBgDropped, Goto, QueueLedger, QueueDrops
  <1>8. ASSUME ResetStore PROVE QueueLedger'
    BY <1>8, <1>i
    DEF ResetStore, RGoto, QueueLedger, QueueDrops, ResetApart, Synchronising,
        ResetProgress, BaselineSteps
  <1>9. ASSUME ResetBegin \/ (\E c \in Channels : ResetChannel(c)) \/ ResetLoad
        PROVE  QueueLedger'
    <2>1. rpc' \notin {"idle", "bg_load", "bg_store", "counts", "counts_normal"}
      BY <1>9
      DEF ResetBegin, ResetChannel, ResetProcessed, ResetDropped, ResetLoad, RGoto,
          Channels, Second, After
    <2>. QED
      BY <2>1 DEF QueueLedger
  <1>10. ASSUME ResetBgLoad PROVE QueueLedger'
    <2>1. base'.queue = base.queue
      BY <1>10 DEF ResetBgLoad, IInv, TypeOK
    <2>. QED
      BY <1>10, <1>i, <2>1 DEF ResetBgLoad, RGoto, QueueLedger, QueueDrops
  <1>11. ASSUME ResetBgStore \/ ResetCounts PROVE QueueLedger'
    BY <1>11, <1>i
    DEF ResetBgStore, ResetCounts, ResetCount, RGoto, QueueLedger, QueueDrops
  <1>12. ASSUME UNCHANGED <<rpc, last_queue_dropped_, queue_dropped, dropped, base>>,
                {pc, pc'} \cap {"sync", "diff", "store", "total", "total_normal",
                               "critical", "normal"} = {}
         PROVE  QueueLedger'
    BY <1>12, <1>i DEF QueueLedger, QueueDrops
  <1>13. ASSUME WaitEnds PROVE QueueLedger'
    BY <1>13, <1>i DEF WaitEnds, Goto, QueueLedger, QueueDrops
  <1>17. ASSUME LoadTotal PROVE QueueLedger'
    BY <1>17, <1>i DEF LoadTotal, Goto, QueueLedger, QueueDrops
  <1>14. CASE handle_events
    <2>1. CASE \/ \E c \in QueueChannels : Dispatch(c)
               \/ DispatchEnd \/ RememberCounts \/ DrainBackground
               \/ LoadBgDropped \/ NewBgDropped \/ StoreBgDropped
      <3>1. UNCHANGED <<rpc, last_queue_dropped_, queue_dropped, dropped, base>>
        BY <2>1
        DEF Dispatch, DispatchEnd, AddProcessed, RememberCounts, Remember, DrainBackground,
            LoadBgDropped, NewBgDropped, StoreBgDropped
      <3>2. {pc, pc'} \cap {"sync", "diff", "store", "total", "total_normal",
                            "critical", "normal"} = {}
        BY <2>1
        DEF Dispatch, DispatchEnd, AddProcessed, RememberCounts, Remember, DrainBackground,
            LoadBgDropped, NewBgDropped, StoreBgDropped, Goto
      <3>. QED
        BY <1>12, <3>1, <3>2
    <2>. QED
      BY <1>2, <1>3, <1>4, <1>5, <1>6, <1>7, <1>13, <1>14, <1>17, <2>1
      DEF handle_events
  <1>15. CASE reset_stats
    BY <1>8, <1>9, <1>10, <1>11, <1>15 DEF reset_stats
  <1>16. CASE Put \/ UNCHANGED vars
    <2>1. UNCHANGED <<rpc, pc, last_queue_dropped_, queue_dropped, current, new,
                      dropped, base>>
      BY <1>16 DEF Put, vars
    <2>. QED
      BY <1>i, <2>1 DEF QueueLedger, QueueDrops
  <1>. QED
    BY <1>1, <1>14, <1>15, <1>16 DEF Next

(* Every step preserves the account of the BACKGROUND drops. *)
LEMMA NextBgLedger == IInv /\ [Next]_vars => BgLedger'
  <1> SUFFICES ASSUME IInv, [Next]_vars PROVE BgLedger'
    OBVIOUS
  <1> USE LedgerTypes
      DEF sourceVars, counterVars, baselineVars, loopVars, resetVars
  <1>i. BgLedger /\ ResetApart /\ ResetProgress
    BY DEF IInv
  <1>1. ASSUME Put PROVE BgLedger'
    <2>1. UNCHANGED <<rpc, pc, last_bg_dropped_, current, new, dropped, base>>
      BY <1>1 DEF Put
    <2>2. bg_dropped' \in Nat /\ bg_dropped <= bg_dropped'
      BY <1>1 DEF Put
    <2>. QED
      BY <1>i, <2>1, <2>2 DEF BgLedger
  <1>2. ASSUME LoadBgDropped PROVE BgLedger'
    BY <1>2, <1>i DEF LoadBgDropped, Goto, BgLedger
  <1>3. ASSUME NewBgDropped PROVE BgLedger'
    <2>1. rpc = "idle" /\ last_bg_dropped_ <= current /\ current < Wrap
      BY <1>3, <1>i DEF NewBgDropped, Goto, BgLedger, ResetApart, Synchronising
    <2>2. new' = current - last_bg_dropped_
      BY <1>3, <2>1 DEF NewBgDropped
    <2>. QED
      BY <1>3, <1>i, <2>2 DEF NewBgDropped, Goto, BgLedger
  <1>4. ASSUME StoreBgDropped PROVE BgLedger'
    BY <1>4, <1>i DEF StoreBgDropped, Goto, BgLedger
  <1>5. ASSUME AddBgDropped PROVE BgLedger'
    <2>1. rpc = "idle" /\ pc = "bg_add" /\ pc' = "wait"
      BY <1>5, <1>i DEF AddBgDropped, Goto, ResetApart, Synchronising
    <2>2. /\ dropped["background"] + new + base.bg = last_bg_dropped_
          /\ last_bg_dropped_ <= bg_dropped
      BY <1>i, <2>1 DEF BgLedger
    <2>3. /\ dropped' = Add(dropped, "background", new)
          /\ UNCHANGED <<rpc, last_bg_dropped_, bg_dropped, base>>
      BY <1>5 DEF AddBgDropped
    <2>4. dropped["background"] + new < Wrap
      BY <2>2
    <2>5. dropped'["background"] = (dropped["background"] + new) % Wrap
      BY <2>3, ChannelNames DEF Add
    <2>6. dropped'["background"] = dropped["background"] + new
      BY <2>4, <2>5
    <2>. QED
      BY <2>1, <2>2, <2>3, <2>6 DEF BgLedger
  <1>6. ASSUME ResetBgStore PROVE BgLedger'
    BY <1>6, <1>i
    DEF ResetBgStore, RGoto, BgLedger, ResetApart, Synchronising, ResetProgress,
        BaselineSteps
  <1>7. ASSUME ResetCounts PROVE BgLedger'
    BY <1>7, <1>i DEF ResetCounts, ResetCount, RGoto, BgLedger
  <1>8. ASSUME \/ ResetBegin \/ (\E c \in Channels : ResetChannel(c))
               \/ ResetLoad \/ ResetStore \/ ResetBgLoad
        PROVE  BgLedger'
    <2>1. rpc' \notin {"idle", "counts", "counts_normal"}
      BY <1>8
      DEF ResetBegin, ResetChannel, ResetProcessed, ResetDropped, ResetLoad,
          ResetStore, ResetBgLoad, RGoto, Channels, Second, After
    <2>. QED
      BY <2>1 DEF BgLedger
  <1>9. ASSUME UNCHANGED <<rpc, last_bg_dropped_, bg_dropped, base>>,
               dropped'["background"] = dropped["background"],
               {pc, pc'} \cap {"bg_diff", "bg_store", "bg_add"} = {}
         PROVE  BgLedger'
    BY <1>9, <1>i DEF BgLedger
  <1>10. CASE handle_events
    <2>1. CASE AttributeCritical
      <3>1. dropped'["background"] = dropped["background"]
        BY <2>1, ChannelNames DEF AttributeCritical, Add
      <3>. QED
        BY <1>9, <2>1, <3>1 DEF AttributeCritical, Goto
    <2>2. CASE AttributeNormal
      <3>1. dropped'["background"] = dropped["background"]
        BY <2>2, ChannelNames DEF AttributeNormal, Add
      <3>. QED
        BY <1>9, <2>2, <3>1 DEF AttributeNormal, Goto
    <2>3. CASE \/ LoadDropped \/ NewDropped \/ StoreDropped \/ LoadTotal
               \/ (\E c \in QueueChannels : Dispatch(c)) \/ DispatchEnd
               \/ RememberCounts \/ DrainBackground \/ WaitEnds
      <3>1. UNCHANGED <<rpc, last_bg_dropped_, bg_dropped, base, dropped>>
        BY <2>3
        DEF LoadDropped, NewDropped, StoreDropped, LoadTotal, Dispatch, DispatchEnd,
            AddProcessed, RememberCounts, Remember, DrainBackground, WaitEnds
      <3>2. {pc, pc'} \cap {"bg_diff", "bg_store", "bg_add"} = {}
        BY <2>3
        DEF LoadDropped, NewDropped, StoreDropped, LoadTotal, Dispatch, DispatchEnd,
            AddProcessed, RememberCounts, Remember, DrainBackground, WaitEnds, Goto
      <3>. QED
        BY <1>9, <3>1, <3>2
    <2>. QED
      BY <1>2, <1>3, <1>4, <1>5, <1>10, <2>1, <2>2, <2>3 DEF handle_events
  <1>11. CASE reset_stats
    BY <1>6, <1>7, <1>8, <1>11 DEF reset_stats
  <1>12. CASE (\E c \in QueueChannels : Push(c)) \/ UNCHANGED vars
    <2>1. UNCHANGED <<rpc, pc, last_bg_dropped_, bg_dropped, current, new,
                      dropped, base>>
      BY <1>12 DEF Push, vars
    <2>. QED
      BY <1>i, <2>1 DEF BgLedger
  <1>. QED
    BY <1>1, <1>10, <1>11, <1>12 DEF Next

(* Between reading the counts and dividing by their sum nothing moves them. *)
LEMMA NextTotal == IInv /\ [Next]_vars => TotalLoaded'
  <1> SUFFICES ASSUME IInv, [Next]_vars PROVE TotalLoaded'
    OBVIOUS
  <1> USE LedgerTypes
      DEF sourceVars, counterVars, baselineVars, loopVars, resetVars
  <1>i. TotalLoaded /\ ResetApart
    BY DEF IInv
  <1>1. ASSUME LoadTotal PROVE TotalLoaded'
    <2>1. CASE pc = "total"
      <3>1. pc' = "total_normal" /\ current' = count_last_["critical"] % Wrap
        BY <1>1, <2>1 DEF LoadTotal, Goto
      <3>2. count_last_["critical"] < Wrap
        OBVIOUS
      <3>. QED
        BY <1>1, <3>1, <3>2 DEF LoadTotal, TotalLoaded
    <2>2. CASE pc = "total_normal"
      <3>1. pc' = "critical" /\ current' = (current + count_last_["normal"]) % Wrap
        BY <1>1, <2>2 DEF LoadTotal, Goto
      <3>2. current = count_last_["critical"]
        BY <1>i, <2>2 DEF TotalLoaded
      <3>3. current' = count_last_["critical"] + count_last_["normal"]
        BY <3>1, <3>2
      <3>. QED
        BY <1>1, <3>1, <3>3 DEF LoadTotal, TotalLoaded
    <2>. QED
      BY <1>1, <2>1, <2>2 DEF LoadTotal, Goto
  <1>2. ASSUME handle_events, ~LoadTotal PROVE TotalLoaded'
    <2>1. pc' \notin {"total_normal", "critical"}
      BY <1>2
      DEF handle_events, LoadDropped, NewDropped, StoreDropped, AttributeCritical,
          AttributeNormal, Dispatch, DispatchEnd, AddProcessed, RememberCounts,
          Remember, DrainBackground, LoadBgDropped, NewBgDropped, StoreBgDropped,
          AddBgDropped, WaitEnds, Goto
    <2>. QED
      BY <2>1 DEF TotalLoaded
  <1>3. ASSUME UNCHANGED <<pc, current, count_last_>> PROVE TotalLoaded'
    BY <1>3, <1>i DEF TotalLoaded
  <1>4. ASSUME ResetCounts PROVE TotalLoaded'
    <2>1. pc \notin Synchronising /\ pc' = pc
      BY <1>4, <1>i DEF ResetCounts, ResetCount, RGoto, ResetApart
    <2>. QED
      BY <2>1 DEF TotalLoaded, Synchronising
  <1>5. CASE reset_stats
    BY <1>3, <1>4, <1>5
    DEF reset_stats, ResetBegin, ResetChannel, ResetProcessed, ResetDropped,
        ResetLoad, ResetStore, ResetBgLoad, ResetBgStore
  <1>6. CASE (\E c \in QueueChannels : Push(c)) \/ Put \/ UNCHANGED vars
    BY <1>3, <1>6 DEF Push, Put, vars
  <1>. QED
    BY <1>1, <1>2, <1>5, <1>6 DEF Next

(* Every step preserves what is known of a reset in progress. *)
LEMMA NextReset == IInv /\ [Next]_vars => ResetProgress'
  <1> SUFFICES ASSUME IInv, [Next]_vars PROVE ResetProgress'
    OBVIOUS
  <1> USE LedgerTypes
      DEF sourceVars, counterVars, baselineVars, loopVars, resetVars
  <1>i. ResetApart /\ ResetProgress /\ TypeOK
    BY DEF IInv
  <1>1. ASSUME (\E c \in QueueChannels : Push(c)) \/ Put \/ UNCHANGED vars
        PROVE  ResetProgress'
    <2>1. UNCHANGED <<rpc, pc, load, dropped, base>>
      BY <1>1 DEF Push, Put, vars
    <2>2. /\ queue_dropped' \in Nat /\ queue_dropped <= queue_dropped'
          /\ bg_dropped' \in Nat /\ bg_dropped <= bg_dropped'
      BY <1>1 DEF Push, Put, vars
    <2>. QED
      BY <1>i, <2>1, <2>2 DEF ResetProgress
  <1>2. CASE handle_events
    <2>1. CASE AttributeCritical \/ AttributeNormal \/ AddBgDropped
      BY <1>i, <2>1
      DEF AttributeCritical, AttributeNormal, AddBgDropped, Goto, ResetApart,
          Synchronising, ResetProgress, BaselineSteps
    <2>2. CASE ~(AttributeCritical \/ AttributeNormal \/ AddBgDropped)
      <3>1. UNCHANGED <<rpc, load, base, dropped, queue_dropped, bg_dropped>>
        BY <1>2, <2>2
        DEF handle_events, LoadDropped, NewDropped, StoreDropped, LoadTotal, Dispatch,
            DispatchEnd, AddProcessed, RememberCounts, Remember, DrainBackground, LoadBgDropped,
            NewBgDropped, StoreBgDropped, WaitEnds
      <3>. QED
        BY <1>i, <3>1 DEF ResetProgress
    <2>. QED
      BY <2>1, <2>2
  <1>3. ASSUME ResetBegin PROVE ResetProgress'
    BY <1>3, <1>i DEF ResetBegin, RGoto, ResetProgress, BaselineSteps
  <1>4. ASSUME NEW c \in Channels, ResetChannel(c)
        PROVE  ResetProgress'
    <2>1. CASE ResetProcessed(c)
      <3>1. UNCHANGED dropped /\ rpc = c /\ rpc' = Second[c]
        BY <2>1 DEF ResetProcessed, RGoto
      <3>. QED
        BY <1>i, <3>1 DEF ResetProgress, BaselineSteps, Channels, Second
    <2>2. CASE ResetDropped(c)
      <3>1. /\ dropped'[c] = 0
            /\ \A d \in Channels \ {c} : dropped'[d] = dropped[d]
            /\ rpc = Second[c] /\ rpc' = After[c]
        BY <2>2 DEF ResetDropped, RGoto
      <3>. QED
        BY <1>i, <3>1 DEF ResetProgress, BaselineSteps, Channels, Second, After
    <2>. QED
      BY <1>4, <2>1, <2>2 DEF ResetChannel
  <1>5. ASSUME ResetLoad PROVE ResetProgress'
    <2>1. load' = queue_dropped /\ base'.queue = queue_dropped
      BY <1>5, <1>i DEF ResetLoad, TypeOK
    <2>. QED
      BY <1>5, <1>i, <2>1 DEF ResetLoad, RGoto, ResetProgress, BaselineSteps
  <1>6. ASSUME ResetStore PROVE ResetProgress'
    BY <1>6, <1>i DEF ResetStore, RGoto, ResetProgress, BaselineSteps
  <1>7. ASSUME ResetBgLoad PROVE ResetProgress'
    <2>1. load' = bg_dropped /\ base'.bg = bg_dropped
      BY <1>7, <1>i DEF ResetBgLoad, TypeOK
    <2>. QED
      BY <1>7, <1>i, <2>1 DEF ResetBgLoad, RGoto, ResetProgress, BaselineSteps
  <1>8. ASSUME ResetBgStore \/ ResetCounts PROVE ResetProgress'
    BY <1>8, <1>i
    DEF ResetBgStore, ResetCounts, ResetCount, RGoto, ResetProgress, BaselineSteps
  <1>. QED
    BY <1>1, <1>2, <1>3, <1>4, <1>5, <1>6, <1>7, <1>8 DEF Next, reset_stats

(* Every step preserves the invariant, as long as no reset gets into a     *)
(* synchronisation.                                                        *)
LEMMA NextInv == IInv /\ [Next]_vars /\ ResetApart' => IInv'
  <1>1. NoWrap' = NoWrap
    BY DEF NoWrap
  <1>. QED
    BY <1>1, NextType, NextFrames, NextTotal, NextQueueLedger, NextBgLedger,
       NextReset
    DEF IInv

(* The invariant holds throughout such a behaviour. *)
LEMMA InvHolds == Spec /\ []ResetApart /\ NoWrap => []IInv
  BY InitInv, NextInv, PTL DEF Spec

(***************************************************************************)
(* Type correctness, also when resets overlap with the reactor thread and  *)
(* when counters wrap around: the queue stays within its bound and every   *)
(* counter within its width.                                               *)
(***************************************************************************)
THEOREM TypeCorrect == Spec => []TypeOK
  <1>1. TypeOK /\ FramesBound /\ [Next]_vars => (TypeOK /\ FramesBound)'
    BY NextType, NextFrames
  <1>. QED
    BY <1>1, InitType, PTL DEF Spec

(***************************************************************************)
(* While the reactor thread waits, the drops shown for the channels add up *)
(* to what the queue and the slots dropped since the last reset, whatever  *)
(* the rounding of the proportional split, provided that resets do not     *)
(* overlap a synchronisation and no counter can wrap around.               *)
(***************************************************************************)
THEOREM Accounted == Spec /\ []ResetApart /\ NoWrap => []DropsAccounted
  <1>1. IInv => DropsAccounted
    BY DEF IInv, QueueLedger, QueueDrops, BgLedger, DropsAccounted
  <1>. QED
    BY <1>1, InvHolds, PTL

(***************************************************************************)
(* Such a reset forgets exactly the drops before it: at any later step no  *)
(* channel shows one of them, and every later drop that handle_events()    *)
(* has taken over is shown.                                                *)
(***************************************************************************)
THEOREM Forgets == Spec /\ []ResetApart /\ NoWrap => []ResetForgets
  <1>1. IInv => ResetForgets
    <2> SUFFICES ASSUME IInv, rpc = "idle"
                 PROVE  /\ QueueDrops <= queue_dropped - base.queue
                        /\ dropped["background"] <= bg_dropped - base.bg
                        /\ pc \notin Synchronising =>
                             /\ QueueDrops >= last_queue_dropped_ - base.queue
                             /\ dropped["background"] >= last_bg_dropped_ - base.bg
      BY DEF ResetForgets, QueueDrops
    <2>1. QueueLedger /\ BgLedger
      BY DEF IInv
    <2>2. /\ QueueDrops + base.queue <= last_queue_dropped_
          /\ last_queue_dropped_ <= queue_dropped
          /\ pc \notin Synchronising => QueueDrops + base.queue = last_queue_dropped_
      BY <2>1, LedgerTypes DEF QueueLedger, QueueDrops, Synchronising
    <2>3. /\ dropped["background"] + base.bg <= last_bg_dropped_
          /\ last_bg_dropped_ <= bg_dropped
          /\ pc \notin Synchronising =>
               dropped["background"] + base.bg = last_bg_dropped_
      BY <2>1, LedgerTypes DEF BgLedger, Synchronising
    <2>. QED
      BY <2>2, <2>3, LedgerTypes DEF QueueDrops
  <1>. QED
    BY <1>1, InvHolds, PTL
=============================================================================
