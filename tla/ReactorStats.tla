---------------------------- MODULE ReactorStats ----------------------------
(***************************************************************************)
(* The counters of DataFlowReactor: how handle_events() turns the totals   *)
(* kept by the MPSC queue and the latest-only slots into per-channel       *)
(* counts, and how reset_stats(), called from the TUI thread, sets them    *)
(* back.                                                                   *)
(*                                                                         *)
(* The baselines last_queue_dropped_ and last_bg_dropped_ and the counts   *)
(* of the previous cycle are plain integers that both threads access.      *)
(* Every load, store or addition of a counter or baseline is a step of its *)
(* own (a drained slot alone is emptied and counted at once).  Aligned     *)
(* 64-bit accesses are not torn on the targets of the build.  Arithmetic   *)
(* is modulo Wrap, 2^64 in the code.                                       *)
(***************************************************************************)
EXTENDS Integers

CONSTANTS Wrap,         \* one more than the largest value of a counter
          QueueBound,   \* frames the MPSC queue holds
          MaxFrames,    \* bound: frames received in a behaviour
          MaxResets     \* bound: calls of reset_stats()

ASSUME CounterAssumption == /\ Wrap \in Nat \ {0}
                            /\ QueueBound \in Nat /\ MaxFrames \in Nat
                            /\ MaxResets \in Nat

VARIABLES
  queued,          \* CRITICAL and NORMAL frames in the MPSC queue
  queue_dropped,   \* critical_queue_.dropped_count(), not reduced
  has_data,        \* the BACKGROUND slot holds a frame
  bg_dropped,      \* background_cache_.get_total_dropped(), not reduced
  dropped,         \* critical_dropped_, normal_dropped_, background_dropped_
  processed,       \* critical_processed_ and its two companions
  last_queue_dropped_, last_bg_dropped_,
  count_last_,     \* critical_count_last_, normal_count_last_
  pc, current, new, count,   \* handle_events(): step and local variables
  rpc, load,       \* reset_stats(): step, and the value it is about to store
  base,            \* history: the drop totals at the last reset
  received, resets

Channels == {"critical", "normal", "background"}
QueueChannels == {"critical", "normal"}

sourceVars == <<queued, queue_dropped, has_data, bg_dropped, received>>
counterVars == <<dropped, processed>>
baselineVars == <<last_queue_dropped_, last_bg_dropped_, count_last_>>
loopVars == <<pc, current, new, count>>
resetVars == <<rpc, load, base, resets>>
vars == <<sourceVars, counterVars, baselineVars, loopVars, resetVars>>

NoCount == [c \in QueueChannels |-> 0]

Init == /\ queued = NoCount
        /\ queue_dropped = 0
        /\ has_data = FALSE
        /\ bg_dropped = 0
        /\ dropped = [c \in Channels |-> 0]
        /\ processed = [c \in Channels |-> 0]
        /\ last_queue_dropped_ = 0
        /\ last_bg_dropped_ = 0
        /\ count_last_ = NoCount
        /\ pc = "sync"
        /\ current = 0
        /\ new = 0
        /\ count = NoCount
        /\ rpc = "idle"
        /\ load = 0
        /\ base = [queue |-> 0, bg |-> 0]
        /\ received = 0
        /\ resets = 0
-----------------------------------------------------------------------------
(***************************************************************************)
(* RX threads: a frame enters the queue or is counted as dropped; a        *)
(* BACKGROUND frame that displaces another one counts that one.            *)
(***************************************************************************)
Push_Unbounded(c) == /\ received < MaxFrames
                     /\ received' = received + 1
                     /\ queued' = [queued EXCEPT ![c] = @ + 1]
                     /\ UNCHANGED <<queue_dropped, has_data, bg_dropped,
                             counterVars, baselineVars, loopVars, resetVars>>

Push(c) == /\ received < MaxFrames
           /\ received' = received + 1
           /\ IF queued["critical"] + queued["normal"] < QueueBound
                THEN /\ queued' = [queued EXCEPT ![c] = @ + 1]
                     /\ UNCHANGED queue_dropped
                ELSE /\ queue_dropped' = queue_dropped + 1
                     /\ UNCHANGED queued
           /\ UNCHANGED <<has_data, bg_dropped, counterVars, baselineVars,
                          loopVars, resetVars>>

Put == /\ received < MaxFrames
       /\ received' = received + 1
       /\ has_data' = TRUE
       /\ bg_dropped' = bg_dropped + IF has_data THEN 1 ELSE 0
       /\ UNCHANGED <<queued, queue_dropped, counterVars, baselineVars,
                      loopVars, resetVars>>
-----------------------------------------------------------------------------
(***************************************************************************)
(* handle_events(), executed by the reactor thread.                        *)
(***************************************************************************)
Goto(here, there) == pc = here /\ pc' = there
Add(counters, c, n) == [counters EXCEPT ![c] = (@ + n) % Wrap]

LoadDropped == /\ Goto("sync", "diff")
               /\ current' = queue_dropped % Wrap
               /\ UNCHANGED <<new, count, sourceVars, counterVars, baselineVars,
                              resetVars>>

NewDropped == /\ Goto("diff", "store")
              /\ new' = (current - last_queue_dropped_) % Wrap
              /\ UNCHANGED <<current, count, sourceVars, counterVars,
                             baselineVars, resetVars>>

StoreDropped == /\ Goto("store", "total")
                /\ last_queue_dropped_' = current
                /\ current' = 0
                /\ UNCHANGED <<new, count, last_bg_dropped_, count_last_,
                               sourceVars, counterVars, resetVars>>

(* The frames that the previous cycle dispatched; current is free to hold  *)
(* the sum.                                                                *)
LoadTotal == /\ \/ /\ Goto("total", "total_normal")
                   /\ current' = count_last_["critical"] % Wrap
                \/ /\ Goto("total_normal", "critical")
                   /\ current' = (current + count_last_["normal"]) % Wrap
             /\ UNCHANGED <<new, count, sourceVars, counterVars, baselineVars,
                            resetVars>>

(* The share of the CRITICAL channel, by these frames; all of it if there  *)
(* were none.  critical_count_last_ is read again.                         *)
CriticalShare(n) ==
  IF current = 0 THEN n
                 ELSE ((n * count_last_["critical"]) % Wrap) \div current

AttributeCritical_Whole == /\ Goto("critical", "normal")
                           /\ dropped' = Add(dropped, "critical", CriticalShare(new))
                           /\ current' = 0
                           /\ UNCHANGED <<new, count, processed, sourceVars,
                                          baselineVars, resetVars>>

(* new keeps what is left for the NORMAL channel. *)
AttributeCritical == /\ Goto("critical", "normal")
                     /\ dropped' = Add(dropped, "critical", CriticalShare(new))
                     /\ new' = (new - CriticalShare(new)) % Wrap
                     /\ current' = 0
                     /\ UNCHANGED <<count, processed, sourceVars, baselineVars,
                                    resetVars>>

AttributeNormal == /\ Goto("normal", "drain")
                   /\ dropped' = Add(dropped, "normal", new)
                   /\ new' = 0
                   /\ UNCHANGED <<current, count, processed, sourceVars,
                                  baselineVars, resetVars>>

(* pop() and the handler's callback. *)
Dispatch(c) == /\ Goto("drain", "drain")
               /\ queued[c] > 0
               /\ queued' = [queued EXCEPT ![c] = @ - 1]
               /\ count' = [count EXCEPT ![c] = @ + 1]
               /\ UNCHANGED <<queue_dropped, has_data, bg_dropped, received,
                              current, new, counterVars, baselineVars, resetVars>>

AddProcessed(c, here, there) ==
  /\ Goto(here, there)
  /\ processed' = Add(processed, c, count[c])
  /\ UNCHANGED <<dropped, current, new, count, sourceVars, baselineVars, resetVars>>

DispatchEnd == \/ queued = NoCount /\ AddProcessed("critical", "drain", "processed")
               \/ AddProcessed("normal", "processed", "remember")

Remember(c, here, there) ==
  /\ Goto(here, there)
  /\ count_last_' = [count_last_ EXCEPT ![c] = count[c]]
  /\ count' = [count EXCEPT ![c] = 0]
  /\ UNCHANGED <<last_queue_dropped_, last_bg_dropped_, current, new, sourceVars,
                 counterVars, resetVars>>

RememberCounts == \/ Remember("critical", "remember", "remember_normal")
                  \/ Remember("normal", "remember_normal", "background")

DrainBackground == /\ Goto("background", "bg_sync")
                   /\ has_data' = FALSE
                   /\ processed' = Add(processed, "background",
                                       IF has_data THEN 1 ELSE 0)
                   /\ UNCHANGED <<queued, queue_dropped, bg_dropped, received,
                                  dropped, current, new, count, baselineVars,
                                  resetVars>>

LoadBgDropped == /\ Goto("bg_sync", "bg_diff")
                 /\ current' = bg_dropped % Wrap
                 /\ UNCHANGED <<new, count, sourceVars, counterVars,
                                baselineVars, resetVars>>

NewBgDropped == /\ Goto("bg_diff", "bg_store")
                /\ new' = (current - last_bg_dropped_) % Wrap
                /\ UNCHANGED <<current, count, sourceVars, counterVars,
                               baselineVars, resetVars>>

StoreBgDropped == /\ Goto("bg_store", "bg_add")
                  /\ last_bg_dropped_' = current
                  /\ current' = 0
                  /\ UNCHANGED <<new, count, last_queue_dropped_, count_last_,
                                 sourceVars, counterVars, resetVars>>

AddBgDropped == /\ Goto("bg_add", "wait")
                /\ dropped' = Add(dropped, "background", new)
                /\ new' = 0
                /\ UNCHANGED <<current, count, processed, sourceVars,
                               baselineVars, resetVars>>

WaitEnds == /\ Goto("wait", "sync")
            /\ UNCHANGED <<current, new, count, sourceVars, counterVars,
                           baselineVars, resetVars>>

handle_events == \/ LoadDropped \/ NewDropped \/ StoreDropped
                 \/ LoadTotal \/ AttributeCritical \/ AttributeNormal
                 \/ (\E c \in QueueChannels : Dispatch(c)) \/ DispatchEnd
                 \/ RememberCounts \/ DrainBackground \/ LoadBgDropped
                 \/ NewBgDropped \/ StoreBgDropped \/ AddBgDropped \/ WaitEnds
-----------------------------------------------------------------------------
(***************************************************************************)
(* reset_stats(), executed by the TUI thread.  The six counters are set to *)
(* zero one after the other and then the baselines are moved; the latency  *)
(* windows it clears last are separate state.                              *)
(***************************************************************************)
RGoto(here, there) == rpc = here /\ rpc' = there

ResetBegin == /\ RGoto("idle", "critical")
              /\ resets < MaxResets
              /\ resets' = resets + 1
              /\ UNCHANGED <<load, base, sourceVars, counterVars, baselineVars,
                             loopVars>>

Second == [critical |-> "critical_dropped", normal |-> "normal_dropped",
           background |-> "background_dropped"]
After == [critical |-> "normal", normal |-> "background", background |-> "load"]

ResetProcessed(c) == /\ RGoto(c, Second[c])
                     /\ processed' = [processed EXCEPT ![c] = 0]
                     /\ UNCHANGED <<dropped, load, base, resets, sourceVars,
                                    baselineVars, loopVars>>

ResetDropped(c) == /\ RGoto(Second[c], After[c])
                   /\ dropped' = [dropped EXCEPT ![c] = 0]
                   /\ UNCHANGED <<processed, load, base, resets, sourceVars,
                                  baselineVars, loopVars>>

ResetChannel(c) == ResetProcessed(c) \/ ResetDropped(c)

ResetLoad == /\ RGoto("load", "store")
             /\ load' = queue_dropped % Wrap
             /\ base' = [base EXCEPT !.queue = queue_dropped]
             /\ UNCHANGED <<resets, sourceVars, counterVars, baselineVars,
                            loopVars>>

ResetStore_Zero == /\ RGoto("store", "bg_load")
                   /\ last_queue_dropped_' = 0
                   /\ load' = 0
                   /\ UNCHANGED <<base, resets, last_bg_dropped_, count_last_,
                                  sourceVars, counterVars, loopVars>>

ResetStore == /\ RGoto("store", "bg_load")
              /\ last_queue_dropped_' = load
              /\ load' = 0
              /\ UNCHANGED <<base, resets, last_bg_dropped_, count_last_,
                             sourceVars, counterVars, loopVars>>

ResetBgLoad == /\ RGoto("bg_load", "bg_store")
               /\ load' = bg_dropped % Wrap
               /\ base' = [base EXCEPT !.bg = bg_dropped]
               /\ UNCHANGED <<resets, sourceVars, counterVars, baselineVars,
                              loopVars>>

ResetBgStore == /\ RGoto("bg_store", "counts")
                /\ last_bg_dropped_' = load
                /\ load' = 0
                /\ UNCHANGED <<base, resets, last_queue_dropped_, count_last_,
                               sourceVars, counterVars, loopVars>>

ResetCount(c, here, there) ==
  /\ RGoto(here, there)
  /\ count_last_' = [count_last_ EXCEPT ![c] = 0]
  /\ UNCHANGED <<load, base, resets, last_queue_dropped_, last_bg_dropped_,
                 sourceVars, counterVars, loopVars>>

ResetCounts == \/ ResetCount("critical", "counts", "counts_normal")
               \/ ResetCount("normal", "counts_normal", "idle")

reset_stats == \/ ResetBegin \/ (\E c \in Channels : ResetChannel(c))
               \/ ResetLoad \/ ResetStore \/ ResetBgLoad \/ ResetBgStore
               \/ ResetCounts

Next == \/ \E c \in QueueChannels : Push(c)
        \/ Put
        \/ handle_events
        \/ reset_stats

Spec == Init /\ [][Next]_vars

(***************************************************************************)
(* The two places where handle_events() takes over new drops, from the     *)
(* load of a total to the last addition.  Nothing in the code keeps        *)
(* reset_stats() out of them.  ApartSpec are the behaviours in which it    *)
(* does not get there; it may overlap the rest of a cycle and the wait.    *)
(***************************************************************************)
Synchronising == {"diff", "store", "total", "total_normal", "critical", "normal",
                  "bg_diff", "bg_store", "bg_add"}

ResetApart == pc \in Synchronising => rpc = "idle"

ApartSpec == Init /\ [][Next /\ ResetApart']_vars
-----------------------------------------------------------------------------
(***************************************************************************)
(* Properties                                                              *)
(***************************************************************************)
Counter == 0 .. Wrap - 1

TypeOK == /\ queued \in [QueueChannels -> 0 .. QueueBound]
          /\ queue_dropped \in 0 .. MaxFrames
          /\ has_data \in BOOLEAN
          /\ bg_dropped \in 0 .. MaxFrames
          /\ dropped \in [Channels -> Counter]
          /\ processed \in [Channels -> Counter]
          /\ last_queue_dropped_ \in Counter
          /\ last_bg_dropped_ \in Counter
          /\ count_last_ \in [QueueChannels -> Nat]
          /\ pc \in {"sync", "diff", "store", "total", "total_normal", "critical", "normal",
                     "drain", "processed", "remember", "remember_normal", "background",
                     "bg_sync", "bg_diff", "bg_store", "bg_add", "wait"}
          /\ current \in Counter
          /\ new \in Counter
          /\ count \in [QueueChannels -> Nat]
          /\ rpc \in {"idle", "load", "store", "bg_load", "bg_store", "counts",
                      "counts_normal"} \cup Channels \cup {Second[c] : c \in Channels}
          /\ load \in Counter
          /\ base \in [queue : 0 .. MaxFrames, bg : 0 .. MaxFrames]
          /\ received \in 0 .. MaxFrames
          /\ resets \in 0 .. MaxResets

(***************************************************************************)
(* Every drop is attributed exactly once.  When the reactor thread waits,  *)
(* the drops shown for CRITICAL and NORMAL add up to what the queue        *)
(* dropped between the last reset and the last synchronisation, whatever   *)
(* the rounding of the proportional split; likewise for BACKGROUND.        *)
(***************************************************************************)
DropsAccounted ==
  pc = "wait" /\ rpc = "idle" =>
    /\ dropped["critical"] + dropped["normal"] + base.queue = last_queue_dropped_
    /\ dropped["background"] + base.bg = last_bg_dropped_

(***************************************************************************)
(* A reset that does not overlap a synchronisation forgets the drops       *)
(* before it, and no others.  At every later step no channel shows a drop  *)
(* from before the reset, and between synchronisations every drop since    *)
(* then that handle_events() has taken over is shown.                      *)
(***************************************************************************)
ResetForgets ==
  rpc = "idle" =>
    /\ dropped["critical"] + dropped["normal"] <= queue_dropped - base.queue
    /\ dropped["background"] <= bg_dropped - base.bg
    /\ pc \notin Synchronising =>
         /\ dropped["critical"] + dropped["normal"] >= last_queue_dropped_ - base.queue
         /\ dropped["background"] >= last_bg_dropped_ - base.bg

(***************************************************************************)
(* What the repository says and the code does not do.                      *)
(***************************************************************************)
(* The baselines are moved "so that counts do not jump after a reset"      *)
(* (src/reactor.cpp:406): no channel ever shows more drops than there have *)
(* been since the program started.                                         *)
NoJumpAfterReset ==
  /\ dropped["critical"] + dropped["normal"] <= queue_dropped
  /\ dropped["background"] <= bg_dropped
=============================================================================
