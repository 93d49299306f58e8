---------------------------- MODULE LatencyStats ----------------------------
(***************************************************************************)
(* The latency windows of DataFlowReactor (src/reactor.cpp): the reactor   *)
(* thread records the latency of every frame it dispatches, the terminal   *)
(* UI reads averages and percentiles and clears them, all under            *)
(* latency_mutex_, so that each of the three is one step.                  *)
(***************************************************************************)
EXTENDS Integers, Sequences, SequencesExt, FiniteSets, FiniteSetsExt

CONSTANTS Channels,
          LATENCY_WINDOW_SIZE,
          P95, P99,      \* the percentages of the two percentiles
          Latencies,     \* latencies that occur, in microseconds
          MaxRecords     \* bound: latencies recorded in a behaviour

ASSUME WindowAssumption == LATENCY_WINDOW_SIZE \in Nat \ {0}
ASSUME PercentAssumption == P95 \in 0 .. 100 /\ P99 \in P95 .. 100
ASSUME LatencyAssumption == Latencies \subseteq Nat /\ MaxRecords \in Nat

VARIABLES window,    \* per channel: critical_latencies_ and its two brothers
          stats,     \* per channel: what get_*_stats() returned last
          log,       \* history: all latencies of a channel since the last reset
          records    \* latencies recorded so far

vars == <<window, stats, log, records>>

NoStats == [sum |-> 0, count |-> 0, p95 |-> 0, p99 |-> 0]

Init == /\ window = [c \in Channels |-> <<>>]
        /\ stats = [c \in Channels |-> NoStats]
        /\ log = [c \in Channels |-> <<>>]
        /\ records = 0

(* pop_front() once the window is longer than it may be. *)
Trim(w) == IF Len(w) > LATENCY_WINDOW_SIZE THEN Tail(w) ELSE w

record_latency(c, latency) ==
  /\ records < MaxRecords
  /\ records' = records + 1
  /\ window' = [window EXCEPT ![c] = Trim(Append(@, latency))]
  /\ log' = [log EXCEPT ![c] = Append(@, latency)]
  /\ UNCHANGED stats

Sorted_Missing(w) == w

Sorted(w) == SortSeq(w, LAMBDA a, b : a < b)

(* Indices of C++ start at 0; the product is truncated. *)
Percentile(w, percent) ==
  Sorted(w)[Min({(Len(w) * percent) \div 100, Len(w) - 1}) + 1]

(* The average is kept as the sum and the count that it is the ratio of. *)
Summary(w) == IF w = <<>> THEN NoStats
              ELSE [sum |-> FoldSeq(+, 0, w), count |-> Len(w),
                    p95 |-> Percentile(w, P95), p99 |-> Percentile(w, P99)]

get_stats(c) == /\ stats' = [stats EXCEPT ![c] = Summary(window[c])]
                /\ UNCHANGED <<window, log, records>>

(* The last part of reset_stats(). *)
reset_stats == /\ window' = [c \in Channels |-> <<>>]
               /\ log' = [c \in Channels |-> <<>>]
               /\ UNCHANGED <<stats, records>>

Next == \/ \E c \in Channels : \/ \E latency \in Latencies : record_latency(c, latency)
                               \/ get_stats(c)
        \/ reset_stats

Spec == Init /\ [][Next]_vars
-----------------------------------------------------------------------------
(***************************************************************************)
(* Properties                                                              *)
(***************************************************************************)
(***************************************************************************)
(* Reference definitions, which mention neither windows nor sorting: the   *)
(* newest latencies of the log, and what a percentile of them is.          *)
(***************************************************************************)
Recent(c) == LET n == Len(log[c])
             IN SubSeq(log[c], Max({1, n - LATENCY_WINDOW_SIZE + 1}), n)

IsPercentile(v, percent, s) ==
  LET Positions == 1 .. Len(s)
  IN /\ v \in {s[k] : k \in Positions}
     /\ 100 * Cardinality({k \in Positions : s[k] <= v}) >= percent * Len(s)
     /\ 100 * Cardinality({k \in Positions : s[k] < v}) <= percent * Len(s)

Describes(st, s) ==
  IF s = <<>> THEN st = NoStats
  ELSE /\ st.count = Len(s)
       /\ st.sum = FoldSeq(+, 0, s)
       /\ IsPercentile(st.p95, P95, s)
       /\ IsPercentile(st.p99, P99, s)
       /\ st.p95 <= st.p99

(***************************************************************************)
(* What the terminal UI is given is about the newest LATENCY_WINDOW_SIZE   *)
(* latencies of the channel since the last reset, about all of these and   *)
(* no others, and its percentiles are percentiles.                         *)
(***************************************************************************)
StatsDescribeRecent ==
  [][\A c \in Channels : stats'[c] # stats[c] => Describes(stats'[c], Recent(c))]_vars
=============================================================================
