---------------------------- MODULE SessionsProofs ----------------------------
(***************************************************************************)
(* Proofs about Sessions, for any number of RX threads, any set of keys    *)
(* and any length of a run that fits the clock's range.                    *)
(***************************************************************************)
EXTENDS Sessions, TLAPS

(***************************************************************************)
(* The inductive invariant                                                 *)
(***************************************************************************)

(* No reading of the clock, taken by get_sessions() or by a callback, lies *)
(* ahead of the clock.                                                     *)
ClockInv == /\ now <= clock
            /\ \A r \in Robots : \A time \in heard[r] : time <= clock

(* A callback that has read the clock stores the time of a frame that its  *)
(* robot has sent, and every time in the map is one of those.              *)
SeenInv ==
  /\ \A p \in RxThreads :
       rx[p] = "store" => robot[p] \in Robots /\ now_ms[p] \in heard[robot[p]]
  /\ \A r \in Robots :
       session_last_seen_[r] # None => session_last_seen_[r] \in heard[r]

(* Once get_sessions() has read the clock, the mutex keeps later times out *)
(* of the map until the list is made.                                      *)
ListInv == vpc = "list" => \A r \in Robots :
             session_last_seen_[r] # None => session_last_seen_[r] <= now

IInv == /\ TypeOK
        /\ ClockInv
        /\ SeenInv
        /\ ListInv
        /\ AgeDoesNotWrap
        /\ OnlineMeansHeard

(* A reactor that has received nothing satisfies the invariant. *)
LEMMA InitInv == Init => IInv
  <1> SUFFICES ASSUME Init PROVE IInv
    OBVIOUS
  <1>1. TypeOK
    <2>1. 0 \in Time /\ 0 \in 0 .. MaxFrames
      BY ClockAssumption DEF Time
    <2>2. heard \in [Robots -> SUBSET Time]
      BY DEF Init
    <2>. QED
      BY <2>1, <2>2 DEF Init, TypeOK
  <1>2. ClockInv /\ SeenInv /\ ListInv /\ AgeDoesNotWrap /\ OnlineMeansHeard
    BY DEF Init, ClockInv, SeenInv, ListInv, AgeDoesNotWrap, OnlineMeansHeard
  <1>. QED
    BY <1>1, <1>2 DEF IInv

(* While get_sessions() makes its list, the unsigned age of a robot is the *)
(* time since it was last heard of.                                        *)
LEMMA AgeIsDifference ==
  ASSUME IInv, vpc = "list",
         NEW r \in Robots, session_last_seen_[r] # None
  PROVE  /\ session_last_seen_[r] \in heard[r] \cap Time
         /\ session_last_seen_[r] <= now
         /\ (now - session_last_seen_[r]) % Wrap = now - session_last_seen_[r]
         /\ now - session_last_seen_[r] \in 0 .. Wrap - 1
  <1>1. /\ session_last_seen_[r] \in heard[r] /\ session_last_seen_[r] \in Time
        /\ session_last_seen_[r] <= now /\ now \in Time
    BY DEF IInv, TypeOK, SeenInv, ListInv
  <1>2. now - session_last_seen_[r] \in 0 .. Wrap - 1
    BY <1>1, ClockAssumption DEF Time
  <1>3. ASSUME NEW n \in 0 .. Wrap - 1 PROVE n % Wrap = n
    BY <1>3, ClockAssumption
  <1>. QED
    BY <1>1, <1>2, <1>3

(* Every entry of the list that get_sessions() makes tells the truth. *)
LEMMA ListIsTrue ==
  ASSUME IInv, ViewList, NEW s \in sessions'
  PROVE  /\ s \in SessionInfo
         /\ s.last_seen_ms <= now
         /\ s.online => \E time \in heard[s.robot_id] :
                          time <= now /\ now - time < OnlineMs
  <1>1. PICK r \in Robots : session_last_seen_[r] # None /\ s = Info(r)
    BY DEF ViewList
  <1> DEFINE age == now - session_last_seen_[r]
  <1>2. /\ session_last_seen_[r] \in heard[r] \cap Time
        /\ session_last_seen_[r] <= now
        /\ age % Wrap = age /\ age \in 0 .. Wrap - 1
    BY <1>1, AgeIsDifference DEF ViewList
  <1>3. s = [robot_id |-> r, last_seen_ms |-> age, online |-> age < OnlineMs]
    BY <1>1, <1>2 DEF Info, Online
  <1>4. age <= now
    BY <1>2 DEF IInv, TypeOK, Time
  <1>5. /\ s.robot_id = r /\ s.last_seen_ms = age
        /\ s.online = (age < OnlineMs)
    BY <1>3
  <1>6. s \in SessionInfo
    BY <1>2, <1>3 DEF SessionInfo
  <1>7. s.online => session_last_seen_[r] <= now /\ age < OnlineMs
    BY <1>2, <1>5
  <1>. QED
    BY <1>2, <1>4, <1>5, <1>6, <1>7

(* Every step preserves the types. *)
LEMMA NextType == IInv /\ [Next]_vars => TypeOK'
  <1> SUFFICES ASSUME IInv, [Next]_vars PROVE TypeOK'
    OBVIOUS
  <1> USE ClockAssumption DEF TypeOK, Time, rxVars, viewVars
  <1>t. TypeOK
    BY DEF IInv
  <1>1. ASSUME Tick PROVE TypeOK'
    BY <1>1, <1>t DEF Tick
  <1>2. ASSUME NEW p \in RxThreads, NEW k \in Keys, Receive(p, k) PROVE TypeOK'
    <2>1. CASE RobotOf(k) = None
      BY <1>2, <1>t, <2>1 DEF Receive
    <2>2. CASE RobotOf(k) # None
      <3>1. RobotOf(k) \in Robots
        BY <2>2 DEF Robots
      <3>2. heard' \in [Robots -> SUBSET Time]
        BY <1>2, <1>t, <2>2, <3>1 DEF Receive
      <3>3. /\ rx' \in [RxThreads -> {"idle", "store"}]
            /\ robot' \in [RxThreads -> Robots \cup {None}]
            /\ now_ms' \in [RxThreads -> Time \cup {None}]
        BY <1>2, <1>t, <2>2, <3>1 DEF Receive
      <3>. QED
        BY <1>2, <1>t, <3>2, <3>3 DEF Receive
    <2>. QED
      BY <2>1, <2>2
  <1>3. ASSUME NEW p \in RxThreads, Store(p) PROVE TypeOK'
    <2>1. robot[p] \in Robots /\ now_ms[p] \in Time
      BY <1>3, <1>t DEF Store, IInv, SeenInv
    <2>. QED
      BY <1>3, <1>t, <2>1 DEF Store
  <1>4. ASSUME ViewLock PROVE TypeOK'
    BY <1>4, <1>t DEF ViewLock
  <1>5. ASSUME ViewClock PROVE TypeOK'
    BY <1>5, <1>t DEF ViewClock
  <1>6. ASSUME ViewList PROVE TypeOK'
    <2>1. sessions' \subseteq SessionInfo
      BY <1>6, ListIsTrue
    <2>. QED
      BY <1>6, <1>t, <2>1 DEF ViewList
  <1>7. CASE UNCHANGED vars
    BY <1>7, <1>t DEF vars
  <1>. QED
    BY <1>1, <1>2, <1>3, <1>4, <1>5, <1>6, <1>7 DEF Next, get_sessions

(* Every step preserves the invariant. *)
LEMMA NextInv == IInv /\ [Next]_vars => IInv'
  <1> SUFFICES ASSUME IInv, [Next]_vars
               PROVE  /\ ClockInv' /\ SeenInv' /\ ListInv'
                      /\ AgeDoesNotWrap' /\ OnlineMeansHeard'
    BY NextType DEF IInv
  <1> USE DEF rxVars, viewVars
  <1>t. /\ TypeOK /\ ClockInv /\ SeenInv /\ ListInv /\ AgeDoesNotWrap
        /\ OnlineMeansHeard
    BY DEF IInv
  <1>1. ASSUME Tick
        PROVE  /\ ClockInv' /\ SeenInv' /\ ListInv'
               /\ AgeDoesNotWrap' /\ OnlineMeansHeard'
    <2>1. ClockInv'
      BY <1>1, <1>t, ClockAssumption DEF Tick, ClockInv, TypeOK, Time
    <2>. QED
      BY <1>1, <1>t, <2>1
      DEF Tick, SeenInv, ListInv, AgeDoesNotWrap, OnlineMeansHeard
  <1>2. ASSUME NEW p \in RxThreads, NEW k \in Keys, Receive(p, k)
        PROVE  /\ ClockInv' /\ SeenInv' /\ ListInv'
               /\ AgeDoesNotWrap' /\ OnlineMeansHeard'
    <2>1. UNCHANGED <<clock, session_last_seen_, session_mutex_, vpc, now,
                      sessions>>
      BY <1>2 DEF Receive
    <2>2. \A r \in Robots : /\ heard[r] \subseteq heard'[r]
                            /\ heard'[r] \subseteq heard[r] \cup {clock}
      BY <1>2, <1>t DEF Receive, TypeOK
    <2>3. ClockInv'
      BY <1>t, <2>1, <2>2, ClockAssumption DEF ClockInv, TypeOK, Time
    <2>4. SeenInv'
      <3>1. \A q \in RxThreads : rx'[q] = "store" =>
              robot'[q] \in Robots /\ now_ms'[q] \in heard'[robot'[q]]
        <4>1. CASE RobotOf(k) = None
          BY <1>2, <1>t, <4>1 DEF Receive, SeenInv
        <4>2. CASE RobotOf(k) # None
          <5>1. RobotOf(k) \in Robots
            BY <4>2 DEF Robots
          <5>2. clock \in heard'[RobotOf(k)]
            BY <1>2, <1>t, <4>2, <5>1 DEF Receive, TypeOK
          <5>3. robot'[p] = RobotOf(k) /\ now_ms'[p] = clock
            BY <1>2, <1>t, <4>2 DEF Receive, TypeOK
          <5>4. \A q \in RxThreads \ {p} : /\ rx'[q] = rx[q]
                                           /\ robot'[q] = robot[q]
                                           /\ now_ms'[q] = now_ms[q]
            BY <1>2, <1>t, <4>2 DEF Receive, TypeOK
          <5>. QED
            BY <1>t, <2>2, <5>1, <5>2, <5>3, <5>4 DEF SeenInv
        <4>. QED
          BY <4>1, <4>2
      <3>. QED
        BY <1>t, <2>1, <2>2, <3>1 DEF SeenInv
    <2>5. ListInv' /\ AgeDoesNotWrap'
      BY <1>t, <2>1 DEF ListInv, AgeDoesNotWrap
    <2>6. OnlineMeansHeard'
      <3>1. \A s \in sessions : s.robot_id \in Robots
        BY <1>t DEF TypeOK, SessionInfo
      <3>. QED
        BY <1>t, <2>1, <2>2, <3>1 DEF OnlineMeansHeard
    <2>. QED
      BY <2>3, <2>4, <2>5, <2>6
  <1>3. ASSUME NEW p \in RxThreads, Store(p)
        PROVE  /\ ClockInv' /\ SeenInv' /\ ListInv'
               /\ AgeDoesNotWrap' /\ OnlineMeansHeard'
    <2>1. vpc = "idle"
      BY <1>3, <1>t DEF Store, TypeOK
    <2>2. robot[p] \in Robots /\ now_ms[p] \in heard[robot[p]]
      BY <1>3, <1>t DEF Store, SeenInv
    <2>3. SeenInv'
      BY <1>3, <1>t, <2>2 DEF Store, SeenInv, TypeOK
    <2>. QED
      BY <1>3, <1>t, <2>1, <2>3
      DEF Store, ClockInv, ListInv, AgeDoesNotWrap, OnlineMeansHeard
  <1>4. ASSUME ViewLock
        PROVE  /\ ClockInv' /\ SeenInv' /\ ListInv'
               /\ AgeDoesNotWrap' /\ OnlineMeansHeard'
    BY <1>4, <1>t
    DEF ViewLock, ClockInv, SeenInv, ListInv, AgeDoesNotWrap, OnlineMeansHeard
  <1>5. ASSUME ViewClock
        PROVE  /\ ClockInv' /\ SeenInv' /\ ListInv'
               /\ AgeDoesNotWrap' /\ OnlineMeansHeard'
    <2>1. ClockInv' /\ SeenInv' /\ OnlineMeansHeard'
      BY <1>5, <1>t
      DEF ViewClock, ClockInv, SeenInv, OnlineMeansHeard, TypeOK, Time
    <2>2. ListInv'
      BY <1>5, <1>t DEF ViewClock, ClockInv, SeenInv, ListInv
    <2>3. AgeDoesNotWrap'
      <3>1. \A s \in sessions : s.last_seen_ms \in 0 .. Wrap - 1
        BY <1>t DEF TypeOK, SessionInfo
      <3>2. now \in Int /\ clock \in Int /\ now <= clock /\ Wrap \in Int
        BY <1>t, ClockAssumption DEF TypeOK, Time, ClockInv
      <3>. QED
        BY <1>5, <1>t, <3>1, <3>2 DEF ViewClock, AgeDoesNotWrap
    <2>. QED
      BY <2>1, <2>2, <2>3
  <1>6. ASSUME ViewList
        PROVE  /\ ClockInv' /\ SeenInv' /\ ListInv'
               /\ AgeDoesNotWrap' /\ OnlineMeansHeard'
    <2>1. AgeDoesNotWrap' /\ OnlineMeansHeard'
      BY <1>6, ListIsTrue DEF ViewList, AgeDoesNotWrap, OnlineMeansHeard
    <2>. QED
      BY <1>6, <1>t, <2>1 DEF ViewList, ClockInv, SeenInv, ListInv
  <1>7. CASE UNCHANGED vars
    BY <1>7, <1>t DEF vars, ClockInv, SeenInv, ListInv, AgeDoesNotWrap,
                      OnlineMeansHeard
  <1>. QED
    BY <1>1, <1>2, <1>3, <1>4, <1>5, <1>6, <1>7 DEF Next, get_sessions

(* The invariant holds in every reachable state. *)
LEMMA InvHolds == Spec => []IInv
  BY InitInv, NextInv, PTL DEF Spec

(***************************************************************************)
(* Type correctness: the map, the readings of the clock and the list keep  *)
(* their types, and get_sessions() holds the mutex exactly while it runs.  *)
(***************************************************************************)
THEOREM TypeCorrect == Spec => []TypeOK
  <1>1. IInv => TypeOK
    BY DEF IInv
  <1>. QED
    BY <1>1, InvHolds, PTL

(***************************************************************************)
(* The unsigned age get_sessions() computes never wraps around, however    *)
(* the stores of the callbacks interleave with it.                         *)
(***************************************************************************)
THEOREM AgesTrue == Spec => []AgeDoesNotWrap
  <1>1. IInv => AgeDoesNotWrap
    BY DEF IInv
  <1>. QED
    BY <1>1, InvHolds, PTL

(***************************************************************************)
(* A robot listed as online has sent a frame less than OnlineMs before.    *)
(***************************************************************************)
THEOREM OnlineTrue == Spec => []OnlineMeansHeard
  <1>1. IInv => OnlineMeansHeard
    BY DEF IInv
  <1>. QED
    BY <1>1, InvHolds, PTL
=============================================================================
