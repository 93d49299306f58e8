------------------------------ MODULE Sessions ------------------------------
(***************************************************************************)
(* Session tracking of src/reactor.cpp: zenoh_data_callback notes when     *)
(* each robot was last heard of, get_sessions() tells the terminal UI how  *)
(* long ago that was and whether the robot counts as online.               *)
(*                                                                         *)
(* The callback reads the clock before it takes session_mutex_, and        *)
(* get_sessions() reads it after.  The callback's critical section is one  *)
(* store and hence one action; get_sessions() holds the mutex over three.  *)
(***************************************************************************)
EXTENDS Integers, Sequences

CONSTANTS RxThreads,   \* Zenoh's RX threads
          Keys,        \* keys of received samples: "robot", robot, the rest
          OnlineMs,    \* age in ms from which a robot counts as offline
          MaxTime,     \* bound: the steady clock, in ms
          MaxFrames,   \* bound: frames received in a behaviour
          Wrap,        \* number of values of uint64_t
          None

(***************************************************************************)
(* A key is the sequence of the parts between its slashes.  The callback   *)
(* looks for a slash behind "robot/": without one there is no robot.       *)
(***************************************************************************)
RobotOf(key) == IF Len(key) >= 3 THEN key[2] ELSE None

Robots == {RobotOf(k) : k \in Keys} \ {None}
Time == 0 .. MaxTime

ASSUME ClockAssumption == /\ MaxTime \in Nat /\ OnlineMs \in Nat
                          /\ MaxFrames \in Nat /\ Wrap \in Nat
                          /\ MaxTime < Wrap
ASSUME NoneAssumption == None \notin Time

VARIABLES
  clock,               \* the steady clock
  session_mutex_,      \* TRUE while get_sessions() holds it
  session_last_seen_,  \* the map: robot to time, None if absent
  rx, robot, now_ms,   \* per RX thread: step, robot and clock reading
  vpc, now,            \* get_sessions(): step and its clock reading
  sessions,            \* the list that it returned last
  heard,               \* history: times at which frames of a robot arrived
  received

rxVars == <<rx, robot, now_ms, received>>
viewVars == <<session_mutex_, vpc, now, sessions>>
vars == <<clock, session_last_seen_, heard, rxVars, viewVars>>

Init == /\ clock = 0
        /\ session_mutex_ = FALSE
        /\ session_last_seen_ = [r \in Robots |-> None]
        /\ rx = [p \in RxThreads |-> "idle"]
        /\ robot = [p \in RxThreads |-> None]
        /\ now_ms = [p \in RxThreads |-> None]
        /\ vpc = "idle"
        /\ now = 0
        /\ sessions = {}
        /\ heard = [r \in Robots |-> {}]
        /\ received = 0

Tick == /\ clock < MaxTime
        /\ clock' = clock + 1
        /\ UNCHANGED <<session_last_seen_, heard, rxVars, viewVars>>
-----------------------------------------------------------------------------
(***************************************************************************)
(* zenoh_data_callback, the part that keeps sessions.  A key without a     *)
(* robot leaves the map alone.                                             *)
(***************************************************************************)
Receive(p, key) ==
  /\ rx[p] = "idle"
  /\ received < MaxFrames
  /\ received' = received + 1
  /\ IF RobotOf(key) = None
       THEN UNCHANGED <<rx, robot, now_ms, heard>>
       ELSE /\ rx' = [rx EXCEPT ![p] = "store"]
            /\ robot' = [robot EXCEPT ![p] = RobotOf(key)]
            /\ now_ms' = [now_ms EXCEPT ![p] = clock]
            /\ heard' = [heard EXCEPT ![RobotOf(key)] = @ \cup {clock}]
  /\ UNCHANGED <<clock, session_last_seen_, viewVars>>

Store(p) == /\ rx[p] = "store"
            /\ ~session_mutex_
            /\ session_last_seen_' =
                 [session_last_seen_ EXCEPT ![robot[p]] = now_ms[p]]
            /\ rx' = [rx EXCEPT ![p] = "idle"]
            /\ robot' = [robot EXCEPT ![p] = None]
            /\ now_ms' = [now_ms EXCEPT ![p] = None]
            /\ UNCHANGED <<clock, heard, received, viewVars>>
-----------------------------------------------------------------------------
(***************************************************************************)
(* get_sessions(), called by the UI's refresh thread.                      *)
(***************************************************************************)
ViewLock_Omitted == /\ vpc = "idle"
                    /\ vpc' = "clock"
                    /\ UNCHANGED <<clock, session_mutex_, session_last_seen_,
                                   heard, now, sessions, rxVars>>

ViewLock == /\ vpc = "idle"
            /\ session_mutex_' = TRUE
            /\ vpc' = "clock"
            /\ UNCHANGED <<clock, session_last_seen_, heard, now, sessions,
                           rxVars>>

ViewClock == /\ vpc = "clock"
             /\ now' = clock
             /\ vpc' = "list"
             /\ UNCHANGED <<clock, session_mutex_, session_last_seen_, heard,
                            sessions, rxVars>>

Online_Boundary(age) == age <= OnlineMs

Online(age) == age < OnlineMs

(* last_seen_ms is unsigned: the difference wraps if it is negative. *)
Info(r) == LET age == (now - session_last_seen_[r]) % Wrap
           IN [robot_id |-> r, last_seen_ms |-> age, online |-> Online(age)]

ViewList == /\ vpc = "list"
            /\ sessions' = {Info(r) : r \in {q \in Robots :
                                              session_last_seen_[q] # None}}
            /\ session_mutex_' = FALSE
            /\ vpc' = "idle"
            /\ UNCHANGED <<clock, session_last_seen_, heard, now, rxVars>>

get_sessions == ViewLock \/ ViewClock \/ ViewList

Next == \/ Tick
        \/ \E p \in RxThreads : Store(p) \/ \E k \in Keys : Receive(p, k)
        \/ get_sessions

Spec == Init /\ [][Next]_vars
-----------------------------------------------------------------------------
(***************************************************************************)
(* Properties                                                              *)
(***************************************************************************)
SessionInfo == [robot_id : Robots, last_seen_ms : 0 .. Wrap - 1, online : BOOLEAN]

TypeOK == /\ clock \in Time
          /\ session_mutex_ \in BOOLEAN
          /\ session_mutex_ <=> vpc # "idle"
          /\ session_last_seen_ \in [Robots -> Time \cup {None}]
          /\ rx \in [RxThreads -> {"idle", "store"}]
          /\ robot \in [RxThreads -> Robots \cup {None}]
          /\ now_ms \in [RxThreads -> Time \cup {None}]
          /\ vpc \in {"idle", "clock", "list"}
          /\ now \in Time
          /\ sessions \subseteq SessionInfo
          /\ heard \in [Robots -> SUBSET Time]
          /\ received \in 0 .. MaxFrames

(***************************************************************************)
(* A robot is never shown to have been heard of before the clock started:  *)
(* since get_sessions() reads the clock with the mutex held, no store can  *)
(* put a later time into the map before the subtraction, and the unsigned  *)
(* age does not wrap.                                                      *)
(***************************************************************************)
AgeDoesNotWrap == \A s \in sessions : s.last_seen_ms <= now

(***************************************************************************)
(* A robot shown as online has sent a frame less than OnlineMs before      *)
(* get_sessions() looked at the clock, whatever order the callbacks'       *)
(* stores took effect in.                                                  *)
(***************************************************************************)
OnlineMeansHeard ==
  vpc = "idle" => \A s \in sessions :
    s.online => \E time \in heard[s.robot_id] : time <= now /\ now - time < OnlineMs
=============================================================================
