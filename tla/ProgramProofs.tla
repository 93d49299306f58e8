---------------------------- MODULE ProgramProofs ----------------------------
(***************************************************************************)
(* Proofs about Program, for any set of configuration files, any number of *)
(* handlers in them and any number of RX threads.                          *)
(***************************************************************************)
EXTENDS Program, SequenceTheorems, TLAPS

(***************************************************************************)
(* The inductive invariant                                                 *)
(***************************************************************************)

(* Everything the file says is in force, the rest has its defaults. *)
Whole ==
  \A s \in Section :
    config.origin[s] = IF file.path = "yes" /\ s \in file.given THEN "file"
                                                                ELSE "default"

(* main() goes on only with a configuration that was read as a whole. *)
ConfigInv ==
  /\ file \in Files
  /\ config.handlers \in Seq(Entry)
  /\ alive # {} \/ mpc \notin {"load", "exit", "gone", "terminated"} => Whole

(* What exists at each step of main(), from the first resource acquired to *)
(* the last one released.                                                  *)
AliveInv ==
  /\ mpc \notin {"exit", "gone", "terminated"} =>
       /\ "session" \in alive <=> mpc \notin {"load", "session", "d_members"}
       /\ "publisher" \in alive <=>
            mpc \notin {"load", "session", "publisher", "d_close", "d_closing",
                        "d_members"}
       /\ "ring" \in alive <=>
            mpc \notin {"load", "session", "publisher", "ring", "d_pub",
                        "d_close", "d_closing", "d_members"}
       /\ "eventfd" \in alive <=>
            mpc \notin {"load", "session", "publisher", "ring", "eventfd",
                        "d_ring", "d_pub", "d_close", "d_closing", "d_members"}
       /\ "reactor" \in alive <=>
            mpc \notin {"load", "session", "publisher", "ring", "eventfd",
                        "install"}
       /\ "tui" \in alive <=>
            mpc \in {"spawn", "tui_run", "loop", "draw", "render", "key_join",
                     "stop", "join", "tui_stop", "tui_join", "d_tui"}
       /\ g_reactor <=>
            mpc \notin {"load", "session", "publisher", "ring", "eventfd",
                        "install"}
  /\ rpc # "none" => g_reactor
  /\ LeftOpen

(* run() is under way only between its start and its join or return, the   *)
(* refresh thread only between its start and a join.                       *)
ThreadInv ==
  /\ mpc \in {"load", "session", "publisher", "ring", "eventfd", "install",
              "register", "spawn"} => rpc = "none"
  /\ rpc \notin {"none", "done"} =>
       mpc \in {"tui_run", "loop", "draw", "render", "key_join", "run", "stop",
                "join", "terminated"}
  /\ fpc # "none" =>
       mpc \in {"loop", "draw", "render", "key_join", "stop", "join", "tui_stop",
                "tui_join"}

(* A callback runs only after its subscription, and none while or after    *)
(* the reactor is destroyed.                                               *)
Declared == {"declare", "loop", "busy", "done"}
Closed == {"d_closing", "d_members", "exit", "gone"}

CallbackInv ==
  /\ subscribers \subseteq contexts_
  /\ subscribers # {} => rpc \in Declared /\ mpc \notin Closed
  /\ lvSubscribed => rpc \in Declared /\ mpc \notin Closed
  /\ \A p \in RxThreads : rx[p] # "idle" =>
       /\ ctx[p] \in contexts_
       /\ rpc \in Declared
       /\ mpc \notin Closed \ {"d_closing"}
  /\ lv # "idle" => rpc \in Declared /\ mpc \notin Closed \ {"d_closing"}

(* The index of every registered path is that of a handler of this path. *)
IndexInv ==
  /\ \A k \in 1 .. Registered : handlers_[k].path \in DOMAIN handler_index_
  /\ \A path \in DOMAIN handler_index_ :
       /\ handler_index_[path] \in 1 .. Registered
       /\ handlers_[handler_index_[path]].path = path

(* Before the first subscription every BACKGROUND handler has its slot. *)
SlotInv ==
  rpc \in Declared => \A k \in 1 .. Registered :
    handlers_[k].priority = "BACKGROUND" => handlers_[k].path \in slots

(* The fields are half refreshed only while the refresh thread has the     *)
(* mutex, and main() draws only while it has it.                           *)
PanelInv == /\ data_mutex_ = "main" <=> mpc = "render"
            /\ data_mutex_ = "refresh" <=> fpc = "read"
            /\ data = "part" => fpc = "read"

IInv == /\ TypeOK
        /\ ConfigInv
        /\ AliveInv
        /\ ThreadInv
        /\ CallbackInv
        /\ IndexInv
        /\ SlotInv
        /\ PanelInv

(* What the steps of the other threads, the callbacks and the signals      *)
(* leave alone.                                                            *)
LEMMA RunFrame ==
  run \/ handle_events =>
    UNCHANGED <<mainVars, alive, g_reactor, handlerVars, rxVars, lv, tuiVars>>
  BY DEF run, RunStart, Allocate, Declare, DeclareLiveliness, LoopEnter,
         handle_events, RunReturns, Run

(* A refresh only touches the refresh thread and what it shows. *)
LEMMA RefreshFrame ==
  RefreshThread => UNCHANGED <<mainVars, alive, g_reactor, handlerVars, runVars,
                               running_, subscribers, rxVars, lvVars,
                               tuiRunning_, panel, exitAsked>>
  BY DEF RefreshThread, RefreshCheck, refresh_data, SleepEnds, Refresh

(* A data callback only touches its own state. *)
LEMMA CallbackFrame ==
  ASSUME NEW p \in RxThreads, Receive(p) \/ zenoh_data_callback(p)
  PROVE  UNCHANGED <<mainVars, alive, g_reactor, handlerVars, runVars, running_,
                     subscribers, lvVars, tuiVars>>
  BY DEF Receive, zenoh_data_callback, Deliver, Signal, Rx

(* A lost token only touches the liveliness callback. *)
LEMMA LivelinessFrame ==
  TokenLost \/ zenoh_liveliness_callback =>
    UNCHANGED <<mainVars, alive, g_reactor, handlerVars, runVars, running_,
                subscribers, rxVars, lvSubscribed, tuiVars>>
  BY DEF TokenLost, zenoh_liveliness_callback, Lv

(* A signal only touches running_ and the UI's request to exit. *)
LEMMA SignalFrame ==
  SignalArrives \/ signal_handler =>
    UNCHANGED <<mainVars, alive, g_reactor, handlerVars, runVars, subscribers,
                rxVars, lvVars, tuiRunning_, fpc, data_mutex_, data, panel>>
  BY DEF SignalArrives, signal_handler, tuiVars

(* Threads are started and joined where main() says so. *)
LEMMA NextThread == IInv /\ [Next]_vars => ThreadInv'
  <1> SUFFICES ASSUME IInv, [Next]_vars PROVE ThreadInv'
    OBVIOUS
  <1> USE DEF mainVars, handlerVars, runVars, rxVars, lvVars, tuiVars
  <1>i. ThreadInv
    BY DEF IInv, TypeOK
  <1>1. ASSUME Load PROVE ThreadInv'
    BY <1>1, <1>i DEF Load, Main, StartUp, ThreadInv
  <1>2. ASSUME Construct PROVE ThreadInv'
    BY <1>2, <1>i DEF Construct, Acquire, Main, StartUp, ThreadInv
  <1>3. ASSUME InstallHandler PROVE ThreadInv'
    BY <1>3, <1>i DEF InstallHandler, Main, StartUp, ThreadInv
  <1>4. ASSUME register_handler PROVE ThreadInv'
    BY <1>4, <1>i DEF register_handler, Main, ThreadInv
  <1>5. ASSUME ChooseMode PROVE ThreadInv'
    BY <1>5, <1>i DEF ChooseMode, Main, ThreadInv
  <1>6. ASSUME SpawnReactor PROVE ThreadInv'
    BY <1>6, <1>i DEF SpawnReactor, Ui, Main, ThreadInv
  <1>7. ASSUME TuiRun PROVE ThreadInv'
    BY <1>7, <1>i DEF TuiRun, Ui, Main, ThreadInv
  <1>8. ASSUME RenderPanel("loop") \/ RenderPanel("draw") \/ PanelDrawn
        PROVE  ThreadInv'
    BY <1>8, <1>i DEF RenderPanel, Ui, Main, PanelDrawn, ThreadInv
  <1>9. ASSUME KeyQuit \/ LoopReturns \/ TuiJoin("key_join", "loop")
        PROVE  ThreadInv'
    BY <1>9, <1>i
    DEF KeyQuit, TuiStop, Ui, Main, LoopReturns, TuiJoin, ThreadInv
  <1>10. ASSUME Leave PROVE ThreadInv'
    BY <1>10, <1>i
    DEF Leave, Destroy, StopReactor, Ui, Main, JoinReactor, TuiStop, TuiJoin,
        Release, RunReturned, CloseBegin, Return, ThreadInv
  <1>11. ASSUME run \/ handle_events PROVE ThreadInv'
    BY <1>11, <1>i
    DEF run, RunStart, Run, Exists, Allocate, Declare, DeclareLiveliness,
        LoopEnter, handle_events, RunReturns, ThreadInv
  <1>12. ASSUME RefreshThread PROVE ThreadInv'
    BY <1>12, <1>i
    DEF RefreshThread, RefreshCheck, refresh_data, SleepEnds, Refresh,
        Exists, ThreadInv
  <1>13. ASSUME NEW p \in RxThreads, Receive(p) \/ zenoh_data_callback(p)
        PROVE  ThreadInv'
    <2>1. UNCHANGED <<mpc, rpc, fpc>>
      BY <1>13, CallbackFrame
    <2>. QED
      BY <1>i, <2>1 DEF ThreadInv
  <1>14. ASSUME TokenLost \/ zenoh_liveliness_callback PROVE ThreadInv'
    <2>1. UNCHANGED <<mpc, rpc, fpc>>
      BY <1>14, LivelinessFrame
    <2>. QED
      BY <1>i, <2>1 DEF ThreadInv
  <1>15. ASSUME SignalArrives \/ signal_handler PROVE ThreadInv'
    <2>1. UNCHANGED <<mpc, rpc, fpc>>
      BY <1>15, SignalFrame
    <2>. QED
      BY <1>i, <2>1 DEF ThreadInv
  <1>16. CASE UNCHANGED vars
    BY <1>16, <1>i DEF vars, ThreadInv
  <1>. QED
    BY <1>1, <1>2, <1>3, <1>4, <1>5, <1>6, <1>7, <1>8, <1>9, <1>10, <1>11,
       <1>12, <1>13, <1>14, <1>15, <1>16
    DEF Next, MainStep

(* Every step of main() acquires and releases what belongs to it. *)
LEMMA NextAlive == IInv /\ [Next]_vars => AliveInv'
  <1> SUFFICES ASSUME IInv, [Next]_vars PROVE AliveInv'
    OBVIOUS
  <1> USE DEF mainVars, handlerVars, runVars, rxVars, lvVars, tuiVars
  <1>i. /\ AliveInv /\ ThreadInv
        /\ alive \subseteq {"session", "publisher", "ring", "eventfd", "reactor", "tui"}
    BY DEF IInv, TypeOK
  <1>1. ASSUME Load PROVE AliveInv'
    BY <1>1, <1>i DEF Load, Main, StartUp, AliveInv, LeftOpen, ThreadInv
  <1>2. ASSUME Construct PROVE AliveInv'
    <2>1. CASE Acquire("session", "session", "publisher")
      BY <1>i, <2>1 DEF Acquire, Main, StartUp, AliveInv, LeftOpen, ThreadInv
    <2>2. CASE Acquire("publisher", "publisher", "ring")
      BY <1>i, <2>2 DEF Acquire, Main, StartUp, AliveInv, LeftOpen, ThreadInv
    <2>3. CASE Acquire("ring", "ring", "eventfd")
      BY <1>i, <2>3 DEF Acquire, Main, StartUp, AliveInv, LeftOpen, ThreadInv
    <2>4. CASE Acquire("eventfd", "eventfd", "install")
      BY <1>i, <2>4 DEF Acquire, Main, StartUp, AliveInv, LeftOpen, ThreadInv
    <2>. QED
      BY <1>2, <2>1, <2>2, <2>3, <2>4 DEF Construct
  <1>3. ASSUME InstallHandler PROVE AliveInv'
    BY <1>3, <1>i DEF InstallHandler, Main, StartUp, AliveInv, LeftOpen, ThreadInv
  <1>4. ASSUME register_handler PROVE AliveInv'
    BY <1>4, <1>i DEF register_handler, Main, AliveInv, LeftOpen, ThreadInv
  <1>5. ASSUME ChooseMode PROVE AliveInv'
    BY <1>5, <1>i DEF ChooseMode, Main, AliveInv, LeftOpen, ThreadInv
  <1>6. ASSUME SpawnReactor PROVE AliveInv'
    BY <1>6, <1>i DEF SpawnReactor, Ui, Main, AliveInv, LeftOpen, ThreadInv
  <1>7. ASSUME TuiRun PROVE AliveInv'
    BY <1>7, <1>i DEF TuiRun, Ui, Main, AliveInv, LeftOpen, ThreadInv
  <1>8. ASSUME RenderPanel("loop") \/ RenderPanel("draw") \/ PanelDrawn
        PROVE  AliveInv'
    BY <1>8, <1>i DEF RenderPanel, Ui, Main, PanelDrawn, AliveInv, LeftOpen, ThreadInv
  <1>9. ASSUME KeyQuit \/ LoopReturns \/ TuiJoin("key_join", "loop")
        PROVE  AliveInv'
    BY <1>9, <1>i
    DEF KeyQuit, TuiStop, Ui, Main, LoopReturns, TuiJoin, AliveInv, LeftOpen, ThreadInv
  <1>10. ASSUME Leave PROVE AliveInv'
    <2>1. CASE StopReactor("stop", "join")
      BY <1>i, <2>1 DEF StopReactor, Ui, Main, AliveInv, LeftOpen, ThreadInv
    <2>2. CASE JoinReactor
      BY <1>i, <2>2 DEF JoinReactor, Ui, Main, AliveInv, LeftOpen, ThreadInv
    <2>3. CASE TuiStop("tui_stop", "tui_join")
      BY <1>i, <2>3 DEF TuiStop, Ui, Main, AliveInv, LeftOpen, ThreadInv
    <2>4. CASE TuiJoin("tui_join", "d_tui")
      BY <1>i, <2>4 DEF TuiJoin, Ui, Main, AliveInv, LeftOpen, ThreadInv
    <2>5. CASE Release("tui", "d_tui", "d_stop")
      BY <1>i, <2>5 DEF Release, Ui, Main, AliveInv, LeftOpen, ThreadInv
    <2>6. CASE RunReturned
      BY <1>i, <2>6 DEF RunReturned, Ui, Main, AliveInv, LeftOpen, ThreadInv
    <2>7. CASE StopReactor("d_stop", "d_fd")
      BY <1>i, <2>7 DEF StopReactor, Ui, Main, AliveInv, LeftOpen, ThreadInv
    <2>8. CASE Release("eventfd", "d_fd", "d_ring")
      BY <1>i, <2>8 DEF Release, Ui, Main, AliveInv, LeftOpen, ThreadInv
    <2>9. CASE Release("ring", "d_ring", "d_pub")
      BY <1>i, <2>9 DEF Release, Ui, Main, AliveInv, LeftOpen, ThreadInv
    <2>10. CASE Release("publisher", "d_pub", "d_close")
      BY <1>i, <2>10 DEF Release, Ui, Main, AliveInv, LeftOpen, ThreadInv
    <2>11. CASE CloseBegin
      BY <1>i, <2>11 DEF CloseBegin, Main, AliveInv, LeftOpen, ThreadInv
    <2>12. CASE /\ \A p \in RxThreads : rx[p] = "idle"
               /\ lv = "idle"
               /\ Release("session", "d_closing", "d_members")
      BY <1>i, <2>12 DEF Release, Ui, Main, AliveInv, LeftOpen, ThreadInv
    <2>13. CASE Release("reactor", "d_members", "exit")
      BY <1>i, <2>13 DEF Release, Ui, Main, AliveInv, LeftOpen, ThreadInv
    <2>14. CASE Return
      BY <1>i, <2>14 DEF Return, Ui, Main, AliveInv, LeftOpen, ThreadInv
    <2>. QED
      BY <1>10, <2>1, <2>2, <2>3, <2>4, <2>5, <2>6, <2>7, <2>8, <2>9, <2>10,
         <2>11, <2>12, <2>13, <2>14 DEF Leave, Destroy
  <1>11. ASSUME run \/ handle_events PROVE AliveInv'
    BY <1>11, <1>i
    DEF run, RunStart, Run, Exists, Allocate, Declare, DeclareLiveliness,
        LoopEnter, handle_events, RunReturns, AliveInv, LeftOpen, ThreadInv
  <1>12. ASSUME RefreshThread PROVE AliveInv'
    <2>1. UNCHANGED <<mpc, rpc, alive, g_reactor>>
      BY <1>12, RefreshFrame
    <2>. QED
      BY <1>i, <2>1 DEF AliveInv, LeftOpen
  <1>13. ASSUME NEW p \in RxThreads, Receive(p) \/ zenoh_data_callback(p)
        PROVE  AliveInv'
    <2>1. UNCHANGED <<mpc, rpc, alive, g_reactor>>
      BY <1>13, CallbackFrame
    <2>. QED
      BY <1>i, <2>1 DEF AliveInv, LeftOpen
  <1>14. ASSUME TokenLost \/ zenoh_liveliness_callback PROVE AliveInv'
    <2>1. UNCHANGED <<mpc, rpc, alive, g_reactor>>
      BY <1>14, LivelinessFrame
    <2>. QED
      BY <1>i, <2>1 DEF AliveInv, LeftOpen
  <1>15. ASSUME SignalArrives \/ signal_handler PROVE AliveInv'
    <2>1. UNCHANGED <<mpc, rpc, alive, g_reactor>>
      BY <1>15, SignalFrame
    <2>. QED
      BY <1>i, <2>1 DEF AliveInv, LeftOpen
  <1>16. CASE UNCHANGED vars
    BY <1>16, <1>i DEF vars, AliveInv, LeftOpen, ThreadInv
  <1>. QED
    BY <1>1, <1>2, <1>3, <1>4, <1>5, <1>6, <1>7, <1>8, <1>9, <1>10, <1>11,
       <1>12, <1>13, <1>14, <1>15, <1>16
    DEF Next, MainStep

(* No callback begins before its subscription or after z_close(). *)
LEMMA NextCallback == IInv /\ [Next]_vars => CallbackInv'
  <1> SUFFICES ASSUME IInv, [Next]_vars PROVE CallbackInv'
    OBVIOUS
  <1> USE DEF mainVars, handlerVars, runVars, rxVars, lvVars, tuiVars
  <1>i. /\ CallbackInv /\ ThreadInv
        /\ rx \in [RxThreads -> {"idle", "deliver", "signal"}]
        /\ ctx \in [RxThreads -> 0 .. Registered]
    BY DEF IInv, TypeOK
  <1>1. ASSUME Load PROVE CallbackInv'
    BY <1>1, <1>i
    DEF Load, Main, StartUp, CallbackInv, ThreadInv, Declared, Closed
  <1>2. ASSUME Construct PROVE CallbackInv'
    BY <1>2, <1>i
    DEF Construct, Acquire, Main, StartUp, CallbackInv, ThreadInv, Declared,
        Closed
  <1>3. ASSUME InstallHandler PROVE CallbackInv'
    BY <1>3, <1>i
    DEF InstallHandler, Main, StartUp, CallbackInv, ThreadInv, Declared,
        Closed
  <1>4. ASSUME register_handler PROVE CallbackInv'
    BY <1>4, <1>i
    DEF register_handler, Main, CallbackInv, ThreadInv, Declared, Closed
  <1>5. ASSUME ChooseMode PROVE CallbackInv'
    BY <1>5, <1>i
    DEF ChooseMode, Main, CallbackInv, ThreadInv, Declared, Closed
  <1>6. ASSUME SpawnReactor PROVE CallbackInv'
    BY <1>6, <1>i
    DEF SpawnReactor, Ui, Main, CallbackInv, ThreadInv, Declared, Closed
  <1>7. ASSUME TuiRun PROVE CallbackInv'
    BY <1>7, <1>i
    DEF TuiRun, Ui, Main, CallbackInv, ThreadInv, Declared, Closed
  <1>8. ASSUME RenderPanel("loop") \/ RenderPanel("draw") \/ PanelDrawn
        PROVE  CallbackInv'
    BY <1>8, <1>i
    DEF RenderPanel, Ui, Main, PanelDrawn, CallbackInv, ThreadInv, Declared,
        Closed
  <1>9. ASSUME KeyQuit \/ LoopReturns \/ TuiJoin("key_join", "loop")
        PROVE  CallbackInv'
    BY <1>9, <1>i
    DEF KeyQuit, TuiStop, Ui, Main, LoopReturns, TuiJoin, CallbackInv,
        ThreadInv, Declared, Closed
  <1>10. ASSUME Leave PROVE CallbackInv'
    <2>1. CASE StopReactor("stop", "join")
      BY <1>i, <2>1
      DEF StopReactor, Ui, Main, CallbackInv, ThreadInv, Declared, Closed
    <2>2. CASE JoinReactor
      BY <1>i, <2>2
      DEF JoinReactor, Ui, Main, CallbackInv, ThreadInv, Declared, Closed
    <2>3. CASE TuiStop("tui_stop", "tui_join")
      BY <1>i, <2>3
      DEF TuiStop, Ui, Main, CallbackInv, ThreadInv, Declared, Closed
    <2>4. CASE TuiJoin("tui_join", "d_tui")
      BY <1>i, <2>4
      DEF TuiJoin, Ui, Main, CallbackInv, ThreadInv, Declared, Closed
    <2>5. CASE Release("tui", "d_tui", "d_stop")
      BY <1>i, <2>5
      DEF Release, Ui, Main, CallbackInv, ThreadInv, Declared, Closed
    <2>6. CASE RunReturned
      BY <1>i, <2>6
      DEF RunReturned, Ui, Main, CallbackInv, ThreadInv, Declared, Closed
    <2>7. CASE StopReactor("d_stop", "d_fd")
      BY <1>i, <2>7
      DEF StopReactor, Ui, Main, CallbackInv, ThreadInv, Declared, Closed
    <2>8. CASE Release("eventfd", "d_fd", "d_ring")
      BY <1>i, <2>8
      DEF Release, Ui, Main, CallbackInv, ThreadInv, Declared, Closed
    <2>9. CASE Release("ring", "d_ring", "d_pub")
      BY <1>i, <2>9
      DEF Release, Ui, Main, CallbackInv, ThreadInv, Declared, Closed
    <2>10. CASE Release("publisher", "d_pub", "d_close")
      BY <1>i, <2>10
      DEF Release, Ui, Main, CallbackInv, ThreadInv, Declared, Closed
    <2>11. CASE CloseBegin
      BY <1>i, <2>11
      DEF CloseBegin, Main, CallbackInv, ThreadInv, Declared, Closed
    <2>12. CASE /\ \A p \in RxThreads : rx[p] = "idle"
               /\ lv = "idle"
               /\ Release("session", "d_closing", "d_members")
      BY <1>i, <2>12
      DEF Release, Ui, Main, CallbackInv, ThreadInv, Declared, Closed
    <2>13. CASE Release("reactor", "d_members", "exit")
      BY <1>i, <2>13
      DEF Release, Ui, Main, CallbackInv, ThreadInv, Declared, Closed
    <2>14. CASE Return
      BY <1>i, <2>14
      DEF Return, Ui, Main, CallbackInv, ThreadInv, Declared, Closed
    <2>. QED
      BY <1>10, <2>1, <2>2, <2>3, <2>4, <2>5, <2>6, <2>7, <2>8, <2>9, <2>10,
         <2>11, <2>12, <2>13, <2>14 DEF Leave, Destroy
  <1>11. ASSUME run \/ handle_events PROVE CallbackInv'
    BY <1>11, <1>i
    DEF run, RunStart, Run, Exists, Allocate, Declare, DeclareLiveliness,
        LoopEnter, handle_events, RunReturns, CallbackInv, ThreadInv, Declared, Closed
  <1>12. ASSUME RefreshThread PROVE CallbackInv'
    <2>1. UNCHANGED <<mpc, rpc, subscribers, contexts_, lvVars, rxVars>>
      BY <1>12, RefreshFrame
    <2>. QED
      BY <1>i, <2>1 DEF CallbackInv, lvVars, rxVars
  <1>13. ASSUME NEW p \in RxThreads, Receive(p) \/ zenoh_data_callback(p)
        PROVE  CallbackInv'
    BY <1>13, <1>i
    DEF Receive, Rx, Exists, zenoh_data_callback, Deliver, Signal,
        CallbackInv, ThreadInv, Declared, Closed
  <1>14. ASSUME TokenLost \/ zenoh_liveliness_callback PROVE CallbackInv'
    BY <1>14, <1>i
    DEF TokenLost, zenoh_liveliness_callback, Lv, Exists, CallbackInv,
        ThreadInv, Declared, Closed
  <1>15. ASSUME SignalArrives \/ signal_handler PROVE CallbackInv'
    <2>1. UNCHANGED <<mpc, rpc, subscribers, contexts_, lvVars, rxVars>>
      BY <1>15, SignalFrame
    <2>. QED
      BY <1>i, <2>1 DEF CallbackInv, lvVars, rxVars
  <1>16. CASE UNCHANGED vars
    BY <1>16, <1>i DEF vars, CallbackInv, ThreadInv, Declared, Closed
  <1>. QED
    BY <1>1, <1>2, <1>3, <1>4, <1>5, <1>6, <1>7, <1>8, <1>9, <1>10, <1>11,
       <1>12, <1>13, <1>14, <1>15, <1>16
    DEF Next, MainStep

(* The mutex keeps drawing and refreshing apart. *)
LEMMA NextPanel == IInv /\ [Next]_vars => PanelInv'
  <1> SUFFICES ASSUME IInv, [Next]_vars PROVE PanelInv'
    OBVIOUS
  <1> USE DEF mainVars, handlerVars, runVars, rxVars, lvVars, tuiVars
  <1>i. PanelInv /\ ThreadInv
    BY DEF IInv, TypeOK
  <1>1. ASSUME Load PROVE PanelInv'
    BY <1>1, <1>i DEF Load, Main, StartUp, PanelInv, ThreadInv
  <1>2. ASSUME Construct PROVE PanelInv'
    BY <1>2, <1>i DEF Construct, Acquire, Main, StartUp, PanelInv, ThreadInv
  <1>3. ASSUME InstallHandler PROVE PanelInv'
    BY <1>3, <1>i DEF InstallHandler, Main, StartUp, PanelInv, ThreadInv
  <1>4. ASSUME register_handler PROVE PanelInv'
    BY <1>4, <1>i DEF register_handler, Main, PanelInv, ThreadInv
  <1>5. ASSUME ChooseMode PROVE PanelInv'
    BY <1>5, <1>i DEF ChooseMode, Main, PanelInv, ThreadInv
  <1>6. ASSUME SpawnReactor PROVE PanelInv'
    BY <1>6, <1>i DEF SpawnReactor, Ui, Main, PanelInv, ThreadInv
  <1>7. ASSUME TuiRun PROVE PanelInv'
    BY <1>7, <1>i DEF TuiRun, Ui, Main, PanelInv, ThreadInv
  <1>8. ASSUME RenderPanel("loop") \/ RenderPanel("draw") \/ PanelDrawn
        PROVE  PanelInv'
    BY <1>8, <1>i DEF RenderPanel, Ui, Main, PanelDrawn, PanelInv, ThreadInv
  <1>9. ASSUME KeyQuit \/ LoopReturns \/ TuiJoin("key_join", "loop")
        PROVE  PanelInv'
    BY <1>9, <1>i
    DEF KeyQuit, TuiStop, Ui, Main, LoopReturns, TuiJoin, PanelInv, ThreadInv
  <1>10. ASSUME Leave PROVE PanelInv'
    BY <1>10, <1>i
    DEF Leave, Destroy, StopReactor, Ui, Main, JoinReactor, TuiStop, TuiJoin,
        Release, RunReturned, CloseBegin, Return, PanelInv, ThreadInv
  <1>11. ASSUME run \/ handle_events PROVE PanelInv'
    <2>1. UNCHANGED <<mpc, fpc, data_mutex_, data>>
      BY <1>11, RunFrame
    <2>. QED
      BY <1>i, <2>1 DEF PanelInv
  <1>12. ASSUME RefreshThread PROVE PanelInv'
    BY <1>12, <1>i
    DEF RefreshThread, RefreshCheck, refresh_data, SleepEnds, Refresh,
        Exists, PanelInv, ThreadInv
  <1>13. ASSUME NEW p \in RxThreads, Receive(p) \/ zenoh_data_callback(p)
        PROVE  PanelInv'
    <2>1. UNCHANGED <<mpc, fpc, data_mutex_, data>>
      BY <1>13, CallbackFrame
    <2>. QED
      BY <1>i, <2>1 DEF PanelInv
  <1>14. ASSUME TokenLost \/ zenoh_liveliness_callback PROVE PanelInv'
    <2>1. UNCHANGED <<mpc, fpc, data_mutex_, data>>
      BY <1>14, LivelinessFrame
    <2>. QED
      BY <1>i, <2>1 DEF PanelInv
  <1>15. ASSUME SignalArrives \/ signal_handler PROVE PanelInv'
    <2>1. UNCHANGED <<mpc, fpc, data_mutex_, data>>
      BY <1>15, SignalFrame
    <2>. QED
      BY <1>i, <2>1 DEF PanelInv
  <1>16. CASE UNCHANGED vars
    BY <1>16, <1>i DEF vars, PanelInv, ThreadInv
  <1>. QED
    BY <1>1, <1>2, <1>3, <1>4, <1>5, <1>6, <1>7, <1>8, <1>9, <1>10, <1>11,
       <1>12, <1>13, <1>14, <1>15, <1>16
    DEF Next, MainStep

(* The slots are allocated before anything is declared. *)
LEMMA NextSlot == IInv /\ [Next]_vars => SlotInv'
  <1> SUFFICES ASSUME IInv, [Next]_vars PROVE SlotInv'
    OBVIOUS
  <1> USE DEF mainVars, handlerVars, runVars, rxVars, lvVars, tuiVars
  <1>i. SlotInv /\ ThreadInv
    BY DEF IInv, TypeOK
  <1>1. ASSUME Load PROVE SlotInv'
    BY <1>1, <1>i
    DEF Load, Main, StartUp, SlotInv, ThreadInv, Declared, Registered
  <1>2. ASSUME Construct PROVE SlotInv'
    BY <1>2, <1>i
    DEF Construct, Acquire, Main, StartUp, SlotInv, ThreadInv, Declared,
        Registered
  <1>3. ASSUME InstallHandler PROVE SlotInv'
    BY <1>3, <1>i
    DEF InstallHandler, Main, StartUp, SlotInv, ThreadInv, Declared,
        Registered
  <1>4. ASSUME register_handler PROVE SlotInv'
    BY <1>4, <1>i
    DEF register_handler, Main, SlotInv, ThreadInv, Declared, Registered
  <1>5. ASSUME ChooseMode PROVE SlotInv'
    BY <1>5, <1>i
    DEF ChooseMode, Main, SlotInv, ThreadInv, Declared, Registered
  <1>6. ASSUME SpawnReactor PROVE SlotInv'
    BY <1>6, <1>i
    DEF SpawnReactor, Ui, Main, SlotInv, ThreadInv, Declared, Registered
  <1>7. ASSUME TuiRun PROVE SlotInv'
    BY <1>7, <1>i
    DEF TuiRun, Ui, Main, SlotInv, ThreadInv, Declared, Registered
  <1>8. ASSUME RenderPanel("loop") \/ RenderPanel("draw") \/ PanelDrawn
        PROVE  SlotInv'
    BY <1>8, <1>i
    DEF RenderPanel, Ui, Main, PanelDrawn, SlotInv, ThreadInv, Declared,
        Registered
  <1>9. ASSUME KeyQuit \/ LoopReturns \/ TuiJoin("key_join", "loop")
        PROVE  SlotInv'
    BY <1>9, <1>i
    DEF KeyQuit, TuiStop, Ui, Main, LoopReturns, TuiJoin, SlotInv, ThreadInv,
        Declared, Registered
  <1>10. ASSUME Leave PROVE SlotInv'
    BY <1>10, <1>i
    DEF Leave, Destroy, StopReactor, Ui, Main, JoinReactor, TuiStop, TuiJoin,
        Release, RunReturned, CloseBegin, Return, SlotInv, ThreadInv,
        Declared, Registered
  <1>11. ASSUME run \/ handle_events PROVE SlotInv'
    BY <1>11, <1>i
    DEF run, RunStart, Run, Exists, Allocate, Declare, DeclareLiveliness,
        LoopEnter, handle_events, RunReturns, SlotInv, ThreadInv, Declared, Registered
  <1>12. ASSUME RefreshThread PROVE SlotInv'
    <2>1. UNCHANGED <<rpc, handlers_, slots>>
      BY <1>12, RefreshFrame
    <2>. QED
      BY <1>i, <2>1 DEF SlotInv, Registered
  <1>13. ASSUME NEW p \in RxThreads, Receive(p) \/ zenoh_data_callback(p)
        PROVE  SlotInv'
    <2>1. UNCHANGED <<rpc, handlers_, slots>>
      BY <1>13, CallbackFrame
    <2>. QED
      BY <1>i, <2>1 DEF SlotInv, Registered
  <1>14. ASSUME TokenLost \/ zenoh_liveliness_callback PROVE SlotInv'
    <2>1. UNCHANGED <<rpc, handlers_, slots>>
      BY <1>14, LivelinessFrame
    <2>. QED
      BY <1>i, <2>1 DEF SlotInv, Registered
  <1>15. ASSUME SignalArrives \/ signal_handler PROVE SlotInv'
    <2>1. UNCHANGED <<rpc, handlers_, slots>>
      BY <1>15, SignalFrame
    <2>. QED
      BY <1>i, <2>1 DEF SlotInv, Registered
  <1>16. CASE UNCHANGED vars
    BY <1>16, <1>i DEF vars, SlotInv, ThreadInv, Declared, Registered
  <1>. QED
    BY <1>1, <1>2, <1>3, <1>4, <1>5, <1>6, <1>7, <1>8, <1>9, <1>10, <1>11,
       <1>12, <1>13, <1>14, <1>15, <1>16
    DEF Next, MainStep

(***************************************************************************)
(* Configuration and registration                                          *)
(***************************************************************************)

(* The sections by name. *)
LEMMA SectionNames ==
  Section = {"server", "zenoh", "channels", "liveliness", "tui", "handlers"}
  <1>1. /\ Len(Sections) = 6
        /\ Sections[1] = "server" /\ Sections[2] = "zenoh"
        /\ Sections[3] = "channels" /\ Sections[4] = "liveliness"
        /\ Sections[5] = "tui" /\ Sections[6] = "handlers"
    BY DEF Sections
  <1>. QED
    BY <1>1 DEF Section

(* Every configuration load() can leave is well-formed, and a load that    *)
(* succeeds leaves a whole one.                                            *)
LEMMA LoadResult ==
  ASSUME NEW f \in Files, NEW ok \in BOOLEAN, NEW c, load(f, ok, c)
  PROVE  /\ c.origin \in [Section -> Origins] /\ c.tui \in BOOLEAN
         /\ c.handlers \in Seq(Entry)
         /\ ok => \A s \in Section :
              c.origin[s] = IF f.path = "yes" /\ s \in f.given THEN "file"
                                                               ELSE "default"
  <1>1. CASE c = DefaultConfig /\ f.path = "no"
    BY <1>1 DEF DefaultConfig, Origins
  <1>2. CASE f.path = "yes" /\ ok = (f.broken = "nowhere") /\ c \in Results(f)
    <2>1. PICK e \in Enabled(f, Origin(f)["tui"]),
               n \in Counts(f, Origin(f)["handlers"]) :
            c = [origin |-> Origin(f), tui |-> e,
                 handlers |-> SubSeq(f.handlers, 1, n)]
      BY <1>2 DEF Results
    <2>2. Origin(f) \in [Section -> Origins]
      BY DEF Origin, Origins
    <2>3. Origin(f)["tui"] \in Origins /\ Origin(f)["handlers"] \in Origins
      BY <2>2, SectionNames
    <2>4. e \in BOOLEAN
      BY <2>1, <2>3, FileAssumption DEF Origins, Enabled
    <2>5. f.handlers \in Seq(Entry) /\ Len(f.handlers) \in Nat
      BY FileAssumption
    <2>6. n \in 0 .. Len(f.handlers)
      BY <2>1, <2>3, <2>5 DEF Origins, Counts
    <2>7. SubSeq(f.handlers, 1, n) \in Seq(Entry)
      BY <2>5, <2>6, SubSeqProperties
    <2>8. ok => \A s \in Section :
            Origin(f)[s] = IF s \in f.given THEN "file" ELSE "default"
      BY <1>2, SectionNames DEF Parsed, Origin
    <2>. QED
      BY <1>2, <2>1, <2>2, <2>4, <2>7, <2>8
  <1>. QED
    BY <1>1, <1>2 DEF load

(* The handler made of an entry of the configuration. *)
LEMMA MadeOfEntry ==
  ASSUME NEW e \in Entry
  PROVE  [path |-> e.path, priority |-> parse_priority(e.priority)] \in Handler
  BY DEF Handler, parse_priority

(* Registering appends a handler, and indexes its path unless that is      *)
(* indexed already.                                                        *)
LEMMA Registering ==
  ASSUME IInv, register_handler
  PROVE  \E new \in Handler :
           /\ handlers_' = Append(handlers_, new)
           /\ handlers_' \in Seq(Handler) /\ Len(handlers_') = Registered + 1
           /\ \A k \in 1 .. Registered : handlers_'[k] = handlers_[k]
           /\ handlers_'[Registered + 1] = new
           /\ handler_index_' = Indexed(new.path, Registered + 1)
           /\ Registered \in Nat /\ Registered' = Registered + 1
  <1> DEFINE e == config.handlers[Registered + 1]
             new == [path |-> e.path, priority |-> parse_priority(e.priority)]
  <1>1. /\ handlers_ \in Seq(Handler) /\ config.handlers \in Seq(Entry)
        /\ Registered \in Nat /\ Registered < Len(config.handlers)
    BY DEF IInv, TypeOK, ConfigInv, register_handler, Registered
  <1>2. e \in Entry
    <2>1. Registered + 1 \in 1 .. Len(config.handlers)
      BY <1>1
    <2>. QED
      BY <1>1, <2>1, ElementOfSeq
  <1>3. new \in Handler
    BY <1>2, MadeOfEntry
  <1>4. /\ handlers_' = Append(handlers_, new)
        /\ handler_index_' = Indexed(new.path, Registered + 1)
    BY DEF register_handler
  <1> HIDE DEF new
  <1>5. /\ handlers_' \in Seq(Handler) /\ Len(handlers_') = Registered + 1
        /\ \A k \in 1 .. Registered : handlers_'[k] = handlers_[k]
        /\ handlers_'[Registered + 1] = new
    BY <1>1, <1>3, <1>4, AppendProperties DEF Registered
  <1>6. Registered' = Registered + 1
    BY <1>5 DEF Registered
  <1>. QED
    BY <1>1, <1>3, <1>4, <1>5, <1>6

(* main() goes on only after a load that succeeded. *)
LEMMA NextConfig == IInv /\ [Next]_vars => ConfigInv'
  <1> SUFFICES ASSUME IInv, [Next]_vars PROVE ConfigInv'
    OBVIOUS
  <1> USE DEF mainVars, handlerVars, runVars, rxVars, lvVars, tuiVars
  <1>i. ConfigInv /\ AliveInv
    BY DEF IInv, TypeOK
  <1>1. ASSUME Load PROVE ConfigInv'
    <2>1. CASE \E ok \in BOOLEAN : /\ load(file, ok, config')
                                   /\ mpc' = IF ok THEN "session" ELSE "exit"
      <3>1. PICK ok \in BOOLEAN : /\ load(file, ok, config')
                                  /\ mpc' = IF ok THEN "session" ELSE "exit"
        BY <2>1
      <3>2. file' = file /\ file \in Files
        BY <1>1, <1>i DEF Load, Main, ConfigInv
      <3>3. config'.handlers \in Seq(Entry) /\ (ok => Whole')
        BY <3>1, <3>2, LoadResult DEF Whole
      <3>4. alive' = {}
        <4>1. alive' = alive /\ mpc = "load"
          BY <1>1 DEF Load, Main
        <4>2. alive \subseteq {"session", "publisher", "ring", "eventfd",
                               "reactor", "tui"}
          BY DEF IInv, TypeOK
        <4>. QED
          BY <1>i, <4>1, <4>2 DEF AliveInv
      <3>. QED
        BY <3>1, <3>2, <3>3, <3>4 DEF ConfigInv
    <2>2. CASE mpc' = "terminated" /\ UNCHANGED config
      <3>1. alive' = alive /\ mpc = "load" /\ file' = file
        BY <1>1 DEF Load, Main
      <3>. QED
        BY <1>i, <2>2, <3>1 DEF ConfigInv, Whole
    <2>. QED
      BY <1>1, <2>1, <2>2 DEF Load, Main
  <1>2. ASSUME Construct PROVE ConfigInv'
    BY <1>2, <1>i DEF Construct, Acquire, Main, StartUp, ConfigInv, Whole
  <1>3. ASSUME InstallHandler PROVE ConfigInv'
    BY <1>3, <1>i DEF InstallHandler, Main, StartUp, ConfigInv, Whole
  <1>4. ASSUME register_handler PROVE ConfigInv'
    BY <1>4, <1>i DEF register_handler, Main, ConfigInv, Whole
  <1>5. ASSUME ChooseMode PROVE ConfigInv'
    BY <1>5, <1>i DEF ChooseMode, Main, ConfigInv, Whole
  <1>6. ASSUME SpawnReactor PROVE ConfigInv'
    BY <1>6, <1>i DEF SpawnReactor, Ui, Main, ConfigInv, Whole
  <1>7. ASSUME TuiRun PROVE ConfigInv'
    BY <1>7, <1>i DEF TuiRun, Ui, Main, ConfigInv, Whole
  <1>8. ASSUME RenderPanel("loop") \/ RenderPanel("draw") \/ PanelDrawn
        PROVE  ConfigInv'
    BY <1>8, <1>i DEF RenderPanel, Ui, Main, PanelDrawn, ConfigInv, Whole
  <1>9. ASSUME KeyQuit \/ LoopReturns \/ TuiJoin("key_join", "loop")
        PROVE  ConfigInv'
    BY <1>9, <1>i
    DEF KeyQuit, TuiStop, Ui, Main, LoopReturns, TuiJoin, ConfigInv, Whole
  <1>10. ASSUME Leave PROVE ConfigInv'
    <2>1. CASE StopReactor("stop", "join")
      BY <1>i, <2>1 DEF StopReactor, Ui, Main, ConfigInv, Whole
    <2>2. CASE JoinReactor
      BY <1>i, <2>2 DEF JoinReactor, Ui, Main, ConfigInv, Whole
    <2>3. CASE TuiStop("tui_stop", "tui_join")
      BY <1>i, <2>3 DEF TuiStop, Ui, Main, ConfigInv, Whole
    <2>4. CASE TuiJoin("tui_join", "d_tui")
      BY <1>i, <2>4 DEF TuiJoin, Ui, Main, ConfigInv, Whole
    <2>5. CASE Release("tui", "d_tui", "d_stop")
      BY <1>i, <2>5 DEF Release, Ui, Main, ConfigInv, Whole
    <2>6. CASE RunReturned
      BY <1>i, <2>6 DEF RunReturned, Ui, Main, ConfigInv, Whole
    <2>7. CASE StopReactor("d_stop", "d_fd")
      BY <1>i, <2>7 DEF StopReactor, Ui, Main, ConfigInv, Whole
    <2>8. CASE Release("eventfd", "d_fd", "d_ring")
      BY <1>i, <2>8 DEF Release, Ui, Main, ConfigInv, Whole
    <2>9. CASE Release("ring", "d_ring", "d_pub")
      BY <1>i, <2>9 DEF Release, Ui, Main, ConfigInv, Whole
    <2>10. CASE Release("publisher", "d_pub", "d_close")
      BY <1>i, <2>10 DEF Release, Ui, Main, ConfigInv, Whole
    <2>11. CASE CloseBegin
      BY <1>i, <2>11 DEF CloseBegin, Main, ConfigInv, Whole
    <2>12. CASE /\ \A p \in RxThreads : rx[p] = "idle"
               /\ lv = "idle"
               /\ Release("session", "d_closing", "d_members")
      BY <1>i, <2>12 DEF Release, Ui, Main, ConfigInv, Whole
    <2>13. CASE Release("reactor", "d_members", "exit")
      BY <1>i, <2>13 DEF Release, Ui, Main, ConfigInv, Whole
    <2>14. CASE Return
      BY <1>i, <2>14 DEF Return, Ui, Main, ConfigInv, Whole
    <2>. QED
      BY <1>10, <2>1, <2>2, <2>3, <2>4, <2>5, <2>6, <2>7, <2>8, <2>9, <2>10,
         <2>11, <2>12, <2>13, <2>14 DEF Leave, Destroy
  <1>11. ASSUME run \/ handle_events PROVE ConfigInv'
    <2>1. UNCHANGED <<file, config, mpc, alive>>
      BY <1>11, RunFrame
    <2>. QED
      BY <1>i, <2>1 DEF ConfigInv, Whole
  <1>12. ASSUME RefreshThread PROVE ConfigInv'
    <2>1. UNCHANGED <<file, config, mpc, alive>>
      BY <1>12, RefreshFrame
    <2>. QED
      BY <1>i, <2>1 DEF ConfigInv, Whole
  <1>13. ASSUME NEW p \in RxThreads, Receive(p) \/ zenoh_data_callback(p)
        PROVE  ConfigInv'
    <2>1. UNCHANGED <<file, config, mpc, alive>>
      BY <1>13, CallbackFrame
    <2>. QED
      BY <1>i, <2>1 DEF ConfigInv, Whole
  <1>14. ASSUME TokenLost \/ zenoh_liveliness_callback PROVE ConfigInv'
    <2>1. UNCHANGED <<file, config, mpc, alive>>
      BY <1>14, LivelinessFrame
    <2>. QED
      BY <1>i, <2>1 DEF ConfigInv, Whole
  <1>15. ASSUME SignalArrives \/ signal_handler PROVE ConfigInv'
    <2>1. UNCHANGED <<file, config, mpc, alive>>
      BY <1>15, SignalFrame
    <2>. QED
      BY <1>i, <2>1 DEF ConfigInv, Whole
  <1>16. CASE UNCHANGED vars
    BY <1>16, <1>i DEF vars, ConfigInv, Whole
  <1>. QED
    BY <1>1, <1>2, <1>3, <1>4, <1>5, <1>6, <1>7, <1>8, <1>9, <1>10, <1>11,
       <1>12, <1>13, <1>14, <1>15, <1>16
    DEF Next, MainStep

(* Only a registration changes the handlers and their index. *)
LEMMA HandlersFrame == [Next]_vars => register_handler \/ UNCHANGED handlerVars
  <1> SUFFICES ASSUME Next \/ UNCHANGED vars, ~register_handler
               PROVE  UNCHANGED handlerVars
    OBVIOUS
  <1>1. CASE Load \/ Construct \/ InstallHandler \/ ChooseMode
    BY <1>1 DEF Load, Construct, Acquire, InstallHandler, ChooseMode
  <1>2. CASE \/ SpawnReactor \/ TuiRun \/ RenderPanel("loop") \/ RenderPanel("draw")
             \/ PanelDrawn \/ KeyQuit \/ TuiJoin("key_join", "loop") \/ LoopReturns
    BY <1>2
    DEF SpawnReactor, TuiRun, RenderPanel, PanelDrawn, KeyQuit, TuiStop, TuiJoin,
        LoopReturns, Ui
  <1>3. CASE Leave
    BY <1>3
    DEF Leave, StopReactor, JoinReactor, TuiStop, TuiJoin, Release, RunReturned,
        Destroy, CloseBegin, Return, Ui
  <1>4. CASE \/ run \/ handle_events \/ RefreshThread
             \/ \E p \in RxThreads : Receive(p) \/ zenoh_data_callback(p)
             \/ TokenLost \/ zenoh_liveliness_callback
             \/ SignalArrives \/ signal_handler
    BY <1>4, RunFrame, RefreshFrame, CallbackFrame, LivelinessFrame, SignalFrame
  <1>5. CASE UNCHANGED vars
    BY <1>5 DEF vars
  <1>. QED
    BY <1>1, <1>2, <1>3, <1>4, <1>5 DEF Next, MainStep

(* The index of a path stays that of a handler of this path. *)
LEMMA NextIndex == IInv /\ [Next]_vars => IndexInv'
  <1> SUFFICES ASSUME IInv, [Next]_vars PROVE IndexInv'
    OBVIOUS
  <1>i. IndexInv
    BY DEF IInv
  <1>1. CASE register_handler
    <2>1. PICK new \in Handler :
           /\ Len(handlers_') = Registered + 1
           /\ \A k \in 1 .. Registered : handlers_'[k] = handlers_[k]
           /\ handlers_'[Registered + 1] = new
           /\ handler_index_' = Indexed(new.path, Registered + 1)
           /\ Registered \in Nat /\ Registered' = Registered + 1
      BY <1>1, Registering
    <2>2. CASE new.path \in DOMAIN handler_index_
      <3>1. handler_index_' = handler_index_
        BY <2>1, <2>2 DEF Indexed
      <3>. QED
        BY <1>i, <2>1, <2>2, <3>1 DEF IndexInv
    <2>3. CASE new.path \notin DOMAIN handler_index_
      <3>1. /\ DOMAIN handler_index_' = DOMAIN handler_index_ \cup {new.path}
            /\ handler_index_'[new.path] = Registered + 1
            /\ \A path \in DOMAIN handler_index_ :
                 handler_index_'[path] = handler_index_[path]
        BY <2>1, <2>3 DEF Indexed
      <3>. QED
        BY <1>i, <2>1, <3>1 DEF IndexInv
    <2>. QED
      BY <2>2, <2>3
  <1>2. CASE UNCHANGED handlerVars
    BY <1>i, <1>2 DEF IndexInv, Registered, handlerVars
  <1>. QED
    BY <1>1, <1>2, HandlersFrame

(***************************************************************************)
(* Type correctness, part by part: main() and what it has opened, the other  *)
(* threads, the configuration and the flags, and what refers to the        *)
(* registered handlers, of which there are more and more.                  *)
(***************************************************************************)
MainType ==
  /\ mpc \in {"load", "session", "publisher", "ring", "eventfd", "install",
              "register", "spawn", "tui_run", "loop", "draw", "render", "key_join",
              "run", "stop", "join", "tui_stop", "tui_join", "d_tui", "d_stop",
              "d_fd", "d_ring", "d_pub", "d_close", "d_closing", "d_members",
              "exit", "gone", "terminated"}
  /\ alive \subseteq {"session", "publisher", "ring", "eventfd", "reactor", "tui"}

WorkerType ==
  /\ sig \in {"idle", "store", "write"}
  /\ rpc \in {"none", "store", "allocate", "declare", "loop", "busy", "done"}
  /\ rx \in [RxThreads -> {"idle", "deliver", "signal"}]
  /\ lv \in {"idle", "publish"}
  /\ fpc \in {"none", "check", "lock", "read", "sleep", "done"}
  /\ data_mutex_ \in {"free", "main", "refresh"} /\ data \in {"whole", "part"}

FlagType ==
  /\ config.origin \in [Section -> Origins] /\ config.tui \in BOOLEAN
  /\ g_reactor \in BOOLEAN
  /\ running_ \in BOOLEAN
  /\ lvSubscribed \in BOOLEAN
  /\ tuiRunning_ \in BOOLEAN
  /\ exitAsked \in BOOLEAN

HandlerType ==
  /\ handlers_ \in Seq(Handler)
  /\ \A path \in DOMAIN handler_index_ : handler_index_[path] \in 1 .. Registered
  /\ next \in 1 .. Registered + 1
  /\ slots \subseteq {handlers_[i].path : i \in 1 .. Registered}
  /\ contexts_ \subseteq 1 .. Registered /\ subscribers \subseteq 1 .. Registered
  /\ ctx \in [RxThreads -> 0 .. Registered]

PanelType == panel \in 0 .. Panels - 1

(* The parts make up the type invariant. *)
LEMMA TypeParts ==
  TypeOK <=> MainType /\ WorkerType /\ FlagType /\ HandlerType /\ PanelType
  BY DEF TypeOK, MainType, WorkerType, FlagType, HandlerType, PanelType

(* main() steps from one of its steps to another. *)
LEMMA NextMainType == IInv /\ [Next]_vars => MainType'
  <1> SUFFICES ASSUME IInv, [Next]_vars PROVE MainType'
    OBVIOUS
  <1> USE DEF mainVars, handlerVars, runVars, rxVars, lvVars, tuiVars
  <1>i. MainType
    BY TypeParts DEF IInv
  <1>1. ASSUME Load PROVE MainType'
    BY <1>1, <1>i DEF Load, Main, StartUp, MainType
  <1>2. ASSUME Construct PROVE MainType'
    <2>1. ASSUME NEW thing \in {"session", "publisher", "ring", "eventfd"},
                 NEW here,
                 NEW there \in {"publisher", "ring", "eventfd", "install"},
                 Acquire(thing, here, there)
          PROVE  MainType'
      BY <1>i, <2>1 DEF Acquire, Main, MainType
    <2>. QED
      BY <1>2, <2>1 DEF Construct
  <1>3. ASSUME InstallHandler PROVE MainType'
    BY <1>3, <1>i DEF InstallHandler, Main, StartUp, MainType
  <1>4. ASSUME register_handler PROVE MainType'
    BY <1>4, <1>i DEF register_handler, Main, MainType
  <1>5. ASSUME ChooseMode PROVE MainType'
    BY <1>5, <1>i DEF ChooseMode, Main, MainType
  <1>6. ASSUME SpawnReactor PROVE MainType'
    BY <1>6, <1>i DEF SpawnReactor, Ui, Main, MainType
  <1>7. ASSUME TuiRun PROVE MainType'
    BY <1>7, <1>i DEF TuiRun, Ui, Main, MainType
  <1>8. ASSUME RenderPanel("loop") \/ RenderPanel("draw") \/ PanelDrawn
        PROVE  MainType'
    BY <1>8, <1>i DEF RenderPanel, Ui, Main, PanelDrawn, MainType
  <1>9. ASSUME KeyQuit \/ LoopReturns \/ TuiJoin("key_join", "loop")
        PROVE  MainType'
    BY <1>9, <1>i
    DEF KeyQuit, TuiStop, Ui, Main, LoopReturns, TuiJoin, MainType
  <1>10. ASSUME Leave PROVE MainType'
    <2>1. CASE StopReactor("stop", "join")
      BY <1>i, <2>1 DEF StopReactor, Ui, Main, MainType
    <2>2. CASE JoinReactor
      BY <1>i, <2>2 DEF JoinReactor, Ui, Main, MainType
    <2>3. CASE TuiStop("tui_stop", "tui_join")
      BY <1>i, <2>3 DEF TuiStop, Ui, Main, MainType
    <2>4. CASE TuiJoin("tui_join", "d_tui")
      BY <1>i, <2>4 DEF TuiJoin, Ui, Main, MainType
    <2>5. CASE Release("tui", "d_tui", "d_stop")
      BY <1>i, <2>5 DEF Release, Ui, Main, MainType
    <2>6. CASE RunReturned
      BY <1>i, <2>6 DEF RunReturned, Ui, Main, MainType
    <2>7. CASE StopReactor("d_stop", "d_fd")
      BY <1>i, <2>7 DEF StopReactor, Ui, Main, MainType
    <2>8. CASE Release("eventfd", "d_fd", "d_ring")
      BY <1>i, <2>8 DEF Release, Ui, Main, MainType
    <2>9. CASE Release("ring", "d_ring", "d_pub")
      BY <1>i, <2>9 DEF Release, Ui, Main, MainType
    <2>10. CASE Release("publisher", "d_pub", "d_close")
      BY <1>i, <2>10 DEF Release, Ui, Main, MainType
    <2>11. CASE CloseBegin
      BY <1>i, <2>11 DEF CloseBegin, Main, MainType
    <2>12. CASE /\ \A p \in RxThreads : rx[p] = "idle"
               /\ lv = "idle"
               /\ Release("session", "d_closing", "d_members")
      BY <1>i, <2>12 DEF Release, Ui, Main, MainType
    <2>13. CASE Release("reactor", "d_members", "exit")
      BY <1>i, <2>13 DEF Release, Ui, Main, MainType
    <2>14. CASE Return
      BY <1>i, <2>14 DEF Return, Ui, Main, MainType
    <2>. QED
      BY <1>10, <2>1, <2>2, <2>3, <2>4, <2>5, <2>6, <2>7, <2>8, <2>9, <2>10,
         <2>11, <2>12, <2>13, <2>14 DEF Leave, Destroy
  <1>11. ASSUME run \/ handle_events PROVE MainType'
    <2>1. UNCHANGED <<mpc, alive>>
      BY <1>11, RunFrame
    <2>. QED
      BY <1>i, <2>1 DEF MainType
  <1>12. ASSUME RefreshThread PROVE MainType'
    <2>1. UNCHANGED <<mpc, alive>>
      BY <1>12, RefreshFrame
    <2>. QED
      BY <1>i, <2>1 DEF MainType
  <1>13. ASSUME NEW p \in RxThreads, Receive(p) \/ zenoh_data_callback(p)
        PROVE  MainType'
    <2>1. UNCHANGED <<mpc, alive>>
      BY <1>13, CallbackFrame
    <2>. QED
      BY <1>i, <2>1 DEF MainType
  <1>14. ASSUME TokenLost \/ zenoh_liveliness_callback PROVE MainType'
    <2>1. UNCHANGED <<mpc, alive>>
      BY <1>14, LivelinessFrame
    <2>. QED
      BY <1>i, <2>1 DEF MainType
  <1>15. ASSUME SignalArrives \/ signal_handler PROVE MainType'
    <2>1. UNCHANGED <<mpc, alive>>
      BY <1>15, SignalFrame
    <2>. QED
      BY <1>i, <2>1 DEF MainType
  <1>16. CASE UNCHANGED vars
    BY <1>16, <1>i DEF vars, MainType
  <1>. QED
    BY <1>1, <1>2, <1>3, <1>4, <1>5, <1>6, <1>7, <1>8, <1>9, <1>10, <1>11,
       <1>12, <1>13, <1>14, <1>15, <1>16
    DEF Next, MainStep

(* So do the other threads, the callbacks and the signal handler. *)
LEMMA NextWorkerType == IInv /\ [Next]_vars => WorkerType'
  <1> SUFFICES ASSUME IInv, [Next]_vars PROVE WorkerType'
    OBVIOUS
  <1> USE DEF mainVars, handlerVars, runVars, rxVars, lvVars, tuiVars
  <1>i. WorkerType
    BY TypeParts DEF IInv
  <1>1. ASSUME Load PROVE WorkerType'
    BY <1>1, <1>i DEF Load, Main, StartUp, WorkerType
  <1>2. ASSUME Construct PROVE WorkerType'
    BY <1>2, <1>i DEF Construct, Acquire, Main, StartUp, WorkerType
  <1>3. ASSUME InstallHandler PROVE WorkerType'
    BY <1>3, <1>i DEF InstallHandler, Main, StartUp, WorkerType
  <1>4. ASSUME register_handler PROVE WorkerType'
    BY <1>4, <1>i DEF register_handler, Main, WorkerType
  <1>5. ASSUME ChooseMode PROVE WorkerType'
    <2>1. UNCHANGED <<sig, rx, lv, fpc, data_mutex_, data>> /\ rpc' \in {rpc, "store"}
      BY <1>5 DEF ChooseMode
    <2>. QED
      BY <1>i, <2>1 DEF WorkerType
  <1>6. ASSUME SpawnReactor PROVE WorkerType'
    BY <1>6, <1>i DEF SpawnReactor, Ui, Main, WorkerType
  <1>7. ASSUME TuiRun PROVE WorkerType'
    BY <1>7, <1>i DEF TuiRun, Ui, Main, WorkerType
  <1>8. ASSUME RenderPanel("loop") \/ RenderPanel("draw") \/ PanelDrawn
        PROVE  WorkerType'
    BY <1>8, <1>i DEF RenderPanel, Ui, Main, PanelDrawn, WorkerType
  <1>9. ASSUME KeyQuit \/ LoopReturns \/ TuiJoin("key_join", "loop")
        PROVE  WorkerType'
    <2>1. CASE KeyQuit
      BY <1>i, <2>1 DEF KeyQuit, TuiStop, Ui, Main, WorkerType
    <2>2. CASE LoopReturns
      BY <1>i, <2>2 DEF LoopReturns, Ui, Main, WorkerType
    <2>3. CASE TuiJoin("key_join", "loop")
      BY <1>i, <2>3 DEF TuiJoin, Ui, Main, WorkerType
    <2>. QED
      BY <1>9, <2>1, <2>2, <2>3
  <1>10. ASSUME Leave PROVE WorkerType'
    <2>1. CASE StopReactor("stop", "join")
      BY <1>i, <2>1 DEF StopReactor, Ui, Main, WorkerType
    <2>2. CASE JoinReactor
      BY <1>i, <2>2 DEF JoinReactor, Ui, Main, WorkerType
    <2>3. CASE TuiStop("tui_stop", "tui_join")
      BY <1>i, <2>3 DEF TuiStop, Ui, Main, WorkerType
    <2>4. CASE TuiJoin("tui_join", "d_tui")
      BY <1>i, <2>4 DEF TuiJoin, Ui, Main, WorkerType
    <2>5. CASE Release("tui", "d_tui", "d_stop")
      BY <1>i, <2>5 DEF Release, Ui, Main, WorkerType
    <2>6. CASE RunReturned
      BY <1>i, <2>6 DEF RunReturned, Ui, Main, WorkerType
    <2>7. CASE StopReactor("d_stop", "d_fd")
      BY <1>i, <2>7 DEF StopReactor, Ui, Main, WorkerType
    <2>8. CASE Release("eventfd", "d_fd", "d_ring")
      BY <1>i, <2>8 DEF Release, Ui, Main, WorkerType
    <2>9. CASE Release("ring", "d_ring", "d_pub")
      BY <1>i, <2>9 DEF Release, Ui, Main, WorkerType
    <2>10. CASE Release("publisher", "d_pub", "d_close")
      BY <1>i, <2>10 DEF Release, Ui, Main, WorkerType
    <2>11. CASE CloseBegin
      BY <1>i, <2>11 DEF CloseBegin, Main, WorkerType
    <2>12. CASE /\ \A p \in RxThreads : rx[p] = "idle"
               /\ lv = "idle"
               /\ Release("session", "d_closing", "d_members")
      BY <1>i, <2>12 DEF Release, Ui, Main, WorkerType
    <2>13. CASE Release("reactor", "d_members", "exit")
      BY <1>i, <2>13 DEF Release, Ui, Main, WorkerType
    <2>14. CASE Return
      BY <1>i, <2>14 DEF Return, Ui, Main, WorkerType
    <2>. QED
      BY <1>10, <2>1, <2>2, <2>3, <2>4, <2>5, <2>6, <2>7, <2>8, <2>9, <2>10,
         <2>11, <2>12, <2>13, <2>14 DEF Leave, Destroy
  <1>11. ASSUME run \/ handle_events PROVE WorkerType'
    <2>1. CASE RunStart
      BY <1>i, <2>1 DEF RunStart, Run, Exists, WorkerType
    <2>2. CASE Allocate
      BY <1>i, <2>2 DEF Allocate, Run, Exists, WorkerType
    <2>3. CASE Declare
      BY <1>i, <2>3 DEF Declare, Run, Exists, WorkerType
    <2>4. CASE DeclareLiveliness
      BY <1>i, <2>4 DEF DeclareLiveliness, Run, Exists, WorkerType
    <2>5. CASE LoopEnter \/ handle_events
      BY <1>i, <2>5 DEF LoopEnter, handle_events, Run, Exists, WorkerType
    <2>6. CASE RunReturns
      BY <1>i, <2>6 DEF RunReturns, Run, Exists, WorkerType
    <2>. QED
      BY <1>11, <2>1, <2>2, <2>3, <2>4, <2>5, <2>6 DEF run
  <1>12. ASSUME RefreshThread PROVE WorkerType'
    <2>1. UNCHANGED <<sig, rpc, rx, lv>>
      <3>1. UNCHANGED <<rpc, rx, lv>>
        BY <1>12, RefreshFrame
      <3>. QED
        BY <1>12, <3>1
        DEF RefreshThread, RefreshCheck, refresh_data, SleepEnds, Refresh
    <2>2. /\ fpc' \in {"check", "lock", "read", "sleep", "done"}
          /\ data_mutex_' \in {data_mutex_, "free", "refresh"}
          /\ data' \in {data, "whole", "part"}
      BY <1>12
      DEF RefreshThread, RefreshCheck, refresh_data, SleepEnds, Refresh
    <2>. QED
      BY <1>i, <2>1, <2>2 DEF WorkerType
  <1>13. ASSUME NEW p \in RxThreads, Receive(p) \/ zenoh_data_callback(p)
        PROVE  WorkerType'
    BY <1>13, <1>i
    DEF Receive, Rx, Exists, zenoh_data_callback, Deliver, Signal, WorkerType
  <1>14. ASSUME TokenLost \/ zenoh_liveliness_callback PROVE WorkerType'
    <2>1. UNCHANGED <<sig, rpc, rx, fpc, data_mutex_, data>>
      BY <1>14 DEF TokenLost, zenoh_liveliness_callback, Lv
    <2>2. lv' \in {"idle", "publish"}
      BY <1>14 DEF TokenLost, zenoh_liveliness_callback, Lv
    <2>. QED
      BY <1>i, <2>1, <2>2 DEF WorkerType
  <1>15. ASSUME SignalArrives \/ signal_handler PROVE WorkerType'
    <2>1. UNCHANGED <<rpc, rx, lv, fpc, data_mutex_, data>>
      BY <1>15, SignalFrame
    <2>2. sig' \in {sig, "idle", "store", "write"}
      BY <1>15 DEF SignalArrives, signal_handler
    <2>. QED
      BY <1>i, <2>1, <2>2 DEF WorkerType
  <1>16. CASE UNCHANGED vars
    BY <1>16, <1>i DEF vars, WorkerType
  <1>. QED
    BY <1>1, <1>2, <1>3, <1>4, <1>5, <1>6, <1>7, <1>8, <1>9, <1>10, <1>11,
       <1>12, <1>13, <1>14, <1>15, <1>16
    DEF Next, MainStep

(* Flags stay Boolean, and a load leaves a well-formed configuration. *)
LEMMA NextFlagType == IInv /\ [Next]_vars => FlagType'
  <1> SUFFICES ASSUME IInv, [Next]_vars PROVE FlagType'
    OBVIOUS
  <1> USE DEF mainVars, handlerVars, runVars, rxVars, lvVars, tuiVars
  <1>i. FlagType
    BY TypeParts DEF IInv
  <1>1. ASSUME Load PROVE FlagType'
    <2>1. config'.origin \in [Section -> Origins] /\ config'.tui \in BOOLEAN
      <3>1. CASE \E ok \in BOOLEAN : load(file, ok, config')
        BY <3>1, LoadResult DEF IInv, ConfigInv
      <3>2. CASE UNCHANGED config
        BY <1>i, <3>2 DEF FlagType
      <3>. QED
        BY <1>1, <3>1, <3>2 DEF Load
    <2>. QED
      BY <1>i, <1>1, <2>1 DEF Load, StartUp, FlagType
  <1>2. ASSUME Construct PROVE FlagType'
    BY <1>2, <1>i DEF Construct, Acquire, Main, StartUp, FlagType
  <1>3. ASSUME InstallHandler PROVE FlagType'
    BY <1>3, <1>i DEF InstallHandler, Main, StartUp, FlagType
  <1>4. ASSUME register_handler PROVE FlagType'
    BY <1>4, <1>i DEF register_handler, Main, FlagType
  <1>5. ASSUME ChooseMode PROVE FlagType'
    BY <1>5, <1>i DEF ChooseMode, Main, FlagType
  <1>6. ASSUME SpawnReactor PROVE FlagType'
    BY <1>6, <1>i DEF SpawnReactor, Ui, Main, FlagType
  <1>7. ASSUME TuiRun PROVE FlagType'
    BY <1>7, <1>i DEF TuiRun, Ui, Main, FlagType
  <1>8. ASSUME RenderPanel("loop") \/ RenderPanel("draw") \/ PanelDrawn
        PROVE  FlagType'
    BY <1>8, <1>i DEF RenderPanel, Ui, Main, PanelDrawn, FlagType
  <1>9. ASSUME KeyQuit \/ LoopReturns \/ TuiJoin("key_join", "loop")
        PROVE  FlagType'
    BY <1>9, <1>i
    DEF KeyQuit, TuiStop, Ui, Main, LoopReturns, TuiJoin, FlagType
  <1>10. ASSUME Leave PROVE FlagType'
    <2>1. CASE StopReactor("stop", "join")
      BY <1>i, <2>1 DEF StopReactor, Ui, Main, FlagType
    <2>2. CASE JoinReactor
      BY <1>i, <2>2 DEF JoinReactor, Ui, Main, FlagType
    <2>3. CASE TuiStop("tui_stop", "tui_join")
      BY <1>i, <2>3 DEF TuiStop, Ui, Main, FlagType
    <2>4. CASE TuiJoin("tui_join", "d_tui")
      BY <1>i, <2>4 DEF TuiJoin, Ui, Main, FlagType
    <2>5. CASE Release("tui", "d_tui", "d_stop")
      BY <1>i, <2>5 DEF Release, Ui, Main, FlagType
    <2>6. CASE RunReturned
      BY <1>i, <2>6 DEF RunReturned, Ui, Main, FlagType
    <2>7. CASE StopReactor("d_stop", "d_fd")
      BY <1>i, <2>7 DEF StopReactor, Ui, Main, FlagType
    <2>8. CASE Release("eventfd", "d_fd", "d_ring")
      BY <1>i, <2>8 DEF Release, Ui, Main, FlagType
    <2>9. CASE Release("ring", "d_ring", "d_pub")
      BY <1>i, <2>9 DEF Release, Ui, Main, FlagType
    <2>10. CASE Release("publisher", "d_pub", "d_close")
      BY <1>i, <2>10 DEF Release, Ui, Main, FlagType
    <2>11. CASE CloseBegin
      BY <1>i, <2>11 DEF CloseBegin, Main, FlagType
    <2>12. CASE /\ \A p \in RxThreads : rx[p] = "idle"
               /\ lv = "idle"
               /\ Release("session", "d_closing", "d_members")
      BY <1>i, <2>12 DEF Release, Ui, Main, FlagType
    <2>13. CASE Release("reactor", "d_members", "exit")
      BY <1>i, <2>13 DEF Release, Ui, Main, FlagType
    <2>14. CASE Return
      BY <1>i, <2>14 DEF Return, Ui, Main, FlagType
    <2>. QED
      BY <1>10, <2>1, <2>2, <2>3, <2>4, <2>5, <2>6, <2>7, <2>8, <2>9, <2>10,
         <2>11, <2>12, <2>13, <2>14 DEF Leave, Destroy
  <1>11. ASSUME run \/ handle_events PROVE FlagType'
    BY <1>11, <1>i
    DEF run, RunStart, Run, Exists, Allocate, Declare, DeclareLiveliness,
        LoopEnter, handle_events, RunReturns, FlagType
  <1>12. ASSUME RefreshThread PROVE FlagType'
    <2>1. UNCHANGED <<config, g_reactor, running_, lvSubscribed, tuiRunning_, exitAsked>>
      BY <1>12, RefreshFrame
    <2>. QED
      BY <1>i, <2>1 DEF FlagType
  <1>13. ASSUME NEW p \in RxThreads, Receive(p) \/ zenoh_data_callback(p)
        PROVE  FlagType'
    <2>1. UNCHANGED <<config, g_reactor, running_, lvSubscribed, tuiRunning_, exitAsked>>
      BY <1>13, CallbackFrame
    <2>. QED
      BY <1>i, <2>1 DEF FlagType
  <1>14. ASSUME TokenLost \/ zenoh_liveliness_callback PROVE FlagType'
    BY <1>14, <1>i
    DEF TokenLost, zenoh_liveliness_callback, Lv, Exists, FlagType
  <1>15. ASSUME SignalArrives \/ signal_handler PROVE FlagType'
    BY <1>15, <1>i DEF SignalArrives, signal_handler, Exists, FlagType
  <1>16. CASE UNCHANGED vars
    BY <1>16, <1>i DEF vars, FlagType
  <1>. QED
    BY <1>1, <1>2, <1>3, <1>4, <1>5, <1>6, <1>7, <1>8, <1>9, <1>10, <1>11,
       <1>12, <1>13, <1>14, <1>15, <1>16
    DEF Next, MainStep

(* References to handlers stay within the registered ones. *)
LEMMA NextHandlerType == IInv /\ [Next]_vars => HandlerType'
  <1> SUFFICES ASSUME IInv, [Next]_vars PROVE HandlerType'
    OBVIOUS
  <1> USE DEF mainVars, handlerVars, runVars, rxVars, lvVars, tuiVars
  <1>i. HandlerType
    BY TypeParts DEF IInv
  <1>u. ASSUME UNCHANGED <<handlerVars, next, slots, contexts_, subscribers, ctx>>
        PROVE  HandlerType'
    BY <1>i, <1>u DEF HandlerType, Registered
  <1>1. ASSUME Load \/ Construct \/ InstallHandler \/ ChooseMode
        PROVE  HandlerType'
    <2>1. UNCHANGED <<handlerVars, next, slots, contexts_, subscribers, ctx>>
      BY <1>1
      DEF Load, Construct, Acquire, InstallHandler, ChooseMode, StartUp
    <2>. QED
      BY <1>u, <2>1
  <1>2. ASSUME register_handler PROVE HandlerType'
    <2>1. PICK new \in Handler :
           /\ handlers_' \in Seq(Handler)
           /\ \A k \in 1 .. Registered : handlers_'[k] = handlers_[k]
           /\ handler_index_' = Indexed(new.path, Registered + 1)
           /\ Registered \in Nat /\ Registered' = Registered + 1
      BY <1>2, Registering
    <2>2. UNCHANGED <<next, slots, contexts_, subscribers, ctx>>
      BY <1>2 DEF register_handler
    <2>3. 1 .. Registered \subseteq 1 .. Registered'
      BY <2>1
    <2>4. next' \in 1 .. Registered' + 1
      BY <1>i, <2>1, <2>2 DEF HandlerType
    <2>5. slots' \subseteq {handlers_'[i].path : i \in 1 .. Registered'}
      BY <1>i, <2>1, <2>2, <2>3 DEF HandlerType
    <2>6. contexts_' \subseteq 1 .. Registered' /\ subscribers' \subseteq 1 .. Registered'
      BY <1>i, <2>2, <2>3 DEF HandlerType
    <2>7. ctx' \in [RxThreads -> 0 .. Registered']
      BY <1>i, <2>1, <2>2 DEF HandlerType
    <2>8. \A path \in DOMAIN handler_index_' : handler_index_'[path] \in 1 .. Registered'
      BY <1>i, <2>1, <2>3 DEF HandlerType, Indexed
    <2>. QED
      BY <2>1, <2>4, <2>5, <2>6, <2>7, <2>8 DEF HandlerType
  <1>3. ASSUME \/ SpawnReactor \/ TuiRun \/ RenderPanel("loop") \/ RenderPanel("draw")
               \/ PanelDrawn \/ KeyQuit \/ TuiJoin("key_join", "loop") \/ LoopReturns
        PROVE  HandlerType'
    <2>1. UNCHANGED <<handlerVars, next, slots, contexts_, subscribers, ctx>>
      BY <1>3
      DEF SpawnReactor, TuiRun, RenderPanel, PanelDrawn, KeyQuit, TuiStop, TuiJoin,
          LoopReturns, Ui
    <2>. QED
      BY <1>u, <2>1
  <1>4. ASSUME Leave PROVE HandlerType'
    <2>1. CASE CloseBegin
      BY <1>i, <2>1 DEF HandlerType, Registered, CloseBegin
    <2>2. CASE ~CloseBegin
      <3>1. UNCHANGED <<handlerVars, next, slots, contexts_, subscribers, ctx>>
        BY <1>4, <2>2
        DEF Leave, StopReactor, JoinReactor, TuiStop, TuiJoin, Release,
            RunReturned, Destroy, Return, Ui
      <3>. QED
        BY <1>u, <3>1
    <2>. QED
      BY <2>1, <2>2
  <1>5. ASSUME run \/ handle_events PROVE HandlerType'
    <2>1. UNCHANGED <<handlerVars, ctx>>
      BY <1>5, RunFrame
    <2>2. CASE RunStart
      BY <1>i, <2>1, <2>2 DEF HandlerType, Registered, RunStart
    <2>3. CASE Allocate
      BY <1>i, <2>1, <2>3 DEF HandlerType, Registered, Allocate
    <2>4. CASE Declare
      <3>1. /\ next \in 1 .. Registered /\ Registered \in Nat
            /\ next' = next + 1 /\ UNCHANGED slots
            /\ contexts_' \subseteq contexts_ \cup {next}
            /\ subscribers' \subseteq subscribers \cup {next}
        BY <1>i, <2>4 DEF HandlerType, Registered, Declare
      <3>. QED
        BY <1>i, <2>1, <3>1 DEF HandlerType, Registered
    <2>5. CASE DeclareLiveliness \/ LoopEnter \/ handle_events \/ RunReturns
      <3>1. UNCHANGED <<next, slots, contexts_, subscribers>>
        BY <2>5 DEF DeclareLiveliness, LoopEnter, handle_events, RunReturns
      <3>. QED
        BY <1>u, <2>1, <3>1
    <2>. QED
      BY <1>5, <2>2, <2>3, <2>4, <2>5 DEF run
  <1>6. ASSUME RefreshThread PROVE HandlerType'
    BY <1>u, <1>6, RefreshFrame
  <1>7. ASSUME NEW p \in RxThreads, Receive(p) \/ zenoh_data_callback(p)
        PROVE  HandlerType'
    <2>1. UNCHANGED <<handlerVars, next, slots, contexts_, subscribers>>
      BY <1>7, CallbackFrame
    <2>2. ctx' \in [RxThreads -> 0 .. Registered]
      <3>1. \A i \in subscribers \cup {0} : i \in 0 .. Registered
        BY <1>i DEF HandlerType, Registered
      <3>. QED
        BY <1>i, <1>7, <3>1
        DEF HandlerType, Receive, zenoh_data_callback, Deliver, Signal
    <2>. QED
      BY <1>i, <2>1, <2>2 DEF HandlerType, Registered
  <1>8. ASSUME \/ TokenLost \/ zenoh_liveliness_callback
               \/ SignalArrives \/ signal_handler
        PROVE  HandlerType'
    BY <1>u, <1>8, LivelinessFrame, SignalFrame
  <1>9. CASE UNCHANGED vars
    BY <1>u, <1>9 DEF vars
  <1>. QED
    BY <1>1, <1>2, <1>3, <1>4, <1>5, <1>6, <1>7, <1>8, <1>9 DEF Next, MainStep

(* The panels of a frame are drawn one by one, and no more than there are. *)
LEMMA NextPanelType == IInv /\ [Next]_vars => PanelType'
  <1> SUFFICES ASSUME IInv, [Next]_vars PROVE PanelType'
    OBVIOUS
  <1> USE DEF mainVars, tuiVars
  <1>i. PanelType
    BY TypeParts DEF IInv
  <1>u. ASSUME UNCHANGED panel PROVE PanelType'
    BY <1>i, <1>u DEF PanelType
  <1>1. CASE PanelDrawn
    <2>1. (panel' = panel + 1 /\ panel + 1 < Panels) \/ panel' = 0
      BY <1>1 DEF PanelDrawn
    <2>. QED
      BY <1>i, <2>1, PanelAssumption DEF PanelType
  <1>2. CASE Load \/ Construct \/ InstallHandler \/ register_handler \/ ChooseMode
    BY <1>u, <1>2
    DEF Load, Construct, Acquire, InstallHandler, register_handler, ChooseMode,
        StartUp
  <1>3. CASE \/ SpawnReactor \/ TuiRun \/ RenderPanel("loop") \/ RenderPanel("draw")
             \/ KeyQuit \/ TuiJoin("key_join", "loop") \/ LoopReturns
    BY <1>u, <1>3
    DEF SpawnReactor, TuiRun, RenderPanel, KeyQuit, TuiStop, TuiJoin, LoopReturns
  <1>4. CASE Leave
    BY <1>u, <1>4
    DEF Leave, StopReactor, JoinReactor, TuiStop, TuiJoin, Release, RunReturned,
        Destroy, CloseBegin, Return
  <1>5. CASE \/ run \/ handle_events \/ RefreshThread
             \/ \E p \in RxThreads : Receive(p) \/ zenoh_data_callback(p)
             \/ TokenLost \/ zenoh_liveliness_callback
             \/ SignalArrives \/ signal_handler
    BY <1>u, <1>5, RunFrame, RefreshFrame, CallbackFrame, LivelinessFrame, SignalFrame
  <1>6. CASE UNCHANGED vars
    BY <1>u, <1>6 DEF vars
  <1>. QED
    BY <1>1, <1>2, <1>3, <1>4, <1>5, <1>6 DEF Next, MainStep

(***************************************************************************)
(* The invariant holds                                                     *)
(***************************************************************************)

(* A program that has not begun satisfies the invariant. *)
LEMMA InitInv == Init => IInv
  <1> SUFFICES ASSUME Init PROVE IInv
    OBVIOUS
  <1> USE DEF Init
  <1>1. MainType /\ WorkerType /\ FlagType
    BY DEF MainType, WorkerType, FlagType, DefaultConfig, Origins
  <1>2. Registered = 0
    BY DEF Registered
  <1>3. HandlerType
    <2>1. handlers_ \in Seq(Handler) /\ DOMAIN handler_index_ = {}
      OBVIOUS
    <2>. QED
      BY <1>2, <2>1 DEF HandlerType
  <1>4. ConfigInv
    BY DEF ConfigInv, DefaultConfig
  <1>5. AliveInv /\ ThreadInv /\ PanelInv
    BY DEF AliveInv, LeftOpen, ThreadInv, PanelInv
  <1>6. CallbackInv
    BY DEF CallbackInv
  <1>7. IndexInv /\ SlotInv
    <2>1. DOMAIN handler_index_ = {} /\ 1 .. Registered = {}
      BY <1>2
    <2>. QED
      BY <2>1 DEF IndexInv, SlotInv
  <1>8. PanelType
    BY PanelAssumption DEF PanelType
  <1>. QED
    BY <1>1, <1>3, <1>4, <1>5, <1>6, <1>7, <1>8, TypeParts DEF IInv

(* Every step preserves the invariant. *)
LEMMA NextInv == IInv /\ [Next]_vars => IInv'
  <1> SUFFICES ASSUME IInv, [Next]_vars PROVE IInv'
    OBVIOUS
  <1>1. TypeOK'
    <2>1. MainType' /\ WorkerType' /\ FlagType' /\ HandlerType' /\ PanelType'
      BY NextMainType, NextWorkerType, NextFlagType, NextHandlerType, NextPanelType
    <2>. QED
      BY <2>1, TypeParts
      DEF TypeOK, MainType, WorkerType, FlagType, HandlerType, PanelType
  <1>. QED
    BY <1>1, NextConfig, NextAlive, NextThread, NextCallback, NextIndex, NextSlot,
       NextPanel DEF IInv

(* The invariant holds in every reachable state. *)
LEMMA InvHolds == Spec => []IInv
  BY InitInv, NextInv, PTL DEF Spec

(***************************************************************************)
(* The theorems                                                            *)
(***************************************************************************)

(* Every variable keeps its type, whatever files the program is given:     *)
(* every index and every context refers to a registered handler.           *)
THEOREM TypeCorrect == Spec => []TypeOK
  BY InvHolds, PTL DEF IInv

(* load() may stop anywhere and leave a part of the file in force; no      *)
(* session is ever opened, and no reactor ever built, from it.             *)
THEOREM ConfigurationWhole == Spec => []ConfigWhole
  <1>1. IInv => ConfigWhole
    BY DEF IInv, ConfigInv, Whole, ConfigWhole
  <1>. QED
    BY <1>1, InvHolds, PTL

(* From the moment zenoh_data_callback() can run for a subscriber, its     *)
(* frames find a slot if they are BACKGROUND and a handler of their path   *)
(* at dispatch: their own, unless the path is registered twice.            *)
THEOREM FramesRoutable == Spec => []Routable
  <1>1. ASSUME IInv PROVE Routable
    <2> SUFFICES ASSUME NEW i \in subscribers
                 PROVE  /\ handlers_[i].priority = "BACKGROUND" =>
                             handlers_[i].path \in slots
                        /\ handlers_[i].path \in DOMAIN handler_index_
                        /\ handler_index_[handlers_[i].path] \in 1 .. Registered
                        /\ Dispatched(i).path = handlers_[i].path
                        /\ (\A k \in 1 .. Registered :
                              handlers_[k].path = handlers_[i].path => k = i)
                             => Dispatched(i) = handlers_[i]
      BY DEF Routable
    <2>1. i \in 1 .. Registered /\ rpc \in Declared
      BY <1>1 DEF IInv, TypeOK, CallbackInv
    <2>2. handlers_[i].priority = "BACKGROUND" => handlers_[i].path \in slots
      BY <1>1, <2>1 DEF IInv, SlotInv
    <2>3. /\ handlers_[i].path \in DOMAIN handler_index_
          /\ handler_index_[handlers_[i].path] \in 1 .. Registered
          /\ Dispatched(i).path = handlers_[i].path
      BY <1>1, <2>1 DEF IInv, IndexInv, Dispatched
    <2>. QED
      BY <2>2, <2>3 DEF Dispatched
  <1>. QED
    BY <1>1, InvHolds, PTL

(* Nothing outlives what it uses: neither run(), nor the refresh thread,   *)
(* nor a callback; and a callback meets a closed eventfd or a dropped      *)
(* publisher only inside ~DataFlowReactor(), before z_close() returns.     *)
THEOREM Lifetimes == Spec => []LifetimesRespected
  <1>1. ASSUME IInv PROVE LifetimesRespected
    <2> USE <1>1 DEF IInv
    <2>1. rpc \notin {"none", "done"} =>
            {"reactor", "ring", "eventfd", "session"} \subseteq alive
      BY DEF AliveInv, LeftOpen, ThreadInv
    <2>2. fpc \notin {"none", "done"} => {"tui", "reactor"} \subseteq alive
      BY DEF AliveInv, LeftOpen, ThreadInv
    <2>3. ASSUME rpc \in Declared, mpc \notin Closed \ {"d_closing"}
          PROVE  /\ "reactor" \in alive
                 /\ "eventfd" \notin alive =>
                      mpc \in {"d_ring", "d_pub", "d_close", "d_closing"}
                 /\ "publisher" \notin alive => mpc \in {"d_close", "d_closing"}
      BY <2>3 DEF AliveInv, LeftOpen, ThreadInv, Declared, Closed
    <2>4. \A p \in RxThreads :
            rx[p] # "idle" => "reactor" \in alive /\ ctx[p] \in contexts_
      BY <2>3 DEF CallbackInv
    <2>5. (\E p \in RxThreads : rx[p] = "signal") /\ "eventfd" \notin alive
            => mpc \in {"d_ring", "d_pub", "d_close", "d_closing"}
      BY <2>3 DEF CallbackInv
    <2>6. lv = "publish" =>
            /\ "reactor" \in alive
            /\ "publisher" \notin alive => mpc \in {"d_close", "d_closing"}
      BY <2>3 DEF CallbackInv
    <2>. QED
      BY <2>1, <2>2, <2>4, <2>5, <2>6 DEF LifetimesRespected
  <1>. QED
    BY <1>1, InvHolds, PTL

(* render() and refresh_data() exclude each other through data_mutex_,     *)
(* which is taken once per panel: each panel is drawn from one whole       *)
(* refresh, though two panels of a frame may show different ones.          *)
THEOREM PanelsWhole == Spec => []NoTornPanel
  <1>1. IInv => NoTornPanel
    BY DEF IInv, TypeOK, PanelInv, NoTornPanel
  <1>. QED
    BY <1>1, InvHolds, PTL

(* What is open at each end of the program: nothing when main() returns    *)
(* after it had a reactor, in either mode, by a key, a signal or a thread  *)
(* that could not be started; what the constructor had acquired when it    *)
(* threw; everything after std::terminate in the terminal UI.              *)
THEOREM EndsKnown == Spec => []LeftOpen
  <1>1. IInv => LeftOpen
    BY DEF IInv, AliveInv
  <1>. QED
    BY <1>1, InvHolds, PTL
=============================================================================
