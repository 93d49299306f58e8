------------------------------- MODULE Program -------------------------------
(***************************************************************************)
(* The program as a whole: main() with its two modes, the construction and *)
(* destruction of DataFlowReactor and TUIApp, the registration and         *)
(* declaration of handlers, and everything that runs meanwhile: the        *)
(* reactor thread, the refresh thread of the terminal UI, Zenoh's data and *)
(* liveliness callbacks, and the signal handler.                           *)
(*                                                                         *)
(* One cycle of handle_events() is one action here; Reactor has its steps. *)
(* A path stands for its hash: no two configured paths collide.            *)
(***************************************************************************)
EXTENDS Configuration, Integers, FiniteSets

CONSTANTS Files,      \* configuration files the program may be started with
          RxThreads,  \* Zenoh's RX threads
          InvalidPaths,  \* paths that are not key expressions
          Panels      \* panels of the UI that show refreshed data, four in the code

(* The handler entries of all files. *)
Entry == UNION {{f.handlers[i] : i \in 1 .. Len(f.handlers)} : f \in Files}

ASSUME FileAssumption == \A f \in Files : f.tui \in BOOLEAN /\ f.handlers \in Seq(Entry)
ASSUME PanelAssumption == Panels \in Nat \ {0}

VARIABLES
  file, config, mpc,  \* main(): the file it is given, its Config and its step
  alive,              \* what has been constructed or opened, and not yet destroyed
  g_reactor,          \* the global pointer has been set, the signal handler installed
  sig,                \* step of a signal handler that is running
  handlers_, handler_index_,  \* registered handlers, and path to position
  rpc, next,          \* run(): its step, and the handler it declares next
  running_,           \* of the reactor
  slots,              \* paths with a slot in background_cache_
  contexts_, subscribers,     \* handlers whose context exists; who can be called
  rx, ctx,            \* per RX thread: step of the data callback, and its handler
  lv, lvSubscribed,   \* step of the liveliness callback, and whether it is declared
  tuiRunning_, fpc,   \* TUIApp::running_, and the step of the refresh thread
  data_mutex_, data,  \* who holds it, and whether a refresh is half done
  panel,              \* panels drawn of the frame that is being drawn
  exitAsked           \* FTXUI's event loop has been asked to end

mainVars == <<file, config, mpc>>
handlerVars == <<handlers_, handler_index_>>
runVars == <<rpc, next, slots, contexts_>>
rxVars == <<rx, ctx>>
lvVars == <<lv, lvSubscribed>>
tuiVars == <<tuiRunning_, fpc, data_mutex_, data, panel, exitAsked>>
vars == <<mainVars, alive, g_reactor, sig, handlerVars, runVars, running_,
          subscribers, rxVars, lvVars, tuiVars>>

Init == /\ file \in Files /\ config = DefaultConfig /\ mpc = "load"
        /\ alive = {} /\ g_reactor = FALSE /\ sig = "idle"
        /\ handlers_ = <<>> /\ handler_index_ = <<>>
        /\ rpc = "none" /\ next = 1 /\ running_ = FALSE
        /\ slots = {} /\ contexts_ = {} /\ subscribers = {}
        /\ rx = [p \in RxThreads |-> "idle"] /\ ctx = [p \in RxThreads |-> 0]
        /\ lv = "idle" /\ lvSubscribed = FALSE
        /\ tuiRunning_ = FALSE /\ fpc = "none"
        /\ data_mutex_ = "free" /\ data = "whole"
        /\ panel = 0 /\ exitAsked = FALSE
-----------------------------------------------------------------------------
(***************************************************************************)
(* main(): configuration and construction.                                 *)
(***************************************************************************)
(* The process has not ended. *)
Exists == mpc \notin {"gone", "terminated"}

Main(here, there) == mpc = here /\ mpc' = there /\ UNCHANGED file

(* No other thread exists before the reactor is complete. *)
StartUp == UNCHANGED <<sig, runVars, running_, subscribers, rxVars, lvVars, tuiVars>>

Load_Ignored == /\ \E ok \in BOOLEAN : load(file, ok, config')
                /\ Main("load", "session")
                /\ StartUp /\ UNCHANGED <<alive, g_reactor, handlerVars>>

(* An exception that is not YAML's leaves main() and ends the program. *)
Load == /\ \/ \E ok \in BOOLEAN : /\ load(file, ok, config')
                                 /\ Main("load", IF ok THEN "session" ELSE "exit")
           \/ /\ file.path = "error"
              /\ Main("load", "terminated")
              /\ UNCHANGED config
        /\ StartUp /\ UNCHANGED <<alive, g_reactor, handlerVars>>

(* The constructor acquires one thing after the other.  When one fails it  *)
(* throws: main() catches it, and what was acquired before is not released *)
(* because no destructor runs.                                             *)
Acquire(thing, here, there) ==
  /\ \/ Main(here, there) /\ alive' = alive \cup {thing}
     \/ Main(here, "exit") /\ UNCHANGED alive
  /\ StartUp /\ UNCHANGED <<config, g_reactor, handlerVars>>

Construct == \/ Acquire("session", "session", "publisher")
             \/ Acquire("publisher", "publisher", "ring")
             \/ Acquire("ring", "ring", "eventfd")
             \/ Acquire("eventfd", "eventfd", "install")

InstallHandler == /\ Main("install", "register")
                  /\ alive' = alive \cup {"reactor"}
                  /\ g_reactor' = TRUE
                  /\ StartUp /\ UNCHANGED <<config, handlerVars>>

Registered == Len(handlers_)

(* emplace() does not replace: an index is kept for the first handler of a *)
(* path.                                                                   *)
Indexed(path, position) ==
  IF path \in DOMAIN handler_index_ THEN handler_index_
  ELSE [p \in DOMAIN handler_index_ \cup {path} |->
          IF p = path THEN position ELSE handler_index_[p]]

register_handler_IndexAfter ==
  /\ Main("register", "register")
  /\ Registered < Len(config.handlers)
  /\ LET h == config.handlers[Registered + 1]
     IN  /\ handlers_' = Append(handlers_,
                           [path |-> h.path, priority |-> parse_priority(h.priority)])
         /\ handler_index_' = Indexed(h.path, Registered + 2)
  /\ UNCHANGED <<config, alive, g_reactor, sig, runVars, running_, subscribers,
                 rxVars, lvVars, tuiVars>>

register_handler ==
  /\ Main("register", "register")
  /\ Registered < Len(config.handlers)
  /\ LET h == config.handlers[Registered + 1]
     IN  /\ handlers_' = Append(handlers_,
                           [path |-> h.path, priority |-> parse_priority(h.priority)])
         /\ handler_index_' = Indexed(h.path, Registered + 1)
  /\ UNCHANGED <<config, alive, g_reactor, sig, runVars, running_, subscribers,
                 rxVars, lvVars, tuiVars>>

(* All registered: the terminal UI, or run() on this thread. *)
ChooseMode == /\ Registered = Len(config.handlers)
              /\ \/ /\ config.tui
                    /\ Main("register", "spawn")
                    /\ alive' = alive \cup {"tui"} /\ UNCHANGED rpc
                 \/ /\ ~config.tui
                    /\ Main("register", "run")
                    /\ rpc' = "store" /\ UNCHANGED alive
              /\ UNCHANGED <<config, g_reactor, sig, handlerVars, next, slots,
                             contexts_, running_, subscribers, rxVars, lvVars, tuiVars>>
-----------------------------------------------------------------------------
(***************************************************************************)
(* run(), on the reactor thread or in main().                              *)
(***************************************************************************)
Run(here, there) == /\ Exists /\ rpc = here /\ rpc' = there
                    /\ UNCHANGED <<mainVars, alive, g_reactor, sig, handlerVars,
                                   rxVars, lv, tuiVars>>

RunStart == /\ Run("store", "allocate")
            /\ running_' = TRUE
            /\ contexts_' = {}
            /\ UNCHANGED <<next, slots, subscribers, lvSubscribed>>

Allocate_None == /\ Run("allocate", "declare")
                 /\ UNCHANGED <<next, slots, running_, contexts_, subscribers,
                                lvSubscribed>>

Allocate == /\ Run("allocate", "declare")
            /\ slots' = {handlers_[i].path : i \in
                           {k \in 1 .. Registered : handlers_[k].priority = "BACKGROUND"}}
            /\ UNCHANGED <<next, running_, contexts_, subscribers, lvSubscribed>>

(* A path that is no key expression, and a declaration that fails, are     *)
(* passed over; the context then dies with its unique_ptr.                 *)
Declare == /\ Run("declare", "declare")
           /\ next <= Registered
           /\ next' = next + 1
           /\ \/ /\ handlers_[next].path \notin InvalidPaths
                 /\ contexts_' = contexts_ \cup {next}
                 /\ subscribers' = subscribers \cup {next}
              \/ UNCHANGED <<contexts_, subscribers>>
           /\ UNCHANGED <<slots, running_, lvSubscribed>>

(* Whether the liveliness subscription succeeded is not looked at. *)
DeclareLiveliness == /\ Run("declare", "loop")
                     /\ next > Registered
                     /\ lvSubscribed' \in BOOLEAN
                     /\ UNCHANGED <<next, slots, running_, contexts_, subscribers>>

LoopEnter == /\ Run("loop", "busy")
             /\ running_
             /\ UNCHANGED <<next, slots, running_, contexts_, subscribers, lvSubscribed>>

(* handle_events() returns, unless frames arrive as fast as it dispatches  *)
(* them.                                                                   *)
handle_events == /\ Run("busy", "loop")
                 /\ UNCHANGED <<next, slots, running_, contexts_, subscribers,
                                lvSubscribed>>

RunReturns == /\ Run("loop", "done")
              /\ ~running_
              /\ UNCHANGED <<next, slots, running_, contexts_, subscribers, lvSubscribed>>

run == \/ RunStart \/ Allocate \/ Declare \/ DeclareLiveliness
       \/ LoopEnter \/ RunReturns

(* The handler whose callback dispatch runs for a frame of subscriber i. *)
Dispatched(i) == handlers_[handler_index_[handlers_[i].path]]
-----------------------------------------------------------------------------
(***************************************************************************)
(* Zenoh's callbacks.                                                      *)
(***************************************************************************)
Rx(p, here, there) == /\ Exists /\ rx[p] = here /\ rx' = [rx EXCEPT ![p] = there]
                      /\ UNCHANGED <<mainVars, alive, g_reactor, sig, handlerVars,
                                     runVars, running_, subscribers, lvVars, tuiVars>>

Receive(p) == /\ Rx(p, "idle", "deliver")
              /\ \E i \in subscribers : ctx' = [ctx EXCEPT ![p] = i]

(* Queue or slot.  A CRITICAL frame that fits into the queue is followed   *)
(* by a write to the eventfd.                                              *)
Deliver(p) == \/ Rx(p, "deliver", "idle") /\ ctx' = [ctx EXCEPT ![p] = 0]
              \/ /\ Rx(p, "deliver", "signal")
                 /\ handlers_[ctx[p]].priority = "CRITICAL"
                 /\ UNCHANGED ctx

Signal(p) == Rx(p, "signal", "idle") /\ ctx' = [ctx EXCEPT ![p] = 0]

zenoh_data_callback(p) == Deliver(p) \/ Signal(p)

Lv(here, there) == /\ Exists /\ lv = here /\ lv' = there
                   /\ UNCHANGED <<mainVars, alive, g_reactor, sig, handlerVars, runVars,
                                  running_, subscribers, rxVars, lvSubscribed, tuiVars>>

(* A robot's token disappears; an E-Stop is built and published. *)
TokenLost == lvSubscribed /\ Lv("idle", "publish")
zenoh_liveliness_callback == Lv("publish", "idle")
-----------------------------------------------------------------------------
(***************************************************************************)
(* Signals.  While FTXUI's event loop runs, it has its own handlers        *)
(* installed and ends the loop; otherwise signal_handler() calls stop().   *)
(***************************************************************************)
InTuiLoop == mpc \in {"loop", "draw", "render", "key_join"}

SignalArrives == /\ Exists /\ g_reactor /\ sig = "idle"
                 /\ \/ InTuiLoop /\ exitAsked' = TRUE /\ UNCHANGED sig
                    \/ ~InTuiLoop /\ sig' = "store" /\ UNCHANGED exitAsked
                 /\ UNCHANGED <<mainVars, alive, g_reactor, handlerVars, runVars, running_,
                                subscribers, rxVars, lvVars,
                                tuiRunning_, fpc, data_mutex_, data, panel>>

signal_handler == /\ Exists
                  /\ \/ sig = "store" /\ sig' = "write" /\ running_' = FALSE
                     \/ sig = "write" /\ sig' = "idle" /\ UNCHANGED running_
                  /\ UNCHANGED <<mainVars, alive, g_reactor, handlerVars, runVars,
                                 subscribers, rxVars, lvVars, tuiVars>>
-----------------------------------------------------------------------------
(***************************************************************************)
(* TUIApp: its refresh thread.                                             *)
(***************************************************************************)
Refresh(here, there) == /\ Exists /\ fpc = here /\ fpc' = there
                        /\ UNCHANGED <<mainVars, alive, g_reactor, sig, handlerVars,
                                       runVars, running_, subscribers, rxVars, lvVars,
                                       tuiRunning_, panel, exitAsked>>

RefreshCheck == /\ \/ Refresh("check", "lock") /\ tuiRunning_
                   \/ Refresh("check", "done") /\ ~tuiRunning_
                /\ UNCHANGED <<data_mutex_, data>>

refresh_data_Unlocked == /\ \/ Refresh("lock", "read") /\ data' = "part"
                            \/ Refresh("read", "sleep") /\ data' = "whole"
                         /\ UNCHANGED data_mutex_

(* Fields are assigned one after the other between lock and unlock. *)
refresh_data == \/ /\ Refresh("lock", "read")
                   /\ data_mutex_ = "free" /\ data_mutex_' = "refresh"
                   /\ data' = "part"
                \/ /\ Refresh("read", "sleep")
                   /\ data_mutex_' = "free"
                   /\ data' = "whole"

SleepEnds == Refresh("sleep", "check") /\ UNCHANGED <<data_mutex_, data>>

RefreshThread == RefreshCheck \/ refresh_data \/ SleepEnds
-----------------------------------------------------------------------------
(***************************************************************************)
(* TUIApp in main(): threads start, events are handled, stop().            *)
(***************************************************************************)
Ui(here, there) == /\ Main(here, there)
                   /\ UNCHANGED <<config, g_reactor, sig, handlerVars, next, slots,
                                  contexts_, subscribers, rxVars, lvVars>>

SpawnReactor_Leaks == /\ \/ Ui("spawn", "tui_run") /\ rpc' = "store"
                         \/ Ui("spawn", "exit") /\ UNCHANGED rpc
                      /\ UNCHANGED <<alive, running_, tuiVars>>

(* std::thread's constructor may throw; here TUIApp and reactor are        *)
(* destroyed on the way to the catch clause ...                            *)
SpawnReactor == /\ \/ Ui("spawn", "tui_run") /\ rpc' = "store"
                   \/ Ui("spawn", "tui_stop") /\ UNCHANGED rpc
                /\ UNCHANGED <<alive, running_, tuiVars>>

(* ... and here the reactor's thread object dies unjoined.                 *)
TuiRun == /\ \/ Ui("tui_run", "loop") /\ fpc' = "check"
             \/ Ui("tui_run", "terminated") /\ UNCHANGED fpc
          /\ tuiRunning_' = TRUE
          /\ UNCHANGED <<alive, rpc, running_, data_mutex_, data, panel, exitAsked>>

(* FTXUI draws a frame: one panel after the other, each under the mutex,   *)
(* which is free in between, so that two panels of a frame may show        *)
(* different refreshes.                                                    *)
RenderPanel(here) == /\ Ui(here, "render")
                     /\ data_mutex_ = "free" /\ data_mutex_' = "main"
                     /\ UNCHANGED <<alive, rpc, running_, tuiRunning_, fpc, data,
                                    panel, exitAsked>>

PanelDrawn == /\ \/ /\ panel + 1 < Panels
                    /\ Ui("render", "draw") /\ panel' = panel + 1
                 \/ /\ panel + 1 = Panels
                    /\ Ui("render", "loop") /\ panel' = 0
              /\ data_mutex_' = "free"
              /\ UNCHANGED <<alive, rpc, running_, tuiRunning_, fpc, data, exitAsked>>

TuiStop_Running(here, there) ==
  /\ Ui(here, there)
  /\ exitAsked' = TRUE
  /\ UNCHANGED <<alive, rpc, running_, tuiRunning_, fpc, data_mutex_, data, panel>>

TuiStop(here, there) == /\ Ui(here, there)
                        /\ tuiRunning_' = FALSE
                        /\ exitAsked' = TRUE
                        /\ UNCHANGED <<alive, rpc, running_, fpc, data_mutex_, data,
                                       panel>>

TuiJoin(here, there) == /\ Ui(here, there)
                        /\ fpc \in {"none", "done"} /\ fpc' = "none"
                        /\ UNCHANGED <<alive, rpc, running_, tuiRunning_, data_mutex_,
                                       data, panel, exitAsked>>

KeyQuit == TuiStop("loop", "key_join")

LoopReturns == /\ Ui("loop", "stop")
               /\ exitAsked
               /\ UNCHANGED <<alive, rpc, running_, tuiVars>>
-----------------------------------------------------------------------------
(***************************************************************************)
(* main(): the way out.                                                    *)
(***************************************************************************)
StopReactor(here, there) == Ui(here, there) /\ running_' = FALSE
                              /\ UNCHANGED <<alive, rpc, tuiVars>>

JoinReactor == /\ Ui("join", "tui_stop")
               /\ rpc = "done"
               /\ UNCHANGED <<alive, rpc, running_, tuiVars>>

RunReturned == /\ Ui("run", "d_stop")
               /\ rpc = "done"
               /\ UNCHANGED <<alive, rpc, running_, tuiVars>>

Release(thing, here, there) == Ui(here, there) /\ alive' = alive \ {thing}
                                 /\ UNCHANGED <<rpc, running_, tuiVars>>

(* z_close() lets no callback begin and returns when those in progress     *)
(* have returned.                                                          *)
CloseBegin == /\ Main("d_close", "d_closing")
              /\ subscribers' = {} /\ lvSubscribed' = FALSE
              /\ UNCHANGED <<config, alive, g_reactor, sig, handlerVars, runVars,
                             running_, rxVars, lv, tuiVars>>

Destroy_CloseLast == \/ StopReactor("d_stop", "d_fd")
                     \/ Release("eventfd", "d_fd", "d_ring")
                     \/ Release("ring", "d_ring", "d_pub")
                     \/ Release("publisher", "d_pub", "d_members")
                     \/ Release("reactor", "d_members", "d_close")
                     \/ CloseBegin
                     \/ /\ \A p \in RxThreads : rx[p] = "idle"
                        /\ lv = "idle"
                        /\ Release("session", "d_closing", "exit")

Destroy == \/ StopReactor("d_stop", "d_fd")
           \/ Release("eventfd", "d_fd", "d_ring")
           \/ Release("ring", "d_ring", "d_pub")
           \/ Release("publisher", "d_pub", "d_close")
           \/ CloseBegin
           \/ /\ \A p \in RxThreads : rx[p] = "idle"
              /\ lv = "idle"
              /\ Release("session", "d_closing", "d_members")
           \/ Release("reactor", "d_members", "exit")

Return == Ui("exit", "gone") /\ UNCHANGED <<alive, rpc, running_, tuiVars>>

Leave == \/ StopReactor("stop", "join") \/ JoinReactor
         \/ TuiStop("tui_stop", "tui_join") \/ TuiJoin("tui_join", "d_tui")
         \/ Release("tui", "d_tui", "d_stop")
         \/ RunReturned \/ Destroy \/ Return
-----------------------------------------------------------------------------
MainStep == \/ Load \/ Construct \/ InstallHandler \/ register_handler \/ ChooseMode
            \/ SpawnReactor \/ TuiRun \/ PanelDrawn \/ TuiJoin("key_join", "loop")
            \/ Leave

Next == \/ MainStep
        \/ RenderPanel("loop") \/ RenderPanel("draw") \/ KeyQuit \/ LoopReturns
        \/ run \/ handle_events
        \/ RefreshThread
        \/ \E p \in RxThreads : Receive(p) \/ zenoh_data_callback(p)
        \/ TokenLost \/ zenoh_liveliness_callback
        \/ SignalArrives \/ signal_handler

Spec == Init /\ [][Next]_vars

(***************************************************************************)
(* Threads run and callbacks return.  FTXUI's loop, which handles events   *)
(* in the order of their arrival, gets to a request to exit, and the UI    *)
(* gets the mutex, which the refresh thread does not have while it sleeps. *)
(* Keys, signals, frames and lost tokens need not come, and a call of      *)
(* handle_events() need not return.                                        *)
(***************************************************************************)
FairSpec == /\ Spec
            /\ WF_vars(MainStep) /\ SF_vars(LoopReturns) /\ SF_vars(RenderPanel("draw"))
            /\ WF_vars(run) /\ WF_vars(RefreshThread)
            /\ \A p \in RxThreads : WF_vars(zenoh_data_callback(p))
            /\ WF_vars(zenoh_liveliness_callback) /\ WF_vars(signal_handler)
-----------------------------------------------------------------------------
(***************************************************************************)
(* Properties                                                              *)
(***************************************************************************)
Handler == [path : {h.path : h \in Entry},
            priority : {"CRITICAL", "NORMAL", "BACKGROUND"}]

TypeOK == /\ mpc \in {"load", "session", "publisher", "ring", "eventfd", "install",
                      "register", "spawn", "tui_run", "loop", "draw", "render",
                      "key_join", "run", "stop", "join", "tui_stop", "tui_join", "d_tui", "d_stop",
                      "d_fd", "d_ring", "d_pub", "d_close", "d_closing", "d_members",
                      "exit", "gone", "terminated"}
          /\ config.origin \in [Section -> Origins] /\ config.tui \in BOOLEAN
          /\ alive \subseteq {"session", "publisher", "ring", "eventfd", "reactor", "tui"}
          /\ g_reactor \in BOOLEAN
          /\ sig \in {"idle", "store", "write"}
          /\ handlers_ \in Seq(Handler)
          /\ \A path \in DOMAIN handler_index_ : handler_index_[path] \in 1 .. Registered
          /\ rpc \in {"none", "store", "allocate", "declare", "loop", "busy", "done"}
          /\ next \in 1 .. Registered + 1
          /\ running_ \in BOOLEAN
          /\ slots \subseteq {handlers_[i].path : i \in 1 .. Registered}
          /\ contexts_ \subseteq 1 .. Registered /\ subscribers \subseteq 1 .. Registered
          /\ rx \in [RxThreads -> {"idle", "deliver", "signal"}]
          /\ ctx \in [RxThreads -> 0 .. Registered]
          /\ lv \in {"idle", "publish"} /\ lvSubscribed \in BOOLEAN
          /\ tuiRunning_ \in BOOLEAN
          /\ fpc \in {"none", "check", "lock", "read", "sleep", "done"}
          /\ data_mutex_ \in {"free", "main", "refresh"} /\ data \in {"whole", "part"}
          /\ panel \in 0 .. Panels - 1 /\ exitAsked \in BOOLEAN

(***************************************************************************)
(* No reactor is ever built from a configuration of which only a part was  *)
(* read: every section the file has was parsed, the others have their      *)
(* defaults.                                                               *)
(***************************************************************************)
ConfigWhole ==
  alive # {} =>
    \A s \in Section :
      config.origin[s] = IF file.path = "yes" /\ s \in file.given THEN "file" ELSE "default"

(***************************************************************************)
(* From the moment a subscriber can be called, while others are still      *)
(* being declared, its frames find everything they need: a slot if they    *)
(* are BACKGROUND, a handler for their path at dispatch, and their own     *)
(* handler if no other is registered for the path.                         *)
(***************************************************************************)
Routable ==
  \A i \in subscribers :
    /\ handlers_[i].priority = "BACKGROUND" => handlers_[i].path \in slots
    /\ handlers_[i].path \in DOMAIN handler_index_
    /\ handler_index_[handlers_[i].path] \in 1 .. Registered
    /\ Dispatched(i).path = handlers_[i].path
    /\ (\A k \in 1 .. Registered : handlers_[k].path = handlers_[i].path => k = i)
         => Dispatched(i) = handlers_[i]

(***************************************************************************)
(* Nothing outlives what it uses: run() the reactor, its ring, eventfd and *)
(* session; the refresh thread the TUIApp and the reactor; a data callback *)
(* its context and the reactor's queue and cache.  One exception:          *)
(* ~DataFlowReactor() closes the eventfd and drops the publisher before it *)
(* closes the session, and callbacks meet a closed channel in that window, *)
(* never before it and never after z_close().  (signal_handler() reads     *)
(* g_reactor, which nothing clears, and is left out.)                      *)
(***************************************************************************)
LifetimesRespected ==
  /\ rpc \notin {"none", "done"} => {"reactor", "ring", "eventfd", "session"} \subseteq alive
  /\ fpc \notin {"none", "done"} => {"tui", "reactor"} \subseteq alive
  /\ \A p \in RxThreads : rx[p] # "idle" => "reactor" \in alive /\ ctx[p] \in contexts_
  /\ lv = "publish" => "reactor" \in alive
  /\ (\E p \in RxThreads : rx[p] = "signal") /\ "eventfd" \notin alive
       => mpc \in {"d_ring", "d_pub", "d_close", "d_closing"}
  /\ lv = "publish" /\ "publisher" \notin alive => mpc \in {"d_close", "d_closing"}

(***************************************************************************)
(* No panel is ever drawn from a refresh that is half done.  (A frame of   *)
(* several panels may show more than one refresh.)                         *)
(***************************************************************************)
NoTornPanel == mpc = "render" => data = "whole"

(***************************************************************************)
(* What is open when the program ends, by the way it ends.  main() returns *)
(* with a reactor: nothing.  The constructor has thrown: what it had       *)
(* acquired until then, for its destructor does not run.  std::terminate   *)
(* before there is a reactor: nothing; when the refresh thread could not   *)
(* be created: everything.                                                 *)
(***************************************************************************)
LeftOpen ==
  /\ mpc \in {"exit", "gone"} =>
       IF g_reactor THEN alive = {}
                    ELSE alive \in {{}, {"session"}, {"session", "publisher"},
                                    {"session", "publisher", "ring"}}
  /\ mpc = "terminated" =>
       alive = IF g_reactor
                 THEN {"session", "publisher", "ring", "eventfd", "reactor", "tui"}
                 ELSE {}

(***************************************************************************)
(* What a request to quit does once run() has stored running_, unless a    *)
(* flood of frames keeps handle_events() from returning.  Q, or a signal   *)
(* that FTXUI's loop or, without a UI, signal_handler() takes, ends the    *)
(* program, also if the reactor had been stopped before.  A signal that    *)
(* signal_handler() takes at any other time, before FTXUI's loop has begun *)
(* for instance, ends run() and need not do more.                          *)
(***************************************************************************)
Started == rpc \notin {"none", "store"}
Flooded == <>[](rpc = "busy")

QuitAsked == \/ exitAsked /\ (InTuiLoop \/ mpc = "stop")
             \/ sig = "store" /\ mpc = "run"

QuitEndsProgram ==
  \/ Flooded
  \/ /\ (Started /\ QuitAsked) ~> (mpc = "gone")
     /\ (Started /\ sig = "store") ~> (rpc = "done" \/ mpc = "terminated")

(***************************************************************************)
(* What the repository says and the code does not do.                      *)
(***************************************************************************)
(* "Q: quit the program", "Ctrl+C: exit gracefully" (README.md:225, 227),  *)
(* be it without a flood.                                                  *)
QuitIsHonoured == Flooded \/ (exitAsked ~> (mpc = "gone"))
=============================================================================
