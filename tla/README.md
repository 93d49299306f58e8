# FlowKernel in TLA+

FlowKernel moves messages between robots and their controllers.  Zenoh delivers
frames on its own receive (RX) threads; one *reactor thread* runs the handlers.
Frames have one of three priorities: CRITICAL (emergency stop) and NORMAL
(telemetry) frames go through a bounded queue, of BACKGROUND frames (cost maps)
only the newest per topic is kept.  This directory holds TLA+ models of the parts
of FlowKernel that are hard to test, TLC configurations that check them on small
instances, and TLAPS proofs, for every instance, of nearly all the safety properties that
those configurations check.

Paths such as `src/reactor.cpp` are relative to the root of the repository.

## Inventory

| Component | State | Operations | Interacts with |
|---|---|---|---|
| MPSC queue (`include/robot_dataflow/mpsc_queue.hpp`) | ring of `Capacity` uninitialised slots, `head_`, `tail_`, `dropped_`, spin lock `push_lock_` | `push` (RX threads), `pop` (reactor thread), destruction | filled by the Zenoh callback, emptied by `handle_events` |
| Latest-only cache (`include/robot_dataflow/latest_cache.hpp`) | map from topic hash to slot under `map_mtx_`; a slot has a spin lock, payload, time, `has_data_`, `drop_count_` | `pre_allocate`, `get_slot_fast`, `put`, `take`, `drain`, `get_total_dropped` | as above |
| Reactor event loop (`src/reactor.cpp`, `include/reactor.hpp`) | `running_`, the eventfd `wakeup_fd_`, an io_uring with one one-shot poll, the handlers | `zenoh_data_callback`, `run`, `arm_poll_eventfd`, `handle_events`, `stop` | Zenoh calls the callback; a signal handler or the UI calls `stop` |
| Reactor statistics (same files) | processed and dropped counters per channel, baselines, counts of the last cycle; latency windows | synchronisation in `handle_events`, `record_latency`, `get_*_stats`, `reset_stats` | the terminal UI reads and resets them from its thread |
| Session tracking (same files) | last time each robot was seen | update in the callback, `get_sessions` | the terminal UI |
| Handler routing (`register_handler`, `handlers_`, `handler_index_`) | handlers, index from path hash to the first handler with it | registration, look-up at dispatch | configuration, event loop |
| Liveliness and E-Stop (`zenoh_liveliness_callback`) | the E-Stop publisher | publication when a robot's token disappears | Zenoh |
| Configuration (`src/config.cpp`) | the parsed sections | `load` | `main` |
| Terminal UI (`src/tui/tui_app.cpp`) | refresh thread, its running flag | key handling, rendering | statistics, `stop` |
| Program (`src/main.cpp`) | global pointer used by the signal handler | start-up, signal handler, the two run modes | everything |
| Rust port (`flowkernel-rs/`) | the same ring with a mutex, slots with an `RwLock`, a Tokio `Notify` | as above, asynchronous | Zenoh's Rust API |

What is hard here: a ring that several threads fill while one empties it, with the
lifetime of every element managed by hand; pointers used after the lock under which
they were found is gone; fields that only a spin lock makes change together; the
sleep of the reactor thread, which must not begin when work has just arrived and
whose one-shot poll must be armed again after every wakeup; `stop()` at any moment;
unsigned differences of counters that another thread moves; callbacks and signals that
arrive while the program is still being set up or already being taken down; a
configuration of which only a part could be read.  The list, with lines, is under
`hazards` in `PROJECT.json`.

What makes each component correct:

* queue: linearizable to a bounded FIFO queue; a full queue costs the frame, never
  the caller's time; no element raced for, leaked or destroyed twice;
* cache: per topic a register that hands out each written frame at most once, newest
  only, in one piece, and counts what was overwritten; totals never go backwards;
* event loop: no wakeup is lost, every frame is served, `stop()` ends the loop;
* statistics: each drop counted once, in one channel, and forgotten by a reset;
  percentiles that are percentiles, of the newest latencies and no others;
* sessions: a robot shown as online has been heard of recently enough;
* program: no reactor is built from a file of which only a part was parsed; a frame finds
  its slot and its handler from the moment its subscriber exists; nothing is used after its
  end; it is known what each way out leaves open (a constructor that throws and
  `std::terminate` do); each panel shows one refresh; Q and signals have their effect;
* Rust port: the same as for queue, cache and event loop, and sound `unsafe` code.

## Modules

| Module | Models |
|---|---|
| `BoundedFifo` | abstract specification: a bounded FIFO queue with rejection |
| `MpscQueue` | the ring, one action per access to shared memory |
| `LatestRegister` | abstract specification: one latest-value register per topic |
| `LatestCache` | slots, spin locks, slot map, `drain` and the drop totals |
| `Reactor` | callback, eventfd, io_uring poll, event loop, `stop` |
| `Configuration` | `Config::load` as a relation, `parse_priority` |
| `Program` | `main`, construction, registration and declaration of handlers, callbacks, liveliness, signals, terminal UI, destruction |
| `ReactorStats` | drop and processed counters, `reset_stats` |
| `LatencyStats` | latency windows and percentiles |
| `Sessions` | last-seen map, `get_sessions` |
| `RustQueue` | the ring of the Rust port, against `BoundedFifo` |
| `RustReactor` | workers, `Notify`, loop, cache and blocking pool of the Rust port |
| `MpscQueueProofs`, `LatestCacheProofs`, `ReactorProofs`, `ReactorStatsProofs`, `SessionsProofs`, `ProgramProofs`, `RustQueueProofs`, `RustReactorProofs` | the theorems, each module about the one it is named after |
| `MC*` | instances for TLC |

**`BoundedFifo` and `MpscQueue`.**  A producer's program counter `pc[p]` walks through
`push()`: wait for the lock, load `tail_`, test for a full ring, construct the element,
store `tail_`, release.  The consumer's `cpc` walks through `pop()`: load the indices,
move the element out, destroy it, store `head_`.  A slot of `buffer_` holds an item,
`MovedFrom` (an element that was moved out of and not yet destroyed) or `Raw` (no
element).  Reading `head_` and `tail_` at the start of `pop()` is one action: `head_` is
the consumer's own, so only the load of `tail_` can race.  `Destruct` is
`~MPSCQueue()`, which may run when no thread is inside.  In the mapping to
`BoundedFifo` a push takes effect when it stores `tail_`, a refused push when it has
found the ring full, and a pop when it stores `head_`.

**`LatestRegister` and `LatestCache`.**  A producer looks its slot up, then goes
through `put()` field by field.  The reactor thread repeats `drain()` and
`get_total_dropped()`.  `map_mtx_` is held shared by the reactor thread throughout
either, which keeps `pre_allocate()` out; a topic that has no slot loses its frame
silently.  In the mapping, a write takes effect when the flag is set and a take when it
is cleared.

**`Reactor`.**  Queue and slots appear as their abstract specifications describe them: a
push, a pop, a put and a take are one step each.  What remains in small steps is what the
wakeup protocol consists of: a frame's arrival with its push or put, and the write to the
eventfd that follows a CRITICAL push, are two steps, as are the store and the write of
`stop()`, and the reactor thread tests `running_`, empties the queue, visits the slots,
waits, reads the eventfd, consumes the completion and re-arms the poll in separate steps.
`PollComplete` is the kernel. `Timeout` is the 50 ms timer, or an interrupted wait.
`io_uring_get_sqe()` may return NULL at any time; nothing is armed then, and `sqFull`
remembers it.  The eventfd stops counting at `EventfdMax`.  Traffic never needs to end,
and there is no bound on the frames of a behaviour: frames are told apart by their handler
only, except that at any time one frame may be *followed*, so that liveness can speak of
what becomes of it. `run()` is called once, which is all that `main()` does.  Frames that
are empty or fail verification change nothing and are left out.

**`Configuration` and `Program`.**  A file is described by what `exists()` says of it, where
yaml-cpp throws, which sections it has, and the two values that matter: `tui.enabled` and
the handlers.  `load` relates it to its result and to every configuration it may leave (an
exception in `handlers` leaves any number of the first ones).  In `Program` `mpc` is the
step of `main()`, with the bodies of constructors and destructors inlined; `rpc` is the step
of `run()` on whichever thread it has, with one `handle_events()` cycle as one step, which
need not come to its end; `fpc` is the refresh thread; `rx`, `lv` and `sig` are callbacks
and signal handler.  `alive` is the set of things that exist: session, publisher, ring,
eventfd, reactor, UI.  Each acquisition of the constructor and each creation of a thread
may fail.  A handler's context and its subscriber appear together.  Between lock and
unlock a refresh leaves `data` half done.  A frame of the UI is drawn panel by panel, the
mutex being taken anew for each of the `Panels`, four in the code (the footer shows no
data). Two assumptions about libraries: `z_close()` lets no new callback begin and waits for
those in progress; FTXUI's `Loop` replaces the signal handlers while it runs and ends on a
signal.

**`ReactorStats`.**  Counters are unsigned of width `Wrap`.  The queue is two numbers,
the BACKGROUND slot a flag; in `handle_events()` and `reset_stats()` every load, store or
addition of a counter or baseline that they share is a step of its own.  In `Spec` a reset
may come at any time, as in the code.  `ApartSpec` are the behaviours of `Spec` in which no
reset overlaps one of the two places where `handle_events()` takes over new drops
(`ResetApart`); it may still overlap the dispatch, the drain and the wait.

**`LatencyStats`.**  Recording, reading and clearing happen under `latency_mutex_` and are
one step each.  The average is kept as the sum and the count it is the ratio of.  The
history `log` is what the windows are compared with.

**`Sessions`.**  The callback reads the clock before it takes `session_mutex_`,
`get_sessions()` after; the clock may advance between any two steps.  `heard` remembers
when frames really arrived.  A key is the sequence of the parts between its slashes.

**`RustQueue`.**  As `MpscQueue`, with a mutex; reading an element leaves `Uninit`, since the
bits it leaves behind must not be read again.  An observer, which stands for any thread,
calls `len()` or `is_full()` at any time, in two steps; `first` and `popped` remember how
long the queue was at the first and how many items were popped up to the second.

**`RustReactor`.**  Each registered handler has a worker task (`wpc`).  The permit of the
`Notify` is kept when the sleep ends first.  `held` is the write lock of a slot; `drain()`
passes over a slot that is held.  NORMAL and BACKGROUND callbacks go to `pool`, from which
they are called in any order; `called` is the history.  Handlers are a sequence with paths
and priorities, so that equal paths can be expressed: `handler_index` keeps the last.  `run()`
declares one handler after the other and goes on when the list is at its end (`DeclareEnd`),
at once if there are none.

## Runs

| Run | Bounds | What it shows |
|---|---|---|
| `mpsc_queue` | 2 producers, 4 slots, 6 pushes | `NoSlotRace`, `Lifetimes`, `ImplementsFifo`, and `LockHolderReturns`: a producer with the lock returns though nobody pops |
| `latest_cache` | 2 producers, 2 topics, 3 frames, 3 slot objects | `SlotPointersStable`, `SlotExclusive`, `NoTornFrame`, `TotalNeverShrinks`, `ImplementsRegister`, `NewestIsTaken` |
| `reactor` | 2 RX threads, a handler per priority, endless traffic and stops, queue of 3, eventfd up to 2 | `NoLostWakeup`; without the timer `CriticalServed` and `StopEndsRun`; with it `EveryFrameServed` and `BackgroundServed`, also when the poll could not be armed |
| `stats_apart` | 6 frames, 2 resets, 4-bit counters, queue of 2 | `DropsAccounted`, `ResetForgets` for resets that do not overlap a synchronisation |
| `latency_stats` | 2 channels, 3 latencies, 5 records, window of 4 | `StatsDescribeRecent` |
| `sessions` | 2 RX threads, 2 robots and a key without one, 3 frames, 4 ms, online below 2 ms | `AgeDoesNotWrap`, `OnlineMeansHeard` |
| `rust_queue` | 2 workers, 4 slots, 5 pushes | `UnsafeIsSound`, `ImplementsFifo`, `LenExplained` for calls from any thread |
| `rust_reactor` | the 3 handlers of the command line program, 3 frames, queue of 2 | `NoLostWakeup`, `FramesAccounted`, `CriticalInOrder`, `EveryFrameServed` |
| `program` | 2 RX threads, 8 files: missing, unreadable, syntactically wrong, broken in `tui` or in `handlers`, two sections only, good in either mode; without the UI 3 handlers with a misspelt priority, a repeated and an invalid path, with it 2 handlers and 4 panels | `ConfigWhole`, `Routable`, `LifetimesRespected`, `NoTornPanel`, `LeftOpen`, `QuitEndsProgram` |
| `stats_overlap`, `reactor_arm_retry`, `program_quit` | | see Findings |

Why the bounds suffice for what is asked: Zenoh has two RX threads here (the comment
above `push_lock_` says so), so two producers are the real number; six pushes through a
ring of four fill it, overflow it and wrap it around with every overlap of `push` and
`pop`; three frames let one frame overwrite another while a third is being taken; with a
queue of three a CRITICAL frame waits behind NORMAL ones, several frames are queued for one
wakeup, and the queue is full, empty and refilled during the drain; an eventfd of at most 2
is soon at its limit; three slot objects leave one
to spare, so that a replaced slot would be noticed.  Six frames against a queue of two
produce up to four drops, enough for both branches of the proportional split, its
rounding, and a reset between two synchronisations; with 16 values a wrapped
difference cannot be confused with a real count.  For percentiles a window of 1000 and 95
and 99 per cent become a window of 4 and 50 and 80 per cent, which fall on a position of
a short window and between two.  Clock and threshold of `sessions` shrink alike: a robot
can be online, at the threshold, and offline.  Three frames overflow the queue of the Rust
reactor while its handlers are still being declared, and let two BACKGROUND frames be on
their way to the pool while a third is put.

Deadlock is not checked where the model may stop by design: when the bounded supply of
frames is used up and the queue has been destroyed, or when `run()` or `main()` has returned.

### Fairness

* `MpscQueue!FairSpec`: a thread inside `push()` keeps running.  Which of several
  waiting threads gets the spin lock is left open, so nothing is promised to a waiter.
* `LatestCache!FairSpec`: threads inside `put()` and the reactor thread keep running.
* `Reactor!EventSpec`: the reactor thread, a callback that has yet to write to the eventfd
  (`Signal`) and a `stop()` that has begun keep running, and the kernel completes a poll
  whose eventfd is readable.  Not assumed: that frames arrive, that anybody calls `run()`
  or `stop()`, that a wait times out. What holds under `EventSpec` is therefore owed to the
  eventfd alone.
* The properties that need the timer (`EveryFrameServed`, `BackgroundServed`) assume
  `WF_vars(Timeout)` themselves, so that one run answers for both; `Reactor!TimerSpec`
  states it for the whole specification.
* `RustReactor!FairSpec`: runnable tasks are run, the sleep of 1 ms ends, callbacks return.
* `Program!FairSpec`: every thread keeps running and callbacks return.  Strong fairness of
  `LoopReturns`: FTXUI handles its events in order, so a request to exit is reached though
  the UI thread draws in between; and of `RenderPanel("draw")`: between two panels the UI
  gets the mutex, which the refresh thread leaves free while it sleeps.  Keys,
  signals, frames and lost tokens need not come, and `handle_events()` need not return.

The loop which empties the queue ends when it finds the queue empty.  `Flooded` describes the
behaviours in which, from some time on, it never does, because frames arrive as fast as they
are dispatched; in `Program` those in which a `handle_events()` never returns.  `StopEndsRun`,
`BackgroundServed` and `QuitEndsProgram` hold in all others; without that exception TLC shows
a push and a pop that follow each other for ever.

## Findings

Three properties state what the repository says of the code and are violated by it.

* `program_quit`, `QuitIsHonoured`: `run()` begins by storing `true` in `running_`, so a
  `stop()` that came before is forgotten.  When Q or a signal ends the UI before the new
  reactor thread has got there, `main()` waits in `join()` for ever.  `QuitEndsProgram`
  says what holds once `running_` is stored, and no flood keeps `handle_events()` from
  returning: Q, a signal taken by FTXUI's loop and, without a UI, a signal taken by
  `signal_handler()` end the program.  A signal that arrives before FTXUI's loop has
  installed its handlers only ends `run()`: the UI goes on, with a reactor that is stopped,
  and a later Q or signal still ends the program.
* `stats_overlap`, `NoJumpAfterReset`: a reset between the load of the drop total and the
  subtraction makes the unsigned difference wrap, and CRITICAL shows about 2^64 drops.
* `reactor_arm_retry`, `ArmIsRetried`: a poll that could not be armed is not retried, as
  the comment says; re-arming only follows a completion, and there will be none.

Noted while modelling, without a run of their own:

* A stream of queued frames as fast as the dispatch holds `handle_events()` in its first
  loop: BACKGROUND slots are not visited and `running_` is not tested.
* `~DataFlowReactor()` closes the eventfd and drops the publisher before it closes the
  session, so a callback may write to a closed (and perhaps reused) descriptor or publish
  with a dropped publisher.  `LifetimesRespected` confines this to the destructor.
  `g_reactor` is never reset, so a late signal calls `stop()` on a destroyed reactor.
* Of two handlers for one path both subscribers are declared, but every frame runs the
  callback of the first.  A misspelt priority silently means BACKGROUND.
* `use_defaults()` logs "Using default configuration" and only clears the path; what was
  parsed before an error stays.  `main()` gives up in that case, hence `ConfigWhole`.
  That a section was parsed does not mean that it has an effect: `queue_size` and
  `max_age_ms` of `channels` are never used.  A missing file counts as success and gives a
  program without any handler.  An exception of `exists()` that is not YAML's is not
  caught.
* A constructor that throws leaves open what it had acquired; a refresh thread that cannot
  be created ends the program with `std::terminate`, because the reactor's thread is not
  joined, and then everything is left open.  `LeftOpen` says so for each way out.
* `get_total_dropped()` never shrinks for one caller (`TotalNeverShrinks`).  `reset_stats()` is
  a second caller, on the UI thread, so that the difference of `handle_events()` can wrap all
  the same, as `stats_overlap` shows for the queue.
* A second `run()` would free contexts that subscribers of the first still use.
* `README.md` says that commands jump the queue; CRITICAL and NORMAL frames share one FIFO
  queue, and a NORMAL frame queued earlier is dispatched first.
* Of two callbacks for one robot the one that read the clock first may store last, so the
  time last seen can go back (by as long as a callback takes) and the robot look older than
  it is; `OnlineMeansHeard` excludes the opposite error only.  `SessionInfo::last_seen_ms`
  is documented as a time stamp and is an age.
* `len()` of the Rust queue loads `tail` and then `head`.  Its doc comment promises "the
  current number of items in the queue" (`mpsc.rs:115`).  What it returns is what
  `LenExplained` says: a number the queue need not have had at any time, and, when items
  pushed during the call were popped during it too, one that is `CAPACITY` too large, so that
  an empty queue looks nearly full; `is_full()` likewise.  The consumer, which does not pop
  while it calls them, gets the length at the first load.
* The Rust loop hands each BACKGROUND frame to the blocking pool regardless of earlier ones,
  so that a slow callback brings back the backlog the cache is meant to prevent.
* In the Rust reactor of two BACKGROUND handlers with one path only the later is called;
  its `dropped` statistics are never incremented.

## Proofs

All theorems hold for any number of threads, topics, handlers, frames, files and stops and
any queue size.  TLC has checked the same formulas on the instances above, the inductive
invariants included.  Every proof has the same outline: the property seldom survives a step
by itself, so an inductive invariant `IInv` with named parts is stated, `InitInv` shows that
it holds at the start, `NextInv` that every action preserves it, and each theorem follows
from `IInv`.  The assumptions are those stated in the modules: bounds are natural numbers,
markers such as `None` are not items, and what is named below.

* `MpscQueueProofs`: `TypeCorrect`, `NoRace`, `LifetimesRespected`.  Assumed: the capacity
  is a power of two (which makes masking the remainder).  `IInv` adds to the types: the
  lock is held by at most one producer (`LockInv`); its copy of `tail_` is current and the
  room it found is still there, because the consumer only makes more (`ProducerInv`); a ring
  the consumer found non-empty stays so, because producers only add (`ConsumerInv`); and what
  each slot holds, inside and outside the ring, with the two exceptions of a half-done pop and
  a half-done push (`StorageInv`).  `Lifetimes` needs all of it.  The arithmetic of a growing
  and shrinking ring is in the lemmas `MaskSucc`, `RingEnds`, `RingGrows`, `RingShrinks` and
  `SuccInjective`.  `Refinement`: the ring implements `BoundedFifo`.  `ContentsSeq` turns the
  invariant into facts about the sequence of items in the ring; every action then either
  leaves that sequence alone (`StepStutters`) or appends to, takes from or rejects at the
  abstract queue.
* `RustQueueProofs`: `Sound` (the `unsafe` blocks), `Refinement` to the same `BoundedFifo`,
  and `LenAnswers`.  The invariant is that of the C++ ring with a mutex for the spin lock.
  `len()` masks a difference that may be negative (`MaskDistance`).  `LenAnswers` is about
  callers in any thread: during a call the loaded `tail` stays `first` ahead of where `head`
  was, and `head` has moved on by `popped`, past `tail`'s old place if more were popped than
  were there (`LenInv`).
* `LatestCacheProofs`: `TypeCorrect`, `PointersStable`, `Exclusive`, `NoTorn`, `TotalsGrow`,
  and `Refinement` to `LatestRegister`.  A pointer stays right because topics have slot
  objects of their own and `pre_allocate` replaces none (`MapInv`, `ProducerInv`); a thread
  inside a slot has its lock (`LockInv`); payload and time agree except between the two
  assignments of a thread that has the lock (`DataInv`).  `TotalsGrow` is about sums of any
  number of counters read at different times.  A sum is expressed as the number of units
  counted (`Units`), which needs no recursion; during a summation what has been added and
  what is still to be added make up at least the last total and at most the present sum
  (`TotalInv`).
* `ReactorProofs`: `TypeCorrect`, and `WakeupNotLost`, which speaks of behaviours in which
  the poll has been armed whenever it was asked for (`~sqFull`).  `NoLostWakeup` is about
  the sleeping thread only; the inductive invariant extends it over the part of the loop
  in which a signal can arrive too early: from finding the queue empty to reading the eventfd
  for frames (`FrameSignalled`), from testing `running_` to reading it for stops
  (`StopSignalled`), and it says where the poll is at each step (`PollAlive`).
* `ReactorStatsProofs`: `TypeCorrect` without any condition; `Accounted` and `Forgets` for
  behaviours with `[]ResetApart`, those of `ApartSpec`, and under `NoWrap`: there are fewer
  frames than a counter has values.  `stats_overlap` shows what happens without the first
  condition; the second, with 64-bit counters, always holds.  `Forgets` bounds what is
  shown from both sides: nothing from before the reset, and everything taken over since.
  No reset stores the previous cycle's counts between their loads (`TotalLoaded`), so that
  the share of CRITICAL is never more than the whole.  Two ledgers, one for the queue and
  one for the BACKGROUND slot, say at each step of the synchronisation and of a reset which
  drops are already in a channel (`QueueLedger`, `BgLedger`, `ResetProgress`).
* `SessionsProofs`: `TypeCorrect`, `AgesTrue`, `OnlineTrue`.  Assumed: the clock does not reach
  the width of its type.  The map only holds times of frames that arrived (`SeenInv`), and the
  mutex keeps times later than the clock reading of `get_sessions()` out of it (`ListInv`).
* `ProgramProofs`: `TypeCorrect`, `ConfigurationWhole`, `FramesRoutable`, `Lifetimes`,
  `PanelsWhole`, `EndsKnown`, for any number of panels and any configuration files (of which
  is only assumed that their handlers are a finite list).  The invariant says what exists
  at each step of `main()` (`AliveInv`), between which steps the two threads run
  (`ThreadInv`), when callbacks can be under way (`CallbackInv`), what index and slots
  contain once handlers are registered (`IndexInv`, `SlotInv`), and who may have the UI's
  mutex (`PanelInv`).
* `RustReactorProofs`: `TypeCorrect`, `WakeupNotLost`, `Accounted`, `InOrder`, for any list of
  handlers with any paths.  The invariant says where frames of each priority can be
  (`PlaceInv`), that those of one handler move on in the order of their reception (`OrderInv`),
  and that a frame pushed after the queue was found empty is announced (`WakeInv`).

What the attempts at proofs changed in the models: `RustReactor` had `run()` declare a first
handler even when there is none; and `CriticalInOrder` used to speak of the handler that is
called, which was not what is meant when a BACKGROUND handler shares its path with a
CRITICAL one, and now speaks of the handler that received the frame and requires it to be
the one called.

Only model-checked:

* liveness (`LockHolderReturns`, `NewestIsTaken`, `CriticalServed`, `StopEndsRun`,
  `EveryFrameServed` of both reactors, `BackgroundServed`, `QuitEndsProgram`), which the prover
  cannot express under fairness;
* `StatsDescribeRecent`: percentiles of a sorted window and a fold over a sequence, about which
  nothing can be proved here without induction over sequences.  (Where a least or greatest
  element is enough, as in `Greatest` of `RustReactorProofs`, the proofs get it from the
  well-foundedness of the natural numbers.)

## Not modelled

* Weak memory.  Every access is sequentially consistent.  The acquire and release pairs of
  the ring are what makes that sound for its elements; this is argued, not checked.
* Zenoh, io_uring, FlatBuffers and yaml-cpp are environment: callbacks, completions,
  frames that are accepted or ignored.
* Collisions of the 64-bit path hash, a second `run()`, a signal handler that runs on a
  reactor already destroyed, several reactors in one process.
* Layout and number formats of the terminal UI, logging, generated FlatBuffers code, the
  Python test client.

## Plan

1. *done* `MpscQueue`, `BoundedFifo`, refinement and proofs.
2. *done* `LatestCache`, `LatestRegister`, refinement and proofs.
3. *done* `Reactor` with the wakeup protocol and `stop`, proof of `WakeupNotLost`.
4. *done* `ReactorStats`.
5. *done* `RustQueue`, `RustReactor`.
6. *done* `Sessions`, `LatencyStats`.
7. *done* `Program` and `Configuration`: construction with its error paths, routing,
   configuration files, destruction with callbacks still arriving, terminal UI, quitting.
8. *done* `Reactor` with endless traffic.
9. *done* Theorems for the safety properties of `LatestCache`, `ReactorStats`, `Sessions`,
   `Program`, `RustQueue` and `RustReactor`.
10. Left: what `StatsDescribeRecent` needs of sorting, as far as it can be proved; shorter
    proofs where cases repeat each other.
