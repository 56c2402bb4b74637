# Regolith Lain: specifications, model checking and proofs

TLA+ specifications of the concurrent and protocol code of the repository: what
each part promises, a model of how its code goes about it, TLC runs over small
instances, and theorems that hold for every size of the system, checked by
TLAPS. Paths below are under `src/`; `gep/x.hpp` stands for
`gep/include/rgh/gep/x.hpp`, and likewise for `brp`, `osp` and `ucp`.
`PROJECT.json` maps every definition to the lines it models and lists the runs,
the mutants of the models that each property must reject, the findings, the
hazards and the theorems.

## 1. The system

The repository is a set of C++ libraries in four layers and one program:
`gep` (portable, no operating system), `brp` (protocols and ports), `osp`
(desktop: threads, sockets, serial, GUI), `ucp` (microcontrollers: FreeRTOS,
sensors), and `ruptures/madonna`, a GUI program over `osp`.

| Component | State | Operations | Who calls whom | Hard part |
|---|---|---|---|---|
| `Ring_atomic_MPSC` (gep/ringatomic.hpp) | slots, three atomic indices | push, pop | any thread pushes GPU payloads to `Immersive` (osp/immersive.hpp:399-428), the GUI thread pops | claims and publications by several producers |
| `Thread_pool` (osp/thread_pool.hpp) | queue under a mutex, atomic counter that workers sleep on | push, launch, kill | `Bridge` launches 4 workers, docks push | counter and queue are not changed together; kill poisons the counter |
| `WJPv5` Euclid (brp/WJPv5.h) | phase, partial header, CRC, reception buffer | push bytes, emplace frame | serial callbacks push bytes, a callback gets packets | resynchronisation pushes bytes again, recursively |
| `WJP_euclid_MVC8` (brp/wjp_euclid.hpp) | packet buffer and counters | encode, slow_send | ports and adapters | a corrupt packet leaves its state behind |
| `Daemon` (gep/daemon.hpp) | atomic state | start, stop, restart, wait_until | any thread; hooks of the services | races of start, stop and restart, failing hooks |
| `Daemon_cluster` (gep/daemon.hpp, ucp/daemon.hpp) | register of docks under a `Dispenser`, bad restarts, critical flag | push, pop, iterate, report | one FreeRTOS task drives the daemons | states read one by one while others change them |
| `Dispenser` (gep/dispenser.hpp) | an object and a mutex, or a published shared pointer | watch, control, release, move, drop | cluster, bridge, docks, COM ports | several modes, one of them without any lock |
| `Dispenser2`, `Sentry` (gep) | the redesign of the dispenser | watch, control, drop | nobody yet | state of handles kept in the shared object |
| `Bridge`, `Immersive` (ruptures/madonna, osp) | docks, proxies, status, GUI thread | install, uninstall, start, stop, frame | GUI loop calls the docks with the register held | re-entry, erasing a dock at work |
| `HonOpt`, `CLI` docks | expression in a Drop dispenser, `updating`; output in a Trylock dispenser | frame, worker tasks, detached threads | bridge, thread pool | tasks outlive what they capture |
| `Dynamic_task`, Thingsboard, WiFi (ucp) | task handle and flags; connection | launch, wait_exit, request_*; daemon hooks | daemons, FreeRTOS | end of a task against launch and wait |
| Serial, `Fasttrack_serial`, `COM_ports` (osp) | descriptor, poll thread; list of ports | open, close, read, write; scan, callbacks | user threads, poll thread | descriptor copied by the poll thread |
| IPv4 sockets (osp) | descriptors | bind, listen, accept, connect, ... | user threads | partial failure |
| `Fast_cli`, `Fast_exp` (gep) | command map; token stack, reverse Polish list | parse, execute, push/pop commands; parse, resolve | CLI dock, HonOpt dock | order of operators, three searches of one map |
| Madonna utilities (osp/madonna.hpp) and the methods of `HonOpt` | grid, points, intervals | span, apply, field_at, mesh; searches, differences, descent steps | HonOpt dock, its worker | index arithmetic, rounding |
| Asset store of `Immersive` (osp/immersive.hpp) | textures, render targets, payloads | upload, delete, push, resolve | any thread, GL thread | names that outlive or are outlived |
| BMP280, BME280 (ucp/sns-drv) | calibration, `_fine_temp` | load, one shot, control | tasks of the board | bus reads that fail one by one |
| Timed I/O, PLC board (ucp/ino) | start of a timeout, latches, display buffer | tick, set, write | the board's loop | a clock that wraps |
| `Block_diffuser`, `Divergent_ring`, `RtAtomic`, `Cache`, NTH invokes | small data structures | inject/eject, enring/dering, push/pull, ... | nobody in the repository | free list, cursors |
| Renderer, other drivers, descriptors, text | - | - | - | no protocol |

What makes each part correct, and what its module states:

- **Ring**: nothing lost, repeated or reordered; BUSY only when full; no slot
  filled and emptied at once.
- **Pool**: a worker that claims a task finds one; pushed tasks run; workers end
  only because of kill; kill returns.
- **WJP**: after noise the search resumes right after the BOF that failed, no
  byte is lost or looked at twice; a frame sent to a receiver that looks for a
  BOF arrives. Two kinds of broken frames are excepted, at WJPv5.h:258 and :144
  (section 4).
- **Daemon**: hooks never overlap; the state tells what is held; starts and
  stops alternate; waiters wake; no transition is left half done.
- **Cluster**: dependencies first, but for those moved by others meanwhile; a
  daemon kept alive comes up again; one that never starts makes the cluster
  critical; every pass ends.
- **Madonna**: a stop ends the program; nobody changes the register under the
  loop that draws it; the plot reached without a handle is not freed; `updating`
  tells of every task that holds its dock.
- **Board daemons**: they are daemons as `Daemon` promises; STARTED and STOPPED
  tell what the board holds; one thread at a time uses the device; starts and
  stops end; an announced firmware is asked for.
- **Ports**: every number held is open and held once; a number is lost only by
  overwriting; what an open does to the loop it replaces is over when it
  returns; a join on it returns.
- **Tools**: an expression means what its precedence says; a line is split and
  used as written; a sample is found where it was stored; the optimum stays in
  the bracket; GL names have one owner; the parts of a measurement belong
  together; relays drop on time.
- **Dispenser**: a control is alone; every lock is given back but that of a
  Trylock watch that was moved; and, until a store of the published block
  overlaps an access, what a watch shows does not change, every use is given
  back and nobody stands on freed memory (section 4).

## 2. Modules

| Module | Models | Uses |
|---|---|---|
| `BoundedFifo` | abstract queue with a capacity: each call takes effect at one instant | - |
| `MpscRing` | `Ring_atomic_MPSC`, one step per atomic access | INSTANCE `BoundedFifo` (refinement) |
| `MpscRingProofs` | theorems | `MpscRing` |
| `ThreadPool`, `ThreadPoolProofs` | `Thread_pool` | - |
| `WjpStream` | abstract receiver: a stream of bytes, looked at once each, in order | - |
| `WjpEuclid`, `WjpEuclidProofs` | receiver and framing of `WJPv5.h` | INSTANCE `WjpStream` (refinement) |
| `Daemon`, `DaemonProofs` | `Daemon` | - |
| `DaemonCluster` | `Daemon_cluster` and its FreeRTOS task | EXTENDS `Daemon`: restarts are the daemon's own steps |
| `Dispenser`, `DispenserProofs` | `Dispenser` and its handles | - |
| `Madonna` | the program: main, bridge, GUI thread, commands, HonOpt docks and workers | - |
| `MadonnaProofs` | theorems of the GUI program, of its asset store, of the methods and grids it draws, and of its command line | `Madonna`, `GlAssets`, `Optim`, `Grid`, `FastCli`, `Commands` |
| `BoardDaemons` | WiFi and Thingsboard daemons, `Dynamic_task` | EXTENDS `Daemon`; INSTANCE `Daemon` (refinement) |
| `ServiceProofs` | theorems of the cluster and of the board: its daemons, sensors, relays and display | `DaemonCluster`, `BoardDaemons`, `Bmx280`, `Plc`, `DaemonProofs`; INSTANCE `DaemonProofs` |
| `Ports`, `PortsProofs` | serial port with its poll thread, sockets, table of descriptors | - |
| `FastCli`, `Commands`, `FastExp` | `Fast_cli`: lines and options, its command map; `Fast_exp` | - |
| `Grid`, `Optim` | `grid_t`; searches and descent steps | - |
| `GlAssets` | textures, render targets, payloads | - |
| `Bmx280`, `Plc` | the two sensors; the PLC board | - |
| `MCTools` | the eight modules above from `FastCli` on, one at work in a behaviour | EXTENDS all eight, `Commands` through `FastCli` |
| `MCWaiters` | a daemon or a pool of one worker, one at work in a behaviour | EXTENDS `Daemon`, `ThreadPool` |
| other `MC*` | constants for TLC | the module of that name |

Definitions marked `Mutant:` are not part of a specification: each is a
plausible mistake in the definition after it, and a property has to fail when it
takes that definition's place.

### State and actions against the code

**MpscRing.** `head`, `tail_push`, `tail_pop` and `buffer` are the members; each
producer has `pc`, `tail` (local of `push`) and `src` (its argument), the
consumer `cpc`, `chead`, `dst`. PushBegin is the first load, PushBusy/PushHead
the load of `_head` and the test, PushClaim/PushRetry the compare-exchange
(weak: it may fail for no reason), PushWrite the move into the slot and
PushPublish the store of `_tail_pop`; PopHead, PopDepleted, PopTail, PopRead and
PopAdvance are the loads, the move and the store of `pop`. Steps interleave;
weaker orders are not modelled (the acquire and release pairs order everything a
producer and the consumer exchange).

**ThreadPool.** `count`, `tasks` and the mutex are the members, `wpc` and `task`
the worker lambda, `ppc` the push of each task, `opc` the thread in `kill`.
PushEmplace, PushCount and PushNotify run under the mutex; WorkerWait,
WorkerLoad, WorkerSub, WorkerPop and WorkerRun are the lines of the lambda, so
the test of the counter and its decrement are two steps, as in the code. A
notification wakes every sleeper and a sleeper looks again.

**WjpEuclid.** `phs`, `mrk`, `len`, `crc`, `cnt` and `rxbuf` are the context.
`WJP_euclid_push` calls itself through `_wjp_euclid_relock_bof`; the pushes in
progress are `todo`, the bytes still to be consumed, inner pushes first. A byte
pushed out of `rxbuf` is on the agenda by its place, because the code reads it
only when its turn comes. Each phase of the switch is an action, its error
branches (CrcBad, LenTooLong) actions of their own. `Encode` is the frame
builder of the sender. `Misleads` says of a header whose length does not fit
that the relock it causes meets a BOF, among its own bytes or in `rxbuf`, where
none of its bytes is; `WjpStream` leaves open what such a header, or an empty
frame that fails, makes of the bytes before those that follow it (Stray).

**Daemon.** `state` is `_daemon_state`; `res` is what the hooks of the service
have acquired, the only thing assumed of them; `pc` is where each caller stands.
The compare-exchange, each hook and each store are separate steps. A refused
compare-exchange stores without notifying anybody, as in the code.

**DaemonCluster.** `register`, `bad`, `critical` are `_register`,
`_bad_rst_cnt`, `_crit.flag`; `step`, `todo` and `unseen` are the position of
`iterate_register`: the places of the register still to visit, and the
dependencies of the dock still to read, each state in a step of its own. The
register may be sorted in any order, so that what is proved does not rest on the
comparison of docks. The restart is `CallStop(Cluster, d, TRUE)` of `Daemon`,
run to its end by `Daemon`'s own steps; its answer is good when it ends in
StartProc and bad when it ends in StartRefused or FailStopped. The dependencies
are looked at in any order, which allows more than the order of the vector.
`moved` is a history: the daemons another thread has brought to another state
since the task began to look at the dependencies of the dock it visits.

**Dispenser.** `mode`, the mutex (`readers`, `writer`), `block`; `refs` and
`content` stand for the shared pointers. A handle is its `_disp` (kind), whether
it holds the lock or counts a use, and its own block. In Drop, the copy of the
published pointer is a load and a count (WatchLoad, WatchCount), and the
assignment reads the old block into a temporary, stores the new one and lets the
old one go (Publish, Store, LetGo; `temp` and `seen` are the temporary's), which
is what `std::shared_ptr` does. Nothing orders these steps between two threads,
as in the code; `raced` remembers that a store has overlapped a load or another
store. A moved Trylock watch becomes one that has not acquired; `forgot`
remembers the threads whose shared lock went that way.

**Madonna.** `status`, `register`, `docksLock`, `updating`, `plot` are
`_status`, `_docks` with its lock, and the members of the dock; `mainPc`,
`guiPc`, `cpc` and the worker variables are the positions of the threads.
MainStart to MainJoin are `start`, `wait_stop` and `stop`; GuiSetup, GuiLoop and
GuiExit are `Immersive::main`; GuiLock to GuiFrameEnd the frame, with CliFrame,
CliDrawn, HonWatch, HonUse, HonUsed, HonAsk and HonEnd inside it; Cmd* a
detached command thread; Task* a task of the pool, TaskStore being the
publication of the new plot and TaskCrash the use of a dock that has been
erased. A dispenser appears as what it promises (a lock; in Drop mode a pointer
copied at once, which finding 3 says it is not), the pool as a queue a worker
may take from at any time or never.

**BoardDaemons.** The state of `Daemon`, and `net`, `link`, `subs`, `handle`,
`exit`, `task`, `mark` for the station, the connection, the callbacks held, the
task's `_handle`, its exit bit, its position and `_fota_mark`. Each call a hook
makes that may fail is a step, in the order of the code; the refinement mapping
HookOf says in which hook of `Daemon` a caller stands. `Spins` is the task going
round its loop without a delay, at a priority above every other thread's
(core.hpp:100-101, thingsboard_daemon.hpp:210).

**Ports.** `table` is the kernel's; `port`, `loop`, `current` the serial port,
`sock`, `alive`, `anyAddr` each socket. A socket call is one step, with a
disjunct for every call of the kernel that may fail; the poll thread and the
client of the serial port take a step per system call, join and callback. `open`
assigns `_bytes_cb` (AssignCallback) before it starts the new loop and joins the
old one; `torn` marks a loop that was inside the callback at that moment.

**Tools.** `FastExp` reads a token per step (`_stack_rpn`), then resolves;
values are the terms they were computed by. `FastCli` reads a character per
step (`_split_cmd`) and answers an option per step (`stencil_t::next`).
`Commands` is the vector with bind, push, pop and the search of
`_consume_toks`. `Grid` samples a point per step of `apply`. `Optim` takes one
elimination or one step of a method at a time, in integers of a unit small
enough that the halvings are exact. `GlAssets` has the calls of `Tex`,
`Ren_target` and the payloads, over the set of names OpenGL has given out.
`Bmx280` keeps, instead of numbers, which conversion and calibration each part
of a reading comes from; `ready` remembers that `load_calibs` has returned OK.
`Plc` has `millis()` modulo `Wrap`, a relay's members,
the inputs and the display, and `since`, the time that has really passed.

## 3. Runs

| Run | Instance | Expected | Shows |
|---|---|---|---|
| `MpscRing_one` | 1 producer, 4 slots, 2 payloads | pass | the ring implements a bounded queue of 3, liveness included; no race |
| `MpscRing_two` | 2 producers | violation of `NoDataRace` | a later claim publishes first and the consumer reads an unfilled slot |
| `Waiters_wake` | 1 daemon and 3 callers, or a pool of 1 worker launched twice, 3 tasks, kill at any time | pass | every interleaving of start, stop, restart, wait; claims find their task, no lost wake-up, kill joins |
| `ThreadPool_two` | 2 workers | violation of `PopFindsTask` | the assertion of thread_pool.hpp:58 fails |
| `WjpEuclid_frames` | five contexts | pass | resynchronisation and round trip |
| `DaemonCluster_task` | 3 daemons, task and one other thread, 2 interferences | pass | dependencies, keep-alive, escalation, passes end |
| `Dispenser_modes` | 2 threads, 2 handles each, 3 blocks, 3 modes | pass | exclusion, and stable watches, no leak, no dangling handle up to what section 4 says |
| `Dispenser_drop` | the same, Drop | violation of `NeverDangling` | the block a watch has copied is freed before the watch counts it |
| `Madonna_session` | 1 HonOpt dock, 2 commands, 2 workers, 2 edits | pass | the whole program, from main to its end |
| `Ports_table` | 1 serial port with 2 poll threads, 2 sockets, 2 descriptors | pass | ownership of descriptors, ends of poll loops |
| `Board_services` | both daemons, 2 callers, 2 WiFi attempts | pass | the services refine `Daemon`; no leak, no shared device |
| `Tools_inputs` | see below | pass | the sequential tools against reference definitions |

Bounds and why they are enough:

- *Ring*: with 4 slots the indices wrap at every phase of push and pop and the
  queue is full, empty and in between; payloads are never inspected, so two
  values tell order and loss. The proofs lift the capacity.
- *Pool*: three tasks are enough for one running, one claimed and one arriving;
  each task is pushed once, by a thread of its own. A second launch after kill is
  in the run.
- *WJP*: bytes are drawn from the BOF, small lengths and the values of a
  two-valued checksum, so that every byte of a frame can be mistaken for every
  other part of one; frames of up to three payload bytes fill the buffer. One
  outermost push is in progress at a time: a context belongs to one receiving
  thread. Empty frames have a context of their own, and so have headers that do
  not fit: it carries a length of 4 over a buffer of 3, and one of its frames
  holds a BOF that stays in `rxbuf` for the next push. Noise is kept from
  spelling such a header there, since a relock that finds the header in `rxbuf`
  again may never return (section 4).
- *Daemon*: nothing in one daemon refers to another; three callers are one owner,
  one contender and one waiter or second contender.
- *Cluster*: a daemon, a dependent with a `rst_if` that may answer anything, and
  one that never starts with a limit of two. The other thread interferes at most
  `MaxCalls` = 2 times (a start, stop or restart of any daemon, a push or a pop
  of the register): with endless interference a dependent could be starved by
  stopping its dependency before every look, and nothing in the code prevents
  that. The count of a daemon without a limit is not kept: only `rst_if` reads it.
- *Madonna*: one dock that can be made, drawn, updated, closed and made again
  shows every overlap of its own threads with the frame (docks share nothing but
  the register, in which the CLI dock is the second); of two workers one can
  overtake the other; a command can install while another stops the program.
- *Ports*: two descriptors make the kernel give a number out again at once and
  run out; two poll threads are one that ends and one that begins.
- *Board*: the two threads contend for one daemon or drive one each; every call
  of a hook fails or not; the connection drops at any time.
- *Tools*: expressions of seven tokens hold every pattern of two operators
  around brackets and a call; lines of seven characters an escape inside quotes
  between two delimiters; five tokens over one option of each kind; maps of
  three commands, two of one name; grids of two to six points a side, with a
  span that goes down; functions with either sign of slope; three steps of each
  method; textures with two handles, a ring of two payloads, three nested
  targets; three conversions of a sensor; a clock that wraps at 8 with timeouts
  below and above half of it.
- *Dispenser*: three blocks let one be freed and made again while another is
  held; two handle variables let a handle be moved while a second is open.

`CHECK_DEADLOCK FALSE` stands where the system may stop: the pool after kill,
callers that need not call, a cluster that went critical, a tool that has
finished its input, threads of a dispenser that own a lock of which no handle
knows any more and may not lock again.

### Fairness

Always of threads that are inside a call, never of a call being made. *Ring*:
producers and the consumer are scheduled (weak); strong fairness of the
compare-exchange says that a weak compare-exchange does not fail for no reason
for ever. The GUI thread pops once per frame. *Pool*: threads in push, kill and
the worker loop run; the mutex is free again and again and each step of push is
short; tasks return. *WJP*: a push that has begun consumes its bytes. *Daemon*:
calls that have begun go on and hooks return; nobody has to call. *Cluster*: the
task comes back from `vTaskDelay`, and calls of others end. *Madonna*: the main,
GUI and command threads are scheduled; the workers are not, because the pool may
lose a task. *Ports*: poll threads are scheduled and a join goes on when it may;
nothing has to arrive. *Board*: the task goes on, since nothing has a higher
priority; calls that have begun go on, but not while the task spins, which may
keep a thread of lower priority off its core for as long as it does. So
`TbdSettles` promises the end of a start or a stop only if the stop is not held
up for ever before it sets the exit bit. A connection need not hold and no
firmware need be announced.

## 4. Findings

Refuted by a run, with the sentence of the repository they contradict quoted in
`PROJECT.json`:

1. `Ring_atomic_MPSC` is not safe with several producers: `_tail_pop` is
   published in the order producers finish (ringatomic.hpp:41).
2. `Thread_pool` with more than one worker claims a task twice
   (thread_pool.hpp:54-55); the worker that finds none ends, and the counter
   is left negative, which ends the others. Madonna launches four.
3. Drop mode copies and assigns a plain `std::shared_ptr` from two threads under
   no lock (dispenser.hpp:208, :307), as the watch of the GUI and the control of a
   worker do in hon-opt: the block is freed between the copy and its count.

Seen while modelling, and built into the models as the code has it:

- dispenser.hpp:264-271: the move constructor of a Trylock watch forgets that the
  watch has acquired, and its shared lock is never released (`forgot` in
  `NothingLeaks`). Nothing in the repository moves one yet.
- WJPv5.h:258: a header whose length does not fit pushes again bytes nobody
  received, and a BOF an older payload left in `rxbuf` can swallow the frame
  behind it: the test at :435 shows the frame delivered only over the buffer it
  happens to have (`Misleads` in `RoundTrip`).
- WJPv5.h:144: an empty frame that fails makes `_wjp_euclid_relock_bof` walk past
  `rxbuf` and push the checksum byte twice (`Stray` in `WjpStream`).
- WJPv5.h:150-163: if the bytes of `rxbuf` pushed again spell a header whose length
  does not fit, the relock of that header pushes them again, without end. Left
  out by the bounds of the run.
- core.hpp:100-101: the task of the Thingsboard daemon goes round without a delay
  at `configMAX_PRIORITIES - 1` once the daemon says STOPPING
  (thingsboard_daemon.hpp:210), so that a stop of lower priority on its core may
  never come to set the exit bit.
- IO_serial.cpp:393: `open` over an open port assigns `_bytes_cb` while the old
  poll loop may be calling it; :394 stops and joins that loop only afterwards.
- bme280.hpp:43-56: before its words are loaded a humidity computes to zero, where
  an uncalibrated pressure is marked `INVALID_PRESSURE`.
- hon-opt.cpp:529: closing the dock erases it while its task may still run
  (TaskCrash); nothing waits for `updating`. hon-opt.cpp:140: `memcmp` is given the
  value of a comparison as its length.
- daemon.hpp:164: two docks that depend on each other each come before the
  other, which is no order to sort by.
- bridge.hpp:234: a SIGINT before `start` stores its status is overwritten.
- Ports: `Serial::close` keeps its number when `::close` fails (:268) and leaves the
  poll thread running (:353); bind, connect, listen and accept over an open socket
  lose its descriptor (IO_sockets.cpp:260, :293, :349, :366).
- wifi_daemon.hpp:69: the last attempt is refused even if it succeeds, so a
  `vrf_cnt` of 1 never starts.
- madonna.hpp:602-609: the scale of a grid starts at the least positive number
  and never tries a positive first sample for its minimum, so that it is wrong
  for functions of one sign; :611-614 carries right in two dimensions only.
- immersive.hpp:63: a texture destroyed off the GL thread leaks its name.
- bmp280.hpp:150: a pressure asked for without the temperature is compensated
  with that of an earlier call.
- fastexp.hpp:122: a sign after a unary sign (`--2`) and a unary sign before a
  function (`-sin(x)`) drain the first before it has an operand, and read below
  the value stack.
- pro_mini_plc.hpp:102, :114: the display buffer starts at 0xff, beyond the table
  of segments.

## 5. Proofs

TLAPS checks these for every value of the constants; each module has a lemma for
the initial states and one step per action.

- **MpscRingProofs.** `TypeCorrect`: for any capacity and any number of
  producers, indices stay in the buffer. `OneProducerNoRace`: with at most one
  producer `NoDataRace` is invariant. It is not inductive: the step that makes a
  slot visible must be known to come after it was filled, so the invariant adds,
  for the producer, how its local tail and `_tail_pop` lag behind `_tail_push`
  in each step, and for the consumer that its local head is `_head` and the ring
  was not empty. `OneProducerIsFifo`: with one producer every access is a step of
  `BoundedFifo` or none, the safety part of `RingIsFifo`. The queue is the slots
  from the head to the published tail as a sequence, whose first payload is the
  consumer's once it has taken it out of its slot. `PayloadInv` adds that a
  producer about to publish has filled its slot, and the lemmas say what a push at
  the tail, a pop at the head and the wrap of an index do to that sequence.
- **ThreadPoolProofs.** `TypeCorrect` for any number of workers. With one
  worker, `OneWorkerFindsTask` and `OneWorkerStays`. `CountInv` bounds the
  counter by the queue: it is below its length by one for a push that has not
  counted yet and by one for a claim that has not popped yet. `LiveInv` says that
  before kill the counter is not negative and what the worker has seen still
  holds when it takes one off: the part that fails with a second worker.
- **DaemonProofs.** `TypeCorrect`, `HooksNeverOverlap`, `StateIsTrue` and the
  action property `StartsAlternateAlways`, for any daemons and callers.
  `OwnerInv`: a caller between its compare-exchange and its last store is the
  only one for its daemon, the state names its transition, and its step says
  what the hooks hold so far.
- **WjpEuclidProofs.** `TypeCorrect`: the context stays in its buffer and on its
  agenda for any format, wire and checksum function, lengths that do not fit
  included, as long as a relock after such a length reads no further than `limit`
  (`LimitCovers`: it reads as many places as the length says, WJPv5.h:258).
  `ReadsComeFirst` is `ReadBeforeWritten`: the bytes a relock pushes again are
  read out of `rxbuf` while the frames they start are received into it.
  `AgendaInv` says why that is safe: a byte of `rxbuf` at the place i of the
  agenda was received, and is at least so far along in `rxbuf` that the frame
  being received, which has a header in front, cannot write it before it is read.
  Failures may nest as deep as they like: each relock puts its bytes before what
  is left of the outer one. `ReceivesTheStream` is the safety part of
  `ResumesAfterBof`: every step is a step of `WjpStream` or none. What the
  receiver holds of a frame, followed by what the agenda reads, is the abstract
  stream; the lemmas say what a byte taken, a frame delivered and one given up
  do to that (`UnreadSplits`, `PushedBytes`), so that the bytes pushed again are
  those of the failed frame from the first BOF after its own. Both theorems are
  about contexts that are `Receivable`: what arrives is bytes of `Noise`, and
  every length those can spell fits in `rxlen`, as it always does with one length
  byte and 255 places; the refinement also needs that no frame with a checksum is
  empty (`NoEmptyFrame`). Without them a byte may come twice, or one that was
  never received (WJPv5.h:144, :258). Of the contexts TLC runs, `MCFull`, `MCBare`
  and `MCFixed` are of this kind; `MCZero` and `MCOverlong` are only
  model-checked, against the exceptions of `WjpStream`.
- **ServiceProofs.** Of the cluster: `DepsFirstAlways`: for any daemons,
  dependencies and order of the register, and whatever any number of other
  threads do, the cluster's start hook runs only over dependencies that are up,
  but for those another thread has moved since the task began to look at them.
  `DriveInv` is why: of the dependencies the task has counted, those nobody else
  has moved are still up when it restarts the dock, since its own call moves
  only the dock. `ClusterKeepsDaemons`: every step of the cluster and of the
  others is a step of `Daemon`, whose invariants therefore hold in it.
  `ClusterTypeCorrect` adds that between passes the task is in no call, that
  what it has still to visit is docked, and that no count is at its limit before
  the cluster is critical. Of the board: `BoardImplementsDaemon` (the safety
  part of `ImplementsDaemon`), `StateTellsBoardAlways`, `OneUsesDeviceAlways`
  and `BoardTypeCorrect`, for any threads and attempts. The module instantiates
  `DaemonProofs` under the refinement mapping, so that the owner of a transition
  is alone with its daemon by the theorems proved there; `DeviceInv` and
  `StationInv` add how much of the device a hook has made at each of its steps,
  whichever call fails next. `AlwaysMeasuredTogether` is the sensors' property
  for any calls and failures; its `ShotInv` says that the one shot that sleeps
  waits for the conversion that runs or for the one that has just ended, and
  `CalInv` that the calibration words come in their order, all of them before
  `load_calibs` returns OK, so that a humidity that has its words also has those
  of the temperature it is compensated with. `RelaysAndDigitsAlwaysHold` is that
  of the board: for a clock of any width, `RelayInv` says that the clock tells
  the time passed until it has gone round and that a relay that is on has not
  waited that long; `DisplayInv` which places the ticks since a write have been
  at.
- **DispenserProofs.** `TypeCorrect` and `ControlsAlone`, for any threads and
  handle variables. `MutexInv`: nobody shares with a writer, each handle that
  holds is known to the mutex, and a thread has one holding handle at most;
  without the last part releasing one handle could give back the lock of another.
  `ExactInv` says that the mutex is held for a handle, or for a Trylock watch
  that was moved and forgot it, and for the Drop mode `CountsInv` that, until a
  store has overlapped an access, the count of a block is the number of handles on
  it, of temporaries and of its publication: together `NothingLeaksAlways`.
  `QuietInv` says that until then a loaded block is the published one until it is
  counted, that one thread at most is in a store, and that the block of a control
  has no other owner; it gives `OnlyRacesDangleAlways` and `WatchStable`. None of
  the three assumes anything of the threads: the overlap is a step of the model,
  after which Drop promises nothing (finding 3).
- **MadonnaProofs.** `UpdatingAlwaysGuards`, `UnheldAlwaysAlive` and the action
  property `RegisterAlwaysStable`, for any docks, commands, workers and edits.
  `TasksInv`: a dock is in one task at most, queued or at a worker, so that the
  task that clears `updating` is the last one of the dock. `WatchInv` is what the
  unheld plot needs beyond it: once a plot was replaced under a frame's watch, no
  task is left that could replace the next one within that frame. `LockInv`
  keeps the register's lock with the loop that took it. For the asset store,
  `NamesAreOwnedAlways`: for any textures, targets, names and slots of the ring,
  no live name is in two places or in none. `StoreInv` says which fields a
  texture or a target of each state has set, that a bound payload is one of the
  ring, and that fields and the names left over off the GL thread are disjoint;
  `OwnedAdd`, `OwnedDrop` and `OwnedMove` are the three things a call does to
  that, and `FreshIs` that glGen* gives a name nobody has. For the methods,
  `OptimumAlwaysKept`: for any strict valleys, quadratics, intervals and starts.
  `SearchInv` keeps the width with which an elimination step is above half of the
  interval, so that the inner points stay in order, and for the other search the
  ratio of its Fibonacci numbers between 3/5 and 2/3; `ValleyLeft` says on which
  side of them the minimum is. `GradientIs` and `HessianIs` say that the
  differences are exact on a quadratic, and the rest is one identity
  (`NewtonPoint`); `NelderStep` keeps the best vertex whatever replaces the worst.
  For the grids, `GridAlwaysWhole`: for any two spans of any counts. `SampledInv`
  ties the odometer of `apply` to the place in the field, `CellIs` and `RowColumn`
  say that a place has one row and one column, and `ScaleInv` what of the samples
  the minimum and maximum have seen.
  For the command line, three theorems that `LinesAlwaysUnderstood` puts together,
  the run's `LinesAreUnderstood`. `CommandsAlwaysFound`, for any names and
  any number of commands: `CommandsInv` keeps the map in order, the identities
  below `born`, and of two commands of a name the later pushed in front;
  `LowerBoundIs` says that the binary search ends, whatever the map, since its
  ranges shrink (`HalvesAre`), and that in a map in order it parts the names
  below from the others. The first push, of "man" into a map not sorted yet,
  needs the one fact without the other. `SplitAlwaysAsWritten`, for lines of any
  length: `SplitInv` says that what has been read never leaves an escape open,
  that `crtTok` is what has been said since the last delimiter, and that `pieces`
  has, by rank, what is said between the delimiters before; `ContinuesSame` is
  why that stays as the line grows: what a character means depends on those
  before it only. `CharStays` and `CharCuts` are the two things a character may
  do, `EscapeChars` does the first twice. `EveryTokenAlwaysOnce`, for any options
  and tokens: `OptionsInv` says that what `next` has returned is spelled by the
  tokens used so far; `TakenIs` that an option takes tokens in a row.
- **PortsProofs.** `OneOwnerAlways`, `LoopsEndAlways` and the action property
  `LostOnlyByOverwriteAlways`, with `TypeCorrect`, for any sockets, poll threads
  and descriptors, whatever calls of the kernel fail. `UnmadeInv` says that a
  socket not made yet holds no number, or making it would lose one. `LoopsInv`:
  `_poll_th` has the loops that are about, and outside the join of `open` that
  is one; inside it there may be two, of which the first has been stopped, so
  that the property alone would not be inductive. `TornInv` says that a loop
  inside a call of the callback that was assigned under it is one the open still
  has to join. That a free number exists whenever the kernel gives one out is a
  lemma on least naturals.

The assumptions on constants are the `ASSUME`s of the modules; TLC evaluates them
in every run. They say only what makes the constants meaningful: a capacity
above zero, null values outside their sets and unlike the names of threads, no
daemon that depends on itself, a limit of bad restarts above zero, timeouts that
end, with the longest time between two ticks, before `millis()` laps, grids of two
dimensions (all the dock makes), names of commands that are ordered, "man" among
them, tokens that begin with none, one or two dashes, and searches that end at a
width of nine units or more: below that the rounding of a step may leave its inner
points in one place.

Only model-checked: everything under fairness (the liveness parts of `RingIsFifo`,
`ImplementsDaemon` and `ResumesAfterBof`, and `RoundTrip`, `PushedRuns`,
`KillReturns`, `WaiterWakes`, `ComesToRest`, `KeptAlive`, `Escalates`, `PassEnds`,
`StopEndsProgram`, `StopIsSeen`, `TbdSettles`, `AnnouncedIsTried`), since TLAPS
does not reason about ENABLED; and `ComputedAsWritten`, whose meaning of an
expression is a RECURSIVE operator. Of the refuted properties two are proved where
they do hold, `NoDataRace` for one producer and `PopFindsTask` for one worker; of
`NeverDangling` a weaker form is, `OnlyRacesDangle`.

## 6. What is not modelled

Inside modelled components: exceptions of `Thread_pool::push` and `launch`
(no memory, no thread); checksums of two and three bytes, which `WJPv5.h` never
validates, and contexts without a buffer; hooks that call the daemon they belong
to; a critical callback that calls its cluster (it would wait for itself);
`Dispenser` modes the file says not to use (:17) and the accessors that go round
its handles.

The newer modules: in `Madonna` the drawing, the numerics and what commands
print; in `BoardDaemons` suspend and resume of a task and `send_*` from threads
other than the task; in `Ports` the bytes, termios, `COM_ports` and the Windows
branches; in the tools the values of real functions: `Fast_exp` computes terms,
`Optim` integers, `Bmx280` provenance. Steepest descent, conjugate gradients,
quasi-Newton and penalty steps of the dock divide by norms and have no exact
integer counterpart. `Plc` sets a timeout only on a relay that is off, and ticks
more often than `millis()` laps a timeout.

Hazards known and not covered by a property: a launch after kill finds the
counter poisoned (thread_pool.hpp:47); `daemon_restart` goes on to its start
whatever its stop answered (daemon.hpp:106); a refused restart counts as a bad one
(daemon.hpp:228); a critical callback that calls its cluster waits for itself
(daemon.hpp:187); a push that throws leaves `updating` set (hon-opt.cpp:528); the
outputs of commands land in the order they finish (cli.cpp:184);
`encode_slide_when_corrupt` need not end (wjp_euclid.hpp:104); `eject` links the
wrong block (block_diffuser.hpp:86); every handle of a `Dispenser2` in Drop mode
shares one reference (dispenser2.hpp:66).

Whole components: see the status and note of each in `PROJECT.json`. Those left
out are without a caller in the repository, not compiled (`hyper_net`, `render3`),
or single register accesses and formatting.

## 7. Plan

1. **Done**: the concurrent core (`MpscRing`, `ThreadPool`, `WjpEuclid`, `Daemon`,
   `DaemonCluster`, `Dispenser`) with its first theorems.
2. **Done**: `Madonna`, `BoardDaemons`, `Ports` and the tools.
3. **Done**: the safety properties of every concurrent component, the safety part
   of the refinements of `BoundedFifo`, `WjpStream` and `Daemon`, and of the
   sequential tools all but the order of operators in `Fast_exp`.
4. Modules that would come next: `WJP_euclid_MVC8`, `Block_diffuser`, `Dispenser2`
   once they have callers; `COM_ports`.
