------------------------------- MODULE Madonna -------------------------------
(* The madonna program: main.cpp, the bridge (bridge.hpp) with its register  *)
(* of docks, the Immersive loop that runs in a thread of its own             *)
(* (immersive.cpp), the command line dock with its detached threads          *)
(* (docks/cli.cpp) and the hon-opt docks, each with a plot that a worker     *)
(* rebuilds and the GUI draws (docks/hon-opt.cpp).                           *)
(*                                                                           *)
(* The workers are the threads of Thread_pool, taken here as threads that    *)
(* may take the first task at any time or never: ThreadPool has the pool's   *)
(* own steps.  The plot of a dock is a Dispenser in Drop mode whose copies   *)
(* are taken in one step: Dispenser has the race within the copy.  The       *)
(* numerics and the drawing of a frame are left out.                         *)
EXTENDS Naturals, Sequences, FiniteSets, Functions

CONSTANTS Docks,     \* the hon-opt docks that may be made
          Cli,       \* the command line dock, installed before main
          Cmds,      \* the detached command threads
          Workers,   \* the threads of the pool
          MaxTyped,  \* bound on the edits of expressions
          None

ASSUME MadonnaAssumption == /\ Cli \notin Docks
                            /\ None \notin Docks \union {Cli} \union Cmds
                            /\ None \notin {"main", "gui"}
                            /\ MaxTyped \in Nat

VARIABLES status,    \* _status: "OK" or "TERMINATED"
          mainPc,    \* where main() is
          toWake,    \* the docks start has still to wake
          register,  \* the docks in _docks
          erased,    \* the docks that have been in _docks and are freed
          docksLock, \* who has _docks: None, "main", "gui" or a command
          guiPc,     \* where the GUI thread is
          left,      \* the docks guix_frame has still to draw
          cur,       \* the dock that is drawn
          held,      \* what the frame's watch of the plot holds
          bare,      \* the plot that is used with no handle
          newExp,    \* new_exp of the frame
          typed,     \* in_exp of each dock; 0 is the empty text
          plot,      \* ex of each dock: the text it was built from, 0 if none
          updating,  \* updating of each dock
          tasks,     \* the pushed tasks, each named by the dock it captures
          wpc,       \* where each worker is
          wdock,     \* the dock of its task
          wver,      \* the text its new plot is built from
          cpc        \* where each command thread is

boot   == <<status, mainPc, toWake>>
docks  == <<register, erased, docksLock>>
gui    == <<guiPc, left, cur, held, bare, newExp>>
plots  == <<typed, plot, updating>>
pool   == <<tasks, wpc, wdock, wver>>
vars   == <<boot, docks, gui, plots, pool, cpc>>

Init == /\ status = "TERMINATED" /\ mainPc = "init" /\ toWake = {}
        /\ register = {Cli} /\ erased = {} /\ docksLock = None
        /\ guiPc = "off" /\ left = {} /\ cur = None
        /\ held = "no" /\ bare = "no" /\ newExp = FALSE
        /\ typed = [d \in Docks |-> 0]
        /\ plot = [d \in Docks |-> 0]
        /\ updating = [d \in Docks |-> FALSE]
        /\ tasks = <<>>
        /\ wpc = [w \in Workers |-> "off"]
        /\ wdock = [w \in Workers |-> None]
        /\ wver = [w \in Workers |-> 0]
        /\ cpc = [c \in Cmds |-> "new"]

-----------------------------------------------------------------------------
(* start, wait_stop and stop, called by main. *)

\* Mutant: the sleeper is not notified.
SignalSilently(pc) ==
  /\ status' = "TERMINATED"
  /\ mainPc' = pc

\* signal_stop: the store, and notify_all at once after it; pc is where main
\* goes on from.  Main sleeps only in wait_stop.
SignalStop(pc) ==
  /\ status' = "TERMINATED"
  /\ mainPc' = IF pc = "asleep" THEN "wait" ELSE pc

\* start: the status, then the GUI thread.
MainStart ==
  /\ mainPc = "init"
  /\ status' = "OK"
  /\ guiPc' = "setup"
  /\ mainPc' = "watch"
  /\ UNCHANGED <<toWake, docks, left, cur, held, bare, newExp, plots, pool,
                 cpc>>

\* Mutant: the docks are woken with no watch on the register.
MainNoWatch ==
  /\ mainPc = "watch"
  /\ toWake' = register
  /\ mainPc' = "wake"
  /\ UNCHANGED <<status, docks, gui, plots, pool, cpc>>

MainWatch ==
  /\ mainPc = "watch"
  /\ docksLock = None
  /\ docksLock' = "main"
  /\ toWake' = register
  /\ mainPc' = "wake"
  /\ UNCHANGED <<status, register, erased, gui, plots, pool, cpc>>

\* wake of the command line dock starts a thread for each argument; the other
\* docks have nothing to do.
MainWake(d) ==
  /\ mainPc = "wake"
  /\ d \in toWake
  /\ toWake' = toWake \ {d}
  /\ \E S \in SUBSET {c \in Cmds : d = Cli /\ cpc[c] = "new"} :
       cpc' = [c \in Cmds |-> IF c \in S THEN "run quietly" ELSE cpc[c]]
  /\ UNCHANGED <<status, mainPc, docks, gui, plots, pool>>

\* The watch is released and the workers are launched.
MainLaunch ==
  /\ mainPc = "wake"
  /\ toWake = {}
  /\ docksLock' = IF docksLock = "main" THEN None ELSE docksLock
  /\ wpc' = [w \in Workers |-> "idle"]
  /\ mainPc' = "wait"
  /\ UNCHANGED <<status, toWake, register, erased, gui, plots, tasks, wdock,
                 wver, cpc>>

\* wait_stop: sleeps while the status is OK, then stops and joins the GUI.
MainWait ==
  /\ mainPc = "wait"
  /\ IF status = "OK"
     THEN mainPc' = "asleep" /\ status' = status
     ELSE SignalStop("join")
  /\ UNCHANGED <<toWake, docks, gui, plots, pool, cpc>>

MainJoin ==
  /\ mainPc = "join"
  /\ guiPc = "ended"
  /\ mainPc' = "done"
  /\ UNCHANGED <<status, toWake, docks, gui, plots, pool, cpc>>

\* SIGINT: the handler is there before start.
SigInt ==
  /\ SignalStop(mainPc)
  /\ UNCHANGED <<toWake, docks, gui, plots, pool, cpc>>

-----------------------------------------------------------------------------
(* Immersive::main, and the bridge's guix_frame around the docks. *)

\* The window is made, or it is not and the thread ends with no callback.
GuiSetup ==
  /\ guiPc = "setup"
  /\ guiPc' \in {"loop", "ended"}
  /\ UNCHANGED <<boot, docks, left, cur, held, bare, newExp, plots, pool,
                 cpc>>

\* The head of the loop: the user may have closed the window.  guix_frame
\* answers TERMINATED once the status is, and the loop ends as well.
GuiLoop ==
  /\ guiPc = "loop"
  /\ \/ guiPc' = "exit"
     \/ guiPc' = IF status = "OK" THEN "lock" ELSE "exit"
  /\ UNCHANGED <<boot, docks, left, cur, held, bare, newExp, plots, pool,
                 cpc>>

GuiLock ==
  /\ guiPc = "lock"
  /\ docksLock = None
  /\ docksLock' = "gui"
  /\ left' = register
  /\ guiPc' = "next"
  /\ UNCHANGED <<boot, register, erased, cur, held, bare, newExp, plots, pool,
                 cpc>>

GuiNext(d) ==
  /\ guiPc = "next"
  /\ d \in left
  /\ cur' = d
  /\ left' = left \ {d}
  /\ guiPc' = IF d = Cli THEN "cli" ELSE "hon"
  /\ UNCHANGED <<boot, docks, held, bare, newExp, plots, pool, cpc>>

GuiFrameEnd ==
  /\ guiPc = "next"
  /\ left = {}
  /\ docksLock' = IF docksLock = "gui" THEN None ELSE docksLock
  /\ guiPc' = "loop"
  /\ UNCHANGED <<boot, register, erased, left, cur, held, bare, newExp, plots,
                 pool, cpc>>

\* exit_cb signals the stop; then the window is destroyed and the thread ends.
GuiExit ==
  /\ guiPc = "exit"
  /\ SignalStop(mainPc)
  /\ guiPc' = "ended"
  /\ UNCHANGED <<toWake, docks, left, cur, held, bare, newExp, plots, pool,
                 cpc>>

-----------------------------------------------------------------------------
(* The frame of the command line dock, and its threads. *)

\* Enter starts a thread.  The output is in Trylock mode: it is drawn, unless
\* a thread is just moving its answer in.
CliFrame ==
  /\ guiPc = "cli"
  /\ \/ cpc' = cpc
     \/ \E c \in Cmds : cpc[c] = "new" /\ cpc' = [cpc EXCEPT ![c] = "run"]
  /\ \/ guiPc' = "drawn"
     \/ (\E c \in Cmds : cpc[c] = "out") /\ guiPc' = "next"
  /\ UNCHANGED <<boot, docks, left, cur, held, bare, newExp, plots, pool>>

CliDrawn ==
  /\ guiPc = "drawn"
  /\ guiPc' = "next"
  /\ UNCHANGED <<boot, docks, left, cur, held, bare, newExp, plots, pool, cpc>>

\* After the command: a thread the wake started has no output.
Answer(c) == IF cpc[c] = "run quietly" THEN "gone" ELSE "out"

\* Any command but the two below: it touches the interpreter's own data.
CmdOther(c) ==
  /\ cpc[c] \in {"run", "run quietly"}
  /\ cpc' = [cpc EXCEPT ![c] = Answer(c)]
  /\ UNCHANGED <<boot, docks, gui, plots, pool>>

\* progctl --exit
CmdExit(c) ==
  /\ cpc[c] \in {"run", "run quietly"}
  /\ SignalStop(mainPc)
  /\ cpc' = [cpc EXCEPT ![c] = Answer(c)]
  /\ UNCHANGED <<toWake, docks, gui, plots, pool>>

\* proxy-pass hon-opt install: proxy_pass gives the register of proxies back
\* before the proxy makes a dock and installs it.
CmdProxy(c) ==
  /\ cpc[c] \in {"run", "run quietly"}
  /\ cpc' = [cpc EXCEPT ![c] = IF cpc[c] = "run" THEN "install"
                                                 ELSE "install quietly"]
  /\ UNCHANGED <<boot, docks, gui, plots, pool>>

\* The id is the name and the second: a dock that finds its id taken, by
\* another hon-opt of the same second, is freed and leaves nothing.
CmdInstall(c) ==
  /\ cpc[c] \in {"install", "install quietly"}
  /\ docksLock = None
  /\ \/ \E d \in Docks \ (register \union erased) :
          register' = register \union {d}
     \/ register \intersect Docks # {} /\ register' = register
  /\ cpc' = [cpc EXCEPT ![c] = IF cpc[c] = "install" THEN "out" ELSE "gone"]
  /\ UNCHANGED <<boot, erased, docksLock, gui, plots, pool>>

\* The output: control waits for the frame that draws it, then moves it in.
CmdOut(c) ==
  /\ cpc[c] = "out"
  /\ guiPc # "drawn"
  /\ cpc' = [cpc EXCEPT ![c] = "gone"]
  /\ UNCHANGED <<boot, docks, gui, plots, pool>>

-----------------------------------------------------------------------------
(* The frame of a hon-opt dock. *)

\* The edits so far, over all docks.
Edited == FoldFunctionOnSet(+, 0, typed, Docks)

\* The watch, then the input line: edited or not, entered or not.
HonWatch ==
  /\ guiPc = "hon"
  /\ held' = IF plot[cur] = 0 THEN "no" ELSE "current"
  /\ \/ typed' = typed
     \/ Edited < MaxTyped /\ typed' = [typed EXCEPT ![cur] = @ + 1]
  /\ newExp' \in BOOLEAN
  /\ guiPc' = IF plot[cur] = 0 THEN "ask" ELSE "use"
  /\ UNCHANGED <<boot, docks, left, cur, bare, plot, updating, pool, cpc>>

\* compute_gradient and compute_hessian reach the plot of the moment through
\* this->ex, with no handle.
HonUse ==
  /\ guiPc = "use"
  /\ bare' = IF held = "current" THEN "held" ELSE "bare"
  /\ guiPc' = "using"
  /\ UNCHANGED <<boot, docks, left, cur, held, newExp, plots, pool, cpc>>

\* The use ends: it stands for any one of the frame's, at any time of it.  New
\* limits of the plot count as a new expression.
HonUsed ==
  /\ guiPc = "using"
  /\ bare' = "no"
  /\ guiPc' = "ask"
  /\ newExp' \in {newExp, TRUE}
  /\ UNCHANGED <<boot, docks, left, cur, held, plots, pool, cpc>>

\* Mutant: a task is pushed whatever updating is.
HonAskAlways ==
  /\ guiPc = "ask"
  /\ IF newExp /\ Len(tasks) < 2
     THEN /\ updating' = [updating EXCEPT ![cur] = TRUE]
          /\ tasks' = Append(tasks, cur)
     ELSE UNCHANGED <<updating, tasks>>
  /\ guiPc' = "end"
  /\ UNCHANGED <<boot, docks, left, cur, held, bare, newExp, typed, plot, wpc,
                 wdock, wver, cpc>>

\* The exchange on updating, then the push, which may fail unnoticed.
HonAsk ==
  /\ guiPc = "ask"
  /\ IF newExp /\ ~updating[cur]
     THEN /\ updating' = [updating EXCEPT ![cur] = TRUE]
          /\ tasks' \in {tasks, Append(tasks, cur)}
     ELSE UNCHANGED <<updating, tasks>>
  /\ guiPc' = "end"
  /\ UNCHANGED <<boot, docks, left, cur, held, bare, newExp, typed, plot, wpc,
                 wdock, wver, cpc>>

\* The frame returns: the watch goes, and erase_if takes a closed dock out of
\* the register, which frees it.
HonEnd ==
  /\ guiPc = "end"
  /\ held' = "no"
  /\ newExp' = FALSE
  /\ \/ UNCHANGED <<register, erased>>
     \/ register' = register \ {cur} /\ erased' = erased \union {cur}
  /\ cur' = None
  /\ guiPc' = "next"
  /\ UNCHANGED <<boot, docksLock, left, bare, plots, pool, cpc>>

-----------------------------------------------------------------------------
(* The task of a hon-opt dock, run by a worker. *)

\* Mutant: updating is cleared before the plot is built.
TaskTakeClear(w) ==
  /\ wpc[w] = "idle"
  /\ tasks # <<>>
  /\ wdock' = [wdock EXCEPT ![w] = Head(tasks)]
  /\ tasks' = Tail(tasks)
  /\ updating' = [updating EXCEPT ![Head(tasks)] = FALSE]
  /\ wpc' = [wpc EXCEPT ![w] = "task"]
  /\ UNCHANGED <<boot, docks, gui, typed, plot, wver, cpc>>

TaskTake(w) ==
  /\ wpc[w] = "idle"
  /\ tasks # <<>>
  /\ wdock' = [wdock EXCEPT ![w] = Head(tasks)]
  /\ tasks' = Tail(tasks)
  /\ wpc' = [wpc EXCEPT ![w] = "task"]
  /\ UNCHANGED <<boot, docks, gui, plots, wver, cpc>>

\* control: a new plot is built from the text as it is now, if there is one.
TaskBuild(w) ==
  /\ wpc[w] = "task"
  /\ wver' = [wver EXCEPT ![w] = typed[wdock[w]]]
  /\ wpc' = [wpc EXCEPT ![w] = IF typed[wdock[w]] = 0 THEN "clear" ELSE "store"]
  /\ UNCHANGED <<boot, docks, gui, plots, tasks, wdock, cpc>>

\* The release publishes the new plot and lets the old one go: it lives on
\* only through the watch of a frame.
TaskStore(w) ==
  /\ wpc[w] = "store"
  /\ plot' = [plot EXCEPT ![wdock[w]] = wver[w]]
  /\ IF cur = wdock[w]
     THEN /\ held' = IF held = "current" THEN "old" ELSE held
          /\ bare' = IF bare = "bare" THEN "freed" ELSE bare
     ELSE UNCHANGED <<held, bare>>
  /\ wpc' = [wpc EXCEPT ![w] = "clear"]
  /\ UNCHANGED <<boot, docks, guiPc, left, cur, newExp, typed, updating, tasks,
                 wdock, wver, cpc>>

TaskClear(w) ==
  /\ wpc[w] = "clear"
  /\ updating' = [updating EXCEPT ![wdock[w]] = FALSE]
  /\ wpc' = [wpc EXCEPT ![w] = "idle"]
  /\ wdock' = [wdock EXCEPT ![w] = None]
  /\ wver' = [wver EXCEPT ![w] = 0]
  /\ UNCHANGED <<boot, docks, gui, typed, plot, tasks, cpc>>

\* The dock was freed under the task: the access may end the process.
TaskCrash(w) ==
  /\ wpc[w] \in {"task", "store", "clear"}
  /\ wdock[w] \in erased
  /\ mainPc' = "crashed"
  /\ UNCHANGED <<status, toWake, docks, gui, plots, pool, cpc>>

-----------------------------------------------------------------------------

MainSteps == \/ MainStart \/ MainWatch \/ MainLaunch \/ MainWait \/ MainJoin
             \/ \E d \in register : MainWake(d)
GuiSteps == \/ GuiSetup \/ GuiLoop \/ GuiLock \/ GuiFrameEnd \/ GuiExit
            \/ \E d \in register : GuiNext(d)
            \/ CliFrame \/ CliDrawn
            \/ HonWatch \/ HonUse \/ HonUsed \/ HonAsk \/ HonEnd
CmdSteps(c) == \/ CmdOther(c) \/ CmdExit(c) \/ CmdProxy(c) \/ CmdInstall(c)
               \/ CmdOut(c)
WorkerSteps(w) == \/ TaskTake(w) \/ TaskBuild(w) \/ TaskStore(w)
                  \/ TaskClear(w) \/ TaskCrash(w)

\* When main has returned, or the process has crashed, nothing runs on.
Ended == mainPc \in {"done", "crashed"}

Next == \/ ~Ended /\ \/ MainSteps \/ SigInt \/ GuiSteps
                     \/ \E c \in Cmds : CmdSteps(c)
                     \/ \E w \in Workers : WorkerSteps(w)
        \/ Ended /\ UNCHANGED vars

\* Every started thread is scheduled.  The workers get no fairness: the pool
\* may lose a task.
Fairness == /\ WF_vars(~Ended /\ MainSteps)
            /\ WF_vars(~Ended /\ GuiSteps)
            /\ \A c \in Cmds : WF_vars(~Ended /\ CmdSteps(c))

Spec == Init /\ [][Next]_vars /\ Fairness

-----------------------------------------------------------------------------

TypeOK ==
  /\ status \in {"OK", "TERMINATED"}
  /\ register \subseteq Docks \union {Cli}
  /\ erased \subseteq Docks
  /\ docksLock \in {None, "main", "gui"} \union Cmds
  /\ held \in {"no", "current", "old"}
  /\ bare \in {"no", "held", "bare", "freed"}
  /\ typed \in [Docks -> 0..MaxTyped]
  /\ plot \in [Docks -> 0..MaxTyped]
  /\ updating \in [Docks -> BOOLEAN]
  /\ tasks \in Seq(Docks)
  /\ wdock \in [Workers -> Docks \union {None}]

InFlight(d) == \/ \E i \in 1..Len(tasks) : tasks[i] = d
               \/ \E w \in Workers : wdock[w] = d

\* While a task holds a dock by its bare `this`, from the push to its last
\* store, updating says so: a dock that waited for updating could be closed
\* safely (hon-opt.cpp:528-532).
UpdatingGuardsDock ==
  \A d \in Docks : InFlight(d) => updating[d]

\* The plot that compute_gradient and compute_hessian reach through this->ex,
\* with no handle on it (hon-opt.cpp:84-90), is never freed under them,
\* although a worker replaces plots while they run.
UnheldIsAlive == bare # "freed"

\* The loop of guix_frame over the docks.
Drawing == guiPc \in {"next", "cli", "drawn", "hon", "use", "using", "ask",
                      "end"}

\* While start wakes the docks, or a frame draws them, nobody else changes
\* the register under the loop, and a frame takes out only the dock it has
\* just drawn (bridge.hpp:257-264, :312-319).
RegisterIsStable ==
  [][register' # register =>
       /\ mainPc # "wake"
       /\ Drawing => guiPc = "end" /\ register' = register \ {cur}]_vars

\* A stop that is signalled once start has begun, by SIGINT, by a command or
\* by the window being closed, ends the program, whatever frames, wakes and
\* commands are under way (bridge.hpp:143, :272-282; immersive.cpp:205-254).
StopEndsProgram ==
  (status = "TERMINATED" /\ mainPc # "init") ~> Ended
=============================================================================
